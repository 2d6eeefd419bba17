-------------------------------- MODULE Ddns --------------------------------
(* The built-in DDNS (src/ddns): a worker thread and requests that run an    *)
(* update, the configuration file they load, the status they leave, and,     *)
(* outside the program, the provider's records and the line's public         *)
(* addresses, which the provider of the line may change at any moment.       *)
(*                                                                           *)
(* An update reads and writes records call by call, over the network: two    *)
(* updates interleave between any two calls, and the address may have        *)
(* changed since it was detected.  The worker never ends: that is what       *)
(* repairs whatever an update left behind.                                   *)
EXTENDS DdnsProviders, FiniteSets

CONSTANTS
    Worker,         \* the ddns-worker thread
    Requests,       \* threads of POST /api/ddns/run and of "restart"
    Names,          \* host names, Own among them
    Addr4, Addr6,   \* public addresses the line may have
    Bodies,         \* what the settings page sends
    Initial,        \* what the file holds first
    MaxDisturb      \* bound: failing calls, changes of the line's addresses and
                    \* of the configuration, and restarts, taken together

Updaters  == {Worker} \cup Requests
Types     == {"A", "AAAA"}
Addresses == Addr4 \cup Addr6

Defaults == [enabled |-> FALSE, provider |-> "trafficroute", creds |-> FALSE,
             own |-> FALSE, v4 |-> TRUE, v6 |-> FALSE, dom4 |-> << >>,
             dom6 |-> << >>, nested4 |-> << >>, nested6 |-> << >>]

ASSUME DdnsAssumption ==
    /\ Worker \notin Requests
    /\ Own \in Names
    /\ NoAddress \notin Addresses
    /\ Initial \subseteq Config(Seq(Names))
    \* every field that is sent has a value of its kind
    /\ \A body \in Bodies :
         [f \in DOMAIN Defaults |-> IF f \in DOMAIN body THEN body[f] ELSE Defaults[f]]
           \in Config(Seq(Names))
    /\ MaxDisturb \in Nat

VARIABLES
    file,       \* the last contents, and whether they are whole or truncated
    edit,       \* the settings request: its control point and what it will write
    status,     \* ddns.state: last_error set?, last_ok set?, last_v4, last_v6
    job,        \* per updater: control point, configuration, addresses, calls left
    public,     \* the addresses of the line now
    records,    \* the provider's records, by name and type, oldest first
    overlapped, \* two updates have been at the provider at the same time
    misread,    \* the records that a reading was refused for, and taken as absent
    disturbed   \* how much of the bound has been used

ddnsVars == <<file, edit, status, job, public, records, overlapped, misread, disturbed>>

\* What the network, the line, the administrator and the process do to the
\* updates: so much of it, in any mixture.
Disturb == disturbed < MaxDisturb /\ disturbed' = disturbed + 1

(* What load_config makes of the file: a file that cannot be parsed is the   *)
(* default configuration, which is disabled.                                 *)
load_config == IF file.whole THEN file.cfg ELSE Defaults

IdleJob == [pc |-> "idle", cfg |-> Defaults, a4 |-> NoAddress, a6 |-> NoAddress,
            failed |-> FALSE, todo |-> << >>, seen |-> 0, held |-> {}]

DdnsInit ==
    /\ file \in [whole : {TRUE}, cfg : Initial]
    /\ edit = [pc |-> "idle", cfg |-> Defaults]
    /\ status = [error |-> FALSE, ok |-> FALSE, v4 |-> NoAddress, v6 |-> NoAddress]
    /\ job = [u \in Updaters |-> IdleJob]
    /\ public \in [v4 : Addr4, v6 : Addr6]
    /\ records = [k \in Names \X Types |-> << >>]
    /\ overlapped = FALSE
    /\ misread = {}
    /\ disturbed = 0

Key(c)   == <<c.name, c.type>>
Holds(c) == records[Key(c)] # << >> /\ records[Key(c)][1] = c.ip
set_ok(a4, a6) == [error |-> FALSE, ok |-> TRUE,
                   v4 |-> IF a4 = NoAddress THEN status.v4 ELSE a4,
                   v6 |-> IF a6 = NoAddress THEN status.v6 ELSE a6]
set_error == [status EXCEPT !.error = TRUE]

JobGoes(u, j) == job' = [job EXCEPT ![u] = j]
JobEnds(u)    == JobGoes(u, IdleJob)
AtProvider(u) == job[u].pc \in {"read", "write"}

-----------------------------------------------------------------------------
(* do_update_once, up to its first call over the network.                    *)
Begin(u) ==
    /\ job[u].pc = "idle"
    /\ LET cfg == load_config
       IN  /\ validate_config(cfg)
           /\ cfg.provider # "ddnsgo"
           /\ JobGoes(u, [IdleJob EXCEPT !.pc = "fetch4", !.cfg = cfg])
    /\ UNCHANGED <<file, edit, status, public, records, overlapped, misread, disturbed>>

\* ddns-go runs outside: the update is a ping of its page.
Ping(u) ==
    /\ job[u].pc = "idle"
    /\ validate_config(load_config) /\ load_config.provider = "ddnsgo"
    /\ \/ status' = set_ok(NoAddress, NoAddress) /\ UNCHANGED disturbed
       \/ status' = set_error /\ Disturb
    /\ UNCHANGED <<file, edit, job, public, records, overlapped, misread>>

(* The chain of URLs, those of the form before the built-in ones, gives for  *)
(* each an address, or None for an error, an answer without a public address *)
(* or a private one; the first address wins.                                 *)
FirstAddress(answers) ==
    LET found == {i \in DOMAIN answers : answers[i] # NoAddress}
    IN  IF found = {} THEN NoAddress
        ELSE answers[CHOOSE i \in found : \A k \in found : i <= k]
get_public_ipv4(answers) == FirstAddress(answers)
get_public_ipv6(answers) == FirstAddress(answers)
Answers(a) == {<<a, a>>, <<NoAddress, a>>, <<NoAddress, NoAddress>>}

Fetch4(u) ==
    /\ job[u].pc = "fetch4"
    /\ \/ /\ job[u].cfg.v4
          /\ \E answers \in Answers(public.v4) :
               LET a == get_public_ipv4(answers)
               IN  /\ JobGoes(u, [job[u] EXCEPT !.pc = "fetch6", !.a4 = a,
                                                 !.failed = (a = NoAddress)])
                   /\ IF a = NoAddress THEN Disturb ELSE UNCHANGED disturbed
       \/ /\ ~job[u].cfg.v4
          /\ JobGoes(u, [job[u] EXCEPT !.pc = "fetch6"])
          /\ UNCHANGED disturbed
    /\ UNCHANGED <<file, edit, status, public, records, overlapped, misread>>

\* The provider is asked unless no address is there and one was wanted.
Dispatch(u, a6, failed) ==
    LET j    == job[u]
        plan == run_update(j.cfg, j.a4, a6)
    IN  IF (j.a4 = NoAddress /\ a6 = NoAddress /\ failed) \/ plan.raised # "no"
        THEN JobEnds(u) /\ status' = set_error
        ELSE /\ JobGoes(u, [j EXCEPT !.pc = "next", !.a6 = a6, !.todo = plan.calls])
             /\ UNCHANGED status

Fetch6(u) ==
    /\ job[u].pc = "fetch6"
    /\ \/ /\ job[u].cfg.v6
          /\ \E answers \in Answers(public.v6) :
               LET a == get_public_ipv6(answers)
               IN  /\ Dispatch(u, a, job[u].failed \/ a = NoAddress)
                   /\ IF a = NoAddress THEN Disturb ELSE UNCHANGED disturbed
       \/ /\ ~job[u].cfg.v6
          /\ Dispatch(u, NoAddress, job[u].failed)
          /\ UNCHANGED disturbed
    /\ UNCHANGED <<file, edit, public, records, overlapped, misread>>

(* The next call of the plan, if its name can be split.                      *)
Next_call(u) ==
    /\ job[u].pc = "next" /\ job[u].todo # << >>
    /\ LET c == Head(job[u].todo)
           p == job[u].cfg.provider
       IN  \/ /\ SplitFails(p, c.name)
              /\ JobEnds(u) /\ status' = set_error
              /\ UNCHANGED overlapped
           \/ /\ ~SplitFails(p, c.name)
              /\ JobGoes(u, [job[u] EXCEPT !.pc = IF update_one(p, c.name).reads
                                                  THEN "read" ELSE "write"])
              /\ overlapped' = (overlapped \/ \E v \in Updaters \ {u} : AtProvider(v))
              /\ UNCHANGED status
    /\ UNCHANGED <<file, edit, public, records, misread, disturbed>>

\* The call is done: what it set, or found set, is noted in `held`.
Passed(u, c, really) ==
    [job[u] EXCEPT !.pc = "next", !.todo = Tail(@), !.seen = 0,
                   !.held = IF really THEN @ \cup {c} ELSE @]

\* A call that failed is skipped, not raised.
ReadSwallows(u) ==
    /\ job[u].pc = "read"
    /\ LET c == Head(job[u].todo)
       IN \/ Holds(c) /\ JobGoes(u, Passed(u, c, TRUE)) /\ UNCHANGED disturbed
          \/ ~Holds(c) /\ JobGoes(u, [job[u] EXCEPT !.pc = "write", !.seen = Len(records[Key(c)])])
                /\ UNCHANGED disturbed
          \/ JobGoes(u, Passed(u, c, FALSE)) /\ Disturb
    /\ UNCHANGED <<file, edit, status, public, records, overlapped, misread>>

(* _get_record and what _update_one decides on it: the first record of the   *)
(* name and type; a record that holds the address already ends the call.  A  *)
(* reading that was refused raises, or counts as no record.                  *)
Read(u) ==
    /\ job[u].pc = "read"
    /\ LET c  == Head(job[u].todo)
           rs == records[Key(c)]
       IN  \/ /\ Holds(c)
              /\ JobGoes(u, Passed(u, c, TRUE))
              /\ UNCHANGED <<status, misread, disturbed>>
           \/ /\ ~Holds(c)
              /\ JobGoes(u, [job[u] EXCEPT !.pc = "write", !.seen = IF rs = << >> THEN 0 ELSE 1])
              /\ UNCHANGED <<status, misread, disturbed>>
           \/ /\ JobEnds(u) /\ status' = set_error
              /\ UNCHANGED misread
              /\ Disturb
           \/ /\ ~update_one(job[u].cfg.provider, c.name).checks /\ rs # << >>
              /\ JobGoes(u, [job[u] EXCEPT !.pc = "write", !.seen = 0])
              /\ misread' = misread \cup {Key(c)}
              /\ UNCHANGED status
              /\ Disturb
    /\ UNCHANGED <<file, edit, public, records, overlapped>>

\* A record is added without looking for one.
AppliedBlindly(u, c) == Append(records[Key(c)], c.ip)

\* What the provider holds after a call that reached it: all records of the
\* name, the record that was seen, or one more.
Applied(u, c) ==
    LET rs  == records[Key(c)]
        how == update_one(job[u].cfg.provider, c.name)
        one == job[u].seen = 1 \/ (~how.reads /\ rs # << >>)
    IN  CASE how.byName /\ one  -> [i \in DOMAIN rs |-> c.ip]
          [] ~how.byName /\ one -> [rs EXCEPT ![1] = c.ip]
          [] ~one              -> Append(rs, c.ip)

(* The setting call: it succeeds; or it fails, with or without effect; or it *)
(* is refused in the body of an answer that some providers' code ignores.    *)
Write(u) ==
    /\ job[u].pc = "write"
    /\ LET c == Head(job[u].todo)
       IN  \/ /\ records' = [records EXCEPT ![Key(c)] = Applied(u, c)]
              /\ JobGoes(u, Passed(u, c, TRUE))
              /\ UNCHANGED <<status, disturbed>>
           \/ /\ records' \in {records, [records EXCEPT ![Key(c)] = Applied(u, c)]}
              /\ JobEnds(u) /\ status' = set_error
              /\ Disturb
           \/ /\ ~update_one(job[u].cfg.provider, c.name).looks
              /\ UNCHANGED <<records, status>>
              /\ JobGoes(u, Passed(u, c, FALSE))
              /\ Disturb
    /\ UNCHANGED <<file, edit, public, overlapped, misread>>

Finish(u) ==
    /\ job[u].pc = "next" /\ job[u].todo = << >>
    /\ status' = set_ok(job[u].a4, job[u].a6)
    /\ JobEnds(u)
    /\ UNCHANGED <<file, edit, public, records, overlapped, misread, disturbed>>

-----------------------------------------------------------------------------
(* apply_config_from_body: load and merge what was sent; a name sent for     *)
(* TrafficRoute fills an empty list of names.                                *)
apply_config(base, body) ==
    LET m == [f \in DOMAIN base |-> IF f \in DOMAIN body THEN body[f] ELSE base[f]]
    IN  IF "own" \in DOMAIN body /\ body.own /\ m.provider = "trafficroute"
           /\ m.dom4 = << >>
        THEN [m EXCEPT !.dom4 = <<Own>>] ELSE m

Edits(cfg) ==
    /\ edit.pc = "idle"
    /\ Disturb
    /\ edit' = [pc |-> "loaded", cfg |-> cfg]
    /\ UNCHANGED <<file, status, job, public, records, overlapped, misread>>

EditConfig(body)     == Edits(apply_config(load_config, body))
\* Start and stop of the service controls; "restart" is an update.
service_action(start) == Edits([load_config EXCEPT !.enabled = start])

(* save_config: open for writing truncates.                                  *)
EditTruncate ==
    /\ edit.pc = "loaded"
    /\ file' = [file EXCEPT !.whole = FALSE] /\ edit' = [edit EXCEPT !.pc = "torn"]
    /\ UNCHANGED <<status, job, public, records, overlapped, misread, disturbed>>

EditWrite ==
    /\ edit.pc = "torn"
    /\ file' = [whole |-> TRUE, cfg |-> edit.cfg] /\ edit' = [edit EXCEPT !.pc = "idle"]
    /\ UNCHANGED <<status, job, public, records, overlapped, misread, disturbed>>

\* The provider of the line gives it another address.
Move ==
    /\ Disturb
    /\ \/ \E a \in Addr4 \ {public.v4} : public' = [public EXCEPT !.v4 = a]
       \/ \E a \in Addr6 \ {public.v6} : public' = [public EXCEPT !.v6 = a]
    /\ UNCHANGED <<file, edit, status, job, records, overlapped, misread>>

\* The process ends and comes back: threads and status are lost, files stay.
Kill ==
    /\ Disturb
    /\ edit' = [edit EXCEPT !.pc = "idle"]
    /\ job' = [u \in Updaters |-> IdleJob]
    /\ status' = [error |-> FALSE, ok |-> FALSE, v4 |-> NoAddress, v6 |-> NoAddress]
    /\ UNCHANGED <<file, public, records, overlapped, misread>>

Goes_on(u) == Fetch4(u) \/ Fetch6(u) \/ Next_call(u) \/ Read(u) \/ Write(u) \/ Finish(u)

\* The worker rests once an update has succeeded.
worker_cycle_once == ~status.ok /\ (Begin(Worker) \/ Ping(Worker))

\* The worker tests the two conditions of an update itself before it calls
\* it, only to choose how long it sleeps.
worker_cycle == Begin(Worker) \/ Ping(Worker)
run_once(r)  == Begin(r) \/ Ping(r)

DdnsNext ==
    \/ worker_cycle \/ Goes_on(Worker)
    \/ \E r \in Requests : run_once(r) \/ Goes_on(r)
    \/ \E body \in Bodies : EditConfig(body)
    \/ \E start \in BOOLEAN : service_action(start)
    \/ EditTruncate \/ EditWrite
    \/ Move \/ Kill

(* The worker sleeps between two updates and every call it makes has a       *)
(* timeout; a settings request that truncated the file goes on to write it.  *)
DdnsSpec ==
    /\ DdnsInit /\ [][DdnsNext]_ddnsVars
    /\ WF_ddnsVars(worker_cycle \/ Goes_on(Worker)) /\ WF_ddnsVars(EditWrite)

\* The line of the status page (_detail_line), and whether it calls the
\* service active.
detail_line ==
    CASE load_config.provider = "ddnsgo" -> "native"
      [] load_config.provider # "ddnsgo" /\ status.error -> "error"
      [] OTHER -> IF status.ok /\ (status.v4 # NoAddress \/ status.v6 # NoAddress)
                  THEN "reached" ELSE "never"
status_for_api == load_config.enabled /\ validate_config(load_config)

-----------------------------------------------------------------------------
Calls == [name : Names, type : Types, ip : Addresses]

\* The state has the shape that the code gives it.
DdnsTypeOK ==
    /\ file \in [whole : BOOLEAN, cfg : Config(Seq(Names))]
    /\ edit.pc \in {"idle", "loaded", "torn"} /\ edit.cfg \in Config(Seq(Names))
    /\ status.error \in BOOLEAN /\ status.ok \in BOOLEAN
    /\ status.v4 \in Addr4 \cup {NoAddress} /\ status.v6 \in Addr6 \cup {NoAddress}
    /\ \A u \in Updaters :
         /\ job[u].pc \in {"idle", "fetch4", "fetch6", "next", "read", "write"}
         /\ job[u].cfg \in Config(Seq(Names))
         /\ job[u].a4 \in Addr4 \cup {NoAddress} /\ job[u].a6 \in Addr6 \cup {NoAddress}
         /\ \A i \in DOMAIN job[u].todo : job[u].todo[i] \in Calls
         /\ job[u].held \subseteq Calls
    /\ \A k \in Names \X Types : \A i \in DOMAIN records[k] : records[k][i] \in Addresses
    /\ overlapped \in BOOLEAN /\ misread \subseteq Names \X Types
    /\ disturbed \in 0..MaxDisturb

(* Reading a record and adding it are two calls (providers, _update_one).    *)
(* As long as no two updates were at the provider together, a name ends up   *)
(* with two records of one type, of which later updates would only ever      *)
(* correct the first, only where a refused reading was taken for "no         *)
(* record": not after calls that failed but had their effect, not after a    *)
(* restart in the middle, not after a change of provider.                    *)
OneRecordIfAlone ==
    ~overlapped => \A k \in (Names \X Types) \ misread : Len(records[k]) <= 1

(* Addresses get into the status as reached (service.py, set_ok) only when   *)
(* every name of an enabled list was found to hold, or was given, the        *)
(* address in this update, wherever the code looks at what the provider      *)
(* answers; an update that stopped half-way never shows its address.         *)
OkIsPublished ==
    [][\A u \in Updaters :
         LET j == job[u] IN
         (j.pc = "next" /\ job'[u].pc = "idle" /\ detail_line' = "reached"
            /\ j.cfg.provider \notin {"aliyun", "dnspod"}) =>
         /\ (j.a4 # NoAddress /\ j.cfg.provider \notin Singles) =>
                \A i \in DOMAIN j.cfg.dom4 : Call(j.cfg.dom4[i], "A", j.a4) \in j.held
         /\ (j.a6 # NoAddress /\ j.cfg.provider \notin Singles \cup {"namecheap"}) =>
                \A i \in DOMAIN j.cfg.dom6 : Call(j.cfg.dom6[i], "AAAA", j.a6) \in j.held
      ]_ddnsVars

\* What an update would set for the configuration on file and the addresses
\* of the line is what the provider answers for each name.
Settled ==
    LET cfg  == load_config
        plan == run_update(cfg, IF cfg.v4 THEN public.v4 ELSE NoAddress,
                                IF cfg.v6 THEN public.v6 ELSE NoAddress)
    IN  status_for_api =>
        \A i \in ComesTo(cfg.provider, plan) : Holds(plan.calls[i])

(* When the line's addresses, the configuration and the network have come to *)
(* rest, the first record of each name holds the address of the line and     *)
(* keeps it, whatever stale address a request that was overtaken still       *)
(* writes, whatever failed before, and although a provider may refuse a call *)
(* in an answer that nobody reads: the worker comes round again              *)
(* (service.py:221-240).                                                     *)
Converges == <>[]Settled

(* What validate_config accepts, run_update can carry out once the addresses *)
(* are there: it does not refuse for a setting, and it comes to every name   *)
(* of the lists of the enabled families.  Every name has to be one that can  *)
(* be split, which validate_config does not look at; IPv4 has to be on and   *)
(* the names in the form's own lists: the two functions read the older       *)
(* fields differently.                                                       *)
AcceptedIsServed ==
    \A cfg \in {load_config} :
      /\ validate_config(cfg) /\ cfg.provider # "ddnsgo" /\ cfg.v4
      /\ cfg.nested4 = << >> /\ cfg.nested6 = << >>
      /\ \A i \in DOMAIN cfg.dom4 : cfg.dom4[i] \notin Unsplit
      /\ \A i \in DOMAIN cfg.dom6 : cfg.dom6[i] \notin Unsplit
      /\ cfg.provider = "trafficroute" => Own \notin Unsplit
      =>
      \A a4 \in Addr4, a6 \in Addr6 :
        LET plan == run_update(cfg, a4, IF cfg.v6 THEN a6 ELSE NoAddress)
            Sets(n, t, a) ==
                \E i \in ComesTo(cfg.provider, plan) : plan.calls[i] = Call(n, t, a)
        IN  /\ plan.raised = "no"
            /\ ComesTo(cfg.provider, plan) = DOMAIN plan.calls
            /\ cfg.provider \notin Singles =>
                 /\ \A i \in DOMAIN cfg.dom4 : Sets(cfg.dom4[i], "A", a4)
                 /\ cfg.v6 => \A i \in DOMAIN cfg.dom6 : Sets(cfg.dom6[i], "AAAA", a6)
=============================================================================
