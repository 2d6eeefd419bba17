--------------------------- MODULE HttpDownloads ---------------------------
(***************************************************************************)
(* GET /http-files/<path> as AppHandler serves it (src/app.py), one thread *)
(* per connection, together with the administrators' requests that turn    *)
(* the service off: POST /api/app-config (fcc/modules/appconfig/api.py),   *)
(* POST /api/control/downloads (fcc/modules/control/api.py), and the       *)
(* status page's transfer snapshot.  One action is one stretch of code     *)
(* between two places where another thread's step can be seen: a lock is   *)
(* taken, a file is read or written, a socket is written.                  *)
(***************************************************************************)
EXTENDS Integers, FiniteSets

CONSTANTS Threads,       \* connection threads of ThreadingHTTPServer
          Admins,        \* threads that serve administrators' requests
          Clients,       \* client addresses
          MaxTotal,      \* max_active_http_downloads
          MaxPerIp,      \* max_http_downloads_per_ip
          MaxChunks,     \* bound: 1 MiB chunks in the longest body
          MaxTransfers,  \* bound: milliseconds, of the registry keys of a thread
          MaxCuts,       \* bound: cuts made (and requests that may cut)
          None           \* "holds no slot", of the abstract pool

ASSUME DownloadsAssumption ==
  /\ MaxTotal \in Nat \ {0}        \* _env_int(..., 1): the minimum is 1
  /\ MaxPerIp \in Nat \ {0}
  /\ MaxChunks \in Nat \ {0}
  /\ MaxTransfers \in Nat \ {0}
  /\ MaxCuts \in Nat
  /\ IsFiniteSet(Threads)
  /\ None \notin Clients

VARIABLES
  cfgHttp,           \* modules.http in the config file
  downloadsEnabled,  \* AppHandler.downloads_enabled
  cutEpoch,          \* AppHandler.http_cut_epoch
  slots,             \* AppHandler.active_http_download_slots
  slotsByIp,         \* active_http_download_slots_by_ip; an absent key is 0
  registry,          \* AppHandler.active_transfers: key -> absent, live, done
  pc,                \* where each connection thread is
  client,            \* _client_ip() of the thread's request
  seenEpoch,         \* the local cut_epoch of the thread's stream
  remaining,         \* chunks of the body still to be sent
  closing,           \* close_connection
  key,               \* number of the thread's transfer_id
  late,              \* history: chunks the stream wrote after a cut it can see
  apc,               \* where each administrator's request is
  want,              \* modules.http that the request is to save
  prev,              \* prev_http_enabled
  told               \* history: an administrator was told that the streams
                     \* were interrupted, and nobody has acted since

gateVars   == <<cfgHttp, downloadsEnabled, cutEpoch>>
slotVars   == <<slots, slotsByIp>>
streamVars == <<seenEpoch, remaining, late>>
adminVars  == <<apc, want, prev, told>>
vars == <<cfgHttp, downloadsEnabled, cutEpoch, slots, slotsByIp, registry, pc,
          client, seenEpoch, remaining, closing, key, late, apc, want, prev,
          told>>

Keys == Threads \X (1..MaxTransfers)

\* Control points between the acquisition of a slot and its release.
Holding == {"headers", "epoch", "register", "open", "check", "write",
            "finish", "release"}

\* Those at which the thread has an entry in the registry.
Streaming == {"open", "check", "write", "finish"}

Points == Holding \union Streaming \union
          {"idle", "gate", "access", "acquire", "closed"}

AdminPoints == {"idle", "loaded", "writing", "disable", "cut", "enable"}

TypeOK ==
  /\ cfgHttp \in BOOLEAN
  /\ downloadsEnabled \in BOOLEAN
  /\ cutEpoch \in Nat
  /\ slots \in 0..MaxTotal
  /\ slotsByIp \in [Clients -> 0..MaxPerIp]
  /\ registry \in [Keys -> {"absent", "live", "done"}]
  /\ pc \in [Threads -> Points]
  /\ client \in [Threads -> Clients]
  /\ seenEpoch \in [Threads -> Nat]
  /\ remaining \in [Threads -> 0..MaxChunks]
  /\ closing \in [Threads -> BOOLEAN]
  /\ key \in [Threads -> 1..MaxTransfers]
  /\ late \in [Threads -> Nat]
  /\ apc \in [Admins -> AdminPoints]
  /\ want \in [Admins -> BOOLEAN]
  /\ prev \in [Admins -> BOOLEAN]
  /\ told \in BOOLEAN

-----------------------------------------------------------------------------
(***************************************************************************)
(* The process starts with any saved configuration and any value of the    *)
(* DOWNLOADS_ENABLED environment variable.                                  *)
(***************************************************************************)
Init ==
  /\ cfgHttp \in BOOLEAN
  /\ downloadsEnabled \in BOOLEAN
  /\ cutEpoch = 0
  /\ slots = 0
  /\ slotsByIp = [ip \in Clients |-> 0]
  /\ registry = [k \in Keys |-> "absent"]
  /\ pc = [t \in Threads |-> "idle"]
  /\ client \in [Threads -> Clients]
  /\ seenEpoch = [t \in Threads |-> 0]
  /\ remaining = [t \in Threads |-> 0]
  /\ closing = [t \in Threads |-> FALSE]
  /\ key = [t \in Threads |-> 1]
  /\ late = [t \in Threads |-> 0]
  /\ apc = [a \in Admins |-> "idle"]
  /\ want = [a \in Admins |-> FALSE]
  /\ prev = [a \in Admins |-> FALSE]
  /\ told = FALSE

\* What load_app_config may say of the http module: what was saved, or the
\* default (TRUE) when it reads a file that a writer has just truncated.
ModuleReads ==
  {cfgHttp} \union {b \in {TRUE} : \E a \in Admins : apc[a] = "writing"}

GoTo(t, p) == pc' = [pc EXCEPT ![t] = p]

-----------------------------------------------------------------------------
(* do_GET *)

\* The left conjunct of _downloads_effective_enabled; 403 when it is false.
Get(t, ip) ==
  /\ pc[t] = "idle"
  /\ downloadsEnabled
  /\ GoTo(t, "gate")
  /\ client' = [client EXCEPT ![t] = ip]
  /\ UNCHANGED <<gateVars, slotVars, registry, streamVars, closing, key,
                 adminVars>>

\* Its right conjunct, which loads the config file; 403 when it is false.
ModuleCheck(t) ==
  /\ pc[t] = "gate"
  /\ \E on \in ModuleReads : GoTo(t, IF on THEN "access" ELSE "idle")
  /\ UNCHANGED <<gateVars, slotVars, registry, client, streamVars, closing,
                 key, adminVars>>

\* _require_http_access loads the policy again: any answer is possible.
AccessCheck(t) ==
  /\ pc[t] = "access"
  /\ \E allowed \in BOOLEAN : GoTo(t, IF allowed THEN "acquire" ELSE "idle")
  /\ UNCHANGED <<gateVars, slotVars, registry, client, streamVars, closing,
                 key, adminVars>>

\* safe_relative_path or ensure_under_root raises ValueError: 403, no slot.
RefusePath(t) ==
  /\ pc[t] = "acquire"
  /\ GoTo(t, "idle")
  /\ UNCHANGED <<gateVars, slotVars, registry, client, streamVars, closing,
                 key, adminVars>>

\* Mutant: the comparison is off by one.
HasRoomForMore(ip) == slots <= MaxTotal /\ slotsByIp[ip] <= MaxPerIp

HasRoom(ip) == slots < MaxTotal /\ slotsByIp[ip] < MaxPerIp

\* _try_acquire_http_download_slot, under http_download_slots_lock.
AcquireSlot(t) ==
  /\ pc[t] = "acquire"
  /\ HasRoom(client[t])
  /\ slots' = slots + 1
  /\ slotsByIp' = [slotsByIp EXCEPT ![client[t]] = @ + 1]
  /\ GoTo(t, "headers")
  /\ UNCHANGED <<gateVars, registry, client, streamVars, closing, key,
                 adminVars>>

\* ... and its refusal, answered with 429.
RefuseSlot(t) ==
  /\ pc[t] = "acquire"
  /\ ~HasRoom(client[t])
  /\ GoTo(t, "idle")
  /\ UNCHANGED <<gateVars, slotVars, registry, client, streamVars, closing,
                 key, adminVars>>

-----------------------------------------------------------------------------
(* _send_file *)

\* Up to end_headers: the file exists and the range is satisfiable.
SendHeaders(t) ==
  /\ pc[t] = "headers"
  /\ \E n \in 0..MaxChunks : remaining' = [remaining EXCEPT ![t] = n]
  /\ GoTo(t, "epoch")
  /\ UNCHANGED <<gateVars, slotVars, registry, client, seenEpoch, late,
                 closing, key, adminVars>>

\* 404, 416 or, with the connection lost, an exception out of the handler.
SendNothing(t) ==
  /\ pc[t] = "headers"
  /\ \E lost \in BOOLEAN : closing' = [closing EXCEPT ![t] = lost]
  /\ GoTo(t, "release")
  /\ UNCHANGED <<gateVars, slotVars, registry, client, streamVars, key,
                 adminVars>>

\* The epoch is read, under http_cut_lock, only after the headers are out.
ReadEpoch(t) ==
  /\ pc[t] = "epoch"
  /\ seenEpoch' = [seenEpoch EXCEPT ![t] = cutEpoch]
  /\ GoTo(t, "register")
  /\ UNCHANGED <<gateVars, slotVars, registry, client, remaining, late,
                 closing, key, adminVars>>

\* The key is the thread and the millisecond: two transfers of one thread may
\* get the same one, and the later entry replaces the earlier.
Register(t) ==
  /\ pc[t] = "register"
  /\ \E k \in 1..MaxTransfers :
       /\ key' = [key EXCEPT ![t] = k]
       /\ registry' = [registry EXCEPT ![<<t, k>>] = "live"]
  /\ GoTo(t, "open")
  /\ UNCHANGED <<gateVars, slotVars, client, streamVars, closing, adminVars>>

\* with file_path.open("rb"); f.seek(start)
OpenFile(t) ==
  /\ pc[t] = "open"
  /\ GoTo(t, "check")
  /\ UNCHANGED <<gateVars, slotVars, registry, client, streamVars, closing,
                 key, adminVars>>

\* open() is outside the try whose finally marks the entry done: the entry
\* stays live.  A 500 is written behind the headers that went out already.
OpenFails(t) ==
  /\ pc[t] = "open"
  /\ GoTo(t, "release")
  /\ UNCHANGED <<gateVars, slotVars, registry, client, streamVars, closing,
                 key, adminVars>>

\* Mutant: the loop does not notice that the body is complete.
CheckCutOnly(t) ==
  /\ pc[t] = "check"
  /\ GoTo(t, IF cutEpoch # seenEpoch[t] THEN "finish" ELSE "write")
  /\ closing' = [closing EXCEPT ![t] = cutEpoch # seenEpoch[t]]
  /\ UNCHANGED <<gateVars, slotVars, registry, client, streamVars, key,
                 adminVars>>

\* Mutant: the epoch is not compared again.
CheckLength(t) ==
  /\ pc[t] = "check"
  /\ GoTo(t, IF remaining[t] = 0 THEN "finish" ELSE "write")
  /\ UNCHANGED <<gateVars, slotVars, registry, client, streamVars, closing,
                 key, adminVars>>

\* The head of the loop: the whole body is out, or a cut is seen, or go on.
CheckCut(t) ==
  /\ pc[t] = "check"
  /\ \/ /\ remaining[t] = 0
        /\ GoTo(t, "finish")
        /\ UNCHANGED closing
     \/ /\ remaining[t] > 0
        /\ cutEpoch # seenEpoch[t]
        /\ closing' = [closing EXCEPT ![t] = TRUE]
        /\ GoTo(t, "finish")
     \/ /\ remaining[t] > 0
        /\ cutEpoch = seenEpoch[t]
        /\ GoTo(t, "write")
        /\ UNCHANGED closing
  /\ UNCHANGED <<gateVars, slotVars, registry, client, streamVars, key,
                 adminVars>>

\* One chunk is read from the file and written to the socket.
WriteChunk(t) ==
  /\ pc[t] = "write"
  /\ remaining' = [remaining EXCEPT ![t] = @ - 1]
  /\ late' = [late EXCEPT ![t] = IF cutEpoch # seenEpoch[t] THEN @ + 1 ELSE @]
  /\ GoTo(t, "check")
  /\ UNCHANGED <<gateVars, slotVars, registry, client, seenEpoch, closing,
                 key, adminVars>>

\* The write fails or times out (the connection is closed), or the file has
\* no more bytes or cannot be read (it is not).
BreakOff(t) ==
  /\ pc[t] = "write"
  /\ \E lost \in BOOLEAN : closing' = [closing EXCEPT ![t] = lost]
  /\ GoTo(t, "finish")
  /\ UNCHANGED <<gateVars, slotVars, registry, client, streamVars, key,
                 adminVars>>

\* The inner finally.
MarkDone(t) ==
  /\ pc[t] = "finish"
  /\ registry' = [registry EXCEPT ![<<t, key[t]>>] =
                    IF @ = "absent" THEN "absent" ELSE "done"]
  /\ GoTo(t, "release")
  /\ UNCHANGED <<gateVars, slotVars, client, streamVars, closing, key,
                 adminVars>>

\* Mutant: the count of the client's own slots is not given back.
ReleaseInAll(t) ==
  /\ pc[t] = "release"
  /\ slots' = IF slots > 0 THEN slots - 1 ELSE 0
  /\ seenEpoch' = [seenEpoch EXCEPT ![t] = 0]
  /\ remaining' = [remaining EXCEPT ![t] = 0]
  /\ late' = [late EXCEPT ![t] = 0]
  /\ GoTo(t, IF closing[t] THEN "closed" ELSE "idle")
  /\ UNCHANGED <<gateVars, slotsByIp, registry, client, closing, key, adminVars>>

\* _release_http_download_slot, in do_GET's finally; the locals are gone.
ReleaseSlot(t) ==
  /\ pc[t] = "release"
  /\ slots' = IF slots > 0 THEN slots - 1 ELSE 0
  /\ slotsByIp' = [slotsByIp EXCEPT ![client[t]] = IF @ <= 1 THEN 0 ELSE @ - 1]
  /\ seenEpoch' = [seenEpoch EXCEPT ![t] = 0]
  /\ remaining' = [remaining EXCEPT ![t] = 0]
  /\ late' = [late EXCEPT ![t] = 0]
  /\ GoTo(t, IF closing[t] THEN "closed" ELSE "idle")
  /\ UNCHANGED <<gateVars, registry, client, closing, key, adminVars>>

\* The connection's thread ends; a new connection takes its place.
Reconnect(t) ==
  /\ pc[t] = "closed"
  /\ closing' = [closing EXCEPT ![t] = FALSE]
  /\ GoTo(t, "idle")
  /\ UNCHANGED <<gateVars, slotVars, registry, client, streamVars, key,
                 adminVars>>

\* Mutant: age alone decides, finished or not.
SnapshotByAge ==
  /\ \E old \in SUBSET Keys :
       registry' = [k \in Keys |-> IF k \in old THEN "absent" ELSE registry[k]]
  /\ UNCHANGED <<gateVars, slotVars, pc, client, streamVars, closing, key,
                 adminVars>>

\* _transfer_snapshot drops the finished entries that are old enough.
Snapshot ==
  /\ \E old \in SUBSET {k \in Keys : registry[k] = "done"} :
       registry' = [k \in Keys |-> IF k \in old THEN "absent" ELSE registry[k]]
  /\ UNCHANGED <<gateVars, slotVars, pc, client, streamVars, closing, key,
                 adminVars>>

-----------------------------------------------------------------------------
(* POST /api/app-config and POST /api/control/downloads *)

AdminGoTo(a, p) == apc' = [apc EXCEPT ![a] = p]

\* The cut epoch is bounded by bounding the requests that may still cut.
MayStillCut == {a \in Admins : apc[a] \in {"loaded", "writing", "disable", "cut"}}

\* current = load_app_config(); the body's modules.http is applied to it.  A
\* body without it saves what was loaded (b = on).
LoadConfig(a) ==
  /\ apc[a] = "idle"
  /\ cutEpoch + Cardinality(MayStillCut) < MaxCuts
  /\ \E on \in ModuleReads, b \in BOOLEAN :
       /\ prev' = [prev EXCEPT ![a] = on]
       /\ want' = [want EXCEPT ![a] = b]
  /\ told' = FALSE
  /\ AdminGoTo(a, "loaded")
  /\ UNCHANGED <<gateVars, slotVars, registry, pc, client, streamVars,
                 closing, key>>

\* save_app_config: open(p, "w") truncates the file ...
TruncateConfig(a) ==
  /\ apc[a] = "loaded"
  /\ AdminGoTo(a, "writing")
  /\ UNCHANGED <<gateVars, slotVars, registry, pc, client, streamVars,
                 closing, key, want, prev, told>>

\* ... and the write fills it.
WriteConfig(a) ==
  /\ apc[a] = "writing"
  /\ cfgHttp' = want[a]
  /\ AdminGoTo(a, IF want[a] THEN "idle" ELSE "disable")
  /\ UNCHANGED <<downloadsEnabled, cutEpoch, slotVars, registry, pc, client,
                 streamVars, closing, key, want, prev, told>>

\* The module is now off: close the gate, and cut only if it was on before.
DisableDownloads(a) ==
  /\ apc[a] = "disable"
  /\ downloadsEnabled' = FALSE
  /\ AdminGoTo(a, IF prev[a] THEN "cut" ELSE "idle")
  /\ UNCHANGED <<cfgHttp, cutEpoch, slotVars, registry, pc, client,
                 streamVars, closing, key, want, prev, told>>

\* _cut_http_downloads_once
Cut(a) ==
  /\ apc[a] = "cut"
  /\ cutEpoch' = cutEpoch + 1
  /\ told' = TRUE
  /\ AdminGoTo(a, "idle")
  /\ UNCHANGED <<cfgHttp, downloadsEnabled, slotVars, registry, pc, client,
                 streamVars, closing, key, want, prev>>

\* /api/control/downloads {"enabled": true}: the module must be on.
EnableCheck(a) ==
  /\ apc[a] = "idle"
  /\ TRUE \in ModuleReads
  /\ told' = FALSE
  /\ AdminGoTo(a, "enable")
  /\ UNCHANGED <<gateVars, slotVars, registry, pc, client, streamVars,
                 closing, key, want, prev>>

EnableDownloads(a) ==
  /\ apc[a] = "enable"
  /\ downloadsEnabled' = TRUE
  /\ AdminGoTo(a, "idle")
  /\ UNCHANGED <<cfgHttp, cutEpoch, slotVars, registry, pc, client,
                 streamVars, closing, key, want, prev, told>>

\* /api/control/downloads {"enabled": false}: no check and no cut.
CloseGate(a) ==
  /\ apc[a] = "idle"
  /\ downloadsEnabled' = FALSE
  /\ UNCHANGED <<cfgHttp, cutEpoch, slotVars, registry, pc, client,
                 streamVars, closing, key, adminVars>>

-----------------------------------------------------------------------------
\* What a thread does once it has read a request, without anybody's help.
Serve(t) ==
  \/ ModuleCheck(t) \/ AccessCheck(t) \/ RefusePath(t)
  \/ AcquireSlot(t) \/ RefuseSlot(t)
  \/ SendHeaders(t) \/ SendNothing(t) \/ ReadEpoch(t) \/ Register(t)
  \/ OpenFile(t) \/ OpenFails(t) \/ CheckCut(t) \/ WriteChunk(t)
  \/ BreakOff(t) \/ MarkDone(t) \/ ReleaseSlot(t)

Administer(a) ==
  \/ LoadConfig(a) \/ TruncateConfig(a) \/ WriteConfig(a)
  \/ DisableDownloads(a) \/ Cut(a)
  \/ EnableCheck(a) \/ EnableDownloads(a) \/ CloseGate(a)

Next ==
  \/ \E t \in Threads : Serve(t) \/ Reconnect(t)
  \/ \E t \in Threads, ip \in Clients : Get(t, ip)
  \/ \E a \in Admins : Administer(a)
  \/ Snapshot

Spec == Init /\ [][Next]_vars

(***************************************************************************)
(* Connection threads run on: locks are held for a few statements, a       *)
(* socket write returns or times out (25 s) and a file read returns.       *)
(* Nobody has to send a request, and no administrator has to do anything.  *)
(***************************************************************************)
FairSpec == Spec /\ \A t \in Threads : WF_vars(Serve(t))

-----------------------------------------------------------------------------
(* Properties *)

Holders == {t \in Threads : pc[t] \in Holding}

HoldersFor(ip) == {t \in Threads : pc[t] \in Holding /\ client[t] = ip}

\* The two slot counters always equal the number of requests between a
\* successful _try_acquire_http_download_slot and its release: no path
\* through _send_file, failure included, loses or doubles a slot.
SlotsExact ==
  /\ slots = Cardinality(Holders)
  /\ \A ip \in Clients : slotsByIp[ip] = Cardinality(HoldersFor(ip))

\* However acquisitions interleave, the requests being served stay within
\* both limits of _try_acquire_http_download_slot.
SlotCaps ==
  /\ Cardinality(Holders) <= MaxTotal
  /\ \A ip \in Clients : Cardinality(HoldersFor(ip)) <= MaxPerIp

\* _transfer_snapshot never drops, and no other thread ever finishes, the
\* entry of a stream that is still sending: the status page shows it active.
StreamsRegistered ==
  \A t \in Threads : pc[t] \in Streaming => registry[<<t, key[t]>>] = "live"

\* A stream that was registered when _cut_http_downloads_once ran sends at
\* most the chunk it was sending, and then closes its connection.
StaleStreamStops ==
  \A t \in Threads :
    /\ late[t] <= 1
    /\ pc[t] \in {"finish", "release"} /\ late[t] = 1 /\ remaining[t] > 0
         => closing[t]

\* "HTTP module is disabled, uploads are disabled and this program's upload
\* connections were interrupted" (appconfig/api.py:243): once an administrator
\* has been told so, no stream goes on that its next look at the epoch
\* would not end.
InterruptedOnDisable ==
  told => \A t \in Threads : pc[t] = "check" /\ remaining[t] > 0
                               => seenEpoch[t] # cutEpoch

\* A download slot is a real lease: the counters of the handler implement
\* the abstract pool, and each slot taken is given back.
Pool == INSTANCE DownloadSlots
          WITH held <- [t \in Threads |->
                          IF pc[t] \in Holding THEN client[t] ELSE None]

SlotPool == Pool!HeldSpec
=============================================================================
