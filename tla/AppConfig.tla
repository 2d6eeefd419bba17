----------------------------- MODULE AppConfig -----------------------------
(***************************************************************************)
(* The config file of the application and the requests that change it:     *)
(* each loads the whole file, edits its part of the copy, and writes the   *)
(* whole copy back (load_app_config, save_app_config).  There is no lock,  *)
(* and save_app_config truncates the file before it writes.  The sections  *)
(* kept here stand for the parts that different requests edit:             *)
(*   access  http_access             POST /api/control/http-access         *)
(*   pools   http_service            POST /api/app-config,                 *)
(*                                   POST /api/http/source-ip-pools/sync   *)
(*   key     terminal                POST /api/app-config, key-file upload *)
(***************************************************************************)
EXTENDS HttpAccess

CONSTANTS Workers,      \* threads that serve these requests
          Nets,         \* network ranges in the source IP pools
          MaxTime,      \* bound on the clock
          MaxDuration,  \* bound on duration_sec
          MaxRequests,  \* bound: requests made
          Restarts      \* whether the process may be restarted

ASSUME ConfigAssumption ==
  /\ MaxTime \in Nat /\ MaxDuration \in Nat \ {0} /\ MaxRequests \in Nat
  /\ Restarts \in BOOLEAN
  /\ Lan \intersect Outside = {}

VARIABLES
  file,     \* the last contents that were written
  state,    \* the file holds them: whole; is truncated: empty; or holds the
            \* remains of two writes, which json.load refuses: garbled
  now,      \* the clock
  pc,       \* where each worker is
  kind,     \* what its request does
  copy,     \* its local config
  made,     \* requests made, for the bound
  alone,    \* history: the copy was read whole and nobody wrote since
  granted,  \* history: the public windows that were opened (0: until closed)
            \* and the addresses the allowlist was given by hand
  kept      \* history: "asked" once a request to open the service until it
            \* is closed has begun, "yes" once it has been answered, and
            \* "no" with a request to close it or to set a time

histVars == <<alone, granted, kept>>
vars == <<file, state, now, pc, kind, copy, made, alone, granted, kept>>

Sections == {"access", "pools", "key"}

Config == [access : Policy, pools : SUBSET Nets, key : BOOLEAN]

Kinds == {"none", "open", "persist", "close", "settings", "sync", "upload"}

\* The sections of its copy that a request may change.
Edits(k) == CASE k \in {"open", "persist", "close"} -> {"access"}
              [] k = "settings" -> {"pools", "key"}
              [] k = "sync" -> {"pools"}
              [] k = "upload" -> {"key"}

default_app_config ==
  [access |-> default_policy, pools |-> {}, key |-> FALSE]

normalize_app_config(raw) ==
  [raw EXCEPT !.access = normalize_policy(raw.access)]

load_app_config ==
  IF state = "whole" THEN normalize_app_config(file) ELSE default_app_config

TypeOK ==
  /\ file \in [access : RawPolicy, pools : SUBSET Nets, key : BOOLEAN]
  /\ state \in {"whole", "empty", "garbled"}
  /\ now \in 0..MaxTime
  /\ pc \in [Workers -> {"idle", "fetch", "loaded", "writing"}]
  /\ kind \in [Workers -> Kinds]
  /\ copy \in [Workers -> Config]
  /\ made \in 0..MaxRequests
  /\ alone \in [Workers -> BOOLEAN]
  /\ granted \in [until : SUBSET Nat, allow : SUBSET Outside]
  /\ kept \in {"no", "asked", "yes"}

\* The windows a policy opens by itself.
Windows(policy) == IF policy.mode = "public" THEN {policy.until} ELSE {}

Init ==
  /\ \E m \in Modes \union {"unknown"}, a \in SUBSET Outside, u \in {-1, 1} :
       file = [default_app_config EXCEPT !.access = [mode |-> m, allow |-> a, until |-> u]]
  /\ state = "whole"
  /\ now = 0
  /\ pc = [w \in Workers |-> "idle"]
  /\ kind = [w \in Workers |-> "none"]
  /\ copy = [w \in Workers |-> default_app_config]
  /\ made = 0
  /\ alone = [w \in Workers |-> FALSE]
  /\ granted = [until |-> Windows(normalize_policy(file.access)),
                allow |-> file.access.allow]
  /\ kept = "no"

-----------------------------------------------------------------------------
\* The worker's frame is gone.
Return(w) ==
  /\ pc' = [pc EXCEPT ![w] = "idle"]
  /\ kind' = [kind EXCEPT ![w] = "none"]
  /\ copy' = [copy EXCEPT ![w] = default_app_config]

\* A request of kind k loads the file and has edited its copy into c.
Begin(w, k, c, next) ==
  /\ pc[w] = "idle"
  /\ made < MaxRequests
  /\ made' = made + 1
  /\ pc' = [pc EXCEPT ![w] = next]
  /\ kind' = [kind EXCEPT ![w] = k]
  /\ copy' = [copy EXCEPT ![w] = c]
  /\ alone' = [alone EXCEPT ![w] = state = "whole"]
  /\ UNCHANGED <<file, state, now>>

\* Mutant: the rest of the config starts from the defaults.
SetAccessOnly(mode, until) ==
  [default_app_config EXCEPT !.access.mode = mode, !.access.until = until]

SetAccess(mode, until) ==
  [load_app_config EXCEPT !.access.mode = mode, !.access.until = until]

OpenPublic(w) ==
  \E d \in 1..MaxDuration :
    /\ Begin(w, "open", SetAccess("public", now + d), "loaded")
    /\ granted' = [granted EXCEPT !.until = @ \union {now + d}]
    /\ kept' = "no"

OpenPersistent(w) ==
  /\ Begin(w, "persist", SetAccess("public", 0), "loaded")
  /\ granted' = [granted EXCEPT !.until = @ \union {0}]
  /\ kept' = IF \E v \in Workers : kind[v] \in {"open", "close"}
             THEN "no" ELSE "asked"

ClosePublic(w) ==
  /\ Begin(w, "close", SetAccess("lan_only", 0), "loaded")
  /\ kept' = "no"
  /\ UNCHANGED granted

SaveSettings(w) ==
  /\ \E p \in SUBSET Nets, t \in BOOLEAN :
       Begin(w, "settings",
             [load_app_config EXCEPT !.pools = p, !.key = t], "loaded")
  /\ UNCHANGED <<granted, kept>>

UploadKey(w) ==
  /\ Begin(w, "upload", [load_app_config EXCEPT !.key = TRUE], "loaded")
  /\ UNCHANGED <<granted, kept>>

\* The sync loads the config first and fetches the pools afterwards ...
SyncBegin(w) ==
  /\ Begin(w, "sync", load_app_config, "fetch")
  /\ UNCHANGED <<granted, kept>>

\* ... and merges them with, or puts them in place of, those it has loaded.
SyncFetched(w) ==
  /\ pc[w] = "fetch"
  /\ \E pulled \in SUBSET Nets, merge \in BOOLEAN :
       copy' = [copy EXCEPT ![w].pools = IF merge THEN @ \union pulled ELSE pulled]
  /\ pc' = [pc EXCEPT ![w] = "loaded"]
  /\ UNCHANGED <<file, state, now, kind, made, histVars>>

SyncFails(w) ==
  /\ pc[w] = "fetch"
  /\ Return(w)
  /\ alone' = [alone EXCEPT ![w] = FALSE]
  /\ UNCHANGED <<file, state, now, made, granted, kept>>

-----------------------------------------------------------------------------
(* save_app_config *)

\* open(p, "w")
Truncate(w) ==
  /\ pc[w] = "loaded"
  /\ state' = "empty"
  /\ pc' = [pc EXCEPT ![w] = "writing"]
  /\ alone' = [v \in Workers |-> v = w /\ alone[v]]
  /\ UNCHANGED <<file, now, kind, copy, made, granted, kept>>

\* The write starts at offset 0.  What another request wrote after the
\* truncation is replaced, except the tail of a longer text.
Write(w) ==
  /\ pc[w] = "writing"
  /\ file' = normalize_app_config(copy[w])
  /\ \/ state' = "whole"
     \/ state # "empty" /\ file # file' /\ state' = "garbled"
  /\ Return(w)
  /\ alone' = [v \in Workers |-> FALSE]
  /\ kept' = IF kind[w] = "persist" /\ kept = "asked" THEN "yes" ELSE kept
  /\ UNCHANGED <<now, made, granted>>

-----------------------------------------------------------------------------
\* The process is restarted, wherever its requests are.
Kill ==
  /\ Restarts
  /\ pc' = [w \in Workers |-> "idle"]
  /\ kind' = [w \in Workers |-> "none"]
  /\ copy' = [w \in Workers |-> default_app_config]
  /\ alone' = [w \in Workers |-> FALSE]
  /\ UNCHANGED <<file, state, now, made, granted, kept>>

Tick ==
  /\ now < MaxTime
  /\ now' = now + 1
  /\ UNCHANGED <<file, state, pc, kind, copy, made, histVars>>

Request(w) ==
  \/ OpenPublic(w) \/ OpenPersistent(w) \/ ClosePublic(w)
  \/ SaveSettings(w) \/ UploadKey(w)
  \/ SyncBegin(w) \/ SyncFetched(w) \/ SyncFails(w)
  \/ Truncate(w) \/ Write(w)

Next == (\E w \in Workers : Request(w)) \/ Kill \/ Tick

Spec == Init /\ [][Next]_vars

-----------------------------------------------------------------------------
(* Properties *)

\* Whoever comes from outside the LAN is let in only by a decision of an
\* administrator that still covers the moment: stale copies, half-written
\* files, restarts and the passing of time may lose a decision or bring an
\* older one back, but never extend a window or let in anybody else.
OutsidersNeedGrant ==
  \A c \in Outside : is_allowed(load_app_config.access, c, now) =>
    \/ c \in granted.allow
    \/ 0 \in granted.until
    \/ \E u \in granted.until : now < u

\* A request during which nobody else wrote the file, and whose own load
\* found it whole, changes none of the sections it does not edit, and leaves
\* a file that can be read.
SoleWriterKeepsRest ==
  [][\A w \in Workers : Write(w) /\ alone[w] =>
       /\ state' = "whole"
       /\ \A s \in Sections \ Edits(kind[w]) :
            file'[s] = normalize_app_config(file)[s]]_vars

\* "If public_until is None, it remains public until manually closed"
\* (fcc/http_access.py:8-9): at rest, after an answer to
\* open_public_persistent and with no request to close it or to set a time,
\* the service is public.
PublicUntilClosed ==
  kept = "yes" /\ (\A w \in Workers : pc[w] = "idle")
    => effective_mode(load_app_config.access, now) = "public"
=============================================================================
