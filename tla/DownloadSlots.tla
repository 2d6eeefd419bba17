--------------------------- MODULE DownloadSlots ---------------------------
(***************************************************************************)
(* What the /http-files/ routes promise about concurrent downloads: a     *)
(* request is admitted only while fewer than MaxTotal downloads are held   *)
(* in all and fewer than MaxPerIp by its client, a request holds at most   *)
(* one slot, and every slot that is held is given back.  There are no      *)
(* counters here: the held slots themselves are counted.                   *)
(***************************************************************************)
EXTENDS Integers, FiniteSets

CONSTANTS Threads,   \* request-handling threads
          Clients,   \* client addresses
          None,      \* "holds no slot"
          MaxTotal,  \* max_active_http_downloads
          MaxPerIp   \* max_http_downloads_per_ip

VARIABLE held        \* held[t] is the client thread t holds a slot for

Admitted == {t \in Threads : held[t] # None}

AdmittedFor(ip) == {t \in Threads : held[t] = ip}

HeldType == held \in [Threads -> Clients \union {None}]

HeldInit == held = [t \in Threads |-> None]

Admit(t, ip) ==
  /\ held[t] = None
  /\ Cardinality(Admitted) < MaxTotal
  /\ Cardinality(AdmittedFor(ip)) < MaxPerIp
  /\ held' = [held EXCEPT ![t] = ip]

Leave(t) ==
  /\ held[t] # None
  /\ held' = [held EXCEPT ![t] = None]

HeldNext == \E t \in Threads : Leave(t) \/ \E ip \in Clients : Admit(t, ip)

\* The safety part alone: what the proof shows the counters implement.
HeldSafety == HeldInit /\ [][HeldNext]_held

HeldSpec == HeldSafety /\ \A t \in Threads : WF_held(Leave(t))
=============================================================================
