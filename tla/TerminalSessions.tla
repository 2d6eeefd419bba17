-------------------------- MODULE TerminalSessions --------------------------
(***************************************************************************)
(* The web terminal of src/app.py: AppHandler.terminal_sessions, the pty   *)
(* and the ssh process of each session, and the handlers of                *)
(* /api/terminal/*, each in a thread of its own.  terminal_lock guards the *)
(* table; a pty is opened before the lock is taken, and it is read,        *)
(* written or resized after the lock has been given up, by the number of   *)
(* the file descriptor.  Ages (last_active against the 30 minutes of       *)
(* terminal_session_ttl_sec, dead_since against 180 s) are booleans that   *)
(* the passing of time sets.  The command history is left out.             *)
(***************************************************************************)
EXTENDS Integers, FiniteSets

CONSTANTS Workers,      \* threads that serve terminal requests
          Sids,         \* session ids; a bound: each uuid is given out once
          Fds,          \* file descriptors a pty master may get; a bound
          None,
          MaxSessions   \* terminal_max_sessions

ASSUME TerminalAssumption ==
  /\ MaxSessions \in Nat \ {0}
  /\ IsFiniteSet(Workers)
  /\ IsFiniteSet(Sids)
  /\ None \notin Sids \union Fds

VARIABLES
  table,     \* session ids in terminal_sessions
  sfd,       \* sess["fd"]
  fdOf,      \* kernel: whose pty each descriptor refers to
  used,      \* uuids given out
  alive,     \* sessions whose ssh process runs (proc.poll() is None)
  idle,      \* sessions with last_active older than the ttl
  deadMark,  \* dead_since: not set, less than or more than 180 s ago
  wpc,       \* where each worker is
  wsid,      \* its session
  wfd,       \* its local master_fd or fd
  refused    \* history: a start was refused while the table held a dead session

sessVars == <<table, sfd, fdOf, used, alive, idle, deadMark>>
workVars == <<wpc, wsid, wfd>>
vars == <<table, sfd, fdOf, used, alive, idle, deadMark, wpc, wsid, wfd, refused>>

TypeOK ==
  /\ table \subseteq Sids
  /\ sfd \in [Sids -> Fds \union {None}]
  /\ fdOf \in [Fds -> Sids \union {None}]
  /\ used \subseteq Sids
  /\ alive \subseteq Sids
  /\ idle \subseteq Sids
  /\ deadMark \in [Sids -> {"none", "recent", "old"}]
  /\ wpc \in [Workers -> {"idle", "spawn", "insert", "io"}]
  /\ wsid \in [Workers -> Sids \union {None}]
  /\ wfd \in [Workers -> Fds \union {None}]
  /\ refused \in BOOLEAN

Init ==
  /\ table = {}
  /\ sfd = [s \in Sids |-> None]
  /\ fdOf = [f \in Fds |-> None]
  /\ used = {}
  /\ alive = {}
  /\ idle = {}
  /\ deadMark = [s \in Sids |-> "none"]
  /\ wpc = [w \in Workers |-> "idle"]
  /\ wsid = [w \in Workers |-> None]
  /\ wfd = [w \in Workers |-> None]
  /\ refused = FALSE

-----------------------------------------------------------------------------
\* The worker's frame is gone.
Return(w) ==
  /\ wpc' = [wpc EXCEPT ![w] = "idle"]
  /\ wsid' = [wsid EXCEPT ![w] = None]
  /\ wfd' = [wfd EXCEPT ![w] = None]

\* Mutant: the descriptor is not closed.
CloseEntryAndProcess(S) ==
  /\ table' = table \ S
  /\ fdOf' = fdOf
  /\ alive' = alive \ S

\* Mutant: the process is left running.
CloseEntryAndFd(S) ==
  /\ table' = table \ S
  /\ fdOf' = [f \in Fds |-> IF \E s \in S : sfd[s] = f THEN None ELSE fdOf[f]]
  /\ alive' = alive

\* Mutant: the entry stays.
CloseFdAndProcess(S) ==
  /\ table' = table
  /\ fdOf' = [f \in Fds |-> IF \E s \in S : sfd[s] = f THEN None ELSE fdOf[f]]
  /\ alive' = alive \ S

\* _terminal_close_session_locked on each session of S: the entry goes, the
\* number of its descriptor is closed, the process is terminated or killed.
CloseAll(S) ==
  /\ table' = table \ S
  /\ fdOf' = [f \in Fds |-> IF \E s \in S : sfd[s] = f THEN None ELSE fdOf[f]]
  /\ alive' = alive \ S

\* Sessions that _terminal_cleanup_locked closes: a dead one only when it was
\* seen dead more than 180 s ago, a live one when it has been idle too long.
Expired == {s \in table : IF s \in alive THEN s \in idle ELSE deadMark[s] = "old"}

\* Sessions it finds dead for the first time.
NewlyDead == {s \in table \ alive : deadMark[s] = "none"}

Cleanup ==
  /\ CloseAll(Expired)
  /\ deadMark' = [s \in Sids |-> IF s \in NewlyDead THEN "recent" ELSE deadMark[s]]

-----------------------------------------------------------------------------
(* /api/terminal/start: _terminal_start_session *)

\* Mutant: the limit is off by one.
StartCheckLate(w) ==
  /\ wpc[w] = "idle"
  /\ Cleanup
  /\ Cardinality(table') <= MaxSessions
  /\ wpc' = [wpc EXCEPT ![w] = "spawn"]
  /\ UNCHANGED <<sfd, used, idle, wsid, wfd, refused>>

\* Under the lock: clean up and compare with the limit.  The second pass
\* looks for entries whose "alive" is false; no entry has such a key, the
\* default is True, and it closes nothing.
StartCheck(w) ==
  /\ wpc[w] = "idle"
  /\ Cleanup
  /\ Cardinality(table') < MaxSessions
  /\ wpc' = [wpc EXCEPT ![w] = "spawn"]
  /\ UNCHANGED <<sfd, used, idle, wsid, wfd, refused>>

StartRefused(w) ==
  /\ wpc[w] = "idle"
  /\ Cleanup
  /\ Cardinality(table') >= MaxSessions
  /\ refused' = (table' \subseteq alive => refused)
  /\ UNCHANGED <<sfd, used, idle, workVars>>

\* Without the lock: pty.openpty() takes a free descriptor, Popen starts ssh.
Spawn(w) ==
  /\ wpc[w] = "spawn"
  /\ \E s \in Sids \ used, f \in Fds :
       /\ fdOf[f] = None
       /\ fdOf' = [fdOf EXCEPT ![f] = s]
       /\ used' = used \union {s}
       /\ alive' = alive \union {s}
       /\ wsid' = [wsid EXCEPT ![w] = s]
       /\ wfd' = [wfd EXCEPT ![w] = f]
  /\ wpc' = [wpc EXCEPT ![w] = "insert"]
  /\ UNCHANGED <<table, sfd, idle, deadMark, refused>>

\* openpty or Popen fails; what was opened is closed again.
SpawnFails(w) ==
  /\ wpc[w] = "spawn"
  /\ Return(w)
  /\ UNCHANGED <<sessVars, refused>>

\* A failure after Popen closes the pty and terminates the process.
StartFails(w) ==
  /\ wpc[w] = "insert"
  /\ fdOf' = [fdOf EXCEPT ![wfd[w]] = None]
  /\ alive' = alive \ {wsid[w]}
  /\ Return(w)
  /\ UNCHANGED <<table, sfd, used, idle, deadMark, refused>>

\* Mutant: the entry is added under the id the worker no longer has.
InsertAfterReturn(w) ==
  /\ wpc[w] = "insert"
  /\ Return(w)
  /\ table' = table \union {wsid'[w]}
  /\ sfd' = [sfd EXCEPT ![wsid[w]] = wfd[w]]
  /\ UNCHANGED <<fdOf, used, alive, idle, deadMark, refused>>

\* Under the lock again: the entry is added, without a second look at the
\* limit.
Insert(w) ==
  /\ wpc[w] = "insert"
  /\ table' = table \union {wsid[w]}
  /\ sfd' = [sfd EXCEPT ![wsid[w]] = wfd[w]]
  /\ Return(w)
  /\ UNCHANGED <<fdOf, used, alive, idle, deadMark, refused>>

-----------------------------------------------------------------------------
(* /api/terminal/read, write, resize: look up, unlock, use the descriptor *)

\* The session is there (and, for a write, its process runs).
Lookup(w, s) ==
  /\ wpc[w] = "idle"
  /\ Cleanup
  /\ s \in table'
  /\ idle' = idle \ {s}
  /\ wpc' = [wpc EXCEPT ![w] = "io"]
  /\ wsid' = [wsid EXCEPT ![w] = s]
  /\ wfd' = [wfd EXCEPT ![w] = sfd[s]]
  /\ UNCHANGED <<sfd, used, refused>>

\* The session is not there, or (write) its process has ended: ValueError,
\* after the cleanup.  /api/terminal/sessions only cleans up and lists.
LookupFails ==
  /\ Cleanup
  /\ UNCHANGED <<sfd, used, idle, workVars, refused>>

\* os.read, os.write or the TIOCSWINSZ ioctl, on whatever the number is now.
UseFd(w) ==
  /\ wpc[w] = "io"
  /\ Return(w)
  /\ UNCHANGED <<sessVars, refused>>

\* /api/terminal/close and revoke: _terminal_close_session, no cleanup.
Close(s) ==
  /\ CloseAll({s} \intersect table)
  /\ UNCHANGED <<sfd, used, idle, deadMark, workVars, refused>>

-----------------------------------------------------------------------------
(* The environment: processes end and time passes *)

Exit(s) ==
  /\ s \in alive
  /\ alive' = alive \ {s}
  /\ UNCHANGED <<table, sfd, fdOf, used, idle, deadMark, workVars, refused>>

GrowIdle(s) ==
  /\ s \in table
  /\ idle' = idle \union {s}
  /\ UNCHANGED <<table, sfd, fdOf, used, alive, deadMark, workVars, refused>>

GrowOld(s) ==
  /\ deadMark[s] = "recent"
  /\ deadMark' = [deadMark EXCEPT ![s] = "old"]
  /\ UNCHANGED <<table, sfd, fdOf, used, alive, idle, workVars, refused>>

Next ==
  \/ \E w \in Workers :
       \/ StartCheck(w) \/ StartRefused(w) \/ Spawn(w) \/ SpawnFails(w)
       \/ StartFails(w) \/ Insert(w) \/ UseFd(w)
       \/ \E s \in Sids : Lookup(w, s)
  \/ LookupFails
  \/ \E s \in Sids : Close(s) \/ Exit(s) \/ GrowIdle(s) \/ GrowOld(s)

Spec == Init /\ [][Next]_vars

-----------------------------------------------------------------------------
(* Properties *)

Starting == {w \in Workers : wpc[w] \in {"spawn", "insert"}}
Inserting == {w \in Workers : wpc[w] = "insert"}

\* No pty is leaked and none is closed under a session's feet: the open
\* descriptors are exactly those of the table and of the starts under way,
\* and each refers to the pty of its own session (the closes are in three
\* different places of the code).
FdsExact ==
  /\ \A s \in table : sfd[s] \in Fds /\ fdOf[sfd[s]] = s
  /\ \A w \in Inserting :
       /\ wsid[w] \in Sids \ table /\ wfd[w] \in Fds
       /\ fdOf[wfd[w]] = wsid[w]
  /\ \A f \in Fds : fdOf[f] # None =>
       \/ fdOf[f] \in table /\ sfd[fdOf[f]] = f
       \/ \E w \in Inserting : wsid[w] = fdOf[f] /\ wfd[w] = f

\* A shell that runs can still be reached and closed: its session is in the
\* table, or the request that starts it will put it there or end it.
NoOrphanShell ==
  \A s \in alive : s \in table \/ \E w \in Inserting : wsid[w] = s

\* A read, write or resize works on a descriptor after the lock is released.
\* It reaches the pty of its own session unless that session has been closed
\* meanwhile (it may then reach the pty of another one).
IoOwnPty ==
  \A w \in Workers : wpc[w] = "io" =>
    \/ wsid[w] \notin table
    \/ fdOf[wfd[w]] = wsid[w]

\* The limit is compared before the pty is opened and not again when the
\* entry is added: it can be exceeded, but by fewer entries than there are
\* starts at the same time.
CapOvershoot ==
  Cardinality(table) + Cardinality(Starting)
    <= MaxSessions - 1 + Cardinality(Workers)

\* "Second-pass cleanup before refusing new sessions. This helps recover
\* quickly from stale entries when users reconnect often" (app.py:11538-11539): a
\* start is not refused on account of sessions that are dead.
NotRefusedForStale == ~refused
=============================================================================
