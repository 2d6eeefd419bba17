-------------------------- MODULE TorrentControl --------------------------
(* The torrent client AfterClaw supervises: the control page starts, stops,  *)
(* restarts or quits it, "fix" makes it answer AfterClaw, "optimize" lifts   *)
(* its limits, and every status page asks it for its figures, which are kept *)
(* for four seconds.  Each request runs in a thread of the HTTP server of    *)
(* its own and nothing keeps two of them apart: they share the service, its  *)
(* settings file, the file beside it that a new one is written to, and the   *)
(* cached figures.  The client itself is external: it reads its settings     *)
(* file when it starts and may write it when it ends.                        *)
EXTENDS Naturals

CONSTANTS
    Workers,      \* threads of the server
    Clients,      \* what may be installed: "qbittorrent" as a service,
                  \* "docker" (qBittorrent in a container), "transmission"
                  \* (and deluge), which write their settings when they end,
                  \* "rtorrent", which never does
    None,
    MaxOwn,       \* bound: settings of the users, the first are there at first
    MaxRequests,  \* bound: requests
    MaxTroubles   \* bound: failing calls and actions of users on the service

ASSUME TorrentAssumption ==
    /\ Clients \subseteq {"qbittorrent", "docker", "transmission", "rtorrent"}
    /\ MaxOwn \in Nat \ {0} /\ MaxRequests \in Nat /\ MaxTroubles \in Nat

Settings == [monitor : BOOLEAN,   \* AfterClaw's requests are answered
             limits : BOOLEAN,    \* the limits are lifted
             moves : BOOLEAN,     \* files follow their category
             own : 0..MaxOwn]     \* what users set themselves, by age, or 0

\* What a client makes of an empty file.
Blank == [monitor |-> FALSE, limits |-> FALSE, moves |-> FALSE, own |-> 0]

VARIABLES
    client,     \* the installed client
    daemon,     \* the client: running, serving, told to quit, its settings
    conf,       \* its settings file
    tmp,        \* qBittorrent.conf.tmp, or None
    cache,      \* qbt_stats_cache: are there figures, are they younger than 4 s
    frame,      \* the requests under way
    made, troubles,
    latest      \* the newest setting of the users

vars == <<client, daemon, conf, tmp, cache, frame, made, troubles, latest>>

Ops == {"fix", "optimize", "start", "stop", "restart", "quit", "status"}

Idle == [op |-> "none", pc |-> "idle", then |-> "done", found |-> FALSE,
         stopped |-> FALSE, read |-> None, seen |-> FALSE, verify |-> FALSE,
         ok |-> FALSE, came |-> TRUE, alone |-> FALSE, intact |-> TRUE]

Down == [run |-> FALSE, up |-> FALSE, ending |-> FALSE, dirty |-> FALSE,
         live |-> None]
Started(s) == [run |-> TRUE, up |-> FALSE, ending |-> FALSE, dirty |-> FALSE,
               live |-> s]

Init ==
    /\ client \in Clients
    /\ conf \in [monitor : BOOLEAN, limits : {FALSE}, moves : {FALSE}, own : {1}]
    /\ daemon \in {Down, [Started(conf) EXCEPT !.up = TRUE]}
    /\ tmp = None
    /\ cache = [there |-> FALSE, ok |-> FALSE]
    /\ frame = [w \in Workers |-> Idle]
    /\ made = 0 /\ troubles = 0 /\ latest = 1

NoFigures == [there |-> FALSE, ok |-> FALSE]
QBittorrent == client \in {"qbittorrent", "docker"}
Busy(w) == frame[w].pc \notin {"idle", "done"}

-----------------------------------------------------------------------------
(* The client, as AfterClaw sees it.                                         *)

\* What its settings file may hold after it ended: transmission and deluge
\* write theirs, qBittorrent does when something is unsaved and may otherwise.
AtExit ==
    IF client = "rtorrent" THEN {conf}
    ELSE IF client = "transmission" \/ daemon.dirty THEN {daemon.live}
    ELSE {daemon.live, conf}

Ends ==
    IF daemon.run THEN daemon' = Down /\ conf' \in AtExit
                  ELSE UNCHANGED <<daemon, conf>>

Starts ==
    /\ daemon' = IF daemon.run THEN daemon ELSE Started(conf)
    /\ UNCHANGED conf
Restarts ==
    /\ conf' \in IF daemon.run THEN AtExit ELSE {conf}
    /\ daemon' = Started(conf')

\* systemctl (or docker) start, stop and restart, which come back when the
\* action is done.  AfterClaw learns an exit status or an exception: a command
\* it takes to have failed may have had its effect, a part of it, or none.
Effect(action, ok) ==
    \/ action = "start" /\ Starts
    \/ action = "stop" /\ Ends
    \/ action = "restart" /\ (Restarts \/ (~ok /\ Ends))
    \/ ~ok /\ UNCHANGED <<daemon, conf>>

service_action(action, ok) ==
    /\ Effect(action, ok)
    /\ IF ok THEN UNCHANGED troubles
             ELSE troubles < MaxTroubles /\ troubles' = troubles + 1

Trouble == troubles < MaxTroubles /\ troubles' = troubles + 1

\* What systemd, or docker, says of the service.
systemd_active == daemon.run
container_active == daemon.run
Active == IF client = "docker" THEN container_active ELSE systemd_active

\* A request AfterClaw sends to the client's WebUI is answered: at one of the
\* addresses it tries, without or with a login.
candidate_base_urls_serve == daemon.up
Reachable == candidate_base_urls_serve /\ daemon.live.monitor

\* Requests that a user or another request came between are no longer alone.
Disturbed == [w \in Workers |-> [frame[w] EXCEPT !.alone = FALSE]]

\* The settings of a client that runs, or those it will start with.
InForce == IF daemon.run THEN daemon.live ELSE conf

\* Nothing the users set was lost by what happened before.
Intact == InForce.own = latest /\ (daemon.dirty \/ conf.own = latest)

Serve ==
    /\ daemon.run /\ ~daemon.up /\ ~daemon.ending
    /\ daemon' = [daemon EXCEPT !.up = TRUE]
    /\ UNCHANGED <<client, conf, tmp, cache, frame, made, troubles, latest>>

\* A client told to quit ends some time after the request for it did.
QuitsAtLast ==
    /\ daemon.ending
    /\ Ends
    /\ frame' = Disturbed
    /\ UNCHANGED <<client, tmp, cache, made, troubles, latest>>

Saves ==
    /\ client # "rtorrent" /\ daemon.run /\ daemon.dirty
    /\ conf' = daemon.live
    /\ daemon' = [daemon EXCEPT !.dirty = FALSE]
    /\ UNCHANGED <<client, tmp, cache, frame, made, troubles, latest>>

UserSets ==
    /\ client # "rtorrent" /\ daemon.up /\ latest < MaxOwn
    /\ latest' = latest + 1
    /\ daemon' = [daemon EXCEPT !.live.own = latest + 1, !.dirty = TRUE]
    /\ UNCHANGED <<client, conf, tmp, cache, frame, made, troubles>>

UserActs ==
    /\ \E action \in {"start", "stop"} : Effect(action, TRUE)
    /\ daemon' # daemon
    /\ Trouble
    /\ frame' = Disturbed
    /\ UNCHANGED <<client, tmp, cache, made, latest>>

-----------------------------------------------------------------------------
(* Requests: where each begins, and how they move on.                        *)

Enter(op) ==
    CASE op = "optimize" -> "ensure"
      [] op = "quit" -> "quit"
      [] op \in {"start", "stop", "restart", "status"} -> "status"
      [] client = "qbittorrent" -> "meta"
      [] client = "docker" -> "prefs"
      [] OTHER -> "nq_start"

Begin(w) ==
    /\ frame[w].pc \in {"idle", "done"} /\ made < MaxRequests
    /\ made' = made + 1
    /\ \E op \in Ops :
         frame' = [Disturbed EXCEPT ![w] =
                     [Idle EXCEPT !.op = op, !.pc = Enter(op),
                        !.then = IF op = "status" THEN "done" ELSE "control",
                        !.alone = \A x \in Workers \ {w} : ~Busy(x),
                        !.intact = Intact]]
    /\ UNCHANGED <<client, daemon, conf, tmp, cache, troubles, latest>>

Goto(w, pc) == frame' = [frame EXCEPT ![w].pc = pc]

\* What a write in place that fails leaves: it empties the file first, but for
\* rtorrent's once it has the limits, which is left as it is.
Unwritten == IF client = "rtorrent" /\ conf.limits THEN {conf} ELSE {conf, Blank}

\* AfterClaw restarts: its threads and the figures are gone.  A file it was
\* writing may be left as opening it made it: empty.
At(pc) == \E w \in Workers : frame[w].pc = pc
AfterClawDies ==
    /\ \E w \in Workers : Busy(w)
    /\ Trouble
    /\ conf' \in IF At("nq_write") THEN Unwritten ELSE {conf}
    /\ tmp' \in IF At("write") THEN {tmp, Blank} ELSE {tmp}
    /\ frame' = [w \in Workers |-> Idle]
    /\ cache' = NoFigures
    /\ UNCHANGED <<client, daemon, made, latest>>

-----------------------------------------------------------------------------
(* Figures.                                                                  *)

\* The status page asks only a client that is running and is a qBittorrent.
control_status_payload(w) ==
    /\ frame[w].pc = "status"
    /\ Goto(w, IF Active /\ QBittorrent THEN "snapshot" ELSE frame[w].then)
    /\ UNCHANGED <<client, daemon, conf, tmp, cache, made, troubles, latest>>

\* Under qbt_stats_lock: figures younger than four seconds are the answer.
SnapshotCached(w) ==
    /\ frame[w].pc = "snapshot"
    /\ frame' = IF cache.there
                THEN [frame EXCEPT ![w].seen = cache.ok, ![w].pc = frame[w].then]
                ELSE [frame EXCEPT ![w].pc = "fetch"]
    /\ UNCHANGED <<client, daemon, conf, tmp, cache, made, troubles, latest>>

\* A client that hangs does not answer, though it serves.
fetch_maindata(w) ==
    /\ frame[w].pc = "fetch"
    /\ \E answers \in BOOLEAN :
         /\ IF answers THEN UNCHANGED troubles ELSE Reachable /\ Trouble
         /\ frame' = [frame EXCEPT ![w].seen = Reachable /\ answers, ![w].pc = "store"]
    /\ UNCHANGED <<client, daemon, conf, tmp, cache, made, latest>>

SnapshotStore(w) ==
    /\ frame[w].pc = "store"
    /\ cache' = [there |-> TRUE, ok |-> frame[w].seen]
    /\ Goto(w, frame[w].then)
    /\ UNCHANGED <<client, daemon, conf, tmp, made, troubles, latest>>

FourSeconds ==
    /\ cache.there /\ cache' = NoFigures
    /\ UNCHANGED <<client, daemon, conf, tmp, frame, made, troubles, latest>>

-----------------------------------------------------------------------------
(* Start, stop, restart and quit.                                            *)

\* Mistake: the figures are kept.
stats_cache_kept == UNCHANGED cache

\* After its action succeeded, a request forgets the figures and asks again.
reset_stats_cache == cache' = NoFigures

execute_control_action(w) ==
    /\ frame[w].pc = "control"
    /\ \E ok \in BOOLEAN :
         /\ service_action(frame[w].op, ok)
         /\ frame' = [frame EXCEPT ![w].ok = ok,
                        ![w].pc = IF ok THEN "reset" ELSE "done"]
    /\ UNCHANGED <<client, tmp, cache, made, latest>>

\* A request that changes the client: it does what it is told and says so; or
\* it does not say so, and may have done it.
Told(ok, new) ==
    IF ok THEN Reachable /\ daemon' = new /\ UNCHANGED troubles
    ELSE \/ ~Reachable /\ UNCHANGED <<daemon, troubles>>
         \/ Reachable /\ daemon' \in {daemon, new} /\ Trouble

shutdown_once(w) ==
    /\ frame[w].pc = "quit"
    /\ \E ok \in BOOLEAN :
         /\ Told(ok, [daemon EXCEPT !.ending = TRUE, !.up = FALSE])
         /\ frame' = [frame EXCEPT ![w].ok = ok, ![w].pc = IF ok THEN "reset" ELSE "done"]
    /\ UNCHANGED <<client, conf, tmp, cache, made, latest>>

\* fix and optimize verify a service they found running, the others show it.
Reset(w) ==
    /\ frame[w].pc = "reset"
    /\ reset_stats_cache
    /\ frame' =
         [frame EXCEPT ![w].then =
            IF frame[w].op \in {"fix", "optimize"} THEN "answer" ELSE "done",
          ![w].pc =
            IF frame[w].op \notin {"fix", "optimize"} THEN "status"
            ELSE IF frame[w].found THEN "snapshot" ELSE "answer"]
    /\ UNCHANGED <<client, daemon, conf, tmp, made, troubles, latest>>

Answer(w) ==
    /\ frame[w].pc = "answer"
    /\ frame' = [frame EXCEPT ![w].ok = TRUE, ![w].verify = frame[w].seen,
                   ![w].then = "done", ![w].pc = "status"]
    /\ UNCHANGED <<client, daemon, conf, tmp, cache, made, troubles, latest>>

-----------------------------------------------------------------------------
(* fix and optimize of a qBittorrent service.                                *)

\* optimize starts a service that is not running, and does not look at how
\* that went; a container is always started.
Ensure(w) ==
    /\ frame[w].pc = "ensure"
    /\ IF Active /\ client # "docker"
       THEN UNCHANGED <<daemon, conf, troubles>>
       ELSE \E ok \in BOOLEAN : service_action("start", ok)
    /\ Goto(w, Enter("fix"))
    /\ UNCHANGED <<client, tmp, cache, made, latest>>

\* Mistake: the settings are changed under a service that runs.
MetaRunning(w) ==
    /\ frame[w].pc = "meta"
    /\ frame' = [frame EXCEPT ![w].found = Active, ![w].pc = "read"]
    /\ UNCHANGED <<client, daemon, conf, tmp, cache, made, troubles, latest>>

Meta(w) ==
    /\ frame[w].pc = "meta"
    /\ frame' = [frame EXCEPT ![w].found = Active,
                   ![w].pc = IF Active THEN "stop" ELSE "read"]
    /\ UNCHANGED <<client, daemon, conf, tmp, cache, made, troubles, latest>>

\* A stop that says it failed is not made good, though it may have worked.
Stop(w) ==
    /\ frame[w].pc = "stop"
    /\ \E ok \in BOOLEAN :
         /\ service_action("stop", ok)
         /\ frame' = [frame EXCEPT ![w].stopped = ok, ![w].came = ok \/ daemon'.run,
                        ![w].pc = IF ok THEN "read" ELSE "except"]
    /\ UNCHANGED <<client, tmp, cache, made, latest>>

\* The settings AfterClaw wants, the others as they were.
Desired(op, s) ==
    [s EXCEPT !.monitor = TRUE, !.limits = @ \/ op = "optimize"]

\* A write that fails may leave an empty file.
Raises(w) ==
    /\ frame[w].pc \in {"read", "write"}
    /\ tmp' \in IF frame[w].pc = "write" THEN {tmp, Blank} ELSE {tmp}
    /\ Trouble
    /\ Goto(w, "except")
    /\ UNCHANGED <<client, daemon, conf, cache, made, latest>>

Read(w) ==
    /\ frame[w].pc = "read"
    /\ frame' = [frame EXCEPT ![w].read = conf, ![w].pc = "write"]
    /\ UNCHANGED <<client, daemon, conf, tmp, cache, made, troubles, latest>>

WriteTmp(w) ==
    /\ frame[w].pc = "write"
    /\ tmp' = Desired(frame[w].op, frame[w].read)
    /\ Goto(w, "replace")
    /\ UNCHANGED <<client, daemon, conf, cache, made, troubles, latest>>

\* os.replace: the second of two requests finds no file to put in place.
Replace(w) ==
    /\ frame[w].pc = "replace"
    /\ IF tmp = None
       THEN Goto(w, "except") /\ UNCHANGED conf
       ELSE Goto(w, IF frame[w].found THEN "start" ELSE "reset") /\ conf' = tmp
    /\ tmp' = None
    /\ UNCHANGED <<client, daemon, cache, made, troubles, latest>>

StartAgain(w) ==
    /\ frame[w].pc = "start"
    /\ \E ok \in BOOLEAN :
         /\ service_action("start", ok)
         /\ frame' = [frame EXCEPT ![w].stopped = ~ok, ![w].came = ok,
                        ![w].pc = IF ok THEN "reset" ELSE "except"]
    /\ UNCHANGED <<client, tmp, cache, made, latest>>

\* Mistake: the service is left as the failure found it.
ExceptLeaves(w) ==
    /\ frame[w].pc = "except"
    /\ Goto(w, "done")
    /\ UNCHANGED <<client, daemon, conf, tmp, cache, made, troubles, latest>>

\* Whatever failed, a service that was stopped is started again.
Except(w) ==
    /\ frame[w].pc = "except"
    /\ IF frame[w].found /\ frame[w].stopped
       THEN \E ok \in BOOLEAN :
              /\ service_action("start", ok)
              /\ frame' = [frame EXCEPT ![w].came = ok, ![w].pc = "done"]
       ELSE Goto(w, "done") /\ UNCHANGED <<daemon, conf, troubles>>
    /\ UNCHANGED <<client, tmp, cache, made, latest>>

-----------------------------------------------------------------------------
(* fix and optimize of a container: through its WebUI, while it runs.        *)

SetPreferences(pref, ok) ==
    Told(ok, CASE pref = "moves"  -> [daemon EXCEPT !.live.moves = TRUE, !.dirty = TRUE]
               [] pref = "limits" -> [daemon EXCEPT !.live.limits = TRUE, !.dirty = TRUE])

\* optimize: any address that takes the settings will do; they are verified.
Limits(w) ==
    /\ frame[w].pc = "prefs" /\ frame[w].op = "optimize"
    /\ \E ok \in BOOLEAN :
         /\ SetPreferences("limits", ok)
         /\ frame' = [frame EXCEPT ![w].found = ok, ![w].pc = IF ok THEN "reset" ELSE "done"]
    /\ UNCHANGED <<client, conf, tmp, cache, made, latest>>

\* fix answers ok only if the mounts and the directories, which are outside
\* the model, are right too; it does not verify.
Moves(w) ==
    /\ frame[w].pc = "prefs" /\ frame[w].op = "fix"
    /\ \E ok, right \in BOOLEAN :
         /\ SetPreferences("moves", ok)
         /\ frame' = [frame EXCEPT ![w].ok = ok /\ right, ![w].then = "done",
                        ![w].pc = IF ok /\ right THEN "status" ELSE "done"]
    /\ UNCHANGED <<client, conf, tmp, cache, made, latest>>

-----------------------------------------------------------------------------
(* fix and optimize of the other clients: their file is written in place     *)
(* while they run, and then they are restarted.                              *)

OtherStart(w) ==
    /\ frame[w].pc = "nq_start"
    /\ IF Active
       THEN UNCHANGED <<daemon, conf, troubles>>
       ELSE \E ok \in BOOLEAN : service_action("start", ok)
    /\ Goto(w, "nq_write")
    /\ UNCHANGED <<client, tmp, cache, made, latest>>

OtherWrite(w) ==
    /\ frame[w].pc = "nq_write"
    /\ \/ /\ conf' = [conf EXCEPT !.limits = TRUE]
          /\ Goto(w, "nq_restart")
          /\ UNCHANGED troubles
       \/ /\ conf' \in Unwritten
          /\ Goto(w, "done")
          /\ Trouble
    /\ UNCHANGED <<client, daemon, tmp, cache, made, latest>>

OtherRestart(w) ==
    /\ frame[w].pc = "nq_restart"
    /\ \E ok \in BOOLEAN :
         /\ service_action("restart", ok)
         /\ frame' = [frame EXCEPT ![w].ok = TRUE, ![w].came = ok,
                        ![w].then = "done", ![w].pc = "status"]
    /\ UNCHANGED <<client, tmp, cache, made, latest>>

-----------------------------------------------------------------------------
Request(w) ==
    \/ Begin(w) \/ control_status_payload(w) \/ SnapshotCached(w)
    \/ fetch_maindata(w) \/ SnapshotStore(w) \/ execute_control_action(w)
    \/ shutdown_once(w) \/ Reset(w) \/ Answer(w)
    \/ Ensure(w) \/ Meta(w) \/ Stop(w) \/ Raises(w) \/ Read(w) \/ WriteTmp(w)
    \/ Replace(w) \/ StartAgain(w) \/ Except(w) \/ Limits(w) \/ Moves(w)
    \/ OtherStart(w) \/ OtherWrite(w) \/ OtherRestart(w)

Next ==
    \/ \E w \in Workers : Request(w)
    \/ Serve \/ QuitsAtLast \/ Saves \/ UserSets \/ UserActs
    \/ AfterClawDies \/ FourSeconds

Spec == Init /\ [][Next]_vars

-----------------------------------------------------------------------------
\* Every variable holds a value of its kind.
TypeOK ==
    /\ client \in Clients
    /\ conf \in Settings /\ tmp \in Settings \cup {None}
    /\ daemon \in [run : BOOLEAN, up : BOOLEAN, ending : BOOLEAN,
                   dirty : BOOLEAN, live : Settings \cup {None}]
    /\ daemon.run <=> daemon.live # None
    /\ cache \in [there : BOOLEAN, ok : BOOLEAN]
    /\ \A w \in Workers :
         /\ frame[w].read \in Settings \cup {None}
         /\ frame[w].pc \in {"write", "replace"} => frame[w].read # None
    /\ made \in 0..MaxRequests /\ troubles \in 0..MaxTroubles
    /\ latest \in 1..MaxOwn

Alone(w, ops) == frame[w].pc = "done" /\ frame[w].alone /\ frame[w].op \in ops

\* A fix or an optimization that found the client's service running and met
\* nobody else leaves it running, however reading, writing and replacing the
\* file failed on the way.  Two things excuse it: its last attempt to start the
\* service failed (app.py 10139-10141, 10503-10505), or the attempt to stop it
\* was said to have failed and had stopped it, which the code takes for a
\* service that still runs (app.py 10047-10051).
ServiceComesBack ==
    \A w \in Workers :
        Alone(w, {"fix", "optimize"}) /\ frame[w].found /\ frame[w].came
            => daemon.run

\* A fix or an optimization that answers ok and met nobody else has its
\* settings in force, in the client or, where it is not running, in the file
\* it will read; and what the users had last set is not lost by it.  Two cases
\* are left out: the clients that write their settings when they end, since the
\* file is changed under them and their restart undoes it (app.py 9656, 9681),
\* and an rtorrent whose restart failed, which is answered with ok all the same
\* (app.py 9680-9683).
SettingsInForce ==
    \A w \in Workers :
        Alone(w, {"fix", "optimize"}) /\ frame[w].ok /\ client # "transmission"
            => /\ client = "qbittorrent" => InForce.monitor
               /\ client = "docker" /\ frame[w].op = "fix" => InForce.moves
               /\ IF client = "rtorrent" THEN frame[w].came => InForce.limits
                  ELSE frame[w].op = "optimize" => InForce.limits
               /\ frame[w].intact => InForce.own = latest

\* "Verified" is never read from figures of the time before the restart: a
\* fix or an optimization that met nobody else says so only of a client that
\* is serving now (app.py 10120-10121).
VerifiedIsTrue ==
    \A w \in Workers :
        Alone(w, {"fix", "optimize"}) /\ frame[w].verify => Reachable
=============================================================================
