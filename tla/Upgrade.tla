------------------------------ MODULE Upgrade ------------------------------
(***************************************************************************)
(* Self-upgrade and self-restart of src/app.py.  POST /api/upgrade/run     *)
(* starts a background task that downloads a release, runs its installer   *)
(* and, when a script source was given, a hook script; it reports in a     *)
(* status file that outlives the process, while upgrade_running, which     *)
(* keeps a second task from starting, does not.  GET /api/upgrade/status   *)
(* reads the file first and the flag afterwards, and repairs the file when *)
(* the two disagree.  The process may be restarted at any point: by        *)
(* POST /api/control/restart, by the installer, by hand.  A status file is *)
(* replaced as a whole.  Where the task reads the file, updates it and     *)
(* writes it back, that is one step: a write that comes between is         *)
(* overwritten, as if it had come before the task's own last one.          *)
(***************************************************************************)
EXTENDS Naturals, FiniteSets

CONSTANTS Tasks,      \* bound: background tasks ever started
          Pollers,    \* threads that serve GET /api/upgrade/status
          Restarters, \* threads that carry out a restart
          DiskFails,  \* whether a write of the status file may fail
          None

ASSUME UpgradeAssumption == DiskFails \in BOOLEAN /\ None \notin Tasks

VARIABLES
  status,     \* upgrade_status.json: state, running, hook_state
  running,    \* AppHandler.upgrade_running
  task,       \* where each task is
  script,     \* whether it was given a script source
  result,     \* history: what became of the task
  last,       \* history: the task that was started last
  ppc,        \* where each poller is
  seen,       \* its local status
  queued,     \* AppHandler.restart_queued
  rpc,        \* where each restart thread is
  supported,  \* _upgrade_supported: systemctl or launchctl, and root
  restarted   \* history: the process was restarted since a task was started

upgradeVars == <<status, running, task, script, result, last>>
pollVars    == <<ppc, seen>>
restartVars == <<queued, rpc, supported>>
allVars == <<status, running, task, script, result, last, ppc, seen, queued, rpc,
            supported, restarted>>

Status == [state : {"idle", "running", "success", "error", "unknown"},
           running : BOOLEAN,
           hook : {"idle", "running", "success", "error"}]

\* Points at which a task is under way.
Working == {"fetch", "install", "hook", "finally"}

UpgradeTypeOK ==
  /\ status \in Status
  /\ running \in BOOLEAN
  /\ task \in [Tasks -> {"new", "lost", "ended"} \union Working]
  /\ script \in [Tasks -> BOOLEAN]
  /\ result \in [Tasks -> {"none", "installed", "nohook", "failed"}]
  /\ last \in Tasks \union {None}
  /\ ppc \in [Pollers -> {"idle", "read", "stale"}]
  /\ seen \in [Pollers -> Status]
  /\ queued \in BOOLEAN
  /\ rpc \in [Restarters -> {"idle", "sleep"}]
  /\ supported \in BOOLEAN
  /\ restarted \in BOOLEAN

UpgradeInit ==
  /\ status = [state |-> "idle", running |-> FALSE, hook |-> "idle"]
  /\ running = FALSE
  /\ task = [u \in Tasks |-> "new"]
  /\ script = [u \in Tasks |-> FALSE]
  /\ result = [u \in Tasks |-> "none"]
  /\ last = None
  /\ ppc = [p \in Pollers |-> "idle"]
  /\ seen = [p \in Pollers |-> status]
  /\ queued = FALSE
  /\ rpc = [r \in Restarters |-> "idle"]
  /\ supported \in BOOLEAN
  /\ restarted = FALSE

-----------------------------------------------------------------------------
(* _schedule_upgrade *)

TaskTo(u, p) == task' = [task EXCEPT ![u] = p]

Report(state, isRunning, hook) ==
  status' = [state |-> state, running |-> isRunning, hook |-> hook]

\* Mutant: the flag is set but not tested.
StartAnyway(u) ==
  /\ supported /\ task[u] = "new"
  /\ running' = TRUE
  /\ \E s \in BOOLEAN : script' = [script EXCEPT ![u] = s]
  /\ Report("running", TRUE, "idle")
  /\ TaskTo(u, "fetch")
  /\ restarted' = FALSE
  /\ last' = u
  /\ UNCHANGED <<result, pollVars, restartVars>>

\* Mutant: the status of the last upgrade is not replaced.
StartQuietly(u) ==
  /\ supported /\ task[u] = "new"
  /\ ~running
  /\ running' = TRUE
  /\ \E s \in BOOLEAN : script' = [script EXCEPT ![u] = s]
  /\ TaskTo(u, "fetch")
  /\ restarted' = FALSE
  /\ last' = u
  /\ UNCHANGED <<status, result, pollVars, restartVars>>

\* Under upgrade_lock: no other task, set the flag, write a fresh status.
\* The background thread is started; a refused request changes nothing.
Start(u) ==
  /\ supported /\ task[u] = "new"
  /\ ~running
  /\ running' = TRUE
  /\ \E s \in BOOLEAN : script' = [script EXCEPT ![u] = s]
  /\ Report("running", TRUE, "idle")
  /\ TaskTo(u, "fetch")
  /\ restarted' = FALSE
  /\ last' = u
  /\ UNCHANGED <<result, pollVars, restartVars>>

\* The write raises after the flag was set: there is no task, the flag stays
\* until the process goes.
StartFails(u) ==
  /\ DiskFails /\ supported /\ task[u] = "new"
  /\ ~running
  /\ running' = TRUE
  /\ TaskTo(u, "lost")
  /\ UNCHANGED <<status, script, result, last, pollVars, restartVars, restarted>>

\* The installation cannot upgrade itself: the answer is an error, and so is
\* the status, without a look at lock or flag.
Refuse ==
  /\ ~supported
  /\ Report("error", FALSE, "idle")
  /\ UNCHANGED <<running, task, script, result, last, pollVars, restartVars, restarted>>

\* The release is found, downloaded and unpacked; each stage reports.
Fetched(u) ==
  /\ task[u] = "fetch"
  /\ Report("running", TRUE, status.hook)
  /\ TaskTo(u, "install")
  /\ UNCHANGED <<running, script, result, last, pollVars, restartVars, restarted>>

\* install.sh succeeds and a hook is wanted.
Installed(u) ==
  /\ task[u] = "install" /\ script[u]
  /\ Report("running", TRUE, "running")
  /\ result' = [result EXCEPT ![u] = "nohook"]
  /\ TaskTo(u, "hook")
  /\ UNCHANGED <<running, script, last, pollVars, restartVars, restarted>>

\* install.sh succeeds and there is no hook: hook_state stays idle.
Finished(u) ==
  /\ task[u] = "install" /\ ~script[u]
  /\ Report("success", FALSE, "idle")
  /\ result' = [result EXCEPT ![u] = "installed"]
  /\ TaskTo(u, "finally")
  /\ UNCHANGED <<running, script, last, pollVars, restartVars, restarted>>

\* The hook was found and has run; its failure is not one of the upgrade.
HookRan(u) ==
  /\ task[u] = "hook"
  /\ \E h \in {"success", "error"} : Report("success", FALSE, h)
  /\ result' = [result EXCEPT ![u] = "installed"]
  /\ TaskTo(u, "finally")
  /\ UNCHANGED <<running, script, last, pollVars, restartVars, restarted>>

\* The except clause: no release, a bad archive, the installer fails, or no
\* candidate of the script source holds a script.  hook_state is left alone,
\* and where this write fails too, so is everything.
Fails(u) ==
  /\ task[u] \in {"fetch", "install", "hook"}
  /\ \/ Report("error", FALSE, status.hook)
     \/ DiskFails /\ UNCHANGED status
  /\ result' = [result EXCEPT ![u] = IF task[u] = "hook" THEN "nohook" ELSE "failed"]
  /\ TaskTo(u, "finally")
  /\ UNCHANGED <<running, script, last, pollVars, restartVars, restarted>>

\* The finally clause.
Ends(u) ==
  /\ task[u] = "finally"
  /\ running' = FALSE
  /\ TaskTo(u, "ended")
  /\ UNCHANGED <<status, script, result, last, pollVars, restartVars, restarted>>

-----------------------------------------------------------------------------
(* _upgrade_status_payload *)

PollRead(p) ==
  /\ ppc[p] = "idle"
  /\ seen' = [seen EXCEPT ![p] = status]
  /\ ppc' = [ppc EXCEPT ![p] = "read"]
  /\ UNCHANGED <<upgradeVars, restartVars, restarted>>

\* The flag, under the lock, and what it says of the status that was read.
PollFlag(p) ==
  /\ ppc[p] = "read"
  /\ ppc' = [ppc EXCEPT ![p] =
       IF ~running /\ seen[p].running /\ seen[p].state = "running"
       THEN "stale" ELSE "idle"]
  /\ UNCHANGED <<upgradeVars, seen, restartVars, restarted>>

\* The repair's own write raises, and with it the request.
RepairFails(p) ==
  /\ DiskFails
  /\ ppc[p] = "stale"
  /\ ppc' = [ppc EXCEPT ![p] = "idle"]
  /\ UNCHANGED <<upgradeVars, seen, restartVars, restarted>>

\* Mutant: the file's flag is put right, its state is not.
PollRepairsFlag(p) ==
  /\ ppc[p] = "stale"
  /\ Report("running", FALSE, seen[p].hook)
  /\ ppc' = [ppc EXCEPT ![p] = "idle"]
  /\ UNCHANGED <<running, task, script, result, last, seen, restartVars, restarted>>

PollRepairs(p) ==
  /\ ppc[p] = "stale"
  /\ Report("unknown", FALSE, seen[p].hook)
  /\ ppc' = [ppc EXCEPT ![p] = "idle"]
  /\ UNCHANGED <<running, task, script, result, last, seen, restartVars, restarted>>

-----------------------------------------------------------------------------
(* _schedule_restart *)

\* Mutant: a restart that is queued already is not noticed.
QueueAnyRestart(r) ==
  /\ rpc[r] = "idle"
  /\ queued' = TRUE
  /\ rpc' = [rpc EXCEPT ![r] = "sleep"]
  /\ UNCHANGED <<upgradeVars, pollVars, supported, restarted>>

\* Under control_lock; a second request is refused while one is queued.
QueueRestart(r) ==
  /\ rpc[r] = "idle"
  /\ ~queued
  /\ queued' = TRUE
  /\ rpc' = [rpc EXCEPT ![r] = "sleep"]
  /\ UNCHANGED <<upgradeVars, pollVars, supported, restarted>>

\* The restart command fails: the thread's finally clause.
RestartFails(r) ==
  /\ rpc[r] = "sleep"
  /\ queued' = FALSE
  /\ rpc' = [rpc EXCEPT ![r] = "idle"]
  /\ UNCHANGED <<upgradeVars, pollVars, supported, restarted>>

\* The process goes away with its threads and flags and a new one comes up,
\* as root or not.
Restart ==
  /\ running' = FALSE
  /\ task' = [u \in Tasks |-> IF task[u] = "new" THEN "new" ELSE "ended"]
  /\ ppc' = [p \in Pollers |-> "idle"]
  /\ queued' = FALSE
  /\ rpc' = [r \in Restarters |-> "idle"]
  /\ supported' \in BOOLEAN
  /\ restarted' = TRUE
  /\ UNCHANGED <<status, script, result, last, seen>>

-----------------------------------------------------------------------------
Work(u) == Fetched(u) \/ Installed(u) \/ Finished(u) \/ HookRan(u) \/ Fails(u) \/ Ends(u)

Poll(p) == PollRead(p) \/ PollFlag(p) \/ PollRepairs(p) \/ RepairFails(p)

UpgradeNext ==
  \/ \E u \in Tasks : Start(u) \/ StartFails(u) \/ Work(u)
  \/ Refuse
  \/ \E p \in Pollers : Poll(p)
  \/ \E r \in Restarters : QueueRestart(r) \/ RestartFails(r)
  \/ Restart

UpgradeSpec == UpgradeInit /\ [][UpgradeNext]_allVars

(***************************************************************************)
(* A task goes on by itself (downloads and the installer are bounded by    *)
(* timeouts or end), and so does a status request once it was made; the    *)
(* settings page makes them again and again.                               *)
(***************************************************************************)
FairSpec ==
  /\ UpgradeSpec
  /\ \A u \in Tasks : WF_allVars(Work(u))
  /\ \A p \in Pollers : WF_allVars(Poll(p))

-----------------------------------------------------------------------------
(* Properties *)

UnderWay == {u \in Tasks : task[u] \in Working}

\* install.sh never runs twice at a time: no interleaving of requests,
\* failures and restarts has two tasks under way, and while there is one a
\* further request is refused.
OneUpgrade ==
  /\ \A u, v \in UnderWay : u = v
  /\ UnderWay # {} => running

\* The same for restarts: one thread at most waits to restart the service,
\* and restart_queued is set exactly while it does.
OneRestart ==
  /\ \A r, s \in Restarters : rpc[r] = "sleep" /\ rpc[s] = "sleep" => r = s
  /\ queued <=> \E r \in Restarters : rpc[r] = "sleep"

\* The status file says "success" only of the upgrade that was started last,
\* and only when its installer and its hook, if any, have run: no status
\* request, failure, refused write or restart leaves an older success in
\* place or makes one up.
SuccessIsTrue ==
  status.state = "success" => last # None /\ result[last] = "installed"

\* A status of "running" does not outlive its task for ever, whatever became
\* of the task: its last report was refused by the disk, or the process was
\* restarted under it.  Once restarts and failing repairs are over, a status
\* request puts the file right or a new task is under way.  The exception is
\* a start of this very process whose first write failed: it leaves the flag
\* set without a task, and nobody repairs anything until the next restart.
RunningIsRepaired ==
  (<>[][~Restart /\ \A p \in Pollers : ~RepairFails(p)]_allVars) =>
    (status.state = "running" /\ UnderWay = {}
       ~> \/ status.state # "running"
          \/ UnderWay # {}
          \/ \E u \in Tasks : task[u] = "lost")

\* "Update task triggered a service restart; please verify current version
\* manually." (app.py:11856): the status turns to unknown only if the
\* process was restarted since the task was started.
UnknownMeansRestart == status.state = "unknown" => restarted
=============================================================================
