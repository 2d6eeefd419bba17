--------------------------- MODULE DockerUpgrade ---------------------------
(***************************************************************************)
(* The container upgrade of the docker module                              *)
(* (upgrade_container_with_rollback in fcc/modules/docker/service.py): the *)
(* running container is renamed to a backup name, a new one is created     *)
(* from its snapshot under the old name, and the backup is removed, or     *)
(* renamed back when the creation failed.  Every step is one run of the    *)
(* docker command line, which may fail, with or without having had its     *)
(* effect (a timeout kills the client, not the daemon); requests run in    *)
(* threads of their own and no lock covers the sequence; the process may   *)
(* be restarted between any two steps.                                     *)
(***************************************************************************)
EXTENDS Naturals

CONSTANTS Upgraders,  \* requests for an upgrade of the one container Main
          Main,       \* the name of that container
          Backups,    \* the backup names (Main with the second of the clock)
          MaxIds,     \* bound: containers ever created
          Flaky       \* whether a docker call may fail for its own reasons

ASSUME NamesAssumption == Main \notin Backups
ASSUME BoundsAssumption == MaxIds \in Nat /\ Flaky \in BOOLEAN

VARIABLES name,     \* [Names -> container that bears it, 0 for none]
          good,     \* containers whose creation completed
          running,  \* containers that run
          made,     \* containers ever created
          pc,       \* where each upgrade is
          was,      \* previous_running of its snapshot
          subject,  \* the container its snapshot was taken of
          bak,      \* its backup_id
          said,     \* what it answered
          overlapped \* upgrades overlapped since the last that began alone, with
                     \* a complete container there

docker == <<name, good, running, made>>
mine == <<was, subject, bak, overlapped>>
dockerVars == <<docker, pc, mine, said>>

Names == Backups \union {Main}
Ids == 1..made
Steps == {"idle", "pull", "stop", "rename", "restart", "create",
          "stop new", "drop", "clear", "rename back", "start back"}
Answers == {"none", "failed", "pulled", "upgraded", "rolled back", "rollback failed"}

\* The container runs; the docker service knows no other.
DockerInit == /\ name = [n \in Names |-> IF n = Main THEN 1 ELSE 0]
              /\ good = {1} /\ running = {1} /\ made = 1
              /\ pc = [u \in Upgraders |-> "idle"]
              /\ was = [u \in Upgraders |-> FALSE]
              /\ subject = [u \in Upgraders |-> 0]
              /\ bak \in [Upgraders -> Backups]
              /\ said = [u \in Upgraders |-> "none"]
              /\ overlapped = FALSE

\* Some name is borne by a container that was completely created.
Kept == \E n \in Names : name[n] \in good

At(u, step) == pc[u] = step
Go(u, step) == pc' = [pc EXCEPT ![u] = step] /\ UNCHANGED <<mine, said>>
Answer(u, a) == /\ pc' = [pc EXCEPT ![u] = "idle"]
                /\ said' = [said EXCEPT ![u] = a]
                /\ UNCHANGED mine

-----------------------------------------------------------------------------
(* One call of the docker command line on a name: ok when it had its effect *)
(* and said so, ~ok when it said that it failed.  No container of the name, *)
(* or one that was never completely created, is a failure of itself.        *)

Misfire(ok) == ok \/ Flaky
Lost == UNCHANGED docker

Sets(n, run, ok) ==
    \/ /\ name[n] # 0 /\ Misfire(ok)
       /\ running' = IF run THEN running \union {name[n]} ELSE running \ {name[n]}
       /\ UNCHANGED <<name, good, made>>
    \/ ~ok /\ (name[n] \notin good \/ Flaky) /\ Lost

Renames(from, to, ok) ==
    \/ /\ name[from] # 0 /\ name[to] = 0 /\ Misfire(ok)
       /\ name' = [name EXCEPT ![from] = 0, ![to] = name[from]]
       /\ UNCHANGED <<good, running, made>>
    \/ ~ok /\ (name[from] = 0 \/ name[to] # 0 \/ Flaky) /\ Lost

\* docker rm -f: nobody reads whether it worked.
Removes(n) ==
    \/ name' = [name EXCEPT ![n] = 0] /\ running' = running \ {name[n]}
       /\ UNCHANGED <<good, made>>
    \/ Flaky /\ Lost

\* docker run -d --name Main: a name in use is refused; a container that
\* cannot start is left behind under the name; a timeout hides a success.
Creates(ok) ==
    \/ /\ name[Main] = 0 /\ made < MaxIds
       /\ made' = made + 1
       /\ name' = [name EXCEPT ![Main] = made + 1]
       /\ \/ Misfire(ok) /\ good' = good \union {made + 1}
             /\ running' = running \union {made + 1}
          \/ ~ok /\ UNCHANGED <<good, running>>
    \/ ~ok /\ Lost

-----------------------------------------------------------------------------
(* The steps of one upgrade.                                                *)

\* docker inspect; without a container of that name the upgrade is refused.
Snapshot(u) == /\ At(u, "idle") /\ name[Main] # 0
               /\ was' = [was EXCEPT ![u] = name[Main] \in running]
               /\ subject' = [subject EXCEPT ![u] = name[Main]]
               /\ \E b \in Backups : bak' = [bak EXCEPT ![u] = b]
               /\ pc' = [pc EXCEPT ![u] = "pull"]
               /\ said' = [said EXCEPT ![u] = "none"]
               /\ overlapped' = \/ \E v \in Upgraders \ {u} : pc[v] # "idle"
                                \/ overlapped /\ ~Kept
               /\ UNCHANGED docker

Pull(u) == /\ At(u, "pull") /\ UNCHANGED docker
           /\ \/ Go(u, IF was[u] THEN "stop" ELSE "rename")
              \/ Answer(u, "failed")
              \* not restart_after_pull: the image was all that was asked for
              \/ Answer(u, "pulled")

StopOld(u) == /\ At(u, "stop")
              /\ \/ Sets(Main, FALSE, TRUE) /\ Go(u, "rename")
                 \/ Sets(Main, FALSE, FALSE) /\ Answer(u, "failed")

RenameOld(u) == /\ At(u, "rename")
                /\ \/ Renames(Main, bak[u], TRUE) /\ Go(u, "create")
                   \/ /\ Renames(Main, bak[u], FALSE)
                      /\ IF was[u] THEN Go(u, "restart") ELSE Answer(u, "failed")

\* The old container is started again where it was; the result is ignored.
RestartOld(u) == /\ At(u, "restart")
                 /\ \E ok \in BOOLEAN : Sets(Main, TRUE, ok)
                 /\ Answer(u, "failed")

\* Mutant: goes on to drop the backup without looking at ok_new.
CreateUnchecked(u) == /\ At(u, "create")
                      /\ \E ok \in BOOLEAN : Creates(ok)
                      /\ Go(u, IF was[u] THEN "drop" ELSE "stop new")

Create(u) == /\ At(u, "create")
             /\ \/ Creates(TRUE) /\ Go(u, IF was[u] THEN "drop" ELSE "stop new")
                \/ Creates(FALSE) /\ Go(u, "clear")

\* A container that did not run before is stopped; the result is ignored.
StopNew(u) == /\ At(u, "stop new")
              /\ \E ok \in BOOLEAN : Sets(Main, FALSE, ok)
              /\ Go(u, "drop")

DropBackup(u) == /\ At(u, "drop")
                 /\ Removes(bak[u])
                 /\ Answer(u, "upgraded")

ClearName(u) == /\ At(u, "clear")
                /\ Removes(Main)
                /\ Go(u, "rename back")

\* Mutant: does not look at ok_rename_back.
RenameBackUnchecked(u) ==
    /\ At(u, "rename back")
    /\ \E ok \in BOOLEAN : Renames(bak[u], Main, ok)
    /\ IF was[u] THEN Go(u, "start back") ELSE Answer(u, "rolled back")

RenameBack(u) == /\ At(u, "rename back")
                 /\ \/ /\ Renames(bak[u], Main, TRUE)
                       /\ IF was[u] THEN Go(u, "start back")
                                    ELSE Answer(u, "rolled back")
                    \/ Renames(bak[u], Main, FALSE) /\ Answer(u, "rollback failed")

StartBack(u) == /\ At(u, "start back")
                /\ \/ Sets(Main, TRUE, TRUE) /\ Answer(u, "rolled back")
                   \/ Sets(Main, TRUE, FALSE) /\ Answer(u, "rollback failed")

-----------------------------------------------------------------------------
(* What else happens meanwhile.                                             *)

\* Another request starts or stops a container, or installs one under Main.
Operate == /\ \E n \in Names, run, ok \in BOOLEAN : Sets(n, run, ok)
           /\ UNCHANGED <<pc, mine, said>>
Install == /\ \E ok \in BOOLEAN : Creates(ok)
           /\ UNCHANGED <<pc, mine, said>>

\* The process is restarted: the upgrades in progress are gone, the docker
\* daemon and its containers are not.
Restart == /\ pc' = [u \in Upgraders |-> "idle"]
           /\ said' = [u \in Upgraders |-> "none"]
           /\ UNCHANGED <<docker, mine>>

Upgrade(u) == \/ Snapshot(u) \/ Pull(u) \/ StopOld(u) \/ RenameOld(u)
              \/ RestartOld(u) \/ Create(u) \/ StopNew(u) \/ DropBackup(u)
              \/ ClearName(u) \/ RenameBack(u) \/ StartBack(u)

DockerNext == (\E u \in Upgraders : Upgrade(u)) \/ Operate \/ Install \/ Restart

DockerSpec == DockerInit /\ [][DockerNext]_dockerVars

-----------------------------------------------------------------------------
DockerTypeOK == /\ made \in Nat
                /\ name \in [Names -> 0..made]
                /\ good \subseteq Ids
                /\ running \subseteq Ids
                /\ pc \in [Upgraders -> Steps]
                /\ was \in [Upgraders -> BOOLEAN]
                /\ subject \in [Upgraders -> 0..made]
                /\ bak \in [Upgraders -> Backups]
                /\ said \in [Upgraders -> Answers]
                /\ overlapped \in BOOLEAN

(***************************************************************************)
(* Whatever calls fail and wherever the process is restarted, a completely *)
(* created container is left under some name: the upgrades never hold only *)
(* containers they could not create, nor none at all.  Nothing in the code *)
(* keeps two upgrades apart, and two together may lose the container; then *)
(* nothing is said until one begins alone that finds a complete one again. *)
(***************************************************************************)
GoodKept == ~overlapped => Kept

(***************************************************************************)
(* An answer tells the truth at the moment it is given: "rolled back" (the *)
(* field rollback_ok) means that the very container the upgrade began with *)
(* has its name back and runs if it ran; "upgraded" that the name is borne *)
(* by a complete container other than the old one.  Again unless upgrades  *)
(* overlapped.                                                             *)
(***************************************************************************)
Truthful(u) ==
    /\ said'[u] = "rolled back" =>
          name'[Main] = subject[u] /\ (was[u] => subject[u] \in running')
    /\ said'[u] = "upgraded" => name'[Main] \in good' \ {subject[u]}

AnswersTrue == [][\A u \in Upgraders : said'[u] # said[u] /\ ~overlapped => Truthful(u)]_dockerVars
=============================================================================
