----------------------- MODULE TerminalDockerProofs ------------------------
(* The proofs about what the console runs on its host: the web terminal      *)
(* (TerminalSessions) and the container upgrade (DockerUpgrade).             *)
EXTENDS TerminalSessions, DockerUpgrade, FiniteSetTheorems, TLAPS

-----------------------------------------------------------------------------
(***************************************************************************)
(* Proofs about TerminalSessions for any number of workers, sessions and   *)
(* descriptors: the descriptors and processes of the table are exact, a    *)
(* lookup's descriptor is its own session's until that session is closed,  *)
(* and the limit is exceeded by fewer entries than there are workers.      *)
(***************************************************************************)

\* Beside FdsExact: a session id is given out once, so no two entries or
\* starts share one, and only ids that were given out are in use.
Fresh ==
  /\ table \subseteq used
  /\ \A f \in Fds : fdOf[f] # None => fdOf[f] \in used
  /\ \A w \in Inserting : wsid[w] \in used
  /\ \A v, w \in Inserting : v # w => wsid[v] # wsid[w]
  /\ \A s \in Sids : s \in table \/ s \in used \/ s \notin alive

\* What a worker remembers between its lookup and its use of the descriptor.
Looked ==
  \A w \in Workers : wpc[w] = "io" =>
    /\ wsid[w] \in used
    /\ wsid[w] \in table => sfd[wsid[w]] = wfd[w]
    /\ \A v \in Inserting : wsid[v] # wsid[w]

TermInv == TypeOK /\ FdsExact /\ NoOrphanShell /\ Fresh /\ Looked

\* A worker that looked its session up reaches that session's pty.
LEMMA LookedIsOwn == TermInv => IoOwnPty
  BY DEF TermInv, Looked, FdsExact, IoOwnPty

\* Nothing is open at first.
LEMMA InitTerm == Init => TermInv
  BY TerminalAssumption DEF TerminalAssumption, Init, TermInv, TypeOK, FdsExact,
     NoOrphanShell, Fresh, Looked, Inserting

\* What is left after sessions of the table have been closed: no descriptor
\* of another entry or of a start under way was closed with them.
LEMMA CloseAllFacts ==
  ASSUME TermInv, NEW S \in SUBSET table, CloseAll(S)
  PROVE  /\ table' = table \ S /\ alive' = alive \ S
         /\ fdOf' \in [Fds -> Sids \union {None}]
         /\ \A f \in Fds : fdOf'[f] # None =>
              fdOf'[f] = fdOf[f] /\ fdOf[f] \notin S
         /\ \A s \in table' : sfd[s] \in Fds /\ fdOf'[sfd[s]] = s
         /\ \A w \in Inserting : fdOf'[wfd[w]] = wsid[w]
<1> USE TerminalAssumption DEF TerminalAssumption, CloseAll, TermInv, TypeOK
<1>1. fdOf' \in [Fds -> Sids \union {None}]
  OBVIOUS
<1>2. ASSUME NEW f \in Fds, fdOf'[f] # None
      PROVE  fdOf'[f] = fdOf[f] /\ fdOf[f] \notin S
  <2>1. fdOf'[f] = fdOf[f] /\ ~ \E s \in S : sfd[s] = f
    BY <1>2
  <2> QED
    BY <1>2, <2>1 DEF FdsExact, Inserting
<1>3. ASSUME NEW s \in table' PROVE sfd[s] \in Fds /\ fdOf'[sfd[s]] = s
  BY <1>3 DEF FdsExact
<1>4. ASSUME NEW w \in Inserting PROVE fdOf'[wfd[w]] = wsid[w]
  BY <1>4 DEF FdsExact, Inserting
<1> QED
  BY <1>1, <1>2, <1>3, <1>4

\* The cleanup closes only sessions of the table.
LEMMA ExpiredInTable == Expired \subseteq table
  BY DEF Expired

\* Requests that clean up (or close) and leave the workers alone.
\* Closing sessions of the table keeps the invariant.
LEMMA CloseKeeps ==
  ASSUME TermInv, NEW S \in SUBSET table, CloseAll(S),
         UNCHANGED <<sfd, used, idle, wpc, wsid, wfd>>,
         deadMark' \in [Sids -> {"none", "recent", "old"}],
         refused' \in BOOLEAN
  PROVE  TermInv'
<1> USE CloseAllFacts DEF TermInv, TypeOK
<1>1. TypeOK'
  OBVIOUS
<1>2. FdsExact'
  BY DEF FdsExact, Inserting
<1>3. NoOrphanShell' /\ Fresh' /\ Looked'
  BY DEF NoOrphanShell, Fresh, Looked, Inserting
<1> QED
  BY <1>1, <1>2, <1>3

\* The marks that the cleanup sets have their type.
LEMMA DeadMarkType ==
  ASSUME TypeOK, Cleanup
  PROVE  deadMark' \in [Sids -> {"none", "recent", "old"}]
  BY DEF TypeOK, Cleanup

\* Every request, every exit of a process and the passing of time keep it.
LEMMA NextTerm == TermInv /\ [Next]_vars => TermInv'
<1> SUFFICES ASSUME TermInv, [Next]_vars PROVE TermInv'
  OBVIOUS
<1> USE TerminalAssumption DEF TerminalAssumption
<1> TypeOK
  BY DEF TermInv
<1>1. ASSUME NEW w \in Workers, StartCheck(w) PROVE TermInv'
  <2>1. CloseAll(Expired) /\ deadMark' \in [Sids -> {"none", "recent", "old"}]
    BY <1>1, DeadMarkType DEF StartCheck, Cleanup
  <2>2. /\ wpc[w] = "idle" /\ wpc' = [wpc EXCEPT ![w] = "spawn"]
        /\ UNCHANGED <<sfd, used, idle, wsid, wfd, refused>>
    BY <1>1 DEF StartCheck
  <2>3. Inserting' = Inserting
    BY <2>2 DEF Inserting, TypeOK
  <2>4. TypeOK' /\ FdsExact'
    BY <2>1, <2>2, <2>3, CloseAllFacts, ExpiredInTable DEF TermInv, TypeOK, FdsExact
  <2>5. NoOrphanShell' /\ Fresh'
    BY <2>1, <2>2, <2>3, CloseAllFacts, ExpiredInTable
       DEF TermInv, TypeOK, NoOrphanShell, Fresh
  <2>6. Looked'
    BY <2>1, <2>2, <2>3, CloseAllFacts, ExpiredInTable DEF TermInv, TypeOK, Looked
  <2> QED
    BY <2>4, <2>5, <2>6 DEF TermInv
<1>2. ASSUME NEW w \in Workers, StartRefused(w) PROVE TermInv'
  <2>1. CloseAll(Expired) /\ deadMark' \in [Sids -> {"none", "recent", "old"}]
    BY <1>2, DeadMarkType DEF StartRefused, Cleanup
  <2>2. refused' \in BOOLEAN
    BY <1>2 DEF StartRefused, TypeOK
  <2> QED
    BY <1>2, <2>1, <2>2, CloseKeeps, ExpiredInTable DEF StartRefused, workVars
<1>3. ASSUME NEW w \in Workers, Spawn(w) PROVE TermInv'
  <2>1. PICK s \in Sids \ used, f \in Fds :
          /\ fdOf[f] = None
          /\ fdOf' = [fdOf EXCEPT ![f] = s]
          /\ used' = used \union {s}
          /\ alive' = alive \union {s}
          /\ wsid' = [wsid EXCEPT ![w] = s]
          /\ wfd' = [wfd EXCEPT ![w] = f]
    BY <1>3 DEF Spawn
  <2>2. /\ wpc[w] = "spawn" /\ wpc' = [wpc EXCEPT ![w] = "insert"]
        /\ UNCHANGED <<table, sfd, idle, deadMark, refused>>
    BY <1>3 DEF Spawn
  <2>3. Inserting' = Inserting \union {w} /\ w \notin Inserting
    BY <2>2 DEF Inserting, TypeOK
  <2>4. TypeOK'
    BY <2>1, <2>2 DEF TypeOK
  <2>5. FdsExact'
    BY <2>1, <2>2, <2>3 DEF TermInv, TypeOK, FdsExact, Fresh, Inserting
  <2>6. NoOrphanShell' /\ Fresh'
    BY <2>1, <2>2, <2>3 DEF TermInv, TypeOK, NoOrphanShell, Fresh, Inserting
  <2>7. Looked'
    <3>1. ASSUME NEW v \in Workers, wpc'[v] = "io"
          PROVE  v # w /\ wpc[v] = "io" /\ wsid'[v] = wsid[v] /\ wfd'[v] = wfd[v]
      BY <2>1, <2>2, <3>1 DEF TypeOK
    <3>2. ASSUME NEW v \in Workers, wpc'[v] = "io", NEW u \in Inserting'
          PROVE  wsid'[u] # wsid'[v]
      <4>1. CASE u = w
        BY <2>1, <2>2, <3>1, <3>2, <4>1 DEF TermInv, Looked, TypeOK
      <4>2. CASE u # w
        BY <2>1, <2>2, <2>3, <3>1, <3>2, <4>2 DEF TermInv, Looked, TypeOK, Inserting
      <4> QED
        BY <4>1, <4>2
    <3> QED
      BY <2>1, <2>2, <3>1, <3>2 DEF TermInv, Looked
  <2> QED
    BY <2>4, <2>5, <2>6, <2>7 DEF TermInv
<1>4. ASSUME NEW w \in Workers, SpawnFails(w) PROVE TermInv'
  BY <1>4 DEF SpawnFails, Return, sessVars, TermInv, TypeOK, FdsExact,
              NoOrphanShell, Fresh, Looked, Inserting
<1>5. ASSUME NEW w \in Workers, StartFails(w) PROVE TermInv'
  <2>1. /\ wpc[w] = "insert" /\ wpc' = [wpc EXCEPT ![w] = "idle"]
        /\ wsid' = [wsid EXCEPT ![w] = None] /\ wfd' = [wfd EXCEPT ![w] = None]
        /\ fdOf' = [fdOf EXCEPT ![wfd[w]] = None]
        /\ alive' = alive \ {wsid[w]}
        /\ UNCHANGED <<table, sfd, used, idle, deadMark, refused>>
    BY <1>5 DEF StartFails, Return
  <2>2. Inserting' = Inserting \ {w} /\ w \in Inserting
    BY <2>1 DEF Inserting, TypeOK
  <2>3. TypeOK'
    BY <2>1 DEF TypeOK
  <2>4. FdsExact'
    BY <2>1, <2>2 DEF TermInv, TypeOK, FdsExact, Fresh, Inserting
  <2>5. NoOrphanShell' /\ Fresh'
    BY <2>1, <2>2 DEF TermInv, TypeOK, NoOrphanShell, Fresh, Inserting
  <2>6. Looked'
    BY <2>1, <2>2 DEF TermInv, TypeOK, Looked, Inserting
  <2> QED
    BY <2>3, <2>4, <2>5, <2>6 DEF TermInv
<1>6. ASSUME NEW w \in Workers, Insert(w) PROVE TermInv'
  <2>1. /\ wpc[w] = "insert" /\ wpc' = [wpc EXCEPT ![w] = "idle"]
        /\ wsid' = [wsid EXCEPT ![w] = None] /\ wfd' = [wfd EXCEPT ![w] = None]
        /\ table' = table \union {wsid[w]}
        /\ sfd' = [sfd EXCEPT ![wsid[w]] = wfd[w]]
        /\ UNCHANGED <<fdOf, used, alive, idle, deadMark, refused>>
    BY <1>6 DEF Insert, Return
  <2>2. Inserting' = Inserting \ {w} /\ w \in Inserting
    BY <2>1 DEF Inserting, TypeOK
  <2>3. TypeOK'
    BY <2>1, <2>2 DEF TermInv, TypeOK, FdsExact
  <2>4. FdsExact'
    BY <2>1, <2>2 DEF TermInv, TypeOK, FdsExact, Fresh, Inserting
  <2>5. NoOrphanShell' /\ Fresh'
    BY <2>1, <2>2 DEF TermInv, TypeOK, NoOrphanShell, FdsExact, Fresh, Inserting
  <2>6. Looked'
    BY <2>1, <2>2 DEF TermInv, TypeOK, Looked
  <2> QED
    BY <2>3, <2>4, <2>5, <2>6 DEF TermInv
<1>7. ASSUME NEW w \in Workers, NEW s \in Sids, Lookup(w, s) PROVE TermInv'
  <2>1. CloseAll(Expired) /\ deadMark' \in [Sids -> {"none", "recent", "old"}]
    BY <1>7, DeadMarkType DEF Lookup, Cleanup
  <2>2. /\ wpc[w] = "idle" /\ wpc' = [wpc EXCEPT ![w] = "io"]
        /\ s \in table' /\ idle' = idle \ {s}
        /\ wsid' = [wsid EXCEPT ![w] = s] /\ wfd' = [wfd EXCEPT ![w] = sfd[s]]
        /\ UNCHANGED <<sfd, used, refused>>
    BY <1>7 DEF Lookup
  <2>3. Inserting' = Inserting /\ w \notin Inserting
    BY <2>2 DEF Inserting, TypeOK
  <2>4. \A v \in Inserting : wsid'[v] = wsid[v] /\ wfd'[v] = wfd[v]
    BY <2>2, <2>3 DEF Inserting, TypeOK
  <2>5. TypeOK'
    BY <2>1, <2>2, CloseAllFacts, ExpiredInTable DEF TypeOK
  <2>6. FdsExact'
    BY <2>1, <2>2, <2>3, <2>4, CloseAllFacts, ExpiredInTable
       DEF TermInv, TypeOK, FdsExact
  <2>7. NoOrphanShell' /\ Fresh'
    BY <2>1, <2>2, <2>3, <2>4, CloseAllFacts, ExpiredInTable
       DEF TermInv, TypeOK, NoOrphanShell, Fresh
  <2>8. Looked'
    BY <2>1, <2>2, <2>3, <2>4, CloseAllFacts, ExpiredInTable
       DEF TermInv, TypeOK, Looked, Fresh, FdsExact
  <2> QED
    BY <2>5, <2>6, <2>7, <2>8 DEF TermInv
<1>8. CASE LookupFails
  <2>1. CloseAll(Expired) /\ deadMark' \in [Sids -> {"none", "recent", "old"}]
    BY <1>8, DeadMarkType DEF LookupFails, Cleanup
  <2> QED
    BY <1>8, <2>1, CloseKeeps, ExpiredInTable DEF LookupFails, workVars, TypeOK
<1>9. ASSUME NEW w \in Workers, UseFd(w) PROVE TermInv'
  BY <1>9 DEF UseFd, Return, sessVars, TermInv, TypeOK, FdsExact,
              NoOrphanShell, Fresh, Looked, Inserting
<1>10. ASSUME NEW s \in Sids, Close(s) PROVE TermInv'
  <2>1. {s} \intersect table \in SUBSET table
    OBVIOUS
  <2> QED
    BY <1>10, <2>1, CloseKeeps DEF Close, workVars, TypeOK
<1>11. ASSUME NEW s \in Sids, Exit(s) \/ GrowIdle(s) \/ GrowOld(s) PROVE TermInv'
  BY <1>11 DEF Exit, GrowIdle, GrowOld, workVars, TermInv, TypeOK, FdsExact,
              NoOrphanShell, Fresh, Looked, Inserting
<1>12. CASE UNCHANGED vars
  BY <1>12 DEF vars, TermInv, TypeOK, FdsExact, NoOrphanShell, Fresh, Looked,
              Inserting
<1> QED
  BY <1>1, <1>2, <1>3, <1>4, <1>5, <1>6, <1>7, <1>8, <1>9, <1>10, <1>11, <1>12
     DEF Next

\* So it holds in every behaviour.
LEMMA TermInvariant == Spec => []TermInv
  BY InitTerm, NextTerm, PTL DEF Spec

\* Each variable of the terminal keeps its type.
THEOREM TerminalTypes == Spec => []TypeOK
<1>1. TermInv => TypeOK
  BY DEF TermInv
<1> QED
  BY TermInvariant, <1>1, PTL

\* The ptys that are open are those of the table and of the starts under way,
\* each under its own session's number: no path leaks or double-closes one.
THEOREM DescriptorsExact == Spec => []FdsExact
<1>1. TermInv => FdsExact
  BY DEF TermInv
<1> QED
  BY TermInvariant, <1>1, PTL

\* No ssh process runs without a session that can end it.
THEOREM NoShellOrphaned == Spec => []NoOrphanShell
<1>1. TermInv => NoOrphanShell
  BY DEF TermInv
<1> QED
  BY TermInvariant, <1>1, PTL

\* Input and output reach the session's own pty while the session is open.
THEOREM IoReachesOwnPty == Spec => []IoOwnPty
  BY TermInvariant, LookedIsOwn, PTL

-----------------------------------------------------------------------------
(* The limit *)

\* The sets that are counted are finite.
LEMMA CountFacts ==
  ASSUME TypeOK
  PROVE  /\ IsFiniteSet(table) /\ IsFiniteSet(Starting)
         /\ Cardinality(table) \in Nat /\ Cardinality(Starting) \in Nat
         /\ Cardinality(Starting) <= Cardinality(Workers)
         /\ Cardinality(Workers) \in Nat
<1>1. table \subseteq Sids /\ Starting \subseteq Workers
  BY DEF TypeOK, Starting
<1> QED
  BY <1>1, TerminalAssumption, FS_Subset, FS_CardinalityType DEF TerminalAssumption

\* A step that neither adds an entry nor lets a start past the check cannot
\* raise the count.
LEMMA CountShrinks ==
  ASSUME TypeOK, TypeOK', CapOvershoot,
         table' \subseteq table, Starting' \subseteq Starting
  PROVE  CapOvershoot'
<1>1. /\ Cardinality(table') <= Cardinality(table)
      /\ Cardinality(Starting') <= Cardinality(Starting)
  BY CountFacts, FS_Subset
<1>2. /\ Cardinality(table') \in Nat /\ Cardinality(table) \in Nat
      /\ Cardinality(Starting') \in Nat /\ Cardinality(Starting) \in Nat
      /\ Cardinality(Workers) \in Nat
  <2>1. IsFiniteSet(table') /\ IsFiniteSet(Starting')
    BY CountFacts, FS_Subset
  <2> QED
    BY <2>1, CountFacts, FS_CardinalityType
<1> QED
  BY <1>1, <1>2, TerminalAssumption DEF TerminalAssumption, CapOvershoot

\* A start moves its worker from the starts to the table, at the most.
LEMMA NextCap == TypeOK /\ TypeOK' /\ CapOvershoot /\ [Next]_vars => CapOvershoot'
<1> SUFFICES ASSUME TypeOK, TypeOK', CapOvershoot, [Next]_vars
             PROVE  CapOvershoot'
  OBVIOUS
<1>1. ASSUME NEW w \in Workers, StartCheck(w) PROVE CapOvershoot'
  <2>1. Cardinality(table') < MaxSessions
    BY <1>1 DEF StartCheck
  <2>2. Starting' \subseteq Workers /\ table' \subseteq Sids
    BY DEF Starting, TypeOK
  <2>3. /\ Cardinality(Starting') <= Cardinality(Workers)
        /\ Cardinality(Starting') \in Nat /\ Cardinality(Workers) \in Nat
        /\ Cardinality(table') \in Nat
    BY <2>2, TerminalAssumption, FS_Subset, FS_CardinalityType DEF TerminalAssumption
  <2> QED
    BY <2>1, <2>3, TerminalAssumption DEF TerminalAssumption, CapOvershoot
<1>2. ASSUME NEW w \in Workers, Insert(w) PROVE CapOvershoot'
  <2>1. w \in Starting /\ Starting' = Starting \ {w}
    BY <1>2 DEF Insert, Return, Starting, TypeOK
  <2>2. table' = table \union {wsid[w]}
    BY <1>2 DEF Insert
  <2>3. Cardinality(Starting') = Cardinality(Starting) - 1
    BY <2>1, CountFacts, FS_RemoveElement
  <2>4. /\ Cardinality(table') <= Cardinality(table) + 1
        /\ Cardinality(table') \in Nat
    <3>0. IsFiniteSet(table) /\ Cardinality(table) \in Nat
      BY CountFacts
    <3> DEFINE sum == Cardinality(table \union {wsid[w]})
    <3>1. /\ IsFiniteSet(table \union {wsid[w]})
          /\ sum = IF wsid[w] \in table THEN Cardinality(table) ELSE Cardinality(table) + 1
      BY <3>0, FS_AddElement
    <3>2. sum <= Cardinality(table) + 1
      <4> HIDE DEF sum
      <4> QED
        BY <3>0, <3>1
    <3> QED
      BY <2>2, <3>1, <3>2, FS_CardinalityType
  <2> QED
    BY <2>3, <2>4, CountFacts, TerminalAssumption DEF TerminalAssumption, CapOvershoot
<1>3. ASSUME ~ \E w \in Workers : StartCheck(w) \/ Insert(w) PROVE CapOvershoot'
  <2> SUFFICES table' \subseteq table /\ Starting' \subseteq Starting
    BY CountShrinks
  <2> USE DEF TypeOK, Starting, workVars, sessVars, Return, Cleanup, CloseAll
  <2>1. ASSUME NEW w \in Workers, StartRefused(w)
        PROVE  table' \subseteq table /\ Starting' \subseteq Starting
    BY <2>1 DEF StartRefused
  <2>2. ASSUME NEW w \in Workers, Spawn(w)
        PROVE  table' \subseteq table /\ Starting' \subseteq Starting
    BY <2>2 DEF Spawn
  <2>3. ASSUME NEW w \in Workers, SpawnFails(w)
        PROVE  table' \subseteq table /\ Starting' \subseteq Starting
    BY <2>3 DEF SpawnFails
  <2>4. ASSUME NEW w \in Workers, StartFails(w)
        PROVE  table' \subseteq table /\ Starting' \subseteq Starting
    BY <2>4 DEF StartFails
  <2>5. ASSUME NEW w \in Workers, UseFd(w)
        PROVE  table' \subseteq table /\ Starting' \subseteq Starting
    BY <2>5 DEF UseFd
  <2>6. ASSUME NEW w \in Workers, NEW s \in Sids, Lookup(w, s)
        PROVE  table' \subseteq table /\ Starting' \subseteq Starting
    BY <2>6 DEF Lookup
  <2>7. ASSUME LookupFails
        PROVE  table' \subseteq table /\ Starting' \subseteq Starting
    BY <2>7 DEF LookupFails
  <2>8. ASSUME NEW s \in Sids, Close(s) \/ Exit(s) \/ GrowIdle(s) \/ GrowOld(s)
        PROVE  table' \subseteq table /\ Starting' \subseteq Starting
    BY <2>8 DEF Close, Exit, GrowIdle, GrowOld
  <2>9. CASE UNCHANGED vars
    BY <2>9 DEF vars
  <2> QED
    BY <1>3, <2>1, <2>2, <2>3, <2>4, <2>5, <2>6, <2>7, <2>8, <2>9 DEF Next
<1> QED
  BY <1>1, <1>2, <1>3

\* The table outgrows terminal_max_sessions by less than the number of
\* requests that start sessions at the same time.
THEOREM CapBounded == Spec => []CapOvershoot
<1>1. Init => CapOvershoot
  <2> SUFFICES ASSUME Init PROVE CapOvershoot
    OBVIOUS
  <2>1. table = {} /\ Starting = {}
    BY DEF Init, Starting
  <2>2. Cardinality(Workers) \in Nat
    BY TerminalAssumption, FS_CardinalityType DEF TerminalAssumption
  <2> QED
    BY <2>1, <2>2, FS_EmptySet, TerminalAssumption DEF TerminalAssumption, CapOvershoot
<1> QED
  BY <1>1, NextCap, TerminalTypes, PTL DEF Spec

-----------------------------------------------------------------------------
(***************************************************************************)
(* Proofs about DockerUpgrade: its types, and that upgrades, with docker   *)
(* calls failing and the process restarting at any point, keep a complete  *)
(* container and answer truthfully until two of them overlap, and again    *)
(* from the next one on that begins alone and finds a complete container.  *)
(***************************************************************************)

USE DEF At, Names, Ids

\* What a docker call does to the types.
LEMMA SetsType ==
    ASSUME DockerTypeOK, NEW n \in Names, NEW run \in BOOLEAN, NEW ok \in BOOLEAN,
           Sets(n, run, ok)
    PROVE  /\ name' = name /\ good' = good /\ made' = made
           /\ running' \subseteq 1..made
<1>1. CASE UNCHANGED docker
  BY <1>1 DEF DockerTypeOK, docker
<1>2. CASE /\ name[n] # 0 /\ UNCHANGED <<name, good, made>>
           /\ running' = IF run THEN running \union {name[n]} ELSE running \ {name[n]}
  <2>1. name[n] \in 1..made /\ running \subseteq 1..made  BY <1>2 DEF DockerTypeOK
  <2>2. running' \subseteq running \union {name[n]}  BY <1>2
  <2> QED  BY <1>2, <2>1, <2>2
<1> QED  BY <1>1, <1>2 DEF Sets, Lost

LEMMA RenamesType ==
    ASSUME DockerTypeOK, NEW from \in Names, NEW to \in Names, NEW ok \in BOOLEAN,
           Renames(from, to, ok)
    PROVE  /\ good' = good /\ running' = running /\ made' = made
           /\ name' \in [Names -> 0..made]
BY DEF DockerTypeOK, Renames, Lost, docker

LEMMA RemovesType ==
    ASSUME DockerTypeOK, NEW n \in Names, Removes(n)
    PROVE  /\ good' = good /\ made' = made
           /\ running' \subseteq 1..made
           /\ name' \in [Names -> 0..made]
<1>1. running \subseteq 1..made /\ made \in Nat /\ name \in [Names -> 0..made]
  BY DEF DockerTypeOK
<1>2. CASE UNCHANGED docker
  BY <1>1, <1>2 DEF docker
<1>3. CASE /\ name' = [name EXCEPT ![n] = 0] /\ running' = running \ {name[n]}
           /\ UNCHANGED <<good, made>>
  <2>1. running' \subseteq 1..made  BY <1>1, <1>3
  <2>2. 0 \in 0..made  BY <1>1
  <2>3. name' \in [Names -> 0..made]  BY <1>1, <1>3, <2>2
  <2> QED  BY <1>3, <2>1, <2>3
<1> QED  BY <1>2, <1>3 DEF Removes, Lost

LEMMA CreatesType ==
    ASSUME DockerTypeOK, NEW ok \in BOOLEAN, Creates(ok)
    PROVE  /\ made' \in Nat /\ made <= made'
           /\ good' \subseteq 1..made' /\ good \subseteq good'
           /\ running' \subseteq 1..made'
           /\ name' \in [Names -> 0..made']
<1>1. CASE UNCHANGED docker
  BY <1>1 DEF DockerTypeOK, docker
<1>2. CASE /\ made' = made + 1
           /\ name' = [name EXCEPT ![Main] = made + 1]
           /\ good' \in {good, good \union {made + 1}}
           /\ running' \in {running, running \union {made + 1}}
  <2>1. made' \in Nat /\ made <= made'  BY <1>2 DEF DockerTypeOK
  <2>2. name' \in [Names -> 0..made']  BY <1>2 DEF DockerTypeOK
  <2>3. good' \subseteq 1..made' /\ good \subseteq good'  BY <1>2 DEF DockerTypeOK
  <2>4. running' \subseteq 1..made'  BY <1>2 DEF DockerTypeOK
  <2> QED  BY <2>1, <2>2, <2>3, <2>4
<1> QED  BY <1>1, <1>2 DEF Creates, Lost

\* What an upgrade's own variables may become.
LEMMA GoType ==
    ASSUME DockerTypeOK, NEW u \in Upgraders, NEW s \in Steps, Go(u, s)
    PROVE  /\ pc' \in [Upgraders -> Steps] /\ was' = was /\ subject' = subject
           /\ bak' = bak /\ overlapped' = overlapped /\ said' = said
BY DEF DockerTypeOK, Go, mine

LEMMA AnswerType ==
    ASSUME DockerTypeOK, NEW u \in Upgraders, NEW a \in Answers, Answer(u, a)
    PROVE  /\ pc' \in [Upgraders -> Steps] /\ was' = was /\ subject' = subject
           /\ bak' = bak /\ overlapped' = overlapped /\ said' \in [Upgraders -> Answers]
BY DEF DockerTypeOK, Answer, mine, Steps
-----------------------------------------------------------------------------
LEMMA TypeInit == DockerInit => DockerTypeOK
<1> SUFFICES ASSUME DockerInit PROVE DockerTypeOK
  OBVIOUS
<1>1. made \in Nat /\ name \in [Names -> 0..made] /\ good \subseteq Ids /\ running \subseteq Ids
  BY DEF DockerInit
<1>2. /\ pc \in [Upgraders -> Steps] /\ was \in [Upgraders -> BOOLEAN]
      /\ bak \in [Upgraders -> Backups] /\ said \in [Upgraders -> Answers]
      /\ overlapped \in BOOLEAN
  BY DEF DockerInit, Steps, Answers
<1>3. subject \in [Upgraders -> 0..made]
  BY DEF DockerInit
<1> QED  BY <1>1, <1>2, <1>3 DEF DockerTypeOK

LEMMA TypeStep == DockerTypeOK /\ [DockerNext]_dockerVars => DockerTypeOK'
<1> SUFFICES ASSUME DockerTypeOK, [DockerNext]_dockerVars PROVE DockerTypeOK'
  OBVIOUS
<1> DEFINE Docker == /\ made' \in Nat /\ made <= made'
                     /\ good' \subseteq 1..made' /\ running' \subseteq 1..made'
                     /\ name' \in [Names -> 0..made']
           Mine == /\ pc' \in [Upgraders -> Steps] /\ was' \in [Upgraders -> BOOLEAN]
                   /\ subject' = subject /\ bak' = bak /\ overlapped' = overlapped
                   /\ said' \in [Upgraders -> Answers]
<1>0. /\ made \in Nat /\ made <= made /\ good \subseteq 1..made
      /\ name \in [Names -> 0..made]
  BY DEF DockerTypeOK
<1>a. ASSUME Docker, Mine PROVE DockerTypeOK'
  <2>1. subject' \in [Upgraders -> 0..made']  BY <1>a DEF DockerTypeOK
  <2> QED  BY <1>a, <2>1 DEF DockerTypeOK
<1>b. ASSUME UNCHANGED docker PROVE Docker
  BY <1>b DEF DockerTypeOK, docker
<1>c. ASSUME NEW n \in Names, NEW run \in BOOLEAN, NEW ok \in BOOLEAN, Sets(n, run, ok)
      PROVE  Docker
  BY <1>c, <1>0, SetsType
<1>d. ASSUME NEW n \in Names, Removes(n) PROVE Docker
  BY <1>d, <1>0, RemovesType
<1>e. ASSUME NEW ok \in BOOLEAN, Creates(ok) PROVE Docker
  BY <1>e, CreatesType
<1>f. ASSUME NEW from \in Names, NEW to \in Names, NEW ok \in BOOLEAN, Renames(from, to, ok)
      PROVE  Docker
  <2>1. running \subseteq 1..made  BY DEF DockerTypeOK
  <2> QED  BY <1>f, <1>0, <2>1, RenamesType
<1>g. ASSUME NEW u \in Upgraders, NEW s \in Steps, Go(u, s) PROVE Mine
  BY <1>g, GoType DEF DockerTypeOK
<1>h. ASSUME NEW u \in Upgraders, NEW a \in Answers, Answer(u, a) PROVE Mine
  BY <1>h, AnswerType DEF DockerTypeOK
<1>i. Main \in Names /\ (\A u \in Upgraders : bak[u] \in Names)
  BY DEF DockerTypeOK
<1>j. TRUE \in BOOLEAN /\ FALSE \in BOOLEAN
  OBVIOUS
<1>1. ASSUME NEW u \in Upgraders, Snapshot(u) PROVE DockerTypeOK'
  <2>1. Docker  BY <1>1, <1>b DEF Snapshot
  <2>2. /\ name[Main] \in 0..made /\ made' = made
        /\ "pull" \in Steps /\ "none" \in Answers
    BY <1>1 DEF Snapshot, DockerTypeOK, Steps, Answers, docker
  <2>3. subject' \in [Upgraders -> 0..made']
    BY <1>1, <2>2 DEF Snapshot, DockerTypeOK
  <2>4. was' \in [Upgraders -> BOOLEAN] /\ bak' \in [Upgraders -> Backups]
    BY <1>1 DEF Snapshot, DockerTypeOK
  <2>5. pc' \in [Upgraders -> Steps] /\ said' \in [Upgraders -> Answers]
    BY <1>1, <2>2 DEF Snapshot, DockerTypeOK
  <2>6. overlapped' \in BOOLEAN
    BY <1>1 DEF Snapshot, DockerTypeOK
  <2> QED  BY <2>1, <2>3, <2>4, <2>5, <2>6 DEF DockerTypeOK
<1>2. ASSUME NEW u \in Upgraders, Pull(u) PROVE DockerTypeOK'
  BY <1>2, <1>a, <1>b, <1>g, <1>h DEF Pull, Steps, Answers
<1>3. ASSUME NEW u \in Upgraders, StopOld(u) PROVE DockerTypeOK'
  BY <1>3, <1>a, <1>c, <1>g, <1>h, <1>i, <1>j DEF StopOld, Steps, Answers
<1>4. ASSUME NEW u \in Upgraders, RenameOld(u) PROVE DockerTypeOK'
  BY <1>4, <1>a, <1>f, <1>g, <1>h, <1>i, <1>j DEF RenameOld, Steps, Answers
<1>5. ASSUME NEW u \in Upgraders, RestartOld(u) PROVE DockerTypeOK'
  BY <1>5, <1>a, <1>c, <1>h, <1>i, <1>j DEF RestartOld, Answers
<1>6. ASSUME NEW u \in Upgraders, Create(u) PROVE DockerTypeOK'
  BY <1>6, <1>a, <1>e, <1>g, <1>j DEF Create, Steps
<1>7. ASSUME NEW u \in Upgraders, StopNew(u) PROVE DockerTypeOK'
  BY <1>7, <1>a, <1>c, <1>g, <1>i, <1>j DEF StopNew, Steps
<1>8. ASSUME NEW u \in Upgraders, DropBackup(u) PROVE DockerTypeOK'
  BY <1>8, <1>a, <1>d, <1>h, <1>i DEF DropBackup, Answers
<1>9. ASSUME NEW u \in Upgraders, ClearName(u) PROVE DockerTypeOK'
  BY <1>9, <1>a, <1>d, <1>g, <1>i DEF ClearName, Steps
<1>10. ASSUME NEW u \in Upgraders, RenameBack(u) PROVE DockerTypeOK'
  BY <1>10, <1>a, <1>f, <1>g, <1>h, <1>i, <1>j DEF RenameBack, Steps, Answers
<1>11. ASSUME NEW u \in Upgraders, StartBack(u) PROVE DockerTypeOK'
  BY <1>11, <1>a, <1>c, <1>h, <1>i, <1>j DEF StartBack, Answers
<1>12. CASE Operate
  <2>1. Docker  BY <1>12, <1>c DEF Operate
  <2>2. Mine  BY <1>12 DEF Operate, DockerTypeOK, mine
  <2> QED  BY <2>1, <2>2, <1>a
<1>13. CASE Install
  <2>1. Docker  BY <1>13, <1>e DEF Install
  <2>2. Mine  BY <1>13 DEF Install, DockerTypeOK, mine
  <2> QED  BY <2>1, <2>2, <1>a
<1>14. CASE Restart
  <2>1. Docker  BY <1>14, <1>b DEF Restart
  <2>2. Mine  BY <1>14 DEF Restart, DockerTypeOK, mine, Steps, Answers
  <2> QED  BY <2>1, <2>2, <1>a
<1>15. CASE UNCHANGED dockerVars
  BY <1>15 DEF dockerVars, docker, mine, DockerTypeOK
<1> QED
  BY <1>1, <1>2, <1>3, <1>4, <1>5, <1>6, <1>7, <1>8, <1>9, <1>10, <1>11,
     <1>12, <1>13, <1>14, <1>15 DEF DockerNext, Upgrade

\* Types, for any number of upgrades of the container at once.
THEOREM TypeCorrect == DockerSpec => []DockerTypeOK
<1> QED  BY TypeInit, TypeStep, PTL DEF DockerSpec
-----------------------------------------------------------------------------
(***************************************************************************)
(* The inductive invariant while upgrades keep apart: where the old        *)
(* container is at each step, and that the name Main is about to be        *)
(* cleared only while a complete container has another name, and the       *)
(* backup about to be dropped only while Main is a complete one.           *)
(***************************************************************************)
Phase(u) ==
    /\ pc[u] \in {"pull", "stop", "rename", "start back"} =>
          name[Main] = subject[u] /\ subject[u] # 0
    /\ pc[u] \in {"create", "clear", "rename back"} =>
          /\ name[bak[u]] = subject[u] /\ subject[u] # 0
          /\ \E b \in Backups : name[b] \in good
    /\ pc[u] \in {"stop new", "drop"} => name[Main] \in good \ {subject[u]}

Calm == /\ Kept
        /\ \A u, v \in Upgraders : pc[u] # "idle" /\ pc[v] # "idle" => u = v
        /\ \A u \in Upgraders : Phase(u)

Inv == DockerTypeOK /\ (~overlapped => Calm)

\* A call that names no container anew: starts and stops.
LEMMA SetsKeeps ==
    ASSUME DockerTypeOK, NEW n \in Names, NEW run \in BOOLEAN, NEW ok \in BOOLEAN,
           Sets(n, run, ok)
    PROVE  name' = name /\ good' = good
BY SetsType

\* A creation takes the name Main only from nobody, and one that reports
\* success took it for a complete container never seen before.
LEMMA CreatesKeeps ==
    ASSUME DockerTypeOK, NEW ok \in BOOLEAN, Creates(ok)
    PROVE  /\ good \subseteq good'
           /\ \A n \in Backups : name'[n] = name[n]
           /\ name[Main] # 0 => name'[Main] = name[Main]
           /\ ok => name'[Main] = made + 1 /\ made + 1 \in good'
<1>1. CASE UNCHANGED docker /\ ~ok
  BY <1>1 DEF docker
<1>2. CASE /\ name[Main] = 0 /\ name' = [name EXCEPT ![Main] = made + 1]
           /\ good \subseteq good' /\ (ok => made + 1 \in good')
  BY <1>2, NamesAssumption DEF DockerTypeOK
<1>3. \/ UNCHANGED docker /\ ~ok
      \/ /\ name[Main] = 0 /\ name' = [name EXCEPT ![Main] = made + 1]
         /\ good \subseteq good' /\ (ok => made + 1 \in good')
  BY DEF Creates, Lost
<1> QED  BY <1>1, <1>2, <1>3

\* A renaming moves one container and touches no other.
LEMMA RenamesKeeps ==
    ASSUME DockerTypeOK, NEW from \in Names, NEW to \in Names, NEW ok \in BOOLEAN,
           Renames(from, to, ok)
    PROVE  /\ good' = good
           /\ \/ ~ok /\ name' = name
              \/ /\ name[from] # 0 /\ name[to] = 0
                 /\ name'[to] = name[from] /\ name'[from] = 0
                 /\ \A n \in Names \ {from, to} : name'[n] = name[n]
BY DEF DockerTypeOK, Renames, Lost, docker

LEMMA RemovesKeeps ==
    ASSUME DockerTypeOK, NEW n \in Names, Removes(n)
    PROVE  good' = good /\ \A k \in Names \ {n} : name'[k] = name[k]
BY DEF DockerTypeOK, Removes, Lost, docker

LEMMA InvInit == DockerInit => Inv
BY TypeInit DEF DockerInit, Inv, Calm, Kept, Phase

LEMMA CreatesKept == ASSUME DockerTypeOK, Kept, NEW ok \in BOOLEAN, Creates(ok) PROVE Kept'
<1>1. Main \in Names /\ Main \notin Backups
  BY NamesAssumption
<1>2. 0 \notin good
  BY DEF DockerTypeOK
<1> QED BY <1>1, <1>2, CreatesKeeps DEF Kept

\* A step of an upgrade after its snapshot, alone.
LEMMA UpgradeStep ==
    ASSUME DockerTypeOK, Kept, NEW u \in Upgraders, Phase(u), Upgrade(u), ~Snapshot(u)
    PROVE  Kept' /\ Phase(u)'
<1>a. Main \in Names /\ Main \notin Backups /\ bak[u] \in Backups
  BY NamesAssumption DEF DockerTypeOK
<1>b. 0 \notin good
  BY DEF DockerTypeOK
<1>c. ASSUME name' = name, good' = good PROVE Kept'
  BY <1>c DEF Kept
<1>g. ASSUME NEW s \in Steps, Go(u, s)
      PROVE  pc'[u] = s /\ UNCHANGED <<bak, subject>>
  BY <1>g DEF Go, mine, DockerTypeOK
<1>h. ASSUME NEW a \in Answers, Answer(u, a)
      PROVE  Phase(u)'
  BY <1>h DEF Answer, DockerTypeOK, Phase
<1>2. CASE Pull(u)
  <2>1. name' = name /\ good' = good  BY <1>2 DEF Pull, docker
  <2>2. CASE Answer(u, "failed") \/ Answer(u, "pulled")
    BY <2>1, <2>2, <1>c, <1>h DEF Answers
  <2>3. CASE Go(u, IF was[u] THEN "stop" ELSE "rename")
    <3>1. /\ pc'[u] \in {"stop", "rename"} /\ UNCHANGED <<bak, subject>>
      BY <2>3, <1>g DEF Steps
    <3>2. Phase(u)'  BY <1>2, <2>1, <3>1 DEF Pull, Phase
    <3> QED  BY <2>1, <3>2, <1>c
  <2> QED  BY <1>2, <2>2, <2>3 DEF Pull
<1>3. CASE StopOld(u)
  <2>1. name' = name /\ good' = good  BY <1>3, <1>a, SetsKeeps DEF StopOld
  <2>2. CASE Answer(u, "failed")  BY <2>1, <2>2, <1>c, <1>h DEF Answers
  <2>3. CASE Go(u, "rename")
    <3>1. pc'[u] = "rename" /\ UNCHANGED <<bak, subject>>
      BY <2>3, <1>g DEF Steps
    <3>2. Phase(u)'  BY <1>3, <2>1, <3>1 DEF StopOld, Phase
    <3> QED  BY <2>1, <3>2, <1>c
  <2> QED  BY <1>3, <2>2, <2>3 DEF StopOld
<1>4. CASE RenameOld(u)
  <2>1. PICK ok \in BOOLEAN : /\ Renames(Main, bak[u], ok)
                              /\ \/ ok /\ Go(u, "create")
                                 \/ Go(u, "restart") \/ Answer(u, "failed")
    BY <1>4 DEF RenameOld
  <2>2. /\ good' = good
        /\ \/ ~ok /\ name' = name
           \/ /\ name'[bak[u]] = name[Main] /\ name[bak[u]] = 0
              /\ \A n \in Names \ {Main, bak[u]} : name'[n] = name[n]
    BY <2>1, <1>a, RenamesKeeps
  <2>3. Kept'
    <3>1. PICK n \in Names : name[n] \in good  BY DEF Kept
    <3>2. CASE name' = name  BY <3>1, <3>2, <2>2 DEF Kept
    <3>3. CASE /\ name'[bak[u]] = name[Main] /\ name[bak[u]] = 0
               /\ \A k \in Names \ {Main, bak[u]} : name'[k] = name[k]
      <4>1. n # bak[u]  BY <3>1, <3>3, <1>b
      <4>2. name'[IF n = Main THEN bak[u] ELSE n] \in good'
        BY <3>1, <3>3, <4>1, <2>2
      <4> QED  BY <4>2, <3>1, <1>a DEF Kept
    <3> QED  BY <2>2, <3>2, <3>3
  <2>4. CASE ok /\ Go(u, "create")
    <3>1. pc'[u] = "create" /\ UNCHANGED <<bak, subject>>
      BY <2>4, <1>g DEF Steps
    <3>2. name[Main] = subject[u] /\ subject[u] # 0
      BY <1>4 DEF RenameOld, Phase
    <3>3. name'[bak[u]] = subject[u]  BY <2>2, <2>4, <3>2
    <3>4. name'[Main] = 0  BY <2>1, <2>4, <1>a, RenamesKeeps
    <3>5. \E b \in Backups : name'[b] \in good'
      BY <2>3, <3>4, <1>b, <2>2 DEF Kept
    <3>6. Phase(u)'  BY <3>1, <3>2, <3>3, <3>5 DEF Phase
    <3> QED  BY <2>3, <3>6
  <2>5. CASE Go(u, "restart")
    <3>1. pc'[u] = "restart"  BY <2>5, <1>g DEF Steps
    <3> QED  BY <2>3, <3>1 DEF Phase
  <2>6. CASE Answer(u, "failed")  BY <2>3, <2>6, <1>h DEF Answers
  <2> QED  BY <2>1, <2>4, <2>5, <2>6
<1>5. CASE RestartOld(u)
  <2>1. name' = name /\ good' = good  BY <1>5, <1>a, SetsKeeps DEF RestartOld
  <2> QED  BY <1>5, <2>1, <1>c, <1>h DEF RestartOld, Answers
<1>6. CASE Create(u)
  <2>0. PICK ok \in BOOLEAN :
            /\ Creates(ok)
            /\ \/ ok /\ Go(u, IF was[u] THEN "drop" ELSE "stop new")
               \/ ~ok /\ Go(u, "clear")
    BY <1>6 DEF Create
  <2>1. Kept'  BY <2>0, CreatesKept
  <2>2. CASE ok /\ Go(u, IF was[u] THEN "drop" ELSE "stop new")
    <3>1. pc'[u] \in {"drop", "stop new"} /\ UNCHANGED <<bak, subject>>
      BY <2>2, <1>g DEF Steps
    <3>2. name'[Main] = made + 1 /\ made + 1 \in good'
      BY <2>0, <2>2, CreatesKeeps
    <3>3. made + 1 # subject[u]  BY DEF DockerTypeOK
    <3>4. Phase(u)'  BY <3>1, <3>2, <3>3 DEF Phase
    <3> QED  BY <2>1, <3>4
  <2>3. CASE ~ok /\ Go(u, "clear")
    <3>1. pc'[u] = "clear" /\ UNCHANGED <<bak, subject>>
      BY <2>3, <1>g DEF Steps
    <3>2. /\ name[bak[u]] = subject[u] /\ subject[u] # 0
          /\ \E b \in Backups : name[b] \in good
      BY <1>6 DEF Create, Phase
    <3>3. good \subseteq good' /\ \A n \in Backups : name'[n] = name[n]
      BY <2>0, CreatesKeeps
    <3>4. Phase(u)'  BY <3>1, <3>2, <3>3, <1>a DEF Phase
    <3> QED  BY <2>1, <3>4
  <2> QED  BY <2>0, <2>2, <2>3
<1>7. CASE StopNew(u)
  <2>1. name' = name /\ good' = good  BY <1>7, <1>a, SetsKeeps DEF StopNew
  <2>2. pc'[u] = "drop" /\ UNCHANGED <<bak, subject>>
    BY <1>7, <1>g DEF StopNew, Steps
  <2>3. Phase(u)'  BY <1>7, <2>1, <2>2 DEF StopNew, Phase
  <2> QED  BY <2>1, <2>3, <1>c
<1>8. CASE DropBackup(u)
  <2>1. good' = good /\ name'[Main] = name[Main]
    BY <1>8, <1>a, RemovesKeeps DEF DropBackup
  <2>2. name[Main] \in good  BY <1>8 DEF DropBackup, Phase
  <2>3. Kept'  BY <2>1, <2>2, <1>a DEF Kept
  <2> QED  BY <1>8, <2>3, <1>h DEF DropBackup, Answers
<1>9. CASE ClearName(u)
  <2>1. good' = good /\ \A n \in Backups : name'[n] = name[n]
    BY <1>9, <1>a, RemovesKeeps DEF ClearName
  <2>2. pc'[u] = "rename back" /\ UNCHANGED <<bak, subject>>
    BY <1>9, <1>g DEF ClearName, Steps
  <2>3. /\ name[bak[u]] = subject[u] /\ subject[u] # 0
        /\ \E b \in Backups : name[b] \in good
    BY <1>9 DEF ClearName, Phase
  <2>4. Phase(u)'  BY <2>1, <2>2, <2>3, <1>a DEF Phase
  <2>5. Kept'  BY <2>1, <2>3 DEF Kept
  <2> QED  BY <2>4, <2>5
<1>10. CASE RenameBack(u)
  <2>1. PICK ok \in BOOLEAN :
            /\ Renames(bak[u], Main, ok)
            /\ \/ ok /\ Go(u, "start back")
               \/ Answer(u, "rolled back") \/ Answer(u, "rollback failed")
    BY <1>10 DEF RenameBack
  <2>2. /\ good' = good
        /\ \/ ~ok /\ name' = name
           \/ /\ name'[Main] = name[bak[u]] /\ name[Main] = 0
              /\ \A n \in Names \ {Main, bak[u]} : name'[n] = name[n]
    <3>1. bak[u] \in Names /\ Main \in Names /\ Renames(bak[u], Main, ok)
      BY <2>1, <1>a
    <3>2. Names \ {Main, bak[u]} = Names \ {bak[u], Main}  OBVIOUS
    <3> QED  BY ONLY <3>1, <3>2, RenamesKeeps, DockerTypeOK
  <2>3. Kept'
    <3>1. PICK n \in Names : name[n] \in good  BY DEF Kept
    <3>2. CASE name' = name  BY <3>1, <3>2, <2>2 DEF Kept
    <3>3. CASE /\ name'[Main] = name[bak[u]] /\ name[Main] = 0
               /\ \A k \in Names \ {Main, bak[u]} : name'[k] = name[k]
      <4>1. n # Main  BY <3>1, <3>3, <1>b
      <4>2. name'[IF n = bak[u] THEN Main ELSE n] \in good'
        BY <3>1, <3>3, <4>1, <2>2
      <4> QED  BY <4>2, <3>1, <1>a DEF Kept
    <3> QED  BY <2>2, <3>2, <3>3
  <2>4. CASE ok /\ Go(u, "start back")
    <3>1. pc'[u] = "start back" /\ UNCHANGED <<bak, subject>>
      BY <2>4, <1>g DEF Steps
    <3>2. name[bak[u]] = subject[u] /\ subject[u] # 0
      BY <1>10 DEF RenameBack, Phase
    <3>3. Phase(u)'  BY <3>1, <3>2, <2>2, <2>4 DEF Phase
    <3> QED  BY <2>3, <3>3
  <2>5. CASE Answer(u, "rolled back") \/ Answer(u, "rollback failed")
    BY <2>3, <2>5, <1>h DEF Answers
  <2> QED  BY <2>1, <2>4, <2>5
<1>11. CASE StartBack(u)
  <2>1. name' = name /\ good' = good  BY <1>11, <1>a, SetsKeeps DEF StartBack
  <2>2. Answer(u, "rolled back") \/ Answer(u, "rollback failed")
    BY <1>11 DEF StartBack
  <2> QED  BY <2>1, <2>2, <1>c, <1>h DEF Answers
<1> QED
  BY <1>2, <1>3, <1>4, <1>5, <1>6, <1>7, <1>8, <1>9, <1>10, <1>11 DEF Upgrade

\* It leaves the other upgrades where they are, and does not begin.
LEMMA OthersStay ==
    ASSUME DockerTypeOK, NEW u \in Upgraders, Upgrade(u)
    PROVE  /\ \A v \in Upgraders \ {u} : pc'[v] = pc[v] /\ said'[v] = said[v]
           /\ ~Snapshot(u) => pc[u] # "idle" /\ overlapped' = overlapped
<1>1. CASE Snapshot(u)
  BY <1>1 DEF Snapshot, DockerTypeOK
<1>2. CASE ~Snapshot(u)
  <2>1. pc[u] # "idle" /\ ((\E s : Go(u, s)) \/ \E a : Answer(u, a))
    BY <1>2 DEF Upgrade, Pull, StopOld, RenameOld, RestartOld, Create, StopNew, DropBackup,
                ClearName, RenameBack, StartBack
  <2> QED  BY <1>2, <2>1 DEF Go, Answer, mine, DockerTypeOK
<1> QED  BY <1>1, <1>2

LEMMA InvStep == Inv /\ [DockerNext]_dockerVars => Inv'
<1> SUFFICES ASSUME Inv, [DockerNext]_dockerVars, ~overlapped' PROVE Calm'
  BY TypeStep DEF Inv
<1>t. DockerTypeOK /\ (~overlapped => Calm)
  BY DEF Inv
<1>i. ASSUME NEW u \in Upgraders, pc'[u] = "idle" PROVE Phase(u)'
  BY <1>i DEF Phase
<1>1. ASSUME NEW u \in Upgraders, Snapshot(u) PROVE Calm'
  <2>1. name' = name /\ good' = good  BY <1>1 DEF Snapshot, docker
  <2>2. Kept /\ \A v \in Upgraders \ {u} : pc[v] = "idle"
    BY <1>1, <1>t DEF Snapshot, Calm, DockerTypeOK
  <2>3. \A v \in Upgraders \ {u} : pc'[v] = "idle"
    BY <1>1, <1>t, <2>2 DEF Snapshot, DockerTypeOK
  <2>4. Phase(u)'  BY <1>1, <1>t, <2>1 DEF Snapshot, Phase, DockerTypeOK
  <2>5. Kept'  BY <2>1, <2>2 DEF Kept
  <2> QED  BY <2>3, <2>4, <2>5, <1>i DEF Calm
<1>2. ASSUME NEW u \in Upgraders, Upgrade(u), ~Snapshot(u) PROVE Calm'
  <2>1. pc[u] # "idle" /\ Calm /\ \A v \in Upgraders \ {u} : pc'[v] = pc[v]
    BY <1>2, <1>t, OthersStay
  <2>2. \A v \in Upgraders \ {u} : pc'[v] = "idle"
    BY <2>1, <1>t DEF Calm
  <2>3. Kept' /\ Phase(u)'
    BY <1>2, <1>t, <2>1, UpgradeStep DEF Calm
  <2> QED  BY <2>2, <2>3, <1>i DEF Calm
<1>3. CASE Operate
  <2>1. name' = name /\ good' = good /\ UNCHANGED <<pc, bak, subject, overlapped>>
    BY <1>3, <1>t, SetsKeeps DEF Operate, mine
  <2> QED  BY <2>1, <1>t DEF Calm, Kept, Phase
<1>4. CASE Install
  <2>1. PICK ok \in BOOLEAN : Creates(ok)  BY <1>4 DEF Install
  <2>2. UNCHANGED <<pc, bak, subject, overlapped>>  BY <1>4 DEF Install, mine
  <2>3. Calm  BY <1>t, <2>2
  <2>4. Kept'  BY <1>t, <2>1, <2>3, CreatesKept DEF Calm
  <2>5. ASSUME NEW u \in Upgraders PROVE Phase(u)'
    <3>1. Phase(u) /\ 0 \notin good /\ bak[u] \in Backups
      BY <1>t, <2>3 DEF Calm, DockerTypeOK
    <3>2. name[Main] # 0 => name'[Main] = name[Main]
      BY <1>t, <2>1, CreatesKeeps
    <3>3. good \subseteq good' /\ \A n \in Backups : name'[n] = name[n]
      BY <1>t, <2>1, CreatesKeeps
    <3> QED  BY <2>2, <3>1, <3>2, <3>3 DEF Phase
  <2> QED  BY <2>2, <2>3, <2>4, <2>5 DEF Calm
<1>5. CASE Restart
  <2>1. name' = name /\ good' = good /\ UNCHANGED overlapped
    BY <1>5 DEF Restart, docker, mine
  <2>2. \A u \in Upgraders : pc'[u] = "idle"
    BY <1>5 DEF Restart
  <2> QED  BY <2>1, <2>2, <1>t, <1>i DEF Calm, Kept
<1>6. CASE UNCHANGED dockerVars
  <2>1. name' = name /\ good' = good /\ UNCHANGED <<pc, bak, subject, overlapped>>
    BY <1>6 DEF dockerVars, docker, mine
  <2> QED  BY <2>1, <1>t DEF Calm, Kept, Phase
<1> QED  BY <1>1, <1>2, <1>3, <1>4, <1>5, <1>6 DEF DockerNext

LEMMA InvAlways == DockerSpec => []Inv
<1> QED  BY InvInit, InvStep, PTL DEF DockerSpec

\* The system is not left without a complete container, whichever docker calls
\* fail and wherever the process restarts (service.py, upgrade_container_with_rollback),
\* unless upgrades overlapped.
THEOREM KeepsGood == DockerSpec => []GoodKept
<1>1. Inv => GoodKept  BY DEF Inv, Calm, GoodKept
<1> QED  BY <1>1, InvAlways, PTL

\* What an upgrade answers is true when it answers.
LEMMA AnswerStep ==
    ASSUME Inv, [DockerNext]_dockerVars
    PROVE  \A u \in Upgraders : said'[u] # said[u] /\ ~overlapped => Truthful(u)
<1> SUFFICES ASSUME NEW u \in Upgraders, said'[u] # said[u], ~overlapped
             PROVE  Truthful(u)
  OBVIOUS
<1> USE DEF Inv, Calm
<1>a. Main \in Names /\ Main \notin Backups /\ bak[u] \in Backups
  BY NamesAssumption DEF DockerTypeOK
<1>b. Upgrade(u) \/ Restart
  BY OthersStay DEF DockerNext, Operate, Install, dockerVars
<1>c. said \in [Upgraders -> Answers]
  BY DEF DockerTypeOK
<1>f. ASSUME said'[u] \in {"none", "failed", "pulled", "rollback failed"}
      PROVE  Truthful(u)
  BY <1>f DEF Truthful
<1>g. ASSUME NEW s, Go(u, s) PROVE FALSE
  BY <1>g DEF Go
<1>h. ASSUME NEW a, Answer(u, a) PROVE said'[u] = a
  BY <1>h, <1>c DEF Answer
<1>1. CASE Snapshot(u) \/ Restart
  BY <1>1, <1>c, <1>f DEF Snapshot, Restart
<1>2. CASE Pull(u) \/ StopOld(u) \/ RenameOld(u) \/ RestartOld(u)
  BY <1>2, <1>f, <1>g, <1>h DEF Pull, StopOld, RenameOld, RestartOld
<1>3. CASE Create(u) \/ StopNew(u) \/ ClearName(u)
  BY <1>3, <1>g DEF Create, StopNew, ClearName
<1>4. CASE DropBackup(u)
  <2>1. said'[u] = "upgraded"  BY <1>4, <1>h DEF DropBackup
  <2>2. good' = good /\ name'[Main] = name[Main]
    BY <1>4, <1>a, RemovesKeeps DEF DropBackup
  <2>3. name[Main] \in good \ {subject[u]}  BY <1>4 DEF DropBackup, Phase
  <2> QED  BY <2>1, <2>2, <2>3 DEF Truthful
<1>5. CASE RenameBack(u)
  <2>1. CASE Answer(u, "rollback failed")  BY <2>1, <1>f, <1>h
  <2>2. CASE Renames(bak[u], Main, TRUE) /\ ~was[u] /\ Answer(u, "rolled back")
    <3>1. said'[u] = "rolled back"  BY <2>2, <1>h
    <3>2. name[bak[u]] = subject[u]  BY <1>5 DEF RenameBack, Phase
    <3>3. name'[Main] = name[bak[u]]  BY <2>2, <1>a, RenamesKeeps
    <3> QED  BY <2>2, <3>1, <3>2, <3>3 DEF Truthful
  <2> QED  BY <1>5, <1>g, <2>1, <2>2 DEF RenameBack
<1>6. CASE StartBack(u)
  <2>1. CASE Answer(u, "rollback failed")  BY <2>1, <1>f, <1>h
  <2>2. CASE Sets(Main, TRUE, TRUE) /\ Answer(u, "rolled back")
    <3>1. said'[u] = "rolled back"  BY <2>2, <1>h
    <3>2. name[Main] = subject[u]  BY <1>6 DEF StartBack, Phase
    <3>3. name' = name  BY <2>2, <1>a, SetsKeeps
    <3>4. running' = running \union {name[Main]}  BY <2>2 DEF Sets
    <3> QED  BY <3>1, <3>2, <3>3, <3>4 DEF Truthful
  <2> QED  BY <1>6, <2>1, <2>2 DEF StartBack
<1> QED  BY <1>b, <1>1, <1>2, <1>3, <1>4, <1>5, <1>6 DEF Upgrade

\* "Rolled back" and "upgraded" are true whenever an upgrade says them that no
\* other overlapped (service.py, upgrade_container_with_rollback).
THEOREM AnswersHold == DockerSpec => AnswersTrue
<1>1. Inv /\ [DockerNext]_dockerVars =>
          [\A u \in Upgraders : said'[u] # said[u] /\ ~overlapped => Truthful(u)]_dockerVars
  BY AnswerStep
<1> QED  BY <1>1, InvAlways, PTL DEF DockerSpec, AnswersTrue
=============================================================================
