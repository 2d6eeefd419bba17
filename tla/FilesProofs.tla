---------------------------- MODULE FilesProofs ----------------------------
(* The proofs about what is done with files: /http-files/ (HttpDownloads,    *)
(* then HttpRange), and the names of files (FileTools).                      *)
EXTENDS HttpDownloads, HttpRange, FileTools, FilterProofs, FiniteSetTheorems,
        SequenceTheorems, TLAPS

-----------------------------------------------------------------------------
(***************************************************************************)
(* Proofs about HttpDownloads for any threads, clients, limits and bounds: *)
(* type correctness, the exactness of the slot counters and the two limits,*)
(* what a cut does to a registered stream, and that the counters implement *)
(* the abstract pool DownloadSlots.                                        *)
(***************************************************************************)

\* A thread at "write" has something left to write.
WriteHasData == \A t \in Threads : pc[t] = "write" => remaining[t] > 0

TypeInv == TypeOK /\ WriteHasData

\* The initial values have their types.
LEMMA InitType == Init => TypeInv
<1> SUFFICES ASSUME Init PROVE TypeInv
  OBVIOUS
<1> USE DownloadsAssumption DEF DownloadsAssumption, Init
<1>1. slots \in 0..MaxTotal /\ slotsByIp \in [Clients -> 0..MaxPerIp]
  OBVIOUS
<1>2. pc \in [Threads -> Points] /\ apc \in [Admins -> AdminPoints]
  BY DEF Points, AdminPoints
<1>3. /\ remaining \in [Threads -> 0..MaxChunks]
      /\ key \in [Threads -> 1..MaxTransfers]
  OBVIOUS
<1>4. /\ registry \in [Keys -> {"absent", "live", "done"}]
      /\ closing \in [Threads -> BOOLEAN]
  OBVIOUS
<1>5. WriteHasData
  BY DEF WriteHasData
<1> QED
  BY <1>1, <1>2, <1>3, <1>4, <1>5 DEF TypeInv, TypeOK

\* Every step of every thread keeps the types, and the guard of the loop
\* keeps "write" to threads with data left.
LEMMA NextType == TypeInv /\ [Next]_vars => TypeInv'
<1> SUFFICES ASSUME TypeInv, [Next]_vars PROVE TypeInv'
  OBVIOUS
<1> USE DownloadsAssumption DEF DownloadsAssumption, TypeInv, TypeOK, WriteHasData, Keys, Points,
        AdminPoints, Holding, Streaming, GoTo, AdminGoTo, gateVars, slotVars,
        streamVars, adminVars, HasRoom
<1>0. ModuleReads \subseteq BOOLEAN
  BY Zenon DEF ModuleReads, TypeInv, TypeOK
<1>1. ASSUME NEW t \in Threads, ModuleCheck(t) PROVE TypeInv'
  BY <1>1 DEF ModuleCheck
<1>2. ASSUME NEW t \in Threads, AccessCheck(t) PROVE TypeInv'
  BY <1>2 DEF AccessCheck
<1>3. ASSUME NEW t \in Threads, RefusePath(t) PROVE TypeInv'
  BY <1>3 DEF RefusePath
<1>4. ASSUME NEW t \in Threads, AcquireSlot(t) PROVE TypeInv'
  BY <1>4 DEF AcquireSlot
<1>5. ASSUME NEW t \in Threads, RefuseSlot(t) PROVE TypeInv'
  BY <1>5 DEF RefuseSlot
<1>6. ASSUME NEW t \in Threads, SendHeaders(t) PROVE TypeInv'
  BY <1>6 DEF SendHeaders
<1>7. ASSUME NEW t \in Threads, SendNothing(t) PROVE TypeInv'
  BY <1>7 DEF SendNothing
<1>8. ASSUME NEW t \in Threads, ReadEpoch(t) PROVE TypeInv'
  BY <1>8 DEF ReadEpoch
<1>9. ASSUME NEW t \in Threads, Register(t) PROVE TypeInv'
  BY <1>9 DEF Register
<1>10. ASSUME NEW t \in Threads, OpenFile(t) PROVE TypeInv'
  BY <1>10 DEF OpenFile
<1>11. ASSUME NEW t \in Threads, OpenFails(t) PROVE TypeInv'
  BY <1>11 DEF OpenFails
<1>12. ASSUME NEW t \in Threads, CheckCut(t) PROVE TypeInv'
  BY <1>12 DEF CheckCut
<1>13. ASSUME NEW t \in Threads, WriteChunk(t) PROVE TypeInv'
  BY <1>13 DEF WriteChunk
<1>14. ASSUME NEW t \in Threads, BreakOff(t) PROVE TypeInv'
  BY <1>14 DEF BreakOff
<1>15. ASSUME NEW t \in Threads, MarkDone(t) PROVE TypeInv'
  BY <1>15 DEF MarkDone
<1>16. ASSUME NEW t \in Threads, ReleaseSlot(t) PROVE TypeInv'
  BY <1>16 DEF ReleaseSlot
<1>17. ASSUME NEW t \in Threads, Reconnect(t) PROVE TypeInv'
  BY <1>17 DEF Reconnect
<1>18. ASSUME NEW t \in Threads, NEW ip \in Clients, Get(t, ip) PROVE TypeInv'
  BY <1>18 DEF Get
<1>19. ASSUME NEW a \in Admins, LoadConfig(a) PROVE TypeInv'
  <2>1. PICK on \in ModuleReads, b \in BOOLEAN :
          /\ prev' = [prev EXCEPT ![a] = on]
          /\ want' = [want EXCEPT ![a] = b]
    BY <1>19 DEF LoadConfig
  <2>2. on \in BOOLEAN
    BY <1>0
  <2>3. prev' \in [Admins -> BOOLEAN] /\ want' \in [Admins -> BOOLEAN]
    BY <2>1, <2>2
  <2> QED
    BY <1>19, <2>3 DEF LoadConfig
<1>20. ASSUME NEW a \in Admins, TruncateConfig(a) PROVE TypeInv'
  BY <1>20 DEF TruncateConfig
<1>21. ASSUME NEW a \in Admins, WriteConfig(a) PROVE TypeInv'
  BY <1>21 DEF WriteConfig
<1>22. ASSUME NEW a \in Admins, DisableDownloads(a) PROVE TypeInv'
  BY <1>22 DEF DisableDownloads
<1>23. ASSUME NEW a \in Admins, Cut(a) PROVE TypeInv'
  BY <1>23 DEF Cut
<1>24. ASSUME NEW a \in Admins, EnableCheck(a) PROVE TypeInv'
  BY <1>24 DEF EnableCheck
<1>25. ASSUME NEW a \in Admins, EnableDownloads(a) PROVE TypeInv'
  BY <1>25 DEF EnableDownloads
<1>26. ASSUME NEW a \in Admins, CloseGate(a) PROVE TypeInv'
  BY <1>26 DEF CloseGate
<1>27. CASE Snapshot
  BY <1>27 DEF Snapshot
<1>28. CASE UNCHANGED vars
  BY <1>28 DEF vars
<1>29. QED
  BY <1>1, <1>2, <1>3, <1>4, <1>5, <1>6, <1>7, <1>8, <1>9, <1>10, <1>11, <1>12, <1>13, <1>14, <1>15, <1>16, <1>17, <1>18, <1>19, <1>20, <1>21, <1>22, <1>23, <1>24, <1>25, <1>26, <1>27, <1>28 DEF Next, Serve, Administer

\* Each variable of the download service keeps its type (the attributes and
\* locals of AppHandler that the model keeps).
THEOREM TypeCorrect == Spec => []TypeOK
<1>1. TypeInv => TypeOK
  BY DEF TypeInv
<1> QED
  BY InitType, NextType, <1>1, PTL DEF Spec

-----------------------------------------------------------------------------
(***************************************************************************)
(* For the slots a step is one of three: it takes one, it gives one back,  *)
(* or it leaves the counters and the set of holders alone.                 *)
(***************************************************************************)
Quiet ==
  /\ slots' = slots /\ slotsByIp' = slotsByIp
  /\ \A u \in Threads :
       /\ (pc'[u] \in Holding) <=> (pc[u] \in Holding)
       /\ (pc[u] \in Holding) => (client'[u] = client[u])

\* Only AcquireSlot and ReleaseSlot (_try_acquire_http_download_slot and
\* _release_http_download_slot) touch the counters or the set of holders.
LEMMA SlotSteps ==
  ASSUME TypeOK, [Next]_vars
  PROVE  \/ Quiet
         \/ \E t \in Threads : AcquireSlot(t) \/ ReleaseSlot(t)
<1> SUFFICES ASSUME ~ \E t \in Threads : AcquireSlot(t) \/ ReleaseSlot(t)
             PROVE  Quiet
  OBVIOUS
<1> USE DEF TypeOK, Quiet, Holding, GoTo, gateVars, slotVars, streamVars,
        adminVars
<1>1. ASSUME NEW t \in Threads, ModuleCheck(t) PROVE Quiet
  BY <1>1 DEF ModuleCheck
<1>2. ASSUME NEW t \in Threads, AccessCheck(t) PROVE Quiet
  BY <1>2 DEF AccessCheck
<1>3. ASSUME NEW t \in Threads, RefusePath(t) PROVE Quiet
  BY <1>3 DEF RefusePath
<1>4. ASSUME NEW t \in Threads, RefuseSlot(t) PROVE Quiet
  BY <1>4 DEF RefuseSlot
<1>5. ASSUME NEW t \in Threads, SendHeaders(t) PROVE Quiet
  BY <1>5 DEF SendHeaders
<1>6. ASSUME NEW t \in Threads, SendNothing(t) PROVE Quiet
  BY <1>6 DEF SendNothing
<1>7. ASSUME NEW t \in Threads, ReadEpoch(t) PROVE Quiet
  BY <1>7 DEF ReadEpoch
<1>8. ASSUME NEW t \in Threads, Register(t) PROVE Quiet
  BY <1>8 DEF Register
<1>9. ASSUME NEW t \in Threads, OpenFile(t) PROVE Quiet
  BY <1>9 DEF OpenFile
<1>10. ASSUME NEW t \in Threads, OpenFails(t) PROVE Quiet
  BY <1>10 DEF OpenFails
<1>11. ASSUME NEW t \in Threads, CheckCut(t) PROVE Quiet
  BY <1>11 DEF CheckCut
<1>12. ASSUME NEW t \in Threads, WriteChunk(t) PROVE Quiet
  BY <1>12 DEF WriteChunk
<1>13. ASSUME NEW t \in Threads, BreakOff(t) PROVE Quiet
  BY <1>13 DEF BreakOff
<1>14. ASSUME NEW t \in Threads, MarkDone(t) PROVE Quiet
  BY <1>14 DEF MarkDone
<1>15. ASSUME NEW t \in Threads, Reconnect(t) PROVE Quiet
  BY <1>15 DEF Reconnect
<1>16. ASSUME NEW t \in Threads, NEW ip \in Clients, Get(t, ip) PROVE Quiet
  <2>1. /\ pc[t] = "idle" /\ pc' = [pc EXCEPT ![t] = "gate"]
        /\ client' = [client EXCEPT ![t] = ip]
        /\ slots' = slots /\ slotsByIp' = slotsByIp
    BY <1>16 DEF Get
  <2> QED
    BY <2>1
<1>17. ASSUME NEW a \in Admins, LoadConfig(a) PROVE Quiet
  BY <1>17 DEF LoadConfig
<1>18. ASSUME NEW a \in Admins, TruncateConfig(a) PROVE Quiet
  BY <1>18 DEF TruncateConfig
<1>19. ASSUME NEW a \in Admins, WriteConfig(a) PROVE Quiet
  BY <1>19 DEF WriteConfig
<1>20. ASSUME NEW a \in Admins, DisableDownloads(a) PROVE Quiet
  BY <1>20 DEF DisableDownloads
<1>21. ASSUME NEW a \in Admins, Cut(a) PROVE Quiet
  BY <1>21 DEF Cut
<1>22. ASSUME NEW a \in Admins, EnableCheck(a) PROVE Quiet
  BY <1>22 DEF EnableCheck
<1>23. ASSUME NEW a \in Admins, EnableDownloads(a) PROVE Quiet
  BY <1>23 DEF EnableDownloads
<1>24. ASSUME NEW a \in Admins, CloseGate(a) PROVE Quiet
  BY <1>24 DEF CloseGate
<1>25. CASE Snapshot
  BY <1>25 DEF Snapshot
<1>26. CASE UNCHANGED vars
  BY <1>26 DEF vars
<1>27. QED
  BY <1>1, <1>2, <1>3, <1>4, <1>5, <1>6, <1>7, <1>8, <1>9, <1>10, <1>11, <1>12, <1>13, <1>14, <1>15, <1>16, <1>17, <1>18, <1>19, <1>20, <1>21, <1>22, <1>23, <1>24, <1>25, <1>26 DEF Next, Serve, Administer

\* The effect of a successful acquisition on the sets of holders.
LEMMA AcquireHolders ==
  ASSUME TypeOK, NEW t \in Threads, AcquireSlot(t)
  PROVE  /\ t \notin Holders /\ Holders' = Holders \union {t}
         /\ client' = client
         /\ \A ip \in Clients : HoldersFor(ip)' =
              IF ip = client[t] THEN HoldersFor(ip) \union {t} ELSE HoldersFor(ip)
<1>1. pc[t] = "acquire" /\ pc' = [pc EXCEPT ![t] = "headers"] /\ client' = client
  BY DEF AcquireSlot, GoTo
<1> QED
  BY <1>1 DEF TypeOK, Holders, HoldersFor, Holding

\* The effect of a release on the sets of holders.
LEMMA ReleaseHolders ==
  ASSUME TypeOK, NEW t \in Threads, ReleaseSlot(t)
  PROVE  /\ t \in Holders /\ Holders' = Holders \ {t}
         /\ client' = client
         /\ \A ip \in Clients : HoldersFor(ip)' =
              IF ip = client[t] THEN HoldersFor(ip) \ {t} ELSE HoldersFor(ip)
<1>1. /\ pc[t] = "release" /\ client' = client
      /\ pc' = [pc EXCEPT ![t] = IF closing[t] THEN "closed" ELSE "idle"]
  BY DEF ReleaseSlot, GoTo
<1>2. pc'[t] \notin Holding /\ \A u \in Threads \ {t} : pc'[u] = pc[u]
  BY <1>1 DEF TypeOK, Holding
<1> QED
  BY <1>1, <1>2 DEF TypeOK, Holders, HoldersFor, Holding

\* The sets of requests that hold a slot are finite.
LEMMA HoldersFinite ==
  /\ IsFiniteSet(Holders)
  /\ \A ip \in Clients : IsFiniteSet(HoldersFor(ip))
<1>1. Holders \subseteq Threads /\ \A ip \in Clients : HoldersFor(ip) \subseteq Threads
  BY DEF Holders, HoldersFor
<1> QED
  BY <1>1, DownloadsAssumption, FS_Subset DEF DownloadsAssumption

\* At first no slot is held and the counters are 0.
LEMMA InitSlots == Init => SlotsExact
<1> SUFFICES ASSUME Init PROVE SlotsExact
  OBVIOUS
<1>1. Holders = {} /\ \A ip \in Clients : HoldersFor(ip) = {}
  BY DEF Init, Holders, HoldersFor, Holding
<1> QED
  BY <1>1, FS_EmptySet DEF Init, SlotsExact

\* Both counters follow the holders through every step.
LEMMA NextSlots == TypeOK /\ SlotsExact /\ [Next]_vars => SlotsExact'
<1> SUFFICES ASSUME TypeOK, SlotsExact, [Next]_vars PROVE SlotsExact'
  OBVIOUS
<1>1. CASE Quiet
  <2>1. \A u \in Threads :
          /\ (pc'[u] \in Holding) <=> (pc[u] \in Holding)
          /\ (pc[u] \in Holding) => (client'[u] = client[u])
    BY <1>1 DEF Quiet
  <2>2. Holders' = Holders
    BY Zenon, <2>1 DEF Holders, Holding
  <2>3. \A ip \in Clients : HoldersFor(ip)' = HoldersFor(ip)
    BY Zenon, <2>1 DEF HoldersFor, Holding
  <2> QED
    BY <1>1, <2>2, <2>3 DEF Quiet, SlotsExact
<1>2. ASSUME NEW t \in Threads, AcquireSlot(t) PROVE SlotsExact'
  <2>1. /\ slots' = slots + 1
        /\ slotsByIp' = [slotsByIp EXCEPT ![client[t]] = @ + 1]
    BY <1>2 DEF AcquireSlot
  <2>2. Cardinality(Holders') = Cardinality(Holders) + 1
    BY <1>2, AcquireHolders, HoldersFinite, FS_AddElement
  <2>3. ASSUME NEW ip \in Clients
        PROVE  slotsByIp'[ip] = Cardinality(HoldersFor(ip)')
    <3>1. CASE ip = client[t]
      <4>1. t \notin HoldersFor(ip)
        BY <1>2, AcquireHolders DEF Holders, HoldersFor
      <4>2. Cardinality(HoldersFor(ip)') = Cardinality(HoldersFor(ip)) + 1
        BY <1>2, <3>1, <4>1, AcquireHolders, HoldersFinite, FS_AddElement
      <4> QED
        BY <2>1, <3>1, <4>2 DEF SlotsExact, TypeOK
    <3>2. CASE ip # client[t]
      <4>1. HoldersFor(ip)' = HoldersFor(ip)
        BY <1>2, <3>2, AcquireHolders
      <4> QED
        BY <2>1, <3>2, <4>1 DEF SlotsExact, TypeOK
    <3> QED
      BY <3>1, <3>2
  <2> QED
    BY <2>1, <2>2, <2>3 DEF SlotsExact
<1>3. ASSUME NEW t \in Threads, ReleaseSlot(t) PROVE SlotsExact'
  <2>1. /\ slots' = IF slots > 0 THEN slots - 1 ELSE 0
        /\ slotsByIp' = [slotsByIp EXCEPT ![client[t]] = IF @ <= 1 THEN 0 ELSE @ - 1]
    BY <1>3 DEF ReleaseSlot
  <2>2. /\ Cardinality(Holders') = Cardinality(Holders) - 1
        /\ Cardinality(Holders') \in Nat
    BY <1>3, ReleaseHolders, HoldersFinite, FS_RemoveElement, FS_CardinalityType
  <2>3. ASSUME NEW ip \in Clients
        PROVE  slotsByIp'[ip] = Cardinality(HoldersFor(ip)')
    <3>1. CASE ip = client[t]
      <4>1. t \in HoldersFor(ip)
        BY <1>3, <3>1, ReleaseHolders DEF Holders, HoldersFor
      <4>2. /\ Cardinality(HoldersFor(ip)') = Cardinality(HoldersFor(ip)) - 1
            /\ Cardinality(HoldersFor(ip)') \in Nat
        <5>1. HoldersFor(ip)' = HoldersFor(ip) \ {t}
          BY <1>3, <3>1, ReleaseHolders
        <5>2. IsFiniteSet(HoldersFor(ip)) /\ IsFiniteSet(HoldersFor(ip) \ {t})
          BY HoldersFinite, FS_RemoveElement
        <5> QED
          BY <4>1, <5>1, <5>2, FS_RemoveElement, FS_CardinalityType
      <4>3. slotsByIp'[ip] = IF slotsByIp[ip] <= 1 THEN 0 ELSE slotsByIp[ip] - 1
        BY <2>1, <3>1 DEF TypeOK
      <4>4. slotsByIp[ip] = Cardinality(HoldersFor(ip)) /\ slotsByIp[ip] \in Int
        BY DEF SlotsExact, TypeOK
      <4> QED
        BY <4>2, <4>3, <4>4
    <3>2. CASE ip # client[t]
      <4>1. HoldersFor(ip)' = HoldersFor(ip)
        BY <1>3, <3>2, ReleaseHolders
      <4> QED
        BY <2>1, <3>2, <4>1 DEF SlotsExact, TypeOK
    <3> QED
      BY <3>1, <3>2
  <2>4. slots' = Cardinality(Holders')
    BY <2>1, <2>2 DEF SlotsExact, TypeOK
  <2> QED
    BY <2>3, <2>4 DEF SlotsExact
<1> QED
  BY <1>1, <1>2, <1>3, SlotSteps

\* The slot counters of AppHandler are exact in every reachable state.
THEOREM SlotsAreExact == Spec => []SlotsExact
<1>1. TypeInv => TypeOK
  BY DEF TypeInv
<1> QED
  BY InitType, NextType, InitSlots, NextSlots, <1>1, PTL DEF Spec

\* Whatever the interleaving of acquisitions and releases, no more downloads
\* are served than the total and the per-client limit allow.
THEOREM CapsHold == Spec => []SlotCaps
<1>1. TypeOK /\ SlotsExact => SlotCaps
  BY DownloadsAssumption DEF DownloadsAssumption, TypeOK, SlotsExact, SlotCaps
<1> QED
  BY TypeCorrect, SlotsAreExact, <1>1, PTL

-----------------------------------------------------------------------------
(* The counters implement the abstract pool. *)

HeldBar == [t \in Threads |-> IF pc[t] \in Holding THEN client[t] ELSE None]

\* The slots of the abstract pool are those of the requests that hold one.
LEMMA HeldBarHolders ==
  ASSUME TypeOK
  PROVE  /\ Pool!Admitted = Holders
         /\ \A ip \in Clients : Pool!AdmittedFor(ip) = HoldersFor(ip)
<1>1. \A t \in Threads : client[t] # None
  BY DownloadsAssumption DEF DownloadsAssumption, TypeOK
<1>2. \A ip \in Clients : ip # None
  BY DownloadsAssumption DEF DownloadsAssumption
<1>3. Pool!Admitted = Holders
  BY <1>1 DEF Pool!Admitted, Holders
<1>4. ASSUME NEW ip \in Clients PROVE Pool!AdmittedFor(ip) = HoldersFor(ip)
  BY <1>2 DEF Pool!AdmittedFor, HoldersFor
<1> QED
  BY <1>3, <1>4

\* Every step of the handlers is a step of the pool or leaves it alone.
LEMMA PoolStep ==
  ASSUME TypeOK, SlotsExact, [Next]_vars
  PROVE  [Pool!HeldNext]_HeldBar
<1>1. CASE Quiet
  <2>1. \A u \in Threads :
          /\ (pc'[u] \in Holding) <=> (pc[u] \in Holding)
          /\ (pc[u] \in Holding) => (client'[u] = client[u])
    BY <1>1 DEF Quiet
  <2>2. HeldBar' = HeldBar
    BY <2>1 DEF HeldBar, Holding
  <2> QED
    BY <2>2
<1>2. ASSUME NEW t \in Threads, AcquireSlot(t) PROVE Pool!HeldNext
  <2>1. /\ pc[t] = "acquire" /\ pc' = [pc EXCEPT ![t] = "headers"]
        /\ client' = client /\ HasRoom(client[t])
    BY <1>2 DEF AcquireSlot, GoTo
  <2>2. PICK ip \in Clients : ip = client[t]
    BY DEF TypeOK
  <2>3. HeldBar[t] = None /\ HeldBar' = [HeldBar EXCEPT ![t] = ip]
    BY <2>1, <2>2 DEF HeldBar, Holding, TypeOK
  <2>4. /\ Cardinality(Pool!Admitted) < MaxTotal
        /\ Cardinality(Pool!AdmittedFor(ip)) < MaxPerIp
    BY <2>1, <2>2, HeldBarHolders DEF HasRoom, SlotsExact, TypeOK
  <2>5. /\ Pool!Cardinality(Pool!Admitted) < MaxTotal
        /\ Pool!Cardinality(Pool!AdmittedFor(ip)) < MaxPerIp
    BY <2>4 DEF Cardinality, Pool!Cardinality
  <2>6. Pool!Admit(t, ip)
    BY <2>3, <2>5 DEF Pool!Admit, HeldBar, Holding
  <2> QED
    BY <2>6 DEF Pool!HeldNext
<1>3. ASSUME NEW t \in Threads, ReleaseSlot(t) PROVE Pool!HeldNext
  <2>1. /\ pc[t] = "release" /\ client' = client
        /\ pc' = [pc EXCEPT ![t] = IF closing[t] THEN "closed" ELSE "idle"]
    BY <1>3 DEF ReleaseSlot, GoTo
  <2>2. client[t] # None
    BY DownloadsAssumption DEF DownloadsAssumption, TypeOK
  <2>3. HeldBar[t] # None /\ HeldBar' = [HeldBar EXCEPT ![t] = None]
    BY <2>1, <2>2 DEF HeldBar, Holding, TypeOK
  <2> QED
    BY <2>3 DEF Pool!HeldNext, Pool!Leave, HeldBar, Holding
<1> QED
  BY <1>1, <1>2, <1>3, SlotSteps

\* The two counters and their lock implement the pool of leases: the safety
\* half of SlotPool.
THEOREM ImplementsPool == Spec => Pool!HeldSafety
<1>1. Init => Pool!HeldInit
  BY DEF Init, Pool!HeldInit, Holding
<1>2. TypeOK /\ SlotsExact /\ [Next]_vars => [Pool!HeldNext]_HeldBar
  BY PoolStep
<1> QED
  BY <1>1, <1>2, TypeCorrect, SlotsAreExact, PTL DEF Spec, Pool!HeldSafety, HeldBar

-----------------------------------------------------------------------------
(* Streams *)

\* The registry entry of a stream stays live until its own thread is done.
LEMMA NextRegistered ==
  ASSUME TypeOK, StreamsRegistered, [Next]_vars
  PROVE  StreamsRegistered'
<1> USE DEF TypeOK, StreamsRegistered, Keys, Streaming, GoTo, gateVars, slotVars,
        streamVars, adminVars
<1>1. ASSUME NEW t \in Threads, ModuleCheck(t) PROVE StreamsRegistered'
  BY <1>1 DEF ModuleCheck
<1>2. ASSUME NEW t \in Threads, AccessCheck(t) PROVE StreamsRegistered'
  BY <1>2 DEF AccessCheck
<1>3. ASSUME NEW t \in Threads, RefusePath(t) PROVE StreamsRegistered'
  BY <1>3 DEF RefusePath
<1>4. ASSUME NEW t \in Threads, AcquireSlot(t) PROVE StreamsRegistered'
  BY <1>4 DEF AcquireSlot
<1>5. ASSUME NEW t \in Threads, RefuseSlot(t) PROVE StreamsRegistered'
  BY <1>5 DEF RefuseSlot
<1>6. ASSUME NEW t \in Threads, SendHeaders(t) PROVE StreamsRegistered'
  BY <1>6 DEF SendHeaders
<1>7. ASSUME NEW t \in Threads, SendNothing(t) PROVE StreamsRegistered'
  BY <1>7 DEF SendNothing
<1>8. ASSUME NEW t \in Threads, ReadEpoch(t) PROVE StreamsRegistered'
  BY <1>8 DEF ReadEpoch
<1>9. ASSUME NEW t \in Threads, Register(t) PROVE StreamsRegistered'
  BY <1>9 DEF Register
<1>10. ASSUME NEW t \in Threads, OpenFile(t) PROVE StreamsRegistered'
  BY <1>10 DEF OpenFile
<1>11. ASSUME NEW t \in Threads, OpenFails(t) PROVE StreamsRegistered'
  BY <1>11 DEF OpenFails
<1>12. ASSUME NEW t \in Threads, CheckCut(t) PROVE StreamsRegistered'
  BY <1>12 DEF CheckCut
<1>13. ASSUME NEW t \in Threads, WriteChunk(t) PROVE StreamsRegistered'
  BY <1>13 DEF WriteChunk
<1>14. ASSUME NEW t \in Threads, BreakOff(t) PROVE StreamsRegistered'
  BY <1>14 DEF BreakOff
<1>15. ASSUME NEW t \in Threads, MarkDone(t) PROVE StreamsRegistered'
  BY <1>15 DEF MarkDone
<1>16. ASSUME NEW t \in Threads, ReleaseSlot(t) PROVE StreamsRegistered'
  BY <1>16 DEF ReleaseSlot
<1>17. ASSUME NEW t \in Threads, Reconnect(t) PROVE StreamsRegistered'
  BY <1>17 DEF Reconnect
<1>18. ASSUME NEW t \in Threads, NEW ip \in Clients, Get(t, ip) PROVE StreamsRegistered'
  BY <1>18 DEF Get
<1>19. ASSUME NEW a \in Admins, LoadConfig(a) PROVE StreamsRegistered'
  BY <1>19 DEF LoadConfig
<1>20. ASSUME NEW a \in Admins, TruncateConfig(a) PROVE StreamsRegistered'
  BY <1>20 DEF TruncateConfig
<1>21. ASSUME NEW a \in Admins, WriteConfig(a) PROVE StreamsRegistered'
  BY <1>21 DEF WriteConfig
<1>22. ASSUME NEW a \in Admins, DisableDownloads(a) PROVE StreamsRegistered'
  BY <1>22 DEF DisableDownloads
<1>23. ASSUME NEW a \in Admins, Cut(a) PROVE StreamsRegistered'
  BY <1>23 DEF Cut
<1>24. ASSUME NEW a \in Admins, EnableCheck(a) PROVE StreamsRegistered'
  BY <1>24 DEF EnableCheck
<1>25. ASSUME NEW a \in Admins, EnableDownloads(a) PROVE StreamsRegistered'
  BY <1>25 DEF EnableDownloads
<1>26. ASSUME NEW a \in Admins, CloseGate(a) PROVE StreamsRegistered'
  BY <1>26 DEF CloseGate
<1>27. CASE Snapshot
  BY <1>27 DEF Snapshot
<1>28. CASE UNCHANGED vars
  BY <1>28 DEF vars
<1>29. QED
  BY <1>1, <1>2, <1>3, <1>4, <1>5, <1>6, <1>7, <1>8, <1>9, <1>10, <1>11, <1>12, <1>13, <1>14, <1>15, <1>16, <1>17, <1>18, <1>19, <1>20, <1>21, <1>22, <1>23, <1>24, <1>25, <1>26, <1>27, <1>28 DEF Next, Serve, Administer

\* No snapshot and no other thread ends the entry of a stream that is sending.
THEOREM StreamsStayRegistered == Spec => []StreamsRegistered
<1>1. Init => StreamsRegistered
  BY DEF Init, StreamsRegistered, Streaming
<1>2. TypeOK /\ StreamsRegistered /\ [Next]_vars => StreamsRegistered'
  BY NextRegistered
<1> QED
  BY <1>1, <1>2, TypeCorrect, PTL DEF Spec

\* The inductive form of StaleStreamStops.  The epoch a stream has seen is
\* never ahead of the counter, so a stale one stays stale; a chunk is late
\* only after the check that let it through, and the next check sees the cut.
Stale(t) ==
  /\ seenEpoch[t] <= cutEpoch
  /\ late[t] <= 1
  /\ late[t] = 1 => pc[t] \in {"check", "finish", "release"}
  /\ late[t] = 1 /\ pc[t] = "check" => seenEpoch[t] # cutEpoch
  /\ late[t] = 1 /\ pc[t] \in {"finish", "release"} /\ remaining[t] > 0
       => closing[t]

StaleInv == \A t \in Threads : Stale(t)

\* No step lets a stream send a second chunk after a cut that it can see.
LEMMA NextStale ==
  ASSUME TypeOK, StaleInv, [Next]_vars
  PROVE  StaleInv'
<1> USE DEF TypeOK, StaleInv, Stale, GoTo, gateVars, slotVars, streamVars,
        adminVars
<1>1. ASSUME NEW t \in Threads, ModuleCheck(t) PROVE StaleInv'
  BY <1>1 DEF ModuleCheck
<1>2. ASSUME NEW t \in Threads, AccessCheck(t) PROVE StaleInv'
  BY <1>2 DEF AccessCheck
<1>3. ASSUME NEW t \in Threads, RefusePath(t) PROVE StaleInv'
  BY <1>3 DEF RefusePath
<1>4. ASSUME NEW t \in Threads, AcquireSlot(t) PROVE StaleInv'
  BY <1>4 DEF AcquireSlot
<1>5. ASSUME NEW t \in Threads, RefuseSlot(t) PROVE StaleInv'
  BY <1>5 DEF RefuseSlot
<1>6. ASSUME NEW t \in Threads, SendHeaders(t) PROVE StaleInv'
  BY <1>6 DEF SendHeaders
<1>7. ASSUME NEW t \in Threads, SendNothing(t) PROVE StaleInv'
  BY <1>7 DEF SendNothing
<1>8. ASSUME NEW t \in Threads, ReadEpoch(t) PROVE StaleInv'
  BY <1>8 DEF ReadEpoch
<1>9. ASSUME NEW t \in Threads, Register(t) PROVE StaleInv'
  BY <1>9 DEF Register
<1>10. ASSUME NEW t \in Threads, OpenFile(t) PROVE StaleInv'
  BY <1>10 DEF OpenFile
<1>11. ASSUME NEW t \in Threads, OpenFails(t) PROVE StaleInv'
  BY <1>11 DEF OpenFails
<1>12. ASSUME NEW t \in Threads, CheckCut(t) PROVE StaleInv'
  BY <1>12 DEF CheckCut
<1>13. ASSUME NEW t \in Threads, WriteChunk(t) PROVE StaleInv'
  BY <1>13 DEF WriteChunk
<1>14. ASSUME NEW t \in Threads, BreakOff(t) PROVE StaleInv'
  BY <1>14 DEF BreakOff
<1>15. ASSUME NEW t \in Threads, MarkDone(t) PROVE StaleInv'
  BY <1>15 DEF MarkDone
<1>16. ASSUME NEW t \in Threads, ReleaseSlot(t) PROVE StaleInv'
  BY <1>16 DEF ReleaseSlot
<1>17. ASSUME NEW t \in Threads, Reconnect(t) PROVE StaleInv'
  BY <1>17 DEF Reconnect
<1>18. ASSUME NEW t \in Threads, NEW ip \in Clients, Get(t, ip) PROVE StaleInv'
  BY <1>18 DEF Get
<1>19. ASSUME NEW a \in Admins, LoadConfig(a) PROVE StaleInv'
  BY <1>19 DEF LoadConfig
<1>20. ASSUME NEW a \in Admins, TruncateConfig(a) PROVE StaleInv'
  BY <1>20 DEF TruncateConfig
<1>21. ASSUME NEW a \in Admins, WriteConfig(a) PROVE StaleInv'
  BY <1>21 DEF WriteConfig
<1>22. ASSUME NEW a \in Admins, DisableDownloads(a) PROVE StaleInv'
  BY <1>22 DEF DisableDownloads
<1>23. ASSUME NEW a \in Admins, Cut(a) PROVE StaleInv'
  BY <1>23 DEF Cut
<1>24. ASSUME NEW a \in Admins, EnableCheck(a) PROVE StaleInv'
  BY <1>24 DEF EnableCheck
<1>25. ASSUME NEW a \in Admins, EnableDownloads(a) PROVE StaleInv'
  BY <1>25 DEF EnableDownloads
<1>26. ASSUME NEW a \in Admins, CloseGate(a) PROVE StaleInv'
  BY <1>26 DEF CloseGate
<1>27. CASE Snapshot
  BY <1>27 DEF Snapshot
<1>28. CASE UNCHANGED vars
  BY <1>28 DEF vars
<1>29. QED
  BY <1>1, <1>2, <1>3, <1>4, <1>5, <1>6, <1>7, <1>8, <1>9, <1>10, <1>11, <1>12, <1>13, <1>14, <1>15, <1>16, <1>17, <1>18, <1>19, <1>20, <1>21, <1>22, <1>23, <1>24, <1>25, <1>26, <1>27, <1>28 DEF Next, Serve, Administer

\* A registered stream sends at most one chunk after a cut, then its
\* connection is closed.
THEOREM CutStopsRegistered == Spec => []StaleStreamStops
<1>1. Init => StaleInv
  BY DEF Init, StaleInv, Stale
<1>2. TypeOK /\ StaleInv /\ [Next]_vars => StaleInv'
  BY NextStale
<1>3. StaleInv => StaleStreamStops
  BY DEF StaleInv, Stale, StaleStreamStops
<1> QED
  BY <1>1, <1>2, <1>3, TypeCorrect, PTL DEF Spec

-----------------------------------------------------------------------------
(***************************************************************************)
(* Proofs about HttpRange: that the arithmetic of a Range header answers   *)
(* what was asked, for all integers, and that a file is received in order, *)
(* without gaps, whatever happens to its size.                             *)
(***************************************************************************)

USE DEF AtLeast, AtMost, Foreign

\* The answer to a range is the range: it is refused exactly when it has no
\* byte of the file, and else runs from the first wanted byte to the last.
THEOREM RangeAnswered ==
    ASSUME NEW N \in Nat, NEW r \in Requests(N), NEW n \in Nat
    PROVE  /\ r.kind # "none" => (Refused(r, n) <=> Wanted(r, n) = {})
           /\ ~Refused(r, n) => Wanted(r, n) = Start(r, n)..End(r, n)
           /\ ~Refused(r, n) => /\ 0 <= Start(r, n) /\ End(r, n) <= n - 1
                                /\ Start(r, n) <= End(r, n) + 1
<1>1. CASE r \in [kind : {"none", "refused"}]
  BY <1>1 DEF Refused, Wanted, Start, End
<1>2. CASE r \in [kind : {"suffix"}, n : -N..N]
  <2>1. r.kind = "suffix" /\ r.n \in Int  BY <1>2
  <2>2. Start(r, n) = (IF n - r.n < 0 THEN 0 ELSE n - r.n) /\ End(r, n) = n - 1
    BY <2>1 DEF Start, End
  <2>3. Wanted(r, n) = {p \in 0..(n - 1) : p >= n - r.n}
    BY <2>1 DEF Wanted
  <2>4. Refused(r, n) <=> r.n <= 0 \/ n = 0
    BY <2>1, <2>2 DEF Refused
  <2>5. r.n > 0 /\ n > 0 => n - 1 \in Wanted(r, n)
    BY <2>1, <2>3
  <2>6. r.n <= 0 \/ n = 0 => Wanted(r, n) = {}
    BY <2>1, <2>3
  <2>7. ~Refused(r, n) => Wanted(r, n) = Start(r, n)..End(r, n)
    BY <2>1, <2>2, <2>3, <2>4
  <2> QED  BY <2>1, <2>2, <2>4, <2>5, <2>6, <2>7
<1>3. CASE r \in [kind : {"from"}, a : 0..N]
  <2>1. r.kind = "from" /\ r.a \in Nat  BY <1>3
  <2>2. Start(r, n) = r.a /\ End(r, n) = n - 1  BY <2>1 DEF Start, End
  <2>3. Wanted(r, n) = {p \in 0..(n - 1) : p >= r.a}  BY <2>1 DEF Wanted
  <2>4. Refused(r, n) <=> r.a >= n  BY <2>1, <2>2 DEF Refused
  <2>5. r.a < n => r.a \in Wanted(r, n)  BY <2>1, <2>3
  <2>6. r.a >= n => Wanted(r, n) = {}  BY <2>1, <2>3
  <2>7. Wanted(r, n) = r.a..(n - 1)  BY <2>1, <2>3
  <2> QED  BY <2>1, <2>2, <2>4, <2>5, <2>6, <2>7
<1>4. CASE r \in [kind : {"fromto"}, a : 0..N, b : -N..N]
  <2>1. r.kind = "fromto" /\ r.a \in Nat /\ r.b \in Int  BY <1>4
  <2>2. /\ Start(r, n) = r.a
        /\ End(r, n) = (IF r.b < n - 1 THEN r.b ELSE n - 1)
    BY <2>1 DEF Start, End
  <2>3. Wanted(r, n) = {p \in 0..(n - 1) : r.a <= p /\ p <= r.b}
    BY <2>1 DEF Wanted
  <2>4. Refused(r, n) <=> r.a >= n \/ r.b < r.a
    BY <2>1, <2>2 DEF Refused
  <2>5. ~(r.a >= n \/ r.b < r.a) => r.a \in Wanted(r, n)  BY <2>1, <2>3
  <2>6. r.a >= n \/ r.b < r.a => Wanted(r, n) = {}  BY <2>1, <2>3
  <2>7. Wanted(r, n) = Start(r, n)..End(r, n)  BY <2>1, <2>2, <2>3
  <2> QED  BY <2>1, <2>2, <2>4, <2>5, <2>6, <2>7
<1> QED  BY <1>1, <1>2, <1>3, <1>4 DEF Requests
-----------------------------------------------------------------------------
(***************************************************************************)
(* The inductive invariant: the position of the open file separates what   *)
(* the client has from what it still waits for, and an error page is the   *)
(* end of an answer.                                                       *)
(***************************************************************************)
Flow == \/ Refused(req, total) /\ phase = "idle" /\ due = 0 /\ body = {}
        \/ /\ ~Refused(req, total)
           /\ body \ {Foreign} = Start(req, total)..(pos - 1)
           /\ Start(req, total) <= pos /\ pos <= End(req, total) + 1
           /\ left = End(req, total) - pos + 1
           /\ phase # "idle" => Foreign \notin body
           /\ Foreign \notin body => due = left

Inv == RangeTypeOK /\ Flow

LEMMA NoRange == /\ [kind |-> "none"] \in Requests(Bound)
                 /\ \A n \in Nat : /\ ~Refused([kind |-> "none"], n)
                                   /\ Start([kind |-> "none"], n) = 0
                                   /\ End([kind |-> "none"], n) = n - 1
BY DEF Requests, Refused, Start, End

LEMMA InvInit == RangeInit => Inv
BY NoRange, BoundAssumption DEF RangeInit, Inv, RangeTypeOK, Flow

LEMMA InvStep == Inv /\ [RangeNext]_rangeVars => Inv'
<1> SUFFICES ASSUME Inv, [RangeNext]_rangeVars PROVE Inv'
  OBVIOUS
<1> USE BoundAssumption DEF Inv
<1>0. /\ Start(req, total) \in Int /\ End(req, total) \in Int
      /\ total \in Nat /\ total <= Bound
      /\ ~Refused(req, total) => 0 <= Start(req, total) /\ End(req, total) <= total - 1
  BY RangeAnswered DEF RangeTypeOK, Requests, Start, End
<1>1. CASE Ask
  <2>1. PICK r \in Requests(Bound) :
            /\ req' = r /\ total' = size /\ body' = {}
            /\ IF ~Refused(r, size)
               THEN /\ phase' = "open" /\ pos' = Start(r, size)
                    /\ left' = End(r, size) - Start(r, size) + 1
                    /\ due' = End(r, size) - Start(r, size) + 1
               ELSE phase' = "idle" /\ pos' = 0 /\ left' = 0 /\ due' = 0
    BY <1>1 DEF Ask
  <2>2. UNCHANGED <<size, alive>> /\ size \in Nat /\ size <= Bound
    BY <1>1 DEF Ask, RangeTypeOK
  <2>3. CASE Refused(r, size)
    BY <2>1, <2>2, <2>3 DEF RangeTypeOK, Flow
  <2>4. CASE ~Refused(r, size)
    <3>1. Start(r, size) \in Int /\ End(r, size) \in Int
      BY <2>2 DEF Requests, Start, End
    <3>2. /\ 0 <= Start(r, size) /\ End(r, size) <= size - 1
          /\ Start(r, size) <= End(r, size) + 1
      BY <2>2, <2>4, RangeAnswered
    <3>3. RangeTypeOK'  BY <2>1, <2>2, <2>4, <3>1, <3>2 DEF RangeTypeOK
    <3>4. {} = Start(r, size)..(Start(r, size) - 1)  BY <3>1
    <3>5. Flow'  BY <2>1, <2>2, <2>4, <3>1, <3>2, <3>4 DEF Flow
    <3> QED  BY <3>3, <3>5
  <2> QED  BY <2>3, <2>4
<1>2. CASE OpenRange
  BY <1>2 DEF OpenRange, RangeTypeOK, Flow
<1>3. CASE ReadFails
  <2>1. RangeTypeOK'  BY <1>3 DEF ReadFails, RangeTypeOK, ErrorBytes
  <2>2. /\ ~Refused(req, total) /\ Foreign \notin body /\ due = left
        /\ body \ {Foreign} = Start(req, total)..(pos - 1)
        /\ Start(req, total) <= pos /\ pos <= End(req, total) + 1
        /\ left = End(req, total) - pos + 1
    BY <1>3 DEF ReadFails, Flow
  <2>3. UNCHANGED <<req, total, pos, left>> /\ phase' = "idle"
    BY <1>3 DEF ReadFails
  <2>4. body' \ {Foreign} = body \ {Foreign}  BY <1>3 DEF ReadFails
  <2>5. Foreign \notin body' => due' = left'
    BY <1>3, <2>2, <2>3 DEF ReadFails, RangeTypeOK, ErrorBytes
  <2>6. Flow'  BY <2>2, <2>3, <2>4, <2>5 DEF Flow
  <2> QED  BY <2>1, <2>6
<1>4. CASE SendChunk
  <2> DEFINE m == AtMost(AtMost(Chunk, size - pos), left)
  <2>1. /\ body' = body \union (pos..(pos + m - 1))
        /\ pos' = pos + m /\ left' = left - m /\ due' = due - m
        /\ UNCHANGED <<size, phase, req, total, alive>>
    BY <1>4 DEF SendChunk
  <2>2. m \in Nat /\ m <= left
    BY <1>4, ChunkAssumption DEF SendChunk, RangeTypeOK
  <2>3. /\ ~Refused(req, total) /\ body = Start(req, total)..(pos - 1)
        /\ Start(req, total) <= pos /\ pos <= End(req, total) + 1
        /\ due = End(req, total) - pos + 1 /\ left = due
        /\ Foreign \notin body
    BY <1>4 DEF SendChunk, Flow
  <2> HIDE DEF m
  <2>4. body' = Start(req, total)..(pos' - 1)
    <3>1. ASSUME NEW s \in Int, NEW p \in Int, NEW k \in Nat, s <= p
          PROVE  (s..(p - 1)) \union (p..(p + k - 1)) = s..(p + k - 1)
      BY <3>1
    <3>2. pos \in Int  BY DEF RangeTypeOK
    <3> QED  BY <1>0, <2>1, <2>2, <2>3, <3>1, <3>2, SMTT(20)
  <2>5. /\ pos \in Nat /\ left \in Nat /\ left <= Bound /\ Bound \in Nat
        /\ pos' = pos + m /\ left' = left - m /\ due' = due - m
        /\ Start(req, total) <= pos /\ left = End(req, total) - pos + 1
        /\ due = left /\ End(req, total) + 1 <= Bound
    BY <1>0, <2>1, <2>3 DEF RangeTypeOK
  <2>6. Flow'
    <3>1. Foreign \notin body' /\ body' \ {Foreign} = body'
      BY <1>0, <2>3, <2>4
    <3>2. /\ Start(req, total) <= pos' /\ pos' <= End(req, total) + 1
          /\ left' = End(req, total) - pos' + 1 /\ due' = left'
      BY ONLY <1>0, <2>2, <2>5
    <3>3. req' = req /\ total' = total  BY <2>1
    <3> QED  BY <2>3, <2>4, <3>1, <3>2, <3>3 DEF Flow
  <2>7. pos' \in 0..Bound /\ left' \in 0..Bound /\ due' \in 0..Bound
    BY ONLY <1>0, <2>2, <2>5, SMTT(20)
  <2>8. body' \subseteq -1..Bound
    BY ONLY <1>0, <2>3, <2>4, <2>5, <2>7, SMTT(20)
  <2>9. RangeTypeOK'
    BY <2>1, <2>7, <2>8 DEF RangeTypeOK
  <2> QED  BY <2>6, <2>9
<1>5. CASE Finish
  BY <1>5 DEF Finish, RangeTypeOK, Flow
<1>6. CASE BreakConnection
  BY <1>6 DEF BreakConnection, RangeTypeOK, Flow
<1>7. CASE IdleTimeout
  BY <1>7 DEF IdleTimeout, RangeTypeOK, Flow
<1>8. CASE ConnectAgain
  <2>1. RangeTypeOK'  BY <1>8, NoRange DEF ConnectAgain, RangeTypeOK
  <2>2. Flow'  BY <1>8, NoRange DEF ConnectAgain, Flow
  <2> QED  BY <2>1, <2>2
<1>9. CASE Change
  BY <1>9 DEF Change, RangeTypeOK, Flow
<1>10. CASE UNCHANGED rangeVars
  BY <1>10 DEF rangeVars, RangeTypeOK, Flow
<1> QED
  BY <1>1, <1>2, <1>3, <1>4, <1>5, <1>6, <1>7, <1>8, <1>9, <1>10 DEF RangeNext, SendRange

LEMMA InvAlways == RangeSpec => []Inv
<1>1. Inv /\ [RangeNext]_rangeVars => Inv'  BY InvStep
<1> QED  BY InvInit, <1>1, PTL DEF RangeSpec

\* What a client holds, an error page aside, is a prefix of what it asked for.
THEOREM ResumableAlways == RangeSpec => []Resumable
<1>1. ASSUME Inv PROVE Resumable
  <2> USE <1>1, BoundAssumption DEF Inv
  <2>0. total \in Nat /\ Start(req, total) \in Int /\ End(req, total) \in Int
    BY DEF RangeTypeOK, Requests, Start, End
  <2>1. CASE Refused(req, total) /\ body = {}
    <3>1. Wanted(req, total) = {}
      BY <2>0, <2>1, RangeAnswered DEF RangeTypeOK, Refused
    <3>2. 0 \in 0..Bound /\ body \ {Foreign} = {q \in Wanted(req, total) : q < 0}
      BY <2>1, <3>1
    <3> QED  BY <3>2 DEF Resumable
  <2>2. CASE ~Refused(req, total) /\ Flow
    <3>1. Wanted(req, total) = Start(req, total)..End(req, total)
      BY <2>0, <2>2, RangeAnswered DEF RangeTypeOK
    <3>2. /\ body \ {Foreign} = Start(req, total)..(pos - 1)
          /\ pos \in 0..Bound /\ pos <= End(req, total) + 1
      BY <2>2 DEF Flow, RangeTypeOK
    <3>3. body \ {Foreign} = {q \in Wanted(req, total) : q < pos}
      BY <2>0, <3>1, <3>2
    <3> QED  BY <3>2, <3>3 DEF Resumable
  <2> QED  BY <2>1, <2>2 DEF Flow
<1>2. RangeSpec => []Inv  BY InvAlways
<1> QED  BY <1>1, <1>2, PTL

\* A client that waits for no more and got no error page has all it asked for.
THEOREM CompleteAlways == RangeSpec => []Complete
<1>1. ASSUME Inv, due = 0, Foreign \notin body PROVE body = Wanted(req, total)
  <2> USE <1>1 DEF Inv
  <2>0. total \in Nat /\ Start(req, total) \in Int /\ End(req, total) \in Int
    BY BoundAssumption DEF RangeTypeOK, Requests, Start, End
  <2>1. CASE Refused(req, total) /\ body = {}
    BY <2>0, <2>1, BoundAssumption, RangeAnswered DEF RangeTypeOK, Refused
  <2>2. CASE ~Refused(req, total) /\ Flow
    <3>1. Wanted(req, total) = Start(req, total)..End(req, total)
      BY <2>0, <2>2, BoundAssumption, RangeAnswered DEF RangeTypeOK
    <3>2. body \ {Foreign} = body  OBVIOUS
    <3>3. body = Start(req, total)..(pos - 1)
      BY <2>2, <3>2 DEF Flow
    <3>4. pos = End(req, total) + 1
      BY <2>0, <2>2, BoundAssumption DEF Flow, RangeTypeOK
    <3> QED  BY <2>0, <3>1, <3>3, <3>4
  <2> QED  BY <2>1, <2>2 DEF Flow
<1>2. Inv => Complete  BY <1>1 DEF Complete
<1>3. RangeSpec => []Inv  BY InvAlways
<1> QED  BY <1>2, <1>3, PTL

-----------------------------------------------------------------------------
(****************************************************************************)
(* Proofs about FileTools for any trees, uploads, users and bounds: no file *)
(* is lost, no row of a plan loses its source, and subtitles keep their     *)
(* languages.  First what paths, trees and plans are, with the invariant    *)
(* FileInv; then words and names, with the invariant NameInv.               *)
(****************************************************************************)

\* A path: names, at least one.
IsPath(p) == p \in Seq(Range(p)) /\ p # << >>

\* A tree is a tree: every directory a path leads through is in it.
TreeOK(t) ==
    \A p \in DOMAIN t : IsPath(p) /\ \A d \in Above(p) : d \in DOMAIN t /\ t[d] = Dir

\* A row keeps what it renames in its directory.
RowOK(r) == IsPath(r[1]) /\ IsPath(r[2]) /\ Parent(r[2]) = Parent(r[1])

\* What a request keeps, and where it is.
Fields == {"pc", "rows", "row", "dir", "kind", "files", "owed", "fresh", "checked"}
FramePoints == {"idle", "shown", "rows", "rename", "name", "write"}

(* A plan has one row for a source; the sources of one that no other        *)
(* request has interfered with are there.                                   *)
RowsOK(f, t) ==
    /\ \A r \in f.rows : RowOK(r)
    /\ \A r, o \in f.rows : r[1] = o[1] => r = o
    /\ f.fresh => \A r \in f.rows : r[1] \in DOMAIN t
    /\ f.pc \in {"name", "write"} => f.rows = {}
\* The row at hand is the deepest; a target just checked is free.
RenameOK(f, t) ==
    f.pc = "rename" =>
      /\ RowOK(f.row)
      /\ f.checked => f.row[2] \notin DOMAIN t
      /\ \A r \in f.rows : r[1] # f.row[1] /\ Len(r[1]) <= Len(f.row[1])
\* A name just chosen is free.
UploadOK(f, t) ==
    /\ f.pc \in {"name", "write"} =>
         f.dir \in Seq(Range(f.dir)) /\ f.files \in Seq(Range(f.files))
    /\ f.pc = "write" => f.files # << >> /\ IsPath(f.row) /\ (f.checked => f.row \notin DOMAIN t)
FrameOK(f, t) ==
    /\ DOMAIN f = Fields /\ f.pc \in FramePoints
    /\ RowsOK(f, t) /\ RenameOK(f, t) /\ UploadOK(f, t)

\* What is in a tree.
Held(t) == {t[p] : p \in DOMAIN t}
\* What is owed for an upload, but for the files still to come.
Got(f) == f.owed \ {f.files[i].datum : i \in DOMAIN f.files}
(* The invariant: unless a call has relied on a stale check, what there was *)
(* at first and what uploads have written is in the tree.                   *)
FileInv ==
    /\ TreeOK(tree)
    /\ DOMAIN frame = Workers /\ \A w \in Workers : FrameOK(frame[w], tree)
    /\ ~gone
    /\ ~raced => data \subseteq Held(tree)
                 /\ \A w \in Workers : Got(frame[w]) \subseteq Held(tree)

\* As long as both are plain, the name m tells the languages n tells.
SameLanguages(n, m) ==
    IsName(n) =>
      /\ IsName(m)
      /\ n.ext = SUBTITLE /\ PlainName(n) /\ PlainName(m) =>
           /\ m.ext = SUBTITLE
           /\ Range(_suffix_after_token(n.words)) \subseteq Range(_suffix_after_token(m.words))
\* A name that tells the languages of the subtitle datum.
Carries(n, datum) == IsName(n) /\ Told(n, datum)
\* The names a request is about to give.
FrameNames(f) ==
    /\ \A r \in f.rows : SameLanguages(Base(r[1]), Base(r[2]))
    /\ f.pc = "rename" => SameLanguages(Base(f.row[1]), Base(f.row[2]))
    /\ f.pc \in {"name", "write"} =>
         /\ f.files \in Seq(Range(f.files))
         /\ \A i \in DOMAIN f.files : Carries(f.files[i].name, f.files[i].datum)
    /\ f.pc = "write" => f.files # << >> /\ Carries(Base(f.row), Head(f.files).datum)
\* Every file has a name that tells its languages.
NamesOK(t) == \A p \in DOMAIN t : t[p] # Dir => Carries(Base(p), t[p])
\* The invariant: so it is while names are plain.
NameInv ==
    plain =>
      /\ Plain(tree) /\ NamesOK(tree)
      /\ \A w \in Workers : FrameNames(frame[w])

-----------------------------------------------------------------------------
(* Paths *)

\* A sequence is one of what is in it.
LEMMA PathIsSeq == ASSUME NEW S, NEW p \in Seq(S) PROVE p \in Seq(Range(p))
  BY SeqOfRange

\* Two paths are sequences over one set.
LEMMA JointNames ==
  ASSUME NEW p, NEW q, p \in Seq(Range(p)), q \in Seq(Range(q))
  PROVE  \E S : p \in Seq(S) /\ q \in Seq(S)
<1>1. p \in Seq(Range(p) \cup Range(q)) /\ q \in Seq(Range(p) \cup Range(q))
  BY SeqMonotonic, Zenon
<1> QED
  BY <1>1

\* Paths with the same names are the same.
LEMMA SamePath ==
  ASSUME NEW p, NEW q, p \in Seq(Range(p)), q \in Seq(Range(q)), Len(p) = Len(q),
         \A i \in 1..Len(p) : p[i] = q[i]
  PROVE  p = q
<1>1. PICK S : p \in Seq(S) /\ q \in Seq(S)
  BY JointNames
<1> QED
  BY <1>1, SeqEqual

\* What a cut of a path is.
LEMMA PathCut ==
  ASSUME NEW p, p \in Seq(Range(p)), NEW i \in 1..Len(p)
  PROVE  /\ IsPath(SubSeq(p, 1, i)) /\ Len(SubSeq(p, 1, i)) = i
         /\ \A j \in 1..i : SubSeq(p, 1, i)[j] = p[j]
<1>1. \A j \in 1..i : p[j] \in Range(p)
  BY ElementOfSeq, LenProperties
<1>2. Len(p) \in Nat
  BY LenProperties
<1>3. /\ SubSeq(p, 1, i) \in Seq(Range(p)) /\ Len(SubSeq(p, 1, i)) = i
      /\ \A j \in 1..i : SubSeq(p, 1, i)[j] = p[j]
  BY <1>1, <1>2, SubSeqProperties, i \in Int, i >= 1
<1>4. SubSeq(p, 1, i) \in Seq(Range(SubSeq(p, 1, i)))
  BY <1>3, PathIsSeq
<1>5. SubSeq(p, 1, i) # << >>
  BY <1>3, i >= 1
<1> QED
  BY <1>3, <1>4, <1>5 DEF IsPath

\* A path has a name at least.
LEMMA PathLen == ASSUME NEW p, IsPath(p) PROVE Len(p) \in Nat /\ Len(p) >= 1
  BY LenProperties, EmptySeq DEF IsPath

\* The parent of a path is the path without its last name.
LEMMA ParentFacts ==
  ASSUME NEW p, IsPath(p)
  PROVE  /\ Parent(p) \in Seq(Range(Parent(p))) /\ Len(Parent(p)) = Len(p) - 1
         /\ \A i \in 1..(Len(p) - 1) : Parent(p)[i] = p[i]
<1>1. Len(p) \in Nat /\ Len(p) >= 1
  BY PathLen
<1>2. \A j \in 1..(Len(p) - 1) : p[j] \in Range(p)
  BY <1>1, ElementOfSeq DEF IsPath
<1> DEFINE n == Len(p) - 1
<1>3. n \in Nat /\ \A j \in 1..n : p[j] \in Range(p)
  BY <1>1, <1>2
<1> HIDE DEF n
<1>4. /\ SubSeq(p, 1, n) \in Seq(Range(p)) /\ Len(SubSeq(p, 1, n)) = n
      /\ \A i \in 1..n : SubSeq(p, 1, n)[i] = p[i]
  BY <1>3, SubSeqProperties
<1>5. Parent(p) = SubSeq(p, 1, n)
  BY DEF Parent, Front, n
<1> QED
  BY <1>4, <1>5, PathIsSeq DEF n

\* A parent is the root or one of the directories above.
LEMMA ParentAbove ==
  ASSUME NEW p, IsPath(p)
  PROVE  Parent(p) = << >> \/ Parent(p) \in Above(p)
<1>1. Len(p) \in Nat /\ Len(p) >= 1
  BY PathLen
<1>2. CASE Len(p) = 1
  <2>1. Parent(p) \in Seq(Range(Parent(p))) /\ Len(Parent(p)) = 0
    BY <1>1, <1>2, ParentFacts
  <2> QED
    BY <2>1, EmptySeq
<1>3. CASE Len(p) > 1
  <2>1. Len(p) - 1 \in 1..(Len(p) - 1)
    BY <1>1, <1>3
  <2> QED
    BY <2>1 DEF Parent, Front, Above
<1>4. Len(p) = 1 \/ Len(p) > 1
  <2>1. \A n \in Nat : n >= 1 => n = 1 \/ n > 1
    OBVIOUS
  <2> QED
    BY <1>1, <2>1, Zenon
<1> QED
  BY <1>2, <1>3, <1>4, Zenon

\* What leads to a directory leads to what is in it.
LEMMA AboveFacts ==
  ASSUME NEW p, IsPath(p), NEW d \in Above(p)
  PROVE  /\ IsPath(d) /\ Len(d) < Len(p) /\ IsPrefix(d, p)
         /\ Above(d) \subseteq Above(p)
<1>1. PICK i \in 1..(Len(p) - 1) : d = SubSeq(p, 1, i)
  BY DEF Above
<1>2. Len(p) \in Nat /\ Len(p) >= 1
  BY PathLen
<1>3. i \in 1..Len(p) /\ i < Len(p)
  BY <1>1, <1>2
<1>4. IsPath(d) /\ Len(d) = i /\ \A j \in 1..i : d[j] = p[j]
  BY <1>1, <1>3, PathCut DEF IsPath
<1>5. IsPrefix(d, p)
  <2>1. SubSeq(d, 1, Len(d)) = d
    BY <1>4, SubSeqFull DEF IsPath
  <2> QED
    BY <2>1, <1>1, <1>3, <1>4 DEF IsPrefix
<1>6. ASSUME NEW e \in Above(d) PROVE e \in Above(p)
  <2>1. PICK k \in 1..(Len(d) - 1) : e = SubSeq(d, 1, k)
    BY <1>6 DEF Above
  <2>2. k \in 1..Len(d) /\ k \in 1..Len(p) /\ k \in 1..(Len(p) - 1)
    BY <2>1, <1>3, <1>4
  <2>3. IsPath(e) /\ Len(e) = k /\ \A j \in 1..k : e[j] = d[j]
    BY <2>1, <2>2, <1>4, PathCut DEF IsPath
  <2>4. IsPath(SubSeq(p, 1, k)) /\ Len(SubSeq(p, 1, k)) = k
        /\ \A j \in 1..k : SubSeq(p, 1, k)[j] = p[j]
    BY <2>2, PathCut DEF IsPath
  <2>5. \A j \in 1..k : e[j] = SubSeq(p, 1, k)[j]
    BY <2>2, <2>3, <2>4, <1>4
  <2>6. e = SubSeq(p, 1, k)
    BY <2>3, <2>4, <2>5, SamePath DEF IsPath
  <2> QED
    BY <2>2, <2>6 DEF Above
<1> QED
  BY <1>3, <1>4, <1>5, <1>6

\* What a path that begins with another has in common with it.
LEMMA PrefixFacts ==
  ASSUME NEW d, NEW p, IsPath(d), IsPath(p), IsPrefix(d, p)
  PROVE  /\ Len(d) <= Len(p) /\ d = SubSeq(p, 1, Len(d))
         /\ \A i \in 1..Len(d) : d[i] = p[i]
         /\ Len(d) < Len(p) => d \in Above(p)
<1>1. Len(p) \in Nat /\ Len(p) >= 1 /\ Len(d) \in Nat /\ Len(d) >= 1
  BY PathLen
<1>2. Len(d) <= Len(p) /\ SubSeq(d, 1, Len(d)) = SubSeq(p, 1, Len(d))
  BY DEF IsPrefix
<1>3. d = SubSeq(p, 1, Len(d))
  BY <1>2, SubSeqFull DEF IsPath
<1>4. \A i \in 1..Len(d) : d[i] = p[i]
  <2>1. Len(d) \in 1..Len(p)
    BY <1>1, <1>2
  <2> QED
    BY <1>3, <2>1, PathCut DEF IsPath
<1>5. Len(d) < Len(p) => d \in Above(p)
  <2>1. ASSUME Len(d) < Len(p) PROVE Len(d) \in 1..(Len(p) - 1)
    BY <1>1, <2>1
  <2> QED
    BY <1>3, <2>1 DEF Above
<1> QED
  BY <1>2, <1>3, <1>4, <1>5

\* A path begins with another when it has its names.
LEMMA PrefixByNames ==
  ASSUME NEW d, NEW p, IsPath(d), IsPath(p), Len(d) <= Len(p), \A i \in 1..Len(d) : d[i] = p[i]
  PROVE  IsPrefix(d, p)
<1>1. Len(p) \in Nat /\ Len(d) \in Nat /\ Len(d) \in 1..Len(p)
  BY PathLen
<1>2. IsPath(SubSeq(p, 1, Len(d))) /\ Len(SubSeq(p, 1, Len(d))) = Len(d)
      /\ \A j \in 1..Len(d) : SubSeq(p, 1, Len(d))[j] = p[j]
  BY <1>1, PathCut DEF IsPath
<1>3. d = SubSeq(p, 1, Len(d))
  BY <1>2, SamePath DEF IsPath
<1>4. SubSeq(d, 1, Len(d)) = d
  BY SubSeqFull DEF IsPath
<1> QED
  BY <1>3, <1>4 DEF IsPrefix

\* Two paths in one directory.
LEMMA Siblings ==
  ASSUME NEW a, NEW b, IsPath(a), IsPath(b), Parent(b) = Parent(a)
  PROVE  /\ Len(a) = Len(b) /\ Above(a) = Above(b)
         /\ \A i \in 1..(Len(a) - 1) : a[i] = b[i]
<1>1. Len(a) \in Nat /\ Len(a) >= 1 /\ Len(b) \in Nat /\ Len(b) >= 1
  BY PathLen
<1>2. Len(a) = Len(b)
  BY <1>1, ParentFacts
<1>3. \A i \in 1..(Len(a) - 1) : a[i] = b[i]
  BY <1>1, <1>2, ParentFacts
<1>4. ASSUME NEW i \in 1..(Len(a) - 1) PROVE SubSeq(a, 1, i) = SubSeq(b, 1, i)
  <2>1. i \in 1..Len(a) /\ i \in 1..Len(b)
    BY <1>1, <1>2
  <2>2. /\ IsPath(SubSeq(a, 1, i)) /\ Len(SubSeq(a, 1, i)) = i
        /\ \A j \in 1..i : SubSeq(a, 1, i)[j] = a[j]
    BY <2>1, PathCut DEF IsPath
  <2>3. /\ IsPath(SubSeq(b, 1, i)) /\ Len(SubSeq(b, 1, i)) = i
        /\ \A j \in 1..i : SubSeq(b, 1, i)[j] = b[j]
    BY <2>1, PathCut DEF IsPath
  <2>4. \A j \in 1..i : SubSeq(a, 1, i)[j] = SubSeq(b, 1, i)[j]
    BY <2>2, <2>3, <1>1, <1>3
  <2> QED
    BY <2>2, <2>3, <2>4, SamePath DEF IsPath
<1>5. Above(a) = Above(b)
  BY <1>2, <1>4, Zenon DEF Above
<1> QED
  BY <1>2, <1>3, <1>5

\* A name in a directory.
LEMMA AppendPath ==
  ASSUME NEW d, d \in Seq(Range(d)), NEW x
  PROVE  /\ IsPath(Append(d, x)) /\ Parent(Append(d, x)) = d
         /\ Len(Append(d, x)) = Len(d) + 1
<1> DEFINE S == Range(d) \cup {x}
<1>1. d \in Seq(S) /\ x \in S
  BY SeqMonotonic, Zenon
<1>2. /\ Append(d, x) \in Seq(S) /\ Append(d, x) # << >> /\ Len(Append(d, x)) = Len(d) + 1
      /\ \A i \in 1..Len(d) : Append(d, x)[i] = d[i]
  BY <1>1, AppendProperties
<1>3. IsPath(Append(d, x))
  BY <1>2, PathIsSeq DEF IsPath
<1>4. Len(d) \in Nat
  BY LenProperties
<1>5. Parent(Append(d, x)) = d
  <2> DEFINE p == Append(d, x)
             q == Parent(p)
  <2>1. q \in Seq(Range(q)) /\ Len(q) = Len(p) - 1 /\ \A i \in 1..(Len(p) - 1) : q[i] = p[i]
    BY <1>3, ParentFacts
  <2>2. Len(p) = Len(d) + 1 /\ \A i \in 1..Len(d) : p[i] = d[i]
    BY <1>2
  <2> HIDE DEF p, q
  <2>3. Len(q) = Len(d) /\ \A i \in 1..Len(d) : q[i] = d[i]
    BY <2>1, <2>2, <1>4
  <2>4. q = d
    BY <2>1, <2>3, SamePath
  <2> QED
    BY <2>4 DEF p, q
<1> QED
  BY <1>2, <1>3, <1>5


-----------------------------------------------------------------------------
(* Trees *)

\* What is in a tree is in directories of the tree.
LEMMA WithinTree ==
  ASSUME TreeOK(tree), NEW p \in DOMAIN tree, NEW d, IsPath(d), IsPrefix(d, p), Len(d) < Len(p)
  PROVE  d \in DOMAIN tree /\ tree[d] = Dir
<1>1. IsPath(p) /\ \A e \in Above(p) : e \in DOMAIN tree /\ tree[e] = Dir
  BY Zenon DEF TreeOK
<1>2. d \in Above(p)
  BY <1>1, PrefixFacts
<1> QED
  BY <1>1, <1>2

\* What a sequence after another is, with a range for each.
LEMMA Joined ==
  ASSUME NEW S, NEW s \in Seq(S), NEW t \in Seq(S)
  PROVE  /\ s \o t \in Seq(S) /\ Len(s \o t) = Len(s) + Len(t)
         /\ \A i \in 1..Len(s) : (s \o t)[i] = s[i]
         /\ \A i \in (Len(s) + 1)..(Len(s) + Len(t)) : (s \o t)[i] = t[i - Len(s)]
  BY ConcatProperties, LenProperties

\* The path p with a, which it begins with, replaced by b.
LEMMA MovedPath ==
  ASSUME NEW a, NEW b, NEW p, IsPath(a), IsPath(b), IsPath(p),
         Len(a) = Len(b), Len(a) <= Len(p)
  PROVE  /\ IsPath(Moved(p, a, b)) /\ Len(Moved(p, a, b)) = Len(p)
         /\ \A i \in 1..Len(a) : Moved(p, a, b)[i] = b[i]
         /\ \A i \in (Len(a) + 1)..Len(p) : Moved(p, a, b)[i] = p[i]
<1> DEFINE q == Moved(p, a, b)
           S == Range(b) \cup Range(p)
           m == Len(a)
           n == Len(p)
           r == SubSeq(p, m + 1, n)
<1>1. m \in Nat /\ m >= 1 /\ n \in Nat /\ n >= 1 /\ m <= n /\ Len(b) = m
  BY PathLen
<1>2. b \in Seq(S) /\ p \in Seq(S)
  BY SeqMonotonic, Zenon DEF IsPath
<1>3. \A i \in 1..n : p[i] \in S
  BY <1>2, ElementOfSeq
<1> HIDE DEF S, m, n
<1>4. \A i \in (m + 1)..n : p[i] \in S
  BY <1>1, <1>3
<1>5. /\ r \in Seq(S)
      /\ Len(r) = IF m + 1 <= n THEN n - (m + 1) + 1 ELSE 0
      /\ \A i \in 1..(n - (m + 1) + 1) : r[i] = p[m + 1 + i - 1]
  <2>1. m + 1 \in Int /\ n \in Int
    BY <1>1
  <2> QED
    BY <1>4, <2>1, SubSeqProperties
<1> HIDE DEF r
<1>6. Len(r) = n - m /\ \A i \in 1..(n - m) : r[i] = p[m + i]
  BY <1>1, <1>5
<1>7. q = b \o r
  BY DEF Moved, r, m, n
<1> HIDE DEF q
<1>8. /\ q \in Seq(S) /\ Len(q) = m + Len(r)
      /\ \A i \in 1..m : q[i] = b[i]
      /\ \A i \in (m + 1)..(m + Len(r)) : q[i] = r[i - m]
  <2>1. Len(b) = m
    BY <1>1
  <2> QED
    BY <2>1, <1>2, <1>5, <1>7, Joined
<1>9. /\ Len(q) = n
      /\ \A i \in 1..m : q[i] = b[i]
      /\ \A i \in (m + 1)..n : q[i] = p[i]
  <2>1. Len(q) = n /\ m + Len(r) = n
    BY <1>1, <1>6, <1>8
  <2>2. ASSUME NEW i \in (m + 1)..n PROVE q[i] = p[i]
    <3>1. i - m \in 1..(n - m) /\ m + (i - m) = i
      BY <1>1
    <3>2. q[i] = r[i - m]
      BY <1>8, <2>1, Zenon
    <3>3. r[i - m] = p[m + (i - m)]
      BY <3>1, <1>6, Zenon
    <3> QED
      BY <3>1, <3>2, <3>3, Zenon
  <2> QED
    BY <2>1, <2>2, <1>8
<1>10. q # << >>
  BY <1>1, <1>8, <1>9, EmptySeq
<1>11. IsPath(q)
  BY <1>8, <1>10, PathIsSeq DEF IsPath
<1> QED
  BY <1>9, <1>11 DEF q, m, n

\* Moving there and back again.
LEMMA BackAgain ==
  ASSUME NEW a, NEW b, NEW p, IsPath(a), IsPath(b), IsPath(p), Len(a) = Len(b), IsPrefix(a, p)
  PROVE  Moved(Moved(p, a, b), b, a) = p
<1> DEFINE q == Moved(p, a, b)
           back == Moved(q, b, a)
<1>1. Len(a) \in Nat /\ Len(p) \in Nat /\ Len(a) <= Len(p) /\ \A i \in 1..Len(a) : a[i] = p[i]
  BY PathLen, PrefixFacts
<1>2. /\ IsPath(q) /\ Len(q) = Len(p)
      /\ \A i \in 1..Len(a) : q[i] = b[i]
      /\ \A i \in (Len(a) + 1)..Len(p) : q[i] = p[i]
  BY <1>1, MovedPath
<1> HIDE DEF q
<1>3. /\ IsPath(back) /\ Len(back) = Len(q)
      /\ \A i \in 1..Len(b) : back[i] = a[i]
      /\ \A i \in (Len(b) + 1)..Len(q) : back[i] = q[i]
  BY <1>1, <1>2, MovedPath
<1> HIDE DEF back
<1>4. Len(back) = Len(p) /\ \A i \in 1..Len(p) : back[i] = p[i]
  <2>1. ASSUME NEW i \in 1..Len(p) PROVE back[i] = p[i]
    <3>1. CASE i \in 1..Len(a)
      BY <3>1, <1>1, <1>2, <1>3
    <3>2. CASE i \in (Len(a) + 1)..Len(p)
      BY <3>2, <1>1, <1>2, <1>3
    <3> QED
      BY <1>1, <3>1, <3>2
  <2> QED
    BY <2>1, <1>2, <1>3
<1>5. back = p
  BY <1>3, <1>4, SamePath DEF IsPath
<1> QED
  BY <1>5 DEF back, q


\* What rename(2) does to the tree: the directories of what is left, and of
\* what has moved, are there; only a target that was there can be lost; and
\* nothing goes but the source and what is in it.
LEMMA RenamedFacts ==
  ASSUME TreeOK(tree), NEW a, NEW b, IsPath(a), IsPath(b), Parent(b) = Parent(a),
         a \in DOMAIN tree, Replaceable(a, b)
  PROVE  /\ TreeOK(Renamed(a, b))
         /\ b \notin DOMAIN tree => Held(tree) \subseteq Held(Renamed(a, b))
         /\ \A p \in DOMAIN tree : p = a \/ Inside(p, a) \/ p \in DOMAIN Renamed(a, b)
<1> DEFINE T   == Renamed(a, b)
           old == {p \in DOMAIN tree : p = a \/ Inside(p, a)}
           new == {Moved(p, a, b) : p \in old}
<1>1. /\ Len(a) = Len(b) /\ Above(a) = Above(b)
      /\ Len(a) \in Nat /\ Len(a) >= 1 /\ Len(b) \in Nat
  BY Siblings, PathLen
<1>2. \A p \in DOMAIN tree :
        IsPath(p) /\ \A d \in Above(p) : d \in DOMAIN tree /\ tree[d] = Dir
  BY Zenon DEF TreeOK
<1>3. ASSUME NEW p \in old
      PROVE  /\ p \in DOMAIN tree /\ IsPath(p) /\ IsPrefix(a, p) /\ Len(a) <= Len(p)
             /\ \A i \in 1..Len(a) : a[i] = p[i]
             /\ IsPath(Moved(p, a, b)) /\ Len(Moved(p, a, b)) = Len(p)
             /\ \A i \in 1..Len(a) : Moved(p, a, b)[i] = b[i]
             /\ \A i \in (Len(a) + 1)..Len(p) : Moved(p, a, b)[i] = p[i]
             /\ Moved(Moved(p, a, b), b, a) = p
             /\ IsPrefix(b, Moved(p, a, b))
  <2>1. p \in DOMAIN tree /\ IsPath(p)
    BY <1>2
  <2>2. IsPrefix(a, p)
    <3>1. IsPrefix(a, a)
      BY <1>1, PrefixByNames
    <3> QED
      BY <3>1 DEF Inside
  <2>3. Len(a) <= Len(p) /\ \A i \in 1..Len(a) : a[i] = p[i]
    BY <2>1, <2>2, PrefixFacts
  <2>4. /\ IsPath(Moved(p, a, b)) /\ Len(Moved(p, a, b)) = Len(p)
        /\ \A i \in 1..Len(a) : Moved(p, a, b)[i] = b[i]
        /\ \A i \in (Len(a) + 1)..Len(p) : Moved(p, a, b)[i] = p[i]
    BY <1>1, <2>1, <2>3, MovedPath
  <2>5. Moved(Moved(p, a, b), b, a) = p
    BY <1>1, <2>1, <2>2, BackAgain
  <2>6. IsPrefix(b, Moved(p, a, b))
    <3>1. Len(b) <= Len(Moved(p, a, b)) /\ \A i \in 1..Len(b) : b[i] = Moved(p, a, b)[i]
      BY <1>1, <2>3, <2>4
    <3> QED
      BY <2>4, <3>1, PrefixByNames
  <2> QED
    BY <2>1, <2>2, <2>3, <2>4, <2>5, <2>6, Zenon
<1>4. /\ DOMAIN T = (DOMAIN tree \ old) \cup new
      /\ \A q \in new : T[q] = tree[Moved(q, b, a)]
      /\ \A q \in DOMAIN tree \ old : q \notin new => T[q] = tree[q]
  BY DEF Renamed
<1> HIDE DEF T
<1>5. \A p \in old : Moved(p, a, b) \in DOMAIN T /\ T[Moved(p, a, b)] = tree[p]
  BY <1>3, <1>4, Zenon
<1>6. \A q \in new : IsPath(q) /\ IsPrefix(b, q) /\ Len(b) <= Len(q)
  BY <1>1, <1>3
<1>7. \A q \in old : IsPath(q) /\ IsPrefix(a, q) /\ Len(a) <= Len(q)
  BY <1>3
<1>8. \A q \in DOMAIN tree : IsPrefix(a, q) => q \in old
  <2> SUFFICES ASSUME NEW q \in DOMAIN tree, IsPrefix(a, q) PROVE q = a \/ Len(q) > Len(a)
    BY DEF Inside
  <2>1. IsPath(q) /\ Len(q) \in Nat
    BY <1>2, PathLen
  <2>2. Len(a) <= Len(q) /\ \A i \in 1..Len(a) : a[i] = q[i]
    BY <2>1, PrefixFacts
  <2>3. Len(q) = Len(a) => q = a
    BY <2>1, <2>2, SamePath DEF IsPath
  <2> QED
    BY <2>1, <2>2, <2>3, <1>1
<1>9. \A p \in DOMAIN tree : p \in old \/ p \in DOMAIN T
  BY <1>4
\* Above what has not moved.
<1>10. ASSUME NEW q \in DOMAIN tree \ old, NEW d \in Above(q)
       PROVE  d \in DOMAIN T /\ T[d] = Dir
  <2>1. IsPath(q) /\ d \in DOMAIN tree /\ tree[d] = Dir
    BY <1>2
  <2>2. IsPath(d) /\ Len(d) < Len(q) /\ Above(d) \subseteq Above(q) /\ IsPrefix(d, q)
    BY <2>1, AboveFacts
  <2>3. ASSUME NEW c, IsPath(c), IsPrefix(c, d)
        PROVE  c \in Above(q) /\ IsPrefix(c, q) /\ c \in DOMAIN tree /\ tree[c] = Dir
               /\ Len(c) < Len(q)
    <3>1. Len(c) <= Len(d) /\ (\A i \in 1..Len(c) : c[i] = d[i])
          /\ (Len(c) < Len(d) => c \in Above(d))
      BY <2>2, <2>3, PrefixFacts
    <3>2. Len(c) = Len(d) => c = d
      BY <2>2, <2>3, <3>1, SamePath DEF IsPath
    <3>3. Len(c) \in Nat /\ Len(d) \in Nat
      BY <2>2, <2>3, PathLen
    <3>4. c \in Above(q)
      BY <3>1, <3>2, <3>3, <2>2
    <3> QED
      BY <3>4, <2>1, <1>2, AboveFacts
  <2>4. d \notin old
    <3> SUFFICES ASSUME d \in old PROVE FALSE
      OBVIOUS
    <3>1. IsPrefix(a, q)
      BY <1>7, <2>3
    <3> QED
      BY <3>1, <1>8
  <2>5. d \notin new
    <3> SUFFICES ASSUME d \in new PROVE FALSE
      OBVIOUS
    <3>1. IsPrefix(b, q) /\ b \in DOMAIN tree /\ tree[b] = Dir /\ Len(b) < Len(q)
      BY <1>6, <2>3
    <3>2. q \in Under(b, TRUE) /\ IsDir(b)
      BY <3>1, <1>1, <2>1, PathLen DEF Under, Inside, IsDir, Exists
    <3> QED
      BY <3>1, <3>2 DEF Replaceable, Exists
  <2> QED
    BY <2>1, <2>4, <2>5, <1>4
\* Above what has.
<1>11. ASSUME NEW p \in old, NEW d \in Above(Moved(p, a, b))
       PROVE  d \in DOMAIN T /\ T[d] = Dir
  <2> DEFINE q == Moved(p, a, b)
  <2>1. /\ p \in DOMAIN tree /\ IsPath(p) /\ IsPrefix(a, p) /\ Len(a) <= Len(p)
        /\ \A i \in 1..Len(a) : a[i] = p[i]
        /\ IsPath(q) /\ Len(q) = Len(p)
        /\ \A i \in 1..Len(a) : q[i] = b[i]
        /\ \A i \in (Len(a) + 1)..Len(p) : q[i] = p[i]
    BY <1>3, Zenon
  <2>2. d \in Above(q)
    OBVIOUS
  <2> HIDE DEF q
  <2>3. IsPath(d) /\ Len(d) < Len(q) /\ IsPrefix(d, q)
    BY <2>1, <2>2, AboveFacts
  <2>4. (\A i \in 1..Len(d) : d[i] = q[i]) /\ Len(d) \in Nat /\ Len(p) \in Nat /\ Len(d) >= 1
    BY <2>1, <2>3, PrefixFacts, PathLen
  <2>5. CASE Len(d) < Len(b)
    <3>1. Len(d) <= Len(b) /\ \A i \in 1..Len(d) : d[i] = b[i]
      BY <2>1, <2>4, <2>5, <1>1
    <3>2. d \in Above(b)
      BY <2>3, <2>5, <3>1, PrefixByNames, PrefixFacts
    <3>3. d \in DOMAIN tree /\ tree[d] = Dir
      BY <3>2, <1>1, <1>2
    <3>4. d \notin old /\ d \notin new
      BY <2>4, <2>5, <1>1, <1>6, <1>7
    <3> QED
      BY <3>3, <3>4, <1>4
  <2>6. CASE Len(d) >= Len(b)
    <3> DEFINE k == Len(d)
               c == SubSeq(p, 1, k)
    <3>1. k \in 1..(Len(p) - 1) /\ k \in 1..Len(p)
      BY <2>1, <2>3, <2>4
    <3>2. c \in Above(p)
      BY <3>1 DEF Above
    <3>3. c \in DOMAIN tree /\ tree[c] = Dir
      BY <3>2, <2>1, <1>2
    <3>4. IsPath(c) /\ Len(c) = k /\ \A i \in 1..k : c[i] = p[i]
      BY <3>1, <2>1, PathCut DEF IsPath
    <3> HIDE DEF c
    <3>5. IsPrefix(a, c)
      <4>1. Len(a) <= Len(c) /\ \A i \in 1..Len(a) : a[i] = c[i]
        BY <1>1, <2>1, <2>4, <2>6, <3>4
      <4> QED
        BY <3>4, <4>1, PrefixByNames
    <3>6. c \in old
      BY <3>3, <3>5, <1>8
    <3>7. /\ IsPath(Moved(c, a, b)) /\ Len(Moved(c, a, b)) = k
          /\ \A i \in 1..Len(a) : Moved(c, a, b)[i] = b[i]
          /\ \A i \in (Len(a) + 1)..k : Moved(c, a, b)[i] = c[i]
      BY <3>4, <3>6, <1>3
    <3>8. ASSUME NEW i \in 1..k PROVE Moved(c, a, b)[i] = d[i]
      <4>1. CASE i \in 1..Len(a)
        BY <4>1, <3>7, <2>1, <2>4
      <4>2. CASE i \in (Len(a) + 1)..k
        <5>1. i \in (Len(a) + 1)..Len(p) /\ i \in 1..k
          BY <4>2, <3>1, <1>1
        <5>2. Moved(c, a, b)[i] = c[i] /\ c[i] = p[i]
          BY <4>2, <5>1, <3>4, <3>7
        <5>3. p[i] = q[i] /\ q[i] = d[i]
          BY <5>1, <2>1, <2>4
        <5> QED
          BY <5>2, <5>3
      <4>3. i \in 1..Len(a) \/ i \in (Len(a) + 1)..k
        BY <1>1, <3>1
      <4> QED
        BY <4>1, <4>2, <4>3
    <3>9. Moved(c, a, b) = d
      BY <3>7, <3>8, <2>3, SamePath DEF IsPath
    <3> QED
      BY <3>3, <3>6, <3>9, <1>5
  <2> QED
    BY <2>4, <2>5, <2>6, <1>1
<1>12. TreeOK(T)
  <2>1. ASSUME NEW q \in DOMAIN T
        PROVE  IsPath(q) /\ \A d \in Above(q) : d \in DOMAIN T /\ T[d] = Dir
    <3>1. CASE q \in new
      <4>1. PICK p \in old : q = Moved(p, a, b)
        BY <3>1
      <4> QED
        BY <4>1, <1>3, <1>11
    <3>2. CASE q \in DOMAIN tree \ old
      BY <3>2, <1>2, <1>10
    <3> QED
      BY <3>1, <3>2, <1>4
  <2> QED
    BY <2>1 DEF TreeOK
<1>13. ASSUME b \notin DOMAIN tree, NEW p \in DOMAIN tree PROVE tree[p] \in Held(T)
  <2>1. CASE p \in old
    BY <2>1, <1>5 DEF Held
  <2>2. CASE p \notin old
    <3>1. p \notin new
      <4> SUFFICES ASSUME p \in new PROVE FALSE
        OBVIOUS
      <4>1. IsPath(p) /\ IsPrefix(b, p)
        BY <1>6
      <4>2. Len(b) <= Len(p) /\ (\A i \in 1..Len(b) : b[i] = p[i])
            /\ (Len(b) < Len(p) => b \in Above(p))
        BY <4>1, PrefixFacts
      <4>3. Len(b) = Len(p) => b = p
        BY <4>1, <4>2, SamePath DEF IsPath
      <4>4. Len(p) \in Nat
        BY <4>1, PathLen
      <4> QED
        BY <4>2, <4>3, <4>4, <1>1, <1>2, <1>13
    <3> QED
      BY <2>2, <3>1, <1>4 DEF Held
  <2> QED
    BY <2>1, <2>2
<1> QED
  BY <1>9, <1>12, <1>13 DEF T, Held


\* mkdir(parents=True) keeps what is there.
LEMMA MadeFacts ==
  ASSUME TreeOK(tree), NEW p, IsPath(p), \A d \in Above(p) : Exists(d) => IsDir(d)
  PROVE  /\ TreeOK(MadeFor(p))
         /\ DOMAIN MadeFor(p) = DOMAIN tree \cup Above(p)
         /\ \A q \in DOMAIN tree : MadeFor(p)[q] = tree[q]
         /\ \A q \in Above(p) : MadeFor(p)[q] = Dir
         /\ Held(tree) \subseteq Held(MadeFor(p))
<1> DEFINE T == MadeFor(p)
<1>1. \A q \in Above(p) : IsPath(q) /\ Above(q) \subseteq Above(p)
  BY AboveFacts
<1>2. \A q \in Above(p) : q \in DOMAIN tree => tree[q] = Dir
  BY <1>1 DEF Exists, IsDir, IsPath
<1>3. DOMAIN T = DOMAIN tree \cup Above(p) /\ \A q \in DOMAIN tree : T[q] = tree[q]
  BY DEF MadeFor, With, Exists
<1>4. \A q \in Above(p) : T[q] = Dir
  BY <1>2 DEF MadeFor, With, Exists
<1> HIDE DEF T
<1>5. ASSUME NEW q \in DOMAIN T
      PROVE  IsPath(q) /\ \A d \in Above(q) : d \in DOMAIN T /\ T[d] = Dir
  <2>1. CASE q \in DOMAIN tree
    BY <2>1, <1>3 DEF TreeOK
  <2>2. CASE q \in Above(p)
    BY <2>2, <1>1, <1>3, <1>4
  <2> QED
    BY <2>1, <2>2, <1>3
<1>6. TreeOK(T)
  BY <1>5 DEF TreeOK
<1>7. Held(tree) \subseteq Held(T)
  BY <1>3 DEF Held
<1> QED
  BY <1>3, <1>4, <1>6, <1>7 DEF T

\* A write loses only what was at its path.
LEMMA WrittenFacts ==
  ASSUME TreeOK(tree), NEW p, IsPath(p), CanHave(p), NEW what
  PROVE  /\ TreeOK(Written(p, what))
         /\ what \in Held(Written(p, what))
         /\ p \notin DOMAIN tree => Held(tree) \subseteq Held(Written(p, what))
<1> DEFINE D == MadeFor(p)
           T == Written(p, what)
<1>1. /\ TreeOK(D) /\ DOMAIN D = DOMAIN tree \cup Above(p)
      /\ \A q \in DOMAIN tree : D[q] = tree[q]
      /\ \A q \in Above(p) : D[q] = Dir
      /\ Held(tree) \subseteq Held(D)
  BY MadeFacts DEF CanHave
<1> HIDE DEF D
<1>2. /\ DOMAIN T = DOMAIN D \cup {p} /\ T[p] = what
      /\ \A q \in DOMAIN D : q # p => T[q] = D[q]
  BY DEF Written, D
<1> HIDE DEF T
<1>3. \A d \in Above(p) : d # p /\ Above(d) \subseteq Above(p)
  <2>1. \A d \in Above(p) : Len(d) < Len(p) /\ Above(d) \subseteq Above(p)
    BY AboveFacts
  <2>2. Len(p) \in Nat
    BY PathLen
  <2> QED
    BY <2>1, <2>2
<1>4. \A q \in DOMAIN D : p \notin Above(q)
  <2> SUFFICES ASSUME NEW q \in DOMAIN D, p \in Above(q) PROVE FALSE
    OBVIOUS
  <2>1. CASE q \in DOMAIN tree
    BY <2>1 DEF TreeOK, CanHave, IsDir, Exists
  <2>2. CASE q \in Above(p)
    BY <2>2, <1>3
  <2> QED
    BY <2>1, <2>2, <1>1
<1>5. ASSUME NEW q \in DOMAIN T
      PROVE  IsPath(q) /\ \A d \in Above(q) : d \in DOMAIN T /\ T[d] = Dir
  <2>1. CASE q \in DOMAIN D
    <3>1. IsPath(q) /\ \A d \in Above(q) : d \in DOMAIN D /\ D[d] = Dir
      BY <2>1, <1>1 DEF TreeOK
    <3> QED
      BY <3>1, <2>1, <1>2, <1>4
  <2>2. CASE q = p
    BY <2>2, <1>1, <1>2, <1>3
  <2> QED
    BY <2>1, <2>2, <1>2
<1>6. TreeOK(T)
  BY <1>5 DEF TreeOK
<1>7. what \in Held(T)
  BY <1>2 DEF Held
<1>8. p \notin DOMAIN tree => Held(tree) \subseteq Held(T)
  <2> SUFFICES ASSUME p \notin DOMAIN tree, NEW q \in DOMAIN tree PROVE tree[q] \in Held(T)
    BY DEF Held
  <2>1. q \in DOMAIN D /\ q # p /\ D[q] = tree[q]
    BY <1>1
  <2> QED
    BY <2>1, <1>2 DEF Held
<1> QED
  BY <1>6, <1>7, <1>8 DEF T

-----------------------------------------------------------------------------
(* Plans and names *)


\* A row of a plan renames what is there, in its directory, and no two rows
\* the same.
PlanOK(rows) ==
    /\ \A r \in rows : RowOK(r) /\ r[1] \in DOMAIN tree
    /\ \A r, o \in rows : r[1] = o[1] => r = o

\* Plans of cleaning have a row a source, in the tree and in its directory.
LEMMA CleaningRows ==
  ASSUME TreeOK(tree), NEW d, NEW target, NEW recursive, NEW season
  PROVE  PlanOK(build_rename_plan(d, target, recursive, season))
<1> DEFINE To(p) == Append(Parent(p), [Base(p) EXCEPT !.words = clean_basename(@, season)])
           rows  == build_rename_plan(d, target, recursive, season)
<1>1. \A r \in rows : \E p \in DOMAIN tree : r = <<p, To(p)>>
  BY DEF build_rename_plan, Under
<1>2. ASSUME NEW p \in DOMAIN tree
      PROVE  IsPath(p) /\ IsPath(To(p)) /\ Parent(To(p)) = Parent(p)
  <2>1. IsPath(p)
    BY DEF TreeOK
  <2> QED
    BY <2>1, ParentFacts, AppendPath
<1> HIDE DEF To, rows
<1>3. \A r \in rows : RowOK(r) /\ r[1] \in DOMAIN tree /\ r = <<r[1], To(r[1])>>
  BY <1>1, <1>2 DEF RowOK
<1>4. \A r, o \in rows : r[1] = o[1] => r = o
  BY <1>3, Zenon
<1> QED
  BY <1>3, <1>4 DEF rows, PlanOK

\* Plans of alignment, too.
LEMMA AligningRows ==
  ASSUME TreeOK(tree), NEW d, NEW recursive
  PROVE  PlanOK(build_alignment_plan(d, recursive))
<1> DEFINE To(p) == Aligned(p, CHOOSE v \in Matches(p) : TRUE)
           rows  == build_alignment_plan(d, recursive)
<1>1. \A r \in rows : \E p \in DOMAIN tree : r = <<p, To(p)>>
  BY DEF build_alignment_plan, Under
<1>2. ASSUME NEW p \in DOMAIN tree
      PROVE  IsPath(p) /\ IsPath(To(p)) /\ Parent(To(p)) = Parent(p)
  <2>1. IsPath(p)
    BY DEF TreeOK
  <2> QED
    BY <2>1, ParentFacts, AppendPath DEF Aligned
<1> HIDE DEF To, rows
<1>3. \A r \in rows : RowOK(r) /\ r[1] \in DOMAIN tree /\ r = <<r[1], To(r[1])>>
  BY <1>1, <1>2 DEF RowOK
<1>4. \A r, o \in rows : r[1] = o[1] => r = o
  BY <1>3, Zenon
<1> QED
  BY <1>3, <1>4 DEF rows, PlanOK

\* Every plan a page can show.
LEMMA PlansOK ==
  ASSUME TreeOK(tree), NEW d, NEW recursive, NEW plan \in Plans(d, recursive)
  PROVE  PlanOK(plan)
<1>1. plan = build_alignment_plan(d, recursive)
      \/ \E target, season : plan = build_rename_plan(d, target, recursive, season)
  BY DEF Plans
<1> QED
  BY <1>1, AligningRows, CleaningRows

\* A name that is found is free, and in the directory.
LEMMA UniqueDest ==
  ASSUME NEW d, d \in Seq(Range(d)), NEW name, NEW p, p = Append(d, name),
         _unique_dest(p) # {}
  PROVE  LET q == CHOOSE q \in _unique_dest(p) : TRUE
         IN  IsPath(q) /\ q \notin DOMAIN tree /\ Parent(q) = d
<1> DEFINE Numbered(i) == Append(Parent(p), [Base(p) EXCEPT !.words = Append(@, Copies[i])])
           free == {i \in DOMAIN Copies : ~Exists(Numbered(i))}
<1>1. IsPath(p) /\ Parent(p) = d
  BY AppendPath
<1>2. \A i : IsPath(Numbered(i)) /\ Parent(Numbered(i)) = d
  BY <1>1, AppendPath
<1>3. (CHOOSE q \in _unique_dest(p) : TRUE) \in _unique_dest(p)
  OBVIOUS
<1>4. ASSUME NEW q \in _unique_dest(p)
      PROVE  IsPath(q) /\ q \notin DOMAIN tree /\ Parent(q) = d
  <2>1. CASE ~Exists(p)
    BY <2>1, <1>1 DEF _unique_dest, Exists
  <2>2. CASE Exists(p)
    <3> DEFINE i == CHOOSE i \in free : \A j \in free : i <= j
    <3>1. q = Numbered(i) /\ free # {}
      BY <2>2 DEF _unique_dest
    <3>2. DOMAIN Copies = 1..Len(Copies) /\ Len(Copies) \in Nat
      BY FileToolsAssumption, LenProperties DEF FileToolsAssumption
    <3>3. free \in SUBSET Nat
      BY <3>2
    <3> HIDE DEF free
    <3>4. i \in free
      BY <3>1, <3>3, LeastNat
    <3> HIDE DEF i
    <3>5. ~Exists(Numbered(i))
      BY <3>4 DEF free
    <3> HIDE DEF Numbered
    <3> QED
      BY <3>1, <3>5, <1>2 DEF Exists
  <2> QED
    BY <2>1, <2>2
<1> QED
  BY <1>3, <1>4

-----------------------------------------------------------------------------
(* Uploads *)

\* Of the entries of one path in a zip, one is the last.
LEMMA LatestExists ==
  ASSUME NEW u \in Items, NEW k \in DOMAIN u.members
  PROVE  \E i \in DOMAIN u.members : u.members[i].path = u.members[k].path /\ Latest(u, i)
<1> DEFINE ms == u.members
           n == Len(ms)
           J == {j \in DOMAIN ms : ms[j].path = ms[k].path}
           S == {n - x : x \in J}
<1>1. DOMAIN ms = 1..n /\ n \in Nat
  BY FileToolsAssumption, LenProperties DEF FileToolsAssumption
<1>8. J \subseteq 1..n /\ k \in J
  BY <1>1
<1>2. S \in SUBSET Nat /\ S # {}
  <2> HIDE DEF J, n
  <2>1. \A x \in J : n - x \in Nat
    BY <1>1, <1>8
  <2> QED
    BY <1>8, <2>1
<1>3. PICK least \in S : \A d \in S : least <= d
  <2> HIDE DEF S
  <2> QED
    BY <1>2, LeastNat
<1>4. PICK i \in J : least = n - i
  OBVIOUS
<1>5. \A j \in J : n - i <= n - j /\ i \in Nat /\ j \in Nat
  BY <1>1, <1>3, <1>4
<1>6. \A j \in J : j <= i
  BY <1>1, <1>5
<1>7. Latest(u, i)
  BY <1>6 DEF Latest
<1> QED
  BY <1>7

\* What is opened for an entry is the last one of its path, for the last one
\* itself.
LEMMA OpenedFacts ==
  ASSUME NEW u \in Items, NEW k \in DOMAIN u.members
  PROVE  /\ \E i \in DOMAIN u.members : /\ u.members[i].path = u.members[k].path
                                        /\ Opened(u, u.members[k]) = u.members[i].datum
         /\ (u.kind = "zip" => Latest(u, k)) => Opened(u, u.members[k]) = u.members[k].datum
<1> DEFINE m == u.members[k]
           c == CHOOSE i \in DOMAIN u.members : u.members[i].path = m.path /\ Latest(u, i)
<1>1. c \in DOMAIN u.members /\ u.members[c].path = m.path /\ Latest(u, c)
  BY LatestExists
<1>2. DOMAIN u.members \subseteq Nat
  BY FileToolsAssumption, LenProperties DEF FileToolsAssumption
<1>3. Opened(u, m) = IF u.kind = "zip" THEN u.members[c].datum ELSE m.datum
  BY DEF Opened
<1> HIDE DEF c
<1>4. Latest(u, k) => c <= k /\ k <= c
  BY <1>1 DEF Latest
<1>5. Latest(u, k) => c = k
  BY <1>1, <1>2, <1>4
<1> QED
  BY <1>1, <1>3, <1>5

\* What is extracted tells what the members' names told, and has what is owed.
LEMMA Extracted ==
  ASSUME NEW u \in Items
  PROVE  LET files == _extract_archive(u)
         IN  /\ files \in Seq(Range(files))
             /\ \A i \in DOMAIN files : Carries(files[i].name, files[i].datum)
             /\ Owed(u) \subseteq {files[i].datum : i \in DOMAIN files}
<1> DEFINE ms == u.members
           S == {m \in SubtitlesOf(u) : _safe_member_rel(m.path)}
           subs == Filter(ms, S)
           One(m) == [name |-> Last(m.path), datum |-> Opened(u, m)]
           files == [i \in DOMAIN subs |-> One(subs[i])]
<1>1. /\ ms \in Seq(Range(ms)) /\ DOMAIN ms = 1..Len(ms)
      /\ \A m \in Range(ms) : Carries(Last(m.path), m.datum)
  BY FileToolsAssumption, LenProperties DEF FileToolsAssumption, Carries
<1>2. \A k \in DOMAIN ms :
        /\ ms[k] \in Range(ms)
        /\ \E i \in DOMAIN ms : ms[i].path = ms[k].path /\ Opened(u, ms[k]) = ms[i].datum
        /\ (u.kind = "zip" => Latest(u, k)) => Opened(u, ms[k]) = ms[k].datum
  BY OpenedFacts DEF Range
<1>3. \A d \in Owed(u) : \E k \in DOMAIN ms :
        ms[k] \in S /\ d = ms[k].datum /\ (u.kind = "zip" => Latest(u, k))
  BY DEF Owed
<1> HIDE DEF ms, S
<1>4. Kept(subs, ms, S, Range(ms), Len(ms))
  BY <1>1, FilterKeeps
<1> HIDE DEF subs
<1>5. /\ subs \in Seq(Range(ms))
      /\ \A k \in 1..Len(ms) : ms[k] \in S => \E j \in 1..Len(subs) : subs[j] = ms[k]
  BY <1>4 DEF Kept
<1>6. DOMAIN subs = 1..Len(subs) /\ Len(subs) \in Nat
      /\ \A i \in DOMAIN subs : subs[i] \in Range(ms)
  BY <1>5, LenProperties, ElementOfSeq
<1>7. files \in Seq({One(m) : m \in Range(ms)})
  BY <1>6
<1>8. \A i \in DOMAIN files : Carries(files[i].name, files[i].datum)
  <2> SUFFICES ASSUME NEW i \in DOMAIN subs PROVE Carries(One(subs[i]).name, One(subs[i]).datum)
    OBVIOUS
  <2>1. PICK k \in DOMAIN ms : subs[i] = ms[k]
    BY <1>6 DEF Range
  <2>2. PICK j \in DOMAIN ms : ms[j].path = ms[k].path /\ Opened(u, ms[k]) = ms[j].datum
    BY <1>2
  <2>3. Carries(Last(ms[j].path), ms[j].datum)
    BY <1>1, <1>2
  <2> QED
    BY <2>1, <2>2, <2>3
<1>9. Owed(u) \subseteq {files[i].datum : i \in DOMAIN files}
  <2> SUFFICES ASSUME NEW d \in Owed(u) PROVE \E i \in DOMAIN subs : d = One(subs[i]).datum
    OBVIOUS
  <2>1. PICK k \in DOMAIN ms :
          ms[k] \in S /\ d = ms[k].datum /\ (u.kind = "zip" => Latest(u, k))
    BY <1>3
  <2>2. Opened(u, ms[k]) = d
    BY <1>2, <2>1
  <2>3. PICK i \in DOMAIN subs : subs[i] = ms[k]
    BY <1>1, <1>5, <1>6, <2>1
  <2> QED
    BY <2>2, <2>3
<1>10. _extract_archive(u) = files
  BY DEF _extract_archive, subs, S, ms
<1> HIDE DEF files
<1>11. files \in Seq(Range(files))
  BY <1>7, SeqOfRange
<1> QED
  BY <1>8, <1>9, <1>10, <1>11, Zenon

-----------------------------------------------------------------------------
(* The invariant *)

\* A request that has ended relies on nothing.
LEMMA IdleOK == ASSUME NEW t PROVE FrameOK(Idle, t)
  BY DEF FrameOK, RowsOK, RenameOK, UploadOK, Idle, Fields, FramePoints

\* What has been written of an upload does not depend on the rest of a frame.
LEMMA SameGot ==
  ASSUME NEW f, NEW e, f.owed = e.owed, f.files = e.files
  PROVE  Got(f) = Got(e)
  BY DEF Got

\* What others see and have checked is stale, and so far right.
LEMMA StaleOK ==
  ASSUME NEW f, NEW t, NEW u, FrameOK(f, t)
  PROVE  FrameOK(Outdated(f), u) /\ Got(Outdated(f)) = Got(f)
<1> DEFINE g == Outdated(f)
<1>1. DOMAIN f = Fields
  BY DEF FrameOK
<1>2. /\ DOMAIN g = Fields /\ g.pc = f.pc /\ g.rows = f.rows /\ g.row = f.row
      /\ g.dir = f.dir /\ g.files = f.files /\ g.owed = f.owed /\ ~g.fresh /\ ~g.checked
  BY <1>1 DEF Outdated, Fields
<1> HIDE DEF g
<1>4. Got(g) = Got(f)
  BY <1>2, SameGot
<1>3. FrameOK(g, u)
  BY <1>2 DEF FrameOK, RowsOK, RenameOK, UploadOK
<1> QED
  BY <1>3, <1>4 DEF g

\* A step that leaves the tree as it is.
LEMMA InvByGoing ==
  ASSUME FileInv, NEW w \in Workers, NEW f, FrameOK(f, tree), Goes(w, f), tree' = tree,
         ~gone', ~raced' => ~raced,
         ~raced' => data' \subseteq Held(tree) /\ Got(f) \subseteq Held(tree)
  PROVE  FileInv'
<1>1. /\ DOMAIN frame' = Workers /\ frame'[w] = f
      /\ \A v \in Workers : v # w => frame'[v] = frame[v]
  BY DEF FileInv, Goes
<1>2. \A v \in Workers : FrameOK(frame'[v], tree')
  BY <1>1 DEF FileInv
<1>3. ~raced' => \A v \in Workers : Got(frame'[v]) \subseteq Held(tree')
  BY <1>1 DEF FileInv
<1> QED
  BY <1>1, <1>2, <1>3 DEF FileInv

\* A step that changes the tree.
LEMMA InvByChange ==
  ASSUME FileInv, NEW w \in Workers, NEW f, NEW t, TreeOK(t), FrameOK(f, t), Changes(w, f, t),
         ~gone', data' = data,
         ~raced' => ~raced /\ Held(tree) \subseteq Held(t) /\ Got(f) \subseteq Held(t)
  PROVE  FileInv'
<1>1. /\ tree' = t /\ DOMAIN frame' = Workers /\ frame'[w] = f
      /\ \A v \in Workers : v # w =>
           frame'[v] = Outdated(frame[v])
  BY DEF Changes
<1>2. ASSUME NEW v \in Workers, v # w
      PROVE  FrameOK(frame'[v], t) /\ Got(frame'[v]) = Got(frame[v])
  <2>1. FrameOK(frame[v], tree)
    BY DEF FileInv
  <2> QED
    BY <1>1, <1>2, <2>1, StaleOK
<1>3. \A v \in Workers : FrameOK(frame'[v], tree')
  BY <1>1, <1>2
<1>4. ~raced' => \A v \in Workers : Got(frame'[v]) \subseteq Held(tree')
  <2> SUFFICES ASSUME ~raced', NEW v \in Workers PROVE Got(frame'[v]) \subseteq Held(tree')
    OBVIOUS
  <2>1. CASE v = w
    BY <2>1, <1>1
  <2>2. CASE v # w
    <3>1. Got(frame[v]) \subseteq Held(tree)
      BY DEF FileInv
    <3> QED
      BY <2>2, <3>1, <1>1, <1>2
  <2> QED
    BY <2>1, <2>2
<1>5. ~raced' => data' \subseteq Held(tree')
  BY <1>1 DEF FileInv
<1> QED
  BY <1>1, <1>3, <1>4, <1>5 DEF FileInv

\* Trees to begin with are trees.
LEMMA FileInvInit == FileInit => FileInv
<1> SUFFICES ASSUME FileInit PROVE FileInv
  OBVIOUS
<1>1. TreeOK(tree)
  BY FileToolsAssumption DEF FileInit, FileToolsAssumption, TreeOK, IsPath
<1>2. \A w \in Workers : FrameOK(frame[w], tree) /\ Got(frame[w]) = {}
  BY IdleOK DEF FileInit, Idle, Got
<1>3. data \subseteq Held(tree)
  BY DEF FileInit, Held
<1> QED
  BY <1>1, <1>2, <1>3 DEF FileInv, FileInit

\* A page shows a plan.
LEMMA PreviewInv == ASSUME FileInv, NEW w \in Workers, Preview(w) PROVE FileInv'
<1>1. TreeOK(tree)
  BY DEF FileInv
<1>2. PICK plan : PlanOK(plan) /\ Goes(w, Shown(plan))
  BY <1>1, PlansOK DEF Preview
<1> DEFINE f == Shown(plan)
<1>3. DOMAIN f = Fields /\ f.pc = "shown" /\ f.rows = plan /\ Got(f) = {}
  BY DEF Shown, Idle, Fields, Got
<1>4. Goes(w, f)
  BY <1>2
<1> HIDE DEF f
<1>5. FrameOK(f, tree)
  BY <1>2, <1>3 DEF PlanOK, FrameOK, RowsOK, RenameOK, UploadOK, FramePoints
<1>6. tree' = tree /\ data' = data /\ raced' = raced /\ gone' = gone
  BY DEF Preview, ghosts
<1>7. ~raced => data \subseteq Held(tree)
  BY DEF FileInv
<1> QED
  BY <1>3, <1>4, <1>5, <1>6, <1>7, InvByGoing DEF FileInv

\* Rows are refused first.
LEMMA ApplyInv == ASSUME FileInv, NEW w \in Workers, Apply(w) PROVE FileInv'
<1> DEFINE e == frame[w]
           S == {r \in e.rows : Exists(r[1]) /\ ~Exists(r[2])}
           f == [e EXCEPT !.pc = "rows", !.rows = S]
<1>1. FrameOK(e, tree) /\ e.pc = "shown" /\ DOMAIN e = Fields
  BY DEF FileInv, Apply, FrameOK
<1>2. Goes(w, f)
  BY DEF Apply
<1>3. DOMAIN f = Fields /\ f.pc = "rows" /\ f.rows = S /\ f.fresh = e.fresh /\ Got(f) = Got(e)
  BY <1>1, SameGot DEF Fields
<1>4. ~gone'
  BY <1>1 DEF FileInv, Apply, FrameOK, RowsOK, Exists
<1> HIDE DEF f
<1>5. FrameOK(f, tree)
  BY <1>1, <1>3 DEF FrameOK, RowsOK, RenameOK, UploadOK, FramePoints
<1>6. tree' = tree /\ data' = data /\ raced' = raced
  BY DEF Apply
<1>7. ~raced => data \subseteq Held(tree) /\ Got(e) \subseteq Held(tree)
  BY DEF FileInv
<1> QED
  BY <1>2, <1>3, <1>4, <1>5, <1>6, <1>7, InvByGoing


\* Of the deepest rows one is taken: the others are not deeper.
LEMMA CheckRowInv == ASSUME FileInv, NEW w \in Workers, CheckRow(w) PROVE FileInv'
<1> DEFINE e == frame[w]
<1>1. FrameOK(e, tree) /\ e.pc = "rows" /\ DOMAIN e = Fields
  BY DEF FileInv, CheckRow, FrameOK
<1>2. tree' = tree /\ data' = data /\ raced' = raced
  BY DEF CheckRow
<1>3. ~raced => data \subseteq Held(tree) /\ Got(e) \subseteq Held(tree)
  BY DEF FileInv
<1>4. PICK r \in Deepest(e.rows) :
        LET rest == [e EXCEPT !.rows = @ \ {r}, !.checked = TRUE]
        IN  IF Exists(r[1]) /\ ~Exists(r[2])
            THEN Goes(w, [rest EXCEPT !.pc = "rename", !.row = r]) /\ UNCHANGED gone
            ELSE Goes(w, rest) /\ gone' = (gone \/ (~Exists(r[1]) /\ e.fresh))
  BY DEF CheckRow
<1> DEFINE rest == [e EXCEPT !.rows = @ \ {r}, !.checked = TRUE]
           f == [rest EXCEPT !.pc = "rename", !.row = r]
<1>5. /\ DOMAIN rest = Fields /\ rest.pc = "rows" /\ rest.rows = e.rows \ {r}
      /\ rest.fresh = e.fresh /\ Got(rest) = Got(e)
  BY <1>1, SameGot DEF Fields
<1>6. /\ DOMAIN f = Fields /\ f.pc = "rename" /\ f.rows = e.rows \ {r} /\ f.row = r
      /\ f.fresh = e.fresh /\ Got(f) = Got(e)
  BY <1>1, SameGot DEF Fields
<1>7. CASE Exists(r[1]) /\ ~Exists(r[2])
  <2>1. Goes(w, f) /\ gone' = gone
    BY <1>4, <1>7
  <2> HIDE DEF f, rest
  <2>2. RowsOK(f, tree) /\ RowOK(r)
    BY <1>1, <1>6 DEF FrameOK, RowsOK, Deepest
  <2>3. \A o \in f.rows : o[1] # r[1] /\ Len(o[1]) <= Len(r[1])
    <3> SUFFICES ASSUME NEW o \in f.rows PROVE o[1] # r[1] /\ Len(o[1]) <= Len(r[1])
      OBVIOUS
    <3>1. o \in e.rows /\ r \in e.rows /\ o # r /\ _rel_depth(o[1]) <= _rel_depth(r[1])
      BY <1>6 DEF Deepest
    <3>2. IsPath(o[1]) /\ IsPath(r[1]) /\ o[1] # r[1]
      BY <3>1, <1>1 DEF FrameOK, RowsOK, RowOK
    <3>3. Len(o[1]) \in Nat /\ Len(r[1]) \in Nat
      BY <3>2, PathLen
    <3>4. Len(o[1]) - 1 <= Len(r[1]) - 1
      BY <3>1 DEF _rel_depth
    <3> QED
      BY <3>2, <3>3, <3>4
  <2>4. FrameOK(f, tree)
    BY <1>6, <1>7, <2>2, <2>3 DEF FrameOK, RenameOK, UploadOK, FramePoints, Exists
  <2> QED
    BY <1>2, <1>3, <1>6, <2>1, <2>4, InvByGoing DEF FileInv
<1>8. CASE ~(Exists(r[1]) /\ ~Exists(r[2]))
  <2>1. Goes(w, rest) /\ gone' = (gone \/ (~Exists(r[1]) /\ e.fresh))
    BY <1>4, <1>8
  <2> HIDE DEF f, rest
  <2>2. ~gone'
    BY <2>1, <1>1 DEF FileInv, FrameOK, RowsOK, Exists, Deepest
  <2>3. FrameOK(rest, tree)
    BY <1>1, <1>5 DEF FrameOK, RowsOK, RenameOK, UploadOK, FramePoints
  <2> QED
    BY <1>2, <1>3, <1>5, <2>1, <2>2, <2>3, InvByGoing
<1> QED
  BY <1>7, <1>8

\* What has been renamed was the deepest, and the others are still there.
LEMMA RenameInv == ASSUME FileInv, NEW w \in Workers, Rename(w) PROVE FileInv'
<1> DEFINE e == frame[w]
           a == e.row[1]
           b == e.row[2]
           f == [e EXCEPT !.pc = "rows", !.row = << >>]
<1>1. FrameOK(e, tree) /\ e.pc = "rename" /\ DOMAIN e = Fields
  BY DEF FileInv, Rename, FrameOK
<1>2. data' = data /\ gone' = gone /\ raced' = (raced \/ ~e.checked)
  BY DEF Rename
<1>3. ~raced => data \subseteq Held(tree) /\ Got(e) \subseteq Held(tree)
  BY DEF FileInv
<1>4. RowOK(e.row) /\ (e.checked => b \notin DOMAIN tree)
      /\ \A r \in e.rows : r[1] # a /\ Len(r[1]) <= Len(a)
  BY <1>1 DEF FrameOK, RenameOK
<1>5. /\ DOMAIN f = Fields /\ f.pc = "rows" /\ f.rows = e.rows
      /\ f.fresh = e.fresh /\ Got(f) = Got(e)
  BY <1>1, SameGot DEF Fields
<1>6. \/ a \in DOMAIN tree /\ Replaceable(a, b) /\ Changes(w, f, Renamed(a, b))
      \/ Goes(w, f) /\ tree' = tree
  BY DEF Rename, Exists
<1> HIDE DEF f
<1>7. CASE a \in DOMAIN tree /\ Replaceable(a, b) /\ Changes(w, f, Renamed(a, b))
  <2> DEFINE t == Renamed(a, b)
  <2>1. /\ TreeOK(t)
        /\ b \notin DOMAIN tree => Held(tree) \subseteq Held(t)
        /\ \A p \in DOMAIN tree : p = a \/ Inside(p, a) \/ p \in DOMAIN t
    BY <1>4, <1>7, RenamedFacts DEF FileInv, RowOK
  <2>2. Changes(w, f, t)
    BY <1>7
  <2> HIDE DEF t
  <2>3. \A r \in e.rows : r[1] \in DOMAIN tree => r[1] \in DOMAIN t
    <3> SUFFICES ASSUME NEW r \in e.rows, r[1] \in DOMAIN tree PROVE r[1] \in DOMAIN t
      OBVIOUS
    <3>1. IsPath(r[1]) /\ IsPath(a) /\ r[1] # a /\ Len(r[1]) <= Len(a)
      BY <1>1, <1>4 DEF FrameOK, RowsOK, RowOK
    <3>2. Len(r[1]) \in Nat /\ Len(a) \in Nat
      BY <3>1, PathLen
    <3> QED
      BY <2>1, <3>1, <3>2 DEF Inside
  <2>4. FrameOK(f, t)
    BY <1>1, <1>5, <2>3 DEF FrameOK, RowsOK, RenameOK, UploadOK, FramePoints
  <2>5. ~raced' => ~raced /\ Held(tree) \subseteq Held(t) /\ Got(f) \subseteq Held(t)
    BY <1>2, <1>3, <1>4, <1>5, <2>1
  <2> QED
    BY <1>2, <2>1, <2>2, <2>4, <2>5, InvByChange DEF FileInv
<1>8. CASE Goes(w, f) /\ tree' = tree
  <2>1. FrameOK(f, tree)
    BY <1>1, <1>5 DEF FrameOK, RowsOK, RenameOK, UploadOK, FramePoints
  <2> QED
    BY <1>2, <1>3, <1>5, <1>8, <2>1, InvByGoing DEF FileInv
<1> QED
  BY <1>6, <1>7, <1>8

\* A request that ends.
LEMMA EndInv ==
  ASSUME FileInv, NEW w \in Workers, Goes(w, Idle), tree' = tree, gone' = gone,
         ~raced' => ~raced, data' \subseteq data \cup Got(frame[w])
  PROVE  FileInv'
<1>1. FrameOK(Idle, tree) /\ Got(Idle) = {}
  BY IdleOK DEF Idle, Got
<1>2. ~raced => data \subseteq Held(tree) /\ Got(frame[w]) \subseteq Held(tree)
  BY DEF FileInv
<1> QED
  BY <1>1, <1>2, InvByGoing DEF FileInv

\* An upload begins.
LEMMA UploadInv == ASSUME FileInv, NEW w \in Workers, subtitles_upload(w) PROVE FileInv'
<1>1. PICK d \in {p \in DOMAIN tree : IsDir(p)} \cup {<< >>}, u \in Items :
        Goes(w, [Idle EXCEPT !.pc = "name", !.dir = d, !.kind = u.kind,
                             !.files = _extract_archive(u), !.owed = Owed(u)])
  BY DEF subtitles_upload
<1> DEFINE files == _extract_archive(u)
           f == [Idle EXCEPT !.pc = "name", !.dir = d, !.kind = u.kind,
                             !.files = files, !.owed = Owed(u)]
<1>2. DOMAIN f = Fields /\ f.pc = "name" /\ f.dir = d /\ f.rows = {}
      /\ f.files = files /\ f.owed = Owed(u)
  BY DEF Idle, Fields
<1>3. Goes(w, f)
  BY <1>1
<1>8. files \in Seq(Range(files)) /\ Owed(u) \subseteq {files[i].datum : i \in DOMAIN files}
  BY Extracted
<1> HIDE DEF f, files
<1>9. Got(f) = {}
  BY <1>2, <1>8 DEF Got
<1>4. d \in Seq(Range(d))
  <2>1. CASE d = << >>
    BY <2>1
  <2>2. CASE d \in DOMAIN tree
    BY <2>2 DEF FileInv, TreeOK, IsPath
  <2> QED
    BY <2>1, <2>2
<1>5. FrameOK(f, tree)
  BY <1>2, <1>4, <1>8 DEF FrameOK, RowsOK, RenameOK, UploadOK, FramePoints
<1>6. tree' = tree /\ data' = data /\ raced' = raced /\ gone' = gone
  BY DEF subtitles_upload, ghosts
<1>7. ~raced => data \subseteq Held(tree)
  BY DEF FileInv
<1> QED
  BY <1>3, <1>5, <1>6, <1>7, <1>9, InvByGoing DEF FileInv


\* Making the directory does not make the chosen name.
LEMMA ChooseNameInv == ASSUME FileInv, NEW w \in Workers, ChooseName(w) PROVE FileInv'
<1> DEFINE e == frame[w]
           p == Append(e.dir, Head(e.files).name)
           dest == _unique_dest(p)
           q == CHOOSE x \in dest : TRUE
           g == [e EXCEPT !.pc = "write", !.row = q, !.checked = TRUE]
           f == IF dest = {} THEN Idle ELSE g
           t == MadeFor(p)
<1>1. FrameOK(e, tree) /\ e.pc = "name" /\ DOMAIN e = Fields /\ e.dir \in Seq(Range(e.dir))
      /\ e.rows = {} /\ e.files \in Seq(Range(e.files)) /\ e.files # << >>
  BY DEF FileInv, ChooseName, FrameOK, UploadOK, RowsOK
<1>2. data' = data /\ raced' = raced /\ gone' = gone
  BY DEF ChooseName
<1>3. ~raced => data \subseteq Held(tree) /\ Got(e) \subseteq Held(tree)
  BY DEF FileInv
<1>4. IsPath(p) /\ Parent(p) = e.dir
  BY <1>1, AppendPath
<1>5. dest # {} => IsPath(q) /\ q \notin DOMAIN tree /\ Parent(q) = e.dir
  BY <1>1, UniqueDest
<1>6. \/ Goes(w, f) /\ tree' = tree
      \/ (\A d \in Above(p) : Exists(d) => IsDir(d)) /\ Changes(w, f, t)
      \/ Goes(w, Idle) /\ tree' = tree
  BY DEF ChooseName
<1>7. /\ DOMAIN g = Fields /\ g.pc = "write" /\ g.row = q /\ g.rows = {}
      /\ g.dir = e.dir /\ g.files = e.files /\ Got(g) = Got(e)
  BY <1>1, SameGot DEF Fields
<1> HIDE DEF g, q
<1>8. ASSUME NEW u, q \notin DOMAIN u, dest # {} PROVE FrameOK(g, u)
  BY <1>1, <1>5, <1>7, <1>8 DEF FrameOK, RowsOK, RenameOK, UploadOK, FramePoints
<1>9. Got(f) = {} \/ Got(f) = Got(e)
  BY <1>7 DEF Idle, Got
<1>10. CASE Goes(w, f) /\ tree' = tree
  <2>1. FrameOK(f, tree)
    BY <1>5, <1>8, IdleOK
  <2> HIDE DEF f
  <2> QED
    BY <1>2, <1>3, <1>9, <1>10, <2>1, InvByGoing DEF FileInv
<1>11. CASE (\A d \in Above(p) : Exists(d) => IsDir(d)) /\ Changes(w, f, t)
  <2>1. TreeOK(t) /\ DOMAIN t = DOMAIN tree \cup Above(p) /\ Held(tree) \subseteq Held(t)
    BY <1>4, <1>11, MadeFacts DEF FileInv
  <2>2. dest # {} => q \notin DOMAIN t
    <3> SUFFICES ASSUME dest # {}, q \in Above(p) PROVE FALSE
      BY <1>5, <2>1
    <3>1. Len(q) < Len(p)
      BY <1>4, AboveFacts
    <3>2. Len(q) = Len(p) /\ Len(p) \in Nat
      BY <1>4, <1>5, Siblings, PathLen
    <3> QED
      BY <3>1, <3>2
  <2>3. FrameOK(f, t)
    BY <2>2, <1>8, IdleOK
  <2>4. Changes(w, f, t)
    BY <1>11
  <2> HIDE DEF f, t
  <2> QED
    BY <1>2, <1>3, <1>9, <2>1, <2>3, <2>4, InvByChange DEF FileInv
<1>12. CASE Goes(w, Idle) /\ tree' = tree
  BY <1>2, <1>12, EndInv
<1> QED
  BY <1>6, <1>10, <1>11, <1>12

\* A write takes the place only of what came after the name was chosen.
LEMMA WriteInv == ASSUME FileInv, NEW w \in Workers, Write(w) PROVE FileInv'
<1> DEFINE e == frame[w]
           datum == Head(e.files).datum
           f == [e EXCEPT !.pc = "name", !.row = << >>, !.files = Tail(@)]
<1>1. FrameOK(e, tree) /\ e.pc = "write" /\ DOMAIN e = Fields /\ e.rows = {}
      /\ e.files \in Seq(Range(e.files)) /\ e.files # << >>
      /\ IsPath(e.row) /\ (e.checked => e.row \notin DOMAIN tree)
  BY DEF FileInv, Write, FrameOK, UploadOK, RowsOK
<1>2. data' = data /\ gone' = gone /\ raced' = (raced \/ ~e.checked)
  BY DEF Write
<1>3. ~raced => data \subseteq Held(tree) /\ Got(e) \subseteq Held(tree)
  BY DEF FileInv
<1>4. \/ CanHave(e.row) /\ Changes(w, f, Written(e.row, datum))
      \/ Goes(w, Idle) /\ tree' = tree
      \/ CanHave(e.row) /\ Changes(w, Idle, Written(e.row, Torn))
  BY DEF Write
<1>5. /\ DOMAIN f = Fields /\ f.pc = "name" /\ f.rows = {} /\ f.dir = e.dir
      /\ f.files = Tail(e.files) /\ f.owed = e.owed
  BY <1>1 DEF Fields
<1> HIDE DEF f
<1>10. f.files \in Seq(Range(f.files)) /\ Got(f) \subseteq Got(e) \cup {datum}
  <2> DEFINE rest == Tail(e.files)
  <2>6. /\ rest \in Seq(Range(e.files)) /\ Len(rest) = Len(e.files) - 1
        /\ \A i \in 1..Len(rest) : rest[i] = e.files[i + 1]
    BY <1>1, HeadTailProperties
  <2>7. f.files = rest
    BY <1>5
  <2> HIDE DEF rest
  <2>1. /\ f.files \in Seq(Range(e.files)) /\ Len(f.files) = Len(e.files) - 1
        /\ \A i \in 1..Len(f.files) : f.files[i] = e.files[i + 1]
    BY <2>6, <2>7
  <2>2. Len(e.files) \in Nat /\ DOMAIN e.files = 1..Len(e.files) /\ DOMAIN f.files = 1..Len(f.files)
    BY <1>1, <2>1, LenProperties
  <2>3. \A i \in DOMAIN e.files : i = 1 \/ (e.files[i] = f.files[i - 1] /\ i - 1 \in DOMAIN f.files)
    BY <2>1, <2>2
  <2>4. datum = e.files[1].datum
    BY <1>1
  <2> HIDE DEF datum
  <2>5. {e.files[i].datum : i \in DOMAIN e.files}
          \subseteq {f.files[i].datum : i \in DOMAIN f.files} \cup {datum}
    BY <2>3, <2>4
  <2>8. f.files \in Seq(Range(f.files))
    BY <2>1, SeqOfRange
  <2> QED
    BY <1>5, <2>5, <2>8 DEF Got
<1>6. \A u : FrameOK(f, u)
  BY <1>1, <1>5, <1>10 DEF FrameOK, RowsOK, RenameOK, UploadOK, FramePoints
<1>7. CASE CanHave(e.row) /\ Changes(w, f, Written(e.row, datum))
  <2> DEFINE t == Written(e.row, datum)
  <2>1. TreeOK(t) /\ datum \in Held(t)
        /\ (e.row \notin DOMAIN tree => Held(tree) \subseteq Held(t))
    BY <1>1, <1>7, WrittenFacts DEF FileInv
  <2>2. Changes(w, f, t)
    BY <1>7
  <2> HIDE DEF t, datum
  <2>3. ~raced' => ~raced /\ Held(tree) \subseteq Held(t) /\ Got(f) \subseteq Held(t)
    BY <1>1, <1>2, <1>3, <1>10, <2>1
  <2> QED
    BY <1>2, <1>6, <2>1, <2>2, <2>3, InvByChange DEF FileInv
<1>8. CASE Goes(w, Idle) /\ tree' = tree
  BY <1>2, <1>8, EndInv
<1>9. CASE CanHave(e.row) /\ Changes(w, Idle, Written(e.row, Torn))
  <2> DEFINE t == Written(e.row, Torn)
  <2>1. TreeOK(t) /\ (e.row \notin DOMAIN tree => Held(tree) \subseteq Held(t))
    BY <1>1, <1>9, WrittenFacts DEF FileInv
  <2>2. Changes(w, Idle, t) /\ FrameOK(Idle, t) /\ Got(Idle) = {}
    BY <1>9, IdleOK DEF Idle, Got
  <2> HIDE DEF t
  <2>3. ~raced' => ~raced /\ Held(tree) \subseteq Held(t) /\ Got(Idle) \subseteq Held(t)
    BY <1>1, <1>2, <2>1, <2>2
  <2> QED
    BY <1>2, <2>1, <2>2, <2>3, InvByChange DEF FileInv
<1> QED
  BY <1>4, <1>7, <1>8, <1>9

\* Every step of every user.
LEMMA FileInvNext == FileInv /\ [FileNext]_fileVars => FileInv'
<1> SUFFICES ASSUME FileInv, [FileNext]_fileVars PROVE FileInv'
  OBVIOUS
<1>1. CASE UNCHANGED fileVars
  BY <1>1 DEF fileVars, FileInv, TreeOK, FrameOK, RowsOK, RenameOK, UploadOK
<1>2. ASSUME NEW w \in Workers, Answer(w) PROVE FileInv'
  <2>1. Goes(w, Idle) /\ UNCHANGED <<tree, data, raced, gone>>
    BY <1>2 DEF Answer, ghosts
  <2> QED
    BY <2>1, EndInv
<1>3. ASSUME NEW w \in Workers, Uploaded(w) PROVE FileInv'
  <2>1. /\ Goes(w, Idle) /\ UNCHANGED <<tree, raced, gone>>
        /\ data' = data \cup frame[w].owed /\ frame[w].files = << >>
    BY <1>3 DEF Uploaded
  <2>2. frame[w].owed = Got(frame[w])
    BY <2>1 DEF Got
  <2> QED
    BY <2>1, <2>2, EndInv
<1> QED
  BY <1>1, <1>2, <1>3, PreviewInv, ApplyInv, CheckRowInv, RenameInv, UploadInv,
     ChooseNameInv, WriteInv DEF FileNext

\* Whatever users do at the same time, the tree remains a tree, rows stay in
\* their directories and what has been checked is so.
THEOREM FileInvAlways == FileSpec => []FileInv
  BY FileInvInit, FileInvNext, PTL DEF FileSpec

\* No file is lost for any trees, uploads, numbers of users and faults.
THEOREM NothingLostAlways == FileSpec => []NothingLost
<1>1. FileInv => NothingLost
  BY DEF FileInv, NothingLost, Held
<1> QED
  BY <1>1, FileInvAlways, PTL

\* Nor does a row of a plan that no one has interfered with lose its source.
THEOREM NoRowGoneAlways == FileSpec => []NoRowGone
<1>1. FileInv => NoRowGone
  BY DEF FileInv, NoRowGone
<1> QED
  BY <1>1, FileInvAlways, PTL


-----------------------------------------------------------------------------
(* Words *)

\* s is where the first episode is.
FirstEpisode(words, s) ==
    s \in 1..Len(words) /\ words[s] \in Episodes /\ \A i \in 1..(s - 1) : words[i] \notin Episodes

\* At is where the first of the words is.
LEMMA LeastIndex ==
  ASSUME NEW words, words \in Seq(Range(words)), NEW W, Has(words, W)
  PROVE  /\ At(words, W) \in 1..Len(words) /\ words[At(words, W)] \in W
         /\ \A i \in 1..(At(words, W) - 1) : words[i] \notin W
<1> DEFINE I == {i \in DOMAIN words : words[i] \in W}
<1>1. DOMAIN words = 1..Len(words) /\ Len(words) \in Nat
  BY LenProperties
<1>2. I \in SUBSET Nat /\ I # {}
  BY <1>1 DEF Has
<1>3. \E n \in I : \A m \in I : n <= m
  <2> HIDE DEF I
  <2> QED
    BY <1>2, LeastNat
<1>4. At(words, W) \in I /\ \A m \in I : At(words, W) <= m
  BY <1>3 DEF At, Min
<1> QED
  BY <1>1, <1>4

\* The first episode of a name that has one.
LEMMA EpisodeExists ==
  ASSUME NEW words, words \in Seq(Range(words)), Has(words, Episodes)
  PROVE  FirstEpisode(words, At(words, Episodes))
  BY LeastIndex DEF FirstEpisode

\* The token and what follows it.
LEMMA AfterEpisode ==
  ASSUME NEW words, words \in Seq(Range(words)), NEW s, FirstEpisode(words, s)
  PROVE  LET tail == _suffix_after_token(words)
         IN  /\ _token(words) = words[s]
             /\ tail = SubSeq(words, s + 1, Len(words))
             /\ tail \in Seq(Range(words)) /\ Len(tail) = Len(words) - s
             /\ \A i \in 1..(Len(words) - s) : tail[i] = words[s + i]
             /\ Range(tail) = {words[i] : i \in (s + 1)..Len(words)}
<1> DEFINE t == At(words, Episodes)
           n == Len(words)
           tail == SubSeq(words, s + 1, n)
<1>1. DOMAIN words = 1..n /\ n \in Nat /\ s \in 1..n
  BY LenProperties DEF FirstEpisode
<1>2. Has(words, Episodes)
  BY <1>1 DEF Has, FirstEpisode
<1>3. t \in 1..n /\ words[t] \in Episodes /\ \A i \in 1..(t - 1) : words[i] \notin Episodes
  BY <1>2, LeastIndex
<1> HIDE DEF t
<1>4. t = s
  <2>1. ~(t < s)
    BY <1>1, <1>3 DEF FirstEpisode
  <2>2. ~(s < t)
    BY <1>1, <1>3 DEF FirstEpisode
  <2> QED
    BY <1>1, <1>3, <2>1, <2>2
<1>5. _token(words) = words[s] /\ _suffix_after_token(words) = tail
  BY <1>2, <1>4 DEF _token, _suffix_after_token, t
<1>6. \A i \in 1..n : words[i] \in Range(words)
  BY ElementOfSeq
<1> HIDE DEF n
<1>7. /\ tail \in Seq(Range(words)) /\ Len(tail) = n - s
      /\ \A i \in 1..(n - s) : tail[i] = words[s + i]
  <2>1. s + 1 \in Int /\ n \in Int /\ \A i \in (s + 1)..n : words[i] \in Range(words)
    BY <1>1, <1>6
  <2>2. /\ tail \in Seq(Range(words))
        /\ Len(tail) = IF s + 1 <= n THEN n - (s + 1) + 1 ELSE 0
        /\ \A i \in 1..(n - (s + 1) + 1) : tail[i] = words[s + 1 + i - 1]
    BY <2>1, SubSeqProperties
  <2> QED
    BY <1>1, <2>2
<1> HIDE DEF tail
<1>8. Range(tail) = {tail[i] : i \in 1..(n - s)}
  BY <1>7, RangeEquality
<1>9. Range(tail) = {words[i] : i \in (s + 1)..n}
  <2>1. \A i \in 1..(n - s) : s + i \in (s + 1)..n
    BY <1>1
  <2>2. \A i \in (s + 1)..n : i - s \in 1..(n - s) /\ s + (i - s) = i
    BY <1>1
  <2>3. ASSUME NEW x \in Range(tail) PROVE x \in {words[i] : i \in (s + 1)..n}
    BY <1>7, <1>8, <2>1, <2>3
  <2>4. ASSUME NEW i \in (s + 1)..n PROVE words[i] \in Range(tail)
    <3>1. tail[i - s] = words[s + (i - s)] /\ tail[i - s] \in Range(tail)
      BY <1>7, <1>8, <2>2
    <3> QED
      BY <2>2, <3>1
  <2> QED
    BY <2>3, <2>4
<1> QED
  BY <1>5, <1>7, <1>9 DEF n, tail

\* A plain name of a subtitle: one episode, then languages.
LEMMA PlainWords ==
  ASSUME NEW n, IsName(n), n.ext = SUBTITLE, PlainName(n)
  PROVE  \E s : /\ FirstEpisode(n.words, s)
                /\ \A i \in (s + 1)..Len(n.words) : n.words[i] \in Langs
<1> DEFINE w == n.words
<1>1. w \in Seq(Range(w))
  BY DEF IsName
<1>2. Has(w, Episodes)
  BY DEF PlainName, _token
<1> DEFINE s == At(w, Episodes)
<1>3. FirstEpisode(w, s)
  BY <1>1, <1>2, EpisodeExists
<1> HIDE DEF s
<1>4. LET tail == _suffix_after_token(w)
      IN  tail \in Seq(Range(w)) /\ Range(tail) = {w[i] : i \in (s + 1)..Len(w)}
          /\ \A i \in DOMAIN tail : tail[i] \in Langs
  BY <1>1, <1>3, AfterEpisode DEF PlainName
<1>5. \A x \in Range(_suffix_after_token(w)) : x \in Langs
  BY <1>4, Zenon DEF Range
<1>6. \A i \in (s + 1)..Len(w) : w[i] \in Langs
  BY <1>4, <1>5
<1> QED
  BY <1>3, <1>6

\* Cleaning leaves the words it does not remove, in particular what follows
\* the episode.
LEMMA KeptWords ==
  ASSUME NEW w, w \in Seq(Range(w)), NEW s, FirstEpisode(w, s),
         \A i \in (s + 1)..Len(w) : w[i] \in Langs,
         Has(Filter(w, Range(w) \ (Cjk \cup Removed)), Episodes)
  PROVE  LET k == Filter(w, Range(w) \ (Cjk \cup Removed))
         IN  \E t : /\ FirstEpisode(k, t) /\ Len(k) = t + (Len(w) - s)
                    /\ \A i \in 1..(Len(w) - s) : k[t + i] = w[s + i]
<1> DEFINE k == Filter(w, Range(w) \ (Cjk \cup Removed))
           S == Range(w) \ (Cjk \cup Removed)
           n == Len(w)
<1>1. s \in 1..n /\ n \in Nat /\ w[s] \in Episodes /\ \A i \in 1..(s - 1) : w[i] \notin Episodes
  BY LenProperties DEF FirstEpisode
<1>2. \A i \in 1..n : w[i] \in Range(w)
  BY ElementOfSeq
<1>3. Langs \cap (Removed \cup Cjk \cup Episodes) = {}
  BY FileToolsAssumption DEF FileToolsAssumption
<1>4. \A i \in (s + 1)..n : w[i] \in S /\ w[i] \notin Episodes
  BY <1>1, <1>2, <1>3
<1>5. Kept(k, w, S, Range(w), n)
  BY FilterKeeps
<1>0. Has(k, Episodes)
  OBVIOUS
<1> HIDE DEF S, n, k
<1>6. w[s] \in S
  <2>1. PICK j \in DOMAIN k : k[j] \in Episodes
    BY <1>0 DEF Has
  <2>2. DOMAIN k = 1..Len(k)
    BY <1>5, LenProperties DEF Kept
  <2>3. k[j] \in S /\ \E p \in j..n : k[j] = w[p]
    BY <1>5, <2>1, <2>2 DEF Kept
  <2>4. PICK p \in j..n : k[j] = w[p]
    BY <2>3
  <2>5. p \in 1..n
    BY <2>1, <2>2, <2>4, <1>1
  <2>6. p = s
    BY <1>1, <1>4, <2>1, <2>4, <2>5
  <2> QED
    BY <2>3, <2>4, <2>6
<1> DEFINE m == s - 1
<1>7. m \in 0..n /\ m \in Nat /\ s = m + 1
  BY <1>1
<1>8. \A i \in (m + 1)..n : w[i] \in S
  BY <1>1, <1>4, <1>6, <1>7
<1> HIDE DEF m
<1>9. PICK b : Kept(b, w, S, Range(w), m) /\ Continued(k, b, w, m, n - m)
  BY <1>7, <1>8, FilterKeepsEnd DEF S, n, k
<1> DEFINE t == Len(b) + 1
<1>10. b \in Seq(Range(w)) /\ Len(b) \in Nat
  BY <1>9 DEF Kept
<1>11. /\ Len(k) = Len(b) + (n - m)
       /\ \A j \in 1..Len(b) : k[j] = b[j]
       /\ \A j \in 1..(n - m) : k[Len(b) + j] = w[m + j]
  BY <1>9 DEF Continued
<1>12. FirstEpisode(k, t)
  <2>1. t \in 1..Len(k)
    BY <1>1, <1>7, <1>10, <1>11
  <2>2. k[t] = w[s]
    <3>1. 1 \in 1..(n - m) /\ m + 1 = s
      BY <1>1, <1>7
    <3> QED
      BY <1>11, <3>1
  <2>3. ASSUME NEW i \in 1..(t - 1) PROVE k[i] \notin Episodes
    <3>1. i \in 1..Len(b) /\ k[i] = b[i]
      <4>1. i \in 1..Len(b)
        BY <1>10
      <4> QED
        BY <1>11, <4>1
    <3>2. \E p \in i..m : b[i] = w[p]
      BY <1>9, <3>1 DEF Kept
    <3>3. PICK p \in i..m : b[i] = w[p]
      BY <3>2
    <3>4. p \in 1..(s - 1)
      BY <1>7, <3>3
    <3> QED
      BY <1>1, <3>1, <3>3, <3>4
  <2> QED
    BY <1>1, <2>1, <2>2, <2>3 DEF FirstEpisode
<1>13. Len(k) = t + (n - s)
  <2>1. Len(k) = Len(b) + (n - m)
    BY <1>11
  <2>2. Len(b) + (n - m) = (Len(b) + 1) + (n - s)
    BY <1>1, <1>7, <1>10
  <2> QED
    BY <2>1, <2>2
<1>14. ASSUME NEW i \in 1..(n - s) PROVE k[t + i] = w[s + i]
  <2>1. i + 1 \in 1..(n - m) /\ Len(b) + (i + 1) = t + i /\ m + (i + 1) = s + i
    BY <1>1, <1>7, <1>10
  <2> QED
    BY <1>11, <2>1
<1> QED
  BY <1>12, <1>13, <1>14 DEF n, k


\* What moving the season does.
LEMMA SeasonMoved ==
  ASSUME NEW X, NEW k \in Seq(X), k \in Seq(Range(k)), NEW s, s = At(k, Episodes),
         Has(k, Episodes), Has(k, Years), NEW rest, rest = RemoveAt(k, s),
         NEW y, y = At(rest, Years)
  PROVE  /\ s \in 1..Len(k)
         /\ rest \in Seq(X) /\ Len(rest) = Len(k) - 1 /\ y \in 1..Len(rest)
         /\ \A i \in 1..(s - 1) : rest[i] = k[i]
         /\ \A i \in s..Len(rest) : rest[i] = k[i + 1]
         /\ rest[y] \in Years
<1> DEFINE n == Len(k)
           head == SubSeq(k, 1, s - 1)
           tail == SubSeq(k, s + 1, n)
<1>1. /\ s \in 1..n /\ k[s] \in Episodes /\ n \in Nat /\ DOMAIN k = 1..n
      /\ \A i \in 1..n : k[i] \in X
  BY LeastIndex, LenProperties, ElementOfSeq
<1>2. rest = head \o tail
  BY DEF RemoveAt
<1> HIDE DEF n
<1>3. /\ head \in Seq(X) /\ Len(head) = s - 1
      /\ \A i \in 1..(s - 1) : head[i] = k[i]
  <2>1. /\ head \in Seq(X)
        /\ Len(head) = IF 1 <= s - 1 THEN (s - 1) - 1 + 1 ELSE 0
        /\ \A i \in 1..((s - 1) - 1 + 1) : head[i] = k[1 + i - 1]
    <3>1. 1 \in Int /\ s - 1 \in Int /\ \A i \in 1..(s - 1) : k[i] \in X
      BY <1>1
    <3> QED
      BY <3>1, SubSeqProperties
  <2> QED
    BY <1>1, <2>1
<1>4. /\ tail \in Seq(X) /\ Len(tail) = n - s
      /\ \A i \in 1..(n - s) : tail[i] = k[s + i]
  <2>1. /\ tail \in Seq(X)
        /\ Len(tail) = IF s + 1 <= n THEN n - (s + 1) + 1 ELSE 0
        /\ \A i \in 1..(n - (s + 1) + 1) : tail[i] = k[s + 1 + i - 1]
    <3>1. s + 1 \in Int /\ n \in Int /\ \A i \in (s + 1)..n : k[i] \in X
      BY <1>1
    <3> QED
      BY <3>1, SubSeqProperties
  <2> QED
    BY <1>1, <2>1
<1> HIDE DEF head, tail
<1>5. /\ rest \in Seq(X) /\ Len(rest) = n - 1
      /\ \A i \in 1..(s - 1) : rest[i] = k[i]
      /\ \A i \in s..(n - 1) : rest[i] = k[i + 1]
  <2>1. /\ head \o tail \in Seq(X) /\ Len(head \o tail) = Len(head) + Len(tail)
        /\ \A i \in 1..Len(head) : (head \o tail)[i] = head[i]
        /\ \A i \in (Len(head) + 1)..(Len(head) + Len(tail)) :
             (head \o tail)[i] = tail[i - Len(head)]
    <3>1. head \in Seq(X) /\ tail \in Seq(X)
      BY <1>3, <1>4
    <3> QED
      BY ONLY <3>1, Joined
  <2>2. Len(head) = s - 1 /\ Len(head) + 1 = s /\ Len(head) + Len(tail) = n - 1
    <3>1. Len(head) = s - 1 /\ Len(tail) = n - s
      BY <1>3, <1>4
    <3>2. (s - 1) + 1 = s /\ (s - 1) + (n - s) = n - 1
      BY <1>1
    <3> QED
      BY <3>1, <3>2
  <2>3. ASSUME NEW i \in s..(n - 1) PROVE rest[i] = k[i + 1]
    <3>1. i - (s - 1) \in 1..(n - s) /\ s + (i - (s - 1)) = i + 1
      BY <1>1
    <3>2. rest[i] = tail[i - (s - 1)]
      BY <1>2, <2>1, <2>2
    <3>3. tail[i - (s - 1)] = k[s + (i - (s - 1))]
      BY <1>4, <3>1
    <3> QED
      BY <3>1, <3>2, <3>3
  <2> QED
    BY <1>2, <1>3, <2>1, <2>2, <2>3
<1>6. Has(rest, Years)
  <2>1. PICK j \in 1..n : k[j] \in Years
    BY <1>1 DEF Has
  <2>2. j # s
    BY <1>1, <2>1, FileToolsAssumption DEF FileToolsAssumption
  <2>3. DOMAIN rest = 1..(n - 1)
    BY <1>5, LenProperties
  <2>4. CASE j < s
    <3>1. j \in 1..(s - 1) /\ j \in 1..(n - 1)
      BY <1>1, <2>4
    <3> QED
      BY <1>5, <2>1, <2>3, <3>1 DEF Has
  <2>5. CASE s < j
    <3>1. j - 1 \in s..(n - 1) /\ j - 1 \in 1..(n - 1) /\ (j - 1) + 1 = j
      BY <1>1, <2>5
    <3> QED
      BY <1>5, <2>1, <2>3, <3>1 DEF Has
  <2> QED
    BY <1>1, <2>2, <2>4, <2>5
<1>7. rest \in Seq(Range(rest))
  BY <1>5, SeqOfRange
<1>8. y \in 1..Len(rest) /\ rest[y] \in Years
  BY <1>6, <1>7, LeastIndex
<1> QED
  BY <1>1, <1>5, <1>8 DEF n


\* new is r with e put before its y-th element.
PutIn(new, X, r, y, e) ==
    /\ new \in Seq(X) /\ Len(new) = Len(r) + 1
    /\ \A i \in 1..(y - 1) : new[i] = r[i]
    /\ new[y] = e /\ new[y + 1] = r[y]

\* What InsertAt does.
LEMMA Inserted ==
  ASSUME NEW X, NEW r \in Seq(X), NEW y \in 1..Len(r), NEW e \in X
  PROVE  PutIn(InsertAt(r, y, e), X, r, y, e)
<1> DEFINE new == InsertAt(r, y, e)
           n == Len(r)
           head == SubSeq(r, 1, y - 1)
           tail == SubSeq(r, y, n)
<1>1. y \in 1..n /\ n \in Nat /\ \A i \in 1..n : r[i] \in X
  BY LenProperties, ElementOfSeq
<1>2. new = (head \o <<e>>) \o tail
  BY DEF InsertAt
<1> HIDE DEF n, new
<1>3. /\ head \in Seq(X) /\ Len(head) = y - 1
      /\ \A i \in 1..(y - 1) : head[i] = r[i]
  <2>1. /\ head \in Seq(X)
        /\ Len(head) = IF 1 <= y - 1 THEN (y - 1) - 1 + 1 ELSE 0
        /\ \A i \in 1..((y - 1) - 1 + 1) : head[i] = r[1 + i - 1]
    <3>1. 1 \in Int /\ y - 1 \in Int /\ \A i \in 1..(y - 1) : r[i] \in X
      BY <1>1
    <3> QED
      BY <3>1, SubSeqProperties
  <2> QED
    BY <1>1, <2>1
<1>4. tail \in Seq(X) /\ Len(tail) = n - y + 1 /\ tail[1] = r[y]
  <2>1. /\ tail \in Seq(X)
        /\ Len(tail) = IF y <= n THEN n - y + 1 ELSE 0
        /\ \A i \in 1..(n - y + 1) : tail[i] = r[y + i - 1]
    <3>1. y \in Int /\ n \in Int /\ \A i \in y..n : r[i] \in X
      BY <1>1
    <3> QED
      BY <3>1, SubSeqProperties
  <2>2. 1 \in 1..(n - y + 1) /\ y + 1 - 1 = y
    BY <1>1
  <2>3. tail[1] = r[y + 1 - 1]
    BY <2>1, <2>2
  <2> QED
    BY <1>1, <2>1, <2>2, <2>3
<1> DEFINE front == head \o <<e>>
<1>5. <<e>> \in Seq(X) /\ Len(<<e>>) = 1 /\ <<e>>[1] = e
  OBVIOUS
<1> HIDE DEF head, tail
<1>6. /\ front \in Seq(X) /\ Len(front) = y
      /\ \A i \in 1..(y - 1) : front[i] = r[i]
      /\ front[y] = e
  <2>1. /\ front \in Seq(X) /\ Len(front) = Len(head) + Len(<<e>>)
        /\ \A i \in 1..Len(head) : front[i] = head[i]
        /\ \A i \in (Len(head) + 1)..(Len(head) + Len(<<e>>)) : front[i] = <<e>>[i - Len(head)]
    BY <1>3, <1>5, Joined
  <2>2. y \in (Len(head) + 1)..(Len(head) + Len(<<e>>)) /\ y - Len(head) = 1
    BY <1>1, <1>3, <1>5
  <2>3. front[y] = <<e>>[1]
    BY <2>1, <2>2
  <2>4. Len(front) = y
    BY <1>1, <1>3, <1>5, <2>1
  <2> QED
    BY <1>3, <1>5, <2>1, <2>3, <2>4
<1>7. new = front \o tail
  BY <1>2
<1> HIDE DEF front
<1>8. /\ new \in Seq(X) /\ Len(new) = Len(front) + Len(tail)
      /\ \A i \in 1..Len(front) : new[i] = front[i]
      /\ \A i \in (Len(front) + 1)..(Len(front) + Len(tail)) : new[i] = tail[i - Len(front)]
  <2>1. /\ front \o tail \in Seq(X) /\ Len(front \o tail) = Len(front) + Len(tail)
        /\ \A i \in 1..Len(front) : (front \o tail)[i] = front[i]
        /\ \A i \in (Len(front) + 1)..(Len(front) + Len(tail)) :
             (front \o tail)[i] = tail[i - Len(front)]
    BY <1>4, <1>6, Joined
  <2> QED
    BY <1>7, <2>1, Zenon
<1>9. new[y + 1] = r[y]
  <2>1. y + 1 \in (Len(front) + 1)..(Len(front) + Len(tail)) /\ (y + 1) - Len(front) = 1
    BY <1>1, <1>4, <1>6
  <2> QED
    BY <1>4, <1>8, <2>1
<1>10. \A i \in 1..y : i \in 1..Len(front)
  BY <1>6
<1>11. Len(new) = n + 1 /\ y \in 1..y /\ \A i \in 1..(y - 1) : i \in 1..y
  BY <1>1, <1>4, <1>6, <1>8
<1> QED
  BY <1>6, <1>8, <1>9, <1>10, <1>11 DEF n, new, PutIn

\* Cleaning keeps names names.
LEMMA CleanedWords ==
  ASSUME NEW w, w \in Seq(Range(w)), NEW season
  PROVE  clean_basename(w, season) \in Seq(Range(clean_basename(w, season)))
<1> DEFINE k == Filter(w, Range(w) \ (Cjk \cup Removed))
           s == At(k, Episodes)
           rest == RemoveAt(k, s)
           y == At(rest, Years)
<1>1. k \in Seq(Range(w))
  BY FilterKeeps DEF Kept
<1>2. k \in Seq(Range(k))
  BY <1>1, SeqOfRange
<1>3. \/ clean_basename(w, season) = k
      \/ /\ Has(k, Episodes) /\ Has(k, Years)
         /\ clean_basename(w, season) = InsertAt(rest, y, k[s])
  BY DEF clean_basename, reorder_season_before_year
<1> HIDE DEF k
<1>4. ASSUME Has(k, Episodes), Has(k, Years) PROVE InsertAt(rest, y, k[s]) \in Seq(Range(w))
  <2>1. s \in 1..Len(k) /\ rest \in Seq(Range(w)) /\ y \in 1..Len(rest)
    BY <1>1, <1>2, <1>4, SeasonMoved
  <2>2. k[s] \in Range(w)
    BY <1>1, <2>1, ElementOfSeq
  <2> HIDE DEF s, rest, y
  <2> QED
    BY <2>1, <2>2, Inserted DEF PutIn
<1>5. clean_basename(w, season) \in Seq(Range(w))
  BY <1>1, <1>3, <1>4
<1> QED
  BY <1>5, SeqOfRange

\* With the season moved before the year, the year follows the episode: such a
\* name is not plain.  Otherwise what followed the episode still does.
LEMMA CleanedName ==
  ASSUME NEW n, NEW season, NEW m, m = [n EXCEPT !.words = clean_basename(@, season)]
  PROVE  SameLanguages(n, m)
<1> SUFFICES ASSUME IsName(n)
             PROVE  /\ IsName(m)
                    /\ n.ext = SUBTITLE /\ PlainName(n) /\ PlainName(m) =>
                         /\ m.ext = SUBTITLE
                         /\ Range(_suffix_after_token(n.words))
                              \subseteq Range(_suffix_after_token(m.words))
  BY DEF SameLanguages
<1> DEFINE w == n.words
           k == Filter(w, Range(w) \ (Cjk \cup Removed))
           new == clean_basename(w, season)
<1>1. DOMAIN m = {"words", "ext"} /\ m.words = new /\ m.ext = n.ext
  BY DEF IsName
<1>2. w \in Seq(Range(w))
  BY DEF IsName
<1>3. IsName(m)
  BY <1>1, <1>2, CleanedWords DEF IsName
<1> SUFFICES ASSUME n.ext = SUBTITLE, PlainName(n), PlainName(m)
             PROVE  Range(_suffix_after_token(w)) \subseteq Range(_suffix_after_token(new))
  BY <1>1, <1>3
<1>4. PICK s : FirstEpisode(w, s) /\ \A i \in (s + 1)..Len(w) : w[i] \in Langs
  BY PlainWords
<1>5. PICK p : FirstEpisode(new, p) /\ \A i \in (p + 1)..Len(new) : new[i] \in Langs
  BY <1>1, <1>3, PlainWords
<1>6. k \in Seq(Range(w)) /\ k \in Seq(Range(k))
  <2>1. k \in Seq(Range(w))
    BY <1>2, FilterKeeps DEF Kept
  <2> QED
    BY <2>1, SeqOfRange
<1> DEFINE e == At(k, Episodes)
           rest == RemoveAt(k, e)
           y == At(rest, Years)
<1>7. \/ new = k
      \/ Has(k, Episodes) /\ Has(k, Years) /\ new = InsertAt(rest, y, k[e])
  BY DEF clean_basename, reorder_season_before_year
<1>9. Langs \cap Years = {} /\ Langs \cap Episodes = {}
  BY FileToolsAssumption DEF FileToolsAssumption
<1>10. s \in 1..Len(w) /\ Len(w) \in Nat
  BY <1>2, <1>4, LenProperties DEF FirstEpisode
<1> HIDE DEF w, new
<1>8. ASSUME Has(k, Episodes)
      PROVE  \E t : /\ FirstEpisode(k, t) /\ Len(k) = t + (Len(w) - s)
                    /\ \A i \in 1..(Len(w) - s) : k[t + i] = w[s + i]
  BY <1>2, <1>4, <1>8, KeptWords
<1> HIDE DEF k
<1>11. CASE Has(k, Episodes) /\ Has(k, Years) /\ new = InsertAt(rest, y, k[e])
  <2>1. PICK t : /\ FirstEpisode(k, t) /\ Len(k) = t + (Len(w) - s)
                 /\ \A i \in 1..(Len(w) - s) : k[t + i] = w[s + i]
    BY <1>8, <1>11
  <2>2. FirstEpisode(k, e)
    BY <1>6, <1>11, EpisodeExists
  <2>3. /\ e \in 1..Len(k)
        /\ rest \in Seq(Range(w)) /\ Len(rest) = Len(k) - 1 /\ y \in 1..Len(rest)
        /\ \A i \in 1..(e - 1) : rest[i] = k[i]
        /\ \A i \in e..Len(rest) : rest[i] = k[i + 1]
        /\ rest[y] \in Years
    BY <1>6, <1>11, SeasonMoved
  <2>4. k[e] \in Range(w)
    BY <1>6, <2>3, ElementOfSeq
  <2> HIDE DEF e, rest, y
  <2>5. Len(k) \in Nat
    BY <1>6, LenProperties
  <2>6. e = t
    <3>1. t \in 1..Len(k) /\ k[t] \in Episodes /\ k[e] \in Episodes
      BY <2>1, <2>2 DEF FirstEpisode
    <3>2. ~(e < t) /\ ~(t < e)
      BY <2>1, <2>2, <2>3, <3>1, <2>5 DEF FirstEpisode
    <3> QED
      BY <2>3, <3>1, <3>2
  <2>7. \A i \in (e + 1)..Len(k) : k[i] \notin Episodes
    <3> SUFFICES ASSUME NEW i \in (e + 1)..Len(k) PROVE k[i] \in Langs
      BY <1>9
    <3>1. i - e \in 1..(Len(w) - s) /\ t + (i - e) = i /\ s + (i - e) \in (s + 1)..Len(w)
      BY <1>10, <2>1, <2>3, <2>5, <2>6
    <3>2. k[t + (i - e)] = w[s + (i - e)] /\ w[s + (i - e)] \in Langs
      BY <1>4, <2>1, <3>1
    <3> QED
      BY <3>1, <3>2
  <2>8. \A i \in 1..Len(rest) : rest[i] \notin Episodes
    <3> SUFFICES ASSUME NEW i \in 1..Len(rest) PROVE rest[i] \notin Episodes
      OBVIOUS
    <3>1. CASE i < e
      BY <2>2, <2>3, <2>5, <3>1 DEF FirstEpisode
    <3>2. CASE ~(i < e)
      <4>1. i + 1 \in (e + 1)..Len(k) /\ rest[i] = k[i + 1]
        BY <2>3, <2>5, <3>2
      <4> QED
        BY <2>7, <4>1
    <3> QED
      BY <3>1, <3>2
  <2>9. /\ new \in Seq(Range(w)) /\ Len(new) = Len(rest) + 1
        /\ \A i \in 1..(y - 1) : new[i] = rest[i]
        /\ new[y] = k[e] /\ new[y + 1] = rest[y]
    <3> DEFINE c == k[e]
    <3>1. new = InsertAt(rest, y, c) /\ c \in Range(w)
      BY <1>11, <2>4
    <3> HIDE DEF c
    <3>2. rest \in Seq(Range(w)) /\ y \in 1..Len(rest) /\ c \in Range(w)
      BY <2>3, <3>1
    <3>3. PutIn(InsertAt(rest, y, c), Range(w), rest, y, c)
      BY <3>2, Inserted
    <3> QED
      BY <3>1, <3>3, Zenon DEF c, PutIn
  <2>10. Len(rest) \in Nat
    BY <2>3, LenProperties
  <2>11. p = y
    <3>1. p \in 1..Len(new) /\ new[p] \in Episodes /\ \A i \in 1..(p - 1) : new[i] \notin Episodes
      BY <1>5 DEF FirstEpisode
    <3>2. new[y] \in Episodes /\ \A i \in 1..(y - 1) : new[i] \notin Episodes
      <4>1. k[e] \in Episodes
        BY <2>2 DEF FirstEpisode
      <4>2. \A i \in 1..(y - 1) : i \in 1..Len(rest)
        BY <2>3, <2>10
      <4> QED
        BY <2>8, <2>9, <4>1, <4>2
    <3>3. p \in Nat /\ p >= 1 /\ y \in Nat /\ y >= 1
      BY <2>3, <2>9, <2>10, <3>1
    <3>4. ~(p < y)
      <4> SUFFICES ASSUME p < y PROVE FALSE
        OBVIOUS
      <4>1. p \in 1..(y - 1)
        BY <3>3
      <4> QED
        BY <3>1, <3>2, <4>1
    <3>5. ~(y < p)
      <4> SUFFICES ASSUME y < p PROVE FALSE
        OBVIOUS
      <4>1. y \in 1..(p - 1)
        BY <3>3
      <4> QED
        BY <3>1, <3>2, <4>1
    <3> QED
      BY <3>3, <3>4, <3>5
  <2>12. y + 1 \in (p + 1)..Len(new)
    BY <2>3, <2>9, <2>10, <2>11
  <2>13. rest[y] \in Langs
    BY <1>5, <2>9, <2>12
  <2> QED
    BY <1>9, <2>3, <2>13
<1>12. CASE new = k
  <2>1. Has(k, Episodes)
    <3>1. DOMAIN k = 1..Len(k)
      BY <1>6, LenProperties
    <3> QED
      BY <1>5, <1>12, <3>1 DEF FirstEpisode, Has
  <2>2. PICK t : /\ FirstEpisode(k, t) /\ Len(k) = t + (Len(w) - s)
                 /\ \A i \in 1..(Len(w) - s) : k[t + i] = w[s + i]
    BY <1>8, <2>1
  <2>3. w \in Seq(Range(w))
    BY <1>2 DEF w
  <2>4. Range(_suffix_after_token(w)) = {w[i] : i \in (s + 1)..Len(w)}
    BY <1>4, <2>3, AfterEpisode
  <2>5. Range(_suffix_after_token(k)) = {k[i] : i \in (t + 1)..Len(k)}
    BY <1>6, <2>2, AfterEpisode
  <2>6. t \in 1..Len(k) /\ Len(k) \in Nat
    BY <1>6, <2>2, LenProperties DEF FirstEpisode
  <2>7. ASSUME NEW i \in (s + 1)..Len(w) PROVE w[i] \in {k[j] : j \in (t + 1)..Len(k)}
    <3>1. i - s \in 1..(Len(w) - s) /\ s + (i - s) = i /\ t + (i - s) \in (t + 1)..Len(k)
      BY <1>10, <2>2, <2>6
    <3>2. k[t + (i - s)] = w[s + (i - s)]
      BY <2>2, <3>1
    <3> QED
      BY <3>1, <3>2
  <2> QED
    BY <1>12, <2>4, <2>5, <2>7
<1> QED
  BY <1>7, <1>11, <1>12


-----------------------------------------------------------------------------
(* Languages *)

\* What is put at the end of a name leaves its episode where it is.
LEMMA Lengthened ==
  ASSUME NEW w, w \in Seq(Range(w)), NEW s, FirstEpisode(w, s), NEW x, x \in Seq(Range(x))
  PROVE  LET new == w \o x
         IN  /\ new \in Seq(Range(new)) /\ FirstEpisode(new, s)
             /\ Range(_suffix_after_token(new))
                  = Range(_suffix_after_token(w)) \cup Range(x)
<1> DEFINE X == Range(w) \cup Range(x)
           new == w \o x
           n == Len(w)
           m == Len(x)
<1>1. w \in Seq(X) /\ x \in Seq(X)
  BY SeqMonotonic, Zenon
<1> HIDE DEF X
<1>2. /\ new \in Seq(X) /\ Len(new) = n + m
      /\ \A i \in 1..n : new[i] = w[i]
      /\ \A i \in (n + 1)..(n + m) : new[i] = x[i - n]
  BY <1>1, Joined
<1>3. n \in Nat /\ m \in Nat /\ s \in 1..n /\ w[s] \in Episodes
      /\ \A i \in 1..(s - 1) : w[i] \notin Episodes
  BY LenProperties DEF FirstEpisode
<1>4. new \in Seq(Range(new))
  BY <1>2, SeqOfRange
<1> HIDE DEF new
<1>5. FirstEpisode(new, s)
  <2>1. s \in 1..Len(new) /\ \A i \in 1..(s - 1) : i \in 1..n
    BY <1>2, <1>3
  <2> QED
    BY <1>2, <1>3, <2>1 DEF FirstEpisode
<1>6. /\ Range(_suffix_after_token(new)) = {new[i] : i \in (s + 1)..Len(new)}
      /\ Range(_suffix_after_token(w)) = {w[i] : i \in (s + 1)..n}
  BY <1>4, <1>5, AfterEpisode
<1>7. Range(x) = {x[i] : i \in 1..m}
  BY RangeEquality
<1> HIDE DEF n, m
<1>8. ASSUME NEW i \in (s + 1)..(n + m)
      PROVE  new[i] \in {w[j] : j \in (s + 1)..n} \cup {x[j] : j \in 1..m}
  <2>1. CASE i <= n
    <3>1. i \in (s + 1)..n /\ i \in 1..n
      BY <1>3, <2>1
    <3> QED
      BY <1>2, <3>1
  <2>2. CASE ~(i <= n)
    <3>1. i \in (n + 1)..(n + m) /\ i - n \in 1..m
      BY <1>3, <2>2
    <3> QED
      BY <1>2, <3>1
  <2> QED
    BY <2>1, <2>2
<1>9. ASSUME NEW j \in (s + 1)..n PROVE w[j] \in {new[i] : i \in (s + 1)..(n + m)}
  <2>1. j \in 1..n /\ j \in (s + 1)..(n + m)
    BY <1>3
  <2> QED
    BY <1>2, <2>1
<1>10. ASSUME NEW j \in 1..m PROVE x[j] \in {new[i] : i \in (s + 1)..(n + m)}
  <2>1. n + j \in (n + 1)..(n + m) /\ n + j \in (s + 1)..(n + m) /\ (n + j) - n = j
    BY <1>3
  <2>2. new[n + j] = x[(n + j) - n]
    BY <1>2, <2>1
  <2> QED
    BY <2>1, <2>2
<1>11. {new[i] : i \in (s + 1)..(n + m)} = {w[j] : j \in (s + 1)..n} \cup {x[j] : j \in 1..m}
  BY <1>8, <1>9, <1>10
<1> QED
  BY <1>2, <1>4, <1>5, <1>6, <1>7, <1>11 DEF new

\* A number that makes a name unique leaves it its languages.
LEMMA CopyName ==
  ASSUME NEW n, NEW datum, Carries(n, datum), NEW c
  PROVE  Carries([n EXCEPT !.words = Append(@, c)], datum)
<1> DEFINE w == n.words
           m == [n EXCEPT !.words = Append(@, c)]
           X == Range(w) \cup {c}
<1>1. DOMAIN m = {"words", "ext"} /\ m.words = Append(w, c) /\ m.ext = n.ext
  BY DEF Carries, IsName
<1> HIDE DEF m
<1>2. w \in Seq(Range(w)) /\ <<c>> \in Seq(Range(<<c>>))
  <2>1. <<c>> \in Seq({c})
    OBVIOUS
  <2> QED
    BY <2>1, SeqOfRange DEF Carries, IsName
<1>3. w \in Seq(X) /\ c \in X
  BY <1>2, SeqMonotonic, Zenon
<1> HIDE DEF w, X
<1>4. Append(w, c) = w \o <<c>> /\ Append(w, c) \in Seq(X)
  BY <1>3, AppendIsConcat, AppendProperties
<1>5. IsName(m)
  <2>1. Append(w, c) \in Seq(Range(Append(w, c)))
    BY <1>4, SeqOfRange
  <2> QED
    BY <1>1, <2>1 DEF IsName
<1>6. ASSUME datum \in DOMAIN Speaks
      PROVE  /\ m.ext = SUBTITLE
             /\ Speaks[datum] \subseteq Langs \cap Range(_suffix_after_token(m.words))
  <2>1. n.ext = SUBTITLE /\ Speaks[datum] \subseteq Langs \cap Range(_suffix_after_token(w))
    BY <1>6 DEF Carries, Told, w
  <2>2. CASE Has(w, Episodes)
    <3>1. FirstEpisode(w, At(w, Episodes))
      BY <1>2, <2>2, EpisodeExists
    <3>2. Range(_suffix_after_token(w \o <<c>>))
            = Range(_suffix_after_token(w)) \cup Range(<<c>>)
      BY <1>2, <3>1, Lengthened
    <3> QED
      BY <1>1, <1>4, <2>1, <3>2
  <2>3. CASE ~Has(w, Episodes)
    <3>1. Range(_suffix_after_token(w)) = {}
      BY <2>3 DEF _suffix_after_token, Range
    <3> QED
      BY <1>1, <2>1, <3>1
  <2> QED
    BY <2>2, <2>3
<1>7. Carries(m, datum)
  BY <1>5, <1>6, Zenon DEF Carries, Told
<1> QED
  BY <1>7 DEF m

\* The name of a subtitle n of the video v.
Label(n, v) ==
    LET keep == IF v.words = n.words THEN << >>
                ELSE _compact_subtitle_suffix(_suffix_after_token(n.words))
    IN  [words |-> v.words \o keep, ext |-> SUBTITLE]

\* What the subtitle has after its episode then follows that of the video.
LEMMA AlignedName ==
  ASSUME NEW n, NEW v, IsName(v),
         v.words = n.words \/ (_token(n.words) # Nothing /\ _token(v.words) = _token(n.words))
  PROVE  SameLanguages(n, Label(n, v))
<1> SUFFICES ASSUME IsName(n)
             PROVE  /\ IsName(Label(n, v))
                    /\ n.ext = SUBTITLE /\ PlainName(n) /\ PlainName(Label(n, v)) =>
                         /\ Label(n, v).ext = SUBTITLE
                         /\ Range(_suffix_after_token(n.words))
                              \subseteq Range(_suffix_after_token(Label(n, v).words))
  BY DEF SameLanguages
<1> DEFINE w == n.words
           u == v.words
           tail == _suffix_after_token(w)
           keep == IF u = w THEN << >> ELSE _compact_subtitle_suffix(tail)
           m == Label(n, v)
<1>1. DOMAIN m = {"words", "ext"} /\ m.words = u \o keep /\ m.ext = SUBTITLE
  BY DEF Label
<1> HIDE DEF m
<1>2. w \in Seq(Range(w)) /\ u \in Seq(Range(u))
  BY DEF IsName
<1> HIDE DEF w, u
<1>3. tail \in Seq(Range(w))
  <2>1. CASE Has(w, Episodes)
    BY <1>2, <2>1, EpisodeExists, AfterEpisode
  <2>2. CASE ~Has(w, Episodes)
    BY <2>2, EmptySeq DEF _suffix_after_token
  <2> QED
    BY <2>1, <2>2
<1> HIDE DEF tail
<1>4. keep \in Seq(Range(keep))
  <2>1. keep = << >> \/ keep = tail
    BY DEF _compact_subtitle_suffix
  <2>2. keep \in Seq(Range(w))
    BY <1>3, <2>1, EmptySeq
  <2> QED
    BY <2>2, SeqOfRange
<1>5. IsName(m)
  <2> HIDE DEF keep
  <2> DEFINE X == Range(u) \cup Range(keep)
  <2>1. u \in Seq(X) /\ keep \in Seq(X)
    BY <1>2, <1>4, SeqMonotonic, Zenon
  <2> HIDE DEF X
  <2>2. u \o keep \in Seq(X)
    BY <2>1, Joined
  <2>3. u \o keep \in Seq(Range(u \o keep))
    BY <2>2, SeqOfRange
  <2> QED
    BY <1>1, <2>3 DEF IsName
<1>6. ASSUME n.ext = SUBTITLE, PlainName(n)
      PROVE  Range(tail) \subseteq Range(_suffix_after_token(m.words))
  <2>1. CASE u = w
    <3>1. m.words = w
      BY <1>1, <1>2, <2>1, ConcatEmptySeq
    <3> QED
      BY <3>1 DEF tail
  <2>2. CASE u # w
    <3>1. tail = keep
      BY <1>6, <2>2 DEF PlainName, _compact_subtitle_suffix, tail, w
    <3>2. Has(u, Episodes)
      BY <2>2 DEF _token, u, w
    <3>3. FirstEpisode(u, At(u, Episodes))
      BY <1>2, <3>2, EpisodeExists
    <3> HIDE DEF keep
    <3>4. Range(_suffix_after_token(u \o keep)) = Range(_suffix_after_token(u)) \cup Range(keep)
      BY <1>2, <1>4, <3>3, Lengthened
    <3> QED
      BY <1>1, <3>1, <3>4
  <2> QED
    BY <2>1, <2>2
<1> QED
  BY <1>1, <1>5, <1>6 DEF m, tail, w

-----------------------------------------------------------------------------
(* Names in a tree *)

\* The last name of a path a name was put at the end of.
LEMMA BaseOfAppend ==
  ASSUME NEW d, d \in Seq(Range(d)), NEW x PROVE Base(Append(d, x)) = x
<1> DEFINE S == Range(d) \cup {x}
<1>1. d \in Seq(S) /\ x \in S
  BY SeqMonotonic, Zenon
<1> HIDE DEF S
<1>2. Len(Append(d, x)) = Len(d) + 1 /\ Append(d, x)[Len(d) + 1] = x
  BY <1>1, AppendProperties
<1> QED
  BY <1>2 DEF Base, Last

\* A rename changes one name, that of what is renamed.
LEMMA RenamedNames ==
  ASSUME TreeOK(tree), NEW a, NEW b, IsPath(a), IsPath(b), Parent(b) = Parent(a),
         a \in DOMAIN tree, NEW q \in DOMAIN Renamed(a, b)
  PROVE  \E p \in DOMAIN tree :
           /\ Renamed(a, b)[q] = tree[p]
           /\ Base(q) = Base(p) \/ (p = a /\ Base(q) = Base(b))
<1> DEFINE T   == Renamed(a, b)
           old == {p \in DOMAIN tree : p = a \/ Inside(p, a)}
           new == {Moved(p, a, b) : p \in old}
<1>1. /\ DOMAIN T = (DOMAIN tree \ old) \cup new
      /\ \A x \in new : T[x] = tree[Moved(x, b, a)]
      /\ \A x \in DOMAIN tree \ old : x \notin new => T[x] = tree[x]
  BY DEF Renamed
<1> HIDE DEF T
<1>2. Len(a) = Len(b) /\ Len(a) \in Nat /\ Len(a) >= 1
  BY Siblings, PathLen
<1>3. CASE q \notin new
  BY <1>1, <1>3 DEF T
<1>4. CASE q \in new
  <2>1. PICK p \in old : q = Moved(p, a, b)
    BY <1>4
  <2>2. IsPath(p) /\ p \in DOMAIN tree /\ Len(p) \in Nat
    BY PathLen DEF TreeOK
  <2>3. IsPrefix(a, p)
    <3>1. IsPrefix(a, a)
      BY <1>2, PrefixByNames
    <3> QED
      BY <3>1 DEF Inside
  <2>4. Len(a) <= Len(p)
    BY <2>2, <2>3, PrefixFacts
  <2>5. /\ Len(q) = Len(p) /\ \A i \in 1..Len(a) : q[i] = b[i]
        /\ \A i \in (Len(a) + 1)..Len(p) : q[i] = p[i]
    BY <1>2, <2>1, <2>2, <2>4, MovedPath
  <2>6. Moved(q, b, a) = p
    BY <1>2, <2>1, <2>2, <2>3, BackAgain
  <2>7. T[q] = tree[p]
    BY <1>1, <1>4, <2>6
  <2>8. Base(q) = Base(p) \/ (p = a /\ Base(q) = Base(b))
    <3>1. Base(q) = q[Len(p)] /\ Base(p) = p[Len(p)] /\ Base(b) = b[Len(a)]
      BY <1>2, <2>5 DEF Base, Last
    <3>2. CASE Len(p) > Len(a)
      <4>1. Len(p) \in (Len(a) + 1)..Len(p)
        BY <1>2, <2>2, <3>2
      <4> QED
        BY <2>5, <3>1, <4>1
    <3>3. CASE Len(p) = Len(a)
      <4>1. p = a
        BY <2>1, <3>3, <1>2 DEF Inside
      <4>2. Len(a) \in 1..Len(a)
        BY <1>2
      <4> QED
        BY <2>5, <3>1, <3>3, <4>1, <4>2
    <3> QED
      BY <1>2, <2>2, <2>4, <3>2, <3>3
  <2> QED
    BY <2>2, <2>7, <2>8 DEF T
<1> QED
  BY <1>3, <1>4

\* What is renamed is then at the target.
LEMMA RenamedTarget ==
  ASSUME NEW a, NEW b, IsPath(a), IsPath(b), Parent(b) = Parent(a), a \in DOMAIN tree
  PROVE  b \in DOMAIN Renamed(a, b)
<1>1. Len(a) = Len(b) /\ Len(a) \in Nat /\ Len(a) >= 1
  BY Siblings, PathLen
<1>2. Moved(a, a, b) = b
  <2>1. /\ IsPath(Moved(a, a, b)) /\ Len(Moved(a, a, b)) = Len(a)
        /\ \A i \in 1..Len(a) : Moved(a, a, b)[i] = b[i]
    BY <1>1, MovedPath
  <2> QED
    BY <1>1, <2>1, SamePath DEF IsPath
<1>3. Moved(a, a, b) \in DOMAIN Renamed(a, b)
  BY DEF Renamed
<1> QED
  BY <1>2, <1>3

\* With a target that tells what the source told, names still tell.
LEMMA RenamedNamesOK ==
  ASSUME TreeOK(tree), NEW a, NEW b, IsPath(a), IsPath(b), Parent(b) = Parent(a),
         a \in DOMAIN tree, NamesOK(tree), tree[a] # Dir => Carries(Base(b), tree[a])
  PROVE  NamesOK(Renamed(a, b))
<1> SUFFICES ASSUME NEW q \in DOMAIN Renamed(a, b), Renamed(a, b)[q] # Dir
             PROVE  Carries(Base(q), Renamed(a, b)[q])
  BY DEF NamesOK
<1>1. PICK p \in DOMAIN tree : /\ Renamed(a, b)[q] = tree[p]
                               /\ Base(q) = Base(p) \/ (p = a /\ Base(q) = Base(b))
  BY RenamedNames
<1> QED
  BY <1>1 DEF NamesOK

\* Directories tell nothing.
LEMMA MadeNamesOK == ASSUME NEW p, NamesOK(tree) PROVE NamesOK(MadeFor(p))
  BY DEF NamesOK, MadeFor, With, Exists

\* A file whose name tells its languages.
LEMMA WrittenNamesOK ==
  ASSUME NEW p, NEW datum, NamesOK(tree), datum # Dir => Carries(Base(p), datum)
  PROVE  NamesOK(Written(p, datum))
<1>1. NamesOK(MadeFor(p))
  BY MadeNamesOK
<1> QED
  BY <1>1 DEF NamesOK, Written

\* What a subtitle's name tells, its new name tells too.
LEMMA StillCarried ==
  ASSUME NEW n, NEW m, NEW datum, Carries(n, datum), SameLanguages(n, m),
         PlainName(n), PlainName(m)
  PROVE  Carries(m, datum)
<1>1. IsName(n) /\ IsName(m)
  BY DEF Carries, SameLanguages
<1>2. ASSUME datum \in DOMAIN Speaks
      PROVE  /\ m.ext = SUBTITLE
             /\ Speaks[datum] \subseteq Langs \cap Range(_suffix_after_token(m.words))
  <2>1. n.ext = SUBTITLE /\ Speaks[datum] \subseteq Langs \cap Range(_suffix_after_token(n.words))
    BY <1>2 DEF Carries, Told
  <2> QED
    BY <1>1, <2>1 DEF SameLanguages
<1> QED
  BY <1>1, <1>2, Zenon DEF Carries, Told

\* The rows of a plan keep languages.
RowsKeep(rows) == \A r \in rows : SameLanguages(Base(r[1]), Base(r[2]))

\* A row of a cleaning keeps languages: the new name is a cleaned one.
LEMMA CleaningKeeps ==
  ASSUME TreeOK(tree), NEW d, NEW target, NEW recursive, NEW season
  PROVE  RowsKeep(build_rename_plan(d, target, recursive, season))
<1> DEFINE New(p) == [Base(p) EXCEPT !.words = clean_basename(@, season)]
<1> SUFFICES ASSUME NEW r \in build_rename_plan(d, target, recursive, season)
             PROVE  SameLanguages(Base(r[1]), Base(r[2]))
  BY DEF RowsKeep
<1>1. PICK p \in DOMAIN tree : r = <<p, Append(Parent(p), New(p))>>
  BY DEF build_rename_plan, Under
<1>2. SameLanguages(Base(p), New(p))
  BY CleanedName
<1> HIDE DEF New
<1>3. Parent(p) \in Seq(Range(Parent(p)))
  BY ParentFacts DEF TreeOK
<1>4. Base(Append(Parent(p), New(p))) = New(p)
  BY <1>3, BaseOfAppend
<1> QED
  BY <1>1, <1>2, <1>4

\* A row of an alignment, too: the new name is that of the one video.
LEMMA AligningKeeps ==
  ASSUME TreeOK(tree), NamesOK(tree), NEW d, NEW recursive
  PROVE  RowsKeep(build_alignment_plan(d, recursive))
<1> SUFFICES ASSUME NEW r \in build_alignment_plan(d, recursive)
             PROVE  SameLanguages(Base(r[1]), Base(r[2]))
  BY DEF RowsKeep
<1> DEFINE V(s) == CHOOSE v \in Matches(s) : TRUE
<1>1. PICK s \in DOMAIN tree : /\ r = <<s, Aligned(s, V(s))>>
                               /\ Cardinality(Matches(s)) = 1
  BY DEF build_alignment_plan, Under
<1>2. Matches(s) # {}
  BY <1>1, FS_EmptySet
<1> DEFINE v == V(s)
<1>3. v \in Matches(s)
  BY <1>2
<1> HIDE DEF v
<1>4. /\ v \in Videos(Parent(s))
      /\ \/ Base(v).words = Base(s).words
         \/ /\ _token(Base(s).words) # Nothing
            /\ _token(Base(v).words) = _token(Base(s).words)
  BY <1>3 DEF Matches
<1>5. IsName(Base(v))
  <2>1. v \in DOMAIN tree /\ tree[v] # Dir
    BY <1>4 DEF Videos, Under, IsDir, Exists
  <2> QED
    BY <2>1 DEF NamesOK, Carries
<1>6. SameLanguages(Base(s), Label(Base(s), Base(v)))
  BY <1>4, <1>5, AlignedName
<1>7. Aligned(s, v) = Append(Parent(s), Label(Base(s), Base(v)))
  BY DEF Aligned, Label
<1>8. Parent(s) \in Seq(Range(Parent(s)))
  BY ParentFacts DEF TreeOK
<1>9. Base(Aligned(s, v)) = Label(Base(s), Base(v))
  BY <1>7, <1>8, BaseOfAppend
<1> QED
  BY <1>1, <1>6, <1>9 DEF v

\* Every plan a page can show.
LEMMA PlansKeep ==
  ASSUME TreeOK(tree), NamesOK(tree), NEW d, NEW recursive, NEW plan \in Plans(d, recursive)
  PROVE  RowsKeep(plan)
<1>1. plan = build_alignment_plan(d, recursive)
      \/ \E target, season : plan = build_rename_plan(d, target, recursive, season)
  BY DEF Plans
<1> QED
  BY <1>1, AligningKeeps, CleaningKeeps

\* The name an upload gets tells what its own name told.
LEMMA UniqueNames ==
  ASSUME NEW d, d \in Seq(Range(d)), NEW name, NEW datum, Carries(name, datum),
         _unique_dest(Append(d, name)) # {}
  PROVE  Carries(Base(CHOOSE q \in _unique_dest(Append(d, name)) : TRUE), datum)
<1> DEFINE p == Append(d, name)
           New(i) == [Base(p) EXCEPT !.words = Append(@, Copies[i])]
           Numbered(i) == Append(Parent(p), New(i))
<1>1. Parent(p) = d /\ Base(p) = name
  BY AppendPath, BaseOfAppend
<1> HIDE DEF p
<1>2. \A i : Carries(Base(Numbered(i)), datum)
  <2> SUFFICES ASSUME NEW i PROVE Carries(Base(Numbered(i)), datum)
    OBVIOUS
  <2>1. Carries(New(i), datum)
    BY <1>1, CopyName
  <2> HIDE DEF New
  <2>2. Base(Numbered(i)) = New(i)
    BY <1>1, BaseOfAppend
  <2> QED
    BY <2>1, <2>2
<1>3. (CHOOSE q \in _unique_dest(p) : TRUE) \in _unique_dest(p)
  BY DEF p
<1>4. \A q \in _unique_dest(p) : q = p \/ \E i : q = Numbered(i)
  BY DEF _unique_dest
<1> HIDE DEF Numbered
<1>5. \A q \in _unique_dest(p) : Carries(Base(q), datum)
  BY <1>1, <1>2, <1>4
<1> QED
  BY <1>3, <1>5 DEF p

-----------------------------------------------------------------------------
(* Languages are kept *)

\* A request that has ended names nothing.
LEMMA IdleNames == FrameNames(Idle)
  BY DEF FrameNames, Idle

\* That others change the tree renames nothing in a request.
LEMMA StaleNames ==
  ASSUME NEW f, DOMAIN f = Fields, FrameNames(f) PROVE FrameNames(Outdated(f))
<1> DEFINE g == Outdated(f)
<1>1. g.pc = f.pc /\ g.rows = f.rows /\ g.row = f.row /\ g.files = f.files
  BY DEF Outdated, Fields
<1> HIDE DEF g
<1>2. FrameNames(g)
  BY <1>1 DEF FrameNames
<1> QED
  BY <1>2 DEF g

\* A step that leaves the tree as it is.
LEMMA NamesByGoing ==
  ASSUME FileInv, NameInv, NEW w \in Workers, NEW f, Goes(w, f), tree' = tree, plain' = plain,
         plain => FrameNames(f)
  PROVE  NameInv'
<1>1. /\ frame'[w] = f
      /\ \A v \in Workers : v # w => frame'[v] = frame[v]
  BY DEF FileInv, Goes
<1>2. plain => \A v \in Workers : FrameNames(frame'[v])
  BY <1>1 DEF NameInv
<1> QED
  BY <1>2 DEF NameInv, NamesOK, Plain

\* A step that changes the tree.
LEMMA NamesByChange ==
  ASSUME FileInv, NameInv, NEW w \in Workers, NEW f, NEW t, Changes(w, f, t),
         plain /\ Plain(t) => NamesOK(t) /\ FrameNames(f)
  PROVE  NameInv'
<1>1. /\ tree' = t /\ frame'[w] = f /\ plain' = (plain /\ Plain(t))
      /\ \A v \in Workers : v # w => frame'[v] = Outdated(frame[v])
  BY DEF Changes
<1> SUFFICES ASSUME plain'
             PROVE  Plain(tree') /\ NamesOK(tree') /\ \A v \in Workers : FrameNames(frame'[v])
  BY DEF NameInv, NamesOK, Plain
<1>2. plain /\ Plain(t)
  BY <1>1
<1>3. ASSUME NEW v \in Workers, v # w PROVE FrameNames(frame'[v])
  <2>1. DOMAIN frame[v] = Fields
    BY DEF FileInv, FrameOK
  <2>2. FrameNames(frame[v])
    BY <1>2 DEF NameInv
  <2> QED
    BY <1>1, <1>3, <2>1, <2>2, StaleNames
<1>4. \A v \in Workers : FrameNames(frame'[v])
  BY <1>1, <1>2, <1>3
<1>5. NamesOK(t)
  BY <1>2
<1> QED
  BY <1>1, <1>2, <1>4, <1>5

\* Subtitles to begin with tell their languages.
LEMMA NameInvInit == FileInit => NameInv
<1> SUFFICES ASSUME FileInit PROVE NameInv
  OBVIOUS
<1>1. NamesOK(tree)
  BY FileToolsAssumption DEF FileInit, FileToolsAssumption, NamesOK, Carries, Base
<1>2. \A w \in Workers : FrameNames(frame[w])
  BY IdleNames DEF FileInit
<1> QED
  BY <1>1, <1>2 DEF NameInv, FileInit

\* A page shows a plan.
LEMMA PreviewNames == ASSUME FileInv, NameInv, NEW w \in Workers, Preview(w) PROVE NameInv'
<1>0. PICK d, recursive : \E plan \in Plans(d, recursive) : Goes(w, Shown(plan))
  BY DEF Preview
<1>1. PICK plan \in Plans(d, recursive) : Goes(w, Shown(plan))
  BY <1>0
<1> DEFINE f == Shown(plan)
<1>2. f.pc = "shown" /\ f.rows = plan
  BY DEF Shown, Idle
<1>3. plain => FrameNames(f)
  <2> SUFFICES ASSUME plain PROVE FrameNames(f)
    OBVIOUS
  <2>1. RowsKeep(plan)
    BY PlansKeep DEF FileInv, NameInv
  <2> HIDE DEF f
  <2> QED
    BY <1>2, <2>1 DEF FrameNames, RowsKeep
<1>4. tree' = tree /\ plain' = plain
  BY DEF Preview, ghosts
<1> QED
  BY <1>1, <1>3, <1>4, NamesByGoing

\* Rows are refused first.
LEMMA ApplyNames == ASSUME FileInv, NameInv, NEW w \in Workers, Apply(w) PROVE NameInv'
<1> DEFINE e == frame[w]
           S == {r \in e.rows : Exists(r[1]) /\ ~Exists(r[2])}
           f == [e EXCEPT !.pc = "rows", !.rows = S]
<1>1. DOMAIN e = Fields
  BY DEF FileInv, FrameOK
<1>2. Goes(w, f) /\ tree' = tree /\ plain' = plain
  BY DEF Apply
<1>3. f.pc = "rows" /\ f.rows \subseteq e.rows
  BY <1>1 DEF Fields
<1> HIDE DEF f
<1>4. plain => FrameNames(f)
  BY <1>3 DEF NameInv, FrameNames
<1> QED
  BY <1>2, <1>4, NamesByGoing

\* A row is taken.
LEMMA CheckRowNames == ASSUME FileInv, NameInv, NEW w \in Workers, CheckRow(w) PROVE NameInv'
<1> DEFINE e == frame[w]
<1>1. DOMAIN e = Fields /\ e.pc = "rows"
  BY DEF FileInv, FrameOK, CheckRow
<1>2. tree' = tree /\ plain' = plain
  BY DEF CheckRow
<1>3. PICK r \in Deepest(e.rows) :
        LET rest == [e EXCEPT !.rows = @ \ {r}, !.checked = TRUE]
        IN  Goes(w, [rest EXCEPT !.pc = "rename", !.row = r]) \/ Goes(w, rest)
  BY DEF CheckRow
<1> DEFINE rest == [e EXCEPT !.rows = @ \ {r}, !.checked = TRUE]
           f == [rest EXCEPT !.pc = "rename", !.row = r]
<1>4. rest.pc = "rows" /\ rest.rows \subseteq e.rows
  BY <1>1 DEF Fields
<1>5. f.pc = "rename" /\ f.rows \subseteq e.rows /\ f.row = r /\ r \in e.rows
  BY <1>1 DEF Fields, Deepest
<1>6. Goes(w, f) \/ Goes(w, rest)
  BY <1>3
<1> HIDE DEF f, rest
<1>7. plain => FrameNames(f) /\ FrameNames(rest)
  BY <1>4, <1>5 DEF NameInv, FrameNames
<1> QED
  BY <1>2, <1>6, <1>7, NamesByGoing

\* A rename: the target tells what the source told.
LEMMA RenameNames == ASSUME FileInv, NameInv, NEW w \in Workers, Rename(w) PROVE NameInv'
<1> DEFINE e == frame[w]
           a == e.row[1]
           b == e.row[2]
           f == [e EXCEPT !.pc = "rows", !.row = << >>]
<1>1. DOMAIN e = Fields /\ e.pc = "rename" /\ RowOK(e.row)
  BY DEF FileInv, FrameOK, RenameOK, Rename
<1>2. \/ a \in DOMAIN tree /\ Replaceable(a, b) /\ Changes(w, f, Renamed(a, b))
      \/ Goes(w, f) /\ tree' = tree /\ plain' = plain
  BY DEF Rename, Exists
<1>3. f.pc = "rows" /\ f.rows = e.rows
  BY <1>1 DEF Fields
<1> HIDE DEF f
<1>4. plain => FrameNames(f)
  BY <1>3 DEF NameInv, FrameNames
<1>5. CASE a \in DOMAIN tree /\ Replaceable(a, b) /\ Changes(w, f, Renamed(a, b))
  <2> DEFINE t == Renamed(a, b)
  <2>1. ASSUME plain, Plain(t) PROVE NamesOK(t)
    <3>1. TreeOK(tree) /\ IsPath(a) /\ IsPath(b) /\ Parent(b) = Parent(a)
      BY <1>1 DEF FileInv, RowOK
    <3>2. Plain(tree) /\ NamesOK(tree) /\ SameLanguages(Base(a), Base(b))
      BY <1>1, <2>1 DEF NameInv, FrameNames
    <3>3. b \in DOMAIN t
      BY <1>5, <3>1, RenamedTarget
    <3>4. tree[a] # Dir => Carries(Base(b), tree[a])
      BY <1>5, <2>1, <3>2, <3>3, StillCarried DEF Plain, NamesOK
    <3> QED
      BY <1>5, <3>1, <3>2, <3>4, RenamedNamesOK
  <2>2. Changes(w, f, t)
    BY <1>5
  <2> HIDE DEF t
  <2> QED
    BY <1>4, <2>1, <2>2, NamesByChange
<1>6. CASE Goes(w, f) /\ tree' = tree /\ plain' = plain
  BY <1>4, <1>6, NamesByGoing
<1> QED
  BY <1>2, <1>5, <1>6

\* An upload begins.
LEMMA UploadNames == ASSUME FileInv, NameInv, NEW w \in Workers, subtitles_upload(w) PROVE NameInv'
<1>1. PICK d \in {p \in DOMAIN tree : IsDir(p)} \cup {<< >>}, u \in Items :
        Goes(w, [Idle EXCEPT !.pc = "name", !.dir = d, !.kind = u.kind,
                             !.files = _extract_archive(u), !.owed = Owed(u)])
  BY DEF subtitles_upload
<1> DEFINE files == _extract_archive(u)
           f == [Idle EXCEPT !.pc = "name", !.dir = d, !.kind = u.kind,
                             !.files = files, !.owed = Owed(u)]
<1>2. f.pc = "name" /\ f.rows = {} /\ f.files = files
  BY DEF Idle
<1>3. Goes(w, f) /\ tree' = tree /\ plain' = plain
  BY <1>1 DEF subtitles_upload, ghosts
<1>4. /\ files \in Seq(Range(files))
      /\ \A j \in DOMAIN files : Carries(files[j].name, files[j].datum)
  BY Extracted
<1> HIDE DEF f, files
<1>5. FrameNames(f)
  BY <1>2, <1>4 DEF FrameNames
<1> QED
  BY <1>3, <1>5, NamesByGoing

\* A name is chosen.
LEMMA ChooseNames == ASSUME FileInv, NameInv, NEW w \in Workers, ChooseName(w) PROVE NameInv'
<1> DEFINE e == frame[w]
           first == Head(e.files)
           p == Append(e.dir, first.name)
           dest == _unique_dest(p)
           q == CHOOSE x \in dest : TRUE
           g == [e EXCEPT !.pc = "write", !.row = q, !.checked = TRUE]
           f == IF dest = {} THEN Idle ELSE g
           t == MadeFor(p)
<1>1. /\ DOMAIN e = Fields /\ e.pc = "name" /\ e.dir \in Seq(Range(e.dir)) /\ e.rows = {}
      /\ e.files # << >>
  BY DEF FileInv, ChooseName, FrameOK, UploadOK, RowsOK
<1>2. \/ Goes(w, f) /\ tree' = tree /\ plain' = plain
      \/ Changes(w, f, t)
      \/ Goes(w, Idle) /\ tree' = tree /\ plain' = plain
  BY DEF ChooseName
<1>3. g.pc = "write" /\ g.row = q /\ g.rows = {} /\ g.files = e.files
  BY <1>1 DEF Fields
<1>4. plain /\ dest # {} => FrameNames(g)
  <2> SUFFICES ASSUME plain, dest # {} PROVE FrameNames(g)
    OBVIOUS
  <2>1. /\ e.files \in Seq(Range(e.files))
        /\ \A i \in DOMAIN e.files : Carries(e.files[i].name, e.files[i].datum)
    BY <1>1 DEF NameInv, FrameNames
  <2>2. Carries(first.name, first.datum)
    <3>1. 1 \in DOMAIN e.files /\ first = e.files[1]
      BY <1>1, <2>1, EmptySeq, LenProperties
    <3> QED
      BY <2>1, <3>1
  <2>3. Carries(Base(q), first.datum)
    BY <1>1, <2>2, UniqueNames
  <2> HIDE DEF g, q
  <2> QED
    BY <1>1, <1>3, <2>1, <2>3 DEF FrameNames
<1> HIDE DEF g
<1>5. plain => FrameNames(f)
  BY <1>4, IdleNames
<1> HIDE DEF f, t, p
<1>6. CASE Goes(w, f) /\ tree' = tree /\ plain' = plain
  BY <1>5, <1>6, NamesByGoing
<1>7. CASE Changes(w, f, t)
  <2>1. plain => NamesOK(t)
    BY MadeNamesOK DEF t, NameInv
  <2> QED
    BY <1>5, <1>7, <2>1, NamesByChange
<1>8. CASE Goes(w, Idle) /\ tree' = tree /\ plain' = plain
  BY <1>8, IdleNames, NamesByGoing
<1> QED
  BY <1>2, <1>6, <1>7, <1>8

\* A subtitle is written, or what a failed write leaves.
LEMMA WriteNames == ASSUME FileInv, NameInv, NEW w \in Workers, Write(w) PROVE NameInv'
<1> DEFINE e == frame[w]
           datum == Head(e.files).datum
           f == [e EXCEPT !.pc = "name", !.row = << >>, !.files = Tail(@)]
<1>1. DOMAIN e = Fields /\ e.pc = "write" /\ e.rows = {}
  BY DEF FileInv, FrameOK, RowsOK, Write
<1>2. \/ Changes(w, f, Written(e.row, datum))
      \/ Goes(w, Idle) /\ tree' = tree /\ plain' = plain
      \/ Changes(w, Idle, Written(e.row, Torn))
  BY DEF Write
<1>3. f.pc = "name" /\ f.rows = {} /\ f.files = Tail(e.files)
  BY <1>1 DEF Fields
<1> HIDE DEF f
<1>4. ASSUME plain
      PROVE  /\ e.files \in Seq(Range(e.files)) /\ e.files # << >>
             /\ \A i \in DOMAIN e.files : Carries(e.files[i].name, e.files[i].datum)
             /\ Carries(Base(e.row), datum) /\ NamesOK(tree)
  BY <1>1, <1>4 DEF NameInv, FrameNames
<1> HIDE DEF datum
<1>5. plain => FrameNames(f)
  <2> SUFFICES ASSUME plain PROVE FrameNames(f)
    OBVIOUS
  <2> DEFINE rest == Tail(e.files)
  <2>1. /\ rest \in Seq(Range(e.files)) /\ Len(rest) = Len(e.files) - 1
        /\ \A i \in 1..Len(rest) : rest[i] = e.files[i + 1]
    BY <1>4, HeadTailProperties
  <2>2. Len(e.files) \in Nat /\ DOMAIN e.files = 1..Len(e.files)
    BY <1>4, LenProperties
  <2> HIDE DEF rest
  <2>3. rest \in Seq(Range(rest)) /\ DOMAIN rest = 1..Len(rest)
    BY <2>1, SeqOfRange, LenProperties
  <2>4. \A i \in DOMAIN rest : Carries(rest[i].name, rest[i].datum)
    <3> SUFFICES ASSUME NEW i \in DOMAIN rest PROVE Carries(rest[i].name, rest[i].datum)
      OBVIOUS
    <3>1. i + 1 \in DOMAIN e.files /\ rest[i] = e.files[i + 1]
      BY <2>1, <2>2, <2>3
    <3> QED
      BY <1>4, <3>1
  <2> QED
    BY <1>3, <2>3, <2>4 DEF FrameNames, rest
<1>6. CASE Changes(w, f, Written(e.row, datum))
  <2> DEFINE t == Written(e.row, datum)
  <2>1. plain => NamesOK(t)
    BY <1>4, WrittenNamesOK
  <2>2. Changes(w, f, t)
    BY <1>6
  <2> HIDE DEF t
  <2> QED
    BY <1>5, <2>1, <2>2, NamesByChange
<1>7. CASE Goes(w, Idle) /\ tree' = tree /\ plain' = plain
  BY <1>7, IdleNames, NamesByGoing
<1>8. CASE Changes(w, Idle, Written(e.row, Torn))
  <2> DEFINE t == Written(e.row, Torn)
  <2>1. plain => NamesOK(t)
    <3> SUFFICES ASSUME plain PROVE NamesOK(t)
      OBVIOUS
    <3>1. IsName(Base(e.row)) /\ Torn \notin DOMAIN Speaks
      BY <1>4, FileToolsAssumption DEF FileToolsAssumption, Carries
    <3>2. Carries(Base(e.row), Torn)
      BY <3>1 DEF Carries, Told
    <3> QED
      BY <1>4, <3>2, WrittenNamesOK
  <2>2. Changes(w, Idle, t)
    BY <1>8
  <2> HIDE DEF t
  <2> QED
    BY <2>1, <2>2, IdleNames, NamesByChange
<1> QED
  BY <1>2, <1>6, <1>7, <1>8

\* Every step of every user.
LEMMA NameInvNext == FileInv /\ NameInv /\ [FileNext]_fileVars => NameInv'
<1> SUFFICES ASSUME FileInv, NameInv, [FileNext]_fileVars PROVE NameInv'
  OBVIOUS
<1>1. CASE UNCHANGED fileVars
  BY <1>1 DEF fileVars, NameInv, NamesOK, Plain
<1>2. ASSUME NEW w \in Workers, Answer(w) \/ Uploaded(w) PROVE NameInv'
  <2>1. Goes(w, Idle) /\ tree' = tree /\ plain' = plain
    BY <1>2 DEF Answer, Uploaded, ghosts
  <2> QED
    BY <2>1, IdleNames, NamesByGoing
<1> QED
  BY <1>1, <1>2, PreviewNames, ApplyNames, CheckRowNames, RenameNames, UploadNames,
     ChooseNames, WriteNames DEF FileNext

\* While names are plain, every row, upload and file tells its languages.
THEOREM NameInvAlways == FileSpec => []NameInv
<1>1. FileInit => FileInv /\ NameInv
  BY FileInvInit, NameInvInit
<1>2. FileInv /\ NameInv /\ [FileNext]_fileVars => (FileInv /\ NameInv)'
  BY FileInvNext, NameInvNext
<1> QED
  BY <1>1, <1>2, PTL DEF FileSpec

\* A subtitle keeps its languages through any cleanings, uploads and alignments.
THEOREM LanguageKeptAlways == FileSpec => []LanguageKept
<1>1. NameInv => LanguageKept
  <2> SUFFICES ASSUME NameInv, plain, NEW p \in DOMAIN tree, tree[p] \in DOMAIN Speaks,
                      NEW l \in Speaks[tree[p]]
               PROVE  Has(Base(p).words, {l})
    BY DEF LanguageKept
  <2> DEFINE w == Base(p).words
  <2>1. tree[p] # Dir
    BY FileToolsAssumption DEF FileToolsAssumption
  <2>2. Carries(Base(p), tree[p]) /\ PlainName(Base(p))
    BY <2>1 DEF NameInv, NamesOK, Plain
  <2>3. l \in Range(_suffix_after_token(w)) /\ w \in Seq(Range(w)) /\ Base(p).ext = SUBTITLE
    BY <2>2 DEF Carries, Told, IsName
  <2>4. PICK s : FirstEpisode(w, s)
    BY <2>2, <2>3, PlainWords DEF Carries
  <2> HIDE DEF w
  <2>5. Range(_suffix_after_token(w)) = {w[i] : i \in (s + 1)..Len(w)}
    BY <2>3, <2>4, AfterEpisode
  <2>6. PICK i \in (s + 1)..Len(w) : w[i] = l
    BY <2>3, <2>5
  <2>7. i \in DOMAIN w
    BY <2>3, <2>4, <2>6, LenProperties DEF FirstEpisode
  <2> QED
    BY <2>6, <2>7 DEF Has, w
<1> QED
  BY <1>1, NameInvAlways, PTL

-----------------------------------------------------------------------------
(* Types *)

\* Requests and faults are counted up to their bounds.
LEMMA CountsNext ==
  ASSUME made \in 0..MaxRequests, faults \in 0..MaxFaults, [FileNext]_fileVars
  PROVE  made' \in 0..MaxRequests /\ faults' \in 0..MaxFaults
<1>1. MaxRequests \in Nat /\ MaxFaults \in Nat
  BY FileToolsAssumption DEF FileToolsAssumption
<1>2. \/ made' = made
      \/ made < MaxRequests /\ made' = made + 1
  BY DEF FileNext, fileVars, Preview, Apply, CheckRow, Rename, Answer, subtitles_upload,
     ChooseName, Write, Uploaded
<1>3. faults' = faults \/ Fault
  BY DEF FileNext, fileVars, Preview, Apply, CheckRow, Rename, Answer, subtitles_upload,
     ChooseName, Write, Uploaded
<1> QED
  BY <1>1, <1>2, <1>3 DEF Fault

\* The tree is a tree, and what is counted stays in its bounds.
THEOREM FileTypeOKAlways == FileSpec => []FileTypeOK
<1> DEFINE Counts == made \in 0..MaxRequests /\ faults \in 0..MaxFaults
<1>1. FileInit => Counts
  BY FileToolsAssumption DEF FileToolsAssumption, FileInit
<1>2. Counts /\ [FileNext]_fileVars => Counts'
  BY CountsNext
<1>3. FileInv /\ Counts => FileTypeOK
  <2> SUFFICES ASSUME FileInv, Counts PROVE FileTypeOK
    OBVIOUS
  <2>1. ASSUME NEW p \in DOMAIN tree PROVE IsDir(Parent(p))
    <3>1. IsPath(p) /\ \A d \in Above(p) : d \in DOMAIN tree /\ tree[d] = Dir
      BY DEF FileInv, TreeOK
    <3> QED
      BY <3>1, ParentAbove DEF IsDir, Exists
  <2>2. \A w \in Workers : frame[w].pc \in FramePoints
    BY DEF FileInv, FrameOK
  <2> QED
    BY <2>1, <2>2 DEF FileTypeOK, FramePoints
<1> HIDE DEF Counts
<1>4. FileSpec => []Counts
  BY <1>1, <1>2, PTL DEF FileSpec
<1> QED
  BY <1>3, <1>4, FileInvAlways, PTL
=============================================================================
