--------------------------- MODULE RtspSessionProofs ---------------------------
(***************************************************************************)
(* Proofs about RtspSession, for any number of slots, any set of sender    *)
(* tasks, any client dialogue and any set of events.                       *)
(*                                                                         *)
(* The steps are proved to keep invariants, each used in the proofs of the *)
(* next ones: the types and the count of the mutexes; where a queue        *)
(* exists; and, when each slot keeps to one transport, who may clear       *)
(* play_query over TCP and over UDP.  Then the number of the players is    *)
(* bounded and the SETUP mutex shown to come back; and, for clients of a   *)
(* certain dialogue, the RTP session and the sender behind play_query are  *)
(* shown to be there when they are needed, and a closing client to be      *)
(* heard by that sender.                                                   *)
(***************************************************************************)
EXTENDS RtspSession, FiniteSetTheorems, TLAPS

\* The sessions that have seen no mutex and are about to make one.
Makers == {s \in Slots : cpc[s] = "newmutex"}

\* Mutexes made and to be made: no more than there are sessions.
MakersFit == semPtr + Cardinality(Makers) <= NumSlots

\* There are NumSlots slots.
LEMMA SlotsFinite == IsFiniteSet(Slots) /\ Cardinality(Slots) = NumSlots
  BY SlotsAssumption, FS_Interval DEF Slots

\* The makers can be counted.
LEMMA MakersCounted ==
  IsFiniteSet(Makers) /\ Cardinality(Makers) \in Nat /\ Cardinality(Makers) <= NumSlots
  BY SlotsFinite, FS_Subset, FS_CardinalityType DEF Makers

\* MakersFit survives every step that makes no mutex and adds no maker.
LEMMA FewerMakers ==
  TypeOK /\ MakersFit /\ semPtr' = semPtr /\ Makers' \subseteq Makers => MakersFit'
<1> SUFFICES ASSUME TypeOK, MakersFit, semPtr' = semPtr, Makers' \subseteq Makers
             PROVE  MakersFit'
  OBVIOUS
<1>1. Cardinality(Makers') <= Cardinality(Makers) /\ Cardinality(Makers') \in Nat
  BY MakersCounted, FS_Subset, FS_CardinalityType
<1> QED
  BY <1>1, MakersCounted, SlotsAssumption DEF MakersFit, TypeOK

\* The other tasks leave the client tasks and the mutexes alone.
LEMMA OthersKeepClients ==
  \/ \E w \in Workers : Worker(w)
  \/ Udp
  \/ \E s \in Slots : KickChecks(s)
  \/ KickWrites
  \/ UNCHANGED vars
  => UNCHANGED <<cpc, semPtr, valid, queue>>
<1>1. ASSUME NEW w \in Workers, Worker(w)
      PROVE  UNCHANGED <<cpc, semPtr, valid, queue>>
  BY <1>1 DEF Worker, WorkerEnds, WorkerPlays, WorkerLosesSession, WorkerIdles,
     WorkerBuilds, WorkerDropsPacket, WorkerSends, WorkerSent, WorkerFails, WorkerExits,
     WorkerGoes, clientVars, semVars, slotVars
<1>2. CASE Udp
  BY <1>2 DEF Udp, UdpSkips, UdpPlays, UdpSeesTeardown, UdpClears, UdpLosesSession,
     UdpIdles, UdpBuilds, UdpDropsPacket, UdpSends, UdpSent, UdpFails, UdpGoes, UdpMovesOn,
     clientVars, semVars, slotVars
<1> QED
  BY <1>1, <1>2 DEF KickChecks, KickWrites, vars, clientVars, semVars, slotVars

\* A session comes to make the mutex only by finding that there is none.
LEMMA NoNewMakers ==
  ASSUME NEW s \in Slots, TypeOK,
         Accept(s) \/ ClientDrops(s) \/ ClientReads(s) \/ ClientWorks(s),
         ~SetupFindsMutex(s), ~SetupMakesMutex(s)
  PROVE  semPtr' = semPtr /\ Makers' \subseteq Makers
<1>1. CASE Accept(s)
  BY <1>1 DEF Accept, semVars, Makers, TypeOK, Slots
<1>2. CASE ClientReads(s)
  BY <1>2 DEF ClientReads, Goto, semVars, Makers, TypeOK, Slots
<1>3. CASE ClientDrops(s) \/ ClientInit(s) \/ ClientEnds(s)
  BY <1>3 DEF ClientDrops, ClientInit, ClientEnds, Goto, semVars, Makers, TypeOK, Slots
<1>4. CASE Refuse(s) \/ AnswerParameter(s) \/ CheckState(s) \/ EnterAndAnswer(s)
  BY <1>4 DEF Refuse, AnswerParameter, CheckState, EnterAndAnswer, Answered, Goto,
     semVars, Makers, TypeOK, Slots
<1>5. CASE Enter(s) \/ AnswerPlay(s) \/ AnswerTeardown(s)
  BY <1>5 DEF Enter, AnswerPlay, AnswerTeardown, Answered, Goto, semVars, Makers,
     TypeOK, Slots
<1>6. CASE SetupRefuses(s) \/ SetupFails(s) \/ SetupStartsWorker(s) \/ SetupNeedsNoWorker(s)
           \/ SetupAddsQuery(s)
  BY <1>6 DEF SetupRefuses, SetupFails, SetupMayStart, SetupStartsWorker,
     SetupNeedsNoWorker, SetupAddsQuery, Goto, semVars, Makers, TypeOK, Slots
<1>8. CASE SetupTakesMutex(s) \/ SetupBlocks(s) \/ SetupWakes(s) \/ SetupGivesMutex(s)
           \/ SetupHalts(s)
  BY <1>8 DEF SetupTakesMutex, SetupBlocks, SetupWakes, SetupGivesMutex, SetupHalts,
     Answered, Goto, semVars, Makers, TypeOK, Slots
<1>7. CASE ClientCloses(s) \/ ClientStopsWaiting(s) \/ ClientFreesMemory(s)
           \/ ClientZeroesSlot(s)
  BY <1>7 DEF ClientCloses, ClientStopsWaiting, ClientFreesMemory, ClientZeroesSlot, Goto,
     semVars, Makers, TypeOK, Slots
<1> QED
  BY <1>1, <1>2, <1>3, <1>4, <1>5, <1>6, <1>7, <1>8 DEF ClientWorks

\* Every step keeps MakersFit: once a mutex is made, no session finds none.
LEMMA MakersStep == TypeOK /\ MakersFit /\ [Next]_vars => MakersFit'
<1> SUFFICES ASSUME TypeOK, MakersFit, [Next]_vars
             PROVE  MakersFit'
  OBVIOUS
<1>1. ASSUME NEW s \in Slots, SetupFindsMutex(s)
      PROVE  MakersFit'
  <2>1. semPtr' = semPtr
    BY <1>1 DEF SetupFindsMutex, semVars
  <2>2. CASE semPtr = 0
    <3>1. Makers' \subseteq Slots
      BY DEF Makers, Slots
    <3>2. Cardinality(Makers') \in Nat /\ Cardinality(Makers') <= NumSlots
      BY <3>1, SlotsFinite, FS_Subset, FS_CardinalityType
    <3> QED
      BY <2>1, <2>2, <3>2 DEF MakersFit
  <2>3. CASE semPtr # 0
    BY <1>1, <2>1, <2>3, FewerMakers DEF SetupFindsMutex, Goto, Makers, TypeOK, Slots
  <2> QED
    BY <2>2, <2>3
<1>2. ASSUME NEW s \in Slots, SetupMakesMutex(s)
      PROVE  MakersFit'
  <2>1. Makers' = Makers \ {s} /\ s \in Makers
    BY <1>2 DEF SetupMakesMutex, Goto, Makers, TypeOK, Slots
  <2>2. Cardinality(Makers') = Cardinality(Makers) - 1
    BY <2>1, MakersCounted, FS_RemoveElement
  <2> QED
    BY <1>2, <2>2, MakersCounted, SlotsAssumption DEF SetupMakesMutex, MakersFit, TypeOK
<1>3. ASSUME NEW s \in Slots, ~SetupFindsMutex(s), ~SetupMakesMutex(s),
             Accept(s) \/ ClientDrops(s) \/ ClientReads(s) \/ ClientWorks(s)
      PROVE  MakersFit'
  BY <1>3, NoNewMakers, FewerMakers
<1>4. CASE UNCHANGED <<cpc, semPtr>>
  BY <1>4, FewerMakers DEF Makers, Slots
<1> QED
  BY <1>1, <1>2, <1>3, <1>4, OthersKeepClients DEF Next

------------------------------------------------------------------------------
\* The request that stands for none has the type of one.
LEMMA NoRequestType == NoRequest \in Requests
  BY DEF NoRequest, Requests, Methods, AllTransports

\* The UDP task's walk around the slots stays among them.
LEMMA NextSlotType == uslot \in Slots /\ NextSlot => uslot' \in Slots
  BY SlotsAssumption DEF Slots, NextSlot

\* Every step keeps the types.
LEMMA TypeStep == TypeOK /\ MakersFit /\ [Next]_vars => TypeOK'
<1> SUFFICES ASSUME TypeOK, MakersFit, [Next]_vars
             PROVE  TypeOK'
  OBVIOUS
<1> USE DEF TypeOK, Goto, SetState, slotVars, clientVars, semVars, workerVars, udpVars
<1>1. ASSUME NEW s \in Slots, Accept(s)
      PROVE  TypeOK'
  BY <1>1 DEF Accept, ZeroSlot, States, ClientPcs
<1>2. ASSUME NEW s \in Slots, ClientDrops(s)
      PROVE  TypeOK'
  BY <1>2 DEF ClientDrops, ClientPcs
<1>3. ASSUME NEW s \in Slots, ClientReads(s)
      PROVE  TypeOK'
  BY <1>3 DEF ClientReads, Requests, ClientPcs
<1>4. ASSUME NEW s \in Slots, ClientInit(s)
      PROVE  TypeOK'
  BY <1>4 DEF ClientInit, States, ClientPcs
<1>5. ASSUME NEW s \in Slots, ClientEnds(s)
      PROVE  TypeOK'
  BY <1>5 DEF ClientEnds, ClientPcs
<1>6. ASSUME NEW s \in Slots, Refuse(s)
      PROVE  TypeOK'
  BY <1>6, NoRequestType DEF Refuse, Answered, CheckUrl, States, ClientPcs
<1>7. ASSUME NEW s \in Slots, AnswerParameter(s)
      PROVE  TypeOK'
  BY <1>7, NoRequestType DEF AnswerParameter, Answered, CheckUrl, ClientPcs
<1>8. ASSUME NEW s \in Slots, CheckState(s)
      PROVE  TypeOK'
  BY <1>8 DEF CheckState, CheckUrl, ClientPcs
<1>9. ASSUME NEW s \in Slots, EnterAndAnswer(s)
      PROVE  TypeOK'
  BY <1>9, NoRequestType DEF EnterAndAnswer, Answered, States, ClientPcs
<1>10. ASSUME NEW s \in Slots, Enter(s)
      PROVE  TypeOK'
  BY <1>10 DEF Enter, States, ClientPcs
<1>11. ASSUME NEW s \in Slots, AnswerPlay(s)
      PROVE  TypeOK'
  BY <1>11, NoRequestType DEF AnswerPlay, Answered, ClientPcs
<1>12. ASSUME NEW s \in Slots, AnswerTeardown(s)
      PROVE  TypeOK'
  BY <1>12, NoRequestType DEF AnswerTeardown, Answered, ClientPcs
<1>13. ASSUME NEW s \in Slots, SetupFindsMutex(s)
      PROVE  TypeOK'
  BY <1>13 DEF SetupFindsMutex, ClientPcs
<1>14. ASSUME NEW s \in Slots, SetupMakesMutex(s)
      PROVE  TypeOK'
  <2>1. s \in Makers
    BY <1>14 DEF SetupMakesMutex, Makers
  <2>2. Cardinality(Makers) # 0
    BY <2>1, MakersCounted, FS_EmptySet
  <2>3. semPtr' \in 0 .. NumSlots
    BY <1>14, <2>2, MakersCounted, SlotsAssumption DEF SetupMakesMutex, MakersFit
  <2> QED
    BY <1>14, <2>3 DEF SetupMakesMutex, ClientPcs
<1>15. ASSUME NEW s \in Slots, SetupRefuses(s)
      PROVE  TypeOK'
  BY <1>15 DEF SetupRefuses, ClientPcs
<1>16. ASSUME NEW s \in Slots, SetupFails(s)
      PROVE  TypeOK'
  BY <1>16 DEF SetupFails, States, ClientPcs
<1>17. ASSUME NEW s \in Slots, SetupStartsWorker(s)
      PROVE  TypeOK'
  BY <1>17 DEF SetupStartsWorker, SetupMayStart, ClientPcs, SenderPcs
<1>18. ASSUME NEW s \in Slots, SetupNeedsNoWorker(s)
      PROVE  TypeOK'
  BY <1>18 DEF SetupNeedsNoWorker, SetupMayStart, ClientPcs
<1>19. ASSUME NEW s \in Slots, SetupAddsQuery(s)
      PROVE  TypeOK'
  BY <1>19 DEF SetupAddsQuery, ClientPcs
<1>51. ASSUME NEW s \in Slots,
              SetupTakesMutex(s) \/ SetupBlocks(s) \/ SetupWakes(s) \/ SetupHalts(s)
       PROVE  TypeOK'
  BY <1>51 DEF SetupTakesMutex, SetupBlocks, SetupWakes, SetupHalts, ClientPcs, Slots
<1>52. ASSUME NEW s \in Slots, SetupGivesMutex(s)
       PROVE  TypeOK'
  <2>1. semHolder' \in [Slots -> 0 .. NumSlots]
    <3>1. semHolder' = [semHolder EXCEPT ![semPtr] = 0] /\ 0 \in 0 .. NumSlots
      BY <1>52, SlotsAssumption DEF SetupGivesMutex
    <3> QED
      BY <3>1
  <2> QED
    BY <1>52, <2>1, NoRequestType DEF SetupGivesMutex, Answered, ClientPcs
<1>20. ASSUME NEW s \in Slots, ClientCloses(s)
      PROVE  TypeOK'
  BY <1>20 DEF ClientCloses, States, ClientPcs
<1>21. ASSUME NEW s \in Slots, ClientStopsWaiting(s)
      PROVE  TypeOK'
  BY <1>21 DEF ClientStopsWaiting, ClientPcs
<1>22. ASSUME NEW s \in Slots, ClientFreesMemory(s)
      PROVE  TypeOK'
  BY <1>22 DEF ClientFreesMemory, ClientPcs
<1>23. ASSUME NEW s \in Slots, ClientZeroesSlot(s)
      PROVE  TypeOK'
  BY <1>23 DEF ClientZeroesSlot, ZeroSlot, States, ClientPcs
<1>24. ASSUME NEW w \in Workers, WorkerEnds(w)
      PROVE  TypeOK'
  BY <1>24 DEF WorkerEnds, WorkerGoes, SenderPcs
<1>25. ASSUME NEW w \in Workers, WorkerPlays(w)
      PROVE  TypeOK'
  BY <1>25 DEF WorkerPlays, WorkerGoes, SenderPcs
<1>26. ASSUME NEW w \in Workers, WorkerLosesSession(w)
      PROVE  TypeOK'
  BY <1>26 DEF WorkerLosesSession, WorkerGoes, SenderPcs
<1>27. ASSUME NEW w \in Workers, WorkerIdles(w)
      PROVE  TypeOK'
  BY <1>27 DEF WorkerIdles, WorkerGoes, SenderPcs
<1>28. ASSUME NEW w \in Workers, WorkerBuilds(w)
      PROVE  TypeOK'
  BY <1>28 DEF WorkerBuilds, WorkerGoes, SenderPcs
<1>29. ASSUME NEW w \in Workers, WorkerDropsPacket(w)
      PROVE  TypeOK'
  BY <1>29 DEF WorkerDropsPacket, WorkerGoes, SenderPcs
<1>30. ASSUME NEW w \in Workers, WorkerSends(w)
      PROVE  TypeOK'
  BY <1>30 DEF WorkerSends, WorkerGoes, SenderPcs
<1>31. ASSUME NEW w \in Workers, WorkerSent(w)
      PROVE  TypeOK'
  BY <1>31 DEF WorkerSent, WorkerGoes, SenderPcs
<1>32. ASSUME NEW w \in Workers, WorkerFails(w)
      PROVE  TypeOK'
  BY <1>32 DEF WorkerFails, WorkerGoes, SenderPcs
<1>33. ASSUME NEW w \in Workers, WorkerExits(w)
      PROVE  TypeOK'
  BY <1>33 DEF WorkerExits, WorkerGoes, SenderPcs
<1>34. CASE UdpSkips
  BY <1>34, NextSlotType DEF UdpSkips, UdpGoes, UdpMovesOn
<1>35. CASE UdpPlays
  BY <1>35, NextSlotType DEF UdpPlays, UdpGoes, UdpMovesOn
<1>36. CASE UdpSeesTeardown
  BY <1>36, NextSlotType DEF UdpSeesTeardown, UdpGoes, UdpMovesOn
<1>37. CASE UdpClears
  BY <1>37, NextSlotType DEF UdpClears, UdpGoes, UdpMovesOn
<1>38. CASE UdpLosesSession
  BY <1>38, NextSlotType DEF UdpLosesSession, UdpGoes, UdpMovesOn
<1>39. CASE UdpIdles
  BY <1>39, NextSlotType DEF UdpIdles, UdpGoes, UdpMovesOn
<1>40. CASE UdpBuilds
  BY <1>40, NextSlotType DEF UdpBuilds, UdpGoes, UdpMovesOn
<1>41. CASE UdpDropsPacket
  BY <1>41, NextSlotType DEF UdpDropsPacket, UdpGoes, UdpMovesOn
<1>42. CASE UdpSends
  BY <1>42, NextSlotType DEF UdpSends, UdpGoes, UdpMovesOn
<1>43. CASE UdpSent
  BY <1>43, NextSlotType DEF UdpSent, UdpGoes, UdpMovesOn
<1>44. CASE UdpFails
  BY <1>44, NextSlotType DEF UdpFails, UdpGoes, UdpMovesOn, States
<1>45. ASSUME NEW s \in Slots, KickChecks(s)
      PROVE  TypeOK'
  BY <1>45 DEF KickChecks, Slots
<1>46. CASE KickWrites
  BY <1>46, SlotsAssumption DEF KickWrites, Slots, States
<1>47. CASE UNCHANGED vars
  BY <1>47 DEF vars
<1> QED
  BY <1>1, <1>2, <1>3, <1>4, <1>5, <1>6, <1>7, <1>8, <1>9, <1>10, <1>11, <1>12, <1>13,
     <1>14, <1>15, <1>16, <1>17, <1>18, <1>19, <1>20, <1>21, <1>22, <1>23, <1>24, <1>25,
     <1>26, <1>27, <1>28, <1>29, <1>30, <1>31, <1>32, <1>33, <1>34, <1>35, <1>36, <1>37,
     <1>38, <1>39, <1>40, <1>41, <1>42, <1>43, <1>44, <1>45, <1>46, <1>47,
     <1>51, <1>52 DEF Next,
     ClientWorks, Worker, Udp

\* Every variable keeps its type; in particular SETUP makes no more mutexes than there
\* are slots.
THEOREM TypeCorrect == Spec => []TypeOK
<1>1. Init => TypeOK /\ MakersFit
  <2> SUFFICES ASSUME Init
               PROVE  TypeOK /\ MakersFit
    OBVIOUS
  <2>1. Makers = {}
    BY DEF Init, Makers
  <2>2. MakersFit
    BY <2>1, FS_EmptySet, SlotsAssumption DEF Init, MakersFit
  <2>3. 1 \in Slots /\ 0 \in 0 .. NumSlots
    BY SlotsAssumption DEF Slots
  <2>4. TypeOK
    BY <2>3, NoRequestType DEF Init, TypeOK, States, ClientPcs
  <2> QED
    BY <2>2, <2>4
<1>2. TypeOK /\ MakersFit /\ [Next]_vars => TypeOK' /\ MakersFit'
  BY TypeStep, MakersStep
<1> QED
  BY <1>1, <1>2, PTL DEF Spec
------------------------------------------------------------------------------
\* Where there is a queue, and where the state cannot be PLAY.
QueueReady ==
  \A s \in Slots :
    /\ cpc[s] \notin {"none", "init", "free"} => queue[s]
    /\ cpc[s] \in {"none", "init", "wait", "close", "free"} => state[s] # "PLAY"

\* Every step keeps QueueReady.
LEMMA QueueStep == TypeOK /\ QueueReady /\ [Next]_vars => QueueReady'
<1> SUFFICES ASSUME TypeOK, QueueReady, [Next]_vars
             PROVE  QueueReady'
  OBVIOUS
<1> USE DEF TypeOK, QueueReady, Goto, SetState, slotVars
<1>1. ASSUME NEW s \in Slots, Accept(s)
      PROVE  QueueReady'
  BY <1>1 DEF Accept, ZeroSlot
<1>2. ASSUME NEW s \in Slots, ClientDrops(s)
      PROVE  QueueReady'
  BY <1>2 DEF ClientDrops
<1>3. ASSUME NEW s \in Slots, ClientReads(s)
      PROVE  QueueReady'
  BY <1>3 DEF ClientReads
<1>4. ASSUME NEW s \in Slots, ClientInit(s)
      PROVE  QueueReady'
  BY <1>4 DEF ClientInit
<1>5. ASSUME NEW s \in Slots, ClientEnds(s)
      PROVE  QueueReady'
  BY <1>5 DEF ClientEnds
<1>6. ASSUME NEW s \in Slots, Refuse(s)
      PROVE  QueueReady'
  BY <1>6 DEF Refuse, Answered
<1>7. ASSUME NEW s \in Slots, AnswerParameter(s)
      PROVE  QueueReady'
  BY <1>7 DEF AnswerParameter, Answered
<1>8. ASSUME NEW s \in Slots, CheckState(s)
      PROVE  QueueReady'
  BY <1>8 DEF CheckState
<1>9. ASSUME NEW s \in Slots, EnterAndAnswer(s)
      PROVE  QueueReady'
  BY <1>9 DEF EnterAndAnswer, Answered
<1>10. ASSUME NEW s \in Slots, Enter(s)
      PROVE  QueueReady'
  BY <1>10 DEF Enter
<1>11. ASSUME NEW s \in Slots, AnswerPlay(s)
      PROVE  QueueReady'
  BY <1>11 DEF AnswerPlay, Answered
<1>12. ASSUME NEW s \in Slots, AnswerTeardown(s)
      PROVE  QueueReady'
  BY <1>12 DEF AnswerTeardown, Answered
<1>13. ASSUME NEW s \in Slots, SetupFindsMutex(s)
      PROVE  QueueReady'
  BY <1>13 DEF SetupFindsMutex
<1>14. ASSUME NEW s \in Slots, SetupMakesMutex(s)
      PROVE  QueueReady'
  BY <1>14 DEF SetupMakesMutex
<1>15. ASSUME NEW s \in Slots, SetupRefuses(s)
      PROVE  QueueReady'
  BY <1>15 DEF SetupRefuses
<1>16. ASSUME NEW s \in Slots, SetupFails(s)
      PROVE  QueueReady'
  BY <1>16 DEF SetupFails
<1>17. ASSUME NEW s \in Slots, SetupStartsWorker(s)
      PROVE  QueueReady'
  BY <1>17 DEF SetupStartsWorker, SetupMayStart
<1>18. ASSUME NEW s \in Slots, SetupNeedsNoWorker(s)
      PROVE  QueueReady'
  BY <1>18 DEF SetupNeedsNoWorker, SetupMayStart
<1>19. ASSUME NEW s \in Slots, SetupAddsQuery(s)
      PROVE  QueueReady'
  BY <1>19 DEF SetupAddsQuery
<1>51. ASSUME NEW s \in Slots,
              SetupTakesMutex(s) \/ SetupBlocks(s) \/ SetupWakes(s) \/ SetupHalts(s)
       PROVE  QueueReady'
  BY <1>51 DEF SetupTakesMutex, SetupBlocks, SetupWakes, SetupHalts
<1>52. ASSUME NEW s \in Slots, SetupGivesMutex(s)
       PROVE  QueueReady'
  BY <1>52 DEF SetupGivesMutex, Answered
<1>20. ASSUME NEW s \in Slots, ClientCloses(s)
      PROVE  QueueReady'
  BY <1>20 DEF ClientCloses
<1>21. ASSUME NEW s \in Slots, ClientStopsWaiting(s)
      PROVE  QueueReady'
  BY <1>21 DEF ClientStopsWaiting
<1>22. ASSUME NEW s \in Slots, ClientFreesMemory(s)
      PROVE  QueueReady'
  BY <1>22 DEF ClientFreesMemory
<1>23. ASSUME NEW s \in Slots, ClientZeroesSlot(s)
      PROVE  QueueReady'
  BY <1>23 DEF ClientZeroesSlot, ZeroSlot
<1>24. ASSUME NEW w \in Workers, Worker(w)
      PROVE  QueueReady'
  BY <1>24 DEF Worker, WorkerGoes, WorkerEnds, WorkerPlays, WorkerLosesSession,
     WorkerIdles, WorkerBuilds, WorkerDropsPacket, WorkerSends, WorkerSent, WorkerFails,
     WorkerExits, clientVars
<1>25. CASE Udp /\ ~UdpFails
  BY <1>25 DEF Udp, UdpGoes, UdpMovesOn, UdpSkips, UdpPlays, UdpSeesTeardown, UdpClears,
     UdpLosesSession, UdpIdles, UdpBuilds, UdpDropsPacket, UdpSends, UdpSent, clientVars
<1>26. CASE UdpFails
  BY <1>26 DEF UdpFails, clientVars
<1>27. CASE KickWrites
  BY <1>27 DEF KickWrites, clientVars
<1>28. CASE (\E s \in Slots : KickChecks(s)) \/ UNCHANGED vars
  BY <1>28 DEF KickChecks, vars, clientVars
<1> QED
  BY <1>1, <1>2, <1>3, <1>4, <1>5, <1>6, <1>7, <1>8, <1>9, <1>10, <1>11, <1>12, <1>13,
     <1>14, <1>15, <1>16, <1>17, <1>18, <1>19, <1>20, <1>21, <1>22, <1>23, <1>24, <1>25,
     <1>26, <1>27, <1>28, <1>51, <1>52 DEF Next, ClientWorks

\* The stream interrupt (rtp_queue_stream_video_put) never puts into a queue that is
\* not allocated: rtspd_client_main makes the queue before it reads a request and
\* writes TEARDOWN before it frees it.
THEOREM PutQueueExists == Spec => []PutHasQueue
<1>1. Init => QueueReady
  BY DEF Init, QueueReady
<1>2. QueueReady => PutHasQueue
  BY DEF QueueReady, PutHasQueue
<1> QED
  BY <1>1, <1>2, TypeCorrect, QueueStep, PTL DEF Spec
------------------------------------------------------------------------------
(***************************************************************************)
(* TCP sender tasks.  One lives at most as long as play_query is set or    *)
(* SETUP is about to set it, so a second one is not made and the closing   *)
(* client waits.  This needs that only the task itself clears play_query:  *)
(* the assumption that no session is set up over both transports, since    *)
(* the UDP task clears the play_query of any slot it takes for its own.    *)
(***************************************************************************)

OneTransport == \A s \in Slots : "TCP" \notin Transports[s] \/ "UDP" \notin Transports[s]

\* Each sender works only for slots whose clients ask for its transport.
SendersKeepApart ==
  /\ \A s \in Slots : eTransport[s] # "NONE" => eTransport[s] \in Transports[s]
  /\ upc # "visit" => "UDP" \in Transports[uslot]
  /\ \A w \in Workers : wpc[w] # "none" => "TCP" \in Transports[wslot[w]]

\* A slot with a client task is not given away.
Taken == \A s \in Slots : cpc[s] # "none" => valid[s]

\* A sender task's slot is in use, and says that it has a sender or is about to.
WorkerServes ==
  \A w \in Workers : wpc[w] # "none" =>
    /\ cpc[wslot[w]] \notin {"none", "init", "close", "free"}
    /\ playQuery[wslot[w]] \/ cpc[wslot[w]] = "addquery"

TcpInv == SendersKeepApart /\ Taken /\ WorkerServes /\ OneWorkerPerSlot

\* Every step keeps TcpInv.
LEMMA TcpStep ==
  TypeOK /\ TcpInv /\ [Next]_vars /\ OneTransport => TcpInv'
<1> SUFFICES ASSUME TypeOK, TcpInv, [Next]_vars, OneTransport
             PROVE  TcpInv'
  OBVIOUS
<1> USE DEF TypeOK, TcpInv, SendersKeepApart, Taken, WorkerServes, OneWorkerPerSlot, Goto
<1>1. ASSUME NEW s \in Slots, Accept(s)
      PROVE  TcpInv'
  BY <1>1 DEF Accept, ZeroSlot, slotVars, workerVars, udpVars
<1>2. ASSUME NEW s \in Slots, ClientDrops(s)
      PROVE  TcpInv'
  BY <1>2 DEF ClientDrops, slotVars, workerVars, udpVars
<1>3. ASSUME NEW s \in Slots, ClientReads(s)
      PROVE  TcpInv'
  BY <1>3 DEF ClientReads, slotVars, workerVars, udpVars
<1>4. ASSUME NEW s \in Slots, ClientInit(s)
      PROVE  TcpInv'
  BY <1>4 DEF ClientInit, slotVars, workerVars, udpVars
<1>5. ASSUME NEW s \in Slots, ClientEnds(s)
      PROVE  TcpInv'
  BY <1>5 DEF ClientEnds, slotVars, workerVars, udpVars
<1>6. ASSUME NEW s \in Slots, Refuse(s)
      PROVE  TcpInv'
  BY <1>6 DEF Refuse, Answered, slotVars, workerVars, udpVars
<1>7. ASSUME NEW s \in Slots, AnswerParameter(s)
      PROVE  TcpInv'
  BY <1>7 DEF AnswerParameter, Answered, slotVars, workerVars, udpVars
<1>8. ASSUME NEW s \in Slots, CheckState(s)
      PROVE  TcpInv'
  BY <1>8 DEF CheckState, slotVars, workerVars, udpVars
<1>9. ASSUME NEW s \in Slots, EnterAndAnswer(s)
      PROVE  TcpInv'
  BY <1>9 DEF EnterAndAnswer, Answered, slotVars, workerVars, udpVars
<1>10. ASSUME NEW s \in Slots, Enter(s)
      PROVE  TcpInv'
  BY <1>10 DEF Enter, slotVars, workerVars, udpVars
<1>11. ASSUME NEW s \in Slots, AnswerPlay(s)
      PROVE  TcpInv'
  BY <1>11 DEF AnswerPlay, Answered, slotVars, workerVars, udpVars
<1>12. ASSUME NEW s \in Slots, AnswerTeardown(s)
      PROVE  TcpInv'
  BY <1>12 DEF AnswerTeardown, Answered, slotVars, workerVars, udpVars
<1>13. ASSUME NEW s \in Slots, SetupFindsMutex(s)
      PROVE  TcpInv'
  BY <1>13 DEF SetupFindsMutex, slotVars, workerVars, udpVars
<1>14. ASSUME NEW s \in Slots, SetupMakesMutex(s)
      PROVE  TcpInv'
  BY <1>14 DEF SetupMakesMutex, slotVars, workerVars, udpVars
<1>15. ASSUME NEW s \in Slots, SetupRefuses(s)
      PROVE  TcpInv'
  BY <1>15 DEF SetupRefuses, slotVars, workerVars, udpVars
<1>16. ASSUME NEW s \in Slots, SetupFails(s)
      PROVE  TcpInv'
  BY <1>16 DEF SetupFails, slotVars, workerVars, udpVars
<1>17. ASSUME NEW s \in Slots, SetupStartsWorker(s)
      PROVE  TcpInv'
  BY <1>17 DEF SetupStartsWorker, SetupMayStart, slotVars, workerVars, udpVars
<1>18. ASSUME NEW s \in Slots, SetupNeedsNoWorker(s)
      PROVE  TcpInv'
  BY <1>18 DEF SetupNeedsNoWorker, SetupMayStart, slotVars, workerVars, udpVars
<1>19. ASSUME NEW s \in Slots, SetupAddsQuery(s)
      PROVE  TcpInv'
  BY <1>19 DEF SetupAddsQuery, slotVars, workerVars, udpVars
<1>51. ASSUME NEW s \in Slots,
              SetupTakesMutex(s) \/ SetupBlocks(s) \/ SetupWakes(s) \/ SetupHalts(s)
       PROVE  TcpInv'
  BY <1>51 DEF SetupTakesMutex, SetupBlocks, SetupWakes, SetupHalts, slotVars, workerVars,
     udpVars
<1>52. ASSUME NEW s \in Slots, SetupGivesMutex(s)
       PROVE  TcpInv'
  BY <1>52 DEF SetupGivesMutex, Answered, slotVars, workerVars, udpVars
<1>20. ASSUME NEW s \in Slots, ClientCloses(s)
      PROVE  TcpInv'
  BY <1>20 DEF ClientCloses, slotVars, workerVars, udpVars
<1>21. ASSUME NEW s \in Slots, ClientStopsWaiting(s)
      PROVE  TcpInv'
  BY <1>21 DEF ClientStopsWaiting, slotVars, workerVars, udpVars
<1>22. ASSUME NEW s \in Slots, ClientFreesMemory(s)
      PROVE  TcpInv'
  BY <1>22 DEF ClientFreesMemory, slotVars, workerVars, udpVars
<1>23. ASSUME NEW s \in Slots, ClientZeroesSlot(s)
      PROVE  TcpInv'
  BY <1>23 DEF ClientZeroesSlot, ZeroSlot, slotVars, workerVars, udpVars
<1>24. ASSUME NEW w \in Workers, WorkerEnds(w)
      PROVE  TcpInv'
  BY <1>24 DEF WorkerEnds, WorkerGoes, slotVars, clientVars, udpVars
<1>25. ASSUME NEW w \in Workers, WorkerPlays(w)
      PROVE  TcpInv'
  BY <1>25 DEF WorkerPlays, WorkerGoes, slotVars, clientVars, udpVars
<1>26. ASSUME NEW w \in Workers, WorkerLosesSession(w)
      PROVE  TcpInv'
  BY <1>26 DEF WorkerLosesSession, WorkerGoes, slotVars, clientVars, udpVars
<1>27. ASSUME NEW w \in Workers, WorkerIdles(w)
      PROVE  TcpInv'
  BY <1>27 DEF WorkerIdles, WorkerGoes, slotVars, clientVars, udpVars
<1>28. ASSUME NEW w \in Workers, WorkerBuilds(w)
      PROVE  TcpInv'
  BY <1>28 DEF WorkerBuilds, WorkerGoes, slotVars, clientVars, udpVars
<1>29. ASSUME NEW w \in Workers, WorkerDropsPacket(w)
      PROVE  TcpInv'
  BY <1>29 DEF WorkerDropsPacket, WorkerGoes, slotVars, clientVars, udpVars
<1>30. ASSUME NEW w \in Workers, WorkerSends(w)
      PROVE  TcpInv'
  BY <1>30 DEF WorkerSends, WorkerGoes, slotVars, clientVars, udpVars
<1>31. ASSUME NEW w \in Workers, WorkerSent(w)
      PROVE  TcpInv'
  BY <1>31 DEF WorkerSent, WorkerGoes, slotVars, clientVars, udpVars
<1>32. ASSUME NEW w \in Workers, WorkerFails(w)
      PROVE  TcpInv'
  BY <1>32 DEF WorkerFails, WorkerGoes, slotVars, clientVars, udpVars
<1>33. ASSUME NEW w \in Workers, WorkerExits(w)
      PROVE  TcpInv'
  BY <1>33 DEF WorkerExits, WorkerGoes, slotVars, clientVars, udpVars
<1>34. CASE UdpSkips
  BY <1>34 DEF UdpSkips, UdpMovesOn, slotVars, clientVars, workerVars
<1>35. CASE UdpClears
  BY <1>35 DEF UdpClears, NextSlot, OneTransport, clientVars, workerVars
<1>36. CASE UdpPlays \/ UdpSeesTeardown \/ UdpLosesSession \/ UdpBuilds \/ UdpSends
  BY <1>36 DEF UdpPlays, UdpSeesTeardown, UdpLosesSession, UdpBuilds, UdpSends, UdpGoes,
     slotVars, clientVars, workerVars
<1>37. CASE UdpIdles \/ UdpDropsPacket \/ UdpSent
  BY <1>37 DEF UdpIdles, UdpDropsPacket, UdpSent, UdpMovesOn, slotVars, clientVars,
     workerVars
<1>38. CASE UdpFails
  BY <1>38 DEF UdpFails, NextSlot, SetState, clientVars, workerVars
<1>39. CASE KickWrites
  BY <1>39 DEF KickWrites, clientVars, workerVars, udpVars
<1>40. CASE (\E s \in Slots : KickChecks(s)) \/ UNCHANGED vars
  BY <1>40 DEF KickChecks, vars, slotVars, clientVars, workerVars, udpVars
<1> QED
  BY <1>1, <1>2, <1>3, <1>4, <1>5, <1>6, <1>7, <1>8, <1>9, <1>10, <1>11, <1>12, <1>13,
     <1>14, <1>15, <1>16, <1>17, <1>18, <1>19, <1>20, <1>21, <1>22, <1>23, <1>24, <1>25,
     <1>26, <1>27, <1>28, <1>29, <1>30, <1>31, <1>32, <1>33, <1>34, <1>35, <1>36, <1>37,
     <1>38, <1>39, <1>40, <1>51, <1>52 DEF Next, ClientWorks, Worker, Udp

\* A TCP sender task never outlives its connection, and no slot has two of them:
\* rtspd_client_rtsp_process_setup makes one only when play_query is clear, and
\* rtspd_client_main frees the slot only then.
THEOREM TcpOwnership ==
  ASSUME OneTransport
  PROVE  Spec => [](WorkerOwnsSlot /\ OneWorkerPerSlot)
<1>1. Init => TcpInv
  BY DEF Init, TcpInv, SendersKeepApart, Taken, WorkerServes, OneWorkerPerSlot
<1>2. TypeOK /\ TcpInv /\ [Next]_vars => TcpInv'
  BY TcpStep
<1>3. TcpInv => WorkerOwnsSlot /\ OneWorkerPerSlot
  BY DEF TcpInv, WorkerServes, WorkerOwnsSlot
<1> QED
  BY <1>1, <1>2, <1>3, TypeCorrect, PTL DEF Spec
------------------------------------------------------------------------------
(***************************************************************************)
(* The UDP sender task.  It works for a slot only between a PLAY and the   *)
(* play_query = 0 that it stores itself, for which the closing client      *)
(* waits.  This needs that a state of PLAY always comes with play_query:   *)
(* no kick, after which PLAY can be written over a TEARDOWN the UDP task   *)
(* has already seen; and ClearIsQuick, without which that store can hit    *)
(* the next connection of the slot.                                        *)
(***************************************************************************)
UdpOnly(s) == "TCP" \notin Transports[s]

\* What the client task's place says of the state.
StateFollowsClient ==
  \A s \in Slots :
    /\ cpc[s] \in {"none", "init"} => state[s] = "NONE"
    /\ cpc[s] \in {"wait", "close", "free"} => state[s] \in {"TEARDOWN", "ERROR"}
    /\ state[s] = "TEARDOWN" =>
         cpc[s] \in {"teardown", "loop", "closing", "wait", "close", "free"}

\* A session that plays, or is about to, has play_query set.
PlayHasQuery ==
  \A s \in Slots : UdpOnly(s) =>
    /\ state[s] = "PLAY" => playQuery[s]
    /\ cpc[s] = "enter" /\ req[s].method = "PLAY" => playQuery[s]

\* The UDP task is about to clear the play_query of a session torn down, or of a slot
\* left by one.
ClearsWhatIsOver ==
  upc = "clear" =>
    \/ state[uslot] = "TEARDOWN"
    \/ cpc[uslot] = "none"

UdpServes ==
  upc \in {"video", "send", "transmit"} =>
    /\ playQuery[uslot]
    /\ cpc[uslot] \notin {"none", "init", "close", "free"}

UdpInv == StateFollowsClient /\ PlayHasQuery /\ ClearsWhatIsOver /\ UdpServes /\ kick = 0

\* Every step keeps UdpInv.
LEMMA UdpStep ==
  TypeOK /\ TcpInv /\ UdpInv /\ [Next]_vars /\ OneTransport /\ ClearIsQuick /\ "kick" \notin Events
    => UdpInv'
<1> SUFFICES ASSUME TypeOK, TcpInv, UdpInv, [Next]_vars, OneTransport, ClearIsQuick,
                    "kick" \notin Events
             PROVE  UdpInv'
  OBVIOUS
<1> USE DEF TypeOK, UdpInv, StateFollowsClient, PlayHasQuery, ClearsWhatIsOver, UdpServes,
            UdpOnly, Goto
<1> DEFINE Apart == SendersKeepApart /\ OneTransport
<1>0. Apart
  BY DEF TcpInv
<1>1. ASSUME NEW s \in Slots, Accept(s)
      PROVE  UdpInv'
  BY <1>1 DEF Accept, ZeroSlot, udpVars, TcpInv, Taken
<1>2. ASSUME NEW s \in Slots, ClientDrops(s)
      PROVE  UdpInv'
  BY <1>2 DEF ClientDrops, udpVars, slotVars
<1>3. ASSUME NEW s \in Slots, ClientReads(s)
      PROVE  UdpInv'
  BY <1>3 DEF ClientReads, udpVars
<1>4. ASSUME NEW s \in Slots, ClientInit(s)
      PROVE  UdpInv'
  BY <1>4 DEF ClientInit, SetState, udpVars
<1>5. ASSUME NEW s \in Slots, ClientEnds(s)
      PROVE  UdpInv'
  BY <1>5 DEF ClientEnds, udpVars, slotVars
<1>6. ASSUME NEW s \in Slots, Refuse(s)
      PROVE  UdpInv'
  BY <1>6 DEF Refuse, udpVars, Answered, SetState, CheckUrl
<1>7. ASSUME NEW s \in Slots, AnswerParameter(s)
      PROVE  UdpInv'
  BY <1>7 DEF AnswerParameter, udpVars, Answered, CheckUrl
<1>8. ASSUME NEW s \in Slots, CheckState(s)
      PROVE  UdpInv'
  BY <1>8 DEF CheckState, udpVars, CheckUrl, Allowed
<1>9. ASSUME NEW s \in Slots, EnterAndAnswer(s)
      PROVE  UdpInv'
  BY <1>9 DEF EnterAndAnswer, udpVars, Answered, SetState
<1>10. ASSUME NEW s \in Slots, Enter(s)
      PROVE  UdpInv'
  BY <1>10 DEF Enter, udpVars, SetState
<1>11. ASSUME NEW s \in Slots, AnswerPlay(s)
      PROVE  UdpInv'
  BY <1>11 DEF AnswerPlay, udpVars, Answered, slotVars
<1>12. ASSUME NEW s \in Slots, AnswerTeardown(s)
      PROVE  UdpInv'
  BY <1>12 DEF AnswerTeardown, udpVars, Answered
<1>13. ASSUME NEW s \in Slots, SetupFindsMutex(s)
      PROVE  UdpInv'
  BY <1>13 DEF SetupFindsMutex, udpVars, slotVars
<1>14. ASSUME NEW s \in Slots, SetupMakesMutex(s)
      PROVE  UdpInv'
  BY <1>14 DEF SetupMakesMutex, udpVars, slotVars
<1>15. ASSUME NEW s \in Slots, SetupRefuses(s)
      PROVE  UdpInv'
  BY <1>15 DEF SetupRefuses, udpVars, slotVars
<1>16. ASSUME NEW s \in Slots, SetupFails(s)
      PROVE  UdpInv'
  BY <1>16 DEF SetupFails, udpVars
<1>17. ASSUME NEW s \in Slots, SetupStartsWorker(s)
      PROVE  UdpInv'
  BY <1>17 DEF SetupStartsWorker, udpVars, SetupMayStart
<1>18. ASSUME NEW s \in Slots, SetupNeedsNoWorker(s)
      PROVE  UdpInv'
  BY <1>18 DEF SetupNeedsNoWorker, udpVars, SetupMayStart
<1>19. ASSUME NEW s \in Slots, SetupAddsQuery(s)
      PROVE  UdpInv'
  BY <1>19 DEF SetupAddsQuery, udpVars
<1>51. ASSUME NEW s \in Slots,
              SetupTakesMutex(s) \/ SetupBlocks(s) \/ SetupWakes(s) \/ SetupHalts(s)
       PROVE  UdpInv'
  BY <1>51 DEF SetupTakesMutex, SetupBlocks, SetupWakes, SetupHalts, udpVars, slotVars
<1>52. ASSUME NEW s \in Slots, SetupGivesMutex(s)
       PROVE  UdpInv'
  BY <1>52 DEF SetupGivesMutex, Answered, udpVars, slotVars
<1>20. ASSUME NEW s \in Slots, ClientCloses(s)
      PROVE  UdpInv'
  BY <1>20 DEF ClientCloses, udpVars, SetState
<1>21. ASSUME NEW s \in Slots, ClientStopsWaiting(s)
      PROVE  UdpInv'
  BY <1>21 DEF ClientStopsWaiting, udpVars, slotVars
<1>22. ASSUME NEW s \in Slots, ClientFreesMemory(s)
      PROVE  UdpInv'
  BY <1>22 DEF ClientFreesMemory, udpVars
<1>23. ASSUME NEW s \in Slots, ClientZeroesSlot(s)
      PROVE  UdpInv'
  BY <1>23 DEF ClientZeroesSlot, udpVars, ZeroSlot
<1>24. ASSUME NEW w \in Workers, WorkerEnds(w)
      PROVE  UdpInv'
  BY <1>24 DEF WorkerEnds, WorkerGoes, slotVars, clientVars, udpVars
<1>25. ASSUME NEW w \in Workers, WorkerPlays(w)
      PROVE  UdpInv'
  BY <1>25 DEF WorkerPlays, WorkerGoes, slotVars, clientVars, udpVars
<1>26. ASSUME NEW w \in Workers, WorkerLosesSession(w)
      PROVE  UdpInv'
  BY <1>26 DEF WorkerLosesSession, WorkerGoes, slotVars, clientVars, udpVars
<1>27. ASSUME NEW w \in Workers, WorkerIdles(w)
      PROVE  UdpInv'
  BY <1>27 DEF WorkerIdles, WorkerGoes, slotVars, clientVars, udpVars
<1>28. ASSUME NEW w \in Workers, WorkerBuilds(w)
      PROVE  UdpInv'
  BY <1>28 DEF WorkerBuilds, WorkerGoes, slotVars, clientVars, udpVars
<1>29. ASSUME NEW w \in Workers, WorkerDropsPacket(w)
      PROVE  UdpInv'
  BY <1>29 DEF WorkerDropsPacket, WorkerGoes, slotVars, clientVars, udpVars
<1>30. ASSUME NEW w \in Workers, WorkerSends(w)
      PROVE  UdpInv'
  BY <1>30 DEF WorkerSends, WorkerGoes, slotVars, clientVars, udpVars
<1>31. ASSUME NEW w \in Workers, WorkerSent(w)
      PROVE  UdpInv'
  BY <1>31 DEF WorkerSent, WorkerGoes, slotVars, clientVars, udpVars
<1>32. ASSUME NEW w \in Workers, WorkerFails(w)
      PROVE  UdpInv'
  BY <1>32 DEF WorkerFails, WorkerGoes, slotVars, clientVars, udpVars
<1>33. ASSUME NEW w \in Workers, WorkerExits(w)
      PROVE  UdpInv'
  BY <1>0, <1>33 DEF SendersKeepApart, OneTransport, WorkerExits, clientVars, udpVars
<1>34. CASE UdpSkips \/ UdpIdles \/ UdpDropsPacket \/ UdpSent
  BY <1>34 DEF UdpSkips, UdpIdles, UdpDropsPacket, UdpSent, UdpMovesOn, slotVars, clientVars
<1>35. CASE UdpPlays
  BY <1>0, <1>35 DEF SendersKeepApart, OneTransport, UdpPlays, UdpGoes, slotVars, clientVars
<1>36. CASE UdpSeesTeardown \/ UdpLosesSession \/ UdpBuilds \/ UdpSends
  BY <1>36 DEF UdpSeesTeardown, UdpLosesSession, UdpBuilds, UdpSends, UdpGoes,
     slotVars, clientVars
<1>37. CASE UdpClears
  BY <1>37 DEF UdpClears, clientVars
<1>38. CASE UdpFails
  BY <1>38 DEF UdpFails, SetState, clientVars
<1>39. CASE UNCHANGED vars
  BY <1>39 DEF vars, slotVars, clientVars, udpVars
<1>40. \A s \in Slots : ~KickChecks(s) /\ ~KickWrites
  BY DEF KickChecks, KickWrites
<1> QED
  BY <1>1, <1>2, <1>3, <1>4, <1>5, <1>6, <1>7, <1>8, <1>9, <1>10, <1>11, <1>12, <1>13,
     <1>14, <1>15, <1>16, <1>17, <1>18, <1>19, <1>20, <1>21, <1>22, <1>23, <1>24,
     <1>25, <1>26, <1>27, <1>28, <1>29, <1>30, <1>31, <1>32, <1>33, <1>34, <1>35,
     <1>36, <1>37, <1>38, <1>39, <1>40,
     <1>51, <1>52 DEF Next, ClientWorks, Worker, Udp

\* The UDP task never works for a slot whose connection is being freed, is gone or has
\* only just been accepted: rtspd_client_main waits for the play_query = 0 that the task
\* stores between two packets.
THEOREM UdpOwnership ==
  ASSUME OneTransport, ClearIsQuick, "kick" \notin Events
  PROVE  Spec => []UdpOwnsSlot
<1>1. Init => TcpInv /\ UdpInv
  BY DEF Init, TcpInv, SendersKeepApart, Taken, WorkerServes, OneWorkerPerSlot, UdpInv,
     StateFollowsClient, PlayHasQuery, ClearsWhatIsOver, UdpServes
<1>2. TypeOK /\ TcpInv /\ UdpInv /\ [Next]_vars => TcpInv' /\ UdpInv'
  BY TcpStep, UdpStep
<1>3. UdpInv => UdpOwnsSlot
  BY DEF UdpInv, UdpServes, UdpOwnsSlot
<1> QED
  BY <1>1, <1>2, <1>3, TypeCorrect, PTL DEF Spec
------------------------------------------------------------------------------
(***************************************************************************)
(* The limit of the players.  Whoever counts the players and adds itself   *)
(* has a mutex of its own (HolderHolds), so there are no more of them than *)
(* mutexes have been made; with PlacesKept that bounds the players.        *)
(* MutexHeld says who has the mutex that xSemSetup points to now.  Of the  *)
(* mutexes made before, only what the holders have is said: they are given *)
(* by nobody, and a SETUP that blocks on one that is left taken waits for  *)
(* ever.                                                                   *)
(***************************************************************************)

\* Where a SETUP is between taking a mutex and giving one.
InSection == {"count", "addquery", "give"}

Holders == {s \in Slots : cpc[s] \in InSection}

\* The sessions that have been counted in and have not yet set play_query.
Adding == {s \in Slots : cpc[s] = "addquery"}

\* The mutexes made again: each lets one more session count the players.
Remade == IF semPtr > 1 THEN semPtr - 1 ELSE 0

MutexFound == \A s \in Slots : cpc[s] \in InSection \cup {"take", "blocked"} => semPtr # 0

\* A SETUP blocks on a mutex that has been made.
WaitsForMade == \A s \in Slots : cpc[s] = "blocked" => semWait[s] \in 1 .. semPtr

\* A mutex that has not been made has not been taken.
FreeAbove == \A m \in Slots : m > semPtr => semHolder[m] = 0

\* A SETUP in its section has one of the mutexes, though perhaps not the one of now.
HolderHolds == \A s \in Holders : \E m \in 1 .. semPtr : semHolder[m] = s

\* The mutex of now is taken only by a SETUP in its section.
MutexHeld == semPtr # 0 /\ semHolder[semPtr] # 0 => semHolder[semPtr] \in Holders

MutexInv == MutexFound /\ WaitsForMade /\ FreeAbove /\ HolderHolds /\ MutexHeld

PlacesKept == Cardinality(Players \cup Adding) <= PlayMax + Remade

PlayInv == Taken /\ MutexInv /\ PlacesKept

\* A step that leaves the mutexes and those who hold or await them alone.
KeepsMutexes ==
  /\ UNCHANGED semVars
  /\ \A t \in Slots : /\ cpc'[t] \in InSection <=> cpc[t] \in InSection
                      /\ cpc'[t] = "blocked" => cpc[t] = "blocked"
                      /\ cpc'[t] = "take" => cpc[t] = "take" \/ semPtr # 0

\* A step that makes no player, other than of a session that has been counted in.
AddsNoPlayer ==
  \A t \in Slots : playQuery'[t] \/ cpc'[t] = "addquery" => playQuery[t] \/ cpc[t] = "addquery"

LEMMA PlayersCounted ==
  ASSUME NEW S \in SUBSET Slots
  PROVE  IsFiniteSet(S) /\ Cardinality(S) \in Nat
  BY SlotsFinite, FS_Subset, FS_CardinalityType

\* Two sets of slots together have at most as many as both.
LEMMA UnionAtMost ==
  ASSUME NEW S \in SUBSET Slots, NEW T \in SUBSET Slots
  PROVE  Cardinality(S \cup T) <= Cardinality(S) + Cardinality(T)
<1>1. S \cap T \in SUBSET Slots /\ S \cup T \in SUBSET Slots
  OBVIOUS
<1>2. /\ Cardinality(S) \in Nat /\ Cardinality(T) \in Nat
      /\ Cardinality(S \cap T) \in Nat /\ Cardinality(S \cup T) \in Nat
  BY <1>1, PlayersCounted
<1>3. Cardinality(S \cup T) = Cardinality(S) + Cardinality(T) - Cardinality(S \cap T)
  BY PlayersCounted, FS_Union
<1> QED
  BY <1>2, <1>3

LEMMA PlayersAreSlots ==
  /\ Players \in SUBSET Slots /\ Players \cup Adding \in SUBSET Slots
  /\ Cardinality(Players) \in Nat /\ Cardinality(Players \cup Adding) \in Nat
<1>1. Players \in SUBSET Slots /\ Players \cup Adding \in SUBSET Slots
  BY DEF Players, Adding
<1> QED
  BY <1>1, PlayersCounted

\* There are no more holders than mutexes, for a mutex has one holder.
LEMMA HoldersFit == TypeOK /\ HolderHolds => Cardinality(Holders) <= semPtr
<1> SUFFICES ASSUME TypeOK, HolderHolds
             PROVE  Cardinality(Holders) <= semPtr
  OBVIOUS
<1> DEFINE held == [s \in Holders |-> CHOOSE m \in 1 .. semPtr : semHolder[m] = s]
<1>1. \A s \in Holders : held[s] \in 1 .. semPtr /\ semHolder[held[s]] = s
  BY DEF HolderHolds
<1>2. held \in Injection(Holders, 1 .. semPtr)
  BY <1>1 DEF Injection, IsInjective
<1>3. semPtr \in Nat
  BY SlotsAssumption DEF TypeOK
<1>4. IsFiniteSet(1 .. semPtr) /\ Cardinality(1 .. semPtr) = semPtr
  BY <1>3, FS_Interval
<1> HIDE DEF held
<1> QED
  BY <1>2, <1>4, FS_Injection

\* A step that adds no player keeps the bound.
LEMMA FewerPlayers ==
  ASSUME TypeOK, PlacesKept, AddsNoPlayer, semPtr' \in {semPtr, semPtr + 1}
  PROVE  PlacesKept'
<1>1. Players' \cup Adding' \in SUBSET (Players \cup Adding)
  BY DEF AddsNoPlayer, Players, Adding, Slots
<1>2. Cardinality(Players' \cup Adding') <= Cardinality(Players \cup Adding)
  BY <1>1, PlayersAreSlots, PlayersCounted, FS_Subset
<1>3. Cardinality(Players' \cup Adding') \in Nat
  BY <1>1, PlayersAreSlots, PlayersCounted
<1>4. Remade \in Nat /\ Remade' \in Nat /\ Remade <= Remade'
  <2>1. semPtr \in Nat
    BY SlotsAssumption DEF TypeOK
  <2>2. CASE semPtr' = semPtr
    BY <2>1, <2>2 DEF Remade
  <2>3. CASE semPtr' = semPtr + 1
    BY <2>1, <2>3 DEF Remade
  <2> QED
    BY <2>2, <2>3
<1> QED
  BY <1>2, <1>3, <1>4, PlayersAreSlots, PlayMaxAssumption DEF PlacesKept

\* A step that leaves the mutexes alone keeps what is said of them.
LEMMA SameMutexes ==
  ASSUME MutexInv, KeepsMutexes
  PROVE  MutexInv'
<1>1. Holders' = Holders /\ semPtr' = semPtr /\ semHolder' = semHolder /\ semWait' = semWait
  BY DEF KeepsMutexes, Holders, semVars, Slots
<1>2. MutexFound' /\ WaitsForMade'
  BY <1>1 DEF KeepsMutexes, MutexInv, MutexFound, WaitsForMade, Slots
<1>3. FreeAbove' /\ HolderHolds' /\ MutexHeld'
  BY <1>1 DEF MutexInv, FreeAbove, HolderHolds, MutexHeld, Slots
<1> QED
  BY <1>2, <1>3 DEF MutexInv

\* Apart from what it does with the mutexes and from making itself a player, no step of
\* a client task takes part in either.
LEMMA ClientsAddNone ==
  ASSUME TypeOK, PlayInv, NEW s \in Slots,
         Accept(s) \/ ClientDrops(s) \/ ClientReads(s) \/ ClientWorks(s),
         ~SetupMakesMutex(s), ~SetupTakesMutex(s), ~SetupBlocks(s), ~SetupWakes(s),
         ~SetupGivesMutex(s), ~SetupHalts(s), ~SetupStartsWorker(s), ~SetupNeedsNoWorker(s)
  PROVE  Taken' /\ KeepsMutexes /\ AddsNoPlayer
<1> USE DEF TypeOK, PlayInv, Taken, KeepsMutexes, AddsNoPlayer, InSection, Goto, slotVars, Slots
<1>1. CASE Accept(s)
  BY <1>1 DEF Accept, ZeroSlot
<1>2. CASE ClientDrops(s)
  BY <1>2 DEF ClientDrops
<1>3. CASE ClientReads(s)
  BY <1>3 DEF ClientReads
<1>4. CASE ClientInit(s)
  BY <1>4 DEF ClientInit
<1>5. CASE ClientEnds(s)
  BY <1>5 DEF ClientEnds
<1>6. CASE Refuse(s)
  BY <1>6 DEF Refuse, Answered
<1>7. CASE AnswerParameter(s)
  BY <1>7 DEF AnswerParameter, Answered
<1>8. CASE CheckState(s)
  BY <1>8 DEF CheckState
<1>9. CASE EnterAndAnswer(s)
  BY <1>9 DEF EnterAndAnswer, Answered
<1>10. CASE Enter(s)
  BY <1>10 DEF Enter
<1>11. CASE AnswerPlay(s)
  <2>1. PICK p \in {"loop", "hung"} : cpc' = [cpc EXCEPT ![s] = p]
    BY <1>11 DEF AnswerPlay, Answered
  <2>2. cpc[s] = "play" /\ UNCHANGED <<playQuery, valid, semVars>>
    BY <1>11 DEF AnswerPlay
  <2>3. p \notin {"count", "addquery", "give", "take", "blocked", "none", "play"}
    OBVIOUS
  <2> QED
    BY <2>1, <2>2, <2>3
<1>12. CASE AnswerTeardown(s)
  BY <1>12 DEF AnswerTeardown, Answered
<1>13. CASE SetupFindsMutex(s)
  BY <1>13 DEF SetupFindsMutex
<1>14. CASE SetupRefuses(s)
  BY <1>14 DEF SetupRefuses
<1>15. CASE SetupFails(s)
  BY <1>15 DEF SetupFails
<1>16. CASE SetupAddsQuery(s)
  BY <1>16 DEF SetupAddsQuery
<1>17. CASE ClientCloses(s)
  BY <1>17 DEF ClientCloses
<1>18. CASE ClientStopsWaiting(s)
  BY <1>18 DEF ClientStopsWaiting
<1>19. CASE ClientFreesMemory(s)
  BY <1>19 DEF ClientFreesMemory
<1>20. CASE ClientZeroesSlot(s)
  BY <1>20 DEF ClientZeroesSlot, ZeroSlot
<1> QED
  BY <1>1, <1>2, <1>3, <1>4, <1>5, <1>6, <1>7, <1>8, <1>9, <1>10, <1>11, <1>12, <1>13,
     <1>14, <1>15, <1>16, <1>17, <1>18, <1>19, <1>20 DEF ClientWorks

\* The other tasks neither touch the mutexes nor make a player.
LEMMA OthersAddNone ==
  ASSUME TypeOK, Taken,
         (\E w \in Workers : Worker(w)) \/ Udp \/ (\E s \in Slots : KickChecks(s))
         \/ KickWrites \/ UNCHANGED vars
  PROVE  Taken' /\ KeepsMutexes /\ AddsNoPlayer
<1> USE DEF TypeOK, Taken, KeepsMutexes, AddsNoPlayer, slotVars, clientVars
<1>1. ASSUME NEW w \in Workers, Worker(w)
      PROVE  Taken' /\ KeepsMutexes /\ AddsNoPlayer
  BY <1>1 DEF Worker, WorkerEnds, WorkerPlays, WorkerLosesSession, WorkerIdles,
     WorkerBuilds, WorkerDropsPacket, WorkerSends, WorkerSent, WorkerFails, WorkerExits,
     WorkerGoes
<1>2. CASE Udp
  BY <1>2 DEF Udp, UdpSkips, UdpPlays, UdpSeesTeardown, UdpClears, UdpLosesSession,
     UdpIdles, UdpBuilds, UdpDropsPacket, UdpSends, UdpSent, UdpFails, UdpGoes, UdpMovesOn
<1> QED
  BY <1>1, <1>2 DEF KickChecks, KickWrites, vars

\* A mutex made is free, and nobody waits for it yet.
LEMMA MutexMade ==
  ASSUME TypeOK, TypeOK', PlayInv, NEW s \in Slots, SetupMakesMutex(s)
  PROVE  PlayInv'
<1>1. /\ semPtr' = semPtr + 1 /\ semHolder' = semHolder /\ semWait' = semWait
      /\ cpc' = [cpc EXCEPT ![s] = "take"] /\ playQuery' = playQuery /\ valid' = valid
      /\ cpc[s] = "newmutex" /\ semPtr \in Nat
  BY SlotsAssumption DEF SetupMakesMutex, Goto, slotVars, TypeOK
<1>2. semPtr + 1 \in Slots
  BY <1>1, SlotsAssumption DEF TypeOK, Slots
<1>3. Holders' = Holders /\ AddsNoPlayer /\ Taken'
  BY <1>1 DEF Holders, InSection, AddsNoPlayer, PlayInv, Taken, TypeOK, Slots
<1>4. MutexFound' /\ WaitsForMade'
  BY <1>1 DEF PlayInv, MutexInv, MutexFound, WaitsForMade, TypeOK, Slots
<1>5. FreeAbove' /\ HolderHolds'
  BY <1>1, <1>3 DEF PlayInv, MutexInv, FreeAbove, HolderHolds, Slots
<1>6. MutexHeld'
  BY <1>1, <1>2 DEF PlayInv, MutexInv, FreeAbove, MutexHeld
<1> QED
  BY <1>1, <1>3, <1>4, <1>5, <1>6, FewerPlayers DEF PlayInv, MutexInv

\* A mutex is taken when nobody has it, by a SETUP that has none.
LEMMA MutexTaken ==
  ASSUME TypeOK, PlayInv, NEW s \in Slots, SetupTakesMutex(s) \/ SetupWakes(s)
  PROVE  PlayInv'
<1>1. PICK m \in 1 .. semPtr :
        /\ semHolder[m] = 0
        /\ semHolder' = [semHolder EXCEPT ![m] = s]
        /\ semWait' \in {semWait, [semWait EXCEPT ![s] = 0]}
  <2>1. CASE SetupTakesMutex(s)
    <3>1. semPtr \in 1 .. semPtr
      BY <2>1, SlotsAssumption DEF SetupTakesMutex, PlayInv, MutexInv, MutexFound, TypeOK
    <3> QED
      BY <2>1, <3>1 DEF SetupTakesMutex
  <2>2. CASE SetupWakes(s)
    BY <2>2 DEF SetupWakes, PlayInv, MutexInv, WaitsForMade
  <2> QED
    BY <2>1, <2>2
<1>2. /\ cpc[s] \in {"take", "blocked"} /\ cpc' = [cpc EXCEPT ![s] = "count"]
      /\ semPtr' = semPtr /\ playQuery' = playQuery /\ valid' = valid
  BY DEF SetupTakesMutex, SetupWakes, Goto, slotVars
<1>3. semPtr \in Nat /\ m \in Slots /\ semPtr \in Slots
  BY <1>1, SlotsAssumption DEF TypeOK, Slots
<1>4. Holders' = Holders \cup {s} /\ AddsNoPlayer /\ Taken'
  BY <1>2 DEF Holders, InSection, AddsNoPlayer, PlayInv, Taken, TypeOK, Slots
<1>5. MutexFound' /\ WaitsForMade'
  BY <1>1, <1>2, <1>3 DEF PlayInv, MutexInv, MutexFound, WaitsForMade, InSection, TypeOK, Slots
<1>6. FreeAbove'
  BY <1>1, <1>2, <1>3 DEF PlayInv, MutexInv, FreeAbove, TypeOK, Slots
<1>7. HolderHolds'
  <2> SUFFICES ASSUME NEW t \in Holders'
               PROVE  \E n \in 1 .. semPtr : semHolder'[n] = t
    BY <1>2 DEF HolderHolds
  <2>1. CASE t = s
    BY <1>1, <1>3, <2>1 DEF TypeOK
  <2>2. CASE t # s
    <3>1. PICK n \in 1 .. semPtr : semHolder[n] = t
      BY <1>4, <2>2 DEF PlayInv, MutexInv, HolderHolds
    <3>2. n # m
      BY <1>1, <3>1 DEF Holders, Slots
    <3> QED
      BY <1>1, <3>1, <3>2 DEF TypeOK
  <2> QED
    BY <2>1, <2>2
<1>8. MutexHeld'
  BY <1>1, <1>2, <1>3, <1>4 DEF PlayInv, MutexInv, MutexHeld, TypeOK
<1> QED
  BY <1>2, <1>4, <1>5, <1>6, <1>7, <1>8, FewerPlayers DEF PlayInv, MutexInv

\* A SETUP that blocks does so on the mutex of now.
LEMMA MutexAwaited ==
  ASSUME TypeOK, PlayInv, NEW s \in Slots, SetupBlocks(s)
  PROVE  PlayInv'
<1>1. /\ cpc[s] = "take" /\ cpc' = [cpc EXCEPT ![s] = "blocked"]
      /\ semWait' = [semWait EXCEPT ![s] = semPtr] /\ semHolder' = semHolder
      /\ semPtr' = semPtr /\ playQuery' = playQuery /\ valid' = valid
  BY DEF SetupBlocks, Goto, slotVars
<1>2. semPtr \in 1 .. semPtr
  BY <1>1, SlotsAssumption DEF PlayInv, MutexInv, MutexFound, TypeOK
<1>3. Holders' = Holders /\ AddsNoPlayer /\ Taken'
  BY <1>1 DEF Holders, InSection, AddsNoPlayer, PlayInv, Taken, TypeOK, Slots
<1>4. MutexFound' /\ WaitsForMade'
  BY <1>1, <1>2 DEF PlayInv, MutexInv, MutexFound, WaitsForMade, TypeOK
<1>5. FreeAbove' /\ HolderHolds' /\ MutexHeld'
  BY <1>1, <1>3 DEF PlayInv, MutexInv, FreeAbove, HolderHolds, MutexHeld
<1> QED
  BY <1>1, <1>3, <1>4, <1>5, FewerPlayers DEF PlayInv, MutexInv

\* The mutex of now is given by the one that has it, or was free.  Another one that the
\* SETUP took stays taken.
LEMMA MutexGiven ==
  ASSUME TypeOK, PlayInv, NEW s \in Slots, SetupGivesMutex(s) \/ SetupHalts(s)
  PROVE  PlayInv'
<1>1. PICK p \in {"loop", "halted"} : cpc' = [cpc EXCEPT ![s] = p]
  BY DEF SetupGivesMutex, SetupHalts, Answered, Goto
<1>2. /\ cpc[s] = "give" /\ semWait' = semWait
      /\ semPtr' = semPtr /\ playQuery' = playQuery /\ valid' = valid
  BY DEF SetupGivesMutex, SetupHalts, slotVars, semVars
<1>3. semPtr \in Nat /\ semPtr \in Slots
  BY <1>2, SlotsAssumption DEF PlayInv, MutexInv, MutexFound, InSection, TypeOK, Slots
<1>4. \/ semHolder[semPtr] \in {0, s} /\ semHolder' = [semHolder EXCEPT ![semPtr] = 0]
      \/ semHolder[semPtr] # s /\ semHolder' = semHolder
  BY DEF SetupGivesMutex, SetupHalts, semVars
<1>5. Holders' = Holders \ {s}
  BY <1>1, <1>2 DEF Holders, InSection, TypeOK
<1>6. AddsNoPlayer /\ Taken'
  BY <1>1, <1>2 DEF AddsNoPlayer, PlayInv, Taken, TypeOK
<1>7. MutexFound' /\ WaitsForMade'
  BY <1>1, <1>2 DEF PlayInv, MutexInv, MutexFound, WaitsForMade, InSection, TypeOK
<1>8. FreeAbove'
  BY <1>2, <1>3, <1>4 DEF PlayInv, MutexInv, FreeAbove, TypeOK
<1>9. HolderHolds'
  <2> SUFFICES ASSUME NEW t \in Holders'
               PROVE  \E n \in 1 .. semPtr : semHolder'[n] = t
    BY <1>2 DEF HolderHolds
  <2>1. PICK n \in 1 .. semPtr : semHolder[n] = t
    BY <1>5 DEF PlayInv, MutexInv, HolderHolds
  <2>2. t # s /\ t # 0
    BY <1>5 DEF Holders, Slots
  <2>3. semHolder'[n] = semHolder[n]
    <3>1. CASE n = semPtr
      BY <1>4, <2>1, <2>2, <3>1
    <3>2. CASE n # semPtr
      <4>1. n \in Slots
        BY <1>3, SlotsAssumption DEF Slots
      <4> QED
        BY <1>4, <3>2, <4>1 DEF TypeOK
    <3> QED
      BY <3>1, <3>2
  <2> QED
    BY <2>1, <2>3
<1>10. MutexHeld'
  BY <1>2, <1>3, <1>4, <1>5 DEF PlayInv, MutexInv, MutexHeld, TypeOK
<1> QED
  BY <1>2, <1>6, <1>7, <1>8, <1>9, <1>10, FewerPlayers DEF PlayInv, MutexInv

\* With a mutex, SETUP takes a place that is free.
LEMMA PlaceTaken ==
  ASSUME TypeOK, PlayInv, NEW s \in Slots, SetupStartsWorker(s) \/ SetupNeedsNoWorker(s)
  PROVE  PlayInv'
<1>1. /\ cpc[s] = "count" /\ Cardinality(Players) < PlayMax
      /\ cpc' = [cpc EXCEPT ![s] = "addquery"] /\ playQuery' = playQuery /\ valid' = valid
      /\ UNCHANGED semVars
  BY DEF SetupStartsWorker, SetupNeedsNoWorker, SetupMayStart, Goto
<1>2. Taken' /\ KeepsMutexes
  BY <1>1 DEF PlayInv, Taken, KeepsMutexes, InSection, TypeOK
<1>3. semPtr \in Nat /\ semPtr > 0
  BY <1>1, SlotsAssumption DEF PlayInv, MutexInv, MutexFound, InSection, TypeOK
<1>4. Players' = Players /\ Adding' \in SUBSET Holders /\ Holders \in SUBSET Slots
  BY <1>1 DEF Players, Adding, Holders, InSection, TypeOK
<1>5. Cardinality(Adding') <= semPtr /\ Cardinality(Adding') \in Nat
  <2>1. Cardinality(Adding') <= Cardinality(Holders) /\ Cardinality(Holders) \in Nat
    BY <1>4, PlayersCounted, FS_Subset
  <2>2. Adding' \in SUBSET Slots
    BY <1>4
  <2>3. Cardinality(Holders) <= semPtr
    BY HoldersFit DEF PlayInv, MutexInv
  <2> QED
    BY <1>3, <2>1, <2>2, <2>3, PlayersCounted
<1>6. PlacesKept'
  <2>1. Adding' \in SUBSET Slots /\ Players' \cup Adding' \in SUBSET Slots
    BY <1>4, PlayersAreSlots
  <2>2. Cardinality(Players' \cup Adding') <= Cardinality(Players) + Cardinality(Adding')
    BY <1>4, <2>1, UnionAtMost, PlayersAreSlots
  <2>3. Cardinality(Players' \cup Adding') \in Nat
    BY <2>1, PlayersCounted
  <2>4. Remade' = semPtr - 1
    BY <1>1, <1>3 DEF Remade, semVars
  <2> QED
    BY <1>1, <1>3, <1>5, <2>2, <2>3, <2>4, PlayersAreSlots, PlayMaxAssumption DEF PlacesKept
<1> QED
  BY <1>2, <1>6, SameMutexes DEF PlayInv

LEMMA PlayStep == TypeOK /\ TypeOK' /\ PlayInv /\ [Next]_vars => PlayInv'
<1> SUFFICES ASSUME TypeOK, TypeOK', PlayInv, [Next]_vars
             PROVE  PlayInv'
  OBVIOUS
<1>1. ASSUME Taken', KeepsMutexes, AddsNoPlayer
      PROVE  PlayInv'
  <2>1. semPtr' = semPtr
    BY <1>1 DEF KeepsMutexes, semVars
  <2> QED
    BY <1>1, <2>1, SameMutexes, FewerPlayers DEF PlayInv
<1>2. ASSUME NEW s \in Slots, Accept(s) \/ ClientDrops(s) \/ ClientReads(s) \/ ClientWorks(s)
      PROVE  PlayInv'
  <2>1. CASE SetupMakesMutex(s)
    BY <2>1, MutexMade
  <2>2. CASE SetupTakesMutex(s) \/ SetupWakes(s)
    BY <2>2, MutexTaken
  <2>3. CASE SetupBlocks(s)
    BY <2>3, MutexAwaited
  <2>4. CASE SetupGivesMutex(s) \/ SetupHalts(s)
    BY <2>4, MutexGiven
  <2>5. CASE SetupStartsWorker(s) \/ SetupNeedsNoWorker(s)
    BY <2>5, PlaceTaken
  <2> QED
    BY <1>1, <1>2, <2>1, <2>2, <2>3, <2>4, <2>5, ClientsAddNone
<1>3. CASE (\E w \in Workers : Worker(w)) \/ Udp \/ (\E s \in Slots : KickChecks(s))
           \/ KickWrites \/ UNCHANGED vars
  BY <1>1, <1>3, OthersAddNone DEF PlayInv
<1> QED
  BY <1>2, <1>3 DEF Next

LEMMA PlayInit == Init => PlayInv
<1> SUFFICES ASSUME Init
             PROVE  PlayInv
  OBVIOUS
<1>1. Players = {} /\ Adding = {} /\ Holders = {}
  BY DEF Init, Players, Adding, Holders, InSection, Slots
<1>2. Cardinality(Players \cup Adding) = 0
  BY <1>1, FS_EmptySet
<1>3. Taken /\ MutexFound /\ WaitsForMade /\ FreeAbove /\ HolderHolds /\ MutexHeld
  BY <1>1 DEF Init, Taken, MutexFound, WaitsForMade, FreeAbove, HolderHolds, MutexHeld,
     InSection, Slots
<1>4. Remade = 0
  BY DEF Init, Remade
<1> QED
  BY <1>2, <1>3, <1>4, PlayMaxAssumption DEF PlayInv, MutexInv, PlacesKept

\* No more sessions stream than RTSP_play_MAX, and one for every time the SETUP mutex has
\* been made again: rtspd_client_rtsp_process_setup counts the players and adds one while
\* it holds a mutex.
THEOREM PlayersLimited == Spec => []PlayersBounded
<1>1. TypeOK /\ PlayInv => PlayersBounded
  <2> SUFFICES ASSUME TypeOK, PlayInv
               PROVE  Cardinality(Players) <= PlayMax + Remade
    BY DEF PlayersBounded, Remade
  <2>1. Players \in SUBSET (Players \cup Adding)
    OBVIOUS
  <2>2. Cardinality(Players) <= Cardinality(Players \cup Adding)
    BY <2>1, PlayersAreSlots, PlayersCounted, FS_Subset
  <2>3. Remade \in Nat
    BY SlotsAssumption DEF TypeOK, Remade
  <2> QED
    BY <2>2, <2>3, PlayersAreSlots, PlayMaxAssumption DEF PlayInv, PlacesKept
<1> QED
  BY <1>1, PlayInit, TypeCorrect, PlayStep, PTL DEF Spec

\* As long as the SETUP mutex has been made only once there are no more than RTSP_play_MAX.
THEOREM OneMutexLimitsPlayers == Spec => [](semPtr <= 1 => PlayersWithinMax)
<1>1. TypeOK /\ PlayersBounded => (semPtr <= 1 => PlayersWithinMax)
  <2> SUFFICES ASSUME TypeOK, PlayersBounded, semPtr <= 1
               PROVE  PlayersWithinMax
    OBVIOUS
  <2>1. ~(semPtr > 1)
    BY SlotsAssumption DEF TypeOK
  <2>2. PlayMax + 0 = PlayMax
    BY PlayMaxAssumption
  <2> QED
    BY <2>1, <2>2 DEF PlayersBounded, PlayersWithinMax
<1> QED
  BY <1>1, TypeCorrect, PlayersLimited, PTL

\* The mutex xSemSetup points to is never left taken: whoever has it is in a SETUP that
\* is about to give (rtspd_process.c:1015), whatever mutexes other SETUPs took before it
\* was made and still have.  Nothing is said of the waiters for those.
THEOREM MutexGivenBack == Spec => []MutexComesBack
<1>1. PlayInv => MutexComesBack
  BY DEF PlayInv, MutexInv, MutexHeld, Holders, InSection, MutexComesBack
<1> QED
  BY <1>1, PlayInit, TypeCorrect, PlayStep, PTL DEF Spec
------------------------------------------------------------------------------
(***************************************************************************)
(* The RTP session outlives its users.  Only a TEARDOWN request frees it   *)
(* while play_query is set; clients that just disconnect make their tasks  *)
(* wait for the senders first.                                             *)
(***************************************************************************)
NoTeardownRequest == \A s \in Slots : \A d \in Dialogue[s] : d[2] # "TEARDOWN"

\* A session with a sender, or about to have one, has its RTP session, and is not
\* being freed.
QueryHasSession ==
  \A s \in Slots : playQuery[s] \/ cpc[s] = "addquery" =>
    rtpSs[s] /\ cpc[s] \notin {"none", "init", "close", "free"}

\* A client task whose PLAY was allowed has an RTP session, also when its sender has
\* cleared play_query since.
PlayHasSession ==
  \A s \in Slots :
    /\ cpc[s] = "enter" /\ req[s].method = "PLAY" => rtpSs[s]
    /\ cpc[s] = "play" => rtpSs[s]

NobodyTearsDown ==
  \A s \in Slots : req[s].method # "TEARDOWN" /\ cpc[s] # "teardown"

SessionInv == QueryHasSession /\ PlayHasSession /\ NobodyTearsDown /\ NobodyHangs

\* No client asks for UDP: the UDP task finds nothing to do.
NoUdpClients == \A s \in Slots : "UDP" \notin Transports[s]

LEMMA UdpTaskIdle == TypeOK /\ TcpInv /\ NoUdpClients =>
  upc = "visit" /\ \A s \in Slots : eTransport[s] # "UDP"
  BY DEF TypeOK, TcpInv, SendersKeepApart, NoUdpClients

\* Every step keeps SessionInv, when the UDP task minds its slots or has none.
LEMMA SessionStep ==
  TypeOK /\ TcpInv /\ (UdpInv \/ NoUdpClients) /\ SessionInv /\ [Next]_vars
    /\ OneTransport /\ NoTeardownRequest => SessionInv'
<1> SUFFICES ASSUME TypeOK, TcpInv, UdpInv \/ NoUdpClients, SessionInv, [Next]_vars,
                    OneTransport, NoTeardownRequest
             PROVE  SessionInv'
  OBVIOUS
<1> USE DEF TypeOK, SessionInv, QueryHasSession, PlayHasSession, NobodyTearsDown,
            NobodyHangs, Goto
<1>1. ASSUME NEW s \in Slots, Accept(s)
      PROVE  SessionInv'
  BY <1>1 DEF Accept, ZeroSlot, workerVars, udpVars
<1>2. ASSUME NEW s \in Slots, ClientDrops(s)
      PROVE  SessionInv'
  BY <1>2 DEF ClientDrops, slotVars, workerVars, udpVars
<1>3. ASSUME NEW s \in Slots, ClientReads(s)
      PROVE  SessionInv'
  BY <1>3 DEF ClientReads, workerVars, udpVars, NoTeardownRequest
<1>4. ASSUME NEW s \in Slots, ClientInit(s)
      PROVE  SessionInv'
  BY <1>4 DEF ClientInit, SetState, workerVars, udpVars
<1>5. ASSUME NEW s \in Slots, ClientEnds(s)
      PROVE  SessionInv'
  BY <1>5 DEF ClientEnds, slotVars, workerVars, udpVars
<1>6. ASSUME NEW s \in Slots, Refuse(s)
      PROVE  SessionInv'
  BY <1>6 DEF Refuse, Answered, SetState, CheckUrl, Allowed, NoRequest, workerVars,
     udpVars
<1>7. ASSUME NEW s \in Slots, AnswerParameter(s)
      PROVE  SessionInv'
  BY <1>7 DEF AnswerParameter, Answered, CheckUrl, Allowed, NoRequest, workerVars,
     udpVars
<1>8. ASSUME NEW s \in Slots, CheckState(s)
      PROVE  SessionInv'
  BY <1>8 DEF CheckState, CheckUrl, Allowed, workerVars, udpVars
<1>9. ASSUME NEW s \in Slots, EnterAndAnswer(s)
      PROVE  SessionInv'
  BY <1>9 DEF EnterAndAnswer, Answered, SetState, NoRequest, workerVars, udpVars
<1>10. ASSUME NEW s \in Slots, Enter(s)
      PROVE  SessionInv'
  BY <1>10 DEF Enter, SetState, workerVars, udpVars
<1>11. ASSUME NEW s \in Slots, AnswerPlay(s)
      PROVE  SessionInv'
  BY <1>11 DEF AnswerPlay, Answered, NoRequest, slotVars, workerVars, udpVars
<1>12. ASSUME NEW s \in Slots, AnswerTeardown(s)
      PROVE  SessionInv'
  BY <1>12 DEF AnswerTeardown, Answered, NoRequest, workerVars, udpVars
<1>13. ASSUME NEW s \in Slots, SetupFindsMutex(s)
      PROVE  SessionInv'
  BY <1>13 DEF SetupFindsMutex, slotVars, workerVars, udpVars
<1>14. ASSUME NEW s \in Slots, SetupMakesMutex(s)
      PROVE  SessionInv'
  BY <1>14 DEF SetupMakesMutex, slotVars, workerVars, udpVars
<1>15. ASSUME NEW s \in Slots, SetupRefuses(s)
      PROVE  SessionInv'
  BY <1>15 DEF SetupRefuses, slotVars, workerVars, udpVars
<1>16. ASSUME NEW s \in Slots, SetupFails(s)
      PROVE  SessionInv'
  BY <1>16 DEF SetupFails, workerVars, udpVars
<1>17. ASSUME NEW s \in Slots, SetupStartsWorker(s)
      PROVE  SessionInv'
  BY <1>17 DEF SetupStartsWorker, SetupMayStart, udpVars
<1>18. ASSUME NEW s \in Slots, SetupNeedsNoWorker(s)
      PROVE  SessionInv'
  BY <1>18 DEF SetupNeedsNoWorker, SetupMayStart, workerVars, udpVars
<1>19. ASSUME NEW s \in Slots, SetupAddsQuery(s)
      PROVE  SessionInv'
  BY <1>19 DEF SetupAddsQuery, workerVars, udpVars
<1>51. ASSUME NEW s \in Slots,
              SetupTakesMutex(s) \/ SetupBlocks(s) \/ SetupWakes(s) \/ SetupHalts(s)
       PROVE  SessionInv'
  BY <1>51 DEF SetupTakesMutex, SetupBlocks, SetupWakes, SetupHalts, slotVars, workerVars,
     udpVars
<1>52. ASSUME NEW s \in Slots, SetupGivesMutex(s)
       PROVE  SessionInv'
  BY <1>52 DEF SetupGivesMutex, Answered, slotVars, workerVars, udpVars, NoRequest
<1>20. ASSUME NEW s \in Slots, ClientCloses(s)
      PROVE  SessionInv'
  BY <1>20 DEF ClientCloses, SetState, workerVars, udpVars
<1>21. ASSUME NEW s \in Slots, ClientStopsWaiting(s)
      PROVE  SessionInv'
  BY <1>21 DEF ClientStopsWaiting, slotVars, workerVars, udpVars
<1>22. ASSUME NEW s \in Slots, ClientFreesMemory(s)
      PROVE  SessionInv'
  BY <1>22 DEF ClientFreesMemory, workerVars, udpVars
<1>23. ASSUME NEW s \in Slots, ClientZeroesSlot(s)
      PROVE  SessionInv'
  BY <1>23 DEF ClientZeroesSlot, ZeroSlot, workerVars, udpVars
<1>24. ASSUME NEW w \in Workers, WorkerEnds(w)
      PROVE  SessionInv'
  BY <1>24 DEF WorkerEnds, WorkerGoes, slotVars, clientVars, udpVars
<1>25. ASSUME NEW w \in Workers, WorkerPlays(w)
      PROVE  SessionInv'
  BY <1>25 DEF WorkerPlays, WorkerGoes, slotVars, clientVars, udpVars, TcpInv,
     WorkerServes
<1>26. ASSUME NEW w \in Workers, WorkerLosesSession(w)
      PROVE  SessionInv'
  BY <1>26 DEF WorkerLosesSession, WorkerGoes, slotVars, clientVars, udpVars, TcpInv,
     WorkerServes
<1>27. ASSUME NEW w \in Workers, WorkerIdles(w)
      PROVE  SessionInv'
  BY <1>27 DEF WorkerIdles, WorkerGoes, slotVars, clientVars, udpVars
<1>28. ASSUME NEW w \in Workers, WorkerBuilds(w)
      PROVE  SessionInv'
  BY <1>28 DEF WorkerBuilds, WorkerGoes, slotVars, clientVars, udpVars
<1>29. ASSUME NEW w \in Workers, WorkerDropsPacket(w)
      PROVE  SessionInv'
  BY <1>29 DEF WorkerDropsPacket, WorkerGoes, slotVars, clientVars, udpVars
<1>30. ASSUME NEW w \in Workers, WorkerSends(w)
      PROVE  SessionInv'
  BY <1>30 DEF WorkerSends, WorkerGoes, slotVars, clientVars, udpVars, TcpInv,
     WorkerServes
<1>31. ASSUME NEW w \in Workers, WorkerSent(w)
      PROVE  SessionInv'
  BY <1>31 DEF WorkerSent, WorkerGoes, slotVars, clientVars, udpVars
<1>32. ASSUME NEW w \in Workers, WorkerFails(w)
      PROVE  SessionInv'
  BY <1>32 DEF WorkerFails, WorkerGoes, slotVars, clientVars, udpVars
<1>33. ASSUME NEW w \in Workers, WorkerExits(w)
      PROVE  SessionInv'
  BY <1>33 DEF WorkerExits, clientVars, udpVars
<1>34. CASE UdpSkips \/ UdpIdles \/ UdpDropsPacket \/ UdpSent
  BY <1>34 DEF UdpSkips, UdpIdles, UdpDropsPacket, UdpSent, UdpMovesOn, slotVars,
     clientVars, workerVars
<1>35. CASE UdpPlays
  <2>1. UdpInv
    BY <1>35, UdpTaskIdle DEF UdpPlays
  <2> QED
    BY <2>1, <1>35 DEF UdpPlays, UdpGoes, UdpInv, PlayHasQuery, UdpOnly, TcpInv,
       SendersKeepApart, OneTransport, slotVars, clientVars, workerVars
<1>36. CASE UdpSeesTeardown \/ UdpBuilds
  BY <1>36 DEF UdpSeesTeardown, UdpBuilds, UdpGoes, slotVars, clientVars, workerVars
<1>37. CASE UdpLosesSession \/ UdpSends
  <2>1. UdpInv
    BY <1>37, UdpTaskIdle DEF UdpLosesSession, UdpSends
  <2> QED
    BY <2>1, <1>37 DEF UdpLosesSession, UdpSends, UdpGoes, UdpInv, UdpServes, slotVars,
       clientVars, workerVars
<1>38. CASE UdpClears
  BY <1>38 DEF UdpClears, clientVars, workerVars
<1>39. CASE UdpFails
  BY <1>39 DEF UdpFails, clientVars, workerVars
<1>40. CASE UNCHANGED vars
  BY <1>40 DEF vars, slotVars, clientVars, workerVars, udpVars
<1>41. CASE KickWrites \/ \E s \in Slots : KickChecks(s)
  BY <1>41 DEF KickWrites, KickChecks, slotVars, clientVars, workerVars, udpVars
<1> QED
  BY <1>1, <1>2, <1>3, <1>4, <1>5, <1>6, <1>7, <1>8, <1>9, <1>10, <1>11, <1>12, <1>13,
     <1>14, <1>15, <1>16, <1>17, <1>18, <1>19, <1>20, <1>21, <1>22, <1>23, <1>24, <1>25,
     <1>26, <1>27, <1>28, <1>29, <1>30, <1>31, <1>32, <1>33, <1>34, <1>35, <1>36, <1>37,
     <1>38, <1>39, <1>40, <1>41, <1>51, <1>52 DEF Next, ClientWorks, Worker, Udp

\* No task uses an RTP session that has been freed, so none hangs in the loops behind
\* "rtp_ss NULL!!!!!": rtspd_client_close frees it only when play_query says that the
\* slot has no sender, if no client sends TEARDOWN.
THEOREM SessionOutlivesUsers ==
  ASSUME OneTransport, ClearIsQuick, "kick" \notin Events, NoTeardownRequest
  PROVE  Spec => [](RtpSessionLives /\ NobodyHangs)
<1>1. Init => TcpInv /\ UdpInv /\ SessionInv
  BY DEF Init, TcpInv, SendersKeepApart, Taken, WorkerServes, OneWorkerPerSlot, UdpInv,
     StateFollowsClient, PlayHasQuery, ClearsWhatIsOver, UdpServes, SessionInv,
     QueryHasSession, PlayHasSession, NobodyTearsDown, NobodyHangs, NoRequest
<1>2. TypeOK /\ TcpInv /\ UdpInv /\ SessionInv /\ [Next]_vars
        => TcpInv' /\ UdpInv' /\ SessionInv'
  BY TcpStep, UdpStep, SessionStep
<1>3. TypeOK /\ TcpInv /\ UdpInv /\ SessionInv => RtpSessionLives /\ NobodyHangs
  BY DEF TypeOK, TcpInv, WorkerServes, UdpInv, UdpServes, SessionInv, QueryHasSession,
     RtpSessionLives
<1> QED
  BY <1>1, <1>2, <1>3, TypeCorrect, PTL DEF Spec

\* Over TCP alone the same holds with kicks at any moment, and whatever the UDP task's
\* timing is.
THEOREM TcpSessionOutlivesUsers ==
  ASSUME NoUdpClients, NoTeardownRequest
  PROVE  Spec => [](RtpSessionLives /\ NobodyHangs)
<1>1. OneTransport
  BY DEF OneTransport, NoUdpClients
<1>2. Init => TcpInv /\ SessionInv
  BY DEF Init, TcpInv, SendersKeepApart, Taken, WorkerServes, OneWorkerPerSlot, SessionInv,
     QueryHasSession, PlayHasSession, NobodyTearsDown, NobodyHangs, NoRequest
<1>3. TypeOK /\ TcpInv /\ SessionInv /\ [Next]_vars => TcpInv' /\ SessionInv'
  BY <1>1, TcpStep, SessionStep
<1>4. TypeOK /\ TcpInv /\ SessionInv => RtpSessionLives /\ NobodyHangs
  <2> SUFFICES ASSUME TypeOK, TcpInv, SessionInv
               PROVE  RtpSessionLives /\ NobodyHangs
    OBVIOUS
  <2>1. upc = "visit"
    BY UdpTaskIdle
  <2> QED
    BY <2>1 DEF TypeOK, TcpInv, WorkerServes, SessionInv, QueryHasSession, RtpSessionLives
<1> QED
  BY <1>2, <1>3, <1>4, TypeCorrect, PTL DEF Spec
------------------------------------------------------------------------------
(***************************************************************************)
(* The sender behind play_query.  A TCP sender task stays at the top of    *)
(* its loop while the state is SETUP, so it is there when SETUP sets       *)
(* play_query.  This needs that a client does not go back to OPTIONS or    *)
(* DESCRIBE, which end the task, and then set up again before it has       *)
(* cleared play_query; and no kick.                                        *)
(***************************************************************************)
NoReturn ==
  \A s \in Slots : \A d \in Dialogue[s] :
    d[2] \in {"OPTIONS", "DESCRIBE"} => d[1] \in {"NONE", "OPTIONS", "DESCRIBE"}

\* The TCP sender tasks of a slot.
Servers(s) == {w \in Workers : wpc[w] # "none" /\ wslot[w] = s}

\* No request takes the session back from SETUP, and SETUP is where it is done.
AsksInTurn(s) ==
  /\ cpc[s] \in {"respond", "enter"} /\ req[s].method \in {"OPTIONS", "DESCRIBE"} =>
       state[s] \in {"NONE", "OPTIONS", "DESCRIBE"}
  /\ cpc[s] = "enter" => state[s] \in MayEnter(req[s].method)
  /\ cpc[s] \in {"setup", "newmutex", "take", "blocked", "count", "addquery"} =>
       state[s] = "SETUP"

\* No sender task is there before SETUP, and it does not move before PLAY.
WorkerWaits(s) ==
  /\ state[s] \in {"NONE", "OPTIONS", "DESCRIBE"} => Servers(s) = {}
  /\ state[s] = "SETUP" => \A w \in Servers(s) : wpc[w] = "top"

\* play_query, set or about to be, has a sender task.
QueryHasWorker(s) ==
  playQuery[s] \/ cpc[s] = "addquery" => Servers(s) # {}

TcpOnly(s) == "UDP" \notin Transports[s]

SenderInv ==
  /\ \A s \in Slots : TcpOnly(s) => AsksInTurn(s) /\ WorkerWaits(s) /\ QueryHasWorker(s)
  /\ \A s \in Slots : playQuery[s] \/ cpc[s] = "addquery" => eTransport[s] # "NONE"
  /\ kick = 0

\* SETUP is entered from the states before it, or again.
LEMMA SetupFrom == MayEnter("SETUP") = {"OPTIONS", "DESCRIBE", "SETUP"}
  BY DEF MayEnter

\* Only TCP sender tasks, and SETUP that makes one, change who serves a slot.
LEMMA SameServers == UNCHANGED workerVars => \A s \in Slots : Servers(s)' = Servers(s)
  BY DEF Servers, workerVars

\* A slot with a sender task is in use.
LEMMA ServedIsUsed ==
  TypeOK /\ TcpInv => \A s \in Slots :
    cpc[s] \in {"none", "init", "close", "free"} => Servers(s) = {}
  BY DEF TypeOK, TcpInv, WorkerServes, Servers

\* A sender task that moves on below the top of its loop changes nothing here: it is
\* not one of a session being set up.
LEMMA WorkerMoves ==
  ASSUME TypeOK, SenderInv, NEW w \in Workers, NEW p, p # "none",
         wpc[w] \notin {"none", "top"}, WorkerGoes(w, p)
  PROVE  SenderInv'
<1>1. wpc' = [wpc EXCEPT ![w] = p] /\ UNCHANGED <<state, playQuery, eTransport, cpc, req,
                                                wslot, kick>>
  BY DEF WorkerGoes, slotVars, clientVars
<1>2. \A s \in Slots : Servers(s)' = Servers(s) /\ Servers(s) \subseteq Workers
  BY <1>1 DEF TypeOK, Servers
<1>3. \A s \in Slots : TcpOnly(s) /\ state[s] = "SETUP" => w \notin Servers(s)
  BY DEF SenderInv, WorkerWaits
<1>4. \A s \in Slots : TcpOnly(s) => WorkerWaits(s)'
  BY <1>1, <1>2, <1>3 DEF TypeOK, SenderInv, WorkerWaits
<1> QED
  BY <1>1, <1>2, <1>4 DEF SenderInv, AsksInTurn, QueryHasWorker, TcpOnly

\* Every step keeps SenderInv.
LEMMA SenderStep ==
  TypeOK /\ TcpInv /\ SenderInv /\ [Next]_vars /\ "kick" \notin Events /\ NoReturn
    => SenderInv'
<1> SUFFICES ASSUME TypeOK, TcpInv, SenderInv, [Next]_vars, "kick" \notin Events, NoReturn
             PROVE  SenderInv'
  OBVIOUS
<1> USE DEF TypeOK, SenderInv, AsksInTurn, WorkerWaits, QueryHasWorker, TcpOnly,
            Goto
<1>1. ASSUME NEW s \in Slots, Accept(s)
      PROVE  SenderInv'
  BY SameServers, ServedIsUsed, <1>1 DEF Accept, ZeroSlot, workerVars, udpVars, TcpInv,
     Taken
<1>2. ASSUME NEW s \in Slots, ClientDrops(s)
      PROVE  SenderInv'
  BY SameServers, <1>2 DEF ClientDrops, slotVars, workerVars, udpVars
<1>3. ASSUME NEW s \in Slots, ClientReads(s)
      PROVE  SenderInv'
  <2>1. /\ cpc' = [cpc EXCEPT ![s] = "respond"] /\ UNCHANGED <<state, playQuery, kick>>
        /\ cpc[s] = "loop" /\ UNCHANGED workerVars
    BY <1>3 DEF ClientReads
  <2>2. /\ \A t \in Slots : eTransport[t] # "NONE" => eTransport'[t] # "NONE"
        /\ \A t \in Slots : t # s => req'[t] = req[t]
    BY <1>3 DEF ClientReads
  <2>3. <<state[s], req'[s].method>> \in Dialogue[s]
    BY <1>3 DEF ClientReads
  <2>4. req'[s].method \in {"OPTIONS", "DESCRIBE"} => state[s] \in {"NONE", "OPTIONS", "DESCRIBE"}
    <3> DEFINE d == <<state[s], req'[s].method>>
    <3>1. d[1] = state[s] /\ d[2] = req'[s].method
      OBVIOUS
    <3> QED
      BY <2>3, <3>1 DEF NoReturn
  <2> QED
    BY SameServers, <2>1, <2>2, <2>4 DEF workerVars
<1>4. ASSUME NEW s \in Slots, ClientInit(s)
      PROVE  SenderInv'
  BY SameServers, ServedIsUsed, <1>4 DEF ClientInit, SetState, workerVars, udpVars
<1>5. ASSUME NEW s \in Slots, ClientEnds(s)
      PROVE  SenderInv'
  BY SameServers, <1>5 DEF ClientEnds, slotVars, workerVars, udpVars
<1>6. ASSUME NEW s \in Slots, Refuse(s)
      PROVE  SenderInv'
  BY SameServers, <1>6 DEF Refuse, Answered, SetState, CheckUrl, Allowed, NoRequest,
     workerVars, udpVars
<1>7. ASSUME NEW s \in Slots, AnswerParameter(s)
      PROVE  SenderInv'
  BY SameServers, <1>7 DEF AnswerParameter, Answered, CheckUrl, Allowed, NoRequest,
     workerVars, udpVars
<1>8. ASSUME NEW s \in Slots, CheckState(s)
      PROVE  SenderInv'
  BY SameServers, <1>8 DEF CheckState, CheckUrl, Allowed, workerVars, udpVars
<1>9. ASSUME NEW s \in Slots, EnterAndAnswer(s)
      PROVE  SenderInv'
  BY SameServers, <1>9 DEF EnterAndAnswer, Answered, SetState, NoRequest, workerVars, udpVars
<1>10. ASSUME NEW s \in Slots, Enter(s)
      PROVE  SenderInv'
  BY SameServers, SetupFrom, <1>10 DEF Enter, SetState, workerVars, udpVars
<1>11. ASSUME NEW s \in Slots, AnswerPlay(s)
      PROVE  SenderInv'
  <2>1. UNCHANGED <<state, playQuery, eTransport, kick>> /\ UNCHANGED workerVars
    BY <1>11 DEF AnswerPlay, slotVars
  <2>2. \A t \in Slots : Servers(t)' = Servers(t)
    BY <2>1, SameServers
  <2>3. cpc[s] = "play" /\ cpc'[s] \in {"loop", "hung"}
    BY <1>11 DEF AnswerPlay, Answered
  <2>4. \A t \in Slots : t # s => cpc'[t] = cpc[t] /\ req'[t] = req[t]
    BY <1>11 DEF AnswerPlay, Answered
  <2>5. \A t \in Slots : TcpOnly(t) => (AsksInTurn(t) /\ WorkerWaits(t) /\ QueryHasWorker(t))'
    <3> SUFFICES ASSUME NEW t \in Slots, TcpOnly(t)
                 PROVE  (AsksInTurn(t) /\ WorkerWaits(t) /\ QueryHasWorker(t))'
      OBVIOUS
    <3>1. CASE t = s
      BY <2>1, <2>2, <2>3, <3>1 DEF workerVars
    <3>2. CASE t # s
      BY <2>1, <2>2, <2>4, <3>2 DEF workerVars
    <3> QED
      BY <3>1, <3>2
  <2> QED
    BY <2>1, <2>3, <2>4, <2>5
<1>12. ASSUME NEW s \in Slots, AnswerTeardown(s)
      PROVE  SenderInv'
  BY SameServers, <1>12 DEF AnswerTeardown, Answered, NoRequest, workerVars, udpVars
<1>13. ASSUME NEW s \in Slots, SetupFindsMutex(s)
      PROVE  SenderInv'
  BY SameServers, <1>13 DEF SetupFindsMutex, slotVars, workerVars, udpVars
<1>14. ASSUME NEW s \in Slots, SetupMakesMutex(s)
      PROVE  SenderInv'
  BY SameServers, <1>14 DEF SetupMakesMutex, slotVars, workerVars, udpVars
<1>15. ASSUME NEW s \in Slots, SetupRefuses(s)
      PROVE  SenderInv'
  BY SameServers, <1>15 DEF SetupRefuses, slotVars, workerVars,
     udpVars
<1>16. ASSUME NEW s \in Slots, SetupFails(s)
      PROVE  SenderInv'
  BY SameServers, <1>16 DEF SetupFails, workerVars, udpVars
<1>17. ASSUME NEW s \in Slots, SetupStartsWorker(s)
      PROVE  SenderInv'
  <2>1. PICK w \in Workers : /\ wpc[w] = "none"
                            /\ wpc' = [wpc EXCEPT ![w] = "top"]
                            /\ wslot' = [wslot EXCEPT ![w] = s]
    BY <1>17 DEF SetupStartsWorker
  <2>2. Servers(s)' = Servers(s) \cup {w} /\ \A t \in Slots \ {s} : Servers(t)' = Servers(t)
    BY <2>1 DEF Servers
  <2>3. wpc'[w] = "top" /\ \A v \in Workers : v # w => wpc'[v] = wpc[v]
    BY <2>1
  <2>4. \A t \in Slots : w \notin Servers(t) /\ Servers(t) \subseteq Workers
    BY <2>1 DEF Servers
  <2>5. /\ cpc[s] = "count" /\ cpc' = [cpc EXCEPT ![s] = "addquery"]
        /\ UNCHANGED <<state, playQuery, eTransport, req, kick>> /\ eTransport[s] # "NONE"
    BY <1>17 DEF SetupStartsWorker, SetupMayStart
  <2>6. TcpOnly(s) => state[s] = "SETUP" /\ \A v \in Servers(s) : wpc[v] = "top"
    BY <2>5
  <2>7. \A t \in Slots : TcpOnly(t) => (AsksInTurn(t) /\ WorkerWaits(t) /\ QueryHasWorker(t))'
    <3> SUFFICES ASSUME NEW t \in Slots, TcpOnly(t)
                 PROVE  (AsksInTurn(t) /\ WorkerWaits(t) /\ QueryHasWorker(t))'
      OBVIOUS
    <3>1. CASE t = s
      BY <2>2, <2>3, <2>4, <2>5, <2>6, <3>1
    <3>2. CASE t # s
      BY <2>2, <2>3, <2>4, <2>5, <3>2
    <3> QED
      BY <3>1, <3>2
  <2> QED
    BY <2>5, <2>7
<1>18. ASSUME NEW s \in Slots, SetupNeedsNoWorker(s)
      PROVE  SenderInv'
  BY SameServers, <1>18 DEF SetupNeedsNoWorker, SetupMayStart, workerVars, udpVars,
     TcpInv, SendersKeepApart
<1>19. ASSUME NEW s \in Slots, SetupAddsQuery(s)
      PROVE  SenderInv'
  BY SameServers, <1>19 DEF SetupAddsQuery, workerVars, udpVars
<1>51. ASSUME NEW s \in Slots,
              SetupTakesMutex(s) \/ SetupBlocks(s) \/ SetupWakes(s) \/ SetupHalts(s)
       PROVE  SenderInv'
  BY SameServers, <1>51 DEF SetupTakesMutex, SetupBlocks, SetupWakes, SetupHalts, slotVars,
     workerVars, udpVars
<1>52. ASSUME NEW s \in Slots, SetupGivesMutex(s)
       PROVE  SenderInv'
  BY SameServers, <1>52 DEF SetupGivesMutex, Answered, NoRequest, slotVars, workerVars,
     udpVars
<1>20. ASSUME NEW s \in Slots, ClientCloses(s)
      PROVE  SenderInv'
  BY SameServers, <1>20 DEF ClientCloses, SetState, workerVars, udpVars
<1>21. ASSUME NEW s \in Slots, ClientStopsWaiting(s)
      PROVE  SenderInv'
  BY SameServers, <1>21 DEF ClientStopsWaiting, slotVars, workerVars, udpVars
<1>22. ASSUME NEW s \in Slots, ClientFreesMemory(s)
      PROVE  SenderInv'
  BY SameServers, <1>22 DEF ClientFreesMemory, workerVars, udpVars
<1>23. ASSUME NEW s \in Slots, ClientZeroesSlot(s)
      PROVE  SenderInv'
  BY SameServers, ServedIsUsed, <1>23 DEF ClientZeroesSlot, ZeroSlot, workerVars,
     udpVars
<1>24. ASSUME NEW w \in Workers, WorkerEnds(w)
      PROVE  SenderInv'
  BY <1>24 DEF WorkerEnds, WorkerGoes, slotVars, clientVars, udpVars, Servers
<1>25. ASSUME NEW w \in Workers, WorkerPlays(w)
      PROVE  SenderInv'
  BY <1>25 DEF WorkerPlays, WorkerGoes, slotVars, clientVars, udpVars, Servers
<1>26. ASSUME NEW w \in Workers, WorkerLosesSession(w)
      PROVE  SenderInv'
  BY <1>26, WorkerMoves DEF WorkerLosesSession
<1>27. ASSUME NEW w \in Workers, WorkerIdles(w)
      PROVE  SenderInv'
  BY <1>27, WorkerMoves DEF WorkerIdles
<1>28. ASSUME NEW w \in Workers, WorkerBuilds(w)
      PROVE  SenderInv'
  BY <1>28, WorkerMoves DEF WorkerBuilds
<1>29. ASSUME NEW w \in Workers, WorkerDropsPacket(w)
      PROVE  SenderInv'
  BY <1>29, WorkerMoves DEF WorkerDropsPacket
<1>30. ASSUME NEW w \in Workers, WorkerSends(w)
      PROVE  SenderInv'
  BY <1>30, WorkerMoves DEF WorkerSends
<1>31. ASSUME NEW w \in Workers, WorkerSent(w)
      PROVE  SenderInv'
  BY <1>31, WorkerMoves DEF WorkerSent
<1>32. ASSUME NEW w \in Workers, WorkerFails(w)
      PROVE  SenderInv'
  BY <1>32, WorkerMoves DEF WorkerFails
<1>33. ASSUME NEW w \in Workers, WorkerExits(w)
      PROVE  SenderInv'
  <2> DEFINE u == wslot[w]
  <2>1. /\ wpc[w] = "exit" /\ wpc' = [wpc EXCEPT ![w] = "none"]
        /\ playQuery' = [playQuery EXCEPT ![u] = FALSE] /\ u \in Slots
        /\ UNCHANGED <<state, eTransport, cpc, req, wslot, kick>>
    BY <1>33 DEF WorkerExits, clientVars
  <2>2. Servers(u)' = Servers(u) \ {w} /\ \A t \in Slots \ {u} : Servers(t)' = Servers(t)
    BY <2>1 DEF Servers
  <2>3. w \in Servers(u) /\ \A t \in Slots \ {u} : w \notin Servers(t)
    BY <2>1 DEF Servers
  <2>4. \A t \in Slots : Servers(t) \subseteq Workers
    BY DEF Servers
  <2>5. \A t \in Slots : TcpOnly(t) => (AsksInTurn(t) /\ WorkerWaits(t) /\ QueryHasWorker(t))'
    <3> SUFFICES ASSUME NEW t \in Slots, TcpOnly(t)
                 PROVE  (AsksInTurn(t) /\ WorkerWaits(t) /\ QueryHasWorker(t))'
      OBVIOUS
    <3>1. CASE t = u
      BY <2>1, <2>2, <2>3, <2>4, <3>1
    <3>2. CASE t # u
      BY <2>1, <2>2, <2>3, <2>4, <3>2
    <3> QED
      BY <3>1, <3>2
  <2> QED
    BY <2>1, <2>5
<1>34. CASE UdpSkips \/ UdpIdles \/ UdpDropsPacket \/ UdpSent
  BY SameServers, <1>34 DEF UdpSkips, UdpIdles, UdpDropsPacket, UdpSent, UdpMovesOn,
     slotVars, clientVars, workerVars
<1>35. CASE UdpPlays \/ UdpSeesTeardown \/ UdpLosesSession \/ UdpBuilds \/ UdpSends
  BY SameServers, <1>35 DEF UdpPlays, UdpSeesTeardown, UdpLosesSession, UdpBuilds,
     UdpSends, UdpGoes, slotVars, clientVars, workerVars
<1>36. CASE UdpClears
  BY SameServers, <1>36 DEF UdpClears, clientVars, workerVars
<1>37. CASE UdpFails
  BY SameServers, <1>37 DEF UdpFails, SetState, clientVars, workerVars, TcpInv,
     SendersKeepApart
<1>38. CASE UNCHANGED vars
  BY SameServers, <1>38 DEF vars, slotVars, clientVars, workerVars
<1>39. \A s \in Slots : ~KickChecks(s) /\ ~KickWrites
  BY DEF KickChecks, KickWrites
<1> QED
  BY <1>1, <1>2, <1>3, <1>4, <1>5, <1>6, <1>7, <1>8, <1>9, <1>10, <1>11, <1>12, <1>13,
     <1>14, <1>15, <1>16, <1>17, <1>18, <1>19, <1>20, <1>21, <1>22, <1>23, <1>24, <1>25,
     <1>26, <1>27, <1>28, <1>29, <1>30, <1>31, <1>32, <1>33, <1>34, <1>35, <1>36, <1>37,
     <1>38, <1>39, <1>51, <1>52 DEF Next, ClientWorks, Worker, Udp

\* play_query always has a sender that will clear it: the TCP sender task that SETUP
\* (rtspd_client_rtsp_process_setup) has made is still there when it sets play_query,
\* and a session without one is over UDP.
THEOREM SenderBehindQuery ==
  ASSUME OneTransport, "kick" \notin Events, NoReturn
  PROVE  Spec => []QueryHasSender
<1>1. Init => TcpInv /\ SenderInv
  BY DEF Init, TcpInv, SendersKeepApart, Taken, WorkerServes, OneWorkerPerSlot, SenderInv,
     AsksInTurn, WorkerWaits, QueryHasWorker, Servers
<1>2. TypeOK /\ TcpInv /\ SenderInv /\ [Next]_vars => TcpInv' /\ SenderInv'
  BY TcpStep, SenderStep
<1>3. TypeOK /\ TcpInv /\ SenderInv => QueryHasSender
  BY DEF TypeOK, TcpInv, SendersKeepApart, OneTransport, SenderInv, TcpOnly, Servers,
     QueryHasWorker, QueryHasSender
<1> QED
  BY <1>1, <1>2, <1>3, TypeCorrect, PTL DEF Spec
------------------------------------------------------------------------------
(***************************************************************************)
(* The wait of a closing client.  TEARDOWN is the last state it writes.    *)
(* While it waits the state is written by a kick, which writes the same,   *)
(* and by a UDP send that fails once more than 30 times.                   *)
(***************************************************************************)
WaiterToldSenders == \A s \in Slots : cpc[s] = "wait" => state[s] = "TEARDOWN"

LEMMA WaitStep ==
  TypeOK /\ WaiterToldSenders /\ [Next]_vars /\ "udpfail" \notin Events => WaiterToldSenders'
<1> SUFFICES ASSUME TypeOK, WaiterToldSenders, [Next]_vars, "udpfail" \notin Events
             PROVE  WaiterToldSenders'
  OBVIOUS
<1> USE DEF TypeOK, WaiterToldSenders, Goto, SetState, slotVars, clientVars
<1>1. ASSUME NEW s \in Slots, Accept(s)
      PROVE  WaiterToldSenders'
  BY <1>1 DEF Accept, ZeroSlot
<1>2. ASSUME NEW s \in Slots, ClientDrops(s)
      PROVE  WaiterToldSenders'
  BY <1>2 DEF ClientDrops
<1>3. ASSUME NEW s \in Slots, ClientReads(s)
      PROVE  WaiterToldSenders'
  BY <1>3 DEF ClientReads
<1>4. ASSUME NEW s \in Slots, ClientInit(s)
      PROVE  WaiterToldSenders'
  BY <1>4 DEF ClientInit
<1>5. ASSUME NEW s \in Slots, ClientEnds(s)
      PROVE  WaiterToldSenders'
  BY <1>5 DEF ClientEnds
<1>6. ASSUME NEW s \in Slots, Refuse(s)
      PROVE  WaiterToldSenders'
  BY <1>6 DEF Refuse, Answered
<1>7. ASSUME NEW s \in Slots, AnswerParameter(s)
      PROVE  WaiterToldSenders'
  BY <1>7 DEF AnswerParameter, Answered
<1>8. ASSUME NEW s \in Slots, CheckState(s)
      PROVE  WaiterToldSenders'
  BY <1>8 DEF CheckState
<1>9. ASSUME NEW s \in Slots, EnterAndAnswer(s)
      PROVE  WaiterToldSenders'
  BY <1>9 DEF EnterAndAnswer, Answered
<1>10. ASSUME NEW s \in Slots, Enter(s)
      PROVE  WaiterToldSenders'
  BY <1>10 DEF Enter
<1>11. ASSUME NEW s \in Slots, AnswerPlay(s)
      PROVE  WaiterToldSenders'
  BY <1>11 DEF AnswerPlay, Answered
<1>12. ASSUME NEW s \in Slots, AnswerTeardown(s)
      PROVE  WaiterToldSenders'
  BY <1>12 DEF AnswerTeardown, Answered
<1>13. ASSUME NEW s \in Slots, SetupFindsMutex(s)
      PROVE  WaiterToldSenders'
  BY <1>13 DEF SetupFindsMutex
<1>14. ASSUME NEW s \in Slots, SetupMakesMutex(s)
      PROVE  WaiterToldSenders'
  BY <1>14 DEF SetupMakesMutex
<1>15. ASSUME NEW s \in Slots, SetupRefuses(s)
      PROVE  WaiterToldSenders'
  BY <1>15 DEF SetupRefuses
<1>16. ASSUME NEW s \in Slots, SetupFails(s)
      PROVE  WaiterToldSenders'
  BY <1>16 DEF SetupFails
<1>17. ASSUME NEW s \in Slots, SetupStartsWorker(s)
      PROVE  WaiterToldSenders'
  BY <1>17 DEF SetupStartsWorker, SetupMayStart
<1>18. ASSUME NEW s \in Slots, SetupNeedsNoWorker(s)
      PROVE  WaiterToldSenders'
  BY <1>18 DEF SetupNeedsNoWorker, SetupMayStart
<1>19. ASSUME NEW s \in Slots, SetupAddsQuery(s)
      PROVE  WaiterToldSenders'
  BY <1>19 DEF SetupAddsQuery
<1>51. ASSUME NEW s \in Slots,
              SetupTakesMutex(s) \/ SetupBlocks(s) \/ SetupWakes(s) \/ SetupHalts(s)
       PROVE  WaiterToldSenders'
  BY <1>51 DEF SetupTakesMutex, SetupBlocks, SetupWakes, SetupHalts
<1>52. ASSUME NEW s \in Slots, SetupGivesMutex(s)
       PROVE  WaiterToldSenders'
  BY <1>52 DEF SetupGivesMutex, Answered
<1>20. ASSUME NEW s \in Slots, ClientCloses(s)
      PROVE  WaiterToldSenders'
  BY <1>20 DEF ClientCloses
<1>21. ASSUME NEW s \in Slots, ClientStopsWaiting(s)
      PROVE  WaiterToldSenders'
  BY <1>21 DEF ClientStopsWaiting
<1>22. ASSUME NEW s \in Slots, ClientFreesMemory(s)
      PROVE  WaiterToldSenders'
  BY <1>22 DEF ClientFreesMemory
<1>23. ASSUME NEW s \in Slots, ClientZeroesSlot(s)
      PROVE  WaiterToldSenders'
  BY <1>23 DEF ClientZeroesSlot, ZeroSlot
<1>24. ASSUME NEW w \in Workers, Worker(w)
      PROVE  WaiterToldSenders'
  BY <1>24 DEF Worker, WorkerGoes, WorkerEnds, WorkerPlays, WorkerLosesSession,
     WorkerIdles, WorkerBuilds, WorkerDropsPacket, WorkerSends, WorkerSent, WorkerFails,
     WorkerExits
<1>25. CASE Udp
  BY <1>25 DEF Udp, UdpGoes, UdpMovesOn, UdpSkips, UdpPlays, UdpSeesTeardown, UdpClears,
     UdpLosesSession, UdpIdles, UdpBuilds, UdpDropsPacket, UdpSends, UdpSent, UdpFails
<1>26. CASE KickWrites \/ (\E s \in Slots : KickChecks(s)) \/ UNCHANGED vars
  BY <1>26 DEF KickWrites, KickChecks, vars
<1> QED
  BY <1>1, <1>2, <1>3, <1>4, <1>5, <1>6, <1>7, <1>8, <1>9, <1>10, <1>11, <1>12, <1>13,
     <1>14, <1>15, <1>16, <1>17, <1>18, <1>19, <1>20, <1>21, <1>22, <1>23, <1>24,
     <1>25, <1>26, <1>51, <1>52 DEF Next, ClientWorks

\* Whoever rtspd_client_main waits for is there, does not hang, and has been told to stop:
\* the wait for play_query is not one that nobody can end.
THEOREM WaitIsHeard ==
  ASSUME OneTransport, ClearIsQuick, "kick" \notin Events, "udpfail" \notin Events,
         NoTeardownRequest, NoReturn
  PROVE  Spec => []WaiterIsHeard
<1>1. Init => WaiterToldSenders
  BY DEF Init, WaiterToldSenders
<1>2. TypeOK /\ WaiterToldSenders /\ [Next]_vars => WaiterToldSenders'
  BY WaitStep
<1>3. WaiterToldSenders /\ QueryHasSender /\ NobodyHangs => WaiterIsHeard
  BY DEF WaiterToldSenders, QueryHasSender, NobodyHangs, WaiterIsHeard
<1>4. Spec => []QueryHasSender
  BY SenderBehindQuery
<1>5. Spec => [](RtpSessionLives /\ NobodyHangs)
  BY SessionOutlivesUsers
<1> QED
  BY <1>1, <1>2, <1>3, <1>4, <1>5, TypeCorrect, PTL DEF Spec
==============================================================================
