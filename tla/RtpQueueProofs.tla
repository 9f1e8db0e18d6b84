---------------------------- MODULE RtpQueueProofs ----------------------------
(***************************************************************************)
(* Proofs about RtpQueue, for every ring size and every number of puts.    *)
(***************************************************************************)
EXTENDS RtpQueue, TLAPS

\* A step around the ring stays in it.
LEMMA NumLoopInRing == \A v \in Slots : NumLoop(v) \in Slots
  BY TotNumAssumption DEF Slots, NumLoop

\* Every variable keeps its type: the indices never leave the ring and
\* rtp_queue_put never writes beyond its entries.
THEOREM TypeCorrect == Spec => []TypeOK
<1>1. Init => TypeOK
  <2> SUFFICES ASSUME Init
               PROVE  TypeOK
    OBVIOUS
  <2>1. 0 \in Slots /\ 0 \in 0 .. MaxPuts
    BY TotNumAssumption, MaxPutsAssumption DEF Slots
  <2>2. data \in [Slots -> 0 .. MaxPuts] /\ pc \in [Consumers -> {"idle", "take", "copy", "give"}]
    BY <2>1 DEF Init
  <2>3. out \in [count : Nat, frame : 0 .. MaxPuts]
    BY <2>1 DEF Init
  <2> QED
    BY <2>1, <2>2, <2>3 DEF Init, TypeOK
<1>2. TypeOK /\ [Next]_vars => TypeOK'
  <2> SUFFICES ASSUME TypeOK, [Next]_vars
               PROVE  TypeOK'
    OBVIOUS
  <2>1. CASE Open
    BY <2>1, TotNumAssumption, MaxPutsAssumption DEF Open, TypeOK, Slots
  <2>2. CASE Close
    <3>1. 0 \in Slots
      BY TotNumAssumption DEF Slots
    <3> QED
      BY <2>2, <3>1, Zenon DEF Close, TypeOK
  <2>3. CASE Put
    BY <2>3, NumLoopInRing, MaxPutsAssumption DEF Put, TypeOK
  <2>4. ASSUME NEW c \in Consumers, Get(c)
        PROVE  TypeOK'
    <3>1. CASE GetCheck(c)
      BY <3>1 DEF GetCheck, TypeOK, ring
    <3>2. CASE GetTake(c)
      BY <3>2 DEF GetTake, TypeOK, ring
    <3>3. CASE GetCopy(c)
      BY <3>3, NumLoopInRing DEF GetCopy, TypeOK
    <3>4. CASE GetGive(c)
      BY <3>4 DEF GetGive, TypeOK, ring
    <3> QED
      BY <2>4, <3>1, <3>2, <3>3, <3>4 DEF Get
  <2>5. CASE UNCHANGED vars
    BY <2>5 DEF vars, ring, TypeOK
  <2> QED
    BY <2>1, <2>2, <2>3, <2>4, <2>5 DEF Next
<1> QED
  BY <1>1, <1>2, PTL DEF Spec
------------------------------------------------------------------------------
(***************************************************************************)
(* Order of delivery.  A session has one sender task, so one consumer; the *)
(* invariant that makes its gets safe is that the entries from the head    *)
(* are the newest frames, numbered without a gap up to nput, also when a   *)
(* put has brought the tail to the head behind the back of a consumer that *)
(* has already seen a frame.                                               *)
(***************************************************************************)
OneConsumer == \A c, d \in Consumers : c = d

\* No consumer is inside rtp_queue_get on a freed ring.
IdleWhenFreed == alive \/ \A c \in Consumers : pc[c] = "idle"

IInv == TypeOK /\ BacklogIsNewest /\ IdleWhenFreed

\* The backlog fits the ring and the tail is right behind it.
LEMMA BacklogInRing ==
  ASSUME TypeOK
  PROVE  /\ Backlog \in 0 .. TotNum
         /\ Backlog < TotNum => EntryAfterHead(Backlog) = tail
         /\ Backlog = TotNum => head = tail /\ Committed
         /\ head # tail => Backlog < TotNum /\ Backlog > 0
         /\ Committed => Backlog > 0
         /\ ~Committed => Backlog < TotNum
  BY TotNumAssumption DEF TypeOK, Slots, Backlog, EntryAfterHead

\* Two different distances from the head are two different entries.
LEMMA EntriesDiffer ==
  ASSUME TypeOK, NEW i \in 0 .. TotNum - 1, NEW j \in 0 .. TotNum - 1
  PROVE  /\ EntryAfterHead(i) \in Slots
         /\ EntryAfterHead(i) = EntryAfterHead(j) => i = j
  BY TotNumAssumption DEF TypeOK, Slots, EntryAfterHead

LEMMA PutKeepsBacklog == IInv /\ Put => BacklogIsNewest'
<1> SUFFICES ASSUME IInv, Put
             PROVE  BacklogIsNewest'
  OBVIOUS
<1> USE TotNumAssumption, MaxPutsAssumption
<1>1. TypeOK /\ BacklogIsNewest
  BY DEF IInv
<1>2. Committed' = Committed
  BY DEF Put, Committed
<1>3. /\ head' = head /\ out' = out /\ nput' = nput + 1
      /\ tail' = NumLoop(tail) /\ data' = [data EXCEPT ![tail] = nput + 1]
  BY DEF Put
<1>4. \A i \in 0 .. TotNum - 1 : EntryAfterHead(i)' = EntryAfterHead(i)
  BY <1>3 DEF EntryAfterHead
<1>5. nput \in Nat /\ out.frame \in Nat /\ out.frame + Backlog <= nput
  BY <1>1 DEF TypeOK, BacklogIsNewest
<1>6. CASE Backlog = TotNum
  <2>1. Backlog' = 1
    BY <1>1, <1>2, <1>3, <1>6, BacklogInRing DEF TypeOK, Slots, Backlog, NumLoop
  <2>2. EntryAfterHead(0)' = tail
    BY <1>1, <1>3, <1>6, BacklogInRing DEF TypeOK, Slots, EntryAfterHead
  <2>3. data'[tail] = nput + 1
    BY <1>1, <1>3 DEF TypeOK
  <2> QED
    BY <1>3, <1>5, <1>6, <2>1, <2>2, <2>3 DEF BacklogIsNewest
<1>7. CASE Backlog < TotNum /\ Backlog' = 0
  BY <1>3, <1>5, <1>7, BacklogInRing, <1>1 DEF BacklogIsNewest
<1>8. CASE Backlog < TotNum /\ Backlog' # 0
  <2>1. Backlog' = Backlog + 1
    BY <1>1, <1>2, <1>3, <1>8 DEF TypeOK, Slots, Backlog, NumLoop
  <2>2. ASSUME NEW i \in 0 .. TotNum - 1, i < Backlog'
        PROVE  data'[EntryAfterHead(i)'] + Backlog' = nput' + 1 + i
    <3>1. CASE i = Backlog
      <4>1. EntryAfterHead(i)' = tail
        BY <1>1, <1>4, <1>8, <3>1, BacklogInRing
      <4>2. data'[tail] = nput + 1
        BY <1>1, <1>3 DEF TypeOK
      <4> QED
        BY <1>3, <1>5, <2>1, <3>1, <4>1, <4>2, BacklogInRing, <1>1
    <3>2. CASE i # Backlog
      <4>1. i < Backlog /\ Backlog \in 0 .. TotNum - 1
        BY <1>1, <1>8, <2>1, <2>2, <3>2, BacklogInRing
      <4>2. EntryAfterHead(i)' = EntryAfterHead(i) /\ EntryAfterHead(i) # tail
        BY <1>1, <1>4, <1>8, <4>1, BacklogInRing, EntriesDiffer
      <4>3. data'[EntryAfterHead(i)] = data[EntryAfterHead(i)]
        BY <1>1, <1>3, <4>2 DEF TypeOK
      <4>4. data[EntryAfterHead(i)] + Backlog = nput + 1 + i
        BY <1>1, <4>1 DEF BacklogIsNewest
      <4>5. data[EntryAfterHead(i)] \in Nat
        BY <1>1, EntriesDiffer DEF TypeOK
      <4> QED
        BY <1>3, <1>5, <2>1, <4>1, <4>2, <4>3, <4>4, <4>5
    <3> QED
      BY <3>1, <3>2
  <2> QED
    BY <1>1, <1>3, <1>5, <2>1, <2>2, BacklogInRing DEF BacklogIsNewest
<1> QED
  BY <1>1, <1>6, <1>7, <1>8, BacklogInRing

\* A copy takes the oldest frame of the backlog, which is newer than the last
\* one delivered, and leaves the rest.
LEMMA CopyKeepsBacklog ==
  ASSUME OneConsumer, NEW c \in Consumers
  PROVE  IInv /\ GetCopy(c) => BacklogIsNewest' /\ out'.frame > out.frame
<1> SUFFICES ASSUME IInv, GetCopy(c)
             PROVE  BacklogIsNewest' /\ out'.frame > out.frame
  OBVIOUS
<1> USE TotNumAssumption, MaxPutsAssumption
<1>1. TypeOK /\ BacklogIsNewest
  BY DEF IInv
<1>2. Committed /\ ~Committed'
  BY <1>1 DEF GetCopy, Committed, OneConsumer, TypeOK
<1>3. /\ head' = NumLoop(head) /\ tail' = tail /\ data' = data /\ nput' = nput
      /\ out' = [count |-> out.count + 1, frame |-> data[head]]
  BY DEF GetCopy
<1>4. Backlog \in 1 .. TotNum
  BY <1>1, <1>2, BacklogInRing
<1>5. Backlog' = Backlog - 1
  BY <1>1, <1>2, <1>3 DEF TypeOK, Slots, Backlog, NumLoop
<1>6. EntryAfterHead(0) = head
  BY <1>1 DEF EntryAfterHead, TypeOK, Slots
<1>7. /\ data[head] + Backlog = nput + 1
      /\ data[head] \in Nat /\ out.frame \in Nat /\ nput \in Nat
      /\ out.frame + Backlog <= nput
  BY <1>1, <1>4, <1>6 DEF BacklogIsNewest, TypeOK
<1>8. ASSUME NEW i \in 0 .. TotNum - 1, i < Backlog'
      PROVE  data'[EntryAfterHead(i)'] + Backlog' = nput' + 1 + i
  <2>1. i + 1 \in 0 .. TotNum - 1 /\ i + 1 < Backlog
    BY <1>4, <1>5, <1>8
  <2>2. EntryAfterHead(i)' = EntryAfterHead(i + 1)
    BY <1>1, <1>3, <2>1 DEF EntryAfterHead, NumLoop, TypeOK, Slots
  <2>3. data[EntryAfterHead(i + 1)] + Backlog = nput + 1 + (i + 1)
    BY <1>1, <2>1 DEF BacklogIsNewest
  <2>4. data[EntryAfterHead(i + 1)] \in Nat
    BY <1>1, <2>1, EntriesDiffer DEF TypeOK
  <2> QED
    BY <1>3, <1>4, <1>5, <1>7, <2>2, <2>3, <2>4
<1> QED
  BY <1>3, <1>4, <1>5, <1>7, <1>8 DEF BacklogIsNewest

\* A step that leaves the ring and the set of committed consumers as they are,
\* or that commits a consumer to a ring that is not empty.
LEMMA QuietStep ==
  ASSUME TypeOK, BacklogIsNewest, UNCHANGED <<data, head, tail, nput, out>>,
         (Committed' <=> Committed) \/ head # tail
  PROVE  BacklogIsNewest'
<1>1. Backlog' = Backlog
  BY DEF Backlog
<1> QED
  BY <1>1 DEF BacklogIsNewest, EntryAfterHead

\* The steps that open or close a ring leave nothing in it.
LEMMA OpenCloseEmpty == IInv /\ (Open \/ Close) => BacklogIsNewest'
<1> SUFFICES ASSUME IInv, Open \/ Close
             PROVE  BacklogIsNewest'
  OBVIOUS
<1>1. head' = tail' /\ nput' = nput /\ out' = out
  BY DEF Open, Close
<1>2. ~Committed'
  BY DEF IInv, IdleWhenFreed, Open, Close, Committed
<1>3. Backlog' = 0
  BY <1>1, <1>2 DEF Backlog
<1>4. out.frame \in Nat /\ nput \in Nat /\ Backlog \in Nat
  BY BacklogInRing, TotNumAssumption, MaxPutsAssumption DEF IInv, TypeOK
<1> QED
  BY <1>1, <1>3, <1>4 DEF IInv, BacklogIsNewest

\* One step of one consumer in rtp_queue_get.
LEMMA GetKeepsBacklog ==
  ASSUME OneConsumer, NEW c \in Consumers
  PROVE  IInv /\ Get(c) => BacklogIsNewest'
<1> SUFFICES ASSUME IInv, Get(c)
             PROVE  BacklogIsNewest'
  OBVIOUS
<1>1. CASE GetCheck(c)
  BY <1>1, QuietStep DEF GetCheck, IsEmpty, ring, IInv
<1>2. CASE GetTake(c)
  <2>1. Committed' /\ Committed
    BY <1>2 DEF GetTake, Committed, IInv, TypeOK
  <2> QED
    BY <1>2, <2>1, QuietStep DEF GetTake, ring, IInv
<1>3. CASE GetCopy(c)
  BY <1>3, CopyKeepsBacklog
<1>4. CASE GetGive(c)
  <2>1. ~Committed' /\ ~Committed
    BY <1>4 DEF GetGive, Committed, IInv, TypeOK, OneConsumer
  <2> QED
    BY <1>4, <2>1, QuietStep DEF GetGive, ring, IInv
<1> QED
  BY <1>1, <1>2, <1>3, <1>4 DEF Get

LEMMA StepKeepsBacklog ==
  ASSUME OneConsumer
  PROVE  IInv /\ [Next]_vars => BacklogIsNewest'
<1> SUFFICES ASSUME IInv, [Next]_vars
             PROVE  BacklogIsNewest'
  OBVIOUS
<1>1. CASE UNCHANGED vars
  BY <1>1, QuietStep DEF vars, IInv, Committed
<1> QED
  BY <1>1, OpenCloseEmpty, PutKeepsBacklog, GetKeepsBacklog DEF Next

LEMMA StepKeepsIdle == IInv /\ [Next]_vars => IdleWhenFreed'
  BY DEF IInv, TypeOK, IdleWhenFreed, Next, Open, Close, Put, Get, GetCheck,
         GetTake, GetCopy, GetGive, vars

\* IInv is inductive.
LEMMA Inductive ==
  ASSUME OneConsumer
  PROVE  Spec => []IInv
<1>1. Init => BacklogIsNewest /\ IdleWhenFreed
  BY TotNumAssumption DEF Init, BacklogIsNewest, Backlog, Committed, IdleWhenFreed
<1>2. IInv /\ TypeOK' /\ [Next]_vars => IInv'
  BY StepKeepsBacklog, StepKeepsIdle DEF IInv
<1> QED
  BY <1>1, <1>2, TypeCorrect, PTL DEF IInv, Spec

\* With one sender per session, the entries between head and tail are always the
\* newest frames put: rtp_queue_get never copies a stale or a zeroed entry.
THEOREM BacklogCorrect ==
  ASSUME OneConsumer
  PROVE  Spec => []BacklogIsNewest
  BY Inductive, PTL DEF IInv

\* With one sender per session, rtp_queue_get hands out frames in the order of the
\* puts and none twice, however often the ring is overrun.
THEOREM DeliveryInOrder ==
  ASSUME OneConsumer
  PROVE  Spec => GetInOrder
<1>1. IInv /\ [Next]_vars => [out'.count # out.count => out'.frame > out.frame]_vars
  <2> SUFFICES ASSUME IInv, Next, out'.count # out.count
               PROVE  out'.frame > out.frame
    BY DEF vars
  <2>1. PICK c \in Consumers : GetCopy(c)
    BY DEF Next, Open, Close, Put, Get, GetCheck, GetTake, GetGive
  <2> QED
    BY <2>1, CopyKeepsBacklog
<1> QED
  BY <1>1, Inductive, PTL DEF Spec, GetInOrder
------------------------------------------------------------------------------
(***************************************************************************)
(* The ring implements FrameFifo: the backlog is the abstract buffer, and  *)
(* each step of the ring is a step of the buffer or changes nothing of it. *)
(***************************************************************************)

\* The abstract buffer is the sequence of the last Backlog frame numbers.
PendingIsRamp ==
  /\ Backlog \in 0 .. TotNum /\ nput \in Nat /\ Backlog <= nput
  /\ Pending = [i \in 1 .. Backlog |-> nput - Backlog + i]

LEMMA Ramp == IInv => PendingIsRamp
<1> SUFFICES ASSUME IInv
             PROVE  PendingIsRamp
  OBVIOUS
<1> USE TotNumAssumption, MaxPutsAssumption
<1>1. Backlog \in 0 .. TotNum /\ nput \in Nat /\ Backlog <= nput
  BY BacklogInRing DEF IInv, TypeOK, BacklogIsNewest
<1>2. ASSUME NEW i \in 1 .. Backlog
      PROVE  data[EntryAfterHead(i - 1)] = nput - Backlog + i
  <2>1. i - 1 \in 0 .. TotNum - 1 /\ i - 1 < Backlog
    BY <1>1
  <2>2. data[EntryAfterHead(i - 1)] + Backlog = nput + 1 + (i - 1)
    BY <2>1 DEF IInv, BacklogIsNewest
  <2>3. data[EntryAfterHead(i - 1)] \in Nat
    BY <2>1, EntriesDiffer DEF IInv, TypeOK
  <2> QED
    BY <1>1, <2>2, <2>3
<1> QED
  BY <1>1, <1>2 DEF PendingIsRamp, Pending

\* What a put does to the backlog.
LEMMA PutBacklog ==
  ASSUME TypeOK, Put
  PROVE  \/ Backlog < TotNum /\ Backlog' = Backlog + 1
         \/ Backlog = TotNum - 1 /\ Backlog' = 0
         \/ Backlog = TotNum /\ Backlog' = 1
<1>1. Committed' = Committed
  BY DEF Put, Committed
<1> QED
  BY <1>1, TotNumAssumption DEF Put, TypeOK, Slots, Backlog, NumLoop

\* A put appends its frame, or overruns the ring.
LEMMA PutRefines ==
  IInv /\ IInv' /\ Put => Fifo!Store \/ Fifo!LoseAll \/ Fifo!LoseOld
<1> SUFFICES ASSUME IInv, IInv', Put
             PROVE  Fifo!Store \/ Fifo!LoseAll \/ Fifo!LoseOld
  OBVIOUS
<1> USE TotNumAssumption
<1>1. PendingIsRamp /\ PendingIsRamp'
  BY Ramp, PTL
<1>2. nput' = nput + 1 /\ nput < MaxPuts /\ out' = out
  BY DEF Put
<1>3. Len(Pending) = Backlog
  BY <1>1 DEF PendingIsRamp
<1>4. CASE Backlog < TotNum /\ Backlog' = Backlog + 1
  <2>1. Pending' = Append(Pending, nput + 1)
    BY <1>1, <1>2, <1>4 DEF PendingIsRamp
  <2> QED
    BY <1>2, <1>3, <1>4, <2>1 DEF Fifo!Store
<1>5. CASE Backlog = TotNum - 1 /\ Backlog' = 0
  <2>1. Pending' = <<>>
    BY <1>1, <1>5 DEF PendingIsRamp
  <2> QED
    BY <1>2, <1>3, <1>5, <2>1 DEF Fifo!LoseAll
<1>6. CASE Backlog = TotNum /\ Backlog' = 1
  <2>1. Pending' = <<nput + 1>>
    BY <1>1, <1>2, <1>6 DEF PendingIsRamp
  <2> QED
    BY <1>2, <1>3, <1>6, <2>1 DEF Fifo!LoseOld
<1> QED
  BY <1>4, <1>5, <1>6, PutBacklog DEF IInv

\* A copy delivers the head of the buffer.
LEMMA CopyRefines ==
  ASSUME OneConsumer, NEW c \in Consumers
  PROVE  IInv /\ IInv' /\ GetCopy(c) => Fifo!Deliver
<1> SUFFICES ASSUME IInv, IInv', GetCopy(c)
             PROVE  Fifo!Deliver
  OBVIOUS
<1> USE TotNumAssumption
<1>1. PendingIsRamp /\ PendingIsRamp'
  BY Ramp, PTL
<1>2. Committed /\ ~Committed'
  BY DEF GetCopy, Committed, OneConsumer, IInv, TypeOK
<1>3. Backlog \in 1 .. TotNum
  BY <1>2, BacklogInRing DEF IInv
<1>4. Backlog' = Backlog - 1
  BY <1>2 DEF GetCopy, IInv, TypeOK, Slots, Backlog, NumLoop
<1>5. nput' = nput /\ out' = [count |-> out.count + 1, frame |-> data[head]]
  BY DEF GetCopy
<1>6. Pending # <<>> /\ Head(Pending) = Pending[1] /\ Pending' = Tail(Pending)
  <2> DEFINE n == Backlog
             ramp == [i \in 1 .. n |-> nput - n + i]
  <2>1. Pending = ramp /\ Pending' = [i \in 1 .. n - 1 |-> nput - (n - 1) + i]
    BY <1>1, <1>4, <1>5 DEF PendingIsRamp
  <2>2. n \in 1 .. TotNum /\ nput \in Nat /\ n <= nput
    BY <1>1, <1>3 DEF PendingIsRamp
  <2> HIDE DEF n
  <2>3. ramp \in Seq(Nat) /\ Len(ramp) = n
    BY <2>2
  <2>4. ramp # <<>> /\ Head(ramp) = ramp[1]
    BY <2>2, <2>3
  <2>5. Tail(ramp) = [i \in 1 .. n - 1 |-> ramp[i + 1]]
    BY <2>2, <2>3
  <2>6. \A i \in 1 .. n - 1 : ramp[i + 1] = nput - (n - 1) + i
    BY <2>2
  <2> QED
    BY <2>1, <2>4, <2>5, <2>6
<1>7. Pending[1] = data[head]
  BY <1>3 DEF Pending, EntryAfterHead, IInv, TypeOK, Slots
<1> QED
  BY <1>5, <1>6, <1>7 DEF Fifo!Deliver

\* A step that moves nothing in the ring is a stutter of the buffer.
LEMMA QuietRefines ==
  ASSUME UNCHANGED <<data, head, tail, nput, out>>,
         (Committed' <=> Committed) \/ head # tail
  PROVE  UNCHANGED Fifo!vars
<1>1. Backlog' = Backlog
  BY DEF Backlog
<1> QED
  BY <1>1 DEF Pending, EntryAfterHead, Fifo!vars

\* With one sender per session, the ring with its unlocked emptiness test and its
\* put that does not stop when full implements the lossy queue of FrameFifo.
THEOREM RingImplementsFifo ==
  ASSUME OneConsumer
  PROVE  Spec => FifoSpec
<1>1. Init => Fifo!Init
  BY DEF Init, Fifo!Init, Pending, Backlog, Committed
<1>2. IInv /\ IInv' /\ [Next]_vars => [Fifo!Next]_Fifo!vars
  <2> SUFFICES ASSUME IInv, IInv', [Next]_vars
               PROVE  Fifo!Next \/ UNCHANGED Fifo!vars
    OBVIOUS
  <2>1. CASE Open \/ Close
    <3>1. ~Committed' /\ head' = tail' /\ nput' = nput /\ out' = out
      BY <2>1 DEF IInv, IdleWhenFreed, Open, Close, Committed
    <3>2. Pending' = <<>>
      BY <3>1 DEF Pending, Backlog
    <3> QED
      BY <3>1, <3>2 DEF Fifo!Next, Fifo!Forget
  <2>2. CASE Put
    BY <2>2, PutRefines DEF Fifo!Next
  <2>3. ASSUME NEW c \in Consumers, Get(c)
        PROVE  Fifo!Next \/ UNCHANGED Fifo!vars
    <3>1. CASE GetCheck(c)
      BY <3>1, QuietRefines DEF GetCheck, IsEmpty, ring
    <3>2. CASE GetTake(c)
      <4>1. Committed' /\ Committed
        BY <3>2 DEF GetTake, Committed, IInv, TypeOK
      <4> QED
        BY <3>2, <4>1, QuietRefines DEF GetTake, ring
    <3>3. CASE GetCopy(c)
      BY <3>3, CopyRefines DEF Fifo!Next
    <3>4. CASE GetGive(c)
      <4>1. ~Committed' /\ ~Committed
        BY <3>4 DEF GetGive, Committed, IInv, TypeOK, OneConsumer
      <4> QED
        BY <3>4, <4>1, QuietRefines DEF GetGive, ring
    <3> QED
      BY <2>3, <3>1, <3>2, <3>3, <3>4 DEF Get
  <2>4. CASE UNCHANGED vars
    BY <2>4, QuietRefines DEF vars, Committed
  <2> QED
    BY <2>1, <2>2, <2>3, <2>4 DEF Next
<1> QED
  BY <1>1, <1>2, Inductive, PTL DEF Spec, FifoSpec, Fifo!Spec
===============================================================================
