-------------------------- MODULE RecordBufferProofs --------------------------
(***************************************************************************)
(* Proofs about the ring of RecordBuffer, for every size of it and every   *)
(* distance between key frames.                                            *)
(***************************************************************************)
EXTENDS RecordBuffer, SequenceTheorems, WellFoundedInduction, TLAPS

\* Places from entry i to entry j.
Distance(i, j) == IF j >= i THEN j - i ELSE j + Capacity - i

\* The entry n places before the tail.
Before(n) == IF tail >= n THEN tail - n ELSE tail + Capacity - n

\* When the last key frame of the stream has not been taken or lost, it is where the
\* count of the frames since then says.
KeyIsBehind == since < Held => data[Before(since + 1)]

\* A set of natural numbers that is not empty has a least element.
LEMMA LeastElement ==
  ASSUME NEW T, T \subseteq Nat, T # {}
  PROVE  \E k \in T : \A j \in T : k <= j
<1>1. \E k \in T : \A j \in T : ~(<<j, k>> \in OpToRel(<, Nat))
  BY NatLessThanWellFounded, WFMin
<1>2. \A j, k \in Nat : j < k => <<j, k>> \in OpToRel(<, Nat)
  BY DEF OpToRel
<1>3. \E k \in T : \A j \in T : ~(j < k)
  BY <1>1, <1>2, Zenon
<1> QED
  BY <1>3

\* Less than a round lies between two entries.
LEMMA DistanceInRing == \A i, j \in Entries : Distance(i, j) \in 0 .. Capacity - 1
  BY CapacityAssumption DEF Entries, Distance

\* The entries: where head, tail and the places between them are.
LEMMA Places ==
  ASSUME BufferTypeOK
  PROVE  /\ Held \in 0 .. Capacity - 1
         /\ NumLoop(tail) \in Entries /\ NumLoop(head) \in Entries
         /\ \A n \in 0 .. Capacity - 1 : After(head, n) \in Entries
         /\ \A n \in 0 .. Capacity - 1 : (After(head, n) = tail) <=> (n = Held)
         /\ \A n \in 1 .. Held : Before(n) = After(head, Held - n)
         /\ IsEmpty <=> Held = 0
         /\ IsFull <=> Held = Capacity - 1
  BY CapacityAssumption DEF BufferTypeOK, Entries, Distance, Held, Before, NumLoop, After, IsEmpty, IsFull

\* The head after frames were given up: the first key frame behind the head, or the
\* tail.
LEMMA SkipStops ==
  ASSUME BufferTypeOK, IsFull
  PROVE  \E n \in 1 .. Capacity - 1 :
           /\ Skip = After(head, n)
           /\ n = Held \/ data[After(head, n)]
           /\ \A j \in 1 .. n - 1 : ~data[After(head, j)]
<1> DEFINE Stops(n) == After(head, n) = tail \/ data[After(head, n)]
           T == {k \in 1 .. Capacity - 1 : Stops(k)}
<1>1. Held \in T
  BY Places, CapacityAssumption
<1>2. \E k \in T : \A j \in T : k <= j
  <2> HIDE DEF T
  <2>1. T # {}
    BY <1>1
  <2>2. T \subseteq Nat
    BY DEF T
  <2> QED
    BY <2>1, <2>2, LeastElement
<1> DEFINE n == CHOOSE k \in 1 .. Capacity - 1 :
                  Stops(k) /\ \A j \in 1 .. Capacity - 1 : Stops(j) => k <= j
<1>3. /\ n \in 1 .. Capacity - 1
      /\ Stops(n)
      /\ \A j \in 1 .. Capacity - 1 : Stops(j) => n <= j
  <2> HIDE DEF Stops
  <2> QED
    BY <1>2
<1>4. Skip = After(head, n)
  BY DEF Skip
<1> HIDE DEF n
<1>5. n = Held \/ data[After(head, n)]
  BY <1>3, Places
<1>6. \A j \in 1 .. n - 1 : ~data[After(head, j)]
  BY <1>3, CapacityAssumption
<1> QED
  BY <1>3, <1>4, <1>5, <1>6
------------------------------------------------------------------------------
\* A put keeps the types.
LEMMA PutTypes == ASSUME BufferTypeOK, NEW key \in BOOLEAN, Put(key)
                  PROVE  BufferTypeOK'
<1>1. head' \in Entries /\ tail' \in Entries
  BY Places, SkipStops, CapacityAssumption DEF Put, BufferTypeOK
<1>2. since' \in 0 .. GroupLength - 1
  BY GroupLengthAssumption DEF Put, BufferTypeOK, MayFollow
<1>3. broken' \in BOOLEAN /\ data' \in [Entries -> BOOLEAN]
  BY Zenon DEF Put, BufferTypeOK
<1> QED
  BY <1>1, <1>2, <1>3 DEF BufferTypeOK

\* A put never leaves the ring empty.
LEMMA PutLeavesFrame == ASSUME BufferTypeOK, NEW key \in BOOLEAN, Put(key)
                        PROVE  ~IsEmpty'
<1>1. CASE IsFull
  <2>1. PICK n \in 1 .. Capacity - 1 : Skip = After(head, n)
    BY <1>1, SkipStops
  <2> QED
    BY <1>1, <2>1, CapacityAssumption
       DEF Put, BufferTypeOK, Entries, After, NumLoop, IsFull, IsEmpty
<1>2. CASE ~IsFull
  BY <1>2, CapacityAssumption DEF Put, BufferTypeOK, Entries, NumLoop, IsFull, IsEmpty
<1> QED
  BY <1>1, <1>2

\* What a put does to the places: the new frame is the one before the tail, the others
\* are one place further from it.
LEMMA PutMoves ==
  ASSUME BufferTypeOK, NEW key \in BOOLEAN, Put(key)
  PROVE  /\ Held' <= Held + 1
         /\ ~IsFull => Held' = Held + 1
         /\ Before(1)' = tail
         /\ \A n \in 1 .. Capacity - 2 : Before(n + 1)' = Before(n) /\ Before(n) # tail
<1>1. tail' = NumLoop(tail) /\ tail \in Entries
  BY DEF Put, BufferTypeOK
<1>2. Before(1)' = tail
  BY <1>1, CapacityAssumption DEF Before, NumLoop, Entries
<1>3. \A n \in 1 .. Capacity - 2 : Before(n + 1)' = Before(n) /\ Before(n) # tail
  BY <1>1, CapacityAssumption DEF Before, NumLoop, Entries
<1>4. CASE IsFull
  <2>1. PICK n \in 1 .. Capacity - 1 : Skip = After(head, n)
    BY <1>4, SkipStops
  <2>2. head' = After(head, n) /\ head \in Entries /\ head = NumLoop(tail)
    BY <1>4, <2>1 DEF Put, BufferTypeOK, IsFull
  <2>3. Held = Capacity - 1
    BY <1>4, Places
  <2>4. Held' \in 0 .. Capacity - 1
    BY <1>1, <2>2, Places, DistanceInRing, CapacityAssumption DEF Held, Distance
  <2>5. Held' <= Held + 1
    BY <2>3, <2>4, CapacityAssumption
  <2> QED
    BY <1>2, <1>3, <1>4, <2>5
<1>5. CASE ~IsFull
  <2>1. head' = head /\ head \in Entries /\ head # NumLoop(tail)
    BY <1>5 DEF Put, BufferTypeOK, IsFull
  <2>2. Held' = Held + 1
    BY <1>1, <2>1, CapacityAssumption DEF Entries, NumLoop, Held, Distance
  <2> QED
    BY <1>2, <1>3, <2>2, Places
<1> QED
  BY <1>4, <1>5

\* A put keeps the key frame in its place.
LEMMA PutKeepsKey ==
  ASSUME BufferTypeOK, KeyIsBehind, NEW key \in BOOLEAN, Put(key)
  PROVE  KeyIsBehind'
<1> SUFFICES ASSUME since' < Held'
             PROVE  data'[Before(since + 1)']
  BY DEF KeyIsBehind
<1>1. data' = [data EXCEPT ![tail] = key] /\ tail \in Entries
  BY DEF Put, BufferTypeOK
<1>2. CASE key
  <2>1. since' = 0
    BY <1>2 DEF Put
  <2>2. Before(since + 1)' = tail
    BY <2>1, PutMoves DEF Before
  <2> QED
    BY <1>1, <1>2, <2>2 DEF BufferTypeOK
<1>3. CASE ~key
  <2>1. since' = since + 1 /\ since \in Nat
    BY <1>3 DEF Put, BufferTypeOK
  <2>2. Held \in 0 .. Capacity - 1 /\ Held' \in 0 .. Capacity - 1 /\ Held' <= Held + 1
    <3>1. BufferTypeOK /\ BufferTypeOK'
      BY PutTypes
    <3>2. head' \in Entries /\ tail' \in Entries
      BY <3>1 DEF BufferTypeOK
    <3>3. Held' \in 0 .. Capacity - 1
      BY <3>2, DistanceInRing DEF Held, Distance
    <3> QED
      BY <3>3, Places, PutMoves
  <2>3. since < Held /\ since + 1 \in 1 .. Capacity - 2
    BY <2>1, <2>2, CapacityAssumption
  <2>4. Before(since + 1)' = Before(since + 1) /\ Before(since + 1) # tail
    BY <2>1, <2>3, PutMoves DEF Before
  <2>5. data[Before(since + 1)]
    BY <2>3 DEF KeyIsBehind
  <2> QED
    BY <1>1, <2>4, <2>5 DEF BufferTypeOK
<1> QED
  BY <1>2, <1>3

\* A put that gives up frames gives up all up to a key frame: at least one is in the
\* ring, or is the new frame.
LEMMA PutEndsLoss ==
  ASSUME BufferTypeOK, GroupFits, KeyIsBehind, LossEndsAtKey,
         NEW key \in BOOLEAN, Put(key)
  PROVE  LossEndsAtKey'
<1>1. data' = [data EXCEPT ![tail] = key] /\ tail \in Entries
  BY DEF Put, BufferTypeOK
<1>2. ~IsEmpty'
  BY PutLeavesFrame
<1>3. CASE IsFull
  <2>1. PICK n \in 1 .. Capacity - 1 :
          /\ Skip = After(head, n)
          /\ n = Held \/ data[After(head, n)]
          /\ \A j \in 1 .. n - 1 : ~data[After(head, j)]
    BY <1>3, SkipStops
  <2>2. head' = After(head, n) /\ After(head, n) \in Entries
    BY <1>3, <2>1, Places DEF Put
  <2>3. Held = Capacity - 1 /\ since \in 0 .. Capacity - 2
    BY <1>3, Places, GroupLengthAssumption, CapacityAssumption DEF GroupFits, BufferTypeOK
  <2>4. CASE n = Held
    <3>1. head' = tail
      BY <2>2, <2>3, <2>4, Places, CapacityAssumption
    <3>2. data[After(head, Held - (since + 1))]
      BY <2>3, Places, CapacityAssumption DEF KeyIsBehind
    <3>3. Held - (since + 1) \notin 1 .. n - 1
      BY <2>1, <3>2
    <3>4. since + 1 = Held
      BY <2>3, <2>4, <3>3, CapacityAssumption
    <3>5. key
      BY <2>3, <3>4, GroupLengthAssumption, CapacityAssumption DEF Put, MayFollow, GroupFits
    <3> QED
      BY <1>1, <1>2, <3>1, <3>5 DEF LossEndsAtKey, BufferTypeOK
  <2>5. CASE n # Held
    <3>1. data[After(head, n)] /\ After(head, n) # tail
      BY <2>1, <2>5, Places, CapacityAssumption
    <3> QED
      BY <1>1, <1>2, <2>2, <3>1 DEF LossEndsAtKey, BufferTypeOK
  <2> QED
    BY <2>4, <2>5
<1>4. CASE ~IsFull
  <2>1. head' = head /\ broken' = broken /\ head \in Entries
    BY <1>4, Zenon DEF Put, BufferTypeOK
  <2>2. broken => data[head] /\ head # tail
    BY DEF LossEndsAtKey, IsEmpty
  <2> QED
    BY <1>1, <1>2, <2>1, <2>2 DEF LossEndsAtKey, BufferTypeOK
<1> QED
  BY <1>3, <1>4

\* A take from a ring that holds a frame.
LEMMA TakeKeeps ==
  ASSUME BufferTypeOK, ~IsEmpty, Take
  PROVE  /\ BufferTypeOK'
         /\ LossEndsAtKey'
         /\ KeyIsBehind => KeyIsBehind'
<1>1. BufferTypeOK'
  BY Places DEF Take, BufferTypeOK
<1>2. LossEndsAtKey'
  BY DEF Take, LossEndsAtKey
<1>3. Held' = Held - 1
  BY CapacityAssumption DEF Take, BufferTypeOK, Entries, IsEmpty, NumLoop, Held, Distance
<1>4. ASSUME KeyIsBehind, since' < Held'
      PROVE  data'[Before(since + 1)']
  <2>1. since < Held
    BY <1>3, <1>4, Places, GroupLengthAssumption, CapacityAssumption DEF Take, BufferTypeOK
  <2> QED
    BY <1>4, <2>1 DEF Take, KeyIsBehind, Before
<1> QED
  BY <1>1, <1>2, <1>4 DEF KeyIsBehind

\* The ring at the start.
LEMMA RingStarts == BufferInit => BufferTypeOK /\ KeyIsBehind /\ LossEndsAtKey
<1> SUFFICES ASSUME BufferInit
             PROVE  BufferTypeOK /\ KeyIsBehind /\ LossEndsAtKey
  OBVIOUS
<1>1. 0 \in Entries /\ 0 \in 0 .. GroupLength - 1
  BY CapacityAssumption, GroupLengthAssumption DEF Entries
<1>2. BufferTypeOK
  BY <1>1, Zenon DEF BufferInit, BufferTypeOK
<1>3. Held = 0 /\ since = 0
  BY DEF BufferInit, Held, Distance
<1> QED
  BY <1>2, <1>3 DEF BufferInit, KeyIsBehind, LossEndsAtKey
------------------------------------------------------------------------------
BufferInv == BufferTypeOK /\ KeyIsBehind /\ LossEndsAtKey

\* Whoever takes frames only from a ring that has some gets a key frame after each
\* loss, when key frames come round before the ring does: sbuf_put and sbuf_get.
THEOREM LossesEndAtKeys == GroupFits => (BufferSpec => [](BufferTypeOK /\ LossEndsAtKey))
<1>1. BufferInit => BufferInv
  BY RingStarts DEF BufferInv
<1>2. GroupFits /\ BufferInv /\ [BufferNext]_buffer => BufferInv'
  <2> SUFFICES ASSUME GroupFits, BufferInv, [BufferNext]_buffer
               PROVE  BufferInv'
    OBVIOUS
  <2>1. ASSUME NEW key \in BOOLEAN, Put(key)
        PROVE  BufferInv'
    BY <2>1, PutTypes, PutKeepsKey, PutEndsLoss DEF BufferInv
  <2>2. CASE ~IsEmpty /\ Take
    BY <2>2, TakeKeeps DEF BufferInv
  <2>3. CASE UNCHANGED buffer
    BY <2>3 DEF buffer, BufferInv, BufferTypeOK, KeyIsBehind, LossEndsAtKey, IsEmpty, Held,
                Distance, Before
  <2> QED
    BY <2>1, <2>2, <2>3 DEF BufferNext
<1>3. BufferInv => BufferTypeOK /\ LossEndsAtKey
  BY DEF BufferInv
<1>4. GroupFits => []GroupFits
  <2>1. GroupFits => GroupFits'
    BY DEF GroupFits
  <2> QED
    BY <2>1, PTL
<1> QED
  BY <1>1, <1>2, <1>3, <1>4, PTL DEF BufferSpec
------------------------------------------------------------------------------
(***************************************************************************)
(* The ring implements GroupFifo: the frames from the head to the tail are *)
(* the abstract queue, and each step of the ring is one of the queue.      *)
(***************************************************************************)

\* The queue is a sequence of flags, one for each frame the ring holds.
QueueHolds ==
  /\ Pending \in Seq(BOOLEAN) /\ Len(Pending) = Held /\ Held \in Nat
  /\ \A i \in 1 .. Held : Pending[i] = data[After(head, i - 1)]

LEMMA PendingIsQueue == BufferTypeOK => QueueHolds
<1> SUFFICES ASSUME BufferTypeOK
             PROVE  QueueHolds
  OBVIOUS
<1>1. Held \in 0 .. Capacity - 1
  BY Places
<1>2. \A i \in 1 .. Held : data[After(head, i - 1)] \in BOOLEAN
  <2>1. \A i \in 1 .. Held : i - 1 \in 0 .. Capacity - 1
    BY <1>1, CapacityAssumption
  <2> QED
    BY <2>1, Places DEF BufferTypeOK
<1>3. Pending \in [1 .. Held -> BOOLEAN]
  BY <1>2 DEF Pending
<1> QED
  BY <1>1, <1>3, CapacityAssumption DEF Pending, QueueHolds

\* A put into a ring with room appends the frame.
LEMMA PutStores ==
  ASSUME BufferTypeOK, BufferTypeOK', NEW key \in BOOLEAN, Put(key), ~IsFull
  PROVE  Groups!Store(key)
<1>1. /\ head' = head /\ head \in Entries
      /\ data' = [data EXCEPT ![tail] = key] /\ tail \in Entries
      /\ data \in [Entries -> BOOLEAN]
      /\ broken' = broken
  BY Zenon DEF Put, BufferTypeOK
<1>2. Held' = Held + 1 /\ Held \in 0 .. Capacity - 2
  BY PutMoves, Places, CapacityAssumption
<1>3. \A i \in 1 .. Held + 1 :
        /\ After(head, i - 1) \in Entries
        /\ After(head, i - 1) = tail <=> i = Held + 1
  <2>1. \A i \in 1 .. Held + 1 : i - 1 \in 0 .. Capacity - 1 /\ (i - 1 = Held <=> i = Held + 1)
    BY <1>2, CapacityAssumption
  <2> QED
    BY <2>1, Places
<1>4. /\ Pending \in Seq(BOOLEAN) /\ Len(Pending) = Held
      /\ \A i \in 1 .. Held : Pending[i] = data[After(head, i - 1)]
      /\ Pending' \in Seq(BOOLEAN) /\ Len(Pending') = Held + 1
      /\ \A i \in 1 .. Held + 1 : Pending'[i] = data'[After(head, i - 1)]
  <2>1. QueueHolds /\ QueueHolds'
    BY PendingIsQueue, PTL
  <2> QED
    BY <1>1, <1>2, <2>1 DEF QueueHolds, After
<1>5. Pending' = Append(Pending, key)
  <2>1. Append(Pending, key) \in Seq(BOOLEAN) /\ Len(Append(Pending, key)) = Held + 1
    BY <1>4
  <2>2. \A i \in 1 .. Held + 1 : Pending'[i] = Append(Pending, key)[i]
    <3> SUFFICES ASSUME NEW i \in 1 .. Held + 1
                 PROVE  Pending'[i] = Append(Pending, key)[i]
      OBVIOUS
    <3>1. CASE i = Held + 1
      BY <1>1, <1>2, <1>3, <1>4, <3>1
    <3>2. CASE i # Held + 1
      BY <1>1, <1>2, <1>3, <1>4, <3>2
    <3> QED
      BY <3>1, <3>2
  <2> QED
    BY <1>4, <2>1, <2>2, SeqEqual
<1>6. Groups!Arrives(key)
  BY DEF Put, MayFollow, Groups!Arrives
<1> QED
  BY <1>1, <1>2, <1>4, <1>5, <1>6, CapacityAssumption DEF Groups!Store

\* A put into a full ring gives up frames, and appends its own.
LEMMA PutGivesUp ==
  ASSUME BufferTypeOK, BufferTypeOK', NEW key \in BOOLEAN, Put(key), IsFull
  PROVE  \E n \in 1 .. Capacity - 1 : Groups!GiveUp(key, n)
<1>1. PICK n \in 1 .. Capacity - 1 :
        /\ Skip = After(head, n)
        /\ n = Held \/ data[After(head, n)]
        /\ \A j \in 1 .. n - 1 : ~data[After(head, j)]
  BY SkipStops
<1>2. /\ head' = After(head, n) /\ head \in Entries /\ head = NumLoop(tail)
      /\ tail' = NumLoop(tail) /\ tail \in Entries
      /\ data' = [data EXCEPT ![tail] = key]
      /\ data \in [Entries -> BOOLEAN]
      /\ broken' = TRUE
  BY <1>1 DEF Put, BufferTypeOK, IsFull
<1>3. Held = Capacity - 1
  BY Places
<1>4. Held' = Capacity - n
  BY <1>2, CapacityAssumption DEF Held, Entries, NumLoop, After
<1>5. \A i \in 1 .. Capacity - n :
        /\ After(head', i - 1) = After(head, n + i - 1)
        /\ After(head', i - 1) \in Entries
        /\ After(head', i - 1) = tail <=> i = Capacity - n
  BY <1>2, CapacityAssumption DEF Entries, NumLoop, After
<1>6. QueueHolds /\ QueueHolds'
  BY PendingIsQueue, PTL
<1>7. /\ Pending \in Seq(BOOLEAN) /\ Len(Pending) = Capacity - 1
      /\ \A i \in 1 .. Capacity - 1 : Pending[i] = data[After(head, i - 1)]
      /\ Pending' \in Seq(BOOLEAN) /\ Len(Pending') = Capacity - n
      /\ \A i \in 1 .. Capacity - n : Pending'[i] = data'[After(head', i - 1)]
  BY <1>3, <1>4, <1>6 DEF QueueHolds, After
<1>8. \A i \in 2 .. n : ~Pending[i]
  <2> SUFFICES ASSUME NEW i \in 2 .. n
               PROVE  ~Pending[i]
    OBVIOUS
  <2>1. i \in 1 .. Capacity - 1 /\ i - 1 \in 1 .. n - 1
    BY CapacityAssumption
  <2> QED
    BY <1>1, <1>7, <2>1
<1>9. n < Capacity - 1 => Pending[n + 1]
  <2> SUFFICES ASSUME n < Capacity - 1
               PROVE  Pending[n + 1]
    OBVIOUS
  <2>1. n + 1 \in 1 .. Capacity - 1 /\ (n + 1) - 1 = n
    BY CapacityAssumption
  <2>2. Pending[n + 1] = data[After(head, n)]
    BY <1>7, <2>1
  <2> QED
    BY <1>1, <1>3, <2>2
<1>10. Pending' = Append(SubSeq(Pending, n + 1, Capacity - 1), key)
  <2> DEFINE kept == SubSeq(Pending, n + 1, Capacity - 1)
             after == Append(kept, key)
  <2>1. /\ kept \in Seq(BOOLEAN)
        /\ Len(kept) = Capacity - n - 1
        /\ \A i \in 1 .. Capacity - n - 1 : kept[i] = Pending[n + i]
    <3>1. n + 1 \in Int /\ Capacity - 1 \in Int
      BY CapacityAssumption
    <3>2. \A i \in n + 1 .. Capacity - 1 : Pending[i] \in BOOLEAN
      <4>1. \A i \in n + 1 .. Capacity - 1 : i \in 1 .. Len(Pending)
        BY <1>7, CapacityAssumption
      <4> QED
        BY <1>7, <4>1, ElementOfSeq
    <3>3. /\ kept \in Seq(BOOLEAN)
          /\ Len(kept) = IF n + 1 <= Capacity - 1 THEN Capacity - 1 - (n + 1) + 1 ELSE 0
          /\ \A i \in 1 .. Capacity - 1 - (n + 1) + 1 : kept[i] = Pending[n + 1 + i - 1]
      BY <3>1, <3>2, SubSeqProperties
    <3> QED
      BY <3>3, CapacityAssumption
  <2> HIDE DEF kept
  <2>2. after \in Seq(BOOLEAN) /\ Len(after) = Capacity - n
        /\ after[Capacity - n] = key
        /\ \A i \in 1 .. Capacity - n - 1 : after[i] = kept[i]
    BY <2>1, CapacityAssumption
  <2> HIDE DEF after
  <2>3. \A i \in 1 .. Capacity - n : Pending'[i] = after[i]
    <3> SUFFICES ASSUME NEW i \in 1 .. Capacity - n
                 PROVE  Pending'[i] = after[i]
      OBVIOUS
    <3>1. Pending'[i] = data'[After(head', i - 1)]
      BY <1>7
    <3>2. CASE i = Capacity - n
      BY <1>2, <1>5, <2>2, <3>1, <3>2
    <3>3. CASE i # Capacity - n
      <4>1. i \in 1 .. Capacity - n - 1 /\ n + i \in 1 .. Capacity - 1
        BY <3>3, CapacityAssumption
      <4>2. Pending'[i] = data[After(head, n + i - 1)]
        BY <1>2, <1>5, <3>1, <3>3
      <4>3. Pending[n + i] = data[After(head, n + i - 1)]
        BY <1>7, <4>1
      <4> QED
        BY <2>1, <2>2, <4>1, <4>2, <4>3
    <3> QED
      BY <3>2, <3>3
  <2>4. Pending' = after
    BY <1>7, <2>2, <2>3, SeqEqual
  <2> QED
    BY <2>4 DEF after, kept
<1>11. Groups!Arrives(key)
  BY DEF Put, MayFollow, Groups!Arrives
<1>12. Groups!GiveUp(key, n)
  BY <1>2, <1>7, <1>8, <1>9, <1>10, <1>11 DEF Groups!GiveUp
<1> QED
  BY <1>12

\* A take delivers the oldest frame.
LEMMA TakeDelivers ==
  ASSUME BufferTypeOK, BufferTypeOK', ~IsEmpty, Take
  PROVE  Groups!Deliver
<1>1. head' = NumLoop(head) /\ UNCHANGED <<data, tail, since>> /\ broken' = FALSE
  BY DEF Take
<1>2. Held' = Held - 1 /\ Held \in 1 .. Capacity - 1
  BY Places, CapacityAssumption DEF Take, BufferTypeOK, Entries, IsEmpty, NumLoop, Held
<1>3. \A i \in 1 .. Capacity - 2 : After(head', i - 1) = After(head, i)
  BY <1>1, CapacityAssumption DEF BufferTypeOK, Entries, NumLoop, After
<1>4. QueueHolds /\ QueueHolds'
  BY PendingIsQueue, PTL
<1>5. /\ Pending \in Seq(BOOLEAN) /\ Len(Pending) = Held /\ Pending # <<>>
      /\ \A i \in 1 .. Held : Pending[i] = data[After(head, i - 1)]
      /\ Pending' \in Seq(BOOLEAN) /\ Len(Pending') = Held - 1
      /\ \A i \in 1 .. Held - 1 : Pending'[i] = data'[After(head', i - 1)]
  BY <1>2, <1>4, EmptySeq DEF QueueHolds, After
<1>6. /\ Tail(Pending) \in Seq(BOOLEAN) /\ Len(Tail(Pending)) = Held - 1
      /\ \A i \in 1 .. Held - 1 : Tail(Pending)[i] = Pending[i + 1]
  BY <1>5, HeadTailProperties
<1>7. \A i \in 1 .. Held - 1 : Pending'[i] = Tail(Pending)[i]
  <2> SUFFICES ASSUME NEW i \in 1 .. Held - 1
               PROVE  Pending'[i] = Tail(Pending)[i]
    OBVIOUS
  <2>1. i \in 1 .. Capacity - 2 /\ i + 1 \in 1 .. Held /\ (i + 1) - 1 = i
    BY <1>2, CapacityAssumption
  <2>2. Pending'[i] = data[After(head, i)]
    BY <1>1, <1>3, <1>5, <2>1
  <2>3. Pending[i + 1] = data[After(head, i)]
    BY <1>5, <2>1
  <2> QED
    BY <1>6, <2>2, <2>3
<1>8. Pending' = Tail(Pending)
  BY <1>5, <1>6, <1>7, SeqEqual
<1> QED
  BY <1>1, <1>5, <1>8 DEF Groups!Deliver

\* The types of the ring do not depend on how far apart the key frames are.
LEMMA BufferTypes == BufferTypeOK /\ [BufferNext]_buffer => BufferTypeOK'
<1>1. ASSUME BufferTypeOK, NEW key \in BOOLEAN, Put(key)
      PROVE  BufferTypeOK'
  BY <1>1, PutTypes
<1>2. ASSUME BufferTypeOK, ~IsEmpty, Take
      PROVE  BufferTypeOK'
  BY <1>2, TakeKeeps
<1>3. BufferTypeOK /\ UNCHANGED buffer => BufferTypeOK'
  BY DEF buffer, BufferTypeOK
<1> QED
  BY <1>1, <1>2, <1>3 DEF BufferNext

\* sbuf_put and sbuf_get keep the frames in order, and a full ring gives up its frames up
\* to the next key frame: the ring is the queue of GroupFifo, whatever its size and the
\* distance of the key frames.
THEOREM BufferImplementsGroups == BufferSpec => GroupFifoSpec
<1>1. BufferInit => BufferTypeOK /\ Groups!Init
  <2> SUFFICES ASSUME BufferInit
               PROVE  BufferTypeOK /\ Groups!Init
    OBVIOUS
  <2>1. BufferTypeOK
    BY RingStarts
  <2>2. Held = 0
    BY DEF BufferInit, Held
  <2>3. Pending = <<>>
    BY <2>2 DEF Pending
  <2> QED
    BY <2>1, <2>3 DEF BufferInit, Groups!Init
<1>2. BufferTypeOK /\ BufferTypeOK' /\ [BufferNext]_buffer => [Groups!Next]_Groups!vars
  <2> SUFFICES ASSUME BufferTypeOK, BufferTypeOK', [BufferNext]_buffer
               PROVE  Groups!Next \/ UNCHANGED Groups!vars
    OBVIOUS
  <2>1. ASSUME NEW key \in BOOLEAN, Put(key)
        PROVE  Groups!Next
    <3>1. CASE IsFull
      BY <2>1, <3>1, PutGivesUp DEF Groups!Next
    <3>2. CASE ~IsFull
      BY <2>1, <3>2, PutStores DEF Groups!Next
    <3> QED
      BY <3>1, <3>2
  <2>2. CASE ~IsEmpty /\ Take
    BY <2>2, TakeDelivers DEF Groups!Next
  <2>3. CASE UNCHANGED buffer
    BY <2>3 DEF buffer, Groups!vars, Pending, Held, After
  <2> QED
    BY <2>1, <2>2, <2>3 DEF BufferNext
<1> QED
  BY <1>1, <1>2, BufferTypes, PTL DEF BufferSpec, GroupFifoSpec, Groups!Spec
===============================================================================
