----------------------------- MODULE RecordBuffer -----------------------------
(***************************************************************************)
(* stream_buffering.c: the ring sbuf of encoded frames between the stream  *)
(* interrupt (IsrRecorddata, videnc_info_put, sbuf_put) and the recorder's *)
(* task.  The ring always takes a new frame: a full one first gives up its *)
(* oldest frames, up to the next key frame.                                *)
(*                                                                         *)
(* Of a frame the ring keeps its flag: TRUE for a key frame (I), FALSE for *)
(* one that only makes sense after its predecessor (P).  The encoder is    *)
(* external: it sends a key frame at least every GroupLength frames.       *)
(*                                                                         *)
(* BufferSpec is what the ring promises to a reader that takes a frame     *)
(* only when there is one.  Recorder has the reader that the code has.     *)
(***************************************************************************)
EXTENDS Naturals

CONSTANTS
  Capacity,     \* tot_num, NUM_STREAM_TOTAL: 150 entries, one of them unused
  GroupLength   \* frames from one key frame to the next at most

ASSUME CapacityAssumption == Capacity \in Nat /\ Capacity >= 2
ASSUME GroupLengthAssumption == GroupLength \in Nat \ {0}

VARIABLES
  data,         \* the flags of the entries
  head,         \* the entry the reader takes next
  tail,         \* the entry the next frame goes to
  since,        \* frames since the last key frame, in the stream
  broken        \* frames were lost between the last one taken and the head

buffer == <<data, head, tail, since, broken>>

Entries == 0 .. Capacity - 1

\* Mutant: num_loop with an index that wraps one place late.
NumLoopLate(i) == IF i >= Capacity THEN 0 ELSE i + 1

\* num_loop.
NumLoop(i) == IF i + 1 >= Capacity THEN 0 ELSE i + 1

\* The entry n places after entry i.
After(i, n) == IF i + n >= Capacity THEN i + n - Capacity ELSE i + n

\* cQueue_isempty, cQueue_isfull.
IsEmpty == head = tail
IsFull == NumLoop(tail) = head

BufferInit ==
  /\ data = [i \in Entries |-> FALSE]
  /\ head = 0
  /\ tail = 0
  /\ since = 0
  /\ broken = FALSE

\* sbuf_put giving up only the oldest frame.
SkipOne == NumLoop(head)

\* Mutant: the ring gives up every frame, as rtp_queue_put does.
SkipAll == tail

\* The head after the frame at the head has been given up in favour of a new
\* one: the next key frame, or the tail when there is none.
Skip ==
  LET Stops(n) == After(head, n) = tail \/ data[After(head, n)]
      n == CHOOSE k \in 1 .. Capacity - 1 :
             Stops(k) /\ \A j \in 1 .. Capacity - 1 : Stops(j) => k <= j
  IN  After(head, n)

\* What the encoder may send next.
MayFollow(key) == key \/ since + 1 < GroupLength

\* sbuf_put without the test for a full ring, as in rtp_queue_put.
PutOverHead(key) ==
  /\ MayFollow(key)
  /\ since' = IF key THEN 0 ELSE since + 1
  /\ data' = [data EXCEPT ![tail] = key]
  /\ tail' = NumLoop(tail)
  /\ UNCHANGED <<head, broken>>

\* sbuf_put, in the interrupt.
Put(key) ==
  /\ MayFollow(key)
  /\ since' = IF key THEN 0 ELSE since + 1
  /\ head' = IF IsFull THEN Skip ELSE head
  /\ broken' = (IsFull \/ broken)
  /\ data' = [data EXCEPT ![tail] = key]
  /\ tail' = NumLoop(tail)

\* The critical section of sbuf_get.
Take ==
  /\ head' = NumLoop(head)
  /\ broken' = FALSE
  /\ UNCHANGED <<data, tail, since>>

BufferNext ==
  \/ \E key \in BOOLEAN : Put(key)
  \/ ~IsEmpty /\ Take

BufferSpec == BufferInit /\ [][BufferNext]_buffer

------------------------------------------------------------------------------
BufferTypeOK ==
  /\ data \in [Entries -> BOOLEAN]
  /\ head \in Entries
  /\ tail \in Entries
  /\ since \in 0 .. GroupLength - 1
  /\ broken \in BOOLEAN

\* A key frame comes round before the ring does: it is what the size of the ring,
\* 5 seconds of frames, is for.
GroupFits == GroupLength < Capacity

\* Once sbuf_put has given up frames, the next frame a reader gets is a key frame:
\* nobody gets a frame that refers to one that was lost.
LossEndsAtKey == broken => ~IsEmpty /\ data[head]

\* How many frames the ring holds: the places from the head to the tail.
Held == IF tail >= head THEN tail - head ELSE tail + Capacity - head

\* The frames the ring holds, oldest first.
Pending == [i \in 1 .. Held |-> data[After(head, i - 1)]]

\* The ring is a queue that loses whole groups: no frame is given out of order or twice,
\* and a full ring gives up its frames up to the next key frame, no fewer and no more,
\* while a reader may be anywhere between its look at the ring and its copy.
Groups == INSTANCE GroupFifo WITH queue <- Pending, Room <- Capacity - 1
GroupFifoSpec == Groups!Spec
===============================================================================
