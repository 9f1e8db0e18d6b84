------------------------------- MODULE RtpQueue -------------------------------
(***************************************************************************)
(* rtp_queue.c: the ring of encoded frames between the stream interrupt of *)
(* CPU0 and the task that sends a session's RTP packets.                   *)
(*                                                                         *)
(* The producer runs in interrupt context (rtp_queue_stream_video_put is   *)
(* called from IsrStreamdata), so a put is one step; it takes no lock and  *)
(* it does not stop at a full ring.  A consumer looks for a frame with     *)
(* interrupts enabled, then waits for the semaphore, then copies the entry *)
(* inside portENTER_CRITICAL: puts can come between these steps.           *)
(*                                                                         *)
(* A frame is represented by its number in the order of the puts; 0 is a   *)
(* zeroed entry.                                                           *)
(***************************************************************************)
EXTENDS Naturals, Sequences

CONSTANTS
  Consumers,  \* the tasks that drain this ring: one rtp task of the session
  TotNum,     \* entries of the ring: 60 for video, 100 for audio
  MaxPuts     \* bound on the frames put in a behaviour

ASSUME TotNumAssumption == TotNum \in Nat /\ TotNum >= 2
ASSUME MaxPutsAssumption == MaxPuts \in Nat

VARIABLES
  alive,      \* the ring is allocated
  data,       \* its entries
  head,       \* entry the next get copies
  tail,       \* entry the next put writes
  sem,        \* semRtpQ is available
  pc,         \* where each consumer is in rtp_queue_get
  nput,       \* number of the last frame put
  out         \* what the consumers were given: how many frames, and the last one

ring == <<data, head, tail>>
vars == <<alive, data, head, tail, sem, pc, nput, out>>

Slots == 0 .. TotNum - 1

\* A wrap one entry too late.
NumLoopLate(v) == IF v >= TotNum THEN 0 ELSE v + 1

\* num_loop(v, MAX): one step around the ring.
NumLoop(v) == IF v + 1 >= TotNum THEN 0 ELSE v + 1

\* cQueue_isempty, and cQueue_isfull, which stops nothing in rtp_queue_put.
IsEmpty == head = tail
IsFull == NumLoop(tail) = head

\* The entry i places after the head.
EntryAfterHead(i) == IF head + i >= TotNum THEN head + i - TotNum ELSE head + i

Init ==
  /\ alive = FALSE
  /\ data = [i \in Slots |-> 0]
  /\ head = 0
  /\ tail = 0
  /\ sem = TRUE
  /\ pc = [c \in Consumers |-> "idle"]
  /\ nput = 0
  /\ out = [count |-> 0, frame |-> 0]

\* rtp_queue_init and rtp_queue_freebuffer, called by the client task before
\* its session can play.
Open ==
  /\ ~alive
  /\ alive' = TRUE
  /\ data' = [i \in Slots |-> 0]
  /\ head' = 0
  /\ tail' = 0
  /\ UNCHANGED <<sem, pc, nput, out>>

\* rtp_queue_free, called by the client task when the session is closed.  That
\* no sender is inside rtp_queue_get then is the session's duty (RtspSession).
Close ==
  /\ alive
  /\ \A c \in Consumers : pc[c] = "idle"
  /\ alive' = FALSE
  /\ head' = 0
  /\ tail' = 0
  /\ UNCHANGED <<data, sem, pc, nput, out>>

\* A put that honours the full ring, with the else of the code restored.
PutUnlessFull ==
  /\ alive
  /\ nput < MaxPuts
  /\ nput' = nput + 1
  /\ IF IsFull
     THEN UNCHANGED <<data, tail>>
     ELSE /\ data' = [data EXCEPT ![tail] = nput + 1]
          /\ tail' = NumLoop(tail)
  /\ UNCHANGED <<alive, head, sem, pc, out>>

\* A put that makes room in a full ring by dropping its oldest frame.
PutDroppingOldest ==
  /\ alive
  /\ nput < MaxPuts
  /\ nput' = nput + 1
  /\ head' = IF IsFull THEN NumLoop(head) ELSE head
  /\ data' = [data EXCEPT ![tail] = nput + 1]
  /\ tail' = NumLoop(tail)
  /\ UNCHANGED <<alive, sem, pc, out>>

\* rtp_queue_put.  The full ring is reported and then written all the same (the
\* else of the code is commented out): the tail reaches the head.
Put ==
  /\ alive
  /\ nput < MaxPuts
  /\ nput' = nput + 1
  /\ data' = [data EXCEPT ![tail] = nput + 1]
  /\ tail' = NumLoop(tail)
  /\ UNCHANGED <<alive, head, sem, pc, out>>

\* A get that goes for the entry at the head without looking first.
GetUnchecked(c) ==
  /\ alive
  /\ pc[c] = "idle"
  /\ pc' = [pc EXCEPT ![c] = "take"]
  /\ UNCHANGED <<alive, ring, sem, nput, out>>

\* rtp_queue_get: the ring is not empty, so wait for the semaphore.  A get that
\* finds it empty changes nothing.
GetCheck(c) ==
  /\ alive
  /\ pc[c] = "idle"
  /\ ~IsEmpty
  /\ pc' = [pc EXCEPT ![c] = "take"]
  /\ UNCHANGED <<alive, ring, sem, nput, out>>

\* rtp_queue_get: xSemaphoreTake.
GetTake(c) ==
  /\ pc[c] = "take"
  /\ sem
  /\ sem' = FALSE
  /\ pc' = [pc EXCEPT ![c] = "copy"]
  /\ UNCHANGED <<alive, ring, nput, out>>

\* rtp_queue_get: the critical section.  The ring is not tested again.
GetCopy(c) ==
  /\ pc[c] = "copy"
  /\ out' = [count |-> out.count + 1, frame |-> data[head]]
  /\ head' = NumLoop(head)
  /\ pc' = [pc EXCEPT ![c] = "give"]
  /\ UNCHANGED <<alive, data, tail, sem, nput>>

\* rtp_queue_get: xSemaphoreGive.
GetGive(c) ==
  /\ pc[c] = "give"
  /\ sem' = TRUE
  /\ pc' = [pc EXCEPT ![c] = "idle"]
  /\ UNCHANGED <<alive, ring, nput, out>>

Get(c) == GetCheck(c) \/ GetTake(c) \/ GetCopy(c) \/ GetGive(c)

Next ==
  \/ Open
  \/ Close
  \/ Put
  \/ \E c \in Consumers : Get(c)

Spec == Init /\ [][Next]_vars

------------------------------------------------------------------------------
\* A consumer that has seen a frame and not yet copied it.
Committed == \E c \in Consumers : pc[c] \in {"take", "copy"}

\* How many frames the ring still holds for its readers.  Head and tail together
\* mean an empty ring, or TotNum frames for the consumer that looked before the
\* last put.
Backlog ==
  IF head # tail
  THEN IF tail >= head THEN tail - head ELSE tail + TotNum - head
  ELSE IF Committed THEN TotNum ELSE 0

Pending == [i \in 1 .. Backlog |-> data[EntryAfterHead(i - 1)]]

\* Every variable has a value of its type.
TypeOK ==
  /\ alive \in BOOLEAN
  /\ data \in [Slots -> 0 .. MaxPuts]
  /\ head \in Slots
  /\ tail \in Slots
  /\ sem \in BOOLEAN
  /\ pc \in [Consumers -> {"idle", "take", "copy", "give"}]
  /\ nput \in 0 .. MaxPuts
  /\ out \in [count : Nat, frame : 0 .. MaxPuts]

\* The ring always holds the newest frames put, without a gap, behind the last
\* one delivered: whatever put wraps over the head, between the emptiness test of
\* rtp_queue_get and its critical section or not, no entry between head and tail
\* is stale or zeroed.
BacklogIsNewest ==
  /\ \A i \in 0 .. TotNum - 1 :
       i < Backlog => data[EntryAfterHead(i)] + Backlog = nput + 1 + i
  /\ out.frame + Backlog <= nput

\* A frame handed to the sender by rtp_queue_get is newer than every frame handed
\* to it before: a session never sends a frame twice nor an old one after a new
\* one, even when puts overrun the ring during the get.
GetInOrder == [][out'.count # out.count => out'.frame > out.frame]_vars

\* The ring implements the lossy first-in first-out queue of FrameFifo.
Fifo == INSTANCE FrameFifo WITH buf <- Pending
FifoSpec == Fifo!Spec
===============================================================================
