------------------------------ MODULE FrameFifo ------------------------------
(***************************************************************************)
(* What an RTP frame queue promises to the task that drains it: the frames *)
(* a session receives come out oldest first, none twice, and a frame is    *)
(* lost only when the reader has fallen TotNum - 1 frames behind.  Then    *)
(* the whole backlog goes, not one frame: that is the promise the ring of  *)
(* rtp_queue.c really keeps (module RtpQueue implements this one).         *)
(*                                                                         *)
(* Frames are numbered in the order they are put.                          *)
(***************************************************************************)
EXTENDS Naturals, Sequences

CONSTANTS
  TotNum,     \* entries of the ring (tot_num)
  MaxPuts     \* bound on the frames put in a behaviour

VARIABLES
  buf,        \* the frames a reader can still be given, oldest first
  nput,       \* number of the last frame put
  out         \* what the readers were given: how many frames, and the last one

vars == <<buf, nput, out>>

Init ==
  /\ buf = <<>>
  /\ nput = 0
  /\ out = [count |-> 0, frame |-> 0]

\* A frame is queued behind the others.
Store ==
  /\ nput < MaxPuts
  /\ Len(buf) < TotNum
  /\ nput' = nput + 1
  /\ buf' = Append(buf, nput + 1)
  /\ UNCHANGED out

\* The backlog is at the capacity: every frame, the new one too, is lost.
LoseAll ==
  /\ nput < MaxPuts
  /\ Len(buf) = TotNum - 1
  /\ nput' = nput + 1
  /\ buf' = <<>>
  /\ UNCHANGED out

\* The backlog is past the capacity: only the new frame remains.
LoseOld ==
  /\ nput < MaxPuts
  /\ Len(buf) = TotNum
  /\ nput' = nput + 1
  /\ buf' = <<nput + 1>>
  /\ UNCHANGED out

\* A reader is given the oldest frame.
Deliver ==
  /\ buf # <<>>
  /\ out' = [count |-> out.count + 1, frame |-> Head(buf)]
  /\ buf' = Tail(buf)
  /\ UNCHANGED nput

\* The session ends, or a new one starts: what is queued is forgotten.
Forget ==
  /\ buf' = <<>>
  /\ UNCHANGED <<nput, out>>

Next == Store \/ LoseAll \/ LoseOld \/ Deliver \/ Forget

Spec == Init /\ [][Next]_vars
==============================================================================
