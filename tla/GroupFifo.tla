------------------------------- MODULE GroupFifo -------------------------------
(***************************************************************************)
(* What the ring of stream_buffering.c promises to the recorder: frames    *)
(* come out in the order of the stream; a new frame is never refused; and  *)
(* when there is no room for it, the oldest frames are lost up to the next *)
(* key frame, never more and never less (module RecordBuffer implements    *)
(* this one).  A reader that takes a frame after a loss can know of it.    *)
(*                                                                         *)
(* A frame is TRUE for a key frame, with which a group begins, and FALSE   *)
(* for one that refers to the frame before it.                             *)
(***************************************************************************)
EXTENDS Naturals, Sequences

CONSTANTS
  Room,         \* frames there is room for
  GroupLength   \* frames from one key frame to the next at most

VARIABLES
  queue,        \* the frames kept, oldest first
  since,        \* frames since the last key frame, in the stream
  broken        \* frames were lost since the last delivery

vars == <<queue, since, broken>>

Init == queue = <<>> /\ since = 0 /\ broken = FALSE

\* The stream goes on with a frame.
Arrives(key) ==
  /\ key \/ since + 1 < GroupLength
  /\ since' = IF key THEN 0 ELSE since + 1

\* The frame is kept behind the others.
Store(key) ==
  /\ Arrives(key)
  /\ Len(queue) < Room
  /\ queue' = Append(queue, key)
  /\ UNCHANGED broken

\* There is no room: the first n frames are given up, so that the oldest one kept, if
\* there is one, is the first key frame behind the oldest one there was.
GiveUp(key, n) ==
  /\ Arrives(key)
  /\ Len(queue) = Room
  /\ \A i \in 2 .. n : ~queue[i]
  /\ n < Room => queue[n + 1]
  /\ queue' = Append(SubSeq(queue, n + 1, Room), key)
  /\ broken' = TRUE

\* The reader is given the oldest frame.
Deliver ==
  /\ queue # <<>>
  /\ queue' = Tail(queue)
  /\ broken' = FALSE
  /\ UNCHANGED since

Next ==
  \/ \E key \in BOOLEAN : Store(key)
  \/ \E key \in BOOLEAN, n \in 1 .. Room : GiveUp(key, n)
  \/ Deliver

Spec == Init /\ [][Next]_vars
================================================================================
