----------------------------- MODULE NalDelivery -----------------------------
(***************************************************************************)
(* What a video session promises to the decoder behind it: the first frame *)
(* it receives is a key frame, and of every frame it receives each NAL     *)
(* unit, in order, in one packet or in a first, some middle and a last     *)
(* fragment that join without a gap; the marker bit is on the packet that  *)
(* ends the frame and on no other.  The sizes of fragments are left open.  *)
(* Module RtpPacketizer implements this one.                               *)
(***************************************************************************)
EXTENDS Integers

CONSTANTS
  Frames,     \* the frames there are: see RtpPacketizer
  NalHeader,  \* bytes of a NAL header, which a fragment carries in its own
  None

VARIABLES
  synced,     \* a key frame has been received
  frame,      \* the frame being received, or the last one; None before the first
  pkt         \* the last packet received of it; its nal is 0 before the first

vars == <<synced, frame, pkt>>

NoPacket ==
  [nal |-> 0, from |-> 0, to |-> 0, start |-> FALSE, end |-> FALSE, marker |-> FALSE]

\* The bytes from `from' up to `to' of NAL unit k, in a packet of their own or in a
\* fragment.
Alone(k, from, to, marker) ==
  [nal |-> k, from |-> from, to |-> to, start |-> TRUE, end |-> TRUE, marker |-> marker]

Fragment(k, from, to, start, end) ==
  [nal |-> k, from |-> from, to |-> to, start |-> start, end |-> end, marker |-> end]

\* No NAL unit is half received, and this one comes next.
BetweenNals == pkt.nal = 0 \/ pkt.end
NextNal == frame.nals[pkt.nal + 1]

Init ==
  /\ synced = FALSE
  /\ frame = None
  /\ pkt = NoPacket

NewFrame ==
  /\ frame = None \/ pkt.marker
  /\ \E f \in Frames :
       /\ synced \/ f.key
       /\ frame' = f
  /\ synced' = TRUE
  /\ pkt' = NoPacket

WholeNal ==
  /\ frame # None
  /\ BetweenNals
  /\ pkt.nal < frame.n
  /\ pkt' = Alone(pkt.nal + 1, NextNal.body, NextNal.end, pkt.nal + 1 = frame.n)
  /\ UNCHANGED <<synced, frame>>

FirstFragment ==
  /\ frame # None
  /\ BetweenNals
  /\ pkt.nal < frame.n
  /\ \E to \in NextNal.body + NalHeader + 1 .. NextNal.end - 1 :
       pkt' = Fragment(pkt.nal + 1, NextNal.body + NalHeader, to, TRUE, FALSE)
  /\ UNCHANGED <<synced, frame>>

NextFragment ==
  /\ frame # None
  /\ ~BetweenNals
  /\ pkt.nal = frame.n
  /\ \E to \in pkt.to + 1 .. frame.size :
       pkt' = Fragment(pkt.nal, pkt.to, to, FALSE, to = frame.size)
  /\ UNCHANGED <<synced, frame>>

\* The session is set up, or set up anew: what was half received is forgotten.
Restart ==
  /\ synced' \in {FALSE, synced}
  /\ frame' = None
  /\ pkt' = NoPacket

Next == NewFrame \/ WholeNal \/ FirstFragment \/ NextFragment \/ Restart

Spec == Init /\ [][Next]_vars
===============================================================================
