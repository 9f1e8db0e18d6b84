---------------------------- MODULE RtpPacketizer ----------------------------
(***************************************************************************)
(* rtp_h264.c and rtp_h265.c: how a session's sender cuts an encoded frame *)
(* into RTP packets.  A call builds at most one packet; what the next call *)
(* has to know is in rtp_session.                                          *)
(*                                                                         *)
(* A frame is its layout: for each NAL unit where its start code begins    *)
(* (at), where its first byte is (body), where it ends, and the kind of    *)
(* its type.  The two files differ in three numbers: the size of the       *)
(* fragment header, of the NAL header, and of the window in which they     *)
(* look for the end of a parameter set.                                    *)
(***************************************************************************)
EXTENDS Integers

CONSTANTS
  Mss,         \* TCP_MSS, 1460
  Window,      \* 20 in rtp_h264.c, 64 in rtp_h265.c
  FuHeader,    \* sizeof(avcFUHeader) is 2, sizeof(hevcFUHeader) is 3
  NalHeader,   \* 1 and 2
  Frames,      \* the frames the encoder makes
  Transports,  \* the transports a session may have
  None

\* sizeof(rthInterleaved) and sizeof(rthRTPHeader).
Interleaved == 4
RtpHeader == 12

\* remaining: the longest packet; and the headers in front of its data.
Room(tr) == IF tr = "UDP" THEN Mss + 12 ELSE Mss
Headers(tr) == IF tr = "UDP" THEN RtpHeader ELSE Interleaved + RtpHeader

IsFrame(f) ==
  /\ f.n \in Nat \ {0}
  /\ f.key \in BOOLEAN
  /\ f.size \in Nat
  /\ DOMAIN f.nals = 1 .. f.n
  /\ \A k \in 1 .. f.n :
       /\ f.nals[k].at \in Nat /\ f.nals[k].body \in Nat /\ f.nals[k].end \in Nat
       /\ f.nals[k].kind \in {"slice", "parameters", "other"}
       /\ f.nals[k].body - f.nals[k].at \in {3, 4}
       /\ f.nals[k].body + NalHeader < f.nals[k].end
       /\ k < f.n => f.nals[k].end = f.nals[k + 1].at
       /\ \A j \in 1 .. k - 1 : f.nals[j].end <= f.nals[k].at
  /\ f.nals[1].at = 0
  /\ f.nals[f.n].end = f.size

\* spsppsSize: the size of a parameter set, known when the 01 of the start code behind
\* it directly follows a byte of the window; otherwise 0.
ParameterSize(f, k) ==
  IF /\ f.nals[k].kind = "parameters"
     /\ k < f.n
     /\ f.nals[k + 1].body - f.nals[k].body - 2 < Window
  THEN f.nals[k].end - f.nals[k].body
  ELSE 0

\* What the packetizer relies on: short parameter sets, then one slice.
IsWellMade(f) ==
  /\ IsFrame(f)
  /\ \A k \in 1 .. f.n - 1 : ParameterSize(f, k) > 0
  /\ f.nals[f.n].kind = "slice"

ASSUME SizesAssumption ==
  /\ Mss \in Nat /\ Window \in Nat /\ FuHeader \in Nat /\ NalHeader \in Nat
  /\ NalHeader < FuHeader
  /\ Window + Interleaved + RtpHeader <= Mss
  /\ FuHeader + Interleaved + RtpHeader < Mss
ASSUME FramesAssumption == \A f \in Frames : IsWellMade(f)
ASSUME TransportsAssumption == Transports \subseteq {"TCP", "UDP"}
ASSUME NoneAssumption == None \notin Frames

VARIABLES
  ready,      \* tx_ready is READY; if not, DOING (END is passed through)
  nalfirst,   \* a key frame has been seen
  frame,      \* base and size: the frame being sent, or the last one; or None
  offset,     \* the bytes of it that have been dealt with
  naltype,    \* index of the NAL unit whose type was read last
  pkt,        \* what the last packet holds of the frame; its nal is 0 before the first
  buf         \* its length, and the transport it was built for

packetVars == <<ready, nalfirst, frame, offset, naltype, pkt, buf>>

Delivery == INSTANCE NalDelivery WITH synced <- nalfirst

NoPacket == Delivery!NoPacket

PacketInit ==
  /\ ready = TRUE
  /\ nalfirst = FALSE
  /\ frame = None
  /\ offset = 0
  /\ naltype = 0
  /\ pkt = NoPacket
  /\ buf = [len |-> 0, transport |-> "TCP"]

\* SETUP: rtp_session is allocated and zeroed, or the one there is made ready for a
\* new stream; then it keeps nalfirst.
Setup(fresh) ==
  /\ ready' = TRUE
  /\ nalfirst' = (nalfirst /\ ~fresh)
  /\ frame' = None
  /\ pkt' = NoPacket
  /\ UNCHANGED <<offset, naltype, buf>>

\* READY: a frame has come out of the queue.  Until a key frame has been seen, the
\* others are passed over.
TakeFrame(f) ==
  /\ ready
  /\ IF nalfirst \/ f.key
     THEN /\ ready' = FALSE
          /\ nalfirst' = TRUE
          /\ frame' = f
          /\ offset' = 0
          /\ pkt' = NoPacket
     ELSE UNCHANGED <<ready, nalfirst, frame, offset, pkt>>
  /\ UNCHANGED <<naltype, buf>>

\* Mutant: only a packet that is no fragment is found to end the frame.
EmitAloneEnds(tr, headers, from, to, k, alone, start) ==
  /\ offset' = to
  /\ naltype' = k
  /\ ready' = (alone /\ to = frame.size)
  /\ pkt' = [nal |-> k, from |-> from, to |-> to, start |-> alone \/ start,
             end |-> alone \/ to = frame.size, marker |-> to = frame.size]
  /\ buf' = [len |-> headers + (to - from), transport |-> tr]
  /\ UNCHANGED <<nalfirst, frame>>

\* The end of a call: data from `from' up to `to' stand behind `headers' bytes.  With
\* the last byte of the frame come the marker, the end bit and READY.
Emit(tr, headers, from, to, k, alone, start) ==
  /\ offset' = to
  /\ naltype' = k
  /\ ready' = (to = frame.size)
  /\ pkt' = [nal |-> k, from |-> from, to |-> to, start |-> alone \/ start,
             end |-> alone \/ to = frame.size, marker |-> to = frame.size]
  /\ buf' = [len |-> headers + (to - from), transport |-> tr]
  /\ UNCHANGED <<nalfirst, frame>>

\* Mutant: the room is taken for the same over both transports.
FilledAlike(tr, headers, from) ==
  IF frame.size - from < Mss + 12 - headers THEN frame.size ELSE from + (Mss + 12 - headers)

\* Where the data end that begin at `from' and may fill the room behind the headers.
Filled(tr, headers, from) ==
  IF frame.size - from < Room(tr) - headers THEN frame.size ELSE from + (Room(tr) - headers)

\* The offset is at the start code of NAL unit k, which is passed over.
AtNal(k) ==
  /\ k \in 1 .. frame.n
  /\ frame.nals[k].at = offset

\* A parameter set is sent alone.
BuildParameterSet(tr, k) ==
  /\ AtNal(k)
  /\ ParameterSize(frame, k) > 0
  /\ LET body == frame.nals[k].body
     IN  Emit(tr, Headers(tr), body, body + ParameterSize(frame, k), k, TRUE, FALSE)

\* Mutant: a slice that just fits is cut.
IsLongEarly(tr, k) ==
  /\ frame.nals[k].kind = "slice"
  /\ frame.size - frame.nals[k].body >= Room(tr) - Headers(tr) - FuHeader

\* A slice that does not fit in a packet.
IsLong(tr, k) ==
  /\ frame.nals[k].kind = "slice"
  /\ frame.size - frame.nals[k].body > Room(tr) - Headers(tr)

\* The first fragment of a long slice; its header stands for the NAL header.
BuildFirstFragment(tr, k) ==
  /\ AtNal(k)
  /\ ParameterSize(frame, k) = 0
  /\ IsLong(tr, k)
  /\ LET from == frame.nals[k].body + NalHeader
         headers == Headers(tr) + FuHeader
     IN  Emit(tr, headers, from, Filled(tr, headers, from), k, FALSE, TRUE)

\* Everything else is sent as it is, up to the end of the frame or of the room.
BuildSingle(tr, k) ==
  /\ AtNal(k)
  /\ ParameterSize(frame, k) = 0
  /\ ~IsLong(tr, k)
  /\ LET from == frame.nals[k].body
     IN  Emit(tr, Headers(tr), from, Filled(tr, Headers(tr), from), k, TRUE, FALSE)

\* The offset is not at a start code: the slice goes on.
BuildFragment(tr) ==
  /\ \A k \in 1 .. frame.n : frame.nals[k].at # offset
  /\ LET headers == Headers(tr) + FuHeader
     IN  Emit(tr, headers, offset, Filled(tr, headers, offset), naltype, FALSE, FALSE)

\* A call in DOING.
Build ==
  /\ ~ready
  /\ \E tr \in Transports :
       \/ \E k \in 1 .. frame.n : \/ BuildParameterSet(tr, k)
                                  \/ BuildFirstFragment(tr, k)
                                  \/ BuildSingle(tr, k)
       \/ BuildFragment(tr)

PacketNext ==
  \/ \E fresh \in BOOLEAN : Setup(fresh)
  \/ \E f \in Frames : TakeFrame(f)
  \/ Build

PacketSpec == PacketInit /\ [][PacketNext]_packetVars

------------------------------------------------------------------------------
\* A packet is never longer than its transport allows: over TCP one longer than 1460
\* bytes stops the sender for ever ("Error length"), over UDP one longer than 1472
\* would not fit in an Ethernet frame.
PacketFits == buf.len <= Room(buf.transport)

\* Every call in DOING gets on in the frame and never past its end: no NAL unit, whatever
\* its type and size, leaves the offset where it is.
FrameMovesOn == [][Build => offset < offset' /\ offset' <= frame.size]_packetVars

\* The packets of a session are those a decoder can put together: see NalDelivery.
DeliverySpec == Delivery!Spec
===============================================================================
