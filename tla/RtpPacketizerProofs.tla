-------------------------- MODULE RtpPacketizerProofs --------------------------
(***************************************************************************)
(* Proofs about RtpPacketizer, for all sizes and for all frames that are   *)
(* well made: no packet is too long, and the packets are those NalDelivery *)
(* allows.  Both rest on where the packetizer can be in a frame between    *)
(* two calls: at the start code behind the last NAL unit sent, or inside   *)
(* the slice that ends the frame.                                          *)
(***************************************************************************)
EXTENDS RtpPacketizer, TLAPS

BetweenNals ==
  /\ pkt.nal \in 0 .. frame.n - 1
  /\ pkt.nal = 0 \/ pkt.end
  /\ offset = frame.nals[pkt.nal + 1].at

InLastSlice ==
  /\ pkt.nal = frame.n
  /\ naltype = frame.n
  /\ ~pkt.end
  /\ pkt.to = offset
  /\ offset \in Int
  /\ frame.nals[frame.n].body < offset
  /\ offset < frame.size

\* The inductive invariant.
PInv ==
  /\ ready \in BOOLEAN
  /\ nalfirst \in BOOLEAN
  /\ frame \in Frames \cup {None}
  /\ buf.len \in Int /\ buf.transport \in {"TCP", "UDP"}
  /\ PacketFits
  /\ ready => frame = None \/ pkt.marker
  /\ ~ready => frame \in Frames /\ (BetweenNals \/ InLastSlice)

\* The NAL units of a frame lie one behind the other.
LEMMA NalsInOrder ==
  ASSUME NEW f \in Frames
  PROVE  /\ f.n \in Nat \ {0} /\ f.size \in Int
         /\ f.nals[f.n].end = f.size /\ f.nals[1].at = 0
         /\ f.nals[f.n].kind = "slice"
         /\ \A k \in 1 .. f.n :
              /\ f.nals[k].at \in Int /\ f.nals[k].body \in Int /\ f.nals[k].end \in Int
              /\ f.nals[k].at + 3 <= f.nals[k].body
              /\ f.nals[k].body + NalHeader < f.nals[k].end
              /\ k < f.n => f.nals[k].end = f.nals[k + 1].at
              /\ \A j \in 1 .. f.n : j < k => f.nals[j].at < f.nals[k].at
<1>1. IsFrame(f) /\ f.nals[f.n].kind = "slice"
  BY FramesAssumption DEF IsWellMade
<1>2. ASSUME NEW k \in 1 .. f.n
      PROVE  /\ f.nals[k].at \in Int /\ f.nals[k].body \in Int /\ f.nals[k].end \in Int
             /\ f.nals[k].at + 3 <= f.nals[k].body
             /\ f.nals[k].body + NalHeader < f.nals[k].end
             /\ k < f.n => f.nals[k].end = f.nals[k + 1].at
             /\ \A j \in 1 .. k - 1 : f.nals[j].end <= f.nals[k].at
  <2>1. /\ f.nals[k].at \in Nat /\ f.nals[k].body \in Nat /\ f.nals[k].end \in Nat
        /\ f.nals[k].body - f.nals[k].at \in {3, 4}
        /\ f.nals[k].body + NalHeader < f.nals[k].end
        /\ k < f.n => f.nals[k].end = f.nals[k + 1].at
        /\ \A j \in 1 .. k - 1 : f.nals[j].end <= f.nals[k].at
    BY <1>1 DEF IsFrame
  <2>2. f.nals[k].at + 3 <= f.nals[k].body
    BY <2>1
  <2> QED
    BY <2>1, <2>2
<1>3. ASSUME NEW k \in 1 .. f.n, NEW j \in 1 .. f.n, j < k
      PROVE  f.nals[j].at < f.nals[k].at
  <2>1. j \in 1 .. k - 1
    BY <1>1, <1>3 DEF IsFrame
  <2>2. f.nals[j].end <= f.nals[k].at
    BY <1>2, <2>1
  <2> QED
    BY <1>2, <2>2, SizesAssumption
<1> QED
  BY <1>1, <1>2, <1>3 DEF IsFrame

\* Only one NAL unit begins where another one does.
LEMMA OneNalThere ==
  ASSUME NEW f \in Frames, NEW k \in 1 .. f.n, NEW j \in 1 .. f.n,
         f.nals[k].at = f.nals[j].at
  PROVE  k = j
  BY NalsInOrder

\* A parameter set is known by its size, which is that of the whole NAL unit and
\* less than the window; the slice that ends the frame is none.
LEMMA ParameterSizes ==
  ASSUME NEW f \in Frames, NEW k \in 1 .. f.n
  PROVE  /\ ParameterSize(f, k) > 0 =>
              /\ k < f.n
              /\ f.nals[k].body + ParameterSize(f, k) = f.nals[k + 1].at
              /\ ParameterSize(f, k) \in Int
              /\ ParameterSize(f, k) < Window
         /\ ParameterSize(f, k) = 0 => k = f.n
<1>1. ASSUME k < f.n
      PROVE  /\ ParameterSize(f, k) > 0
             /\ f.nals[k].body + ParameterSize(f, k) = f.nals[k + 1].at
             /\ ParameterSize(f, k) \in Int
             /\ ParameterSize(f, k) < Window
  <2>1. f.n \in Nat /\ k \in 1 .. f.n - 1 /\ k + 1 \in 1 .. f.n
    BY <1>1, NalsInOrder
  <2>2. ParameterSize(f, k) > 0
    BY <2>1, FramesAssumption DEF IsWellMade
  <2>3. /\ f.nals[k + 1].body - f.nals[k].body - 2 < Window
        /\ ParameterSize(f, k) = f.nals[k].end - f.nals[k].body
    BY <2>2 DEF ParameterSize
  <2>4. /\ f.nals[k].end = f.nals[k + 1].at
        /\ f.nals[k + 1].at + 3 <= f.nals[k + 1].body
        /\ f.nals[k].body \in Int /\ f.nals[k].end \in Int
        /\ f.nals[k + 1].at \in Int /\ f.nals[k + 1].body \in Int
    BY <1>1, <2>1, NalsInOrder
  <2> QED
    BY <2>2, <2>3, <2>4, SizesAssumption
<1>2. CASE k < f.n
  BY <1>1, <1>2
<1>3. CASE ~(k < f.n)
  <2>1. f.n \in Nat
    BY NalsInOrder
  <2>2. k = f.n
    BY <1>3, <2>1
  <2> QED
    BY <2>2, NalsInOrder DEF ParameterSize
<1> QED
  BY <1>2, <1>3

\* The headers leave room for data, and what they leave is what is filled.
LEMMA RoomForData ==
  ASSUME NEW tr \in Transports
  PROVE  /\ tr \in {"TCP", "UDP"}
         /\ Room(tr) \in Int /\ Headers(tr) \in Int
         /\ Headers(tr) + FuHeader < Room(tr)
         /\ Headers(tr) + Window <= Room(tr)
  BY TransportsAssumption, SizesAssumption DEF Room, Headers, Interleaved, RtpHeader

LEMMA FilledBounds ==
  ASSUME NEW tr \in Transports, NEW headers \in Int, NEW from \in Int, frame \in Frames,
         headers < Room(tr)
  PROVE  /\ Filled(tr, headers, from) \in Int
         /\ headers + (Filled(tr, headers, from) - from) <= Room(tr)
         /\ Filled(tr, headers, from) <= frame.size
         /\ from < frame.size => from < Filled(tr, headers, from)
         /\ frame.size - from <= Room(tr) - headers => Filled(tr, headers, from) = frame.size
         /\ frame.size - from > Room(tr) - headers => Filled(tr, headers, from) < frame.size
<1> DEFINE left == Room(tr) - headers
<1>1. Room(tr) \in Int /\ frame.size \in Int
  BY RoomForData, NalsInOrder
<1>2. left \in Int /\ left > 0
  BY <1>1
<1>3. Filled(tr, headers, from) = IF frame.size - from < left THEN frame.size ELSE from + left
  BY DEF Filled
<1> HIDE DEF left
<1>4. CASE frame.size - from < left
  BY <1>1, <1>2, <1>3, <1>4 DEF left
<1>5. CASE ~(frame.size - from < left)
  BY <1>1, <1>2, <1>3, <1>5 DEF left
<1> QED
  BY <1>4, <1>5

------------------------------------------------------------------------------
\* A parameter set goes whole, and the next start code is behind it.
LEMMA ParameterSetStep ==
  ASSUME PInv, ~ready, NEW tr \in Transports, NEW k \in 1 .. frame.n,
         BuildParameterSet(tr, k)
  PROVE  PInv' /\ Delivery!WholeNal
<1>1. frame \in Frames
  BY DEF PInv
<1>2. frame.nals[k].at = offset
  BY DEF BuildParameterSet, AtNal
<1>3. ParameterSize(frame, k) > 0
  BY DEF BuildParameterSet
<1> DEFINE body == frame.nals[k].body
           to == body + ParameterSize(frame, k)
<1>4. /\ k < frame.n /\ k + 1 \in 1 .. frame.n
      /\ to = frame.nals[k + 1].at
      /\ ParameterSize(frame, k) \in Int /\ ParameterSize(frame, k) < Window
      /\ to \in Int /\ body \in Int
  BY <1>1, <1>3, ParameterSizes, NalsInOrder
<1>5. Emit(tr, Headers(tr), body, to, k, TRUE, FALSE)
  BY DEF BuildParameterSet
<1>6. to # frame.size
  BY <1>1, <1>4, NalsInOrder, SizesAssumption
<1>7. BetweenNals /\ k = pkt.nal + 1
  <2>1. CASE BetweenNals
    <3>1. pkt.nal + 1 \in 1 .. frame.n
      BY <2>1, <1>1, NalsInOrder DEF BetweenNals
    <3>2. k = pkt.nal + 1
      BY <2>1, <3>1, <1>1, <1>2, OneNalThere DEF BetweenNals
    <3> QED
      BY <2>1, <3>2
  <2>2. CASE InLastSlice
    BY <2>2, <1>1, <1>2, <1>4, NalsInOrder DEF InLastSlice
  <2> QED
    BY <2>1, <2>2 DEF PInv
<1>8. /\ frame' = frame /\ nalfirst' = nalfirst /\ ready' = FALSE /\ offset' = to
      /\ pkt' = [nal |-> k, from |-> body, to |-> to, start |-> TRUE, end |-> TRUE,
                 marker |-> FALSE]
      /\ buf' = [len |-> Headers(tr) + (to - body), transport |-> tr]
  BY <1>5, <1>6 DEF Emit
<1>9. PInv'
  <2>1. PacketFits' /\ buf'.len \in Int /\ buf'.transport \in {"TCP", "UDP"}
    <3>1. /\ Room(tr) \in Int /\ Headers(tr) \in Int
          /\ Headers(tr) + Window <= Room(tr) /\ tr \in {"TCP", "UDP"}
      BY RoomForData
    <3>2. /\ Headers(tr) + (to - body) <= Room(tr)
          /\ Headers(tr) + (to - body) \in Int
      BY <1>4, <3>1, SizesAssumption
    <3>3. buf'.len = Headers(tr) + (to - body) /\ buf'.transport = tr
      BY <1>8
    <3> QED
      BY <3>1, <3>2, <3>3 DEF PacketFits, Room
  <2>2. BetweenNals'
    BY <1>1, <1>4, <1>8, NalsInOrder DEF BetweenNals
  <2> QED
    BY <1>1, <1>8, <2>1, <2>2 DEF PInv
<1>10. Delivery!WholeNal
  <2>1. to = frame.nals[k].end
    BY <1>1, <1>4, NalsInOrder
  <2>2. frame # None
    BY <1>1, NoneAssumption
  <2>3. pkt.nal < frame.n /\ pkt.nal + 1 # frame.n
    <3>1. frame.n \in Nat
      BY <1>1, NalsInOrder
    <3> QED
      BY <1>4, <1>7, <3>1 DEF BetweenNals
  <2> QED
    BY <1>7, <1>8, <2>1, <2>2, <2>3
    DEF Delivery!WholeNal, Delivery!BetweenNals, Delivery!NextNal, Delivery!Alone, BetweenNals
<1> QED
  BY <1>9, <1>10

\* A packet with data of the last slice, whatever its header, keeps the invariant.
LEMMA SlicePacket ==
  ASSUME PInv, ~ready, NEW tr \in Transports, NEW headers \in Int, NEW from \in Int,
         NEW to \in Int, NEW alone \in BOOLEAN, NEW start \in BOOLEAN,
         to = Filled(tr, headers, from),
         headers < Room(tr),
         from < frame.size,
         frame.nals[frame.n].body <= from,
         alone => to = frame.size,
         Emit(tr, headers, from, to, frame.n, alone, start)
  PROVE  PInv'
<1>1. frame \in Frames
  BY DEF PInv
<1>2. /\ headers + (to - from) <= Room(tr)
      /\ to <= frame.size /\ from < to
  BY <1>1, FilledBounds
<1>3. /\ frame.size \in Int /\ frame.n \in Nat \ {0} /\ frame.n \in 1 .. frame.n
      /\ frame.nals[frame.n].body \in Int
  BY <1>1, NalsInOrder
<1>4. /\ frame' = frame /\ nalfirst' = nalfirst /\ offset' = to /\ naltype' = frame.n
      /\ ready' = (to = frame.size)
      /\ pkt' = [nal |-> frame.n, from |-> from, to |-> to, start |-> alone \/ start,
                 end |-> alone \/ to = frame.size, marker |-> to = frame.size]
      /\ buf'.len = headers + (to - from) /\ buf'.transport = tr
  BY DEF Emit
<1>5. PacketFits' /\ buf'.len \in Int /\ buf'.transport \in {"TCP", "UDP"}
  <2>1. Room(tr) = Room(buf.transport)'
    BY <1>4 DEF Room
  <2> QED
    BY <1>2, <1>4, <2>1, RoomForData DEF PacketFits
<1>6. CASE to = frame.size
  <2>1. ready' /\ pkt'.marker
    BY <1>4, <1>6
  <2> QED
    BY <1>1, <1>4, <1>5, <2>1 DEF PInv
<1>7. CASE to # frame.size
  <2>1. ready' = FALSE /\ pkt'.end = FALSE
    BY <1>4, <1>7
  <2>2. InLastSlice'
    BY <1>2, <1>3, <1>4, <1>7, <2>1 DEF InLastSlice
  <2> QED
    BY <1>1, <1>4, <1>5, <2>1, <2>2 DEF PInv
<1> QED
  BY <1>6, <1>7

\* A start code with no parameter set behind it is that of the last slice, and all
\* that comes before it has been sent.
LEMMA AtLastSlice ==
  ASSUME PInv, ~ready, NEW k \in 1 .. frame.n, AtNal(k), ParameterSize(frame, k) = 0
  PROVE  /\ k = frame.n /\ k = pkt.nal + 1
         /\ pkt.nal = 0 \/ pkt.end
<1>1. frame \in Frames
  BY DEF PInv
<1>2. k = frame.n
  BY <1>1, ParameterSizes
<1>3. /\ frame.n \in Nat \ {0}
      /\ frame.nals[k].at \in Int /\ frame.nals[k].body \in Int
      /\ frame.nals[k].at + 3 <= frame.nals[k].body
  BY <1>1, NalsInOrder
<1>4. frame.nals[k].at = offset
  BY DEF AtNal
<1>5. ~InLastSlice
  BY <1>2, <1>3, <1>4 DEF InLastSlice
<1>6. BetweenNals
  BY <1>5 DEF PInv
<1>7. pkt.nal + 1 \in 1 .. frame.n
  BY <1>3, <1>6 DEF BetweenNals
<1>8. k = pkt.nal + 1
  BY <1>1, <1>4, <1>6, <1>7, OneNalThere DEF BetweenNals
<1> QED
  BY <1>2, <1>6, <1>8 DEF BetweenNals

\* The first fragment of the last slice does not reach its end.
LEMMA FirstFragmentStep ==
  ASSUME PInv, ~ready, NEW tr \in Transports, NEW k \in 1 .. frame.n,
         BuildFirstFragment(tr, k)
  PROVE  PInv' /\ Delivery!FirstFragment
<1> DEFINE from == frame.nals[k].body + NalHeader
           headers == Headers(tr) + FuHeader
           to == Filled(tr, headers, from)
<1>1. frame \in Frames
  BY DEF PInv
<1>2. k = frame.n /\ k = pkt.nal + 1 /\ (pkt.nal = 0 \/ pkt.end)
  BY AtLastSlice DEF BuildFirstFragment
<1>3. /\ frame.n \in Nat \ {0} /\ frame.size \in Int
      /\ frame.nals[k].body \in Int /\ frame.nals[k].end = frame.size
      /\ frame.nals[k].body + NalHeader < frame.size
  BY <1>1, <1>2, NalsInOrder
<1>4. /\ Room(tr) \in Int /\ Headers(tr) \in Int
      /\ headers \in Int /\ headers < Room(tr)
      /\ from \in Int
  BY <1>3, RoomForData, SizesAssumption
<1>5. frame.size - from > Room(tr) - headers
  <2>1. frame.size - frame.nals[k].body > Room(tr) - Headers(tr)
    BY DEF BuildFirstFragment, IsLong
  <2> QED
    BY <1>3, <1>4, <2>1, SizesAssumption
<1>6. to \in Int /\ from < to /\ to < frame.size
  BY <1>1, <1>3, <1>4, <1>5, FilledBounds
<1>7. Emit(tr, headers, from, to, frame.n, FALSE, TRUE)
  BY <1>2 DEF BuildFirstFragment
<1>8. PInv'
  <2>1. frame.nals[frame.n].body <= from
    BY <1>2, <1>3, SizesAssumption
  <2> QED
    BY <1>3, <1>4, <1>6, <1>7, <2>1, SlicePacket
<1>9. Delivery!FirstFragment
  <2>1. to # frame.size
    BY <1>3, <1>6
  <2>2. /\ frame' = frame /\ nalfirst' = nalfirst
        /\ pkt' = [nal |-> k, from |-> from, to |-> to, start |-> TRUE, end |-> FALSE,
                   marker |-> FALSE]
    BY <1>2, <1>7, <2>1 DEF Emit
  <2>3. to \in frame.nals[k].body + NalHeader + 1 .. frame.nals[k].end - 1
    BY <1>3, <1>6, SizesAssumption
  <2>4. frame # None
    BY <1>1, NoneAssumption
  <2>5. pkt.nal < frame.n
    BY <1>1, <1>2, <1>3 DEF PInv, BetweenNals, InLastSlice
  <2> QED
    BY <1>2, <2>2, <2>3, <2>4, <2>5
    DEF Delivery!FirstFragment, Delivery!BetweenNals, Delivery!NextNal, Delivery!Fragment
<1> QED
  BY <1>8, <1>9

\* A slice that is not too long goes whole.
LEMMA SingleStep ==
  ASSUME PInv, ~ready, NEW tr \in Transports, NEW k \in 1 .. frame.n,
         BuildSingle(tr, k)
  PROVE  PInv' /\ Delivery!WholeNal
<1> DEFINE from == frame.nals[k].body
           headers == Headers(tr)
           to == Filled(tr, headers, from)
<1>1. frame \in Frames
  BY DEF PInv
<1>2. k = frame.n /\ k = pkt.nal + 1 /\ (pkt.nal = 0 \/ pkt.end)
  BY AtLastSlice DEF BuildSingle
<1>3. /\ frame.n \in Nat \ {0} /\ frame.size \in Int
      /\ from \in Int /\ frame.nals[k].end = frame.size
      /\ from + NalHeader < frame.size
      /\ frame.nals[k].kind = "slice"
  BY <1>1, <1>2, NalsInOrder
<1>4. /\ Room(tr) \in Int /\ headers \in Int /\ headers < Room(tr)
      /\ from < frame.size
  BY <1>3, RoomForData, SizesAssumption
<1>5. frame.size - from <= Room(tr) - headers
  BY <1>3, <1>4 DEF BuildSingle, IsLong
<1>6. to = frame.size
  BY <1>1, <1>3, <1>4, <1>5, FilledBounds
<1>7. Emit(tr, headers, from, to, frame.n, TRUE, FALSE)
  BY <1>2 DEF BuildSingle
<1>8. PInv'
  <2>1. frame.nals[frame.n].body <= from /\ to \in Int
    BY <1>2, <1>3, <1>6
  <2> QED
    BY <1>3, <1>4, <1>6, <1>7, <2>1, SlicePacket
<1>9. Delivery!WholeNal
  <2>1. /\ frame' = frame /\ nalfirst' = nalfirst
        /\ pkt' = [nal |-> k, from |-> from, to |-> to, start |-> TRUE, end |-> TRUE,
                   marker |-> TRUE]
    BY <1>2, <1>6, <1>7 DEF Emit
  <2>2. frame # None
    BY <1>1, NoneAssumption
  <2>3. pkt.nal < frame.n
    BY <1>1, <1>2, <1>3 DEF PInv, BetweenNals, InLastSlice
  <2> QED
    BY <1>2, <1>3, <1>6, <2>1, <2>2, <2>3
    DEF Delivery!WholeNal, Delivery!BetweenNals, Delivery!NextNal, Delivery!Alone
<1> QED
  BY <1>8, <1>9

\* Between start codes a fragment goes on where the last one ended.
LEMMA FragmentStep ==
  ASSUME PInv, ~ready, NEW tr \in Transports, BuildFragment(tr)
  PROVE  PInv' /\ Delivery!NextFragment
<1> DEFINE headers == Headers(tr) + FuHeader
           to == Filled(tr, headers, offset)
<1>1. frame \in Frames
  BY DEF PInv
<1>2. frame.n \in Nat \ {0} /\ frame.n \in 1 .. frame.n /\ frame.size \in Int
  BY <1>1, NalsInOrder
<1>3. InLastSlice
  <2>1. ASSUME BetweenNals
        PROVE  FALSE
    <3>1. pkt.nal + 1 \in 1 .. frame.n
      BY <1>2, <2>1 DEF BetweenNals
    <3> QED
      BY <2>1, <3>1 DEF BetweenNals, BuildFragment
  <2> QED
    BY <2>1 DEF PInv
<1>4. /\ Room(tr) \in Int /\ headers \in Int /\ headers < Room(tr)
  BY RoomForData, SizesAssumption
<1>5. /\ offset \in Int /\ offset < frame.size
      /\ frame.nals[frame.n].body \in Int /\ frame.nals[frame.n].body <= offset
  BY <1>1, <1>2, <1>3, NalsInOrder DEF InLastSlice
<1>6. to \in Int /\ offset < to /\ to <= frame.size
  BY <1>1, <1>4, <1>5, FilledBounds
<1>7. Emit(tr, headers, offset, to, frame.n, FALSE, FALSE)
  BY <1>3 DEF BuildFragment, InLastSlice
<1>8. PInv'
  BY <1>4, <1>5, <1>6, <1>7, SlicePacket
<1>9. Delivery!NextFragment
  <2>1. /\ frame' = frame /\ nalfirst' = nalfirst
        /\ pkt' = [nal |-> frame.n, from |-> offset, to |-> to, start |-> FALSE,
                   end |-> to = frame.size, marker |-> to = frame.size]
    BY <1>7 DEF Emit
  <2>2. frame # None
    BY <1>1, NoneAssumption
  <2>3. to \in pkt.to + 1 .. frame.size
    BY <1>2, <1>3, <1>5, <1>6 DEF InLastSlice
  <2>4. pkt.nal = frame.n /\ ~(pkt.nal = 0 \/ pkt.end) /\ pkt.to = offset
    BY <1>2, <1>3 DEF InLastSlice
  <2> QED
    BY <2>1, <2>2, <2>3, <2>4
    DEF Delivery!NextFragment, Delivery!BetweenNals, Delivery!Fragment
<1> QED
  BY <1>8, <1>9

\* A frame begins at the start code of its first NAL unit, and the first frame of
\* all is a key frame.
LEMMA TakeStep ==
  ASSUME PInv, NEW f \in Frames, TakeFrame(f)
  PROVE  PInv' /\ (Delivery!NewFrame \/ UNCHANGED Delivery!vars)
<1>1. CASE nalfirst \/ f.key
  <2>1. /\ ready /\ ready' = FALSE /\ nalfirst' = TRUE /\ frame' = f /\ offset' = 0
        /\ pkt' = NoPacket /\ buf' = buf
    BY <1>1 DEF TakeFrame
  <2>2. pkt'.nal = 0
    BY <2>1 DEF NoPacket, Delivery!NoPacket
  <2>3. BetweenNals'
    BY <2>1, <2>2, NalsInOrder DEF BetweenNals
  <2>4. PInv'
    BY <2>1, <2>3 DEF PInv, PacketFits
  <2>5. Delivery!NewFrame
    BY <1>1, <2>1 DEF PInv, Delivery!NewFrame, NoPacket
  <2> QED
    BY <2>4, <2>5
<1>2. CASE ~(nalfirst \/ f.key)
  BY <1>2 DEF TakeFrame, PInv, PacketFits, Delivery!vars
<1> QED
  BY <1>1, <1>2

LEMMA SetupStep ==
  ASSUME PInv, NEW fresh \in BOOLEAN, Setup(fresh)
  PROVE  PInv' /\ Delivery!Restart
<1>1. /\ ready' = TRUE /\ frame' = None /\ pkt' = NoPacket /\ buf' = buf
      /\ nalfirst' = (nalfirst /\ ~fresh) /\ nalfirst \in BOOLEAN
  BY DEF Setup, PInv
<1>2. nalfirst' \in {FALSE, nalfirst}
  BY <1>1
<1>3. PInv'
  BY <1>1, <1>2 DEF PInv, PacketFits
<1>4. Delivery!Restart
  BY <1>1, <1>2 DEF Delivery!Restart, NoPacket
<1> QED
  BY <1>3, <1>4

\* Every step keeps the invariant and is a step of NalDelivery, or leaves what it
\* speaks of alone.
LEMMA PacketStep ==
  ASSUME PInv, [PacketNext]_packetVars
  PROVE  PInv' /\ [Delivery!Next]_(Delivery!vars)
<1>1. ASSUME NEW fresh \in BOOLEAN, Setup(fresh)
      PROVE  PInv' /\ [Delivery!Next]_(Delivery!vars)
  BY <1>1, SetupStep DEF Delivery!Next
<1>2. ASSUME NEW f \in Frames, TakeFrame(f)
      PROVE  PInv' /\ [Delivery!Next]_(Delivery!vars)
  BY <1>2, TakeStep DEF Delivery!Next
<1>3. ASSUME Build
      PROVE  PInv' /\ [Delivery!Next]_(Delivery!vars)
  <2>1. ~ready
    BY <1>3 DEF Build
  <2>2. PICK tr \in Transports :
          \/ \E k \in 1 .. frame.n :
               BuildParameterSet(tr, k) \/ BuildFirstFragment(tr, k) \/ BuildSingle(tr, k)
          \/ BuildFragment(tr)
    BY <1>3 DEF Build
  <2>3. ASSUME NEW k \in 1 .. frame.n,
               BuildParameterSet(tr, k) \/ BuildFirstFragment(tr, k) \/ BuildSingle(tr, k)
        PROVE  PInv' /\ [Delivery!Next]_(Delivery!vars)
    BY <2>1, <2>3, ParameterSetStep, FirstFragmentStep, SingleStep DEF Delivery!Next
  <2>4. CASE BuildFragment(tr)
    BY <2>1, <2>4, FragmentStep DEF Delivery!Next
  <2> QED
    BY <2>2, <2>3, <2>4
<1>4. CASE UNCHANGED packetVars
  BY <1>4 DEF packetVars, PInv, PacketFits, BetweenNals, InLastSlice, Delivery!vars
<1> QED
  BY <1>1, <1>2, <1>3, <1>4 DEF PacketNext

\* What a call sends lies between the offset before it and the offset after it, of
\* which each is in the frame.
LEMMA BuildMovesOn ==
  ASSUME PInv, Build
  PROVE  offset < offset' /\ offset' <= frame.size
<1>1. ~ready /\ frame \in Frames
  BY DEF Build, PInv
<1>2. frame.size \in Int /\ frame.n \in Nat \ {0} /\ frame.n \in 1 .. frame.n
  BY <1>1, NalsInOrder
<1>3. ASSUME NEW tr \in Transports, NEW k \in 1 .. frame.n, BuildParameterSet(tr, k)
      PROVE  offset < offset' /\ offset' <= frame.size
  <2>1. frame.nals[k].at = offset /\ ParameterSize(frame, k) > 0
        /\ offset' = frame.nals[k].body + ParameterSize(frame, k)
    BY <1>3 DEF BuildParameterSet, AtNal, Emit
  <2>2. k < frame.n /\ k + 1 \in 1 .. frame.n /\ offset' = frame.nals[k + 1].at
    BY <1>1, <1>2, <2>1, ParameterSizes
  <2>3. /\ frame.nals[k].at \in Int /\ frame.nals[k + 1].at \in Int
        /\ frame.nals[k].at < frame.nals[k + 1].at
        /\ frame.nals[k + 1].at <= frame.nals[frame.n].at
        /\ frame.nals[frame.n].at < frame.size
    <3>1. CASE k + 1 = frame.n
      BY <1>1, <1>2, <2>2, <3>1, NalsInOrder, SizesAssumption
    <3>2. CASE k + 1 # frame.n
      BY <1>1, <1>2, <2>2, <3>2, NalsInOrder, SizesAssumption
    <3> QED
      BY <3>1, <3>2
  <2>4. frame.nals[frame.n].at \in Int
    BY <1>1, <1>2, NalsInOrder
  <2> QED
    BY <1>2, <2>1, <2>2, <2>3, <2>4
<1>4. ASSUME NEW tr \in Transports, NEW k \in 1 .. frame.n,
             BuildFirstFragment(tr, k) \/ BuildSingle(tr, k)
      PROVE  offset < offset' /\ offset' <= frame.size
  <2>1. AtNal(k) /\ ParameterSize(frame, k) = 0
    BY <1>4 DEF BuildFirstFragment, BuildSingle
  <2>2. k = frame.n /\ frame.nals[k].at = offset
    BY <1>1, <2>1, AtLastSlice DEF AtNal
  <2>3. /\ frame.nals[k].at \in Int /\ frame.nals[k].body \in Int
        /\ frame.nals[k].at + 3 <= frame.nals[k].body
        /\ frame.nals[k].body + NalHeader < frame.size
    BY <1>1, <1>2, <2>2, NalsInOrder
  <2>4. PICK headers \in Int, from \in Int :
          /\ headers < Room(tr)
          /\ from \in {frame.nals[k].body, frame.nals[k].body + NalHeader}
          /\ offset' = Filled(tr, headers, from)
    <3>1. CASE BuildFirstFragment(tr, k)
      BY <2>3, <3>1, RoomForData, SizesAssumption DEF BuildFirstFragment, Emit
    <3>2. CASE BuildSingle(tr, k)
      BY <2>3, <3>2, RoomForData, SizesAssumption DEF BuildSingle, Emit
    <3> QED
      BY <1>4, <3>1, <3>2
  <2>5. offset < from /\ from < frame.size
    BY <1>2, <2>2, <2>3, <2>4, SizesAssumption
  <2>6. offset' \in Int /\ offset' <= frame.size /\ from < offset'
    BY <1>1, <2>4, <2>5, FilledBounds
  <2> QED
    BY <2>2, <2>3, <2>5, <2>6
<1>5. ASSUME NEW tr \in Transports, BuildFragment(tr)
      PROVE  offset < offset' /\ offset' <= frame.size
  <2>1. InLastSlice
    <3>1. ASSUME BetweenNals
          PROVE  FALSE
      <4>1. pkt.nal + 1 \in 1 .. frame.n
        BY <1>2, <3>1 DEF BetweenNals
      <4> QED
        BY <1>5, <3>1, <4>1 DEF BetweenNals, BuildFragment
    <3> QED
      BY <1>1, <3>1 DEF PInv
  <2>2. offset' = Filled(tr, Headers(tr) + FuHeader, offset)
    BY <1>5 DEF BuildFragment, Emit
  <2> QED
    BY <1>1, <2>1, <2>2, RoomForData, FilledBounds, SizesAssumption DEF InLastSlice
<1> QED
  BY <1>3, <1>4, <1>5 DEF Build

LEMMA PacketStart == PacketInit => PInv /\ Delivery!Init
<1> SUFFICES ASSUME PacketInit
             PROVE  PInv /\ Delivery!Init
  OBVIOUS
<1>1. buf.len = 0 /\ buf.transport = "TCP"
  BY DEF PacketInit
<1>2. PacketFits
  BY <1>1, SizesAssumption DEF PacketFits, Room
<1>3. PInv
  <2>1. buf.len \in Int /\ buf.transport \in {"TCP", "UDP"}
    BY <1>1
  <2>2. ready = TRUE /\ nalfirst = FALSE /\ frame = None
    BY DEF PacketInit
  <2> QED
    BY <1>2, <2>1, <2>2, Zenon DEF PInv
<1> QED
  BY <1>3 DEF PacketInit, NoPacket, Delivery!Init

\* No packet is longer than its transport allows: over TCP such a packet would end in
\* the endless loop of rtspd_client_rtp_tcp_send.
THEOREM PacketsFit == PacketSpec => []PacketFits
<1>1. PInv => PacketFits
  BY DEF PInv
<1> QED
  BY PacketStart, PacketStep, <1>1, PTL DEF PacketSpec

\* Every packet takes the sender on in its frame, up to its last byte and not beyond: a
\* frame is over after at most as many calls as it has bytes.
THEOREM FramesMoveOn == PacketSpec => FrameMovesOn
<1>1. PInv /\ [PacketNext]_packetVars
        => [Build => offset < offset' /\ offset' <= frame.size]_packetVars
  BY BuildMovesOn
<1> QED
  BY PacketStart, PacketStep, <1>1, PTL DEF PacketSpec, FrameMovesOn

\* What rtp_h264.c and rtp_h265.c send, a decoder can put together: whole NAL units in
\* order, fragments that join, the marker bit where the frame ends, and a key frame
\* first.
THEOREM PacketizerDelivers == PacketSpec => DeliverySpec
  BY PacketStart, PacketStep, PTL DEF PacketSpec, DeliverySpec, Delivery!Spec
===============================================================================
