---------------------------- MODULE RtpSenderProofs ----------------------------
(***************************************************************************)
(* What is proved of the ring and of the packetizer holds when a session's *)
(* sender joins them: each step of RtpSender is a step of both, or leaves  *)
(* one of them alone.                                                      *)
(***************************************************************************)
EXTENDS RtpSender, RtpQueueProofs, RtpPacketizerProofs

\* To the ring a sender does nothing but put and get, open and close.
THEOREM SenderUsesQueue == SenderSpec => Spec
<1>1. SenderInit => Init
  BY DEF SenderInit
<1>2. [SenderNext]_allVars => [Next]_vars
  BY DEF SenderNext, Next, allVars, Connect, Disconnect, Stream, SetupAgain, SendPacket,
         Ask, Get
<1> QED
  BY <1>1, <1>2, PTL DEF SenderSpec, Spec

\* To the packetizer it does nothing but set it up, give it frames and call it.
THEOREM SenderPacketizes == SenderSpec => PacketSpec
<1>1. SenderInit => PacketInit
  BY DEF SenderInit
<1>2. [SenderNext]_allVars => [PacketNext]_packetVars
  BY DEF SenderNext, PacketNext, packetVars, allVars, Connect, Disconnect, Stream,
         SetupAgain, SendPacket, Ask
<1> QED
  BY <1>1, <1>2, PTL DEF SenderSpec, PacketSpec

\* So the frames of a session are sent in order, none twice, and each in packets that
\* fit and that a decoder can put together: for every ring, every frame size and every
\* interleaving of puts, gets and packets.
THEOREM SenderCorrect ==
  ASSUME OneConsumer
  PROVE  SenderSpec => /\ []BacklogIsNewest /\ GetInOrder /\ FifoSpec
                       /\ []PacketFits /\ FrameMovesOn /\ DeliverySpec
  BY SenderUsesQueue, SenderPacketizes, BacklogCorrect, DeliveryInOrder, RingImplementsFifo,
     PacketsFit, FramesMoveOn, PacketizerDelivers, PTL
===============================================================================
