------------------------------ MODULE RtpSender ------------------------------
(***************************************************************************)
(* A session's sender and its ring of frames together: RtpQueue and        *)
(* RtpPacketizer as rtspd_client_rtp_video_play joins them.  A frame is    *)
(* asked for only when the last one has been sent; the frame given is      *)
(* taken in the same call.  Puts, and a second SETUP of the session, come  *)
(* at any time.                                                            *)
(***************************************************************************)
EXTENDS RtpQueue, RtpPacketizer

allVars == <<vars, packetVars>>

SenderInit == Init /\ PacketInit

\* A connection's ring is made; its rtp_session, with the first SETUP, is zeroed.
Connect == Open /\ UNCHANGED packetVars

\* Both are freed.
Disconnect == Close /\ Setup(TRUE)

\* The stream interrupt.
Stream == Put /\ UNCHANGED packetVars

\* Another SETUP of the same session.
SetupAgain == alive /\ Setup(FALSE) /\ UNCHANGED vars

\* READY: rtp_queue_get, and what is done with the frame it gives.
Ask(c) ==
  \/ GetCheck(c) /\ ready /\ UNCHANGED packetVars
  \/ (GetTake(c) \/ GetCopy(c)) /\ UNCHANGED packetVars
  \/ GetGive(c) /\ \E f \in Frames : TakeFrame(f)

\* DOING: a packet of the frame.
SendPacket == alive /\ Build /\ UNCHANGED vars

SenderNext ==
  \/ Connect \/ Disconnect \/ Stream \/ SetupAgain
  \/ \E c \in Consumers : Ask(c)
  \/ SendPacket

SenderSpec == SenderInit /\ [][SenderNext]_allVars

\* The session plays, so its sender is called again and again.
SenderFairSpec == SenderSpec /\ WF_allVars(SendPacket)

------------------------------------------------------------------------------
\* A frame that has been begun is sent to its last byte, unless the session is set
\* up anew: no layout of NAL units, and no change of the transport, makes the
\* sender go round in a frame without ever being READY again.
FrameFinished == ~ready ~> ready
===============================================================================
