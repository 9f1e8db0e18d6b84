----------------------------- MODULE RtspSession -----------------------------
(***************************************************************************)
(* The life of an RTSP session on CPU0: rtspd.c and rtspd_process.c.       *)
(*                                                                         *)
(* A connection owns a slot of rsInfo.rclist.  Four kinds of task work on  *)
(* the slot's fields, without a lock over them:                            *)
(*   - its client task (rtspd_client_main) answers the requests, and       *)
(*     closes the slot in the end;                                         *)
(*   - over TCP, a sender task made by SETUP (rtspd_client_rtp_main);      *)
(*   - over UDP, the one task rtp(u) that serves all slots in turn         *)
(*     (rtspd_client_udp_rtp_main);                                        *)
(*   - the HTTP task, when an administrator kicks a user                   *)
(*     (rtspd_connect_kick).                                               *)
(* play_query says that the slot has a sender.  A closing client waits     *)
(* until the sender has cleared it, then frees what the sender used.       *)
(*                                                                         *)
(* A step of this module is what a task does between two accesses to a     *)
(* field another task may have changed.  Only the video stream is          *)
(* modelled: the checked-in configuration has no audio.  Frames are left   *)
(* to RtpQueue, sequence numbers and reply texts are left out.             *)
(***************************************************************************)
EXTENDS Integers, FiniteSets

CONSTANTS
  NumSlots,     \* slots of rclist (RTSP_info_MAX)
  PlayMax,      \* sessions that may stream at a time (RTSP_play_MAX)
  Workers,      \* bound: the TCP sender tasks that can exist at a time
  Dialogue,     \* per slot: what its clients send, pairs of a session state and a method
  Transports,   \* per slot: what the Transport header of its SETUPs says
  Events,       \* what else may happen, of AllEvents
  ClearIsQuick  \* timing: see Accept

States == {"NONE", "OPTIONS", "DESCRIBE", "SETUP", "PLAY", "PAUSE", "TEARDOWN", "ERROR"}

Methods == {"OPTIONS", "DESCRIBE", "SETUP", "PLAY", "PAUSE", "TEARDOWN",
            "GET_PARAMETER", "SET_PARAMETER"}

\* "absent" is a SETUP without the header, "unknown" a protocol not offered.
AllTransports == {"TCP", "UDP", "absent", "unknown"}

\* A wrong URL, stream name or Accept header; a lost or silent connection; a
\* failing send; a kick.
AllEvents == {"badrequest", "drop", "tcpfail", "udpfail", "kick"}

ASSUME SlotsAssumption == NumSlots \in Nat \ {0}
ASSUME PlayMaxAssumption == PlayMax \in Nat
ASSUME DialogueAssumption == Dialogue \in [1 .. NumSlots -> SUBSET (States \X Methods)]
ASSUME TransportsAssumption == Transports \in [1 .. NumSlots -> SUBSET AllTransports]
ASSUME EventsAssumption == Events \subseteq AllEvents
ASSUME ClearIsQuickAssumption == ClearIsQuick \in BOOLEAN

VARIABLES
  \* fields of each slot
  valid,        \* the slot is taken
  state,        \* state of the session
  isLive,       \* stream the URL named: "NONE", "ERROR" or an "approved" one
  eTransport,   \* "NONE", "UDP" or "TCP"
  playQuery,    \* play_query has the video bit: a sender serves the slot
  rtpSs,        \* rtp_ss is allocated
  queue,        \* rtp_queue_video is allocated
  \* client tasks
  cpc,          \* where the slot's client task is; "none": there is none
  req,          \* the request it is answering
  \* the mutex of SETUP
  semPtr,       \* the mutex xSemSetup points to; 0 is NULL
  semHolder,    \* of each mutex: the slot whose client task has taken it, or 0
  semWait,      \* per slot: the mutex its client task is blocked on, or 0
  \* TCP sender tasks
  wpc,          \* where each is; "none": no such task
  wslot,        \* the slot each serves
  \* the UDP sender task
  upc,          \* where it is
  uslot,        \* the slot it is looking at
  \* the HTTP task
  kick          \* the slot whose kick has been allowed and not yet written, or 0

slotVars == <<valid, state, isLive, eTransport, playQuery, rtpSs, queue>>
clientVars == <<cpc, req>>
semVars == <<semPtr, semHolder, semWait>>
workerVars == <<wpc, wslot>>
udpVars == <<upc, uslot>>
vars == <<slotVars, clientVars, semVars, workerVars, udpVars, kick>>

Slots == 1 .. NumSlots

NoRequest == [method |-> "OPTIONS", transport |-> "absent", ok |-> TRUE]

Requests == [method : Methods, transport : AllTransports, ok : BOOLEAN]

\* rtspd_client_rtsp_state: from which states each method may enter its state.
\* GET_PARAMETER and SET_PARAMETER are allowed or not, and never entered.
MayEnter(m) ==
  CASE m \in {"OPTIONS", "GET_PARAMETER", "SET_PARAMETER"} -> States \ {"TEARDOWN", "ERROR"}
    [] m = "DESCRIBE" -> {"OPTIONS", "DESCRIBE", "SETUP", "PLAY", "PAUSE"}
    [] m = "SETUP"    -> {"OPTIONS", "DESCRIBE", "SETUP"}
    [] m = "PLAY"     -> {"SETUP", "PLAY", "PAUSE"}
    [] m = "PAUSE"    -> {"PLAY", "PAUSE"}
    [] m = "TEARDOWN" -> States \ {"ERROR"}

\* rtspd_player_count: the slots that have a sender.
Players == {s \in Slots : playQuery[s]}

Init ==
  /\ valid = [s \in Slots |-> FALSE]
  /\ state = [s \in Slots |-> "NONE"]
  /\ isLive = [s \in Slots |-> "approved"]
  /\ eTransport = [s \in Slots |-> "NONE"]
  /\ playQuery = [s \in Slots |-> FALSE]
  /\ rtpSs = [s \in Slots |-> FALSE]
  /\ queue = [s \in Slots |-> FALSE]
  /\ cpc = [s \in Slots |-> "none"]
  /\ req = [s \in Slots |-> NoRequest]
  /\ semPtr = 0
  /\ semHolder = [m \in Slots |-> 0]
  /\ semWait = [s \in Slots |-> 0]
  /\ wpc = [w \in Workers |-> "none"]
  /\ wslot = [w \in Workers |-> 1]
  /\ upc = "visit"
  /\ uslot = 1
  /\ kick = 0

------------------------------------------------------------------------------
(***************************************************************************)
(* The server task gives a connection the first free slot.                 *)
(***************************************************************************)

\* memset of a slot; rtspd_socket_client_new then sets valid.
\* (An enumeration's zero is an approved stream, until the client task starts.)
ZeroSlot(s, taken) ==
  /\ valid' = [valid EXCEPT ![s] = taken]
  /\ state' = [state EXCEPT ![s] = "NONE"]
  /\ isLive' = [isLive EXCEPT ![s] = "approved"]
  /\ eTransport' = [eTransport EXCEPT ![s] = "NONE"]
  /\ playQuery' = [playQuery EXCEPT ![s] = FALSE]
  /\ rtpSs' = [rtpSs EXCEPT ![s] = FALSE]
  /\ queue' = [queue EXCEPT ![s] = FALSE]

\* rtspd_socket_client_new, and the creation of the connection's client task.  With
\* ClearIsQuick the UDP task has stored by now the play_query = 0 that it was about
\* to store for the last connection of the slot; nothing but time makes it so.
Accept(s) ==
  /\ ~valid[s]
  /\ ClearIsQuick => ~(upc = "clear" /\ uslot = s)
  /\ \A t \in Slots : t < s => valid[t]
  /\ ZeroSlot(s, TRUE)
  /\ cpc' = [cpc EXCEPT ![s] = "init"]
  /\ UNCHANGED <<req, semVars, workerVars, udpVars, kick>>

------------------------------------------------------------------------------
(***************************************************************************)
(* The client task.                                                        *)
(***************************************************************************)
Goto(s, p) == cpc' = [cpc EXCEPT ![s] = p]

\* Back to waiting for a request.
Answered(s) ==
  /\ Goto(s, "loop")
  /\ req' = [req EXCEPT ![s] = NoRequest]

SetState(s, st) == state' = [state EXCEPT ![s] = st]

\* The first lines of rtspd_client_main.
ClientInit(s) ==
  /\ cpc[s] = "init"
  /\ SetState(s, "NONE")
  /\ isLive' = [isLive EXCEPT ![s] = "NONE"]
  /\ eTransport' = [eTransport EXCEPT ![s] = "NONE"]
  /\ playQuery' = [playQuery EXCEPT ![s] = FALSE]
  /\ rtpSs' = [rtpSs EXCEPT ![s] = FALSE]
  /\ queue' = [queue EXCEPT ![s] = TRUE]
  /\ Goto(s, "loop")
  /\ UNCHANGED <<valid, req, semVars, workerVars, udpVars, kick>>

\* The loop ends when the session is torn down or in error.
ClientEnds(s) ==
  /\ cpc[s] = "loop"
  /\ state[s] \in {"TEARDOWN", "ERROR"}
  /\ Goto(s, "closing")
  /\ UNCHANGED <<slotVars, req, semVars, workerVars, udpVars, kick>>

\* The loop ends when the connection fails or is silent for RTSP_TIMEOUT.
ClientDrops(s) ==
  /\ "drop" \in Events
  /\ cpc[s] = "loop"
  /\ state[s] \notin {"TEARDOWN", "ERROR"}
  /\ Goto(s, "closing")
  /\ UNCHANGED <<slotVars, req, semVars, workerVars, udpVars, kick>>

\* A request is read and parsed.  The Transport header takes effect here, before
\* it is known whether the SETUP is allowed.
ClientReads(s) ==
  /\ cpc[s] = "loop"
  /\ state[s] \notin {"TEARDOWN", "ERROR"}
  /\ \E m \in Methods, tr \in AllTransports, ok \in BOOLEAN :
       /\ <<state[s], m>> \in Dialogue[s]
       /\ IF m = "SETUP" THEN tr \in Transports[s] ELSE tr = "absent"
       /\ ok \/ "badrequest" \in Events
       /\ req' = [req EXCEPT ![s] = [method |-> m, transport |-> tr, ok |-> ok]]
       /\ eTransport' = IF tr \in {"TCP", "UDP"}
                        THEN [eTransport EXCEPT ![s] = tr] ELSE eTransport
  /\ Goto(s, "respond")
  /\ UNCHANGED <<valid, state, isLive, playQuery, rtpSs, queue, semVars, workerVars,
                 udpVars, kick>>

\* rtspd_client_rtsp_check_url: the first URL decides for the whole session.
UrlRefused(s) == isLive[s] = "ERROR" \/ (isLive[s] = "NONE" /\ ~req[s].ok)

CheckUrl(s) ==
  isLive' = IF state[s] = "TEARDOWN" \/ isLive[s] # "NONE" THEN isLive
            ELSE [isLive EXCEPT ![s] = IF req[s].ok THEN "approved" ELSE "ERROR"]

\* The method is allowed now.  PLAY also needs a sender.
Allowed(s) ==
  /\ state[s] # "TEARDOWN"
  /\ ~UrlRefused(s)
  /\ state[s] \in MayEnter(req[s].method)
  /\ req[s].method = "PLAY" => playQuery[s]

\* rtspd_client_rtsp_response refuses the request: 412, 501, 400 or 455, all of
\* which put the session in error.
Refuse(s) ==
  /\ cpc[s] = "respond"
  /\ ~Allowed(s)
  /\ CheckUrl(s)
  /\ SetState(s, "ERROR")
  /\ Answered(s)
  /\ UNCHANGED <<valid, eTransport, playQuery, rtpSs, queue, semVars, workerVars,
                 udpVars, kick>>

\* GET_PARAMETER and SET_PARAMETER: answered (200, 458), nothing entered.
AnswerParameter(s) ==
  /\ cpc[s] = "respond"
  /\ Allowed(s)
  /\ req[s].method \in {"GET_PARAMETER", "SET_PARAMETER"}
  /\ CheckUrl(s)
  /\ Answered(s)
  /\ UNCHANGED <<valid, state, eTransport, playQuery, rtpSs, queue, semVars, workerVars,
                 udpVars, kick>>

\* The other methods: rtspd_client_rtsp_state has read a state that allows it and
\* is about to write the new one.
CheckState(s) ==
  /\ cpc[s] = "respond"
  /\ Allowed(s)
  /\ req[s].method \notin {"GET_PARAMETER", "SET_PARAMETER"}
  /\ CheckUrl(s)
  /\ Goto(s, "enter")
  /\ UNCHANGED <<valid, state, eTransport, playQuery, rtpSs, queue, req, semVars,
                 workerVars, udpVars, kick>>

\* OPTIONS, DESCRIBE and PAUSE end with their state.  A DESCRIBE that does not
\* accept SDP is answered 406.
EnterAndAnswer(s) ==
  /\ cpc[s] = "enter"
  /\ req[s].method \in {"OPTIONS", "DESCRIBE", "PAUSE"}
  /\ SetState(s, IF req[s].method = "DESCRIBE" /\ ~req[s].ok THEN "ERROR"
                 ELSE req[s].method)
  /\ Answered(s)
  /\ UNCHANGED <<valid, isLive, eTransport, playQuery, rtpSs, queue, semVars,
                 workerVars, udpVars, kick>>

\* PLAY, SETUP and TEARDOWN go on.
Enter(s) ==
  /\ cpc[s] = "enter"
  /\ req[s].method \in {"PLAY", "SETUP", "TEARDOWN"}
  /\ SetState(s, req[s].method)
  /\ Goto(s, IF req[s].method = "PLAY" THEN "play"
             ELSE IF req[s].method = "SETUP" THEN "setup" ELSE "teardown")
  /\ UNCHANGED <<valid, isLive, eTransport, playQuery, rtpSs, queue, req, semVars,
                 workerVars, udpVars, kick>>

\* PLAY: the reply quotes the RTP session; without one the task loops for ever.
AnswerPlay(s) ==
  /\ cpc[s] = "play"
  /\ IF rtpSs[s] THEN Answered(s) ELSE Goto(s, "hung") /\ UNCHANGED req
  /\ UNCHANGED <<slotVars, semVars, workerVars, udpVars, kick>>

\* TEARDOWN: the RTP session is freed at once.
AnswerTeardown(s) ==
  /\ cpc[s] = "teardown"
  /\ rtpSs' = [rtpSs EXCEPT ![s] = FALSE]
  /\ Answered(s)
  /\ UNCHANGED <<valid, state, isLive, eTransport, playQuery, queue, semVars,
                 workerVars, udpVars, kick>>

\* Mutant: the mutex is made by every SETUP.
SetupFindsNoMutex(s) ==
  /\ cpc[s] = "setup"
  /\ Goto(s, "newmutex")
  /\ UNCHANGED <<slotVars, req, semVars, workerVars, udpVars, kick>>

\* SETUP: the mutex is made by the first session that finds none.
SetupFindsMutex(s) ==
  /\ cpc[s] = "setup"
  /\ Goto(s, IF semPtr = 0 THEN "newmutex" ELSE "take")
  /\ UNCHANGED <<slotVars, req, semVars, workerVars, udpVars, kick>>

SetupMakesMutex(s) ==
  /\ cpc[s] = "newmutex"
  /\ semPtr' = semPtr + 1
  /\ Goto(s, "take")
  /\ UNCHANGED <<slotVars, req, semHolder, semWait, workerVars, udpVars, kick>>

\* Mutant: the mutex is not taken before the players are counted.
SetupTakesNone(s) ==
  /\ cpc[s] = "take"
  /\ semHolder[semPtr] = 0
  /\ Goto(s, "count")
  /\ UNCHANGED <<slotVars, req, semVars, workerVars, udpVars, kick>>

\* SETUP takes the mutex xSemSetup points to now.
SetupTakesMutex(s) ==
  /\ cpc[s] = "take"
  /\ semHolder[semPtr] = 0
  /\ semHolder' = [semHolder EXCEPT ![semPtr] = s]
  /\ Goto(s, "count")
  /\ UNCHANGED <<slotVars, req, semPtr, semWait, workerVars, udpVars, kick>>

\* Another SETUP has it: the task blocks on that mutex, and stays blocked on it when
\* xSemSetup points to another one later.
SetupBlocks(s) ==
  /\ cpc[s] = "take"
  /\ semHolder[semPtr] # 0
  /\ semWait' = [semWait EXCEPT ![s] = semPtr]
  /\ Goto(s, "blocked")
  /\ UNCHANGED <<slotVars, req, semPtr, semHolder, workerVars, udpVars, kick>>

\* The mutex it is blocked on has been given.
SetupWakes(s) ==
  /\ cpc[s] = "blocked"
  /\ semHolder[semWait[s]] = 0
  /\ semHolder' = [semHolder EXCEPT ![semWait[s]] = s]
  /\ semWait' = [semWait EXCEPT ![s] = 0]
  /\ Goto(s, "count")
  /\ UNCHANGED <<slotVars, req, semPtr, workerVars, udpVars, kick>>

\* Mutant: the answer 453 leaves the mutex taken.
SetupRefusesAndKeepsMutex(s) ==
  /\ cpc[s] = "count"
  /\ Cardinality(Players) >= PlayMax
  /\ Answered(s)
  /\ UNCHANGED <<slotVars, semVars, workerVars, udpVars, kick>>

\* SETUP with the mutex: the answer is 453 when enough sessions stream.
SetupRefuses(s) ==
  /\ cpc[s] = "count"
  /\ Cardinality(Players) >= PlayMax
  /\ Goto(s, "give")
  /\ UNCHANGED <<slotVars, req, semVars, workerVars, udpVars, kick>>

\* SETUP with the mutex: the RTP session is made first, then the request is found
\* wanting: 400 without a Transport header, 461 without a transport, 404 without a
\* stream.
SetupFails(s) ==
  /\ cpc[s] = "count"
  /\ Cardinality(Players) < PlayMax
  /\ req[s].transport = "absent" \/ eTransport[s] = "NONE" \/ ~req[s].ok
  /\ rtpSs' = [rtpSs EXCEPT ![s] = TRUE]
  /\ state' = IF req[s].transport = "absent" THEN [state EXCEPT ![s] = "ERROR"] ELSE state
  /\ Goto(s, "give")
  /\ UNCHANGED <<valid, isLive, eTransport, playQuery, queue, req, semVars, workerVars,
                 udpVars, kick>>

SetupMayStart(s) ==
  /\ cpc[s] = "count"
  /\ Cardinality(Players) < PlayMax
  /\ req[s].transport # "absent"
  /\ eTransport[s] # "NONE"
  /\ req[s].ok

\* Mutant: a sender task is made without a look at play_query.
SetupAlwaysStartsWorker(s) ==
  /\ SetupMayStart(s)
  /\ eTransport[s] = "TCP"
  /\ \E w \in Workers :
       /\ wpc[w] = "none"
       /\ wpc' = [wpc EXCEPT ![w] = "top"]
       /\ wslot' = [wslot EXCEPT ![w] = s]
  /\ rtpSs' = [rtpSs EXCEPT ![s] = TRUE]
  /\ Goto(s, "addquery")
  /\ UNCHANGED <<valid, state, isLive, eTransport, playQuery, queue, req, semVars,
                 udpVars, kick>>

\* SETUP over TCP makes a sender task, unless play_query says there is one.
SetupStartsWorker(s) ==
  /\ SetupMayStart(s)
  /\ eTransport[s] = "TCP"
  /\ ~playQuery[s]
  /\ \E w \in Workers :
       /\ wpc[w] = "none"
       /\ wpc' = [wpc EXCEPT ![w] = "top"]
       /\ wslot' = [wslot EXCEPT ![w] = s]
  /\ rtpSs' = [rtpSs EXCEPT ![s] = TRUE]
  /\ Goto(s, "addquery")
  /\ UNCHANGED <<valid, state, isLive, eTransport, playQuery, queue, req, semVars,
                 udpVars, kick>>

\* SETUP over UDP, or again over TCP, makes none.
SetupNeedsNoWorker(s) ==
  /\ SetupMayStart(s)
  /\ eTransport[s] = "UDP" \/ playQuery[s]
  /\ rtpSs' = [rtpSs EXCEPT ![s] = TRUE]
  /\ Goto(s, "addquery")
  /\ UNCHANGED <<valid, state, isLive, eTransport, playQuery, queue, req, semVars,
                 workerVars, udpVars, kick>>

\* SETUP: play_query |= setup_query.
SetupAddsQuery(s) ==
  /\ cpc[s] = "addquery"
  /\ playQuery' = [playQuery EXCEPT ![s] = TRUE]
  /\ Goto(s, "give")
  /\ UNCHANGED <<valid, state, isLive, eTransport, rtpSs, queue, req, semVars, workerVars,
                 udpVars, kick>>

\* SETUP gives the mutex xSemSetup points to now.  That need not be the one it took: it
\* may be one that nobody has taken, and then the one it took stays taken.
SetupGivesMutex(s) ==
  /\ cpc[s] = "give"
  /\ semHolder[semPtr] \in {0, s}
  /\ semHolder' = [semHolder EXCEPT ![semPtr] = 0]
  /\ Answered(s)
  /\ UNCHANGED <<slotVars, semPtr, semWait, workerVars, udpVars, kick>>

\* Or one that another task has taken: FreeRTOS asserts that the holder is the task that
\* gives, and configASSERT is an endless loop without interrupts.  (The core stops with
\* it.  That the others go on in this model only adds to what they may do.)
SetupHalts(s) ==
  /\ cpc[s] = "give"
  /\ semHolder[semPtr] \notin {0, s}
  /\ Goto(s, "halted")
  /\ UNCHANGED <<slotVars, req, semVars, workerVars, udpVars, kick>>

\* Mutant: the senders are not told.
ClientClosesSilently(s) ==
  /\ cpc[s] = "closing"
  /\ Goto(s, "wait")
  /\ UNCHANGED <<slotVars, req, semVars, workerVars, udpVars, kick>>

\* Mutant: the senders are neither told nor waited for.
ClientClosesAtOnce(s) ==
  /\ cpc[s] = "closing"
  /\ Goto(s, "close")
  /\ UNCHANGED <<slotVars, req, semVars, workerVars, udpVars, kick>>

\* After the loop: the senders are told by the state.
ClientCloses(s) ==
  /\ cpc[s] = "closing"
  /\ SetState(s, "TEARDOWN")
  /\ Goto(s, "wait")
  /\ UNCHANGED <<valid, isLive, eTransport, playQuery, rtpSs, queue, req, semVars,
                 workerVars, udpVars, kick>>

\* Mutant: the senders are not waited for.
ClientNeverWaits(s) ==
  /\ cpc[s] = "wait"
  /\ Goto(s, "close")
  /\ UNCHANGED <<slotVars, req, semVars, workerVars, udpVars, kick>>

\* The wait for play_query is over: rtspd_client_close closes the socket and sleeps.
ClientStopsWaiting(s) ==
  /\ cpc[s] = "wait"
  /\ ~playQuery[s]
  /\ Goto(s, "close")
  /\ UNCHANGED <<slotVars, req, semVars, workerVars, udpVars, kick>>

\* The rest of rtspd_client_close, after vTaskDelay(50): the memory is freed.
ClientFreesMemory(s) ==
  /\ cpc[s] = "close"
  /\ rtpSs' = [rtpSs EXCEPT ![s] = FALSE]
  /\ queue' = [queue EXCEPT ![s] = FALSE]
  /\ Goto(s, "free")
  /\ UNCHANGED <<valid, state, isLive, eTransport, playQuery, req, semVars, workerVars,
                 udpVars, kick>>

\* The memset of the slot.
ClientZeroesSlot(s) ==
  /\ cpc[s] = "free"
  /\ ZeroSlot(s, FALSE)
  /\ Goto(s, "none")
  /\ UNCHANGED <<req, semVars, workerVars, udpVars, kick>>

\* What the client task does of its own accord, when it is scheduled.
ClientWorks(s) ==
  \/ ClientInit(s) \/ ClientEnds(s)
  \/ Refuse(s) \/ AnswerParameter(s) \/ CheckState(s) \/ EnterAndAnswer(s) \/ Enter(s)
  \/ AnswerPlay(s) \/ AnswerTeardown(s)
  \/ SetupFindsMutex(s) \/ SetupMakesMutex(s)
  \/ SetupTakesMutex(s) \/ SetupBlocks(s) \/ SetupWakes(s)
  \/ SetupRefuses(s) \/ SetupFails(s)
  \/ SetupStartsWorker(s) \/ SetupNeedsNoWorker(s) \/ SetupAddsQuery(s)
  \/ SetupGivesMutex(s) \/ SetupHalts(s)
  \/ ClientCloses(s) \/ ClientStopsWaiting(s) \/ ClientFreesMemory(s)
  \/ ClientZeroesSlot(s)

------------------------------------------------------------------------------
(***************************************************************************)
(* A TCP sender task.                                                      *)
(***************************************************************************)
WorkerGoes(w, p) ==
  /\ wpc' = [wpc EXCEPT ![w] = p]
  /\ UNCHANGED <<slotVars, clientVars, semVars, wslot, udpVars, kick>>

\* The state says that there is nothing to send any more.
WorkerEnds(w) ==
  /\ wpc[w] = "top"
  /\ state[wslot[w]] \in {"NONE", "OPTIONS", "DESCRIBE", "TEARDOWN", "ERROR"}
  /\ WorkerGoes(w, "exit")

\* The session plays: the task takes a pointer into rtp_ss, or hangs without it.
WorkerPlays(w) ==
  /\ wpc[w] = "top"
  /\ state[wslot[w]] = "PLAY"
  /\ WorkerGoes(w, IF rtpSs[wslot[w]] THEN "video" ELSE "hung")

\* rtspd_client_rtp_video_play finds no rtp_ss.
WorkerLosesSession(w) ==
  /\ wpc[w] = "video"
  /\ ~rtpSs[wslot[w]]
  /\ WorkerGoes(w, "hung")

\* rtspd_client_rtp_video_play builds no packet, or builds one.
WorkerIdles(w) ==
  /\ wpc[w] = "video"
  /\ rtpSs[wslot[w]]
  /\ WorkerGoes(w, IF playQuery[wslot[w]] /\ eTransport[wslot[w]] = "NONE"
                   THEN "exit" ELSE "top")

WorkerBuilds(w) ==
  /\ wpc[w] = "video"
  /\ rtpSs[wslot[w]]
  /\ playQuery[wslot[w]]
  /\ eTransport[wslot[w]] # "NONE"
  /\ WorkerGoes(w, "send")

\* rtspd_client_rtp_tcp_send: the socket is not writable in time, so the packet is
\* dropped; or it is, and rtp_ss is tested and used.
WorkerDropsPacket(w) ==
  /\ wpc[w] = "send"
  /\ WorkerGoes(w, "top")

WorkerSends(w) ==
  /\ wpc[w] = "send"
  /\ WorkerGoes(w, IF rtpSs[wslot[w]] THEN "transmit" ELSE "hung")

\* lwip_send returns, and the packet is counted in rtp_ss.
WorkerSent(w) ==
  /\ wpc[w] = "transmit"
  /\ WorkerGoes(w, "top")

\* lwip_select or lwip_send fails.
WorkerFails(w) ==
  /\ "tcpfail" \in Events
  /\ wpc[w] \in {"send", "transmit"}
  /\ WorkerGoes(w, "exit")

\* Mutant: the task deletes itself and leaves play_query set.
WorkerExitsSilently(w) ==
  /\ wpc[w] = "exit"
  /\ WorkerGoes(w, "none")

\* play_query = 0, and the task deletes itself.
WorkerExits(w) ==
  /\ wpc[w] = "exit"
  /\ playQuery' = [playQuery EXCEPT ![wslot[w]] = FALSE]
  /\ wpc' = [wpc EXCEPT ![w] = "none"]
  /\ UNCHANGED <<valid, state, isLive, eTransport, rtpSs, queue, clientVars, semVars,
                 wslot, udpVars, kick>>

Worker(w) ==
  \/ WorkerEnds(w) \/ WorkerPlays(w) \/ WorkerLosesSession(w) \/ WorkerIdles(w)
  \/ WorkerBuilds(w) \/ WorkerDropsPacket(w) \/ WorkerSends(w) \/ WorkerSent(w)
  \/ WorkerFails(w) \/ WorkerExits(w)

------------------------------------------------------------------------------
(***************************************************************************)
(* The UDP sender task.                                                    *)
(***************************************************************************)
NextSlot == uslot' = IF uslot = NumSlots THEN 1 ELSE uslot + 1

UdpGoes(p) ==
  /\ upc' = p
  /\ UNCHANGED <<slotVars, clientVars, semVars, workerVars, uslot, kick>>

UdpMovesOn ==
  /\ upc' = "visit"
  /\ NextSlot
  /\ UNCHANGED <<slotVars, clientVars, semVars, workerVars, kick>>

\* The slot is not a UDP session that plays or is torn down.
UdpSkips ==
  /\ upc = "visit"
  /\ eTransport[uslot] # "UDP" \/ state[uslot] \notin {"PLAY", "TEARDOWN"}
  /\ UdpMovesOn

UdpPlays ==
  /\ upc = "visit"
  /\ eTransport[uslot] = "UDP"
  /\ state[uslot] = "PLAY"
  /\ UdpGoes(IF rtpSs[uslot] THEN "video" ELSE "hung")

UdpSeesTeardown ==
  /\ upc = "visit"
  /\ eTransport[uslot] = "UDP"
  /\ state[uslot] = "TEARDOWN"
  /\ UdpGoes("clear")

\* Mutant: the session torn down is passed over.
UdpForgetsToClear ==
  /\ upc = "clear"
  /\ UdpMovesOn

\* play_query = 0 for the session torn down.
UdpClears ==
  /\ upc = "clear"
  /\ playQuery' = [playQuery EXCEPT ![uslot] = FALSE]
  /\ upc' = "visit"
  /\ NextSlot
  /\ UNCHANGED <<valid, state, isLive, eTransport, rtpSs, queue, clientVars, semVars,
                 workerVars, kick>>

UdpLosesSession ==
  /\ upc = "video"
  /\ ~rtpSs[uslot]
  /\ UdpGoes("hung")

UdpIdles ==
  /\ upc = "video"
  /\ rtpSs[uslot]
  /\ UdpMovesOn

UdpBuilds ==
  /\ upc = "video"
  /\ rtpSs[uslot]
  /\ playQuery[uslot]
  /\ eTransport[uslot] # "NONE"
  /\ UdpGoes("send")

\* rtspd_client_rtp_udp_send.
UdpDropsPacket ==
  /\ upc = "send"
  /\ UdpMovesOn

UdpSends ==
  /\ upc = "send"
  /\ UdpGoes(IF rtpSs[uslot] THEN "transmit" ELSE "hung")

UdpSent ==
  /\ upc = "transmit"
  /\ UdpMovesOn

\* More than 30 failed sends in a row put the session in error.  (Fewer change
\* nothing, as when the packet is sent.)
UdpFails ==
  /\ "udpfail" \in Events
  /\ upc = "transmit"
  /\ SetState(uslot, "ERROR")
  /\ upc' = "visit"
  /\ NextSlot
  /\ UNCHANGED <<valid, isLive, eTransport, playQuery, rtpSs, queue, clientVars,
                 semVars, workerVars, kick>>

Udp ==
  \/ UdpSkips \/ UdpPlays \/ UdpSeesTeardown \/ UdpClears \/ UdpLosesSession
  \/ UdpIdles \/ UdpBuilds \/ UdpDropsPacket \/ UdpSends \/ UdpSent \/ UdpFails

------------------------------------------------------------------------------
(***************************************************************************)
(* The HTTP task: rtspd_connect_kick reads the state, then writes it.  The *)
(* slot may be any, also one that is free.                                 *)
(***************************************************************************)
KickChecks(s) ==
  /\ "kick" \in Events
  /\ kick = 0
  /\ state[s] \in MayEnter("TEARDOWN")
  /\ kick' = s
  /\ UNCHANGED <<slotVars, clientVars, semVars, workerVars, udpVars>>

KickWrites ==
  /\ kick # 0
  /\ SetState(kick, "TEARDOWN")
  /\ kick' = 0
  /\ UNCHANGED <<valid, isLive, eTransport, playQuery, rtpSs, queue, clientVars,
                 semVars, workerVars, udpVars>>

------------------------------------------------------------------------------
Next ==
  \/ \E s \in Slots : Accept(s) \/ ClientDrops(s) \/ ClientReads(s) \/ ClientWorks(s)
  \/ \E w \in Workers : Worker(w)
  \/ Udp
  \/ \E s \in Slots : KickChecks(s)
  \/ KickWrites

Spec == Init /\ [][Next]_vars

\* Every task that can run is scheduled in the end: all of them block or sleep in
\* each round of their loops.
Fairness ==
  /\ \A s \in Slots : WF_vars(ClientWorks(s))
  /\ \A w \in Workers : WF_vars(Worker(w))
  /\ WF_vars(Udp)
  /\ WF_vars(KickWrites)

FairSpec == Spec /\ Fairness

------------------------------------------------------------------------------
ClientPcs == {"none", "init", "loop", "respond", "enter", "play", "teardown", "setup",
              "newmutex", "take", "blocked", "count", "addquery", "give", "halted",
              "closing", "wait", "close", "free", "hung"}
SenderPcs == {"video", "send", "transmit", "exit", "hung"}

\* Every variable has a value of its type.
TypeOK ==
  /\ valid \in [Slots -> BOOLEAN]
  /\ state \in [Slots -> States]
  /\ isLive \in [Slots -> {"NONE", "ERROR", "approved"}]
  /\ eTransport \in [Slots -> {"NONE", "UDP", "TCP"}]
  /\ playQuery \in [Slots -> BOOLEAN]
  /\ rtpSs \in [Slots -> BOOLEAN]
  /\ queue \in [Slots -> BOOLEAN]
  /\ cpc \in [Slots -> ClientPcs]
  /\ req \in [Slots -> Requests]
  /\ semPtr \in 0 .. NumSlots
  /\ semHolder \in [Slots -> 0 .. NumSlots]
  /\ semWait \in [Slots -> 0 .. NumSlots]
  /\ wpc \in [Workers -> SenderPcs \cup {"none", "top"}]
  /\ wslot \in [Workers -> Slots]
  /\ upc \in {"visit", "clear", "video", "send", "transmit", "hung"}
  /\ uslot \in Slots
  /\ kick \in 0 .. NumSlots

\* A TCP sender task never outlives its connection: the slot it serves is not
\* freed, nor given to another connection, before play_query = 0 has been written
\* by that very task (rtspd_client_main waits for it).
WorkerOwnsSlot ==
  \A w \in Workers : wpc[w] # "none" =>
    cpc[wslot[w]] \notin {"none", "init", "close", "free"}

\* The UDP sender task never works for a slot whose connection is being freed, is
\* gone, or is not yet the client's: rtspd_client_main waits for play_query = 0,
\* which that task writes only between two packets.
UdpOwnsSlot ==
  upc \in {"video", "send", "transmit"} =>
    cpc[uslot] \notin {"none", "init", "close", "free"}

\* A slot never has two TCP sender tasks: they would share one rtp_session and one
\* RTP queue.
OneWorkerPerSlot ==
  \A v, w \in Workers :
    v # w /\ wpc[v] # "none" /\ wpc[w] # "none" => wslot[v] # wslot[w]

\* No more sessions stream than RTSP_play_MAX, and one for every time the SETUP mutex was
\* made again: whoever counts the players holds the mutex until it is one of them, so
\* that only a session with another mutex can have counted at the same time.
PlayersBounded ==
  Cardinality(Players) <= PlayMax + (IF semPtr > 1 THEN semPtr - 1 ELSE 0)

\* The mutex xSemSetup points to is never left taken: whoever has it is still in a SETUP
\* and goes on to give it, so that a SETUP that blocks on it has its turn unless another
\* mutex is made meanwhile.  It covers every answer of SETUP, and the gives of a SETUP that
\* took its mutex before this one was made.  Nothing is said of who blocks on an earlier
\* mutex: nobody gives that one any more, and it may wait for ever.
MutexComesBack ==
  semPtr # 0 /\ semHolder[semPtr] # 0 =>
    cpc[semHolder[semPtr]] \in {"count", "addquery", "give"}

\* No more sessions stream than RTSP_play_MAX, whatever happens.
PlayersWithinMax == Cardinality(Players) <= PlayMax

\* No task ever reaches the endless loops behind "rtp_ss NULL!!!!!".
NobodyHangs ==
  /\ \A s \in Slots : cpc[s] # "hung"
  /\ \A w \in Workers : wpc[w] # "hung"
  /\ upc # "hung"

\* A sender that holds a pointer into rtp_ss (prtp_ss) holds a live one: the memory
\* is freed by no one while a packet is built, sent or counted.
RtpSessionLives ==
  /\ \A w \in Workers : wpc[w] \in {"video", "send", "transmit"} => rtpSs[wslot[w]]
  /\ upc \in {"video", "send", "transmit"} => rtpSs[uslot]

\* The stream interrupt puts frames only in queues that exist: it looks at valid,
\* state and play_query, not at the pointer.
PutHasQueue ==
  \A s \in Slots : valid[s] /\ state[s] = "PLAY" /\ playQuery[s] => queue[s]

\* play_query is never left set without a sender that will clear it: otherwise the
\* session would play to nobody and its client would wait for ever to close.
QueryHasSender ==
  \A s \in Slots : playQuery[s] =>
    \/ eTransport[s] = "UDP"
    \/ \E w \in Workers : wpc[w] # "none" /\ wslot[w] = s

\* A client that waits to close waits for a sender that is there, does not hang, and has
\* been told: nobody writes over the TEARDOWN before the sender has seen it.
WaiterIsHeard ==
  \A s \in Slots : cpc[s] = "wait" /\ playQuery[s] =>
    /\ state[s] = "TEARDOWN"
    /\ \/ eTransport[s] = "UDP" /\ upc # "hung"
       \/ \E w \in Workers : wslot[w] = s /\ wpc[w] \notin {"none", "hung"}

\* A session in error, also one that UDP sends failed 30 times, gives its slot back
\* in the end: the error ends the connection.
ErrorEndsConnection ==
  \A s \in Slots : (state[s] = "ERROR") ~> (cpc[s] = "none")

\* A client that has left its loop frees its slot in the end.
ClosingFreesSlot ==
  \A s \in Slots : (cpc[s] = "closing") ~> (cpc[s] = "none")
===============================================================================
