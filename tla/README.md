# A TLA+ model of the EN675 firmware

The firmware runs an IP camera on a chip with four RISC-V cores. Core 0 runs
FreeRTOS with the network (lwIP), the RTSP and HTTP servers and the recorder;
the other cores run the image pipeline and the encoders, mostly from libraries.
The sources named below are under `src/Source/`; `rtspd.c` and its like are in
`core/core0/task/rtspd/`.

## Inventory

| Component | State it keeps | Operations | Meets others through | What is hard | What makes it correct |
|---|---|---|---|---|---|
| RTSP session (`rtspd.c`, `rtspd_process.c`) | 20 slots `rsInfo.rclist`: state, transport, stream, `play_query`, `rtp_ss`, the frame queue | accept, requests, TCP sender task, UDP sender task, kick, close | fields of the slot, read and written by four kinds of task without a lock; one mutex in SETUP | interleaving, memory freed under its user, a wait without bound | a slot is freed after its senders; one sender per slot; at most `RTSP_play_MAX` players; every closed connection gives its slot back |
| RTP queue (`rtp_queue.c`) | a ring of 60 frame descriptors per session | init, put, get, free | put in the stream interrupt, get in the sender task | overflow, a put between two steps of a get | frames in order, each once; what is lost is lost in whole backlogs |
| RTP packetizers (`rtp_h264.c`, `rtp_h265.c`, `rtp_jpeg.c`) | in `rtp_ss`: the frame being sent, the offset in it, the last NAL type, whether a key frame has been seen | one call per packet | take frames from the RTP queue; a SETUP resets them | boundaries of fragments, two transports with different room | the packets carry the NAL units in order, each byte once, with start, end and marker; they fit; every frame is finished |
| RTCP (`rtcp_process.c`) | none | receive | refreshes a session's timeout | | |
| Stream messages (`enx_stream.c`, `core/shared/msg.h`) | a ring in memory shared by the cores | put on one core, get in an interrupt of core 0 | hardware mutex, interrupt | order, a full ring | no frame lost or repeated |
| Record messages (`enx_record.c`) | a ring, a flag used as lock | put, get | interrupt, recorder | the lock is tested and set in two steps | |
| Recorder (`videnc/`) | the frame buffer `sbuf`, the muxer's state, its heap, the index of the file | start, stop, frame, flush | interrupt, SD card task, HTTP | interrupt against task, failures of the card, full buffers | a file starts with a key frame and has its frames in order; stop always ends |
| SD card (`sdcard.c`) | card and mount state | insert, remove, mount, format | recorder, HTTP | removal while recording | |
| HTTP and CGI (`http/`) | per connection | CGI handlers | configuration, kick of an RTSP user | | |
| Configuration changes (`change/`) | | a task for each | network, video | | |
| Start-up (`main0.c`, `core/shared/boot.c`) | flags in shared memory | | the cores | | |
| Drivers (`dev/`) | registers | | interrupts | the hardware | |

Audio, Wi-Fi, RTSP authorization, RTCP sender reports and the software JPEG
encoder are switched off in the checked-in configuration (`dev/cfg_*.h`).
`PROJECT.json` lists the components with what is modelled of each, and the
hazards of the code with the properties that watch over them.

## Modules

| Module | What it is |
|---|---|
| `FrameFifo` | what a frame queue promises: frames come out in order, each once; a full queue may drop everything it holds |
| `RtpQueue` | `rtp_queue.c`, and the refinement of `FrameFifo` |
| `RtpQueueProofs` | its theorems |
| `NalDelivery` | what a session's packets promise a decoder: NAL units in order, whole or in fragments from start to end, nothing before the first key frame |
| `RtpPacketizer` | `rtp_h264.c` and `rtp_h265.c`, and the refinement of `NalDelivery` |
| `RtpPacketizerProofs` | its theorems |
| `RtpSender` | the ring and the packetizer joined by `rtspd_client_rtp_video_play`; extends both |
| `RtpSenderProofs` | what is proved of each holds of both together |
| `RtspSession` | `rtspd.c` and `rtspd_process.c`: the life of a session |
| `RtspSessionProofs` | its theorems |
| `GroupFifo` | what the ring of frames to record promises: a queue that never refuses a frame and, when full, loses the oldest ones up to the next key frame |
| `RecordBuffer` | `stream_buffering.c`: the ring of frames to record, and the refinement of `GroupFifo` |
| `RecordBufferProofs` | its theorems |
| `Recorder` | `muxer_videnc.c` and `sdcard.c`: the task that writes files and the task that follows the card; extends `RecordBuffer` |
| `RecorderProofs` | its theorems |
| `MCRtpSender`, `MCRtspSession`, `MCRecorder` | instances for TLC |

### RtpQueue

`head`, `tail` and `data` are the ring; a frame is its number in the order of
the puts. `Put` is one step, as the code runs it in an interrupt; `GetCheck`,
`GetTake`, `GetCopy` and `GetGive` are what a get does between two points where
the interrupt can come in. `Put` does not stop at a full ring (the `else` is
commented out in the code): the tail reaches the head and the ring counts as
empty. That loses the whole backlog, but a get that has already found the ring
non-empty then copies the oldest frame all the same, and what it leaves behind
is again the newest frames. `BacklogIsNewest` says so, `GetInOrder` that the
frames come out in order, and `FifoSpec` that the ring implements `FrameFifo`.
All three need that a session has one consumer (`OneConsumer`), which is what
`OneWorkerPerSlot` of `RtspSession` says; two consumers could both pass the
test for emptiness.

### RtpPacketizer and RtpSender

A frame is its layout: for each NAL unit where its start code, its first byte and
its end are, and the kind of its type. `TakeFrame` is the READY part of
`rtspd_client_rtp_h264_main`; `Build` is its DOING and END parts, one packet per
call, with an action for each kind of packet: a parameter set
(`BuildParameterSet`), the first fragment of a slice that does not fit
(`BuildFirstFragment`), a NAL unit as it is (`BuildSingle`) and a further fragment
(`BuildFragment`). What they have in common, the filling of the packet and the end
of the frame, is `Filled` and `Emit`. `rtp_h265.c` is the same program with other
sizes, which are constants (`Window`, `FuHeader`, `NalHeader`). The transport is
chosen anew for every packet, as the code reads `eTransport` in every call.

`pkt` is what a receiver sees of a packet. `NalDelivery` says which sequences of
packets it can put together: a NAL unit comes whole, or as fragments that adjoin,
of which the first has the start bit and the last the end bit; the next NAL unit
begins where the last one ended, the marker is on the packet that ends the frame,
nothing comes before the first key frame. It is abandoned only by `Restart`, when a
SETUP of the running session makes it READY in the middle of a frame.
`PacketFits` bounds the length for the transport: over TCP a packet beyond 1460 bytes
stops the sender for ever (`rtspd.c:417`).

The packetizer relies on frames of the form the encoder makes (`IsWellMade`):
parameter sets short enough for their end to be found (`Window`), then one slice.
That emulation prevention keeps start codes out of a NAL unit is part of the
abstraction: `AtNal` is true exactly where a NAL unit begins.

`RtpSender` puts the ring in front: a frame is asked for only in READY, and used in
the same call. `Stream` and `SetupAgain` come in at any time. `FrameFinished` is
checked here, with nothing assumed but that the sender is called again and again;
`FrameMovesOn` is what it rests on, every packet's progress.

### RtspSession

The fields of a slot are functions of the slot; `cpc`, `wpc` and `upc` say where
the client task of a slot, a TCP sender task and the UDP sender task are. An
action is what a task does between two accesses to something another task may
have changed: reading the state and writing it are two actions
(`CheckState`, `Enter`), and so are making the sender task and setting
`play_query` (`SetupStartsWorker`, `SetupAddsQuery`), testing `rtp_ss` and using
it (`WorkerPlays`, `WorkerBuilds`, `WorkerSends`, `WorkerSent`). A request is a
method, what its Transport header says, and whether the rest of it (URL, stream
name, Accept header) is right. Only the video stream is modelled, so
`play_query` is a Boolean. The endless loops behind `rtp_ss NULL!!!!!` are the
place `"hung"`.

The mutex of SETUP is made when a SETUP finds none (`SetupFindsMutex`,
`SetupMakesMutex`), so that several may be made; `semPtr` is the one `xSemSetup` points
to. `xSemaphoreTake` evaluates `xSemSetup` once: a task that finds the mutex taken
blocks on that one (`SetupBlocks`, `semWait`) and wakes only when that one is given
(`SetupWakes`), wherever `xSemSetup` points by then. `xSemaphoreGive` gives the mutex
`xSemSetup` points to at its time (`SetupGivesMutex`), whichever the task took:
`semHolder` says who has taken each, an older one stays taken, and a task blocked on it
waits for ever. A task that gives a mutex which another has taken runs into the assertion
of FreeRTOS, a loop that stops the core: it stays at the place `"halted"`
(`SetupHalts`). In the model the other tasks go on, which only adds behaviours to check.

`PlayersBounded` counts what the SETUP mutex gives: the maximum, and one player more
for every time the mutex was made again (`semPtr`, which `session_lazy_mutex` shows to
happen). `MutexComesBack` says that the mutex `xSemSetup` points to is not left taken:
its holder is inside its SETUP and goes on to give it, at every answer, and although
others may give it too. It says nothing of those who wait for an older mutex, who
wait in vain. `WaiterIsHeard` is what stands between a closing client and a wait for
ever: the sender it waits for lives, and still reads the TEARDOWN.

Left out: `client_count` and the refusal of connections when all slots are
taken, interleaved RTSP data, authorization (off), what replies say, failing
allocations.

The constants choose how much may happen. `Dialogue` is, for each slot, what its
clients send in which state: `AllSendAnything`, `AllDisconnect` (anything but TEARDOWN),
`AllSetUpOnce` (no TEARDOWN, no SETUP that the state forbids, and no OPTIONS or DESCRIBE
once set up), `OneAmongSetups` (the same with TEARDOWN at any time for one slot, while
the others only ask for a SETUP). `Events`
are the failures and the kick; `Transports` is, for each slot, what the Transport
headers of its clients say. `ClearIsQuick` is the one timing assumption:
when a slot is given to a new connection, the UDP task is not still holding back
the `play_query = 0` of the last one. The 50 ticks of `rtspd_client_close` make
it likely, nothing makes it sure, and without it `UdpOwnsSlot` and
`ClosingFreesSlot` fail.

### RecordBuffer

The ring `sbuf` keeps the flag of each frame: key frame or not. `Put` is the
interrupt's `sbuf_put`; unlike `rtp_queue_put` it makes room in a full ring by
giving up frames from the head to the next key frame (`Skip`). `Take` is the
critical section of `sbuf_get`. The encoder is external: `MayFollow` says that
a key frame comes at least every `GroupLength` frames. `since` and `broken` are
history: how long ago the last key frame was, and whether frames were given up
since the reader's last frame. `BufferSpec` is the ring with a reader that takes
a frame only when there is one. `GroupFifoSpec` says that this is the queue of
`GroupFifo`, whatever the indices do at the end of the array: `Pending` is the queue,
the frames from the head to the tail, and a full ring gives up the frames before the
next key frame, no more and no fewer. Frames are told apart by their flag only, so
that which frame comes out is said up to its kind and its place.

### Recorder

Three parties share `gVidenc` (state, recording), the switch `bSdVidSave`, the
open file and the SD card's state without a lock: the recorder's task (`pc`), the
SD card task (`spc`), and users (shell, web pages). The recorder has priority LV5
and the SD card task LV3, on one core without time slicing between unequal
priorities, so that the SD card task runs only while the recorder waits
(`RecorderWaits`): for `bufSem`, for FatFs, for a DMA copy. An action of the
recorder is what it does between two of these places, or, around `sbuf_peek` and
`sbuf_get`, between two points where the stream interrupt can come in: the tests
for emptiness are outside of the critical sections (`FirstLooks`, `Look`,
`Decide`) and the reads inside (`FirstTakes`, `Peek`, `Get`). Users may come in
anywhere.

| Code | Actions |
|---|---|
| `IsrRecorddata`, `videnc_info_put` | `Frame` |
| `muxer_videnc_task`, the dispatch of `muxer_videnc_process` | `Wake`, `Entry` |
| `muxer_videnc_open` | `OpenFindsFull`, `OpenFails`, `OpenSucceeds`, `OpenHasNoHeader`, `HeaderCopied` |
| `muxer_videnc_frist_video` | `FirstLooks`, `FirstTakes` |
| `VIDENC_WRITE`, `muxer_videnc_change_savetime` | `Write`, `Look`, `Peek`, `Decide`, `Get` |
| `muxer_videnc_write_process`, `muxer_videnc_error` | `CopySucceeds`, `CopyFails`, `Abort` |
| `muxer_videnc_close`, `muxer_videnc_all_stop` | `CloseSucceeds`, `CloseFails` |
| `SdcardTask`, by state of the card | `SdFindsCard` to `SdWatches` |

The data of the file is reduced to what the properties ask: is it open, does the
frame in hand follow the last one taken for it (`chain`, `block.linked`), how many
frames it has (`count`). `rate` and `max` are `nVidenc_Fps_old` and
`un32vidsmax`, counted in frames of a file.

The SD card task calls `muxer_videnc_init`, which does not only set the recorder's state
to IDLE (`ResetsState`) but also empties the buffer the file is gathered in
(`ResetsBuffer`, `videnc_info_default`) and, when the rate was another one, the tables
(`ResetsLimits`, `videnc_info_init_savetime`), at any place where the recorder waits.
`chain` is the history of what that does to the file being written: it is `"whole"` as
long as the file, its buffer and its tables have lost nothing of the frames taken for it.
Where the recorder waits for a frame, or copies one in `VIDENC_WRITE`, the state IDLE ends
the file. While it copies the header nothing is lost, since the copy goes to the base of
the buffer. But while it copies the first frame of a file, the header and what has been
copied are lost, and the file goes on, since the recorder writes the state `VIDENC_WRITE`
after that: the file is `"spoilt"`. So is a file for which the state was no longer
OPEN when its header was to be made (`OpenSucceeds`, `OpenHasNoHeader`): it has
no header, or one with the counts of the last file.

`NoGapInFile` says that a file which is not spoilt takes a frame only as long as it is
whole, and only a key frame or the successor of the last one: overflows of the ring,
failures and resets end a file or skip to a key frame, and do not leave a gap inside.
It is not a claim that every file on the card can be decoded: spoilt files cannot, a file
that is left open gets no header at all (`muxer_videnc.c:979` in the hazards), and
the header written by the close is not modelled.

`FullFileTakesNoKey` is about the two looks of `VIDENC_WRITE` at the next frame: a
full file is to end before the next key frame, which `sbuf_peek` sees and `sbuf_get`
takes. In between the interrupt may overflow the ring, so that another frame is taken
than was seen; the property says that this is the only way for a key frame to join a
full file.

Liveness: `StopEndsFile` says that a file which is open when the switch goes off is
closed, `RestartOpensFile` that the switch opens a file when it goes on after both
tasks have come to rest. The stronger `SwitchOnRecords` fails (`recorder_restart`).

Left out: the tables of a file and their limits, the heap of file names and the
deletion of old files (`OpenFindsFull` and `OpenFails` are their outcomes), AVI,
event recording and audio (not compiled in the checked-in configuration). The
checked-in configuration has the recorder itself switched off
(`LOAD_FS_SDCARD`); it is modelled as the build that has it.

## Runs

| Run | Instance | Shows |
|---|---|---|
| `rtp_sender` | ring of 3, 7 puts, frames of one to three NAL units around the size of a packet (`Mss` 24), both transports | types, `BacklogIsNewest`, `GetInOrder`, `FifoSpec` of the ring; `PacketFits`, `FrameMovesOn`, `DeliverySpec` of the packets; `FrameFinished` under fairness |
| `session_tcp` | 1 slot, 2 sender tasks, TCP, any dialogue, all events | `WorkerOwnsSlot`, `OneWorkerPerSlot`, `PutHasQueue` |
| `session_udp` | 3 slots, 1 place for a player, UDP, `OneAmongSetups`, failing sends | `UdpOwnsSlot`, `PlayersBounded`, `MutexComesBack` |
| `session_closing` | a slot over TCP beside a slot over UDP, `AllSetUpOnce`, failures | `UdpOwnsSlot`, `NobodyHangs`, `RtpSessionLives`, `QueryHasSender`, `WaiterIsHeard`, and `ClosingFreesSlot` under fairness |
| `recorder` | ring of 3 (2 usable), a key frame at least every 2 frames, all commands, all failures and removal of the card; the default frame rate | `ReaderHasFrame`, `LossEndsAtKey`, `NoGapInFile`, `FullFileTakesNoKey`, `FileIsAttended`, `RestsBetweenFrames` |
| `recorder_stop` | the same ring, all commands, failing writes | `GroupFifoSpec`; `StopEndsFile`, `RestartOpensFile` under fairness |

Where the program and what its text says part, a run shows the trace:

| Run | Statement | What happens |
|---|---|---|
| `session_teardown_hang` | no task reaches the loops behind `rtp_ss NULL!!!!!` (`NobodyHangs`) | TEARDOWN frees `rtp_ss` while the sender is between its test of the state and its use of the session |
| `session_two_transports` | the client waits until the sender is closed (`WorkerOwnsSlot`) | after SETUP over TCP and over UDP, the UDP task clears `play_query` for both |
| `session_lazy_mutex` | at most `RTSP_play_MAX` players (`PlayersWithinMax`) | two SETUPs make a mutex each |
| `session_udp_error` | 30 failed sends end the connection (`ErrorEndsConnection`) | ERROR overwrites TEARDOWN, the UDP task clears `play_query` only for TEARDOWN |
| `recorder_rate` | a file has the frames of `SAVE_NOR_TIME_MAX` seconds (`FilesRunFullTime`) | each new file is set up for 30 fps; at any other frame rate `VIDENC_WRITE` finds the rate changed and closes the file after its first frame |
| `recorder_restart` | `makevid on` starts recording (`SwitchOnRecords`) | off and on again between two polls of the SD card task: the recorder has stopped by itself, the SD card task does not start it again |

Bounds: slots act on one another only through the UDP task, the count of players and
the mutex. For the first two, two slots are enough; the two transports meet in
`session_closing`. The mutex needs three, in `session_udp`: two that make one each, and
one that blocks on the first; to keep the run short two of them only ask for a SETUP.
(Two slots that both send everything of `OneAmongSetups`' first, with bad requests,
lost connections and failing sends, were checked once: 2.3 million states.) In
`session_closing` the core never halts under a closing client: two slots halt it only
when both are in a SETUP. A slot needs two sender tasks for one to be too many. In
`rtp_sender` 7 puts overflow a ring of 3 and go round it twice, with a get at any
place; with `Mss` 24 a TCP packet has room for 8 bytes of a NAL unit, and the frames
are chosen so that a slice just fits, is one byte too long, fills its fragments
exactly, and follows parameter sets; packets alternate between the transports.
In `recorder` the ring is the shortest that holds a key frame to skip to
(`GroupFits`; in the code 150 entries and 5 seconds); it overflows after three
frames and wraps often. `MaxWakes` 1 for `bufSem`: only zero or not matters, and a
lower ceiling only leaves more frames waiting. `MaxFrames` is the longest file;
counting stops there, as no limit is higher. Here a file is full after one
frame: frames up to the next key frame still join it, the key frame ends it, so
that files of one and of more frames occur. `recorder` has
one frame rate: two rates and a card that comes and goes together have 5.6
million states, which is too slow for a run made often (they were checked once,
with the same invariants). `recorder_stop` has the faults that end a recording from
inside; `GroupFifoSpec` is checked there because it has fewer states, and the other faults
do not touch the ring; `StopEndsFile` was checked once with all of them in smaller combinations. The change of the rate is what `recorder_rate` runs
through, and the theorems cover every rate together with every failure.

Deadlock is not checked in the runs of the session and of the RTP queue: a camera
without clients, and a ring after its last frame, really have nothing to do. The
recorder's runs check it.

Fairness: `FairSpec` assumes weak fairness of each task. FreeRTOS runs the
highest task that is ready, and every loop modelled here blocks or sleeps in
each round (`vTaskDelay`, `lwip_select` with a timeout, `xSemaphoreTake`), so
the ones below get their turn. Nothing is assumed of what clients do. In `Recorder`
the SD card task gets strong fairness: it can go on only while the recorder waits,
which is not all the time but again and again. Frames keep coming (the encoder
runs), and a file that is not open is found out when its buffer is next written
(`SF` of the failing copy): the buffer is finite. In `RtpSender` only the sender is
fair: its task calls the packetizer as long as the session plays.

## Proofs

Checked by TLAPS for every value of the constants:

- `RtpQueueProofs`: `TypeCorrect`; with one consumer `BacklogCorrect`,
  `DeliveryInOrder` and `RingImplementsFifo`. The inductive invariant says that
  the entries from the head to the tail are consecutive frames and the last one
  put, also between two steps of a get; the case that needs care is a put that
  overflows the ring after `GetCheck`.
- `RtpPacketizerProofs`: `PacketsFit`, `FramesMoveOn` (`FrameMovesOn`: a packet takes
  the sender on in its frame, never beyond its end; so a frame is over after finitely
  many packets, the part of `FrameFinished` that needs no fairness) and
  `PacketizerDelivers`, for every segment size,
  every well-made frame and any transport for each packet. The invariant says where
  the offset can be when the sender is not READY: at the start of a NAL unit, or
  inside the last one, a slice whose beginning has been sent as a fragment; so that
  the offset meets the size of the frame exactly.
- `RtpSenderProofs`: every step of `RtpSender` is a step of the ring or leaves it
  alone (`SenderUsesQueue`), and the same for the packetizer (`SenderPacketizes`);
  hence `SenderCorrect`.
- `RtspSessionProofs`, for any number of slots and sender tasks:
  - `TypeCorrect` needs `MakersFit`: mutexes made and to be made are no more than the
    slots.
  - `PutQueueExists` (`PutHasQueue`), for both transports and all events, from
    `QueueReady`, which says at which places of the client task there is a queue and at
    which the state cannot be PLAY.
  - `TcpOwnership` (`WorkerOwnsSlot` and `OneWorkerPerSlot`), assuming that each slot
    keeps to one transport (`OneTransport`). Its invariant `TcpInv` says that a sender
    task lives only while its slot is in use and `play_query` is set or about to be set
    by SETUP; the assumption is needed because the UDP task clears the `play_query` of
    slots that a TCP sender serves (`session_two_transports`).
  - `UdpOwnership` (`UdpOwnsSlot`), with `OneTransport`, `ClearIsQuick` and no kick:
    what the UDP task is about to clear is over, and a slot being freed cannot be in
    PLAY.
  - `PlayersLimited` (`PlayersBounded`) and `MutexGivenBack` (`MutexComesBack`), with
    no assumption. `PlayInv` counts: every SETUP between its take and its give has taken
    one of the mutexes made, and no mutex is taken by two (`HolderHolds`), so that
    players and sessions that have been counted in together stay within the bound
    (`PlacesKept`); the mutex of now is taken only by such a SETUP (`MutexHeld`), since
    a task that gives it without having taken it either finds it free or halts; and a
    task never blocks on a mutex that has not been made (`WaitsForMade`).
    `OneMutexLimitsPlayers` is the corollary: with
    one mutex, `PlayersWithinMax`.
  - `SessionOutlivesUsers` (`RtpSessionLives` and `NobodyHangs`), for clients that never
    send TEARDOWN (`NoTeardownRequest`): a session that has a sender has its RTP
    session, and is not being freed; with `TcpInv` and `UdpInv` this covers all who use
    one. The assumption is needed (`session_teardown_hang`). `TcpSessionOutlivesUsers`
    is the same where all clients ask for TCP (`NoUdpClients`): then the UDP task has
    nothing to clear, and neither kicks nor `ClearIsQuick` matter.
  - `SenderBehindQuery` (`QueryHasSender`), for clients that never go back to OPTIONS or
    DESCRIBE (`NoReturn`), which TEARDOWN does not disturb: a TCP sender task does not
    leave the top of its loop while the state is SETUP (`WorkerWaits`), so it is still
    there when SETUP sets `play_query`.
  - `WaitIsHeard` (`WaiterIsHeard`) joins these: under the assumptions of both and
    without the 30 failed sends (`session_udp_error`) nobody writes over the TEARDOWN of
    a waiting client. What is left to say for `ClosingFreesSlot` is fairness.
- `RecordBufferProofs`: `LossesEndAtKeys`. When the ring has just given up frames
  the head is a key frame, because a key frame comes round before the ring does
  (`GroupFits`). The invariant, `KeyIsBehind`, says where the last key frame is:
  `since + 1` entries before the tail, as long as that is in the ring.
  `BufferImplementsGroups` (`GroupFifoSpec`), for every ring and every distance of key
  frames, also those that are longer than the ring: a put into a ring with room
  appends to `Pending`, a put into a full one drops a prefix of it, a take its first
  frame.
- `RecorderProofs`: `TypeCorrect`; `ReaderSafe` (`ReaderHasFrame`);
  `RecorderUsesBuffer`, every step of the recorder is a step of `BufferSpec` or
  leaves the ring alone, which needs `ReaderHasFrame` and hands over what is
  proved of the ring (`RecorderLossesEnd`, `RecorderKeepsGroups`); `FilesAttended`, `RecorderRests` and,
  with `GroupFits`, `FilesHaveNoGap` (`NoGapInFile`). Their invariant `FileInv` says in which states
  the recorder can be at each place in spite of the SD card task
  (`StateFitsPlace`), that recording is on when a file is being opened
  (`OpensWhenOn`), that a file which will take more frames is whole or spoilt
  (`ChainHolds`), so that only a loss in the ring can separate two frames of a file,
  and that such a file has the rate its tables were begun with (`TablesHold`), so that
  `muxer_videnc_init` does not empty them under it.
  `FullFilesEnd` (`FullFileTakesNoKey`): after a peek the frame seen is still the next
  one, or frames were lost (`PeekedIsNext`). `FilesFullAtOneRate` (`FilesRunFullTime`),
  for a camera that runs at the 30 fps with which every file begins (`DefaultFrames =
  UserFrames`): the limit is known before the recorder leaves its wait for the first
  time and does not change after that (`LimitKnown`), although the SD card task sets
  it anew in the middle of a file. `recorder_rate` is what happens at other rates.

The proofs use the assumptions on the constants that the modules state, and no
other than those named above. Every invariant and action property that a passing run
checks is stated by a theorem. Only model-checked: `FrameFinished`, `ClosingFreesSlot`,
`StopEndsFile` and `RestartOpensFile`, which are liveness under fairness and out of the
prover's reach; of the first two `FrameMovesOn` and `WaiterIsHeard` are the part that
is proved. For the last two the fairness of the SD card task and of the failing copy is
strong, and what each waits for may go away and come again, so that no such part
stands alone.

## Plan

Done: the RTP queue, the packetizers of H.264 and H.265 and the sender that joins
them, the session, the recorder with its ring and the SD card, with safety and
liveness. In this order:

1. `RtspSlots`: accept, refusal, `client_count` and the window between its
   decrement and the freeing of the slot.
2. `RecordFiles`: the tables of a file and their limits, the heap of file names
   and the deletion of the oldest.
3. The still picture of `isp_jpeg.c` and its readers, in a build with JPEG.

## Not modelled

- RTCP: receiver reports only refresh a timeout, sender reports are switched off.
- `rtp_jpeg.c`: its headers are data; its cutting is a simpler case of H.264's.
- The message rings `enx_stream.c` and `enx_record.c`: in the checked-in build each
  message is put and drained in one interrupt of core 0, so nothing interleaves;
  their other producers are in library code or not compiled.
- HTTP, CGI, configuration changes, shell and small tasks: little shared state; the one
  CGI action on a modelled component, the kick, is in `RtspSession`.
- Audio, Wi-Fi, authorization, the software JPEG encoder: not compiled.
- Drivers, start-up, and everything under `lib/`: the hardware's and third parties'
  behaviour. FreeRTOS is modelled by what its users rely on.
