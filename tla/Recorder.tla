------------------------------- MODULE Recorder -------------------------------
(***************************************************************************)
(* muxer_videnc.c and sdcard.c: the task that writes the frames of sbuf to *)
(* files, and the task that follows the SD card, the user's switch and the *)
(* request to format.  They share gVidenc (state, recording), the switch   *)
(* and the tables of the file, without a lock.                             *)
(*                                                                         *)
(* The SD card task has a lower priority than the recorder (LV3 and LV5 on *)
(* one core): it runs only while the recorder waits, for the semaphore,    *)
(* for the card (FatFs) or for a DMA copy.  An action of the recorder is   *)
(* what it does from one such place to the next; the ring is besides read  *)
(* in the steps between which the stream interrupt can come in.            *)
(*                                                                         *)
(* The build modelled writes MP4, only video, and has no event recording.  *)
(***************************************************************************)
EXTENDS RecordBuffer

CONSTANTS
  DefaultFrames,  \* frames of SAVE_NOR_TIME_MAX seconds at the 30 fps of the code
  UserFrames,     \* the same at the frame rate that is configured
  MaxWakes,       \* where bufSem stops counting: NUM_STREAM_TOTAL
  MaxFrames,      \* where the count of a file's frames stops: no limit is higher
  Commands,       \* what users may ask for: subset of {"on", "off", "format"}
  Faults          \* subset of {"full", "open", "write", "mount", "out"}

ASSUME MaxWakesAssumption == MaxWakes \in Nat \ {0}
ASSUME FramesAssumption ==
  /\ DefaultFrames \in Nat \ {0} /\ UserFrames \in Nat \ {0}
  /\ MaxFrames \in Nat /\ MaxFrames >= DefaultFrames /\ MaxFrames >= UserFrames

VARIABLES
  pc,          \* where the recorder's task is
  caller,      \* what continues after a copy or a close
  sem,         \* bufSem, a counting semaphore
  state,       \* gVidenc[eRecNormal].state
  recording,   \* gVidenc[eRecNormal].recording
  mounted,     \* bSD_FAT_mounted
  file,        \* fpvid is open
  block,       \* datablock: the flag of its frame, and if it goes on where the
               \* file ended
  chain,       \* history: "whole": the file, with its buffer and its tables, has all the
               \* frames taken for it, and the last of them is the last one taken from the
               \* ring; "spoilt": the SD card task came into the beginning of the file
  count,       \* un32vidscount: frames of the file
  rate,        \* nVidenc_Fps_old, as the frames of a file at that rate
  max,         \* un32vidsmax: frames after which a file is full
  spc,         \* where the SD card task is
  sdState,     \* bSDState
  card,        \* a card is inserted
  save,        \* gtUser.bSdVidSave, the user's switch
  oldSave,     \* oldSdSviSave
  format       \* bSD_Format: a request to format

fileVars == <<file, chain, count>>
limits == <<rate, max>>
sdVars == <<spc, sdState, card, mounted, oldSave, format>>
vars == <<buffer, pc, caller, sem, state, recording, block, fileVars, limits, save,
          sdVars>>

States == {"IDLE", "OPEN", "FIRST", "FIRST_NEXT", "WRITE", "CLOSE", "EXIT"}
SdStates == {"OFF", "INIT", "READY", "IDLE", "SAVE", "ERR", "ERR_IDLE"}
Finished == {"IDLE", "CLOSE", "EXIT"}

\* datablock with no frame in it.
NoFrame == [key |-> FALSE, linked |-> FALSE]

Init ==
  /\ BufferInit
  /\ pc = "take" /\ caller = "none"
  /\ sem = 0
  /\ state = "IDLE" /\ recording = FALSE
  /\ file = FALSE /\ chain = "none" /\ count = 0
  /\ block = NoFrame
  /\ rate = 0 /\ max = 0
  /\ spc = "poll" /\ sdState = "OFF" /\ mounted = FALSE
  /\ card = TRUE
  /\ save \in BOOLEAN
  /\ oldSave = save
  /\ format = FALSE

\* One frame more.
More(n) == IF n < MaxFrames THEN n + 1 ELSE n

\* muxer_videnc_change_savetime with no file to ask: 30 fps.
DefaultRate ==
  /\ rate' = DefaultFrames
  /\ max' = IF rate # DefaultFrames THEN DefaultFrames ELSE max

\* The history of a file that takes one frame more.
Longer(history) == IF history = "spoilt" THEN "spoilt" ELSE "whole"

\* The interrupt: a frame comes in, and the recorder is woken.
Frame ==
  /\ \E key \in BOOLEAN : Put(key)
  /\ sem' = IF sem < MaxWakes THEN sem + 1 ELSE sem
  /\ UNCHANGED <<pc, caller, state, recording, block, fileVars, limits, save, sdVars>>

------------------------------------------------------------------------------
\* Where muxer_videnc_process goes from a state.  The other states do not last
\* until the next frame.
Entry == [s \in States |->
            CASE s = "IDLE" -> "open"
              [] s = "FIRST" -> "first"
              [] s = "WRITE" -> "write"
              [] s = "EXIT" -> "close"
              [] OTHER -> "take"]

\* muxer_videnc_task, muxer_videnc: one frame's worth of waiting is over.
Wake ==
  /\ pc = "take"
  /\ sem > 0
  /\ sem' = sem - 1
  /\ IF ~IsEmpty /\ mounted /\ recording
     THEN /\ pc' = Entry[state]
          /\ state' = IF state = "IDLE" THEN "OPEN" ELSE state
          /\ caller' = IF state = "EXIT" THEN "exit" ELSE caller
     ELSE UNCHANGED <<pc, state, caller>>
  /\ UNCHANGED <<buffer, recording, block, fileVars, limits, save, sdVars>>

\* muxer_videnc_error without its f_close.
AbortKeepsFile ==
  /\ recording' = FALSE
  /\ save' = FALSE
  /\ UNCHANGED file

\* muxer_videnc_error: the file is closed and recording is over.
Abort ==
  /\ file' = FALSE
  /\ recording' = FALSE
  /\ save' = FALSE

\* No file is being written any more.
FileEnds ==
  /\ file' = FALSE
  /\ chain' = "none"

\* muxer_videnc_open: no space left, however many files go.
OpenFindsFull ==
  /\ pc = "open"
  /\ "full" \in Faults
  /\ FileEnds
  /\ state' = "IDLE"
  /\ pc' = "take"
  /\ UNCHANGED <<buffer, caller, sem, recording, block, count, limits, save, sdVars>>

\* muxer_videnc_open: f_open or f_expand fails, or the heap of the file names says
\* that the new file is the oldest one.
OpenFails ==
  /\ pc = "open"
  /\ "open" \in Faults
  /\ Abort
  /\ chain' = "none"
  /\ state' = "EXIT"
  /\ pc' = "take"
  /\ UNCHANGED <<buffer, caller, sem, block, count, limits, sdVars>>

\* muxer_videnc_open: there is a file.  muxer_videnc_makevidheader begins its tables and
\* counts anew and makes its header, unless the SD card task has changed the state
\* meanwhile: then there is no header (IDLE), or the last file's (EXIT).
OpenSucceeds ==
  /\ pc = "open"
  /\ file' = TRUE
  /\ IF state = "OPEN"
     THEN DefaultRate /\ count' = 0 /\ chain' = "none"
     ELSE UNCHANGED <<limits, count>> /\ chain' = "spoilt"
  /\ pc' = "header"
  /\ UNCHANGED <<buffer, caller, sem, state, recording, block, save, sdVars>>

\* muxer_videnc_open: if the state is IDLE again there is no header, the buffer is
\* written instead, and that fails.
OpenHasNoHeader ==
  /\ pc = "open"
  /\ state = "IDLE"
  /\ "write" \in Faults
  /\ Abort
  /\ chain' = "spoilt"
  /\ state' = "FIRST"
  /\ pc' = "first"
  /\ UNCHANGED <<buffer, caller, sem, block, count, limits, sdVars>>

\* muxer_videnc_open: the header is copied to the base of the buffer, also when the SD
\* card task has set the buffer back to it meanwhile.
HeaderCopied ==
  /\ pc = "header"
  /\ state' = "FIRST"
  /\ pc' = "first"
  /\ UNCHANGED <<buffer, caller, sem, recording, block, fileVars, limits, save, sdVars>>

------------------------------------------------------------------------------
\* sbuf_get of muxer_videnc_frist_video: is there a frame?
FirstLooks ==
  /\ pc = "first"
  /\ pc' = IF IsEmpty THEN "take" ELSE "firstget"
  /\ UNCHANGED <<buffer, caller, sem, state, recording, block, fileVars, limits, save, sdVars>>

\* muxer_videnc_frist_video beginning a file with any frame.
FirstTakesAny ==
  /\ pc = "firstget"
  /\ Take
  /\ block' = [key |-> data[head], linked |-> FALSE]
  /\ state' = "FIRST_NEXT"
  /\ pc' = "copy" /\ caller' = "first"
  /\ chain' = Longer(chain)
  /\ count' = More(count)
  /\ UNCHANGED <<sem, recording, file, limits, save, sdVars>>

\* muxer_videnc_frist_video: only a key frame begins a file.  Then
\* muxer_videnc_write of VIDENC_FIRST_NEXT.
FirstTakes ==
  /\ pc = "firstget"
  /\ Take
  /\ block' = [key |-> data[head], linked |-> FALSE]
  /\ IF data[head]
     THEN /\ state' = "FIRST_NEXT"
          /\ pc' = "copy" /\ caller' = "first"
          /\ chain' = Longer(chain)
          /\ count' = More(count)
     ELSE /\ pc' = "take"
          /\ UNCHANGED <<state, caller, chain, count>>
  /\ UNCHANGED <<sem, recording, file, limits, save, sdVars>>

\* muxer_videnc_process, VIDENC_WRITE, up to the frames; with
\* muxer_videnc_change_savetime, which begins another file when the frame rate is
\* not the one of the tables.
Write ==
  /\ pc = "write"
  /\ rate' = IF save THEN UserFrames ELSE rate
  /\ IF ~save
     THEN state' = "EXIT" /\ pc' = "take" /\ UNCHANGED caller
     ELSE IF rate # UserFrames
          THEN state' = "CLOSE" /\ pc' = "close" /\ caller' = "rate"
          ELSE pc' = "look" /\ UNCHANGED <<state, caller>>
  /\ UNCHANGED <<buffer, sem, recording, block, fileVars, max, save, sdVars>>

\* sbuf_peek: is there a frame?
Look ==
  /\ pc = "look"
  /\ pc' = IF IsEmpty THEN "take" ELSE "peek"
  /\ UNCHANGED <<buffer, caller, sem, state, recording, block, fileVars, limits, save, sdVars>>

\* sbuf_peek: its critical section.
Peek ==
  /\ pc = "peek"
  /\ block' = [key |-> data[head], linked |-> FALSE]
  /\ pc' = "peeked"
  /\ UNCHANGED <<buffer, caller, sem, state, recording, fileVars, limits, save, sdVars>>

\* Mutant: a file takes one frame more.
FileIsOverfull == block.key /\ count > max

\* A full file ends before the next key frame.
FileIsFull == block.key /\ count >= max

\* The frame seen ends the file, or sbuf_get looks again if there is a frame.  What
\* sbuf_peek left in datablock is not used again.
Decide ==
  /\ pc = "peeked"
  /\ block' = NoFrame
  /\ IF FileIsFull
     THEN state' = "CLOSE" /\ pc' = "close" /\ caller' = "loop"
     ELSE /\ pc' = IF IsEmpty THEN "take" ELSE "get"
          /\ UNCHANGED <<state, caller>>
  /\ UNCHANGED <<buffer, sem, recording, fileVars, limits, save, sdVars>>

\* sbuf_get: its critical section; then muxer_videnc_write.
Get ==
  /\ pc = "get"
  /\ Take
  /\ block' = [key |-> data[head], linked |-> chain = "whole" /\ ~broken]
  /\ chain' = Longer(chain)
  /\ count' = More(count)
  /\ pc' = "copy" /\ caller' = "loop"
  /\ UNCHANGED <<sem, state, recording, file, limits, save, sdVars>>

\* Where a copy returns to, in a given state of the recorder: VIDENC_FIRST_NEXT goes
\* on to VIDENC_WRITE whatever the state is, the loop looks at it.
Return(s, on) ==
  /\ block' = NoFrame
  /\ caller' = "none"
  /\ IF caller = "first"
     THEN state' = "WRITE" /\ pc' = "write"
     ELSE IF s \in Finished
          THEN state' = s /\ pc' = "take"
          ELSE IF ~on
               THEN state' = "EXIT" /\ pc' = "take"
               ELSE state' = s /\ pc' = "look"

\* muxer_videnc_write_process: the frame is in the buffer or the file, and in the tables.
CopySucceeds ==
  /\ pc = "copy"
  /\ Return(state, save)
  /\ UNCHANGED <<buffer, sem, recording, fileVars, limits, save, sdVars>>

\* muxer_videnc_write_process: the buffer had to be written, and f_write failed.
CopyFails ==
  /\ pc = "copy"
  /\ "write" \in Faults \/ ~file
  /\ Abort
  /\ Return("EXIT", FALSE)
  /\ UNCHANGED <<buffer, sem, chain, count, limits, sdVars>>

\* muxer_videnc_close leaving the state as it is.
AfterCloseKeepsState(on) ==
  /\ pc' = "take" /\ caller' = "none"
  /\ recording' = (on /\ caller # "exit")
  /\ max' = IF caller = "rate" THEN UserFrames ELSE max
  /\ UNCHANGED <<state, rate>>

\* What follows a muxer_videnc_close: the limit for the new frame rate, the stop
\* of muxer_videnc_all_stop, or the end of the loop.
AfterClose(on) ==
  /\ state' = "IDLE"
  /\ pc' = "take" /\ caller' = "none"
  /\ recording' = (on /\ caller # "exit")
  /\ max' = IF caller = "rate" THEN UserFrames ELSE max
  /\ UNCHANGED rate

\* muxer_videnc_close: the header and the tables are written, the file is closed.
CloseSucceeds ==
  /\ pc = "close"
  /\ file
  /\ FileEnds
  /\ AfterClose(recording)
  /\ UNCHANGED <<buffer, sem, block, count, save, sdVars>>

\* muxer_videnc_close: f_write fails; the rest is done all the same.
CloseFails ==
  /\ pc = "close"
  /\ "write" \in Faults \/ ~file
  /\ FileEnds
  /\ save' = FALSE
  /\ AfterClose(FALSE)
  /\ UNCHANGED <<buffer, sem, block, count, sdVars>>

------------------------------------------------------------------------------
\* The recorder waits, so that the SD card task runs.
RecorderWaits == pc \in {"take", "open", "header", "copy", "close"}

\* What the SD card task leaves alone; and what it leaves alone but in
\* muxer_videnc_init.
taskVars == <<buffer, pc, caller, sem, block, count>>
recorderVars == <<taskVars, chain>>

\* SdcardTask after its delay, with a card in the given state.
Polls(s) == RecorderWaits /\ spc = "poll" /\ card /\ sdState = s

\* SdcardInit: the card is mounted, or an error, or it could not be prepared.  The
\* mount makes the files open on the volume invalid; an error may come before.
SdFindsCard ==
  /\ Polls("OFF")
  /\ sdState' \in IF "mount" \in Faults THEN {"READY", "ERR", "INIT"} ELSE {"READY"}
  /\ \/ file' = FALSE
     \/ sdState' = "ERR" /\ UNCHANGED file
  /\ UNCHANGED <<recorderVars, state, recording, limits, save, spc, card, mounted,
                 oldSave, format>>

\* The card could not be mounted.
SdGivesUp ==
  /\ Polls("ERR")
  /\ sdState' = "ERR_IDLE"
  /\ UNCHANGED <<recorderVars, state, recording, file, limits, save, spc, card, mounted,
                 oldSave, format>>

\* The card is gone.  The recorder will learn it from FatFs.
SdLosesCard ==
  /\ RecorderWaits
  /\ spc = "poll"
  /\ ~card
  /\ sdState # "OFF"
  /\ sdState' = "OFF"
  /\ UNCHANGED <<recorderVars, state, recording, file, limits, save, spc, card, mounted,
                 oldSave, format>>

\* videnc_info_default: buffer->buf = buffer->base and buffer->length = 0.  What the file
\* still had in the buffer is lost, but for a header that is being copied to the base.
\* The state IDLE ends the file, unless its first frame is being copied: then the
\* recorder writes the state VIDENC_WRITE after that, and the file goes on.
ResetsBuffer ==
  chain' = IF ~card \/ pc = "header" \/ (pc = "copy" /\ chain = "spoilt") THEN chain
           ELSE IF pc = "copy" /\ caller = "first" THEN "spoilt" ELSE "none"

\* muxer_videnc_init meaning to open a file at once.
ResetsToOpen(next, skipped) ==
  /\ state' = IF card THEN "OPEN" ELSE state
  /\ ResetsBuffer
  /\ spc' = IF card THEN next ELSE skipped

\* muxer_videnc_init, up to the reading of the directory: the recorder is idle and the
\* buffer empty, if there is a card.
ResetsState(next, skipped) ==
  /\ state' = IF card THEN "IDLE" ELSE state
  /\ ResetsBuffer
  /\ spc' = IF card THEN next ELSE skipped

\* The end of muxer_videnc_init: when the rate was another one, videnc_info_init_savetime
\* empties the tables, whatever file they belong to.
ResetsLimits ==
  /\ DefaultRate
  /\ chain' = IF chain = "whole" /\ rate # DefaultFrames THEN "none" ELSE chain
  /\ mounted' = TRUE

\* The state sd_READY: drive_init.
SdDrives ==
  /\ Polls("READY")
  /\ spc' = "ready"
  /\ UNCHANGED <<recorderVars, state, recording, file, limits, save, sdState, card,
                 mounted, oldSave, format>>

\* The card was there when the task looked; it may not be after drive_init.
SdMounts ==
  /\ RecorderWaits
  /\ spc = "ready"
  /\ ResetsState("mount", "idle")
  /\ sdState' = IF card THEN sdState ELSE "IDLE"
  /\ UNCHANGED <<taskVars, recording, file, limits, save, card, mounted, oldSave, format>>

\* The end of muxer_videnc_init, and on to sd_IDLE.
SdMounted ==
  /\ RecorderWaits
  /\ spc = "mount"
  /\ ResetsLimits
  /\ sdState' = "IDLE"
  /\ spc' = "idle"
  /\ UNCHANGED <<taskVars, state, recording, file, save, card, oldSave, format>>

\* The state sd_IDLE.
AtIdle == RecorderWaits /\ (spc = "idle" \/ Polls("IDLE"))

\* sd_IDLE: f_mkfs, which first of all makes open files invalid.
SdFormats ==
  /\ AtIdle
  /\ format
  /\ file' = FALSE
  /\ spc' = "format"
  /\ UNCHANGED <<recorderVars, state, recording, limits, save, sdState, card, mounted,
                 oldSave, format>>

\* sd_IDLE, the switch: on to sd_SAVE, or wait.
LookAtSwitch(on) ==
  IF on
  THEN sdState' = "SAVE" /\ spc' = "start"
  ELSE spc' = "poll" /\ UNCHANGED sdState

\* The card is formatted, and the switch is what it was before; or it is not.
SdFormatted ==
  /\ RecorderWaits
  /\ spc = "format"
  /\ \/ save' = oldSave
     \/ "mount" \in Faults /\ UNCHANGED save
  /\ format' = FALSE
  /\ LookAtSwitch(save')
  /\ UNCHANGED <<recorderVars, state, recording, file, limits, card, mounted, oldSave>>

\* sd_IDLE with nothing to format.
SdIdles ==
  /\ AtIdle
  /\ ~format
  /\ LookAtSwitch(save)
  /\ UNCHANGED <<recorderVars, state, recording, file, limits, save, card, mounted,
                 oldSave, format>>

\* sd_IDLE with the switch on: muxer_videnc_init again; without a card it does nothing
\* and muxer_videnc_go follows.
SdStarts ==
  /\ RecorderWaits
  /\ spc = "start"
  /\ ResetsState("go", "poll")
  /\ recording' = (recording \/ ~card)
  /\ UNCHANGED <<taskVars, file, limits, save, sdState, card, mounted, oldSave, format>>

\* The end of muxer_videnc_init, and muxer_videnc_go.
SdGoes ==
  /\ RecorderWaits
  /\ spc = "go"
  /\ ResetsLimits
  /\ recording' = TRUE
  /\ spc' = "poll"
  /\ UNCHANGED <<taskVars, state, file, save, sdState, card, oldSave, format>>

\* The state sd_SAVE telling the recorder to close the file.
SdWatchesCloses ==
  /\ Polls("SAVE")
  /\ format \/ ~save
  /\ oldSave' = IF format THEN save ELSE oldSave
  /\ save' = FALSE
  /\ sdState' = "IDLE"
  /\ state' = "CLOSE"
  /\ UNCHANGED <<recorderVars, recording, file, limits, spc, card, mounted, format>>

\* The state sd_SAVE: a format turns the switch off, and when it is off the recorder
\* is told to finish.
SdWatches ==
  /\ Polls("SAVE")
  /\ format \/ ~save
  /\ oldSave' = IF format THEN save ELSE oldSave
  /\ save' = FALSE
  /\ sdState' = "IDLE"
  /\ state' = "EXIT"
  /\ UNCHANGED <<recorderVars, recording, file, limits, spc, card, mounted, format>>

\* The shell and the web pages.
User ==
  /\ \/ "on" \in Commands /\ save' = TRUE /\ UNCHANGED format
     \/ "off" \in Commands /\ save' = FALSE /\ UNCHANGED format
     \/ "format" \in Commands /\ sdState # "OFF" /\ format' = TRUE /\ UNCHANGED save
  /\ UNCHANGED <<recorderVars, state, recording, file, limits, spc, sdState, card,
                 mounted, oldSave>>

\* Somebody takes the card out, or puts it in.
MoveCard ==
  /\ "out" \in Faults
  /\ card' = ~card
  /\ UNCHANGED <<recorderVars, state, recording, file, limits, save, spc, sdState,
                 mounted, oldSave, format>>

RecorderTask ==
  \/ Wake
  \/ OpenFindsFull \/ OpenFails \/ OpenSucceeds \/ OpenHasNoHeader
  \/ HeaderCopied
  \/ FirstLooks \/ FirstTakes
  \/ Write \/ Look \/ Peek \/ Decide \/ Get
  \/ CopySucceeds \/ CopyFails
  \/ CloseSucceeds \/ CloseFails

SdTask ==
  \/ SdFindsCard \/ SdGivesUp \/ SdLosesCard
  \/ SdDrives \/ SdMounts \/ SdMounted
  \/ SdFormats \/ SdFormatted \/ SdIdles
  \/ SdStarts \/ SdGoes
  \/ SdWatches

Next == Frame \/ RecorderTask \/ SdTask \/ User \/ MoveCard

Spec == Init /\ [][Next]_vars

\* Frames keep coming, and no task stands still while it can go on.  The SD card task
\* runs only while the recorder waits, which it does again and again; and the buffer
\* of a file that is not open has to be written some time, which fails.
FairSpec ==
  /\ Spec
  /\ WF_vars(Frame) /\ WF_vars(RecorderTask) /\ SF_vars(SdTask)
  /\ SF_vars(~file /\ CopyFails)

------------------------------------------------------------------------------
ControlTypeOK ==
  /\ pc \in {"take", "open", "header", "first", "firstget", "write", "look", "peek",
             "peeked", "get", "copy", "close"}
  /\ caller \in {"none", "first", "loop", "rate", "exit"}
  /\ sem \in 0 .. MaxWakes
  /\ state \in States
  /\ count \in 0 .. MaxFrames
  /\ rate \in {0, DefaultFrames, UserFrames} /\ max \in {0, DefaultFrames, UserFrames}
  /\ spc \in {"poll", "ready", "mount", "idle", "format", "start", "go"}
  /\ sdState \in SdStates

FlagTypeOK ==
  /\ block \in [key : BOOLEAN, linked : BOOLEAN]
  /\ recording \in BOOLEAN /\ mounted \in BOOLEAN
  /\ file \in BOOLEAN /\ chain \in {"none", "whole", "spoilt"}
  /\ card \in BOOLEAN
  /\ save \in BOOLEAN /\ oldSave \in BOOLEAN /\ format \in BOOLEAN

\* Every variable has its type; the indices of the ring stay in it.
TypeOK == BufferTypeOK /\ ControlTypeOK /\ FlagTypeOK

\* sbuf_peek and sbuf_get look for a frame outside of their critical section: when they
\* are inside, there still is one, whatever sbuf_put did to the ring in between.
ReaderHasFrame == pc \in {"peek", "firstget", "get"} => ~IsEmpty

\* A file takes a frame only as long as it, its buffer and its tables have lost nothing of
\* the frames taken before; and the frame is a key frame or the successor of the last one.
\* So no file goes on over a gap, however frames are lost and wherever the SD card task
\* resets the state, the buffer and the tables.  Excepted are the files into whose
\* beginning that task came (spoilt): they do go on, without a header or without part of
\* their first frame.  Nothing is said of the header written when the file is closed.
NoGapInFile ==
  /\ pc = "get" => chain # "none"
  /\ pc = "copy" /\ chain # "spoilt" => block.key \/ block.linked

\* Frames are taken into a full file only until the next key frame, which sbuf_peek has
\* looked for: it is taken all the same only when frames were lost, at a full ring, after
\* that look.
FullFileTakesNoKey == pc = "get" /\ count >= max /\ data[head] => broken

\* A file is open only while recording is on: only then does the recorder's task run
\* its state machine, which is what closes it.
FileIsAttended == file => recording

\* When the recorder's task waits for a frame it is in a state from which
\* muxer_videnc_process goes on, though the SD card task may write the state at any
\* place where the recorder waits: not in OPEN, FIRST_NEXT or CLOSE, with which every
\* later frame would be ignored.
RestsBetweenFrames == pc = "take" => state \in {"IDLE", "FIRST", "WRITE", "EXIT"}

\* While the switch is on, a file is closed only when it has the frames of
\* SAVE_NOR_TIME_MAX seconds.
FilesRunFullTime == pc = "close" /\ save /\ caller # "exit" => count >= max

\* A file that is open when the switch goes off is closed, unless the switch goes on
\* again: no state that the SD card task writes into the recorder's keeps it from the
\* end of the file.
StopEndsFile == file /\ ~save ~> ~file \/ save

\* The switch goes on when the SD card task has seen that it was off and the recorder
\* has stopped: then a file is opened, whatever was going on before.
RestartOpensFile ==
  save /\ card /\ sdState = "IDLE" /\ ~recording ~> file \/ ~save \/ ~card

\* The same whenever the switch is on: "on" starts recording on the SD card.
SwitchOnRecords == save /\ card ~> file \/ ~save \/ ~card
===============================================================================
