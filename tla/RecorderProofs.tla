---------------------------- MODULE RecorderProofs ----------------------------
(***************************************************************************)
(* Proofs about Recorder: for every size of the ring, every length of      *)
(* files, all commands and all faults.                                     *)
(***************************************************************************)
EXTENDS Recorder, RecordBufferProofs

\* Where muxer_videnc_process goes from each state.
LEMMA EntryPlaces ==
  /\ \A s \in States : Entry[s] \in {"open", "first", "write", "close", "take"}
  /\ Entry["IDLE"] = "open" /\ Entry["FIRST"] = "first"
  /\ Entry["WRITE"] = "write" /\ Entry["EXIT"] = "close"
  BY DEF Entry, States

\* The recorder leaves the ring alone, but for its two places to take a frame.
LEMMA OnlyTakes ==
  ASSUME RecorderTask \/ SdTask \/ User \/ MoveCard
  PROVE  UNCHANGED buffer \/ (pc \in {"firstget", "get"} /\ Take)
<1> USE DEF buffer, taskVars, recorderVars
<1>1. CASE RecorderTask
  BY <1>1, Zenon DEF RecorderTask, Wake, OpenFindsFull, OpenFails, OpenSucceeds, OpenHasNoHeader,
     HeaderCopied, FirstLooks, FirstTakes, Write, Look, Peek, Decide, Get, CopySucceeds,
     CopyFails, CloseSucceeds, CloseFails
<1>2. CASE SdTask
  BY <1>2, Zenon DEF SdTask, SdFindsCard, SdGivesUp, SdLosesCard, SdDrives, SdMounts, SdMounted,
     SdFormats, SdFormatted, SdIdles, SdStarts, SdGoes, SdWatches
<1>3. CASE User \/ MoveCard
  BY <1>3, Zenon DEF User, MoveCard
<1> QED
  BY <1>1, <1>2, <1>3

\* What a frame leaves alone.
LEMMA FrameSteps ==
  ASSUME TypeOK, Frame
  PROVE  TypeOK' /\ ~IsEmpty'
<1>1. PICK key \in BOOLEAN : Put(key)
  BY DEF Frame
<1>2. BufferTypeOK' /\ ~IsEmpty'
  BY <1>1, PutTypes, PutLeavesFrame DEF TypeOK
<1>3. ControlTypeOK'
  BY MaxWakesAssumption DEF Frame, TypeOK, ControlTypeOK, fileVars, limits, sdVars
<1>4. FlagTypeOK'
  BY Zenon DEF Frame, TypeOK, FlagTypeOK, fileVars, limits, sdVars
<1> QED
  BY <1>2, <1>3, <1>4 DEF TypeOK

\* The steps of the recorder's task keep the types.
LEMMA RecorderTypes ==
  ASSUME TypeOK, RecorderTask
  PROVE  ControlTypeOK' /\ FlagTypeOK'
<1>1. ControlTypeOK'
  <2> USE MaxWakesAssumption, FramesAssumption
      DEF TypeOK, ControlTypeOK, fileVars, limits, sdVars, States
  <2>1. CASE Wake
    BY <2>1, EntryPlaces DEF Wake
  <2>2. CASE OpenFindsFull \/ OpenFails \/ OpenHasNoHeader
    BY <2>2 DEF OpenFindsFull, OpenFails, OpenHasNoHeader
  <2>3. CASE OpenSucceeds \/ HeaderCopied
    BY <2>3 DEF OpenSucceeds, HeaderCopied, DefaultRate
  <2>4. CASE FirstLooks \/ Look \/ Write
    BY <2>4 DEF FirstLooks, Look, Write
  <2>5. CASE FirstTakes
    BY <2>5 DEF FirstTakes, More
  <2>6. CASE Peek \/ Decide
    BY <2>6 DEF Peek, Decide
  <2>7. CASE Get
    BY <2>7 DEF Get, More
  <2>8. CASE CopySucceeds \/ CopyFails
    BY <2>8 DEF CopySucceeds, CopyFails, Return
  <2>9. CASE CloseSucceeds \/ CloseFails
    BY <2>9 DEF CloseSucceeds, CloseFails, AfterClose
  <2> QED
    BY <2>1, <2>2, <2>3, <2>4, <2>5, <2>6, <2>7, <2>8, <2>9 DEF RecorderTask
<1>2. FlagTypeOK'
  <2> USE DEF TypeOK, FlagTypeOK, fileVars, limits, sdVars
  <2>1. CASE Wake
    BY <2>1, Zenon DEF Wake
  <2>2. CASE OpenFindsFull \/ OpenFails \/ OpenHasNoHeader
    BY <2>2, Zenon DEF OpenFindsFull, OpenFails, OpenHasNoHeader, Abort, FileEnds
  <2>3. CASE OpenSucceeds \/ HeaderCopied
    BY <2>3, Zenon DEF OpenSucceeds, HeaderCopied
  <2>4. CASE FirstLooks \/ Look \/ Write
    BY <2>4, Zenon DEF FirstLooks, Look, Write
  <2>5. CASE FirstTakes \/ Peek \/ Decide \/ Get
    <3>1. block' \in [key : BOOLEAN, linked : BOOLEAN]
      <4>1. data[head] \in BOOLEAN
        BY DEF BufferTypeOK
      <4>2. \E a, b \in BOOLEAN : block' = [key |-> a, linked |-> b]
        BY <2>5, <4>1, Zenon DEF FirstTakes, Peek, Decide, Get, NoFrame
      <4> QED
        BY <4>2
    <3>2. chain' \in {"none", "whole", "spoilt"}
      BY <2>5, Zenon DEF FirstTakes, Peek, Decide, Get, Longer
    <3>3. UNCHANGED <<recording, mounted, file, card, save, oldSave, format>>
      BY <2>5, Zenon DEF FirstTakes, Peek, Decide, Get
    <3> QED
      BY <3>1, <3>2, <3>3, Zenon
  <2>6. CASE CopySucceeds \/ CopyFails
    <3>1. block' \in [key : BOOLEAN, linked : BOOLEAN]
      <4>1. block' = [key |-> FALSE, linked |-> FALSE]
        BY <2>6, Zenon DEF CopySucceeds, CopyFails, Return, NoFrame
      <4> QED
        BY <4>1
    <3> QED
      BY <2>6, <3>1, Zenon DEF CopySucceeds, CopyFails, Abort
  <2>7. CASE CloseSucceeds \/ CloseFails
    BY <2>7, Zenon DEF CloseSucceeds, CloseFails, AfterClose, FileEnds
  <2> QED
    BY <2>1, <2>2, <2>3, <2>4, <2>5, <2>6, <2>7 DEF RecorderTask
<1> QED
  BY <1>1, <1>2

\* The steps of the SD card task, of users and of the card keep the types.
LEMMA SdTypes ==
  ASSUME TypeOK, SdTask \/ User \/ MoveCard
  PROVE  ControlTypeOK' /\ FlagTypeOK'
<1>1. ControlTypeOK'
  <2> USE DEF TypeOK, ControlTypeOK, taskVars, recorderVars, limits, States, SdStates
  <2>1. CASE SdFindsCard \/ SdGivesUp \/ SdLosesCard \/ SdDrives
    BY <2>1 DEF SdFindsCard, SdGivesUp, SdLosesCard, SdDrives
  <2>2. CASE SdMounts \/ SdMounted
    BY <2>2 DEF SdMounts, SdMounted, ResetsState, ResetsLimits, DefaultRate
  <2>3. CASE SdFormats \/ SdFormatted \/ SdIdles
    BY <2>3 DEF SdFormats, SdFormatted, SdIdles, LookAtSwitch
  <2>4. CASE SdStarts \/ SdGoes \/ SdWatches
    BY <2>4 DEF SdStarts, SdGoes, SdWatches, ResetsState, ResetsLimits, DefaultRate
  <2>5. CASE User \/ MoveCard
    BY <2>5 DEF User, MoveCard
  <2> QED
    BY <2>1, <2>2, <2>3, <2>4, <2>5 DEF SdTask
<1>2. FlagTypeOK'
  <2> USE DEF TypeOK, FlagTypeOK, taskVars, recorderVars, ResetsState, ResetsBuffer,
          ResetsLimits
  <2>1. CASE SdFindsCard \/ SdGivesUp \/ SdLosesCard \/ SdDrives
    BY <2>1, Zenon DEF SdFindsCard, SdGivesUp, SdLosesCard, SdDrives
  <2>2. CASE SdMounts \/ SdMounted
    BY <2>2, Zenon DEF SdMounts, SdMounted
  <2>3. CASE SdFormats \/ SdFormatted \/ SdIdles
    BY <2>3, Zenon DEF SdFormats, SdFormatted, SdIdles
  <2>4. CASE SdStarts \/ SdGoes \/ SdWatches
    BY <2>4, Zenon DEF SdStarts, SdGoes, SdWatches
  <2>5. CASE User \/ MoveCard
    BY <2>5, Zenon DEF User, MoveCard
  <2> QED
    BY <2>1, <2>2, <2>3, <2>4, <2>5 DEF SdTask
<1> QED
  BY <1>1, <1>2

\* Between the test for a frame and the critical section only puts can come.
LEMMA LooksBeforeTakes ==
  ASSUME RecorderTask \/ SdTask \/ User \/ MoveCard, TypeOK, ReaderHasFrame
  PROVE  ReaderHasFrame'
<1>1. SUFFICES ASSUME pc' \in {"peek", "firstget", "get"}
               PROVE  ~IsEmpty /\ UNCHANGED <<head, tail>>
  BY DEF ReaderHasFrame, IsEmpty
<1>2. CASE RecorderTask
  <2>1. CASE FirstLooks
    BY <2>1, <1>1 DEF FirstLooks, buffer
  <2>2. CASE Look
    BY <2>2, <1>1 DEF Look, buffer
  <2>3. CASE Decide
    BY <2>3, <1>1 DEF Decide, buffer
  <2>4. CASE ~(FirstLooks \/ Look \/ Decide)
    <3>1. pc' \notin {"peek", "firstget", "get"}
      BY <1>2, <2>4, EntryPlaces DEF TypeOK, ControlTypeOK, RecorderTask, Wake, OpenFindsFull, OpenFails, OpenSucceeds,
         OpenHasNoHeader, HeaderCopied, FirstTakes, Write, Peek, Get, CopySucceeds, CopyFails,
         Return, CloseSucceeds, CloseFails, AfterClose
    <3> QED
      BY <1>1, <3>1
  <2> QED
    BY <2>1, <2>2, <2>3, <2>4
<1>3. CASE SdTask \/ User \/ MoveCard
  <2>1. UNCHANGED <<pc, head, tail>>
    BY <1>3, Zenon DEF buffer, taskVars, recorderVars, User, MoveCard, SdTask, SdFindsCard, SdGivesUp,
       SdLosesCard, SdDrives, SdMounts, SdMounted, SdFormats, SdFormatted, SdIdles, SdStarts,
       SdGoes, SdWatches
  <2> QED
    BY <1>1, <2>1 DEF ReaderHasFrame
<1> QED
  BY <1>2, <1>3
------------------------------------------------------------------------------
Inv == TypeOK /\ ReaderHasFrame

LEMMA InvStarts == Init => Inv
<1> SUFFICES ASSUME Init
             PROVE  Inv
  OBVIOUS
<1>1. BufferTypeOK
  BY RingStarts DEF Init
<1>2. ControlTypeOK
  BY MaxWakesAssumption, FramesAssumption DEF Init, ControlTypeOK, States, SdStates
<1>3. FlagTypeOK
  <2>1. block \in [key : BOOLEAN, linked : BOOLEAN]
    BY DEF Init, NoFrame
  <2> QED
    BY <2>1, Zenon DEF Init, FlagTypeOK
<1> QED
  BY <1>1, <1>2, <1>3 DEF Inv, TypeOK, ReaderHasFrame, Init

\* Every step keeps Inv, and what it does to the ring is a put, a take from a ring that
\* holds a frame, or nothing.
LEMMA InvStep == Inv /\ [Next]_vars => Inv' /\ [BufferNext]_buffer
<1> SUFFICES ASSUME Inv, [Next]_vars
             PROVE  Inv' /\ [BufferNext]_buffer
  OBVIOUS
<1>1. TypeOK /\ ReaderHasFrame
  BY DEF Inv
<1>2. CASE Frame
  BY <1>1, <1>2, FrameSteps DEF Frame, BufferNext, Inv, ReaderHasFrame
<1>3. CASE RecorderTask \/ SdTask \/ User \/ MoveCard
  <2>1. ReaderHasFrame'
    BY <1>1, <1>3, LooksBeforeTakes
  <2>2. ControlTypeOK' /\ FlagTypeOK'
    BY <1>1, <1>3, RecorderTypes, SdTypes
  <2>3. CASE UNCHANGED buffer
    BY <1>1, <2>1, <2>2, <2>3 DEF buffer, TypeOK, BufferTypeOK, Inv
  <2>4. CASE pc \in {"firstget", "get"} /\ Take
    <3>1. ~IsEmpty
      BY <1>1, <2>4 DEF ReaderHasFrame
    <3>2. BufferTypeOK'
      BY <1>1, <2>4, <3>1, TakeKeeps DEF TypeOK
    <3> QED
      BY <2>1, <2>2, <2>4, <3>1, <3>2 DEF BufferNext, TypeOK, Inv
  <2> QED
    BY <1>3, <2>3, <2>4, OnlyTakes
<1>4. CASE UNCHANGED vars
  BY <1>1, <1>4 DEF vars, buffer, fileVars, limits, sdVars, Inv, TypeOK, BufferTypeOK,
     ControlTypeOK, FlagTypeOK, ReaderHasFrame, IsEmpty
<1> QED
  BY <1>2, <1>3, <1>4 DEF Next

\* Every variable keeps its type; the indices of sbuf stay in it.
THEOREM TypeCorrect == Spec => []TypeOK
<1>1. Inv => TypeOK
  BY DEF Inv
<1> QED
  BY <1>1, InvStarts, InvStep, PTL DEF Spec

\* sbuf_get and sbuf_peek never copy from an empty ring, though they look for a frame
\* outside of their critical section.
THEOREM ReaderSafe == Spec => []ReaderHasFrame
<1>1. Inv => ReaderHasFrame
  BY DEF Inv
<1> QED
  BY <1>1, InvStarts, InvStep, PTL DEF Spec

\* The interrupt and the recorder's task use the ring in the way that BufferSpec says.
THEOREM RecorderUsesBuffer == Spec => BufferSpec
<1>1. Init => BufferInit
  BY DEF Init
<1> QED
  BY <1>1, InvStarts, InvStep, PTL DEF Spec, BufferSpec

\* Between the interrupt and the recorder's task, which looks for a frame outside of the
\* critical section in which it takes it, sbuf is still the queue of GroupFifo.
THEOREM RecorderKeepsGroups == Spec => GroupFifoSpec
  BY RecorderUsesBuffer, BufferImplementsGroups
------------------------------------------------------------------------------
(***************************************************************************)
(* The files.  At each place of the recorder's task only some states are   *)
(* possible, although the SD card task may write IDLE or EXIT wherever the *)
(* recorder waits.  While a file is written it is whole, or the SD card    *)
(* task came into its beginning; and it has the rate with which the tables *)
(* were begun, so that muxer_videnc_init leaves them as they are.          *)
(***************************************************************************)
StateFitsPlace ==
  /\ pc = "take" => state \in {"IDLE", "FIRST", "WRITE", "EXIT"}
  /\ pc \in {"open", "header"} => state \in {"OPEN", "IDLE", "EXIT"}
  /\ pc \in {"first", "firstget"} => state = "FIRST"
  /\ pc \in {"write", "look", "peek", "peeked", "get"} => state = "WRITE"
  /\ pc = "copy" => state \in {"FIRST_NEXT", "WRITE", "IDLE", "EXIT"}
  /\ pc = "copy" /\ caller # "first" => state # "FIRST_NEXT"
  /\ pc = "close" => state \in {"CLOSE", "IDLE", "EXIT"}

\* A file has been opened and has no frame yet.
Begun == pc \in {"header", "first", "firstget"} \/ (pc = "take" /\ state = "FIRST")

\* A file has frames and will take more of them.
Written ==
  \/ pc \in {"write", "look", "peek", "peeked", "get"}
  \/ pc = "take" /\ state = "WRITE"
  \/ pc = "copy" /\ (caller = "first" \/ state \notin Finished)

ChainHolds == Written => chain \in {"whole", "spoilt"}

TablesHold == (Begun \/ Written) /\ chain # "spoilt" => rate = DefaultFrames

OpensWhenOn == pc = "open" => recording

FileInv == StateFitsPlace /\ FileIsAttended /\ OpensWhenOn /\ ChainHolds /\ TablesHold

LEMMA FileInvStarts == Init => FileInv
  BY DEF Init, FileInv, StateFitsPlace, FileIsAttended, OpensWhenOn, ChainHolds, TablesHold,
     Begun, Written

\* The steps of the recorder's task.
LEMMA RecorderKeepsFile ==
  ASSUME TypeOK, FileInv, RecorderTask
  PROVE  FileInv'
<1> USE DEF FileInv, fileVars, sdVars, FileEnds
<1>1. StateFitsPlace'
  <2> USE DEF StateFitsPlace
  <2>1. CASE Wake
    BY <2>1, EntryPlaces DEF Wake
  <2>2. CASE OpenFindsFull \/ OpenFails \/ OpenHasNoHeader \/ OpenSucceeds \/ HeaderCopied
    BY <2>2 DEF OpenFindsFull, OpenFails, OpenHasNoHeader, OpenSucceeds, HeaderCopied
  <2>3. CASE FirstLooks \/ FirstTakes \/ Write \/ Look \/ Peek \/ Decide \/ Get
    BY <2>3 DEF FirstLooks, FirstTakes, Write, Look, Peek, Decide, Get
  <2>4. CASE CopySucceeds \/ CopyFails
    BY <2>4 DEF CopySucceeds, CopyFails, Return, Finished
  <2>5. CASE CloseSucceeds \/ CloseFails
    BY <2>5 DEF CloseSucceeds, CloseFails, AfterClose
  <2> QED
    BY <2>1, <2>2, <2>3, <2>4, <2>5 DEF RecorderTask
<1>2. FileIsAttended' /\ OpensWhenOn'
  <2> USE DEF FileIsAttended, OpensWhenOn
  <2>1. CASE Wake
    BY <2>1, Zenon DEF Wake
  <2>2. CASE OpenFindsFull \/ OpenFails \/ OpenHasNoHeader \/ OpenSucceeds \/ HeaderCopied
    BY <2>2 DEF OpenFindsFull, OpenFails, OpenHasNoHeader, OpenSucceeds, HeaderCopied, Abort
  <2>3. CASE FirstLooks \/ FirstTakes \/ Write \/ Look \/ Peek \/ Decide \/ Get
    BY <2>3 DEF FirstLooks, FirstTakes, Write, Look, Peek, Decide, Get
  <2>4. CASE CopySucceeds \/ CopyFails
    BY <2>4 DEF CopySucceeds, CopyFails, Return, Abort
  <2>5. CASE CloseSucceeds \/ CloseFails
    BY <2>5 DEF CloseSucceeds, CloseFails, AfterClose
  <2> QED
    BY <2>1, <2>2, <2>3, <2>4, <2>5 DEF RecorderTask
<1>3. ChainHolds' /\ TablesHold'
  <2> USE DEF StateFitsPlace, ChainHolds, TablesHold, Begun, Written, limits, Longer
  <2>1. CASE Wake
    BY <2>1, EntryPlaces DEF Wake, TypeOK, ControlTypeOK
  <2>2. CASE OpenFindsFull \/ OpenFails \/ OpenHasNoHeader \/ OpenSucceeds \/ HeaderCopied
    BY <2>2 DEF OpenFindsFull, OpenFails, OpenHasNoHeader, OpenSucceeds, HeaderCopied,
       DefaultRate
  <2>3. CASE FirstLooks \/ FirstTakes
    BY <2>3 DEF FirstLooks, FirstTakes
  <2>4. CASE Write \/ Look \/ Peek \/ Decide
    BY <2>4 DEF Write, Look, Peek, Decide
  <2>5. CASE Get
    BY <2>5 DEF Get
  <2>6. CASE CopySucceeds \/ CopyFails
    BY <2>6 DEF CopySucceeds, CopyFails, Return, Finished
  <2>7. CASE CloseSucceeds \/ CloseFails
    BY <2>7 DEF CloseSucceeds, CloseFails, AfterClose
  <2> QED
    BY <2>1, <2>2, <2>3, <2>4, <2>5, <2>6, <2>7 DEF RecorderTask
<1> QED
  BY <1>1, <1>2, <1>3

\* muxer_videnc_init, its two halves: a file of which it takes bytes or tables away is
\* not written any more, or is spoilt.
LEMMA ResetKeepsFile ==
  ASSUME FileInv, NEW next, NEW skipped, RecorderWaits, ResetsState(next, skipped),
         UNCHANGED <<pc, caller, rate>>
  PROVE  ChainHolds' /\ TablesHold'
<1>1. CASE ~card
  BY <1>1 DEF ResetsState, ResetsBuffer, FileInv, ChainHolds, TablesHold, Begun, Written
<1>2. CASE card
  <2>1. state' = "IDLE"
    BY <1>2 DEF ResetsState
  <2>2. ~Written' \/ (pc = "copy" /\ caller = "first" /\ chain' = "spoilt")
    BY <1>2, <2>1 DEF ResetsState, ResetsBuffer, RecorderWaits, Written, Finished
  <2>3. Begun' => pc = "header" /\ chain' = chain
    BY <1>2, <2>1 DEF ResetsState, ResetsBuffer, RecorderWaits, Begun
  <2> QED
    BY <2>2, <2>3 DEF FileInv, ChainHolds, TablesHold, Begun
<1> QED
  BY <1>1, <1>2

LEMMA LimitsKeepFile ==
  ASSUME FileInv, ResetsLimits, UNCHANGED <<pc, caller, state>>
  PROVE  ChainHolds' /\ TablesHold'
  BY DEF ResetsLimits, DefaultRate, FileInv, ChainHolds, TablesHold, Begun, Written

\* The steps of the others write no state but IDLE and EXIT, and only while the recorder
\* waits; they never turn recording off.
LEMMA OthersKeepFile ==
  ASSUME FileInv, Frame \/ SdTask \/ User \/ MoveCard
  PROVE  FileInv'
<1>1. UNCHANGED <<pc, caller>>
  BY Zenon DEF fileVars, taskVars, recorderVars, Frame, User, MoveCard, SdTask, SdFindsCard,
     SdGivesUp, SdLosesCard, SdDrives, SdMounts, SdMounted, SdFormats, SdFormatted, SdIdles, SdStarts,
     SdGoes, SdWatches
<1>2. UNCHANGED state \/ (RecorderWaits /\ state' \in {"IDLE", "EXIT"})
  <2>1. CASE SdMounts \/ SdStarts \/ SdWatches
    BY <2>1 DEF SdMounts, SdStarts, SdWatches, ResetsState, Polls
  <2>2. CASE ~(SdMounts \/ SdStarts \/ SdWatches)
    BY <2>2, Zenon DEF Frame, User, MoveCard, SdTask, SdFindsCard, SdGivesUp, SdLosesCard,
       SdDrives, SdMounted, SdFormats, SdFormatted, SdIdles, SdGoes
  <2> QED
    BY <2>1, <2>2
<1>3. (file' => file) /\ (recording => recording')
  <2>1. CASE Frame \/ User \/ MoveCard
    BY <2>1 DEF fileVars, Frame, User, MoveCard
  <2>2. CASE SdFindsCard \/ SdFormats
    BY <2>2 DEF SdFindsCard, SdFormats
  <2>3. CASE SdStarts \/ SdGoes
    <3>1. file' = file
      BY <2>3 DEF SdStarts, SdGoes
    <3>2. recording => recording'
      BY <2>3, Zenon DEF SdStarts, SdGoes
    <3> QED
      BY <3>1, <3>2
  <2>4. CASE SdGivesUp \/ SdLosesCard \/ SdDrives \/ SdMounts \/ SdMounted \/ SdFormatted
             \/ SdIdles \/ SdWatches
    BY <2>4 DEF SdGivesUp, SdLosesCard, SdDrives, SdMounts, SdMounted, SdFormatted,
       SdIdles, SdWatches
  <2> QED
    BY <2>1, <2>2, <2>3, <2>4 DEF SdTask
<1>4. StateFitsPlace'
  BY <1>1, <1>2 DEF FileInv, StateFitsPlace, RecorderWaits
<1>5. FileIsAttended' /\ OpensWhenOn'
  BY <1>1, <1>3 DEF FileInv, FileIsAttended, OpensWhenOn
<1>6. ChainHolds' /\ TablesHold'
  <2>1. CASE SdMounts
    BY <1>1, <2>1, ResetKeepsFile DEF SdMounts, limits
  <2>2. CASE SdStarts
    BY <1>1, <2>2, ResetKeepsFile DEF SdStarts, limits
  <2>3. CASE SdMounted \/ SdGoes
    BY <1>1, <2>3, LimitsKeepFile DEF SdMounted, SdGoes
  <2>4. CASE ~(SdMounts \/ SdStarts \/ SdMounted \/ SdGoes)
    <3>1. UNCHANGED <<chain, rate>>
      BY <2>4, Zenon DEF fileVars, limits, recorderVars, Frame, User, MoveCard, SdTask,
         SdFindsCard, SdGivesUp, SdLosesCard, SdDrives, SdFormats, SdFormatted, SdIdles,
         SdWatches
    <3> QED
      BY <1>1, <1>2, <3>1 DEF FileInv, ChainHolds, TablesHold, Begun, Written, Finished
  <2> QED
    BY <2>1, <2>2, <2>3, <2>4
<1> QED
  BY <1>4, <1>5, <1>6 DEF FileInv

LEMMA FileInvStep == TypeOK /\ FileInv /\ [Next]_vars => FileInv'
<1> SUFFICES ASSUME TypeOK, FileInv, [Next]_vars
             PROVE  FileInv'
  OBVIOUS
<1>1. CASE UNCHANGED vars
  BY <1>1 DEF vars, fileVars, limits, FileInv, StateFitsPlace, FileIsAttended, OpensWhenOn,
     ChainHolds, TablesHold, Begun, Written
<1> QED
  BY <1>1, RecorderKeepsFile, OthersKeepFile DEF Next

\* No file is left open by a recorder that does not run its state machine any more.
THEOREM FilesAttended == Spec => []FileIsAttended
<1>1. FileInv => FileIsAttended
  BY DEF FileInv
<1> QED
  BY <1>1, TypeCorrect, FileInvStarts, FileInvStep, PTL DEF Spec

\* The recorder always waits in a state from which it goes on.
THEOREM RecorderRests == Spec => []RestsBetweenFrames
<1>1. FileInv => RestsBetweenFrames
  BY DEF FileInv, StateFitsPlace, RestsBetweenFrames
<1> QED
  BY <1>1, TypeCorrect, FileInvStarts, FileInvStep, PTL DEF Spec
------------------------------------------------------------------------------
\* A frame taken for a file: a key frame, or the successor of the file's last one.
LEMMA NoGapStarts == Init => NoGapInFile
  BY DEF Init, NoGapInFile

LEMMA NoGapStep ==
  Inv /\ FileInv /\ LossEndsAtKey /\ NoGapInFile /\ [Next]_vars => NoGapInFile'
<1> SUFFICES ASSUME Inv, FileInv, LossEndsAtKey, NoGapInFile, [Next]_vars,
                    pc' = "copy", chain' # "spoilt"
             PROVE  block.key' \/ block.linked'
  <2>1. Inv /\ FileInv /\ [Next]_vars => (pc' = "get" => chain' # "none")
    BY FileInvStep DEF Inv, FileInv, ChainHolds, Written
  <2> QED
    BY <2>1 DEF NoGapInFile
<1>1. CASE FirstTakes
  BY <1>1 DEF FirstTakes
<1>2. CASE Get
  <2>1. chain = "whole" /\ (broken => data[head])
    BY <1>2 DEF Get, Longer, FileInv, ChainHolds, Written, LossEndsAtKey
  <2>2. block' = [key |-> data[head], linked |-> chain = "whole" /\ ~broken]
    BY <1>2 DEF Get
  <2>3. block.key' = data[head] /\ block.linked' = (chain = "whole" /\ ~broken)
    BY <2>2
  <2> QED
    BY <2>1, <2>3, Zenon
<1>3. ASSUME UNCHANGED <<pc, block>>, chain = "spoilt" => chain' = "spoilt"
      PROVE  block.key' \/ block.linked'
  BY <1>3 DEF NoGapInFile
<1>4. CASE Frame \/ SdTask \/ User \/ MoveCard \/ UNCHANGED vars
  <2>1. UNCHANGED <<pc, block>>
    BY <1>4, Zenon DEF vars, taskVars, recorderVars, Frame, User, MoveCard, SdTask,
       SdFindsCard, SdGivesUp, SdLosesCard, SdDrives, SdMounts, SdMounted, SdFormats,
       SdFormatted, SdIdles, SdStarts, SdGoes, SdWatches
  <2>2. chain = "spoilt" => chain' = "spoilt"
    <3>1. CASE SdMounts \/ SdStarts
      BY <2>1, <3>1 DEF SdMounts, SdStarts, ResetsState, ResetsBuffer
    <3>2. CASE SdMounted \/ SdGoes
      BY <3>2 DEF SdMounted, SdGoes, ResetsLimits
    <3>3. CASE ~(SdMounts \/ SdStarts \/ SdMounted \/ SdGoes)
      BY <1>4, <3>3, Zenon DEF vars, fileVars, recorderVars, Frame, User, MoveCard, SdTask,
         SdFindsCard, SdGivesUp, SdLosesCard, SdDrives, SdFormats, SdFormatted, SdIdles,
         SdWatches
    <3> QED
      BY <3>1, <3>2, <3>3
  <2> QED
    BY <2>1, <2>2, <1>3
<1>5. CASE RecorderTask /\ ~FirstTakes /\ ~Get
  BY <1>5, EntryPlaces DEF RecorderTask, Wake, Inv, TypeOK, ControlTypeOK, OpenFindsFull,
     OpenFails, OpenSucceeds, OpenHasNoHeader, HeaderCopied, FirstLooks, Write, Look, Peek,
     Decide, CopySucceeds, CopyFails, Return, CloseSucceeds, CloseFails, AfterClose
<1> QED
  BY <1>1, <1>2, <1>4, <1>5 DEF Next

\* The ring loses frames only up to a key frame, with the recorder as its reader.
THEOREM RecorderLossesEnd == GroupFits => (Spec => []LossEndsAtKey)
  BY RecorderUsesBuffer, LossesEndAtKeys, PTL

\* When key frames come round before the ring does, no file goes on over a gap among the
\* frames taken for it, whatever frames the ring loses and wherever muxer_videnc_init, run
\* by the SD card task, empties the buffer or the tables under the recorder: a file to
\* which it does that takes no frame more.  The files that it does it to while their first
\* frame is copied, or whose header it prevents, are spoilt and excepted.
THEOREM FilesHaveNoGap == GroupFits => (Spec => []NoGapInFile)
<1>1. Spec => []Inv
  BY InvStarts, InvStep, PTL DEF Spec
<1>2. Spec => []FileInv
  BY TypeCorrect, FileInvStarts, FileInvStep, PTL DEF Spec
<1> QED
  BY <1>1, <1>2, RecorderLossesEnd, NoGapStarts, NoGapStep, PTL DEF Spec
------------------------------------------------------------------------------
(***************************************************************************)
(* The end of a full file.  As long as no frames are lost the frame that   *)
(* sbuf_peek has seen is the one that sbuf_get takes.                      *)
(***************************************************************************)
PeekedIsNext ==
  pc = "peeked" => ~IsEmpty /\ ((block.key <=> data[head]) \/ broken)

FullInv == PeekedIsNext /\ FullFileTakesNoKey

\* A frame that comes in leaves the head where it is, unless frames are lost.
LEMMA FrameKeepsHead ==
  ASSUME Inv, Frame, pc \in {"peeked", "get"}, ~IsEmpty
  PROVE  broken' \/ (head' = head /\ data'[head] = data[head] /\ (broken => broken'))
<1>1. PICK key \in BOOLEAN : Put(key)
  BY DEF Frame
<1>2. CASE IsFull
  BY <1>1, <1>2, Zenon DEF Put
<1>3. CASE ~IsFull
  <2>1. head' = head /\ broken' = broken /\ data' = [data EXCEPT ![tail] = key]
    BY <1>1, <1>3, Zenon DEF Put, Inv, TypeOK, BufferTypeOK
  <2>2. head # tail /\ head \in Entries /\ data \in [Entries -> BOOLEAN]
    BY DEF IsEmpty, Inv, TypeOK, BufferTypeOK
  <2> QED
    BY <2>1, <2>2
<1> QED
  BY <1>2, <1>3

LEMMA FullInvStarts == Init => FullInv
  BY DEF Init, FullInv, PeekedIsNext, FullFileTakesNoKey

LEMMA FullInvStep == Inv /\ FullInv /\ [Next]_vars => FullInv'
<1> SUFFICES ASSUME Inv, FullInv, [Next]_vars
             PROVE  FullInv'
  OBVIOUS
<1>1. CASE Frame
  <2>1. UNCHANGED <<pc, block, count, max>>
    BY <1>1 DEF Frame, fileVars, limits
  <2>2. SUFFICES ASSUME pc \in {"peeked", "get"}
                 PROVE  FullInv'
    BY <2>1 DEF FullInv, PeekedIsNext, FullFileTakesNoKey
  <2>3. ~IsEmpty /\ ~IsEmpty'
    BY <1>1, <2>2, FrameSteps DEF Inv, ReaderHasFrame, FullInv, PeekedIsNext
  <2>4. broken' \/ (head' = head /\ data'[head] = data[head] /\ (broken => broken'))
    BY <1>1, <2>2, <2>3, FrameKeepsHead
  <2> QED
    BY <2>1, <2>3, <2>4 DEF FullInv, PeekedIsNext, FullFileTakesNoKey
<1>2. CASE SdTask \/ User \/ MoveCard
  <2>1. UNCHANGED <<pc, block, count, buffer>>
    BY <1>2, Zenon DEF taskVars, recorderVars, User, MoveCard, SdTask, SdFindsCard, SdGivesUp,
       SdLosesCard, SdDrives, SdMounts, SdMounted, SdFormats, SdFormatted, SdIdles, SdStarts, SdGoes,
       SdWatches
  <2>2. RecorderWaits \/ max' = max
    <3>1. CASE SdTask
      BY <3>1, Zenon DEF SdTask, Polls, AtIdle, SdFindsCard, SdGivesUp, SdLosesCard, SdDrives,
         SdMounts, SdMounted, SdFormats, SdFormatted, SdIdles, SdStarts, SdGoes, SdWatches
    <3>2. CASE User \/ MoveCard
      BY <3>2 DEF User, MoveCard, limits
    <3> QED
      BY <1>2, <3>1, <3>2
  <2> QED
    BY <2>1, <2>2 DEF RecorderWaits, buffer, FullInv, PeekedIsNext, FullFileTakesNoKey,
       IsEmpty
<1>3. CASE Peek
  BY <1>3 DEF Peek, buffer, Inv, ReaderHasFrame, IsEmpty, FullInv, PeekedIsNext,
     FullFileTakesNoKey, TypeOK, BufferTypeOK
<1>4. CASE Decide
  <2>1. UNCHANGED <<data, head, tail, broken, count, max>> /\ pc = "peeked"
    BY <1>4 DEF Decide, buffer, fileVars, limits
  <2>2. pc' # "peeked"
    BY <1>4 DEF Decide
  <2>3. pc' = "get" => ~FileIsFull
    BY <1>4 DEF Decide
  <2> QED
    BY <2>1, <2>2, <2>3 DEF FullInv, PeekedIsNext, FullFileTakesNoKey, FileIsFull
<1>5. CASE RecorderTask /\ ~Peek /\ ~Decide
  <2>1. pc' \notin {"peeked", "get"}
    BY <1>5, EntryPlaces DEF Inv, TypeOK, ControlTypeOK, RecorderTask, Wake, OpenFindsFull,
       OpenFails, OpenSucceeds, OpenHasNoHeader, HeaderCopied, FirstLooks, FirstTakes, Write,
       Look, Get, CopySucceeds, CopyFails, Return, CloseSucceeds, CloseFails, AfterClose
  <2> QED
    BY <2>1 DEF FullInv, PeekedIsNext, FullFileTakesNoKey
<1>6. CASE UNCHANGED vars
  BY <1>6 DEF vars, buffer, fileVars, limits, FullInv, PeekedIsNext, FullFileTakesNoKey, IsEmpty
<1> QED
  BY <1>1, <1>2, <1>3, <1>4, <1>5, <1>6 DEF Next

\* A full file goes on past a key frame only when the ring lost frames between the look of
\* muxer_videnc_process at the next frame and its sbuf_get.
THEOREM FullFilesEnd == Spec => []FullFileTakesNoKey
<1>1. Spec => []Inv
  BY InvStarts, InvStep, PTL DEF Spec
<1>2. FullInv => FullFileTakesNoKey
  BY DEF FullInv
<1> QED
  BY <1>1, <1>2, FullInvStarts, FullInvStep, PTL DEF Spec
------------------------------------------------------------------------------
(***************************************************************************)
(* The length of the files.  Where the configured frame rate is the 30 fps *)
(* that the code begins every file with, no file is closed early to begin  *)
(* another one at the right rate.                                          *)
(***************************************************************************)
LimitKnown ==
  /\ pc # "take" => mounted
  /\ mounted => rate # 0
  /\ rate # 0 => max = UserFrames

ClosesWhenFull ==
  pc = "close" /\ caller # "exit" => caller = "loop" /\ count >= max

RateInv == LimitKnown /\ ClosesWhenFull

LEMMA RateInvStarts == Init => RateInv
  BY DEF Init, RateInv, LimitKnown, ClosesWhenFull

LEMMA RecorderKeepsRate ==
  ASSUME DefaultFrames = UserFrames, TypeOK, RateInv, RecorderTask
  PROVE  RateInv'
<1> USE FramesAssumption
    DEF TypeOK, ControlTypeOK, RateInv, LimitKnown, ClosesWhenFull, fileVars, limits, sdVars
<1>1. CASE Wake
  <2>1. UNCHANGED <<mounted, rate, max, count>> /\ (mounted \/ pc' = "take")
    BY <1>1 DEF Wake
  <2>2. pc' = "close" => caller' = "exit"
    BY <1>1, EntryPlaces DEF Wake, Entry
  <2> QED
    BY <1>1, <2>1, <2>2 DEF Wake
<1>2. CASE OpenFindsFull \/ OpenFails \/ OpenHasNoHeader \/ HeaderCopied
  BY <1>2 DEF OpenFindsFull, OpenFails, OpenHasNoHeader, HeaderCopied
<1>3. CASE OpenSucceeds
  BY <1>3 DEF OpenSucceeds, DefaultRate
<1>4. CASE FirstLooks \/ FirstTakes \/ Look \/ Peek \/ Get
  BY <1>4 DEF FirstLooks, FirstTakes, Look, Peek, Get
<1>5. CASE Write
  BY <1>5 DEF Write
<1>6. CASE Decide
  BY <1>6 DEF Decide, FileIsFull
<1>7. CASE CopySucceeds \/ CopyFails
  BY <1>7 DEF CopySucceeds, CopyFails, Return
<1>8. CASE CloseSucceeds \/ CloseFails
  BY <1>8 DEF CloseSucceeds, CloseFails, AfterClose
<1> QED
  BY <1>1, <1>2, <1>3, <1>4, <1>5, <1>6, <1>7, <1>8 DEF RecorderTask

\* The SD card task sets the limits only as muxer_videnc_init does, while the files that
\* are written then already have them.
LEMMA OthersKeepRate ==
  ASSUME DefaultFrames = UserFrames, TypeOK, RateInv, Frame \/ SdTask \/ User \/ MoveCard
  PROVE  RateInv'
<1>1. UNCHANGED <<pc, caller, count>>
  BY Zenon DEF fileVars, taskVars, recorderVars, Frame, User, MoveCard, SdTask, SdFindsCard,
     SdGivesUp, SdLosesCard, SdDrives, SdMounts, SdMounted, SdFormats, SdFormatted, SdIdles, SdStarts,
     SdGoes, SdWatches
<1>2. CASE SdMounted \/ SdGoes
  <2>1. DefaultRate /\ mounted'
    BY <1>2 DEF SdMounted, SdGoes, ResetsLimits
  <2> QED
    BY <1>1, <2>1, FramesAssumption
    DEF DefaultRate, TypeOK, ControlTypeOK, RateInv, LimitKnown, ClosesWhenFull
<1>3. CASE ~(SdMounted \/ SdGoes)
  <2>1. UNCHANGED <<mounted, rate, max>>
    BY <1>3, Zenon DEF limits, sdVars, Frame, User, MoveCard, SdTask, SdFindsCard, SdGivesUp,
       SdLosesCard, SdDrives, SdMounts, SdFormats, SdFormatted, SdIdles, SdStarts, SdWatches
  <2> QED
    BY <1>1, <2>1 DEF RateInv, LimitKnown, ClosesWhenFull
<1> QED
  BY <1>2, <1>3

\* The change of the frame rate is the only thing that cuts a file short while the switch
\* is on: at 30 fps files end at their full time, whatever the card and the users do.
THEOREM FilesFullAtOneRate ==
  ASSUME DefaultFrames = UserFrames
  PROVE  Spec => []FilesRunFullTime
<1>1. TypeOK /\ RateInv /\ [Next]_vars => RateInv'
  <2>1. ASSUME RateInv, UNCHANGED vars
        PROVE  RateInv'
    BY <2>1 DEF vars, fileVars, limits, sdVars, RateInv, LimitKnown, ClosesWhenFull
  <2> QED
    BY <2>1, RecorderKeepsRate, OthersKeepRate DEF Next
<1>2. RateInv => FilesRunFullTime
  BY DEF RateInv, ClosesWhenFull, FilesRunFullTime
<1> QED
  BY <1>1, <1>2, TypeCorrect, RateInvStarts, PTL DEF Spec
===============================================================================
