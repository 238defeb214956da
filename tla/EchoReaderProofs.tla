-------------------------- MODULE EchoReaderProofs -------------------------
(***************************************************************************)
(* The watching processes of EchoReader miss no change, for every          *)
(* set of users, readers and pins and every size.                          *)
(***************************************************************************)
EXTENDS EchoReader, EchoModesProofs

(* A failed MOVE stores a position and notifies nobody. *)
MovesSucceed == "MOVE" \notin Commands \/ SimMode

-----------------------------------------------------------------------------
(* A step of the driver sets the flag, leaves a notify_readers ahead, or   *)
(* changes nothing that a snapshot shows.                                  *)
Reported ==
  \/ new_data_avail'
  \/ NotifyAhead'
  \/ Current' = Current /\ new_data_avail' = new_data_avail /\ ~NotifyAhead

LEMMA UserReports ==
  ASSUME TypeOK, MovesSucceed, NEW u \in Users, UserCall(u) \/ UserStep(u)
  PROVE  Reported
<1> USE DEF TypeOK, At, Goto, Return, Call, Reported, flagVars
<1>1. CASE pc'[u] \notin {"idle", "flagged", "wait"}
  BY <1>1 DEF NotifyAhead
<1>2. CASE ReplayFlag(u) \/ ReplayBusy(u) \/ ReplayReturn(u) \/ ReplayInterrupted(u)
  <2>1. \A v \in Users : (pc'[v] \in {"idle", "flagged", "wait"}) <=> (pc[v] \in {"idle", "flagged", "wait"})
    BY <1>2 DEF ReplayFlag, ReplayBusy, ReplayReturn, ReplayInterrupted
  <2>2. UNCHANGED <<Current, new_data_avail, irq_pc, timer_fn, worker>>
    BY <1>2 DEF ReplayFlag, ReplayBusy, ReplayReturn, ReplayInterrupted, SetFinished,
                Current, stateVars, bufferVars, irqVars
  <2> QED BY <2>1, <2>2 DEF NotifyAhead
<1>3. CASE StartNotify(u) \/ StopNotify(u) \/ UserNotify(u)
  BY <1>3 DEF StartNotify, StopNotify, UserNotify, NotifyReaders
<1>4. CASE MoveFails(u)
  BY <1>4 DEF MoveFails, MovesSucceed
<1>5. CASE TeachEnter(u) \/ TeachClear(u) \/ TeachArm(u)
  BY <1>1, <1>5 DEF TeachEnter, TeachClear, TeachArm
<1>6. CASE ReplayAccept(u) \/ SetReplayAccept(u) \/ StartDelTimer(u) \/ StartQueue(u)
  BY <1>1, <1>6 DEF ReplayAccept, SetReplayAccept, StartDelTimer, StartQueue
<1>7. CASE StopEnter(u) \/ StopDelTimer(u) \/ StopCancel(u) \/ StopFlush(u)
  BY <1>1, <1>7 DEF StopEnter, StopDelTimer, StopCancel, StopFlush
<1>8. CASE StopSignal(u) \/ StopData(u) \/ ResetClear(u) \/ MoveServo(u)
  BY <1>1, <1>8 DEF StopSignal, StopData, ResetClear, MoveServo
<1>9. CASE \/ ResetCentre(u, "reset_pan", "PAN", "reset_tilt")
           \/ ResetCentre(u, "reset_tilt", "TILT", "reset_tilt2")
           \/ ResetCentre(u, "reset_tilt2", "TILT2", "notify")
  BY <1>1, <1>9 DEF ResetCentre
<1> QED
  BY <1>2, <1>3, <1>4, <1>5, <1>6, <1>7, <1>8, <1>9 DEF UserCall, UserStep

LEMMA InputReports ==
  ASSUME TypeOK, NEW i \in Pins, InputEnter(i) \/ InputStep(i)
  PROVE  Reported
<1>1. CASE InputNotify(i)
  BY <1>1 DEF InputNotify, NotifyReaders, Reported
<1>2. CASE ~InputNotify(i)
  <2>1. irq_pc'[i] # "idle"
    BY <1>2 DEF TypeOK, InputEnter, InputStep, InputGet, InputMove, InputRecord,
                InputCount, InputArm, IrqGoto
  <2> QED BY <2>1 DEF Reported, NotifyAhead
<1> QED BY <1>1, <1>2

LEMMA TimerReports ==
  ASSUME TypeOK, TimerExpire \/ TimerStep
  PROVE  Reported
<1>1. CASE TimerNotify
  BY <1>1 DEF TimerNotify, NotifyReaders, Reported
<1>2. CASE TimerQueue
  BY <1>2 DEF TimerQueue, TimeoutStep, Reported, NotifyAhead
<1>3. CASE TimerExpire \/ TimerCheck
  <2>1. CASE timer_fn' = "queue"
    BY <2>1 DEF Reported, NotifyAhead
  <2>2. CASE timer_fn' # "queue"
    <3>1. UNCHANGED <<Current, new_data_avail, pc, irq_pc, worker>>
          /\ timer_fn \in {"idle", "check"} /\ timer_fn' \in {"idle", "check"}
      BY <1>3, <2>2 DEF TimerExpire, TimerCheck, Expire, TimeoutCheck, Current,
                        bufferVars, flagVars, userVars, irqVars
    <3> QED BY <3>1 DEF Reported, NotifyAhead
  <2> QED BY <2>1, <2>2
<1> QED BY <1>1, <1>2, <1>3 DEF TimerStep

LEMMA WorkerReports ==
  ASSUME TypeOK, WorkerNext
  PROVE  Reported
<1>1. CASE WorkerExit
  BY <1>1 DEF WorkerExit, NotifyReaders, Reported
<1>2. CASE ~WorkerExit
  <2>1. worker' # "idle"
    BY <1>2 DEF WorkerNext, WorkerBegin, WorkerEnter, WorkerOom, WorkerStep,
                WorkerSnapshot, TakeSnapshot, WorkerCheck, LoopCheck, WorkerMove,
                WorkerNotify, LoopAdvance, WorkerComplete, WorkerFinish
  <2> QED BY <2>1 DEF Reported, NotifyAhead
<1> QED BY <1>1, <1>2

LEMMA StepReports == ASSUME TypeOK, MovesSucceed, Next PROVE Reported
BY UserReports, InputReports, TimerReports, WorkerReports DEF Next

-----------------------------------------------------------------------------
(* The inductive invariant adds what a read that has cleared the flag has  *)
(* collected so far.                                                       *)
Quiet == ~new_data_avail /\ ~NotifyAhead
UpToDate(r) ==
  \A f \in Fields :
    rpc[r] \in {"idle", "wait"} \/ (rpc[r] = "build" /\ f < field[r])
      => seen[r][f] = Current[f]

RInv == TypeOK /\ ReaderTypeOK /\ (Quiet => \A r \in Readers \ robbed : UpToDate(r))

LEMMA ReaderInitInv == ReaderInit => RInv
<1> SUFFICES ASSUME ReaderInit PROVE RInv
  OBVIOUS
<1>1. TypeOK
  BY InitType DEF ReaderInit
<1>2. ReaderTypeOK
  BY DEF ReaderInit, ReaderTypeOK, Current, Fields, irq_count
<1>3. \A r \in Readers : UpToDate(r)
  BY DEF ReaderInit, UpToDate
<1> QED BY <1>1, <1>2, <1>3 DEF RInv

(* What the driver does leaves every settled snapshot up to date. *)
LEMMA DriverKeeps ==
  ASSUME MovesSucceed, RInv, Next, UNCHANGED readerVars
  PROVE  RInv'
<1>1. TypeOK' /\ Reported
  BY NextType, StepReports DEF RInv
<1>2. ReaderTypeOK'
  BY DEF RInv, ReaderTypeOK, readerVars
<1>3. ASSUME Quiet' PROVE \A r \in Readers \ robbed : UpToDate(r)'
  <2>1. Current' = Current /\ Quiet
    BY <1>1, <1>3 DEF Quiet, Reported
  <2> QED BY <2>1 DEF RInv, UpToDate, readerVars
<1> QED BY <1>1, <1>2, <1>3 DEF RInv, readerVars

(* A reader keeps its own half-built snapshot up to date, and leaves the   *)
(* others alone unless it takes the flag from them.                        *)
LEMMA ReaderKeeps ==
  ASSUME RInv, NEW r \in Readers, ReaderStep(r)
  PROVE  RInv'
<1> USE DEF RInv, ReaderTypeOK
<1>1. TypeOK' /\ Current' = Current /\ NotifyAhead' = NotifyAhead
  BY DEF ReaderStep, OpenAndSeed, ReadCall, ReadWake, ReadClear, BuildField, ReadReturn,
         ReadFails, TypeOK, StateTypeOK, BufferTypeOK, Current, NotifyAhead, vars,
         stateVars, bufferVars, flagVars, userVars, irqVars
<1>2. ReaderTypeOK'
  BY DEF ReaderStep, OpenAndSeed, ReadCall, ReadWake, ReadClear, BuildField, ReadReturn,
         ReadFails, ReaderGoto, Fields, BufferCount
<1>3. ASSUME Quiet', r \notin robbed' PROVE UpToDate(r)'
  <2> USE <1>1, <1>3 DEF Quiet, UpToDate, ReaderGoto, Fields, vars, flagVars
  <2>1. CASE OpenAndSeed(r) \/ ReadClear(r)
    BY <2>1 DEF OpenAndSeed, ReadClear
  <2>2. CASE ReadCall(r)
    BY <2>2 DEF ReadCall
  <2>3. CASE ReadWake(r)
    BY <2>3 DEF ReadWake
  <2>4. CASE BuildField(r)
    <3>1. Quiet /\ ~RingBusy
      BY <2>4 DEF BuildField, RingBusy, NotifyAhead
    <3> QED BY <2>4, <3>1 DEF BuildField
  <2>5. CASE ReadReturn(r)
    BY <2>5 DEF ReadReturn
  <2>6. CASE ReadFails(r)
    BY <2>6 DEF ReadFails
  <2> QED BY <2>1, <2>2, <2>3, <2>4, <2>5, <2>6 DEF ReaderStep
<1>4. ASSUME Quiet', NEW s \in Readers \ robbed', s # r PROVE UpToDate(s)'
  <2>1. ~ReadClear(r)
    BY <1>4 DEF ReadClear
  <2>2. /\ new_data_avail' = new_data_avail /\ s \notin robbed
        /\ rpc'[s] = rpc[s] /\ field'[s] = field[s]
        /\ \A f \in Fields : seen'[s][f] = seen[s][f]
    BY <1>4, <2>1 DEF ReaderStep, OpenAndSeed, ReadCall, ReadWake, BuildField, ReadReturn,
                      ReadFails, ReaderGoto, vars, flagVars
  <2> QED BY <1>1, <1>4, <2>2 DEF Quiet, UpToDate
<1> QED BY <1>1, <1>2, <1>3, <1>4

LEMMA ReaderNextInv ==
  ASSUME MovesSucceed PROVE RInv /\ [ReaderNext]_dashboardVars => RInv'
<1> SUFFICES ASSUME RInv, [ReaderNext]_dashboardVars PROVE RInv'
  OBVIOUS
<1>1. CASE ReaderNext
  BY <1>1, DriverKeeps, ReaderKeeps DEF ReaderNext
<1>2. CASE UNCHANGED dashboardVars
  <2>1. TypeOK'
    BY <1>2, NextType DEF dashboardVars, RInv
  <2>2. UNCHANGED <<Current, new_data_avail, rpc, field, seen, robbed>> /\ NotifyAhead' = NotifyAhead
    BY <1>2 DEF dashboardVars, vars, readerVars, stateVars, bufferVars, flagVars, userVars,
                irqVars, Current, NotifyAhead
  <2> QED BY <2>1, <2>2 DEF RInv, ReaderTypeOK, Quiet, UpToDate
<1> QED BY <1>1, <1>2

-----------------------------------------------------------------------------
(* Unless a MOVE fails, a reader that blocks in read() with nothing under  *)
(* way has seen the driver as it is, or another reader has taken the flag  *)
(* from it: notify_readers follows the last change on every path, and      *)
(* read() clears the flag before it looks.                                 *)
THEOREM SeenIsCurrentTheorem ==
  ASSUME MovesSucceed PROVE ReaderSpec => []SeenIsCurrent
<1>1. RInv => SeenIsCurrent
  BY DEF RInv, SeenIsCurrent, Quiet, UpToDate
<1> QED BY <1>1, ReaderInitInv, ReaderNextInv, PTL DEF ReaderSpec

-----------------------------------------------------------------------------
(* The readers clear new_data_avail and change nothing else of the driver. *)
Flagless == <<stateVars, bufferVars, pos, replay_finished, userVars, irqVars>>

LEMMA ReaderFrame ==
  ASSUME TypeOK, [ReaderNext]_dashboardVars
  PROVE  [Next]_vars \/ (UNCHANGED Flagless /\ (new_data_avail \in BOOLEAN)')
<1>1. CASE UNCHANGED dashboardVars
  BY <1>1 DEF dashboardVars
<1>2. ASSUME NEW r \in Readers, ReaderStep(r)
      PROVE  UNCHANGED Flagless /\ (new_data_avail \in BOOLEAN)'
  BY <1>2 DEF TypeOK, ReaderStep, OpenAndSeed, ReadCall, ReadWake, ReadClear, BuildField,
              ReadReturn, ReadFails, Flagless, vars, flagVars
<1> QED BY <1>1, <1>2 DEF ReaderNext

(* Whoever watches, and with whatever failures, the driver under them      *)
(* keeps to its modes and its recording stays the bounded queue: nothing   *)
(* but the watchers themselves depends on the flag they take.              *)
THEOREM ReadersDisturbNothing ==
  ReaderSpec => ImplementsModes /\ ImplementsQueue
<1> DEFINE DInv == TypeOK /\ CancelsInFlush /\ CopyFreed
           MStep == [ModeMachine!Next]_(ModeMachine!modeVars)
           QStep == [Recorder!Next]_(Recorder!queueVars)
<1>1. ReaderInit => DInv /\ ModeMachine!Init /\ Recorder!Init
  BY InitType DEF ReaderInit, Init, StateInit, BufferInit, CancelsInFlush, CopyFreed,
     ModeMachine!Init, Recorder!Init, ReplayUnderWay, Starting, WorkerWillComplete, Timed,
     InStop
<1>2. ASSUME DInv, [Next]_vars
      PROVE  DInv' /\ MStep /\ QStep
  BY <1>2, NextType, CancelsKept, CopyKept, ModesStep, QueueStep DEF ModeStep
<1>3. ASSUME DInv, UNCHANGED Flagless, (new_data_avail \in BOOLEAN)'
      PROVE  DInv' /\ MStep /\ QStep
  <2>1. TypeOK' /\ CancelsInFlush' /\ CopyFreed'
    BY <1>3 DEF Flagless, TypeOK, StateTypeOK, BufferTypeOK, CancelsInFlush, CopyFreed,
                stateVars, bufferVars, userVars, irqVars
  <2>2. UNCHANGED <<mode, ReplayUnderWay, Timed, InStop, recording, snapshot>>
    BY <1>3 DEF Flagless, ReplayUnderWay, Starting, WorkerWillComplete, Timed, InStop,
                stateVars, bufferVars, userVars, irqVars
  <2> QED BY <2>1, <2>2 DEF ModeMachine!modeVars, Recorder!queueVars
<1>4. DInv /\ [ReaderNext]_dashboardVars => DInv' /\ MStep /\ QStep
  BY <1>2, <1>3, ReaderFrame
<1> QED BY <1>1, <1>4, PTL
        DEF ReaderSpec, ImplementsModes, ImplementsQueue, ModeMachine!Spec, Recorder!Spec
=============================================================================
