-------------------------- MODULE EchoDriverProofs -------------------------
(***************************************************************************)
(* Theorems about EchoDriver, for every set of processes, pins and         *)
(* requests, every fifo size and every angle range.                        *)
(***************************************************************************)
EXTENDS EchoDriver, TLAPS

(* Recording a move keeps the recording a sequence of moves that fits the  *)
(* fifo.                                                                   *)
LEMMA PushMoveType ==
  ASSUME NEW q \in Seq(Moves), Len(q) <= FifoSize, NEW m \in Moves
  PROVE  PushMove(q, m) \in Seq(Moves) /\ Len(PushMove(q, m)) <= FifoSize
<1> USE TypesAssumption
<1>1. CASE Len(q) = FifoSize
  <2>1. q # <<>> /\ Tail(q) \in Seq(Moves) /\ Len(Tail(q)) = Len(q) - 1
    BY <1>1
  <2>2. Append(Tail(q), m) \in Seq(Moves) /\ Len(Append(Tail(q), m)) = FifoSize
    BY <1>1, <2>1
  <2> QED BY <1>1, <2>2 DEF PushMove
<1>2. CASE Len(q) # FifoSize
  <2>1. Append(q, m) \in Seq(Moves) /\ Len(Append(q, m)) = Len(q) + 1
    OBVIOUS
  <2> QED BY <1>2, <2>1 DEF PushMove
<1> QED BY <1>1, <1>2

(* A counter stays below its modulus when it is bumped. *)
LEMMA BumpType ==
  ASSUME NEW c \in 0 .. CounterMod - 1
  PROVE  Bump(c) \in 0 .. CounterMod - 1
BY TypesAssumption DEF Bump

(* The clamped angle of a press is an angle, whatever the step. *)
LEMMA ClampType ==
  ASSUME NEW a \in Int
  PROVE  Clamp(a) \in Angles
BY TypesAssumption DEF Clamp, Angles

(* Moving a servo keeps every position an angle. *)
LEMMA PosAfterType ==
  ASSUME NEW p \in [Servos -> Angles], NEW id \in Servos, NEW a \in Angles
  PROVE  PosAfter(p, id, a) \in [Servos -> Angles]
BY DEF PosAfter

-----------------------------------------------------------------------------
(* Type correctness. *)

LEMMA InitType == ASSUME Init PROVE TypeOK
<1> USE TypesAssumption DEF Init, TypeOK
<1>1. StateTypeOK
  BY DEF StateInit, StateTypeOK, Modes, TimerPcs
<1>2. BufferTypeOK
  <2>1. recording \in Seq(Moves) /\ Len(recording) <= FifoSize
    BY DEF BufferInit
  <2>3. snapshot \in Seq(Moves) /\ Len(snapshot) <= FifoSize
    BY DEF BufferInit
  <2>4. queued \in BOOLEAN /\ cancelling \in SUBSET Users
    BY DEF BufferInit
  <2>5. worker \in WorkerPcs /\ worker \notin {"sleep", "notify"}
    BY DEF BufferInit, WorkerPcs
  <2>2. next \in 1 .. FifoSize + 1 /\ replay_count \in 0 .. CounterMod - 1
    BY DEF BufferInit
  <2> QED BY <2>1, <2>2, <2>3, <2>4, <2>5 DEF BufferTypeOK
<1>3. pos \in [Servos -> Angles] /\ irq_angle \in [Pins -> Angles]
  BY DEF Angles
<1>4. op \in [Users -> AllCommands \union {"none"}] /\ pc \in [Users -> UserPcs]
  BY DEF UserPcs
<1>5. irq_pc \in [Pins -> IrqPcs]
  BY DEF IrqPcs
<1> QED BY <1>1, <1>2, <1>3, <1>4, <1>5

(* One step of a user process. *)
LEMMA UserType ==
  ASSUME TypeOK, NEW u \in Users, UserCall(u) \/ UserStep(u)
  PROVE  TypeOK'
<1> USE DEF TypeOK, StateTypeOK, BufferTypeOK, Modes, UserPcs, AllCommands
<1>1. Center \in Angles /\ {"PAN", "TILT", "TILT2"} = Servos
  BY TypesAssumption DEF Angles, Servos
<1>2. CASE TeachEnter(u)
  BY <1>2 DEF TeachEnter, Call, SetMode, bufferVars, flagVars, irqVars
<1>3. CASE TeachClear(u)
  BY <1>3, TypesAssumption DEF TeachClear, At, Goto, ClearBuffer, stateVars, flagVars, irqVars
<1>4. CASE TeachArm(u)
  BY <1>4, TypesAssumption DEF TeachArm, At, Goto, ResetCountAndArm, bufferVars, flagVars, irqVars
<1>5. CASE ReplayFlag(u)
  BY <1>5 DEF ReplayFlag, Call, SetFinished, stateVars, bufferVars, irqVars
<1>6. CASE ReplayAccept(u)
  BY <1>6 DEF ReplayAccept, At, Goto, SetMode, bufferVars, flagVars, irqVars
<1>7. CASE ReplayBusy(u)
  BY <1>7 DEF ReplayBusy, Return, stateVars, bufferVars, flagVars, irqVars
<1>8. CASE SetReplayAccept(u)
  BY <1>8 DEF SetReplayAccept, Call, SetMode, bufferVars, flagVars, irqVars
<1>9. CASE StartDelTimer(u)
  BY <1>9 DEF StartDelTimer, Goto, DeleteTimerSync, bufferVars, flagVars, irqVars
<1>10. CASE StartQueue(u)
  BY <1>10 DEF StartQueue, Goto, QueueReplay, stateVars, flagVars, irqVars
<1>11. CASE StartNotify(u)
  BY <1>11 DEF StartNotify, Goto, Return, NotifyReaders, stateVars, bufferVars, irqVars
<1>12. CASE ReplayReturn(u) \/ ReplayInterrupted(u)
  BY <1>12 DEF ReplayReturn, ReplayInterrupted, Return, stateVars, bufferVars, flagVars, irqVars
<1>13. CASE StopEnter(u)
  BY <1>13 DEF StopEnter, Call, SetMode, bufferVars, flagVars, irqVars
<1>14. CASE StopDelTimer(u)
  BY <1>14 DEF StopDelTimer, Goto, DeleteTimerSync, bufferVars, flagVars, irqVars
<1>15. CASE StopCancel(u)
  BY <1>15 DEF StopCancel, Goto, CancelBegin, stateVars, flagVars, irqVars
<1>16. CASE StopFlush(u)
  BY <1>16 DEF StopFlush, Goto, CancelEnd, stateVars, flagVars, irqVars
<1>17. CASE StopSignal(u)
  BY <1>17 DEF StopSignal, Goto, SetFinished, stateVars, bufferVars, irqVars
<1>18. CASE StopData(u)
  BY <1>18 DEF StopData, Goto, NotifyReaders, stateVars, bufferVars, irqVars
<1>19. CASE StopNotify(u)
  BY <1>19 DEF StopNotify, Goto, Return, NotifyReaders, stateVars, bufferVars, irqVars
<1>20. CASE ResetClear(u)
  BY <1>20, TypesAssumption DEF ResetClear, Goto, ClearBuffer, stateVars, flagVars, irqVars
<1>21. ASSUME NEW from \in UserPcs, NEW id \in Servos, NEW to \in UserPcs,
             ResetCentre(u, from, id, to)
      PROVE  TypeOK'
  <2>1. pos' \in [Servos -> Angles]
    BY <1>1, <1>21, PosAfterType DEF ResetCentre, SetAngle
  <2> QED BY <1>21, <2>1 DEF ResetCentre, Goto, stateVars, bufferVars, flagVars, irqVars
<1>22. CASE MoveServo(u) \/ MoveFails(u)
  <2>1. pos' \in [Servos -> Angles]
    BY <1>22, PosAfterType DEF MoveServo, MoveFails, SetAngle
  <2> QED
    BY <1>22, <2>1
    DEF MoveServo, MoveFails, Call, stateVars, bufferVars, flagVars, userVars, irqVars
<1>23. CASE UserNotify(u)
  BY <1>23 DEF UserNotify, Return, NotifyReaders, stateVars, bufferVars, irqVars
<1> QED
  BY <1>1, <1>2, <1>3, <1>4, <1>5, <1>6, <1>7, <1>8, <1>9, <1>10, <1>11, <1>12, <1>13, <1>14, <1>15, <1>16, <1>17, <1>18, <1>19, <1>20, <1>21, <1>22, <1>23
  DEF UserCall, UserStep

(* One step of the IRQ thread of a pin. *)
LEMMA InputType ==
  ASSUME TypeOK, NEW i \in Pins, InputEnter(i) \/ InputStep(i)
  PROVE  TypeOK'
<1> USE DEF TypeOK, StateTypeOK, BufferTypeOK, IrqPcs, IrqGoto
<1>1. PinServo(i) \in Servos /\ PinDelta(i) \in Int
  BY TypesAssumption DEF PinServo, PinDelta, Servos
<1>2. CASE InputEnter(i)
  BY <1>2 DEF InputEnter, SetMode, Modes, bufferVars, flagVars, userVars
<1>3. CASE InputGet(i)
  <2>1. pos[PinServo(i)] + PinDelta(i) \in Int
    BY <1>1, TypesAssumption DEF Angles
  <2>2. Clamp(pos[PinServo(i)] + PinDelta(i)) \in Angles
    BY <2>1, ClampType
  <2> QED BY <1>3, <2>2 DEF InputGet, stateVars, bufferVars, flagVars, userVars
<1>4. CASE InputMove(i)
  <2>1. pos' \in [Servos -> Angles]
    BY <1>1, <1>4, PosAfterType DEF InputMove, SetAngle
  <2> QED BY <1>4, <2>1 DEF InputMove, stateVars, bufferVars, flagVars, userVars
<1>5. CASE InputRecord(i)
  <2>1. [servo |-> PinServo(i), angle |-> irq_angle[i]] \in Moves
    BY <1>1 DEF Moves
  <2>2. recording' \in Seq(Moves) /\ Len(recording') <= FifoSize
    BY <1>5, <2>1, PushMoveType DEF InputRecord, RecordMove
  <2> QED BY <1>5, <2>2 DEF InputRecord, RecordMove, stateVars, flagVars, userVars
<1>6. CASE InputCount(i)
  <2>1. total_moves' \in 0 .. CounterMod - 1
    BY <1>6, BumpType DEF InputCount, CountMove
  <2> QED BY <1>6, <2>1 DEF InputCount, CountMove, bufferVars, flagVars, userVars
<1>7. CASE InputArm(i)
  BY <1>7 DEF InputArm, ArmTimer, bufferVars, flagVars, userVars
<1>8. CASE InputNotify(i)
  BY <1>8 DEF InputNotify, NotifyReaders, stateVars, bufferVars, userVars
<1> QED
  BY <1>2, <1>3, <1>4, <1>5, <1>6, <1>7, <1>8 DEF InputStep

(* One step of the inactivity timer. *)
LEMMA TimerType ==
  ASSUME TypeOK, TimerExpire \/ TimerStep
  PROVE  TypeOK'
<1> USE DEF TypeOK, StateTypeOK, BufferTypeOK, Modes, TimerPcs
<1>1. CASE TimerExpire
  BY <1>1 DEF TimerExpire, Expire, bufferVars, flagVars, userVars, irqVars
<1>2. CASE TimerCheck
  BY <1>2 DEF TimerCheck, TimeoutCheck, bufferVars, flagVars, userVars, irqVars
<1>3. CASE TimerQueue
  BY <1>3 DEF TimerQueue, TimeoutStep, QueueReplay, flagVars, userVars, irqVars
<1>4. CASE TimerNotify
  BY <1>4 DEF TimerNotify, TimeoutStep, NotifyReaders, bufferVars, userVars, irqVars
<1> QED BY <1>1, <1>2, <1>3, <1>4 DEF TimerStep

(* One step of the replay worker. *)
LEMMA WorkerType ==
  ASSUME TypeOK, WorkerNext
  PROVE  TypeOK'
<1> USE DEF TypeOK, StateTypeOK, BufferTypeOK, WorkerPcs, Modes
<1>1. CASE WorkerBegin
  BY <1>1 DEF WorkerBegin, WorkerEnter, stateVars, flagVars, userVars, irqVars
<1>2. CASE WorkerOom
  BY <1>2 DEF WorkerOom, WorkerStep, stateVars, flagVars, userVars, irqVars
<1>3. CASE WorkerSnapshot
  <2>1. replay_count' \in 0 .. CounterMod - 1
    BY <1>3, BumpType DEF WorkerSnapshot, TakeSnapshot
  <2> QED
    BY <1>3, <2>1, TypesAssumption
    DEF WorkerSnapshot, TakeSnapshot, stateVars, flagVars, userVars, irqVars
<1>4. CASE WorkerCheck
  BY <1>4 DEF WorkerCheck, LoopCheck, stateVars, flagVars, userVars, irqVars
<1>5. CASE WorkerMove
  <2>1. next \in 1 .. Len(snapshot)
    BY <1>5 DEF WorkerMove, WorkerStep
  <2>2. snapshot[next] \in Moves
    BY <2>1
  <2>3. pos' \in [Servos -> Angles]
    BY <1>5, <2>2, PosAfterType DEF WorkerMove, SetAngle, Moves
  <2> QED
    BY <1>5, <2>3 DEF WorkerMove, WorkerStep, stateVars, flagVars, userVars, irqVars
<1>6. CASE WorkerNotify
  BY <1>6, TypesAssumption
  DEF WorkerNotify, LoopAdvance, NotifyReaders, stateVars, userVars, irqVars
<1>7. CASE WorkerComplete
  BY <1>7 DEF WorkerComplete, WorkerStep, SetMode, flagVars, userVars, irqVars
<1>8. CASE WorkerFinish
  BY <1>8 DEF WorkerFinish, WorkerStep, SetFinished, stateVars, userVars, irqVars
<1>9. CASE WorkerExit
  BY <1>9, TypesAssumption
  DEF WorkerExit, WorkerReturn, NotifyReaders, stateVars, userVars, irqVars
<1> QED
  BY <1>1, <1>2, <1>3, <1>4, <1>5, <1>6, <1>7, <1>8, <1>9 DEF WorkerNext

LEMMA NextType == ASSUME TypeOK, [Next]_vars PROVE TypeOK'
<1>1. CASE UNCHANGED vars
  BY <1>1
  DEF vars, TypeOK, StateTypeOK, BufferTypeOK, stateVars, bufferVars, flagVars,
      userVars, irqVars
<1> QED BY <1>1, UserType, InputType, TimerType, WorkerType DEF Next

(* Every state of the driver is well typed: the recording and the worker's *)
(* copy of it fit the fifo, the worker never reads past its copy, and every*)
(* position and recorded angle is within the servo's range.                *)
THEOREM TypeCorrect == Spec => []TypeOK
BY InitType, NextType, PTL DEF Spec

-----------------------------------------------------------------------------
(* Who changes what: the parts of a step that the properties look at. *)

Entering == {"del_timer", "queue"}
Stopping == {"stop_timer", "stop_cancel", "stop_flush", "stop_signal",
             "stop_data", "stop_notify", "reset_clear", "reset_pan",
             "reset_tilt", "reset_tilt2"}

(* A process leaves the others and the softirq and worker contexts alone,  *)
(* sets REPLAY only to start a replay, and leaves a start only by queuing  *)
(* the work.                                                               *)
LEMMA UserFrame ==
  ASSUME TypeOK, NEW u \in Users, UserCall(u) \/ UserStep(u)
  PROVE  /\ \A v \in Users \ {u} : pc'[v] = pc[v] /\ op'[v] = op[v]
         /\ UNCHANGED <<timer_fn, worker, irq_pc>>
         /\ mode' = "REPLAY" => mode = "REPLAY" \/ pc'[u] = "del_timer"
         /\ mode' = "TEACH" => mode = "TEACH" \/ pc'[u] = "teach_clear"
         /\ pc[u] \in Entering => pc'[u] \in Entering \/ StartQueue(u)
         /\ queued' = queued \/ StartQueue(u) \/ StopCancel(u)
         /\ cancelling' = cancelling \/ StopCancel(u) \/ StopFlush(u)
         /\ timer' = timer \/ TeachArm(u) \/ StartDelTimer(u) \/ StopDelTimer(u)
<1> USE DEF TypeOK, Entering, At, Goto, Return, Call, stateVars, bufferVars
<1>1. CASE TeachEnter(u)
  BY <1>1 DEF TeachEnter, SetMode, irqVars
<1>2. CASE TeachClear(u)
  BY <1>2 DEF TeachClear, ClearBuffer, irqVars
<1>3. CASE TeachArm(u)
  BY <1>3 DEF TeachArm, ResetCountAndArm, irqVars
<1>4. CASE ReplayFlag(u)
  BY <1>4 DEF ReplayFlag, irqVars
<1>5. CASE ReplayAccept(u)
  BY <1>5 DEF ReplayAccept, SetMode, irqVars
<1>6. CASE ReplayBusy(u)
  BY <1>6 DEF ReplayBusy, irqVars
<1>7. CASE SetReplayAccept(u)
  BY <1>7 DEF SetReplayAccept, SetMode, irqVars
<1>8. CASE StartDelTimer(u)
  BY <1>8 DEF StartDelTimer, DeleteTimerSync, irqVars
<1>9. CASE StartQueue(u)
  BY <1>9 DEF StartQueue, QueueReplay, irqVars
<1>10. CASE StartNotify(u)
  BY <1>10 DEF StartNotify, irqVars
<1>11. CASE ReplayReturn(u) \/ ReplayInterrupted(u)
  BY <1>11 DEF ReplayReturn, ReplayInterrupted, irqVars
<1>12. CASE StopEnter(u)
  BY <1>12 DEF StopEnter, SetMode, irqVars
<1>13. CASE StopDelTimer(u)
  BY <1>13 DEF StopDelTimer, DeleteTimerSync, irqVars
<1>14. CASE StopCancel(u)
  BY <1>14 DEF StopCancel, CancelBegin, irqVars
<1>15. CASE StopFlush(u)
  BY <1>15 DEF StopFlush, CancelEnd, irqVars
<1>16. CASE StopSignal(u) \/ StopData(u) \/ StopNotify(u)
  BY <1>16 DEF StopSignal, StopData, StopNotify, irqVars
<1>17. CASE ResetClear(u)
  BY <1>17 DEF ResetClear, ClearBuffer, irqVars
<1>18. CASE MoveServo(u) \/ MoveFails(u)
  BY <1>18 DEF MoveServo, MoveFails, userVars, irqVars
<1>19. CASE UserNotify(u)
  BY <1>19 DEF UserNotify, irqVars
<1>20. CASE \/ ResetCentre(u, "reset_pan", "PAN", "reset_tilt")
           \/ ResetCentre(u, "reset_tilt", "TILT", "reset_tilt2")
           \/ ResetCentre(u, "reset_tilt2", "TILT2", "notify")
  BY <1>20 DEF ResetCentre, irqVars
<1> QED
  BY <1>1, <1>2, <1>3, <1>4, <1>5, <1>6, <1>7, <1>8, <1>9, <1>10, <1>11, <1>12, <1>13, <1>14, <1>15, <1>16, <1>17, <1>18, <1>19, <1>20
  DEF UserCall, UserStep

(* A press leaves everybody else alone, can only enter TEACH and, from     *)
(* entering it, is on its way to arm the timer.                            *)
LEMMA InputFrame ==
  ASSUME TypeOK, NEW i \in Pins, InputEnter(i) \/ InputStep(i)
  PROVE  /\ UNCHANGED <<pc, op, timer_fn, worker, queued, cancelling, replay_finished>>
         /\ \A j \in Pins \ {i} : irq_pc'[j] = irq_pc[j]
         /\ mode' = mode \/ (mode' = "TEACH" /\ irq_pc'[i] = "get")
         /\ timer' = timer \/ timer' = "pending"
         /\ irq_pc[i] \in {"get", "move", "record", "count", "arm"} =>
              \/ irq_pc'[i] \in {"get", "move", "record", "count", "arm"}
              \/ timer' = "pending"
BY DEF TypeOK, InputEnter, InputStep, InputGet, InputMove, InputRecord, InputCount,
       InputArm, InputNotify, IrqGoto, SetMode, CountMove, ArmTimer, NotifyReaders,
       RecordMove, stateVars, bufferVars, flagVars, userVars

(* The timer sets REPLAY only to queue the work, and does queue it.        *)
LEMMA TimerFrame ==
  ASSUME TimerExpire \/ TimerStep
  PROVE  /\ UNCHANGED <<pc, op, irq_pc, worker, cancelling, replay_finished>>
         /\ mode' = mode \/ (mode' = "REPLAY" /\ timer_fn' = "queue")
         /\ timer_fn = "queue" => timer_fn' = "queue" \/ TimerQueue
         /\ timer_fn = "check" => timer_fn' = "queue" \/ mode # "TEACH"
         /\ queued' = queued \/ TimerQueue
         /\ timer' = timer \/ timer_fn' = "check"
BY DEF TimerExpire, TimerStep, TimerCheck, TimerQueue, TimerNotify, Expire,
       TimeoutCheck, TimeoutStep, QueueReplay, NotifyReaders, bufferVars, flagVars,
       userVars, irqVars

(* The worker changes the mode only to IDLE, at the end of its loop.       *)
LEMMA WorkerFrame ==
  ASSUME WorkerNext
  PROVE  /\ UNCHANGED <<pc, op, irq_pc, timer_fn, timer, cancelling>>
         /\ mode' = mode \/ WorkerComplete
         /\ WorkerWillComplete => WorkerWillComplete' \/ WorkerComplete
         /\ queued' = queued \/ WorkerBegin
         /\ worker = "finish" => WorkerFinish
         /\ replay_finished' = replay_finished \/ WorkerFinish
BY DEF WorkerNext, WorkerBegin, WorkerEnter, WorkerOom, WorkerStep, WorkerSnapshot,
       TakeSnapshot, WorkerCheck, LoopCheck, WorkerMove, WorkerNotify, LoopAdvance,
       WorkerComplete, SetMode, WorkerFinish, SetFinished, WorkerExit, WorkerReturn,
       NotifyReaders, WorkerWillComplete, WorkerPcs, stateVars, flagVars, userVars,
       irqVars

-----------------------------------------------------------------------------
(* A replay under way is not lost. *)

(* It stays under way until the worker resets the mode at its end, as long *)
(* as nobody is inside cancel_work_sync.                                   *)
LEMMA UnderWayKept ==
  ASSUME TypeOK, ReplayUnderWay, [Next]_vars, cancelling = {}, cancelling' = {}
  PROVE  ReplayUnderWay' \/ WorkerComplete
<1> USE DEF ReplayUnderWay, Starting, WorkerWillComplete
<1>1. CASE UNCHANGED vars
  BY <1>1 DEF vars, stateVars, bufferVars, userVars
<1>2. ASSUME NEW u \in Users, UserCall(u) \/ UserStep(u)
      PROVE  ReplayUnderWay'
  <2>1. StartQueue(u) => queued'
    BY DEF StartQueue, QueueReplay
  <2>2. ~StopCancel(u)
    BY DEF StopCancel, CancelBegin
  <2>3. pc \in [Users -> UserPcs]
    BY DEF TypeOK
  <2> QED BY <1>2, <2>1, <2>2, <2>3, UserFrame DEF Entering
<1>3. ASSUME NEW i \in Pins, InputEnter(i) \/ InputStep(i)
      PROVE  ReplayUnderWay'
  BY <1>3, InputFrame
<1>4. CASE TimerExpire \/ TimerStep
  <2>1. TimerQueue => queued'
    BY DEF TimerQueue, QueueReplay
  <2> QED BY <1>4, <2>1, TimerFrame
<1>5. CASE WorkerNext
  <2>1. WorkerBegin => worker' = "alloc"
    BY DEF WorkerBegin, WorkerEnter
  <2> QED BY <1>5, <2>1, WorkerFrame
<1> QED BY <1>1, <1>2, <1>3, <1>4, <1>5 DEF Next

LEMMA AccountedKept ==
  ASSUME TypeOK, ReplayAccounted, [Next]_vars, cancelling = {}, cancelling' = {}
  PROVE  ReplayAccounted'
<1> USE DEF ReplayAccounted
<1> SUFFICES ASSUME mode' = "REPLAY" PROVE ReplayUnderWay'
  OBVIOUS
<1>1. CASE mode = "REPLAY"
  <2>1. ~WorkerComplete
    BY DEF WorkerComplete, SetMode
  <2> QED BY <1>1, <2>1, UnderWayKept
<1>2. CASE mode # "REPLAY"
  <2> USE DEF ReplayUnderWay, Starting
  <2>1. mode' # mode
    BY <1>2
  <2>2. ASSUME NEW u \in Users, UserCall(u) \/ UserStep(u)
        PROVE  ReplayUnderWay'
    BY <1>2, <2>2, UserFrame
  <2>3. ASSUME NEW i \in Pins, InputEnter(i) \/ InputStep(i)
        PROVE  FALSE
    BY <2>1, <2>3, InputFrame
  <2>4. CASE TimerExpire \/ TimerStep
    BY <2>1, <2>4, TimerFrame
  <2>5. CASE WorkerNext
    <3>1. WorkerComplete => mode' = "IDLE"
      BY DEF WorkerComplete, SetMode
    <3> QED BY <2>1, <2>5, <3>1, WorkerFrame
  <2> QED BY <2>1, <2>2, <2>3, <2>4, <2>5 DEF Next, vars, stateVars
<1> QED BY <1>1, <1>2

(* Whatever the requests, only a STOP or RESET inside cancel_work_sync can *)
(* leave the device in REPLAY with no replay to end it.                    *)
THEOREM OnlyStopOrphansTheorem == Spec => OnlyStopOrphans
<1>1. TypeOK /\ [Next]_vars =>
        [ReplayAccounted /\ ~ReplayAccounted' => cancelling \union cancelling' # {}]_vars
  BY AccountedKept
<1> QED BY <1>1, TypeCorrect, PTL DEF Spec, OnlyStopOrphans

-----------------------------------------------------------------------------
(* Without STOP and RESET requests. *)

NoStop == Commands \cap {"STOP", "RESET"} = {}

NotStopping == cancelling = {} /\ \A u \in Users : pc[u] \notin Stopping

LEMMA InitNotStopping == Init => NotStopping
BY DEF Init, BufferInit, NotStopping, Stopping

LEMMA NotStoppingKept ==
  ASSUME NoStop, TypeOK, NotStopping, [Next]_vars
  PROVE  NotStopping'
<1> USE DEF NotStopping
<1>1. CASE UNCHANGED vars
  BY <1>1 DEF vars, bufferVars, userVars
<1>2. ASSUME NEW u \in Users, UserCall(u) \/ UserStep(u)
      PROVE  NotStopping'
  <2>1. ~StopCancel(u) /\ ~StopFlush(u)
    BY DEF StopCancel, StopFlush, At, Stopping
  <2>2. cancelling' = cancelling
    BY <1>2, <2>1, UserFrame
  <2>3. pc'[u] \notin Stopping
    <3>1. pc \in [Users -> UserPcs] /\ pc[u] \notin Stopping
      BY DEF TypeOK
    <3>2. CASE UserCall(u)
      BY <3>1, <3>2
      DEF NoStop, UserCall, TeachEnter, ReplayFlag, SetReplayAccept, StopEnter,
          MoveServo, MoveFails, ReplayInterrupted, Call, Return, At, Stopping, userVars
    <3>3. CASE UserStep(u)
      BY <3>1, <3>3
      DEF UserStep, TeachClear, TeachArm, ReplayAccept, ReplayBusy, StartDelTimer,
          StartQueue, StartNotify, ReplayReturn, StopDelTimer, StopCancel, StopFlush,
          StopSignal, StopData, StopNotify, ResetClear, ResetCentre, UserNotify,
          Goto, Return, At, Stopping
    <3> QED BY <1>2, <3>2, <3>3
  <2> QED BY <1>2, <2>2, <2>3, UserFrame
<1>3. ASSUME NEW i \in Pins, InputEnter(i) \/ InputStep(i)
      PROVE  NotStopping'
  BY <1>3, InputFrame
<1>4. CASE TimerExpire \/ TimerStep
  BY <1>4, TimerFrame
<1>5. CASE WorkerNext
  BY <1>5, WorkerFrame
<1> QED BY <1>1, <1>2, <1>3, <1>4, <1>5 DEF Next

LEMMA NeverStopping == ASSUME NoStop PROVE Spec => []NotStopping
BY InitNotStopping, NotStoppingKept, TypeCorrect, PTL DEF Spec

(* While the device says REPLAY, a replay whose end resets the mode is     *)
(* being started, pending or running, however processes, presses, the      *)
(* timer and the worker interleave.                                        *)
THEOREM ReplayAccountedTheorem ==
  ASSUME NoStop PROVE Spec => []ReplayAccounted
<1>1. Init => ReplayAccounted
  BY DEF Init, StateInit, ReplayAccounted
<1>2. TypeOK /\ NotStopping /\ NotStopping' /\ ReplayAccounted /\ [Next]_vars
        => ReplayAccounted'
  BY AccountedKept DEF NotStopping
<1> QED BY <1>1, <1>2, TypeCorrect, NeverStopping, PTL DEF Spec

(* Whoever is on its way to signal_replay_done, or to start a replay or to *)
(* find one running.                                                       *)
Signallers == {"flagged", "stop_timer", "stop_cancel", "stop_flush", "stop_signal"}
Waker == \/ replay_finished
         \/ ReplayUnderWay
         \/ worker = "finish"
         \/ \E v \in Users : pc[v] \in Signallers

(* The waker of a writer that is already blocked. *)
LEMMA WakerKept ==
  ASSUME TypeOK, ReplayAccounted, Waker, [Next]_vars, cancelling = {}, cancelling' = {}
  PROVE  Waker'
<1>1. CASE ReplayUnderWay
  <2>1. WorkerComplete => worker' = "finish"
    BY DEF WorkerComplete, WorkerStep
  <2> QED BY <1>1, <2>1, UnderWayKept DEF Waker
<1>2. CASE worker = "finish"
  <2>1. worker' = worker \/ WorkerNext
    BY UserFrame, InputFrame, TimerFrame DEF Next, vars, bufferVars
  <2>2. WorkerFinish => replay_finished'
    BY DEF WorkerFinish, SetFinished
  <2> QED BY <1>2, <2>1, <2>2, WorkerFrame DEF Waker
<1>3. CASE replay_finished
  <2>1. ASSUME NEW u \in Users, UserCall(u) \/ UserStep(u)
        PROVE  replay_finished' \/ pc'[u] = "flagged"
    <3>1. pc \in [Users -> UserPcs]
      BY DEF TypeOK
    <3>2. CASE UserCall(u)
      BY <1>3, <3>1, <3>2
      DEF UserCall, TeachEnter, ReplayFlag, SetReplayAccept, StopEnter, MoveServo,
          MoveFails, ReplayInterrupted, Call, flagVars
    <3>3. CASE UserStep(u)
      BY <1>3, <3>3
      DEF UserStep, TeachClear, TeachArm, ReplayAccept, ReplayBusy, StartDelTimer,
          StartQueue, StartNotify, ReplayReturn, StopDelTimer, StopCancel, StopFlush,
          StopSignal, StopData, StopNotify, ResetClear, ResetCentre, UserNotify,
          NotifyReaders, SetFinished, flagVars
    <3> QED BY <2>1, <3>2, <3>3
  <2>2. WorkerNext => replay_finished'
    <3>1. WorkerFinish => replay_finished'
      BY DEF WorkerFinish, SetFinished
    <3> QED BY <1>3, <3>1, WorkerFrame
  <2>3. replay_finished' \/ \E u \in Users : pc'[u] = "flagged"
    BY <1>3, <2>1, <2>2, InputFrame, TimerFrame DEF Next, vars, flagVars
  <2> QED BY <2>3 DEF Waker, Signallers
<1>4. ASSUME NEW v \in Users, pc[v] \in Signallers
      PROVE  ReplayUnderWay' \/ worker' = "finish" \/ replay_finished' \/ pc'[v] \in Signallers
  <2>1. pc'[v] = pc[v] \/ UserCall(v) \/ UserStep(v)
    BY UserFrame, InputFrame, TimerFrame, WorkerFrame DEF Next, vars, userVars
  <2>2. ASSUME UserCall(v) \/ UserStep(v)
        PROVE  \/ ReplayAccept(v) \/ ReplayBusy(v)
               \/ StopDelTimer(v) \/ StopCancel(v) \/ StopFlush(v) \/ StopSignal(v)
    BY <1>4, <2>2
    DEF UserCall, TeachEnter, ReplayFlag, SetReplayAccept, StopEnter, MoveServo,
        MoveFails, ReplayInterrupted, Call, At, UserStep, TeachClear, TeachArm,
        StartDelTimer, StartQueue, StartNotify, ReplayReturn, StopData, StopNotify,
        ResetClear, ResetCentre, UserNotify, Signallers
  <2>3. ReplayAccept(v) => ReplayUnderWay'
    BY DEF ReplayAccept, Goto, TypeOK, ReplayUnderWay, Starting
  <2>4. ReplayBusy(v) => ReplayUnderWay
    BY DEF ReplayBusy, ReplayAccounted
  <2>5. ReplayUnderWay => ReplayUnderWay' \/ worker' = "finish"
    BY UnderWayKept DEF WorkerComplete, WorkerStep
  <2>6. StopDelTimer(v) \/ StopCancel(v) \/ StopFlush(v) => pc'[v] \in Signallers
    BY DEF StopDelTimer, StopCancel, StopFlush, Goto, TypeOK, Signallers
  <2>7. StopSignal(v) => replay_finished'
    BY DEF StopSignal, SetFinished
  <2> QED BY <1>4, <2>1, <2>2, <2>3, <2>4, <2>5, <2>6, <2>7
<1> QED BY <1>1, <1>2, <1>3, <1>4 DEF Waker

LEMMA WaiterKept ==
  ASSUME TypeOK, ReplayAccounted, WaiterHasWaker, [Next]_vars,
         cancelling = {}, cancelling' = {}
  PROVE  WaiterHasWaker'
<1> DEFINE Blocked(u) == op[u] = "REPLAY" /\ pc[u] \in {"started", "wait"}
<1>1. WaiterHasWaker <=> \A u \in Users : Blocked(u) => Waker
  BY DEF WaiterHasWaker, Waker, Signallers
<1>2. WaiterHasWaker' <=> \A u \in Users : Blocked(u)' => Waker'
  BY DEF WaiterHasWaker, Waker, Signallers
<1>3. Waker => Waker'
  BY WakerKept
<1>4. ASSUME NEW u \in Users, Blocked(u)'
      PROVE  Waker'
  <2>1. CASE Blocked(u)
    BY <1>1, <1>3, <2>1
  <2>2. CASE ~Blocked(u)
    <3>1. UserCall(u) \/ UserStep(u)
      BY <1>4, <2>2, UserFrame, InputFrame, TimerFrame, WorkerFrame DEF Next, vars, userVars
    <3>2. pc \in [Users -> UserPcs] /\ op \in [Users -> AllCommands \union {"none"}]
      BY DEF TypeOK
    <3>3. StartQueue(u)
      <4>1. CASE UserCall(u)
        BY <1>4, <3>2, <4>1, <2>2
        DEF UserCall, TeachEnter, ReplayFlag, SetReplayAccept, StopEnter, MoveServo,
            MoveFails, ReplayInterrupted, Call, Return, At, userVars
      <4>2. CASE UserStep(u)
        BY <1>4, <3>2, <4>2, <2>2
        DEF UserStep, TeachClear, TeachArm, ReplayAccept, ReplayBusy, StartDelTimer,
            StartNotify, ReplayReturn, StopDelTimer, StopCancel, StopFlush, StopSignal,
            StopData, StopNotify, ResetClear, ResetCentre, UserNotify, Goto, Return, At
      <4> QED BY <3>1, <4>1, <4>2
    <3>4. queued'
      BY <3>3 DEF StartQueue, QueueReplay
    <3> QED BY <3>4 DEF ReplayUnderWay, Waker
  <2> QED BY <2>1, <2>2
<1> QED BY <1>2, <1>4

(* Whatever the requests, only a STOP or RESET inside cancel_work_sync can *)
(* leave a blocked writer with nobody to wake it, unless the device was in *)
(* an orphaned REPLAY before.                                              *)
THEOREM OnlyStopStrandsTheorem == Spec => OnlyStopStrands
<1>1. TypeOK /\ [Next]_vars =>
        [ReplayAccounted /\ WaiterHasWaker /\ ~WaiterHasWaker'
           => cancelling \union cancelling' # {}]_vars
  BY WaiterKept
<1> QED BY <1>1, TypeCorrect, PTL DEF Spec, OnlyStopStrands

(* A writer blocked in write(REPLAY) always has somebody left to wake it.  *)
THEOREM WaiterHasWakerTheorem ==
  ASSUME NoStop PROVE Spec => []WaiterHasWaker
<1>1. Init => WaiterHasWaker
  BY DEF Init, WaiterHasWaker
<1>2. TypeOK /\ NotStopping /\ NotStopping' /\ ReplayAccounted /\ WaiterHasWaker
        /\ [Next]_vars => WaiterHasWaker'
  BY WaiterKept DEF NotStopping
<1> QED
  BY <1>1, <1>2, TypeCorrect, NeverStopping, ReplayAccountedTheorem, PTL DEF Spec

(* cancel_work_sync is entered from "stop_cancel" only. *)
LEMMA NobodyCancels ==
  ASSUME TypeOK, ~InStop, cancelling = {}, [Next]_vars
  PROVE  cancelling' = {}
<1>1. \A u \in Users : ~StopCancel(u) /\ ~StopFlush(u)
  BY DEF InStop, StopCancel, StopFlush, At
<1> QED
  BY <1>1, UserFrame, InputFrame, TimerFrame, WorkerFrame DEF Next, vars, bufferVars

(* A step can lose the timer of a TEACH only while somebody is in STOP.    *)
LEMMA TeachTimedKept ==
  ASSUME TypeOK, ~InStop, cancelling = {}, TeachTimed, [Next]_vars
  PROVE  TeachTimed'
<1> SUFFICES ASSUME mode' = "TEACH"
             PROVE  (Timed \/ ReplayUnderWay)'
  BY DEF TeachTimed
<1> USE DEF Timed
<1>1. CASE ReplayUnderWay
  <2>1. ~WorkerComplete
    BY DEF WorkerComplete, SetMode
  <2> QED BY <1>1, <2>1, NobodyCancels, UnderWayKept
<1>2. CASE UNCHANGED vars
  BY <1>2 DEF vars, stateVars, bufferVars, userVars, irqVars, TeachTimed, ReplayUnderWay,
              Starting, WorkerWillComplete
<1>3. ASSUME NEW u \in Users, UserCall(u) \/ UserStep(u), ~ReplayUnderWay
      PROVE  (Timed \/ ReplayUnderWay)'
  <2>1. pc \in [Users -> UserPcs]
    BY DEF TypeOK
  <2>2. ~StartDelTimer(u) /\ ~StopDelTimer(u)
    BY <1>3 DEF StartDelTimer, StopDelTimer, At, ReplayUnderWay, Starting, InStop
  <2>3. TeachArm(u) => timer' = "pending"
    BY DEF TeachArm, ResetCountAndArm
  <2>4. pc[u] = "teach_clear" => pc'[u] \in {"teach_clear", "teach_arm"}
    BY <1>3, <2>1
    DEF UserCall, TeachEnter, ReplayFlag, SetReplayAccept, StopEnter, MoveServo,
        MoveFails, ReplayInterrupted, Call, At, UserStep, TeachClear, TeachArm,
        ReplayAccept, ReplayBusy, StartDelTimer, StartQueue, StartNotify, ReplayReturn,
        StopDelTimer, StopCancel, StopFlush, StopSignal, StopData, StopNotify,
        ResetClear, ResetCentre, UserNotify, Goto
  <2>5. pc[u] = "teach_arm" => TeachArm(u)
    BY <1>3
    DEF UserCall, TeachEnter, ReplayFlag, SetReplayAccept, StopEnter, MoveServo,
        MoveFails, ReplayInterrupted, Call, At, UserStep, TeachClear,
        ReplayAccept, ReplayBusy, StartDelTimer, StartQueue, StartNotify, ReplayReturn,
        StopDelTimer, StopCancel, StopFlush, StopSignal, StopData, StopNotify,
        ResetClear, ResetCentre, UserNotify
  <2>6. mode = "TEACH" \/ pc'[u] = "teach_clear"
    BY <1>3, UserFrame
  <2> QED BY <1>3, <2>2, <2>3, <2>4, <2>5, <2>6, UserFrame DEF TeachTimed
<1>4. ASSUME NEW i \in Pins, InputEnter(i) \/ InputStep(i), ~ReplayUnderWay
      PROVE  (Timed \/ ReplayUnderWay)'
  BY <1>4, InputFrame DEF TeachTimed
<1>5. CASE (TimerExpire \/ TimerStep) /\ ~ReplayUnderWay
  BY <1>5, TimerFrame DEF TeachTimed, ReplayUnderWay, Starting
<1>6. CASE WorkerNext /\ ~ReplayUnderWay
  <2>1. WorkerComplete => mode' = "IDLE"
    BY DEF WorkerComplete, SetMode
  <2> QED BY <1>6, <2>1, WorkerFrame DEF TeachTimed
<1> QED BY <1>1, <1>2, <1>3, <1>4, <1>5, <1>6 DEF Next

(* TEACH always has an inactivity timer, or somebody about to arm it, or a *)
(* replay that will end it.                                                *)
THEOREM TeachTimedTheorem ==
  ASSUME NoStop PROVE Spec => []TeachTimed
<1>1. Init => TeachTimed
  BY DEF Init, StateInit, TeachTimed
<1>2. TypeOK /\ NotStopping /\ TeachTimed /\ [Next]_vars => TeachTimed'
  BY TeachTimedKept DEF NotStopping, Stopping, InStop
<1> QED BY <1>1, <1>2, TypeCorrect, NeverStopping, PTL DEF Spec

(* The processes inside cancel_work_sync are those between its halves. *)
CancelsInFlush == cancelling \subseteq {u \in Users : pc[u] = "stop_flush"}

LEMMA CancelsKept ==
  ASSUME TypeOK, CancelsInFlush, [Next]_vars
  PROVE  CancelsInFlush'
<1> USE DEF CancelsInFlush, TypeOK
<1>1. ASSUME NEW u \in Users, UserCall(u) \/ UserStep(u)
      PROVE  CancelsInFlush'
  <2>1. CASE StopCancel(u)
    BY <2>1 DEF StopCancel, Goto, CancelBegin
  <2>2. CASE StopFlush(u)
    BY <2>2 DEF StopFlush, Goto, CancelEnd
  <2>3. CASE ~StopCancel(u) /\ ~StopFlush(u)
    <3>1. cancelling' = cancelling
      BY <1>1, <2>3, UserFrame
    <3>2. pc[u] # "stop_flush" /\ \A v \in Users \ {u} : pc'[v] = pc[v]
      BY <1>1, <2>3, UserFrame
      DEF UserCall, TeachEnter, ReplayFlag, SetReplayAccept, StopEnter, MoveServo,
          MoveFails, ReplayInterrupted, Call, At, UserStep, TeachClear, TeachArm,
          ReplayAccept, ReplayBusy, StartDelTimer, StartQueue, StartNotify, ReplayReturn,
          StopDelTimer, StopSignal, StopData, StopNotify, ResetClear, ResetCentre,
          UserNotify
    <3> QED BY <3>1, <3>2
  <2> QED BY <2>1, <2>2, <2>3
<1>2. CASE UNCHANGED vars
  BY <1>2 DEF vars, bufferVars, userVars
<1> QED BY <1>1, <1>2, InputFrame, TimerFrame, WorkerFrame DEF Next

(* Whatever the requests, only a STOP or RESET that has not yet cancelled  *)
(* the replay can leave the device in TEACH with nothing to end it.        *)
THEOREM OnlyStopUntimesTheorem == Spec => OnlyStopUntimes
<1>1. Init => CancelsInFlush
  BY DEF Init, BufferInit, CancelsInFlush
<1>2. TypeOK /\ CancelsInFlush /\ [Next]_vars => CancelsInFlush'
  BY CancelsKept
<1>3. TypeOK /\ CancelsInFlush /\ [Next]_vars =>
        [TeachTimed /\ ~TeachTimed' => InStop]_vars
  <2>1. CancelsInFlush /\ ~InStop => cancelling = {}
    BY DEF CancelsInFlush, InStop
  <2> QED BY <2>1, TeachTimedKept
<1> QED BY <1>1, <1>2, <1>3, TypeCorrect, PTL DEF Spec, OnlyStopUntimes

-----------------------------------------------------------------------------
(* Without TEACH requests either, a replay is exclusive. *)

OnlyReplays == NoStop /\ "TEACH" \notin Commands

(* What ReplayExclusive depends on. *)
ReplayPlaces ==
  << mode = "REPLAY", Starters, timer_fn = "queue", queued, WorkerWillComplete >>

LEMMA PlacesKept ==
  ASSUME ReplayExclusive, UNCHANGED ReplayPlaces
  PROVE  ReplayExclusive'
BY DEF ReplayExclusive, ReplayPlaces, ReplayUnderWay, Starting, Starters

LEMMA UserExclusive ==
  ASSUME OnlyReplays, TypeOK, NotStopping, ReplayExclusive,
         NEW u \in Users, UserCall(u) \/ UserStep(u)
  PROVE  ReplayExclusive'
<1> USE DEF TypeOK
<1>1. ~TeachEnter(u) /\ ~StopEnter(u)
  BY DEF OnlyReplays, NoStop, TeachEnter, StopEnter, Call
<1>2. CASE ReplayAccept(u) \/ SetReplayAccept(u)
  <2>1. mode # "REPLAY" /\ mode' = "REPLAY" /\ pc' = [pc EXCEPT ![u] = "del_timer"]
        /\ UNCHANGED <<timer_fn, queued, worker>>
    BY <1>2 DEF ReplayAccept, SetReplayAccept, Call, Goto, SetMode, bufferVars
  <2>2. Starters = {} /\ timer_fn # "queue" /\ ~queued /\ ~WorkerWillComplete
    BY <2>1 DEF ReplayExclusive, ReplayUnderWay, Starting, Starters
  <2>3. Starters' = {u}
    BY <2>1, <2>2 DEF Starters
  <2> QED
    BY <2>1, <2>2, <2>3
    DEF ReplayExclusive, ReplayUnderWay, Starting, Starters, WorkerWillComplete
<1>3. CASE StartQueue(u)
  <2>1. pc[u] = "queue" /\ pc' = [pc EXCEPT ![u] = "started"] /\ queued'
        /\ UNCHANGED <<mode, timer_fn, worker>>
    BY <1>3 DEF StartQueue, At, Goto, QueueReplay, NotStopping, stateVars
  <2>2. u \in Starters
    BY <2>1 DEF Starters
  <2>3. mode = "REPLAY" /\ timer_fn # "queue" /\ ~WorkerWillComplete /\ Starters = {u}
    BY <2>2 DEF ReplayExclusive, ReplayUnderWay, Starting, Starters
  <2>4. Starters' = {}
    BY <2>1, <2>3 DEF Starters
  <2> QED
    BY <2>1, <2>3, <2>4
    DEF ReplayExclusive, ReplayUnderWay, Starting, Starters, WorkerWillComplete
<1>4. CASE ~ReplayAccept(u) /\ ~SetReplayAccept(u) /\ ~StartQueue(u)
  <2>1. UNCHANGED <<mode, timer_fn, queued, worker>>
    <3>1. ~StopCancel(u)
      BY DEF StopCancel, At, NotStopping, Stopping
    <3> QED
      BY <1>1, <1>4, <3>1
      DEF UserCall, ReplayFlag, MoveServo, MoveFails, ReplayInterrupted, UserStep,
          TeachClear, ClearBuffer, TeachArm, ResetCountAndArm, ReplayBusy,
          StartDelTimer, DeleteTimerSync, StartNotify, ReplayReturn, StopDelTimer,
          StopFlush, CancelEnd, StopSignal, StopData, StopNotify, ResetClear,
          ResetCentre, UserNotify, stateVars, bufferVars
  <2>2. pc' = pc \/ \E p \in UserPcs :
          pc' = [pc EXCEPT ![u] = p] /\ (p \in Entering <=> pc[u] \in Entering)
    <3>1. CASE UserCall(u)
      BY <1>1, <1>4, <3>1
      DEF UserCall, ReplayFlag, MoveServo, MoveFails, ReplayInterrupted, Call, Return,
          At, UserPcs, Entering, userVars
    <3>2. CASE UserStep(u)
      BY <1>1, <1>4, <3>2
      DEF UserStep, TeachClear, TeachArm, ReplayBusy, StartDelTimer, StartNotify,
          ReplayReturn, StopDelTimer, StopCancel, StopFlush, StopSignal, StopData,
          StopNotify, ResetClear, ResetCentre, UserNotify, At, Goto, Return, UserPcs,
          Entering
    <3> QED BY <3>1, <3>2
  <2>3. Starters' = Starters
    BY <2>2 DEF Starters, Entering
  <2> QED BY <2>1, <2>3, PlacesKept DEF ReplayPlaces, WorkerWillComplete
<1> QED BY <1>2, <1>3, <1>4

LEMMA OtherExclusive ==
  ASSUME TypeOK, NotStopping, ReplayExclusive,
         \/ \E i \in Pins : InputEnter(i) \/ InputStep(i)
         \/ TimerExpire \/ TimerStep
         \/ WorkerNext
  PROVE  ReplayExclusive'
<1>1. UNCHANGED <<pc, Starters>>
  BY InputFrame, TimerFrame, WorkerFrame DEF Starters
<1>2. ASSUME NEW i \in Pins, InputEnter(i) \/ InputStep(i)
      PROVE  ReplayExclusive'
  <2>1. UNCHANGED <<timer_fn, queued, worker>>
    BY <1>2, InputFrame
  <2>2. mode = "REPLAY" <=> mode' = "REPLAY"
    BY <1>2
    DEF InputEnter, SetMode, InputStep, InputGet, InputMove, InputRecord, InputCount,
        CountMove, InputArm, ArmTimer, InputNotify, stateVars
  <2> QED BY <1>1, <2>1, <2>2, PlacesKept DEF ReplayPlaces, WorkerWillComplete
<1>3. CASE TimerExpire \/ TimerNotify
  BY <1>1, <1>3, PlacesKept
  DEF TimerExpire, Expire, TimerNotify, TimeoutStep, ReplayPlaces, WorkerWillComplete,
      bufferVars
<1>4. CASE TimerCheck
  BY <1>1, <1>4
  DEF TimerCheck, TimeoutCheck, ReplayExclusive, ReplayUnderWay, Starting, Starters,
      WorkerWillComplete, bufferVars
<1>5. CASE TimerQueue
  BY <1>1, <1>5
  DEF TimerQueue, TimeoutStep, QueueReplay, NotStopping, ReplayExclusive,
      ReplayUnderWay, Starting, Starters, WorkerWillComplete
<1>6. CASE WorkerBegin
  BY <1>1, <1>6
  DEF WorkerBegin, WorkerEnter, ReplayExclusive, ReplayUnderWay, Starting, Starters,
      WorkerWillComplete, stateVars
<1>7. CASE WorkerComplete
  BY <1>1, <1>7
  DEF WorkerComplete, WorkerStep, SetMode, ReplayExclusive, ReplayUnderWay, Starting,
      Starters, WorkerWillComplete
<1>8. CASE WorkerNext /\ ~WorkerBegin /\ ~WorkerComplete
  <2>1. UNCHANGED <<mode, timer_fn, queued>>
    BY <1>8, WorkerFrame
  <2>2. WorkerWillComplete' <=> WorkerWillComplete
    BY <1>8
    DEF WorkerNext, WorkerOom, WorkerStep, WorkerSnapshot, TakeSnapshot, WorkerCheck,
        LoopCheck, WorkerMove, WorkerNotify, LoopAdvance, WorkerFinish, WorkerExit,
        WorkerReturn, WorkerWillComplete
  <2>3. WorkerWillComplete' = WorkerWillComplete
    BY <2>2 DEF WorkerWillComplete
  <2> QED BY <1>1, <2>1, <2>3, PlacesKept DEF ReplayPlaces
<1> QED BY <1>2, <1>3, <1>4, <1>5, <1>6, <1>7, <1>8 DEF TimerStep

(* Whoever starts replays - processes or the timer - they never overlap,   *)
(* and the device says REPLAY exactly while one is under way.              *)
THEOREM ReplayExclusiveTheorem ==
  ASSUME OnlyReplays PROVE Spec => []ReplayExclusive
<1>1. Init => ReplayExclusive
  BY DEF Init, StateInit, BufferInit, ReplayExclusive, ReplayUnderWay, Starting,
         Starters, WorkerWillComplete
<1>2. TypeOK /\ NotStopping /\ ReplayExclusive /\ [Next]_vars => ReplayExclusive'
  <2>1. ReplayExclusive /\ UNCHANGED vars => ReplayExclusive'
    BY PlacesKept
    DEF vars, stateVars, bufferVars, userVars, ReplayPlaces, Starters,
        WorkerWillComplete
  <2> QED BY <2>1, UserExclusive, OtherExclusive DEF Next
<1>3. Spec => []NotStopping
  BY NeverStopping DEF OnlyReplays
<1> QED BY <1>1, <1>2, <1>3, TypeCorrect, PTL DEF Spec

(* A TEACH is not undone by the end of a replay: with nobody to enter      *)
(* TEACH while a replay is under way but the presses, which REPLAY keeps   *)
(* out, the worker's unconditional store of IDLE only ever ends REPLAY.    *)
THEOREM TeachKeptTheorem ==
  ASSUME OnlyReplays PROVE Spec => TeachKept
<1>1. ASSUME TypeOK, ReplayExclusive, [Next]_vars, mode = "TEACH", mode' = "IDLE"
      PROVE  \E u \in Users : StopEnter(u)
  <2>1. ~WorkerComplete
    BY <1>1 DEF ReplayExclusive, ReplayUnderWay, WorkerWillComplete, WorkerComplete,
                WorkerStep
  <2>2. ASSUME NEW u \in Users, UserCall(u) \/ UserStep(u)
        PROVE  StopEnter(u)
    BY <1>1, <2>2
    DEF UserCall, TeachEnter, ReplayFlag, SetReplayAccept, MoveServo, MoveFails,
        ReplayInterrupted, UserStep, TeachClear, TeachArm, ResetCountAndArm,
        ReplayAccept, ReplayBusy, StartDelTimer, DeleteTimerSync, StartQueue,
        StartNotify, ReplayReturn, StopDelTimer, StopCancel, StopFlush, StopSignal,
        StopData, StopNotify, ResetClear, ResetCentre, UserNotify, SetMode, stateVars
  <2> QED
    BY <1>1, <2>1, <2>2, InputFrame, TimerFrame, WorkerFrame DEF Next, vars, stateVars
<1>2. TypeOK /\ ReplayExclusive /\ [Next]_vars
        => [mode = "TEACH" /\ mode' = "IDLE" => \E u \in Users : StopEnter(u)]_vars
  BY <1>1
<1> QED BY <1>2, TypeCorrect, ReplayExclusiveTheorem, PTL DEF Spec, TeachKept

-----------------------------------------------------------------------------
(* The recording as EchoQueue. *)

(* A worker that is about to copy the recording has freed its last copy.   *)
CopyFreed == worker \in {"idle", "alloc"} => snapshot = <<>>

LEMMA CopyKept ==
  ASSUME TypeOK, CopyFreed, [Next]_vars
  PROVE  CopyFreed'
<1> USE DEF CopyFreed
<1>1. ASSUME NEW u \in Users, UserCall(u) \/ UserStep(u)
      PROVE  CopyFreed'
  BY <1>1
  DEF UserCall, TeachEnter, ReplayFlag, SetReplayAccept, StopEnter, MoveServo,
      MoveFails, ReplayInterrupted, UserStep, TeachClear, ClearBuffer, TeachArm,
      ReplayAccept, ReplayBusy, StartDelTimer, StartQueue, QueueReplay, StartNotify,
      ReplayReturn, StopDelTimer, StopCancel, CancelBegin, StopFlush, CancelEnd,
      StopSignal, StopData, StopNotify, ResetClear, ResetCentre, UserNotify, bufferVars
<1>2. ASSUME NEW i \in Pins, InputEnter(i) \/ InputStep(i)
      PROVE  CopyFreed'
  BY <1>2
  DEF InputEnter, InputStep, InputGet, InputMove, InputRecord, RecordMove, InputCount,
      InputArm, InputNotify, bufferVars
<1>3. CASE TimerExpire \/ TimerStep
  BY <1>3 DEF TimerExpire, TimerStep, TimerCheck, TimerQueue, QueueReplay, TimerNotify,
              bufferVars
<1>4. CASE WorkerNext
  BY <1>4
  DEF WorkerNext, WorkerBegin, WorkerEnter, WorkerOom, WorkerStep, WorkerSnapshot,
      TakeSnapshot, WorkerCheck, LoopCheck, WorkerMove, WorkerNotify, LoopAdvance,
      WorkerComplete, WorkerFinish, WorkerExit, WorkerReturn
<1>5. CASE UNCHANGED vars
  BY <1>5 DEF vars, bufferVars
<1> QED BY <1>1, <1>2, <1>3, <1>4, <1>5 DEF Next

LEMMA QueueStep ==
  ASSUME TypeOK, CopyFreed, [Next]_vars
  PROVE  [Recorder!Next]_(Recorder!queueVars)
<1> USE DEF Recorder!queueVars, Recorder!Next, Recorder!Record, Recorder!Clear,
            Recorder!Take, Recorder!Release
<1>1. CASE UNCHANGED vars
  BY <1>1 DEF vars, bufferVars
<1>2. ASSUME NEW u \in Users, UserCall(u) \/ UserStep(u)
      PROVE  [Recorder!Next]_(Recorder!queueVars)
  <2>1. ClearBuffer \/ UNCHANGED <<recording, snapshot>>
    BY <1>2
    DEF UserCall, TeachEnter, ReplayFlag, SetReplayAccept, StopEnter, MoveServo,
        MoveFails, ReplayInterrupted, UserStep, TeachClear, TeachArm, ReplayAccept,
        ReplayBusy, StartDelTimer, StartQueue, QueueReplay, StartNotify, ReplayReturn,
        StopDelTimer, StopCancel, CancelBegin, StopFlush, CancelEnd, StopSignal,
        StopData, StopNotify, ResetClear, ResetCentre, UserNotify, bufferVars
  <2>2. CASE ClearBuffer
    <3>1. Recorder!Clear
      BY <2>2 DEF ClearBuffer
    <3> QED BY <3>1
  <2>3. CASE UNCHANGED <<recording, snapshot>>
    BY <2>3
  <2> QED BY <2>1, <2>2, <2>3
<1>3. ASSUME NEW i \in Pins, InputEnter(i) \/ InputStep(i)
      PROVE  [Recorder!Next]_(Recorder!queueVars)
  <2>1. CASE InputRecord(i)
    <3>1. PinServo(i) \in Servos /\ irq_angle[i] \in Angles
      BY DEF PinServo, Servos, TypeOK
    <3>2. [servo |-> PinServo(i), angle |-> irq_angle[i]] \in Moves
      BY <3>1 DEF Moves
    <3>3. PICK m \in Moves : RecordMove(m)
      BY <2>1, <3>2 DEF InputRecord
    <3>4. Recorder!Record(m)
      BY <3>3 DEF RecordMove, PushMove, Recorder!PushMove
    <3> QED BY <3>4
  <2>2. CASE ~InputRecord(i)
    BY <1>3, <2>2
    DEF InputEnter, InputStep, InputGet, InputMove, InputCount, InputArm, InputNotify,
        bufferVars
  <2> QED BY <2>1, <2>2
<1>4. CASE TimerExpire \/ TimerStep
  BY <1>4 DEF TimerExpire, TimerStep, TimerCheck, TimerQueue, QueueReplay, TimerNotify,
              bufferVars
<1>5. CASE WorkerNext
  BY <1>5
  DEF WorkerNext, WorkerBegin, WorkerEnter, WorkerOom, WorkerStep, WorkerSnapshot,
      TakeSnapshot, WorkerCheck, LoopCheck, WorkerMove, WorkerNotify, LoopAdvance,
      WorkerComplete, WorkerFinish, WorkerExit, WorkerReturn, CopyFreed
<1> QED BY <1>1, <1>2, <1>3, <1>4, <1>5 DEF Next

(* The driver's recording implements the bounded drop-oldest queue, and a  *)
(* replay plays an exact copy of it, which it alone releases.              *)
THEOREM ImplementsQueueTheorem == Spec => ImplementsQueue
<1>1. Init => Recorder!Init /\ CopyFreed
  BY DEF Init, BufferInit, CopyFreed, Recorder!Init
<1> QED BY <1>1, QueueStep, CopyKept, TypeCorrect, PTL DEF Spec, ImplementsQueue, Recorder!Spec
=============================================================================
