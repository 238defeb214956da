-------------------------- MODULE EchoModesProofs --------------------------
(***************************************************************************)
(* EchoDriver implements EchoModes, for every set of processes, pins and   *)
(* requests, every fifo size and every angle range.                        *)
(***************************************************************************)
EXTENDS EchoDriverProofs

(* A step of EchoModes, or a stutter. *)
ModeStep == [ModeMachine!Next]_(ModeMachine!modeVars)

Teaching  == {"teach_clear", "teach_arm"}
Cancels   == {"stop_timer", "stop_cancel", "stop_flush"}
Arming    == {"get", "move", "record", "count", "arm"}

(* Where a process has to be for a replay, a timer or a STOP to be under   *)
(* way; one that moves on without crossing any of these borders, in a step *)
(* that changes nothing else, leaves all three as they were.               *)
LEMMA ProcessMoves ==
  ASSUME NEW u \in Users, \A v \in Users \ {u} : pc'[v] = pc[v],
         UNCHANGED <<timer_fn, worker, irq_pc>>
  PROVE  /\ queued' = queued /\ (pc[u] \in Entering <=> pc'[u] \in Entering)
              => ReplayUnderWay' = ReplayUnderWay
         /\ timer' = timer /\ (pc[u] \in Teaching <=> pc'[u] \in Teaching)
              => Timed' = Timed
         /\ (pc[u] \in Cancels <=> pc'[u] \in Cancels) => InStop' = InStop
<1>2. ASSUME queued' = queued, pc[u] \in Entering <=> pc'[u] \in Entering
      PROVE  ReplayUnderWay' = ReplayUnderWay
  BY <1>2 DEF ReplayUnderWay, Starting, WorkerWillComplete, Entering
<1>3. ASSUME timer' = timer, pc[u] \in Teaching <=> pc'[u] \in Teaching
      PROVE  Timed' = Timed
  BY <1>3 DEF Timed, Teaching
<1>4. ASSUME pc[u] \in Cancels <=> pc'[u] \in Cancels
      PROVE  InStop' = InStop
  BY <1>4 DEF InStop, Cancels
<1> QED BY <1>2, <1>3, <1>4

(* TEACH, a start and STOP enter their stretch of code. *)
LEMMA EnterSteps ==
  ASSUME TypeOK, NEW u \in Users,
         TeachEnter(u) \/ ReplayAccept(u) \/ SetReplayAccept(u) \/ StopEnter(u)
  PROVE  ModeStep
<1> USE DEF Entering, Teaching, Cancels, SetMode, Goto, Call, At, bufferVars, irqVars
<1>0. (\A v \in Users \ {u} : pc'[v] = pc[v]) /\ pc \in [Users -> UserPcs]
  BY UserFrame DEF TypeOK, UserCall, UserStep
<1>1. CASE TeachEnter(u)
  <2>1. pc'[u] = "teach_clear" /\ pc[u] = "idle" /\ mode' = "TEACH"
        /\ UNCHANGED <<timer, timer_fn, queued, worker, irq_pc>>
    BY <1>0, <1>1 DEF TeachEnter
  <2>2. Timed'
    BY <2>1 DEF TypeOK, Timed
  <2>3. ReplayUnderWay' = ReplayUnderWay /\ InStop' = InStop
    BY <1>0, <2>1, ProcessMoves
  <2>4. ModeMachine!Teach
    BY <2>1, <2>2, <2>3 DEF Timed, ModeMachine!Teach
  <2> QED BY <2>4 DEF ModeStep, ModeMachine!Next
<1>2. CASE ReplayAccept(u) \/ SetReplayAccept(u)
  <2>1. pc'[u] = "del_timer" /\ pc[u] \in {"idle", "flagged"}
        /\ mode # "REPLAY" /\ mode' = "REPLAY"
        /\ UNCHANGED <<timer, timer_fn, queued, worker, irq_pc>>
    BY <1>0, <1>2 DEF ReplayAccept, SetReplayAccept
  <2>2. ReplayUnderWay'
    BY <2>1 DEF TypeOK, ReplayUnderWay, Starting
  <2>3. Timed' = Timed /\ InStop' = InStop
    BY <1>0, <2>1, ProcessMoves
  <2>4. ModeMachine!Start
    BY <2>1, <2>2, <2>3 DEF ReplayUnderWay, ModeMachine!Start
  <2> QED BY <2>4 DEF ModeStep, ModeMachine!Next
<1>3. CASE StopEnter(u)
  <2>1. pc'[u] = "stop_timer" /\ pc[u] = "idle" /\ mode' = "IDLE"
        /\ UNCHANGED <<timer, timer_fn, queued, worker, irq_pc>>
        /\ {"STOP", "RESET"} \intersect Commands # {}
    BY <1>0, <1>3 DEF StopEnter
  <2>2. InStop'
    BY <2>1 DEF TypeOK, InStop
  <2>3. ReplayUnderWay' = ReplayUnderWay /\ Timed' = Timed
    BY <1>0, <2>1, ProcessMoves
  <2>4. ModeMachine!Stop
    BY <2>1, <2>2, <2>3 DEF InStop, ModeMachine!Stop
  <2> QED BY <2>4 DEF ModeStep, ModeMachine!Next
<1> QED BY <1>1, <1>2, <1>3

(* Deleting the timer is harmless for a replay under way, and is what a    *)
(* STOP may do to anybody.                                                 *)
LEMMA DeleteSteps ==
  ASSUME TypeOK, NEW u \in Users, StartDelTimer(u) \/ StopDelTimer(u)
  PROVE  ModeStep
<1> USE DEF Entering, Teaching, Cancels
<1> DEFINE p == IF StartDelTimer(u) THEN "queue" ELSE "stop_cancel"
<1>0. (\A v \in Users \ {u} : pc'[v] = pc[v]) /\ pc \in [Users -> UserPcs]
  BY UserFrame DEF TypeOK, UserCall, UserStep
<1>1. /\ pc'[u] = p /\ timer' = "off" /\ timer_fn = "idle"
      /\ UNCHANGED <<mode, timer_fn, queued, worker, irq_pc>>
      /\ pc[u] = IF StartDelTimer(u) THEN "del_timer" ELSE "stop_timer"
  BY <1>0 DEF StartDelTimer, StopDelTimer, DeleteTimerSync, At, Goto, bufferVars, irqVars
<1>2. ReplayUnderWay' = ReplayUnderWay /\ InStop' = InStop
  BY <1>0, <1>1, ProcessMoves
<1>3. ReplayUnderWay \/ InStop
  BY <1>1 DEF ReplayUnderWay, Starting, InStop
<1>4. Timed' => Timed
  BY <1>0, <1>1 DEF Timed
<1>5. CASE Timed'
  BY <1>1, <1>2, <1>4, <1>5 DEF ModeStep, ModeMachine!modeVars, Timed
<1>6. CASE ~Timed'
  <2>1. ModeMachine!Untime
    BY <1>1, <1>2, <1>3, <1>6 DEF ModeMachine!Untime, Timed
  <2> QED BY <2>1 DEF ModeStep, ModeMachine!Next
<1> QED BY <1>5, <1>6

(* What cancel_work_sync takes away, it takes away during a STOP. *)
LEMMA CancelSteps ==
  ASSUME TypeOK, CancelsInFlush, NEW u \in Users,
         StartQueue(u) \/ StopCancel(u) \/ StopFlush(u)
  PROVE  ModeStep
<1> USE DEF Entering, Teaching, Cancels, Goto, At, stateVars, irqVars
<1>0. (\A v \in Users \ {u} : pc'[v] = pc[v]) /\ pc \in [Users -> UserPcs]
  BY UserFrame DEF TypeOK, UserCall, UserStep
<1>1. CASE StartQueue(u)
  <2>1. /\ pc'[u] = "started" /\ pc[u] = "queue"
        /\ UNCHANGED <<mode, timer, timer_fn, worker, irq_pc>>
        /\ queued' = (queued \/ cancelling = {})
    BY <1>0, <1>1 DEF StartQueue, QueueReplay
  <2>2. Timed' = Timed /\ InStop' = InStop
    BY <1>0, <2>1, ProcessMoves
  <2>3. ReplayUnderWay
    BY <2>1 DEF ReplayUnderWay, Starting
  <2>4. CASE ReplayUnderWay'
    BY <2>1, <2>2, <2>3, <2>4 DEF ModeStep, ModeMachine!modeVars, ReplayUnderWay
  <2>5. CASE ~ReplayUnderWay'
    <3>1. cancelling # {}
      BY <2>1, <2>5 DEF ReplayUnderWay
    <3>2. InStop
      BY <3>1 DEF CancelsInFlush, InStop
    <3>3. ModeMachine!Cancel
      BY <2>1, <2>2, <2>5, <3>2 DEF ModeMachine!Cancel, ReplayUnderWay
    <3> QED BY <3>3 DEF ModeStep, ModeMachine!Next
  <2> QED BY <2>4, <2>5
<1>2. CASE StopCancel(u)
  <2>1. /\ pc'[u] = "stop_flush" /\ pc[u] = "stop_cancel"
        /\ UNCHANGED <<mode, timer, timer_fn, worker, irq_pc>> /\ queued' = FALSE
    BY <1>0, <1>2 DEF StopCancel, CancelBegin
  <2>2. Timed' = Timed /\ InStop' = InStop
    BY <1>0, <2>1, ProcessMoves
  <2>3. InStop
    BY <2>1 DEF InStop
  <2>4. ReplayUnderWay' => ReplayUnderWay
    BY <1>0, <2>1 DEF ReplayUnderWay, Starting, WorkerWillComplete
  <2>5. CASE ReplayUnderWay'
    BY <2>1, <2>2, <2>4, <2>5 DEF ModeStep, ModeMachine!modeVars, ReplayUnderWay
  <2>6. CASE ~ReplayUnderWay'
    <3>1. ModeMachine!Cancel
      BY <2>1, <2>2, <2>3, <2>6 DEF ModeMachine!Cancel, ReplayUnderWay
    <3> QED BY <3>1 DEF ModeStep, ModeMachine!Next
  <2> QED BY <2>5, <2>6
<1>3. CASE StopFlush(u)
  <2>1. /\ pc'[u] = "stop_signal" /\ pc[u] = "stop_flush"
        /\ UNCHANGED <<mode, timer, timer_fn, queued, worker, irq_pc>>
    BY <1>0, <1>3 DEF StopFlush, CancelEnd
  <2>2. Timed' = Timed /\ ReplayUnderWay' = ReplayUnderWay
    BY <1>0, <2>1, ProcessMoves
  <2>3. InStop
    BY <2>1 DEF InStop
  <2>4. CASE InStop'
    BY <2>1, <2>2, <2>3, <2>4 DEF ModeStep, ModeMachine!modeVars, InStop
  <2>5. CASE ~InStop'
    <3>1. ModeMachine!Cancelled
      BY <2>1, <2>2, <2>5 DEF ModeMachine!Cancelled, InStop
    <3> QED BY <3>1 DEF ModeStep, ModeMachine!Next
  <2> QED BY <2>4, <2>5
<1> QED BY <1>1, <1>2, <1>3

(* The rest of a request is a stutter. *)
LEMMA OtherSteps ==
  ASSUME TypeOK, NEW u \in Users, UserCall(u) \/ UserStep(u),
         ~TeachEnter(u), ~ReplayAccept(u), ~SetReplayAccept(u), ~StopEnter(u),
         ~StartDelTimer(u), ~StopDelTimer(u), ~StartQueue(u), ~StopCancel(u), ~StopFlush(u)
  PROVE  ModeStep
<1> USE DEF ModeStep, ModeMachine!modeVars
<1>0. (\A v \in Users \ {u} : pc'[v] = pc[v]) /\ pc \in [Users -> UserPcs]
  BY UserFrame DEF TypeOK, UserCall, UserStep
<1>1. CASE TeachArm(u)
  <2>1. /\ pc'[u] = "notify" /\ pc[u] = "teach_arm"
        /\ UNCHANGED <<mode, timer_fn, queued, worker, irq_pc>> /\ timer' = "pending"
    BY <1>0, <1>1 DEF TeachArm, At, Goto, ResetCountAndArm, bufferVars, irqVars
  <2>2. InStop' = InStop /\ ReplayUnderWay' = ReplayUnderWay
    BY <1>0, <2>1, ProcessMoves DEF Entering, Cancels
  <2>3. Timed' = Timed
    BY <1>0, <2>1 DEF Timed
  <2> QED BY <2>1, <2>2, <2>3
<1>2. CASE ~TeachArm(u)
  <2>1. UNCHANGED <<mode, timer, timer_fn, queued, worker, irq_pc>>
    BY <1>2
    DEF UserCall, ReplayFlag, MoveServo, MoveFails, ReplayInterrupted, UserStep,
        TeachClear, ClearBuffer, ReplayBusy, StartNotify, ReplayReturn, StopSignal,
        StopData, StopNotify, ResetClear, ResetCentre, UserNotify, stateVars, bufferVars,
        irqVars
  <2>2. \/ pc' = pc
        \/ \E p \in UserPcs :
             /\ pc'[u] = p
             /\ pc[u] \in Entering <=> p \in Entering
             /\ pc[u] \in Teaching <=> p \in Teaching
             /\ pc[u] \in Cancels <=> p \in Cancels
    <3> USE DEF Entering, Teaching, Cancels, UserPcs, At, Goto, Return, Call
    <3>1. CASE UserCall(u)
      BY <1>0, <3>1 DEF UserCall, ReplayFlag, MoveServo, MoveFails, ReplayInterrupted, userVars
    <3>2. CASE UserStep(u)
      BY <1>0, <1>2, <3>2
      DEF UserStep, TeachClear, ReplayBusy, StartNotify, ReplayReturn, StopSignal,
          StopData, StopNotify, ResetClear, ResetCentre, UserNotify
    <3> QED BY <3>1, <3>2
  <2>3. CASE pc' = pc
    BY <2>1, <2>3
    DEF ReplayUnderWay, Starting, WorkerWillComplete, Timed, InStop
  <2>4. CASE pc' # pc
    BY <2>1, <2>2, <2>4, <1>0, ProcessMoves
  <2> QED BY <2>3, <2>4
<1> QED BY <1>1, <1>2

(* A press enters TEACH, and arms the timer before it is done. *)
LEMMA InputSteps ==
  ASSUME TypeOK, NEW i \in Pins, InputEnter(i) \/ InputStep(i)
  PROVE  ModeStep
<1>1. UNCHANGED <<ReplayUnderWay, InStop>>
  BY InputFrame DEF ReplayUnderWay, Starting, WorkerWillComplete, InStop
<1>2. CASE InputEnter(i)
  <2>1. mode' = "TEACH" /\ irq_pc'[i] = "get"
    BY <1>2 DEF TypeOK, InputEnter, IrqGoto, SetMode
  <2>2. ModeMachine!Teach
    BY <1>1, <2>1 DEF ModeMachine!Teach, Timed
  <2> QED BY <2>2 DEF ModeStep, ModeMachine!Next
<1>3. CASE InputStep(i)
  <2>1. mode' = mode
    BY <1>3 DEF InputStep, InputGet, InputMove, InputRecord, InputCount, InputArm,
                InputNotify, CountMove, ArmTimer, stateVars
  <2>2. \/ irq_pc[i] \in Arming /\ (irq_pc'[i] \in Arming \/ timer' = "pending")
        \/ irq_pc[i] = "notify" /\ irq_pc'[i] = "idle" /\ timer' = timer
    BY <1>3 DEF TypeOK, InputStep, InputGet, InputMove, InputRecord, InputCount, InputArm,
                InputNotify, IrqGoto, ArmTimer, stateVars, Arming
  <2>3. /\ \A j \in Pins \ {i} : irq_pc'[j] = irq_pc[j]
        /\ UNCHANGED <<pc, timer_fn>>
    BY InputFrame
  <2>4. Timed' = Timed
    BY <2>2, <2>3 DEF Timed, Arming
  <2> QED BY <1>1, <2>1, <2>4 DEF ModeStep, ModeMachine!modeVars
<1> QED BY <1>2, <1>3

(* The timer turns TEACH into REPLAY, or does nothing. *)
LEMMA TimerSteps ==
  ASSUME TypeOK, CancelsInFlush, TimerExpire \/ TimerStep
  PROVE  ModeStep
<1> USE DEF ModeStep, ModeMachine!modeVars
<1>0. UNCHANGED <<pc, irq_pc, worker, InStop>>
  BY TimerFrame DEF InStop
<1>1. CASE TimerExpire
  <2>1. UNCHANGED <<mode, ReplayUnderWay, Timed>>
    BY <1>0, <1>1 DEF TimerExpire, Expire, bufferVars, ReplayUnderWay, Starting,
                      WorkerWillComplete, Timed
  <2> QED BY <1>0, <2>1
<1>2. CASE TimerCheck /\ mode = "TEACH"
  <2>1. Timed /\ mode' = "REPLAY" /\ ReplayUnderWay'
    BY <1>2 DEF TimerCheck, TimeoutCheck, Timed, ReplayUnderWay, Starting
  <2>2. Timed' \in BOOLEAN
    BY DEF Timed
  <2>3. ModeMachine!Timeout
    BY <1>0, <1>2, <2>1, <2>2 DEF ModeMachine!Timeout
  <2> QED BY <2>3 DEF ModeMachine!Next
<1>3. CASE TimerCheck /\ mode # "TEACH"
  <2>1. Timed /\ UNCHANGED <<mode, ReplayUnderWay>>
    BY <1>0, <1>3 DEF TimerCheck, TimeoutCheck, Timed, ReplayUnderWay, Starting,
                      WorkerWillComplete, bufferVars
  <2>2. CASE Timed'
    BY <1>0, <2>1, <2>2 DEF Timed
  <2>3. CASE ~Timed'
    <3>1. ModeMachine!Untime
      BY <1>0, <1>3, <2>1, <2>3 DEF ModeMachine!Untime, Timed
    <3> QED BY <3>1 DEF ModeMachine!Next
  <2> QED BY <2>2, <2>3
<1>4. CASE TimerQueue
  <2>1. /\ ReplayUnderWay /\ UNCHANGED <<mode, Timed>>
        /\ cancelling = {} => ReplayUnderWay'
    BY <1>0, <1>4 DEF TimerQueue, TimeoutStep, QueueReplay, ReplayUnderWay, Starting, Timed
  <2>2. CASE ReplayUnderWay'
    BY <1>0, <2>1, <2>2 DEF ReplayUnderWay
  <2>3. CASE ~ReplayUnderWay'
    <3>1. InStop
      BY <2>1, <2>3 DEF CancelsInFlush, InStop
    <3>2. ModeMachine!Cancel
      BY <1>0, <2>1, <2>3, <3>1 DEF ModeMachine!Cancel, ReplayUnderWay
    <3> QED BY <3>2 DEF ModeMachine!Next
  <2> QED BY <2>2, <2>3
<1>5. CASE TimerNotify
  <2>1. UNCHANGED <<mode, ReplayUnderWay, Timed>>
    BY <1>0, <1>5 DEF TimerNotify, TimeoutStep, bufferVars, ReplayUnderWay, Starting,
                      WorkerWillComplete, Timed
  <2> QED BY <1>0, <2>1
<1> QED BY <1>1, <1>2, <1>3, <1>4, <1>5 DEF TimerStep

(* The worker turns any mode into IDLE at the end of its replay, and drops *)
(* nothing before.                                                         *)
LEMMA WorkerSteps ==
  ASSUME TypeOK, WorkerNext
  PROVE  ModeStep
<1>1. UNCHANGED <<pc, irq_pc, timer, timer_fn, InStop, Timed>>
  BY WorkerFrame DEF InStop, Timed
<1>2. CASE WorkerComplete
  <2>1. ReplayUnderWay /\ mode' = "IDLE"
    BY <1>2 DEF WorkerComplete, WorkerStep, SetMode, ReplayUnderWay, WorkerWillComplete
  <2>2. ReplayUnderWay' \in BOOLEAN
    BY DEF ReplayUnderWay
  <2>3. ModeMachine!Complete
    BY <1>1, <2>1, <2>2 DEF ModeMachine!Complete
  <2> QED BY <2>3 DEF ModeStep, ModeMachine!Next
<1>3. CASE ~WorkerComplete
  <2>1. mode' = mode
    BY <1>3, WorkerFrame
  <2>2. CASE WorkerBegin
    <3>1. queued /\ worker' = "alloc"
      BY <2>2 DEF WorkerBegin, WorkerEnter
    <3>2. ReplayUnderWay' = ReplayUnderWay
      BY <3>1 DEF ReplayUnderWay, WorkerWillComplete
    <3> QED BY <1>1, <2>1, <3>2 DEF ModeStep, ModeMachine!modeVars
  <2>3. CASE ~WorkerBegin
    <3>1. queued' = queued
      BY <2>3, WorkerFrame
    <3>2. WorkerWillComplete' <=> WorkerWillComplete
      BY <1>3, <2>3
      DEF WorkerNext, WorkerOom, WorkerStep, WorkerSnapshot, TakeSnapshot, WorkerCheck,
          LoopCheck, WorkerMove, WorkerNotify, LoopAdvance, WorkerFinish, WorkerExit,
          WorkerReturn, WorkerWillComplete
    <3>3. ReplayUnderWay' = ReplayUnderWay
      BY <1>1, <3>1, <3>2 DEF ReplayUnderWay, Starting
    <3> QED BY <1>1, <2>1, <3>3 DEF ModeStep, ModeMachine!modeVars
  <2> QED BY <2>2, <2>3
<1> QED BY <1>2, <1>3

LEMMA ModesStep ==
  ASSUME TypeOK, CancelsInFlush, [Next]_vars
  PROVE  ModeStep
<1>1. CASE UNCHANGED vars
  <2>1. UNCHANGED <<mode, ReplayUnderWay, Timed, InStop>>
    BY <1>1
    DEF vars, stateVars, bufferVars, userVars, irqVars, ReplayUnderWay, Starting,
        WorkerWillComplete, Timed, InStop
  <2> QED BY <2>1 DEF ModeStep, ModeMachine!modeVars
<1>2. ASSUME NEW u \in Users, UserCall(u) \/ UserStep(u)
      PROVE  ModeStep
  BY <1>2, EnterSteps, DeleteSteps, CancelSteps, OtherSteps
<1> QED BY <1>1, <1>2, InputSteps, TimerSteps, WorkerSteps DEF Next

(* Whatever the requests, the presses and the interleaving, the driver     *)
(* goes from mode to mode as EchoModes allows.                             *)
THEOREM ImplementsModesTheorem == Spec => ImplementsModes
<1>1. Init => ModeMachine!Init /\ CancelsInFlush
  BY DEF Init, StateInit, BufferInit, CancelsInFlush, ModeMachine!Init, ReplayUnderWay,
         Starting, WorkerWillComplete, Timed, InStop
<1>2. TypeOK /\ CancelsInFlush /\ [Next]_vars => CancelsInFlush'
  BY CancelsKept
<1>3. TypeOK /\ CancelsInFlush /\ [Next]_vars
        => [ModeMachine!Next]_(ModeMachine!modeVars)
  BY ModesStep DEF ModeStep
<1> QED
  BY <1>1, <1>2, <1>3, TypeCorrect, PTL DEF Spec, ImplementsModes, ModeMachine!Spec
=============================================================================
