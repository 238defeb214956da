----------------------------- MODULE EchoDriver ----------------------------
(***************************************************************************)
(* The driver as echo_main.c wires it: user processes in the chardev's     *)
(* write() and ioctl(), one IRQ thread per joystick pin, the inactivity    *)
(* timer's softirq and the replay worker, interleaved at every point where *)
(* the code releases a lock or touches state another context reads.        *)
(*                                                                         *)
(* An SMP machine with sequentially consistent flag accesses is assumed.   *)
(***************************************************************************)
EXTENDS EchoState, EchoBuffer

CONSTANTS
  Commands,  \* which requests the user processes make
  Pins,      \* the joystick pins whose presses reach the state machine
  SimMode    \* sim_mode: no servo hardware that could fail, and no pins

AllCommands == {"TEACH", "REPLAY", "STOP", "MOVE", "RESET", "SET_REPLAY"}
AllPins     == {"UP", "DOWN", "LEFT", "RIGHT"}

ASSUME DriverAssumption ==
  /\ Commands \subseteq AllCommands
  /\ Pins \subseteq AllPins
  /\ SimMode \in BOOLEAN
  /\ SimMode => Pins = {}

VARIABLES
  pos,              \* echo_servo_ctx.pos, under the servo mutex
  replay_finished,  \* echo_device.replay_finished
  new_data_avail,   \* echo_device.new_data_avail
  op,               \* the request each user process is serving
  pc,               \* where it is in it, "idle" in user space
  irq_pc,           \* where each IRQ thread is in echo_state_handle_input
  irq_angle         \* its local new_angle

userVars  == <<op, pc>>
irqVars   == <<irq_pc, irq_angle>>
flagVars  == <<replay_finished, new_data_avail>>
vars      == <<stateVars, bufferVars, pos, flagVars, userVars, irqVars>>

UserPcs == {"idle", "teach_clear", "teach_arm", "flagged", "del_timer", "queue",
            "started", "wait", "stop_timer", "stop_cancel", "stop_flush",
            "stop_signal", "stop_data", "stop_notify", "reset_clear",
            "reset_pan", "reset_tilt", "reset_tilt2", "notify"}
IrqPcs  == {"idle", "get", "move", "record", "count", "arm", "notify"}

TypeOK ==
  /\ StateTypeOK
  /\ BufferTypeOK
  /\ pos \in [Servos -> Angles]
  /\ replay_finished \in BOOLEAN
  /\ new_data_avail \in BOOLEAN
  /\ op \in [Users -> AllCommands \union {"none"}]
  /\ pc \in [Users -> UserPcs]
  /\ irq_pc \in [Pins -> IrqPcs]
  /\ irq_angle \in [Pins -> Angles]

Init ==
  /\ StateInit
  /\ BufferInit
  /\ pos = [s \in Servos |-> Center]
  /\ replay_finished = FALSE
  /\ new_data_avail = FALSE
  /\ op = [u \in Users |-> "none"]
  /\ pc = [u \in Users |-> "idle"]
  /\ irq_pc = [i \in Pins |-> "idle"]
  /\ irq_angle = [i \in Pins |-> Center]

-----------------------------------------------------------------------------
(* Control flow of a user process. *)

At(u, p) == pc[u] = p
Goto(u, p) == pc' = [pc EXCEPT ![u] = p] /\ op' = op
Call(u, c, p) ==
  /\ pc[u] = "idle"
  /\ c \in Commands
  /\ op' = [op EXCEPT ![u] = c]
  /\ pc' = [pc EXCEPT ![u] = p]
Return(u) ==
  /\ pc' = [pc EXCEPT ![u] = "idle"]
  /\ op' = [op EXCEPT ![u] = "none"]

(* notify_readers. *)
NotifyReaders == new_data_avail' = TRUE /\ UNCHANGED replay_finished
SetFinished(b) == replay_finished' = b /\ UNCHANGED new_data_avail

(* echo_servo_set_angle as seen by the callers that ignore its result. *)
SetAngle(id, a) == pos' = PosAfter(pos, id, a)

-----------------------------------------------------------------------------
(* write(TEACH) and ioctl(SET_MODE, TEACH): echo_state_set_mode. *)

TeachEnter(u) ==
  /\ Call(u, "TEACH", "teach_clear")
  /\ SetMode("TEACH")
  /\ UNCHANGED <<bufferVars, pos, flagVars, irqVars>>

TeachClear(u) ==
  /\ At(u, "teach_clear")
  /\ Goto(u, "teach_arm")
  /\ ClearBuffer
  /\ UNCHANGED <<stateVars, pos, flagVars, irqVars>>

TeachArm(u) ==
  /\ At(u, "teach_arm")
  /\ Goto(u, "notify")
  /\ ResetCountAndArm
  /\ UNCHANGED <<bufferVars, pos, flagVars, irqVars>>

-----------------------------------------------------------------------------
(* write(REPLAY) clears replay_finished before it asks for the replay;     *)
(* ioctl(SET_MODE, REPLAY) asks for it without waiting.                    *)

ReplayFlag(u) ==
  /\ Call(u, "REPLAY", "flagged")
  /\ SetFinished(FALSE)
  /\ UNCHANGED <<stateVars, bufferVars, pos, irqVars>>

(* echo_state_start_replay's critical section. *)
ReplayAccept(u) ==
  /\ At(u, "flagged") /\ Goto(u, "del_timer")
  /\ mode # "REPLAY"
  /\ SetMode("REPLAY")
  /\ UNCHANGED <<bufferVars, pos, flagVars, irqVars>>

ReplayBusy(u) ==
  /\ At(u, "flagged") /\ Return(u)
  /\ mode = "REPLAY"
  /\ UNCHANGED <<stateVars, bufferVars, pos, flagVars, irqVars>>

(* Mutant of SetReplayAccept: a running replay is not refused. *)
SetReplayAlways(u) ==
  /\ Call(u, "SET_REPLAY", "del_timer")
  /\ SetMode("REPLAY")
  /\ UNCHANGED <<bufferVars, pos, flagVars, irqVars>>

(* An ioctl that finds the replay running returns -EBUSY and changes       *)
(* nothing, so only the accepted call is a step.                           *)
SetReplayAccept(u) ==
  /\ Call(u, "SET_REPLAY", "del_timer")
  /\ mode # "REPLAY"
  /\ SetMode("REPLAY")
  /\ UNCHANGED <<bufferVars, pos, flagVars, irqVars>>

StartDelTimer(u) ==
  /\ At(u, "del_timer")
  /\ Goto(u, "queue")
  /\ DeleteTimerSync
  /\ UNCHANGED <<bufferVars, pos, flagVars, irqVars>>

StartQueue(u) ==
  /\ At(u, "queue")
  /\ Goto(u, "started")
  /\ QueueReplay
  /\ UNCHANGED <<stateVars, pos, flagVars, irqVars>>

(* Mutant of StartNotify: write(REPLAY) clears its flag after the start. *)
StartThenFlag(u) ==
  /\ At(u, "started")
  /\ IF op[u] = "REPLAY" THEN Goto(u, "wait") /\ replay_finished' = FALSE
     ELSE Return(u) /\ UNCHANGED replay_finished
  /\ new_data_avail' = TRUE
  /\ UNCHANGED <<stateVars, bufferVars, pos, irqVars>>

StartNotify(u) ==
  /\ At(u, "started")
  /\ IF op[u] = "REPLAY" THEN Goto(u, "wait") ELSE Return(u)
  /\ NotifyReaders
  /\ UNCHANGED <<stateVars, bufferVars, pos, irqVars>>

(* wait_event_interruptible on wq_replay_done: woken by the flag, or by a  *)
(* signal.                                                                 *)
ReplayReturn(u) ==
  /\ At(u, "wait") /\ Return(u)
  /\ replay_finished
  /\ UNCHANGED <<stateVars, bufferVars, pos, flagVars, irqVars>>

ReplayInterrupted(u) ==
  /\ At(u, "wait") /\ Return(u)
  /\ UNCHANGED <<stateVars, bufferVars, pos, flagVars, irqVars>>

-----------------------------------------------------------------------------
(* write(STOP), ioctl(SET_MODE, IDLE) and the first half of ioctl(RESET):  *)
(* echo_state_stop with state_op_cancel_replay.                            *)

StopEnter(u) ==
  /\ Call(u, "STOP", "stop_timer") \/ Call(u, "RESET", "stop_timer")
  /\ SetMode("IDLE")
  /\ UNCHANGED <<bufferVars, pos, flagVars, irqVars>>

StopDelTimer(u) ==
  /\ At(u, "stop_timer")
  /\ Goto(u, "stop_cancel")
  /\ DeleteTimerSync
  /\ UNCHANGED <<bufferVars, pos, flagVars, irqVars>>

StopCancel(u) ==
  /\ At(u, "stop_cancel")
  /\ Goto(u, "stop_flush")
  /\ CancelBegin(u)
  /\ UNCHANGED <<stateVars, pos, flagVars, irqVars>>

(* Mutant of StopFlush: the mode is reset once more after the cancel. *)
StopFlushResets(u) ==
  /\ At(u, "stop_flush")
  /\ Goto(u, "stop_signal")
  /\ CancelEnd(u)
  /\ SetMode("IDLE")
  /\ UNCHANGED <<pos, flagVars, irqVars>>

StopFlush(u) ==
  /\ At(u, "stop_flush")
  /\ Goto(u, "stop_signal")
  /\ CancelEnd(u)
  /\ UNCHANGED <<stateVars, pos, flagVars, irqVars>>

(* signal_replay_done: the flag, then notify_readers. *)
StopSignal(u) ==
  /\ At(u, "stop_signal")
  /\ Goto(u, "stop_data")
  /\ SetFinished(TRUE)
  /\ UNCHANGED <<stateVars, bufferVars, pos, irqVars>>

StopData(u) ==
  /\ At(u, "stop_data")
  /\ Goto(u, "stop_notify")
  /\ NotifyReaders
  /\ UNCHANGED <<stateVars, bufferVars, pos, irqVars>>

(* ops->notify at the end of echo_state_stop. *)
StopNotify(u) ==
  /\ At(u, "stop_notify")
  /\ IF op[u] = "RESET" THEN Goto(u, "reset_clear") ELSE Return(u)
  /\ NotifyReaders
  /\ UNCHANGED <<stateVars, bufferVars, pos, irqVars>>

ResetClear(u) ==
  /\ At(u, "reset_clear")
  /\ Goto(u, "reset_pan")
  /\ ClearBuffer
  /\ UNCHANGED <<stateVars, pos, flagVars, irqVars>>

(* The three centring calls of ioctl(RESET). *)
ResetCentre(u, from, id, to) ==
  /\ At(u, from)
  /\ Goto(u, to)
  /\ SetAngle(id, Center)
  /\ UNCHANGED <<stateVars, bufferVars, flagVars, irqVars>>

-----------------------------------------------------------------------------
(* write(MOVE).  A MOVE to a servo that does not exist is refused and       *)
(* changes nothing.                                                        *)

MoveServo(u) ==
  /\ Call(u, "MOVE", "notify")
  /\ \E id \in Servos, a \in Angles : SetAngle(id, a)
  /\ UNCHANGED <<stateVars, bufferVars, flagVars, irqVars>>

(* A failed I2C write is returned before notify_readers, but the position  *)
(* has been stored.                                                        *)
MoveFails(u) ==
  /\ ~SimMode
  /\ At(u, "idle")
  /\ "MOVE" \in Commands
  /\ \E id \in Servos, a \in Angles : SetAngle(id, a)
  /\ UNCHANGED <<stateVars, bufferVars, flagVars, userVars, irqVars>>

(* The last callback of TEACH, MOVE and RESET. *)
UserNotify(u) ==
  /\ At(u, "notify")
  /\ Return(u)
  /\ NotifyReaders
  /\ UNCHANGED <<stateVars, bufferVars, pos, irqVars>>

UserStep(u) ==
  \/ TeachClear(u) \/ TeachArm(u)
  \/ ReplayAccept(u) \/ ReplayBusy(u)
  \/ StartDelTimer(u) \/ StartQueue(u) \/ StartNotify(u)
  \/ ReplayReturn(u)
  \/ StopDelTimer(u) \/ StopCancel(u) \/ StopFlush(u)
  \/ StopSignal(u) \/ StopData(u) \/ StopNotify(u)
  \/ ResetClear(u)
  \/ ResetCentre(u, "reset_pan", "PAN", "reset_tilt")
  \/ ResetCentre(u, "reset_tilt", "TILT", "reset_tilt2")
  \/ ResetCentre(u, "reset_tilt2", "TILT2", "notify")
  \/ UserNotify(u)

UserCall(u) ==
  \/ TeachEnter(u) \/ ReplayFlag(u) \/ SetReplayAccept(u)
  \/ StopEnter(u) \/ MoveServo(u) \/ MoveFails(u)
  \/ ReplayInterrupted(u)

-----------------------------------------------------------------------------
(* echo_state_handle_input, from the IRQ thread of pin i. *)

PinServo(i) == IF i \in {"UP", "DOWN"} THEN "TILT" ELSE "PAN"
PinDelta(i) == IF i \in {"UP", "RIGHT"} THEN AngleStep ELSE -AngleStep

IrqGoto(i, from, to) ==
  /\ irq_pc[i] = from
  /\ irq_pc' = [irq_pc EXCEPT ![i] = to]

(* A press during REPLAY returns at once and changes nothing. *)
InputEnter(i) ==
  /\ IrqGoto(i, "idle", "get")
  /\ mode # "REPLAY"
  /\ SetMode("TEACH")
  /\ UNCHANGED <<bufferVars, pos, flagVars, userVars, irq_angle>>

InputGet(i) ==
  /\ IrqGoto(i, "get", "move")
  /\ irq_angle' = [irq_angle EXCEPT ![i] = Clamp(pos[PinServo(i)] + PinDelta(i))]
  /\ UNCHANGED <<stateVars, bufferVars, pos, flagVars, userVars>>

InputMove(i) ==
  /\ IrqGoto(i, "move", "record")
  /\ SetAngle(PinServo(i), irq_angle[i])
  /\ UNCHANGED <<stateVars, bufferVars, flagVars, userVars, irq_angle>>

InputRecord(i) ==
  /\ IrqGoto(i, "record", "count")
  /\ RecordMove([servo |-> PinServo(i), angle |-> irq_angle[i]])
  /\ UNCHANGED <<stateVars, pos, flagVars, userVars, irq_angle>>

InputCount(i) ==
  /\ IrqGoto(i, "count", "arm")
  /\ CountMove
  /\ UNCHANGED <<bufferVars, pos, flagVars, userVars, irq_angle>>

InputArm(i) ==
  /\ IrqGoto(i, "arm", "notify")
  /\ ArmTimer
  /\ UNCHANGED <<bufferVars, pos, flagVars, userVars, irq_angle>>

InputNotify(i) ==
  /\ IrqGoto(i, "notify", "idle")
  /\ NotifyReaders
  /\ UNCHANGED <<stateVars, bufferVars, pos, userVars, irq_angle>>

InputStep(i) ==
  \/ InputGet(i) \/ InputMove(i) \/ InputRecord(i)
  \/ InputCount(i) \/ InputArm(i) \/ InputNotify(i)

-----------------------------------------------------------------------------
(* inactivity_timer_fn. *)

TimerExpire ==
  /\ Expire
  /\ UNCHANGED <<bufferVars, pos, flagVars, userVars, irqVars>>

TimerCheck ==
  /\ TimeoutCheck
  /\ UNCHANGED <<bufferVars, pos, flagVars, userVars, irqVars>>

TimerQueue ==
  /\ TimeoutStep("queue", "notify")
  /\ QueueReplay
  /\ UNCHANGED <<pos, flagVars, userVars, irqVars>>

TimerNotify ==
  /\ TimeoutStep("notify", "idle")
  /\ NotifyReaders
  /\ UNCHANGED <<bufferVars, pos, userVars, irqVars>>

TimerStep == TimerCheck \/ TimerQueue \/ TimerNotify

-----------------------------------------------------------------------------
(* replay_worker with the buf_ops callbacks. *)

WorkerBegin ==
  /\ WorkerEnter
  /\ UNCHANGED <<stateVars, pos, flagVars, userVars, irqVars>>

(* kmalloc_array fails: straight to replay_done. *)
WorkerOom ==
  /\ WorkerStep("alloc", "complete")
  /\ UNCHANGED <<stateVars, pos, flagVars, userVars, irqVars>>

WorkerSnapshot ==
  /\ TakeSnapshot
  /\ UNCHANGED <<stateVars, pos, flagVars, userVars, irqVars>>

(* buf_op_should_stop. *)
WorkerCheck ==
  /\ LoopCheck(mode # "REPLAY")
  /\ UNCHANGED <<stateVars, pos, flagVars, userVars, irqVars>>

(* msleep, then buf_op_move_servo: the mode is not read again. *)
WorkerMove ==
  /\ WorkerStep("sleep", "notify")
  /\ SetAngle(snapshot[next].servo, snapshot[next].angle)
  /\ UNCHANGED <<stateVars, flagVars, userVars, irqVars>>

WorkerNotify ==
  /\ LoopAdvance
  /\ NotifyReaders
  /\ UNCHANGED <<stateVars, pos, userVars, irqVars>>

(* buf_op_replay_done: echo_state_replay_complete, then the two halves of  *)
(* signal_replay_done.                                                     *)
WorkerComplete ==
  /\ WorkerStep("complete", "finish")
  /\ SetMode("IDLE")
  /\ UNCHANGED <<pos, flagVars, userVars, irqVars>>

WorkerFinish ==
  /\ WorkerStep("finish", "data")
  /\ SetFinished(TRUE)
  /\ UNCHANGED <<stateVars, pos, userVars, irqVars>>

WorkerExit ==
  /\ WorkerReturn
  /\ NotifyReaders
  /\ UNCHANGED <<stateVars, pos, userVars, irqVars>>

WorkerNext ==
  \/ WorkerBegin \/ WorkerOom \/ WorkerSnapshot \/ WorkerCheck \/ WorkerMove
  \/ WorkerNotify \/ WorkerComplete \/ WorkerFinish \/ WorkerExit

-----------------------------------------------------------------------------
Next ==
  \/ \E u \in Users : UserCall(u) \/ UserStep(u)
  \/ \E i \in Pins : InputEnter(i) \/ InputStep(i)
  \/ TimerExpire
  \/ TimerStep
  \/ WorkerNext

Spec == Init /\ [][Next]_vars

-----------------------------------------------------------------------------
(* Scheduling.  Code that has been entered keeps running: kernel threads   *)
(* are scheduled, an armed timer expires, a queued work item is picked up. *)
(* Nothing makes a user issue a request, a pin be pressed, a signal arrive *)
(* or an allocation fail.  timer_delete_sync retries while it finds the    *)
(* handler running, so it needs the handler to be found idle only          *)
(* infinitely often: strong fairness.                                      *)

DelTimer(u) == StartDelTimer(u) \/ StopDelTimer(u)
Running == \/ WorkerBegin \/ WorkerSnapshot \/ WorkerCheck \/ WorkerMove
           \/ WorkerNotify \/ WorkerComplete \/ WorkerFinish \/ WorkerExit

Fairness ==
  /\ \A u \in Users : WF_vars(UserStep(u)) /\ SF_vars(DelTimer(u))
  /\ \A i \in Pins : WF_vars(InputStep(i))
  /\ WF_vars(TimerExpire)
  /\ WF_vars(TimerStep)
  /\ WF_vars(Running)

FairSpec == Spec /\ Fairness

-----------------------------------------------------------------------------
(* Properties. *)

(* A start has set mode to REPLAY and has not called queue_work yet. *)
Starting ==
  \/ \E u \in Users : pc[u] \in {"del_timer", "queue"}
  \/ timer_fn = "queue"

(* The worker runs and has not yet reset the mode. *)
WorkerWillComplete == worker \in {"alloc", "check", "sleep", "notify", "complete"}

(* A replay is under way: it is being started, pending or running. *)
ReplayUnderWay == Starting \/ queued \/ WorkerWillComplete

(* REPLAY is never left behind: while the device says REPLAY, a replay     *)
(* whose end resets the mode is under way (echo_state_start_replay and the *)
(* timer set the mode long before they queue the work).                    *)
ReplayAccounted == mode = "REPLAY" => ReplayUnderWay

(* A writer blocked in write(REPLAY) has somebody left to wake it: the     *)
(* flag is set, or the worker or a STOP is on its way to                   *)
(* signal_replay_done, or another writer has just cleared the flag and is  *)
(* about to start a replay of its own or to find one running.              *)
WaiterHasWaker ==
  \A u \in Users :
    op[u] = "REPLAY" /\ pc[u] \in {"started", "wait"} =>
      \/ replay_finished
      \/ ReplayUnderWay
      \/ worker = "finish"
      \/ \E v \in Users : pc[v] \in {"flagged", "stop_timer", "stop_cancel",
                                 "stop_flush", "stop_signal"}

(* TEACH never outlives its inactivity timer: the timer is pending or in   *)
(* its handler, somebody is about to arm it, or a replay is under way that *)
(* will reset the mode.  Every path that deletes the timer races with the  *)
(* paths that enter TEACH.                                                 *)
Timed ==
  \/ timer = "pending"
  \/ timer_fn = "check"
  \/ \E u \in Users : pc[u] \in {"teach_clear", "teach_arm"}
  \/ \E i \in Pins : irq_pc[i] \in {"get", "move", "record", "count", "arm"}
TeachTimed == mode = "TEACH" => Timed \/ ReplayUnderWay

(* Without TEACH and STOP requests a replay is exclusive: the device says  *)
(* REPLAY exactly while one replay is under way, in one place, whoever     *)
(* started it.                                                             *)
Starters == {u \in Users : pc[u] \in {"del_timer", "queue"}}
ReplayExclusive ==
  /\ mode = "REPLAY" <=> ReplayUnderWay
  /\ \A u, v \in Starters : u = v
  /\ Starters # {} => timer_fn # "queue" /\ ~queued /\ ~WorkerWillComplete
  /\ timer_fn = "queue" => ~queued /\ ~WorkerWillComplete
  /\ ~(queued /\ WorkerWillComplete)

(* TEACH is left for REPLAY, by the timer or on request; only a STOP or a  *)
(* RESET takes the device from TEACH to IDLE.                              *)
TeachKept ==
  [][mode = "TEACH" /\ mode' = "IDLE" => \E u \in Users : StopEnter(u)]_vars

(* Only a STOP or RESET inside cancel_work_sync can leave REPLAY behind    *)
(* with nothing under way.                                                 *)
OnlyStopOrphans ==
  [][ReplayAccounted /\ ~ReplayAccounted' => cancelling \union cancelling' # {}]_vars

(* Likewise, only a STOP or RESET that has not yet cancelled the replay can *)
(* leave TEACH behind with no timer: it deletes the timer, or drops the    *)
(* replay, of whoever entered TEACH after it had set the mode.             *)
InStop == \E u \in Users : pc[u] \in {"stop_timer", "stop_cancel", "stop_flush"}
OnlyStopUntimes == [][TeachTimed /\ ~TeachTimed' => InStop]_vars

(* Likewise, only a STOP or RESET inside cancel_work_sync can take from a  *)
(* writer blocked in write(REPLAY) the last one that would have woken it,  *)
(* unless one before it has left REPLAY behind.                            *)
OnlyStopStrands ==
  [][ReplayAccounted /\ WaiterHasWaker /\ ~WaiterHasWaker'
       => cancelling \union cancelling' # {}]_vars

-----------------------------------------------------------------------------
(* Whatever the processes, the presses and the worker do, the recording is *)
(* the bounded drop-oldest queue of EchoQueue, and a replay plays an exact *)
(* copy that a later TEACH, RESET or press cannot disturb.                 *)
Recorder == INSTANCE EchoQueue
              WITH q <- recording, taken <- snapshot, Items <- Moves
ImplementsQueue == Recorder!Spec

(* Whatever the requests, the driver goes from mode to mode as EchoModes   *)
(* allows, with a replay or a timer under way whenever EchoModes has one:  *)
(* the many places where either can be are one to it.                      *)
ModeMachine ==
  INSTANCE EchoModes
    WITH replay <- ReplayUnderWay, timed <- Timed, stopping <- InStop,
         MayStop <- {"STOP", "RESET"} \intersect Commands # {}
ImplementsModes == ModeMachine!Spec

-----------------------------------------------------------------------------
(* Liveness, under FairSpec. *)

(* STOP and RESET always return, whatever the timer, the presses, the      *)
(* replay worker and the other processes do meanwhile.                     *)
StopReturns == \A u \in Users : pc[u] = "stop_timer" ~> pc[u] = "idle"

(* Every replay ends: the device leaves REPLAY, unless a STOP has orphaned *)
(* it (see OnlyStopOrphans).                                               *)
ReplayEnds == mode = "REPLAY" ~> (mode # "REPLAY" \/ ~ReplayUnderWay)

(* write(REPLAY) returns while one process at a time is in it: somebody    *)
(* sets the flag, however its replay ends, and nobody clears it again.     *)
WriterReturns == \A u \in Users : pc[u] = "flagged" ~> pc[u] = "idle"

(* TEACH ends by itself once nobody arms the timer any more, unless a STOP *)
(* has deleted the timer behind its back (see TeachTimed).                 *)
Rearm == (\E u \in Users : TeachArm(u)) \/ (\E i \in Pins : InputArm(i))
TeachTimesOut ==
  []<><<Rearm>>_vars \/ (mode = "TEACH" ~> (mode # "TEACH" \/ ~TeachTimed))
=============================================================================
