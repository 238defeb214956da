------------------------- MODULE EchoHistoryProofs --------------------------
(***************************************************************************)
(* Theorems about EchoHistory, for any processes, pins, requests and       *)
(* sizes: what an undisturbed STOP or RESET has achieved when it returns.  *)
(***************************************************************************)
EXTENDS EchoHistory, EchoDriverProofs

(* How far a STOP has got, by what it has done. *)
TimerDone  == (Stopping \union {"notify"}) \ {"stop_timer"}
CancelDone == TimerDone \ {"stop_cancel"}
FlushDone  == CancelDone \ {"stop_flush"}
ClearDone  == {"reset_pan", "reset_tilt", "reset_tilt2", "notify"}

(* The inductive invariant: each stage of an undisturbed STOP keeps what   *)
(* the earlier ones achieved.                                              *)
OthersOut(u) ==
  /\ \A v \in Users \ {u} : pc[v] \in {"idle", "wait"}
  /\ \A i \in Pins : irq_pc[i] = "idle"
Quieted(u) ==
  /\ pc[u] # "idle" => mode = "IDLE"
  /\ pc[u] \in TimerDone => timer = "off" /\ timer_fn = "idle"
  /\ pc[u] \in CancelDone => ~queued
  /\ pc[u] \in FlushDone => worker = "idle"
Centred(u) ==
  /\ pc[u] \in ClearDone => recording = <<>>
  /\ pc[u] \in ClearDone \ {"reset_pan"} => pos["PAN"] = Center
  /\ pc[u] \in {"reset_tilt2", "notify"} => pos["TILT"] = Center
  /\ pc[u] = "notify" => pos["TILT2"] = Center
StopOK(u) ==
  undisturbed[u] =>
    /\ pc[u] \in Stopping \union {"notify", "idle"}
    /\ OthersOut(u)
    /\ Quieted(u)
    /\ Centred(u)

HInv ==
  /\ TypeOK
  /\ undisturbed \in [Users -> BOOLEAN]
  /\ \A u \in Users : StopOK(u)

LEMMA HistInitInv == HistInit => HInv
BY InitType DEF HistInit, HInv, StopOK

(* A process enters a STOP by setting the mode. *)
LEMMA StopStarts ==
  ASSUME TypeOK, NEW u \in Users, pc[u] = "idle", pc'[u] = "stop_timer", Next
  PROVE  StopEnter(u)
<1>1. ASSUME NEW v \in Users, UserCall(v) \/ UserStep(v)
      PROVE  v = u
  BY <1>1, UserFrame
<1>2. ~(UserStep(u))
  BY DEF At, UserStep, TeachClear, TeachArm, ReplayAccept, ReplayBusy, StartDelTimer,
         StartQueue, StartNotify, ReplayReturn, StopDelTimer, StopCancel, StopFlush,
         StopSignal, StopData, StopNotify, ResetClear, ResetCentre, UserNotify
<1>3. UserCall(u) => StopEnter(u)
  BY DEF TypeOK, UserCall, TeachEnter, ReplayFlag, SetReplayAccept, MoveServo, MoveFails,
         ReplayInterrupted, Call, At, userVars
<1>4. ~(TimerExpire \/ TimerStep) /\ ~WorkerNext
      /\ \A i \in Pins : ~(InputEnter(i) \/ InputStep(i))
  BY TimerFrame, WorkerFrame, InputFrame
<1> QED BY <1>1, <1>2, <1>3, <1>4 DEF Next

(* The requests of a process in STOP or RESET. *)
LEMMA StopSteps ==
  ASSUME TypeOK, NEW u \in Users, pc[u] \in Stopping \union {"notify"},
         UserCall(u) \/ UserStep(u)
  PROVE  \/ StopDelTimer(u) \/ StopCancel(u) \/ StopFlush(u)
         \/ StopSignal(u) \/ StopData(u) \/ StopNotify(u) \/ ResetClear(u)
         \/ ResetCentre(u, "reset_pan", "PAN", "reset_tilt")
         \/ ResetCentre(u, "reset_tilt", "TILT", "reset_tilt2")
         \/ ResetCentre(u, "reset_tilt2", "TILT2", "notify")
         \/ UserNotify(u)
BY DEF Stopping, UserCall, TeachEnter, ReplayFlag, SetReplayAccept, StopEnter, MoveServo,
       MoveFails, ReplayInterrupted, Call, At, UserStep, TeachClear, TeachArm, ReplayAccept,
       ReplayBusy, StartDelTimer, StartQueue, StartNotify, ReplayReturn

(* Each of them does its part. *)
LEMMA OwnStep ==
  ASSUME TypeOK, NEW u \in Users, pc[u] \in Stopping \union {"notify"},
         Quieted(u), Centred(u), UserCall(u) \/ UserStep(u)
  PROVE  Quieted(u)' /\ Centred(u)' /\ pc'[u] \in Stopping \union {"notify", "idle"}
<1> USE DEF TypeOK, Quieted, Centred, At, Goto, Return, TimerDone, CancelDone, FlushDone,
            ClearDone, Stopping, stateVars, bufferVars
<1>1. CASE StopDelTimer(u)
  BY <1>1 DEF StopDelTimer, DeleteTimerSync
<1>2. CASE StopCancel(u)
  BY <1>2 DEF StopCancel, CancelBegin
<1>3. CASE StopFlush(u)
  BY <1>3 DEF StopFlush, CancelEnd
<1>4. CASE StopSignal(u) \/ StopData(u) \/ StopNotify(u)
  <2>1. /\ pc[u] \in {"stop_signal", "stop_data", "stop_notify"}
        /\ pc'[u] \in {"stop_data", "stop_notify", "reset_clear", "idle"}
        /\ UNCHANGED <<mode, timer, timer_fn, queued, worker>>
    BY <1>4 DEF StopSignal, StopData, StopNotify
  <2> QED BY <2>1
<1>5. CASE ResetClear(u)
  BY <1>5 DEF ResetClear, ClearBuffer
<1>6. CASE ResetCentre(u, "reset_pan", "PAN", "reset_tilt")
  BY <1>6 DEF ResetCentre, SetAngle, PosAfter, Servos
<1>7. CASE ResetCentre(u, "reset_tilt", "TILT", "reset_tilt2")
  BY <1>7 DEF ResetCentre, SetAngle, PosAfter, Servos
<1>8. CASE ResetCentre(u, "reset_tilt2", "TILT2", "notify")
  BY <1>8 DEF ResetCentre, SetAngle, PosAfter, Servos
<1>9. CASE UserNotify(u)
  BY <1>9 DEF UserNotify
<1> QED BY <1>1, <1>2, <1>3, <1>4, <1>5, <1>6, <1>7, <1>8, <1>9, StopSteps

(* A blocked writer that returns changes nothing the STOP relies on. *)
LEMMA OtherStep ==
  ASSUME TypeOK, NEW u \in Users, OthersOut(u), NEW v \in Users \ {u},
         UserCall(v) \/ UserStep(v), pc'[v] \in {"idle", "wait"}, ~MoveFails(v)
  PROVE  UNCHANGED <<stateVars, bufferVars, pos>> /\ pc'[u] = pc[u]
<1>1. pc[v] \in {"idle", "wait"}
  BY DEF OthersOut
<1>2. ~UserCall(v) \/ ReplayInterrupted(v)
  BY DEF TypeOK, UserCall, TeachEnter, ReplayFlag, SetReplayAccept, StopEnter, MoveServo,
         Call
<1>3. UserStep(v) => ReplayReturn(v)
  BY <1>1 DEF At, UserStep, TeachClear, TeachArm, ReplayAccept, ReplayBusy, StartDelTimer,
         StartQueue, StartNotify, StopDelTimer, StopCancel, StopFlush,
         StopSignal, StopData, StopNotify, ResetClear, ResetCentre, UserNotify
<1> QED BY <1>2, <1>3, UserFrame DEF ReplayInterrupted, ReplayReturn

(* The timer handler can still start a replay while the STOP waits for it, *)
(* but finds no TEACH; the worker can still run until it is waited for,    *)
(* but only sets the mode to IDLE.                                         *)
LEMMA BackgroundStep ==
  ASSUME TypeOK, NEW u \in Users, pc[u] \in Stopping \union {"notify"},
         Quieted(u), Centred(u), TimerExpire \/ TimerStep \/ WorkerNext
  PROVE  Quieted(u)' /\ Centred(u)' /\ pc' = pc
<1> USE DEF Quieted, Centred, TimerDone, CancelDone, FlushDone, ClearDone, Stopping
<1>1. CASE TimerExpire \/ TimerStep
  <2>1. timer # "off" \/ timer_fn # "idle"
    BY <1>1 DEF TimerExpire, Expire, TimerStep, TimerCheck, TimeoutCheck, TimerQueue,
                TimerNotify, TimeoutStep
  <2>2. pc[u] = "stop_timer" /\ mode = "IDLE"
    BY <2>1
  <2>3. mode' = mode
    BY <1>1, <2>2 DEF TimerExpire, Expire, TimerStep, TimerCheck, TimeoutCheck, TimerQueue,
                      TimerNotify, TimeoutStep
  <2> QED BY <1>1, <2>2, <2>3, TimerFrame
<1>2. CASE WorkerNext
  <2>1. queued \/ worker # "idle"
    BY <1>2 DEF WorkerNext, WorkerBegin, WorkerEnter, WorkerOom, WorkerSnapshot,
                TakeSnapshot, WorkerCheck, LoopCheck, WorkerMove, WorkerNotify, LoopAdvance,
                WorkerComplete, WorkerFinish, WorkerExit, WorkerReturn, WorkerStep
  <2>2. pc[u] \in {"stop_timer", "stop_cancel", "stop_flush"}
    BY <2>1
  <2>3. WorkerComplete => mode' = "IDLE"
    BY DEF WorkerComplete, SetMode
  <2>4. WorkerBegin => queued' = FALSE
    BY DEF WorkerBegin, WorkerEnter
  <2>5. mode' = "IDLE" /\ (~queued => ~queued') /\ UNCHANGED <<pc, timer, timer_fn>>
    BY <1>2, <2>2, <2>3, <2>4, WorkerFrame
  <2> QED BY <2>2, <2>5
<1> QED BY <1>1, <1>2, TimerFrame, WorkerFrame

LEMMA StopKept ==
  ASSUME HInv, HistNext, NEW u \in Users, undisturbed'[u]
  PROVE  StopOK(u)'
<1> USE DEF HInv
<1>1. Next /\ Alone(u)
      /\ IF pc[u] = "idle" THEN pc'[u] = "stop_timer" ELSE undisturbed[u]
  BY DEF HistNext
<1>2. OthersOut(u)'
  BY <1>1 DEF Alone, OthersOut
<1>3. CASE pc[u] = "idle"
  <2>1. StopEnter(u)
    BY <1>1, <1>3, StopStarts
  <2>2. pc'[u] = "stop_timer" /\ mode' = "IDLE"
    BY <1>1, <1>3, <2>1 DEF StopEnter, SetMode
  <2>3. Quieted(u)' /\ Centred(u)'
    BY <2>2 DEF Quieted, Centred, TimerDone, CancelDone, FlushDone, ClearDone, Stopping
  <2> QED BY <1>2, <2>2, <2>3 DEF StopOK, Stopping
<1>4. CASE pc[u] # "idle"
  <2>1. /\ undisturbed[u] /\ pc[u] \in Stopping \union {"notify"}
        /\ OthersOut(u) /\ Quieted(u) /\ Centred(u)
    BY <1>1, <1>4 DEF StopOK
  <2>2. CASE UserCall(u) \/ UserStep(u)
    BY <1>2, <2>1, <2>2, OwnStep DEF StopOK
  <2>3. ASSUME NEW v \in Users \ {u}, UserCall(v) \/ UserStep(v)
        PROVE  StopOK(u)'
    <3>1. pc'[v] \in {"idle", "wait"} /\ ~MoveFails(v)
      BY <1>1 DEF Alone
    <3>2. UNCHANGED <<stateVars, bufferVars, pos>> /\ pc'[u] = pc[u]
      BY <2>1, <2>3, <3>1, OtherStep
    <3> QED BY <1>2, <2>1, <3>2 DEF StopOK, Quieted, Centred, stateVars, bufferVars
  <2>4. ASSUME NEW i \in Pins, InputEnter(i) \/ InputStep(i)
        PROVE  FALSE
    <3>1. irq_pc[i] = "idle" /\ irq_pc'[i] = "idle"
      BY <1>1, <2>1 DEF Alone, OthersOut
    <3> QED
      BY <2>4, <3>1 DEF TypeOK, InputEnter, InputStep, InputGet, InputMove, InputRecord,
                        InputCount, InputArm, InputNotify, IrqGoto
  <2>5. CASE TimerExpire \/ TimerStep \/ WorkerNext
    BY <1>2, <2>1, <2>5, BackgroundStep DEF StopOK
  <2> QED BY <1>1, <2>2, <2>3, <2>4, <2>5 DEF Next
<1> QED BY <1>3, <1>4

LEMMA HistNextInv == HInv /\ [HistNext]_histVars => HInv'
<1> SUFFICES ASSUME HInv, [HistNext]_histVars PROVE HInv'
  OBVIOUS
<1>1. CASE HistNext
  <2>1. TypeOK'
    BY <1>1, NextType DEF HInv, HistNext
  <2>2. undisturbed' \in [Users -> BOOLEAN]
    <3>1. undisturbed' =
            [u \in Users |-> Alone(u) /\ IF pc[u] = "idle" THEN pc'[u] = "stop_timer"
                                         ELSE undisturbed[u]]
      BY <1>1 DEF HistNext
    <3>2. \A u \in Users : undisturbed[u] \in BOOLEAN
      BY DEF HInv
    <3> QED BY <3>1, <3>2, Zenon
  <2>3. \A u \in Users : StopOK(u)'
    BY <1>1, StopKept DEF StopOK
  <2> QED BY <2>1, <2>2, <2>3 DEF HInv
<1>2. CASE UNCHANGED histVars
  <2>1. TypeOK'
    BY <1>2, NextType DEF HInv, histVars
  <2>2. UNCHANGED <<undisturbed, pc, irq_pc, mode, timer, timer_fn, queued, worker,
                    recording, pos>>
    BY <1>2 DEF histVars, vars, stateVars, bufferVars, userVars, irqVars
  <2> QED BY <2>1, <2>2 DEF HInv, StopOK, OthersOut, Quieted, Centred
<1> QED BY <1>1, <1>2

LEMMA HistInductive == HistSpec => []HInv
BY HistInitInv, HistNextInv, PTL DEF HistSpec

-----------------------------------------------------------------------------
(* When an undisturbed STOP or RESET signals the end of the replay, the    *)
(* driver is idle, the timer is deleted, its handler has returned, and no  *)
(* replay is pending or running: the timer goes before the work.           *)
THEOREM StopQuietsTheorem == HistSpec => []StopQuiets
<1>1. HInv => StopQuiets
  <2>1. {"stop_signal", "stop_data", "stop_notify"} \subseteq FlushDone
        /\ FlushDone \subseteq CancelDone /\ CancelDone \subseteq TimerDone
        /\ "idle" \notin TimerDone
    BY DEF FlushDone, CancelDone, TimerDone, Stopping
  <2> QED BY <2>1 DEF HInv, StopOK, Quieted, StopQuiets
<1> QED BY <1>1, HistInductive, PTL

(* An undisturbed RESET ends with an empty recording and every servo at    *)
(* the centre: no move of the replay it cancelled comes after the          *)
(* centring.                                                               *)
THEOREM ResetCentresTheorem == HistSpec => []ResetCentres
<1>1. HInv => ResetCentres
  BY DEF HInv, StopOK, Centred, ClearDone, Servos, ResetCentres
<1> QED BY <1>1, HistInductive, PTL
=============================================================================
