------------------------ MODULE EchoLifecycleProofs -------------------------
(***************************************************************************)
(* Theorems about EchoLifecycle, for any processes, pins and requests and  *)
(* for any acquisition that fails: the tear-down waits for everybody it    *)
(* must wait for, releases all it has acquired, and nothing twice.         *)
(***************************************************************************)
EXTENDS EchoLifecycle, EchoDriverProofs

(* The create and destroy functions only group the steps of the ladder.    *)
USE DEF ServoCreate, BufferCreate, StateCreate, JoystickCreate, ChardevCreate, ProcCreate,
        ProcDestroy, ChardevDestroy, JoystickDestroy, StateDestroy, BufferDestroy, ServoDestroy

(* The stages at which a resource is not held, by resource: each set adds  *)
(* the stage that acquires it and the labels that come after its release.  *)
NoDev      == {"dev", "gone"}
NoServo    == NoDev \union {"servo", "err_free"}
NoBuffer   == NoServo \union {"buffer", "err_servo"}
NoWq       == NoBuffer \union {"wq", "free_buffer"}
NoState    == NoWq \union {"state", "err_buffer", "flush_work", "destroy_wq"}
NoJoystick == NoState \union {"joystick", "err_state", "free_state"}
NoChardev  == NoJoystick \union {"pins", "chardev", "err_joystick", "free_joystick"}
NoRegion   == NoChardev \union {"region", "fail_alloc"}
NoCdev     == NoRegion \union {"cdev", "fail_cdev"}
NoClass    == NoCdev \union {"class", "fail_class"}
NoDevice   == NoClass \union {"device", "fail_device"}
NoProcCtx  == NoDevice \union {"proc_ctx", "err_chardev"}
NoProc     == NoProcCtx \union {"proc", "free_proc"}

(* What is held is told by the stage, loading and unloading alike.         *)
Ladder ==
  /\ "dev" \in held      <=> stage \notin NoDev
  /\ "servo" \in held    <=> stage \notin NoServo
  /\ "buffer" \in held   <=> stage \notin NoBuffer
  /\ "wq" \in held       <=> stage \notin NoWq
  /\ "state" \in held    <=> stage \notin NoState
  /\ "joystick" \in held <=> stage \notin NoJoystick
  /\ "chardev" \in held  <=> stage \notin NoChardev
  /\ "region" \in held   <=> stage \notin NoRegion
  /\ "cdev" \in held     <=> stage \notin NoCdev
  /\ "class" \in held    <=> stage \notin NoClass
  /\ "device" \in held   <=> stage \notin NoDevice
  /\ "proc_ctx" \in held <=> stage \notin NoProcCtx
  /\ "proc" \in held     <=> stage \notin NoProc

LoadTypeOK ==
  /\ stage \in Stages
  /\ held \in SUBSET Resources
  /\ irqs \in SUBSET Pins
  /\ exiting \in BOOLEAN

(* One step up or down the ladder, by the rung it takes. *)
LEMMA AcquireLadder ==
  ASSUME Ladder, InitStep
  PROVE  Ladder'
<1> USE DEF Acquire, Ladder, NoDev, NoServo, NoBuffer, NoWq, NoState, NoJoystick,
           NoChardev, NoRegion, NoCdev, NoClass, NoDevice, NoProcCtx, NoProc
<1>1. CASE Acquire("dev", "servo", "gone")
  BY <1>1
<1>2. CASE Acquire("servo", "buffer", "err_free")
  BY <1>2
<1>3. CASE Acquire("buffer", "wq", "err_servo")
  BY <1>3
<1>4. CASE Acquire("wq", "state", "free_buffer")
  BY <1>4
<1>5. CASE Acquire("state", "joystick", "err_buffer")
  BY <1>5
<1>6. CASE Acquire("joystick", "pins", "err_state")
  BY <1>6
<1>7. CASE Acquire("chardev", "region", "err_joystick")
  BY <1>7
<1>8. CASE Acquire("region", "cdev", "fail_alloc")
  BY <1>8
<1>9. CASE Acquire("cdev", "class", "fail_cdev")
  BY <1>9
<1>10. CASE Acquire("class", "device", "fail_class")
  BY <1>10
<1>11. CASE Acquire("device", "proc_ctx", "fail_device")
  BY <1>11
<1>12. CASE Acquire("proc_ctx", "proc", "err_chardev")
  BY <1>12
<1>13. CASE Acquire("proc", "loaded", "free_proc")
  BY <1>13
<1>14. CASE RequestPin
  BY <1>14 DEF RequestPin
<1> QED BY <1>1, <1>2, <1>3, <1>4, <1>5, <1>6, <1>7, <1>8, <1>9, <1>10, <1>11, <1>12, <1>13, <1>14 DEF InitStep

LEMMA ReleaseLadder ==
  ASSUME Ladder, TearDownStep
  PROVE  Ladder'
<1> USE DEF Release, Ladder, NoDev, NoServo, NoBuffer, NoWq, NoState, NoJoystick,
           NoChardev, NoRegion, NoCdev, NoClass, NoDevice, NoProcCtx, NoProc
<1>1. CASE Release("remove_proc", "proc", "free_proc")
  BY <1>1
<1>2. CASE Release("free_proc", "proc_ctx", "err_chardev")
  BY <1>2
<1>3. CASE Release("err_chardev", "device", "fail_device")
  BY <1>3
<1>4. CASE Release("fail_device", "class", "fail_class")
  BY <1>4
<1>5. CASE Release("fail_class", "cdev", "fail_cdev")
  BY <1>5
<1>6. CASE Release("fail_cdev", "region", "fail_alloc")
  BY <1>6
<1>7. CASE Release("fail_alloc", "chardev", "err_joystick")
  BY <1>7
<1>8. CASE Release("free_joystick", "joystick", "err_state")
  BY <1>8
<1>9. CASE Release("free_state", "state", "err_buffer")
  BY <1>9
<1>10. CASE Release("destroy_wq", "wq", "free_buffer")
  BY <1>10
<1>11. CASE Release("free_buffer", "buffer", "err_servo")
  BY <1>11
<1>12. CASE Release("err_servo", "servo", "err_free")
  BY <1>12
<1>13. CASE Release("err_free", "dev", "gone")
  BY <1>13
<1>14. CASE (\E i \in Pins : FreePin(i)) \/ PinsFreed
  BY <1>14 DEF FreePin, PinsFreed
<1>15. CASE DestroyTimer \/ DestroyCancel \/ DestroyFlush
  BY <1>15 DEF DestroyTimer, DestroyCancel, DestroyFlush
<1> QED BY <1>1, <1>2, <1>3, <1>4, <1>5, <1>6, <1>7, <1>8, <1>9, <1>10, <1>11, <1>12, <1>13, <1>14, <1>15 DEF TearDownStep

(* The stages in which nobody can have opened the device yet, in which no  *)
(* interrupt thread can run, in which the timer is deleted for good, and   *)
(* in which the work is cancelled for good.                                *)
Opening   == {"dev", "servo", "buffer", "wq", "state", "joystick", "pins",
              "chardev", "region", "cdev"}
NoPress   == NoJoystick \union {"free_joystick"}
NoTimer   == NoState \union {"free_state"}
NoWork    == NoWq \union {"destroy_wq"}

(* The steps of insmod and rmmod enter those stages only by waiting.       *)
StageMoves ==
  /\ stage' \in Opening => stage \in Opening
  /\ stage \in NoChardev /\ stage' \notin NoChardev => stage \in Opening
  /\ stage' \in NoPress => stage \in NoPress \/ PinsFreed
  /\ stage' \in NoProcCtx => stage \in NoProcCtx \/ ~showing
  /\ stage' \in NoTimer => stage \in NoTimer \/ DestroyTimer
  /\ stage' \in NoWork => stage \in NoWork \/ DestroyFlush
  /\ stage' = "flush_work" => DestroyCancel
  /\ stage = "flush_work" => DestroyFlush

LEMMA LoadMoves ==
  ASSUME InitStep \/ ExitBegin
  PROVE  StageMoves
<1> USE DEF Opening, NoPress, NoTimer, NoWork, NoDev, NoServo, NoBuffer, NoWq, NoState,
            NoJoystick, NoChardev, NoRegion, NoCdev, NoClass, NoDevice, NoProcCtx
<1>1. CASE ExitBegin
  BY <1>1 DEF ExitBegin, StageMoves
<1>2. CASE RequestPin
  BY <1>2 DEF RequestPin, StageMoves
<1>3. CASE InitStep /\ ~RequestPin
  BY <1>3 DEF InitStep, Acquire, StageMoves
<1> QED BY <1>1, <1>2, <1>3

LEMMA TearDownMoves ==
  ASSUME TearDownStep
  PROVE  StageMoves
<1> USE DEF Opening, NoPress, NoTimer, NoWork, NoDev, NoServo, NoBuffer, NoWq, NoState,
            NoJoystick, NoChardev, NoRegion, NoCdev, NoClass, NoDevice, NoProcCtx
<1>1. CASE (\E i \in Pins : FreePin(i)) \/ PinsFreed
  BY <1>1 DEF FreePin, PinsFreed, StageMoves
<1>2. CASE DestroyTimer \/ DestroyCancel \/ DestroyFlush
  BY <1>2 DEF DestroyTimer, DestroyCancel, DestroyFlush, StageMoves
<1>3. CASE ~((\E i \in Pins : FreePin(i)) \/ PinsFreed
             \/ DestroyTimer \/ DestroyCancel \/ DestroyFlush)
  BY <1>3 DEF TearDownStep, Release, StageMoves
<1> QED BY <1>1, <1>2, <1>3

-----------------------------------------------------------------------------
(* The inductive invariant. *)

FilesOK ==
  /\ stage \in Opening => files = {}
  /\ \A u \in Users : pc[u] # "idle" => u \in files
PinsOK == stage \in NoPress => irqs = {} /\ \A i \in Pins : irq_pc[i] = "idle"
ShowOK == showing => stage \notin NoProcCtx
TimerOK == ~Stranded /\ stage \in NoTimer => timer = "off" /\ timer_fn = "idle"
WorkOK ==
  ~Stranded =>
    /\ stage \in NoWork => ~queued /\ worker = "idle"
    /\ stage = "flush_work" => ~queued
CancelOK ==
  \A u \in cancelling : (u = Loader /\ stage = "flush_work") \/ pc[u] = "stop_flush"

ActorsOK == FilesOK /\ PinsOK /\ ShowOK /\ TimerOK /\ WorkOK /\ CancelOK

LInv == LifeTypeOK /\ Ladder /\ ActorsOK

LEMMA LifeInitInv == LifeInit => LInv
<1> SUFFICES ASSUME LifeInit PROVE LInv
  OBVIOUS
<1> USE DEF LifeInit
<1>1. LifeTypeOK
  BY InitType DEF LifeTypeOK, Stages, Resources
<1>2. Ladder
  BY DEF Ladder, NoDev, NoServo, NoBuffer, NoWq, NoState, NoJoystick, NoChardev,
         NoRegion, NoCdev, NoClass, NoDevice, NoProcCtx, NoProc
<1>3. ActorsOK
  BY DEF Init, StateInit, BufferInit, ActorsOK, FilesOK, PinsOK, ShowOK, TimerOK, WorkOK,
         CancelOK
<1> QED BY <1>1, <1>2, <1>3 DEF LInv

(* What the stages mean for the actors: an open file needs the device that *)
(* is in use, and before and after it nobody is in the driver.             *)
LEMMA NobodyInside ==
  ASSUME LInv, ~Stranded, stage \in NoChardev
  PROVE  files = {} /\ \A u \in Users : pc[u] = "idle"
BY DEF LInv, Ladder, ActorsOK, FilesOK, Stranded

LEMMA NoWorkIsLate == NoWork \subseteq NoTimer /\ NoTimer \subseteq NoPress
                      /\ NoPress \subseteq NoChardev /\ "flush_work" \in NoTimer
BY DEF NoTimer, NoWork, NoPress, NoDev, NoServo, NoBuffer, NoWq, NoState, NoJoystick,
       NoChardev

(* A stranded process stays stranded: its close has nothing to work on.    *)
LEMMA StrandedStays ==
  ASSUME LInv, Ladder', Stranded,
         (StageMoves /\ files' = files) \/ (UNCHANGED <<stage, held>> /\ files \subseteq files')
  PROVE  Stranded'
BY DEF LInv, Ladder, ActorsOK, FilesOK, Stranded, StageMoves

-----------------------------------------------------------------------------
(* The steps of insmod and rmmod. *)

Moving ==
  (InitStep \/ ExitBegin \/ TearDownStep) /\ ~DestroyTimer /\ ~DestroyCancel /\ ~DestroyFlush

LEMMA MovingFrame ==
  ASSUME LInv, Moving
  PROVE  UNCHANGED <<vars, fileVars>> /\ Ladder' /\ StageMoves
<1>1. UNCHANGED <<vars, fileVars>>
  BY DEF Moving, InitStep, Acquire, RequestPin, ExitBegin, TearDownStep, Release, FreePin,
         PinsFreed
<1>2. StageMoves
  BY LoadMoves, TearDownMoves DEF Moving
<1>3. ExitBegin => Ladder'
  BY DEF LInv, ExitBegin, Ladder, NoDev, NoServo, NoBuffer, NoWq, NoState, NoJoystick,
         NoChardev, NoRegion, NoCdev, NoClass, NoDevice, NoProcCtx, NoProc
<1>4. Ladder'
  BY <1>3, AcquireLadder, ReleaseLadder DEF Moving, LInv
<1> QED BY <1>1, <1>2, <1>4

LEMMA MovingInv == ASSUME LInv, Moving PROVE LInv'
<1>1. UNCHANGED <<vars, fileVars>> /\ Ladder' /\ StageMoves
  BY MovingFrame
<1>2. TypeOK'
  BY <1>1, NextType DEF LInv, LifeTypeOK
<1>3. /\ stage' \in Stages /\ held' \in SUBSET Resources /\ irqs' \in SUBSET Pins
      /\ exiting' \in BOOLEAN
  BY DEF LInv, LifeTypeOK, Moving, InitStep, Acquire, RequestPin, ExitBegin, TearDownStep,
         Release, FreePin, PinsFreed, Resources, Stages
<1>4. LifeTypeOK'
  BY <1>1, <1>2, <1>3 DEF LInv, LifeTypeOK, fileVars
<1>5. Stranded => Stranded'
  BY <1>1, StrandedStays DEF fileVars
<1>6. /\ stage' \in NoPress => stage \in NoPress \/ PinsFreed
      /\ stage' \in NoPress => irqs' \subseteq irqs
  BY <1>1 DEF StageMoves, Moving, InitStep, Acquire, RequestPin, ExitBegin, TearDownStep,
              Release, FreePin, PinsFreed, NoPress, NoDev, NoServo, NoBuffer, NoWq, NoState,
              NoJoystick
<1>7. PinsOK'
  BY <1>1, <1>6 DEF LInv, ActorsOK, PinsOK, PinsFreed, vars, irqVars
<1>8. FilesOK' /\ ShowOK'
  BY <1>1 DEF LInv, ActorsOK, FilesOK, ShowOK, StageMoves, vars, userVars, fileVars
<1>9. TimerOK' /\ WorkOK'
  BY <1>1, <1>5 DEF Moving, LInv, ActorsOK, TimerOK, WorkOK, StageMoves, vars, stateVars,
                    bufferVars
<1>10. CancelOK'
  BY <1>1 DEF Moving, LInv, ActorsOK, CancelOK, StageMoves, vars, userVars, bufferVars
<1> QED BY <1>1, <1>4, <1>7, <1>8, <1>9, <1>10 DEF LInv, ActorsOK

(* The parts of the invariant that a destroy function cannot disturb.      *)
LEMMA DestroyFrame ==
  ASSUME LInv, DestroyTimer \/ DestroyCancel \/ DestroyFlush
  PROVE  /\ Ladder' /\ LifeTypeOK'
         /\ FilesOK' /\ PinsOK' /\ ShowOK' /\ (Stranded => Stranded')
         /\ UNCHANGED <<userVars, files>>
<1> USE DEF DestroyTimer, DestroyCancel, DestroyFlush
<1>1. UNCHANGED <<pos, flagVars, userVars, irqVars, held, irqs, exiting, fileVars>>
  OBVIOUS
<1>2. Ladder' /\ StageMoves
  BY ReleaseLadder, TearDownMoves DEF LInv, TearDownStep
<1>3. StateTypeOK' /\ BufferTypeOK'
  <2>1. TypeOK /\ Loader \in Users
    BY LifecycleAssumption DEF LInv, LifeTypeOK
  <2> QED
    BY <2>1 DEF TypeOK, StateTypeOK, BufferTypeOK, DeleteTimerSync, CancelBegin, CancelEnd,
                stateVars, bufferVars
<1>4. TypeOK'
  BY <1>1, <1>3 DEF LInv, LifeTypeOK, TypeOK, flagVars, userVars, irqVars
<1>5. LifeTypeOK'
  BY <1>1, <1>4 DEF LInv, LifeTypeOK, fileVars, Stages
<1>6. Stranded => Stranded'
  BY <1>1, <1>2, StrandedStays DEF fileVars
<1>7. FilesOK' /\ ShowOK'
  BY <1>1, <1>2 DEF LInv, ActorsOK, FilesOK, ShowOK, StageMoves, userVars, fileVars
<1>8. stage' \in NoPress => stage \in NoPress
  BY DEF NoPress, NoDev, NoServo, NoBuffer, NoWq, NoState, NoJoystick
<1>9. PinsOK'
  BY <1>1, <1>8 DEF LInv, ActorsOK, PinsOK, irqVars
<1> QED BY <1>1, <1>2, <1>5, <1>6, <1>7, <1>9 DEF fileVars

(* timer_delete_sync comes when no press can arm the timer any more. *)
LEMMA DestroyTimerInv == ASSUME LInv, DestroyTimer PROVE LInv'
<1>1. TimerOK'
  BY DEF DestroyTimer, DeleteTimerSync, TimerOK
<1>2. WorkOK' /\ CancelOK'
  <2>1. stage' \notin NoWork /\ stage' # "flush_work" /\ stage # "flush_work"
    BY DEF DestroyTimer, NoWork, NoDev, NoServo, NoBuffer, NoWq
  <2> QED
    BY <2>1 DEF LInv, ActorsOK, DestroyTimer, WorkOK, CancelOK, userVars, bufferVars
<1> QED BY <1>1, <1>2, DestroyFrame DEF LInv, ActorsOK

(* cancel_work_sync comes when the timer cannot queue the work any more. *)
LEMMA DestroyCancelInv == ASSUME LInv, DestroyCancel PROVE LInv'
<1> USE DEF LInv, ActorsOK
<1>1. stage = "err_buffer" /\ stage' = "flush_work" /\ queued' = FALSE
      /\ cancelling' = cancelling \union {Loader} /\ UNCHANGED <<stateVars, userVars>>
  BY DEF DestroyCancel, CancelBegin
<1>2. stage \in NoTimer /\ stage' \notin NoWork
  BY <1>1 DEF NoTimer, NoWork, NoDev, NoServo, NoBuffer, NoWq, NoState
<1>3. TimerOK'
  BY <1>1, <1>2, DestroyFrame DEF TimerOK, stateVars
<1>4. WorkOK' /\ CancelOK'
  BY <1>1, <1>2 DEF WorkOK, CancelOK, userVars
<1> QED BY <1>3, <1>4, DestroyFrame

LEMMA DestroyFlushInv == ASSUME LInv, DestroyFlush PROVE LInv'
<1> USE DEF LInv, ActorsOK
<1>1. stage = "flush_work" /\ stage' = "destroy_wq" /\ worker = "idle"
      /\ cancelling' = cancelling \ {Loader} /\ UNCHANGED <<stateVars, userVars, queued, worker>>
  BY DEF DestroyFlush, CancelEnd
<1>2. stage \in NoTimer
  BY <1>1, NoWorkIsLate
<1>3. TimerOK'
  BY <1>1, <1>2, DestroyFrame DEF TimerOK, stateVars
<1>4. WorkOK' /\ CancelOK'
  BY <1>1, DestroyFrame DEF WorkOK, CancelOK, userVars
<1> QED BY <1>3, <1>4, DestroyFrame

-----------------------------------------------------------------------------
(* The rest of the system. *)

(* A process that opens, closes or reads the statistics. *)
LEMMA FileInv ==
  ASSUME LInv, (\E u \in Users : Open(u) \/ Close(u)) \/ ShowBegin \/ ShowEnd
  PROVE  LInv'
<1> USE DEF LInv, ActorsOK
<1>1. UNCHANGED <<vars, loadVars>>
  BY DEF Open, Close, ShowBegin, ShowEnd
<1>2. TypeOK'
  BY <1>1, NextType DEF LifeTypeOK
<1>3. files' \in SUBSET (Users \ {Loader}) /\ showing' \in BOOLEAN
  BY DEF LifeTypeOK, Open, Close, ShowBegin, ShowEnd
<1>4. LifeTypeOK'
  BY <1>1, <1>2, <1>3 DEF LifeTypeOK, loadVars
<1>5. Ladder' /\ PinsOK'
  BY <1>1 DEF Ladder, PinsOK, loadVars, vars, irqVars
<1>6. FilesOK'
  <2>1. \A u \in Users : Open(u) => stage \notin Opening
    BY DEF Open, Ladder, NoCdev, NoRegion, NoChardev, NoJoystick, NoState, NoWq, NoBuffer,
           NoServo, NoDev, Opening
  <2>2. \A u \in Users : pc[u] # "idle" => u \in files'
    BY DEF Open, Close, ShowBegin, ShowEnd, FilesOK
  <2> QED BY <1>1, <2>1, <2>2
          DEF Open, Close, ShowBegin, ShowEnd, FilesOK, loadVars, vars, userVars
<1>7. ShowOK'
  <2>1. ShowBegin => stage \notin NoProcCtx
    BY DEF ShowBegin, Ladder, NoProc
  <2> QED BY <1>1, <2>1 DEF Open, Close, ShowBegin, ShowEnd, ShowOK, loadVars
<1>8. Stranded => Stranded'
  BY <1>1 DEF Stranded, Open, Close, ShowBegin, ShowEnd, loadVars
<1>9. TimerOK' /\ WorkOK' /\ CancelOK'
  BY <1>1, <1>8 DEF TimerOK, WorkOK, CancelOK, loadVars, vars, stateVars, bufferVars, userVars
<1> QED BY <1>4, <1>5, <1>6, <1>7, <1>9

(* A step inside the driver keeps what only insmod, rmmod and the opening  *)
(* processes change.                                                       *)
LEMMA InsideFrame ==
  ASSUME LInv, TypeOK', UNCHANGED <<loadVars, fileVars>>
  PROVE  LifeTypeOK' /\ Ladder' /\ ShowOK' /\ Stranded' = Stranded
BY DEF LInv, ActorsOK, LifeTypeOK, Ladder, ShowOK, Stranded, loadVars, fileVars

(* Only a process with an open file is inside a request, and it can be     *)
(* there only while the device is in use.                                  *)
LEMMA RequestInv ==
  ASSUME LInv, NEW u \in Users, FileCall(u) \/ FileStep(u)
  PROVE  LInv'
<1> USE DEF LInv, ActorsOK
<1>1. UNCHANGED <<loadVars, fileVars>> /\ (UserCall(u) \/ UserStep(u))
  BY DEF FileCall, FileStep
<1>2. TypeOK /\ TypeOK'
  BY <1>1, UserType DEF LifeTypeOK
<1>3. u \in files
  <2>1. UserStep(u) => pc[u] # "idle"
    BY DEF At, UserStep, TeachClear, TeachArm, ReplayAccept, ReplayBusy, StartDelTimer,
           StartQueue, StartNotify, ReplayReturn, StopDelTimer, StopCancel, StopFlush,
           StopSignal, StopData, StopNotify, ResetClear, ResetCentre, UserNotify
  <2> QED BY <2>1 DEF FileCall, FileStep, FilesOK
<1>4. u # Loader /\ stage \notin Opening
  BY <1>3 DEF LifeTypeOK, FilesOK
<1>5. ~Stranded => stage \notin NoTimer /\ stage \notin NoWork /\ stage # "flush_work"
  BY <1>3, NobodyInside, NoWorkIsLate
<1>6. FilesOK'
  BY <1>1, <1>2, <1>3, <1>4, UserFrame DEF FilesOK, fileVars, loadVars
<1>7. PinsOK' /\ TimerOK' /\ WorkOK'
  <2>1. irq_pc' = irq_pc
    BY <1>1, <1>2, UserFrame
  <2>2. Stranded' = Stranded
    BY <1>1, <1>2, InsideFrame
  <2> QED BY <1>1, <1>5, <2>1, <2>2 DEF PinsOK, TimerOK, WorkOK, loadVars
<1>8. CancelOK'
  <2>1. CASE StopCancel(u)
    BY <1>1, <1>2, <2>1 DEF StopCancel, Goto, CancelBegin, CancelOK, TypeOK, loadVars
  <2>2. CASE StopFlush(u)
    BY <1>1, <1>2, <2>2 DEF StopFlush, Goto, CancelEnd, CancelOK, TypeOK, loadVars
  <2>3. CASE ~StopCancel(u) /\ ~StopFlush(u)
    <3>1. cancelling' = cancelling
      BY <1>1, <1>2, <2>3, UserFrame
    <3>2. pc[u] # "stop_flush" /\ \A v \in Users \ {u} : pc'[v] = pc[v]
      BY <1>1, <1>2, <2>3, UserFrame
      DEF UserCall, TeachEnter, ReplayFlag, SetReplayAccept, StopEnter, MoveServo,
          MoveFails, ReplayInterrupted, Call, At, UserStep, TeachClear, TeachArm,
          ReplayAccept, ReplayBusy, StartDelTimer, StartQueue, StartNotify, ReplayReturn,
          StopDelTimer, StopSignal, StopData, StopNotify, ResetClear, ResetCentre,
          UserNotify
    <3>3. cancelling \subseteq Users
      BY <1>2 DEF TypeOK, BufferTypeOK
    <3> QED BY <1>1, <3>1, <3>2, <3>3 DEF CancelOK, loadVars
  <2> QED BY <2>1, <2>2, <2>3
<1> QED BY <1>1, <1>2, <1>6, <1>7, <1>8, InsideFrame

(* A press needs a requested IRQ, and a running thread is waited for. *)
LEMMA PressInv ==
  ASSUME LInv, NEW i \in Pins, Press(i) \/ PressStep(i)
  PROVE  LInv'
<1> USE DEF LInv, ActorsOK
<1>1. UNCHANGED <<loadVars, fileVars>> /\ (InputEnter(i) \/ InputStep(i))
  BY DEF Press, PressStep
<1>2. TypeOK /\ TypeOK'
  BY <1>1, InputType DEF LifeTypeOK
<1>3. stage \notin NoPress
  <2>1. InputStep(i) => irq_pc[i] # "idle"
    BY DEF InputStep, InputGet, InputMove, InputRecord, InputCount, InputArm, InputNotify,
           IrqGoto
  <2> QED BY <2>1 DEF Press, PressStep, PinsOK
<1>4. stage \notin NoTimer /\ stage \notin NoWork /\ stage # "flush_work"
  BY <1>3, NoWorkIsLate
<1>5. UNCHANGED <<pc, cancelling>>
  BY <1>1, <1>2, InputFrame
<1>6. FilesOK' /\ PinsOK' /\ TimerOK' /\ WorkOK' /\ CancelOK'
  BY <1>1, <1>3, <1>4, <1>5 DEF FilesOK, PinsOK, TimerOK, WorkOK, CancelOK, loadVars, fileVars
<1> QED BY <1>1, <1>2, <1>6, InsideFrame

LEMMA TimerRunsInv == ASSUME LInv, TimerRuns PROVE LInv'
<1> USE DEF LInv, ActorsOK
<1>1. UNCHANGED <<loadVars, fileVars>> /\ (TimerExpire \/ TimerStep)
  BY DEF TimerRuns
<1>2. TypeOK'
  BY <1>1, TimerType DEF LifeTypeOK
<1>3. UNCHANGED <<pc, irq_pc, cancelling, worker>>
  BY <1>1, TimerFrame
<1>4. timer = "pending" \/ timer_fn # "idle"
  BY <1>1 DEF TimerExpire, Expire, TimerStep, TimerCheck, TimeoutCheck, TimerQueue,
              TimerNotify, TimeoutStep
<1>5. ~Stranded => stage \notin NoTimer /\ stage \notin NoWork /\ stage # "flush_work"
  BY <1>4, NoWorkIsLate DEF TimerOK
<1>6. FilesOK' /\ PinsOK' /\ CancelOK'
  BY <1>1, <1>3 DEF FilesOK, PinsOK, CancelOK, loadVars, fileVars
<1>7. Stranded' = Stranded
  BY <1>1, <1>2, InsideFrame
<1>8. TimerOK' /\ WorkOK'
  BY <1>1, <1>5, <1>7 DEF TimerOK, WorkOK, loadVars
<1> QED BY <1>1, <1>2, <1>6, <1>8, InsideFrame

(* The worker, also where it calls into a freed state machine. *)
LEMMA WorkerRunsInv == ASSUME LInv, WorkerRuns \/ WorkerOnFreed PROVE LInv'
<1> USE DEF LInv, ActorsOK
<1>1. UNCHANGED <<loadVars, fileVars>>
  BY DEF WorkerRuns, WorkerOnFreed
<1>2. CASE WorkerRuns
  <2>1. TypeOK' /\ UNCHANGED <<pc, irq_pc, timer, timer_fn, cancelling>>
    BY <1>2, WorkerType, WorkerFrame DEF WorkerRuns, LifeTypeOK
  <2>2. ~(~queued /\ worker = "idle")
    BY <1>2 DEF WorkerRuns, WorkerNext, WorkerBegin, WorkerEnter, WorkerOom, WorkerSnapshot,
                TakeSnapshot, WorkerCheck, LoopCheck, WorkerMove, WorkerNotify, LoopAdvance,
                WorkerComplete, WorkerFinish, WorkerExit, WorkerReturn, WorkerStep
  <2>3. ~queued => ~queued'
    BY <1>2, WorkerFrame DEF WorkerRuns, WorkerBegin, WorkerEnter
  <2>4. Stranded' = Stranded
    BY <1>1, <2>1, InsideFrame
  <2>5. FilesOK' /\ PinsOK' /\ TimerOK' /\ WorkOK' /\ CancelOK'
    BY <1>1, <2>1, <2>2, <2>3, <2>4
    DEF FilesOK, PinsOK, TimerOK, WorkOK, CancelOK, loadVars, fileVars
  <2> QED BY <1>1, <2>1, <2>5, InsideFrame
<1>3. CASE WorkerOnFreed
  <2>1. /\ worker # "idle" /\ UNCHANGED <<queued, cancelling>>
        /\ UNCHANGED <<stateVars, pos, flagVars, userVars, irqVars>>
    BY <1>3 DEF WorkerOnFreed, LoopCheck, WorkerStep
  <2>2. BufferTypeOK'
    BY <1>3 DEF WorkerOnFreed, LoopCheck, WorkerStep, LifeTypeOK, TypeOK, BufferTypeOK,
                WorkerPcs
  <2>3. TypeOK'
    BY <2>1, <2>2 DEF LifeTypeOK, TypeOK, StateTypeOK, stateVars, flagVars, userVars, irqVars
  <2>4. Stranded' = Stranded
    BY <1>1, <2>3, InsideFrame
  <2>5. FilesOK' /\ PinsOK' /\ TimerOK' /\ WorkOK' /\ CancelOK'
    BY <1>1, <2>1, <2>4 DEF FilesOK, PinsOK, TimerOK, WorkOK, CancelOK, loadVars, fileVars,
                            stateVars, userVars, irqVars
  <2> QED BY <1>1, <2>3, <2>5, InsideFrame
<1> QED BY <1>2, <1>3

LEMMA LifeStutterInv == ASSUME LInv, UNCHANGED lifeVars PROVE LInv'
<1> USE DEF LInv, ActorsOK, lifeVars
<1>1. TypeOK'
  BY NextType DEF LifeTypeOK
<1>2. Stranded' = Stranded
  BY <1>1, InsideFrame
<1>3. FilesOK' /\ PinsOK' /\ TimerOK' /\ WorkOK' /\ CancelOK'
  BY <1>2 DEF FilesOK, PinsOK, TimerOK, WorkOK, CancelOK, loadVars, fileVars, vars,
              stateVars, bufferVars, userVars, irqVars
<1> QED BY <1>1, <1>3, InsideFrame

LEMMA LifeNextInv == LInv /\ [LifeNext]_lifeVars => LInv'
<1> SUFFICES ASSUME LInv, [LifeNext]_lifeVars PROVE LInv'
  OBVIOUS
<1>1. CASE InitStep \/ ExitBegin \/ TearDownStep
  BY <1>1, MovingInv, DestroyTimerInv, DestroyCancelInv, DestroyFlushInv DEF Moving
<1>2. CASE \E u \in Users : Open(u) \/ Close(u) \/ FileCall(u) \/ FileStep(u)
  BY <1>2, FileInv, RequestInv
<1>3. CASE ShowBegin \/ ShowEnd
  BY <1>3, FileInv
<1>4. CASE \E i \in Pins : Press(i) \/ PressStep(i)
  BY <1>4, PressInv
<1>5. CASE TimerRuns
  BY <1>5, TimerRunsInv
<1>6. CASE WorkerRuns \/ WorkerOnFreed
  BY <1>6, WorkerRunsInv
<1> QED BY <1>1, <1>2, <1>3, <1>4, <1>5, <1>6, LifeStutterInv DEF LifeNext

LEMMA LifeInductive == LifeSpec => []LInv
BY LifeInitInv, LifeNextInv, PTL DEF LifeSpec

-----------------------------------------------------------------------------
(* With the driver being loaded and unloaded around it, and its worker     *)
(* possibly calling into freed memory, its state stays well typed.         *)
THEOREM LifeTypeCorrect == LifeSpec => []LifeTypeOK
<1>1. LInv => LifeTypeOK
  BY DEF LInv
<1> QED BY <1>1, LifeInductive, PTL

(* The order of echo_exit and of the error path of echo_init is right for  *)
(* everybody but the replay worker: an open file, a reader of              *)
(* /proc/echo_stats, an interrupt thread, the timer and its handler find   *)
(* all they use, and the worker all but the state machine.                 *)
THEOREM NothingDanglesTheorem == LifeSpec => []NothingDangles
<1>1. ASSUME LInv, ~Stranded
      PROVE  NothingDangles
  <2> USE <1>1 DEF LInv, ActorsOK
  <2> DEFINE Has(s) == Core \union s \subseteq held
  <2>1. files # {} => stage \notin NoChardev
    BY DEF Stranded, Ladder
  <2>2. showing => stage \notin NoProcCtx
    BY DEF ShowOK
  <2>3. \A i \in Pins : i \in irqs \/ irq_pc[i] # "idle" => stage \notin NoPress
    BY DEF PinsOK
  <2>4. timer = "pending" \/ timer_fn # "idle" => stage \notin NoTimer
    BY DEF TimerOK
  <2>5. queued \/ worker # "idle" => stage \notin NoWork
    BY DEF WorkOK
  <2>6. /\ stage \notin NoProcCtx => stage \notin NoChardev
        /\ stage \notin NoChardev => stage \notin NoPress /\ Has({"joystick", "chardev"})
        /\ stage \notin NoPress => stage \notin NoTimer /\ Has({"joystick"})
        /\ stage \notin NoTimer => stage \notin NoWork /\ Has({})
        /\ stage \notin NoWork => Core \ {"state"} \subseteq held
    BY DEF Ladder, Core, NoTimer, NoWork, NoPress, NoDev, NoServo, NoBuffer, NoWq, NoState,
           NoJoystick, NoChardev, NoRegion, NoCdev, NoClass, NoDevice, NoProcCtx
  <2> QED BY <2>1, <2>2, <2>3, <2>4, <2>5, <2>6 DEF NothingDangles
<1>2. LInv => NothingDangles
  BY <1>1 DEF NothingDangles
<1> QED BY <1>2, LifeInductive, PTL

(* Whichever acquisition fails, and after rmmod, every resource has been   *)
(* released and the timer, the worker and the interrupts sleep for good.   *)
THEOREM NothingLeftTheorem == LifeSpec => []NothingLeft
<1>1. ASSUME LInv, stage = "gone", ~Stranded
      PROVE  held = {} /\ irqs = {} /\ ~showing /\ Quiet
  <2> USE <1>1 DEF LInv, ActorsOK
  <2>1. stage \in NoDev /\ stage \in NoWork /\ stage \in NoTimer /\ stage \in NoPress
        /\ stage \in NoChardev /\ stage \in NoProcCtx
    BY DEF NoTimer, NoWork, NoPress, NoDev, NoServo, NoBuffer, NoWq, NoState, NoJoystick,
           NoChardev, NoRegion, NoCdev, NoClass, NoDevice, NoProcCtx
  <2>2. held = {}
    BY DEF Ladder, LifeTypeOK, Resources, NoDev, NoServo, NoBuffer, NoWq, NoState,
           NoJoystick, NoChardev, NoRegion, NoCdev, NoClass, NoDevice, NoProcCtx, NoProc
  <2>3. \A u \in Users : pc[u] = "idle"
    BY <2>1, NobodyInside
  <2>4. cancelling = {}
    BY <2>3 DEF CancelOK, LifeTypeOK, TypeOK, BufferTypeOK
  <2> QED BY <2>1, <2>2, <2>4 DEF PinsOK, ShowOK, TimerOK, WorkOK, Quiet
<1>2. LInv => NothingLeft
  BY <1>1 DEF NothingLeft
<1> QED BY <1>2, LifeInductive, PTL

(* No label of the goto ladder releases what is not held. *)
THEOREM FreedOnceTheorem == LifeSpec => FreedOnce
<1> DEFINE A == TearDownStep /\ held' = held
                  => stage \in {"err_joystick", "err_state", "err_buffer", "flush_work"}
<1>1. ASSUME LInv, TearDownStep, held' = held
      PROVE  stage \in {"err_joystick", "err_state", "err_buffer", "flush_work"}
  <2> USE <1>1 DEF LInv
  <2>1. CASE (\E i \in Pins : FreePin(i)) \/ PinsFreed
    BY <2>1 DEF FreePin, PinsFreed
  <2>2. CASE DestroyTimer \/ DestroyCancel \/ DestroyFlush
    BY <2>2 DEF DestroyTimer, DestroyCancel, DestroyFlush
  <2>3. CASE ~((\E i \in Pins : FreePin(i)) \/ PinsFreed
               \/ DestroyTimer \/ DestroyCancel \/ DestroyFlush)
    BY <2>3 DEF TearDownStep, Release, Ladder, NoDev, NoServo, NoBuffer, NoWq, NoState,
         NoJoystick, NoChardev, NoRegion, NoCdev, NoClass, NoDevice, NoProcCtx, NoProc
  <2> QED BY <2>1, <2>2, <2>3
<1>2. LInv => [A]_lifeVars
  BY <1>1
<1> QED BY <1>2, LifeInductive, PTL DEF FreedOnce

(* Until the tear-down deletes the timer, whatever else is acquired,       *)
(* released, opened or read, the driver only takes steps of EchoDriver, so *)
(* that what is proved of its steps holds while the module is loaded.      *)
THEOREM DriverWhileLoaded ==
  LifeSpec => Init /\ [][stage \notin NoTimer \union {"err_state"} => [Next]_vars]_lifeVars
<1>1. ASSUME LInv, LifeNext, stage \notin NoTimer \union {"err_state"}
      PROVE  [Next]_vars
  <2>1. ~DestroyTimer /\ ~DestroyCancel /\ ~DestroyFlush
    BY <1>1 DEF NoTimer, NoState, DestroyTimer, DestroyCancel, DestroyFlush
  <2>2. InitStep \/ ExitBegin \/ TearDownStep => UNCHANGED vars
    BY <2>1 DEF InitStep, ExitBegin, TearDownStep, Acquire, RequestPin, Release, FreePin,
                PinsFreed
  <2>3. ~WorkerOnFreed
    BY <1>1 DEF LInv, Ladder, NoTimer, WorkerOnFreed
  <2>4. ASSUME NEW u \in Users, Open(u) \/ Close(u) \/ FileCall(u) \/ FileStep(u)
        PROVE  [Next]_vars
    BY <2>4 DEF Open, Close, FileCall, FileStep, Next
  <2>5. ASSUME NEW i \in Pins, Press(i) \/ PressStep(i)
        PROVE  Next
    BY <2>5 DEF Press, PressStep, Next
  <2>6. ShowBegin \/ ShowEnd => UNCHANGED vars
    BY DEF ShowBegin, ShowEnd
  <2>7. TimerRuns \/ WorkerRuns => Next
    BY DEF TimerRuns, WorkerRuns, Next
  <2> QED BY <1>1, <2>2, <2>3, <2>4, <2>5, <2>6, <2>7 DEF LifeNext
<1>2. LInv /\ [LifeNext]_lifeVars
        => [stage \notin NoTimer \union {"err_state"} => [Next]_vars]_lifeVars
  BY <1>1
<1>3. LifeInit => Init
  BY DEF LifeInit
<1> QED BY <1>2, <1>3, LifeInductive, PTL DEF LifeSpec
=============================================================================
