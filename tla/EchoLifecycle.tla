---------------------------- MODULE EchoLifecycle --------------------------
(***************************************************************************)
(* The driver of EchoDriver between insmod and rmmod: echo_init with its   *)
(* goto ladder, echo_exit, and what the create and destroy functions of    *)
(* the subsystems acquire and release, while processes open the device,    *)
(* read /proc/echo_stats and press the joystick, and while the inactivity  *)
(* timer and the replay worker run on.                                     *)
(*                                                                         *)
(* echo_exit and the error path of echo_init release the subsystems in     *)
(* the same order, so they share their steps: a stage of the tear-down is  *)
(* the label of the release that comes next.                               *)
(*                                                                         *)
(* What a context does with memory that has been freed is undefined.  The  *)
(* replay worker may read any mode from a freed state machine, or hang on  *)
(* the freed lock; its store of IDLE is lost.  Other contexts are not      *)
(* followed once what they use is gone.                                    *)
(***************************************************************************)
EXTENDS EchoDriver

CONSTANT Loader   \* the process in insmod and rmmod; it never opens the device

ASSUME LifecycleAssumption == Loader \in Users

VARIABLES
  stage,    \* the next acquisition of echo_init or release of the tear-down
  held,     \* what the driver has acquired and not released
  irqs,     \* the pins whose GPIO and IRQ are requested
  exiting,  \* rmmod has begun: the device cannot be opened any more
  files,    \* the processes with an open file on the device
  showing   \* a process is inside echo_proc_show

loadVars == <<stage, held, irqs, exiting>>
fileVars == <<files, showing>>
lifeVars == <<vars, loadVars, fileVars>>

Resources ==
  {"dev", "servo", "buffer", "wq", "state", "joystick", "chardev", "region",
   "cdev", "class", "device", "proc_ctx", "proc"}

(* The stages of echo_init are named after what they acquire, "pins" is    *)
(* the loop over the joystick pins; the others after the labels in the     *)
(* code, or after the release they make.                                   *)
Stages ==
  Resources \union
  {"pins", "loaded", "remove_proc", "free_proc", "err_chardev", "fail_device",
   "fail_class", "fail_cdev", "fail_alloc", "err_joystick", "free_joystick",
   "err_state", "free_state", "err_buffer", "flush_work", "destroy_wq",
   "free_buffer", "err_servo", "err_free", "gone"}

LifeTypeOK ==
  /\ TypeOK
  /\ stage \in Stages
  /\ held \in SUBSET Resources
  /\ irqs \in SUBSET Pins
  /\ exiting \in BOOLEAN
  /\ files \in SUBSET (Users \ {Loader})
  /\ showing \in BOOLEAN

LifeInit ==
  /\ Init
  /\ stage = "dev"
  /\ held = {}
  /\ irqs = {}
  /\ exiting = FALSE
  /\ files = {}
  /\ showing = FALSE

-----------------------------------------------------------------------------
(* Loading. *)

(* Mutant of Acquire: echo_proc_create forgets its context. *)
AcquireLeaky(what, to, label) ==
  /\ stage = what
  /\ \/ held' = held \union {what} /\ stage' = to
     \/ held' = held /\ stage' = IF what = "proc" THEN "err_chardev" ELSE label
  /\ UNCHANGED <<vars, irqs, exiting, fileVars>>

(* Mutant of Acquire: a failed cdev_add jumps one label too far. *)
AcquireMislabelled(what, to, label) ==
  /\ stage = what
  /\ \/ held' = held \union {what} /\ stage' = to
     \/ held' = held /\ stage' = IF what = "cdev" THEN "fail_class" ELSE label
  /\ UNCHANGED <<vars, irqs, exiting, fileVars>>

(* One acquisition: it succeeds, or echo_init jumps to a label. *)
Acquire(what, to, label) ==
  /\ stage = what
  /\ \/ held' = held \union {what} /\ stage' = to
     \/ held' = held /\ stage' = label
  /\ UNCHANGED <<vars, irqs, exiting, fileVars>>

(* One turn of the loop of echo_joystick_create; it leaves nothing of a    *)
(* pin behind if it fails.  Without pins (sim_mode) there is no loop.      *)
RequestPin ==
  /\ stage = "pins"
  /\ \/ \E i \in Pins \ irqs : irqs' = irqs \union {i} /\ stage' = stage
     \/ irqs # Pins /\ irqs' = irqs /\ stage' = "err_joystick"
     \/ irqs = Pins /\ irqs' = irqs /\ stage' = "chardev"
  /\ UNCHANGED <<vars, held, exiting, fileVars>>

(* One create function each, then echo_init. *)
ServoCreate  == Acquire("servo", "buffer", "err_free")
BufferCreate ==
  \/ Acquire("buffer", "wq", "err_servo")
  \/ Acquire("wq", "state", "free_buffer")
StateCreate  == Acquire("state", "joystick", "err_buffer")
JoystickCreate ==
  \/ Acquire("joystick", "pins", "err_state")
  \/ RequestPin
ChardevCreate ==
  \/ Acquire("chardev", "region", "err_joystick")
  \/ Acquire("region", "cdev", "fail_alloc")
  \/ Acquire("cdev", "class", "fail_cdev")
  \/ Acquire("class", "device", "fail_class")
  \/ Acquire("device", "proc_ctx", "fail_device")
ProcCreate ==
  \/ Acquire("proc_ctx", "proc", "err_chardev")
  \/ Acquire("proc", "loaded", "free_proc")

InitStep ==
  \/ Acquire("dev", "servo", "gone")
  \/ ServoCreate \/ BufferCreate \/ StateCreate
  \/ JoystickCreate \/ ChardevCreate \/ ProcCreate

-----------------------------------------------------------------------------
(* Unloading, and the error path of echo_init. *)

(* rmmod: the kernel refuses while the module is in use. *)
ExitBegin ==
  /\ stage = "loaded"
  /\ files = {}
  /\ exiting' = TRUE
  /\ stage' = "remove_proc"
  /\ UNCHANGED <<vars, held, irqs, fileVars>>

Release(label, what, to) ==
  /\ stage = label
  /\ held' = held \ {what}
  /\ stage' = to
  /\ UNCHANGED <<vars, irqs, exiting, fileVars>>

(* free_irq: no new interrupt, then the thread that is running ends.       *)
FreePin(i) ==
  /\ stage = "err_joystick"
  /\ i \in irqs
  /\ \A j \in Pins \ irqs : irq_pc[j] = "idle"
  /\ irqs' = irqs \ {i}
  /\ UNCHANGED <<vars, stage, held, exiting, fileVars>>

PinsFreed ==
  /\ stage = "err_joystick"
  /\ irqs = {}
  /\ \A j \in Pins : irq_pc[j] = "idle"
  /\ stage' = "free_joystick"
  /\ UNCHANGED <<vars, held, irqs, exiting, fileVars>>

DestroyTimer ==
  /\ stage = "err_state"
  /\ DeleteTimerSync
  /\ stage' = "free_state"
  /\ UNCHANGED <<bufferVars, pos, flagVars, userVars, irqVars,
                 held, irqs, exiting, fileVars>>

(* cancel_work_sync, its two halves. *)
DestroyCancel ==
  /\ stage = "err_buffer"
  /\ CancelBegin(Loader)
  /\ stage' = "flush_work"
  /\ UNCHANGED <<stateVars, pos, flagVars, userVars, irqVars,
                 held, irqs, exiting, fileVars>>

DestroyFlush ==
  /\ stage = "flush_work"
  /\ CancelEnd(Loader)
  /\ stage' = "destroy_wq"
  /\ UNCHANGED <<stateVars, pos, flagVars, userVars, irqVars,
                 held, irqs, exiting, fileVars>>

(* One destroy function each, then echo_exit.  remove_proc_entry waits for *)
(* the readers of the file, destroy_workqueue for the work.                *)
ProcDestroy ==
  \/ Release("remove_proc", "proc", "free_proc")
  \/ ~showing /\ Release("free_proc", "proc_ctx", "err_chardev")
ChardevDestroy ==
  \/ Release("err_chardev", "device", "fail_device")
  \/ Release("fail_device", "class", "fail_class")
  \/ Release("fail_class", "cdev", "fail_cdev")
  \/ Release("fail_cdev", "region", "fail_alloc")
  \/ Release("fail_alloc", "chardev", "err_joystick")
JoystickDestroy ==
  \/ \E i \in Pins : FreePin(i)
  \/ PinsFreed
  \/ Release("free_joystick", "joystick", "err_state")
StateDestroy ==
  \/ DestroyTimer
  \/ Release("free_state", "state", "err_buffer")
BufferDestroy ==
  \/ DestroyCancel \/ DestroyFlush
  \/ ~queued /\ worker = "idle" /\ Release("destroy_wq", "wq", "free_buffer")
  \/ Release("free_buffer", "buffer", "err_servo")
ServoDestroy == Release("err_servo", "servo", "err_free")

TearDownStep ==
  \/ ProcDestroy \/ ChardevDestroy \/ JoystickDestroy
  \/ StateDestroy \/ BufferDestroy \/ ServoDestroy
  \/ Release("err_free", "dev", "gone")

-----------------------------------------------------------------------------
(* The rest of the system meanwhile. *)

(* What every entry point of the driver goes through. *)
Core == {"dev", "servo", "buffer", "wq", "state"}

(* The device can be opened from cdev_add to cdev_del, unless the module   *)
(* is going away; an open file keeps rmmod out, but not a failing          *)
(* echo_init.                                                              *)
Open(u) ==
  /\ "cdev" \in held
  /\ ~exiting
  /\ u \in Users \ (files \union {Loader})
  /\ files' = files \union {u}
  /\ UNCHANGED <<vars, loadVars, showing>>

Close(u) ==
  /\ u \in files
  /\ "chardev" \in held
  /\ pc[u] = "idle"
  /\ files' = files \ {u}
  /\ UNCHANGED <<vars, loadVars, showing>>

FileCall(u) ==
  /\ u \in files
  /\ Core \union {"chardev"} \subseteq held
  /\ UserCall(u)
  /\ UNCHANGED <<loadVars, fileVars>>

FileStep(u) ==
  /\ Core \subseteq held
  /\ UserStep(u)
  /\ UNCHANGED <<loadVars, fileVars>>

ShowBegin ==
  /\ "proc" \in held
  /\ ~showing
  /\ showing' = TRUE
  /\ UNCHANGED <<vars, loadVars, files>>

ShowEnd ==
  /\ showing
  /\ showing' = FALSE
  /\ UNCHANGED <<vars, loadVars, files>>

Press(i) == i \in irqs /\ InputEnter(i) /\ UNCHANGED <<loadVars, fileVars>>
PressStep(i) == InputStep(i) /\ UNCHANGED <<loadVars, fileVars>>

TimerRuns ==
  /\ "state" \in held
  /\ TimerExpire \/ TimerStep
  /\ UNCHANGED <<loadVars, fileVars>>

(* The worker calls should_stop and replay_done. *)
CallsState == worker \in {"check", "complete"}

WorkerRuns ==
  /\ CallsState => "state" \in held
  /\ WorkerNext
  /\ UNCHANGED <<loadVars, fileVars>>

WorkerOnFreed ==
  /\ "state" \notin held
  /\ (\E stop \in BOOLEAN : LoopCheck(stop)) \/ WorkerStep("complete", "finish")
  /\ UNCHANGED <<stateVars, pos, flagVars, userVars, irqVars, loadVars, fileVars>>

LifeNext ==
  \/ InitStep
  \/ ExitBegin
  \/ TearDownStep
  \/ \E u \in Users : Open(u) \/ Close(u) \/ FileCall(u) \/ FileStep(u)
  \/ ShowBegin \/ ShowEnd
  \/ \E i \in Pins : Press(i) \/ PressStep(i)
  \/ TimerRuns
  \/ WorkerRuns \/ WorkerOnFreed

LifeSpec == LifeInit /\ [][LifeNext]_lifeVars

(* insmod and rmmod run on, and so does what they wait for.  Nobody has to *)
(* open, close, press or unload; nothing is assumed of a worker that has   *)
(* taken the lock of a freed state machine.                                *)
LifeFairness ==
  /\ WF_lifeVars(InitStep)
  /\ WF_lifeVars(TearDownStep)
  /\ WF_lifeVars(ShowEnd)
  /\ \A i \in Pins : WF_lifeVars(PressStep(i))
  /\ \A u \in Users : WF_lifeVars(FileStep(u))
  /\ WF_lifeVars(TimerRuns)
  /\ WF_lifeVars(WorkerRuns)

FairLifeSpec == LifeSpec /\ LifeFairness

-----------------------------------------------------------------------------
(* Properties. *)

(* A process kept its file through a failed echo_init and now holds on to  *)
(* memory that is gone (echo_init publishes the device before its last     *)
(* step that can fail).                                                    *)
Stranded == files # {} /\ "chardev" \notin held

(* The order of the tear-down is right for everybody but the worker's      *)
(* calls into the state machine: whoever is still inside the driver, or    *)
(* can still be started, finds what it uses.  The timer must be deleted    *)
(* after the last press can arm it, and the work cancelled after the timer *)
(* can queue it.                                                           *)
NothingDangles ==
  ~Stranded =>
    /\ files # {} => Core \union {"joystick", "chardev"} \subseteq held
    /\ showing => Core \union {"joystick", "chardev"} \subseteq held
    /\ \A i \in Pins : i \in irqs \/ irq_pc[i] # "idle"
         => Core \union {"joystick"} \subseteq held
    /\ timer = "pending" \/ timer_fn # "idle" => Core \subseteq held
    /\ queued \/ worker # "idle" => Core \ {"state"} \subseteq held

(* The goto ladder: whichever acquisition fails, and after rmmod, the      *)
(* driver holds nothing and is asleep for good.                            *)
Quiet ==
  /\ timer = "off" /\ timer_fn = "idle"
  /\ worker = "idle" /\ ~queued /\ cancelling = {}
  /\ \A i \in Pins : irq_pc[i] = "idle"
NothingLeft ==
  stage = "gone" /\ ~Stranded => held = {} /\ irqs = {} /\ ~showing /\ Quiet

(* The goto ladder again: no label releases what echo_init has not         *)
(* acquired, or what another label has released.                           *)
FreedOnce ==
  [][TearDownStep /\ held' = held
       => stage \in {"err_joystick", "err_state", "err_buffer", "flush_work"}]_lifeVars

(* The replay worker is about to call into a state machine that echo_exit  *)
(* or the error path of echo_init has freed.                               *)
UsesFreed == CallsState /\ "state" \notin held

(* rmmod "tears down in reverse init order" (echo_main.c:238) and leaves   *)
(* no oops in the log (ReadMe.md:224): the worker that is cancelled by     *)
(* echo_buffer_destroy has not called into the freed state machine.        *)
StateOutlivesWorker == exiting => ~UsesFreed

(* rmmod returns, unless the worker has been caught on a freed lock.       *)
UnloadReturns == exiting ~> (stage = "gone" \/ UsesFreed)
=============================================================================
