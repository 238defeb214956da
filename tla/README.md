# Echo: TLA+ models of the pan/tilt servo recorder driver

Echo (`src/ReadMe.md`) is a Linux kernel module, `echo.ko`, with a small terminal
application. A joystick moves three servos; while the device is in TEACH its moves are
recorded; after five seconds of silence, or on request, the recording is played back
(REPLAY) by a workqueue; user space watches and steers the device through
`/dev/echo_robot`. These modules model the driver's control: which context may change what,
between which locks, in which order. TLC checks them on small instances and TLAPS proves
the central facts for every value of the constants.

All paths below are under `src/`; `state.c` stands for `module/echo_state.c`, and so on.

## 1. Inventory

| component | state it keeps | operations | contexts |
|---|---|---|---|
| state machine, `state.c` | `mode` (IDLE/TEACH/REPLAY) under `mode_lock`; `inactivity_timer`; `total_moves`; `last_move_time` | `handle_input`, `start_replay`, `stop`, `set_mode`, `replay_complete`, timer handler | processes, IRQ threads, timer softirq, worker |
| recording and replay, `buffer.c` | `move_fifo` (kfifo) under `fifo_lock`; `replay_work` on a single-threaded workqueue; `replay_speed`; `replay_count` | `record`, `clear`, `start_replay`, `cancel_replay`, the worker | all of them |
| servos, `servo.c` | `pos[3]` and the PCA9685's registers under a mutex | `create` (chip set-up, centring), `set_angle`, `get_angle`, `destroy` | processes, IRQ threads, worker |
| joystick, `joystick.c` | per pin `last_irq_jiffies`, `irq_lock`, `irq_count` | hard IRQ, threaded handler | IRQ threads |
| character device, `chardev.c` | none of its own but `open_count` | `read`, `write`, `ioctl` | processes |
| coordinator, `main.c` | `replay_finished`, `new_data_avail` and their wait queues | the ops callbacks between subsystems; `echo_init` with its goto ladder, `echo_exit` | all |
| statistics, `proc.c` | none | formats the getters | processes |
| application, `app/*.c` | `shared_snap`, `replaying`, a reader and a replay thread | keys, dashboard | threads |

The subsystems never call each other: `main.c` wires them through three tables of callbacks
(`buf_ops`, `state_ops`, `joy_ops`), so one request runs through several locks, none of which
is held across a callback. A start of a replay, for instance, stores REPLAY under `mode_lock`,
deletes the timer, calls `queue_work` and notifies the readers, and each of these may interleave
with the timer's softirq, the worker, an IRQ thread or another process. What is hard:

* **Interleaving and atomicity.** `mode` says REPLAY long before the work is queued; STOP resets
  `mode` long before it has deleted the timer and cancelled the work; a press acts on a mode it
  read before unlocking.
* **Flags for many waiters.** One `replay_finished` serves every `write(REPLAY)`, one
  `new_data_avail` every reader.
* **Cancellation.** `timer_delete_sync` and `cancel_work_sync` wait for a running handler, and
  `queue_work` does nothing while the work is being cancelled.
* **Partial failure.** A MOVE stores the position and then makes up to eight I2C transactions,
  each of which may fail; so may each of the fourteen acquisitions of `echo_init`.
* **Tear-down.** A file, a press, the timer and the worker can each start the next one, and
  `echo_exit` has to stop them in an order in which none is started again.
* **Boundaries.** The full fifo, wrapping indices, a wrapping clock, casts to `u8` and `u16`.

What makes each component correct:

* state machine and worker: REPLAY is never left behind, replays do not overlap, TEACH always
  ends, STOP quiets the device, a TEACH that was granted is kept;
* recording: a bounded queue that drops its oldest move, of which the worker gets an exact copy;
* `write(REPLAY)`: it returns, and not before its replay has been played;
* `read()`: no change is missed;
* servos: what is reported is what is driven, and success means driven;
* joystick: a press is handled;
* init and exit: nothing that is still in use is freed, nothing is leaked or released twice, and
  `rmmod` returns.

`PROJECT.json` lists the hazards line by line with the properties that watch them.

## 2. Modules

| module | models | how |
|---|---|---|
| `EchoTypes` | `echo_types.h` and helpers the subsystems repeat | sizes are constants with one named assumption |
| `EchoState` | `state.c` | one operator per critical section, atomic call or timer call; no actions |
| `EchoBuffer` | `buffer.c` with the fifo as a sequence | likewise, with the worker's loop and the workqueue's contract |
| `EchoDriver` | `main.c` and the requests of `chardev.c` | **the core**: the operators above strung together into actions of processes, IRQ threads, softirq and worker |
| `EchoHistory` | `EchoDriver` with two history variables | properties that relate a request to what happened since it began |
| `EchoReader` | `EchoDriver` with processes in `read()` | `build_snapshot` field by field, with the lockless count |
| `EchoLifecycle` | `EchoDriver` between `insmod` and `rmmod` | one operator per create and destroy function, one step per acquisition or release; open files and readers of `/proc/echo_stats` |
| `EchoQueue` | what `buffer.c` promises | abstract bounded drop-oldest queue |
| `EchoModes` | what `state.c` promises | abstract mode machine: which mode follows which, and what has to be under way for it |
| `EchoFifo` | `buffer.c`, store by store | slots and wrapping indices under `fifo_lock`; `echo_buffer_count` without it |
| `EchoServo` | `servo.c` with `sim_mode=0` | create, moves and destroy, one action per I2C transaction, each of which may fail |
| `EchoJoystick` | `joystick.c` as it is written | IRQ threads, debounce, `irq_lock` |
| `Echo*Proofs` | theorems about the module they are named after; `EchoModesProofs` and `EchoFifoQueueProofs` hold the refinements of `EchoModes` by `EchoDriver` and of `EchoQueue` by `EchoFifo` | see 5 |
| `MC*` | instances for TLC | symmetry sets, the servo requests |

`EchoDriver` extends `EchoState` and `EchoBuffer`; `EchoHistory`, `EchoReader` and
`EchoLifecycle` extend `EchoDriver`. Three refinements relate detailed modules to abstract
ones. All three are proved, and the last two checked by a run as well:

* `EchoDriver` implements `EchoQueue` (`ImplementsQueue`), with the worker's snapshot as the copy
  taken. No run checks it: in the instances of section 3 the recording has room for one move, in
  which the order and the loss of moves do not show. (An instance of `MCDriver` where they do,
  with `FifoSize = 2`, `MaxAngle = 2`, one process with TEACH, REPLAY and RESET and the pin UP,
  has 5.4 million states and no error.);
* `EchoFifo` implements `EchoQueue` (`ImplementsQueue`), where the mapping `Recording` hides what is
  halfway through a critical section;
* `EchoDriver` implements `EchoModes` (`ImplementsModes`). The four variables of `EchoModes` are
  mapped to the stored `mode`; to `ReplayUnderWay`, a replay on its way from starter to queue to
  worker; to `Timed`, a timer that is pending, in its handler or about to be armed; and to
  `InStop`, a process between the store of IDLE and the end of `cancel_work_sync`. Every
  multi-step request thus becomes one abstract step, where the mode is stored, and stutters, and
  two races of section 6 show up as abstract actions: `Complete` takes any mode to
  IDLE, `Cancel` may drop a replay that somebody else has just started.

### How EchoDriver's steps are cut

A step ends wherever the code releases a lock or has touched something another context reads
without one. `pc[u]` says where process `u` is between two steps, `irq_pc[i]` where the IRQ
thread of pin `i` is, `timer_fn` where the timer's handler is, `worker` where the replay worker
is. A request, in the order of the code:

* TEACH: `TeachEnter` (mode), `TeachClear` (recording), `TeachArm` (counter and timer),
  `UserNotify`;
* REPLAY: `ReplayFlag`, then `ReplayAccept` or `ReplayBusy`, `StartDelTimer`, `StartQueue`,
  `StartNotify`, and a wait that `ReplayReturn` or a signal ends; `SET_MODE(REPLAY)` is the same
  without flag and wait (`SetReplayAccept`; its -EBUSY changes nothing and is no step);
* STOP, `SET_MODE(IDLE)`: `StopEnter` (mode), `StopDelTimer`, `StopCancel` and `StopFlush` (the
  halves of `cancel_work_sync`), `StopSignal` and `StopData` (the halves of
  `signal_replay_done`), `StopNotify`; RESET goes on with `ResetClear`, three `ResetCentre`
  and `UserNotify`;
* MOVE: `MoveServo` and `UserNotify`, or `MoveFails`;
* a press: `InputEnter` .. `InputNotify`; the timer: `TimerExpire`, `TimerCheck`, `TimerQueue`,
  `TimerNotify`; the worker: `WorkerBegin` .. `WorkerExit`, with `WorkerOom`.

### Loading and unloading

`EchoLifecycle` runs `EchoDriver` inside `echo_init` and `echo_exit`. `stage` is the next
acquisition of `echo_init` (named after the resource) or the next release (named after the label
the code jumps to); `held` is what has been acquired. Both error path and `echo_exit` release in
the same order, so they share their steps. Every entry point of `EchoDriver` is guarded by what
the code needs to get there: a call needs an open file, a press a requested IRQ, and the worker's
two callbacks into `state.c` a state machine that exists. If it does not, `WorkerOnFreed` lets
them see any mode and loses their store; anything else that would run on freed memory is
disabled, and that it never has to be is what `NothingDangles` says. The device can be opened as
soon as `cdev_add` has succeeded, before `echo_init` has, and an open file keeps `rmmod` out but
not a failing `echo_init`: `Stranded` names the case.

### The kernel, as the driver uses it

Not part of the repository, and marked external in `PROJECT.json`:

* `cancel_work_sync` takes a pending item off the queue, makes `queue_work` on it a no-op until
  it returns, waits for a running worker, and may be called by several processes at once;
  a work item can be queued again while it runs;
* `timer_delete_sync` spins until the handler is not running, then detaches the timer; a timer
  can be armed again from the moment its handler has been entered;
* `free_irq` lets no new interrupt in and waits for the thread that is running;
  `remove_proc_entry` waits for the readers of the file, `destroy_workqueue` for the work;
  `rmmod` is refused while a file is open, and no file can be opened once it has begun;
* a wait ends when its condition holds, or by a signal;
* kfifo: get and skip advance `out`, put advances `in`, reset stores both in either order;
* the PCA9685 drives its outputs from the registers after each I2C transaction, keeps them over
  an unload, and ignores PRESCALE unless it sleeps;
* memory accesses are sequentially consistent.

### Reading code that does not compile

Two spots of the sources do not compile as they stand; each is modelled by its evident meaning.
`state.c:219-221` has `atomic_set(&ctx->total_moves, 0);` inside the argument list of
`mod_timer`: read as "reset the counter, then arm the timer", one step. `joystick.c:154-191`
names `ctx->pins` where the field is `pin_data`.

The missing braces at `joystick.c:66-69`, on the other hand, compile, so `EchoJoystick` models
what they do: no press reaches the state machine. `EchoDriver`'s `Pins` therefore stand for
`echo_state_handle_input` being called as `joystick.c:71-97` intends; instances with `Pins = {}`
are the module as it is, and every `MCDriver` property that holds with a pin holds without.

## 3. Runs

Bounds common to the driver's runs: angles 0 and 1 with steps of 1 (enough to tell a moved from
a centred servo, and to clamp), a fifo of one move (full after one press, so the drop-oldest
path is taken at once and a replay has zero or one move), counters modulo 1 (no property depends
on them, except in the reader's snapshot, where they are modulo 2), and two
processes, which meet in every pair of operations. One pin suffices where presses only have to
be concurrent with something else. Time is abstract: a pending timer may expire at any moment,
which covers every `timeout_ms` and every delay. Processes are symmetric; symmetry is used in
safety runs only. Where a run leaves requests out, it is because the property is *false* with
them (section 6) or to keep the instance within minutes.

| run | shows |
|---|---|
| `MCNoStop` | REPLAY, SET_MODE(REPLAY) and MOVE from two processes, a pin (whose press enters TEACH), timer and worker: types; REPLAY always has a replay under way that will end it (`ReplayAccounted`); a blocked writer always has a waker (`WaiterHasWaker`); TEACH always has a timer or somebody about to arm it (`TeachTimed`); mode is REPLAY exactly while one replay is under way, in one place (`ReplayExclusive`); the worker's store of IDLE undoes no TEACH that a press has entered (`TeachKept`) |
| `MCLive` | one process with TEACH, REPLAY and RESET, and a pin: replays end (`ReplayEnds`), `write(REPLAY)` returns (`WriterReturns`), TEACH ends unless it is re-armed for ever (`TeachTimesOut`), STOP and RESET return (`StopReturns`) |
| `MCReset` | two processes with REPLAY and RESET: an undisturbed STOP or RESET leaves nothing running (`StopQuiets`) and every servo centred (`ResetCentres`); only a step inside `cancel_work_sync` can orphan REPLAY (`OnlyStopOrphans`) or strand a writer (`OnlyStopStrands`); only a STOP can leave TEACH untimed (`OnlyStopUntimes`); the modes implement `EchoModes` (`ImplementsModes`) |
| `MCReader` | two watching processes, one that resets and replays, `sim_mode=1`: a watcher whom nobody robbed of the flag misses no change of the mode, the totals or the count (`SeenIsCurrent`). One reader with MOVE as well, so that the positions change too, is 1.4 million states and also without error |
| `MCFifo` | two slots and indices modulo 8: types, `FifoBounded`, the refinement of `EchoQueue` through every skip, drain, refill and reset, and what a lockless count can return (`CountBounded`): the length, unless a critical section overlaps it; at most twice the size, unless two overlap it or a clear does |
| `MCServo` | every request of a set with in-range, clipped, truncated and refused values, any number of loads and unloads, every I2C failure: `ReportedIsDriven`, `SuccessMeansDriven`, `UpMeansConfigured`, `NoPulseLeft` |
| `MCLifecycle` | `insmod` and `rmmod` next to a process that opens the device and starts replays, a pin, timer, worker and a reader of the statistics; every acquisition may fail: `NothingDangles`, `NothingLeft`, `FreedOnce`, `UnloadReturns`. It stops where the driver is gone, so deadlock is not checked |
| `MCOrphan`, `MCTeachLost`, `MCEarlyReturn`, `MCPressReturns`, `MCUseAfterFree` | violations, see section 6 |

`StopReturns` holds for a mundane reason that is easy to break: the worker's completion path
must not call `echo_state_stop`, whose `cancel_work_sync` would wait for the worker itself
(`state.c:239-244`).

### Fairness

`FairSpec` asks only for what the kernel's scheduling gives: code that was entered goes on (weak
fairness per process, per IRQ thread, of the softirq and of the worker), an armed timer expires,
a queued work item is picked up. `timer_delete_sync` retries in a loop, so it needs to find the
handler idle infinitely often rather than for ever: strong fairness of `DelTimer`. Nothing
makes a user issue a request, a pin be pressed, a signal arrive or an allocation fail.
`EchoJoystick` asks for weak fairness of each handler: a spinning thread gets the lock if the
lock is free. `FairLifeSpec` adds weak fairness of `insmod` and `rmmod` themselves, which go on
whenever what they wait for is there, and of a reader of the statistics; nothing is assumed of
opens, closes, presses and calls, nor of a worker that has taken the lock of a freed state
machine, which is why `UnloadReturns` ends with `UsesFreed`.

`TeachTimesOut` says that TEACH ends *or* its timer is re-armed again and again; `MCLive` has one
process, because two writers may keep clearing each other's flag, and what restarts the timer and
the worker under its STOP are the pin and the timer. Two processes that stop, reset and start
replays at once are in the safety runs.

## 4. What is abstracted

* `delay_ms` and `last_move_time`, `replay_speed`, `timeout_ms`: they pace, and no control
  depends on them. (A planned module treats the arithmetic of `delay_ms`, see 7.)
* `echo_servo_set_angle` is one step in `EchoDriver` (it is one critical section of the servo
  mutex); `EchoServo` opens it.
* The worker's drain and refill are one step in `EchoBuffer` (one critical section of
  `fifo_lock`); `EchoFifo` opens it, loop by loop, with the clipped `count` that bounds both
  loops. An element of its array that the first loop had not filled could hold any move;
  `FifoBounded` says that none is put back.
* In `EchoFifo`, taking the lock and the first store of a clear are one step: the lock
  changes nothing that a count can see. `EchoReader` builds on `CountBounded`: a count that
  nothing disturbs is the recording's length, one that overlaps a change is `Torn`, a value no
  undisturbed count has.
* `SimMode` stands for `sim_mode`: with it no MOVE fails and there are no pins.
* A MOVE with a servo that does not exist, and malformed requests, change nothing and have no step
  in `EchoDriver`; `EchoServo` has the refused MOVE.
* `open_count` only appears in statistics. `irq_count` is also a field of the snapshot
  (`echo_ioctl.h:122`); as `joystick.c` is written it is always 0 (`irq_count` in `EchoReader`).
* An `O_NONBLOCK` read that finds no data changes nothing; one that finds data goes on like the
  blocking one, so its behaviours are among those modelled.
* `EchoServo` has one caller: the mutex admits no other, and those that wait have no state.
* In `EchoLifecycle` a pin's GPIO and IRQ are one acquisition, since a pin that fails undoes its
  own part; so are the I2C adapter, client and chip, which `EchoServo` opens.

## Not modelled

* The application's keys, its replay thread and `replaying`, the dashboard (`app/*.c`): only the
  opening and the reader thread are there, in `EchoReader`.
* Time: `delay_ms`, `last_move_time` and their seqlock.
* The visualizer and the scripts, which keep no state of the system.

## 5. Theorems

Every constant is arbitrary within the named assumptions (`TypesAssumption`, `DriverAssumption`,
`FifoAssumption`, `ServoAssumption`, `LifecycleAssumption`), so the theorems hold for 256 moves,
181 angles, any number of processes and four pins.

**`EchoDriverProofs`**

* `TypeCorrect`: `Spec => []TypeOK`. `TypeOK` is inductive. It bounds the recording and the
  worker's copy by the fifo's size and says that the worker's loop index is inside its copy
  wherever the copy is read.
* `OnlyStopOrphansTheorem`: for *all* requests, `ReplayAccounted` is only ever lost by a step with
  a process inside `cancel_work_sync`. The argument is `UnderWayKept`: a start is handed from the
  process or the timer to the queue and from the queue to the worker without a gap, and ends only
  with `WorkerComplete`, which resets the mode. The frame lemmas (`UserFrame`, `InputFrame`,
  `TimerFrame`, `WorkerFrame`) say once what each context may change, so that the other proofs do
  not go through all actions again.
* `OnlyStopUntimesTheorem`: for all requests, `TeachTimed` is only ever lost by a step with a
  STOP between its store to the mode and the end of its cancel. One case per context: whoever
  enters TEACH arms the timer later, and whoever else deletes the timer, the start of a replay,
  leaves a replay under way that will end TEACH.
* `OnlyStopStrandsTheorem`: for all requests, `WaiterHasWaker` is only ever lost by a step with a
  process inside `cancel_work_sync`, unless REPLAY was orphaned before. It is what is left of
  `WaiterHasWaker` when STOP is allowed, and says that the hole in section 6 is the only one.
* `ReplayAccountedTheorem`, `WaiterHasWakerTheorem`, `TeachTimedTheorem`, under `NoStop` (no STOP
  and RESET among the requests). The inductive invariant is
  `TypeOK /\ NotStopping /\ ReplayAccounted /\ WaiterHasWaker` (and `TeachTimed`).
  `WaiterHasWaker` needs `ReplayAccounted`: a process that has just cleared the flag may be
  refused, and it is then the replay it ran into that wakes the others.
* `ReplayExclusiveTheorem`, under `OnlyReplays` (no TEACH either). `ReplayExclusive` is inductive
  next to `NotStopping`: the proof follows the one replay from starter to queue to worker
  (`PlacesKept` for the steps that leave it where it is).
* `TeachKeptTheorem`, under `OnlyReplays`, from the same invariant: the mode is REPLAY when the
  worker stores IDLE. With TEACH among the requests it is false, which is `MCTeachLost`.
* `ImplementsQueueTheorem`: initial states map to initial states and each step to a step of
  `EchoQueue` or a stutter. `CopyFreed` and `CopyKept` follow the worker's copy: it takes one only
  after it has freed the last.

**`EchoModesProofs`**: `ImplementsModesTheorem`, `Spec => ImplementsModes`, for all requests. One
lemma per group of steps (`EnterSteps`, `DeleteSteps`, `CancelSteps`, `OtherSteps`, `InputSteps`,
`TimerSteps`, `WorkerSteps`) says which abstract action its steps are. `ProcessMoves` carries most
of the weight: a process that moves on without entering or leaving one of three stretches of code
(starting, teaching, stopping) leaves `ReplayUnderWay`, `Timed` and `InStop` as they were.
`CancelSteps` says that what `cancel_work_sync` takes away, it takes away while `InStop` holds, for
whoever's replay it is.

**`EchoHistoryProofs`**: `StopQuietsTheorem`, `ResetCentresTheorem`. The invariant `HInv` adds to
`TypeOK` what an undisturbed STOP knows at each of its steps (`StopOK`): after its store the mode
can only be moved by a timer handler that was already running; after `timer_delete_sync` there
is none; after `cancel_work_sync` nothing is queued or running, and nobody is left to queue it.

**`EchoFifoProofs`**: `FifoTypeCorrect` and `FifoBoundedTheorem`, for every fifo size and every
index width that is a multiple of it and at least twice as large. `FillOK` says how full the ring
is at each point of each critical section; the index lemmas (`DiffIncIn`, `DiffIncOut`) carry it
across the wrap. `CountBoundedTheorem`: a count that has begun is right until a critical section
overlaps it; under a single one, `CountOK` follows how far each index has gone from where it was,
which is at most one step for a record and once around the ring for the drain and the refill.

**`EchoFifoQueueProofs`**: `FifoImplementsQueue`, `Spec => ImplementsQueue`, for the same sizes. The
difficulty is that a slot is an index modulo a symbolic size. `Divide` and `Remainder` reduce that
to products; from them follow the facts the ring rests on: the wrap of an index does not change
its slot (`SlotWraps`, which needs the width to be a multiple of the size), two indices less than
a fifo apart have different slots (`SlotApart`), and the next put goes right behind the last move
(`SlotOfIn`). `RingPut` and `RingSkip` then say that put and skip are `Append` and `Tail` on the
ring read as a sequence. The invariant `QInv` adds to that of `EchoFifoProofs` that what the
worker has put back is a prefix of what it drained (`RefillOK`), and that it has released its last
copy (`TakenOK`).

**`EchoReaderProofs`**: `SeenIsCurrentTheorem`, for any number of readers, under `MovesSucceed` (no
MOVE, or `sim_mode`). Each driver step sets the flag, leaves a `notify_readers` ahead of it or
changes nothing a snapshot shows (`StepReports`); the invariant `RInv` adds which fields of a
half-built snapshot are already up to date. Both provisos are needed: readers take the flag from
each other (`robbed`), and a MOVE that fails stores a position without notifying. `ReadersDisturbNothing`: for any requests,
and however the readers rob each other or fail, `ImplementsModes` and `ImplementsQueue` still hold.

**`EchoServoProofs`**: `ServoTypeCorrect`, `ReportedIsDrivenTheorem`, `SuccessMeansDrivenTheorem`,
`UpMeansConfiguredTheorem`, `NoPulseLeftTheorem`, for any requests. The four properties speak of
finished calls, so the invariant `IInv` says what holds inside one: `StageOK` (what each write of
`pca9685_init_hw` has achieved), `JobOK` (a running move has stored what it drives, and has driven
the base before the mirror), `RegistersOK` (the channels already centred, stopped or untouched
hold their ticks, and the low byte precedes the high one) and `LastOK`. `PwmBytes` and `PwmWhole`
are the arithmetic: two bytes of a pulse width put together are the width.

**`EchoLifecycleProofs`**: `LifeTypeCorrect`, `NothingDanglesTheorem`, `NothingLeftTheorem`,
`FreedOnceTheorem`, for any processes, pins and requests. `Ladder` says which resource is held at
which stage, for loading and unloading at once, which is what `FreedOnce` needs; `ActorsOK` says
which actors are gone by which stage (files, then presses, then the timer, then the work), and
each part rests on the one before it: the timer stays off because no press is left to arm it, the
queue stays empty because neither a process nor the timer is left to fill it.
`DriverWhileLoaded`: until the tear-down deletes the timer, every step of the loaded module, whoever
takes it, is a step of `EchoDriver` or leaves its variables alone, so that what is proved there
step by step holds while the module is being loaded, used and refused its `rmmod`.

Every invariant and every action property that a passing run checks is thus also a theorem.
Model-checked only: the liveness properties (`StopReturns`, `ReplayEnds`, `WriterReturns`,
`TeachTimesOut`, `UnloadReturns`), which are out of the prover's reach because they rest on
fairness. `EchoJoystick` has no theorem: its one run shows that the property does not hold.

## 6. Where the code does not do what it says

With a run:

* **`MCOrphan`** (`buffer.c:161`). Process A is inside `cancel_work_sync` while B's
  `SET_MODE(REPLAY)` calls `queue_work`: the work is not queued and the device stays in REPLAY with
  nothing to replay, refusing every later replay with -EBUSY until the next STOP.
* **`MCTeachLost`** (`state.c:250`). The worker's `echo_state_replay_complete` stores IDLE whatever
  the mode is, so a TEACH requested during a replay is undone when the worker notices.
* **`MCEarlyReturn`** (`main.c:72`). `buf_op_replay_done` resets the mode before it sets
  `replay_finished`: a `write(REPLAY)` accepted in between returns at once.
* **`MCPressReturns`** (`joystick.c:66`). The debounce test has no braces; the first press outside
  the window keeps `irq_lock`, and every later handler spins. No press ever reaches the state
  machine.
* **`MCUseAfterFree`** (`main.c:242`). `echo_exit` destroys the state machine, then cancels the
  replay worker, which in between calls `should_stop` and `replay_done` on freed memory: `rmmod`
  during a replay that was started by `SET_MODE` or by the timer, so that no file is open. The
  error path of `echo_init` has the same order.

Without a run of their own. Each follows from the same models by adding the formula given to the
module and to a configuration like the one named:

| where | what the code does | what it is at odds with | formula |
|---|---|---|---|
| `chardev.c:151` | with STOP among the requests, `write(REPLAY)` can clear `replay_finished` after STOP has set it, lose its `queue_work` to `cancel_work_sync`, and sleep with nobody left to wake it | `ReadMe.md:167` "blocks until complete" | `WaiterHasWaker` in `MCOrphan`, with REPLAY for SET_REPLAY |
| `state.c:192` | a TEACH between STOP's store to the mode and its `timer_delete_sync` is left without a timer | `ReadMe.md:70` "auto-transitions from TEACH to REPLAY" | `TeachTimed` in `MCOrphan`, with TEACH for SET_REPLAY |
| `state.c:126` | a press that checked the mode before the timer fired moves its servo in REPLAY | `state.c:114` "Ignore input during replay" | `[][\A i \in Pins : InputMove(i) => mode # "REPLAY"]_vars` with `Pins = {"UP"}` |
| `chardev.c:202` | RESET resets neither `total_moves` nor `replay_count` | `echo_ioctl.h:152` "Clears buffers, counters" | `undisturbed[u] /\ op[u] = "RESET" /\ pc[u] = "notify" => replay_count = 0` in `EchoHistory`, counters modulo 2 |
| `servo.c:190` | between the two bytes of a new pulse width the chip holds a width outside 205..410 | `servo.c:93`, the servo's pulse range | `\A c \in Servos : c \notin stale => Pulse(c) \in TicksMin .. TicksMax` in `MCServo` |
| `servo.c:371` | a MOVE of servo 2 takes the mirror away from the base | `servo.c:373` "keep them synchronised" | `pos[Tilt2] = pos[Pan]` in `MCServo` |
| `chardev.c:166` | `servo_id` is cast to `u8` before it is checked: 256 moves servo 0 and succeeds | `echo_ioctl.h:84` | `last.ok => last.request.servo \in Servos` in `MCServo` |
| `chardev.c:167` | a MOVE that fails in the hardware has stored its position but notifies no reader | `ReadMe.md:66` "blocks ... until new state is available" | `SeenIsCurrent` in `MCReader`, with MOVE among the requests and `SimMode = FALSE` |
| `chardev.c:106` | of two watchers one takes the flag from the other, who sleeps on an old snapshot; a non-blocking read that lost the race sleeps too | `chardev.c:170` "any process blocked in read wakes up" | `SeenIsCurrent` with `Readers` for `Readers \ robbed`, in `MCReader` |
| `buffer.c:151` | a count without the lock that overlaps a record and a drain, or a clear, can wrap to as much as 2^32 - 1, and even one that overlaps a single record or drain can exceed the size of the buffer | `proc.c:123` prints it as "Buffer Used: %u / %u" | `loaded # "none" => Counted <= FifoSize` in `MCFifo` |
| `main.c:211` | `echo_proc_create` fails while a process has the device open: the file outlives what it uses | `ReadMe.md:224` "no oops/bugs/errors" | `NothingDangles` without `~Stranded =>`, in `MCLifecycle` |

Seen in reading, outside the models: `delay_ms` can wrap (`state.c:143`); and once the return at
`joystick.c:69` is made conditional, a press during REPLAY will add to `irq_count`, which the
snapshot shows, and return without notifying the readers (`state.c:115-118`).

## 7. Plan

Done: `EchoTypes`, `EchoState`, `EchoBuffer`, `EchoDriver`; `EchoHistory`, `EchoQueue`,
`EchoModes`, `EchoFifo`, `EchoServo`, `EchoJoystick`, `EchoReader`, `EchoLifecycle`; the theorems of
section 5.

Left, in this order:

1. `EchoTiming`: `last_move_time`, `time_lock` and the width of `delay_ms`.
2. `EchoApp`: keys, replay thread and its `replaying` flag on top of the driver.

To run a check: `tlc -workers 2 -config MCNoStop.cfg MCDriver.tla`; to check the proofs:
`tlapm EchoDriverProofs.tla`. `PROJECT.json` lists, for each run, its module and properties, and
for each property a mutant of the code that it catches.
