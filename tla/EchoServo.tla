----------------------------- MODULE EchoServo -----------------------------
(***************************************************************************)
(* echo_servo.c with its hardware (sim_mode=0), over any number of loads   *)
(* and unloads of the module: the stored positions, the PCA9685, which     *)
(* keeps its registers in between, and the functions that write them one   *)
(* byte, hence one I2C transaction, at a time.  Any transaction may fail,  *)
(* with or without effect, and the chip drives its outputs from whatever   *)
(* the registers hold between two of them.                                 *)
(*                                                                         *)
(* The mutex admits one caller; callers that wait for it have no state,    *)
(* and EchoLifecycle shows that none is left when the subsystem is         *)
(* destroyed.  The ON registers are 0 from power-on and are only ever      *)
(* written with 0, so only the two OFF bytes are kept; so is the full-off  *)
(* bit that the chip powers on with, which stops a channel like OFF = 0.   *)
(***************************************************************************)
EXTENDS Integers, Sequences

CONSTANT Requests   \* the servo_id and angle of the MOVE commands, both u32

ASSUME ServoAssumption == Requests \subseteq [servo : Nat, angle : Nat]

NumServos == 3
Servos    == 0 .. NumServos - 1
Pan       == 0
Tilt2     == 2
MaxAngle  == 180
Center    == 90
Angles    == 0 .. MaxAngle
TicksMin  == 205
TicksMax  == 410
Byte      == 0 .. 255

U8(x)  == x % 256
U16(x) == x % 65536

AngleToPwm(a) == TicksMin + (a * (TicksMax - TicksMin)) \div 180
Low(ticks)    == ticks % 256
High(ticks)   == (ticks \div 256) % 16

(* write(MOVE) casts to u8 and u16 before echo_servo_set_angle checks.     *)
Target(r)    == U8(r.servo)
Clipped(r)   == IF U16(r.angle) > MaxAngle THEN MaxAngle ELSE U16(r.angle)
Channels(id) == IF id = Pan THEN {Pan, Tilt2} ELSE {id}

VARIABLES
  stage,     \* the next write of pca9685_init_hw, or what the driver is doing
  awake,     \* MODE1 without its SLEEP bit: the outputs are generated
  prescale,  \* the PRESCALE register: the power-on value, or that of 50 Hz
  pos,       \* echo_servo_ctx.pos
  off,       \* the OFF registers of each channel
  job,       \* the pca9685_set_pwm that is running, and the byte it writes next
  last,      \* the last MOVE that returned, and whether it got 0
  stale      \* the channels an error has left behind

chipVars  == <<awake, prescale>>
servoVars == <<stage, chipVars, pos, off, job, last, stale>>

HwStages == {"sleep", "prescale", "wake", "restart"}
Stages   == HwStages \union {"absent", "centre", "up", "stop"}

NoRequest == [servo |-> 0, angle |-> 0]
Idle      == [request |-> NoRequest, channel |-> Pan, byte |-> -1]
Free      == job.byte = -1
Unasked   == [request |-> NoRequest, ok |-> FALSE]

TypeOK ==
  /\ stage \in Stages
  /\ awake \in BOOLEAN
  /\ prescale \in {"default", "50Hz"}
  /\ pos \in [Servos -> Angles]
  /\ off \in [Servos -> [low : Byte, high : Byte]]
  /\ job \in [request : Requests \union {NoRequest}, channel : Servos, byte : -1 .. 3]
  /\ last \in [request : Requests \union {NoRequest}, ok : BOOLEAN]
  /\ stale \subseteq Servos

Registers(ticks) == [low |-> Low(ticks), high |-> High(ticks)]

(* The chip has just been powered on. *)
Init ==
  /\ stage = "absent"
  /\ awake = FALSE
  /\ prescale = "default"
  /\ pos = [s \in Servos |-> Center]
  /\ off = [s \in Servos |-> Registers(0)]
  /\ job = Idle
  /\ last = Unasked
  /\ stale = {}

-----------------------------------------------------------------------------
(* echo_servo_create.  If the memory, the adapter or the client cannot be  *)
(* had, nothing changes.                                                   *)
CreateBegin ==
  /\ stage = "absent"
  /\ stage' = "sleep"
  /\ pos' = [s \in Servos |-> Center]
  /\ last' = Unasked
  /\ UNCHANGED <<chipVars, off, job, stale>>

(* A call of pca9685_set_pwm for a channel: its first byte comes next.     *)
Start(r, c) == job' = [request |-> r, channel |-> c, byte |-> 0]

(* What a write of pca9685_init_hw does to the chip, which ignores         *)
(* PRESCALE unless it sleeps.                                              *)
HwEffect ==
  /\ awake' = (stage # "sleep" /\ (awake \/ stage # "prescale"))
  /\ prescale' = IF stage = "prescale" /\ ~awake THEN "50Hz" ELSE prescale

Follows ==
  [sleep |-> "prescale", prescale |-> "wake", wake |-> "restart", restart |-> "centre"]

HwWrite ==
  /\ stage \in HwStages
  /\ HwEffect
  /\ stage' = Follows[stage]
  /\ IF stage = "restart" THEN Start(NoRequest, Pan) ELSE job' = job
  /\ UNCHANGED <<pos, off, last, stale>>

(* Mutant of HwFails: only the result of the last write is looked at. *)
HwFailsQuietly ==
  /\ stage \in HwStages
  /\ HwEffect \/ UNCHANGED chipVars
  /\ stage' = IF stage = "restart" THEN "absent" ELSE Follows[stage]
  /\ UNCHANGED <<pos, off, job, last, stale>>

(* An error of pca9685_init_hw makes echo_servo_create fail. *)
HwFails ==
  /\ stage \in HwStages
  /\ HwEffect \/ UNCHANGED chipVars
  /\ stage' = "absent"
  /\ UNCHANGED <<pos, off, job, last, stale>>

(* echo_servo_destroy stops the outputs before it lets go of the chip. *)
DestroyBegin ==
  /\ stage = "up" /\ Free
  /\ stage' = "stop"
  /\ Start(NoRequest, Pan)
  /\ UNCHANGED <<chipVars, pos, off, last, stale>>

-----------------------------------------------------------------------------
(* echo_servo_set_angle, from write(MOVE). *)

MoveRefused(r) ==
  /\ stage = "up"
  /\ Target(r) >= NumServos
  /\ last' = [request |-> r, ok |-> FALSE]
  /\ UNCHANGED <<stage, chipVars, pos, off, job, stale>>

(* Mutant of MoveBegin: the angle is not clipped. *)
MoveUnclipped(r) ==
  /\ stage = "up" /\ Free
  /\ Target(r) < NumServos
  /\ pos' = [s \in Servos |-> IF s \in Channels(Target(r)) THEN U16(r.angle) ELSE pos[s]]
  /\ Start(r, Target(r))
  /\ UNCHANGED <<stage, chipVars, off, last, stale>>

(* The positions are stored before the hardware is asked. *)
MoveBegin(r) ==
  /\ stage = "up" /\ Free
  /\ Target(r) < NumServos
  /\ pos' = [s \in Servos |-> IF s \in Channels(Target(r)) THEN Clipped(r) ELSE pos[s]]
  /\ Start(r, Target(r))
  /\ UNCHANGED <<stage, chipVars, off, last, stale>>

-----------------------------------------------------------------------------
(* pca9685_set_pwm. *)

(* What a successful write of the job's current byte leaves behind.        *)
Ticks == IF stage = "stop" THEN 0
         ELSE AngleToPwm(IF stage = "centre" THEN Center ELSE Clipped(job.request))
Written ==
  CASE job.byte = 2 -> [off EXCEPT ![job.channel].low  = Low(Ticks)]
    [] job.byte = 3 -> [off EXCEPT ![job.channel].high = High(Ticks)]
    [] OTHER        -> off

WriteByte ==
  /\ job.byte \in 0 .. 2
  /\ off' = Written
  /\ job' = [job EXCEPT !.byte = @ + 1]
  /\ UNCHANGED <<stage, chipVars, pos, last, stale>>

(* Pan goes on to its mirror. *)
Mirrors == stage = "up" /\ Target(job.request) = Pan /\ job.channel = Pan
Pending == {job.channel} \union (IF Mirrors THEN {Tilt2} ELSE {})

(* Mutant of NextChannel: the mirror channel is forgotten. *)
NextButMirror ==
  /\ stage \in {"centre", "stop"}
  /\ IF job.channel + 1 < Tilt2 THEN Start(NoRequest, job.channel + 1) /\ stage' = stage
     ELSE job' = Idle /\ stage' = IF stage = "centre" THEN "up" ELSE "absent"
  /\ last' = last

(* Centring and stopping go through all channels, whatever the result.     *)
NextChannel ==
  /\ stage \in {"centre", "stop"}
  /\ IF job.channel < Tilt2 THEN Start(NoRequest, job.channel + 1) /\ stage' = stage
     ELSE job' = Idle /\ stage' = IF stage = "centre" THEN "up" ELSE "absent"
  /\ last' = last

(* echo_servo_set_angle unlocks and returns. *)
MoveEnds(ok) ==
  /\ stage = "up"
  /\ job' = Idle
  /\ last' = [request |-> job.request, ok |-> ok]
  /\ stage' = stage

(* Mutant of WriteLast: the mirror is not driven. *)
WriteNoMirror ==
  /\ job.byte = 3
  /\ off' = Written
  /\ stale' = stale \ {job.channel}
  /\ MoveEnds(TRUE) \/ NextChannel
  /\ UNCHANGED <<chipVars, pos>>

WriteLast ==
  /\ job.byte = 3
  /\ off' = Written
  /\ stale' = stale \ {job.channel}
  /\ \/ Mirrors /\ Start(job.request, Tilt2) /\ UNCHANGED <<stage, last>>
     \/ ~Mirrors /\ MoveEnds(TRUE)
     \/ NextChannel
  /\ UNCHANGED <<chipVars, pos>>

(* Mutant of WriteFails: the error of the mirror is not returned. *)
WriteFailsQuietly ==
  /\ ~Free
  /\ off' \in {off, Written}
  /\ stale' = stale \union Pending
  /\ MoveEnds(Target(job.request) # job.channel) \/ NextChannel
  /\ UNCHANGED <<chipVars, pos>>

(* An I2C error, returned with or without the byte being written, ends the *)
(* call; after an error on pan the mirror is not tried.                    *)
WriteFails ==
  /\ ~Free
  /\ off' \in {off, Written}
  /\ stale' = stale \union Pending
  /\ MoveEnds(FALSE) \/ NextChannel
  /\ UNCHANGED <<chipVars, pos>>

Next ==
  \/ CreateBegin \/ HwWrite \/ HwFails \/ DestroyBegin
  \/ \E r \in Requests : MoveRefused(r) \/ MoveBegin(r)
  \/ WriteByte \/ WriteLast \/ WriteFails

Spec == Init /\ [][Next]_servoVars

-----------------------------------------------------------------------------
Pulse(c)  == off[c].low + 256 * off[c].high
Driven(c) == Pulse(c) = AngleToPwm(pos[c])

(* The registers follow the stored positions from the moment               *)
(* echo_servo_create returns: every channel that is not being written and  *)
(* was not left behind by an error is driven at the angle the driver       *)
(* reports.                                                                *)
ReportedIsDriven ==
  stage = "up" =>
    \A c \in Servos : c \notin stale /\ (Free \/ c \notin Pending) => Driven(c)

(* A MOVE that returned success has driven its servo, and the mirror of    *)
(* the base, to the angle asked for.                                       *)
SuccessMeansDriven ==
  stage = "up" /\ Free /\ last.ok =>
    \A c \in Channels(Target(last.request)) :
      pos[c] = Clipped(last.request) /\ Driven(c)

(* A driver that has loaded runs its outputs at 50 Hz: a write of          *)
(* pca9685_init_hw that fails makes the load fail, and the chip was asleep *)
(* when it got its prescale value, whatever an earlier load left it in.    *)
UpMeansConfigured ==
  stage \in {"centre", "up"} => awake /\ prescale = "50Hz"

(* No servo is left running: after a load that failed, and after           *)
(* echo_servo_destroy, every channel but those whose stopping failed is    *)
(* without a pulse.                                                        *)
NoPulseLeft ==
  stage = "absent" => \A c \in Servos \ stale : Pulse(c) = 0
=============================================================================
