--------------------------- MODULE EchoServoProofs --------------------------
(***************************************************************************)
(* Theorems about EchoServo, for any set of MOVE requests: what the driver *)
(* reports against what the PCA9685 drives, over loads, moves and unloads  *)
(* any of whose I2C transactions may fail.                                 *)
(***************************************************************************)
EXTENDS EchoServo, TLAPS

(* The arithmetic of pca9685_set_pwm and of the casts. *)
Pwm == 0 .. 4095

LEMMA PwmRange == ASSUME NEW a \in Angles PROVE AngleToPwm(a) \in Pwm
BY DEF Pwm, Angles, MaxAngle, AngleToPwm, TicksMin, TicksMax

LEMMA PwmBytes ==
  ASSUME NEW t \in Pwm
  PROVE  Low(t) \in Byte /\ High(t) \in Byte
BY DEF Pwm, Low, High, Byte

LEMMA PwmWhole ==
  ASSUME NEW t \in Pwm
  PROVE  Low(t) + 256 * High(t) = t
BY DEF Pwm, Low, High

LEMMA CenterInRange == Center \in Angles /\ 0 \in Pwm
BY DEF Pwm, Angles, MaxAngle, Center

LEMMA RequestType ==
  ASSUME NEW r \in Requests
  PROVE  Target(r) \in Nat /\ Clipped(r) \in Angles
<1>1. r.servo \in Nat /\ r.angle \in Nat
  BY ServoAssumption
<1>2. U8(r.servo) \in Nat /\ U16(r.angle) \in Nat
  BY <1>1 DEF U8, U16
<1> QED BY <1>2 DEF Target, Clipped, Angles, MaxAngle

LEMMA ServosAre == Servos = {0, 1, 2} /\ Pan = 0 /\ Tilt2 = 2
BY DEF Servos, NumServos, Pan, Tilt2

-----------------------------------------------------------------------------
(* The inductive invariant.  Holds says which ticks a channel's registers  *)
(* hold.                                                                   *)
Holds(c, t) == off[c].low = Low(t) /\ off[c].high = High(t)

(* What each stage knows of the chip, of the caller and of the positions.  *)
StageOK ==
  /\ stage \in HwStages \union {"absent"} => Free
  /\ stage \in {"centre", "stop"} => ~Free
  /\ stage \in HwStages \union {"centre"} =>
       ~last.ok /\ \A c \in Servos : pos[c] = Center
  /\ stage = "prescale" => ~awake
  /\ stage = "wake" => prescale = "50Hz"
  /\ stage \in {"restart", "centre", "up"} => awake /\ prescale = "50Hz"

(* A running MOVE has stored the positions it is driving, and on the       *)
(* mirror it has already driven the base.                                  *)
JobOK ==
  stage = "up" /\ ~Free =>
    /\ job.request \in Requests
    /\ job.channel \in Channels(Target(job.request))
    /\ \A c \in Channels(Target(job.request)) : pos[c] = Clipped(job.request)
    /\ Target(job.request) = Pan /\ job.channel = Tilt2 => Pan \notin stale

(* The registers of the channels that no error has left behind. *)
RegistersOK ==
  /\ ~Free /\ job.byte = 3 => off[job.channel].low = Low(Ticks)
  /\ stage \in HwStages \union {"absent"} =>
       \A c \in Servos \ stale : Holds(c, 0)
  /\ stage \in {"centre", "stop"} =>
       \A c \in Servos \ stale : c < job.channel => Holds(c, Ticks)
  /\ stage = "up" =>
       \A c \in Servos \ stale :
         Free \/ c \notin Pending => Holds(c, AngleToPwm(pos[c]))

LastOK ==
  stage = "up" /\ Free /\ last.ok =>
    /\ last.request \in Requests
    /\ \A c \in Channels(Target(last.request)) :
         c \in Servos \ stale /\ pos[c] = Clipped(last.request)

IInv == TypeOK /\ StageOK /\ JobOK /\ RegistersOK /\ LastOK

LEMMA TicksRange == ASSUME IInv, ~Free PROVE Ticks \in Pwm
<1>1. stage = "up" => job.request \in Requests
  BY DEF IInv, JobOK
<1>2. stage \in {"stop", "centre", "up"}
  BY DEF IInv, TypeOK, Stages, StageOK
<1> QED BY <1>1, <1>2, PwmRange, RequestType, CenterInRange DEF Ticks

LEMMA InitInv == Init => IInv
<1> SUFFICES ASSUME Init PROVE IInv
  OBVIOUS
<1>1. Low(0) \in Byte /\ High(0) \in Byte
  BY PwmBytes, CenterInRange
<1>2. TypeOK
  <2>1. off \in [Servos -> [low : Byte, high : Byte]]
    BY <1>1 DEF Init, Registers
  <2>2. pos \in [Servos -> Angles]
    BY CenterInRange DEF Init
  <2>3. /\ job \in [request : Requests \union {NoRequest}, channel : Servos, byte : -1 .. 3]
        /\ last \in [request : Requests \union {NoRequest}, ok : BOOLEAN]
    BY ServosAre DEF Init, Idle, Unasked
  <2> QED BY <2>1, <2>2, <2>3 DEF Init, TypeOK, Stages
<1>3. \A c \in Servos : Holds(c, 0)
  BY DEF Init, Holds, Registers
<1> QED
  BY <1>2, <1>3 DEF Init, IInv, StageOK, JobOK, RegistersOK, LastOK, Free, Idle, HwStages

-----------------------------------------------------------------------------
(* Loading: the registers are those the last unload left. *)
LEMMA CreateInv == ASSUME IInv, CreateBegin PROVE IInv'
<1> USE DEF CreateBegin, IInv, chipVars
<1>1. Unasked \in [request : Requests \union {NoRequest}, ok : BOOLEAN] /\ ~Unasked.ok
  BY DEF Unasked
<1>2. TypeOK'
  BY <1>1, CenterInRange DEF TypeOK, Stages, HwStages
<1>3. StageOK' /\ JobOK' /\ LastOK'
  BY <1>1 DEF StageOK, JobOK, LastOK, HwStages, Free
<1>4. RegistersOK'
  BY DEF StageOK, RegistersOK, HwStages, Free, Holds
<1> QED BY <1>2, <1>3, <1>4

(* A call of pca9685_set_pwm starts with a well-typed job. *)
LEMMA StartType ==
  ASSUME NEW r \in Requests \union {NoRequest}, NEW c \in Servos, Start(r, c)
  PROVE  /\ job' \in [request : Requests \union {NoRequest}, channel : Servos, byte : -1 .. 3]
         /\ job'.request = r /\ job'.channel = c /\ job'.byte = 0 /\ ~Free'
BY DEF Start, Free

LEMMA HwInv == ASSUME IInv, HwWrite \/ HwFails PROVE IInv'
<1> USE DEF IInv, chipVars
<1>1. stage \in HwStages /\ Free /\ UNCHANGED <<pos, off, last, stale>>
  BY DEF HwWrite, HwFails, StageOK
<1>2. awake' \in BOOLEAN /\ prescale' \in {"default", "50Hz"}
  BY DEF HwWrite, HwFails, HwEffect, TypeOK
<1>3. CASE stage' \in HwStages \union {"absent"} /\ job' = job
  <2>1. TypeOK'
    BY <1>1, <1>2, <1>3 DEF TypeOK, Stages
  <2>2. Free' /\ stage' \notin {"centre", "up", "stop"}
    BY <1>1, <1>3 DEF Free, HwStages
  <2>3. ~last'.ok /\ \A c \in Servos : pos'[c] = Center
    BY <1>1 DEF StageOK
  <2>4. StageOK'
    <3>1. CASE stage' = "absent"
      BY <2>2, <2>3, <3>1 DEF StageOK
    <3>2. CASE HwWrite /\ stage # "restart"
      <4>1. awake' <=> stage # "sleep" /\ (awake \/ stage # "prescale")
        BY <3>2, Zenon DEF HwWrite, HwEffect
      <4>2. stage = "sleep" => stage' = "prescale" /\ ~awake'
        BY <3>2, <4>1 DEF HwWrite, Follows
      <4>3. stage = "prescale" => stage' = "wake" /\ prescale' = "50Hz"
        BY <3>2 DEF HwWrite, HwEffect, Follows, StageOK
      <4>4. stage = "wake" => stage' = "restart" /\ awake' /\ prescale' = "50Hz"
        BY <3>2, <4>1 DEF HwWrite, HwEffect, Follows, StageOK
      <4> QED BY <1>1, <2>2, <2>3, <3>2, <4>2, <4>3, <4>4 DEF StageOK, HwStages
    <3> QED BY <1>3, <3>1, <3>2, <2>2 DEF HwWrite, HwFails, Follows, HwStages
  <2>5. JobOK' /\ RegistersOK' /\ LastOK'
    BY <1>1, <1>3 DEF JobOK, RegistersOK, LastOK, HwStages, Free, Holds
  <2> QED BY <2>1, <2>4, <2>5
<1>4. CASE stage = "restart" /\ stage' = "centre" /\ Start(NoRequest, Pan)
           /\ awake' /\ prescale' = "50Hz"
  <2>1. /\ job' \in [request : Requests \union {NoRequest}, channel : Servos, byte : -1 .. 3]
        /\ job'.channel = 0 /\ job'.byte = 0 /\ ~Free'
    BY <1>4, StartType, ServosAre
  <2>2. TypeOK'
    BY <1>1, <1>2, <1>4, <2>1 DEF TypeOK, Stages
  <2>3. StageOK'
    BY <1>1, <1>4, <2>1 DEF HwStages, StageOK
  <2>4. JobOK' /\ RegistersOK' /\ LastOK'
    BY <1>4, <2>1, ServosAre DEF JobOK, RegistersOK, LastOK, HwStages
  <2> QED BY <2>2, <2>3, <2>4
<1>5. CASE HwFails
  BY <1>3, <1>5 DEF HwFails
<1>6. CASE HwWrite
  <2>1. CASE stage = "restart"
    BY <1>4, <1>6, <2>1 DEF HwWrite, HwEffect, Follows, StageOK
  <2>2. CASE stage # "restart"
    BY <1>1, <1>3, <1>6, <2>2 DEF HwWrite, Follows, HwStages
  <2> QED BY <2>1, <2>2
<1> QED BY <1>5, <1>6

(* Unloading starts by stopping channel 0. *)
LEMMA DestroyInv == ASSUME IInv, DestroyBegin PROVE IInv'
<1> USE DEF IInv, chipVars, DestroyBegin
<1>1. /\ job' \in [request : Requests \union {NoRequest}, channel : Servos, byte : -1 .. 3]
      /\ job'.channel = 0 /\ job'.byte = 0 /\ ~Free'
  BY StartType, ServosAre
<1>2. TypeOK'
  BY <1>1 DEF TypeOK, Stages
<1>3. StageOK'
  BY <1>1 DEF StageOK, HwStages
<1>4. JobOK' /\ RegistersOK' /\ LastOK'
  BY <1>1, ServosAre DEF JobOK, RegistersOK, LastOK, HwStages
<1> QED BY <1>2, <1>3, <1>4

-----------------------------------------------------------------------------
LEMMA RefusedInv ==
  ASSUME IInv, NEW r \in Requests, MoveRefused(r)
  PROVE  IInv'
<1> USE DEF IInv, chipVars, MoveRefused
<1>1. last' \in [request : Requests \union {NoRequest}, ok : BOOLEAN] /\ ~last'.ok
  OBVIOUS
<1>2. TypeOK'
  BY <1>1 DEF TypeOK
<1>3. StageOK'
  BY <1>1 DEF StageOK, Free
<1>4. JobOK' /\ RegistersOK' /\ LastOK'
  BY <1>1 DEF JobOK, RegistersOK, LastOK, Free, Holds, Ticks, Pending, Mirrors, HwStages
<1> QED BY <1>2, <1>3, <1>4

(* The channels of a MOVE and the one it drives first. *)
LEMMA ChannelsType ==
  ASSUME NEW id \in Servos
  PROVE  Channels(id) \subseteq Servos /\ id \in Channels(id)
BY ServosAre DEF Channels

(* Storing the positions disturbs only channels that are then pending. *)
LEMMA BeginInv ==
  ASSUME IInv, NEW r \in Requests, MoveBegin(r)
  PROVE  IInv'
<1> USE DEF IInv, chipVars, MoveBegin
<1> DEFINE id == Target(r)
<1>1. id \in Servos /\ Clipped(r) \in Angles
  BY RequestType DEF Servos, NumServos
<1>2. /\ job' \in [request : Requests \union {NoRequest}, channel : Servos, byte : -1 .. 3]
      /\ job'.request = r /\ job'.channel = id /\ job'.byte = 0 /\ ~Free'
  BY <1>1, StartType
<1>3. \A c \in Servos : pos'[c] = IF c \in Channels(id) THEN Clipped(r) ELSE pos[c]
  OBVIOUS
<1>4. TypeOK'
  BY <1>1, <1>2, <1>3 DEF TypeOK
<1>5. StageOK'
  BY <1>2 DEF StageOK, HwStages
<1>6. JobOK'
  BY <1>1, <1>2, <1>3, ChannelsType, ServosAre DEF JobOK
<1>7. \A c \in Servos : c \notin Pending' => c \notin Channels(id)
  BY <1>2, ServosAre DEF Pending, Mirrors, Channels
<1>8. RegistersOK'
  BY <1>2, <1>3, <1>7 DEF RegistersOK, HwStages, Holds, Free
<1>9. LastOK'
  BY <1>2 DEF LastOK
<1> QED BY <1>4, <1>5, <1>6, <1>8, <1>9

-----------------------------------------------------------------------------
(* What a byte, written or not, leaves of the registers: the other         *)
(* channels keep theirs.                                                   *)
LEMMA WrittenType ==
  ASSUME IInv, ~Free, off' \in {off, Written}
  PROVE  /\ off' \in [Servos -> [low : Byte, high : Byte]]
         /\ \A c \in Servos \ {job.channel} : off'[c] = off[c]
<1>1. Low(Ticks) \in Byte /\ High(Ticks) \in Byte
  BY TicksRange, PwmBytes
<1>2. off \in [Servos -> [low : Byte, high : Byte]] /\ job.channel \in Servos
  BY DEF IInv, TypeOK
<1>3. CASE job.byte = 2
  BY <1>1, <1>2, <1>3 DEF Written
<1>4. CASE job.byte = 3
  BY <1>1, <1>2, <1>4 DEF Written
<1>5. CASE job.byte \notin {2, 3}
  BY <1>2, <1>5 DEF Written
<1> QED BY <1>3, <1>4, <1>5

LEMMA ByteInv == ASSUME IInv, WriteByte PROVE IInv'
<1> USE DEF IInv, chipVars
<1>1. /\ ~Free /\ off' = Written
      /\ UNCHANGED <<stage, awake, prescale, pos, last, stale>>
  BY DEF WriteByte, Free
<1>2. /\ off' \in [Servos -> [low : Byte, high : Byte]]
      /\ \A c \in Servos \ {job.channel} : off'[c] = off[c]
  BY <1>1, WrittenType
<1>3. /\ job' \in [request : Requests \union {NoRequest}, channel : Servos, byte : -1 .. 3]
      /\ job'.request = job.request /\ job'.channel = job.channel
      /\ job'.byte = job.byte + 1 /\ ~Free'
  BY DEF WriteByte, TypeOK, Free
<1>4. Ticks' = Ticks /\ Pending' = Pending
  BY <1>1, <1>3 DEF Ticks, Pending, Mirrors
<1>5. TypeOK'
  BY <1>1, <1>2, <1>3 DEF TypeOK
<1>6. StageOK'
  BY <1>1, <1>3 DEF StageOK
<1>7. JobOK'
  BY <1>1, <1>3 DEF JobOK
<1>8. job'.byte = 3 => off'[job.channel].low = Low(Ticks)
  BY <1>1, <1>3 DEF WriteByte, Written, TypeOK
<1>9. \A c \in Servos \ stale : \A t : c # job.channel /\ Holds(c, t) => Holds(c, t)'
  BY <1>2 DEF Holds
<1>10. stage \in {"centre", "stop", "up"}
  BY <1>1 DEF StageOK, TypeOK, Stages
<1>11. job.channel \in Pending /\ job.channel \in Servos
  BY DEF Pending, TypeOK
<1>12. RegistersOK'
  BY <1>1, <1>3, <1>4, <1>8, <1>9, <1>10, <1>11, ServosAre DEF RegistersOK, HwStages
<1>13. LastOK'
  BY <1>3 DEF LastOK
<1> QED BY <1>5, <1>6, <1>7, <1>12, <1>13

-----------------------------------------------------------------------------
(* What ends a call of pca9685_set_pwm, well or badly: the channel it was  *)
(* writing holds its ticks or is left behind, no other one has changed     *)
(* unless it is left behind too.                                           *)
CallEnds(left) ==
  /\ ~Free
  /\ off' \in [Servos -> [low : Byte, high : Byte]]
  /\ \A c \in Servos \ {job.channel} : off'[c] = off[c]
  /\ left \subseteq Servos
  /\ stale' = (stale \ {job.channel}) \union left
  /\ job.channel \in left \/ (off'[job.channel].low = Low(Ticks)
                               /\ off'[job.channel].high = High(Ticks))
  /\ UNCHANGED <<awake, prescale, pos>>

LEMMA LastEnds == ASSUME IInv, WriteLast PROVE CallEnds({})
<1>1. ~Free /\ off' = Written /\ job.byte = 3 /\ job.channel \in Servos
  BY DEF WriteLast, Free, IInv, TypeOK
<1>2. /\ off' \in [Servos -> [low : Byte, high : Byte]]
      /\ \A c \in Servos \ {job.channel} : off'[c] = off[c]
  BY <1>1, WrittenType
<1>3. off[job.channel].low = Low(Ticks) /\ off \in [Servos -> [low : Byte, high : Byte]]
  BY <1>1 DEF IInv, TypeOK, RegistersOK
<1>4. off'[job.channel].low = Low(Ticks) /\ off'[job.channel].high = High(Ticks)
  BY <1>1, <1>3 DEF Written
<1> QED BY <1>1, <1>2, <1>4 DEF WriteLast, CallEnds, chipVars

LEMMA FailEnds ==
  ASSUME IInv, WriteFails
  PROVE  CallEnds(Pending) /\ job.channel \in Pending
<1>1. ~Free /\ off' \in {off, Written} /\ job.channel \in Servos
  BY DEF WriteFails, IInv, TypeOK
<1>2. Pending \subseteq Servos /\ job.channel \in Pending
  BY <1>1, ServosAre DEF Pending
<1>3. stale' = (stale \ {job.channel}) \union Pending
  BY <1>2 DEF WriteFails
<1> QED BY <1>1, <1>2, <1>3, WrittenType DEF WriteFails, CallEnds, chipVars

-----------------------------------------------------------------------------
(* Centring and stopping go on with the next channel or end the stage. *)
LEMMA NextChannelInv ==
  ASSUME IInv, NextChannel, NEW left, CallEnds(left)
  PROVE  IInv'
<1> USE DEF IInv
<1>1. /\ stage \in {"centre", "stop"} /\ job.channel \in {0, 1, 2} /\ last' = last
      /\ ~Free /\ UNCHANGED <<awake, prescale, pos>> /\ stale' \subseteq Servos
  BY ServosAre DEF NextChannel, CallEnds, TypeOK
<1>2. \A c \in Servos \ stale' : c <= job.channel =>
        off'[c].low = Low(Ticks) /\ off'[c].high = High(Ticks)
  <2> SUFFICES ASSUME NEW c \in Servos \ stale', c <= job.channel
               PROVE  off'[c].low = Low(Ticks) /\ off'[c].high = High(Ticks)
    OBVIOUS
  <2>1. CASE c = job.channel
    BY <2>1 DEF CallEnds
  <2>2. CASE c # job.channel
    <3>1. c \in Servos \ stale /\ c < job.channel /\ off'[c] = off[c]
      BY <1>1, <2>2, ServosAre DEF CallEnds
    <3> QED BY <1>1, <3>1 DEF RegistersOK, Holds
  <2> QED BY <2>1, <2>2
<1>3. CASE job.channel < 2
  <2>1. /\ job' \in [request : Requests \union {NoRequest}, channel : Servos, byte : -1 .. 3]
        /\ job'.channel = job.channel + 1 /\ job'.byte = 0 /\ ~Free' /\ stage' = stage
    BY <1>1, <1>3, ServosAre, StartType DEF NextChannel
  <2>2. TypeOK'
    BY <1>1, <2>1 DEF TypeOK, CallEnds
  <2>3. StageOK' /\ JobOK' /\ LastOK'
    BY <1>1, <2>1 DEF StageOK, JobOK, LastOK, HwStages
  <2>4. Ticks' = Ticks
    BY <1>1, <2>1 DEF Ticks
  <2>5. \A c \in Servos \ stale' : c < job'.channel => c <= job.channel
    BY <1>1, <2>1, ServosAre
  <2>6. RegistersOK'
    BY <1>1, <1>2, <2>1, <2>4, <2>5 DEF RegistersOK, HwStages, Holds
  <2> QED BY <2>2, <2>3, <2>6
<1>4. CASE job.channel = 2
  <2>1. /\ job' = Idle /\ Free'
        /\ stage' = IF stage = "centre" THEN "up" ELSE "absent"
    BY <1>1, <1>4, ServosAre DEF NextChannel, Free, Idle
  <2>2. Idle \in [request : Requests \union {NoRequest}, channel : Servos, byte : -1 .. 3]
    BY ServosAre DEF Idle
  <2>3. TypeOK'
    BY <1>1, <2>1, <2>2 DEF TypeOK, CallEnds, Stages
  <2>4. StageOK' /\ JobOK' /\ LastOK'
    BY <1>1, <2>1 DEF StageOK, JobOK, LastOK, HwStages
  <2>5. \A c \in Servos : c <= job.channel
    BY <1>4, ServosAre
  <2>6. stage = "centre" => \A c \in Servos : Ticks = AngleToPwm(pos'[c])
    BY <1>1 DEF Ticks, StageOK
  <2>7. stage = "stop" => Ticks = 0
    BY DEF Ticks
  <2>8. RegistersOK'
    BY <1>1, <1>2, <2>1, <2>5, <2>6, <2>7 DEF RegistersOK, HwStages, Holds
  <2> QED BY <2>3, <2>4, <2>8
<1> QED BY <1>1, <1>3, <1>4

-----------------------------------------------------------------------------
(* A MOVE that ends leaves every channel but those behind as it reports. *)
LEMMA MoveEndsInv ==
  ASSUME IInv, NEW ok \in BOOLEAN, MoveEnds(ok), NEW left, CallEnds(left),
         ok => left = {} /\ ~Mirrors, ~ok => left = Pending
  PROVE  IInv'
<1> USE DEF IInv
<1>1. /\ stage = "up" /\ stage' = "up" /\ job' = Idle /\ Free' /\ ~Free
      /\ UNCHANGED <<awake, prescale, pos>> /\ stale' \subseteq Servos
      /\ last' = [request |-> job.request, ok |-> ok]
  BY DEF MoveEnds, CallEnds, TypeOK, Free, Idle
<1>2. /\ job.request \in Requests
      /\ job.channel \in Channels(Target(job.request))
      /\ \A c \in Channels(Target(job.request)) : pos[c] = Clipped(job.request)
      /\ Target(job.request) = Pan /\ job.channel = Tilt2 => Pan \notin stale
  BY <1>1 DEF JobOK
<1>3. Idle \in [request : Requests \union {NoRequest}, channel : Servos, byte : -1 .. 3]
  BY ServosAre DEF Idle
<1>4. TypeOK'
  BY <1>1, <1>2, <1>3 DEF TypeOK, CallEnds
<1>5. StageOK' /\ JobOK'
  BY <1>1 DEF StageOK, JobOK, HwStages
<1>6. Ticks = AngleToPwm(pos[job.channel])
  BY <1>1, <1>2 DEF Ticks
<1>7. \A c \in Servos \ stale' : Holds(c, AngleToPwm(pos[c]))'
  <2> SUFFICES ASSUME NEW c \in Servos \ stale'
               PROVE  /\ off'[c].low = Low(AngleToPwm(pos[c]))
                      /\ off'[c].high = High(AngleToPwm(pos[c]))
    BY <1>1 DEF Holds
  <2>1. CASE c = job.channel
    BY <1>6, <2>1 DEF CallEnds
  <2>2. CASE c # job.channel
    <3>1. c \notin Pending
      BY <2>2 DEF Pending, CallEnds
    <3>2. c \in Servos \ stale /\ off'[c] = off[c]
      BY <2>2 DEF CallEnds
    <3> QED BY <1>1, <3>1, <3>2 DEF RegistersOK, Holds
  <2> QED BY <2>1, <2>2
<1>8. RegistersOK'
  BY <1>1, <1>7 DEF RegistersOK, HwStages
<1>9. LastOK'
  <2> SUFFICES ASSUME ok
               PROVE  \A c \in Channels(Target(job.request)) :
                        c \in Servos \ stale' /\ pos'[c] = Clipped(job.request)
    BY <1>1, <1>2 DEF LastOK
  <2>1. stale' = stale \ {job.channel} /\ ~Mirrors
    BY DEF CallEnds
  <2>2. \A c \in Channels(Target(job.request)) : c \in Servos
    BY <1>2, ServosAre DEF Channels, TypeOK
  <2>3. \A c \in Channels(Target(job.request)) : c = job.channel \/ c \notin stale
    BY <1>1, <1>2, <2>1, ServosAre DEF Channels, Mirrors
  <2> QED BY <1>1, <1>2, <2>1, <2>2, <2>3
<1> QED BY <1>4, <1>5, <1>8, <1>9

(* The base is driven: the mirror is next. *)
LEMMA MirrorInv ==
  ASSUME IInv, CallEnds({}), Mirrors, Start(job.request, Tilt2), UNCHANGED <<stage, last>>
  PROVE  IInv'
<1> USE DEF IInv
<1>1. stage = "up" /\ Target(job.request) = Pan /\ job.channel = Pan /\ ~Free
      /\ UNCHANGED <<awake, prescale, pos>> /\ stale' = stale \ {Pan}
  BY DEF Mirrors, CallEnds
<1>2. job.request \in Requests
      /\ \A c \in Channels(Pan) : pos[c] = Clipped(job.request)
  BY <1>1 DEF JobOK
<1>3. /\ job' \in [request : Requests \union {NoRequest}, channel : Servos, byte : -1 .. 3]
      /\ job'.request = job.request /\ job'.channel = Tilt2 /\ job'.byte = 0 /\ ~Free'
  BY <1>2, ServosAre, StartType
<1>4. TypeOK'
  BY <1>1, <1>3 DEF TypeOK, CallEnds
<1>5. StageOK' /\ LastOK'
  BY <1>1, <1>3 DEF StageOK, LastOK, HwStages
<1>6. JobOK'
  BY <1>1, <1>2, <1>3, ServosAre DEF JobOK, Channels
<1>7. Ticks = AngleToPwm(pos[Pan])
  BY <1>1, <1>2, ServosAre DEF Ticks, Channels
<1>8. \A c \in Servos \ stale' : c # Tilt2 => Holds(c, AngleToPwm(pos[c]))'
  <2> SUFFICES ASSUME NEW c \in Servos \ stale', c # Tilt2
               PROVE  /\ off'[c].low = Low(AngleToPwm(pos[c]))
                      /\ off'[c].high = High(AngleToPwm(pos[c]))
    BY <1>1 DEF Holds
  <2>1. CASE c = Pan
    BY <1>1, <1>7, <2>1 DEF CallEnds
  <2>2. CASE c # Pan
    <3>1. c \in Servos \ stale /\ c \notin Pending /\ off'[c] = off[c]
      BY <1>1, <2>2 DEF CallEnds, Pending
    <3> QED BY <1>1, <3>1 DEF RegistersOK, Holds
  <2> QED BY <2>1, <2>2
<1>9. Tilt2 \in Pending'
  BY <1>3 DEF Pending
<1>10. RegistersOK'
  BY <1>1, <1>3, <1>8, <1>9 DEF RegistersOK, HwStages
<1> QED BY <1>4, <1>5, <1>6, <1>10

LEMMA LastInv == ASSUME IInv, WriteLast PROVE IInv'
<1>1. CASE Mirrors /\ Start(job.request, Tilt2) /\ UNCHANGED <<stage, last>>
  BY <1>1, LastEnds, MirrorInv
<1>2. CASE ~Mirrors /\ MoveEnds(TRUE)
  <2>1. CallEnds({})
    BY LastEnds
  <2> QED BY <1>2, <2>1, MoveEndsInv
<1>3. CASE NextChannel
  BY <1>3, LastEnds, NextChannelInv
<1> QED BY <1>1, <1>2, <1>3 DEF WriteLast

LEMMA FailsInv == ASSUME IInv, WriteFails PROVE IInv'
<1>1. CASE MoveEnds(FALSE)
  BY <1>1, FailEnds, MoveEndsInv
<1>2. CASE NextChannel
  BY <1>2, FailEnds, NextChannelInv
<1> QED BY <1>1, <1>2 DEF WriteFails

LEMMA StutterInv == ASSUME IInv, UNCHANGED servoVars PROVE IInv'
<1> USE DEF IInv, servoVars, chipVars
<1>1. TypeOK' /\ StageOK' /\ JobOK' /\ LastOK'
  BY DEF TypeOK, StageOK, JobOK, LastOK, Free
<1>2. RegistersOK'
  BY DEF RegistersOK, Free, Holds, Ticks, Pending, Mirrors
<1> QED BY <1>1, <1>2

LEMMA NextInv == IInv /\ [Next]_servoVars => IInv'
BY CreateInv, HwInv, DestroyInv, RefusedInv, BeginInv, ByteInv, LastInv, FailsInv, StutterInv
DEF Next

LEMMA Inductive == Spec => []IInv
BY InitInv, NextInv, PTL DEF Spec

(* Every state of the servo subsystem is well typed: whatever is asked,    *)
(* every stored position is a servo angle and every byte written to the    *)
(* chip fits its register.                                                 *)
THEOREM ServoTypeCorrect == Spec => []TypeOK
<1>1. IInv => TypeOK
  BY DEF IInv
<1> QED BY <1>1, Inductive, PTL

-----------------------------------------------------------------------------
(* Every register the driver knows to be written gives the pulse it stands *)
(* for.                                                                    *)
LEMMA HeldPulse ==
  ASSUME NEW c \in Servos, NEW t \in Pwm, Holds(c, t)
  PROVE  Pulse(c) = t
BY PwmWhole DEF Holds, Pulse

LEMMA HeldIsDriven ==
  ASSUME IInv, NEW c \in Servos, Holds(c, AngleToPwm(pos[c]))
  PROVE  Driven(c)
<1>1. pos[c] \in Angles
  BY DEF IInv, TypeOK
<1> QED BY <1>1, PwmRange, HeldPulse DEF Driven

(* In every state between two I2C transactions, whatever failed before,    *)
(* the channels no error has left behind are driven at the angle that      *)
(* echo_servo_get_angle reports, unless a MOVE is writing them.            *)
THEOREM ReportedIsDrivenTheorem == Spec => []ReportedIsDriven
<1>1. IInv => ReportedIsDriven
  BY HeldIsDriven DEF IInv, RegistersOK, ReportedIsDriven
<1> QED BY <1>1, Inductive, PTL

(* write(MOVE) tells the truth: after it returned success, the servo, and  *)
(* the second arm with the base, is driven to the clipped angle.           *)
THEOREM SuccessMeansDrivenTheorem == Spec => []SuccessMeansDriven
<1>1. IInv => SuccessMeansDriven
  <2> SUFFICES ASSUME IInv, stage = "up", Free, last.ok,
                      NEW c \in Channels(Target(last.request))
               PROVE  pos[c] = Clipped(last.request) /\ Driven(c)
    BY DEF SuccessMeansDriven
  <2>1. c \in Servos \ stale /\ pos[c] = Clipped(last.request)
    BY DEF IInv, LastOK
  <2>2. Holds(c, AngleToPwm(pos[c]))
    BY <2>1 DEF IInv, RegistersOK
  <2> QED BY <2>1, <2>2, HeldIsDriven
<1> QED BY <1>1, Inductive, PTL

(* A load that succeeds has configured the chip, whatever state an earlier *)
(* load or a failed one left it in.                                        *)
THEOREM UpMeansConfiguredTheorem == Spec => []UpMeansConfigured
<1>1. IInv => UpMeansConfigured
  BY DEF IInv, StageOK, UpMeansConfigured
<1> QED BY <1>1, Inductive, PTL

(* An unloaded driver, and one whose load failed, leaves no servo running  *)
(* but those whose stopping, centring or move failed on the bus.           *)
THEOREM NoPulseLeftTheorem == Spec => []NoPulseLeft
<1>1. IInv => NoPulseLeft
  BY CenterInRange, HeldPulse DEF IInv, RegistersOK, NoPulseLeft
<1> QED BY <1>1, Inductive, PTL
=============================================================================
