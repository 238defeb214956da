------------------------- MODULE EchoFifoQueueProofs ------------------------
(***************************************************************************)
(* EchoFifo implements EchoQueue, for every fifo size and index width that *)
(* FifoAssumption admits.                                                  *)
(***************************************************************************)
EXTENDS EchoFifoProofs, SequenceTheorems

(* Division by the number of slots.  A number has one remainder. *)
LEMMA SizeType == FifoSize \in Nat \ {0}
BY TypesAssumption

LEMMA Divide ==
  ASSUME NEW x \in Nat
  PROVE  \E k \in Nat : \E r \in 0 .. FifoSize - 1 : x = FifoSize * k + r /\ Slot(x) = r
<1>1. x = FifoSize * (x \div FifoSize) + (x % FifoSize)
  BY SizeType, SMT
<1>2. x \div FifoSize \in Nat
  BY SizeType, SMT
<1>3. x % FifoSize \in 0 .. FifoSize - 1
  BY SizeType, SMT
<1>4. x = FifoSize * (x \div FifoSize) + Slot(x) /\ Slot(x) \in 0 .. FifoSize - 1
  BY <1>1, <1>3 DEF Slot
<1> QED BY <1>2, <1>4, Zenon

LEMMA Remainder ==
  ASSUME NEW k \in Int, NEW r \in 0 .. FifoSize - 1
  PROVE  Slot(FifoSize * k + r) = r
BY SizeType, SMT DEF Slot

(* Adding the index width does not change the slot. *)
LEMMA WidthIsWhole == \E w \in Nat : CounterMod = FifoSize * w
<1>1. Slot(CounterMod) = 0 /\ CounterMod \in Nat
  BY RoomForFifo, FifoAssumption DEF Slot
<1>2. PICK k \in Nat, r \in 0 .. FifoSize - 1 : CounterMod = FifoSize * k + r /\ Slot(CounterMod) = r
  BY <1>1, Divide
<1> QED BY <1>1, <1>2, SizeType

LEMMA SlotWraps ==
  ASSUME NEW x \in Nat, x - CounterMod \in Nat
  PROVE  Slot(x - CounterMod) = Slot(x)
<1>1. PICK k \in Nat, r \in 0 .. FifoSize - 1 : x = FifoSize * k + r /\ Slot(x) = r
  BY Divide
<1>2. PICK w \in Nat : CounterMod = FifoSize * w
  BY WidthIsWhole
<1>3. k - w \in Int /\ x - CounterMod = FifoSize * (k - w) + r
  BY <1>1, <1>2, SizeType
<1> QED BY <1>1, <1>3, Remainder

(* Fewer than FifoSize indices apart, two indices name different slots. *)
LEMMA SlotApart ==
  ASSUME NEW x \in Nat, NEW d \in 1 .. FifoSize - 1
  PROVE  Slot(x + d) # Slot(x)
<1>1. PICK k \in Nat, r \in 0 .. FifoSize - 1 : x = FifoSize * k + r /\ Slot(x) = r
  BY Divide
<1>2. CASE r + d < FifoSize
  <2>1. x + d = FifoSize * k + (r + d) /\ r + d \in 0 .. FifoSize - 1
    BY <1>1, <1>2, SizeType
  <2>2. Slot(x + d) = r + d
    BY <2>1, Remainder
  <2> QED BY <1>1, <2>2, SizeType
<1>3. CASE r + d >= FifoSize
  <2>1. x + d = FifoSize * (k + 1) + (r + d - FifoSize)
    BY <1>1, SizeType
  <2>2. r + d - FifoSize \in 0 .. FifoSize - 1 /\ k + 1 \in Int
    BY <1>3, SizeType
  <2>3. Slot(x + d) = r + d - FifoSize
    BY <2>1, <2>2, Remainder
  <2> QED BY <1>1, <2>3, SizeType
<1> QED BY <1>2, <1>3, SizeType

-----------------------------------------------------------------------------
(* The ring as a sequence. *)

(* A move of out by one shifts the slots of the ring by one. *)
LEMMA SlotShift ==
  ASSUME NEW x \in Index, NEW k \in Nat \ {0}
  PROVE  Slot(Inc(x) + k - 1) = Slot(x + k)
<1>1. CounterMod \in Nat /\ x \in Nat
  BY RoomForFifo DEF Index
<1>2. CASE x = CounterMod - 1
  <2>1. x + k \in Nat /\ (x + k) - CounterMod = k - 1 /\ k - 1 \in Nat
    BY <1>1, <1>2
  <2>2. Inc(x) + k - 1 = k - 1
    BY <1>2 DEF Inc
  <2>3. Slot((x + k) - CounterMod) = Slot(x + k)
    BY <2>1, SlotWraps
  <2> QED BY <2>1, <2>2, <2>3
<1>3. CASE x # CounterMod - 1
  <2>1. Inc(x) + k - 1 = x + k
    BY <1>1, <1>3 DEF Inc
  <2> QED BY <2>1
<1> QED BY <1>2, <1>3

(* in names the slot behind the last move of the ring. *)
LEMMA SlotOfIn ==
  ASSUME in \in Index, out \in Index
  PROVE  Slot(in) = Slot(out + KfifoLen)
<1>1. CounterMod \in Nat /\ in \in Nat /\ out \in Nat /\ KfifoLen \in Nat
  BY RoomForFifo, LenType DEF Index
<1>2. CASE in >= out
  BY <1>1, <1>2 DEF KfifoLen, Diff
<1>3. CASE in < out
  <2>1. out + KfifoLen \in Nat /\ (out + KfifoLen) - CounterMod = in
    BY <1>1, <1>3 DEF KfifoLen, Diff
  <2> QED BY <1>1, <2>1, SlotWraps
<1> QED BY <1>1, <1>2, <1>3

LEMMA RingType ==
  ASSUME IInv
  PROVE  /\ Ring \in Seq(Items)
         /\ Len(Ring) = KfifoLen /\ KfifoLen \in Nat
         /\ \A k \in 1 .. KfifoLen : Ring[k] = data[Slot(out + k - 1)]
<1>1. KfifoLen \in Nat /\ out \in Nat /\ data \in [0 .. FifoSize - 1 -> Items]
  BY LenType, RoomForFifo DEF IInv, TypeOK, Index
<1>2. \A k \in 1 .. KfifoLen : data[Slot(out + k - 1)] \in Items
  <2> SUFFICES ASSUME NEW k \in 1 .. KfifoLen PROVE data[Slot(out + k - 1)] \in Items
    OBVIOUS
  <2>1. out + k - 1 \in Nat
    BY <1>1
  <2>2. Slot(out + k - 1) \in 0 .. FifoSize - 1
    BY <2>1, Divide
  <2> QED BY <1>1, <2>2
<1> QED BY <1>1, <1>2 DEF Ring

(* A put appends to the ring: it stores in no slot the ring uses. *)
LEMMA RingPut ==
  ASSUME IInv, NEW m \in Items, KfifoLen < FifoSize, KfifoPut(m), IInv'
  PROVE  Ring' = Append(Ring, m)
<1>1. /\ out' = out /\ KfifoLen' = KfifoLen + 1
      /\ data' = [data EXCEPT ![Slot(in)] = m]
  <2>1. ~KfifoFull
    BY RingType, SizeType DEF KfifoFull
  <2> QED BY <2>1, PutFills DEF KfifoPut
<1>2. /\ Ring \in Seq(Items) /\ Len(Ring) = KfifoLen /\ KfifoLen \in Nat
      /\ \A k \in 1 .. KfifoLen : Ring[k] = data[Slot(out + k - 1)]
  BY RingType
<1>3. /\ Ring' \in Seq(Items) /\ Len(Ring') = KfifoLen + 1
      /\ \A k \in 1 .. KfifoLen + 1 : Ring'[k] = data'[Slot(out + k - 1)]
  <2>1. /\ (Ring \in Seq(Items))' /\ (Len(Ring) = KfifoLen)'
        /\ (\A k \in 1 .. KfifoLen : Ring[k] = data[Slot(out + k - 1)])'
    BY RingType, PTL
  <2> QED BY <1>1, <2>1
<1>4. /\ in \in Index /\ out \in Index /\ data \in [0 .. FifoSize - 1 -> Items]
      /\ out \in Nat
  BY RoomForFifo DEF IInv, TypeOK, Index
<1>5. Slot(in) = Slot(out + KfifoLen) /\ Slot(in) \in 0 .. FifoSize - 1
  BY <1>4, SlotOfIn, SlotType
<1>6. ASSUME NEW k \in 1 .. KfifoLen
      PROVE  Ring'[k] = Ring[k]
  <2>1. out + k - 1 \in Nat /\ KfifoLen + 1 - k \in 1 .. FifoSize - 1
    BY <1>2, <1>4, SizeType
  <2>2. (out + k - 1) + (KfifoLen + 1 - k) = out + KfifoLen
    BY <1>2, <1>4
  <2>3. Slot(out + k - 1) # Slot(in)
    BY <1>5, <2>1, <2>2, SlotApart
  <2>4. Slot(out + k - 1) \in 0 .. FifoSize - 1
    BY <2>1, Divide
  <2>5. data'[Slot(out + k - 1)] = data[Slot(out + k - 1)]
    BY <1>1, <1>4, <2>3, <2>4
  <2> QED BY <1>2, <1>3, <2>5
<1>7. Ring'[KfifoLen + 1] = m
  <2>1. out + (KfifoLen + 1) - 1 = out + KfifoLen /\ KfifoLen + 1 \in 1 .. KfifoLen + 1
    BY <1>2, <1>4
  <2>2. Ring'[KfifoLen + 1] = data'[Slot(in)]
    BY <1>3, <1>5, <2>1
  <2> QED BY <1>1, <1>4, <1>5, <2>2
<1> QED BY <1>2, <1>3, <1>6, <1>7

(* A skip takes the oldest move off the ring. *)
LEMMA RingSkip ==
  ASSUME IInv, KfifoLen > 0, KfifoSkip, IInv'
  PROVE  Ring' = Tail(Ring) /\ Head(Ring) = data[Slot(out)] /\ Ring # <<>>
<1>1. data' = data /\ out' = Inc(out) /\ KfifoLen' = KfifoLen - 1
  BY SkipFrees DEF KfifoSkip
<1>2. /\ Ring \in Seq(Items) /\ Len(Ring) = KfifoLen /\ KfifoLen \in Nat
      /\ \A k \in 1 .. KfifoLen : Ring[k] = data[Slot(out + k - 1)]
  BY RingType
<1>3. /\ Ring' \in Seq(Items) /\ Len(Ring') = KfifoLen - 1
      /\ \A k \in 1 .. KfifoLen - 1 : Ring'[k] = data[Slot(Inc(out) + k - 1)]
  <2>1. /\ (Ring \in Seq(Items))' /\ (Len(Ring) = KfifoLen)'
        /\ (\A k \in 1 .. KfifoLen : Ring[k] = data[Slot(out + k - 1)])'
    BY RingType, PTL
  <2> QED BY <1>1, <2>1
<1>4. out \in Index /\ out \in Nat
  BY RoomForFifo DEF IInv, TypeOK, Index
<1>5. Head(Ring) = data[Slot(out)] /\ Ring # <<>>
  <2>1. 1 \in 1 .. KfifoLen /\ out + 1 - 1 = out
    BY <1>2, <1>4
  <2>2. Ring[1] = data[Slot(out)]
    BY <1>2, <2>1
  <2> QED BY <1>2, <2>2
<1>6. ASSUME NEW k \in 1 .. KfifoLen - 1
      PROVE  Ring'[k] = Ring[k + 1]
  <2>1. k + 1 \in 1 .. KfifoLen /\ out + (k + 1) - 1 = out + k /\ k \in Nat \ {0}
    BY <1>2, <1>4
  <2>2. Slot(Inc(out) + k - 1) = Slot(out + k)
    BY <1>4, <2>1, SlotShift
  <2> QED BY <1>2, <1>3, <2>1, <2>2
<1>7. /\ Tail(Ring) \in Seq(Items) /\ Len(Tail(Ring)) = KfifoLen - 1
      /\ \A k \in 1 .. KfifoLen - 1 : Tail(Ring)[k] = Ring[k + 1]
  BY <1>2, <1>5, HeadTailProperties
<1> QED BY <1>3, <1>5, <1>6, <1>7, SeqEqual

(* Steps that leave the ring's slots and indices alone. *)
LEMMA RingKept == UNCHANGED ringVars => Ring' = Ring
BY DEF ringVars, Ring, KfifoLen

LEMMA RingEmpty == ASSUME IInv, KfifoLen = 0 PROVE Ring = <<>>
BY RingType

-----------------------------------------------------------------------------
(* While the worker refills the ring, it holds what was put back so far, a *)
(* prefix of what was drained; and a worker that takes a copy has released *)
(* the last one.                                                           *)
RefillOK == held = "refill" => \A k \in 1 .. back : Ring[k] = drained[k]
TakenOK == held \in {"drain", "refill"} => taken = <<>>

QInv == IInv /\ RefillOK /\ TakenOK

LEMMA NextTaken ==
  ASSUME TakenOK, [Next]_fifoVars
  PROVE  TakenOK'
BY DEF TakenOK, Next, RecordLock, RecordSkip, RecordPut, ClearLock, ClearEnd, DrainLock,
       DrainGet, DrainEnd, RefillPut, RefillEnd, WorkerFree, CountBegin, CountEnd, Acquire, Within,
       fifoVars, workerVars

LEMMA NextRefill ==
  ASSUME QInv, [Next]_fifoVars
  PROVE  QInv'
<1>1. IInv /\ IInv'
  BY NextInv DEF QInv
<1> SUFFICES RefillOK'
  BY <1>1, NextTaken DEF QInv
<1>2. ASSUME held' # "refill" PROVE RefillOK'
  BY <1>2 DEF RefillOK
<1>3. ASSUME UNCHANGED <<ringVars, held, drained, back>>
      PROVE  RefillOK'
  BY <1>3, RingKept DEF QInv, RefillOK
<1>4. CASE \/ (\E m \in Items : RecordLock(m)) \/ RecordSkip \/ RecordPut
           \/ ClearLock \/ ClearEnd \/ DrainLock \/ DrainGet \/ RefillEnd
  BY <1>2, <1>4
  DEF RecordLock, RecordSkip, RecordPut, ClearLock, ClearEnd, DrainLock, DrainGet,
      RefillEnd, Acquire, Within
<1>5. CASE DrainEnd
  <2>1. back' = 0
    BY <1>1, <1>5 DEF DrainEnd, Within, workerVars, IInv, FillOK
  <2> QED BY <2>1 DEF RefillOK
<1>6. CASE RefillPut
  <2>1. /\ held = "refill" /\ held' = "refill" /\ back < Len(drained)
        /\ KfifoPut(drained[back + 1]) /\ back' = back + 1 /\ drained' = drained
    BY <1>1, <1>6 DEF RefillPut, IInv, FillOK
  <2>2. /\ drained \in Seq(Items) /\ back \in Nat /\ KfifoLen = back
        /\ Len(drained) <= FifoSize
    BY <1>1, <2>1, SizeType DEF IInv, TypeOK, FillOK
  <2>3. drained[back + 1] \in Items /\ KfifoLen < FifoSize
    BY <2>1, <2>2, SizeType
  <2>4. Ring' = Append(Ring, drained[back + 1])
    BY <1>1, <2>1, <2>3, RingPut
  <2>5. Ring \in Seq(Items) /\ Len(Ring) = back
    BY <1>1, <2>2, RingType
  <2>6. \A k \in 1 .. back : Ring[k] = drained[k]
    BY <2>1 DEF QInv, RefillOK
  <2>7. \A k \in 1 .. back + 1 : Ring'[k] = drained[k]
    BY <2>2, <2>4, <2>5, <2>6
  <2> QED BY <2>1, <2>7 DEF RefillOK
<1>7. CASE WorkerFree \/ CountBegin \/ CountEnd \/ UNCHANGED fifoVars
  BY <1>3, <1>7 DEF WorkerFree, CountBegin, CountEnd, fifoVars, workerVars
<1> QED BY <1>4, <1>5, <1>6, <1>7 DEF Next

-----------------------------------------------------------------------------
(* Each step of the fifo is a step of the queue or a stutter. *)

(* The recording, case by case, in a state and in the next one. *)
LEMMA RecordingIs ==
  /\ held \in {"free", "full", "put"} => Recording = Ring
  /\ held = "replace" => Recording = Append(Ring, arg)
  /\ held = "drain" => Recording = drained \o Ring
  /\ held = "refill" => Recording = drained
  /\ Resetting => Recording = <<>>
BY DEF Recording, Resetting, Resets

LEMMA RecordingBecomes ==
  /\ held' \in {"free", "full", "put"} => Recording' = Ring'
  /\ held' = "replace" => Recording' = Append(Ring', arg')
  /\ held' = "drain" => Recording' = drained' \o Ring'
  /\ held' = "refill" => Recording' = drained'
  /\ held' \in {"reset_in", "reset_out"} => Recording' = <<>>
BY DEF Recording, Resetting, Resets

(* echo_buffer_record: the move is in the queue once the lock is taken,    *)
(* if the fifo is full once its oldest move is skipped.                    *)
LEMMA RecordStep ==
  ASSUME QInv, IInv', (\E m \in Items : RecordLock(m)) \/ RecordSkip \/ RecordPut
  PROVE  [Queue!Next]_(Queue!queueVars)
<1>1. IInv /\ arg \in Items /\ Ring \in Seq(Items) /\ Len(Ring) = KfifoLen
  BY RingType DEF QInv, IInv, TypeOK
<1>2. CASE \E m \in Items : RecordLock(m)
  <2>1. Ring' = Ring /\ taken' = taken /\ held = "free" /\ held' \in {"full", "put"}
    BY <1>2, RingKept DEF RecordLock, Acquire, workerVars
  <2> QED BY <2>1, RecordingIs, RecordingBecomes DEF Queue!queueVars
<1>3. CASE RecordSkip
  <2>1. /\ held = "full" /\ held' = "replace" /\ KfifoSkip /\ arg' = arg
        /\ taken' = taken /\ KfifoLen = FifoSize
    BY <1>1, <1>3 DEF RecordSkip, Within, workerVars, IInv, FillOK
  <2>2. Ring' = Tail(Ring)
    BY <1>1, <2>1, RingSkip, SizeType
  <2>3. Recording = Ring /\ Recording' = Append(Tail(Ring), arg)
    BY <2>1, <2>2, RecordingIs, RecordingBecomes
  <2>4. Recording' = Queue!PushMove(Recording, arg)
    BY <1>1, <2>1, <2>3 DEF Queue!PushMove
  <2> QED BY <1>1, <2>1, <2>4 DEF Queue!Next, Queue!Record
<1>4. CASE RecordPut
  <2>1. /\ held \in {"put", "replace"} /\ held' = "free" /\ KfifoPut(arg)
        /\ taken' = taken /\ KfifoLen < FifoSize
    BY <1>1, <1>4 DEF RecordPut, Within, workerVars, IInv, FillOK
  <2>2. Recording' = Append(Ring, arg)
    BY <1>1, <2>1, RingPut, RecordingBecomes
  <2>3. CASE held = "put"
    <3>1. Recording = Ring
      BY <2>3, RecordingIs
    <3>2. Recording' = Queue!PushMove(Recording, arg)
      BY <1>1, <2>1, <2>2, <3>1, SizeType, RingType DEF Queue!PushMove
    <3> QED BY <1>1, <2>1, <3>2 DEF Queue!Next, Queue!Record
  <2>4. CASE held = "replace"
    <3>1. Recording' = Recording
      BY <2>2, <2>4, RecordingIs
    <3> QED BY <2>1, <3>1 DEF Queue!queueVars
  <2> QED BY <2>1, <2>3, <2>4
<1> QED BY <1>2, <1>3, <1>4

(* echo_buffer_clear: the queue is empty from the first of its two stores. *)
LEMMA ClearStep ==
  ASSUME IInv, IInv', ClearLock \/ ClearEnd
  PROVE  [Queue!Next]_(Queue!queueVars)
<1>1. CASE ClearLock
  BY <1>1, RecordingBecomes
  DEF ClearLock, Acquire, workerVars, Queue!Next, Queue!Clear
<1>2. CASE ClearEnd
  <2>1. /\ in' = 0 /\ out' = 0 /\ held' = "free"
        /\ held \in {"reset_in", "reset_out"}
    BY <1>2 DEF ClearEnd, Within, IInv, FillOK
  <2>2. taken' = taken
    BY <1>2 DEF ClearEnd, workerVars
  <2>3. (KfifoLen = 0)'
    BY <2>1 DEF KfifoLen, Diff
  <2>4. Ring' = <<>>
    BY <2>3 DEF Ring
  <2>5. Recording = <<>> /\ Recording' = <<>>
    BY <2>1, <2>4, RecordingIs, RecordingBecomes DEF Resetting, Resets
  <2> QED BY <2>2, <2>5 DEF Queue!queueVars
<1> QED BY <1>1, <1>2

(* The drain: what is in moves[] and what is still in the ring make up the *)
(* recording.                                                              *)
LEMMA DrainStep ==
  ASSUME IInv, IInv', DrainLock \/ DrainGet \/ DrainEnd
  PROVE  [Queue!Next]_(Queue!queueVars)
<1> DEFINE x == data[Slot(out)]
<1>1. Ring \in Seq(Items) /\ drained \in Seq(Items) /\ KfifoLen \in Nat
  BY RingType DEF IInv, TypeOK
<1>2. CASE DrainLock
  <2>1. Ring' = Ring /\ held = "free" /\ held' = "drain" /\ drained' = <<>> /\ taken' = taken
    BY <1>2, RingKept DEF DrainLock, Acquire, IInv, FillOK
  <2>2. <<>> \o Ring = Ring
    BY <1>1, ConcatEmptySeq
  <2> QED BY <2>1, <2>2, RecordingIs, RecordingBecomes DEF Queue!queueVars
<1>3. CASE DrainGet
  <2>1. /\ held = "drain" /\ held' = "drain" /\ drained' = Append(drained, x)
        /\ KfifoSkip /\ taken' = taken /\ KfifoLen > 0
    BY <1>3 DEF DrainGet
  <2>2. Ring' = Tail(Ring) /\ Head(Ring) = x /\ Ring # <<>>
    BY <1>3, <2>1, RingSkip
  <2>3. Append(drained, Head(Ring)) \o Tail(Ring) = drained \o Ring
    <3> HIDE DEF Ring, x
    <3> QED BY <1>1, <2>2
  <2>4. Recording = drained \o Ring /\ Recording' = drained' \o Ring'
    BY <2>1, RecordingIs, RecordingBecomes
  <2> QED BY <2>1, <2>2, <2>3, <2>4 DEF Queue!queueVars
<1>4. CASE DrainEnd
  <2>1. held = "drain" /\ held' = "refill" /\ drained' = drained /\ taken' = taken
    BY <1>4 DEF DrainEnd, Within, workerVars
  <2>2. Ring = <<>>
    <3>1. KfifoLen = 0
      BY <1>1, <1>4, <2>1 DEF DrainEnd, IInv, FillOK
    <3> QED BY <3>1, RingEmpty
  <2>3. drained \o Ring = drained
    BY <1>1, <2>2, ConcatEmptySeq
  <2> QED BY <2>1, <2>3, RecordingIs, RecordingBecomes DEF Queue!queueVars
<1> QED BY <1>2, <1>3, <1>4

(* The refill: moves[] stands for the recording until the ring holds it    *)
(* again, and is the copy the worker keeps.                                *)
LEMMA RefillStep ==
  ASSUME QInv, RefillPut \/ RefillEnd
  PROVE  [Queue!Next]_(Queue!queueVars)
<1>1. CASE RefillPut
  BY <1>1, RecordingIs, RecordingBecomes DEF RefillPut, Queue!queueVars
<1>2. CASE RefillEnd
  <2>1. /\ held = "refill" /\ held' = "free" /\ Ring' = Ring
        /\ back = Len(drained) /\ taken = <<>> /\ taken' = drained
    BY <1>2, RingKept DEF RefillEnd, Within, QInv, TakenOK, IInv, FillOK
  <2>2. /\ Ring \in Seq(Items) /\ drained \in Seq(Items)
        /\ Len(Ring) = Len(drained)
    BY <2>1, RingType DEF QInv, IInv, TypeOK, FillOK
  <2>3. \A k \in 1 .. Len(drained) : Ring[k] = drained[k]
    BY <2>1 DEF QInv, RefillOK
  <2>4. Ring = drained
    BY <2>2, <2>3, SeqEqual
  <2>5. Recording = drained /\ Recording' = drained
    BY <2>1, <2>4, RecordingIs, RecordingBecomes
  <2> QED BY <2>1, <2>5 DEF Queue!Next, Queue!Take
<1> QED BY <1>1, <1>2

LEMMA OtherStep ==
  ASSUME WorkerFree \/ CountBegin \/ CountEnd \/ UNCHANGED fifoVars
  PROVE  [Queue!Next]_(Queue!queueVars)
<1>1. Ring' = Ring /\ held' = held /\ arg' = arg /\ drained' = drained
  BY RingKept DEF WorkerFree, CountBegin, CountEnd, fifoVars, workerVars
<1>2. Recording' = Recording
  BY <1>1 DEF Recording, Resetting, Resets
<1> QED
  BY <1>2
  DEF WorkerFree, CountBegin, CountEnd, fifoVars, workerVars, Queue!Next, Queue!Release,
      Queue!queueVars

LEMMA QueueInit == Init => QInv /\ Queue!Init
<1> SUFFICES ASSUME Init PROVE QInv /\ Queue!Init
  OBVIOUS
<1>1. IInv /\ held = "free" /\ in = 0 /\ out = 0 /\ taken = <<>>
  BY InitInv DEF Init
<1>2. KfifoLen = 0
  BY <1>1 DEF KfifoLen, Diff
<1>3. Recording = <<>>
  BY <1>1, <1>2, RingEmpty DEF Recording, Resetting, Resets
<1> QED BY <1>1, <1>3 DEF QInv, RefillOK, TakenOK, Queue!Init

LEMMA QueueStep ==
  ASSUME QInv, [Next]_fifoVars
  PROVE  [Queue!Next]_(Queue!queueVars)
<1>1. IInv /\ IInv'
  BY NextInv DEF QInv
<1> QED BY <1>1, RecordStep, ClearStep, DrainStep, RefillStep, OtherStep DEF Next

(* The slots, the two indices and the critical sections of the kfifo       *)
(* implement the bounded queue, for every fifo size and index width: no    *)
(* move is lost, duplicated or reordered by the skip, the drain and the    *)
(* refill, wherever in and out have wrapped, and the copy that the worker  *)
(* replays is the recording.                                               *)
THEOREM FifoImplementsQueue == Spec => ImplementsQueue
<1> QED BY QueueInit, QueueStep, NextRefill, PTL DEF Spec, ImplementsQueue, Queue!Spec
=============================================================================
