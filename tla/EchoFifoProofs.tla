--------------------------- MODULE EchoFifoProofs --------------------------
(***************************************************************************)
(* Theorems about EchoFifo, for every fifo size and index width that       *)
(* FifoAssumption admits.                                                  *)
(***************************************************************************)
EXTENDS EchoFifo, TLAPS

(* The index arithmetic of kfifo, across the wrap. *)
LEMMA IncType == ASSUME NEW x \in Index PROVE Inc(x) \in Index
BY TypesAssumption DEF Inc, Index

LEMMA DiffIncIn ==
  ASSUME NEW x \in Index, NEW y \in Index, Diff(x, y) < CounterMod - 1
  PROVE  Diff(Inc(x), y) = Diff(x, y) + 1
BY TypesAssumption DEF Diff, Inc, Index

LEMMA DiffIncOut ==
  ASSUME NEW x \in Index, NEW y \in Index, Diff(x, y) > 0
  PROVE  Diff(x, Inc(y)) = Diff(x, y) - 1
BY TypesAssumption DEF Diff, Inc, Index

(* Every index names a slot. *)
LEMMA SlotType == ASSUME NEW x \in Index PROVE Slot(x) \in 0 .. FifoSize - 1
BY TypesAssumption DEF Slot, Index

(* The index width leaves room to tell a full fifo from an empty one. *)
LEMMA RoomForFifo ==
  FifoSize \in Nat \ {0} /\ CounterMod \in Nat /\ FifoSize < CounterMod
<1>1. CounterMod >= 2 * FifoSize
  BY FifoAssumption
<1> QED BY <1>1, TypesAssumption

LEMMA LenType ==
  ASSUME in \in Index, out \in Index
  PROVE  KfifoLen \in Nat /\ KfifoLen < CounterMod
BY TypesAssumption DEF KfifoLen, Diff, Index

-----------------------------------------------------------------------------
(* The inductive invariant: what each step of a critical section knows     *)
(* about the fill of the ring.                                             *)
FillOK ==
  /\ ~Resetting => KfifoLen <= FifoSize
  /\ held = "full" => KfifoLen = FifoSize
  /\ held \in {"put", "replace"} => KfifoLen < FifoSize
  /\ held = "drain" => back = 0 /\ KfifoLen + Len(drained) = count
  /\ held = "refill" => Len(drained) = count /\ KfifoLen = back /\ back <= count
  /\ held \notin {"drain", "refill"} => back = 0 /\ drained = <<>>
  /\ held = "reset_in" => out = 0
  /\ held = "reset_out" => in = 0

IInv == TypeOK /\ FillOK

LEMMA InitInv == Init => IInv
<1> SUFFICES ASSUME Init PROVE IInv
  OBVIOUS
<1> USE TypesAssumption DEF Init
<1>1. data \in [0 .. FifoSize - 1 -> Items] /\ arg \in Items
  OBVIOUS
<1>2. drained \in Seq(Items) /\ taken \in Seq(Items)
  OBVIOUS
<1>3. in \in Index /\ out \in Index
  BY DEF Index
<1>4. KfifoLen = 0
  BY DEF KfifoLen, Diff
<1>5. 0 \in Index
  BY DEF Index
<1>6. TypeOK
  <2>1. held = "free" /\ count = 0 /\ back = 0 /\ loaded = "none" /\ half = 0 /\ overlaps = 0
    OBVIOUS
  <2> QED BY ONLY TypesAssumption, <1>1, <1>2, <1>3, <1>5, <2>1 DEF TypeOK, HeldPcs
<1>7. FillOK
  BY <1>4 DEF FillOK, Resetting, Resets
<1> QED BY <1>6, <1>7 DEF IInv

(* A put in a ring with a free slot stores the move and fills one slot.    *)
LEMMA PutFills ==
  ASSUME IInv, NEW m \in Items, KfifoLen < FifoSize, KfifoPut(m)
  PROVE  /\ data' \in [0 .. FifoSize - 1 -> Items]
         /\ in' = Inc(in) /\ in' \in Index /\ out' = out
         /\ KfifoLen' = KfifoLen + 1
<1>1. in \in Index /\ out \in Index /\ data \in [0 .. FifoSize - 1 -> Items]
  BY DEF IInv, TypeOK
<1>2. KfifoLen < CounterMod - 1
  BY <1>1, LenType, RoomForFifo
<1>3. data' = [data EXCEPT ![Slot(in)] = m] /\ in' = Inc(in) /\ out' = out
  BY <1>1, LenType, RoomForFifo DEF KfifoPut, KfifoFull
<1> QED BY <1>1, <1>2, <1>3, SlotType, IncType, DiffIncIn DEF KfifoLen

(* A skip of a ring that is not empty frees one slot. *)
LEMMA SkipFrees ==
  ASSUME IInv, KfifoLen > 0, KfifoSkip
  PROVE  /\ out' = Inc(out) /\ out' \in Index
         /\ KfifoLen' = KfifoLen - 1
         /\ UNCHANGED <<data, in>>
BY IncType, DiffIncOut DEF KfifoSkip, KfifoLen, IInv, TypeOK

(* Taking the lock keeps the types of what a count knows. *)
LEMMA LockType ==
  ASSUME IInv, NEW pc \in HeldPcs, Acquire(pc)
  PROVE  held' \in HeldPcs /\ overlaps' \in 0 .. 2 /\ UNCHANGED <<loaded, half>>
BY DEF Acquire, IInv, TypeOK

LEMMA RecordInv ==
  ASSUME IInv, (\E m \in Items : RecordLock(m)) \/ RecordSkip \/ RecordPut
  PROVE  IInv'
<1> USE DEF IInv, TypeOK, FillOK, Resetting, Resets, HeldPcs
<1>1. KfifoLen \in Nat
  BY LenType
<1>2. ASSUME NEW m \in Items, RecordLock(m)
      PROVE  IInv'
  <2>1. KfifoLen' = KfifoLen
    BY <1>2 DEF RecordLock, ringVars, KfifoLen
  <2>2. overlaps' \in 0 .. 2 /\ UNCHANGED <<loaded, half>>
    BY <1>2, LockType DEF RecordLock
  <2> QED
    BY <1>1, <1>2, <2>1, <2>2, TypesAssumption
    DEF RecordLock, Acquire, KfifoFull, ringVars, workerVars
<1>3. CASE RecordSkip
  <2>1. KfifoLen > 0 /\ KfifoSkip
    BY <1>3, TypesAssumption DEF RecordSkip, Within
  <2>2. /\ out' \in Index /\ KfifoLen' = KfifoLen - 1
        /\ UNCHANGED <<data, in>>
    BY <2>1, SkipFrees
  <2> QED
    BY <1>1, <1>3, <2>1, <2>2, TypesAssumption
    DEF RecordSkip, Within, workerVars, countVars
<1>4. CASE RecordPut
  <2>1. KfifoLen < FifoSize /\ KfifoPut(arg)
    BY <1>4 DEF RecordPut, Within
  <2>2. /\ data' \in [0 .. FifoSize - 1 -> Items] /\ in' \in Index /\ out' = out
        /\ KfifoLen' = KfifoLen + 1
    BY <2>1, PutFills
  <2> QED
    BY <1>1, <1>4, <2>1, <2>2, TypesAssumption DEF RecordPut, Within, workerVars, countVars
<1> QED BY <1>2, <1>3, <1>4

LEMMA ClearInv ==
  ASSUME IInv, ClearLock \/ ClearEnd
  PROVE  IInv'
<1> USE TypesAssumption DEF IInv, TypeOK, FillOK, Resetting, Resets, HeldPcs
<1>1. 0 \in Index
  BY DEF Index
<1>2. CASE ClearLock
  <2>1. overlaps' \in 0 .. 2 /\ UNCHANGED <<loaded, half>> /\ held = "free"
    BY <1>2, LockType DEF ClearLock, Acquire
  <2>2. CASE held' = "reset_in" /\ out' = 0 /\ in' = in
    BY <1>1, <1>2, <2>1, <2>2 DEF ClearLock, workerVars
  <2>3. CASE held' = "reset_out" /\ in' = 0 /\ out' = out
    BY <1>1, <1>2, <2>1, <2>3 DEF ClearLock, workerVars
  <2> QED BY <1>2, <2>2, <2>3 DEF ClearLock, Acquire
<1>3. CASE ClearEnd
  <2>1. in' = 0 /\ out' = 0
    BY <1>3 DEF ClearEnd, Within
  <2>2. KfifoLen' = 0
    BY <2>1 DEF KfifoLen, Diff
  <2>3. /\ held \in Resets /\ held' = "free"
        /\ UNCHANGED <<data, arg, workerVars, countVars>>
    BY <1>3 DEF ClearEnd, Within
  <2> QED BY <1>1, <2>1, <2>2, <2>3 DEF workerVars, countVars
<1> QED BY <1>2, <1>3

LEMMA DrainInv ==
  ASSUME IInv, DrainLock \/ DrainGet \/ DrainEnd
  PROVE  IInv'
<1> USE DEF IInv, TypeOK, FillOK, Resetting, Resets, HeldPcs
<1>1. KfifoLen \in Nat
  BY LenType
<1>2. CASE DrainLock
  <2>1. KfifoLen' = KfifoLen
    BY <1>2 DEF DrainLock, ringVars, KfifoLen
  <2>2. overlaps' \in 0 .. 2 /\ UNCHANGED <<loaded, half>>
    BY <1>2, LockType DEF DrainLock
  <2>3. held = "free" /\ held' = "drain" /\ back = 0 /\ Len(drained) = 0
    BY <1>2 DEF DrainLock, Acquire
  <2>4. count' = KfifoLen
    BY <1>1, <1>2, <2>3, TypesAssumption DEF DrainLock
  <2> QED
    BY <1>1, <1>2, <2>1, <2>2, <2>3, <2>4, TypesAssumption DEF DrainLock, ringVars
<1>3. CASE DrainGet
  <2>1. KfifoSkip /\ held = "drain" /\ held' = "drain"
        /\ drained' = Append(drained, data[Slot(out)]) /\ KfifoLen > 0
    BY <1>3 DEF DrainGet
  <2>2. /\ out' \in Index /\ KfifoLen' = KfifoLen - 1
        /\ UNCHANGED <<data, in>>
    BY <1>3, <2>1, SkipFrees
  <2>3. data[Slot(out)] \in Items
    BY SlotType
  <2>4. drained' \in Seq(Items) /\ Len(drained') = Len(drained) + 1
    BY <2>1, <2>3
  <2> QED
    BY <1>1, <1>3, <2>1, <2>2, <2>4, TypesAssumption DEF DrainGet, countVars
<1>4. CASE DrainEnd
  <2>1. KfifoLen' = KfifoLen
    BY <1>4 DEF DrainEnd, ringVars, KfifoLen
  <2>2. held = "drain" /\ held' = "refill"
    BY <1>4 DEF DrainEnd, Within
  <2>3. Len(drained) = count /\ KfifoLen = 0
    BY <1>1, <1>4, <2>2 DEF DrainEnd
  <2> QED
    BY <1>1, <1>4, <2>1, <2>2, <2>3, TypesAssumption
    DEF DrainEnd, ringVars, workerVars, countVars
<1> QED BY <1>2, <1>3, <1>4

LEMMA RefillInv ==
  ASSUME IInv, RefillPut \/ RefillEnd
  PROVE  IInv'
<1> USE DEF IInv, TypeOK, FillOK, Resetting, Resets, HeldPcs
<1>1. KfifoLen \in Nat
  BY LenType
<1>2. CASE RefillPut
  <2>1. /\ held = "refill" /\ held' = "refill" /\ back < count /\ Len(drained) = count
        /\ KfifoPut(drained[back + 1]) /\ back' = back + 1 /\ drained' = drained
    BY <1>2 DEF RefillPut
  <2>2. drained[back + 1] \in Items
    BY <2>1
  <2>3. KfifoLen < FifoSize
    BY <1>1, <2>1, TypesAssumption
  <2>4. /\ data' \in [0 .. FifoSize - 1 -> Items] /\ in' \in Index /\ out' = out
        /\ KfifoLen' = KfifoLen + 1
    BY <2>1, <2>2, <2>3, PutFills
  <2> QED
    BY <1>1, <1>2, <2>1, <2>3, <2>4, TypesAssumption DEF RefillPut, countVars
<1>3. CASE RefillEnd
  <2>1. KfifoLen' = KfifoLen
    BY <1>3 DEF RefillEnd, ringVars, KfifoLen
  <2> QED
    BY <1>1, <1>3, <2>1, TypesAssumption DEF RefillEnd, Within, ringVars, countVars
<1> QED BY <1>2, <1>3

(* Freeing the array, counting and stuttering leave the ring alone. *)
LEMMA OtherInv ==
  ASSUME IInv, WorkerFree \/ CountBegin \/ CountEnd \/ UNCHANGED fifoVars
  PROVE  IInv'
<1> USE DEF IInv, TypeOK, FillOK, Resetting, ringVars
<1>1. KfifoLen' = KfifoLen
  BY DEF WorkerFree, CountBegin, CountEnd, fifoVars, KfifoLen
<1>2. CASE WorkerFree
  BY <1>1, <1>2 DEF WorkerFree, countVars
<1>3. CASE CountBegin \/ CountEnd
  <2>1. 0 \in Index
    BY TypesAssumption DEF Index
  <2> QED BY <1>1, <1>3, <2>1 DEF CountBegin, CountEnd, workerVars
<1>4. CASE UNCHANGED fifoVars
  BY <1>1, <1>4 DEF fifoVars, workerVars, countVars
<1> QED BY <1>2, <1>3, <1>4

LEMMA NextInv == IInv /\ [Next]_fifoVars => IInv'
BY RecordInv, ClearInv, DrainInv, RefillInv, OtherInv DEF Next

-----------------------------------------------------------------------------
LEMMA FifoInductive == Spec => []IInv
BY InitInv, NextInv, PTL DEF Spec

(* Every state of the fifo is well typed: both indices stay within their   *)
(* width when they wrap, every slot holds a move, and the worker puts back *)
(* no more moves than the fifo has slots.                                  *)
THEOREM FifoTypeCorrect == Spec => []TypeOK
<1>1. IInv => TypeOK
  BY DEF IInv
<1> QED BY <1>1, FifoInductive, PTL

(* For every fifo size and index width, the ring never holds more moves    *)
(* than it has slots and the worker's refill never meets a full fifo,      *)
(* however often in and out have wrapped.                                  *)
THEOREM FifoBoundedTheorem == Spec => []FifoBounded
<1>1. IInv => FifoBounded
  BY DEF IInv, FillOK, FifoBounded
<1> QED BY <1>1, FifoInductive, PTL

-----------------------------------------------------------------------------
(* What a count that has loaded one index knows while at most one critical *)
(* section, and no clear, overlaps it.                                     *)
CountedIn ==
  /\ held \in {"full", "put", "replace", "drain"} => half = in
  /\ Diff(half, out) <= FifoSize
CountedOut ==
  /\ held \in {"full", "put"} => half = out
  /\ held \in {"replace", "drain"} => Diff(in, half) <= FifoSize
  /\ held = "refill" => Diff(in, half) <= FifoSize + back
  /\ Diff(in, half) <= 2 * FifoSize
CountOK ==
  loaded # "none" /\ overlaps < 2 =>
    /\ ~Resetting
    /\ overlaps = 0 => held = "free" /\ half = IF loaded = "in" THEN in ELSE out
    /\ loaded = "in" => CountedIn
    /\ loaded = "out" => CountedOut

LEMMA InitCount == Init => CountOK
BY DEF Init, CountOK

(* Taking the lock: the first critical section that overlaps a count finds *)
(* it right.                                                               *)
LEMMA LockCount ==
  ASSUME IInv, IInv', CountOK, NEW pc \in {"full", "put", "drain"},
         Acquire(pc), UNCHANGED ringVars
  PROVE  CountOK'
<1> SUFFICES ASSUME loaded' # "none", overlaps' < 2
             PROVE  CountOK'
  BY DEF CountOK
<1>1. /\ loaded' = loaded /\ half' = half /\ overlaps = 0 /\ overlaps' = 1
      /\ held' = pc /\ in' = in /\ out' = out
  BY DEF Acquire, ringVars, IInv, TypeOK
<1>2. half = IF loaded = "in" THEN in ELSE out
  BY <1>1 DEF CountOK
<1>3. KfifoLen \in Nat /\ KfifoLen <= FifoSize /\ KfifoLen' = KfifoLen
  BY <1>1, LenType DEF IInv, TypeOK, FillOK, Acquire, Resetting, Resets, KfifoLen
<1> QED
  BY <1>1, <1>2, <1>3, TypesAssumption
  DEF CountOK, CountedIn, CountedOut, KfifoLen, Resetting, Resets

(* A skip inside a critical section that began at half = in, or out.       *)
LEMMA SkipCount ==
  ASSUME IInv, CountOK, KfifoLen > 0, KfifoSkip, UNCHANGED countVars,
         held \in {"full", "drain"}, held' \in {"replace", "drain"}
  PROVE  CountOK'
<1> SUFFICES ASSUME loaded # "none", overlaps < 2
             PROVE  CountOK'
  BY DEF CountOK, countVars
<1>1. in' = in /\ KfifoLen' = KfifoLen - 1 /\ UNCHANGED <<loaded, half, overlaps>>
  BY SkipFrees DEF countVars
<1>2. KfifoLen \in Nat /\ KfifoLen <= FifoSize
  BY LenType DEF IInv, TypeOK, FillOK, Resetting, Resets
<1>3. overlaps # 0
  BY DEF CountOK
<1>4. CASE loaded = "in"
  <2>1. half = in /\ Diff(half', out') = KfifoLen'
    BY <1>1, <1>4 DEF CountOK, CountedIn, KfifoLen
  <2> QED
    BY <1>1, <1>2, <1>3, <1>4, <2>1, TypesAssumption
    DEF CountOK, CountedIn, Resetting, Resets
<1>5. CASE loaded = "out"
  <2>1. Diff(in, half) <= FifoSize
    BY <1>2, <1>5 DEF CountOK, CountedOut, KfifoLen
  <2>2. Diff(in', half') = Diff(in, half) /\ Diff(in, half) \in Nat
    BY <1>1, TypesAssumption DEF Diff, IInv, TypeOK, Index
  <2> QED
    BY <1>1, <1>3, <1>5, <2>1, <2>2, TypesAssumption
    DEF CountOK, CountedOut, Resetting, Resets
<1> QED BY <1>4, <1>5 DEF IInv, TypeOK

(* A put adds one to a count that loaded out, or wraps it to 0.            *)
LEMMA PutCount ==
  ASSUME IInv, CountOK, NEW m \in Items, KfifoLen < FifoSize, KfifoPut(m),
         UNCHANGED countVars,
         \/ held \in {"put", "replace"} /\ held' = "free" /\ back' = back
         \/ held = "refill" /\ held' = "refill" /\ back' = back + 1 /\ back < FifoSize
  PROVE  CountOK'
<1> SUFFICES ASSUME loaded # "none", overlaps < 2
             PROVE  CountOK'
  BY DEF CountOK, countVars
<1>1. in' = Inc(in) /\ out' = out /\ UNCHANGED <<loaded, half, overlaps>>
  BY PutFills DEF countVars
<1>2. overlaps # 0
  BY DEF CountOK
<1>3. CASE loaded = "in"
  BY <1>1, <1>2, <1>3 DEF CountOK, CountedIn, Resetting, Resets
<1>4. CASE loaded = "out"
  <2>1. /\ in \in Index /\ half \in Index /\ back \in Nat
        /\ Diff(in, half) \in Nat /\ Diff(in', half') \in Nat
        /\ Diff(in', half') <= Diff(in, half) + 1
    BY <1>1, TypesAssumption DEF IInv, TypeOK, Index, Diff, Inc
  <2>2. CASE held = "refill"
    BY <1>1, <1>2, <1>4, <2>1, <2>2, TypesAssumption
    DEF CountOK, CountedOut, Resetting, Resets
  <2>3. CASE held \in {"put", "replace"}
    <3>1. Diff(in, half) <= FifoSize
      BY <1>4, <2>3, TypesAssumption, LenType
      DEF CountOK, CountedOut, KfifoLen, IInv, TypeOK
    <3> QED
      BY <1>1, <1>2, <1>4, <2>1, <2>3, <3>1, TypesAssumption
      DEF CountOK, CountedOut, Resetting, Resets
  <2> QED BY <2>2, <2>3
<1> QED BY <1>3, <1>4 DEF IInv, TypeOK

(* A count begins, in a critical section or outside.                       *)
LEMMA BeginCount ==
  ASSUME IInv, CountBegin
  PROVE  CountOK'
<1>1. UNCHANGED <<in, out, held, back>>
  BY DEF CountBegin, ringVars, workerVars
<1>2. KfifoLen \in Nat /\ (~Resetting => KfifoLen <= FifoSize)
      /\ (held \in {"put", "replace", "full", "drain", "refill"} => ~Resetting)
      /\ back \in Nat
  BY LenType DEF IInv, TypeOK, FillOK, Resetting, Resets
<1> SUFFICES ASSUME overlaps' < 2 PROVE CountOK'
  BY DEF CountOK
<1>3. ~Resetting /\ ~Resetting' /\ (overlaps' = 0 => held' = "free")
  BY <1>1 DEF CountBegin, Resetting, Resets
<1>4. CASE loaded' = "in" /\ half' = in
  BY <1>1, <1>2, <1>3, <1>4 DEF CountOK, CountedIn, KfifoLen
<1>5. CASE loaded' = "out" /\ half' = out
  BY <1>1, <1>2, <1>3, <1>5, TypesAssumption DEF CountOK, CountedOut, KfifoLen
<1> QED BY <1>4, <1>5 DEF CountBegin

(* The lock is released, or the drain ends, with the indices as they are.  *)
LEMMA MoveOnCount ==
  ASSUME IInv, CountOK, UNCHANGED <<ringVars, countVars>>,
         \/ held' = held /\ back' = back
         \/ held = "drain" /\ held' = "refill" /\ back' = back
         \/ held = "refill" /\ held' = "free"
  PROVE  CountOK'
<1> SUFFICES ASSUME loaded # "none", overlaps < 2
             PROVE  CountOK'
  BY DEF CountOK, countVars
<1>1. UNCHANGED <<in, out, loaded, half, overlaps>> /\ back \in Nat
  BY DEF ringVars, countVars, IInv, TypeOK
<1>2. held' = held \/ overlaps # 0
  BY DEF CountOK
<1>3. ~Resetting'
  BY DEF CountOK, Resetting, Resets
<1>4. Diff(in, half) \in Nat
  BY TypesAssumption DEF Diff, IInv, TypeOK, Index
<1>5. CASE loaded = "in"
  BY <1>1, <1>2, <1>3, <1>5 DEF CountOK, CountedIn
<1>6. CASE loaded = "out"
  BY <1>1, <1>2, <1>3, <1>4, <1>6, TypesAssumption DEF CountOK, CountedOut
<1> QED BY <1>5, <1>6 DEF IInv, TypeOK

LEMMA NextCount ==
  ASSUME IInv, CountOK, [Next]_fifoVars
  PROVE  CountOK'
<1>0. IInv'
  BY NextInv
<1>1. ASSUME NEW m \in Items, RecordLock(m)
      PROVE  CountOK'
  BY <1>0, <1>1, LockCount DEF RecordLock
<1>2. CASE DrainLock
  BY <1>0, <1>2, LockCount DEF DrainLock
<1>3. CASE RecordSkip
  <2>1. held = "full" /\ KfifoLen > 0
    BY <1>3, TypesAssumption DEF RecordSkip, Within, IInv, FillOK
  <2> QED BY <1>3, <2>1, SkipCount DEF RecordSkip, Within
<1>4. CASE DrainGet
  BY <1>4, SkipCount DEF DrainGet
<1>5. CASE RecordPut
  <2>1. arg \in Items /\ KfifoLen < FifoSize
    BY <1>5 DEF RecordPut, Within, IInv, TypeOK, FillOK
  <2> QED BY <1>5, <2>1, PutCount DEF RecordPut, Within, workerVars
<1>6. CASE RefillPut
  <2>1. PICK m \in Items : KfifoPut(m)
    BY <1>6 DEF RefillPut
  <2>2. held = "refill" /\ held' = "refill" /\ back' = back + 1
        /\ back < FifoSize /\ KfifoLen < FifoSize /\ UNCHANGED countVars
    BY <1>6, TypesAssumption DEF RefillPut, IInv, TypeOK, FillOK
  <2> QED BY <2>1, <2>2, PutCount
<1>7. CASE ClearLock \/ ClearEnd
  <2>1. loaded' = "none" \/ overlaps' = 2
    BY <1>7 DEF ClearLock, ClearEnd, Acquire, Within, Resets, countVars, CountOK,
                Resetting, IInv, TypeOK
  <2> QED BY <2>1 DEF CountOK
<1>8. CASE DrainEnd \/ RefillEnd \/ WorkerFree \/ UNCHANGED fifoVars
  BY <1>8, MoveOnCount
  DEF DrainEnd, RefillEnd, WorkerFree, Within, workerVars, fifoVars
<1>9. CASE CountBegin \/ CountEnd
  BY <1>9, BeginCount DEF CountEnd, CountOK
<1> QED BY <1>1, <1>2, <1>3, <1>4, <1>5, <1>6, <1>7, <1>8, <1>9 DEF Next

LEMMA CountIsBounded == ASSUME IInv, CountOK PROVE CountBounded
<1> SUFFICES ASSUME loaded # "none", overlaps < 2
             PROVE  /\ overlaps = 0 => Counted = Len(Recording)
                    /\ overlaps = 1 => Counted <= IF loaded = "in" THEN FifoSize ELSE 2 * FifoSize
  BY DEF CountBounded
<1>1. ASSUME overlaps = 0
      PROVE  Counted = Len(Recording)
  <2>1. held = "free" /\ Counted = KfifoLen
    BY <1>1 DEF CountOK, Counted, KfifoLen, IInv, TypeOK
  <2>2. Recording = Ring
    BY <2>1 DEF Recording, Resetting, Resets
  <2>3. KfifoLen \in Nat
    BY LenType DEF IInv, TypeOK
  <2>4. Len(Ring) = KfifoLen
    BY <2>3 DEF Ring
  <2> QED BY <2>1, <2>2, <2>4
<1>2. ASSUME overlaps = 1
      PROVE  Counted <= IF loaded = "in" THEN FifoSize ELSE 2 * FifoSize
  BY <1>2 DEF CountOK, CountedIn, CountedOut, Counted, IInv, TypeOK
<1> QED BY <1>1, <1>2

(* For every fifo size and index width: a lockless echo_buffer_count is    *)
(* right if it overlaps no critical section, and at most twice the size of *)
(* the buffer, never a wrapped difference, if it overlaps one that is not  *)
(* a clear.                                                                *)
THEOREM CountBoundedTheorem == Spec => []CountBounded
BY FifoInductive, InitCount, NextCount, CountIsBounded, PTL DEF Spec
=============================================================================
