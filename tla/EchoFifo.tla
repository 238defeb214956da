------------------------------ MODULE EchoFifo -----------------------------
(***************************************************************************)
(* The recording of echo_buffer.c one store at a time: the slots and the   *)
(* two free-running indices of its kfifo, the critical sections under      *)
(* fifo_lock, and echo_buffer_count, which takes no lock.                  *)
(*                                                                         *)
(* fifo_lock is a spinlock: whoever finds held = "free" may take it, and   *)
(* held then tells where the holder is.  The kfifo macros are the          *)
(* kernel's; they are modelled from their documented single-store          *)
(* behaviour (get and skip advance out, put advances in, reset stores      *)
(* both).                                                                  *)
(***************************************************************************)
EXTENDS EchoTypes

CONSTANT Items   \* the moves that are recorded

(* kfifo wants a power of two, so that an index is a counter's low bits    *)
(* even where the counter wraps.                                           *)
ASSUME FifoAssumption ==
  /\ CounterMod % FifoSize = 0
  /\ CounterMod >= 2 * FifoSize

VARIABLES
  data,     \* the FifoSize slots
  in,       \* fifo->in, unsigned int
  out,      \* fifo->out, unsigned int
  held,     \* where the holder of fifo_lock is, "free" when there is none
  arg,      \* the move being recorded
  count,    \* the worker's local count
  drained,  \* its array moves[], as far as it is filled
  back,     \* how many of them the worker has put back
  taken,    \* moves[] while the worker replays it
  loaded,   \* the index echo_buffer_count has loaded, "none" outside it
  half,     \* its value
  overlaps  \* how many critical sections it has overlapped since, 2 for more
            \* than one and for a clear

ringVars   == <<data, in, out>>
workerVars == <<count, drained, back, taken>>
countVars  == <<loaded, half, overlaps>>
fifoVars   == <<ringVars, held, arg, workerVars, countVars>>

Index   == 0 .. CounterMod - 1
Resets  == {"reset_in", "reset_out"}
HeldPcs == {"free", "full", "put", "replace", "drain", "refill"} \union Resets
Resetting == held \in Resets

TypeOK ==
  /\ data \in [0 .. FifoSize - 1 -> Items]
  /\ in \in Index /\ out \in Index
  /\ held \in HeldPcs
  /\ arg \in Items
  /\ count \in 0 .. FifoSize
  /\ drained \in Seq(Items)
  /\ back \in 0 .. FifoSize
  /\ taken \in Seq(Items)
  /\ loaded \in {"none", "in", "out"}
  /\ half \in Index
  /\ overlaps \in 0 .. 2

(* The slots start out zeroed; what they hold is never read before it is   *)
(* written.                                                                *)
Init ==
  /\ \E m \in Items : data = [k \in 0 .. FifoSize - 1 |-> m] /\ arg = m
  /\ in = 0 /\ out = 0
  /\ held = "free"
  /\ count = 0 /\ drained = <<>> /\ back = 0 /\ taken = <<>>
  /\ loaded = "none" /\ half = 0 /\ overlaps = 0

-----------------------------------------------------------------------------
(* kfifo arithmetic on unsigned int. *)

(* Mutant of Inc: the index does not wrap. *)
IncUnwrapped(x) == x + 1

Inc(x)     == IF x = CounterMod - 1 THEN 0 ELSE x + 1
Diff(x, y) == IF x >= y THEN x - y ELSE x - y + CounterMod
Slot(x)    == x % FifoSize

KfifoLen == Diff(in, out)

(* Mutant of KfifoFull: off by one. *)
KfifoOverfull == KfifoLen > FifoSize

KfifoFull == KfifoLen = FifoSize

KfifoSkip ==
  /\ out' = Inc(out)
  /\ UNCHANGED <<data, in>>

(* kfifo_put refuses a move when the fifo is full. *)
KfifoPut(m) ==
  /\ IF KfifoFull THEN UNCHANGED <<data, in>>
     ELSE /\ data' = [data EXCEPT ![Slot(in)] = m]
          /\ in' = Inc(in)
  /\ UNCHANGED out

(* The moves in the ring, oldest first. *)
Ring == [k \in 1 .. KfifoLen |-> data[Slot(out + k - 1)]]

(* spin_lock.  What a count that has begun knows of the critical section   *)
(* is history.                                                             *)
Acquire(pc) ==
  /\ held = "free" /\ held' = pc
  /\ overlaps' = IF loaded = "none" THEN 0
                 ELSE IF overlaps = 0 /\ pc \notin Resets THEN 1
                 ELSE 2
  /\ UNCHANGED <<loaded, half>>
Within(from, to) == held = from /\ held' = to

-----------------------------------------------------------------------------
(* echo_buffer_record *)

RecordLock(m) ==
  /\ Acquire(IF KfifoFull THEN "full" ELSE "put")
  /\ arg' = m
  /\ UNCHANGED <<ringVars, workerVars>>

(* Mutant of RecordSkip: the new move is dropped instead of the oldest. *)
RecordNoSkip ==
  /\ Within("full", "replace")
  /\ UNCHANGED <<ringVars, arg, workerVars, countVars>>

RecordSkip ==
  /\ Within("full", "replace")
  /\ KfifoSkip
  /\ UNCHANGED <<arg, workerVars, countVars>>

RecordPut ==
  /\ \E from \in {"put", "replace"} : Within(from, "free")
  /\ KfifoPut(arg)
  /\ UNCHANGED <<arg, workerVars, countVars>>

(* echo_buffer_clear: kfifo_reset stores both indices, in an order the     *)
(* compiler chooses.                                                       *)

ClearLock ==
  /\ \/ Acquire("reset_in") /\ out' = 0 /\ in' = in
     \/ Acquire("reset_out") /\ in' = 0 /\ out' = out
  /\ UNCHANGED <<data, arg, workerVars>>

ClearEnd ==
  /\ \/ Within("reset_in", "free") /\ in' = 0 /\ out' = out
     \/ Within("reset_out", "free") /\ out' = 0 /\ in' = in
  /\ UNCHANGED <<data, arg, workerVars, countVars>>

(* replay_worker drains the fifo into moves[] and puts every move back.    *)
(* Both loops run count times; the first ends early if kfifo_get fails.    *)

DrainLock ==
  /\ Acquire("drain")
  /\ taken = <<>>
  /\ count' = IF KfifoLen > FifoSize THEN FifoSize ELSE KfifoLen
  /\ UNCHANGED <<ringVars, arg, drained, back, taken>>

DrainGet ==
  /\ held = "drain"
  /\ Len(drained) < count /\ KfifoLen > 0
  /\ drained' = Append(drained, data[Slot(out)])
  /\ KfifoSkip
  /\ UNCHANGED <<held, arg, count, back, taken, countVars>>

(* Mutant of DrainEnd: the empty fifo is reset, to start over at slot 0.   *)
DrainEndResets ==
  /\ Within("drain", "refill")
  /\ Len(drained) = count \/ KfifoLen = 0
  /\ in' = 0 /\ out' = 0
  /\ UNCHANGED <<data, arg, workerVars, countVars>>

DrainEnd ==
  /\ Within("drain", "refill")
  /\ Len(drained) = count \/ KfifoLen = 0
  /\ UNCHANGED <<ringVars, arg, workerVars, countVars>>

(* An element of moves[] that was not filled would be put back as it is. *)
RefillPut ==
  /\ held = "refill"
  /\ back < count
  /\ \E m \in Items :
       /\ back < Len(drained) => m = drained[back + 1]
       /\ KfifoPut(m)
  /\ back' = back + 1
  /\ UNCHANGED <<held, arg, count, drained, taken, countVars>>

RefillEnd ==
  /\ Within("refill", "free")
  /\ back = count
  /\ taken' = drained
  /\ count' = 0 /\ drained' = <<>> /\ back' = 0
  /\ UNCHANGED <<ringVars, arg, countVars>>

(* kfree(moves) at the end of the replay. *)
WorkerFree ==
  /\ taken # <<>>
  /\ taken' = <<>>
  /\ UNCHANGED <<ringVars, held, arg, count, drained, back, countVars>>

(* echo_buffer_count: kfifo_len loads the two indices, in an order the     *)
(* compiler chooses.                                                       *)

CountBegin ==
  /\ loaded = "none"
  /\ \/ loaded' = "in" /\ half' = in
     \/ loaded' = "out" /\ half' = out
  /\ overlaps' = (IF held = "free" THEN 0 ELSE IF Resetting THEN 2 ELSE 1)
  /\ UNCHANGED <<ringVars, held, arg, workerVars>>

(* What it returns if it loads the other index now. *)
Counted == IF loaded = "in" THEN Diff(half, out) ELSE Diff(in, half)

CountEnd ==
  /\ loaded # "none"
  /\ loaded' = "none" /\ half' = 0 /\ overlaps' = 0
  /\ UNCHANGED <<ringVars, held, arg, workerVars>>

Next ==
  \/ \E m \in Items : RecordLock(m)
  \/ RecordSkip \/ RecordPut
  \/ ClearLock \/ ClearEnd
  \/ DrainLock \/ DrainGet \/ DrainEnd \/ RefillPut \/ RefillEnd \/ WorkerFree
  \/ CountBegin \/ CountEnd

Spec == Init /\ [][Next]_fifoVars

-----------------------------------------------------------------------------
(* The recording a user of the buffer sees, inside a critical section too. *)
Recording ==
  CASE held = "replace" -> Append(Ring, arg)
    [] held = "drain"   -> drained \o Ring
    [] held = "refill"  -> drained
    [] Resetting        -> <<>>
    [] OTHER            -> Ring

(* The fifo never holds more moves than it has slots; the worker puts back *)
(* only what it took out, and finds room for all of it, wherever the       *)
(* indices have wrapped.                                                   *)
FifoBounded ==
  /\ ~Resetting => KfifoLen <= FifoSize
  /\ held = "refill" => Len(drained) = count /\ KfifoLen = back

(* How wrong the count of echo_buffer_count can be, which takes no lock: a *)
(* count that overlaps no critical section is right; one that overlaps a   *)
(* single record or drain-and-refill may be out of date or count moves     *)
(* twice, but never wraps below zero.  Nothing bounds one that overlaps    *)
(* two of them, or a clear.                                                *)
CountBounded ==
  loaded # "none" =>
    /\ overlaps = 0 => Counted = Len(Recording)
    /\ overlaps = 1 => Counted <= IF loaded = "in" THEN FifoSize ELSE 2 * FifoSize

(* The kfifo under its lock is the bounded queue of EchoQueue: no move is  *)
(* lost, duplicated or reordered by the skip, the drain and the refill.    *)
Queue == INSTANCE EchoQueue WITH q <- Recording
ImplementsQueue == Queue!Spec
=============================================================================
