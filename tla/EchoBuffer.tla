----------------------------- MODULE EchoBuffer ----------------------------
(***************************************************************************)
(* echo_buffer.c: the recording and the replay worker on its               *)
(* single-threaded workqueue.  The kfifo is a sequence here (every access  *)
(* but the count is under fifo_lock); EchoFifo models its indices and is   *)
(* shown to implement this view.                                           *)
(*                                                                         *)
(* The workqueue is the kernel's, modelled from its contract: one work     *)
(* item, pending at most once; its pending bit is cleared when the worker  *)
(* enters, so it can be queued again while it runs; from the moment        *)
(* cancel_work_sync takes the item until that call returns, queue_work on  *)
(* it does nothing.                                                        *)
(***************************************************************************)
EXTENDS EchoTypes

CONSTANT Users    \* processes inside the chardev's write() and ioctl()

VARIABLES
  recording,    \* move_fifo
  queued,       \* replay_work is pending on replay_wq
  cancelling,   \* the processes inside cancel_work_sync(&replay_work)
  worker,       \* where replay_worker is, "idle" when it is not running
  snapshot,     \* the worker's local array moves[]
  next,         \* the worker's loop index i, counted from 1
  replay_count  \* atomic_t

bufferVars ==
  <<recording, queued, cancelling, worker, snapshot, next, replay_count>>

WorkerPcs ==
  {"idle", "alloc", "check", "sleep", "notify", "complete", "finish", "data"}

BufferTypeOK ==
  /\ recording \in Seq(Moves) /\ Len(recording) <= FifoSize
  /\ queued \in BOOLEAN
  /\ cancelling \in SUBSET Users
  /\ worker \in WorkerPcs
  /\ snapshot \in Seq(Moves) /\ Len(snapshot) <= FifoSize
  /\ next \in 1 .. FifoSize + 1
  /\ worker \in {"sleep", "notify"} => next <= Len(snapshot)
  /\ replay_count \in 0 .. CounterMod - 1

BufferInit ==
  /\ recording = <<>>
  /\ queued = FALSE
  /\ cancelling = {}
  /\ worker = "idle"
  /\ snapshot = <<>>
  /\ next = 1
  /\ replay_count = 0

-----------------------------------------------------------------------------
(* The public API. *)

RecordMove(m) ==
  /\ recording' = PushMove(recording, m)
  /\ UNCHANGED <<queued, cancelling, worker, snapshot, next, replay_count>>

ClearBuffer ==
  /\ recording' = <<>>
  /\ UNCHANGED <<queued, cancelling, worker, snapshot, next, replay_count>>

(* Mutant of QueueReplay: a start is lost while the worker runs. *)
QueueReplayIfIdle ==
  /\ queued' = (queued \/ (cancelling = {} /\ worker = "idle"))
  /\ UNCHANGED <<recording, cancelling, worker, snapshot, next, replay_count>>

(* echo_buffer_start_replay: nothing happens if the work is pending        *)
(* already or is being cancelled.                                          *)
QueueReplay ==
  /\ queued' = (queued \/ cancelling = {})
  /\ UNCHANGED <<recording, cancelling, worker, snapshot, next, replay_count>>

(* echo_buffer_cancel_replay, first half: take a pending item off the      *)
(* queue.                                                                  *)
CancelBegin(u) ==
  /\ queued' = FALSE
  /\ cancelling' = cancelling \union {u}
  /\ UNCHANGED <<recording, worker, snapshot, next, replay_count>>

(* Mutant of CancelEnd: cancel_work, which does not wait. *)
CancelEndAtOnce(u) ==
  /\ cancelling' = cancelling \ {u}
  /\ UNCHANGED <<recording, queued, worker, snapshot, next, replay_count>>

(* echo_buffer_cancel_replay, second half: wait for a running worker. *)
CancelEnd(u) ==
  /\ worker = "idle"
  /\ cancelling' = cancelling \ {u}
  /\ UNCHANGED <<recording, queued, worker, snapshot, next, replay_count>>

-----------------------------------------------------------------------------
(* replay_worker. *)

WorkerStep(from, to) ==
  /\ worker = from
  /\ worker' = to
  /\ UNCHANGED <<recording, queued, cancelling, snapshot, next, replay_count>>

WorkerEnter ==
  /\ queued
  /\ worker = "idle"
  /\ queued' = FALSE
  /\ worker' = "alloc"
  /\ UNCHANGED <<recording, cancelling, snapshot, next, replay_count>>

(* Drain and refill under fifo_lock leave the recording as it was. *)
TakeSnapshot ==
  /\ worker = "alloc"
  /\ snapshot' = recording
  /\ next' = 1
  /\ replay_count' = Bump(replay_count)
  /\ worker' = "check"
  /\ UNCHANGED <<recording, queued, cancelling>>

(* The head of the loop: stop is the answer of ops->should_stop. *)
LoopCheck(stop) ==
  /\ worker = "check"
  /\ worker' = IF next <= Len(snapshot) /\ ~stop THEN "sleep" ELSE "complete"
  /\ UNCHANGED <<recording, queued, cancelling, snapshot, next, replay_count>>

(* Mutant of LoopAdvance: the loop index is not incremented. *)
LoopRepeat ==
  /\ worker = "notify"
  /\ worker' = "check"
  /\ UNCHANGED <<recording, queued, cancelling, snapshot, next, replay_count>>

LoopAdvance ==
  /\ worker = "notify"
  /\ next' = next + 1
  /\ worker' = "check"
  /\ UNCHANGED <<recording, queued, cancelling, snapshot, replay_count>>

(* The worker frees its array and returns to the workqueue. *)
WorkerReturn ==
  /\ worker = "data"
  /\ worker' = "idle"
  /\ snapshot' = <<>>
  /\ next' = 1
  /\ UNCHANGED <<recording, queued, cancelling, replay_count>>
=============================================================================
