----------------------------- MODULE EchoReader ----------------------------
(***************************************************************************)
(* EchoDriver with the processes that watch it: open(), ioctl(GET_STATE)   *)
(* and blocking read() of the chardev, as the reader thread of echo_app.c  *)
(* calls them.  A snapshot is built field by field, each behind its own    *)
(* subsystem's lock, or none, while the rest of the driver goes on.        *)
(*                                                                         *)
(* echo_buffer_count loads the two indices of the kfifo without its lock.  *)
(* EchoFifo shows that an undisturbed count is right; one that overlaps a  *)
(* change of the ring may give any number, which is Torn here.             *)
(*                                                                         *)
(* A read with O_NONBLOCK that finds no data returns -EAGAIN and changes   *)
(* nothing; one that finds data goes on like any other.                    *)
(***************************************************************************)
EXTENDS EchoDriver

CONSTANT Readers   \* processes that read the device

VARIABLES
  rpc,     \* where each of them is: "closed", "idle", "wait", "clear", "build"
  field,   \* the field of its snapshot that build_snapshot fills next
  seen,    \* the snapshot it was given, or the one being built
  robbed   \* those from whom another has taken the flag since they took it

readerVars    == <<rpc, field, seen, robbed>>
dashboardVars == <<vars, readerVars>>

(* The atomic_inc comes after the return that every handler takes (see     *)
(* EchoJoystick), so the count is always 0.  Once that return is under its *)
(* condition, as its indentation has it, a press that REPLAY ignores will  *)
(* add to the count and notify nobody, and SeenIsCurrent will not hold.    *)
irq_count == 0

(* struct echo_snapshot, in the order build_snapshot fills it: the mode,   *)
(* the three angles, buffer_count and the three totals.                    *)
Current ==
  <<mode, pos["PAN"], pos["TILT"], pos["TILT2"],
    Len(recording), total_moves, replay_count, irq_count>>
Fields == 1 .. 8
BufferCount == 5

(* The ring is about to change, or is changing.  Torn is no length. *)
RingBusy ==
  \/ \E u \in Users : pc[u] \in {"teach_clear", "reset_clear"}
  \/ \E i \in Pins : irq_pc[i] = "record"
  \/ worker = "alloc"
Torn == -1

ReaderTypeOK ==
  /\ rpc \in [Readers -> {"closed", "idle", "wait", "clear", "build"}]
  /\ field \in [Readers -> 1 .. 9]
  /\ \A r \in Readers : rpc[r] # "build" => field[r] = 1
  /\ DOMAIN seen = Readers
  /\ \A r \in Readers : DOMAIN seen[r] = Fields
  /\ robbed \subseteq Readers

(* shared_snap is zeroed; it is filled before anything is shown. *)
ReaderInit ==
  /\ Init
  /\ rpc = [r \in Readers |-> "closed"]
  /\ field = [r \in Readers |-> 1]
  /\ seen = [r \in Readers |-> Current]
  /\ robbed = {}

-----------------------------------------------------------------------------
ReaderGoto(r, from, to) ==
  /\ rpc[r] = from
  /\ rpc' = [rpc EXCEPT ![r] = to]

(* open(), and the GET_STATE that seeds the snapshot: no flag is touched.  *)
OpenAndSeed(r) ==
  /\ ReaderGoto(r, "closed", "build")
  /\ robbed' = robbed \ {r}
  /\ UNCHANGED <<field, seen, vars>>

ReadCall(r) ==
  /\ ReaderGoto(r, "idle", "wait")
  /\ UNCHANGED <<field, seen, robbed, vars>>

ReadWake(r) ==
  /\ ReaderGoto(r, "wait", "clear")
  /\ new_data_avail
  /\ UNCHANGED <<field, seen, robbed, vars>>

ReadClear(r) ==
  /\ ReaderGoto(r, "clear", "build")
  /\ new_data_avail' = FALSE
  /\ robbed' = Readers \ {r}
  /\ UNCHANGED <<field, seen, stateVars, bufferVars, pos, replay_finished,
                 userVars, irqVars>>

BuildField(r) ==
  /\ rpc[r] = "build"
  /\ field[r] \in Fields
  /\ \/ seen' = [seen EXCEPT ![r][field[r]] = Current[field[r]]]
     \/ /\ field[r] = BufferCount /\ RingBusy
        /\ seen' = [seen EXCEPT ![r][BufferCount] = Torn]
  /\ field' = [field EXCEPT ![r] = @ + 1]
  /\ UNCHANGED <<rpc, robbed, vars>>

(* Mutant of ReadReturn: the flag is cleared after the snapshot is built.  *)
ReadReturnClears(r) ==
  /\ ReaderGoto(r, "build", "idle")
  /\ field[r] \notin Fields
  /\ field' = [field EXCEPT ![r] = 1]
  /\ new_data_avail' = FALSE
  /\ UNCHANGED <<seen, robbed, stateVars, bufferVars, pos, replay_finished,
                 userVars, irqVars>>

(* copy_to_user succeeds. *)
ReadReturn(r) ==
  /\ ReaderGoto(r, "build", "idle")
  /\ field[r] \notin Fields
  /\ field' = [field EXCEPT ![r] = 1]
  /\ UNCHANGED <<seen, robbed, vars>>

(* A signal interrupts the wait, or copy_to_user fails: read() returns an  *)
(* error, and the reader thread of the application ends.  After a failed   *)
(* copy the flag stays cleared.                                            *)
ReadFails(r) ==
  /\ \/ ReaderGoto(r, "wait", "closed")
     \/ ReaderGoto(r, "build", "closed") /\ field[r] \notin Fields
  /\ field' = [field EXCEPT ![r] = 1]
  /\ UNCHANGED <<seen, robbed, vars>>

ReaderStep(r) ==
  \/ OpenAndSeed(r) \/ ReadCall(r) \/ ReadWake(r) \/ ReadClear(r)
  \/ BuildField(r) \/ ReadReturn(r) \/ ReadFails(r)

ReaderNext ==
  \/ Next /\ UNCHANGED readerVars
  \/ \E r \in Readers : ReaderStep(r)

ReaderSpec == ReaderInit /\ [][ReaderNext]_dashboardVars

-----------------------------------------------------------------------------
(* Somebody has changed what a snapshot shows, or may be about to, and has *)
(* a notify_readers ahead of it.                                           *)
NotifyAhead ==
  \/ \E u \in Users : pc[u] \notin {"idle", "flagged", "wait"}
  \/ \E i \in Pins : irq_pc[i] # "idle"
  \/ timer_fn \in {"queue", "notify"}
  \/ worker # "idle"

(* No change is missed, unless another reader has taken the flag: a reader *)
(* with nothing to wait for but new data has seen the driver as it is,     *)
(* however its snapshot was torn.  Every path that changes the state must  *)
(* notify after its last change, and read() must clear the flag before it  *)
(* looks.                                                                  *)
SeenIsCurrent ==
  \A r \in Readers \ robbed :
    rpc[r] \in {"idle", "wait"} /\ ~new_data_avail /\ ~NotifyAhead
      => \A f \in Fields : seen[r][f] = Current[f]
=============================================================================
