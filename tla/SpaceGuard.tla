----------------------------- MODULE SpaceGuard -----------------------------
(***************************************************************************)
(* The admission of writes to a filesystem that several processes share    *)
(* (storage/space_guard.rs): the drives' processes write blocks and erase  *)
(* tapes, the maintenance worker rewrites segments.  A process that is     *)
(* about to write takes the filesystem's lock, looks how much space is     *)
(* available, adds up what the others have reserved, and reserves its own  *)
(* peak if both fit beside a fixed reserve.  It writes after it has given  *)
(* the lock up, and ends the reservation without it.  A reservation is a   *)
(* file with a lock on it, which the kernel releases if the process dies.  *)
(***************************************************************************)
EXTENDS Integers, FiniteSets, FiniteSetsExt

CONSTANTS
  Writer,           \* the processes
  None,
  Commands,         \* what a command asks for: the arguments of the estimate
  Unit,             \* the filesystem's allocation unit
  BlobOverhead,     \* BLOB_RECORD_OVERHEAD
  SegmentOverhead,  \* SEGMENT_OVERHEAD
  Reserve,          \* SPACE_RESERVE_BYTES
  Capacity,         \* bound: the space available at first, and at most
  Slack,            \* bound: the bytes written outside of any reservation
  MaxCommands,      \* bound: commands
  MaxKills          \* bound: processes that die

ASSUME SpaceAssumption ==
  /\ None \notin Writer /\ IsFiniteSet(Writer)
  /\ Unit \in Nat \ {0}
  /\ {BlobOverhead, SegmentOverhead, Reserve, Capacity, Slack, MaxCommands, MaxKills}
       \subseteq Nat
  /\ Commands \subseteq [payload : Nat, blobs : Nat, segments : Nat, metadata : Nat]

VARIABLES
  available,  \* free space, as fstatvfs reports it
  lock,       \* the holder of the filesystem's lock
  pc, peak,   \* of each process: its step, and the bytes it asks for
  snapshot,   \* the space it saw available,
  unread,     \* the reservations it has still to read, and
  inFlight,   \* the sum of those it has read
  reserved,   \* the reservation of each process, or 0
  written,    \* what it has written of it
  orphans,    \* reservation files of processes that died
  claimed,    \* history: the reservations of live processes at the probe,
  ended,      \* whether a process gave up its reservation since the probe, and
  overtaken,  \* whether one did so during the last admission
  extra,      \* bytes written outside of reservations
  commands, kills

admission == <<snapshot, unread, inFlight, claimed, overtaken>>
bounds    == <<extra, commands, kills>>
vars      == <<available, lock, pc, peak, admission, ended, reserved, written, orphans, bounds>>

-----------------------------------------------------------------------------
(* The arithmetic.  The code's checks for overflow of 64 bits are left out: *)
(* no size here comes near it.                                             *)

RoundUp(bytes) ==
  IF bytes % Unit = 0 THEN bytes ELSE bytes + (Unit - (bytes % Unit))

\* estimate_write_peak_bytes.
Estimate(c) ==
  RoundUp(c.payload) + c.blobs * BlobOverhead + c.segments * SegmentOverhead
    + RoundUp(c.metadata)

\* ensure_capacity.
EnoughFor(space, bytes) == space >= bytes + Reserve

Live(w) == reserved[w] > 0

Remaining(w) == reserved[w] - written[w]

Total(f(_), S) == MapThenSumSet(f, S)

Init ==
  /\ available = Capacity
  /\ lock = None
  /\ pc = [w \in Writer |-> "idle"]
  /\ peak = [w \in Writer |-> 0]
  /\ snapshot = 0 /\ unread = {} /\ inFlight = 0
  /\ claimed = 0 /\ ended = FALSE /\ overtaken = FALSE
  /\ reserved = [w \in Writer |-> 0]
  /\ written = [w \in Writer |-> 0]
  /\ orphans = {}
  /\ extra = 0 /\ commands = 0 /\ kills = 0

-----------------------------------------------------------------------------
(* The admission of a command: acquire_space_admission of the drives,      *)
(* reserve_capacity of the worker.                                         *)

Goto(w, label) == pc' = [pc EXCEPT ![w] = label]

Begin(w) ==
  /\ pc[w] = "idle" /\ commands < MaxCommands
  /\ commands' = commands + 1
  /\ \E c \in Commands : peak' = [peak EXCEPT ![w] = Estimate(c)]
  /\ Goto(w, "lock")
  /\ UNCHANGED <<available, lock, admission, ended, reserved, written, orphans, extra, kills>>

\* FilesystemLock::acquire.
Acquire(w) ==
  /\ pc[w] = "lock" /\ lock = None
  /\ lock' = w
  /\ Goto(w, "probe")
  /\ UNCHANGED <<available, peak, admission, ended, reserved, written, orphans, bounds>>

\* The lock is held: the worker gives up at once, a drive when acquire_wait has
\* waited for too long.
Busy(w) ==
  /\ pc[w] = "lock" /\ lock \notin {None, w}
  /\ Goto(w, "idle")
  /\ UNCHANGED <<available, lock, peak, admission, ended, reserved, written, orphans, bounds>>

\* FilesystemLock::probe.
Probe(w) ==
  /\ pc[w] = "probe"
  /\ snapshot' = available
  /\ claimed' = Total(LAMBDA v : reserved[v], Writer)
  /\ inFlight' = 0
  /\ ended' = FALSE
  /\ Goto(w, "list")
  /\ UNCHANGED <<available, lock, peak, unread, overtaken, reserved, written, orphans, bounds>>

\* active_reservation_bytes: the files of the directory, then one after the other.
List(w) ==
  /\ pc[w] = "list"
  /\ unread' = {v \in Writer : Live(v) \/ v \in orphans}
  /\ Goto(w, "count")
  /\ UNCHANGED <<available, lock, peak, snapshot, inFlight, claimed, overtaken, ended, reserved,
                 written, orphans, bounds>>

\* Mutant: the reservation of a process that died counts.
CountOrphans(w) ==
  /\ pc[w] = "count"
  /\ \E v \in unread :
       /\ unread' = unread \ {v}
       /\ inFlight' = inFlight + reserved[v] + (IF v \in orphans THEN peak[v] ELSE 0)
  /\ UNCHANGED <<available, lock, pc, peak, snapshot, claimed, overtaken, ended, reserved,
                 written, orphans, bounds>>

\* A reservation that is locked counts, one that is not is removed, one that is
\* gone is passed over.
Count(w) ==
  /\ pc[w] = "count"
  /\ \E v \in unread :
       /\ unread' = unread \ {v}
       /\ inFlight' = inFlight + reserved[v]
       /\ orphans' = orphans \ {v}
  /\ UNCHANGED <<available, lock, pc, peak, snapshot, claimed, overtaken, ended, reserved,
                 written, bounds>>

\* The write is refused.
Refuse(w) ==
  /\ pc[w] = "count" /\ unread = {}
  /\ ~ EnoughFor(snapshot, inFlight + peak[w])
  /\ lock' = None
  /\ Goto(w, "idle")
  /\ UNCHANGED <<available, peak, admission, ended, reserved, written, orphans, bounds>>

\* Mutant: what the others reserved is not taken into account.
AdmitAlone(w) ==
  /\ pc[w] = "count" /\ unread = {}
  /\ EnoughFor(snapshot, peak[w])
  /\ reserved' = [reserved EXCEPT ![w] = peak[w]]
  /\ written' = [written EXCEPT ![w] = 0]
  /\ overtaken' = ended
  /\ Goto(w, "unlock")
  /\ UNCHANGED <<available, lock, peak, snapshot, unread, inFlight, claimed, ended, orphans, bounds>>

\* reserve: the file is created, locked and filled in.
Admit(w) ==
  /\ pc[w] = "count" /\ unread = {}
  /\ EnoughFor(snapshot, inFlight + peak[w])
  /\ reserved' = [reserved EXCEPT ![w] = peak[w]]
  /\ written' = [written EXCEPT ![w] = 0]
  /\ overtaken' = ended
  /\ Goto(w, "unlock")
  /\ UNCHANGED <<available, lock, peak, snapshot, unread, inFlight, claimed, ended, orphans, bounds>>

Unlock(w) ==
  /\ pc[w] = "unlock"
  /\ lock' = None
  /\ Goto(w, "write")
  /\ UNCHANGED <<available, peak, admission, ended, reserved, written, orphans, bounds>>

-----------------------------------------------------------------------------
(* The write and its end.                                                  *)

\* The command writes part of what it reserved.
WriteSome(w) ==
  /\ pc[w] = "write"
  /\ \E n \in 1..Remaining(w) :
       /\ n <= available
       /\ available' = available - n
       /\ written' = [written EXCEPT ![w] = @ + n]
  /\ UNCHANGED <<lock, pc, peak, admission, ended, reserved, orphans, bounds>>

\* The reservation is dropped with the command; the lock is not taken.
Finish(w) ==
  /\ pc[w] = "write"
  /\ reserved' = [reserved EXCEPT ![w] = 0]
  /\ written' = [written EXCEPT ![w] = 0]
  /\ ended' = TRUE
  /\ Goto(w, "idle")
  /\ UNCHANGED <<available, lock, peak, admission, orphans, bounds>>

\* The process dies: its locks are released, its reservation file stays.  A
\* process that dies in reserve may leave a file behind, too.
Kill(w) ==
  /\ pc[w] # "idle" /\ kills < MaxKills
  /\ kills' = kills + 1
  /\ lock' = IF lock = w THEN None ELSE lock
  /\ \/ Live(w) /\ orphans' = orphans \cup {w}
     \/ ~ Live(w) /\ pc[w] = "count" /\ unread = {} /\ orphans' = orphans \cup {w}
     \/ ~ Live(w) /\ UNCHANGED orphans
  /\ reserved' = [reserved EXCEPT ![w] = 0]
  /\ written' = [written EXCEPT ![w] = 0]
  /\ ended' = (ended \/ Live(w))
  /\ Goto(w, "idle")
  /\ UNCHANGED <<available, peak, admission, extra, commands>>

\* Metadata flushed by a command without a reservation, files of other programs,
\* a write that takes more than its estimate (external).
WriteUnreserved ==
  /\ extra < Slack /\ available > 0
  /\ extra' = extra + 1
  /\ available' = available - 1
  /\ UNCHANGED <<lock, pc, peak, admission, ended, reserved, written, orphans, commands, kills>>

\* Files are removed: by erase, by reclamation, by the operator (external).
FreeSpace ==
  /\ available < Capacity
  /\ available' = Capacity
  /\ UNCHANGED <<lock, pc, peak, admission, ended, reserved, written, orphans, bounds>>

-----------------------------------------------------------------------------
Admission(w) ==
  \/ Acquire(w) \/ Busy(w) \/ Probe(w) \/ List(w) \/ Count(w)
  \/ Refuse(w) \/ Admit(w) \/ Unlock(w)

Next ==
  \/ \E w \in Writer :
       Begin(w) \/ Admission(w) \/ WriteSome(w) \/ Finish(w) \/ Kill(w)
  \/ WriteUnreserved \/ FreeSpace

Spec == Init /\ [][Next]_vars

-----------------------------------------------------------------------------
(* Properties.                                                             *)

Peaks == {Estimate(c) : c \in Commands}
MaxPeak == Max(Peaks \cup {0})

\* The variables have their types, one process at a time looks at the
\* reservations, under the lock, and none writes more than it reserved.
TypeOK ==
  /\ available \in 0..Capacity /\ snapshot \in 0..Capacity /\ inFlight \in Nat
  /\ lock \in Writer \cup {None}
  /\ pc \in [Writer -> {"idle", "lock", "probe", "list", "count", "unlock", "write"}]
  /\ peak \in [Writer -> Peaks \cup {0}]
  /\ reserved \in [Writer -> Nat] /\ written \in [Writer -> Nat]
  /\ \A w \in Writer :
       /\ pc[w] \in {"probe", "list", "count", "unlock"} <=> lock = w
       /\ reserved[w] = (IF pc[w] \in {"unlock", "write"} THEN peak[w] ELSE 0)
       /\ written[w] <= reserved[w]
  /\ unread \subseteq Writer /\ orphans \subseteq Writer
  /\ extra \in 0..Slack

\* All that has been admitted and not yet written fits beside the reserve, less
\* what was written without a reservation, in whatever order the processes
\* probe, reserve, write, end and die.  One order costs more: the space is probed
\* before the reservations are read, so what a process wrote after the probe is
\* in neither if its reservation is gone when it would be read.  Every other
\* process can do that once in an admission, so a reserve of that size is enough
\* for every admitted write to find its space.
ReserveHolds ==
  (\E w \in Writer : Live(w)) =>
    available + extra + (IF overtaken THEN (Cardinality(Writer) - 1) * MaxPeak ELSE 0)
      >= Total(Remaining, Writer) + Reserve

\* A write is refused only for space that is taken or was claimed by a process
\* that was alive at the probe: a process that died with a reservation, at
\* whatever moment, does not keep the others from writing.
RefusedOnlyForLiveClaims ==
  [][\A w \in Writer : Refuse(w) => snapshot < claimed + peak[w] + Reserve]_vars
=============================================================================
