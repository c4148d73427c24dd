-------------------------------- MODULE Media -------------------------------
(***************************************************************************)
(* Which process has a cartridge's layout open, and what the hosts are     *)
(* told when a drive's cartridge changes.                                  *)
(*                                                                         *)
(* Each drive is served by a process of its own (bin/tcmu_handler.rs): it  *)
(* handles one command at a time and runs a monitor thread that lets go of *)
(* a cartridge the drive should no longer hold.  What a drive should hold  *)
(* is in its state file, written by the changer and by management (the     *)
(* Library module).  A process may open a layout only under the layout     *)
(* lease, a file lock that the kernel releases when the process dies       *)
(* (storage/layout_lease.rs).  The maintenance worker                      *)
(* (bin/holo_storage_maintenance.rs) is one more such process; what it     *)
(* does to the layout is the OfflineReclaim module.                        *)
(*                                                                         *)
(* A command is a sequence of steps: the state file is read, the old       *)
(* cartridge is detached, the new one attached, the command executed.  The *)
(* commands are classed by how the dispatcher treats them.                 *)
(***************************************************************************)
EXTENDS Integers, Sequences

CONSTANTS
  Drive,      \* the drives, each with its own process
  Nexus,      \* the initiators that name themselves
  Anon,       \* commands without an initiator
  Worker,     \* the maintenance worker
  Cartridge,
  Locked,     \* the cartridges that are WORM or under retention
  None,
  Budgets     \* bound: how many state files change (move), commands come
              \* other than polls of an empty drive (command), maintenance
              \* jobs run (job), and processes die or detaches and attaches
              \* fail (fault)

ASSUME MediaAssumption ==
  /\ None \notin Cartridge \cup Drive \cup {Worker}
  /\ Anon \notin Nexus /\ Worker \notin Drive
  /\ Locked \subseteq Cartridge
  /\ Budgets \subseteq [move : Nat, command : Nat, job : Nat, fault : Nat]

VARIABLES
  desired,  \* the state files: drive -> cartridge
  mounted,  \* TapeState.cartridge_id: drive -> cartridge
  lease,    \* the holder of each cartridge's layout lease
  pc, job,  \* the step of each drive's command, and the command
  queue,    \* unit attentions: drive -> nexus -> sequence
  untold,   \* history: whether a named initiator has been told of the last
            \* change of the drive's cartridge, and whose command made it
  wpc,      \* the step of the maintenance worker,
  wcartridge, \* its cartridge,
  unread,   \* and the state files it has still to read
  left      \* bounds

drives == <<mounted, pc, job, queue, untold>>
worker == <<wpc, wcartridge, unread>>
vars   == <<desired, lease, drives, worker, left>>

Holder    == Drive \cup {Worker}
Initiator == Nexus \cup {Anon}
Slot      == Cartridge \cup {None}

\* POWER ON OR RESET (29/00) and MEDIUM MAY HAVE CHANGED (28/00).
Attention == {"reset", "media"}

\* TEST UNIT READY, REQUEST SENSE, INQUIRY, READ and WRITE, LOAD, UNLOAD (without
\* HOLD), and the rest.
Opcode == {"tur", "sense", "inquiry", "data", "load", "unload", "other"}

Spend(b) == left[b] > 0 /\ left' = [left EXCEPT ![b] = @ - 1]

\* The state files may already be there when the processes start.
Init ==
  /\ desired \in [Drive -> Slot]
  /\ mounted = [d \in Drive |-> None]
  /\ lease = [c \in Cartridge |-> None]
  /\ pc = [d \in Drive |-> "idle"]
  /\ job = [d \in Drive |-> None]
  /\ queue = [d \in Drive |-> [n \in Initiator |-> <<"reset">>]]
  /\ untold = [d \in Drive |-> [n \in Nexus |-> "no"]]
  /\ wpc = "idle" /\ wcartridge = None /\ unread = {}
  /\ left \in Budgets

-----------------------------------------------------------------------------
(* The state of a drive.                                                   *)

\* Mutant: the queues of the other initiators are kept.
ClearedOwn(d, n) ==
  [m \in Initiator |-> IF m = n THEN << >> ELSE queue[d][m]]

\* mount and unmount clear the queue in use and forget the queues of all named
\* initiators, who find the power-on attention again.  The queue of commands
\* without an initiator is put aside while a named initiator is served.
Cleared(d, n) ==
  [m \in Initiator |-> IF m = n THEN << >>
                       ELSE IF m = Anon THEN queue[d][Anon] ELSE <<"reset">>]

Pushed(q, n, a) == [q EXCEPT ![n] = Append(@, a)]

\* The drive's cartridge changes on behalf of nexus n.
Changed(d, n) ==
  untold' = [untold EXCEPT ![d] =
               [m \in Nexus |-> IF m = n THEN "own" ELSE "other"]]

\* detach_cartridge: flush, drop the caches, unmount, and with it the lease.
Detach(d, n, q) ==
  /\ mounted' = [mounted EXCEPT ![d] = None]
  /\ lease' = [lease EXCEPT ![mounted[d]] = None]
  /\ queue' = [queue EXCEPT ![d] = q]
  /\ Changed(d, n)

\* Mutant: the layout is opened although the lease is held elsewhere.
AttachUnleased(d, n, c, q) ==
  /\ mounted' = [mounted EXCEPT ![d] = c]
  /\ lease' = [lease EXCEPT ![c] = d]
  /\ queue' = [queue EXCEPT ![d] = q]
  /\ Changed(d, n)

\* attach_cartridge once it holds the lease.
Attach(d, n, c, q) ==
  /\ lease[c] = None
  /\ mounted' = [mounted EXCEPT ![d] = c]
  /\ lease' = [lease EXCEPT ![c] = d]
  /\ queue' = [queue EXCEPT ![d] = q]
  /\ Changed(d, n)

\* The command of drive d ends with its reply.
Ends(d) ==
  /\ pc' = [pc EXCEPT ![d] = "idle"]
  /\ job' = [job EXCEPT ![d] = None]

Goto(d, label) == pc' = [pc EXCEPT ![d] = label] /\ UNCHANGED job

\* The reply that reports unit attention number i of the nexus.
Report(d, i) ==
  LET n == job[d].nexus
      q == queue[d][n]
  IN  /\ queue' = [queue EXCEPT ![d][n] = SubSeq(q, 1, i - 1) \o SubSeq(q, i + 1, Len(q))]
      /\ untold' = [untold EXCEPT ![d] = [m \in Nexus |-> IF m = n THEN "no" ELSE @[m]]]
      /\ Ends(d)

Media == UNCHANGED <<mounted, lease>>
Told  == UNCHANGED <<queue, untold>>

-----------------------------------------------------------------------------
(* A command of a host: dispatch_raw_cdb_with_context.                     *)

\* drive_opcode_requires_media_sync.
RequiresSync(d, op) ==
  IF mounted[d] = None THEN op = "tur" ELSE op # "data"

\* The state file is read when the command begins.
Command(d, n, op) ==
  /\ pc[d] = "idle"
  /\ job' = [job EXCEPT ![d] = [op |-> op, nexus |-> n, target |-> desired[d]]]
  /\ pc' = [pc EXCEPT ![d] = IF RequiresSync(d, op) THEN "sync" ELSE "run"]
  /\ Media /\ Told /\ UNCHANGED <<desired, worker>>

\* Hosts wait for a cartridge by polling an empty drive.
Poll(d) ==
  /\ mounted[d] = None
  /\ \E n \in Initiator : Command(d, n, "tur")
  /\ UNCHANGED left

HostCommand(d) ==
  /\ \E n \in Initiator, op \in Opcode : Command(d, n, op)
  /\ Spend("command")

\* sync_drive_mount_from_shared, before the new cartridge is attached.
Sync(d) ==
  LET n == job[d].nexus
      c == job[d].target
  IN  /\ pc[d] = "sync"
      /\ \/ /\ mounted[d] = c
            /\ Goto(d, "run") /\ Media /\ Told /\ UNCHANGED left
         \/ /\ mounted[d] = None /\ c # None
            /\ Goto(d, "attach") /\ Media /\ Told /\ UNCHANGED left
         \/ /\ mounted[d] # None /\ c \notin {mounted[d], None}
            /\ Detach(d, n, Cleared(d, n))
            /\ Goto(d, "attach") /\ UNCHANGED left
         \/ /\ mounted[d] # None /\ c = None
            /\ Detach(d, n, Pushed(Cleared(d, n), n, "media"))
            /\ Goto(d, "run") /\ UNCHANGED left
         \/ /\ mounted[d] \notin {c, None}
            /\ Spend("fault") /\ Ends(d) /\ Media /\ Told
      /\ UNCHANGED <<desired, worker>>

\* The attach that follows; a busy lease or a layout that does not load ends
\* the command.
SyncAttach(d) ==
  LET n == job[d].nexus
      c == job[d].target
  IN  /\ pc[d] = "attach"
      /\ \/ /\ Attach(d, n, c, Pushed(Cleared(d, n), n, "media"))
            /\ Goto(d, "run") /\ UNCHANGED left
         \/ /\ lease[c] # None
            /\ Ends(d) /\ Media /\ Told /\ UNCHANGED left
         \/ /\ lease[c] = None
            /\ Spend("fault") /\ Ends(d) /\ Media /\ Told
      /\ UNCHANGED <<desired, worker>>

\* Mutant: a media attention waits for TEST UNIT READY as the power-on one does.
PendingOnPoll(d) ==
  LET q == queue[d][job[d].nexus]
  IN  {i \in DOMAIN q : q[i] \notin Attention}

\* take_pending_unit_attention_for_opcode: the first that is no power-on.
Pending(d) ==
  LET q == queue[d][job[d].nexus]
  IN  {i \in DOMAIN q : q[i] # "reset" /\ \A k \in 1..i - 1 : q[k] = "reset"}

\* TEST UNIT READY and REQUEST SENSE report any attention.
RunReport(d) ==
  /\ pc[d] = "run" /\ job[d].op \in {"tur", "sense"}
  /\ \/ /\ queue[d][job[d].nexus] # << >>
        /\ Report(d, 1)
     \/ /\ queue[d][job[d].nexus] = << >>
        /\ Ends(d)
        /\ Told
  /\ Media /\ UNCHANGED <<desired, worker, left>>

\* Every other command is first interrupted by a media attention.
RunInterrupted(d) ==
  /\ pc[d] = "run" /\ job[d].op \notin {"tur", "sense", "inquiry"}
  /\ \E i \in Pending(d) : Report(d, i)
  /\ Media /\ UNCHANGED <<desired, worker, left>>

Uninterrupted(d, ops) == pc[d] = "run" /\ job[d].op \in ops /\ Pending(d) = {}

\* INQUIRY is never interrupted.
RunInquiry(d) ==
  /\ pc[d] = "run" /\ job[d].op = "inquiry"
  /\ Ends(d)
  /\ Media /\ Told /\ UNCHANGED <<desired, worker, left>>

\* READ, WRITE and the commands on the tape.
RunWork(d) ==
  /\ Uninterrupted(d, {"data", "other"})
  /\ Ends(d)
  /\ Media /\ Told /\ UNCHANGED <<desired, worker, left>>

\* load_unload_drive with LOAD: the state file is read again.
RunLoad(d) ==
  /\ Uninterrupted(d, {"load"})
  /\ \/ /\ mounted[d] # None
        /\ Ends(d)
     \/ /\ mounted[d] = None /\ desired[d] = None
        /\ Ends(d)
     \/ /\ mounted[d] = None /\ desired[d] # None
        /\ job' = [job EXCEPT ![d].target = desired[d]]
        /\ pc' = [pc EXCEPT ![d] = "load"]
  /\ Media /\ Told /\ UNCHANGED <<desired, worker, left>>

\* The host is told of the change twice: by mount, and by the command.
LoadAttach(d) ==
  LET n == job[d].nexus
      c == job[d].target
  IN  /\ pc[d] = "load"
      /\ \/ /\ Attach(d, n, c, Pushed(Pushed(Cleared(d, n), n, "media"), n, "media"))
            /\ Ends(d) /\ UNCHANGED left
         \/ /\ lease[c] # None
            /\ Ends(d) /\ Media /\ Told /\ UNCHANGED left
         \/ /\ lease[c] = None
            /\ Spend("fault") /\ Ends(d) /\ Media /\ Told
      /\ UNCHANGED <<desired, worker>>

\* load_unload_drive with UNLOAD.
RunUnload(d) ==
  LET n == job[d].nexus
  IN  /\ Uninterrupted(d, {"unload"})
      /\ \/ /\ mounted[d] = None
            /\ Ends(d) /\ Media /\ Told /\ UNCHANGED left
         \/ /\ mounted[d] # None
            /\ Detach(d, n, Pushed(Cleared(d, n), n, "media"))
            /\ Ends(d) /\ UNCHANGED left
         \/ /\ mounted[d] # None
            /\ Spend("fault") /\ Ends(d) /\ Media /\ Told
      /\ UNCHANGED <<desired, worker>>

Step(d) ==
  \/ Sync(d) \/ SyncAttach(d) \/ RunReport(d) \/ RunInterrupted(d) \/ RunInquiry(d)
  \/ RunWork(d) \/ RunLoad(d) \/ LoadAttach(d) \/ RunUnload(d)

-----------------------------------------------------------------------------
(* The other steps of a drive's process.                                   *)

\* Mutant: the monitor lets go of a cartridge only when the state file is empty.
IdleCheckEmptied(d) ==
  /\ pc[d] = "idle"
  /\ mounted[d] # None /\ desired[d] = None
  /\ pc' = [pc EXCEPT ![d] = "release"]
  /\ Media /\ Told /\ UNCHANGED <<desired, worker, job, left>>

\* start_idle_media_monitor, which holds the lock on the drive's state: the
\* drive is loaded and idle and its state file names another cartridge.
IdleCheck(d) ==
  /\ pc[d] = "idle"
  /\ mounted[d] \notin {None, desired[d]}
  /\ pc' = [pc EXCEPT ![d] = "release"]
  /\ Media /\ Told /\ UNCHANGED <<desired, worker, job, left>>

\* The attention goes to the queue of commands without an initiator.
IdleDetach(d) ==
  /\ pc[d] = "release"
  /\ pc' = [pc EXCEPT ![d] = "idle"]
  /\ \/ /\ Detach(d, Anon, Pushed(Cleared(d, Anon), Anon, "media"))
        /\ UNCHANGED left
     \/ /\ Spend("fault") /\ Media /\ Told
  /\ UNCHANGED <<desired, worker, job>>

\* The process is killed, or detaches and exits on SIGTERM, and starts again.
Restart(d) ==
  /\ Spend("fault")
  /\ mounted' = [mounted EXCEPT ![d] = None]
  /\ lease' = [c \in Cartridge |-> IF lease[c] = d THEN None ELSE lease[c]]
  /\ queue' = [queue EXCEPT ![d] = [n \in Initiator |-> <<"reset">>]]
  /\ untold' = [untold EXCEPT ![d] = [n \in Nexus |-> "other"]]
  /\ pc' = [pc EXCEPT ![d] = "idle"]
  /\ job' = [job EXCEPT ![d] = None]
  /\ UNCHANGED <<desired, worker>>

\* The changer or management writes a drive's state file (external to the
\* drive's process; the Library module has the writers).
Assign(d) ==
  /\ \E c \in Slot \ {desired[d]} : desired' = [desired EXCEPT ![d] = c]
  /\ Spend("move")
  /\ UNCHANGED <<lease, drives, worker>>

-----------------------------------------------------------------------------
(* The maintenance worker.                                                 *)

WorkerGoes(label, files) ==
  /\ wpc' = label /\ unread' = files
  /\ UNCHANGED <<desired, drives>>

\* run: the first look at the state files.
WorkerBegin ==
  /\ wpc = "idle"
  /\ \E c \in Cartridge : wcartridge' = c
  /\ Spend("job")
  /\ WorkerGoes("look", Drive)
  /\ UNCHANGED lease

\* One state file after the other is read; a cartridge that is loaded defers
\* the job.
ReadsOne ==
  /\ \E d \in unread :
       \/ /\ desired[d] = wcartridge
          /\ WorkerGoes("give_up", {})
       \/ /\ desired[d] # wcartridge
          /\ WorkerGoes(wpc, unread \ {d})
  /\ UNCHANGED <<lease, wcartridge, left>>

\* media_state_contains_cartridge, before the lease is taken.
WorkerLooks == wpc = "look" /\ ReadsOne

\* shared_state_reports_loaded, under the lease.
WorkerChecks == wpc = "check" /\ ReadsOne

\* LayoutLease::acquire, then the second look, now under the lease.
WorkerLease ==
  /\ wpc = "look" /\ unread = {}
  /\ \/ /\ lease[wcartridge] = None
        /\ lease' = [lease EXCEPT ![wcartridge] = Worker]
        /\ WorkerGoes("check", Drive)
     \/ /\ lease[wcartridge] # None
        /\ WorkerGoes("give_up", {}) /\ UNCHANGED lease
  /\ UNCHANGED <<wcartridge, left>>

\* reclaim_one_segment_under_lease refuses WORM and locked cartridges.
WorkerStarts ==
  /\ wpc = "check" /\ unread = {}
  /\ WorkerGoes(IF wcartridge \in Locked THEN "give_up" ELSE "reclaim", {})
  /\ UNCHANGED <<lease, wcartridge, left>>

Released(h) == [c \in Cartridge |-> IF lease[c] = h THEN None ELSE lease[c]]

\* The job ends, with its report, or the process dies.
WorkerEnds ==
  /\ wpc \in {"give_up", "reclaim"}
  /\ lease' = Released(Worker)
  /\ wcartridge' = None
  /\ WorkerGoes("idle", {})
  /\ UNCHANGED left

WorkerDies ==
  /\ wpc # "idle"
  /\ Spend("fault")
  /\ lease' = Released(Worker)
  /\ wcartridge' = None
  /\ WorkerGoes("idle", {})

-----------------------------------------------------------------------------
Maintain == WorkerLooks \/ WorkerChecks \/ WorkerLease \/ WorkerStarts \/ WorkerEnds

Next ==
  \/ \E d \in Drive :
       \/ Poll(d) \/ HostCommand(d) \/ Step(d)
       \/ IdleCheck(d) \/ IdleDetach(d) \/ Restart(d) \/ Assign(d)
  \/ WorkerBegin \/ Maintain \/ WorkerDies

Spec == Init /\ [][Next]_vars

\* A process that is running goes on, the monitor looks again and again, a
\* host that waits for a cartridge polls, and a maintenance job ends.  Nothing
\* is assumed of any other command.
FairSpec ==
  /\ Spec
  /\ \A d \in Drive :
       /\ WF_vars(Step(d)) /\ WF_vars(Poll(d))
       /\ WF_vars(IdleCheck(d)) /\ WF_vars(IdleDetach(d))
  /\ WF_vars(Maintain)

-----------------------------------------------------------------------------
(* Properties.                                                             *)

Job == [op : Opcode, nexus : Initiator, target : Slot]

Label == {"idle", "sync", "attach", "run", "load", "release"}

\* The variables have their types.
TypeOK ==
  /\ desired \in [Drive -> Slot] /\ mounted \in [Drive -> Slot]
  /\ lease \in [Cartridge -> Holder \cup {None}]
  /\ pc \in [Drive -> Label] /\ job \in [Drive -> Job \cup {None}]
  /\ queue \in [Drive -> [Initiator -> Seq(Attention)]]
  /\ untold \in [Drive -> [Nexus -> {"no", "own", "other"}]]
  /\ wpc \in {"idle", "look", "check", "reclaim", "give_up"}
  /\ wcartridge \in Slot /\ unread \subseteq Drive

\* A queue of unit attentions never comes near the 16 entries at which
\* push_unit_attention drops the oldest.
QueuesShort == \A d \in Drive, n \in Initiator : Len(queue[d][n]) <= 2

\* A process has a cartridge's layout open: a drive that mounted it, or the
\* worker once it reclaims.
Opens(h, c) ==
  IF h = Worker THEN wpc = "reclaim" /\ wcartridge = c ELSE mounted[h] = c

\* A layout is open in one process at most, whatever the state files say, in
\* whatever order they are written and read, and whichever process dies: the
\* lease is taken before the layout is opened and given up after it is closed.
LayoutHasOneOwner ==
  \A c \in Cartridge, g, h \in Holder : Opens(g, c) /\ Opens(h, c) => g = h

\* A drive that answers a named initiator that it is ready has told it, by some
\* unit attention, of every change of its cartridge since: the queues are
\* per initiator, and mount and unmount forget those that were drained.
ReadyOnlyWhenTold ==
  [][\A d \in Drive :
       LET n == job[d].nexus
       IN  RunReport(d) /\ job[d].op = "tur" /\ mounted[d] # None
             /\ queue' = queue /\ n \in Nexus
           => untold[d][n] = "no"]_vars

\* No command runs on a cartridge that the initiator's own command put there, or
\* found there when it read the state file, before the initiator was told: the
\* media attention interrupts it.
WorkStopsForOwnChange ==
  [][\A d \in Drive :
       LET n == job[d].nexus
       IN  RunWork(d) /\ mounted[d] # None /\ n \in Nexus => untold[d][n] # "own"]_vars

\* The drive's state file names cartridge c, and no other drive's does.
WantedOnlyBy(d, c) == \A e \in Drive : (desired[e] = c) <=> (e = d)

\* A cartridge that a drive, and no other, is to hold is mounted there in the
\* end: the drive that still has it open lets go of it, by a command or by its
\* idle monitor, the worker finishes, and the waiting host's poll mounts it.
AssignedCartridgeMounts ==
  \A d \in Drive, c \in Cartridge :
    <>[]WantedOnlyBy(d, c) => []<>(mounted[d] = c)
=============================================================================
