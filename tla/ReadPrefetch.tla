---------------------------- MODULE ReadPrefetch ----------------------------
(***************************************************************************)
(* Prefetching of fixed blocks (scsi_tape/command_chain.rs, switched on by *)
(* HOLO_READ_PREFETCH).  After a READ of fixed blocks threads are started  *)
(* that read the blocks expected next, straight from the layout and        *)
(* without the lock on the drive's state.  A later READ takes a block from *)
(* such a thread if one was started for its position, and every command    *)
(* that changes the layout or moves the position first removes the jobs    *)
(* and joins their threads.                                                *)
(*                                                                         *)
(* Commands are handled one at a time, so a command is a sequence of steps *)
(* here and the threads' steps fall between them.  What a failed write     *)
(* leaves behind is in the ScsiTape and DataPath modules.                  *)
(***************************************************************************)
EXTENDS Integers, Sequences, FiniteSets, TLC

CONSTANTS
  None,
  Sizes,         \* the fixed block sizes that MODE SELECT sets
  DefaultBlock,  \* the size after a load
  Depth,         \* read_prefetch_depth
  InitialTape,   \* bound: the tape at first
  MaxChanges,    \* bound: changes of the tape
  MaxReads,      \* bound: READ commands
  MaxSteers,     \* bound: other commands
  MaxFaults      \* bound: reads that fail, panics, deaths of the process

ASSUME PrefetchAssumption ==
  /\ Sizes \subseteq Nat \ {0} /\ DefaultBlock \in Sizes
  /\ Depth \in Nat \ {0}
  /\ {MaxChanges, MaxReads, MaxSteers, MaxFaults} \subseteq Nat

VARIABLES
  tape,      \* the layout: blocks, filemarks, end of data
  mounted, position, size,   \* the drive; size is 0 in variable mode
  queue,     \* the jobs of the layout, in order
  stale,     \* jobs out of the queue that the command has to join
  taken,     \* the job whose result the command waits for
  pc, cmd,   \* the step of the command, and the command
  poisoned,  \* whether a panic left the lock on the jobs unusable
  degraded,  \* bypass_reads
  changes, reads, steers, faults

drive   == <<mounted, position, size>>
jobs    == <<queue, stale, taken>>
health  == <<poisoned, degraded>>
bounds  == <<changes, reads, steers, faults>>
vars    == <<tape, drive, jobs, pc, cmd, health, bounds>>

-----------------------------------------------------------------------------
(* The tape.                                                               *)

Least(S) == CHOOSE x \in S : \A y \in S : x <= y

\* read_logical_block: the block that covers p.
Covering(t, p) ==
  IF \E b \in t.blocks : b.start <= p /\ p < b.start + b.len
    THEN CHOOSE b \in t.blocks : b.start <= p /\ p < b.start + b.len
    ELSE None

\* position_after_filemark.
AfterMark(t, p) ==
  Least({q \in {b.start : b \in t.blocks} \cup t.marks \cup {t.end} : q > p} \cup
        (IF t.end > p THEN {} ELSE {t.end}))

\* truncate_tail_before_write and write_logical_block.
Written(t, p, len, id) ==
  [blocks |-> {b \in t.blocks : b.start + b.len <= p} \cup
                {[start |-> p, len |-> len, id |-> id]},
   marks  |-> {m \in t.marks : m < p},
   end    |-> p + len]

\* write_filemarks, which leaves what follows in place.
Marked(t, p, len) ==
  [t EXCEPT !.marks = @ \cup {p}, !.end = IF p + len > @ THEN p + len ELSE @]

Erased == [blocks |-> {}, marks |-> {}, end |-> 0]

-----------------------------------------------------------------------------
(* The jobs.                                                               *)

\* A thread finds the record of its position, then loads its blob.
Job(p) == [position |-> p, step |-> "find", block |-> None]

Done(job) == job.step \in {"done", "failed"}

AllDone(js) == \A i \in DOMAIN js : Done(js[i])

Positions(js) == {js[i].position : i \in DOMAIN js}

\* The positions schedule_read_prefetch wants: Depth of them before the end.
Wanted(p) ==
  {q \in {p + k * size : k \in 0..Depth - 1} : q < tape.end}

\* Mutant: the new jobs are not sorted in.
ScheduledUnsorted(wanted) ==
  SelectSeq(queue, LAMBDA j : j.position \in wanted)
    \o SortSeq([i \in 1..Cardinality(wanted \ Positions(queue)) |->
                  Job(CHOOSE p \in wanted \ Positions(queue) :
                        Cardinality({q \in wanted \ Positions(queue) : q < p}) = i - 1)],
               LAMBDA a, b : a.position < b.position)

\* The queue after schedule_read_prefetch: wanted jobs stay, missing ones are
\* started, and the whole is sorted.
Scheduled(wanted) ==
  LET kept == SelectSeq(queue, LAMBDA j : j.position \in wanted)
      new  == wanted \ Positions(queue)
      Nth(i) == CHOOSE p \in new : Cardinality({q \in new : q < p}) = i - 1
  IN  SortSeq(kept \o [i \in 1..Cardinality(new) |-> Job(Nth(i))],
              LAMBDA a, b : a.position < b.position)

Init ==
  /\ tape = InitialTape
  /\ mounted = FALSE /\ position = 0 /\ size = DefaultBlock
  /\ queue = << >> /\ stale = << >> /\ taken = None
  /\ pc = "idle" /\ cmd = None
  /\ poisoned = FALSE /\ degraded = FALSE
  /\ changes = 0 /\ reads = 0 /\ steers = 0 /\ faults = 0

Goto(label) == pc' = label

Ends == pc' = "idle" /\ cmd' = None

-----------------------------------------------------------------------------
(* The threads.                                                            *)

\* A thread's step: find the record, load the blob, or fail with an error.
Advanced(job) ==
  CASE job.step = "find" ->
         {[job EXCEPT !.step = IF Covering(tape, job.position) = None THEN "done" ELSE "load",
                      !.block = Covering(tape, job.position)]}
    [] job.step = "load" -> {[job EXCEPT !.step = "done"]}
    [] OTHER -> {}

Failing(job) == {[job EXCEPT !.step = "failed", !.block = None]}

\* The step of one thread, wherever its job is.
ThreadStep(Outcome(_)) ==
  \/ \E i \in DOMAIN queue : ~ Done(queue[i]) /\ \E j \in Outcome(queue[i]) :
       queue' = [queue EXCEPT ![i] = j] /\ UNCHANGED <<stale, taken>>
  \/ \E i \in DOMAIN stale : ~ Done(stale[i]) /\ \E j \in Outcome(stale[i]) :
       stale' = [stale EXCEPT ![i] = j] /\ UNCHANGED <<queue, taken>>
  \/ /\ taken # None /\ ~ Done(taken)
     /\ \E j \in Outcome(taken) : taken' = j /\ UNCHANGED <<queue, stale>>

Thread ==
  /\ ThreadStep(Advanced)
  /\ UNCHANGED <<tape, drive, pc, cmd, health, bounds>>

ThreadFails ==
  /\ faults < MaxFaults /\ faults' = faults + 1
  /\ ThreadStep(Failing)
  /\ UNCHANGED <<tape, drive, pc, cmd, health, changes, reads, steers>>

-----------------------------------------------------------------------------
(* READ of fixed blocks: read_fixed_blocks.                                *)

ReadFixed ==
  /\ pc = "idle" /\ mounted /\ size > 0 /\ reads < MaxReads
  /\ reads' = reads + 1
  /\ \E n \in 1..2 : cmd' = [op |-> "read", left |-> n]
  /\ Goto("take")
  /\ UNCHANGED <<tape, drive, jobs, health, changes, steers, faults>>

\* The next block: a filemark ends the command.
ReadMark ==
  /\ pc = "take" /\ position \in tape.marks
  /\ position' = AfterMark(tape, position)
  /\ Ends
  /\ UNCHANGED <<tape, mounted, size, jobs, health, bounds>>

\* Mutant: the first job of the queue is taken whatever its position is.
TakeFirst ==
  /\ pc = "take" /\ position \notin tape.marks
  /\ ~ degraded /\ ~ poisoned
  /\ IF queue # << >>
       THEN stale' = << >> /\ taken' = Head(queue) /\ queue' = Tail(queue)
       ELSE UNCHANGED jobs
  /\ Goto("join")
  /\ UNCHANGED <<tape, drive, cmd, health, bounds>>

\* take_read_prefetch: jobs of earlier positions go; the job of this position
\* is taken; if the next one is for a later position they all go.
Take ==
  /\ pc = "take" /\ position \notin tape.marks
  /\ ~ degraded /\ ~ poisoned
  /\ LET early == Cardinality({i \in DOMAIN queue :
                    \A k \in 1..i : queue[k].position < position})
         rest  == SubSeq(queue, early + 1, Len(queue))
     IN  IF rest # << >> /\ Head(rest).position = position
           THEN /\ stale' = SubSeq(queue, 1, early)
                /\ taken' = Head(rest)
                /\ queue' = Tail(rest)
           ELSE /\ stale' = queue
                /\ queue' = << >>
                /\ UNCHANGED taken
  /\ Goto("join")
  /\ UNCHANGED <<tape, drive, cmd, health, bounds>>

\* The lock cannot be taken: the jobs are bypassed once that is recorded, and
\* the command fails before.
TakePoisoned ==
  /\ pc = "take" /\ position \notin tape.marks /\ poisoned
  /\ IF degraded THEN Goto("direct") /\ UNCHANGED cmd ELSE Ends
  /\ UNCHANGED <<tape, drive, jobs, health, bounds>>

\* discard_read_prefetch_job: the threads of the jobs that go are joined.
Join ==
  /\ pc \in {"join", "settle", "joinall"} /\ AllDone(stale)
  /\ stale' = << >>
  /\ CASE pc = "join"    -> Goto(IF taken = None THEN "direct" ELSE "wait") /\ UNCHANGED cmd
       [] pc = "joinall" -> Goto("apply") /\ UNCHANGED cmd
       [] pc = "settle"  -> IF cmd.left = 0 THEN Ends ELSE Goto("take") /\ UNCHANGED cmd
  /\ UNCHANGED <<tape, drive, queue, taken, health, bounds>>

\* A block was read: one that starts elsewhere drops the jobs, one of another
\* size ends the command, else the next blocks are scheduled.
Deliver(b) ==
  IF b.start # position
    THEN cmd' = [op |-> "mismatch"] /\ Goto("invalidate") /\ UNCHANGED position
  ELSE IF b.len # size THEN Ends /\ UNCHANGED position
  ELSE /\ position' = position + b.len
       /\ cmd' = [cmd EXCEPT !.left = @ - 1]
       /\ Goto("schedule")

\* The result of the thread.
ReadPrefetched ==
  /\ pc = "wait" /\ Done(taken)
  /\ taken' = None
  /\ IF taken.step = "failed" THEN Ends /\ UNCHANGED position
     ELSE IF taken.block = None THEN Goto("direct") /\ UNCHANGED <<cmd, position>>
     ELSE Deliver(taken.block)
  /\ UNCHANGED <<tape, mounted, size, queue, stale, health, bounds>>

ReadDirect ==
  /\ pc = "direct"
  /\ IF Covering(tape, position) = None THEN Ends /\ UNCHANGED position
     ELSE Deliver(Covering(tape, position))
  /\ UNCHANGED <<tape, mounted, size, jobs, health, bounds>>

\* schedule_read_prefetch.
Schedule ==
  /\ pc = "schedule"
  /\ IF position >= tape.end \/ degraded \/ poisoned
       THEN UNCHANGED <<queue, stale>>
       ELSE /\ queue' = Scheduled(Wanted(position))
            /\ stale' = SelectSeq(queue, LAMBDA j : j.position \notin Wanted(position))
  /\ Goto("settle")
  /\ UNCHANGED <<tape, drive, taken, cmd, health, bounds>>

-----------------------------------------------------------------------------
(* The other commands.                                                     *)

\* read_data: READ of a variable block does not look at the jobs.
ReadVariable ==
  /\ pc = "idle" /\ mounted /\ size = 0 /\ reads < MaxReads
  /\ reads' = reads + 1
  /\ position' = IF position \in tape.marks THEN AfterMark(tape, position)
                 ELSE IF Covering(tape, position) = None THEN position
                 ELSE position + Covering(tape, position).len
  /\ UNCHANGED <<tape, mounted, size, jobs, pc, cmd, health, changes, steers, faults>>

\* MODE SELECT sets the block size; the jobs stay.
ModeSelect ==
  /\ pc = "idle" /\ mounted /\ steers < MaxSteers
  /\ steers' = steers + 1
  /\ \E s \in (Sizes \cup {0}) \ {size} : size' = s
  /\ UNCHANGED <<tape, mounted, position, jobs, pc, cmd, health, changes, reads, faults>>

\* attach_cartridge.
Load ==
  /\ pc = "idle" /\ ~ mounted
  /\ mounted' = TRUE /\ position' = 0 /\ size' = DefaultBlock
  /\ UNCHANGED <<tape, jobs, pc, cmd, health, bounds>>

\* WRITE, WRITE FILEMARKS, ERASE.
Change ==
  /\ pc = "idle" /\ mounted /\ changes < MaxChanges
  /\ changes' = changes + 1
  /\ \E op \in {"write", "mark", "erase"} : cmd' = [op |-> op]
  /\ Goto("invalidate")
  /\ UNCHANGED <<tape, drive, jobs, health, reads, steers, faults>>

\* LOCATE, SPACE and REWIND, and the ways to unload: with unload_media, or with
\* detach_cartridge alone.
Steer ==
  /\ pc = "idle" /\ mounted /\ steers < MaxSteers
  /\ steers' = steers + 1
  /\ \E op \in {"locate", "unload", "detach"} : cmd' = [op |-> op]
  /\ Goto("invalidate")
  /\ UNCHANGED <<tape, drive, jobs, health, changes, reads, faults>>

\* Mutant: the command tries again until it gets the lock.
InvalidateRetrying ==
  /\ pc = "invalidate" /\ ~ poisoned
  /\ stale' = queue /\ queue' = << >>
  /\ Goto("joinall")
  /\ UNCHANGED <<tape, drive, taken, cmd, health, bounds>>

\* Mutant: the threads are not joined.
InvalidateDetached ==
  /\ pc = "invalidate"
  /\ Goto("apply")
  /\ UNCHANGED <<tape, drive, jobs, cmd, health, bounds>>

\* invalidate_read_prefetch: the jobs go, or reads bypass them from now on.
Invalidate ==
  /\ pc = "invalidate"
  /\ IF poisoned
       THEN degraded' = TRUE /\ UNCHANGED <<queue, stale>>
       ELSE stale' = queue /\ queue' = << >> /\ UNCHANGED degraded
  /\ Goto("joinall")
  /\ UNCHANGED <<tape, drive, taken, cmd, poisoned, bounds>>

\* What the command does once the threads are joined.
Apply ==
  /\ pc = "apply"
  /\ LET step == IF size = 0 THEN 1 ELSE size
     IN  CASE cmd.op = "write" ->
                /\ tape' = Written(tape, position, step, changes)
                /\ position' = position + step
                /\ UNCHANGED <<mounted, size, degraded>>
           [] cmd.op = "mark" ->
                /\ tape' = Marked(tape, position, step)
                /\ position' = position + step
                /\ UNCHANGED <<mounted, size, degraded>>
           [] cmd.op = "erase" ->
                /\ tape' = Erased
                /\ position' = 0 /\ size' = DefaultBlock
                /\ UNCHANGED <<mounted, degraded>>
           [] cmd.op = "locate" ->
                /\ position' \in {b.start : b \in tape.blocks} \cup tape.marks \cup {0, tape.end}
                /\ UNCHANGED <<tape, mounted, size, degraded>>
           [] cmd.op \in {"unload", "detach"} ->
                /\ mounted' = FALSE /\ position' = 0
                /\ degraded' = (degraded /\ cmd.op = "detach")
                /\ UNCHANGED <<tape, size>>
           [] cmd.op = "mismatch" -> UNCHANGED <<tape, drive, degraded>>
  /\ Ends
  /\ UNCHANGED <<jobs, poisoned, bounds>>

-----------------------------------------------------------------------------
(* What happens around the process.                                        *)

\* While the tape is not mounted another process may write it.
WrittenElsewhere ==
  /\ ~ mounted /\ pc = "idle" /\ changes < MaxChanges
  /\ changes' = changes + 1
  /\ \E b \in tape.blocks : tape' = Written(tape, b.start, b.len, changes')
  /\ UNCHANGED <<drive, jobs, pc, cmd, health, reads, steers, faults>>

\* The lock on the jobs is one for all drives of the process: the command of
\* another drive panics while it holds it, as when no thread can be started.
Poison ==
  /\ ~ poisoned /\ pc \in {"idle", "invalidate", "take", "schedule"} /\ faults < MaxFaults
  /\ faults' = faults + 1
  /\ poisoned' = TRUE
  /\ UNCHANGED <<tape, drive, jobs, pc, cmd, degraded, changes, reads, steers>>

\* The process dies, its threads with it, and starts again.
Restart ==
  /\ faults < MaxFaults /\ faults' = faults + 1
  /\ mounted' = FALSE /\ position' = 0 /\ size' = DefaultBlock
  /\ queue' = << >> /\ stale' = << >> /\ taken' = None
  /\ poisoned' = FALSE /\ degraded' = FALSE
  /\ Ends
  /\ UNCHANGED <<tape, changes, reads, steers>>

-----------------------------------------------------------------------------
Step ==
  \/ ReadMark \/ Take \/ TakePoisoned \/ Join \/ ReadPrefetched \/ ReadDirect \/ Schedule
  \/ Invalidate \/ Apply

Next ==
  \/ Thread \/ ThreadFails
  \/ ReadFixed \/ ReadVariable \/ ModeSelect \/ Load \/ Change \/ Steer
  \/ Step
  \/ WrittenElsewhere \/ Poison \/ Restart

\* A command that has begun goes on, and a thread that was started runs.
Spec == Init /\ [][Next]_vars /\ WF_vars(Step) /\ WF_vars(Thread)

-----------------------------------------------------------------------------
(* Properties.                                                             *)

\* The threads that still read the layout.
Running(js) == \E i \in DOMAIN js : ~ Done(js[i])

\* The variables have their types; the jobs are in order, one for a position,
\* never more than Depth of them, as take_read_prefetch expects.
TypeOK ==
  /\ mounted \in BOOLEAN /\ position \in Nat /\ size \in Sizes \cup {0}
  /\ pc \in {"idle", "take", "join", "wait", "direct", "schedule", "settle",
             "invalidate", "joinall", "apply"}
  /\ Len(queue) <= Depth
  /\ \A i, k \in DOMAIN queue : i < k => queue[i].position < queue[k].position
  /\ stale # << >> => pc \in {"join", "settle", "joinall"}
  /\ taken # None => pc \in {"join", "wait"}

\* Whatever a READ can take from a thread, finished or about to load its blob,
\* is the block that a direct read would find now: no overwrite, filemark,
\* erase, change of the block size or of the cartridge leaves an older block
\* in reach of take_read_prefetch.
PrefetchedIsCurrent ==
  /\ \A i \in DOMAIN queue :
       ~ poisoned /\ queue[i].step \in {"load", "done"}
         => queue[i].block = Covering(tape, queue[i].position)
  /\ taken # None =>
       /\ taken.position = position
       /\ taken.step \in {"load", "done"} => taken.block = Covering(tape, position)

\* No thread reads the layout while it is changed, by a command of this drive
\* or by another process once the drive has given the cartridge up: the jobs
\* are joined before the layout changes hands.
NoReaderDuringChange ==
  [][tape' # tape /\ ~ poisoned => ~ Running(queue) /\ ~ Running(stale)]_vars

\* A command ends, however its threads are scheduled and also when the lock on
\* the jobs is lost: joining waits for threads that need nothing of the command.
CommandsEnd == pc # "idle" ~> pc = "idle"
=============================================================================
