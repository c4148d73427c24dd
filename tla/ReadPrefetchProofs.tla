------------------------- MODULE ReadPrefetchProofs -------------------------
(***************************************************************************)
(* For any tape, any depth and any number of commands: no thread reads the *)
(* layout while it changes.  The property is about single steps; what it   *)
(* needs of the states before them is Inv, that a command which reaches its *)
(* change, and a drive that gave its cartridge up, have no jobs left.      *)
(***************************************************************************)
EXTENDS ReadPrefetch, TLAPS

Inv ==
  /\ stale # << >> => pc \in {"join", "settle", "joinall"}
  /\ pc # "idle" => mounted
  /\ ~ poisoned /\ pc \in {"joinall", "apply"} => queue = << >>
  /\ ~ poisoned /\ ~ mounted => queue = << >>

\* The threads change jobs, and neither add nor remove one.
LEMMA ThreadsKeep ==
  ASSUME Inv, Thread \/ ThreadFails
  PROVE  Inv'
<1>1. UNCHANGED <<pc, mounted, poisoned>>
  BY DEF Thread, ThreadFails, drive, health
<1>2. queue = << >> => queue' = queue
  BY DEF Thread, ThreadFails, ThreadStep
<1>3. stale = << >> => stale' = stale
  BY DEF Thread, ThreadFails, ThreadStep
<1> QED  BY <1>1, <1>2, <1>3 DEF Inv

\* The steps of a READ: take_read_prefetch, read_logical_block,
\* schedule_read_prefetch.
LEMMA ReadKeeps ==
  ASSUME Inv, ReadMark \/ Take \/ TakePoisoned \/ Join \/ ReadPrefetched \/ ReadDirect \/ Schedule
  PROVE  Inv'
<1>1. UNCHANGED <<mounted, poisoned>>
  BY DEF ReadMark, Take, TakePoisoned, Join, ReadPrefetched, ReadDirect, Schedule, drive, health
<1>2. CASE ReadMark \/ TakePoisoned
  BY <1>1, <1>2 DEF Inv, ReadMark, TakePoisoned, Ends, Goto, jobs
<1>3. CASE Take
  <2>1. pc = "take" /\ pc' = "join"
    BY <1>3 DEF Take, Goto
  <2> QED  BY <1>1, <2>1 DEF Inv
<1>4. CASE Join
  <2>1. stale' = << >> /\ queue' = queue /\ pc \in {"join", "settle", "joinall"}
    BY <1>4 DEF Join
  <2>2. \/ pc \in {"join", "settle"} /\ pc' \in {"direct", "wait", "idle", "take"}
        \/ pc = "joinall" /\ pc' = "apply"
    BY <1>4 DEF Join, Goto, Ends
  <2> QED  BY <1>1, <2>1, <2>2 DEF Inv
<1>5. CASE ReadPrefetched \/ ReadDirect
  <2>1. /\ pc \in {"wait", "direct"} /\ pc' \in {"idle", "direct", "invalidate", "schedule"}
        /\ UNCHANGED <<queue, stale>>
    BY <1>5 DEF ReadPrefetched, ReadDirect, Deliver, Goto, Ends, jobs
  <2> QED  BY <1>1, <2>1 DEF Inv
<1>6. CASE Schedule
  <2>1. pc = "schedule" /\ pc' = "settle"
    BY <1>6 DEF Schedule, Goto
  <2> QED  BY <1>1, <2>1 DEF Inv
<1> QED  BY <1>2, <1>3, <1>4, <1>5, <1>6

\* A command begins.
LEMMA BeginKeeps ==
  ASSUME Inv, ReadFixed \/ ReadVariable \/ ModeSelect \/ Load \/ Change \/ Steer
  PROVE  Inv'
<1>1. pc = "idle" /\ pc' \in {"idle", "take", "invalidate"} /\ mounted'
  BY DEF ReadFixed, ReadVariable, ModeSelect, Load, Change, Steer, Goto, drive
<1>2. UNCHANGED <<queue, stale, poisoned>>
  BY DEF ReadFixed, ReadVariable, ModeSelect, Load, Change, Steer, jobs, health
<1> QED  BY <1>1, <1>2 DEF Inv

\* invalidate_read_prefetch empties the queue unless the lock is lost, and what
\* the command then does leaves it empty.
LEMMA InvalidateKeeps ==
  ASSUME Inv, Invalidate \/ Apply
  PROVE  Inv'
<1>1. CASE Invalidate
  <2>1. pc = "invalidate" /\ pc' = "joinall" /\ UNCHANGED <<mounted, poisoned>>
    BY <1>1 DEF Invalidate, Goto, drive
  <2>2. ~ poisoned => queue' = << >>
    BY <1>1 DEF Invalidate
  <2> QED  BY <2>1, <2>2 DEF Inv
<1>2. CASE Apply
  BY <1>2 DEF Apply, Ends, Inv, jobs
<1> QED  BY <1>1, <1>2

\* What happens around the process.
LEMMA AroundKeeps ==
  ASSUME Inv, WrittenElsewhere \/ Poison \/ Restart
  PROVE  Inv'
  BY DEF Inv, WrittenElsewhere, Poison, Restart, Ends, drive, jobs, health

\* Every step keeps the invariant.
LEMMA NextInv == Inv /\ [Next]_vars => Inv'
<1> SUFFICES ASSUME Inv, [Next]_vars PROVE Inv'
  OBVIOUS
<1>1. CASE UNCHANGED vars
  BY <1>1 DEF Inv, vars, drive, jobs, health
<1> QED
  BY <1>1, ThreadsKeep, ReadKeeps, BeginKeeps, InvalidateKeeps, AroundKeeps DEF Next, Step

\* NoReaderDuringChange, for any tape, depth and number of commands: when a
\* command of this drive changes the layout, or another process does after the
\* cartridge was given up, invalidate_read_prefetch has joined every thread.
THEOREM NoReader == Spec => NoReaderDuringChange
<1> DEFINE Still == tape' # tape /\ ~ poisoned => ~ Running(queue) /\ ~ Running(stale)
<1>1. Init => Inv
  BY DEF Init, Inv
<1>2. Inv /\ [Next]_vars => [Still]_vars
  <2> SUFFICES ASSUME Inv, Next, tape' # tape, ~ poisoned
               PROVE  ~ Running(queue) /\ ~ Running(stale)
    OBVIOUS
  <2>1. Apply \/ WrittenElsewhere
    BY DEF Next, Thread, ThreadFails, ReadFixed, ReadVariable, ModeSelect, Load, Change, Steer,
           Step, ReadMark, Take, TakePoisoned, Join, ReadPrefetched, ReadDirect, Schedule,
           Invalidate, Poison, Restart
  <2>2. queue = << >> /\ stale = << >>
    BY <2>1 DEF Inv, Apply, WrittenElsewhere
  <2> QED  BY <2>2 DEF Running
<1>3. Spec => []Inv
  BY <1>1, NextInv, PTL DEF Spec
<1>4. Spec => [][Still]_vars
  BY <1>2, <1>3, PTL DEF Spec
<1> QED  BY <1>4 DEF NoReaderDuringChange
=============================================================================
