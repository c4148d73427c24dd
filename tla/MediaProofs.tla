---------------------------- MODULE MediaProofs -----------------------------
(***************************************************************************)
(* For any number of drives, initiators and cartridges: a layout is open   *)
(* in one process at most, and what the initiators are told of a change.   *)
(*                                                                         *)
(* LayoutHasOneOwner is not inductive: it follows from Leased, which says  *)
(* that who has a layout open, or is about to reclaim it, holds its lease. *)
(* The two properties of the unit attentions follow from Announced, which  *)
(* relates what an initiator was not told to the head of its queue.        *)
(***************************************************************************)
EXTENDS Media, SequenceTheorems, TLAPS

\* A command that has begun is known, one that attaches has a cartridge to
\* attach, and the monitor and the worker have one too.
Aimed ==
  /\ \A d \in Drive :
       /\ pc[d] \notin {"idle", "release"} => job[d] \in Job
       /\ pc[d] \in {"attach", "load"} => job[d].target \in Cartridge /\ mounted[d] = None
       /\ pc[d] = "release" => mounted[d] \in Cartridge
  /\ wpc # "idle" => wcartridge \in Cartridge

\* Who has a layout open, or has begun the last look before, holds its lease.
Leased ==
  /\ \A d \in Drive : mounted[d] # None => lease[mounted[d]] = d
  /\ wpc \in {"check", "reclaim"} => lease[wcartridge] = Worker

\* While a cartridge is mounted, an initiator that was not told of it has an
\* attention waiting, and a media attention first if its own command made the
\* change.
Announced ==
  \A d \in Drive, n \in Nexus :
    mounted[d] # None /\ untold[d][n] # "no" =>
      /\ queue[d][n] # << >>
      /\ untold[d][n] = "own" => queue[d][n][1] = "media"

Inv == TypeOK /\ Aimed /\ Leased /\ Announced

-----------------------------------------------------------------------------
(* What the steps of a drive do to the variables the invariant reads.      *)

\* Clearing the queues and pushing an attention leaves queues of attentions.
LEMMA QueuesTyped ==
  ASSUME TypeOK, NEW d \in Drive, NEW n \in Initiator
  PROVE  /\ Cleared(d, n) \in [Initiator -> Seq(Attention)]
         /\ Cleared(d, n)[n] = << >>
         /\ \A m \in Nexus \ {n} : Cleared(d, n)[m] = <<"reset">>
<1>1. <<"reset">> \in Seq(Attention) /\ << >> \in Seq(Attention)
  BY DEF Attention
<1>2. Anon \in Initiator /\ Nexus \subseteq Initiator /\ Anon \notin Nexus
  BY MediaAssumption DEF Initiator
<1>3. queue[d][Anon] \in Seq(Attention)
  BY <1>2 DEF TypeOK
<1> QED
  BY <1>1, <1>2, <1>3 DEF Cleared

\* A pushed attention is in the queue, first if the queue was empty.
LEMMA PushTyped ==
  ASSUME NEW q \in [Initiator -> Seq(Attention)], NEW n \in Initiator
  PROVE  /\ Pushed(q, n, "media") \in [Initiator -> Seq(Attention)]
         /\ Pushed(q, n, "media")[n] # << >>
         /\ q[n] = << >> => Pushed(q, n, "media")[n] = <<"media">>
         /\ \A m \in Initiator \ {n} : Pushed(q, n, "media")[m] = q[m]
<1>1. "media" \in Attention /\ q[n] \in Seq(Attention)
  BY DEF Attention
<1>2. Append(q[n], "media") \in Seq(Attention) /\ Append(q[n], "media") # << >>
  BY <1>1
<1>3. q[n] = << >> => Append(q[n], "media") = <<"media">>
  BY <1>1
<1>4. Pushed(q, n, "media") = [q EXCEPT ![n] = Append(q[n], "media")]
  BY DEF Pushed
<1> QED
  BY <1>2, <1>3, <1>4

\* The parts of the invariant that say nothing of a command.
Kept ==
  /\ mounted \in [Drive -> Slot] /\ lease \in [Cartridge -> Holder \cup {None}]
  /\ queue \in [Drive -> [Initiator -> Seq(Attention)]]
  /\ untold \in [Drive -> [Nexus -> {"no", "own", "other"}]]
  /\ Leased /\ Announced

\* detach_cartridge gives up one lease, the one of the cartridge it unmounts.
LEMMA DetachKeeps ==
  ASSUME Inv, NEW d \in Drive, NEW n \in Initiator, mounted[d] \in Cartridge,
         NEW q \in [Initiator -> Seq(Attention)], Detach(d, n, q), UNCHANGED worker
  PROVE  Kept' /\ mounted'[d] = None /\ \A e \in Drive \ {d} : mounted'[e] = mounted[e]
<1> USE MediaAssumption DEF Inv
<1>1. /\ mounted' = [mounted EXCEPT ![d] = None]
      /\ lease' = [lease EXCEPT ![mounted[d]] = None]
      /\ queue' = [queue EXCEPT ![d] = q]
      /\ untold' = [untold EXCEPT ![d] = [m \in Nexus |-> IF m = n THEN "own" ELSE "other"]]
  BY DEF Detach, Changed
<1>2. /\ mounted'[d] = None /\ \A e \in Drive \ {d} : mounted'[e] = mounted[e]
      /\ mounted' \in [Drive -> Slot]
  BY <1>1 DEF TypeOK, Slot
<1>3. lease' \in [Cartridge -> Holder \cup {None}]
  BY <1>1 DEF TypeOK
<1>4. /\ queue' \in [Drive -> [Initiator -> Seq(Attention)]]
      /\ untold' \in [Drive -> [Nexus -> {"no", "own", "other"}]]
  BY <1>1 DEF TypeOK
<1>5. Leased'
  <2>1. lease[mounted[d]] = d /\ d # Worker
    BY DEF Leased
  <2>2. ASSUME NEW e \in Drive, mounted'[e] # None
        PROVE  lease'[mounted'[e]] = e
    <3>1. e # d /\ mounted'[e] = mounted[e] /\ lease[mounted[e]] = e
      BY <1>2, <2>2 DEF Leased
    <3>2. mounted[e] \in Cartridge /\ mounted[e] # mounted[d]
      BY <3>1, <2>1, <2>2 DEF TypeOK, Slot
    <3> QED  BY <1>1, <3>1, <3>2 DEF TypeOK
  <2>3. ASSUME wpc' \in {"check", "reclaim"}
        PROVE  lease'[wcartridge'] = Worker
    <3>1. wcartridge' = wcartridge /\ wcartridge \in Cartridge /\ lease[wcartridge] = Worker
      BY <2>3 DEF worker, Leased, Aimed
    <3> QED  BY <1>1, <2>1, <3>1 DEF TypeOK
  <2> QED  BY <2>2, <2>3 DEF Leased
<1>6. Announced'
  BY <1>1, <1>2 DEF Announced, TypeOK
<1> QED  BY <1>2, <1>3, <1>4, <1>5, <1>6 DEF Kept

\* attach_cartridge takes a lease that nobody holds, and announces the change to
\* every initiator.
LEMMA AttachKeeps ==
  ASSUME Inv, NEW d \in Drive, NEW n \in Initiator, mounted[d] = None,
         NEW c \in Cartridge, NEW q \in [Initiator -> Seq(Attention)],
         Attach(d, n, c, q), UNCHANGED worker,
         \A m \in Nexus : q[m] # << >> /\ (m = n => q[m][1] = "media")
  PROVE  Kept' /\ mounted'[d] = c /\ \A e \in Drive \ {d} : mounted'[e] = mounted[e]
<1> USE MediaAssumption DEF Inv
<1>1. /\ lease[c] = None
      /\ mounted' = [mounted EXCEPT ![d] = c]
      /\ lease' = [lease EXCEPT ![c] = d]
      /\ queue' = [queue EXCEPT ![d] = q]
      /\ untold' = [untold EXCEPT ![d] = [m \in Nexus |-> IF m = n THEN "own" ELSE "other"]]
  BY DEF Attach, Changed
<1>2. /\ mounted'[d] = c /\ \A e \in Drive \ {d} : mounted'[e] = mounted[e]
      /\ mounted' \in [Drive -> Slot]
  BY <1>1 DEF TypeOK, Slot
<1>3. lease' \in [Cartridge -> Holder \cup {None}]
  BY <1>1 DEF TypeOK, Holder
<1>4. /\ queue' \in [Drive -> [Initiator -> Seq(Attention)]]
      /\ untold' \in [Drive -> [Nexus -> {"no", "own", "other"}]]
  BY <1>1 DEF TypeOK
<1>5. Leased'
  <2>1. ASSUME NEW e \in Drive, mounted'[e] # None
        PROVE  lease'[mounted'[e]] = e
    <3>1. CASE e = d
      BY <1>1, <1>2, <3>1 DEF TypeOK
    <3>2. CASE e # d
      <4>1. mounted'[e] = mounted[e] /\ lease[mounted[e]] = e /\ mounted[e] \in Cartridge
        BY <1>2, <2>1, <3>2 DEF Leased, TypeOK, Slot
      <4>2. mounted[e] # c
        BY <1>1, <4>1
      <4> QED  BY <1>1, <4>1, <4>2 DEF TypeOK
    <3> QED  BY <3>1, <3>2
  <2>2. ASSUME wpc' \in {"check", "reclaim"}
        PROVE  lease'[wcartridge'] = Worker
    <3>1. wcartridge' = wcartridge /\ wcartridge \in Cartridge /\ lease[wcartridge] = Worker
      BY <2>2 DEF worker, Leased, Aimed
    <3>2. CASE wcartridge = c
      <4>1. Worker = None
        BY <1>1, <3>1, <3>2
      <4> QED  BY <4>1
    <3>3. CASE wcartridge # c
      BY <1>1, <3>1, <3>3 DEF TypeOK
    <3> QED  BY <3>2, <3>3
  <2> QED  BY <2>1, <2>2 DEF Leased
<1>6. Announced'
  <2>1. \A m \in Nexus : queue'[d][m] = q[m] /\ (untold'[d][m] = "own" => m = n)
    BY <1>1 DEF TypeOK
  <2>2. \A e \in Drive \ {d} : queue'[e] = queue[e] /\ untold'[e] = untold[e]
    BY <1>1 DEF TypeOK
  <2> QED  BY <1>2, <2>1, <2>2 DEF Announced
<1> QED  BY <1>2, <1>3, <1>4, <1>5, <1>6 DEF Kept

\* A step that changes neither what is mounted nor the queues keeps the rest.
LEMMA QuietKeeps ==
  ASSUME Inv, Media, Told, UNCHANGED worker
  PROVE  Kept' /\ mounted' = mounted
<1> QED
  BY DEF Inv, TypeOK, Leased, Announced, Kept, Media, Told, worker

\* A reply takes one attention from the queue of the initiator it tells.
LEMMA ReportKeeps ==
  ASSUME Inv, NEW d \in Drive, job[d] \in Job, NEW i \in DOMAIN queue[d][job[d].nexus],
         Report(d, i), Media, UNCHANGED worker
  PROVE  Kept' /\ mounted' = mounted
<1> DEFINE n == job[d].nexus
           q == queue[d][n]
           r == SubSeq(q, 1, i - 1) \o SubSeq(q, i + 1, Len(q))
<1>1. n \in Initiator /\ q \in Seq(Attention) /\ i \in 1..Len(q)
  BY DEF Inv, TypeOK, Job
<1>2. r \in Seq(Attention)
  <2>1. SubSeq(q, 1, i - 1) \in Seq(Attention) /\ SubSeq(q, i + 1, Len(q)) \in Seq(Attention)
    BY <1>1, SubSeqProperties
  <2> QED  BY <2>1
<1>3. queue' = [queue EXCEPT ![d][n] = r]
  BY DEF Report
<1>4. untold' = [untold EXCEPT ![d] = [m \in Nexus |-> IF m = n THEN "no" ELSE @[m]]]
  BY DEF Report
<1> HIDE DEF n, q, r
<1>5. queue' \in [Drive -> [Initiator -> Seq(Attention)]]
  BY <1>1, <1>2, <1>3 DEF Inv, TypeOK
<1>6. untold' \in [Drive -> [Nexus -> {"no", "own", "other"}]]
  BY <1>4 DEF Inv, TypeOK
<1>7. Announced'
  <2> SUFFICES ASSUME NEW e \in Drive, NEW m \in Nexus,
                      mounted'[e] # None, untold'[e][m] # "no"
               PROVE  queue'[e][m] # << >> /\ (untold'[e][m] = "own" => queue'[e][m][1] = "media")
    BY DEF Announced
  <2>1. mounted'[e] = mounted[e]
    BY DEF Media
  <2>2. untold'[e][m] = untold[e][m] /\ ~ (e = d /\ m = n)
    BY <1>4 DEF Inv, TypeOK
  <2>3. queue'[e][m] = queue[e][m]
    BY <1>1, <1>3, <2>2 DEF Inv, TypeOK, Initiator
  <2> QED  BY <2>1, <2>2, <2>3 DEF Inv, Announced
<1>8. Leased' /\ mounted' = mounted /\ lease' = lease
  BY DEF Inv, Leased, Media, worker
<1> QED  BY <1>5, <1>6, <1>7, <1>8 DEF Kept, Inv, TypeOK

\* The command ends, or goes on to a label where it needs nothing new.
LEMMA CommandGoesOn ==
  ASSUME Inv, NEW d \in Drive, Kept', UNCHANGED <<desired, worker>>,
         \A e \in Drive \ {d} : mounted'[e] = mounted[e],
         \/ Ends(d)
         \/ Goto(d, "run") /\ job[d] \in Job
         \/ Goto(d, "attach") /\ job[d] \in Job /\ job[d].target \in Cartridge /\ mounted'[d] = None
  PROVE  Inv'
<1>1. TypeOK'
  BY DEF Inv, TypeOK, Kept, Ends, Goto, worker, Label
<1>2. Aimed'
  <2>1. wpc' # "idle" => wcartridge' \in Cartridge
    BY DEF Inv, Aimed, worker
  <2>2. \A e \in Drive \ {d} : pc'[e] = pc[e] /\ job'[e] = job[e]
    BY DEF Inv, TypeOK, Ends, Goto
  <2>3. \/ pc'[d] = "idle"
        \/ pc'[d] = "run" /\ job'[d] \in Job
        \/ pc'[d] = "attach" /\ job'[d] \in Job /\ job'[d].target \in Cartridge /\ mounted'[d] = None
    BY DEF Inv, TypeOK, Ends, Goto
  <2> QED  BY <2>1, <2>2, <2>3 DEF Inv, Aimed
<1> QED  BY <1>1, <1>2 DEF Inv, Kept

-----------------------------------------------------------------------------
(* The steps.                                                              *)

\* The queues after a change of the cartridge: the one the command is served
\* with starts with a media attention, the others with the power-on one.
Announcing(q, n) ==
  /\ q \in [Initiator -> Seq(Attention)]
  /\ \A m \in Nexus : q[m] # << >> /\ (m = n => q[m][1] = "media")

\* The queues that sync_drive_mount_from_shared leaves.
LEMMA SyncAnnounces ==
  ASSUME Inv, NEW d \in Drive, NEW n \in Initiator
  PROVE  Announcing(Pushed(Cleared(d, n), n, "media"), n)
<1> DEFINE q == Pushed(Cleared(d, n), n, "media")
<1>1. /\ Cleared(d, n) \in [Initiator -> Seq(Attention)]
      /\ Cleared(d, n)[n] = << >>
      /\ \A m \in Nexus \ {n} : Cleared(d, n)[m] = <<"reset">>
  BY QueuesTyped DEF Inv
<1>2. /\ q \in [Initiator -> Seq(Attention)] /\ q[n] = <<"media">>
      /\ \A m \in Initiator \ {n} : q[m] = Cleared(d, n)[m]
  BY <1>1, PushTyped
<1> HIDE DEF q
<1>3. \A m \in Nexus \ {n} : q[m] = <<"reset">>
  BY <1>1, <1>2 DEF Initiator
<1>4. <<"media">> # << >> /\ <<"media">>[1] = "media" /\ <<"reset">> # << >>
  OBVIOUS
<1>5. Announcing(q, n)
  BY <1>2, <1>3, <1>4 DEF Announcing
<1> QED  BY <1>5 DEF q

\* The queues that LOAD leaves, with a second media attention.
LEMMA LoadAnnounces ==
  ASSUME Inv, NEW d \in Drive, NEW n \in Initiator
  PROVE  Announcing(Pushed(Pushed(Cleared(d, n), n, "media"), n, "media"), n)
<1> DEFINE p == Pushed(Cleared(d, n), n, "media")
           q == Pushed(p, n, "media")
<1>1. Announcing(p, n)
  BY SyncAnnounces
<1>2. q = [p EXCEPT ![n] = Append(p[n], "media")]
  BY DEF Pushed
<1> HIDE DEF p
<1>3. q \in [Initiator -> Seq(Attention)] /\ q[n] # << >>
      /\ \A m \in Initiator \ {n} : q[m] = p[m]
  BY <1>1, PushTyped DEF Announcing
<1> HIDE DEF q
<1>4. ASSUME n \in Nexus PROVE q[n][1] = "media"
  <2>1. p[n] \in Seq(Attention) /\ p[n] # << >> /\ p[n][1] = "media"
    BY <1>1, <1>4 DEF Announcing
  <2>2. q[n] = Append(p[n], "media")
    BY <1>1, <1>2 DEF Announcing
  <2> QED  BY <2>1, <2>2
<1>5. Announcing(q, n)
  BY <1>1, <1>3, <1>4 DEF Announcing, Initiator
<1> QED  BY <1>5 DEF p, q

\* A command arrives: the drive's own state is as before.
LEMMA CommandKeeps ==
  ASSUME Inv, NEW d \in Drive, NEW n \in Initiator, NEW op \in Opcode, Command(d, n, op)
  PROVE  Inv'
<1>1. Kept' /\ mounted' = mounted
  BY QuietKeeps DEF Command
<1>2. [op |-> op, nexus |-> n, target |-> desired[d]] \in Job
  BY DEF Inv, TypeOK, Job
<1>3. TypeOK'
  BY <1>1, <1>2 DEF Inv, TypeOK, Kept, Command, Label, worker
<1>4. Aimed'
  <2>1. job'[d] \in Job /\ pc'[d] \in {"sync", "run"}
    BY <1>2 DEF Inv, TypeOK, Command
  <2>2. \A e \in Drive \ {d} : pc'[e] = pc[e] /\ job'[e] = job[e]
    BY DEF Inv, TypeOK, Command
  <2>3. wpc' = wpc /\ wcartridge' = wcartridge
    BY DEF Command, worker
  <2> QED  BY <1>1, <2>1, <2>2, <2>3 DEF Inv, Aimed
<1> QED  BY <1>1, <1>3, <1>4 DEF Inv, Kept

\* sync_drive_mount_from_shared, up to the attach.
LEMMA SyncKeeps ==
  ASSUME Inv, NEW d \in Drive, Sync(d)
  PROVE  Inv'
<1> DEFINE n == job[d].nexus
           c == job[d].target
<1>1. job[d] \in Job /\ n \in Initiator /\ c \in Slot /\ mounted[d] \in Slot
  BY DEF Inv, TypeOK, Aimed, Sync, Job
<1>2. UNCHANGED <<desired, worker>>
  BY DEF Sync
<1>3. CASE mounted[d] = c /\ Goto(d, "run") /\ Media /\ Told
  BY <1>1, <1>2, <1>3, QuietKeeps, CommandGoesOn
<1>4. CASE mounted[d] = None /\ c # None /\ Goto(d, "attach") /\ Media /\ Told
  <2>1. c \in Cartridge
    BY <1>1, <1>4 DEF Slot
  <2> QED  BY <1>1, <1>2, <1>4, <2>1, QuietKeeps, CommandGoesOn
<1>5. CASE /\ mounted[d] # None /\ c \notin {mounted[d], None}
           /\ Detach(d, n, Cleared(d, n)) /\ Goto(d, "attach")
  <2>1. c \in Cartridge /\ mounted[d] \in Cartridge
    BY <1>1, <1>5 DEF Slot
  <2>2. Cleared(d, n) \in [Initiator -> Seq(Attention)]
    BY <1>1, QueuesTyped DEF Inv
  <2>3. Kept' /\ mounted'[d] = None /\ \A e \in Drive \ {d} : mounted'[e] = mounted[e]
    BY <1>1, <1>2, <1>5, <2>1, <2>2, DetachKeeps
  <2> QED  BY <1>1, <1>2, <1>5, <2>1, <2>3, CommandGoesOn
<1>6. CASE /\ mounted[d] # None
           /\ Detach(d, n, Pushed(Cleared(d, n), n, "media")) /\ Goto(d, "run")
  <2>1. mounted[d] \in Cartridge
    BY <1>1, <1>6 DEF Slot
  <2>2. Pushed(Cleared(d, n), n, "media") \in [Initiator -> Seq(Attention)]
    BY <1>1, SyncAnnounces DEF Announcing
  <2>3. Kept' /\ \A e \in Drive \ {d} : mounted'[e] = mounted[e]
    BY <1>1, <1>2, <1>6, <2>1, <2>2, DetachKeeps
  <2> QED  BY <1>1, <1>2, <1>6, <2>3, CommandGoesOn
<1>7. CASE Ends(d) /\ Media /\ Told
  BY <1>2, <1>7, QuietKeeps, CommandGoesOn
<1> QED  BY <1>3, <1>4, <1>5, <1>6, <1>7 DEF Sync

\* The attach of sync_drive_mount_from_shared and that of LOAD.
LEMMA AttachStepsKeep ==
  ASSUME Inv, NEW d \in Drive, SyncAttach(d) \/ LoadAttach(d)
  PROVE  Inv'
<1> DEFINE n == job[d].nexus
           c == job[d].target
<1>1. job[d] \in Job /\ n \in Initiator /\ c \in Cartridge /\ mounted[d] = None
  BY DEF Inv, Aimed, SyncAttach, LoadAttach, Job
<1>2. UNCHANGED <<desired, worker>>
  BY DEF SyncAttach, LoadAttach
<1>3. CASE Attach(d, n, c, Pushed(Cleared(d, n), n, "media")) /\ Goto(d, "run")
  <2>1. Announcing(Pushed(Cleared(d, n), n, "media"), n)
    BY <1>1, SyncAnnounces
  <2>2. Kept' /\ \A e \in Drive \ {d} : mounted'[e] = mounted[e]
    BY <1>1, <1>2, <1>3, <2>1, AttachKeeps DEF Announcing
  <2> QED  BY <1>1, <1>2, <1>3, <2>2, CommandGoesOn
<1>4. CASE Attach(d, n, c, Pushed(Pushed(Cleared(d, n), n, "media"), n, "media")) /\ Ends(d)
  <2>1. Announcing(Pushed(Pushed(Cleared(d, n), n, "media"), n, "media"), n)
    BY <1>1, LoadAnnounces
  <2>2. Kept' /\ \A e \in Drive \ {d} : mounted'[e] = mounted[e]
    BY <1>1, <1>2, <1>4, <2>1, AttachKeeps DEF Announcing
  <2> QED  BY <1>2, <1>4, <2>2, CommandGoesOn
<1>5. CASE Ends(d) /\ Media /\ Told
  BY <1>2, <1>5, QuietKeeps, CommandGoesOn
<1> QED  BY <1>3, <1>4, <1>5 DEF SyncAttach, LoadAttach

\* TEST UNIT READY, REQUEST SENSE, INQUIRY and the commands on the tape.
LEMMA RunKeeps ==
  ASSUME Inv, NEW d \in Drive,
         RunReport(d) \/ RunInterrupted(d) \/ RunInquiry(d) \/ RunWork(d)
  PROVE  Inv'
<1>1. job[d] \in Job /\ queue[d][job[d].nexus] \in Seq(Attention)
  <2>1. pc[d] = "run"
    BY DEF RunReport, RunInterrupted, RunInquiry, RunWork, Uninterrupted
  <2>2. job[d] \in Job
    BY <2>1 DEF Inv, Aimed
  <2> QED  BY <2>2 DEF Inv, TypeOK, Job
<1>2. UNCHANGED <<desired, worker>> /\ Media
  BY DEF RunReport, RunInterrupted, RunInquiry, RunWork
<1>3. CASE \E i \in DOMAIN queue[d][job[d].nexus] : Report(d, i)
  <2>1. PICK i \in DOMAIN queue[d][job[d].nexus] : Report(d, i)
    BY <1>3
  <2>2. Kept' /\ mounted' = mounted
    BY <1>1, <1>2, <2>1, ReportKeeps
  <2>3. Ends(d)
    BY <2>1 DEF Report
  <2> QED  BY <1>2, <2>2, <2>3, CommandGoesOn
<1>4. CASE Ends(d) /\ Told
  BY <1>2, <1>4, QuietKeeps, CommandGoesOn
<1>5. CASE RunReport(d)
  <2>1. queue[d][job[d].nexus] # << >> => 1 \in DOMAIN queue[d][job[d].nexus]
    BY <1>1
  <2> QED  BY <1>3, <1>4, <1>5, <2>1 DEF RunReport
<1>6. CASE RunInterrupted(d)
  BY <1>3, <1>6 DEF RunInterrupted, Pending
<1> QED  BY <1>4, <1>5, <1>6 DEF RunInquiry, RunWork

\* LOAD reads the state file again; UNLOAD detaches.
LEMMA LoadUnloadKeeps ==
  ASSUME Inv, NEW d \in Drive, RunLoad(d) \/ RunUnload(d)
  PROVE  Inv'
<1> DEFINE n == job[d].nexus
<1>1. job[d] \in Job /\ n \in Initiator /\ mounted[d] \in Slot
  <2>1. pc[d] = "run"
    BY DEF RunLoad, RunUnload, Uninterrupted
  <2>2. job[d] \in Job
    BY <2>1 DEF Inv, Aimed
  <2> QED  BY <2>2 DEF Inv, TypeOK, Job
<1>2. UNCHANGED <<desired, worker>>
  BY DEF RunLoad, RunUnload
<1>3. CASE Ends(d) /\ Media /\ Told
  BY <1>2, <1>3, QuietKeeps, CommandGoesOn
<1>4. CASE /\ mounted[d] = None /\ desired[d] # None
           /\ job' = [job EXCEPT ![d].target = desired[d]]
           /\ pc' = [pc EXCEPT ![d] = "load"]
           /\ Media /\ Told
  <2>1. Kept' /\ mounted' = mounted
    BY <1>2, <1>4, QuietKeeps
  <2>2. desired[d] \in Cartridge
    BY <1>4 DEF Inv, TypeOK, Slot
  <2>3. /\ job' \in [Drive -> Job \cup {None}] /\ job'[d] \in Job
        /\ job'[d].target \in Cartridge
        /\ \A e \in Drive \ {d} : job'[e] = job[e]
    BY <1>1, <1>4, <2>2 DEF Inv, TypeOK, Job, Slot
  <2>4. TypeOK'
    BY <1>2, <1>4, <2>1, <2>3 DEF Inv, TypeOK, Kept, Label, worker
  <2>5. pc'[d] = "load" /\ \A e \in Drive \ {d} : pc'[e] = pc[e]
    BY <1>4 DEF Inv, TypeOK
  <2>6. wpc' = wpc /\ wcartridge' = wcartridge
    BY <1>2 DEF worker
  <2>7. Aimed'
    BY <1>4, <2>1, <2>3, <2>5, <2>6 DEF Inv, Aimed
  <2> QED  BY <2>1, <2>4, <2>7 DEF Inv, Kept
<1>5. CASE mounted[d] # None /\ Detach(d, n, Pushed(Cleared(d, n), n, "media")) /\ Ends(d)
  <2>1. mounted[d] \in Cartridge
    BY <1>1, <1>5 DEF Slot
  <2>2. Pushed(Cleared(d, n), n, "media") \in [Initiator -> Seq(Attention)]
    BY <1>1, SyncAnnounces DEF Announcing
  <2>3. Kept' /\ \A e \in Drive \ {d} : mounted'[e] = mounted[e]
    BY <1>1, <1>2, <1>5, <2>1, <2>2, DetachKeeps
  <2> QED  BY <1>2, <1>5, <2>3, CommandGoesOn
<1> QED  BY <1>3, <1>4, <1>5 DEF RunLoad, RunUnload

\* The idle monitor looks, holding the lock on the drive's state, and detaches.
LEMMA MonitorKeeps ==
  ASSUME Inv, NEW d \in Drive, IdleCheck(d) \/ IdleDetach(d)
  PROVE  Inv'
<1>1. UNCHANGED <<desired, worker, job>>
  BY DEF IdleCheck, IdleDetach
<1>2. CASE IdleCheck(d)
  <2>1. Kept' /\ mounted' = mounted
    BY <1>1, <1>2, QuietKeeps DEF IdleCheck
  <2>2. TypeOK'
    BY <1>1, <1>2, <2>1 DEF Inv, TypeOK, Kept, Label, IdleCheck, worker
  <2>3. mounted[d] \in Cartridge
    BY <1>2 DEF IdleCheck, Inv, TypeOK, Slot
  <2>4. pc'[d] = "release" /\ \A e \in Drive \ {d} : pc'[e] = pc[e]
    BY <1>2 DEF IdleCheck, Inv, TypeOK
  <2>5. Aimed'
    BY <1>1, <2>1, <2>3, <2>4 DEF Inv, Aimed, worker
  <2> QED  BY <2>1, <2>2, <2>5 DEF Inv, Kept
<1>3. CASE IdleDetach(d)
  <2>1. mounted[d] \in Cartridge /\ Anon \in Initiator
    BY <1>3 DEF IdleDetach, Inv, Aimed, Initiator
  <2>2. Pushed(Cleared(d, Anon), Anon, "media") \in [Initiator -> Seq(Attention)]
    BY <2>1, SyncAnnounces DEF Announcing
  <2>3. Kept' /\ \A e \in Drive \ {d} : mounted'[e] = mounted[e]
    <3>1. CASE Detach(d, Anon, Pushed(Cleared(d, Anon), Anon, "media"))
      BY <1>1, <2>1, <2>2, <3>1, DetachKeeps
    <3>2. CASE Media /\ Told
      BY <1>1, <3>2, QuietKeeps
    <3> QED  BY <1>3, <3>1, <3>2 DEF IdleDetach
  <2>4. TypeOK'
    BY <1>1, <1>3, <2>3 DEF Inv, TypeOK, Kept, Label, IdleDetach, worker
  <2>5. pc'[d] = "idle" /\ \A e \in Drive \ {d} : pc'[e] = pc[e]
    BY <1>3 DEF IdleDetach, Inv, TypeOK
  <2>6. Aimed'
    BY <1>1, <2>3, <2>5 DEF Inv, Aimed, worker
  <2> QED  BY <2>3, <2>4, <2>6 DEF Inv, Kept
<1> QED  BY <1>2, <1>3

\* The kernel releases the leases of a process that dies, and no other.
LEMMA RestartKeeps ==
  ASSUME Inv, NEW d \in Drive, Restart(d)
  PROVE  Inv'
<1> USE MediaAssumption
<1>1. /\ mounted' = [mounted EXCEPT ![d] = None]
      /\ lease' = [c \in Cartridge |-> IF lease[c] = d THEN None ELSE lease[c]]
      /\ queue' = [queue EXCEPT ![d] = [n \in Initiator |-> <<"reset">>]]
      /\ untold' = [untold EXCEPT ![d] = [n \in Nexus |-> "other"]]
      /\ pc' = [pc EXCEPT ![d] = "idle"] /\ job' = [job EXCEPT ![d] = None]
      /\ desired' = desired /\ wpc' = wpc /\ wcartridge' = wcartridge /\ unread' = unread
  BY DEF Restart, worker
<1>2. <<"reset">> \in Seq(Attention)
  BY DEF Attention
<1>3. [n \in Initiator |-> <<"reset">>] \in [Initiator -> Seq(Attention)]
  BY <1>2
<1>4. queue' \in [Drive -> [Initiator -> Seq(Attention)]]
  BY <1>1, <1>3 DEF Inv, TypeOK
<1>5. TypeOK'
  BY <1>1, <1>4 DEF Inv, TypeOK, Label, Slot
<1>6. mounted'[d] = None /\ \A e \in Drive \ {d} : mounted'[e] = mounted[e]
  BY <1>1 DEF Inv, TypeOK
<1>7. Aimed'
  <2>1. pc'[d] = "idle" /\ \A e \in Drive \ {d} : pc'[e] = pc[e] /\ job'[e] = job[e]
    BY <1>1 DEF Inv, TypeOK
  <2>2. wpc' = wpc /\ wcartridge' = wcartridge /\ Aimed
    BY <1>1 DEF Inv
  <2> QED  BY <1>6, <2>1, <2>2 DEF Aimed
<1>8. Leased'
  <2>1. ASSUME NEW e \in Drive, mounted'[e] # None
        PROVE  lease'[mounted'[e]] = e
    <3>1. e # d /\ mounted'[e] = mounted[e] /\ lease[mounted[e]] = e /\ mounted[e] \in Cartridge
      BY <1>6, <2>1 DEF Inv, Leased, TypeOK, Slot
    <3> QED  BY <1>1, <3>1
  <2>2. ASSUME wpc' \in {"check", "reclaim"}
        PROVE  lease'[wcartridge'] = Worker
    BY <1>1, <2>2 DEF Inv, Leased, Aimed
  <2> QED  BY <2>1, <2>2 DEF Leased
<1>9. Announced'
  BY <1>1, <1>6 DEF Inv, TypeOK, Announced
<1> QED  BY <1>5, <1>7, <1>8, <1>9 DEF Inv

\* The worker changes no lease but its own, and holds it from before its second
\* look until it is done.
LEMMA WorkerKeeps ==
  ASSUME Inv, WorkerBegin \/ Maintain \/ WorkerDies
  PROVE  Inv'
<1> USE MediaAssumption
<1>1. UNCHANGED <<desired, mounted, pc, job, queue, untold>>
  BY DEF WorkerBegin, Maintain, WorkerLooks, WorkerChecks, ReadsOne, WorkerLease, WorkerStarts, WorkerEnds,
         WorkerDies, WorkerGoes, drives
<1>2. Announced' /\ unread' \subseteq Drive
  <2>1. unread' \subseteq Drive
    BY DEF Inv, TypeOK, WorkerBegin, Maintain, WorkerLooks, WorkerChecks, ReadsOne, WorkerLease,
           WorkerStarts, WorkerEnds, WorkerDies, WorkerGoes
  <2> QED  BY <1>1, <2>1 DEF Inv, Announced
<1>3. CASE WorkerBegin
  <2>1. wpc' = "look" /\ wcartridge' \in Cartridge /\ lease' = lease
    BY <1>3 DEF WorkerBegin, WorkerGoes
  <2> QED  BY <1>1, <1>2, <2>1 DEF Inv, TypeOK, Aimed, Leased, Slot
<1>4. CASE WorkerLooks \/ WorkerChecks
  <2>1. wpc' \in {wpc, "give_up"} /\ wpc # "idle" /\ wcartridge' = wcartridge /\ lease' = lease
    BY <1>4 DEF WorkerLooks, WorkerChecks, ReadsOne, WorkerGoes
  <2> QED  BY <1>1, <1>2, <2>1 DEF Inv, TypeOK, Aimed, Leased
<1>5. CASE WorkerStarts
  <2>1. /\ wpc = "check" /\ wpc' \in {"give_up", "reclaim"}
        /\ wcartridge' = wcartridge /\ lease' = lease
    BY <1>5 DEF WorkerStarts, WorkerGoes
  <2> QED  BY <1>1, <1>2, <2>1 DEF Inv, TypeOK, Aimed, Leased
<1>6. CASE WorkerLease
  <2>1. wpc = "look" /\ wcartridge' = wcartridge /\ wcartridge \in Cartridge
    BY <1>6 DEF WorkerLease, Inv, Aimed
  <2>2. CASE lease[wcartridge] # None
    <3>1. wpc' = "give_up" /\ lease' = lease
      BY <1>6, <2>2 DEF WorkerLease, WorkerGoes
    <3> QED  BY <1>1, <1>2, <2>1, <3>1 DEF Inv, TypeOK, Aimed, Leased
  <2>3. CASE lease[wcartridge] = None
    <3>1. wpc' = "check" /\ lease' = [lease EXCEPT ![wcartridge] = Worker]
      BY <1>6, <2>3 DEF WorkerLease, WorkerGoes
    <3>2. lease' \in [Cartridge -> Holder \cup {None}]
      BY <2>1, <3>1 DEF Inv, TypeOK, Holder
    <3>3. ASSUME NEW d \in Drive, mounted[d] # None PROVE lease'[mounted[d]] = d
      <4>1. mounted[d] \in Cartridge /\ lease[mounted[d]] = d /\ mounted[d] # wcartridge
        BY <2>3, <3>3 DEF Inv, Leased, TypeOK, Slot
      <4> QED  BY <2>1, <3>1, <4>1 DEF Inv, TypeOK
    <3>4. lease'[wcartridge] = Worker
      BY <2>1, <3>1 DEF Inv, TypeOK
    <3> QED  BY <1>1, <1>2, <2>1, <3>1, <3>2, <3>3, <3>4 DEF Inv, TypeOK, Aimed, Leased
  <2> QED  BY <2>2, <2>3
<1>7. CASE WorkerEnds \/ WorkerDies
  <2>1. wpc' = "idle" /\ wcartridge' = None /\ lease' = Released(Worker)
    BY <1>7 DEF WorkerEnds, WorkerDies, WorkerGoes
  <2>2. lease' \in [Cartridge -> Holder \cup {None}]
    BY <2>1 DEF Inv, TypeOK, Released
  <2>3. ASSUME NEW d \in Drive, mounted[d] # None PROVE lease'[mounted[d]] = d
    BY <2>1, <2>3 DEF Released, Inv, Leased, TypeOK, Slot
  <2> QED  BY <1>1, <1>2, <2>1, <2>2, <2>3 DEF Inv, TypeOK, Aimed, Leased, Slot
<1> QED  BY <1>3, <1>4, <1>5, <1>6, <1>7 DEF Maintain

\* Another process writes a state file: nothing else changes.
LEMMA AssignKeeps ==
  ASSUME Inv, NEW d \in Drive, Assign(d)
  PROVE  Inv'
<1>1. desired' \in [Drive -> Slot]
  BY DEF Assign, Inv, TypeOK
<1>2. UNCHANGED <<lease, mounted, pc, job, queue, untold, wpc, wcartridge, unread>>
  BY DEF Assign, drives, worker
<1> QED  BY <1>1, <1>2 DEF Inv, TypeOK, Aimed, Leased, Announced

\* The processes start with nothing mounted and no lease.
LEMMA InitInv == Init => Inv
<1> SUFFICES ASSUME Init PROVE Inv
  OBVIOUS
<1>1. <<"reset">> \in Seq(Attention)
  BY DEF Attention
<1>2. queue \in [Drive -> [Initiator -> Seq(Attention)]]
  BY <1>1 DEF Init
<1>3. TypeOK
  BY <1>2 DEF Init, TypeOK, Slot, Label
<1> QED  BY <1>3 DEF Init, Inv, Aimed, Leased, Announced

\* Every step keeps the invariant.
LEMMA NextInv == Inv /\ [Next]_vars => Inv'
<1> SUFFICES ASSUME Inv, [Next]_vars PROVE Inv'
  OBVIOUS
<1>1. CASE UNCHANGED vars
  BY <1>1 DEF Inv, TypeOK, Aimed, Leased, Announced, vars, drives, worker
<1>2. ASSUME NEW d \in Drive, Poll(d) \/ HostCommand(d) PROVE Inv'
  <2>1. PICK n \in Initiator, op \in Opcode : Command(d, n, op)
    BY <1>2 DEF Poll, HostCommand, Opcode
  <2> QED  BY <2>1, CommandKeeps
<1>3. ASSUME NEW d \in Drive, Step(d) PROVE Inv'
  BY <1>3, SyncKeeps, AttachStepsKeep, RunKeeps, LoadUnloadKeeps DEF Step
<1>4. ASSUME NEW d \in Drive, IdleCheck(d) \/ IdleDetach(d) \/ Restart(d) \/ Assign(d) PROVE Inv'
  BY <1>4, MonitorKeeps, RestartKeeps, AssignKeeps
<1>5. CASE WorkerBegin \/ Maintain \/ WorkerDies
  BY <1>5, WorkerKeeps
<1> QED  BY <1>1, <1>2, <1>3, <1>4, <1>5 DEF Next

-----------------------------------------------------------------------------
(* The length of the queues.                                               *)

Short(q) == \A m \in Initiator : Len(q[m]) <= 2

\* A change of the cartridge leaves two attentions at most in each queue.
LEMMA ChangeShort ==
  ASSUME Inv, QueuesShort, NEW d \in Drive, NEW n \in Initiator
  PROVE  /\ Short(Cleared(d, n)) /\ Short(Pushed(Cleared(d, n), n, "media"))
         /\ Short(Pushed(Pushed(Cleared(d, n), n, "media"), n, "media"))
<1> DEFINE c == Cleared(d, n)
           p == Pushed(c, n, "media")
           q == Pushed(p, n, "media")
<1>1. /\ c \in [Initiator -> Seq(Attention)] /\ c[n] = << >>
      /\ \A m \in Nexus \ {n} : c[m] = <<"reset">>
  BY QueuesTyped DEF Inv
<1>2. c[Anon] = queue[d][Anon] \/ Anon = n
  BY DEF Cleared, Initiator
<1> HIDE DEF c
<1>3. Short(c)
  <2>1. Len(<< >>) = 0 /\ Len(<<"reset">>) = 1
    OBVIOUS
  <2>2. ASSUME NEW m \in Initiator PROVE Len(c[m]) <= 2
    <3>1. CASE m = n
      BY <1>1, <2>1, <3>1
    <3>2. CASE m # n /\ m \in Nexus
      <4>1. Len(c[m]) = 1
        BY <1>1, <2>1, <3>2, Zenon
      <4> QED  BY <4>1
    <3>3. CASE m # n /\ m = Anon
      BY <1>2, <3>3 DEF QueuesShort
    <3> QED  BY <3>1, <3>2, <3>3 DEF Initiator
  <2> QED  BY <2>2 DEF Short
<1>4. /\ p \in [Initiator -> Seq(Attention)] /\ p[n] = <<"media">>
      /\ \A m \in Initiator \ {n} : p[m] = c[m]
  BY <1>1, PushTyped
<1>5. q = [p EXCEPT ![n] = Append(p[n], "media")]
  BY DEF Pushed
<1> HIDE DEF p
<1>6. Len(<<"media">>) = 1 /\ Len(Append(<<"media">>, "media")) = 2
  OBVIOUS
<1>7. q[n] = Append(<<"media">>, "media") /\ \A m \in Initiator \ {n} : q[m] = c[m]
  BY <1>4, <1>5
<1> HIDE DEF q
<1>8. ASSUME NEW m \in Initiator PROVE Len(p[m]) <= 2 /\ Len(q[m]) <= 2
  <2>1. CASE m = n
    <3>1. Len(p[m]) = 1 /\ Len(q[m]) = 2
      BY <1>4, <1>6, <1>7, <2>1, Zenon
    <3> QED  BY <3>1
  <2>2. CASE m # n
    BY <1>3, <1>4, <1>7, <2>2 DEF Short
  <2> QED  BY <2>1, <2>2
<1>9. Short(p) /\ Short(q)
  BY <1>8 DEF Short
<1> QED  BY <1>3, <1>9 DEF c, p, q

\* A reply makes a queue shorter.
LEMMA ReportShort ==
  ASSUME Inv, QueuesShort, NEW d \in Drive, job[d] \in Job,
         NEW i \in DOMAIN queue[d][job[d].nexus], Report(d, i)
  PROVE  QueuesShort'
<1> DEFINE n == job[d].nexus
           q == queue[d][n]
           r == SubSeq(q, 1, i - 1) \o SubSeq(q, i + 1, Len(q))
<1>1. n \in Initiator /\ q \in Seq(Attention) /\ i \in 1..Len(q)
  BY DEF Inv, TypeOK, Job
<1>2. Len(r) = Len(q) - 1
  <2>1. Len(q) \in Nat /\ i \in Nat /\ 1 <= i /\ i <= Len(q)
    BY <1>1
  <2>2. SubSeq(q, 1, i - 1) \in Seq(Attention) /\ Len(SubSeq(q, 1, i - 1)) = i - 1
    BY <1>1, <2>1
  <2>3. /\ SubSeq(q, i + 1, Len(q)) \in Seq(Attention)
        /\ Len(SubSeq(q, i + 1, Len(q))) = Len(q) - i
    BY <1>1, <2>1
  <2>4. Len(r) = (i - 1) + (Len(q) - i)
    BY <2>2, <2>3
  <2>5. (i - 1) + (Len(q) - i) = Len(q) - 1
    BY <2>1
  <2> QED  BY <2>4, <2>5, Zenon
<1>3. queue' = [queue EXCEPT ![d][n] = r]
  BY DEF Report
<1>4. Len(q) <= 2 /\ Len(q) \in Nat
  BY <1>1 DEF QueuesShort
<1> HIDE DEF q, r
<1>5. Len(r) <= 2
  BY <1>2, <1>4
<1> HIDE DEF n
<1> QED  BY <1>1, <1>3, <1>5 DEF Inv, TypeOK, QueuesShort

\* Every step leaves the queues short.
LEMMA NextShort == Inv /\ QueuesShort /\ [Next]_vars => QueuesShort'
<1> SUFFICES ASSUME Inv, QueuesShort, [Next]_vars PROVE QueuesShort'
  OBVIOUS
<1>1. CASE queue' = queue
  BY <1>1 DEF QueuesShort
<1>2. ASSUME NEW d \in Drive, NEW q, queue' = [queue EXCEPT ![d] = q], Short(q)
      PROVE  QueuesShort'
  BY <1>2 DEF Inv, TypeOK, QueuesShort, Short
<1>3. ASSUME NEW d \in Drive, Restart(d) PROVE QueuesShort'
  <2>1. Short([n \in Initiator |-> <<"reset">>])
    <3>1. Len(<<"reset">>) = 1
      OBVIOUS
    <3> QED  BY <3>1 DEF Short
  <2> QED  BY <1>2, <1>3, <2>1 DEF Restart
<1>4. ASSUME NEW d \in Drive, IdleDetach(d) PROVE QueuesShort'
  <2>1. Short(Pushed(Cleared(d, Anon), Anon, "media"))
    BY ChangeShort DEF Initiator
  <2> QED  BY <1>1, <1>2, <1>4, <2>1 DEF IdleDetach, Detach, Told
<1>5. ASSUME NEW d \in Drive, Sync(d) \/ SyncAttach(d) \/ LoadAttach(d) \/ RunUnload(d)
      PROVE  QueuesShort'
  <2> DEFINE n == job[d].nexus
             c == Cleared(d, n)
             p == Pushed(c, n, "media")
             q == Pushed(p, n, "media")
  <2>1. n \in Initiator
    <3>1. pc[d] \in {"sync", "attach", "load", "run"}
      BY <1>5 DEF Sync, SyncAttach, LoadAttach, RunUnload, Uninterrupted
    <3> QED  BY <3>1 DEF Inv, Aimed, Job
  <2>2. Short(c) /\ Short(p) /\ Short(q)
    BY <2>1, ChangeShort
  <2>3. queue' \in {queue, [queue EXCEPT ![d] = c], [queue EXCEPT ![d] = p], [queue EXCEPT ![d] = q]}
    BY <1>5 DEF Sync, SyncAttach, LoadAttach, RunUnload, Detach, Attach, Told
  <2> HIDE DEF c, p, q
  <2> QED  BY <1>1, <1>2, <2>2, <2>3
<1>6. ASSUME NEW d \in Drive, RunReport(d) \/ RunInterrupted(d) PROVE QueuesShort'
  <2>1. job[d] \in Job
    BY <1>6 DEF RunReport, RunInterrupted, Inv, Aimed
  <2>2. queue[d][job[d].nexus] \in Seq(Attention)
    BY <2>1 DEF Inv, TypeOK, Job
  <2>3. queue[d][job[d].nexus] # << >> => 1 \in DOMAIN queue[d][job[d].nexus]
    BY <2>2
  <2>4. queue' = queue \/ \E i \in DOMAIN queue[d][job[d].nexus] : Report(d, i)
    BY <1>6, <2>3 DEF RunReport, RunInterrupted, Pending, Told
  <2> QED  BY <1>1, <2>1, <2>4, ReportShort
<1>7. ASSUME NEW d \in Drive,
             \/ Poll(d) \/ HostCommand(d) \/ RunInquiry(d) \/ RunWork(d) \/ RunLoad(d)
             \/ IdleCheck(d) \/ Assign(d)
      PROVE  queue' = queue
  BY <1>7 DEF Poll, HostCommand, Command, RunInquiry, RunWork, RunLoad, IdleCheck, Assign,
              Told, drives
<1>8. ASSUME WorkerBegin \/ Maintain \/ WorkerDies PROVE queue' = queue
  BY <1>8 DEF WorkerBegin, Maintain, WorkerLooks, WorkerChecks, ReadsOne, WorkerLease,
              WorkerStarts, WorkerEnds, WorkerDies, WorkerGoes, drives
<1>9. UNCHANGED vars => queue' = queue
  BY DEF vars, drives
<1> QED  BY <1>1, <1>3, <1>4, <1>5, <1>6, <1>7, <1>8, <1>9 DEF Next, Step

-----------------------------------------------------------------------------
(* The results.                                                            *)

\* The variables of the drives and the worker keep their types, and no queue of
\* unit attentions comes near the length at which push_unit_attention drops one.
THEOREM MediaTyped == Spec => [](TypeOK /\ QueuesShort)
<1>1. Init => QueuesShort
  <2>1. Len(<<"reset">>) = 1
    OBVIOUS
  <2> QED  BY <2>1 DEF Init, QueuesShort
<1>2. Inv => TypeOK
  BY DEF Inv
<1> QED  BY <1>1, <1>2, InitInv, NextInv, NextShort, PTL DEF Spec

\* LayoutHasOneOwner, for any number of drives and cartridges: attach_cartridge
\* and the maintenance worker never have the same layout open, in whatever order
\* the state files are written and whichever process dies.
THEOREM LayoutOwned == Spec => []LayoutHasOneOwner
<1>1. Inv => LayoutHasOneOwner
  <2> SUFFICES ASSUME Inv, NEW c \in Cartridge, NEW g \in Holder, NEW h \in Holder,
                      Opens(g, c), Opens(h, c)
               PROVE  g = h
    BY DEF LayoutHasOneOwner
  <2>1. ASSUME NEW k \in Holder, Opens(k, c) PROVE lease[c] = k
    <3>1. CASE k = Worker
      BY <2>1, <3>1 DEF Opens, Inv, Leased
    <3>2. CASE k # Worker
      BY <2>1, <3>2, MediaAssumption DEF Opens, Inv, Leased, Holder
    <3> QED  BY <3>1, <3>2
  <2> QED  BY <2>1
<1> QED  BY <1>1, InitInv, NextInv, PTL DEF Spec

\* Taking the first attention of a queue changes the queue.
LEMMA TakenIsShorter ==
  ASSUME NEW S, NEW q \in Seq(S), q # << >>
  PROVE  Len(SubSeq(q, 1, 1 - 1) \o SubSeq(q, 1 + 1, Len(q))) # Len(q)
<1>1. Len(q) \in Nat
  BY LenProperties
<1>2. Tail(q) = SubSeq(q, 2, Len(q))
  BY TailIsSubSeq
<1>3. Tail(q) \in Seq(S) /\ Len(Tail(q)) = Len(q) - 1
  BY HeadTailProperties
<1>4. SubSeq(q, 1, 0) = << >>
  BY SubSeqEmpty
<1>5. << >> \o Tail(q) = Tail(q)
  BY <1>3, ConcatEmptySeq
<1>6. 1 - 1 = 0 /\ 1 + 1 = 2
  OBVIOUS
<1>7. SubSeq(q, 1, 1 - 1) \o SubSeq(q, 1 + 1, Len(q)) = Tail(q)
  BY <1>2, <1>4, <1>5, <1>6, Zenon
<1>8. \A l \in Nat : l - 1 # l
  OBVIOUS
<1>9. Len(Tail(q)) # Len(q)
  BY <1>1, <1>3, <1>8, Zenon
<1> QED  BY <1>7, <1>9, Zenon

\* ReadyOnlyWhenTold, for any number of initiators: TEST UNIT READY reports good
\* status to no initiator that has yet to hear of the cartridge.
THEOREM ReadyTold == Spec => ReadyOnlyWhenTold
<1> DEFINE Quiet == \A d \in Drive :
             LET n == job[d].nexus
             IN  RunReport(d) /\ job[d].op = "tur" /\ mounted[d] # None
                   /\ queue' = queue /\ n \in Nexus
                 => untold[d][n] = "no"
<1>1. Inv => Quiet
  <2> SUFFICES ASSUME Inv, NEW d \in Drive, RunReport(d), mounted[d] # None,
                      queue' = queue, job[d].nexus \in Nexus, untold[d][job[d].nexus] # "no"
               PROVE  FALSE
    OBVIOUS
  <2> DEFINE n == job[d].nexus
             q == queue[d][n]
             r == SubSeq(q, 1, 1 - 1) \o SubSeq(q, 1 + 1, Len(q))
  <2>1. n \in Initiator /\ q \in Seq(Attention) /\ q # << >>
    BY DEF Inv, TypeOK, Announced, Initiator
  <2>2. queue' = [queue EXCEPT ![d][n] = r]
    BY <2>1 DEF RunReport, Report
  <2>3. Len(r) # Len(q)
    BY <2>1, TakenIsShorter
  <2> HIDE DEF r
  <2>4. queue'[d][n] = r
    BY <2>1, <2>2 DEF Inv, TypeOK
  <2> QED  BY <2>3, <2>4
<1>2. Spec => []Inv
  BY InitInv, NextInv, PTL DEF Spec
<1>3. Inv /\ [Next]_vars => [Quiet]_vars
  BY <1>1
<1>4. Spec => [][Quiet]_vars
  BY <1>2, <1>3, PTL DEF Spec
<1> QED  BY <1>4 DEF ReadyOnlyWhenTold

\* WorkStopsForOwnChange, for any number of initiators: a media attention comes
\* before any work on a cartridge that the initiator's own command mounted.
THEOREM WorkStops == Spec => WorkStopsForOwnChange
<1> DEFINE Stops == \A d \in Drive :
             LET n == job[d].nexus
             IN  RunWork(d) /\ mounted[d] # None /\ n \in Nexus => untold[d][n] # "own"
<1>1. Inv => Stops
  <2> SUFFICES ASSUME Inv, NEW d \in Drive, RunWork(d), mounted[d] # None,
                      job[d].nexus \in Nexus, untold[d][job[d].nexus] = "own"
               PROVE  FALSE
    OBVIOUS
  <2> DEFINE q == queue[d][job[d].nexus]
  <2>1. q \in Seq(Attention) /\ q # << >> /\ q[1] = "media"
    BY DEF Inv, TypeOK, Announced, Initiator
  <2>2. 1 \in DOMAIN q /\ q[1] # "reset" /\ \A k \in 1..1 - 1 : q[k] = "reset"
    BY <2>1
  <2>3. 1 \in Pending(d)
    BY <2>2 DEF Pending
  <2> QED  BY <2>3 DEF RunWork, Uninterrupted
<1>2. Spec => []Inv
  BY InitInv, NextInv, PTL DEF Spec
<1>3. Inv /\ [Next]_vars => [Stops]_vars
  BY <1>1
<1>4. Spec => [][Stops]_vars
  BY <1>2, <1>3, PTL DEF Spec
<1> QED  BY <1>4 DEF WorkStopsForOwnChange
=============================================================================
