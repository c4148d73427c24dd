-------------------------- MODULE SpaceGuardProofs --------------------------
(***************************************************************************)
(* For any number of processes and any sizes: the lock admits one process  *)
(* at a time, a reservation exists exactly from admission to the end of    *)
(* the write, and no process writes more than it reserved.                 *)
(***************************************************************************)
EXTENDS SpaceGuard, TLAPS

\* Rounding up to an allocation unit gives a number of bytes.
LEMMA RoundUpNat == ASSUME NEW n \in Nat PROVE RoundUp(n) \in Nat
<1>1. Unit \in Nat /\ Unit > 0
  BY SpaceAssumption
<1>2. n % Unit \in 0..Unit - 1
  BY <1>1
<1> QED  BY <1>1, <1>2 DEF RoundUp

\* So does estimate_write_peak_bytes.
LEMMA PeaksNat == Peaks \subseteq Nat
<1> SUFFICES ASSUME NEW c \in Commands PROVE Estimate(c) \in Nat
  BY DEF Peaks
<1>1. c.payload \in Nat /\ c.blobs \in Nat /\ c.segments \in Nat /\ c.metadata \in Nat
  BY SpaceAssumption
<1>2. RoundUp(c.payload) \in Nat /\ RoundUp(c.metadata) \in Nat
  BY <1>1, RoundUpNat
<1>3. BlobOverhead \in Nat /\ SegmentOverhead \in Nat
  BY SpaceAssumption
<1>4. \A m, n \in Nat : m * n \in Nat
  OBVIOUS
<1>5. c.blobs * BlobOverhead \in Nat /\ c.segments * SegmentOverhead \in Nat
  BY <1>1, <1>3, <1>4, Zenon
<1>6. \A a, b, e, f \in Nat : a + b + e + f \in Nat
  OBVIOUS
<1> QED  BY <1>2, <1>5, <1>6, Zenon DEF Estimate

\* The steps under the lock, up to the decision.
LEMMA AdmissionKeeps ==
  ASSUME TypeOK, NEW w \in Writer, Admission(w)
  PROVE  TypeOK'
<1> USE SpaceAssumption, PeaksNat
<1>1. CASE Acquire(w)
  BY <1>1 DEF Acquire, Goto, TypeOK, admission, bounds
<1>2. CASE Busy(w)
  BY <1>2 DEF Busy, Goto, TypeOK, admission, bounds
<1>3. CASE Probe(w)
  BY <1>3 DEF Probe, Goto, TypeOK, bounds
<1>4. CASE List(w)
  BY <1>4 DEF List, Goto, TypeOK, bounds
<1>5. CASE Count(w)
  BY <1>5 DEF Count, TypeOK, bounds
<1>6. CASE Refuse(w)
  BY <1>6 DEF Refuse, Goto, TypeOK, admission, bounds
<1>7. CASE Admit(w)
  <2>1. peak[w] \in Nat /\ pc[w] = "count" /\ lock = w
    BY <1>7 DEF Admit, TypeOK
  <2>2. /\ reserved' = [reserved EXCEPT ![w] = peak[w]]
        /\ written' = [written EXCEPT ![w] = 0]
        /\ pc' = [pc EXCEPT ![w] = "unlock"]
        /\ UNCHANGED <<available, lock, peak, snapshot, unread, inFlight, orphans, extra>>
    BY <1>7 DEF Admit, Goto, bounds
  <2>3. ASSUME NEW v \in Writer
        PROVE  /\ pc'[v] \in {"probe", "list", "count", "unlock"} <=> lock' = v
               /\ reserved'[v] = (IF pc'[v] \in {"unlock", "write"} THEN peak'[v] ELSE 0)
               /\ written'[v] <= reserved'[v]
    <3>1. CASE v = w
      BY <2>1, <2>2, <3>1 DEF TypeOK
    <3>2. CASE v # w
      BY <2>2, <3>2 DEF TypeOK
    <3> QED  BY <3>1, <3>2
  <2> QED  BY <2>1, <2>2, <2>3 DEF TypeOK
<1>8. CASE Unlock(w)
  BY <1>8 DEF Unlock, Goto, TypeOK, admission, bounds
<1> QED  BY <1>1, <1>2, <1>3, <1>4, <1>5, <1>6, <1>7, <1>8 DEF Admission

\* The write, its end and the death of a process.
LEMMA WriteKeeps ==
  ASSUME TypeOK, NEW w \in Writer, Begin(w) \/ WriteSome(w) \/ Finish(w) \/ Kill(w)
  PROVE  TypeOK'
<1> USE SpaceAssumption, PeaksNat
<1>1. CASE Begin(w)
  BY <1>1 DEF Begin, Goto, TypeOK, admission, Peaks
<1>2. CASE WriteSome(w)
  BY <1>2 DEF WriteSome, Remaining, TypeOK, admission, bounds
<1>3. CASE Finish(w)
  BY <1>3 DEF Finish, Goto, TypeOK, admission, bounds
<1>4. CASE Kill(w)
  BY <1>4 DEF Kill, Goto, TypeOK, admission
<1> QED  BY <1>1, <1>2, <1>3, <1>4

\* TypeOK, for any number of processes: FilesystemLock keeps admissions apart
\* although processes die inside them, and a reservation is there until its
\* command ends and is never exceeded.
THEOREM AdmissionExclusive == Spec => []TypeOK
<1>1. Init => TypeOK
  BY SpaceAssumption DEF Init, TypeOK
<1>2. TypeOK /\ [Next]_vars => TypeOK'
  <2> SUFFICES ASSUME TypeOK, [Next]_vars PROVE TypeOK'
    OBVIOUS
  <2>1. CASE UNCHANGED vars
    BY <2>1 DEF vars, admission, bounds, TypeOK
  <2>2. CASE WriteUnreserved \/ FreeSpace
    BY <2>2, SpaceAssumption DEF WriteUnreserved, FreeSpace, TypeOK, admission, bounds
  <2> QED  BY <2>1, <2>2, AdmissionKeeps, WriteKeeps DEF Next
<1> QED  BY <1>1, <1>2, PTL DEF Spec
=============================================================================
