------------------------- MODULE ReservationProofs -------------------------
(***************************************************************************)
(* Proofs about Reservation, for every set of initiators and keys.         *)
(***************************************************************************)
EXTENDS Reservation, TLAPS

\* The inductive invariant: types, and the holder registered with its key.
Inv == TypeOK /\ OwnerRegistered

\* A freshly started drive has no reservation state.
LEMMA InitInv == Init => Inv
<1> SUFFICES ASSUME Init PROVE Inv
  OBVIOUS
<1>1. 0 \in 0..(GenerationModulus - 1)
  BY ReservationAssumption
<1>2. TypeOK
  BY <1>1 DEF Init, TypeOK
<1>3. OwnerRegistered
  BY DEF Init, OwnerRegistered
<1> QED
  BY <1>2, <1>3 DEF Inv

\* The wrapping increment stays in range.
LEMMA BumpType == ASSUME Bump, generation \in 0..(GenerationModulus - 1)
                  PROVE  generation' \in 0..(GenerationModulus - 1)
<1>1. GenerationModulus \in Nat /\ GenerationModulus > 0
  BY ReservationAssumption
<1>2. (generation + 1) % GenerationModulus \in 0..(GenerationModulus - 1)
  BY <1>1
<1> QED
  BY <1>2 DEF Bump

\* Loading, unloading and erasing establish the invariant from nothing.
LEMMA DefaultInv == ASSUME DefaultReservation, loaded' \in BOOLEAN PROVE Inv'
<1>1. 0 \in 0..(GenerationModulus - 1)
  BY ReservationAssumption
<1>2. TypeOK'
  BY <1>1 DEF DefaultReservation, TypeOK
<1>3. OwnerRegistered'
  BY DEF DefaultReservation, OwnerRegistered
<1> QED
  BY <1>2, <1>3 DEF Inv

\* Every service action keeps the holder registered under the active key.
LEMMA NextInv == Inv /\ [Next]_vars => Inv'
<1> SUFFICES ASSUME Inv, [Next]_vars PROVE Inv'
  OBVIOUS
<1> USE ReservationAssumption DEF Inv
<1>1. CASE Load
  BY <1>1, DefaultInv DEF Load
<1>2. CASE Unload
  BY <1>2, DefaultInv DEF Unload
<1>3. ASSUME NEW i \in Initiator, Erase(i) PROVE Inv'
  BY <1>3, DefaultInv DEF Erase, TypeOK
<1>4. ASSUME NEW i \in Initiator, NEW k \in Key, RegisterKey(i, k) PROVE Inv'
  <2>1. TypeOK'
    BY <1>4, BumpType DEF RegisterKey, TypeOK, WithKey
  <2>2. OwnerRegistered'
    BY <1>4 DEF RegisterKey, OwnerRegistered, WithKey, TypeOK
  <2> QED
    BY <2>1, <2>2
<1>5. ASSUME NEW i \in Initiator, NEW k \in Key, ReserveKey(i, k) PROVE Inv'
  <2>1. TypeOK'
    BY <1>5, BumpType DEF ReserveKey, TypeOK
  <2>2. OwnerRegistered'
    BY <1>5 DEF ReserveKey, Registered, OwnerRegistered
  <2> QED
    BY <2>1, <2>2
<1>6. ASSUME NEW i \in Initiator, NEW k \in Key, NEW s \in Key, PreemptKey(i, k, s)
      PROVE  Inv'
  <2>1. TypeOK'
    BY <1>6, BumpType DEF PreemptKey, TypeOK
  <2>2. OwnerRegistered'
    BY <1>6 DEF PreemptKey, Registered, OwnerRegistered
  <2> QED
    BY <2>1, <2>2
<1>7. ASSUME NEW i \in Initiator, NEW k \in Key, NEW s \in Key, NEW t \in Initiator,
             NEW u \in BOOLEAN, RegisterAndMoveKey(i, k, s, t, u)
      PROVE  Inv'
  <2>1. TypeOK'
    BY <1>7, BumpType DEF RegisterAndMoveKey, TypeOK, WithKey
  <2>2. OwnerRegistered'
    BY <1>7 DEF RegisterAndMoveKey, OwnerRegistered, WithKey
  <2> QED
    BY <2>1, <2>2
<1>8. ASSUME NEW i \in Initiator, NEW k \in Key, ReleaseKey(i, k) PROVE Inv'
  <2>1. TypeOK'
    BY <1>8, BumpType DEF ReleaseKey, TypeOK
  <2>2. OwnerRegistered'
    BY <1>8 DEF ReleaseKey, OwnerRegistered
  <2> QED
    BY <2>1, <2>2
<1>9. ASSUME NEW i \in Initiator, NEW k \in Key, ClearKeys(i, k) PROVE Inv'
  <2>1. TypeOK'
    BY <1>9, BumpType DEF ClearKeys, TypeOK
  <2>2. OwnerRegistered'
    BY <1>9 DEF ClearKeys, OwnerRegistered
  <2> QED
    BY <2>1, <2>2
<1>10. CASE UNCHANGED vars
  BY <1>10 DEF vars, TypeOK, OwnerRegistered
<1> QED
  BY <1>1, <1>2, <1>3, <1>4, <1>5, <1>6, <1>7, <1>8, <1>9, <1>10 DEF Next

\* Persistent reservations of any number of initiators stay consistent: the
\* holder of the reservation is always registered under the active key.
THEOREM ReservationConsistent == Spec => [](TypeOK /\ OwnerRegistered)
<1>1. Spec => []Inv
  BY InitInv, NextInv, PTL DEF Spec
<1> QED
  BY <1>1, PTL DEF Inv

\* The generation changes whenever registrations or the holder do.
THEOREM GenerationCounts == Spec => GenerationAdvances
<1>1. ASSUME Next
      PROVE  <<registrations, activeOwner, activeKey>>' # <<registrations, activeOwner, activeKey>>
               => \/ generation' = (generation + 1) % GenerationModulus
                  \/ generation' = 0 /\ DOMAIN registrations' = {} /\ activeOwner' = NoOwner
  <2> USE DEF Bump, DefaultReservation
  <2>1. CASE Load \/ Unload \/ \E i \in Initiator : Erase(i)
    BY <2>1 DEF Load, Unload, Erase
  <2>2. CASE \E i \in Initiator, k \in Key :
               RegisterKey(i, k) \/ ReserveKey(i, k) \/ ReleaseKey(i, k) \/ ClearKeys(i, k)
    BY <2>2 DEF RegisterKey, ReserveKey, ReleaseKey, ClearKeys
  <2>3. CASE \E i \in Initiator, k \in Key, s \in Key : PreemptKey(i, k, s)
    BY <2>3 DEF PreemptKey
  <2>4. CASE \E i \in Initiator, k \in Key, s \in Key, t \in Initiator, u \in BOOLEAN :
               RegisterAndMoveKey(i, k, s, t, u)
    BY <2>4 DEF RegisterAndMoveKey
  <2> QED
    BY <1>1, <2>1, <2>2, <2>3, <2>4 DEF Next
<1> QED
  BY <1>1, PTL DEF Spec, GenerationAdvances
=============================================================================
