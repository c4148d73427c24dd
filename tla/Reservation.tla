---------------------------- MODULE Reservation ----------------------------
(***************************************************************************)
(* Persistent reservations of one drive: scsi_tape/reservation.rs, as      *)
(* PERSISTENT RESERVE OUT (iscsi/cdb_drive.rs) reaches it through          *)
(* scsi_tape/command_chain.rs.  The state lives as long as the medium is   *)
(* loaded: loading, unloading and erasing it reset everything.  A command  *)
(* that returns an error changes nothing and is no step here.              *)
(***************************************************************************)
EXTENDS Integers

CONSTANTS
  Initiator,          \* initiator ids, none of them blank
  NoOwner,            \* active_owner = None
  Key,                \* reservation keys as sent, 0 included
  GenerationModulus   \* 2^32: generation is a wrapping u32

ASSUME ReservationAssumption ==
  /\ NoOwner \notin Initiator
  /\ Key \subseteq Nat
  /\ GenerationModulus \in Nat \ {0}

VARIABLES loaded, registrations, activeOwner, activeKey, generation

vars == <<loaded, registrations, activeOwner, activeKey, generation>>

\* ReservationState::default().
DefaultReservation ==
  /\ registrations' = [i \in {} |-> 0]
  /\ activeOwner' = NoOwner
  /\ activeKey' = 0
  /\ generation' = 0

Init ==
  /\ loaded = FALSE
  /\ registrations = [i \in {} |-> 0]
  /\ activeOwner = NoOwner
  /\ activeKey = 0
  /\ generation = 0

-----------------------------------------------------------------------------
Bump == generation' = (generation + 1) % GenerationModulus

Registered(i, k) == i \in DOMAIN registrations /\ registrations[i] = k /\ k # 0

WithKey(i, k) ==
  [x \in DOMAIN registrations \cup {i} |-> IF x = i THEN k ELSE registrations[x]]

\* ensure_reservation_access.
HasAccess(i) == activeOwner \in {NoOwner, i}

\* REGISTER (service action key, else the reservation key), REGISTER AND
\* IGNORE EXISTING KEY: an owner's new key becomes the active key.
RegisterKey(i, k) ==
  /\ loaded /\ k # 0
  /\ registrations' = WithKey(i, k)
  /\ activeKey' = IF activeOwner = i THEN k ELSE activeKey
  /\ Bump
  /\ UNCHANGED <<loaded, activeOwner>>

ReserveKey(i, k) ==
  /\ loaded /\ Registered(i, k) /\ HasAccess(i)
  /\ activeOwner' = i /\ activeKey' = k
  /\ Bump
  /\ UNCHANGED <<loaded, registrations>>

\* Mutant: preempting one's own key drops one's own registration.
PreemptKeySelf(i, k, service) ==
  /\ loaded /\ Registered(i, k) /\ service # 0
  /\ registrations' =
       [x \in {y \in DOMAIN registrations : registrations[y] # service} |->
          registrations[x]]
  /\ activeOwner' = i /\ activeKey' = k
  /\ Bump
  /\ UNCHANGED loaded

\* PREEMPT, PREEMPT AND ABORT: whoever registered the service key loses the
\* registration, except the preempting initiator.
PreemptKey(i, k, service) ==
  /\ loaded /\ Registered(i, k) /\ service # 0
  /\ registrations' =
       [x \in {y \in DOMAIN registrations : y = i \/ registrations[y] # service} |->
          registrations[x]]
  /\ activeOwner' = i /\ activeKey' = k
  /\ Bump
  /\ UNCHANGED loaded

RegisterAndMoveKey(i, k, service, target, unregister) ==
  /\ loaded /\ Registered(i, k) /\ service # 0
  /\ target # i /\ activeOwner = i
  /\ registrations' =
       [x \in (DOMAIN registrations \cup {target}) \ (IF unregister THEN {i} ELSE {}) |->
          WithKey(target, service)[x]]
  /\ activeOwner' = target /\ activeKey' = service
  /\ Bump
  /\ UNCHANGED loaded

\* Mutant: a release goes unreported.
ReleaseKeySilent(i, k) ==
  /\ loaded /\ k # 0
  /\ activeOwner = i /\ activeKey = k
  /\ activeOwner' = NoOwner /\ activeKey' = 0
  /\ UNCHANGED <<loaded, registrations, generation>>

ReleaseKey(i, k) ==
  /\ loaded /\ k # 0
  /\ activeOwner = i /\ activeKey = k
  /\ activeOwner' = NoOwner /\ activeKey' = 0
  /\ Bump
  /\ UNCHANGED <<loaded, registrations>>

ClearKeys(i, k) ==
  /\ loaded /\ Registered(i, k)
  /\ registrations' = [x \in {} |-> 0]
  /\ activeOwner' = NoOwner /\ activeKey' = 0
  /\ Bump
  /\ UNCHANGED loaded

Load ==
  /\ ~loaded /\ loaded' = TRUE
  /\ DefaultReservation

Unload ==
  /\ loaded /\ loaded' = FALSE
  /\ DefaultReservation

\* erase_media mounts the erased layout anew, reservations included.
Erase(i) ==
  /\ loaded /\ HasAccess(i)
  /\ DefaultReservation
  /\ UNCHANGED loaded

Next ==
  \/ Load \/ Unload
  \/ \E i \in Initiator :
       \/ Erase(i)
       \/ \E k \in Key :
            \/ RegisterKey(i, k) \/ ReserveKey(i, k) \/ ReleaseKey(i, k) \/ ClearKeys(i, k)
            \/ \E s \in Key :
                 \/ PreemptKey(i, k, s)
                 \/ \E t \in Initiator, u \in BOOLEAN : RegisterAndMoveKey(i, k, s, t, u)

Spec == Init /\ [][Next]_vars

-----------------------------------------------------------------------------
\* Every variable keeps its type; keys in use are not 0.
TypeOK ==
  /\ loaded \in BOOLEAN
  /\ DOMAIN registrations \subseteq Initiator
  /\ registrations \in [DOMAIN registrations -> Key \ {0}]
  /\ activeOwner \in Initiator \cup {NoOwner}
  /\ activeKey \in Key \cup {0}
  /\ generation \in 0..(GenerationModulus - 1)

\* Whoever holds the reservation is registered, under exactly the key the
\* reservation was taken with: the holder can always release it, and no
\* preemption, move or re-registration leaves a reservation nobody can drop.
OwnerRegistered ==
  IF activeOwner = NoOwner THEN activeKey = 0
  ELSE activeOwner \in DOMAIN registrations /\ registrations[activeOwner] = activeKey

\* PERSISTENT RESERVE IN reports the generation so that an initiator notices
\* changes: registrations or owner change only together with it, or back to
\* the initial state.
GenerationAdvances ==
  [][<<registrations, activeOwner, activeKey>>' # <<registrations, activeOwner, activeKey>>
       => \/ generation' = (generation + 1) % GenerationModulus
          \/ generation' = 0 /\ DOMAIN registrations' = {} /\ activeOwner' = NoOwner]_vars
=============================================================================
