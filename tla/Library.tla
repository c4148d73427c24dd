------------------------------- MODULE Library ------------------------------
(***************************************************************************)
(* The inventory of one virtual library.  Two processes own it together:   *)
(*                                                                         *)
(*   the changer    iscsi/cdb_changer.rs (MOVE MEDIUM, EXCHANGE MEDIUM,    *)
(*                  INITIALIZE ELEMENT STATUS) with the inventory files of *)
(*                  iscsi/cdb_server.rs;                                   *)
(*   management     the control plane's load, unload, export and import    *)
(*                  (resources_handler.go, resources_media_state.go).      *)
(*                                                                         *)
(* They share no lock, only files that are replaced atomically: per drive  *)
(* the cartridge it should hold, and the labels of the slots and of the    *)
(* vault, one copy under the changer's key and one under every other key,  *)
(* of which only management writes the latter.  The files of the import/   *)
(* export port exist too, but both sides only ever write them empty: the   *)
(* changer archives a cartridge moved there into the vault at once.        *)
(*                                                                         *)
(* A changer command reads the files and changes its memory in one step    *)
(* and writes them back one by one.  The import/export flags, which no     *)
(* move consults, and the unit attentions of the changer are left out.     *)
(***************************************************************************)
EXTENDS Integers, FiniteSets

CONSTANTS
  NumCartridges, \* the cartridges, numbered in the order of their ids
  NumSlots,      \* slot_count
  NumDrives,     \* the drives the changer serves
  Budgets        \* bounds: how many of each kind of Event a behaviour has

ASSUME LibraryAssumption ==
  /\ {NumCartridges, NumSlots, NumDrives} \subseteq Nat \ {0}
  /\ NumCartridges <= NumSlots
  /\ Budgets \subseteq [{"command", "op", "listing", "kill", "failure"} -> Nat]

Cartridge == 1..NumCartridges
None      == 0   \* no label, and an address that names no element

\* Element addresses: the slots, the import/export port, the drives.
Slot    == 1..NumSlots
Port    == NumSlots + 1
Drive   == NumSlots + 2 .. NumSlots + 1 + NumDrives
Element == Slot \cup {Port} \cup Drive

Key == {"changer", "other"}

VARIABLES
  slots,     \* <key>.slots: key -> slot -> label
  newest,    \* the key whose slots file was written last
  vault,     \* <key>.vault: key -> set of labels
  loaded,    \* <drive>.state: drive -> label
  mem,       \* the changer's memory: [el: element -> label, src: drive -> address]
  cpc, cjob, \* the changer's next file write, and what it is about to write
  assigned,  \* AssignedSlotAddress of the cartridges in the database
  life,      \* their LifecycleState
  mpc, mjob, \* management's next write, and what it is about to write
  rjob,      \* what a listing that reconciles read and has not saved, if any
  quiet,     \* history: nothing disturbed the last operation of management
  happened,  \* history: "op" of management, "torn" command, "shared" unload
  left       \* bound: the events left

files   == <<slots, newest, vault, loaded>>
changer == <<mem, cpc, cjob>>
db      == <<assigned, life>>
mgmt    == <<mpc, mjob>>
bound   == <<happened, left>>
vars    == <<files, changer, db, mgmt, rjob, quiet, bound>>

\* Commands of hosts, operations and listings of management, processes that
\* die, and writes of files that fail.  A command is "torn" when the changer
\* dies in the middle of it or goes on after a write that failed.
Event == {"command", "op", "listing", "kill", "failure"}

Spend(e, marks) ==
  /\ left[e] > 0
  /\ left' = [left EXCEPT ![e] = @ - 1]
  /\ happened' = happened \cup marks

Low(S) == CHOOSE x \in S : \A y \in S : x <= y

EmptyMemory == [el |-> [a \in Element |-> None], src |-> [d \in Drive |-> None]]

\* Every cartridge sits in its slot, and every file says so.
Init ==
  /\ assigned = [c \in Cartridge |-> c]
  /\ life = [c \in Cartridge |-> "available"]
  /\ slots = [k \in Key |-> [s \in Slot |-> IF s \in Cartridge THEN s ELSE None]]
  /\ newest = "changer"
  /\ vault = [k \in Key |-> {}]
  /\ loaded = [d \in Drive |-> None]
  /\ mem = EmptyMemory
  /\ cpc = "idle" /\ cjob = None
  /\ mpc = "idle" /\ mjob = None
  /\ rjob = {}
  /\ quiet = TRUE
  /\ happened = {} /\ left \in Budgets

-----------------------------------------------------------------------------
(* The changer reads the shared files at the start of every command.       *)

\* sync_changer_slots_from_shared, sync_changer_ie_from_shared.
SyncInventory(m) ==
  [m EXCEPT !.el = [a \in Element |->
     IF a \in Slot THEN slots["changer"][a] ELSE IF a = Port THEN None ELSE m.el[a]]]

\* restore_changer_medium_label: the source slot, else the first empty one,
\* else nowhere.
Restored(m, c, source) ==
  LET free == {s \in Slot : m.el[s] = None}
  IN  IF source \in free THEN [m EXCEPT !.el[source] = c]
      ELSE IF free # {} THEN [m EXCEPT !.el[Low(free)] = c]
      ELSE m

\* remove_changer_medium_label, and the source slot it returns.
Holding(m, c, S) == {a \in S : m.el[a] = c}

Removed(m, c, drive) ==
  LET at == Holding(m, c, Slot \cup {Port})
      d  == Holding(m, c, Drive \ {drive})
  IN  IF at # {} THEN [m EXCEPT !.el[Low(at)] = None]
      ELSE IF d # {} THEN [m EXCEPT !.el[Low(d)] = None, !.src[Low(d)] = None]
      ELSE m

RemovedFrom(m, c, drive) ==
  LET at == Holding(m, c, Slot \cup {Port})
      d  == Holding(m, c, Drive \ {drive})
  IN  IF at # {} THEN Low(at) ELSE IF d # {} THEN m.src[Low(d)] ELSE None

\* Mutant: the label a drive gives up is not looked for elsewhere first.
SyncedDriveKeeping(m, d) ==
  LET now == m.el[d]
      due == loaded[d]
      out == IF now = None THEN m ELSE Restored(m, now, m.src[d])
  IN  IF now = due THEN m
      ELSE IF due = None
        THEN [out EXCEPT !.el[d] = None, !.src[d] = None]
        ELSE [Removed(out, due, d) EXCEPT
                !.el[d] = due, !.src[d] = RemovedFrom(out, due, d)]

\* sync_changer_mount_from_shared for one drive.
SyncedDrive(m, d) ==
  LET now == m.el[d]
      due == loaded[d]
      out == IF now = None THEN m
             ELSE IF due = None THEN Restored(m, now, m.src[d])
             ELSE Restored(Removed(m, now, d), now, m.src[d])
  IN  IF now = due THEN m
      ELSE IF due = None
        THEN [out EXCEPT !.el[d] = None, !.src[d] = None]
        ELSE [Removed(out, due, d) EXCEPT
                !.el[d] = due, !.src[d] = RemovedFrom(out, due, d)]

\* The drives in the order of their addresses.
SyncMounts(m) ==
  LET upTo[n \in 0..NumDrives] ==
        IF n = 0 THEN m ELSE SyncedDrive(upTo[n - 1], NumSlots + 1 + n)
  IN  upTo[NumDrives]

Synced(m) == SyncMounts(SyncInventory(m))

-----------------------------------------------------------------------------
(* Moves in the changer's memory.                                          *)

\* changer_take_medium and the source slot of the medium taken.
Take(m, a) ==
  IF a \in Drive THEN [m EXCEPT !.el[a] = None, !.src[a] = None]
  ELSE IF a \in Element THEN [m EXCEPT !.el[a] = None]
  ELSE m

MediumAt(m, a) == IF a \in Element THEN m.el[a] ELSE None
SourceOf(m, a) == IF a \in Drive THEN m.src[a] ELSE a

\* changer_place_medium: a slot also accepts the label it already shows.
CanPlace(m, a, c) ==
  a \in Element /\ (m.el[a] = None \/ (a \in Slot /\ m.el[a] = c))

Place(m, a, c, source) ==
  IF a \in Drive THEN [m EXCEPT !.el[a] = c, !.src[a] = source]
  ELSE [m EXCEPT !.el[a] = c]

\* auto_archive_ie_media_to_vault: the port is emptied in memory, then the
\* vault is written with the labels read before.
Archived(m) == [m EXCEPT !.el[Port] = None]

\* The command changed the memory to m and goes on to the files.
WriteBack(m) ==
  /\ mem' = Archived(m)
  /\ IF m.el[Port] # None
       THEN cpc' = "vault" /\ cjob' = vault["changer"] \cup {m.el[Port]}
       ELSE cpc' = "slots" /\ cjob' = None

CommandEnds(m) == mem' = m /\ cpc' = "idle" /\ cjob' = None

\* move_medium_changer.  A failure puts the medium back, and no file is written.
Moved(m, source, dest) ==
  LET c == MediumAt(m, source)
      t == Take(m, source)
  IN  IF source = dest \/ c = None \/ ~CanPlace(t, dest, c)
        THEN CommandEnds(m)
        ELSE WriteBack(Place(t, dest, c, SourceOf(m, source)))

\* exchange_medium_changer.  Only the first placement is rolled back.
Exchanged(m, source, dest1, dest2) ==
  LET c  == MediumAt(m, source)
      m1 == Take(m, source)
      x1 == MediumAt(m1, dest1)
      m2 == Take(m1, dest1)
      x2 == MediumAt(m2, dest2)
      m3 == Take(m2, dest2)
      m4 == Place(m3, dest1, c, SourceOf(m, source))
      m5 == IF x1 = None THEN m4 ELSE Place(m4, dest2, x1, SourceOf(m1, dest1))
      m6 == IF x2 = None THEN m5 ELSE Place(m5, source, x2, SourceOf(m2, dest2))
  IN  IF (source = dest1 /\ dest1 = dest2) \/ c = None \/ ~CanPlace(m3, dest1, c)
        THEN CommandEnds(m)
      ELSE IF x1 # None /\ ~CanPlace(m4, dest2, x1) THEN CommandEnds(m4)
      ELSE IF x2 # None /\ ~CanPlace(m5, source, x2) THEN CommandEnds(m5)
      ELSE WriteBack(m6)

-----------------------------------------------------------------------------
(* The changer's commands: dispatch_changer_cdb_with_context.              *)

Address == Element \cup {None}

Begin ==
  /\ cpc = "idle"
  /\ Spend("command", {})
  /\ quiet' = FALSE
  /\ UNCHANGED <<files, db, mgmt, rjob>>

MoveMedium ==
  /\ Begin
  /\ \E source, dest \in Address : Moved(Synced(mem), source, dest)

ExchangeMedium ==
  /\ Begin
  /\ \E source, dest1, dest2 \in Address :
       Exchanged(Synced(mem), source, dest1, dest2)

\* INITIALIZE ELEMENT STATUS: reset_changer_inventory, then the files.
InitializeElementStatus == Begin /\ CommandEnds(Synced(EmptyMemory))

\* Every other command, READ ELEMENT STATUS among them, only reads the files.
OtherCommand == Begin /\ CommandEnds(Synced(mem))

\* The writes that follow a move.  A failed write of the vault ends the
\* command; the failures of the others are only logged.
Disturb == quiet' = FALSE /\ UNCHANGED <<db, mgmt, rjob>>

\* A write that takes effect, or that fails.
Succeeds     == UNCHANGED bound
Fails(marks) == Spend("failure", marks)

WriteVault ==
  /\ cpc = "vault"
  /\ \/ /\ Succeeds
        /\ vault' = [vault EXCEPT !["changer"] = cjob]
        /\ cpc' = "slots"
     \/ /\ Fails({})
        /\ cpc' = "idle" /\ UNCHANGED vault
  /\ cjob' = None
  /\ Disturb /\ UNCHANGED <<slots, newest, loaded, mem>>

\* sync_changer_inventory_to_shared.
WriteSlots ==
  /\ cpc = "slots"
  /\ \/ /\ Succeeds
        /\ slots' = [slots EXCEPT !["changer"] = [s \in Slot |-> mem.el[s]]]
        /\ newest' = "changer"
     \/ Fails({"torn"}) /\ UNCHANGED <<slots, newest>>
  /\ cpc' = "state" /\ cjob' = Low(Drive)
  /\ Disturb /\ UNCHANGED <<vault, loaded, mem>>

\* sync_changer_mount_to_shared, drive after drive.
WriteState ==
  /\ cpc = "state"
  /\ \/ Succeeds /\ loaded' = [loaded EXCEPT ![cjob] = mem.el[cjob]]
     \/ Fails({"torn"}) /\ UNCHANGED loaded
  /\ IF cjob + 1 \in Drive
       THEN cpc' = "state" /\ cjob' = cjob + 1
       ELSE cpc' = "idle" /\ cjob' = None
  /\ Disturb /\ UNCHANGED <<slots, newest, vault, mem>>

\* The changer's process dies and starts again with an empty memory.
Restart ==
  /\ Spend("kill", IF cpc = "idle" THEN {} ELSE {"torn"})
  /\ mem' = EmptyMemory /\ cpc' = "idle" /\ cjob' = None
  /\ Disturb /\ UNCHANGED files

Changer ==
  \/ MoveMedium \/ ExchangeMedium \/ InitializeElementStatus \/ OtherCommand
  \/ WriteVault \/ WriteSlots \/ WriteState \/ Restart

-----------------------------------------------------------------------------
(* Management.                                                             *)

InDrives  == {loaded[d] : d \in Drive} \ {None}
InVaults  == UNION {vault[k] : k \in Key}
InSlots(f) == {f[s] : s \in Slot} \ {None}

\* reconcileMediaState: the lifecycle states the files say.
Reconciled ==
  [c \in Cartridge |->
     IF c \in InDrives THEN "mounted"
     ELSE IF c \in InVaults THEN "exported" ELSE "available"]

\* readLibrarySlotLabels: a copy that holds something, then the newest.
SlotLabels ==
  LET other == CHOOSE k \in Key : k # newest
      full(k) == InSlots(slots[k]) # {}
  IN  IF full(other) /\ ~full(newest) THEN slots[other] ELSE slots[newest]

\* currentSlotAddress.
ShownAt(c) == {s \in Slot : SlotLabels[s] = c}

\* assignedSlotAvailableFor, and occupiedSlotAddresses: the slots assigned to
\* the cartridges that the lifecycle states of next do not call exported.
Assigned(next) == {assigned[c] : c \in {x \in Cartridge : next[x] # "exported"}}

AssignedSlotAvailable(c, next) ==
  /\ \A x \in Cartridge \ {c} :
       next[x] # "exported" => assigned[x] # assigned[c]
  /\ SlotLabels[assigned[c]] \in {None, c}

\* An unload of a cartridge that a second drive was told to hold as well.
UnloadsShared(drive, label) ==
  /\ drive \in Drive /\ label = None
  /\ \E d \in Drive \ {drive} : loaded[d] = loaded[drive]

\* An operation reconciles, checks and saves the cartridge in one step, under
\* the lock of the library; the files follow.
Operate(pc, drive, label) ==
  /\ mpc = "idle"
  /\ Spend("op", {"op"} \cup IF UnloadsShared(drive, label) THEN {"shared"} ELSE {})
  /\ mpc' = pc
  /\ mjob' = [drive |-> drive, label |-> label, slots |-> None, vault |-> {},
              todo |-> Key, key |-> None]
  /\ quiet' = (cpc = "idle" /\ rjob = {})
  /\ UNCHANGED <<files, changer, rjob>>

\* Mutant: the cartridge is not saved as mounted.
LoadUnsaved ==
  \E c \in Cartridge, d \in Drive :
    /\ loaded[d] = None /\ Reconciled[c] = "available"
    /\ Operate("state", d, c)
    /\ life' = Reconciled
    /\ UNCHANGED assigned

\* loadCartridgeIntoDrive.
Load ==
  \E c \in Cartridge, d \in Drive :
    /\ loaded[d] = None /\ Reconciled[c] = "available"
    /\ Operate("state", d, c)
    /\ life' = [Reconciled EXCEPT ![c] = "mounted"]
    /\ UNCHANGED assigned

\* unloadDrive.
Unload ==
  \E d \in Drive :
    /\ loaded[d] # None
    /\ AssignedSlotAvailable(loaded[d], Reconciled)
    /\ Operate("state", d, None)
    /\ life' = [Reconciled EXCEPT ![loaded[d]] = "available"]
    /\ UNCHANGED assigned

\* Mutant: a cartridge that no slot shows is exported all the same.
ExportUnseen ==
  \E c \in Cartridge :
    /\ Reconciled[c] = "available"
    /\ Operate("snapshot", None, None)
    /\ life' = [Reconciled EXCEPT ![c] = "exported"]
    /\ assigned' = [assigned EXCEPT ![c] = IF ShownAt(c) = {} THEN None ELSE Low(ShownAt(c))]

\* exportCartridge: the slot that shows the cartridge becomes its own.
Export ==
  \E c \in Cartridge :
    /\ Reconciled[c] = "available" /\ ShownAt(c) # {}
    /\ Operate("snapshot", None, None)
    /\ life' = [Reconciled EXCEPT ![c] = "exported"]
    /\ assigned' = [assigned EXCEPT ![c] = Low(ShownAt(c))]

\* importCartridge with importSlotForVaultCartridge.
Import ==
  \E c \in Cartridge :
    LET free == Slot \ Assigned(Reconciled)
    IN  /\ Reconciled[c] = "exported"
        /\ AssignedSlotAvailable(c, Reconciled) \/ free # {}
        /\ Operate("snapshot", None, None)
        /\ life' = [Reconciled EXCEPT ![c] = "available"]
        /\ assigned' = [assigned EXCEPT ![c] =
             IF AssignedSlotAvailable(c, Reconciled) THEN @ ELSE Low(free)]

\* Mutant: removeLoadedLabelsFromSlots is left out.
StableSlotLabelsOfLoaded ==
  LET active == {c \in Cartridge : life[c] = "available"}
      claim  == [s \in Slot |-> {c \in active : assigned[c] = s}]
  IN  [s \in Slot |-> IF claim[s] # {} THEN Low(claim[s]) ELSE None]

\* stableSlotLabels and removeLoadedLabelsFromSlots.  The first cartridge
\* assigned to a slot gets it; one that got none stays where the files show it.
StableSlotLabels ==
  LET active  == {c \in Cartridge : life[c] = "available"}
      claim   == [s \in Slot |-> {c \in active : assigned[c] = s}]
      placed  == {Low(claim[s]) : s \in {t \in Slot : claim[t] # {}}}
      kept(s) == /\ SlotLabels[s] \in active \ placed
                 /\ \A t \in 1..s - 1 : claim[t] = {} => SlotLabels[t] # SlotLabels[s]
      label   == [s \in Slot |-> IF claim[s] # {} THEN Low(claim[s])
                                 ELSE IF kept(s) THEN SlotLabels[s] ELSE None]
  IN  [s \in Slot |-> IF label[s] \in InDrives THEN None ELSE label[s]]

Manage == UNCHANGED <<changer, db, rjob>>

\* writeDriveMediaState.
MgmtWriteState ==
  /\ mpc = "state"
  /\ loaded' = [loaded EXCEPT ![mjob.drive] = mjob.label]
  /\ mpc' = "snapshot"
  /\ Manage /\ UNCHANGED <<slots, newest, vault, mjob, quiet, bound>>

\* syncLibrarySlotsToSharedState: what to write is decided first.
MgmtSnapshot ==
  /\ mpc = "snapshot"
  /\ mjob' = [mjob EXCEPT !.slots = StableSlotLabels,
                          !.vault = {c \in Cartridge : life[c] = "exported"}]
  /\ mpc' = "slots"
  /\ Manage /\ UNCHANGED <<files, quiet, bound>>

\* Then written key after key, the slots and the vault of each.
MgmtWriteSlots ==
  /\ mpc = "slots"
  /\ \E k \in mjob.todo :
       /\ slots' = [slots EXCEPT ![k] = mjob.slots]
       /\ newest' = k
       /\ mjob' = [mjob EXCEPT !.key = k, !.todo = @ \ {k}]
  /\ mpc' = "vault"
  /\ Manage /\ UNCHANGED <<vault, loaded, quiet, bound>>

MgmtWriteVault ==
  /\ mpc = "vault"
  /\ vault' = [vault EXCEPT ![mjob.key] = mjob.vault]
  /\ IF mjob.todo = {} THEN mpc' = "idle" /\ mjob' = None
                        ELSE mpc' = "slots" /\ UNCHANGED mjob
  /\ Manage /\ UNCHANGED <<slots, newest, loaded, quiet, bound>>

\* A write fails and the operation with it, or the control plane dies.
MgmtStops ==
  /\ mpc # "idle"
  /\ Spend("kill", {}) \/ Spend("failure", {})
  /\ mpc' = "idle" /\ mjob' = None
  /\ quiet' = FALSE
  /\ Manage /\ UNCHANGED files

\* A listing reconciles without the lock of the library: it reads the rows and
\* the files, and saves whole rows.
ListBegin ==
  /\ rjob = {}
  /\ Spend("listing", {})
  /\ rjob' = {[life |-> Reconciled, assigned |-> assigned]}
  /\ quiet' = (quiet /\ mpc = "idle")
  /\ UNCHANGED <<files, changer, db, mgmt>>

ListEnd ==
  /\ \E r \in rjob : life' = r.life /\ assigned' = r.assigned
  /\ rjob' = {}
  /\ quiet' = (quiet /\ mpc = "idle")
  /\ UNCHANGED <<files, changer, mgmt, bound>>

Management ==
  \/ Load \/ Unload \/ Export \/ Import
  \/ MgmtWriteState \/ MgmtSnapshot \/ MgmtWriteSlots \/ MgmtWriteVault
  \/ MgmtStops \/ ListBegin \/ ListEnd

Next == Changer \/ Management

Spec == Init /\ [][Next]_vars

-----------------------------------------------------------------------------
(* Properties.                                                             *)

Label == Cartridge \cup {None}

\* The elements a memory shows with a label.
Shown(m, c) == {a \in Element : m.el[a] = c}

\* The places of a cartridge in the files: slots, drives and the vault.
SlotsOf(c)  == {s \in Slot : slots["changer"][s] = c}
DrivesOf(c) == {d \in Drive : loaded[d] = c}

Places(c) ==
  Cardinality(SlotsOf(c)) + (IF DrivesOf(c) = {} THEN 0 ELSE 1)
    + (IF c \in InVaults THEN 1 ELSE 0)

\* The files, the changer's memory and the rows of the database are well formed.
TypeOK ==
  /\ slots \in [Key -> [Slot -> Label]] /\ newest \in Key
  /\ vault \in [Key -> SUBSET Cartridge]
  /\ loaded \in [Drive -> Label]
  /\ mem.el \in [Element -> Label] /\ mem.src \in [Drive -> Address]
  /\ assigned \in [Cartridge -> Slot]
  /\ life \in [Cartridge -> {"available", "mounted", "exported"}]

\* Hosts alone neither lose nor copy a cartridge: between two commands every
\* cartridge has one place in the files, and the next command shows it in one
\* element, or in none once it is archived.  This holds through moves between
\* drives, exchanges that fail half way without a rollback, archives whose
\* vault could not be written and restarts between commands, because each
\* command of cdb_changer.rs first replaces its memory by the files.
HostMovesConserve ==
  (happened = {} /\ cpc = "idle") =>
    \A c \in Cartridge :
      /\ Places(c) = 1 /\ Cardinality(DrivesOf(c)) <= 1
      /\ Cardinality(Shown(Synced(mem), c)) = (IF c \in InVaults THEN 0 ELSE 1)

\* Whatever a changer that died between two files, a write that failed or a
\* race left behind, an operation of management that runs undisturbed
\* (syncLibrarySlotsToSharedState) leaves every cartridge in one place: no
\* cartridge has two, and one without a place shares its assigned slot with
\* another available cartridge.
ManagementRepairs ==
  (quiet /\ mpc = "idle") =>
    \A c \in Cartridge :
      \/ Places(c) = 1
      \/ /\ Places(c) = 0
         /\ \E x \in Cartridge \ {c} : life[x] = "available" /\ assigned[x] = assigned[c]

\* After such an operation the database says what the files say, so the next
\* reconcileMediaState changes nothing.  One case is left over: a cartridge
\* that two drives were told to hold is available once one of them is unloaded.
DatabaseAgrees ==
  (quiet /\ mpc = "idle" /\ rjob = {}) =>
    \A c \in Cartridge :
      \/ life[c] = Reconciled[c]
      \/ /\ "shared" \in happened
         /\ life[c] = "available" /\ Reconciled[c] = "mounted"
=============================================================================
