----------------------------- MODULE ProfileCatalog -----------------------------
(***************************************************************************)
(* The profiles of one data directory and the processes that create,       *)
(* import, name, open, recover and remove them (internal/profilecatalog,   *)
(* internal/home and the openers of cmd/moneyflow and the root package).   *)
(*                                                                         *)
(* A caller is a process that does one thing at a time: one catalog        *)
(* operation or one open profile.  The advisory locks follow from where    *)
(* each caller stands, and so a caller that dies gives them back and       *)
(* leaves on disk what it had written.  A listing is one step; every       *)
(* durable write of an operation is a step of its own.                     *)
(*                                                                         *)
(* A database file is one of: no file ("none"), an empty file ("empty"),   *)
(* a file that has pages but no table yet ("blank", what opening a         *)
(* connection leaves before the schema is installed), the current schema   *)
(* without ("pristine") or with content ("populated"), or one this program *)
(* cannot open ("older", "newer", "corrupt").                              *)
(***************************************************************************)
EXTENDS Naturals, FiniteSets

CONSTANTS
  Callers,     \* processes
  Ids,         \* profile IDs, each naming a directory under profiles/
  Root,        \* the profile at the root of the data directory
  Names,       \* display names
  RootName,    \* the name a root profile gets from its provider
  Stamps,      \* start times of recoveries, naming their backups
  NoId, NoName, NoStamp

ASSUME CatalogAssumption ==
  /\ Root \notin Ids /\ NoId \notin Ids
  /\ RootName \in Names /\ NoName \notin Names

Places == Ids \cup {Root}

VARIABLES
  dir,       \* what is at profiles/<id>: absent, reserved (a lock file only),
             \* present, or retired (the lock file's byte is written)
  manifest,  \* the manifest of each place
  main,      \* the database file of each place
  wal,       \* whether a write-ahead log of the old database lies beside it
  backup,    \* the recovery backups of each place, by start time
  call       \* what each caller is doing, and the recovery plan it was shown

vars == <<dir, manifest, main, wal, backup, call>>

Manifest(id, name) == [id |-> id, name |-> name]
NoManifest == Manifest(NoId, NoName)
NoBackup == [made |-> FALSE, main |-> "none", wal |-> FALSE, marker |-> NoId]

NoPlan == [key |-> NoId, id |-> NoId, stamp |-> NoStamp, code |-> "none"]
Idle == [pc |-> "idle", root |-> Root, id |-> NoId, name |-> NoName,
         stamp |-> NoStamp, keep |-> FALSE, plan |-> NoPlan]
At(pc, root) == [Idle EXCEPT !.pc = pc, !.root = root]

Current == {"pristine", "populated"}
Classes == {"none", "empty", "blank", "older", "newer", "corrupt"} \cup Current

-----------------------------------------------------------------------------
(* Locks                                                                   *)

InstallPcs == {"creating", "created", "importing", "copied", "imported"}
RecoveryPcs == {"marking", "rolling", "main", "install", "schema", "tables",
                "finish"}
HoldsCatalog(c) == call[c].pc \in InstallPcs \cup {"removing"}
HoldsProfile(c, r) ==
  call[c].root = r /\ call[c].pc \in InstallPcs \cup RecoveryPcs
UsesProfile(c, r) == call[c].root = r /\ call[c].pc = "open"

CatalogFree == \A c \in Callers : ~HoldsCatalog(c)
Sharable(r) == \A c \in Callers : ~HoldsProfile(c, r)
\* Mutant of Lockable: an open session does not hold the shared lock.
MutantLockable(r) == \A c \in Callers : ~HoldsProfile(c, r)

Lockable(r) == \A c \in Callers : ~HoldsProfile(c, r) /\ ~UsesProfile(c, r)

\* A lock of a profile needs its directory and finds it not retired.
Exists(r) == r # Root => dir[r] \in {"reserved", "present"}

-----------------------------------------------------------------------------
(* Discovery                                                               *)

Markers(r) == {s \in Stamps : backup[r][s].marker # NoId}
Active(r) == Markers(r) # {}
ActiveStamp(r) == CHOOSE s \in Markers(r) : TRUE

\* A nested directory without a manifest is unfinished; the root profile is
\* there as soon as it has a manifest, a database or a recovery.
Visible(r) ==
  IF r = Root THEN manifest[r] # NoManifest \/ main[r] # "none" \/ Active(r)
  ELSE dir[r] = "present" /\ manifest[r] # NoManifest

\* What makes a listing fail outright.
Unlistable(r) ==
  \/ Cardinality(Markers(r)) > 1
  \/ r = Root /\ manifest[r] # NoManifest /\ main[r] = "none" /\ ~Active(r)

CanList ==
  /\ CatalogFree
  /\ \A r \in Places : Sharable(r) /\ ~Unlistable(r)

NeedsRecovery(r) == Active(r) \/ main[r] \in {"older", "corrupt"}
RequiresNewer(r) == ~Active(r) /\ main[r] = "newer"

\* The name an entry is listed under, unless it is a placeholder.
EntryName(r) ==
  IF manifest[r] # NoManifest THEN manifest[r].name
  ELSE IF ~NeedsRecovery(r) /\ ~RequiresNewer(r) THEN RootName ELSE NoName

NameTaken(name, places) ==
  \E r \in places : Visible(r) /\ EntryName(r) = name

-----------------------------------------------------------------------------
(* Steps                                                                   *)

Goto(c, value) == call' = [call EXCEPT ![c] = value]
Advance(c, pc) == Goto(c, [call[c] EXCEPT !.pc = pc])
Stop(c) == Goto(c, Idle)
DiskKept == UNCHANGED <<dir, manifest, main, wal, backup>>

\* Mutant of Opens: a corrupt file is replaced like a missing one.
MutantOpens(r) == main[r] \notin {"older", "newer"}

\* sqlite.Open: creates what is missing, refuses what it cannot read.
Opens(r) == main[r] \notin {"older", "newer", "corrupt"}
Opened(r) == IF main[r] \in Current THEN main[r] ELSE "pristine"

(* Opening a profile.  The terminal, the web and the embedded server look  *)
(* at the status of the entry; the bank CSV and Amazon imports and the     *)
(* Amazon taxonomy copy do not.                                            *)
Select(c) ==
  /\ call[c].pc = "idle" /\ CanList
  /\ \E r \in Places, checked \in BOOLEAN :
       /\ Visible(r)
       /\ checked => ~NeedsRecovery(r) /\ ~RequiresNewer(r)
       /\ Goto(c, [At(IF manifest[r] = NoManifest THEN "activate" ELSE "selected", r)
                     EXCEPT !.id = manifest[r].id])
  /\ DiskKept

\* An interactive start in an empty catalog installs the root profile, under
\* no lock.
SelectFirst(c) ==
  /\ call[c].pc = "idle" /\ CanList
  /\ \A r \in Places : ~Visible(r)
  /\ Goto(c, At("first", Root))
  /\ DiskKept

InstallFirst(c) ==
  /\ call[c].pc = "first"
  /\ IF main[Root] \in {"none", "empty"}
     THEN main' = [main EXCEPT ![Root] = "pristine"] /\ Advance(c, "activate")
     ELSE Stop(c) /\ UNCHANGED main
  /\ UNCHANGED <<dir, manifest, wal, backup>>

OpenSelected(c) ==
  LET r == call[c].root IN
  /\ call[c].pc = "selected"
  /\ IF Exists(r) /\ Sharable(r) /\ manifest[r].id = call[c].id /\ Opens(r)
     THEN /\ main' = [main EXCEPT ![r] = Opened(r)]
          /\ Advance(c, "open")
     ELSE Stop(c) /\ UNCHANGED main
  /\ UNCHANGED <<dir, manifest, wal, backup>>

Write(c) ==
  /\ call[c].pc = "open" /\ main[call[c].root] = "pristine"
  /\ main' = [main EXCEPT ![call[c].root] = "populated"]
  /\ UNCHANGED <<dir, manifest, wal, backup, call>>

CloseOpen(c) ==
  /\ call[c].pc = "open" /\ Stop(c)
  /\ DiskKept

-----------------------------------------------------------------------------
(* The manifest of the root profile                                        *)

\* IDs drawn for a recovery that has written no marker yet: nobody else draws
\* them, and no export has them.
Drawn(i) ==
  \E c \in Callers :
    call[c].pc \in {"planned", "confirmed", "marking"} /\ call[c].plan.id = i

TakenByRoot(i) == manifest[Root].id = i \/ \E s \in Stamps : backup[Root][s].marker = i

\* IDs that random generation will not repeat.
UsedIds == {i \in Ids : dir[i] # "absent" \/ TakenByRoot(i) \/ Drawn(i)}

\* The provider's name, numbered when a nested profile has it.
FreshNames ==
  LET free == {n \in Names : ~NameTaken(n, Ids)}
  IN  IF RootName \in free THEN {RootName} ELSE free

\* Mutant of MayFinalize: any start may finalize while a recovery is active.
MutantMayFinalize(id) ==
  IF manifest[Root] # NoManifest THEN id \in {NoId, manifest[Root].id} /\ main[Root] # "corrupt"
  ELSE Opens(Root) /\ \A i \in Ids : Sharable(i)

\* Whether FinalizeLegacyManifest, asked for an ID or for none, gets past its
\* checks; an existing manifest is left as it is.
MayFinalize(id) ==
  /\ Active(Root) => id = backup[Root][ActiveStamp(Root)].marker
  /\ IF manifest[Root] # NoManifest
     THEN id \in {NoId, manifest[Root].id} /\ main[Root] # "corrupt"
     ELSE Opens(Root) /\ \A i \in Ids : Sharable(i)

Finalize(c, id, then) ==
  /\ CatalogFree /\ Sharable(Root)
  /\ IF ~MayFinalize(id) THEN Stop(c) /\ UNCHANGED <<manifest, main>>
     ELSE IF manifest[Root] # NoManifest
     THEN /\ Goto(c, [call[c] EXCEPT !.pc = then, !.id = manifest[Root].id])
          /\ UNCHANGED <<manifest, main>>
     ELSE \E i \in IF id = NoId THEN Ids \ UsedIds ELSE {id}, n \in FreshNames :
            /\ manifest' = [manifest EXCEPT ![Root] = Manifest(i, n)]
            /\ main' = [main EXCEPT ![Root] = Opened(Root)]
            /\ Goto(c, [call[c] EXCEPT !.pc = then, !.id = i])

Activate(c) ==
  /\ call[c].pc = "activate" /\ Finalize(c, NoId, "selected")
  /\ UNCHANGED <<dir, wal, backup>>

-----------------------------------------------------------------------------
(* Recovery                                                                *)

Key(r) == manifest[r].id

Planned(c, p) == Goto(c, [Idle EXCEPT !.pc = "planned", !.plan = p])

\* RecoveryPlan: an active recovery as its marker says, or a new one with a
\* backup of its own and, for a root without a manifest, an ID of its own.
Plan(c) ==
  /\ call[c].pc = "idle" /\ CanList
  /\ \E r \in Places :
       /\ Visible(r) /\ NeedsRecovery(r) /\ ~RequiresNewer(r)
       /\ IF Active(r)
          THEN Planned(c, [key |-> Key(r), id |-> backup[r][ActiveStamp(r)].marker,
                           stamp |-> ActiveStamp(r), code |-> "none"])
          ELSE \E s \in Stamps, i \in IF Key(r) = NoId THEN Ids \ UsedIds ELSE {Key(r)} :
                 /\ ~backup[r][s].made
                 /\ Planned(c, [key |-> Key(r), id |-> i, stamp |-> s, code |-> main[r]])
  /\ DiskKept

\* Recreate lists the catalog again and takes the entry the plan names ...
Recreate(c) ==
  LET p == call[c].plan IN
  /\ call[c].pc = "planned" /\ CanList
  /\ \E r \in Places :
       /\ Visible(r) /\ Key(r) = p.key /\ ~RequiresNewer(r)
       /\ Goto(c, [call[c] EXCEPT !.pc = "confirmed", !.root = r, !.id = p.id,
                                  !.stamp = p.stamp, !.keep = p.key = NoId])
  /\ DiskKept

MayResume(r, p) ==
  /\ Active(r) /\ p.stamp = ActiveStamp(r)
  /\ backup[r][p.stamp].marker = p.id

MayBegin(r, p) ==
  /\ ~Active(r) /\ p.code = main[r] /\ main[r] \in {"older", "corrupt"}
  /\ p.key # NoId => p.id = p.key
  /\ ~backup[r][p.stamp].made

\* ... and under the profile's lock resumes the recovery the plan describes,
\* or checkpoints the old database and makes a directory for its backup.
BeginRecovery(c) ==
  LET r == call[c].root
      p == call[c].plan
  IN
  /\ call[c].pc = "confirmed"
  /\ \/ /\ Exists(r) /\ Lockable(r) /\ MayResume(r, p)
        /\ Goto(c, [call[c] EXCEPT !.pc = "rolling", !.plan = NoPlan])
        /\ UNCHANGED <<wal, backup>>
     \/ /\ Exists(r) /\ Lockable(r) /\ MayBegin(r, p)
        /\ \E left \in IF main[r] = "corrupt" THEN {FALSE, wal[r]} ELSE {FALSE} :
             wal' = [wal EXCEPT ![r] = left]
        /\ backup' = [backup EXCEPT ![r][p.stamp].made = TRUE]
        /\ Advance(c, "marking")
     \/ /\ ~(Exists(r) /\ Lockable(r) /\ (MayResume(r, p) \/ MayBegin(r, p)))
        /\ Stop(c) /\ UNCHANGED <<wal, backup>>
  /\ UNCHANGED <<dir, manifest, main>>

Mine(c) == backup[call[c].root][call[c].stamp]

WriteMarker(c) ==
  /\ call[c].pc = "marking"
  /\ backup' = [backup EXCEPT ![call[c].root][call[c].stamp].marker = call[c].id]
  /\ Goto(c, [call[c] EXCEPT !.pc = "rolling", !.plan = NoPlan])
  /\ UNCHANGED <<dir, manifest, main, wal>>

\* After the last step: a recovery of a root without a manifest keeps its
\* marker until the manifest is there, and for that gives up its lock.
Verified(c) == Advance(c, IF call[c].keep THEN "finalize" ELSE "finish")

\* recoveryAction, and the first move of an old database: its log.
RollForward(c) ==
  LET r == call[c].root IN
  /\ call[c].pc = "rolling"
  /\ \/ /\ Mine(c).main = "none" /\ main[r] \notin {"none", "newer"}
        /\ ~(wal[r] /\ Mine(c).wal)
        /\ backup' = [backup EXCEPT ![r][call[c].stamp].wal = @ \/ wal[r]]
        /\ wal' = [wal EXCEPT ![r] = FALSE]
        /\ Advance(c, "main")
     \/ /\ Mine(c).main # "none" /\ main[r] \in {"none", "empty", "blank"}
        /\ Advance(c, "install") /\ UNCHANGED <<wal, backup>>
     \/ /\ Mine(c).main # "none" /\ main[r] = "pristine"
        /\ Verified(c) /\ UNCHANGED <<wal, backup>>
     \/ /\ \/ Mine(c).main = "none" /\ (main[r] \in {"none", "newer"} \/ (wal[r] /\ Mine(c).wal))
           \/ Mine(c).main # "none" /\ main[r] \in {"older", "newer", "corrupt", "populated"}
        /\ Stop(c) /\ UNCHANGED <<wal, backup>>
  /\ UNCHANGED <<dir, manifest, main>>

\* Mutant of MoveMain: the old database is copied and stays in its place.
MutantMoveMain(c) ==
  LET r == call[c].root IN
  /\ call[c].pc = "main"
  /\ backup' = [backup EXCEPT ![r][call[c].stamp].main = main[r]]
  /\ Advance(c, "install")
  /\ UNCHANGED <<dir, manifest, main, wal>>

MoveMain(c) ==
  LET r == call[c].root IN
  /\ call[c].pc = "main"
  /\ backup' = [backup EXCEPT ![r][call[c].stamp].main = main[r]]
  /\ main' = [main EXCEPT ![r] = "none"]
  /\ Advance(c, "install")
  /\ UNCHANGED <<dir, manifest, wal>>

\* The replacement starts as an empty file; anything else is refused.
CreateEmpty(c) ==
  LET r == call[c].root IN
  /\ call[c].pc = "install"
  /\ IF main[r] \in {"none", "empty"}
     THEN main' = [main EXCEPT ![r] = "empty"] /\ Advance(c, "schema")
     ELSE Stop(c) /\ UNCHANGED main
  /\ UNCHANGED <<dir, manifest, wal, backup>>

\* Connecting gives the file its first page, the transaction its tables.
ConnectReplacement(c) ==
  /\ call[c].pc = "schema"
  /\ main' = [main EXCEPT ![call[c].root] = "blank"]
  /\ Advance(c, "tables")
  /\ UNCHANGED <<dir, manifest, wal, backup>>

InstallTables(c) ==
  /\ call[c].pc = "tables"
  /\ main' = [main EXCEPT ![call[c].root] = "pristine"]
  /\ Verified(c)
  /\ UNCHANGED <<dir, manifest, wal, backup>>

FinalizeRecovered(c) ==
  /\ call[c].pc = "finalize" /\ Finalize(c, call[c].id, "relock")
  /\ UNCHANGED <<dir, wal, backup>>

\* finishRecovery, for a root that kept its marker under the lock taken again.
FinishRecovery(c) ==
  LET r == call[c].root IN
  /\ call[c].pc \in {"finish", "relock"}
  /\ backup' = IF call[c].pc = "finish" \/ Lockable(r)
               THEN [backup EXCEPT ![r][call[c].stamp].marker = NoId]
               ELSE backup
  /\ Stop(c)
  /\ UNCHANGED <<dir, manifest, main, wal>>

-----------------------------------------------------------------------------
(* Creating, importing, naming and removing                                *)

Reserve(c, i, name, pc) ==
  /\ dir' = [dir EXCEPT ![i] = "reserved"]
  /\ Goto(c, [At(pc, i) EXCEPT !.id = i, !.name = name])

\* Create: an ID nobody has and a name no listed profile has.
CreateReserve(c) ==
  /\ call[c].pc = "idle" /\ CanList
  /\ \E i \in Ids \ UsedIds, name \in Names :
       ~NameTaken(name, Places) /\ Reserve(c, i, name, "creating")
  /\ UNCHANGED <<manifest, main, wal, backup>>

\* Import lists what it can and refuses while a process holds any profile;
\* it comes with the ID and the name of the profile that was exported.
ImportReserve(c) ==
  /\ call[c].pc = "idle" /\ CatalogFree
  /\ \A r \in Places : Sharable(r)
  /\ \E i \in Ids, name \in Names :
       /\ ~Drawn(i) /\ ~TakenByRoot(i)
       /\ dir[i] \in {"absent", "reserved"}
       /\ ~NameTaken(name, Places)
       /\ Reserve(c, i, name, "importing")
  /\ UNCHANGED <<manifest, main, wal, backup>>

\* The database of a new profile: the schema, what a demo or a CSV file fills
\* it with, or the copy an import brings.
Fill(c) ==
  LET r == call[c].root IN
  /\ call[c].pc \in {"creating", "importing"}
  /\ dir' = [dir EXCEPT ![r] = "present"]
  /\ \E class \in Current : main' = [main EXCEPT ![r] = class]
  /\ Advance(c, IF call[c].pc = "creating" THEN "created" ELSE "copied")
  /\ UNCHANGED <<manifest, wal, backup>>

WriteManifest(c) ==
  LET r == call[c].root IN
  /\ call[c].pc \in {"created", "copied"}
  /\ manifest' = [manifest EXCEPT ![r] = Manifest(call[c].id, call[c].name)]
  /\ IF call[c].pc = "created" THEN Stop(c) ELSE Advance(c, "imported")
  /\ UNCHANGED <<dir, main, wal, backup>>

FinishImport(c) ==
  /\ call[c].pc = "imported" /\ Stop(c)
  /\ DiskKept

Erase(r) ==
  /\ dir' = [dir EXCEPT ![r] = "absent"]
  /\ manifest' = [manifest EXCEPT ![r] = NoManifest]
  /\ main' = [main EXCEPT ![r] = "none"]
  /\ wal' = [wal EXCEPT ![r] = FALSE]
  /\ backup' = [backup EXCEPT ![r] = [s \in Stamps |-> NoBackup]]

Retire(c, r) ==
  /\ dir' = [dir EXCEPT ![r] = "retired"]
  /\ Goto(c, At("removing", r))

\* A failed Create deletes its directory; a failed Import retires it first.
FailCreate(c) ==
  /\ call[c].pc \in {"creating", "created"}
  /\ Erase(call[c].root) /\ Stop(c)

FailImport(c) ==
  /\ call[c].pc \in {"importing", "copied", "imported"}
  /\ Retire(c, call[c].root)
  /\ UNCHANGED <<manifest, main, wal, backup>>

Cancelable(r) ==
  /\ manifest[r].id = r /\ main[r] = "pristine"
  /\ \A s \in Stamps : ~backup[r][s].made

\* Remove, and CancelNewProfile, which takes only a profile never used.  What
\* an earlier attempt retired is deleted without asking again.
Detach(c) ==
  /\ call[c].pc = "idle" /\ CatalogFree
  /\ \E i \in Ids, cancel \in BOOLEAN :
       /\ \/ dir[i] = "retired"
          \/ Exists(i) /\ Lockable(i) /\ (cancel => Cancelable(i))
       /\ Retire(c, i)
  /\ UNCHANGED <<manifest, main, wal, backup>>

Delete(c) ==
  /\ call[c].pc = "removing"
  /\ Erase(call[c].root) /\ Stop(c)

Rename(c) ==
  /\ call[c].pc = "idle" /\ CanList
  /\ \E r \in Places, name \in Names :
       /\ Visible(r) /\ manifest[r] # NoManifest /\ name # manifest[r].name
       /\ ~NameTaken(name, Places \ {r})
       /\ manifest' = [manifest EXCEPT ![r].name = name]
  /\ UNCHANGED <<dir, main, wal, backup, call>>

\* A process that dies, and an operation that fails and has nothing to undo.
Crash(c) ==
  /\ call[c].pc # "idle" /\ Stop(c)
  /\ DiskKept

-----------------------------------------------------------------------------
Step(c) ==
  \/ Select(c) \/ SelectFirst(c) \/ InstallFirst(c) \/ Activate(c)
  \/ OpenSelected(c) \/ Write(c) \/ CloseOpen(c)
  \/ Plan(c) \/ Recreate(c) \/ BeginRecovery(c) \/ WriteMarker(c)
  \/ RollForward(c) \/ MoveMain(c) \/ CreateEmpty(c) \/ ConnectReplacement(c)
  \/ InstallTables(c) \/ FinalizeRecovered(c) \/ FinishRecovery(c)
  \/ CreateReserve(c) \/ ImportReserve(c) \/ Fill(c) \/ WriteManifest(c)
  \/ FinishImport(c) \/ FailCreate(c) \/ FailImport(c)
  \/ Detach(c) \/ Delete(c) \/ Rename(c) \/ Crash(c)

Next == \E c \in Callers : Step(c)

\* What earlier runs of this program, of an older or of a newer one may have
\* left: complete profiles, and a root profile with or without a manifest.
Init ==
  /\ dir \in [Ids -> {"absent", "present"}]
  /\ manifest \in [Places -> [id : Ids \cup {NoId}, name : Names \cup {NoName}]]
  /\ \A r \in Places : manifest[r].id = NoId <=> manifest[r].name = NoName
  /\ \A i \in Ids : manifest[i].id = IF dir[i] = "present" THEN i ELSE NoId
  /\ \A r, s \in Places : r # s /\ manifest[r] # NoManifest =>
       manifest[r].id # manifest[s].id /\ manifest[r].name # manifest[s].name
  /\ main \in [Places -> {"none", "older", "newer", "corrupt"} \cup Current]
  /\ \A i \in Ids : main[i] = "none" <=> dir[i] = "absent"
  /\ manifest[Root] # NoManifest => main[Root] # "none"
  /\ manifest[Root].id \in Ids => dir[manifest[Root].id] = "absent"
  /\ wal \in [Places -> BOOLEAN]
  /\ \A r \in Places : wal[r] => main[r] \in {"older", "corrupt"}
  /\ backup = [r \in Places |-> [s \in Stamps |-> NoBackup]]
  /\ call = [c \in Callers |-> Idle]

Spec == Init /\ [][Next]_vars

-----------------------------------------------------------------------------
(* Properties                                                              *)

\* The types of the variables; a manifest has both an ID and a name.
TypeOK ==
  /\ dir \in [Ids -> {"absent", "reserved", "present", "retired"}]
  /\ manifest \in [Places -> [id : Ids \cup {NoId}, name : Names \cup {NoName}]]
  /\ \A r \in Places : manifest[r].id = NoId <=> manifest[r].name = NoName
  /\ main \in [Places -> Classes] /\ wal \in [Places -> BOOLEAN]
  /\ backup \in [Places -> [Stamps -> [made : BOOLEAN, main : Classes,
                                       wal : BOOLEAN, marker : Ids \cup {NoId}]]]
  /\ \A c \in Callers : call[c].root \in Places /\ call[c].id \in Ids \cup {NoId}

\* No two installed profiles share a name, an ID, or an ID that the recovery
\* of the root profile has reserved (displayNameConflict, reservedID).
ProfilesDiffer ==
  /\ \A r, s \in Places :
       r # s /\ Visible(r) /\ Visible(s) /\ manifest[r] # NoManifest
       => manifest[r].name # manifest[s].name
  /\ \A i \in Ids : dir[i] = "present" =>
       manifest[Root].id # i /\ \A s \in Stamps : backup[Root][s].marker # i

\* Nothing an operation leaves behind, finished or not, makes the listing of
\* the whole catalog fail: a place has one recovery at most, of the profile its
\* manifest names, and a root with a manifest has a database or a recovery.
CatalogStaysListable ==
  \A r \in Places :
    /\ ~Unlistable(r)
    /\ Active(r) /\ manifest[r] # NoManifest
       => backup[r][ActiveStamp(r)].marker = manifest[r].id

\* The log of a moved database never lies beside its replacement, whatever
\* step a recovery stopped at (moveRecoveryFile moves the log first).
NoForeignLog ==
  \A r \in Places : wal[r] => main[r] \in {"older", "newer", "corrupt"}

\* While a session has a profile open, nobody moves, replaces, retires or
\* deletes it.
OpenStaysInPlace ==
  \A c \in Callers : call[c].pc = "open" =>
    LET r == call[c].root IN
    /\ r # Root => dir[r] = "present"
    /\ main[r] \in Current /\ manifest[r].id = call[c].id

\* What a recovery left unfinished can be resumed: the old database is either
\* still in its place or backed up with room for the replacement.  A torn
\* schema installation and an import into the half-recovered profile are the
\* two ways out of this; recoveryAction or the installer then refuses for ever.
Refused == {"blank", "populated"}
Resumable(r) ==
  LET old == backup[r][ActiveStamp(r)] IN
  IF old.main = "none" THEN main[r] \notin {"none", "newer"} /\ ~(wal[r] /\ old.wal)
  ELSE main[r] \in {"none", "empty", "pristine"} \cup Refused
RecoveryResumes ==
  \A r \in Places : Active(r) => Resumable(r)

\* Names and IDs stay unique, and nothing left behind makes the listing of the whole catalog fail
\* (ProfilesDiffer, CatalogStaysListable).
CatalogStaysSound == TypeOK /\ ProfilesDiffer /\ CatalogStaysListable

\* Whatever step a recovery died at, it can be resumed, and the old log never meets the new database
\* (RecoveryResumes, NoForeignLog).
RecoverySurvivesCrashes == RecoveryResumes /\ NoForeignLog

\* "A partially moved database is not silently opened as a healthy profile."
PartialNotOpened ==
  \A c \in Callers : call[c].pc = "open" => ~Active(call[c].root)

\* No step loses a database that holds something, or a backup of one: it stays
\* where it is, it becomes the backup, or it goes with a profile that was
\* retired; and what is retired was asked for by Remove or is a failed import.
Precious == {"populated", "older", "newer", "corrupt"}
DataKept ==
  [][\A r \in Places :
       (r # Root => dir[r] # "retired") =>
         /\ main[r] \in Precious /\ main'[r] # main[r]
            => \/ \E s \in Stamps :
                   backup[r][s].main = "none" /\ backup'[r][s].main = main[r]
               \/ \E c \in Callers : call[c].pc = "created" /\ call[c].root = r
         /\ \A s \in Stamps : backup[r][s].main \in Precious
            => backup'[r][s].main = backup[r][s].main]_vars
=============================================================================
