-------------------------- MODULE ProfileCatalogProofs --------------------------
(***************************************************************************)
(* Safety of ProfileCatalog for every set of callers, profiles, names and   *)
(* start times.                                                             *)
(*                                                                          *)
(* The locks are not state: they follow from where the callers stand, and a *)
(* caller that waits between two steps holds what its pc says.  So the      *)
(* invariant says of every pc what its holder may rely on (Session,         *)
(* Removal, Installation, Begins, Recovery, Ending), the locks give the     *)
(* disjointness (Locked), and the rest is what the disk looks like to       *)
(* whoever comes next, a restarted process included (Sound).                *)
(***************************************************************************)
EXTENDS ProfileCatalog, FiniteSetTheorems, TLAPS

Planning == {"planned", "confirmed", "marking"}
Marked == RecoveryPcs \ {"marking"}
Replacing == {"install", "schema", "tables"}
Endings == {"finalize", "relock"}
Old == {"older", "corrupt"}
Fresh == {"none", "empty", "blank", "pristine"}

Pcs == InstallPcs \cup RecoveryPcs \cup Planning \cup Endings \cup
       {"idle", "first", "activate", "selected", "open", "removing"}

PlanType == [key : Ids \cup {NoId}, id : Ids \cup {NoId},
             stamp : Stamps \cup {NoStamp}, code : Classes]
CallType == [pc : Pcs, root : Places, id : Ids \cup {NoId}, name : Names \cup {NoName},
             stamp : Stamps \cup {NoStamp}, keep : BOOLEAN, plan : PlanType]

Typed == TypeOK /\ call \in [Callers -> CallType]

\* A profile's exclusive lock keeps everybody else out of it; one caller has the catalog lock.
Locked ==
  /\ \A c, d \in Callers :
       /\ call[c].root = call[d].root
       /\ call[c].pc \in InstallPcs \cup RecoveryPcs
       /\ call[d].pc \in InstallPcs \cup RecoveryPcs \cup {"open"}
       => c = d
  /\ \A c, d \in Callers : HoldsCatalog(c) /\ HoldsCatalog(d) => c = d

\* An open session has the profile it selected.
Session(c) ==
  LET r == call[c].root IN
  /\ call[c].pc \in {"selected", "open"} => call[c].id # NoId
  /\ call[c].pc = "open" =>
       /\ r # Root => dir[r] = "present"
       /\ main[r] \in Current /\ manifest[r].id = call[c].id

\* What is being deleted was retired.
Removal(c) ==
  call[c].pc = "removing" => call[c].root \in Ids /\ dir[call[c].root] = "retired"

Installed(r) == manifest[r] # NoManifest /\ (r # Root => dir[r] = "present")

\* A new profile has no manifest and no recovery until its own, and nobody takes its name.
Installation(c) ==
  LET r == call[c].root IN
  call[c].pc \in InstallPcs =>
    /\ r \in Ids /\ call[c].id = r /\ call[c].name \in Names
    /\ dir[r] = IF call[c].pc \in {"creating", "importing"} THEN "reserved" ELSE "present"
    /\ \A s \in Stamps : backup[r][s].marker = NoId /\ backup[r][s].main = "none"
    /\ call[c].pc # "imported" =>
         /\ manifest[r] = NoManifest
         /\ \A q \in Places : Installed(q) => manifest[q].name # call[c].name

\* A plan that draws an ID keeps it free, and a confirmed plan is of the profile it says: a root
\* that got a manifest since cannot be old any more.
Begins(c) ==
  LET r == call[c].root
      p == call[c].plan
  IN
  /\ call[c].pc \in Planning =>
       /\ p.id \in Ids /\ p.stamp \in Stamps
       /\ p.key = NoId => dir[p.id] = "absent"
  /\ call[c].pc \in {"confirmed", "marking"} =>
       /\ call[c].id = p.id /\ call[c].stamp = p.stamp
       /\ call[c].keep <=> p.key = NoId
       /\ r \in Ids => p.key = r
       /\ r = Root /\ p.key # NoId => manifest[Root].id = p.key
       /\ r = Root /\ p.key = NoId /\ main[Root] \in Old => manifest[Root] = NoManifest

\* Where a recovery stands, its marker, the backup and the database agree.
Recovery(c) ==
  LET r == call[c].root IN
  call[c].pc \in RecoveryPcs =>
    /\ r \in Ids => dir[r] = "present"
    /\ call[c].id \in Ids /\ call[c].stamp \in Stamps
    /\ call[c].keep => r = Root
    /\ r = Root /\ ~call[c].keep => manifest[Root] # NoManifest
    /\ call[c].pc = "marking" =>
         /\ \A s \in Stamps : backup[r][s].marker = NoId
         /\ main[r] \in Old /\ Mine(c).main = "none" /\ ~Mine(c).wal /\ Mine(c).made
         /\ call[c].plan.key # NoId => call[c].id = call[c].plan.key
    /\ call[c].pc \in Marked => Mine(c).marker = call[c].id
    /\ call[c].pc = "main" => Mine(c).main = "none" /\ main[r] \in Old /\ ~wal[r]
    /\ call[c].pc \in Replacing => Mine(c).main # "none" /\ main[r] \in Fresh
    /\ call[c].pc \in {"schema", "tables"} => main[r] # "none"
    /\ call[c].pc = "finish" => ~call[c].keep /\ main[r] \in Current

\* A recovered root without a manifest gets the one its marker names, and its database stays.
Ending(c) ==
  call[c].pc \in Endings =>
    /\ call[c].root = Root /\ call[c].id \in Ids /\ call[c].stamp \in Stamps
    /\ main[Root] \in Current
    /\ \A d \in Callers : call[d].root = Root => call[d].pc \notin Replacing
    /\ \/ manifest[Root] # NoManifest
       \/ call[c].pc = "finalize" /\ Mine(c).marker = call[c].id

\* Each directory has the manifest of its own ID, and what has not been filled is empty.
Directories ==
  \A i \in Ids :
    /\ manifest[i].id \in {i, NoId}
    /\ dir[i] \in {"absent", "reserved"} =>
         /\ manifest[i] = NoManifest /\ main[i] = "none"
         /\ \A s \in Stamps : backup[i][s].marker = NoId /\ backup[i][s].main = "none"

\* The root profile's ID, or the one its recovery reserved, has no directory.
RootIdFree == \A i \in Ids : TakenByRoot(i) => dir[i] = "absent"

NamesDiffer ==
  \A r, s \in Places : r # s /\ Installed(r) /\ Installed(s) => manifest[r].name # manifest[s].name

\* A place has one recovery at most, of the profile its manifest names, and a database in its
\* place or in the backup; without a recovery the root profile's manifest comes with a database.
Recoverable ==
  /\ \A r \in Places, s, t \in Stamps :
       backup[r][s].marker # NoId /\ backup[r][t].marker # NoId => s = t
  /\ \A r \in Places, s \in Stamps :
       LET old == backup[r][s] IN
       /\ ~old.made => old.main = "none" /\ ~old.wal /\ old.marker = NoId
       /\ old.marker # NoId /\ manifest[r] # NoManifest => old.marker = manifest[r].id
       /\ old.marker # NoId =>
            IF old.main = "none" THEN main[r] \in Old /\ ~(wal[r] /\ old.wal)
            ELSE main[r] \in Fresh \cup {"populated"}
  /\ manifest[Root] # NoManifest /\ main[Root] = "none" =>
       \E s \in Stamps : backup[Root][s].marker # NoId

Sound == Directories /\ RootIdFree /\ NamesDiffer /\ NoForeignLog /\ Recoverable

Own(c) ==
  Session(c) /\ Removal(c) /\ Installation(c) /\ Begins(c) /\ Recovery(c) /\ Ending(c)

IInv == Typed /\ Locked /\ Sound /\ \A c \in Callers : Own(c)

-----------------------------------------------------------------------------
(* Types                                                                   *)

LEMMA Distinct ==
  /\ \A i \in Ids : i # Root /\ i # NoId
  /\ \A n \in Names : n # NoName
  /\ Ids \subseteq Places /\ Root \in Places
BY CatalogAssumption DEF Places

LEMMA IdleTyped == Idle \in CallType
BY CatalogAssumption DEF Idle, CallType, PlanType, NoPlan, Places, Pcs, Classes

\* The fields of a new call are of their types.
LEMMA CallParts ==
  /\ NoPlan \in PlanType
  /\ \A k \in CallType, pc \in Pcs : [k EXCEPT !.pc = pc] \in CallType
  /\ \A k \in CallType, pc \in Pcs, p \in PlanType :
       [k EXCEPT !.pc = pc, !.plan = p] \in CallType
  /\ \A k \in CallType, pc \in Pcs, i \in Ids \cup {NoId} :
       [k EXCEPT !.pc = pc, !.id = i] \in CallType
  /\ \A k \in CallType, pc \in Pcs, r \in Places : [k EXCEPT !.pc = pc, !.root = r] \in CallType
  /\ \A k \in CallType, pc \in Pcs, r \in Places, p \in PlanType, b \in BOOLEAN :
       [k EXCEPT !.pc = pc, !.root = r, !.id = p.id, !.stamp = p.stamp, !.keep = b] \in CallType
<1>1. NoPlan \in PlanType
  BY DEF NoPlan, PlanType, Classes
<1>. QED
  BY ZenonT(40), <1>1 DEF CallType, PlanType

\* A step moves its caller alone, to a call of the right type.
LEMMA OneMoves ==
  ASSUME Typed, NEW c \in Callers, Step(c)
  PROVE  call' \in [Callers -> CallType] /\ \A d \in Callers \ {c} : call'[d] = call[d]
<1>1. call \in [Callers -> CallType] /\ call[c] \in CallType /\ call[c].pc \in Pcs
      /\ call[c].root \in Places /\ call[c].id \in Ids \cup {NoId} /\ call[c].plan \in PlanType
  BY DEF Typed, CallType
<1>2. \A r \in Places : manifest[r].id \in Ids \cup {NoId} /\ main[r] \in Classes
  BY DEF Typed, TypeOK
<1>3. \A r \in Places, s \in Stamps : backup[r][s].marker \in Ids \cup {NoId}
  BY DEF Typed, TypeOK
<1>4. ASSUME NEW v \in CallType, Goto(c, v)
      PROVE  call' \in [Callers -> CallType] /\ \A d \in Callers \ {c} : call'[d] = call[d]
  BY <1>1, <1>4 DEF Goto
<1>5. ASSUME NEW pc \in Pcs, Advance(c, pc)
      PROVE  call' \in [Callers -> CallType] /\ \A d \in Callers \ {c} : call'[d] = call[d]
  BY <1>1, <1>4, <1>5, CallParts DEF Advance
<1>6. ASSUME Stop(c)
      PROVE  call' \in [Callers -> CallType] /\ \A d \in Callers \ {c} : call'[d] = call[d]
  BY <1>1, <1>4, <1>6, IdleTyped DEF Stop
<1>7. \A pc \in Pcs, r \in Places : At(pc, r) \in CallType
  BY IdleTyped, CallParts DEF At
<1>8. ASSUME NEW then \in {"selected", "relock"}, NEW id, Finalize(c, id, then), id \in Ids \cup {NoId}
      PROVE  call' \in [Callers -> CallType] /\ \A d \in Callers \ {c} : call'[d] = call[d]
  <2>1. then \in Pcs
    BY <1>8 DEF Pcs, Endings
  <2>2. CASE Stop(c)
    BY <1>6, <2>2
  <2>3. CASE \E i \in Ids \cup {NoId} : Goto(c, [call[c] EXCEPT !.pc = then, !.id = i])
    BY <1>1, <1>4, <2>1, <2>3, CallParts
  <2>. QED
    BY <1>2, <1>8, <2>2, <2>3, Distinct DEF Finalize
<1> USE DEF Pcs, InstallPcs, RecoveryPcs, Planning, Endings
<1>9. CASE Select(c)
  <2>1. PICK r \in Places, pc \in {"activate", "selected"} :
               Goto(c, [At(pc, r) EXCEPT !.id = manifest[r].id])
    BY <1>9 DEF Select
  <2>2. At(pc, r) \in CallType /\ At(pc, r) = [At(pc, r) EXCEPT !.id = At(pc, r).id]
    BY <1>7 DEF CallType
  <2>3. [At(pc, r) EXCEPT !.id = manifest[r].id] \in CallType
    BY <1>2, <2>2 DEF CallType
  <2>. QED
    BY <1>4, <2>1, <2>3
<1>10. CASE SelectFirst(c)
  BY <1>4, <1>7, <1>10, Distinct DEF SelectFirst
<1>11. CASE InstallFirst(c)
  BY <1>5, <1>6, <1>11 DEF InstallFirst
<1>12. CASE Activate(c)
  BY <1>8, <1>12 DEF Activate
<1>13. CASE OpenSelected(c)
  BY <1>5, <1>6, <1>13 DEF OpenSelected
<1>14. CASE Write(c)
  BY <1>1, <1>14 DEF Write
<1>15. CASE CloseOpen(c)
  BY <1>5, <1>6, <1>15 DEF CloseOpen
<1>16. CASE Plan(c)
  <2>1. PICK p \in PlanType : Planned(c, p)
    <3>1. PICK r \in Places :
            IF Active(r)
            THEN Planned(c, [key |-> Key(r), id |-> backup[r][ActiveStamp(r)].marker,
                             stamp |-> ActiveStamp(r), code |-> "none"])
            ELSE \E s \in Stamps, i \in IF Key(r) = NoId THEN Ids \ UsedIds ELSE {Key(r)} :
                   Planned(c, [key |-> Key(r), id |-> i, stamp |-> s, code |-> main[r]])
      BY <1>16 DEF Plan
    <3>2. Active(r) => ActiveStamp(r) \in Stamps
      BY DEF Active, ActiveStamp, Markers
    <3>3. "none" \in Classes /\ Key(r) \in Ids \cup {NoId} /\ main[r] \in Classes
      BY <1>2 DEF Key, Classes
    <3>. QED
      BY <1>3, <3>1, <3>2, <3>3 DEF PlanType
  <2>2. "planned" \in Pcs
    OBVIOUS
  <2>. QED
    BY <1>4, <2>1, <2>2, IdleTyped, CallParts DEF Planned
<1>17. CASE Recreate(c)
  BY <1>1, <1>4, <1>17, CallParts DEF Recreate
<1>18. CASE BeginRecovery(c)
  BY <1>1, <1>4, <1>5, <1>6, <1>18, CallParts DEF BeginRecovery
<1>19. CASE WriteMarker(c)
  BY <1>1, <1>4, <1>19, CallParts DEF WriteMarker
<1>20. CASE RollForward(c)
  BY <1>5, <1>6, <1>20 DEF RollForward, Verified
<1>21. CASE MoveMain(c)
  BY <1>5, <1>6, <1>21 DEF MoveMain
<1>22. CASE CreateEmpty(c)
  BY <1>5, <1>6, <1>22 DEF CreateEmpty
<1>23. CASE ConnectReplacement(c)
  BY <1>5, <1>6, <1>23 DEF ConnectReplacement
<1>24. CASE InstallTables(c)
  BY <1>5, <1>6, <1>24 DEF InstallTables, Verified
<1>25. CASE FinalizeRecovered(c)
  BY <1>1, <1>8, <1>25 DEF FinalizeRecovered
<1>26. CASE FinishRecovery(c)
  BY <1>5, <1>6, <1>26 DEF FinishRecovery
<1>27. CASE CreateReserve(c)
  <2>1. PICK i \in Ids, name \in Names, pc \in {"creating", "importing"} : Reserve(c, i, name, pc)
    BY <1>27 DEF CreateReserve
  <2>2. At(pc, i) \in CallType
    BY <1>7, Distinct
  <2>3. [At(pc, i) EXCEPT !.id = i, !.name = name] \in CallType
    BY <2>2 DEF CallType
  <2>. QED
    BY <1>4, <2>1, <2>3 DEF Reserve
<1>28. CASE ImportReserve(c)
  <2>1. PICK i \in Ids, name \in Names, pc \in {"creating", "importing"} : Reserve(c, i, name, pc)
    BY <1>28 DEF ImportReserve
  <2>2. At(pc, i) \in CallType
    BY <1>7, Distinct
  <2>3. [At(pc, i) EXCEPT !.id = i, !.name = name] \in CallType
    BY <2>2 DEF CallType
  <2>. QED
    BY <1>4, <2>1, <2>3 DEF Reserve
<1>29. CASE Fill(c)
  BY <1>5, <1>6, <1>29 DEF Fill
<1>30. CASE WriteManifest(c)
  BY <1>5, <1>6, <1>30 DEF WriteManifest
<1>31. CASE FinishImport(c)
  BY <1>5, <1>6, <1>31 DEF FinishImport
<1>32. CASE FailCreate(c)
  BY <1>5, <1>6, <1>32 DEF FailCreate
<1>33. CASE FailImport(c)
  BY <1>1, <1>4, <1>7, <1>33, Distinct DEF FailImport, Retire
<1>34. CASE Detach(c)
  BY <1>1, <1>4, <1>7, <1>34, Distinct DEF Detach, Retire
<1>35. CASE Delete(c)
  BY <1>5, <1>6, <1>35 DEF Delete
<1>36. CASE Rename(c)
  BY <1>1, <1>36 DEF Rename
<1>37. CASE Crash(c)
  BY <1>5, <1>6, <1>37 DEF Crash
<1>. QED
  BY <1>9, <1>10, <1>11, <1>12, <1>13, <1>14, <1>15, <1>16, <1>17, <1>18, <1>19, <1>20,
     <1>21, <1>22, <1>23, <1>24, <1>25, <1>26, <1>27, <1>28, <1>29, <1>30, <1>31, <1>32,
     <1>33, <1>34, <1>35, <1>36, <1>37 DEF Step

\* What writing one part of a backup changes.
BackupType == [made : BOOLEAN, main : Classes, wal : BOOLEAN, marker : Ids \cup {NoId}]

BackupWritten(r, s, made, file, log, marker) ==
  /\ backup' \in [Places -> [Stamps -> BackupType]]
  /\ \A q \in Places, t \in Stamps : (q = r /\ t = s) \/ backup'[q][t] = backup[q][t]
  /\ backup'[r][s].made = made /\ backup'[r][s].main = file
  /\ backup'[r][s].wal = log /\ backup'[r][s].marker = marker

LEMMA OneBackup ==
  ASSUME Typed, NEW r \in Places, NEW s \in Stamps, NEW b \in BackupType,
         backup' = [backup EXCEPT ![r][s] = b]
  PROVE  BackupWritten(r, s, b.made, b.main, b.wal, b.marker)
<1>1. backup \in [Places -> [Stamps -> BackupType]]
  BY DEF Typed, TypeOK, BackupType
<1>2. backup' = [backup EXCEPT ![r] = [backup[r] EXCEPT ![s] = b]]
  BY <1>1
<1>3. [backup[r] EXCEPT ![s] = b] \in [Stamps -> BackupType]
  BY <1>1
<1>. QED
  BY <1>1, <1>2, <1>3 DEF BackupWritten


LEMMA Made ==
  ASSUME Typed, NEW r \in Places, NEW s \in Stamps, NEW v \in BOOLEAN,
         backup' = [backup EXCEPT ![r][s].made = v]
  PROVE  BackupWritten(r, s, v, backup[r][s].main, backup[r][s].wal, backup[r][s].marker)
<1>1. backup \in [Places -> [Stamps -> BackupType]]
  BY DEF Typed, TypeOK, BackupType
<1>2. backup' = [backup EXCEPT ![r][s] = [backup[r][s] EXCEPT !.made = v]]
  BY <1>1
<1> DEFINE b == [backup[r][s] EXCEPT !.made = v]
<1>3. backup[r][s] \in BackupType
  BY <1>1
<1>4. b \in BackupType /\ b.made = v
      /\ b.main = backup[r][s].main /\ b.wal = backup[r][s].wal /\ b.marker = backup[r][s].marker
  BY <1>3 DEF BackupType
<1> HIDE DEF b
<1>5. backup' = [backup EXCEPT ![r][s] = b]
  BY <1>2 DEF b
<1>. QED
  BY <1>4, <1>5, OneBackup

LEMMA MainBackedUp ==
  ASSUME Typed, NEW r \in Places, NEW s \in Stamps, NEW v \in Classes,
         backup' = [backup EXCEPT ![r][s].main = v]
  PROVE  BackupWritten(r, s, backup[r][s].made, v, backup[r][s].wal, backup[r][s].marker)
<1>1. backup \in [Places -> [Stamps -> BackupType]]
  BY DEF Typed, TypeOK, BackupType
<1>2. backup' = [backup EXCEPT ![r][s] = [backup[r][s] EXCEPT !.main = v]]
  BY <1>1
<1> DEFINE b == [backup[r][s] EXCEPT !.main = v]
<1>3. backup[r][s] \in BackupType
  BY <1>1
<1>4. b \in BackupType /\ b.main = v
      /\ b.made = backup[r][s].made /\ b.wal = backup[r][s].wal /\ b.marker = backup[r][s].marker
  BY <1>3 DEF BackupType
<1> HIDE DEF b
<1>5. backup' = [backup EXCEPT ![r][s] = b]
  BY <1>2 DEF b
<1>. QED
  BY <1>4, <1>5, OneBackup

LEMMA LogBackedUp ==
  ASSUME Typed, NEW r \in Places, NEW s \in Stamps, NEW v \in BOOLEAN,
         backup' = [backup EXCEPT ![r][s].wal = v]
  PROVE  BackupWritten(r, s, backup[r][s].made, backup[r][s].main, v, backup[r][s].marker)
<1>1. backup \in [Places -> [Stamps -> BackupType]]
  BY DEF Typed, TypeOK, BackupType
<1>2. backup' = [backup EXCEPT ![r][s] = [backup[r][s] EXCEPT !.wal = v]]
  BY <1>1
<1> DEFINE b == [backup[r][s] EXCEPT !.wal = v]
<1>3. backup[r][s] \in BackupType
  BY <1>1
<1>4. b \in BackupType /\ b.wal = v
      /\ b.made = backup[r][s].made /\ b.main = backup[r][s].main /\ b.marker = backup[r][s].marker
  BY <1>3 DEF BackupType
<1> HIDE DEF b
<1>5. backup' = [backup EXCEPT ![r][s] = b]
  BY <1>2 DEF b
<1>. QED
  BY <1>4, <1>5, OneBackup

LEMMA MarkerWritten ==
  ASSUME Typed, NEW r \in Places, NEW s \in Stamps, NEW v \in Ids \cup {NoId},
         backup' = [backup EXCEPT ![r][s].marker = v]
  PROVE  BackupWritten(r, s, backup[r][s].made, backup[r][s].main, backup[r][s].wal, v)
<1>1. backup \in [Places -> [Stamps -> BackupType]]
  BY DEF Typed, TypeOK, BackupType
<1>2. backup' = [backup EXCEPT ![r][s] = [backup[r][s] EXCEPT !.marker = v]]
  BY <1>1
<1> DEFINE b == [backup[r][s] EXCEPT !.marker = v]
<1>3. backup[r][s] \in BackupType
  BY <1>1
<1>4. b \in BackupType /\ b.marker = v
      /\ b.made = backup[r][s].made /\ b.main = backup[r][s].main /\ b.wal = backup[r][s].wal
  BY <1>3 DEF BackupType
<1> HIDE DEF b
<1>5. backup' = [backup EXCEPT ![r][s] = b]
  BY <1>2 DEF b
<1>. QED
  BY <1>4, <1>5, OneBackup

\* The disk keeps its types: a manifest is written with an ID and a name.
LEMMA DiskTyped ==
  ASSUME Typed, NEW c \in Callers, Own(c), Step(c)
  PROVE  Typed'
<1>1. call' \in [Callers -> CallType]
  BY OneMoves
<1>2. \A d \in Callers : call'[d].root \in Places /\ call'[d].id \in Ids \cup {NoId}
  BY <1>1 DEF CallType
<1> DEFINE Disk == /\ dir' \in [Ids -> {"absent", "reserved", "present", "retired"}]
                   /\ manifest' \in [Places -> [id : Ids \cup {NoId}, name : Names \cup {NoName}]]
                   /\ \A r \in Places : manifest'[r].id = NoId <=> manifest'[r].name = NoName
                   /\ main' \in [Places -> Classes] /\ wal' \in [Places -> BOOLEAN]
                   /\ backup' \in [Places -> [Stamps -> [made : BOOLEAN, main : Classes,
                                              wal : BOOLEAN, marker : Ids \cup {NoId}]]]
<1>3. SUFFICES Disk
  BY <1>1, <1>2 DEF Typed, TypeOK
<1>4. call[c] \in CallType /\ call[c].root \in Places /\ call[c].id \in Ids \cup {NoId}
      /\ call[c].name \in Names \cup {NoName}
  BY DEF Typed, CallType
<1>5. {"none", "empty", "blank", "pristine", "populated"} \subseteq Classes
  BY DEF Classes, Current
<1>6. DiskKept => Disk
  BY DEF DiskKept, Typed, TypeOK
<1>7. ASSUME NEW r \in Places, NEW class \in Classes, main' = [main EXCEPT ![r] = class],
             UNCHANGED <<dir, manifest, wal, backup>>
      PROVE  Disk
  BY <1>7 DEF Typed, TypeOK
<1>8. \A r \in Places : Opened(r) \in Classes
  BY <1>5 DEF Opened, Typed, TypeOK
<1>9. ASSUME NEW id, NEW then, id \in Ids \cup {NoId}, Finalize(c, id, then),
             UNCHANGED <<dir, wal, backup>>
      PROVE  Disk
  <2>1. CASE UNCHANGED <<manifest, main>>
    BY <1>6, <1>9, <2>1 DEF DiskKept
  <2>2. CASE \E i \in Ids, n \in FreshNames :
               manifest' = [manifest EXCEPT ![Root] = Manifest(i, n)] /\ main' = [main EXCEPT ![Root] = Opened(Root)]
    <3>1. PICK i \in Ids, n \in FreshNames :
            manifest' = [manifest EXCEPT ![Root] = Manifest(i, n)] /\ main' = [main EXCEPT ![Root] = Opened(Root)]
      BY <2>2
    <3>2. n \in Names
      BY DEF FreshNames
    <3>. QED
      BY <1>8, <1>9, <3>1, <3>2, Distinct DEF Manifest, Typed, TypeOK
  <2>. QED
    BY <1>9, <2>1, <2>2, Distinct DEF Finalize
<1>10. ASSUME NEW r \in Ids, Erase(r)
       PROVE  Disk
  <2>1. NoBackup \in [made : BOOLEAN, main : Classes, wal : BOOLEAN, marker : Ids \cup {NoId}]
    BY <1>5 DEF NoBackup
  <2>2. NoManifest \in [id : Ids \cup {NoId}, name : Names \cup {NoName}]
        /\ NoManifest.id = NoId /\ NoManifest.name = NoName
    BY DEF NoManifest, Manifest
  <2>. QED
    BY <1>5, <1>10, <2>1, <2>2, Distinct DEF Erase, Typed, TypeOK
<1>11. call[c].pc \in Planning => call[c].plan.stamp \in Stamps /\ call[c].plan.id \in Ids
  BY DEF Own, Begins
<1>12. call[c].pc \in RecoveryPcs \cup Endings => call[c].stamp \in Stamps /\ call[c].id \in Ids
  BY DEF Own, Recovery, Ending
<1>13. \A q \in Places : main[q] \in Classes /\ wal[q] \in BOOLEAN
  BY DEF Typed, TypeOK
<1>14. ASSUME NEW r \in Places, NEW s \in Stamps, NEW made, NEW file, NEW log, NEW marker,
              BackupWritten(r, s, made, file, log, marker),
              UNCHANGED <<dir, manifest>>,
              main' \in [Places -> Classes] /\ wal' \in [Places -> BOOLEAN]
       PROVE  Disk
  BY <1>14 DEF BackupWritten, BackupType, Typed, TypeOK
<1>15. CASE Select(c)
  BY <1>6, <1>15 DEF Select
<1>16. CASE SelectFirst(c)
  BY <1>6, <1>16 DEF SelectFirst
<1>17. CASE InstallFirst(c)
  BY <1>4, <1>5, <1>6, <1>7, <1>17, Distinct DEF InstallFirst, DiskKept
<1>18. CASE Activate(c)
  BY <1>9, <1>18 DEF Activate
<1>19. CASE OpenSelected(c)
  BY <1>4, <1>6, <1>7, <1>8, <1>19 DEF OpenSelected, DiskKept
<1>20. CASE Write(c)
  BY <1>4, <1>5, <1>7, <1>20 DEF Write
<1>21. CASE CloseOpen(c)
  BY <1>6, <1>21 DEF CloseOpen
<1>22. CASE Plan(c)
  BY <1>6, <1>22 DEF Plan
<1>23. CASE Recreate(c)
  BY <1>6, <1>23 DEF Recreate
<1>24. CASE BeginRecovery(c)
  <2>1. CASE UNCHANGED <<wal, backup>>
    BY <1>6, <1>24, <2>1 DEF BeginRecovery, DiskKept
  <2>2. CASE ~UNCHANGED <<wal, backup>>
    <3>1. backup' = [backup EXCEPT ![call[c].root][call[c].plan.stamp].made = TRUE]
          /\ \E left \in BOOLEAN : wal' = [wal EXCEPT ![call[c].root] = left]
      BY <1>4, <1>24, <2>2 DEF BeginRecovery, Typed, TypeOK
    <3>2. call[c].pc \in Planning
      BY <1>24 DEF BeginRecovery, Planning
    <3>3. wal' \in [Places -> BOOLEAN]
      BY <3>1 DEF Typed, TypeOK
    <3>4. main' \in [Places -> Classes] /\ UNCHANGED <<dir, manifest>>
      BY <1>24 DEF BeginRecovery, Typed, TypeOK
    <3> DEFINE r == call[c].root  s == call[c].plan.stamp
    <3>5. r \in Places /\ s \in Stamps /\ backup' = [backup EXCEPT ![r][s].made = TRUE]
      BY <1>4, <1>11, <3>1, <3>2
    <3> HIDE DEF r, s
    <3>6. BackupWritten(r, s, TRUE, backup[r][s].main, backup[r][s].wal, backup[r][s].marker)
      BY <3>5, Made
    <3>. QED
      BY <1>14, <3>3, <3>4, <3>5, <3>6
  <2>. QED
    BY <2>1, <2>2
<1>25. CASE WriteMarker(c)
  <2>1. call[c].stamp \in Stamps
    BY <1>12, <1>25 DEF WriteMarker, RecoveryPcs
  <2>2. UNCHANGED <<dir, manifest>> /\ main' \in [Places -> Classes] /\ wal' \in [Places -> BOOLEAN]
    BY <1>25 DEF WriteMarker, Typed, TypeOK
  <2> DEFINE r == call[c].root  s == call[c].stamp
  <2>3. r \in Places /\ s \in Stamps /\ backup' = [backup EXCEPT ![r][s].marker = call[c].id]
    BY <1>4, <1>25, <2>1 DEF WriteMarker
  <2> HIDE DEF r, s
  <2>4. BackupWritten(r, s, backup[r][s].made, backup[r][s].main, backup[r][s].wal, call[c].id)
    BY <1>4, <2>3, MarkerWritten
  <2>. QED
    BY <1>14, <2>2, <2>3, <2>4
<1>26. CASE RollForward(c)
  <2>1. CASE UNCHANGED <<wal, backup>>
    BY <1>6, <1>26, <2>1 DEF RollForward, DiskKept
  <2>2. CASE ~UNCHANGED <<wal, backup>>
    <3>1. /\ backup' = [backup EXCEPT ![call[c].root][call[c].stamp].wal = @ \/ wal[call[c].root]]
          /\ wal' = [wal EXCEPT ![call[c].root] = FALSE]
      BY <1>26, <2>2 DEF RollForward
    <3>2. call[c].stamp \in Stamps
      BY <1>12, <1>26 DEF RollForward, RecoveryPcs
    <3> DEFINE log == backup[call[c].root][call[c].stamp].wal \/ wal[call[c].root]
    <3>3. log \in BOOLEAN /\ backup' = [backup EXCEPT ![call[c].root][call[c].stamp].wal = log]
      BY <1>13, <3>1, <3>2 DEF Typed, TypeOK
    <3>4. UNCHANGED <<dir, manifest>> /\ main' \in [Places -> Classes] /\ wal' \in [Places -> BOOLEAN]
      BY <1>26, <3>1 DEF RollForward, Typed, TypeOK
    <3> DEFINE r == call[c].root  s == call[c].stamp
    <3>5. r \in Places /\ s \in Stamps /\ backup' = [backup EXCEPT ![r][s].wal = log]
      BY <1>4, <3>2, <3>3
    <3> HIDE DEF log, r, s
    <3>6. BackupWritten(r, s, backup[r][s].made, backup[r][s].main, log, backup[r][s].marker)
      BY <3>3, <3>5, LogBackedUp
    <3>. QED
      BY <1>14, <3>4, <3>5, <3>6
  <2>. QED
    BY <2>1, <2>2
<1>27. CASE MoveMain(c)
  <2>1. call[c].stamp \in Stamps
    BY <1>12, <1>27 DEF MoveMain, RecoveryPcs
  <2>2. UNCHANGED <<dir, manifest>> /\ main' \in [Places -> Classes] /\ wal' \in [Places -> BOOLEAN]
    BY <1>4, <1>5, <1>27 DEF MoveMain, Typed, TypeOK
  <2> DEFINE r == call[c].root  s == call[c].stamp
  <2>3. r \in Places /\ s \in Stamps /\ backup' = [backup EXCEPT ![r][s].main = main[r]]
    BY <1>4, <1>27, <2>1 DEF MoveMain
  <2> HIDE DEF r, s
  <2>4. BackupWritten(r, s, backup[r][s].made, main[r], backup[r][s].wal, backup[r][s].marker)
    BY <1>13, <2>3, MainBackedUp
  <2>. QED
    BY <1>14, <2>2, <2>3, <2>4
<1>28. CASE CreateEmpty(c)
  BY <1>4, <1>5, <1>6, <1>7, <1>28, Distinct DEF CreateEmpty, DiskKept
<1>29. CASE ConnectReplacement(c)
  BY <1>4, <1>5, <1>7, <1>29 DEF ConnectReplacement
<1>30. CASE InstallTables(c)
  BY <1>4, <1>5, <1>7, <1>30 DEF InstallTables
<1>31. CASE FinalizeRecovered(c)
  BY <1>4, <1>9, <1>31 DEF FinalizeRecovered
<1>32. CASE FinishRecovery(c)
  <2>1. call[c].stamp \in Stamps
    BY <1>12, <1>32 DEF FinishRecovery, RecoveryPcs, Endings
  <2>2. UNCHANGED <<dir, manifest>> /\ main' \in [Places -> Classes] /\ wal' \in [Places -> BOOLEAN]
    BY <1>32 DEF FinishRecovery, Typed, TypeOK
  <2>3. CASE backup' = backup
    BY <1>6, <1>32, <2>3 DEF FinishRecovery, DiskKept
  <2>4. CASE backup' = [backup EXCEPT ![call[c].root][call[c].stamp].marker = NoId]
    <3> DEFINE r == call[c].root  s == call[c].stamp
    <3>1. r \in Places /\ s \in Stamps /\ backup' = [backup EXCEPT ![r][s].marker = NoId]
      BY <1>4, <2>1, <2>4
    <3> HIDE DEF r, s
    <3>2. BackupWritten(r, s, backup[r][s].made, backup[r][s].main, backup[r][s].wal, NoId)
      BY <3>1, MarkerWritten
    <3>. QED
      BY <1>14, <2>2, <3>1, <3>2
  <2>. QED
    BY <1>32, <2>3, <2>4 DEF FinishRecovery
<1>33. CASE CreateReserve(c)
  BY <1>33 DEF CreateReserve, Reserve, Typed, TypeOK
<1>34. CASE ImportReserve(c)
  BY <1>34 DEF ImportReserve, Reserve, Typed, TypeOK
<1>35. CASE Fill(c)
  <2>1. PICK class \in Classes : main' = [main EXCEPT ![call[c].root] = class]
    BY <1>35 DEF Fill, Classes
  <2>. QED
    BY <1>4, <1>35, <2>1 DEF Fill, Typed, TypeOK
<1>36. CASE WriteManifest(c)
  <2>1. call[c].id \in Ids /\ call[c].name \in Names
    BY <1>36 DEF WriteManifest, Own, Installation, InstallPcs
  <2>. QED
    BY <1>4, <1>36, <2>1, Distinct DEF WriteManifest, Manifest, Typed, TypeOK
<1>37. CASE FinishImport(c)
  BY <1>6, <1>37 DEF FinishImport
<1>38. CASE FailCreate(c)
  <2>1. call[c].root \in Ids
    BY <1>38 DEF FailCreate, Own, Installation, InstallPcs
  <2>. QED
    BY <1>10, <1>38, <2>1 DEF FailCreate
<1>39. CASE FailImport(c)
  BY <1>39 DEF FailImport, Retire, Typed, TypeOK
<1>40. CASE Detach(c)
  BY <1>40 DEF Detach, Retire, Typed, TypeOK
<1>41. CASE Delete(c)
  <2>1. call[c].root \in Ids
    BY <1>41 DEF Delete, Own, Removal
  <2>. QED
    BY <1>10, <1>41, <2>1 DEF Delete
<1>42. CASE Rename(c)
  <2>1. PICK r \in Places, name \in Names :
          manifest[r] # NoManifest /\ manifest' = [manifest EXCEPT ![r].name = name]
    BY <1>42 DEF Rename
  <2>2. manifest[r].id # NoId
    BY <2>1, Distinct DEF NoManifest, Manifest, Typed, TypeOK
  <2>3. manifest' \in [Places -> [id : Ids \cup {NoId}, name : Names \cup {NoName}]]
    BY <2>1 DEF Typed, TypeOK
  <2>4. /\ \A q \in Places : manifest'[q].id = manifest[q].id
        /\ \A q \in Places : q # r => manifest'[q] = manifest[q]
        /\ manifest'[r].name = name
    BY <2>1 DEF Typed, TypeOK
  <2>5. \A q \in Places : manifest'[q].id = NoId <=> manifest'[q].name = NoName
    BY <2>2, <2>4, Distinct DEF Typed, TypeOK
  <2>. QED
    BY <1>42, <2>3, <2>5 DEF Rename, Typed, TypeOK
<1>43. CASE Crash(c)
  BY <1>6, <1>43 DEF Crash
<1>. QED
  BY <1>15, <1>16, <1>17, <1>18, <1>19, <1>20, <1>21, <1>22, <1>23, <1>24, <1>25, <1>26,
     <1>27, <1>28, <1>29, <1>30, <1>31, <1>32, <1>33, <1>34, <1>35, <1>36, <1>37, <1>38,
     <1>39, <1>40, <1>41, <1>42, <1>43 DEF Step

-----------------------------------------------------------------------------
(* What a step of a caller may do to each part of the disk, and when.      *)

\* The end of a profile: a failed creation, or a removal.
Erasing(c, r) ==
  /\ call[c].root = r /\ call[c].pc \in {"creating", "created", "removing"}
  /\ dir'[r] = "absent" /\ manifest'[r] = NoManifest /\ main'[r] = "none" /\ wal'[r] = FALSE
  /\ \A s \in Stamps : backup'[r][s] = NoBackup

DirStep(c, i) ==
  \/ dir'[i] = dir[i]
  \/ /\ call[c].pc = "idle" /\ CatalogFree /\ \A r \in Places : Sharable(r)
     /\ dir[i] \in {"absent", "reserved"} /\ ~TakenByRoot(i) /\ ~Drawn(i)
     /\ dir'[i] = "reserved"
  \/ call[c].root = i /\ call[c].pc \in {"creating", "importing"} /\ dir'[i] = "present"
  \/ /\ dir'[i] = "retired"
     /\ \/ call[c].root = i /\ call[c].pc \in {"importing", "copied", "imported"}
        \/ /\ call[c].pc = "idle" /\ CatalogFree
           /\ dir[i] = "retired" \/ (Exists(i) /\ Lockable(i))
  \/ Erasing(c, i)

\* The root profile gets its manifest.
NamesRoot(c, i, n) ==
  /\ CatalogFree /\ Sharable(Root) /\ manifest[Root] = NoManifest /\ Opens(Root)
  /\ i \in Ids /\ n \in Names /\ ~NameTaken(n, Ids)
  /\ Active(Root) => i = backup[Root][ActiveStamp(Root)].marker
  /\ \/ call[c].pc = "finalize" /\ i = call[c].id
     \/ call[c].pc = "activate" /\ i \notin UsedIds

ManifestStep(c, r) ==
  \/ manifest'[r] = manifest[r]
  \/ r = Root /\ \E i, n : NamesRoot(c, i, n) /\ manifest'[r] = Manifest(i, n) /\ main'[r] \in Current
  \/ /\ call[c].root = r /\ call[c].pc \in {"created", "copied"}
     /\ manifest'[r] = Manifest(call[c].id, call[c].name)
  \/ /\ call[c].pc = "idle" /\ CanList /\ manifest[r] # NoManifest
     /\ manifest'[r].id = manifest[r].id /\ manifest'[r].name \in Names
     /\ ~NameTaken(manifest'[r].name, Places \ {r})
  \/ Erasing(c, r)

MainStep(c, r) ==
  \/ main'[r] = main[r]
  \/ /\ main'[r] = "pristine"
     /\ call[c].pc \in {"first", "selected", "activate", "finalize"}
     /\ \/ r = Root /\ main[r] \in {"none", "empty"}
        \/ /\ main[r] \in {"none", "empty", "blank"} /\ Sharable(r)
           /\ r = Root \/ manifest[r] # NoManifest
  \/ call[c].pc = "open" /\ call[c].root = r /\ main[r] = "pristine" /\ main'[r] = "populated"
  \/ /\ call[c].pc = "main" /\ call[c].root = r /\ main'[r] = "none"
     /\ backup'[r][call[c].stamp].main = main[r]
  \/ call[c].pc \in Replacing /\ call[c].root = r /\ main'[r] \in Fresh \ {"none"}
  \/ /\ call[c].pc \in {"creating", "importing"} /\ call[c].root = r
     /\ main'[r] \in Current /\ dir'[r] = "present"
  \/ Erasing(c, r)

LogStep(c, r) ==
  \/ wal'[r] = wal[r]
  \/ wal'[r] = FALSE /\ call[c].root = r /\ call[c].pc = "confirmed" /\ Lockable(r)
  \/ wal'[r] = FALSE /\ call[c].root = r /\ call[c].pc = "rolling"
  \/ Erasing(c, r)

BackupStep(c, r, s) ==
  LET old == backup[r][s] IN
  \/ backup'[r][s] = old
  \/ /\ call[c].root = r /\ s = call[c].plan.stamp /\ call[c].pc = "confirmed"
     /\ Exists(r) /\ Lockable(r) /\ MayBegin(r, call[c].plan)
     /\ BackupWritten(r, s, TRUE, old.main, old.wal, old.marker)
  \/ /\ call[c].root = r /\ s = call[c].stamp
     /\ \/ /\ call[c].pc = "marking"
           /\ BackupWritten(r, s, old.made, old.main, old.wal, call[c].id)
        \/ /\ call[c].pc = "rolling" /\ wal'[r] = FALSE
           /\ BackupWritten(r, s, old.made, old.main, old.wal \/ wal[r], old.marker)
        \/ /\ call[c].pc = "main" /\ main'[r] = "none"
           /\ BackupWritten(r, s, old.made, main[r], old.wal, old.marker)
        \/ /\ call[c].pc = "finish" \/ (call[c].pc = "relock" /\ Lockable(r))
           /\ BackupWritten(r, s, old.made, old.main, old.wal, NoId)
  \/ Erasing(c, r)

\* What deleting a profile's directory leaves.
LEMMA ErasedIs ==
  ASSUME Typed, NEW r \in Ids, Erase(r)
  PROVE  /\ dir'[r] = "absent" /\ manifest'[r] = NoManifest /\ main'[r] = "none" /\ wal'[r] = FALSE
         /\ \A s \in Stamps : backup'[r][s] = NoBackup
         /\ \A q \in Ids \ {r} : dir'[q] = dir[q]
         /\ \A q \in Places \ {r} :
              manifest'[q] = manifest[q] /\ main'[q] = main[q] /\ wal'[q] = wal[q]
              /\ backup'[q] = backup[q]
BY Distinct DEF Erase, Typed, TypeOK

LEMMA ErasesOne ==
  ASSUME Typed, NEW c \in Callers, Own(c), FailCreate(c) \/ Delete(c)
  PROVE  /\ Erasing(c, call[c].root)
         /\ \A q \in Ids \ {call[c].root} : dir'[q] = dir[q]
         /\ \A q \in Places \ {call[c].root} :
              manifest'[q] = manifest[q] /\ main'[q] = main[q] /\ wal'[q] = wal[q]
              /\ backup'[q] = backup[q]
<1>1. call[c].root \in Ids /\ call[c].pc \in {"creating", "created", "removing"} /\ Erase(call[c].root)
  BY DEF FailCreate, Delete, Own, Installation, Removal, InstallPcs
<1>. QED
  BY <1>1, ErasedIs DEF Erasing


\* The directories, changed under the catalog lock.
LEMMA DirSteps ==
  ASSUME Typed, NEW c \in Callers, Own(c), Step(c)
  PROVE  \A i \in Ids : DirStep(c, i)
<1>1. call[c] \in CallType /\ call[c].root \in Places
  BY DEF Typed, CallType
<1>2. call[c].pc \in {"creating", "created", "importing", "copied", "imported", "removing"} =>
        call[c].root \in Ids
  BY DEF Own, Installation, Removal, InstallPcs
<1>3. CASE Select(c) \/ SelectFirst(c) \/ InstallFirst(c) \/ Activate(c) \/ OpenSelected(c)
           \/ Write(c) \/ CloseOpen(c) \/ Plan(c) \/ Recreate(c) \/ BeginRecovery(c) \/
           WriteMarker(c) \/ RollForward(c) \/ MoveMain(c) \/ CreateEmpty(c) \/
           ConnectReplacement(c) \/ InstallTables(c) \/ FinalizeRecovered(c) \/
           FinishRecovery(c) \/ WriteManifest(c) \/ FinishImport(c) \/ Rename(c) \/
           Crash(c)
  BY <1>3 DEF Select, SelectFirst, InstallFirst, Activate, OpenSelected, Write, CloseOpen,
           Plan, Recreate, BeginRecovery, WriteMarker, RollForward, MoveMain, CreateEmpty,
           ConnectReplacement, InstallTables, FinalizeRecovered, FinishRecovery,
           WriteManifest, FinishImport, Rename, Crash, DiskKept, DirStep
<1>4. CASE CreateReserve(c)
  <2>1. PICK j \in Ids \ UsedIds : dir' = [dir EXCEPT ![j] = "reserved"]
    BY <1>4 DEF CreateReserve, Reserve
  <2>2. ~TakenByRoot(j) /\ ~Drawn(j) /\ dir[j] = "absent"
    BY <2>1 DEF UsedIds
  <2>. QED
    BY <1>4, <2>1, <2>2 DEF CreateReserve, CanList, DirStep, Typed, TypeOK
<1>5. CASE ImportReserve(c)
  BY <1>5 DEF ImportReserve, Reserve, DirStep, Typed, TypeOK
<1>6. CASE Fill(c)
  BY <1>2, <1>6 DEF Fill, DirStep, Typed, TypeOK
<1>7. CASE FailCreate(c)
  <2>1. ASSUME NEW q \in Ids, q = call[c].root PROVE DirStep(c, q)
    BY <1>7, <2>1, ErasesOne DEF DirStep
  <2>2. ASSUME NEW q \in Ids, q # call[c].root PROVE DirStep(c, q)
    BY <1>7, <2>2, ErasesOne DEF DirStep
  <2>. QED
    BY <2>1, <2>2
<1>8. CASE FailImport(c)
  BY <1>2, <1>8 DEF FailImport, Retire, DirStep, Typed, TypeOK
<1>9. CASE Detach(c)
  BY <1>9 DEF Detach, Retire, DirStep, Typed, TypeOK
<1>10. CASE Delete(c)
  <2>1. ASSUME NEW q \in Ids, q = call[c].root PROVE DirStep(c, q)
    BY <1>10, <2>1, ErasesOne DEF DirStep
  <2>2. ASSUME NEW q \in Ids, q # call[c].root PROVE DirStep(c, q)
    BY <1>10, <2>2, ErasesOne DEF DirStep
  <2>. QED
    BY <2>1, <2>2
<1>. QED
  BY <1>3, <1>4, <1>5, <1>6, <1>7, <1>8, <1>9, <1>10 DEF Step

\* The manifests, changed when nobody else has the catalog lock.
LEMMA ManifestSteps ==
  ASSUME Typed, NEW c \in Callers, Own(c), Step(c)
  PROVE  \A r \in Places : ManifestStep(c, r)
<1>1. call[c] \in CallType /\ call[c].root \in Places
  BY DEF Typed, CallType
<1>2. call[c].pc \in {"creating", "created", "importing", "copied", "imported", "removing"} =>
        call[c].root \in Ids
  BY DEF Own, Installation, Removal, InstallPcs
<1>3. ASSUME NEW id, NEW then, Finalize(c, id, then), id \in Ids \cup {NoId},
             \/ call[c].pc = "activate" /\ id = NoId
             \/ call[c].pc = "finalize" /\ id = call[c].id /\ id # NoId
      PROVE  \A r \in Places : ManifestStep(c, r)
  <2>1. CASE UNCHANGED manifest
    BY <2>1 DEF ManifestStep
  <2>2. CASE ~UNCHANGED manifest
    <3>1. PICK i \in IF id = NoId THEN Ids \ UsedIds ELSE {id}, n \in FreshNames :
            manifest' = [manifest EXCEPT ![Root] = Manifest(i, n)]
      BY <1>3, <2>2 DEF Finalize
    <3>2. CatalogFree /\ Sharable(Root) /\ manifest[Root] = NoManifest /\ MayFinalize(id)
      BY <1>3, <2>2 DEF Finalize
    <3>3. n \in Names /\ ~NameTaken(n, Ids)
      BY DEF FreshNames
    <3>4. i \in Ids /\ (id = NoId => i \notin UsedIds) /\ (id # NoId => i = id)
      BY <1>3, <3>1
    <3>5. Opens(Root) /\ (Active(Root) => id = backup[Root][ActiveStamp(Root)].marker)
      BY <3>2 DEF MayFinalize
    <3>6. Active(Root) => backup[Root][ActiveStamp(Root)].marker # NoId
      BY DEF Active, ActiveStamp, Markers
    <3>7. NamesRoot(c, i, n)
      BY <1>3, <3>2, <3>3, <3>4, <3>5, <3>6 DEF NamesRoot
    <3>8. main'[Root] \in Current
      BY <1>3, <2>2, Distinct DEF Finalize, Opened, Current, Typed, TypeOK
    <3>. QED
      BY <3>1, <3>7, <3>8, Distinct DEF ManifestStep, Typed, TypeOK
  <2>. QED
    BY <2>1, <2>2
<1>4. CASE Select(c) \/ SelectFirst(c) \/ InstallFirst(c) \/ OpenSelected(c) \/ Write(c) \/
           CloseOpen(c) \/ Plan(c) \/ Recreate(c) \/ BeginRecovery(c) \/ WriteMarker(c) \/
           RollForward(c) \/ MoveMain(c) \/ CreateEmpty(c) \/ ConnectReplacement(c) \/
           InstallTables(c) \/ FinishRecovery(c) \/ CreateReserve(c) \/ ImportReserve(c) \/
           Fill(c) \/ FinishImport(c) \/ FailImport(c) \/ Detach(c) \/ Crash(c)
  BY <1>4 DEF Select, SelectFirst, InstallFirst, OpenSelected, Write, CloseOpen, Plan,
           Recreate, BeginRecovery, WriteMarker, RollForward, MoveMain, CreateEmpty,
           ConnectReplacement, InstallTables, FinishRecovery, CreateReserve, ImportReserve,
           Fill, FinishImport, FailImport, Detach, Crash, DiskKept, ManifestStep
<1>5. CASE Activate(c)
  BY <1>3, <1>5 DEF Activate
<1>6. CASE FinalizeRecovered(c)
  <2>1. call[c].id \in Ids
    BY <1>6 DEF FinalizeRecovered, Own, Ending, Endings
  <2>. QED
    BY <1>3, <1>6, <2>1, Distinct DEF FinalizeRecovered
<1>7. CASE WriteManifest(c)
  BY <1>1, <1>7 DEF WriteManifest, ManifestStep, Typed, TypeOK
<1>8. CASE FailCreate(c)
  <2>1. ASSUME NEW q \in Places, q = call[c].root PROVE ManifestStep(c, q)
    BY <1>8, <2>1, ErasesOne DEF ManifestStep
  <2>2. ASSUME NEW q \in Places, q # call[c].root PROVE ManifestStep(c, q)
    BY <1>8, <2>2, ErasesOne DEF ManifestStep
  <2>. QED
    BY <2>1, <2>2
<1>9. CASE Delete(c)
  <2>1. ASSUME NEW q \in Places, q = call[c].root PROVE ManifestStep(c, q)
    BY <1>9, <2>1, ErasesOne DEF ManifestStep
  <2>2. ASSUME NEW q \in Places, q # call[c].root PROVE ManifestStep(c, q)
    BY <1>9, <2>2, ErasesOne DEF ManifestStep
  <2>. QED
    BY <2>1, <2>2
<1>10. CASE Rename(c)
  <2>1. PICK r \in Places, name \in Names :
          /\ manifest[r] # NoManifest /\ ~NameTaken(name, Places \ {r})
          /\ manifest' = [manifest EXCEPT ![r].name = name]
    BY <1>10 DEF Rename
  <2>2. /\ manifest'[r].id = manifest[r].id /\ manifest'[r].name = name
        /\ \A q \in Places : q # r => manifest'[q] = manifest[q]
    BY <2>1 DEF Typed, TypeOK
  <2>. QED
    BY <1>10, <2>1, <2>2 DEF Rename, ManifestStep
<1>. QED
  BY <1>4, <1>5, <1>6, <1>7, <1>8, <1>9, <1>10 DEF Step

\* The databases.
LEMMA MainSteps ==
  ASSUME Typed, NEW c \in Callers, Own(c), Step(c)
  PROVE  \A r \in Places : MainStep(c, r)
<1>1. call[c] \in CallType /\ call[c].root \in Places
  BY DEF Typed, CallType
<1>2. call[c].pc \in {"creating", "created", "importing", "copied", "imported", "removing"} =>
        call[c].root \in Ids
  BY DEF Own, Installation, Removal, InstallPcs
<1>3. \A r \in Places : Opens(r) =>
        Opened(r) = main[r] \/ (main[r] \in {"none", "empty", "blank"} /\ Opened(r) = "pristine")
  BY DEF Opens, Opened, Current, Classes, Typed, TypeOK
<1>4. ASSUME NEW id, NEW then, Finalize(c, id, then), call[c].pc \in {"activate", "finalize"}
      PROVE  \A r \in Places : MainStep(c, r)
  <2>1. CASE UNCHANGED main
    BY <2>1 DEF MainStep
  <2>2. CASE ~UNCHANGED main
    <3>1. main' = [main EXCEPT ![Root] = Opened(Root)] /\ Sharable(Root) /\ Opens(Root)
      BY <1>4, <2>2 DEF Finalize, MayFinalize
    <3>. QED
      BY <1>3, <1>4, <3>1, Distinct DEF MainStep, Typed, TypeOK
  <2>. QED
    BY <2>1, <2>2
<1>5. CASE Select(c) \/ SelectFirst(c) \/ CloseOpen(c) \/ Plan(c) \/ Recreate(c) \/
           BeginRecovery(c) \/ WriteMarker(c) \/ RollForward(c) \/ FinishRecovery(c) \/
           CreateReserve(c) \/ ImportReserve(c) \/ WriteManifest(c) \/ FinishImport(c) \/
           FailImport(c) \/ Detach(c) \/ Rename(c) \/ Crash(c)
  BY <1>5 DEF Select, SelectFirst, CloseOpen, Plan, Recreate, BeginRecovery, WriteMarker,
           RollForward, FinishRecovery, CreateReserve, ImportReserve, WriteManifest,
           FinishImport, FailImport, Detach, Rename, Crash, DiskKept, MainStep
<1>6. CASE InstallFirst(c)
  BY <1>6, Distinct DEF InstallFirst, MainStep, Typed, TypeOK
<1>7. CASE Activate(c)
  BY <1>4, <1>7 DEF Activate
<1>8. CASE OpenSelected(c)
  <2>1. call[c].pc = "selected" /\ call[c].id # NoId
    BY <1>8 DEF OpenSelected, Own, Session
  <2>2. NoManifest.id = NoId
    BY DEF NoManifest, Manifest
  <2>. QED
    BY <1>1, <1>3, <1>8, <2>1, <2>2 DEF OpenSelected, MainStep, Typed, TypeOK
<1>9. CASE Write(c)
  BY <1>1, <1>9 DEF Write, MainStep, Typed, TypeOK
<1>10. CASE MoveMain(c)
  <2>1. call[c].stamp \in Stamps
    BY <1>10 DEF MoveMain, Own, Recovery, RecoveryPcs
  <2>. QED
    BY <1>1, <1>10, <2>1 DEF MoveMain, MainStep, Typed, TypeOK
<1>11. CASE CreateEmpty(c)
  BY <1>1, <1>11 DEF CreateEmpty, Replacing, Fresh, MainStep, Typed, TypeOK
<1>12. CASE ConnectReplacement(c)
  BY <1>1, <1>12 DEF ConnectReplacement, Replacing, Fresh, MainStep, Typed, TypeOK
<1>13. CASE InstallTables(c)
  BY <1>1, <1>13 DEF InstallTables, Replacing, Fresh, MainStep, Typed, TypeOK
<1>14. CASE FinalizeRecovered(c)
  BY <1>4, <1>14 DEF FinalizeRecovered
<1>15. CASE Fill(c)
  BY <1>1, <1>2, <1>15 DEF Fill, MainStep, Typed, TypeOK
<1>16. CASE FailCreate(c)
  <2>1. ASSUME NEW q \in Places, q = call[c].root PROVE MainStep(c, q)
    BY <1>16, <2>1, ErasesOne DEF MainStep
  <2>2. ASSUME NEW q \in Places, q # call[c].root PROVE MainStep(c, q)
    BY <1>16, <2>2, ErasesOne DEF MainStep
  <2>. QED
    BY <2>1, <2>2
<1>17. CASE Delete(c)
  <2>1. ASSUME NEW q \in Places, q = call[c].root PROVE MainStep(c, q)
    BY <1>17, <2>1, ErasesOne DEF MainStep
  <2>2. ASSUME NEW q \in Places, q # call[c].root PROVE MainStep(c, q)
    BY <1>17, <2>2, ErasesOne DEF MainStep
  <2>. QED
    BY <2>1, <2>2
<1>. QED
  BY <1>5, <1>6, <1>7, <1>8, <1>9, <1>10, <1>11, <1>12, <1>13, <1>14, <1>15, <1>16, <1>17 DEF Step

\* The logs of old databases are never made, only removed.
LEMMA LogSteps ==
  ASSUME Typed, NEW c \in Callers, Own(c), Step(c)
  PROVE  \A r \in Places : LogStep(c, r)
<1>1. call[c] \in CallType /\ call[c].root \in Places
  BY DEF Typed, CallType
<1>2. call[c].pc \in {"creating", "created", "importing", "copied", "imported", "removing"} =>
        call[c].root \in Ids
  BY DEF Own, Installation, Removal, InstallPcs
<1>3. CASE Select(c) \/ SelectFirst(c) \/ InstallFirst(c) \/ Activate(c) \/ OpenSelected(c)
           \/ Write(c) \/ CloseOpen(c) \/ Plan(c) \/ Recreate(c) \/ WriteMarker(c) \/
           MoveMain(c) \/ CreateEmpty(c) \/ ConnectReplacement(c) \/ InstallTables(c) \/
           FinalizeRecovered(c) \/ FinishRecovery(c) \/ CreateReserve(c) \/
           ImportReserve(c) \/ Fill(c) \/ WriteManifest(c) \/ FinishImport(c) \/
           FailImport(c) \/ Detach(c) \/ Rename(c) \/ Crash(c)
  BY <1>3 DEF Select, SelectFirst, InstallFirst, Activate, OpenSelected, Write, CloseOpen,
           Plan, Recreate, WriteMarker, MoveMain, CreateEmpty, ConnectReplacement,
           InstallTables, FinalizeRecovered, FinishRecovery, CreateReserve, ImportReserve,
           Fill, WriteManifest, FinishImport, FailImport, Detach, Rename, Crash, DiskKept,
           LogStep
<1>4. CASE BeginRecovery(c)
  BY <1>1, <1>4 DEF BeginRecovery, LogStep, Typed, TypeOK
<1>5. CASE RollForward(c)
  BY <1>1, <1>5 DEF RollForward, LogStep, Typed, TypeOK
<1>6. CASE FailCreate(c)
  <2>1. ASSUME NEW q \in Places, q = call[c].root PROVE LogStep(c, q)
    BY <1>6, <2>1, ErasesOne DEF LogStep
  <2>2. ASSUME NEW q \in Places, q # call[c].root PROVE LogStep(c, q)
    BY <1>6, <2>2, ErasesOne DEF LogStep
  <2>. QED
    BY <2>1, <2>2
<1>7. CASE Delete(c)
  <2>1. ASSUME NEW q \in Places, q = call[c].root PROVE LogStep(c, q)
    BY <1>7, <2>1, ErasesOne DEF LogStep
  <2>2. ASSUME NEW q \in Places, q # call[c].root PROVE LogStep(c, q)
    BY <1>7, <2>2, ErasesOne DEF LogStep
  <2>. QED
    BY <2>1, <2>2
<1>. QED
  BY <1>3, <1>4, <1>5, <1>6, <1>7 DEF Step

\* The backups of a place, changed by its one recovery.
LEMMA BackupSteps ==
  ASSUME Typed, NEW c \in Callers, Own(c), Step(c)
  PROVE  \A r \in Places, s \in Stamps : BackupStep(c, r, s)
<1>1. call[c] \in CallType /\ call[c].root \in Places
  BY DEF Typed, CallType
<1>2. call[c].pc \in {"creating", "created", "importing", "copied", "imported", "removing"} =>
        call[c].root \in Ids
  BY DEF Own, Installation, Removal, InstallPcs
<1>3. call[c].pc \in Planning => call[c].plan.stamp \in Stamps
  BY DEF Own, Begins
<1>4. call[c].pc \in RecoveryPcs \cup Endings => call[c].stamp \in Stamps /\ call[c].id \in Ids
  BY DEF Own, Recovery, Ending
<1>5. \A q \in Places, s \in Stamps : main[q] \in Classes /\ wal[q] \in BOOLEAN /\ backup[q][s].wal \in BOOLEAN
  BY DEF Typed, TypeOK
<1>6. ASSUME backup' = backup PROVE \A r \in Places, s \in Stamps : BackupStep(c, r, s)
  BY <1>6 DEF BackupStep
<1>7. CASE Select(c) \/ SelectFirst(c) \/ InstallFirst(c) \/ Activate(c) \/ OpenSelected(c)
           \/ Write(c) \/ CloseOpen(c) \/ Plan(c) \/ Recreate(c) \/ CreateEmpty(c) \/
           ConnectReplacement(c) \/ InstallTables(c) \/ FinalizeRecovered(c) \/
           CreateReserve(c) \/ ImportReserve(c) \/ Fill(c) \/ WriteManifest(c) \/
           FinishImport(c) \/ FailImport(c) \/ Detach(c) \/ Rename(c) \/ Crash(c)
  BY ZenonT(40), <1>7 DEF Select, SelectFirst, InstallFirst, Activate, OpenSelected, Write, CloseOpen,
           Plan, Recreate, CreateEmpty, ConnectReplacement, InstallTables,
           FinalizeRecovered, CreateReserve, ImportReserve, Fill, WriteManifest,
           FinishImport, FailImport, Detach, Rename, Crash, DiskKept, BackupStep
<1>8. CASE BeginRecovery(c)
  <2>1. CASE backup' = backup
    BY <1>6, <2>1
  <2>2. CASE backup' # backup
    <3> DEFINE r == call[c].root  s == call[c].plan.stamp
    <3>1. r \in Places /\ s \in Stamps /\ backup' = [backup EXCEPT ![r][s].made = TRUE]
      BY <1>1, <1>3, <1>8, <2>2 DEF BeginRecovery, Planning, RecoveryPcs, Endings
    <3>2. call[c].pc = "confirmed" /\ Exists(r) /\ Lockable(r) /\ MayBegin(r, call[c].plan)
      BY <1>1, <1>8, <2>2 DEF BeginRecovery
    <3> HIDE DEF r, s
    <3>3. BackupWritten(r, s, TRUE, backup[r][s].main, backup[r][s].wal, backup[r][s].marker)
      BY <1>4, <1>5, <3>1, <3>2, Made DEF RecoveryPcs
    <3>4. \A q \in Places, t \in Stamps : (q = r /\ t = s) \/ backup'[q][t] = backup[q][t]
      BY <3>3 DEF BackupWritten
    <3>5. BackupStep(c, r, s)
      BY <3>2, <3>3 DEF BackupStep, r, s
    <3>6. ASSUME NEW q \in Places, NEW t \in Stamps, q # r \/ t # s PROVE BackupStep(c, q, t)
      BY <3>4, <3>6 DEF BackupStep
    <3>. QED
      BY <3>5, <3>6
  <2>. QED
    BY <2>1, <2>2
<1>9. CASE WriteMarker(c)
  <2>1. CASE backup' = backup
    BY <1>6, <2>1
  <2>2. CASE backup' # backup
    <3> DEFINE r == call[c].root  s == call[c].stamp
    <3>1. r \in Places /\ s \in Stamps /\ backup' = [backup EXCEPT ![r][s].marker = call[c].id]
      BY <1>1, <1>4, <1>9, <2>2 DEF WriteMarker, Planning, RecoveryPcs, Endings
    <3>2. call[c].pc = "marking"
      BY <1>1, <1>9, <2>2 DEF WriteMarker
    <3> HIDE DEF r, s
    <3>3. BackupWritten(r, s, backup[r][s].made, backup[r][s].main, backup[r][s].wal, call[c].id)
      BY <1>4, <1>5, <3>1, <3>2, MarkerWritten DEF RecoveryPcs
    <3>4. \A q \in Places, t \in Stamps : (q = r /\ t = s) \/ backup'[q][t] = backup[q][t]
      BY <3>3 DEF BackupWritten
    <3>5. BackupStep(c, r, s)
      BY <3>2, <3>3 DEF BackupStep, r, s
    <3>6. ASSUME NEW q \in Places, NEW t \in Stamps, q # r \/ t # s PROVE BackupStep(c, q, t)
      BY <3>4, <3>6 DEF BackupStep
    <3>. QED
      BY <3>5, <3>6
  <2>. QED
    BY <2>1, <2>2
<1>10. CASE RollForward(c)
  <2>1. CASE backup' = backup
    BY <1>6, <2>1
  <2>2. CASE backup' # backup
    <3> DEFINE r == call[c].root  s == call[c].stamp
    <3>1. r \in Places /\ s \in Stamps /\ backup' = [backup EXCEPT ![r][s].wal = backup[r][s].wal \/ wal[r]]
      BY <1>1, <1>4, <1>10, <2>2 DEF RollForward, Planning, RecoveryPcs, Endings
    <3>2. call[c].pc = "rolling" /\ wal'[r] = FALSE
      BY <1>1, <1>10, <2>2 DEF RollForward, Typed, TypeOK
    <3> HIDE DEF r, s
    <3>3. BackupWritten(r, s, backup[r][s].made, backup[r][s].main, backup[r][s].wal \/ wal[r], backup[r][s].marker)
      BY <1>4, <1>5, <3>1, <3>2, LogBackedUp DEF RecoveryPcs
    <3>4. \A q \in Places, t \in Stamps : (q = r /\ t = s) \/ backup'[q][t] = backup[q][t]
      BY <3>3 DEF BackupWritten
    <3>5. BackupStep(c, r, s)
      BY <3>2, <3>3 DEF BackupStep, r, s
    <3>6. ASSUME NEW q \in Places, NEW t \in Stamps, q # r \/ t # s PROVE BackupStep(c, q, t)
      BY <3>4, <3>6 DEF BackupStep
    <3>. QED
      BY <3>5, <3>6
  <2>. QED
    BY <2>1, <2>2
<1>11. CASE MoveMain(c)
  <2>1. CASE backup' = backup
    BY <1>6, <2>1
  <2>2. CASE backup' # backup
    <3> DEFINE r == call[c].root  s == call[c].stamp
    <3>1. r \in Places /\ s \in Stamps /\ backup' = [backup EXCEPT ![r][s].main = main[r]]
      BY <1>1, <1>4, <1>11, <2>2 DEF MoveMain, Planning, RecoveryPcs, Endings
    <3>2. call[c].pc = "main" /\ main'[r] = "none"
      BY <1>1, <1>11, <2>2 DEF MoveMain, Typed, TypeOK
    <3> HIDE DEF r, s
    <3>3. BackupWritten(r, s, backup[r][s].made, main[r], backup[r][s].wal, backup[r][s].marker)
      BY <1>4, <1>5, <3>1, <3>2, MainBackedUp DEF RecoveryPcs
    <3>4. \A q \in Places, t \in Stamps : (q = r /\ t = s) \/ backup'[q][t] = backup[q][t]
      BY <3>3 DEF BackupWritten
    <3>5. BackupStep(c, r, s)
      BY <3>2, <3>3 DEF BackupStep, r, s
    <3>6. ASSUME NEW q \in Places, NEW t \in Stamps, q # r \/ t # s PROVE BackupStep(c, q, t)
      BY <3>4, <3>6 DEF BackupStep
    <3>. QED
      BY <3>5, <3>6
  <2>. QED
    BY <2>1, <2>2
<1>12. CASE FinishRecovery(c)
  <2>1. CASE backup' = backup
    BY <1>6, <2>1
  <2>2. CASE backup' # backup
    <3> DEFINE r == call[c].root  s == call[c].stamp
    <3>1. r \in Places /\ s \in Stamps /\ backup' = [backup EXCEPT ![r][s].marker = NoId]
      BY <1>1, <1>4, <1>12, <2>2 DEF FinishRecovery, Planning, RecoveryPcs, Endings
    <3>2. call[c].pc = "finish" \/ (call[c].pc = "relock" /\ Lockable(r))
      BY <1>1, <1>12, <2>2 DEF FinishRecovery
    <3> HIDE DEF r, s
    <3>3. BackupWritten(r, s, backup[r][s].made, backup[r][s].main, backup[r][s].wal, NoId)
      BY <1>4, <1>5, <3>1, <3>2, MarkerWritten DEF RecoveryPcs
    <3>4. \A q \in Places, t \in Stamps : (q = r /\ t = s) \/ backup'[q][t] = backup[q][t]
      BY <3>3 DEF BackupWritten
    <3>5. BackupStep(c, r, s)
      BY <3>2, <3>3 DEF BackupStep, r, s
    <3>6. ASSUME NEW q \in Places, NEW t \in Stamps, q # r \/ t # s PROVE BackupStep(c, q, t)
      BY <3>4, <3>6 DEF BackupStep
    <3>. QED
      BY <3>5, <3>6
  <2>. QED
    BY <2>1, <2>2
<1>13. CASE FailCreate(c)
  <2>1. ASSUME NEW q \in Places, NEW s \in Stamps, q = call[c].root PROVE BackupStep(c, q, s)
    BY <1>13, <2>1, ErasesOne DEF BackupStep
  <2>2. ASSUME NEW q \in Places, NEW s \in Stamps, q # call[c].root PROVE BackupStep(c, q, s)
    BY <1>13, <2>2, ErasesOne DEF BackupStep
  <2>. QED
    BY <2>1, <2>2
<1>14. CASE Delete(c)
  <2>1. ASSUME NEW q \in Places, NEW s \in Stamps, q = call[c].root PROVE BackupStep(c, q, s)
    BY <1>14, <2>1, ErasesOne DEF BackupStep
  <2>2. ASSUME NEW q \in Places, NEW s \in Stamps, q # call[c].root PROVE BackupStep(c, q, s)
    BY <1>14, <2>2, ErasesOne DEF BackupStep
  <2>. QED
    BY <2>1, <2>2
<1>. QED
  BY <1>7, <1>8, <1>9, <1>10, <1>11, <1>12, <1>13, <1>14 DEF Step

-----------------------------------------------------------------------------
(* The locks.                                                              *)

\* Nobody has an empty directory open.
LEMMA UnfilledUnused ==
  ASSUME Typed, Directories, \A d \in Callers : Own(d), NEW i \in Ids,
         dir[i] \in {"absent", "reserved"}
  PROVE  \A d \in Callers : ~UsesProfile(d, i)
BY Distinct DEF Own, Session, UsesProfile

\* What a caller holds after its step it held before, or found free.
LEMMA LockSteps ==
  ASSUME IInv, NEW c \in Callers, Step(c)
  PROVE  /\ call'[c].pc \in InstallPcs \cup RecoveryPcs =>
              \/ call[c].pc \in InstallPcs \cup RecoveryPcs /\ call'[c].root = call[c].root
              \/ Lockable(call'[c].root)
         /\ call'[c].pc = "open" =>
              \/ call[c].pc = "open" /\ call'[c].root = call[c].root
              \/ Sharable(call'[c].root)
         /\ call'[c].pc \in InstallPcs \cup {"removing"} =>
              call[c].pc \in InstallPcs \cup {"removing"} \/ CatalogFree
<1> DEFINE Good ==
         /\ call'[c].pc \in InstallPcs \cup RecoveryPcs =>
              \/ call[c].pc \in InstallPcs \cup RecoveryPcs /\ call'[c].root = call[c].root
              \/ Lockable(call'[c].root)
         /\ call'[c].pc = "open" =>
              \/ call[c].pc = "open" /\ call'[c].root = call[c].root
              \/ Sharable(call'[c].root)
         /\ call'[c].pc \in InstallPcs \cup {"removing"} =>
              call[c].pc \in InstallPcs \cup {"removing"} \/ CatalogFree
<1>1. call \in [Callers -> CallType]
  BY DEF IInv, Typed
<1>2. ASSUME Stop(c) PROVE Good
  BY <1>1, <1>2 DEF Stop, Goto, Idle, InstallPcs, RecoveryPcs
<1>3. ASSUME NEW pc, Advance(c, pc) PROVE call'[c].pc = pc /\ call'[c].root = call[c].root
  BY <1>1, <1>3 DEF Advance, Goto, CallType
<1>4. ASSUME NEW id, NEW then \in {"selected", "relock"}, Finalize(c, id, then) PROVE Good
  <2>1. CASE Stop(c)
    BY <1>2, <2>1
  <2>2. CASE call'[c].pc = then
    BY <1>4, <2>2 DEF InstallPcs, RecoveryPcs
  <2>3. \A i : Goto(c, [call[c] EXCEPT !.pc = then, !.id = i]) => call'[c].pc = then
    BY <1>1 DEF Goto, CallType
  <2>. QED
    BY <1>4, <2>1, <2>2, <2>3 DEF Finalize
<1>5. ASSUME NEW i \in Ids, NEW name, NEW pc, Reserve(c, i, name, pc), CatalogFree,
             \A r \in Places : Sharable(r), dir[i] \in {"absent", "reserved"}
      PROVE  Good
  <2>1. call'[c].root = i
    BY <1>1, <1>5 DEF Reserve, Goto, At, Idle
  <2>2. Lockable(i)
    BY <1>5, UnfilledUnused, Distinct DEF IInv, Sound, Sharable, Lockable
  <2>3. call'[c].pc = pc
    BY <1>1, <1>5 DEF Reserve, Goto, At, Idle
  <2>. QED
    BY <1>5, <2>1, <2>2, <2>3, Distinct
<1>6. CASE Select(c)
  BY <1>1, <1>6 DEF Select, Goto, At, Idle, InstallPcs, RecoveryPcs
<1>7. CASE SelectFirst(c)
  BY <1>1, <1>7 DEF SelectFirst, Goto, At, Idle, InstallPcs, RecoveryPcs
<1>8. CASE InstallFirst(c)
  BY <1>2, <1>3, <1>8 DEF InstallFirst, InstallPcs, RecoveryPcs
<1>9. CASE Activate(c)
  BY <1>4, <1>9 DEF Activate
<1>10. CASE OpenSelected(c)
  BY <1>2, <1>3, <1>10 DEF OpenSelected, InstallPcs, RecoveryPcs
<1>11. CASE Write(c)
  BY <1>11 DEF Write
<1>12. CASE CloseOpen(c)
  BY <1>2, <1>12 DEF CloseOpen
<1>13. CASE Plan(c)
  <2>1. call'[c].pc = "planned"
    BY <1>1, <1>13 DEF Plan, Planned, Goto, Idle
  <2>. QED
    BY <2>1 DEF InstallPcs, RecoveryPcs
<1>14. CASE Recreate(c)
  <2>1. call'[c].pc = "confirmed"
    BY <1>1, <1>14 DEF Recreate, Goto, CallType
  <2>. QED
    BY <2>1 DEF InstallPcs, RecoveryPcs
<1>15. CASE BeginRecovery(c)
  <2>1. CASE Stop(c)
    BY <1>2, <2>1
  <2>2. CASE Lockable(call[c].root) /\ call'[c].pc \in {"rolling", "marking"} /\ call'[c].root = call[c].root
    BY <2>2 DEF InstallPcs, RecoveryPcs
  <2>3. Goto(c, [call[c] EXCEPT !.pc = "rolling", !.plan = NoPlan]) =>
          call'[c].pc = "rolling" /\ call'[c].root = call[c].root
    BY <1>1 DEF Goto, CallType
  <2>. QED
    BY <1>3, <1>15, <2>1, <2>2, <2>3 DEF BeginRecovery
<1>16. CASE WriteMarker(c)
  <2>1. call[c].pc = "marking" /\ call'[c].pc = "rolling" /\ call'[c].root = call[c].root
    BY <1>1, <1>16 DEF WriteMarker, Goto, CallType
  <2>. QED
    BY <2>1 DEF InstallPcs, RecoveryPcs
<1>17. CASE RollForward(c)
  BY <1>2, <1>3, <1>17 DEF RollForward, Verified, InstallPcs, RecoveryPcs
<1>18. CASE MoveMain(c)
  BY <1>2, <1>3, <1>18 DEF MoveMain, InstallPcs, RecoveryPcs
<1>19. CASE CreateEmpty(c)
  BY <1>2, <1>3, <1>19 DEF CreateEmpty, InstallPcs, RecoveryPcs
<1>20. CASE ConnectReplacement(c)
  BY <1>2, <1>3, <1>20 DEF ConnectReplacement, InstallPcs, RecoveryPcs
<1>21. CASE InstallTables(c)
  BY <1>2, <1>3, <1>21 DEF InstallTables, Verified, InstallPcs, RecoveryPcs
<1>22. CASE FinalizeRecovered(c)
  BY <1>4, <1>22 DEF FinalizeRecovered
<1>23. CASE FinishRecovery(c)
  BY <1>2, <1>23 DEF FinishRecovery
<1>24. CASE CreateReserve(c)
  <2>1. PICK i \in Ids, name \in Names : dir[i] = "absent" /\ Reserve(c, i, name, "creating")
    BY <1>24 DEF CreateReserve, UsedIds
  <2>. QED
    BY <1>5, <1>24, <2>1 DEF CreateReserve, CanList
<1>25. CASE ImportReserve(c)
  <2>1. PICK i \in Ids, name \in Names :
          dir[i] \in {"absent", "reserved"} /\ Reserve(c, i, name, "importing")
    BY <1>25 DEF ImportReserve
  <2>. QED
    BY <1>5, <1>25, <2>1 DEF ImportReserve
<1>26. CASE Fill(c)
  BY <1>2, <1>3, <1>26 DEF Fill, InstallPcs, RecoveryPcs
<1>27. CASE WriteManifest(c)
  BY <1>2, <1>3, <1>27 DEF WriteManifest, InstallPcs, RecoveryPcs
<1>28. CASE FinishImport(c)
  BY <1>2, <1>28 DEF FinishImport
<1>29. CASE FailCreate(c)
  BY <1>2, <1>29 DEF FailCreate
<1>30. CASE FailImport(c)
  <2>1. call'[c].pc = "removing" /\ call[c].pc \in InstallPcs
    BY <1>1, <1>30 DEF FailImport, Retire, Goto, At, Idle, InstallPcs
  <2>. QED
    BY <2>1 DEF InstallPcs, RecoveryPcs
<1>31. CASE Detach(c)
  <2>1. call'[c].pc = "removing" /\ CatalogFree
    BY <1>1, <1>31 DEF Detach, Retire, Goto, At, Idle
  <2>. QED
    BY <2>1 DEF InstallPcs, RecoveryPcs
<1>32. CASE Delete(c)
  BY <1>2, <1>32 DEF Delete
<1>33. CASE Rename(c)
  BY <1>33 DEF Rename
<1>34. CASE Crash(c)
  BY <1>2, <1>34 DEF Crash
<1>. QED
  BY <1>6, <1>7, <1>8, <1>9, <1>10, <1>11, <1>12, <1>13, <1>14, <1>15, <1>16, <1>17,
     <1>18, <1>19, <1>20, <1>21, <1>22, <1>23, <1>24, <1>25, <1>26, <1>27, <1>28, <1>29,
     <1>30, <1>31, <1>32, <1>33, <1>34 DEF Step

LEMMA LocksKept ==
  ASSUME IInv, NEW c \in Callers, Step(c)
  PROVE  Locked'
<1>1. \A d \in Callers \ {c} : call'[d] = call[d]
  BY OneMoves DEF IInv
<1>2. ASSUME NEW a \in Callers, NEW b \in Callers, call'[a].root = call'[b].root,
             call'[a].pc \in InstallPcs \cup RecoveryPcs,
             call'[b].pc \in InstallPcs \cup RecoveryPcs \cup {"open"}, a # b
      PROVE  FALSE
  <2>1. CASE a = c
    BY <1>1, <1>2, <2>1, LockSteps DEF IInv, Locked, Lockable, HoldsProfile, UsesProfile
  <2>2. CASE b = c
    <3>1. call'[a] = call[a]
      BY <1>1, <1>2, <2>2
    <3>2. ~Sharable(call'[b].root)
      BY <1>2, <3>1 DEF Sharable, HoldsProfile
    <3>3. ~Lockable(call'[b].root)
      BY <3>2 DEF Sharable, Lockable
    <3>4. call[b].pc \in InstallPcs \cup RecoveryPcs \cup {"open"} /\ call'[b].root = call[b].root
      BY <1>2, <2>2, <3>2, <3>3, LockSteps
    <3>. QED
      BY <1>2, <3>1, <3>4 DEF IInv, Locked
  <2>3. CASE a # c /\ b # c
    BY <1>1, <1>2, <2>3 DEF IInv, Locked
  <2>. QED
    BY <2>1, <2>2, <2>3
<1>3. ASSUME NEW a \in Callers, NEW b \in Callers, HoldsCatalog(a)', HoldsCatalog(b)' PROVE a = b
  BY <1>1, <1>3, LockSteps DEF IInv, Locked, HoldsCatalog, CatalogFree
<1>. QED
  BY <1>2, <1>3 DEF Locked

-----------------------------------------------------------------------------
(* The disk.                                                               *)

\* What the steps do, with what their caller knows of its place.
LEMMA DiskSteps ==
  ASSUME IInv, NEW c \in Callers, Step(c)
  PROVE  /\ \A i \in Ids : DirStep(c, i)
         /\ \A r \in Places : ManifestStep(c, r) /\ MainStep(c, r) /\ LogStep(c, r)
         /\ \A r \in Places, s \in Stamps : BackupStep(c, r, s)
         /\ Typed /\ Typed' /\ Own(c) /\ Sound
BY DirSteps, ManifestSteps, MainSteps, LogSteps, BackupSteps, DiskTyped DEF IInv

LEMMA Manifests ==
  /\ NoManifest.id = NoId /\ NoManifest.name = NoName
  /\ \A i, n : Manifest(i, n).id = i /\ Manifest(i, n).name = n
  /\ \A i \in Ids, n \in Names : Manifest(i, n) # NoManifest
BY Distinct DEF Manifest, NoManifest

\* A place has a manifest if its ID, or its name, is one.
LEMMA ManifestParts ==
  ASSUME Typed, NEW r \in Places
  PROVE  /\ manifest[r].id \in Ids \cup {NoId} /\ manifest[r].name \in Names \cup {NoName}
         /\ manifest[r] = NoManifest <=> manifest[r].id = NoId
         /\ manifest[r] = NoManifest <=> manifest[r].name = NoName
BY Manifests DEF Typed, TypeOK, Manifest, NoManifest

LEMMA DirectoriesKept ==
  ASSUME IInv, NEW c \in Callers, Step(c)
  PROVE  Directories'
<1>1. SUFFICES ASSUME NEW i \in Ids
               PROVE  /\ manifest'[i].id \in {i, NoId}
                      /\ dir'[i] \in {"absent", "reserved"} =>
                           /\ manifest'[i] = NoManifest /\ main'[i] = "none"
                           /\ \A s \in Stamps : backup'[i][s].marker = NoId /\ backup'[i][s].main = "none"
  BY DEF Directories
<1>2. /\ DirStep(c, i) /\ ManifestStep(c, i) /\ MainStep(c, i)
      /\ \A s \in Stamps : BackupStep(c, i, s)
      /\ Own(c) /\ Directories /\ i \in Places /\ i # Root /\ i # NoId
  BY DiskSteps, Distinct DEF Sound
<1>3. manifest'[i].id \in {i, NoId}
  <2>1. manifest[i].id \in {i, NoId}
    BY <1>2 DEF Directories
  <2>2. CASE call[c].root = i /\ call[c].pc \in {"created", "copied"}
             /\ manifest'[i] = Manifest(call[c].id, call[c].name)
    BY <1>2, <2>2, Manifests DEF Own, Installation, InstallPcs
  <2>. QED
    BY <1>2, <2>1, <2>2, Manifests DEF ManifestStep, Erasing
<1>4. ASSUME dir'[i] \in {"absent", "reserved"}
      PROVE  /\ manifest'[i] = NoManifest /\ main'[i] = "none"
             /\ \A s \in Stamps : backup'[i][s].marker = NoId /\ backup'[i][s].main = "none"
  <2>1. CASE Erasing(c, i)
    BY <2>1 DEF Erasing, NoBackup
  <2>2. CASE ~Erasing(c, i)
    <3>1. dir[i] \in {"absent", "reserved"}
      BY <1>2, <1>4, <2>2 DEF DirStep
    <3>2. /\ manifest[i] = NoManifest /\ main[i] = "none"
          /\ \A s \in Stamps : backup[i][s].marker = NoId /\ backup[i][s].main = "none"
      BY <1>2, <3>1 DEF Directories
    <3>3. call[c].root = i => call[c].pc \notin {"created", "copied", "open"} \cup RecoveryPcs
      BY <1>2, <3>1 DEF Own, Installation, InstallPcs, Session, Recovery
    <3>4. call[c].root = i => call[c].pc # "relock"
      BY <1>2 DEF Own, Ending, Endings
    <3>5. manifest'[i] = NoManifest
      BY <1>2, <2>2, <3>2, <3>3 DEF ManifestStep
    <3>6. main'[i] = "none"
      BY <1>2, <1>4, <2>2, <3>2, <3>3 DEF MainStep, Replacing, RecoveryPcs
    <3>7. ASSUME NEW s \in Stamps PROVE backup'[i][s] = backup[i][s]
      <4>1. MayBegin(i, call[c].plan) => FALSE
        BY <3>2 DEF MayBegin
      <4>. QED
        BY <1>2, <2>2, <3>3, <3>4, <4>1 DEF BackupStep, RecoveryPcs
    <3>. QED
      BY <3>2, <3>5, <3>6, <3>7
  <2>. QED
    BY <2>1, <2>2
<1>. QED
  BY <1>3, <1>4

LEMMA RootIdKept ==
  ASSUME IInv, NEW c \in Callers, Step(c)
  PROVE  RootIdFree'
<1>1. SUFFICES ASSUME NEW i \in Ids, TakenByRoot(i)' PROVE dir'[i] = "absent"
  BY DEF RootIdFree
<1>2. /\ DirStep(c, i) /\ ManifestStep(c, Root)
      /\ \A s \in Stamps : BackupStep(c, Root, s)
      /\ Own(c) /\ RootIdFree /\ Root \notin Ids /\ i \in Places /\ i # Root /\ i # NoId /\ Typed
  BY DiskSteps, Distinct, CatalogAssumption DEF Sound
<1>3. call[c].root = i /\ call[c].pc \in InstallPcs => dir[i] # "absent"
  BY <1>2 DEF Own, Installation
<1>4. call[c].root = Root => call[c].pc \notin InstallPcs \cup {"removing"}
  BY <1>2 DEF Own, Installation, Removal
<1>5. CASE TakenByRoot(i)
  <2>1. dir[i] = "absent"
    BY <1>2, <1>5 DEF RootIdFree
  <2>. QED
    BY <1>2, <1>3, <1>5, <2>1 DEF DirStep, Erasing, Exists, InstallPcs
<1>6. CASE ~TakenByRoot(i)
  <2>1. CASE manifest'[Root].id = i
    <3>1. manifest[Root].id # i
      BY <1>6 DEF TakenByRoot
    <3>2. ~Erasing(c, Root)
      BY <1>4 DEF Erasing, InstallPcs
    <3>3. \E n : NamesRoot(c, i, n)
      BY <1>2, <1>4, <2>1, <3>1, <3>2, Manifests DEF ManifestStep, InstallPcs
    <3>4. \/ call[c].pc = "finalize" /\ i = call[c].id
          \/ call[c].pc = "activate" /\ i \notin UsedIds
      BY <3>3 DEF NamesRoot
    <3>5. ~(call[c].pc = "finalize" /\ i = call[c].id)
      <4>1. manifest[Root] = NoManifest
        BY <3>3 DEF NamesRoot
      <4>. QED
        BY <1>2, <1>6, <4>1 DEF Own, Ending, Endings, TakenByRoot, Mine
    <3>6. call[c].pc = "activate" /\ dir[i] = "absent"
      BY <3>4, <3>5 DEF UsedIds
    <3>. QED
      BY <1>2, <3>6 DEF DirStep, Erasing
  <2>2. CASE \E s \in Stamps : backup'[Root][s].marker = i
    <3>1. PICK s \in Stamps : backup'[Root][s].marker = i
      BY <2>2
    <3>2. backup[Root][s].marker # i
      BY <1>6 DEF TakenByRoot
    <3>3. call[c].root = Root /\ call[c].pc = "marking" /\ i = call[c].id
      <4>1. ~Erasing(c, Root)
        BY <1>4 DEF Erasing, InstallPcs
      <4>. QED
        BY <1>2, <3>1, <3>2, <4>1 DEF BackupStep, BackupWritten
    <3>4. call[c].plan.key = NoId
      <4>1. call[c].plan.key # NoId => manifest[Root].id = call[c].plan.key
        BY <1>2, <3>3 DEF Own, Begins
      <4>2. call[c].plan.key # NoId => call[c].id = call[c].plan.key
        BY <1>2, <3>3 DEF Own, Recovery, RecoveryPcs
      <4>. QED
        BY <1>6, <3>3, <4>1, <4>2 DEF TakenByRoot
    <3>5. dir[i] = "absent"
      BY <1>2, <3>3, <3>4 DEF Own, Begins, Planning
    <3>. QED
      BY <1>2, <3>3, <3>5 DEF DirStep, Erasing
  <2>. QED
    BY <1>1, <2>1, <2>2 DEF TakenByRoot
<1>. QED
  BY <1>5, <1>6

\* A step writes one manifest at most.
LEMMA OneManifest ==
  ASSUME IInv, NEW c \in Callers, Step(c)
  PROVE  \E p \in Places : \A q \in Places \ {p} : manifest'[q] = manifest[q]
<1>1. Root \in Places /\ call[c].root \in Places /\ Typed
  BY Distinct DEF IInv, Typed, CallType
<1>2. ASSUME NEW p \in Places, NEW m, manifest' = [manifest EXCEPT ![p] = m]
      PROVE  \A q \in Places \ {p} : manifest'[q] = manifest[q]
  BY <1>1, <1>2 DEF Typed, TypeOK
<1>3. ASSUME manifest' = manifest
      PROVE  \E p \in Places : \A q \in Places \ {p} : manifest'[q] = manifest[q]
  BY <1>1, <1>3
<1>4. CASE Activate(c) \/ FinalizeRecovered(c)
  BY <1>1, <1>2, <1>3, <1>4 DEF Activate, FinalizeRecovered, Finalize
<1>5. CASE WriteManifest(c)
  BY <1>1, <1>2, <1>5 DEF WriteManifest
<1>6. CASE FailCreate(c) \/ Delete(c)
  BY <1>1, <1>2, <1>6 DEF FailCreate, Delete, Erase
<1>7. CASE Rename(c)
  BY <1>1, <1>7 DEF Rename, Typed, TypeOK
<1>8. CASE Select(c) \/ SelectFirst(c) \/ InstallFirst(c) \/ OpenSelected(c) \/ Write(c)
           \/ CloseOpen(c) \/ Plan(c) \/ Recreate(c) \/ BeginRecovery(c) \/ WriteMarker(c)
           \/ RollForward(c) \/ MoveMain(c) \/ CreateEmpty(c) \/ ConnectReplacement(c)
           \/ InstallTables(c) \/ FinishRecovery(c) \/ CreateReserve(c) \/ ImportReserve(c)
           \/ Fill(c) \/ FinishImport(c) \/ FailImport(c) \/ Detach(c) \/ Crash(c)
  BY <1>3, <1>8 DEF Select, SelectFirst, InstallFirst, OpenSelected, Write, CloseOpen, Plan,
     Recreate, BeginRecovery, WriteMarker, RollForward, MoveMain, CreateEmpty, ConnectReplacement,
     InstallTables, FinishRecovery, CreateReserve, ImportReserve, Fill, FinishImport, FailImport,
     Detach, Crash, DiskKept
<1>. QED
  BY <1>4, <1>5, <1>6, <1>7, <1>8 DEF Step

\* A name that no listed profile has is no installed profile's.
LEMMA FreeNames ==
  ASSUME NEW n, NEW places, places \subseteq Places, ~NameTaken(n, places)
  PROVE  \A q \in places : Installed(q) => manifest[q].name # n
BY DEF NameTaken, Installed, Visible, EntryName

\* An installed profile keeps its name or takes one that nobody has.
LEMMA NewNames ==
  ASSUME IInv, NEW c \in Callers, Step(c), NEW r \in Places, Installed(r)'
  PROVE  \/ Installed(r) /\ manifest'[r] = manifest[r]
         \/ /\ manifest'[r] # manifest[r]
            /\ \A q \in Places \ {r} : Installed(q) => manifest[q].name # manifest'[r].name
<1>1. /\ r \in Ids => DirStep(c, r) /\ r # Root
      /\ ManifestStep(c, r) /\ Own(c) /\ Directories /\ Ids \subseteq Places
      /\ r \in Ids \cup {Root}
  BY DiskSteps, Distinct DEF Sound, Places
<1>2. ~Erasing(c, r)
  BY DEF Erasing, Installed
<1>3. CASE manifest'[r] = manifest[r]
  <2>1. manifest[r] # NoManifest
    BY <1>3 DEF Installed
  <2>2. CASE r # Root
    <3>1. dir'[r] = "present"
      BY <2>2 DEF Installed
    <3>2. dir[r] = "present"
      <4>1. call[c].root = r /\ call[c].pc \in {"creating", "importing"} => manifest[r] = NoManifest
        BY <1>1 DEF Own, Installation, InstallPcs
      <4>. QED
        BY <1>1, <1>2, <2>1, <2>2, <3>1, <4>1 DEF DirStep
    <3>. QED
      BY <1>3, <2>1, <3>2 DEF Installed
  <2>. QED
    BY <1>3, <2>1, <2>2 DEF Installed
<1>4. CASE manifest'[r] # manifest[r]
  <2>1. CASE r = Root /\ \E i, n : NamesRoot(c, i, n) /\ manifest'[r] = Manifest(i, n)
    <3>1. PICK i, n : NamesRoot(c, i, n) /\ manifest'[r] = Manifest(i, n)
      BY <2>1
    <3>2. ~NameTaken(n, Ids) /\ manifest'[r].name = n
      BY <3>1, Manifests DEF NamesRoot
    <3>. QED
      BY <1>1, <1>4, <2>1, <3>2, FreeNames DEF Places
  <2>2. CASE /\ call[c].root = r /\ call[c].pc \in {"created", "copied"}
             /\ manifest'[r] = Manifest(call[c].id, call[c].name)
    BY <1>1, <1>4, <2>2, Manifests DEF Own, Installation, InstallPcs
  <2>3. CASE ~NameTaken(manifest'[r].name, Places \ {r})
    BY <1>4, <2>3, FreeNames
  <2>. QED
    BY <1>1, <1>2, <1>4, <2>1, <2>2, <2>3 DEF ManifestStep
<1>. QED
  BY <1>3, <1>4

LEMMA NamesKept ==
  ASSUME IInv, NEW c \in Callers, Step(c)
  PROVE  NamesDiffer'
<1>1. SUFFICES ASSUME NEW r \in Places, NEW s \in Places, r # s, Installed(r)', Installed(s)'
               PROVE  manifest'[r].name # manifest'[s].name
  BY DEF NamesDiffer
<1>2. NamesDiffer
  BY DEF IInv, Sound
<1>3. manifest'[r] = manifest[r] \/ manifest'[s] = manifest[s]
  BY <1>1, OneManifest
<1>4. CASE manifest'[r] = manifest[r] /\ manifest'[s] = manifest[s]
  BY <1>1, <1>2, <1>4, NewNames DEF NamesDiffer
<1>5. CASE manifest'[r] = manifest[r] /\ manifest'[s] # manifest[s]
  <2>1. Installed(r)
    BY <1>1, <1>5, NewNames
  <2>. QED
    BY <1>1, <1>5, <2>1, NewNames
<1>6. CASE manifest'[r] # manifest[r] /\ manifest'[s] = manifest[s]
  <2>1. Installed(s)
    BY <1>1, <1>6, NewNames
  <2>. QED
    BY <1>1, <1>6, <2>1, NewNames
<1>. QED
  BY <1>3, <1>4, <1>5, <1>6

LEMMA LogsKept ==
  ASSUME IInv, NEW c \in Callers, Step(c)
  PROVE  NoForeignLog'
<1>1. SUFFICES ASSUME NEW r \in Places, wal'[r] PROVE main'[r] \in {"older", "newer", "corrupt"}
  BY DEF NoForeignLog
<1>2. MainStep(c, r) /\ LogStep(c, r) /\ Own(c) /\ Directories /\ NoForeignLog
  BY DiskSteps DEF Sound
<1>3. wal[r] /\ main[r] \in {"older", "newer", "corrupt"} /\ ~Erasing(c, r)
  BY <1>1, <1>2 DEF LogStep, Erasing, NoForeignLog
<1>4. call[c].root = r => call[c].pc # "main" /\ call[c].pc \notin Replacing
  BY <1>2, <1>3 DEF Own, Recovery, RecoveryPcs, Replacing, Fresh
<1>5. call[c].root = r => call[c].pc \notin {"creating", "importing"}
  BY <1>2, <1>3 DEF Own, Installation, InstallPcs, Directories
<1>. QED
  BY <1>2, <1>3, <1>4, <1>5 DEF MainStep

\* Only a recovery that found no marker writes one.
LEMMA MarkerSteps ==
  ASSUME IInv, NEW c \in Callers, Step(c), NEW r \in Places, NEW s \in Stamps,
         backup'[r][s].marker # NoId
  PROVE  \/ backup[r][s].marker = backup'[r][s].marker
         \/ /\ call[c].root = r /\ call[c].pc = "marking" /\ s = call[c].stamp
            /\ backup'[r][s].marker = call[c].id
<1>1. BackupStep(c, r, s)
  BY DiskSteps
<1>2. ~Erasing(c, r)
  BY DEF Erasing, NoBackup
<1>. QED
  BY <1>1, <1>2 DEF BackupStep, BackupWritten

LEMMA OneMarker ==
  ASSUME IInv, NEW c \in Callers, Step(c), NEW r \in Places, NEW s \in Stamps, NEW t \in Stamps,
         backup'[r][s].marker # NoId, backup'[r][t].marker # NoId
  PROVE  s = t
<1>1. Recoverable /\ Own(c)
  BY DEF IInv, Sound
<1>2. call[c].root = r /\ call[c].pc = "marking" => \A u \in Stamps : backup[r][u].marker = NoId
  BY <1>1 DEF Own, Recovery, RecoveryPcs
<1>. QED
  BY <1>1, <1>2, MarkerSteps DEF Recoverable

\* The caller of a recovery with a marker has the only one of its place.
LEMMA MineIsActive ==
  ASSUME IInv, NEW c \in Callers, call[c].pc \in Marked, NEW s \in Stamps,
         backup[call[c].root][s].marker # NoId
  PROVE  s = call[c].stamp
<1>1. call[c].root \in Places /\ Recoverable /\ Own(c)
  BY DEF IInv, Typed, CallType, Sound
<1>2. call[c].stamp \in Stamps /\ backup[call[c].root][call[c].stamp].marker # NoId
  BY <1>1, Distinct DEF Own, Recovery, Marked, Mine
<1>. QED
  BY <1>1, <1>2 DEF Recoverable

LEMMA UnmadeKept ==
  ASSUME IInv, NEW c \in Callers, Step(c), NEW r \in Places, NEW s \in Stamps, ~backup'[r][s].made
  PROVE  backup'[r][s].main = "none" /\ ~backup'[r][s].wal /\ backup'[r][s].marker = NoId
<1>1. BackupStep(c, r, s) /\ Own(c) /\ Recoverable
  BY DiskSteps DEF Sound
<1>2. ~backup[r][s].made =>
        backup[r][s].main = "none" /\ ~backup[r][s].wal /\ backup[r][s].marker = NoId
  BY <1>1 DEF Recoverable
<1>3. call[c].root = r /\ call[c].stamp = s /\ call[c].pc \in RecoveryPcs => backup[r][s].made
  BY <1>1, <1>2, Distinct DEF Own, Recovery, RecoveryPcs, Marked, Mine
<1>4. CASE Erasing(c, r)
  BY <1>4 DEF Erasing, NoBackup
<1>5. CASE ~Erasing(c, r)
  BY <1>1, <1>2, <1>3, <1>5 DEF BackupStep, BackupWritten, RecoveryPcs
<1>. QED
  BY <1>4, <1>5

\* A marker names the profile: the one whose manifest was there, or the one it will give.
LEMMA MarkerNamesProfile ==
  ASSUME IInv, NEW c \in Callers, Step(c), NEW r \in Places, NEW s \in Stamps,
         backup'[r][s].marker # NoId, manifest'[r] # NoManifest
  PROVE  backup'[r][s].marker = manifest'[r].id
<1>1. ManifestStep(c, r) /\ Own(c) /\ Recoverable /\ Directories /\ Typed /\ r \in Ids \cup {Root}
  BY DiskSteps DEF Sound, Places
<1>2. ~Erasing(c, r)
  BY DEF Erasing
<1>3. CASE backup[r][s].marker = backup'[r][s].marker
  <2>1. CASE manifest[r] # NoManifest /\ manifest'[r].id = manifest[r].id
    BY <1>1, <1>3, <2>1 DEF Recoverable
  <2>2. CASE r = Root /\ \E i, n : NamesRoot(c, i, n) /\ manifest'[r] = Manifest(i, n)
    <3>1. PICK i, n : NamesRoot(c, i, n) /\ manifest'[r] = Manifest(i, n)
      BY <2>2
    <3>2. Markers(Root) = {s}
      BY <1>1, <1>3, <2>2 DEF Markers, Recoverable
    <3>3. ActiveStamp(Root) = s /\ Active(Root)
      BY <3>2 DEF ActiveStamp, Active
    <3>. QED
      BY <1>3, <2>2, <3>1, <3>3, Manifests DEF NamesRoot
  <2>3. ~(call[c].root = r /\ call[c].pc \in {"created", "copied"})
    BY <1>1, <1>3 DEF Own, Installation, InstallPcs
  <2>. QED
    BY <1>1, <1>2, <2>1, <2>2, <2>3 DEF ManifestStep
<1>4. CASE /\ call[c].root = r /\ call[c].pc = "marking" /\ s = call[c].stamp
           /\ backup'[r][s].marker = call[c].id
  <2>1. manifest'[r] = manifest[r]
    BY <1>1, <1>2, <1>4 DEF ManifestStep, NamesRoot
  <2>2. CASE r = Root
    <3>1. main[Root] \in Old
      BY <1>1, <1>4, <2>2 DEF Own, Recovery, RecoveryPcs
    <3>2. call[c].plan.key # NoId
      BY <1>1, <1>4, <2>1, <2>2, <3>1 DEF Own, Begins
    <3>3. manifest[Root].id = call[c].plan.key /\ call[c].id = call[c].plan.key
      BY <1>1, <1>4, <2>2, <3>2 DEF Own, Begins, Recovery, RecoveryPcs
    <3>. QED
      BY <1>4, <2>1, <2>2, <3>3
  <2>3. CASE r \in Ids
    <3>1. call[c].plan.key = r /\ call[c].id = r
      BY <1>1, <1>4, <2>3, Distinct DEF Own, Begins, Recovery, RecoveryPcs
    <3>2. manifest[r].id = r
      BY <1>1, <2>1, <2>3, ManifestParts DEF Directories
    <3>. QED
      BY <1>4, <2>1, <3>1, <3>2
  <2>. QED
    BY <1>1, <2>2, <2>3
<1>. QED
  BY <1>3, <1>4, MarkerSteps

\* Where an active recovery left the old database.
LEMMA OldIsSomewhere ==
  ASSUME IInv, NEW c \in Callers, Step(c), NEW r \in Places, NEW s \in Stamps,
         backup'[r][s].marker # NoId
  PROVE  IF backup'[r][s].main = "none" THEN main'[r] \in Old /\ ~(wal'[r] /\ backup'[r][s].wal)
         ELSE main'[r] \in Fresh \cup {"populated"}
<1>1. /\ MainStep(c, r) /\ LogStep(c, r) /\ BackupStep(c, r, s)
      /\ Own(c) /\ Recoverable /\ Directories /\ Typed
  BY DiskSteps DEF Sound
<1>2. ~Erasing(c, r)
  BY DEF Erasing, NoBackup
<1>3. CASE backup[r][s].marker # NoId
  <2>1. IF backup[r][s].main = "none" THEN main[r] \in Old /\ ~(wal[r] /\ backup[r][s].wal)
        ELSE main[r] \in Fresh \cup {"populated"}
    BY <1>1, <1>3 DEF Recoverable
  <2>2. call[c].root = r => call[c].pc \notin InstallPcs
    BY <1>1, <1>3 DEF Own, Installation
  <2>3. call[c].root = r => call[c].pc # "marking"
    BY <1>1, <1>3 DEF Own, Recovery, RecoveryPcs
  <2>4. call[c].root = r /\ call[c].pc \in Marked => s = call[c].stamp
    BY <1>3, MineIsActive
  <2>5. CASE call[c].root = r /\ call[c].pc = "main"
    <3>1. s = call[c].stamp /\ backup[r][s].main = "none" /\ main[r] \in Old /\ ~wal[r]
      BY <1>1, <2>4, <2>5 DEF Own, Recovery, RecoveryPcs, Marked, Mine
    <3>2. CASE main'[r] = main[r]
      <4>1. backup'[r][s] = backup[r][s]
        BY <1>1, <1>2, <2>5, <3>1, <3>2 DEF BackupStep, Old
      <4>. QED
        BY <1>1, <1>2, <2>5, <3>1, <3>2, <4>1 DEF LogStep
    <3>3. CASE main'[r] = "none" /\ backup'[r][s].main = main[r]
      BY <3>1, <3>3 DEF Old, Fresh
    <3>. QED
      BY <1>1, <1>2, <2>5, <3>1, <3>2, <3>3 DEF MainStep, Replacing, Old
  <2>6. CASE call[c].root = r /\ call[c].pc \in Replacing
    <3>1. s = call[c].stamp /\ backup[r][s].main # "none"
      BY <1>1, <2>4, <2>6 DEF Own, Recovery, RecoveryPcs, Marked, Mine, Replacing
    <3>2. backup'[r][s].main # "none"
      BY <1>1, <1>2, <2>6, <3>1 DEF BackupStep, Replacing
    <3>. QED
      BY <1>1, <1>2, <2>1, <2>6, <3>1, <3>2 DEF MainStep, Replacing, Fresh
  <2>7. CASE ~(call[c].root = r /\ call[c].pc \in Replacing \cup {"main"})
    <3>1. backup'[r][s].main = backup[r][s].main
      BY <1>1, <1>2, <2>3, <2>7 DEF BackupStep, BackupWritten
    <3>2. CASE backup[r][s].main = "none"
      <4>1. main'[r] = main[r]
        BY <1>1, <1>2, <2>1, <2>2, <2>7, <3>2 DEF MainStep, InstallPcs, Old
      <4>2. ~(wal'[r] /\ backup'[r][s].wal)
        <5>1. wal'[r] => wal[r]
          BY <1>1, <1>2 DEF LogStep
        <5>2. wal'[r] => backup'[r][s].wal = backup[r][s].wal
          BY <1>1, <1>2, <2>3, <2>7 DEF BackupStep, BackupWritten
        <5>. QED
          BY <2>1, <3>2, <5>1, <5>2
      <4>. QED
        BY <2>1, <3>1, <3>2, <4>1, <4>2
    <3>3. CASE backup[r][s].main # "none"
      <4>1. main'[r] \in Fresh \cup {"populated"}
        BY <1>1, <1>2, <2>1, <2>2, <2>7, <3>3 DEF MainStep, InstallPcs, Fresh
      <4>. QED
        BY <3>1, <3>3, <4>1
    <3>. QED
      BY <3>2, <3>3
  <2>. QED
    BY <2>5, <2>6, <2>7
<1>4. CASE backup[r][s].marker = NoId
  <2>1. call[c].root = r /\ call[c].pc = "marking" /\ s = call[c].stamp
    BY <1>4, MarkerSteps
  <2>2. main[r] \in Old /\ backup[r][s].main = "none" /\ ~backup[r][s].wal
    BY <1>1, <2>1 DEF Own, Recovery, RecoveryPcs, Mine
  <2>3. main'[r] = main[r]
    BY <1>1, <1>2, <2>1 DEF MainStep, Replacing
  <2>4. backup'[r][s].main = "none" /\ ~backup'[r][s].wal
    BY <1>1, <1>2, <2>1, <2>2 DEF BackupStep, BackupWritten
  <2>. QED
    BY <2>2, <2>3, <2>4
<1>. QED
  BY <1>3, <1>4

LEMMA RootHasDatabase ==
  ASSUME IInv, NEW c \in Callers, Step(c), manifest'[Root] # NoManifest, main'[Root] = "none"
  PROVE  \E s \in Stamps : backup'[Root][s].marker # NoId
<1>1. /\ ManifestStep(c, Root) /\ MainStep(c, Root) /\ \A s \in Stamps : BackupStep(c, Root, s)
      /\ Own(c) /\ Recoverable /\ Root \in Places /\ Root \notin Ids
  BY DiskSteps, Distinct DEF Sound
<1>2. call[c].root = Root => call[c].pc \notin InstallPcs \cup {"removing"}
  BY <1>1 DEF Own, Installation, Removal
<1>3. ~Erasing(c, Root)
  BY <1>2 DEF Erasing, InstallPcs
<1>4. CASE call[c].root = Root /\ call[c].pc = "main"
  <2>1. call[c].stamp \in Stamps /\ backup[Root][call[c].stamp].marker # NoId
    BY <1>1, <1>4, Distinct DEF Own, Recovery, RecoveryPcs, Marked, Mine
  <2>2. backup'[Root][call[c].stamp].marker = backup[Root][call[c].stamp].marker
    BY <1>1, <1>3, <1>4, <2>1 DEF BackupStep, BackupWritten
  <2>. QED
    BY <2>1, <2>2
<1>5. CASE ~(call[c].root = Root /\ call[c].pc = "main")
  <2>1. main[Root] = "none"
    BY <1>1, <1>2, <1>3, <1>5 DEF MainStep, InstallPcs, Fresh
  <2>2. manifest[Root] # NoManifest
    BY <1>1, <1>2, <1>3 DEF ManifestStep, InstallPcs, Current
  <2>3. PICK s \in Stamps : backup[Root][s].marker # NoId
    BY <1>1, <2>1, <2>2 DEF Recoverable
  <2>4. call[c].root = Root => call[c].pc \notin {"marking", "finish", "relock"}
    BY <1>1, <2>1 DEF Own, Recovery, RecoveryPcs, Ending, Endings, Current, Old
  <2>5. backup'[Root][s].marker = backup[Root][s].marker
    BY <1>1, <1>3, <2>4 DEF BackupStep, BackupWritten
  <2>. QED
    BY <2>3, <2>5
<1>. QED
  BY <1>4, <1>5

LEMMA SoundKept ==
  ASSUME IInv, NEW c \in Callers, Step(c)
  PROVE  Sound'
<1>1. Recoverable'
  BY OneMarker, UnmadeKept, MarkerNamesProfile, OldIsSomewhere, RootHasDatabase DEF Recoverable
<1>. QED
  BY <1>1, DirectoriesKept, RootIdKept, NamesKept, LogsKept DEF Sound

-----------------------------------------------------------------------------
(* The other callers keep what they rely on.                               *)

\* Nobody locks a profile that another caller has.
LEMMA HeldByOther ==
  ASSUME IInv, NEW c \in Callers, NEW d \in Callers \ {c}
  PROVE  /\ call[d].pc \in InstallPcs \cup RecoveryPcs \cup {"open"} =>
              ~Lockable(call[d].root)
         /\ call[d].pc \in InstallPcs \cup RecoveryPcs \cup {"open"} /\ call[c].root = call[d].root =>
              call[c].pc \notin InstallPcs \cup RecoveryPcs
         /\ call[d].pc \in InstallPcs \cup RecoveryPcs => ~Sharable(call[d].root)
         /\ call[d].pc \in InstallPcs \cup RecoveryPcs /\ call[c].root = call[d].root =>
              call[c].pc # "open"
         /\ call[d].pc \in InstallPcs \cup {"removing"} =>
              ~CatalogFree /\ call[c].pc \notin InstallPcs \cup {"removing"}
BY DEF IInv, Locked, Lockable, Sharable, CatalogFree, HoldsProfile, UsesProfile, HoldsCatalog

\* A directory in use stays.
LEMMA DirectoryStays ==
  ASSUME IInv, NEW c \in Callers, Step(c), NEW d \in Callers \ {c},
         call[d].pc \in RecoveryPcs \cup {"open"}, call[d].root \in Ids, dir[call[d].root] = "present"
  PROVE  dir'[call[d].root] = "present" /\ ~Erasing(c, call[d].root)
<1>1. DirStep(c, call[d].root) /\ Own(c)
  BY DiskSteps
<1>2. ~Erasing(c, call[d].root)
  BY <1>1, HeldByOther DEF Own, Removal, Erasing, InstallPcs
<1>. QED
  BY <1>1, <1>2, HeldByOther DEF DirStep, InstallPcs

\* Nobody deletes the root profile, or takes its manifest away.
LEMMA RootStays ==
  ASSUME IInv, NEW c \in Callers, Step(c)
  PROVE  /\ ~Erasing(c, Root)
         /\ call[c].root = Root => call[c].pc \notin InstallPcs
         /\ manifest[Root] # NoManifest => manifest'[Root].id = manifest[Root].id
                                           /\ manifest'[Root] # NoManifest
<1>1. /\ ManifestStep(c, Root) /\ Own(c) /\ Typed /\ Root \in Places /\ Root \notin Ids
  BY DiskSteps, Distinct
<1>2. call[c].root = Root => call[c].pc \notin InstallPcs \cup {"removing"}
  BY <1>1 DEF Own, Installation, Removal
<1>3. ~Erasing(c, Root)
  BY <1>2 DEF Erasing, InstallPcs
<1>4. manifest[Root] # NoManifest => manifest'[Root].id = manifest[Root].id
  BY <1>1, <1>2, <1>3 DEF ManifestStep, NamesRoot, InstallPcs
<1>5. manifest[Root] # NoManifest => manifest[Root].id # NoId
  BY <1>1, ManifestParts
<1>. QED
  BY <1>2, <1>3, <1>4, <1>5, Manifests

LEMMA OtherSession ==
  ASSUME IInv, NEW c \in Callers, Step(c), NEW d \in Callers \ {c}, call'[d] = call[d]
  PROVE  Session(d)'
<1>1. Session(d) /\ Own(c) /\ call[d].root \in Places
  BY DEF IInv, Own, Typed, CallType
<1>2. SUFFICES ASSUME call[d].pc = "open"
               PROVE  /\ call[d].root # Root => dir'[call[d].root] = "present"
                      /\ main'[call[d].root] \in Current /\ manifest'[call[d].root].id = call[d].id
  BY <1>1 DEF Session
<1> DEFINE r == call[d].root
<1>3. /\ ManifestStep(c, r) /\ MainStep(c, r) /\ Typed /\ r \in Ids \cup {Root}
  BY <1>1, DiskSteps DEF Places
<1>4. main[r] \in Current /\ manifest[r].id = call[d].id /\ call[d].id # NoId
      /\ (r # Root => dir[r] = "present")
  BY <1>1, <1>2 DEF Session
<1>5. ~Erasing(c, r) /\ (r # Root => dir'[r] = "present")
  BY <1>2, <1>3, <1>4, DirectoryStays, RootStays
<1>6. call[c].root = r => call[c].pc \notin InstallPcs \cup RecoveryPcs
  BY <1>2, HeldByOther
<1>7. main'[r] \in Current
  BY <1>3, <1>4, <1>5, <1>6 DEF MainStep, Current, InstallPcs, RecoveryPcs, Replacing
<1>8. manifest'[r].id = call[d].id
  <2>1. manifest[r] # NoManifest
    BY <1>4, Manifests
  <2>. QED
    BY <1>3, <1>4, <1>5, <1>6, <2>1 DEF ManifestStep, NamesRoot, InstallPcs
<1>. QED
  BY <1>5, <1>7, <1>8

LEMMA OtherRemoval ==
  ASSUME IInv, NEW c \in Callers, Step(c), NEW d \in Callers \ {c}, call'[d] = call[d]
  PROVE  Removal(d)'
<1>1. SUFFICES ASSUME call[d].pc = "removing"
               PROVE  call[d].root \in Ids /\ dir'[call[d].root] = "retired"
  BY DEF Removal
<1>2. call[d].root \in Ids /\ dir[call[d].root] = "retired" /\ Own(c)
  BY <1>1 DEF IInv, Own, Removal
<1>3. DirStep(c, call[d].root)
  BY <1>2, DiskSteps
<1>4. call[c].pc \notin InstallPcs \cup {"removing"}
  BY <1>1, HeldByOther
<1>. QED
  BY <1>2, <1>3, <1>4 DEF DirStep, Erasing, InstallPcs

LEMMA OtherInstallation ==
  ASSUME IInv, NEW c \in Callers, Step(c), NEW d \in Callers \ {c}, call'[d] = call[d]
  PROVE  Installation(d)'
<1>1. CASE call[d].pc \in InstallPcs
  <2>1. /\ ~CatalogFree /\ call[c].pc \notin InstallPcs \cup {"removing"}
        /\ ~Lockable(call[d].root)
        /\ call[c].root = call[d].root => call[c].pc \notin RecoveryPcs
    BY <1>1, HeldByOther
  <2>2. \A r \in Places : ~Erasing(c, r)
    BY <2>1 DEF Erasing, InstallPcs
  <2>3. \A i \in Ids : dir'[i] = dir[i]
    BY <2>1, <2>2, DiskSteps, Distinct DEF DirStep, InstallPcs
  <2>4. \A r \in Places : manifest'[r] = manifest[r]
    BY <2>1, <2>2, DiskSteps DEF ManifestStep, NamesRoot, CanList, InstallPcs
  <2>5. Installation(d) /\ call[d].root \in Ids
    BY <1>1 DEF IInv, Own, Installation
  <2>6. \A s \in Stamps : backup'[call[d].root][s] = backup[call[d].root][s]
    <3>1. \A s \in Stamps : BackupStep(c, call[d].root, s)
      BY <2>5, DiskSteps, Distinct
    <3>. QED
      BY <2>1, <2>2, <2>5, <3>1, Distinct DEF BackupStep, RecoveryPcs
  <2>7. \A r \in Places : Installed(r)' <=> Installed(r)
    BY <2>3, <2>4 DEF Installed, Places
  <2>. QED
    BY <2>3, <2>4, <2>5, <2>6, <2>7, Distinct DEF Installation
<1>2. CASE call[d].pc \notin InstallPcs
  BY <1>2 DEF Installation
<1>. QED
  BY <1>1, <1>2

LEMMA OtherBegins ==
  ASSUME IInv, NEW c \in Callers, Step(c), NEW d \in Callers \ {c}, call'[d] = call[d]
  PROVE  Begins(d)'
<1>1. Begins(d) /\ Own(c)
  BY DEF IInv, Own
<1>2. ASSUME call[d].pc \in Planning, call[d].plan.key = NoId PROVE dir'[call[d].plan.id] = "absent"
  <2>1. call[d].plan.id \in Ids /\ dir[call[d].plan.id] = "absent"
    BY <1>1, <1>2 DEF Begins
  <2>2. Drawn(call[d].plan.id)
    BY <1>2 DEF Drawn, Planning
  <2>3. DirStep(c, call[d].plan.id)
    BY <2>1, DiskSteps
  <2>4. call[c].root = call[d].plan.id => call[c].pc \notin InstallPcs
    BY <1>1, <2>1 DEF Own, Installation
  <2>. QED
    BY <2>1, <2>2, <2>3, <2>4, Distinct DEF DirStep, Erasing, Exists, InstallPcs
<1>3. ASSUME call[d].pc \in {"confirmed", "marking"}, call[d].root = Root, call[d].plan.key # NoId
      PROVE  manifest'[Root].id = call[d].plan.key
  <2>1. manifest[Root].id = call[d].plan.key
    BY <1>1, <1>3 DEF Begins
  <2>. QED
    BY <1>3, <2>1, RootStays, Manifests
<1>4. ASSUME call[d].pc \in {"confirmed", "marking"}, call[d].root = Root, call[d].plan.key = NoId,
             main'[Root] \in Old
      PROVE  manifest'[Root] = NoManifest
  <2>1. MainStep(c, Root) /\ ManifestStep(c, Root) /\ ~Erasing(c, Root)
    BY DiskSteps, Distinct, RootStays
  <2>2. main[Root] \in Old
    BY <1>4, <2>1 DEF MainStep, Old, Fresh, Current
  <2>3. manifest[Root] = NoManifest
    BY <1>1, <1>4, <2>2 DEF Begins
  <2>4. call[c].root = Root => call[c].pc \notin InstallPcs
    BY RootStays
  <2>. QED
    BY <1>4, <2>1, <2>3, <2>4 DEF ManifestStep, InstallPcs, Old, Current
<1>. QED
  BY <1>1, <1>2, <1>3, <1>4 DEF Begins

\* What a caller that recovers a profile sees of it.
LEMMA RecoveryAlone ==
  ASSUME IInv, NEW c \in Callers, Step(c), NEW d \in Callers \ {c}, call[d].pc \in RecoveryPcs
  PROVE  /\ \A s \in Stamps : backup'[call[d].root][s] = backup[call[d].root][s]
         /\ wal'[call[d].root] = wal[call[d].root]
         /\ \/ main'[call[d].root] = main[call[d].root]
            \/ /\ main[call[d].root] \in {"none", "empty", "blank"}
               /\ main'[call[d].root] = "pristine"
         /\ call[d].root \in Ids => dir'[call[d].root] = "present"
<1> DEFINE r == call[d].root
<1>1. r \in Places /\ r \in Ids \cup {Root} /\ Recovery(d)
  BY DEF IInv, Own, Typed, CallType, Places
<1>2. r \in Ids => dir[r] = "present"
  BY <1>1 DEF Recovery
<1>3. ~Erasing(c, r) /\ (r \in Ids => dir'[r] = "present")
  BY <1>1, <1>2, DirectoryStays, RootStays
<1>4. ~Lockable(r) /\ (call[c].root = r => call[c].pc \notin InstallPcs \cup RecoveryPcs \cup {"open"})
  BY HeldByOther
<1>5. MainStep(c, r) /\ LogStep(c, r) /\ \A s \in Stamps : BackupStep(c, r, s)
  BY <1>1, DiskSteps
<1> HIDE DEF r
<1>6. \A s \in Stamps : backup'[r][s] = backup[r][s]
  BY <1>3, <1>4, <1>5 DEF BackupStep, RecoveryPcs
<1>7. wal'[r] = wal[r]
  BY <1>3, <1>4, <1>5 DEF LogStep, RecoveryPcs
<1>8. main'[r] = main[r] \/ (main[r] \in {"none", "empty", "blank"} /\ main'[r] = "pristine")
  BY <1>3, <1>4, <1>5 DEF MainStep, RecoveryPcs, InstallPcs, Replacing
<1>. QED
  BY <1>3, <1>6, <1>7, <1>8 DEF r

LEMMA OtherRecovery ==
  ASSUME IInv, NEW c \in Callers, Step(c), NEW d \in Callers \ {c}, call'[d] = call[d]
  PROVE  Recovery(d)'
<1>1. CASE call[d].pc \in RecoveryPcs
  <2>1. Recovery(d)
    BY DEF IInv, Own
  <2>2. call[d].stamp \in Stamps
    BY <1>1, <2>1 DEF Recovery
  <2>3. Mine(d)' = Mine(d)
    BY <1>1, <2>2, RecoveryAlone DEF Mine
  <2>4. call[d].root = Root /\ ~call[d].keep => manifest'[Root] # NoManifest
    BY <1>1, <2>1, RootStays DEF Recovery
  <2> DEFINE r == call[d].root
  <2>5. /\ main'[r] = main[r] \/ (main[r] \in {"none", "empty", "blank"} /\ main'[r] = "pristine")
        /\ \A s \in Stamps : backup'[r][s] = backup[r][s]
        /\ wal'[r] = wal[r] /\ (r \in Ids => dir'[r] = "present")
    BY <1>1, RecoveryAlone
  <2> HIDE DEF r
  <2>6. /\ main[r] \in Old => main'[r] \in Old
        /\ main[r] \in Fresh => main'[r] \in Fresh
        /\ main[r] # "none" => main'[r] # "none"
        /\ main[r] \in Current => main'[r] \in Current
    BY <2>5 DEF Old, Fresh, Current
  <2>. QED
    BY <1>1, <2>1, <2>3, <2>4, <2>5, <2>6 DEF Recovery, r
<1>2. CASE call[d].pc \notin RecoveryPcs
  BY <1>2 DEF Recovery
<1>. QED
  BY <1>1, <1>2

-----------------------------------------------------------------------------
(* The caller's own progress.                                              *)

\* Where a step takes its caller.
Moved(c, pc) ==
  /\ call'[c].pc = pc
  /\ call'[c].root = call[c].root /\ call'[c].id = call[c].id /\ call'[c].name = call[c].name
  /\ call'[c].stamp = call[c].stamp /\ call'[c].keep = call[c].keep /\ call'[c].plan = call[c].plan

LEMMA Moves ==
  ASSUME Typed, NEW c \in Callers, NEW pc, Advance(c, pc)
  PROVE  Moved(c, pc)
BY DEF Typed, CallType, Advance, Goto, Moved

LEMMA Goes ==
  ASSUME Typed, NEW c \in Callers, NEW v, Goto(c, v)
  PROVE  call'[c] = v
BY DEF Typed, Goto

LEMMA SelectGoes ==
  ASSUME Typed, NEW c \in Callers, Select(c)
  PROVE  \E r \in Places :
           /\ Visible(r) /\ call'[c].root = r /\ call'[c].id = manifest[r].id
           /\ call'[c].pc = IF manifest[r] = NoManifest THEN "activate" ELSE "selected"
<1>1. PICK r \in Places, pc \in {"activate", "selected"} :
        /\ Visible(r) /\ pc = IF manifest[r] = NoManifest THEN "activate" ELSE "selected"
        /\ Goto(c, [At(pc, r) EXCEPT !.id = manifest[r].id])
  BY DEF Select
<1>2. call'[c] = [At(pc, r) EXCEPT !.id = manifest[r].id]
  BY <1>1, Goes
<1>3. call'[c].root = r /\ call'[c].id = manifest[r].id /\ call'[c].pc = pc
  BY <1>2 DEF At, Idle
<1>. QED
  BY <1>1, <1>3

LEMMA ReserveGoes ==
  ASSUME Typed, NEW c \in Callers, NEW i, NEW name, NEW pc, Reserve(c, i, name, pc)
  PROVE  call'[c].pc = pc /\ call'[c].root = i /\ call'[c].id = i /\ call'[c].name = name
<1>1. call'[c] = [At(pc, i) EXCEPT !.id = i, !.name = name]
  BY Goes DEF Reserve
<1>. QED
  BY <1>1 DEF At, Idle

LEMMA RecreateGoes ==
  ASSUME Typed, NEW c \in Callers, Recreate(c)
  PROVE  \E r \in Places :
           /\ CanList /\ Visible(r) /\ Key(r) = call[c].plan.key /\ call[c].pc = "planned"
           /\ call'[c].pc = "confirmed" /\ call'[c].root = r /\ call'[c].id = call[c].plan.id
           /\ call'[c].stamp = call[c].plan.stamp /\ call'[c].plan = call[c].plan
           /\ call'[c].keep <=> call[c].plan.key = NoId
<1>1. PICK r \in Places :
        /\ Visible(r) /\ Key(r) = call[c].plan.key
        /\ Goto(c, [call[c] EXCEPT !.pc = "confirmed", !.root = r, !.id = call[c].plan.id,
                                   !.stamp = call[c].plan.stamp, !.keep = call[c].plan.key = NoId])
  BY DEF Recreate
<1> DEFINE keep == call[c].plan.key = NoId
<1>2. call'[c] = [call[c] EXCEPT !.pc = "confirmed", !.root = r, !.id = call[c].plan.id,
                                 !.stamp = call[c].plan.stamp, !.keep = keep]
  BY <1>1, Goes
<1> HIDE DEF keep
<1>3. call[c] \in CallType
  BY DEF Typed
<1>4. /\ call'[c].pc = "confirmed" /\ call'[c].root = r /\ call'[c].id = call[c].plan.id
      /\ call'[c].stamp = call[c].plan.stamp /\ call'[c].plan = call[c].plan /\ call'[c].keep = keep
  BY <1>2, <1>3 DEF CallType
<1>5. CanList /\ call[c].pc = "planned"
  BY DEF Recreate
<1>. QED
  BY <1>1, <1>4, <1>5 DEF keep

LEMMA RollingGoes ==
  ASSUME Typed, NEW c \in Callers, Goto(c, [call[c] EXCEPT !.pc = "rolling", !.plan = NoPlan])
  PROVE  /\ call'[c].pc = "rolling" /\ call'[c].root = call[c].root /\ call'[c].id = call[c].id
         /\ call'[c].stamp = call[c].stamp /\ call'[c].keep = call[c].keep
<1>1. call'[c] = [call[c] EXCEPT !.pc = "rolling", !.plan = NoPlan]
  BY Goes
<1>. QED
  BY <1>1 DEF Typed, CallType

\* An idle caller, or one that is about to open a profile, relies on nothing.
LEMMA NothingOwned ==
  ASSUME NEW c \in Callers, call'[c].pc \in {"idle", "first", "activate"}
  PROVE  Own(c)'
BY DEF Own, Session, Removal, Installation, Begins, Recovery, Ending, InstallPcs, RecoveryPcs,
       Planning, Endings

LEMMA StopOwns ==
  ASSUME Typed, NEW c \in Callers, Stop(c)
  PROVE  Own(c)'
<1>1. call'[c].pc = "idle"
  BY DEF Typed, Stop, Goto, Idle
<1>. QED
  BY <1>1, NothingOwned

LEMMA SessionOwned ==
  ASSUME NEW c \in Callers, call'[c].pc \in {"selected", "open"}, Session(c)'
  PROVE  Own(c)'
BY DEF Own, Removal, Installation, Begins, Recovery, Ending, InstallPcs, RecoveryPcs, Planning,
       Endings

LEMMA RemovalOwned ==
  ASSUME NEW c \in Callers, call'[c].pc = "removing", Removal(c)'
  PROVE  Own(c)'
BY DEF Own, Session, Installation, Begins, Recovery, Ending, InstallPcs, RecoveryPcs, Planning,
       Endings

LEMMA InstallationOwned ==
  ASSUME NEW c \in Callers, call'[c].pc \in InstallPcs, Installation(c)'
  PROVE  Own(c)'
BY DEF Own, Session, Removal, Begins, Recovery, Ending, InstallPcs, RecoveryPcs, Planning, Endings

LEMMA BeginsOwned ==
  ASSUME NEW c \in Callers, call'[c].pc \in {"planned", "confirmed"}, Begins(c)'
  PROVE  Own(c)'
BY DEF Own, Session, Removal, Installation, Recovery, Ending, InstallPcs, RecoveryPcs, Endings

LEMMA MarkingOwned ==
  ASSUME NEW c \in Callers, call'[c].pc = "marking", Begins(c)', Recovery(c)'
  PROVE  Own(c)'
BY DEF Own, Session, Removal, Installation, Ending, InstallPcs, Endings

LEMMA RecoveryOwned ==
  ASSUME NEW c \in Callers, call'[c].pc \in Marked, Recovery(c)'
  PROVE  Own(c)'
BY DEF Own, Session, Removal, Installation, Begins, Ending, InstallPcs, RecoveryPcs, Marked,
       Planning, Endings

LEMMA EndingOwned ==
  ASSUME NEW c \in Callers, call'[c].pc \in Endings, Ending(c)'
  PROVE  Own(c)'
BY DEF Own, Session, Removal, Installation, Begins, Recovery, InstallPcs, RecoveryPcs, Planning,
       Endings

\* The first replacing step of a recovery finds no database, or takes the old one away.
LEMMA ReplaceSteps ==
  ASSUME IInv, NEW c \in Callers, Step(c), call'[c].pc \in Replacing
  PROVE  /\ call'[c].root = call[c].root
         /\ \/ call[c].pc \in Replacing
            \/ call[c].pc = "main"
            \/ call[c].pc = "rolling" /\ main[call[c].root] \in {"none", "empty", "blank"}
<1>1. call \in [Callers -> CallType] /\ Typed
  BY DEF IInv, Typed
<1>2. ~Stop(c)
  BY <1>1 DEF Stop, Goto, Idle, Replacing
<1>3. \A pc : Advance(c, pc) => Moved(c, pc)
  BY <1>1, Moves
<1>4. CASE MoveMain(c) \/ CreateEmpty(c) \/ ConnectReplacement(c)
  BY <1>2, <1>3, <1>4 DEF MoveMain, CreateEmpty, ConnectReplacement, Moved, Replacing
<1>5. CASE RollForward(c)
  <2>1. Advance(c, "main") \/ Advance(c, "install") \/ Verified(c)
    BY <1>2, <1>5 DEF RollForward
  <2>2. ~Advance(c, "main") /\ ~Verified(c)
    BY <1>3 DEF Verified, Moved, Replacing
  <2>3. call[c].pc = "rolling" /\ main[call[c].root] \in {"none", "empty", "blank"}
    BY <1>2, <1>5, <2>2 DEF RollForward
  <2>. QED
    BY <1>3, <2>1, <2>2, <2>3 DEF Moved
<1>6. CASE InstallTables(c) \/ Fill(c) \/ WriteManifest(c) \/ InstallFirst(c) \/ OpenSelected(c)
           \/ FinishRecovery(c) \/ FinishImport(c) \/ FailCreate(c) \/ Delete(c) \/ Crash(c)
           \/ CloseOpen(c)
  BY <1>2, <1>3, <1>6 DEF InstallTables, Verified, Fill, WriteManifest, InstallFirst, OpenSelected,
     FinishRecovery, FinishImport, FailCreate, Delete, Crash, CloseOpen, Moved, Replacing
<1>7. CASE Select(c) \/ SelectFirst(c) \/ CreateReserve(c) \/ ImportReserve(c) \/ FailImport(c)
           \/ Detach(c)
  <2>1. \A pc, r, i, n : /\ [At(pc, r) EXCEPT !.id = i].pc = pc
                         /\ [At(pc, r) EXCEPT !.id = i, !.name = n].pc = pc /\ At(pc, r).pc = pc
    BY DEF At, Idle
  <2>2. \A v : Goto(c, v) => call'[c] = v
    BY <1>1 DEF Goto
  <2>3. CASE Select(c)
    BY <1>1, <2>3, SelectGoes DEF Replacing
  <2>4. CASE SelectFirst(c)
    BY <2>1, <2>2, <2>4 DEF SelectFirst, Replacing
  <2>5. CASE CreateReserve(c) \/ ImportReserve(c)
    <3>1. CASE CreateReserve(c)
      <4>1. PICK i \in Ids, name \in Names : Reserve(c, i, name, "creating")
        BY <3>1 DEF CreateReserve
      <4>. QED
        BY <1>1, <4>1, ReserveGoes DEF Replacing
    <3>2. CASE ImportReserve(c)
      <4>1. PICK i \in Ids, name \in Names : Reserve(c, i, name, "importing")
        BY <3>2 DEF ImportReserve
      <4>. QED
        BY <1>1, <4>1, ReserveGoes DEF Replacing
    <3>. QED
      BY <2>5, <3>1, <3>2
  <2>6. CASE FailImport(c) \/ Detach(c)
    BY <2>1, <2>2, <2>6 DEF FailImport, Detach, Retire, Replacing
  <2>. QED
    BY <1>7, <2>3, <2>4, <2>5, <2>6
<1>8. CASE Activate(c) \/ FinalizeRecovered(c)
  <2>1. \A i, pc : Goto(c, [call[c] EXCEPT !.pc = pc, !.id = i]) => call'[c].pc = pc
    BY <1>1 DEF Goto, CallType
  <2>. QED
    BY <1>2, <1>8, <2>1 DEF Activate, FinalizeRecovered, Finalize, Replacing
<1>9. CASE Plan(c) \/ Recreate(c) \/ WriteMarker(c)
  <2>1. \A v : Goto(c, v) => call'[c] = v
    BY <1>1 DEF Goto
  <2>2. CASE Plan(c)
    <3>1. \A p : Planned(c, p) => call'[c].pc = "planned"
      BY <2>1 DEF Planned, Idle
    <3>. QED
      BY <2>2, <3>1 DEF Plan, Replacing
  <2>3. CASE Recreate(c)
    <3>1. call'[c].pc = "confirmed"
      BY <1>1, <2>3, RecreateGoes
    <3>. QED
      BY <3>1 DEF Replacing
  <2>4. CASE WriteMarker(c)
    <3>1. call'[c].pc = "rolling"
      BY <1>1, <2>4, RollingGoes DEF WriteMarker
    <3>. QED
      BY <3>1 DEF Replacing
  <2>. QED
    BY <1>9, <2>2, <2>3, <2>4
<1>10. CASE BeginRecovery(c)
  <2>1. Goto(c, [call[c] EXCEPT !.pc = "rolling", !.plan = NoPlan]) => call'[c].pc = "rolling"
    BY <1>1, RollingGoes
  <2>2. Advance(c, "marking") => call'[c].pc = "marking"
    BY <1>3 DEF Moved
  <2>3. call'[c].pc \in {"rolling", "marking"}
    BY <1>2, <1>10, <2>1, <2>2 DEF BeginRecovery
  <2>. QED
    BY <2>3 DEF Replacing
<1>11. CASE Write(c) \/ Rename(c)
  BY <1>11 DEF Write, Rename
<1>. QED
  BY <1>4, <1>5, <1>6, <1>7, <1>8, <1>9, <1>10, <1>11 DEF Step

LEMMA OtherEnding ==
  ASSUME IInv, NEW c \in Callers, Step(c), NEW d \in Callers \ {c}, call'[d] = call[d]
  PROVE  Ending(d)'
<1>1. CASE call[d].pc \in Endings
  <2>1. /\ call[d].root = Root /\ call[d].id \in Ids /\ call[d].stamp \in Stamps
        /\ main[Root] \in Current
        /\ \A e \in Callers : call[e].root = Root => call[e].pc \notin Replacing
        /\ \/ manifest[Root] # NoManifest
           \/ call[d].pc = "finalize" /\ backup[Root][call[d].stamp].marker = call[d].id
    BY <1>1 DEF IInv, Own, Ending, Mine
  <2>2. /\ MainStep(c, Root) /\ BackupStep(c, Root, call[d].stamp) /\ Own(c) /\ Root \in Places
        /\ \A e \in Callers \ {c} : call'[e] = call[e]
    BY <2>1, DiskSteps, OneMoves, Distinct DEF IInv
  <2>3. call[c].root = Root => call[c].pc \notin {"main", "marking"} \cup InstallPcs \cup Replacing
    BY <2>1, <2>2, RootStays DEF Own, Recovery, RecoveryPcs, Old, Current
  <2>4. main'[Root] \in Current
    BY <2>1, <2>2, <2>3, RootStays DEF MainStep, Current, InstallPcs
  <2>5. ASSUME NEW e \in Callers, call'[e].root = Root, call'[e].pc \in Replacing PROVE FALSE
    <3>1. CASE e = c
      BY <2>1, <2>3, <2>5, <3>1, ReplaceSteps DEF Current
    <3>2. CASE e # c
      BY <2>1, <2>2, <2>5, <3>2
    <3>. QED
      BY <3>1, <3>2
  <2>6. ASSUME manifest'[Root] = NoManifest
        PROVE  call[d].pc = "finalize" /\ backup'[Root][call[d].stamp].marker = call[d].id
    <3>1. manifest[Root] = NoManifest
      BY <2>6, RootStays
    <3>2. call[c].root = Root => call[c].pc \notin {"finish", "relock"}
      BY <2>2, <3>1 DEF Own, Recovery, RecoveryPcs, Ending, Endings
    <3>3. backup'[Root][call[d].stamp].marker = backup[Root][call[d].stamp].marker
      BY <2>2, <2>3, <3>2, RootStays DEF BackupStep, BackupWritten
    <3>. QED
      BY <2>1, <3>1, <3>3
  <2>. QED
    BY <1>1, <2>1, <2>4, <2>5, <2>6 DEF Ending, Mine
<1>2. CASE call[d].pc \notin Endings
  BY <1>2 DEF Ending
<1>. QED
  BY <1>1, <1>2

LEMMA OthersOwn ==
  ASSUME IInv, NEW c \in Callers, Step(c), NEW d \in Callers \ {c}
  PROVE  Own(d)'
<1>1. call'[d] = call[d]
  BY OneMoves DEF IInv
<1>. QED
  BY <1>1, OtherSession, OtherRemoval, OtherInstallation, OtherBegins, OtherRecovery, OtherEnding
     DEF Own

\* A finalization that stops, finds the manifest, or writes it.
LEMMA FinalizeGoes ==
  ASSUME IInv, NEW c \in Callers, NEW id \in Ids \cup {NoId}, NEW then, Finalize(c, id, then)
  PROVE  \/ Stop(c)
         \/ /\ call'[c].pc = then /\ call'[c].root = call[c].root
            /\ call'[c].stamp = call[c].stamp /\ call'[c].id \in Ids
            /\ manifest'[Root] # NoManifest /\ (main[Root] \in Current => main'[Root] \in Current)
<1>1. Typed /\ call[c] \in CallType /\ Root \in Places
  BY Distinct DEF IInv, Typed
<1>2. \A i : Goto(c, [call[c] EXCEPT !.pc = then, !.id = i]) =>
        /\ call'[c].pc = then /\ call'[c].root = call[c].root
        /\ call'[c].stamp = call[c].stamp /\ call'[c].id = i
  BY <1>1, Goes DEF CallType
<1>3. CASE manifest[Root] # NoManifest
  <2>1. manifest[Root].id \in Ids
    BY <1>1, <1>3, ManifestParts
  <2>. QED
    BY <1>2, <1>3, <2>1 DEF Finalize
<1>4. CASE manifest[Root] = NoManifest /\ ~Stop(c)
  <2>1. PICK i \in IF id = NoId THEN Ids \ UsedIds ELSE {id}, n \in FreshNames :
          /\ manifest' = [manifest EXCEPT ![Root] = Manifest(i, n)]
          /\ main' = [main EXCEPT ![Root] = Opened(Root)]
          /\ Goto(c, [call[c] EXCEPT !.pc = then, !.id = i])
    BY <1>4 DEF Finalize
  <2>2. i \in Ids /\ n \in Names
    BY DEF FreshNames
  <2>3. manifest'[Root] = Manifest(i, n) /\ main'[Root] = Opened(Root)
    BY <1>1, <2>1 DEF Typed, TypeOK
  <2>. QED
    BY ZenonT(40), <1>2, <2>1, <2>2, <2>3, Manifests DEF Opened, Current
<1>. QED
  BY <1>3, <1>4

LEMMA OpensOwn ==
  ASSUME IInv, NEW c \in Callers,
         Select(c) \/ SelectFirst(c) \/ InstallFirst(c) \/ Activate(c) \/ OpenSelected(c)
         \/ Write(c) \/ CloseOpen(c)
  PROVE  Own(c)'
<1>1. Typed /\ Own(c) /\ Directories /\ call[c].root \in Places /\ Root \in Places /\ Root \notin Ids
  BY Distinct DEF IInv, Typed, CallType, Sound
<1>2. CASE Select(c)
  <2>1. PICK r \in Places :
           /\ call'[c].id = manifest[r].id
           /\ call'[c].pc = IF manifest[r] = NoManifest THEN "activate" ELSE "selected"
    BY <1>1, <1>2, SelectGoes
  <2>2. CASE manifest[r] = NoManifest
    BY <2>1, <2>2, NothingOwned
  <2>3. CASE manifest[r] # NoManifest
    <3>1. call'[c].pc = "selected" /\ call'[c].id # NoId
      BY <1>1, <2>1, <2>3, ManifestParts
    <3>2. Session(c)'
      BY <3>1 DEF Session
    <3>. QED
      BY <3>1, <3>2, SessionOwned
  <2>. QED
    BY <2>2, <2>3
<1>3. CASE SelectFirst(c)
  <2>1. call'[c] = At("first", Root)
    BY <1>1, <1>3, Goes DEF SelectFirst
  <2>. QED
    BY <2>1, NothingOwned DEF At, Idle
<1>4. CASE InstallFirst(c)
  <2>1. Stop(c) \/ call'[c].pc = "activate"
    BY <1>1, <1>4, Moves DEF InstallFirst, Moved
  <2>. QED
    BY <1>1, <2>1, StopOwns, NothingOwned
<1>5. CASE Activate(c)
  <2>1. Stop(c) \/ (call'[c].pc = "selected" /\ call'[c].id \in Ids)
    BY <1>5, FinalizeGoes DEF Activate
  <2>2. CASE call'[c].pc = "selected" /\ call'[c].id \in Ids
    <3>1. Session(c)'
      BY <2>2, Distinct DEF Session
    <3>. QED
      BY <2>2, <3>1, SessionOwned
  <2>. QED
    BY <1>1, <2>1, <2>2, StopOwns
<1>6. CASE OpenSelected(c)
  <2> DEFINE r == call[c].root
  <2>1. CASE Stop(c)
    BY <1>1, <2>1, StopOwns
  <2>2. CASE ~Stop(c)
    <3>1. /\ Exists(r) /\ manifest[r].id = call[c].id /\ Opens(r)
          /\ main' = [main EXCEPT ![r] = Opened(r)] /\ Advance(c, "open")
          /\ UNCHANGED <<dir, manifest>>
      BY <1>6, <2>2 DEF OpenSelected
    <3>2. Moved(c, "open")
      BY <1>1, <3>1, Moves
    <3>3. call[c].id # NoId
      BY <1>1, <1>6 DEF OpenSelected, Own, Session
    <3>4. r # Root => dir[r] = "present"
      <4>1. manifest[r] # NoManifest
        BY <3>1, <3>3, Manifests
      <4>. QED
        BY <1>1, <3>1, <4>1 DEF Exists, Directories, Places
    <3>5. main'[r] \in Current
      BY <1>1, <3>1 DEF Opened, Current, Typed, TypeOK
    <3>6. Session(c)'
      BY <3>1, <3>2, <3>3, <3>4, <3>5 DEF Session, Moved
    <3>. QED
      BY <3>2, <3>6, SessionOwned DEF Moved
  <2>. QED
    BY <2>1, <2>2
<1>7. CASE Write(c)
  <2>1. call'[c] = call[c] /\ call[c].pc = "open" /\ UNCHANGED <<dir, manifest>>
        /\ main'[call[c].root] = "populated"
    BY <1>1, <1>7 DEF Write, Typed, TypeOK
  <2>2. Session(c)'
    BY <1>1, <2>1 DEF Own, Session, Current
  <2>. QED
    BY <2>1, <2>2, SessionOwned
<1>8. CASE CloseOpen(c)
  BY <1>1, <1>8, StopOwns DEF CloseOpen
<1>. QED
  BY <1>2, <1>3, <1>4, <1>5, <1>6, <1>7, <1>8

LEMMA PlansOwn ==
  ASSUME IInv, NEW c \in Callers, Plan(c) \/ Recreate(c)
  PROVE  Own(c)'
<1>1. Typed /\ Own(c) /\ Directories /\ RootIdFree /\ Root \in Places /\ Root \notin Ids
      /\ Places = Ids \cup {Root} /\ NoId \notin Ids
  BY Distinct, CatalogAssumption DEF IInv, Sound, Places
<1>2. \A r \in Ids : Visible(r) => manifest[r] # NoManifest /\ manifest[r].id = r
  BY <1>1, ManifestParts, Distinct DEF Visible, Directories
<1>3. CASE Plan(c)
  <2>1. PICK r \in Places :
          /\ Visible(r)
          /\ IF Active(r)
             THEN Planned(c, [key |-> Key(r), id |-> backup[r][ActiveStamp(r)].marker,
                              stamp |-> ActiveStamp(r), code |-> "none"])
             ELSE \E s \in Stamps, i \in IF Key(r) = NoId THEN Ids \ UsedIds ELSE {Key(r)} :
                    Planned(c, [key |-> Key(r), id |-> i, stamp |-> s, code |-> main[r]])
    BY <1>3 DEF Plan
  <2>2. Key(r) = NoId => r = Root
    BY <1>1, <1>2, <2>1 DEF Key
  <2>3. \A p : Planned(c, p) => call'[c].pc = "planned" /\ call'[c].plan = p
    <3>1. ASSUME NEW p, Planned(c, p) PROVE call'[c] = [Idle EXCEPT !.pc = "planned", !.plan = p]
      BY <1>1, <3>1, Goes DEF Planned
    <3>. QED
      BY <3>1 DEF Idle
  <2>4. ASSUME NEW p, Planned(c, p), p.id \in Ids, p.stamp \in Stamps,
               p.key = NoId => dir[p.id] = "absent"
        PROVE  Own(c)'
    <3>1. call'[c].pc = "planned" /\ call'[c].plan = p /\ UNCHANGED dir
      BY <1>3, <2>3, <2>4 DEF Plan, DiskKept
    <3>2. Begins(c)'
      BY <2>4, <3>1 DEF Begins
    <3>. QED
      BY <3>1, <3>2, BeginsOwned
  <2>5. CASE Active(r)
    <3>1. ActiveStamp(r) \in Stamps /\ backup[r][ActiveStamp(r)].marker # NoId
      BY <2>5 DEF Active, ActiveStamp, Markers
    <3>2. backup[r][ActiveStamp(r)].marker \in Ids
      BY <1>1, <3>1 DEF Typed, TypeOK
    <3>3. Key(r) = NoId => dir[backup[r][ActiveStamp(r)].marker] = "absent"
      BY <1>1, <2>2, <3>1, <3>2 DEF RootIdFree, TakenByRoot
    <3>. QED
      BY <2>1, <2>4, <2>5, <3>1, <3>2, <3>3
  <2>6. CASE ~Active(r)
    <3>1. PICK s \in Stamps, i \in IF Key(r) = NoId THEN Ids \ UsedIds ELSE {Key(r)} :
            Planned(c, [key |-> Key(r), id |-> i, stamp |-> s, code |-> main[r]])
      BY <2>1, <2>6
    <3>2. i \in Ids
      BY <1>1, ManifestParts DEF Key
    <3>3. Key(r) = NoId => dir[i] = "absent"
      BY DEF UsedIds
    <3>. QED
      BY <2>4, <3>1, <3>2, <3>3
  <2>. QED
    BY <2>5, <2>6
<1>4. CASE Recreate(c)
  <2>1. PICK r \in Places :
           /\ Visible(r) /\ Key(r) = call[c].plan.key /\ call[c].pc = "planned"
           /\ call'[c].pc = "confirmed" /\ call'[c].root = r /\ call'[c].id = call[c].plan.id
           /\ call'[c].stamp = call[c].plan.stamp /\ call'[c].plan = call[c].plan
           /\ call'[c].keep <=> call[c].plan.key = NoId
    BY <1>1, <1>4, RecreateGoes
  <2>2. UNCHANGED <<dir, manifest, main>>
    BY <1>4 DEF Recreate, DiskKept
  <2>3. call[c].plan.id \in Ids /\ call[c].plan.stamp \in Stamps
        /\ (call[c].plan.key = NoId => dir[call[c].plan.id] = "absent")
    BY <1>1, <2>1 DEF Own, Begins, Planning
  <2>4. /\ r \in Ids => call[c].plan.key = r
        /\ r = Root /\ call[c].plan.key # NoId => manifest[Root].id = call[c].plan.key
        /\ r = Root /\ call[c].plan.key = NoId => manifest[Root] = NoManifest
    BY <1>1, <1>2, <2>1, ManifestParts DEF Key
  <2>5. Begins(c)'
    BY <2>1, <2>2, <2>3, <2>4 DEF Begins
  <2>. QED
    BY <2>1, <2>5, BeginsOwned
<1>. QED
  BY <1>3, <1>4

LEMMA BeginOwns ==
  ASSUME IInv, NEW c \in Callers, BeginRecovery(c)
  PROVE  Own(c)'
<1> DEFINE r == call[c].root
           p == call[c].plan
<1>1. Typed /\ Own(c) /\ Directories /\ Recoverable /\ r \in Places /\ Root \notin Ids
      /\ Places = Ids \cup {Root} /\ NoId \notin Ids
  BY Distinct, CatalogAssumption DEF IInv, Typed, CallType, Sound, Places
<1>2. /\ call[c].pc = "confirmed" /\ UNCHANGED <<dir, manifest, main>>
      /\ p.id \in Ids /\ p.stamp \in Stamps
      /\ p.key = NoId => dir[p.id] = "absent"
      /\ call[c].id = p.id /\ call[c].stamp = p.stamp /\ (call[c].keep <=> p.key = NoId)
      /\ r \in Ids => p.key = r
      /\ r = Root /\ p.key # NoId => manifest[Root].id = p.key
      /\ r = Root /\ p.key = NoId /\ main[Root] \in Old => manifest[Root] = NoManifest
  BY <1>1 DEF BeginRecovery, Own, Begins, Planning
<1>3. /\ call[c].keep => r = Root
      /\ r = Root /\ ~call[c].keep => manifest[Root] # NoManifest
  BY <1>1, <1>2, Manifests
<1>4. CASE Stop(c)
  BY <1>1, <1>4, StopOwns
<1>5. CASE /\ Exists(r) /\ MayResume(r, p) /\ UNCHANGED <<wal, backup>>
           /\ Goto(c, [call[c] EXCEPT !.pc = "rolling", !.plan = NoPlan])
  <2>1. /\ call'[c].pc = "rolling" /\ call'[c].root = r /\ call'[c].id = call[c].id
        /\ call'[c].stamp = call[c].stamp /\ call'[c].keep = call[c].keep
    BY <1>1, <1>5, RollingGoes
  <2>2. backup[r][p.stamp].marker = p.id
    BY <1>5 DEF MayResume
  <2>3. r \in Ids => dir[r] = "present"
    BY <1>1, <1>2, <1>5, <2>2 DEF Exists, Directories
  <2> HIDE DEF r, p
  <2>4. Mine(c)'.marker = call'[c].id
    BY <1>2, <1>5, <2>1, <2>2 DEF Mine
  <2>5. Recovery(c)'
    BY <1>2, <1>3, <2>1, <2>3, <2>4 DEF Recovery, Replacing
  <2>. QED
    BY <2>1, <2>5, RecoveryOwned DEF Marked, RecoveryPcs
<1>6. CASE /\ Exists(r) /\ MayBegin(r, p) /\ Advance(c, "marking")
           /\ backup' = [backup EXCEPT ![r][p.stamp].made = TRUE]
  <2>1. Moved(c, "marking")
    BY <1>1, <1>6, Moves
  <2>2. /\ \A s \in Stamps : backup[r][s].marker = NoId
        /\ main[r] \in Old /\ (p.key # NoId => p.id = p.key) /\ ~backup[r][p.stamp].made
    BY <1>6 DEF MayBegin, Active, Markers, Old
  <2>3. r \in Ids => dir[r] = "present"
    BY <1>1, <1>6, <2>2 DEF Exists, Directories, Old
  <2> HIDE DEF r, p
  <2>4. BackupWritten(r, p.stamp, TRUE, backup[r][p.stamp].main, backup[r][p.stamp].wal,
                      backup[r][p.stamp].marker)
    BY <1>1, <1>2, <1>6, Made
  <2>5. /\ \A s \in Stamps : backup'[r][s].marker = NoId
        /\ backup'[r][p.stamp].main = "none" /\ ~backup'[r][p.stamp].wal
        /\ backup'[r][p.stamp].made
    BY <1>1, <1>2, <2>2, <2>4 DEF BackupWritten, Recoverable
  <2>6. call'[c].root = r /\ call'[c].plan = p /\ call'[c].stamp = p.stamp /\ call'[c].id = p.id
        /\ call'[c].pc = "marking" /\ call'[c].keep = call[c].keep
    BY <1>2, <2>1 DEF Moved, r, p
  <2>7. Begins(c)'
    BY <1>2, <2>6 DEF Begins
  <2>8. Recovery(c)'
    BY <1>2, <1>3, <2>2, <2>3, <2>5, <2>6 DEF Recovery, Replacing, Marked, Mine
  <2>. QED
    BY <2>6, <2>7, <2>8, MarkingOwned
<1>. QED
  BY <1>4, <1>5, <1>6 DEF BeginRecovery

\* A replacement that is complete ends the recovery, or waits for the manifest.
LEMMA VerifiedOwns ==
  ASSUME IInv, NEW c \in Callers, call[c].pc \in {"rolling", "tables"}, Verified(c),
         UNCHANGED <<dir, manifest, backup>>, main'[call[c].root] = "pristine",
         \A d \in Callers \ {c} : call'[d] = call[d]
  PROVE  Own(c)'
<1>1. Typed /\ Recovery(c) /\ call[c].root \in Places
  BY DEF IInv, Own, Typed, CallType
<1>2. /\ call[c].root \in Ids => dir[call[c].root] = "present"
      /\ call[c].id \in Ids /\ call[c].stamp \in Stamps /\ (call[c].keep => call[c].root = Root)
      /\ call[c].root = Root /\ ~call[c].keep => manifest[Root] # NoManifest
      /\ Mine(c).marker = call[c].id
  BY <1>1 DEF Recovery, RecoveryPcs, Marked
<1>3. CASE call[c].keep
  <2>1. Moved(c, "finalize")
    BY <1>1, <1>3, Moves DEF Verified
  <2>2. ASSUME NEW d \in Callers, call'[d].root = Root PROVE call'[d].pc \notin Replacing
    <3>1. CASE d = c
      BY <2>1, <3>1 DEF Moved, Replacing
    <3>2. CASE d # c
      BY <1>2, <1>3, <2>2, <3>2 DEF IInv, Locked, RecoveryPcs, Replacing
    <3>. QED
      BY <3>1, <3>2
  <2>3. Ending(c)'
    BY <1>2, <1>3, <2>1, <2>2 DEF Ending, Moved, Mine, Current
  <2>. QED
    BY <2>1, <2>3, EndingOwned DEF Moved, Endings
<1>4. CASE ~call[c].keep
  <2>1. Moved(c, "finish")
    BY <1>1, <1>4, Moves DEF Verified
  <2>2. Recovery(c)'
    BY <1>2, <1>4, <2>1 DEF Recovery, Moved, Mine, Current, Replacing
  <2>. QED
    BY <2>1, <2>2, RecoveryOwned DEF Moved, Marked, RecoveryPcs
<1>. QED
  BY <1>3, <1>4

LEMMA RecoversOwn ==
  ASSUME IInv, NEW c \in Callers, Step(c),
         WriteMarker(c) \/ RollForward(c) \/ MoveMain(c) \/ CreateEmpty(c)
         \/ ConnectReplacement(c) \/ InstallTables(c)
  PROVE  Own(c)'
<1> DEFINE r == call[c].root
           s == call[c].stamp
<1>1. /\ Typed /\ Recovery(c) /\ Recoverable /\ r \in Places /\ NoId \notin Ids
      /\ call[c].pc \in RecoveryPcs
      /\ \A d \in Callers \ {c} : call'[d] = call[d]
  BY CatalogAssumption, OneMoves DEF IInv, Own, Typed, CallType, Sound, WriteMarker, RollForward,
     MoveMain, CreateEmpty, ConnectReplacement, InstallTables, RecoveryPcs
<1>2. /\ r \in Ids => dir[r] = "present"
      /\ call[c].id \in Ids /\ s \in Stamps /\ (call[c].keep => r = Root)
      /\ r = Root /\ ~call[c].keep => manifest[Root] # NoManifest
      /\ call[c].pc \in Marked => backup[r][s].marker = call[c].id
  BY <1>1 DEF Recovery, Mine
<1>3. CASE WriteMarker(c)
  <2>1. /\ call'[c].pc = "rolling" /\ call'[c].root = r /\ call'[c].id = call[c].id
        /\ call'[c].stamp = s /\ call'[c].keep = call[c].keep
    BY <1>1, <1>3, RollingGoes DEF WriteMarker
  <2>2. backup' = [backup EXCEPT ![r][s].marker = call[c].id] /\ UNCHANGED <<dir, manifest>>
    BY <1>3 DEF WriteMarker
  <2> HIDE DEF r, s
  <2>3. backup'[r][s].marker = call[c].id
    <3>1. r \in Places /\ s \in Stamps /\ Typed
      BY <1>1, <1>2
    <3>2. BackupWritten(r, s, backup[r][s].made, backup[r][s].main, backup[r][s].wal, call[c].id)
      BY <1>2, <2>2, <3>1, MarkerWritten
    <3>. QED
      BY <3>2 DEF BackupWritten
  <2>4. Recovery(c)'
    BY <1>2, <2>1, <2>2, <2>3 DEF Recovery, Mine, Replacing
  <2>. QED
    BY <2>1, <2>4, RecoveryOwned DEF Marked, RecoveryPcs
<1>4. CASE RollForward(c)
  <2>1. call[c].pc = "rolling" /\ UNCHANGED <<dir, manifest, main>> /\ backup[r][s].marker # NoId
        /\ backup[r][s].marker = call[c].id
    BY <1>1, <1>2, <1>4 DEF RollForward, Marked, RecoveryPcs
  <2>2. IF backup[r][s].main = "none" THEN main[r] \in Old ELSE main[r] \in Fresh \cup {"populated"}
    BY <1>1, <1>2, <2>1 DEF Recoverable
  <2>3. CASE Stop(c)
    BY <1>1, <2>3, StopOwns
  <2>4. CASE /\ backup[r][s].main = "none" /\ Advance(c, "main") /\ wal' = [wal EXCEPT ![r] = FALSE]
             /\ backup' = [backup EXCEPT ![r][s].wal = @ \/ wal[r]]
    <3> DEFINE log == backup[r][s].wal \/ wal[r]
    <3>1. log \in BOOLEAN /\ backup' = [backup EXCEPT ![r][s].wal = log]
      BY <1>1, <1>2, <2>4 DEF Typed, TypeOK
    <3>2. Moved(c, "main") /\ ~wal'[r]
      BY <1>1, <2>4, Moves DEF Typed, TypeOK
    <3>3. call'[c].pc = "main" /\ call'[c].root = r /\ call'[c].id = call[c].id
          /\ call'[c].stamp = s /\ call'[c].keep = call[c].keep
      BY <3>2 DEF Moved
    <3> HIDE DEF log, r, s
    <3>4. backup'[r][s].main = "none" /\ backup'[r][s].marker = call[c].id
      BY <1>1, <1>2, <2>1, <2>4, <3>1, LogBackedUp DEF BackupWritten
    <3>5. Recovery(c)'
      BY <1>2, <2>1, <2>2, <2>4, <3>2, <3>3, <3>4 DEF Recovery, Mine, Replacing
    <3>. QED
      BY <3>3, <3>5, RecoveryOwned DEF Marked, RecoveryPcs
  <2>5. CASE /\ backup[r][s].main # "none" /\ main[r] \in {"none", "empty", "blank"}
             /\ Advance(c, "install") /\ UNCHANGED <<wal, backup>>
    <3>1. Moved(c, "install")
      BY <1>1, <2>5, Moves
    <3>2. Recovery(c)'
      BY <1>2, <2>1, <2>5, <3>1 DEF Recovery, Mine, Moved, Replacing, Fresh
    <3>. QED
      BY <3>1, <3>2, RecoveryOwned DEF Moved, Marked, RecoveryPcs
  <2>6. CASE main[r] = "pristine" /\ Verified(c) /\ UNCHANGED <<wal, backup>>
    BY <1>1, <2>1, <2>6, VerifiedOwns
  <2>. QED
    BY <1>4, <2>3, <2>4, <2>5, <2>6 DEF RollForward, Mine
<1>5. CASE MoveMain(c)
  <2>1. call[c].pc = "main" /\ UNCHANGED <<dir, manifest>> /\ main[r] \in Old
        /\ backup' = [backup EXCEPT ![r][s].main = main[r]] /\ backup[r][s].marker = call[c].id
    BY <1>1, <1>2, <1>5 DEF MoveMain, Recovery, Marked, RecoveryPcs
  <2>2. main'[r] = "none" /\ Moved(c, "install") /\ main[r] \in Classes
    BY <1>1, <1>5, Moves DEF MoveMain, Typed, TypeOK
  <2>3. call'[c].pc = "install" /\ call'[c].root = r /\ call'[c].id = call[c].id
        /\ call'[c].stamp = s /\ call'[c].keep = call[c].keep
    BY <2>2 DEF Moved
  <2> HIDE DEF r, s
  <2>4. backup'[r][s].main = main[r] /\ backup'[r][s].marker = call[c].id
    <3>1. r \in Places /\ s \in Stamps /\ Typed
      BY <1>1, <1>2
    <3>2. BackupWritten(r, s, backup[r][s].made, main[r], backup[r][s].wal, backup[r][s].marker)
      BY <2>1, <2>2, <3>1, MainBackedUp
    <3>. QED
      BY <2>1, <3>2 DEF BackupWritten
  <2>5. Recovery(c)'
    BY <1>2, <2>1, <2>2, <2>3, <2>4 DEF Recovery, Mine, Replacing, Fresh, Old
  <2>. QED
    BY <2>3, <2>5, RecoveryOwned DEF Marked, RecoveryPcs
<1>6. CASE CreateEmpty(c) \/ ConnectReplacement(c)
  <2>1. CASE Stop(c)
    BY <1>1, <2>1, StopOwns
  <2>2. CASE ~Stop(c)
    <3>1. PICK pc \in {"schema", "tables"} :
            /\ Advance(c, pc) /\ main'[r] \in {"empty", "blank"} /\ call[c].pc \in {"install", "schema"}
            /\ UNCHANGED <<dir, manifest, backup>>
      BY <1>1, <1>6, <2>2 DEF CreateEmpty, ConnectReplacement, Typed, TypeOK
    <3>2. Moved(c, pc)
      BY <1>1, <3>1, Moves
    <3>3. Mine(c).main # "none" /\ Mine(c).marker = call[c].id
      BY <1>1, <3>1 DEF Recovery, Marked, Replacing, RecoveryPcs
    <3>4. Recovery(c)'
      BY <1>2, <3>1, <3>2, <3>3 DEF Recovery, Mine, Moved, Replacing, Fresh
    <3>. QED
      BY <3>1, <3>2, <3>4, RecoveryOwned DEF Moved, Marked, RecoveryPcs
  <2>. QED
    BY <2>1, <2>2
<1>7. CASE InstallTables(c)
  <2>1. main'[r] = "pristine" /\ call[c].pc = "tables" /\ Verified(c) /\ UNCHANGED <<dir, manifest, backup>>
    BY <1>1, <1>7 DEF InstallTables, Typed, TypeOK
  <2>. QED
    BY <1>1, <2>1, VerifiedOwns
<1>. QED
  BY <1>3, <1>4, <1>5, <1>6, <1>7

LEMMA EndsOwn ==
  ASSUME IInv, NEW c \in Callers, Step(c), FinalizeRecovered(c) \/ FinishRecovery(c)
  PROVE  Own(c)'
<1>1. Typed /\ Ending(c)
  BY DEF IInv, Own
<1>2. CASE Stop(c)
  BY <1>1, <1>2, StopOwns
<1>3. CASE FinalizeRecovered(c) /\ ~Stop(c)
  <2>1. /\ call[c].pc = "finalize" /\ call[c].root = Root /\ call[c].id \in Ids
        /\ call[c].stamp \in Stamps /\ main[Root] \in Current
        /\ \A d \in Callers : call[d].root = Root => call[d].pc \notin Replacing
    BY <1>1, <1>3 DEF FinalizeRecovered, Ending, Endings
  <2>2. /\ call'[c].pc = "relock" /\ call'[c].root = Root
        /\ call'[c].stamp = call[c].stamp /\ call'[c].id \in Ids
        /\ manifest'[Root] # NoManifest /\ main'[Root] \in Current
    BY <1>3, <2>1, FinalizeGoes DEF FinalizeRecovered
  <2>3. ASSUME NEW d \in Callers, call'[d].root = Root PROVE call'[d].pc \notin Replacing
    BY <1>1, <2>1, <2>2, <2>3, OneMoves DEF Replacing
  <2>4. Ending(c)'
    BY <2>1, <2>2, <2>3 DEF Ending
  <2>. QED
    BY <2>2, <2>4, EndingOwned DEF Endings
<1>. QED
  BY <1>2, <1>3 DEF FinishRecovery

LEMMA InstallsOwn ==
  ASSUME IInv, NEW c \in Callers,
         CreateReserve(c) \/ ImportReserve(c) \/ Fill(c) \/ WriteManifest(c)
  PROVE  Own(c)'
<1>1. Typed /\ Installation(c) /\ Directories
  BY DEF IInv, Own, Sound
<1>2. ASSUME NEW i \in Ids, NEW name \in Names, NEW pc \in {"creating", "importing"},
             Reserve(c, i, name, pc), dir[i] \in {"absent", "reserved"}, ~NameTaken(name, Places),
             UNCHANGED <<manifest, main, wal, backup>>
      PROVE  Own(c)'
  <2>1. call'[c].pc = pc /\ call'[c].root = i /\ call'[c].id = i /\ call'[c].name = name
    BY <1>1, <1>2, ReserveGoes
  <2>2. dir'[i] = "reserved" /\ \A j \in Ids : j # i => dir'[j] = dir[j]
    BY <1>1, <1>2 DEF Reserve, Typed, TypeOK
  <2>3. /\ manifest[i] = NoManifest
        /\ \A s \in Stamps : backup[i][s].marker = NoId /\ backup[i][s].main = "none"
    BY <1>1, <1>2 DEF Directories
  <2>4. \A q \in Places : Installed(q) => manifest[q].name # name
    BY <1>2, FreeNames
  <2>5. \A q \in Places : Installed(q)' => Installed(q)
    BY <1>2, <2>2, <2>3 DEF Installed, Places
  <2>6. Installation(c)'
    BY <1>2, <2>1, <2>2, <2>3, <2>4, <2>5 DEF Installation
  <2>. QED
    BY <2>1, <2>6, InstallationOwned DEF InstallPcs
<1>3. CASE CreateReserve(c)
  <2>1. PICK i \in Ids \ UsedIds, name \in Names :
          ~NameTaken(name, Places) /\ Reserve(c, i, name, "creating")
    BY <1>3 DEF CreateReserve
  <2>2. dir[i] = "absent" /\ UNCHANGED <<manifest, main, wal, backup>>
    BY <1>3, <2>1 DEF CreateReserve, UsedIds
  <2>. QED
    BY <1>2, <2>1, <2>2
<1>4. CASE ImportReserve(c)
  <2>1. PICK i \in Ids, name \in Names :
          /\ dir[i] \in {"absent", "reserved"} /\ ~NameTaken(name, Places)
          /\ Reserve(c, i, name, "importing")
    BY <1>4 DEF ImportReserve
  <2>2. UNCHANGED <<manifest, main, wal, backup>>
    BY <1>4 DEF ImportReserve
  <2>. QED
    BY <1>2, <2>1, <2>2
<1> DEFINE r == call[c].root
<1>5. CASE Fill(c)
  <2>1. /\ call[c].pc \in {"creating", "importing"} /\ UNCHANGED <<manifest, wal, backup>>
        /\ \E pc \in {"created", "copied"} : Advance(c, pc)
    BY <1>5 DEF Fill
  <2>2. /\ r \in Ids /\ call[c].id = r /\ call[c].name \in Names /\ manifest[r] = NoManifest
        /\ \A s \in Stamps : backup[r][s].marker = NoId /\ backup[r][s].main = "none"
        /\ \A q \in Places : Installed(q) => manifest[q].name # call[c].name
    BY <1>1, <2>1 DEF Installation, InstallPcs
  <2>3. dir'[r] = "present" /\ \A j \in Ids : j # r => dir'[j] = dir[j]
    BY <1>1, <1>5, <2>2 DEF Fill, Typed, TypeOK
  <2>4. \A q \in Places : Installed(q)' => Installed(q)
    BY <2>1, <2>2, <2>3 DEF Installed, Places
  <2>5. \E pc \in {"created", "copied"} : Moved(c, pc)
    BY <1>1, <2>1, Moves
  <2>6. Installation(c)'
    BY <2>1, <2>2, <2>3, <2>4, <2>5 DEF Installation, Moved
  <2>. QED
    BY <2>5, <2>6, InstallationOwned DEF Moved, InstallPcs
<1>6. CASE WriteManifest(c)
  <2>1. CASE Stop(c)
    BY <1>1, <2>1, StopOwns
  <2>2. CASE Advance(c, "imported")
    <3>1. Moved(c, "imported") /\ UNCHANGED <<dir, main, wal, backup>> /\ call[c].pc \in {"created", "copied"}
      BY <1>1, <1>6, <2>2, Moves DEF WriteManifest
    <3>2. Installation(c)'
      BY <1>1, <3>1 DEF Installation, Moved, InstallPcs
    <3>. QED
      BY <3>1, <3>2, InstallationOwned DEF Moved, InstallPcs
  <2>. QED
    BY <1>6, <2>1, <2>2 DEF WriteManifest
<1>. QED
  BY <1>3, <1>4, <1>5, <1>6

LEMMA RemovesOwn ==
  ASSUME IInv, NEW c \in Callers,
         FinishImport(c) \/ FailCreate(c) \/ FailImport(c) \/ Detach(c) \/ Delete(c)
         \/ Rename(c) \/ Crash(c)
  PROVE  Own(c)'
<1>1. Typed /\ Installation(c)
  BY DEF IInv, Own
<1>2. ASSUME NEW i \in Ids, Retire(c, i) PROVE Own(c)'
  <2>1. call'[c] = At("removing", i) /\ dir'[i] = "retired"
    BY <1>1, <1>2, Goes DEF Retire, Typed, TypeOK
  <2>2. call'[c].pc = "removing" /\ call'[c].root = i
    BY <2>1 DEF At, Idle
  <2>3. Removal(c)'
    BY <2>1, <2>2 DEF Removal
  <2>. QED
    BY <2>2, <2>3, RemovalOwned
<1>3. CASE FinishImport(c) \/ FailCreate(c) \/ Delete(c) \/ Crash(c)
  BY <1>1, <1>3, StopOwns DEF FinishImport, FailCreate, Delete, Crash
<1>4. CASE FailImport(c)
  <2>1. call[c].root \in Ids
    BY <1>1, <1>4 DEF FailImport, Installation, InstallPcs
  <2>. QED
    BY <1>2, <1>4, <2>1 DEF FailImport
<1>5. CASE Detach(c)
  BY <1>2, <1>5 DEF Detach
<1>6. CASE Rename(c)
  <2>1. call'[c].pc = "idle"
    BY <1>6 DEF Rename
  <2>. QED
    BY <2>1, NothingOwned
<1>. QED
  BY <1>3, <1>4, <1>5, <1>6

-----------------------------------------------------------------------------
(* The invariant.                                                          *)

LEMMA InitHolds == Init => IInv
<1> SUFFICES ASSUME Init PROVE IInv
  OBVIOUS
<1>1. call = [c \in Callers |-> Idle] /\ backup = [r \in Places |-> [s \in Stamps |-> NoBackup]]
  BY DEF Init
<1>2. \A c \in Callers : call[c].pc = "idle"
  BY <1>1 DEF Idle
<1>3. Typed
  <2>1. call \in [Callers -> CallType]
    BY <1>1, IdleTyped
  <2>2. NoBackup \in [made : BOOLEAN, main : Classes, wal : BOOLEAN, marker : Ids \cup {NoId}]
    BY DEF NoBackup, Classes
  <2>3. \A c \in Callers : call[c].root \in Places /\ call[c].id \in Ids \cup {NoId}
    BY <2>1 DEF CallType
  <2>4. main \in [Places -> Classes]
    BY DEF Init, Classes, Current
  <2>. QED
    BY <1>1, <2>1, <2>2, <2>3, <2>4 DEF Init, Typed, TypeOK
<1>4. Locked
  BY <1>2 DEF Locked, HoldsCatalog, InstallPcs, RecoveryPcs
<1>5. \A c \in Callers : Own(c)
  BY <1>2 DEF Own, Session, Removal, Installation, Begins, Recovery, Ending, InstallPcs,
     RecoveryPcs, Planning, Endings
<1>6. \A r \in Places, s \in Stamps :
        ~backup[r][s].made /\ backup[r][s].main = "none" /\ ~backup[r][s].wal /\ backup[r][s].marker = NoId
  BY <1>1 DEF NoBackup
<1>7. Directories
  <2>1. ASSUME NEW i \in Ids
        PROVE  /\ manifest[i].id \in {i, NoId}
               /\ dir[i] \in {"absent", "reserved"} => manifest[i] = NoManifest /\ main[i] = "none"
    BY <1>3, ManifestParts, Distinct DEF Init
  <2>. QED
    BY <1>6, <2>1, Distinct DEF Directories
<1>8. RootIdFree
  BY <1>6, Distinct DEF Init, RootIdFree, TakenByRoot
<1>9. NamesDiffer
  BY DEF Init, NamesDiffer, Installed
<1>10. NoForeignLog
  BY DEF Init, NoForeignLog
<1>11. Recoverable
  BY <1>6, Distinct DEF Init, Recoverable
<1>. QED
  BY <1>3, <1>4, <1>5, <1>7, <1>8, <1>9, <1>10, <1>11 DEF IInv, Sound

LEMMA StepOwns ==
  ASSUME IInv, NEW c \in Callers, Step(c)
  PROVE  Own(c)'
BY OpensOwn, PlansOwn, BeginOwns, RecoversOwn, EndsOwn, InstallsOwn, RemovesOwn DEF Step

LEMMA NextKeeps == IInv /\ [Next]_vars => IInv'
<1> SUFFICES ASSUME IInv, [Next]_vars PROVE IInv'
  OBVIOUS
<1>1. CASE Next
  <2>1. PICK c \in Callers : Step(c)
    BY <1>1 DEF Next
  <2>2. Typed'
    BY <2>1, DiskTyped DEF IInv
  <2>3. \A d \in Callers : Own(d)'
    BY <2>1, StepOwns, OthersOwn
  <2>. QED
    BY <2>1, <2>2, <2>3, LocksKept, SoundKept DEF IInv
<1>2. CASE UNCHANGED vars
  <2> USE <1>2 DEF vars
  <2>1. Typed' /\ Locked'
    BY DEF IInv, Typed, TypeOK, Locked, HoldsCatalog
  <2>2. Sound'
    BY DEF IInv, Sound, Directories, RootIdFree, TakenByRoot, NamesDiffer, Installed, NoForeignLog,
       Recoverable
  <2>3. \A c \in Callers : Session(c)' /\ Removal(c)' /\ Installation(c)'
    BY DEF IInv, Own, Session, Removal, Installation, Installed
  <2>4. \A c \in Callers : Begins(c)'
    BY DEF IInv, Own, Begins
  <2>5. \A c \in Callers : Recovery(c)'
    <3>1. \A c \in Callers : Recovery(c) /\ Mine(c)' = Mine(c)
      BY DEF IInv, Own, Mine
    <3>. QED
      BY <3>1 DEF Recovery
  <2>6. \A c \in Callers : Ending(c)'
    BY DEF IInv, Own, Ending, Mine
  <2>. QED
    BY <2>1, <2>2, <2>3, <2>4, <2>5, <2>6 DEF IInv, Own
<1>. QED
  BY <1>1, <1>2

LEMMA InvariantHolds == Spec => []IInv
<1>. QED
  BY InitHolds, NextKeeps, PTL DEF Spec

\* While a session has a profile open, nobody moves, replaces, retires or deletes it
\* (the shared profile lock of OpenSelected).
THEOREM OpenStays == Spec => []OpenStaysInPlace
<1>1. IInv => OpenStaysInPlace
  BY DEF IInv, Own, Session, OpenStaysInPlace
<1>. QED
  BY <1>1, InvariantHolds, PTL

LEMMA MarkersOfSound ==
  ASSUME Recoverable, NEW r \in Places
  PROVE  /\ ~(Cardinality(Markers(r)) > 1)
         /\ Active(r) => ActiveStamp(r) \in Stamps /\ backup[r][ActiveStamp(r)].marker # NoId
<1>1. CASE Markers(r) = {}
  BY <1>1, FS_EmptySet DEF Active
<1>2. CASE Markers(r) # {}
  <2>1. PICK s \in Markers(r) : TRUE
    BY <1>2
  <2>2. Markers(r) = {s}
    BY <2>1 DEF Markers, Recoverable
  <2>3. Cardinality(Markers(r)) = 1
    BY <2>2, FS_Singleton
  <2>. QED
    BY <2>1, <2>2, <2>3 DEF ActiveStamp, Markers
<1>. QED
  BY <1>1, <1>2

\* Names and IDs stay unique, and nothing an operation leaves behind makes the listing of the
\* catalog fail (displayNameConflict, reservedID, recoveryForProfile).
THEOREM CatalogHolds == Spec => []CatalogStaysSound
<1>1. ASSUME IInv PROVE CatalogStaysSound
  <2>1. Sound /\ Recoverable /\ TypeOK /\ Root \in Places
    BY <1>1, Distinct DEF IInv, Sound, Typed
  <2>2. ProfilesDiffer
    <3>1. ASSUME NEW r \in Places, NEW s \in Places, r # s, Visible(r), Visible(s),
                 manifest[r] # NoManifest
          PROVE  manifest[r].name # manifest[s].name
      <4>1. CASE manifest[s] = NoManifest
        BY <1>1, <3>1, <4>1, ManifestParts, Manifests DEF IInv
      <4>2. CASE manifest[s] # NoManifest
        BY <2>1, <3>1, <4>2 DEF Sound, NamesDiffer, Installed, Visible
      <4>. QED
        BY <4>1, <4>2
    <3>2. ASSUME NEW i \in Ids, dir[i] = "present" PROVE ~TakenByRoot(i)
      BY <2>1, <3>2 DEF Sound, RootIdFree
    <3>. QED
      BY <3>1, <3>2 DEF ProfilesDiffer, TakenByRoot
  <2>3. CatalogStaysListable
    <3>1. ASSUME NEW r \in Places PROVE ~Unlistable(r)
      <4>1. r = Root /\ manifest[r] # NoManifest /\ main[r] = "none" => Active(r)
        BY <2>1 DEF Recoverable, Active, Markers
      <4>. QED
        BY <2>1, <4>1, MarkersOfSound DEF Unlistable
    <3>2. ASSUME NEW r \in Places, Active(r), manifest[r] # NoManifest
          PROVE  backup[r][ActiveStamp(r)].marker = manifest[r].id
      BY <2>1, <3>2, MarkersOfSound DEF Recoverable
    <3>. QED
      BY <3>1, <3>2 DEF CatalogStaysListable
  <2>. QED
    BY <2>1, <2>2, <2>3 DEF CatalogStaysSound
<1>. QED
  BY <1>1, InvariantHolds, PTL

\* Whatever step a recovery died at, it can be resumed, and the old database's log never lies
\* beside its replacement (recoveryAction, moveRecoveryFile).
THEOREM RecoveryHolds == Spec => []RecoverySurvivesCrashes
<1>1. ASSUME IInv PROVE RecoverySurvivesCrashes
  <2>1. ASSUME NEW r \in Places, Active(r) PROVE Resumable(r)
    <3>1. ActiveStamp(r) \in Stamps /\ backup[r][ActiveStamp(r)].marker # NoId
      BY <1>1, <2>1, MarkersOfSound DEF IInv, Sound
    <3>. QED
      BY <1>1, <3>1 DEF IInv, Sound, Recoverable, Resumable, Refused, Old, Fresh
  <2>. QED
    BY <1>1, <2>1 DEF RecoverySurvivesCrashes, RecoveryResumes, IInv, Sound
<1>. QED
  BY <1>1, InvariantHolds, PTL

\* No step loses a database that holds something, or a backup of one: it stays, it becomes the
\* backup, or it goes with a profile that was retired (moveRecoveryFile, Remove, failed imports).
THEOREM DataHolds == Spec => DataKept
<1> DEFINE Keeps(r) ==
      /\ main[r] \in Precious /\ main'[r] # main[r]
         => \/ \E s \in Stamps : backup[r][s].main = "none" /\ backup'[r][s].main = main[r]
            \/ \E c \in Callers : call[c].pc = "created" /\ call[c].root = r
      /\ \A s \in Stamps : backup[r][s].main \in Precious => backup'[r][s].main = backup[r][s].main
<1>1. ASSUME IInv, NEW c \in Callers, Step(c), NEW r \in Places, r # Root => dir[r] # "retired"
      PROVE  Keeps(r)
  <2>1. /\ MainStep(c, r) /\ \A s \in Stamps : BackupStep(c, r, s)
        /\ Own(c) /\ Directories /\ Typed /\ Places = Ids \cup {Root}
    BY <1>1, DiskSteps DEF Sound, Places
  <2>2. call[c].root = r => call[c].pc # "removing"
    BY <1>1, <2>1, Distinct DEF Own, Removal
  <2>3. call[c].root = r /\ call[c].pc \in {"creating", "importing"} => main[r] = "none"
    BY <2>1 DEF Own, Installation, InstallPcs, Directories
  <2>4. call[c].root = r /\ call[c].pc \in Replacing => main[r] \in Fresh
    BY <2>1 DEF Own, Recovery, RecoveryPcs, Replacing
  <2>5. ASSUME main[r] \in Precious, main'[r] # main[r]
        PROVE  \/ \E s \in Stamps : backup[r][s].main = "none" /\ backup'[r][s].main = main[r]
               \/ \E d \in Callers : call[d].pc = "created" /\ call[d].root = r
    <3>1. CASE call[c].root = r /\ call[c].pc = "main" /\ backup'[r][call[c].stamp].main = main[r]
      <4>1. call[c].stamp \in Stamps /\ backup[r][call[c].stamp].main = "none"
        BY <2>1, <3>1 DEF Own, Recovery, RecoveryPcs, Mine
      <4>. QED
        BY <3>1, <4>1
    <3>2. CASE Erasing(c, r)
      BY <2>2, <2>3, <2>5, <3>2 DEF Erasing, Precious
    <3>. QED
      BY <2>1, <2>3, <2>4, <2>5, <3>1, <3>2 DEF MainStep, Precious, Fresh
  <2>6. ASSUME NEW s \in Stamps, backup[r][s].main \in Precious
        PROVE  backup'[r][s].main = backup[r][s].main
    <3>1. ~Erasing(c, r)
      BY <2>1, <2>2, <2>6 DEF Erasing, Own, Installation, InstallPcs, Precious
    <3>2. ~(call[c].root = r /\ call[c].pc = "main" /\ s = call[c].stamp)
      BY <2>1, <2>6 DEF Own, Recovery, RecoveryPcs, Mine, Precious
    <3>. QED
      BY <2>1, <3>1, <3>2 DEF BackupStep, BackupWritten
  <2>. QED
    BY <2>5, <2>6
<1>2. IInv /\ [Next]_vars => [\A r \in Places : (r # Root => dir[r] # "retired") => Keeps(r)]_vars
  BY <1>1 DEF Next
<1>3. Spec => [][\A r \in Places : (r # Root => dir[r] # "retired") => Keeps(r)]_vars
  BY <1>2, InvariantHolds, PTL DEF Spec
<1>. QED
  BY <1>3 DEF DataKept
================================================================================
