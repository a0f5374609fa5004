-------------------------------- MODULE Journal --------------------------------
(***************************************************************************)
(* The pending-edit journal of one profile, edited by several processes.    *)
(*                                                                          *)
(* The store keeps the committed profile, the journal with its cursor, a    *)
(* revision every change increments, and the unfinished provider write      *)
(* batch, if any.  Each process (a terminal, a web or an MCP server) runs one  *)
(* service, which caches a replayed snapshot, plans its edits from the      *)
(* cache and writes them with a compare on the revision.                    *)
(*                                                                          *)
(* Planning and the store's transaction are one step: a plan depends on the *)
(* cache alone, and a transaction at another revision changes nothing but   *)
(* makes the service reload.  A reload is two reads: the snapshot, and then *)
(* the provider state.  A restarted process reloads the same way.           *)
(*                                                                          *)
(* Sources: internal/app/profile_service.go, hide.go, commit.go;            *)
(* internal/store/sqlite/journal.go, cancel_hide.go, fold.go, load.go,      *)
(* provider_write.go, provider_write_reconcile.go.                          *)
(***************************************************************************)
EXTENDS Editing, FiniteSets

CONSTANTS
  Services,
  Bindings,        \* whether commits may go through a provider: both are checked
  InitialProfile,
  MaxJournal,      \* operations a journal may hold
  MaxRevision      \* bound on the changes of a behaviour

\* What a provider is asked to change here leaves the taxonomy alone.
BoundKinds == {"category.assign", "transaction.hide-toggle", "transaction.delete"}

ASSUME JournalAssumption ==
  /\ ValidProfile(InitialProfile)
  /\ Bindings \subseteq BOOLEAN
  /\ MaxJournal \in Nat
  /\ MaxRevision \in Nat \ {0}

VARIABLES
  bound,           \* whether the profile's commits go through a provider
  revision,
  committed,
  journal,         \* the redo tail included
  cursor,          \* how many operations are active
  batch,           \* the revision its unfinished write batch left, or NoBatch
  pc,              \* what each service is doing
  cache,           \* the replayed snapshot each service shows and edits
  read             \* the snapshot a reload has read

store == <<bound, revision, committed, journal, cursor, batch>>
vars == <<store, pc, cache, read>>

NoBatch == 0

Prefix(ops, length) == SubSeq(ops, 1, length)

----------------------------------------------------------------------------
(* Caches.                                                                 *)

StoredSnapshot ==
  [revision |-> revision, committed |-> committed, journal |-> journal, cursor |-> cursor]

\* The cache reloadLocked installs from a snapshot and a provider state.
Loaded(snapshot, writing) ==
  LET active == Prefix(snapshot.journal, snapshot.cursor)
  IN [revision |-> snapshot.revision,
      committed |-> snapshot.committed,
      journal |-> snapshot.journal,
      cursor |-> snapshot.cursor,
      effective |-> Replay(snapshot.committed, active),
      pending |-> Affected(snapshot.committed, active),
      writing |-> writing]

\* The incremental install refuses an operation some target of which is no
\* transaction: a category created without transactions targets itself.
InstallsIncrementally(op) ==
  \/ op.type = "category.assign"
  \/ op.type = "category.create" /\ op.targets # {}

\* Only the targets' categories change, and a created category is added.
IncrementalEffective(effective, op) ==
  LET created == op.type = "category.create"
  IN [effective EXCEPT
        !.categories = IF created
                       THEN Insert(@, op.subject, NewCategory(op.label, op.to)) ELSE @,
        !.transactions = Reassign(@, op.targets, "category",
                                  IF created THEN op.subject ELSE op.to)]

\* Mutant of Incremental: the cached redo tail is kept.
IncrementalKeepsTail(snapshot, op) ==
  [revision |-> snapshot.revision + 1,
   committed |-> snapshot.committed,
   journal |-> Append(snapshot.journal, op),
   cursor |-> snapshot.cursor + 1,
   effective |-> IncrementalEffective(snapshot.effective, op),
   pending |-> snapshot.pending \cup op.targets,
   writing |-> snapshot.writing]

Incremental(snapshot, op) ==
  [revision |-> snapshot.revision + 1,
   committed |-> snapshot.committed,
   journal |-> Append(Prefix(snapshot.journal, snapshot.cursor), op),
   cursor |-> snapshot.cursor + 1,
   effective |-> IncrementalEffective(snapshot.effective, op),
   pending |-> snapshot.pending \cup op.targets,
   writing |-> snapshot.writing]

Reloading(s) ==
  /\ pc' = [pc EXCEPT ![s] = "reload"]
  /\ UNCHANGED <<cache, read>>

----------------------------------------------------------------------------
Init ==
  /\ bound \in Bindings
  /\ revision = 1
  /\ committed = InitialProfile
  /\ journal = <<>>
  /\ cursor = 0
  /\ batch = NoBatch
  /\ pc = [s \in Services |-> "idle"]
  /\ cache = [s \in Services |-> Loaded(StoredSnapshot, FALSE)]
  /\ read = [s \in Services |-> StoredSnapshot]

(***************************************************************************)
(* Reloading.  An idle service reloads when the stored revision is not the  *)
(* cached one, as every request checks first; after an edit it reloads      *)
(* whatever the revision.                                                   *)
(***************************************************************************)
Load(s) ==
  /\ \/ pc[s] = "reload"
     \/ pc[s] = "idle" /\ cache[s].revision # revision
  /\ pc' = [pc EXCEPT ![s] = "loading"]
  /\ read' = [read EXCEPT ![s] = StoredSnapshot]
  /\ UNCHANGED <<store, cache>>

\* A profile that does not replay is reported corrupt and never cached.
Install(s) ==
  /\ pc[s] = "loading"
  /\ Replays(read[s].committed, Prefix(read[s].journal, read[s].cursor))
  /\ pc' = [pc EXCEPT ![s] = "idle"]
  /\ cache' = [cache EXCEPT ![s] = Loaded(read[s], batch # NoBatch)]
  /\ UNCHANGED <<store, read>>

\* A read fails or the request is cancelled: the old cache stays.
LoadFails(s) ==
  /\ pc[s] \in {"reload", "loading"}
  /\ pc' = [pc EXCEPT ![s] = "idle"]
  /\ UNCHANGED <<store, cache, read>>

(***************************************************************************)
(* Edits.  Ready(s) is what an edit, a cursor move and a hide have passed   *)
(* before the store changes: the service is between requests, its cache is  *)
(* at the stored revision and says that no batch is unfinished.  The store  *)
(* itself compares revisions only.                                          *)
(***************************************************************************)
\* Mutant of Current: the store does not compare revisions.
CurrentUnchecked(s) == pc[s] = "idle" /\ revision < MaxRevision

Current(s) ==
  /\ pc[s] = "idle"
  /\ cache[s].revision = revision
  /\ revision < MaxRevision

\* Mutant of Ready: the cached provider state is not asked.
ReadyDespiteBatch(s) == Current(s)

Ready(s) == Current(s) /\ ~cache[s].writing

StoreAppend(op) ==
  /\ cursor < MaxJournal
  /\ revision' = revision + 1
  /\ journal' = Append(Prefix(journal, cursor), op)
  /\ cursor' = cursor + 1
  /\ UNCHANGED <<bound, committed, batch>>

AppendEdit(s, op) ==
  /\ Ready(s)
  /\ StoreAppend(op)
  /\ IF InstallsIncrementally(op)
     THEN /\ cache' = [cache EXCEPT ![s] = Incremental(@, op)]
          /\ UNCHANGED <<pc, read>>
     ELSE Reloading(s)

IsHide(op) == op.type = "transaction.hide-toggle"

\* The active hides flipped every target an odd number of times.
CanCancelHide(snapshot, targets) ==
  \A t \in targets :
    LET flips == {i \in 1..snapshot.cursor : /\ IsHide(snapshot.journal[i])
                                             /\ t \in snapshot.journal[i].targets}
    IN Cardinality(flips) % 2 = 1

\* The targets leave every hide, and a hide left without targets the journal.
WithoutHides(ops, targets) ==
  SelectSeq([i \in 1..Len(ops) |->
               IF IsHide(ops[i]) THEN [ops[i] EXCEPT !.targets = @ \ targets] ELSE ops[i]],
            LAMBDA op : ~(IsHide(op) /\ op.targets = {}))

StoreCancelHide(targets) ==
  LET active == Prefix(journal, cursor)
  IN /\ \A t \in targets :
          \E i \in 1..cursor : IsHide(journal[i]) /\ t \in journal[i].targets
     /\ revision' = revision + 1
     /\ journal' = WithoutHides(active, targets)
     /\ cursor' = Len(journal')
     /\ UNCHANGED <<bound, committed, batch>>

CancelHide(s, targets) ==
  /\ Ready(s)
  /\ "transaction.hide-toggle" \in Kinds
  /\ ~Mixed(cache[s].effective, targets)
  /\ CanCancelHide(cache[s], targets)
  /\ StoreCancelHide(targets)
  /\ Reloading(s)

ToggleHide(s, targets) ==
  /\ "transaction.hide-toggle" \in Kinds
  /\ \/ Mixed(cache[s].effective, targets)
     \/ ~CanCancelHide(cache[s], targets)
  /\ AppendEdit(s, HideToggle(HideTargets(cache[s].effective, targets)))

MoveCursor(s, direction) ==
  /\ Ready(s)
  /\ cursor + direction \in 0..Len(journal)
  /\ revision' = revision + 1
  /\ cursor' = cursor + direction
  /\ UNCHANGED <<bound, committed, journal, batch>>
  /\ Reloading(s)

Undo(s) == MoveCursor(s, -1)
Redo(s) == MoveCursor(s, 1)

Edit(s) ==
  \E op \in Drafts(cache[s].committed, cache[s].effective) :
    (bound => op.type \in BoundKinds) /\ AppendEdit(s, op)

Hide(s) ==
  \E targets \in Selections(cache[s].effective) :
    ToggleHide(s, targets) \/ CancelHide(s, targets)

(***************************************************************************)
(* A local commit.  It folds the replayed active prefix into the committed  *)
(* tables, entity by entity, with foreign keys and the uniqueness of active *)
(* collision keys enforced statement by statement.                         *)
(***************************************************************************)
Created(before, after) == DOMAIN after \ DOMAIN before

\* New entities are inserted in identity order before old ones are updated,
\* so a new entity may refer to an old one or to a smaller new one.
ReferencesResolve(before, after) ==
  \A e \in Created(before, after) :
    \/ after[e].into \in {NoEntity} \cup DOMAIN before
    \/ after[e].into < e

FoldReferencesResolve(before, after) ==
  /\ ReferencesResolve(before.groups, after.groups)
  /\ ReferencesResolve(before.merchants, after.merchants)
  /\ ReferencesResolve(before.categories, after.categories)

\* Entities that retire or change their key give the old key up first.
KeepsKey(before, after, e) ==
  /\ ~before[e].retired /\ ~after[e].retired
  /\ CollisionKey(before[e].label) = CollisionKey(after[e].label)

\* An inserted or updated row meets the rows that still hold their old key
\* and, whatever the order of the statements, the rows written before it.
KeysFree(before, after) ==
  \A e \in ActiveIn(after) :
    \A other \in ActiveIn(before) \ {e} :
      CollisionKey(before[other].label) = CollisionKey(after[e].label) =>
        ~KeepsKey(before, after, other)

FoldKeysFree(before, after) ==
  /\ KeysFree(before.groups, after.groups)
  /\ KeysFree(before.merchants, after.merchants)
  /\ KeysFree(before.categories, after.categories)

FoldAccepts(before, after) ==
  FoldReferencesResolve(before, after) /\ FoldKeysFree(before, after)

\* Mutant of Fold: the redo tail is folded too.
FoldRedoTail(s) ==
  LET effective == Replay(committed, journal)
  IN /\ ~bound
     /\ Current(s)
     /\ FoldAccepts(committed, effective)
     /\ revision' = revision + 1
     /\ committed' = effective
     /\ journal' = <<>>
     /\ cursor' = 0
     /\ UNCHANGED <<bound, batch>>
     /\ Reloading(s)

\* The fold plan must be a fresh replay, in the service and in the store.
Fold(s) ==
  LET effective == Replay(committed, Prefix(journal, cursor))
  IN /\ ~bound
     /\ Current(s)
     /\ cache[s].effective = effective
     /\ FoldAccepts(committed, effective)
     /\ revision' = revision + 1
     /\ committed' = effective
     /\ journal' = <<>>
     /\ cursor' = 0
     /\ UNCHANGED <<bound, batch>>
     /\ Reloading(s)

(***************************************************************************)
(* A provider commit.  Prepare freezes the active prefix; the batch it      *)
(* stores is the subject of ProviderWrite, and here only ends, recorded as  *)
(* a whole or reconciled with whatever the provider holds by then.          *)
(***************************************************************************)
\* Edits that cancel out need no batch; the journal is dropped.
PrepareNothing ==
  /\ journal' = <<>>
  /\ cursor' = 0
  /\ UNCHANGED batch

PrepareBatch ==
  /\ journal' = Prefix(journal, cursor)
  /\ batch' = revision + 1
  /\ UNCHANGED cursor

Prepare(s) ==
  LET effective == Replay(committed, Prefix(journal, cursor))
  IN /\ bound
     /\ Current(s)
     /\ batch = NoBatch
     /\ IF Changed(committed, effective) = {} THEN PrepareNothing ELSE PrepareBatch
     /\ revision' = revision + 1
     /\ UNCHANGED <<bound, committed>>
     /\ Reloading(s)

\* Whoever runs the batch ends it, with a compare on the revision prepare
\* left and not on a cached one; its service reloads afterwards.
EndBatch(s, profile) ==
  /\ batch # NoBatch
  /\ pc[s] = "idle"
  /\ revision = batch
  /\ revision < MaxRevision
  /\ revision' = revision + 1
  /\ committed' = profile
  /\ journal' = <<>>
  /\ cursor' = 0
  /\ batch' = NoBatch
  /\ UNCHANGED bound
  /\ Reloading(s)

Finalize(s) == EndBatch(s, Replay(committed, Prefix(journal, cursor)))

Reconcile(s) ==
  LET effective == Replay(committed, Prefix(journal, cursor))
  IN \E applied \in SUBSET Changed(committed, effective) :
       EndBatch(s, Applied(committed, effective, applied))

----------------------------------------------------------------------------
Next ==
  \E s \in Services :
    \/ Load(s) \/ Install(s) \/ LoadFails(s)
    \/ Edit(s) \/ Hide(s) \/ Undo(s) \/ Redo(s)
    \/ Fold(s)
    \/ Prepare(s) \/ Finalize(s) \/ Reconcile(s)

Spec == Init /\ [][Next]_vars

----------------------------------------------------------------------------
(* Properties.                                                             *)

ActiveJournal == Prefix(journal, cursor)
Effective == Replay(committed, ActiveJournal)

(***************************************************************************)
(* Every variable keeps its type; in particular the cursor stays inside the *)
(* journal that loadJournalState checks it against.                         *)
(***************************************************************************)
TypeOK ==
  /\ bound \in BOOLEAN
  /\ revision \in 1..MaxRevision
  /\ cursor \in 0..Len(journal)
  /\ batch \in 0..MaxRevision
  /\ \A s \in Services :
       /\ pc[s] \in {"idle", "reload", "loading"}
       /\ cache[s].revision \in 1..revision
       /\ read[s].revision \in 1..revision
       /\ cache[s].writing \in BOOLEAN

(***************************************************************************)
(* Every cursor position of the stored journal, the redo tail included, can *)
(* be loaded.  Append validates the shape of an operation and no more, so a *)
(* journal that does not replay would be found by the next reload, which    *)
(* reports a corrupt store and leaves the profile unusable.                 *)
(***************************************************************************)
JournalReplays == Replays(committed, journal)

(***************************************************************************)
(* A cache at the stored revision is what a reload would give, whether it   *)
(* was installed by a reload, from two reads between which anything may     *)
(* have happened, or by installIncrementalCategoryAppend.                   *)
(***************************************************************************)
CacheCoherent ==
  \A s \in Services :
    cache[s].revision = revision =>
      cache[s] = Loaded(StoredSnapshot, batch # NoBatch)

(***************************************************************************)
(* An unfinished batch can be ended: the profile is still at the revision   *)
(* prepare left, which finalize and reconcile compare with.  Append,        *)
(* CancelHide and MoveCursor do not look for a batch; what keeps them away  *)
(* is the provider state the service cached.                                *)
(***************************************************************************)
BatchCanEnd == batch # NoBatch => revision = batch

(***************************************************************************)
(* Without a batch, the committed profile changes only into the effective   *)
(* profile some process shows its user, at the revision that user reviewed. *)
(***************************************************************************)
CommitsWhatWasReviewed ==
  [][committed' # committed /\ batch = NoBatch =>
       \E s \in Services : /\ cache[s].revision = revision
                            /\ cache[s].effective = committed']_vars

(***************************************************************************)
(* All the processes together edit like one editor without a cache.         *)
(***************************************************************************)
History == INSTANCE EditHistory WITH frozen <- batch # NoBatch

(***************************************************************************)
(* Every transaction a pending edit changes, or whose labels it changes, is *)
(* among the affected ones, which the pending marks and counts come from.   *)
(***************************************************************************)
ChangesAreAffected ==
  Changed(committed, Effective) \subseteq Affected(committed, ActiveJournal)

(***************************************************************************)
(* No local commit fails on the uniqueness of active collision keys, though *)
(* labels may have moved between entities (releaseFoldCollisionKeys).       *)
(***************************************************************************)
FoldKeysNeverClash == ~bound => FoldKeysFree(committed, Effective)

(***************************************************************************)
(* No local commit fails on a foreign key: docs/architecture/               *)
(* state-and-storage.md:56-59, "Local commit folds the active prefix        *)
(* atomically", "structural retirement effects" included.                   *)
(***************************************************************************)
FoldNeverRefused == ~bound => FoldReferencesResolve(committed, Effective)
================================================================================
