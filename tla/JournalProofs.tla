----------------------------- MODULE JournalProofs ------------------------------
(***************************************************************************)
(* BatchCanEnd for any services, profile, kinds of edits and bounds.        *)
(*                                                                          *)
(* No store transaction but prepare looks for a batch, so the invariant     *)
(* rests on the caches: one at the stored revision that says no batch is    *)
(* unfinished is right.  A reload reads the provider state after the        *)
(* snapshot, so it may see a batch the snapshot's revision does not have    *)
(* yet, but a cache never misses one at its own revision.                   *)
(***************************************************************************)
EXTENDS Journal, TLAPS

RevisionTypes ==
  /\ revision \in Nat
  /\ batch \in Nat
  /\ DOMAIN cache = Services /\ DOMAIN read = Services
  /\ \A s \in Services : cache[s].revision \in Nat /\ read[s].revision \in Nat

NotAhead ==
  \A s \in Services : cache[s].revision <= revision /\ read[s].revision <= revision

BatchIsSeen ==
  \A s \in Services :
    cache[s].revision = revision /\ batch # NoBatch => cache[s].writing

OnlyBoundHasBatch == batch # NoBatch => bound

IInv == RevisionTypes /\ NotAhead /\ BatchIsSeen /\ BatchCanEnd /\ OnlyBoundHasBatch

(***************************************************************************)
(* What a reload installs carries the revision it read.                     *)
(***************************************************************************)
LEMMA LoadedFields ==
  ASSUME NEW snapshot, NEW writing
  PROVE  /\ Loaded(snapshot, writing).revision = snapshot.revision
         /\ Loaded(snapshot, writing).writing = writing
BY DEF Loaded

(***************************************************************************)
(* An incremental install is one revision on and keeps the provider state.  *)
(***************************************************************************)
LEMMA IncrementalFields ==
  ASSUME NEW snapshot, NEW op
  PROVE  /\ Incremental(snapshot, op).revision = snapshot.revision + 1
         /\ Incremental(snapshot, op).writing = snapshot.writing
BY DEF Incremental

(***************************************************************************)
(* A transaction that needs a service that sees no batch meets none.        *)
(***************************************************************************)
LEMMA ReadyMeansNoBatch ==
  ASSUME IInv, NEW s \in Services, Ready(s)
  PROVE  batch = NoBatch
BY DEF IInv, BatchIsSeen, Ready, Current

(***************************************************************************)
(* A change of the store that leaves the caches alone and ends, leaves out  *)
(* or starts a batch at the new revision keeps the invariant.               *)
(***************************************************************************)
LEMMA StoreChange ==
  ASSUME IInv,
         revision' = revision + 1,
         batch' \in {NoBatch, revision + 1},
         batch' # NoBatch => bound,
         UNCHANGED bound,
         UNCHANGED <<cache, read>>
  PROVE  IInv'
BY DEF IInv, RevisionTypes, NotAhead, BatchIsSeen, BatchCanEnd, OnlyBoundHasBatch, NoBatch

LEMMA InitInvariant == Init => IInv
<1> SUFFICES ASSUME Init PROVE IInv
  OBVIOUS
<1>1. StoredSnapshot.revision = 1
  BY DEF Init, StoredSnapshot
<1>2. \A s \in Services : cache[s] = Loaded(StoredSnapshot, FALSE) /\ read[s] = StoredSnapshot
  BY DEF Init
<1>3. Loaded(StoredSnapshot, FALSE).revision = StoredSnapshot.revision
  BY LoadedFields
<1>4. \A s \in Services : cache[s].revision = 1 /\ read[s].revision = 1
  BY <1>1, <1>2, <1>3
<1>5. /\ revision = 1 /\ batch = NoBatch
      /\ DOMAIN cache = Services /\ DOMAIN read = Services
  BY DEF Init
<1> QED
  BY <1>4, <1>5
  DEF IInv, RevisionTypes, NotAhead, BatchIsSeen, BatchCanEnd, OnlyBoundHasBatch, NoBatch

LEMMA ReloadInvariant ==
  ASSUME IInv, NEW s \in Services, Load(s) \/ Install(s) \/ LoadFails(s)
  PROVE  IInv'
<1>1. CASE Load(s)
  <2>1. StoredSnapshot.revision = revision
    BY DEF StoredSnapshot
  <2> QED
    BY <1>1, <2>1 DEF Load, store, IInv, RevisionTypes, NotAhead, BatchIsSeen, BatchCanEnd,
                      OnlyBoundHasBatch
<1>2. CASE Install(s)
  <2> DEFINE new == Loaded(read[s], batch # NoBatch)
  <2>1. /\ new.revision = read[s].revision
        /\ new.writing = (batch # NoBatch)
    BY LoadedFields
  <2>2. cache' = [cache EXCEPT ![s] = new]
    BY <1>2 DEF Install
  <2>3. UNCHANGED <<bound, revision, batch, read>>
    BY <1>2 DEF Install, store
  <2> HIDE DEF new
  <2> QED
    BY <2>1, <2>2, <2>3
    DEF IInv, RevisionTypes, NotAhead, BatchIsSeen, BatchCanEnd, OnlyBoundHasBatch
<1>3. CASE LoadFails(s)
  BY <1>3 DEF LoadFails, store, IInv, RevisionTypes, NotAhead, BatchIsSeen, BatchCanEnd,
              OnlyBoundHasBatch
<1> QED
  BY <1>1, <1>2, <1>3

LEMMA AppendInvariant ==
  ASSUME IInv, NEW s \in Services, NEW op, AppendEdit(s, op)
  PROVE  IInv'
<1>1. /\ batch = NoBatch /\ batch' = NoBatch /\ bound' = bound
      /\ revision' = revision + 1
  BY ReadyMeansNoBatch DEF AppendEdit, StoreAppend
<1>2. CASE ~InstallsIncrementally(op)
  BY <1>1, <1>2, StoreChange DEF AppendEdit, Reloading
<1>3. CASE InstallsIncrementally(op)
  <2> DEFINE new == Incremental(cache[s], op)
  <2>1. /\ new.revision = cache[s].revision + 1
        /\ new.writing = cache[s].writing
    BY IncrementalFields
  <2>2. cache' = [cache EXCEPT ![s] = new] /\ UNCHANGED read
    BY <1>3 DEF AppendEdit
  <2> HIDE DEF new
  <2> QED
    BY <1>1, <2>1, <2>2
    DEF IInv, RevisionTypes, NotAhead, BatchIsSeen, BatchCanEnd, OnlyBoundHasBatch, NoBatch
<1> QED
  BY <1>2, <1>3

LEMMA EditInvariant ==
  ASSUME IInv, NEW s \in Services, Edit(s) \/ Hide(s) \/ Undo(s) \/ Redo(s)
  PROVE  IInv'
<1>1. CASE Edit(s)
  BY <1>1, AppendInvariant DEF Edit
<1>2. ASSUME NEW targets, CancelHide(s, targets)
      PROVE  IInv'
  BY <1>2, ReadyMeansNoBatch, StoreChange DEF CancelHide, StoreCancelHide, Reloading
<1>3. CASE Hide(s)
  BY <1>2, <1>3, AppendInvariant DEF Hide, ToggleHide
<1>4. CASE Undo(s) \/ Redo(s)
  BY <1>4, ReadyMeansNoBatch, StoreChange DEF Undo, Redo, MoveCursor, Reloading
<1> QED
  BY <1>1, <1>3, <1>4

LEMMA CommitInvariant ==
  ASSUME IInv, NEW s \in Services, Fold(s) \/ Prepare(s) \/ Finalize(s) \/ Reconcile(s)
  PROVE  IInv'
<1>1. CASE Fold(s)
  BY <1>1, StoreChange DEF Fold, Reloading, IInv, OnlyBoundHasBatch
<1>2. CASE Prepare(s)
  BY <1>2, StoreChange DEF Prepare, PrepareNothing, PrepareBatch, Reloading
<1>3. CASE Finalize(s) \/ Reconcile(s)
  BY <1>3, StoreChange DEF Finalize, Reconcile, EndBatch, Reloading
<1> QED
  BY <1>1, <1>2, <1>3

LEMMA NextInvariant == IInv /\ [Next]_vars => IInv'
<1> SUFFICES ASSUME IInv, [Next]_vars PROVE IInv'
  OBVIOUS
<1>1. CASE UNCHANGED vars
  BY <1>1 DEF vars, store, IInv, RevisionTypes, NotAhead, BatchIsSeen, BatchCanEnd,
              OnlyBoundHasBatch
<1>2. ASSUME NEW s \in Services, Load(s) \/ Install(s) \/ LoadFails(s)
      PROVE  IInv'
  BY <1>2, ReloadInvariant
<1>3. ASSUME NEW s \in Services, Edit(s) \/ Hide(s) \/ Undo(s) \/ Redo(s)
      PROVE  IInv'
  BY <1>3, EditInvariant
<1>4. ASSUME NEW s \in Services, Fold(s) \/ Prepare(s) \/ Finalize(s) \/ Reconcile(s)
      PROVE  IInv'
  BY <1>4, CommitInvariant
<1> QED
  BY <1>1, <1>2, <1>3, <1>4 DEF Next

(***************************************************************************)
(* Whatever any number of processes edit, undo and reload, an unfinished    *)
(* provider batch meets the revision its end compares with: nothing can     *)
(* change the profile under it and leave it unable to finalize.             *)
(***************************************************************************)
THEOREM BatchesCanEnd == Spec => []BatchCanEnd
<1>1. Init => IInv
  BY InitInvariant
<1>2. IInv /\ [Next]_vars => IInv'
  BY NextInvariant
<1>3. IInv => BatchCanEnd
  BY DEF IInv
<1> QED
  BY <1>1, <1>2, <1>3, PTL DEF Spec
================================================================================
