------------------------------ MODULE RefreshPlan -------------------------------
(***************************************************************************)
(* What a refresh stores: local identities, labels and pending edits.       *)
(*                                                                          *)
(* A provider names merchants by external identities.  Each gets a lasting  *)
(* local one, and a label no other active merchant has: its own, or with a  *)
(* suffix that stays.  Monarch and YNAB candidates replace the rows of      *)
(* their window and rebase the journal; SimpleFIN candidates only add rows  *)
(* and leave the journal, the undone edits too, as it is.                   *)
(*                                                                          *)
(* Here the fold of one candidate is one step, between the edits of one     *)
(* user; ProviderRefresh has the leases, generations and races around it,   *)
(* Journal the caches.  Categories of the provider keep their labels.       *)
(*                                                                          *)
(* Sources: internal/app/provider_identity.go, provider_labels.go,          *)
(* provider_additive.go, provider_refresh.go, provider_write_identity.go;   *)
(* internal/store/sqlite/provider_refresh.go, provider_additive.go.         *)
(***************************************************************************)
EXTENDS Editing, Rebase, FiniteSetsExt, TLC

CONSTANTS
  AdditiveKinds,   \* the kinds of provider to check: {FALSE}, {TRUE} or both
  InitialProfile,
  InitialIdentity, \* external identity of a merchant -> local identity
  InitialLineage,  \* one it had once -> the local identity it has passed to
  ProviderLabel,   \* the label each external identity was last seen with
  Candidates,      \* what reads may return
  MaxJournal,      \* bound: pending operations
  MaxRevision      \* bound: refreshes and commits, of which a refresh is the last

VARIABLES
  additive,   \* the provider is SimpleFIN
  committed,
  journal,
  cursor,
  identity,   \* external identities in use
  lineage,    \* provider_identity_lineage
  allocation, \* sticky label decisions
  known,      \* transactions ever imported
  revision    \* refreshes and commits so far

vars == <<additive, committed, journal, cursor, identity, lineage, allocation, known,
          revision>>

Active == SubSeq(journal, 1, cursor)
Effective == Replay(committed, Active)
ValuesOf(f) == {f[x] : x \in DOMAIN f}

\* A label with a suffix of the identity's own, of some length: a collision
\* key of its own.
Suffixed(label, e, length) ==
  1000 + 2 * (100 * CollisionKey(label) + 10 * e + length) + (label % 2)

--------------------------------------------------------------------------------
(* Identities.                                                               *)

\* newIdentityPlanner: a random local identity.
Fresh(e) == 10 * (revision + 1) + e

Referenced(cand) == {cand.rows[t].merchant : t \in DOMAIN cand.rows}

\* prepareHistoricalProviderMerchants: identities that have passed to another
\* merchant, or whose merchant was merged away.
Historical ==
  DOMAIN lineage \cup {e \in DOMAIN identity :
                         /\ committed.merchants[identity[e]].retired
                         /\ committed.merchants[identity[e]].into # NoEntity}

\* Only what rows refer to comes back, and then as a new merchant.
Imported(cand) ==
  {e \in DOMAIN cand.labels : e \in Historical => e \in Referenced(cand)}
Reactivated(cand) == Imported(cand) \cap Historical

\* resolveIdentity.
Resolved(cand) ==
  [e \in Imported(cand) |->
     IF e \in DOMAIN identity \ Historical THEN identity[e] ELSE Fresh(e)]

NextLineage(cand) ==
  [e \in Historical |->
     IF e \in Reactivated(cand) THEN Fresh(e)
     ELSE IF e \in DOMAIN lineage THEN lineage[e] ELSE identity[e]]

--------------------------------------------------------------------------------
(* Labels.                                                                   *)

Base(e) == allocation[e].base

\* reserveEffectiveUserLabels: collision keys of labels users gave, or gave up for
\* others, and with SimpleFIN of every active one: merchant -> key.
UserKeys(shown, owned) ==
  LET labelled == {m \in ActiveIn(shown) :
                     \/ additive \/ m \notin owned
                     \/ m \in DOMAIN committed.merchants /\ committed.merchants[m].label # shown[m].label}
  IN [m \in labelled |-> CollisionKey(shown[m].label)]

\* reserveHistoricalOwners: a label once given stays its owner's, unless the
\* provider renames the owner now.
HistoricalKey(e, labels) ==
  IF ~allocation[e].natural THEN CollisionKey(allocation[e].label)
  ELSE IF e \in DOMAIN labels /\ CollisionKey(labels[e]) # Base(e) THEN -1
  ELSE Base(e)

\* Who may have the label of a key without a suffix: a user's merchant, else
\* the smallest earlier owner, else the smallest candidate.
OwnerOf(key, labels, ids, userKeys) ==
  LET users == {m \in DOMAIN userKeys : userKeys[m] = key}
      earlier == {e \in DOMAIN allocation \cap DOMAIN ids : HistoricalKey(e, labels) = key}
      natural == {e \in DOMAIN labels : CollisionKey(labels[e]) = key}
  IN IF users # {} THEN CHOOSE m \in users : TRUE
     ELSE IF earlier # {} THEN ids[Min(earlier)] ELSE ids[Min(natural)]

OwnsLabel(e, labels, ids, userKeys) ==
  OwnerOf(CollisionKey(labels[e]), labels, ids, userKeys) = ids[e]

StickySuffix(e, label) ==
  /\ e \in DOMAIN allocation
  /\ Base(e) = CollisionKey(label) /\ ~allocation[e].natural

\* tryStoredSuffix and planSuffixed: the stored suffix, longer while a
\* merchant that had it before is still there.
SuffixLength(e, label, ids, userKeys) ==
  LET taken == {userKeys[m] : m \in DOMAIN userKeys \ {ids[e]}}
      first == IF StickySuffix(e, label) THEN allocation[e].suffix ELSE 1
  IN Min({n \in first .. first + Cardinality(taken) :
            CollisionKey(Suffixed(label, e, n)) \notin taken})

\* storePlanned: suffix 0 is the label as it is.
Allocation(e, label, suffix) ==
  [base |-> CollisionKey(label), natural |-> suffix = 0, suffix |-> suffix,
   provider |-> label, label |-> IF suffix = 0 THEN label ELSE Suffixed(label, e, suffix)]

\* planCandidate, for every merchant of the import.
Allocated(labels, ids, userKeys) ==
  [e \in DOMAIN labels |->
     Allocation(e, labels[e],
       IF OwnsLabel(e, labels, ids, userKeys) /\ ~StickySuffix(e, labels[e])
       THEN 0 ELSE SuffixLength(e, labels[e], ids, userKeys))]

--------------------------------------------------------------------------------
(* PlanProviderIdentities: the refreshed profile of Monarch and YNAB.        *)

RowsOf(cand, ids) ==
  [t \in DOMAIN cand.rows |-> [cand.rows[t] EXCEPT !.merchant = ids[@]]]

\* Rows outside the window stay.
PlannedRows(cand, ids) ==
  RowsOf(cand, ids) @@ [t \in DOMAIN committed.transactions \ cand.window |->
                          committed.transactions[t]]

Retired(entity) == [entity EXCEPT !.retired = TRUE]

\* planDimensions and retireMissingEntities.
PlannedMerchants(cand, ids, allocated, rows) ==
  LET present == [m \in {ids[e] : e \in Imported(cand)} |->
                    LET e == CHOOSE x \in Imported(cand) : ids[x] = m
                    IN NewEntity(allocated[e].label)]
      used == {rows[t].merchant : t \in DOMAIN rows}
  IN present @@ [m \in DOMAIN committed.merchants |->
                   IF m \in ValuesOf(ids) \ used THEN Retired(committed.merchants[m])
                                                 ELSE committed.merchants[m]]

PlannedCategories(cand, rows) ==
  LET used == {rows[t].category : t \in DOMAIN rows}
  IN [c \in DOMAIN committed.categories |->
        [committed.categories[c] EXCEPT
           !.retired = c # Uncategorized /\ c \notin cand.categories \cup used]]

--------------------------------------------------------------------------------
(* The user's edits.                                                         *)

\* validateNewProviderMerchantLabel and providerLineageLabelCollision: no
\* active merchant of the provider has that label there.
FreeAtProvider(merchants, m, label) ==
  LET seen(e) == CollisionKey(allocation[e].provider) = CollisionKey(label)
  IN /\ \A e \in DOMAIN identity \cap DOMAIN allocation :
          seen(e) /\ identity[e] # m => identity[e] \notin ActiveIn(merchants)
     /\ \A e \in DOMAIN lineage \cap DOMAIN allocation : seen(e) => lineage[e] = m

\* validateProviderMutation.
Supported(effective, op) ==
  LET rowsOf(m) == Referring(effective.transactions, "merchant", m)
      free(m, label) == FreeAtProvider(effective.merchants, m, label)
  IN CASE op.type = "merchant.label" -> rowsOf(op.subject) # {} /\ free(op.subject, op.label)
       [] op.type = "merchant.merge" ->
            rowsOf(op.subject) # {} /\ op.to \in ValuesOf(identity)
       [] op.type = "merchant.reassign" ->
            \/ op.label = NoLabel /\ op.to \in ValuesOf(identity)
            \/ free(op.to, IF op.label = NoLabel
                           THEN effective.merchants[op.to].label ELSE op.label)
       [] OTHER -> op.type \in {"category.assign", "transaction.hide-toggle",
                                "transaction.delete"}

HideToggles(effective) ==
  {h \in {HideToggle(HideTargets(effective, targets)) : targets \in Selections(effective)} :
     h.type \in Kinds}

Edit ==
  /\ cursor < MaxJournal /\ revision < MaxRevision
  /\ cursor' = cursor + 1
  /\ LET effective == Effective
     IN \E op \in Drafts(committed, effective) \cup HideToggles(effective) :
          /\ additive \/ Supported(effective, op)
          /\ journal' = Append(Active, op)
  /\ UNCHANGED <<additive, committed, identity, lineage, allocation, known, revision>>

\* The store's MoveCursor: the operations are not looked at.
Undo ==
  /\ cursor > 0 /\ cursor' = cursor - 1
  /\ UNCHANGED <<additive, committed, journal, identity, lineage, allocation, known,
                 revision>>

Redo ==
  /\ cursor < Len(journal) /\ cursor' = cursor + 1
  /\ UNCHANGED <<additive, committed, journal, identity, lineage, allocation, known,
                 revision>>

\* A local commit of a SimpleFIN profile; Journal has its other conditions.
Commit ==
  /\ additive /\ cursor > 0
  /\ revision < MaxRevision - 1 /\ revision' = revision + 1
  /\ committed' = Effective /\ journal' = <<>> /\ cursor' = 0
  /\ UNCHANGED <<additive, identity, lineage, allocation, known>>

--------------------------------------------------------------------------------
(* Refreshes.                                                                *)

\* What one candidate makes of the stored profile.
PlannedSnapshot(cand, ids, allocated, rows) ==
  [ids |-> ids, allocated |-> allocated,
   profile |-> [committed EXCEPT
                  !.merchants = PlannedMerchants(cand, ids, allocated, rows),
                  !.categories = PlannedCategories(cand, rows),
                  !.transactions = rows]]
SnapshotPlan(cand) ==
  LET ids == Resolved(cand) @@ identity
      labels == [e \in Imported(cand) |-> cand.labels[e]]
      userKeys == UserKeys(Effective.merchants, ValuesOf(ids))
  IN PlannedSnapshot(cand, ids, Allocated(labels, ids, userKeys), PlannedRows(cand, ids))

\* buildProviderRefreshPlan for Monarch and YNAB.  A plan that is not a valid
\* profile, or an edit that cannot be applied to it, refuses the refresh.
RefreshSnapshot(cand) ==
  /\ ~additive
  /\ \E plan \in {SnapshotPlan(cand)} :
     \E rebased \in {RebaseOnto(plan.profile, committed, Active)} :
       /\ ValidProfile(plan.profile) /\ rebased.accepted
       /\ committed' = plan.profile
       /\ journal' = rebased.journal /\ cursor' = Len(rebased.journal)
       /\ identity' = plan.ids /\ lineage' = NextLineage(cand)
       /\ allocation' = plan.allocated @@ allocation
  /\ UNCHANGED known

\* Of SimpleFIN only merchants without an identity that new rows need.
NewMerchants(cand) ==
  {cand.rows[t].merchant : t \in DOMAIN cand.rows \ known} \ DOMAIN identity

\* A row's merchant, as far as it has been merged.
RECURSIVE MergedInto(_, _)
MergedInto(merchants, m) ==
  IF merchants[m].into = NoEntity THEN m ELSE MergedInto(merchants, merchants[m].into)

PlannedAddition(cand, new, ids, allocated) ==
  LET merchants == [m \in {ids[e] : e \in new} |->
                      LET e == CHOOSE x \in new : ids[x] = m
                      IN NewEntity(allocated[e].label)] @@ committed.merchants
      rows == [t \in DOMAIN cand.rows \ known |->
                 [merchant |-> MergedInto(merchants, ids[cand.rows[t].merchant]),
                  category |-> Uncategorized, hidden |-> FALSE]]
  IN [ids |-> ids, allocated |-> allocated,
      profile |-> [committed EXCEPT !.merchants = merchants, !.transactions = @ @@ rows]]
AdditivePlan(cand) ==
  LET new == NewMerchants(cand)
      labels == [e \in new |-> cand.labels[e]]
      ids == [e \in new |-> IF e \in DOMAIN identity THEN identity[e] ELSE Fresh(e)] @@ identity
      userKeys == UserKeys(Effective.merchants, ValuesOf(ids))
  IN PlannedAddition(cand, new, ids, Allocated(labels, ids, userKeys))

\* buildAdditiveRefreshPlan: the journal and its cursor stay.  Without a new
\* row nothing changes.
RefreshAdditive(cand) ==
  /\ additive /\ ~(DOMAIN cand.rows \subseteq known)
  /\ \E plan \in {AdditivePlan(cand)} :
       /\ ValidProfile(plan.profile) /\ Replays(plan.profile, Active)
       /\ committed' = plan.profile
       /\ identity' = plan.ids /\ known' = known \cup DOMAIN cand.rows
       /\ allocation' = plan.allocated @@ allocation
  /\ UNCHANGED <<journal, cursor, lineage>>

Refresh ==
  /\ revision < MaxRevision /\ revision' = revision + 1
  /\ \E cand \in Candidates : RefreshSnapshot(cand) \/ RefreshAdditive(cand)
  /\ UNCHANGED additive

Init ==
  /\ additive \in AdditiveKinds
  /\ committed = InitialProfile /\ journal = <<>> /\ cursor = 0
  /\ identity = InitialIdentity
  /\ lineage = (IF additive THEN <<>> ELSE InitialLineage)
  /\ allocation = [e \in DOMAIN ProviderLabel |->
                     [base |-> CollisionKey(ProviderLabel[e]), natural |-> TRUE, suffix |-> 0,
                      label |-> ProviderLabel[e], provider |-> ProviderLabel[e]]]
  /\ known = DOMAIN InitialProfile.transactions
  /\ revision = 0

Next == Edit \/ Undo \/ Redo \/ Commit \/ Refresh

Spec == Init /\ [][Next]_vars

--------------------------------------------------------------------------------
(* Properties.                                                               *)

Refreshed == revision' # revision

\* What a Monarch or YNAB refresh stores can be opened, whichever edits are
\* undone or redone next: the profile is valid, no two active merchants share
\* a collision key, and every position of the journal replays (reloadLocked
\* calls anything else corrupt).
StaysReadable == additive \/ (ValidProfile(committed) /\ Replays(committed, journal))

\* The same of SimpleFIN: docs/guide/simplefin.md:57, "local merchant and
\* category edits, hide flags, deletion records, and undo/redo history survive
\* refresh and restart".
UndoneEditsSurvive == additive => Replays(committed, Active)

\* Whatever a provider returns for a profile in use, every label it needs is
\* found: no two merchants of the plan collide, with each other or with labels
\* users gave, so the store never has to refuse it (newProviderLabelPlanner).
\* A merchant that came back is excepted: its next local identity leaves the
\* last one behind, whose label is forgotten when a pending edit renames or
\* merges that.
NoneReturned == DOMAIN lineage \subseteq DOMAIN InitialLineage /\ DOMAIN lineage \cap DOMAIN identity = {}
PlansAreValid ==
  NoneReturned /\ ValidProfile(committed) =>
    \A plan \in {IF additive THEN AdditivePlan(cand) ELSE SnapshotPlan(cand) : cand \in Candidates} :
      ValidProfile(plan.profile)

HideTouched ==
  UNION {journal[i].targets : i \in {j \in 1..cursor : journal[j].type = "transaction.hide-toggle"}}

\* Through a refresh, a transaction hidden or shown by a pending edit looks as
\* the user left it, whatever the provider has done to it meanwhile and however
\* many toggles the journal holds (providerRebaseHideTargets).
VisibilityKept ==
  [][Refreshed =>
       \A t \in HideTouched \cap DOMAIN Effective.transactions
                            \cap DOMAIN Effective'.transactions :
         Effective'.transactions[t].hidden = Effective.transactions[t].hidden]_vars

LastAssignment(t) ==
  LET of == {i \in 1..cursor : journal[i].type = "category.assign" /\ t \in journal[i].targets}
  IN IF of = {} THEN NoEntity ELSE journal[Max(of)].to

\* A pending category stays assigned as long as the category is there, to all
\* of its transactions that are still there, others lost or not.
AssignmentsKept ==
  [][Refreshed /\ ~additive =>
       \A t \in DOMAIN Effective.transactions \cap DOMAIN Effective'.transactions :
         LastAssignment(t) \in ActiveIn(committed'.categories) =>
           Effective'.transactions[t].category = LastAssignment(t)]_vars

\* Label decisions are sticky: a merchant the provider has not renamed keeps
\* its plain label unless a user's edit gave it to another one, and keeps its
\* suffix for good (planAll, currentAllocation).
LabelsSticky ==
  [][\A e \in DOMAIN allocation :
       allocation'[e].base = Base(e) =>
         \/ allocation'[e].natural = allocation[e].natural
         \/ /\ allocation[e].natural
            /\ \E m \in ActiveIn(Effective.merchants) :
                 /\ m # identity'[e]
                 /\ CollisionKey(Effective.merchants[m].label) = Base(e)]_vars

\* A SimpleFIN refresh changes nothing the user sees of earlier transactions.
RefreshOnlyAdds ==
  [][Refreshed /\ additive =>
       \A t \in DOMAIN Effective.transactions :
         /\ t \in DOMAIN Effective'.transactions
         /\ Materialized(Effective', t) = Materialized(Effective, t)]_vars
================================================================================
