-------------------------------- MODULE MCEdits ---------------------------------
(***************************************************************************)
(* Three parts that share no step and are checked side by side: two         *)
(* services that edit and write one profile (Journal), one user with every  *)
(* kind of edit (Journal again), and one user's edits around the refreshes  *)
(* of a provider (RefreshPlan).                                             *)
(***************************************************************************)
EXTENDS MCJournal

VARIABLES
  part,
  myBound, myRevision, myCommitted, myJournal, myCursor, myBatch, myPc, myCache, myRead, \* alone
  additive, refreshed, pending, position, identity, lineage, allocation, known, folds    \* plans

Alone == INSTANCE Journal WITH
  Services <- {s1}, Bindings <- {FALSE}, Kinds <- AllKinds,
  Merchants <- {1, 2}, Groups <- {1, 2, 3}, Categories <- {1, 2, 3}, Labels <- {3, 4},
  MaxJournal <- 3, MaxRevision <- 4,
  bound <- myBound, revision <- myRevision, committed <- myCommitted, journal <- myJournal,
  cursor <- myCursor, batch <- myBatch, pc <- myPc, cache <- myCache, read <- myRead
aloneVars == <<myBound, myRevision, myCommitted, myJournal, myCursor, myBatch, myPc, myCache, myRead>>

Data == INSTANCE MCProviderData
ProviderEdits == {"merchant.label", "merchant.merge", "category.assign", "transaction.hide-toggle",
                  "transaction.delete"}

Plans == INSTANCE RefreshPlan WITH
  AdditiveKinds <- BOOLEAN, InitialProfile <- Data!StoredProfile, InitialIdentity <- Data!StoredIdentity,
  InitialLineage <- Data!MergedAway, ProviderLabel <- Data!StoredLabels, Candidates <- Data!AllCandidates,
  Merchants <- {1, 2}, Groups <- {1}, Categories <- {1, 2}, Labels <- {4}, Kinds <- ProviderEdits,
  MaxJournal <- 2, MaxRevision <- 2,
  committed <- refreshed, journal <- pending, cursor <- position, revision <- folds
plansVars == <<additive, refreshed, pending, position, identity, lineage, allocation, known, folds>>

MCInit ==
  /\ part \in {"services", "alone", "plans"}
  /\ Init /\ Alone!Init /\ Plans!Init
  /\ part # "services" => ~bound
  /\ part # "plans" => ~additive

MCNext ==
  \/ part = "services" /\ Next /\ UNCHANGED <<part, aloneVars, plansVars>>
  \/ part = "alone" /\ Alone!Next /\ UNCHANGED <<part, vars, plansVars>>
  \/ part = "plans" /\ Plans!Next /\ UNCHANGED <<part, vars, aloneVars>>

MCSpec == MCInit /\ [][MCNext]_<<part, vars, aloneVars, plansVars>>

\* The properties of the parts together.  Whatever the sequence of edits, undo, redo, commits and
\* refreshes, what is stored can be loaded at every position of the journal, what a pending edit
\* changes is marked, and no commit and no refresh is refused for its labels (JournalReplays,
\* ChangesAreAffected, FoldKeysNeverClash; StaysReadable, PlansAreValid).
StoredCanLoad ==
  /\ part = "alone" =>
       Alone!TypeOK /\ Alone!JournalReplays /\ Alone!ChangesAreAffected /\ Alone!FoldKeysNeverClash
  /\ part = "plans" => Plans!StaysReadable /\ Plans!PlansAreValid

\* Two services with caches, and one user with every kind of edit, edit as an editor without a cache
\* would (EditHistory).
EditsAsOneEditor ==
  /\ History!Init /\ [][part = "services" => History!Next]_<<History!vars>>
  /\ Alone!History!Init /\ [][part = "alone" => Alone!History!Next]_<<Alone!History!vars>>

\* What is committed is what its user was shown (CommitsWhatWasReviewed).
ReviewedIsCommitted == Alone!CommitsWhatWasReviewed

\* A refresh leaves pending hides as they look, pending categories assigned and label decisions as
\* they were, and one of SimpleFIN changes no earlier transaction (VisibilityKept, AssignmentsKept,
\* LabelsSticky, RefreshOnlyAdds).
RefreshKeepsEdits ==
  Plans!VisibilityKept /\ Plans!AssignmentsKept /\ Plans!LabelsSticky /\ Plans!RefreshOnlyAdds
================================================================================
