---------------------------- MODULE ProviderRefresh -----------------------------
(***************************************************************************)
(* Refreshing a bound profile from its provider, by several processes.      *)
(*                                                                          *)
(* A refresh call reads the stored generation, takes the profile's only     *)
(* operation lease, reads the provider without any lock, and folds what it  *)
(* read in one transaction.  A candidate that removes too much is parked    *)
(* in the process until a person confirms it.  Meanwhile the provider       *)
(* changes, other processes refresh, write batches start and end, leases    *)
(* run out and processes crash.                                             *)
(*                                                                          *)
(* A transaction is a row.  Monarch and YNAB candidates replace the rows of *)
(* their window; SimpleFIN candidates ("additive") only add rows whose      *)
(* external identity is unknown.  ProviderWrite models a write batch        *)
(* itself; here a batch is what a refresh sees of one.                      *)
(*                                                                          *)
(* Sources: internal/app/provider_refresh.go, provider_additive.go and      *)
(* internal/store/sqlite/provider_state.go, provider_refresh.go.            *)
(***************************************************************************)
EXTENDS Integers, FiniteSets

CONSTANTS
  Calls,         \* refresh calls; each may be made again once it has ended
  Owner,         \* the process a call belongs to: its lease owner ID
  NoOwner,       \* owner of no lease, or of one whose instance is gone
  Rows,          \* transactions the provider may hold
  RowWeight,     \* transactions one row stands for in the deletion guard
  Windows,       \* sets of rows one candidate may cover
  AdditiveKinds, \* the kinds of provider to check: {FALSE}, {TRUE} or both
  MaxVersion,    \* bound: changes of the provider's data
  MaxGeneration, \* bound: folds
  MaxHour        \* bound: hours the clock advances

ASSUME RefreshAssumption ==
  /\ Owner \in [Calls -> {Owner[c] : c \in Calls}]
  /\ NoOwner \notin {Owner[c] : c \in Calls}
  /\ IsFiniteSet(Rows) /\ Windows \subseteq SUBSET Rows /\ Windows # {}
  /\ AdditiveKinds \subseteq BOOLEAN /\ AdditiveKinds # {}
  /\ {MaxVersion, MaxGeneration} \subseteq Nat
  /\ {RowWeight, MaxHour} \subseteq Nat \ {0}

Procs == {Owner[c] : c \in Calls}

VARIABLES
  additive,     \* the provider is SimpleFIN
  committed,    \* stored rows
  known,        \* rows with a stored external identity, deleted ones included
  generation,   \* provider_refresh_state.generation
  lastAttempt,  \* last_attempt_unix_ms, 0 when unset
  nextEligible, \* next_eligible_unix_ms, 0 when unset
  lease,        \* the profile's only operation lease
  batch,        \* rows the open write batch deletes; {} without a batch
  truth,        \* rows the provider holds
  version,      \* how often the provider's data has changed
  hour,         \* the clock
  call,         \* per call: how far it has come
  parked,       \* per process: candidates that wait for confirmation
  folded,       \* version the last fold's candidate was read from
  admitted      \* start times of the SimpleFIN reads so far

stored == <<committed, known, generation, lastAttempt, nextEligible, lease, batch>>
remote == <<truth, version>>
local  == <<call, parked>>
ghost  == <<folded, admitted>>
vars   == <<additive, stored, remote, hour, local, ghost>>

--------------------------------------------------------------------------------
(* Leases, calls and candidates.                                             *)

NoLease == [owner |-> NoOwner, kind |-> "none", live |-> FALSE]
LeaseOf(p, kind) == [owner |-> p, kind |-> kind, live |-> TRUE]

\* AcquireProviderOperationLease deletes an expired row and refuses a live
\* one, its own owner's included.
LeaseFree == ~lease.live

\* The owner_id and operation_kind conditions of every later statement.
HoldsRow(p) == lease.owner = p /\ lease.kind = "refresh"

\* ReleaseRefreshLease.
Released(p) == IF HoldsRow(p) THEN NoLease ELSE lease

NoCandidate == [rows |-> {}, window |-> {}, version |-> 0, at |-> 0]
Idle == [phase |-> "idle", gen |-> 0, now |-> 0, have |-> {}, cand |-> NoCandidate,
         late |-> FALSE, confirmed |-> FALSE]

\* Phases in which a call holds its service's interactions lock.
Locking == {"ready", "owned", "admitting", "confirming", "folding"}
\* Phases in which it has the lease, unless the lease ran out.
Leasing == {"owned", "admitting", "fetching", "fetched", "folding",
            "failing", "recorded"}

Unlocked(c) ==
  \A d \in Calls \ {c} : Owner[d] = Owner[c] => call[d].phase \notin Locking

Step(c, phase) == call' = [call EXCEPT ![c].phase = phase]
End(c) == call' = [call EXCEPT ![c] = Idle]
Failing(c) ==
  call' = [call EXCEPT ![c] = [Idle EXCEPT !.phase = "failing", !.now = call[c].now]]

\* Mutant of Floor: a success clears the stored time, and nothing else counts.
StoredFloor == nextEligible

\* providerStatusFromState: SimpleFIN reads are an hour apart, whatever the
\* stored next_eligible says.
Floor ==
  IF additive /\ lastAttempt # 0 /\ nextEligible < lastAttempt + 1
  THEN lastAttempt + 1 ELSE nextEligible

\* ProviderDeletionConfirmationRequired.
DeletionConfirmationRequired(existing, removed) ==
  /\ existing > 0 /\ removed > 0 /\ removed <= existing
  /\ \/ existing = removed
     \/ removed >= 25 /\ removed * 100 >= existing * 10
     \/ removed >= 1000
     \/ removed >= 5 /\ removed * 100 >= existing * 50

\* providerRemovalCounts: rows of the window, and those the candidate lacks.
RemovesTooMuch(have, cand) ==
  LET existing == have \cap cand.window IN
  DeletionConfirmationRequired(RowWeight * Cardinality(existing),
                               RowWeight * Cardinality(existing \ cand.rows))

\* The rows a fold leaves.  buildProviderRefreshPlan replaces the window;
\* PlanAdditiveProviderIdentities adds the unknown rows and changes no other.
Merged(cand) ==
  IF additive THEN committed \cup (cand.rows \ known)
  ELSE (committed \ cand.window) \cup cand.rows

--------------------------------------------------------------------------------
(* RefreshProvider.                                                          *)

\* refreshLocked and consistentProviderState: rows and generation of one
\* revision.  An open batch refuses the read.
Start(c) ==
  /\ call[c] = Idle /\ Unlocked(c)
  /\ batch = {} /\ generation < MaxGeneration
  /\ call' = [call EXCEPT ![c] = [Idle EXCEPT !.phase = "ready",
                                 !.gen = generation, !.now = hour,
                                 !.have = committed]]
  /\ UNCHANGED <<additive, stored, remote, hour, parked, ghost>>

\* A live lease answers refresh_in_progress.  Of Monarch and YNAB the read
\* starts at once.
Acquire(c) ==
  /\ call[c].phase = "ready"
  /\ \/ /\ LeaseFree
        /\ lease' = LeaseOf(Owner[c], "refresh")
        /\ Step(c, IF additive THEN "owned" ELSE "fetching")
     \/ ~LeaseFree /\ End(c) /\ UNCHANGED lease
  /\ UNCHANGED <<additive, committed, known, generation, lastAttempt, nextEligible,
                 batch, remote, hour, parked, ghost>>

\* SimpleFIN reads the stored state again under ownership, its generation too.
AdmissionRead(c) ==
  /\ call[c].phase = "owned"
  /\ IF Floor > call[c].now
     THEN End(c) /\ lease' = Released(Owner[c])
     ELSE /\ call' = [call EXCEPT ![c].phase = "admitting", ![c].gen = generation]
          /\ UNCHANGED lease
  /\ UNCHANGED <<additive, committed, known, generation, lastAttempt, nextEligible,
                 batch, remote, hour, parked, ghost>>

\* RecordRefreshAttempt: without the lease nothing is read.
RecordAttempt(c) ==
  /\ call[c].phase = "admitting"
  /\ IF HoldsRow(Owner[c])
     THEN /\ lastAttempt' = call[c].now /\ nextEligible' = call[c].now + 1
          /\ admitted' = admitted \cup {call[c].now}
          /\ Step(c, "fetching")
     ELSE End(c) /\ UNCHANGED <<lastAttempt, nextEligible, admitted>>
  /\ UNCHANGED <<additive, committed, known, generation, lease, batch, remote, hour,
                 parked, folded>>

\* The read answers before the heartbeat misses the lease.
Fetch(c) ==
  /\ call[c].phase = "fetching"
  /\ \E w \in Windows :
       call' = [call EXCEPT ![c].phase = "fetched",
                  ![c].cand = [rows |-> truth \cap w, window |-> w,
                               version |-> version, at |-> hour],
                  ![c].late = HoldsRow(Owner[c]) /\ ~lease.live]
  /\ UNCHANGED <<additive, stored, remote, hour, parked, ghost>>

\* The heartbeat finds its row expired or gone (refresh_stale), or a storage
\* error ends the read: the lease is released and nothing is recorded.
Abandon(c) ==
  /\ call[c].phase = "fetching"
  /\ End(c) /\ lease' = Released(Owner[c])
  /\ UNCHANGED <<additive, committed, known, generation, lastAttempt, nextEligible,
                 batch, remote, hour, parked, ghost>>

\* A provider error, a canceled request or another remote identity.
FetchFails(c) ==
  /\ call[c].phase = "fetching"
  /\ Failing(c)
  /\ UNCHANGED <<additive, stored, remote, hour, parked, ghost>>

\* The deletion guard looks at the rows the service has loaded by now.  An
\* older parked candidate is taken for expired: a bound on the tokens in use.
Guard(c) ==
  /\ call[c].phase = "fetched"
  /\ IF ~additive /\ RemovesTooMuch(call[c].have, call[c].cand)
     THEN /\ Failing(c)
          /\ parked' = [parked EXCEPT ![Owner[c]] =
                          {[gen |-> call[c].gen, cand |-> call[c].cand]}]
     ELSE /\ Unlocked(c) /\ UNCHANGED parked
          /\ call' = [call EXCEPT ![c].phase = "folding", ![c].have = {}]
  /\ UNCHANGED <<additive, stored, remote, hour, ghost>>

\* failProviderRefresh, first transaction: RecordRefreshFailure.  A retry
\* delay counts from now; a SimpleFIN read keeps its own hour.
RecordFailure(c) ==
  /\ call[c].phase = "failing"
  /\ IF HoldsRow(Owner[c]) /\ additive
     THEN \E eligible \in {0} \cup (hour + 1 .. hour + 2) :
            /\ lastAttempt' = call[c].now
            /\ nextEligible' = IF eligible < call[c].now + 1
                               THEN call[c].now + 1 ELSE eligible
     ELSE UNCHANGED <<lastAttempt, nextEligible>>
  /\ call' = [call EXCEPT ![c] = [Idle EXCEPT !.phase = "recorded"]]
  /\ UNCHANGED <<additive, committed, known, generation, lease, batch, remote, hour,
                 parked, ghost>>

\* Mutant of Release: a deletion confirmation keeps the lease for its fold.
ReleaseUnlessParked(c) ==
  /\ call[c].phase = "recorded"
  /\ End(c)
  /\ lease' = IF parked[Owner[c]] = {} THEN Released(Owner[c]) ELSE lease
  /\ UNCHANGED <<additive, committed, known, generation, lastAttempt, nextEligible,
                 batch, remote, hour, parked, ghost>>

\* failProviderRefresh, last transaction: releaseProviderLease.
Release(c) ==
  /\ call[c].phase = "recorded"
  /\ End(c) /\ lease' = Released(Owner[c])
  /\ UNCHANGED <<additive, committed, known, generation, lastAttempt, nextEligible,
                 batch, remote, hour, parked, ghost>>

\* foldProviderCandidate: the candidate's credential was replaced.
CredentialChanged(c) ==
  /\ call[c].phase = "folding"
  /\ call' = [call EXCEPT ![c] = [Idle EXCEPT !.phase = "failing", !.now = hour]]
  /\ UNCHANGED <<additive, stored, remote, hour, parked, ghost>>

\* Mutant of Admissible: the lease alone decides.
AdmissibleByLease(c) ==
  /\ HoldsRow(Owner[c]) /\ (call[c].late => lease.live)
  /\ batch = {}

\* What ApplyProviderRefresh requires: the generation the call started from,
\* a lease that had not run out when the candidate was observed, no batch.
Admissible(c) ==
  /\ call[c].gen = generation
  /\ HoldsRow(Owner[c]) /\ (call[c].late => lease.live)
  /\ batch = {}

\* ApplyProviderRefresh and the reload behind it, in one transaction: rows,
\* generation and status change, and the lease is gone.
Fold(c) ==
  /\ call[c].phase = "folding" /\ Admissible(c)
  /\ committed' = Merged(call[c].cand)
  /\ known' = known \cup call[c].cand.rows
  /\ generation' = generation + 1
  /\ lastAttempt' = IF additive THEN call[c].cand.at ELSE 0
  /\ nextEligible' = 0 /\ lease' = NoLease
  /\ folded' = call[c].cand.version
  /\ End(c)
  /\ UNCHANGED <<additive, batch, remote, hour, parked, admitted>>

\* The transaction is refused, or panics: the lease is released.
FoldRefused(c) ==
  /\ call[c].phase = "folding" /\ ~Admissible(c)
  /\ End(c) /\ lease' = Released(Owner[c])
  /\ UNCHANGED <<additive, committed, known, generation, lastAttempt, nextEligible,
                 batch, remote, hour, parked, ghost>>

--------------------------------------------------------------------------------
(* ConfirmProviderRefresh.                                                   *)

\* takeConfirmation: a token is spent at once.  The candidate still has to
\* be of the stored generation.
TakeConfirmation(c) ==
  /\ call[c] = Idle /\ Unlocked(c)
  /\ \E k \in parked[Owner[c]] :
       /\ parked' = [parked EXCEPT ![Owner[c]] = @ \ {k}]
       /\ call' = [call EXCEPT ![c] =
                    IF k.gen = generation
                    THEN [Idle EXCEPT !.phase = "confirming", !.gen = generation,
                                      !.now = hour, !.cand = k.cand,
                                      !.confirmed = TRUE]
                    ELSE Idle]
  /\ UNCHANGED <<additive, stored, remote, hour, ghost>>

\* The confirmed candidate needs a lease of its own.
AcquireForConfirmed(c) ==
  /\ call[c].phase = "confirming"
  /\ \/ /\ LeaseFree
        /\ lease' = LeaseOf(Owner[c], "refresh")
        /\ Step(c, "folding")
     \/ ~LeaseFree /\ End(c) /\ UNCHANGED lease
  /\ UNCHANGED <<additive, committed, known, generation, lastAttempt, nextEligible,
                 batch, remote, hour, parked, ghost>>

\* The deadline of a confirmation passes.
ExpireConfirmation(p) ==
  /\ \E k \in parked[p] : parked' = [parked EXCEPT ![p] = @ \ {k}]
  /\ UNCHANGED <<additive, stored, remote, hour, call, ghost>>

--------------------------------------------------------------------------------
(* Faults and time.                                                          *)

\* releaseLeaseOnPanic gives the lease back.
Panic(c) ==
  /\ call[c].phase \in {"owned", "admitting", "fetching", "fetched", "folding"}
  /\ End(c) /\ lease' = Released(Owner[c])
  /\ UNCHANGED <<additive, committed, known, generation, lastAttempt, nextEligible,
                 batch, remote, hour, parked, ghost>>

\* The process dies; the next one has another instance ID.
Crash(p) ==
  /\ \E c \in Calls : Owner[c] = p /\ call[c] # Idle
  /\ call' = [c \in Calls |-> IF Owner[c] = p THEN Idle ELSE call[c]]
  /\ parked' = [parked EXCEPT ![p] = {}]
  /\ lease' = IF lease.owner = p THEN [lease EXCEPT !.owner = NoOwner] ELSE lease
  /\ UNCHANGED <<additive, committed, known, generation, lastAttempt, nextEligible,
                 batch, remote, hour, ghost>>

\* The lease's time passes: its owner is gone or stalled.
ExpireLease ==
  /\ lease.live /\ lease' = [lease EXCEPT !.live = FALSE]
  /\ UNCHANGED <<additive, committed, known, generation, lastAttempt, nextEligible,
                 batch, remote, hour, local, ghost>>

\* The clock matters to SimpleFIN only: the schedule of the others is not
\* modelled, and a person may start their reads at any time.
Tick ==
  /\ additive /\ hour < MaxHour /\ hour' = hour + 1
  /\ UNCHANGED <<additive, stored, remote, local, ghost>>

--------------------------------------------------------------------------------
(* What else changes the profile and the provider.                           *)

\* Another operation of the process loads the current revision while a call
\* reads the provider; its deletion guard will count these rows.
Reload(p) ==
  /\ \E c \in Calls : /\ Owner[c] = p /\ call[c].have # committed
                     /\ call[c].phase \in {"fetching", "fetched"}
  /\ call' = [c \in Calls |->
               IF Owner[c] = p /\ call[c].phase \in {"fetching", "fetched"}
               THEN [call[c] EXCEPT !.have = committed] ELSE call[c]]
  /\ UNCHANGED <<additive, stored, remote, hour, parked, ghost>>

\* The account changes at the provider.
ProviderChanges ==
  /\ version < MaxVersion /\ version' = version + 1
  /\ \E S \in SUBSET Rows \ {truth} : truth' = S
  /\ UNCHANGED <<additive, stored, hour, local, ghost>>

\* SimpleFIN edits are local: a commit deletes a row and keeps its identity.
CommitDelete(r) ==
  /\ additive /\ r \in committed /\ committed' = committed \ {r}
  /\ UNCHANGED <<additive, known, generation, lastAttempt, nextEligible, lease, batch,
                 remote, hour, local, ghost>>

\* PrepareProviderWriteBatch, seen from here: a batch opens under a lease.
OpenBatch(p) ==
  /\ ~additive /\ batch = {} /\ LeaseFree
  /\ \E r \in committed : batch' = {r}
  /\ lease' = LeaseOf(p, "write")
  /\ UNCHANGED <<additive, committed, known, generation, lastAttempt, nextEligible,
                 remote, hour, local, ghost>>

\* A run of the batch by any process, after the last one lost its lease.
ResumeBatch(p) ==
  /\ batch # {} /\ LeaseFree /\ lease' = LeaseOf(p, "write")
  /\ UNCHANGED <<additive, committed, known, generation, lastAttempt, nextEligible, batch,
                 remote, hour, local, ghost>>

\* The provider applies the batch's deletion.
LandBatch ==
  /\ batch \cap truth # {} /\ version < MaxVersion
  /\ truth' = truth \ batch /\ version' = version + 1
  /\ UNCHANGED <<additive, stored, hour, local, folded, admitted>>

\* FinalizeProviderWriteBatch: what was written becomes stored.  The
\* generation stays.
FinishBatch ==
  /\ batch # {} /\ batch \cap truth = {}
  /\ lease.kind = "write" /\ lease.owner # NoOwner
  /\ committed' = committed \ batch /\ batch' = {} /\ lease' = NoLease
  /\ UNCHANGED <<additive, known, generation, lastAttempt, nextEligible, remote, hour,
                 local, ghost>>

\* FinalizeProviderWriteReconciliation: a complete read replaces the batch.
ReconcileBatch ==
  /\ batch # {} /\ LeaseFree /\ generation < MaxGeneration
  /\ committed' = truth /\ known' = known \cup truth
  /\ generation' = generation + 1 /\ batch' = {} /\ lease' = NoLease
  /\ folded' = version
  /\ UNCHANGED <<additive, lastAttempt, nextEligible, remote, hour, local, admitted>>

--------------------------------------------------------------------------------
(* Specification.                                                            *)

Init ==
  /\ additive \in AdditiveKinds
  /\ committed = (IF additive THEN {} ELSE Rows)
  /\ known = committed /\ truth = committed
  /\ generation = 0 /\ version = 0 /\ hour = 1
  /\ lastAttempt = 0 /\ nextEligible = 0
  /\ lease = NoLease /\ batch = {}
  /\ call = [c \in Calls |-> Idle]
  /\ parked = [p \in Procs |-> {}]
  /\ folded = 0 /\ admitted = {}

Refresh(c) ==
  \/ Acquire(c) \/ AdmissionRead(c) \/ RecordAttempt(c)
  \/ Fetch(c) \/ Abandon(c) \/ FetchFails(c) \/ Guard(c)
  \/ RecordFailure(c) \/ Release(c)
  \/ CredentialChanged(c) \/ Fold(c) \/ FoldRefused(c)
  \/ AcquireForConfirmed(c)

Next ==
  \/ \E c \in Calls : Start(c) \/ TakeConfirmation(c) \/ Refresh(c) \/ Panic(c)
  \/ \E p \in Procs : ExpireConfirmation(p) \/ Crash(p) \/ Reload(p)
                      \/ OpenBatch(p) \/ ResumeBatch(p)
  \/ \E r \in Rows : CommitDelete(r)
  \/ ExpireLease \/ Tick \/ ProviderChanges
  \/ LandBatch \/ FinishBatch \/ ReconcileBatch

Spec == Init /\ [][Next]_vars

--------------------------------------------------------------------------------
(* Properties.                                                               *)

Candidates ==
  [rows : SUBSET Rows, window : SUBSET Rows, version : 0..MaxVersion, at : 0..MaxHour]
CallStates ==
  [phase : Locking \cup Leasing \cup {"idle"}, gen : Nat, now : 0..MaxHour, have : SUBSET Rows,
   cand : Candidates, late : BOOLEAN, confirmed : BOOLEAN]
LeaseRows == [owner : Procs \cup {NoOwner}, kind : {"none", "refresh", "write"}, live : BOOLEAN]
Hours == 0 .. MaxHour + 2

\* Every variable keeps its shape.
TypeOK ==
  /\ additive \in BOOLEAN
  /\ committed \subseteq Rows /\ known \subseteq Rows /\ truth \subseteq Rows
  /\ generation \in Nat /\ version \in 0..MaxVersion /\ hour \in 1..MaxHour
  /\ lastAttempt \in 0..MaxHour /\ nextEligible \in Hours
  /\ lease \in LeaseRows
  /\ batch \subseteq Rows
  /\ call \in [Calls -> CallStates]
  /\ parked \in [Procs -> SUBSET [gen : Nat, cand : Candidates]]
  /\ folded \in 0..MaxVersion /\ admitted \subseteq 1..MaxHour

\* However a call of a living process ends, by an answer, a refusal, a
\* failure, a parked candidate or a panic, it leaves no refresh lease behind
\* (provider_refresh.go:1037: one left behind turns every retry away).
NoStrandedLease ==
  lease.kind = "refresh" /\ lease.owner # NoOwner =>
    \E c \in Calls : Owner[c] = lease.owner /\ call[c].phase \in Leasing

Folds == generation' # generation

\* A fold never puts back provider data older than an earlier fold stored,
\* whatever reads overlap, however late a candidate is confirmed and whoever
\* holds the lease by then (ApplyProviderRefresh compares generations).
FoldsMoveForward == [][Folds => folded' >= folded]_vars

\* Nobody loses all stored rows without a confirmation: the guard counts the
\* rows its service has loaded, the fold replaces the stored ones.
GuardedDeletion ==
  [][\A c \in Calls :
       ~additive /\ Folds /\ call[c].phase = "folding" /\ call'[c] = Idle
       /\ committed # {} /\ committed' = {} => call[c].confirmed]_vars

\* SimpleFIN reads start at least an hour apart, across processes, crashes,
\* failures and successes (docs/guide/simplefin.md:71).
QuotaKept ==
  [][\A c \in Calls :
       additive /\ call[c].phase = "admitting" /\ call'[c].phase = "fetching"
       => call[c].now \notin admitted]_vars

\* A SimpleFIN row deleted here never returns, although the feed repeats it
\* (provider_additive.go:23 looks at identities, not at rows).
DeletedStaysDeleted ==
  [][additive => committed' \cap (known \ committed) = {}]_vars

\* What a fold stores is never older than what was stored, does not lose every row unconfirmed, and
\* brings nothing deleted back.
FoldsAreSafe == FoldsMoveForward /\ GuardedDeletion /\ DeletedStaysDeleted
================================================================================
