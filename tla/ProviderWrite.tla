----------------------------- MODULE ProviderWrite -----------------------------
(***************************************************************************)
(* One durable provider-write batch, from preparation to its end, and the  *)
(* processes that run it.                                                   *)
(*                                                                          *)
(* A batch is a row of the profile's SQLite store with one row per outbound *)
(* item.  Every renderer (CLI, terminal, web, MCP) is a process with its    *)
(* own service over that store; the operation lease, the batch version and  *)
(* the batch phase are all they share.  One step of a process is one        *)
(* store transaction, one provider call's answer, or one process-local      *)
(* decision; anything may happen in between, a crash included.              *)
(*                                                                          *)
(* Sources: internal/app/provider_write.go, provider_readback.go and        *)
(* internal/store/sqlite/provider_write.go, provider_state.go,              *)
(* provider_write_reconcile.go.                                             *)
(***************************************************************************)
EXTENDS Naturals, FiniteSets

CONSTANTS
  Procs,                  \* service instances; an instance ID is never reused
  NoProc,                 \* owner of a lease whose instance is gone, or of no lease
  Items,                  \* the batch's items, named by their position
  DeleteItems,            \* items that delete a transaction; the others update one
  NewItems,               \* updates of one new-name group; its first item leads
  ProviderWriteAttempts,  \* providerWriteAttempts
  ProviderWriteConcurrency, \* providerWriteConcurrency
  CanReadBack,            \* the writer supports TransactionReadback (Monarch)
  StalledReads,           \* may a process stall a whole lease between a
                          \* reservation's reads and its resume transaction?
  MaxFaults               \* bound: crashes, aborted runs and stalls past a lease

ASSUME ConstantAssumption ==
  /\ NoProc \notin Procs
  /\ Items \subseteq Nat /\ Items # {} /\ IsFiniteSet(Items)
  /\ DeleteItems \subseteq Items
  /\ NewItems \subseteq Items \ DeleteItems
  /\ ProviderWriteAttempts \in Nat \ {0}
  /\ ProviderWriteConcurrency \in Nat \ {0}
  /\ CanReadBack \in BOOLEAN /\ StalledReads \in BOOLEAN
  /\ MaxFaults \in Nat

VARIABLES
  batch,      \* the batch row: phase, resume target, attention, rate gate
  done,       \* items whose state is succeeded, each with a recorded result
  attempts,   \* attempt_count, saturated at the attempt budget
  lease,      \* the profile's only operation lease
  run,        \* per process: its single write worker
  out,        \* per process and item: how far the worker's call has come
  current,    \* processes whose copy of the batch version is the stored one
  pausing,    \* processes whose pause request waits for their own worker
  cmd,        \* per process: the reconcile command in progress
  tokens,     \* processes with a reconcile confirmation for the stored version
  landed,     \* items whose requested value the provider holds
  uncertain,  \* updates with a sent attempt nobody has an answer for
  lost,       \* workers whose lease another process took over during a call
  faults      \* crashes, aborted runs and stalls so far

store   == <<batch, done, attempts, lease>>
worker  == <<run, out, current>>
command == <<pausing, cmd, tokens>>
truth   == <<landed, uncertain, lost>>
vars    == <<store, worker, command, truth, faults>>

UpdateItems == Items \ DeleteItems

--------------------------------------------------------------------------------
(* Batch phases, outcomes and parked states.                                *)

Closed == {"finalized", "reconciled"}
Parked == {"paused", "rate_limited", "reconnect_required",
           "attention_required", "reconcile_confirmation_required"}
Phases == {"none", "writing", "reconciling"} \cup Parked \cup Closed
Open   == batch.phase \in {"writing", "reconciling"} \cup Parked

\* Answers of one provider call.  "unknown" is WriteOutcomeUnknown: the
\* request may have been applied.  "incomplete" is an applied request whose
\* answer cannot be normalized.  The other failures are known not to apply.
NotApplied == {"unavailable", "rate_limited", "reconnect", "rejected"}
Failures   == NotApplied \cup {"unknown", "incomplete"}
Faults     == Failures \cup {"exhausted"}

Row(phase, target, class, reason, gated) ==
  [phase |-> phase, target |-> target, class |-> class,
   reason |-> reason, gated |-> gated]

Writing      == Row("writing", "writing", "none", "none", FALSE)
Reconciling(target) == Row("reconciling", target, "none", "none", FALSE)

\* Mutant of ParkedRow: the class and reason columns are swapped.
ParkedRowSwapped(fault) ==
  Row("attention_required", "writing", fault, "retryable", FALSE)

\* parkProviderWriteFailure: the parked row one failure leads to.
ParkedRow(fault) ==
  CASE fault = "rate_limited" ->
         Row("rate_limited", "writing", "none", "none", TRUE)
    [] fault = "reconnect" ->
         Row("reconnect_required", "writing", "none", "none", FALSE)
    [] fault \in {"exhausted", "incomplete", "unavailable"} ->
         Row("attention_required", "writing", "retryable", fault, FALSE)
    [] OTHER ->
         Row("attention_required", "writing", "reconcile_only", fault, FALSE)

First(S) == CHOOSE i \in S : \A j \in S : i <= j
\* Mutant of Complete: an off-by-one in the count of recorded results.
CompleteEarly == Cardinality(done) + 1 >= Cardinality(Items)

Complete == done = Items

\* Pending items a claim may take: a follower of the new-name group waits
\* until the leader's result is recorded.
Claimable ==
  {i \in Items \ done :
     i \notin NewItems \/ i = First(NewItems) \/ First(NewItems) \in done}

\* Mutant of Doubtful: only exhausted items are looked for.
DoubtfulByBudget == \E i \in Items \ done : attempts[i] >= ProviderWriteAttempts

\* Mutant of Doubtful: attempted work is taken for safe.
DoubtfulNever == FALSE

\* firstExhaustedPendingWriteItem, firstAttemptedPendingUpdateItem: pending
\* work that an automatic run must not send again.
Doubtful ==
  \/ \E i \in Items \ done : attempts[i] >= ProviderWriteAttempts
  \/ \E i \in UpdateItems \ done : attempts[i] > 0

--------------------------------------------------------------------------------
(* The operation lease.                                                      *)

NoLease == [owner |-> NoProc, kind |-> "none", live |-> FALSE]

\* Mutant of Holds: the owner is not compared.
HoldsAnyOwner(p, kind) == lease.kind = kind

\* The lease row still names p.  A transaction that passes an observation
\* time taken before its provider calls cannot tell more than this.
Holds(p, kind)     == lease.owner = p /\ lease.kind = kind
HoldsLive(p, kind) == Holds(p, kind) /\ lease.live

\* acquireLeaseInTransaction: an unexpired lease refuses everyone, its own
\* owner included.
LeaseFree == ~lease.live

Calling(p) == run[p].pc = "calling"

Acquire(p, kind) ==
  /\ LeaseFree
  /\ lease' = [owner |-> p, kind |-> kind, live |-> TRUE]
  /\ lost' = lost \cup {q \in Procs \ {p} : Calling(q)}

\* Mutant of Bump: a version bump leaves confirmations valid.
BumpKeepsTokens(copies) == current' = copies /\ UNCHANGED tokens

\* Every phase change, recorded result and resume increments the version, so
\* every copy of it that the transaction's own process does not take is stale.
Bump(copies) == current' = copies /\ tokens' = {}

--------------------------------------------------------------------------------
(* The process-local worker.                                                 *)

NoCalls == [i \in Items |-> "none"]
IdleRun == [pc |-> "idle", asked |-> FALSE, active |-> FALSE, allow |-> FALSE,
            doubt |-> FALSE, fault |-> "none", beat |-> "ok"]

\* endProviderWriteRun: the worker returns, releasing the local reservation.
\* The lease row stays.
StopRun(p, copies) ==
  /\ run' = [run EXCEPT ![p] = IdleRun]
  /\ out' = [out EXCEPT ![p] = NoCalls]
  /\ current' = copies \ {p}
  /\ lost' = lost \ {p}

Goto(p, pc) == run' = [run EXCEPT ![p].pc = pc]

Fail(p, fault) ==
  run' = [run EXCEPT ![p].pc = "parking", ![p].fault = fault]

--------------------------------------------------------------------------------
Init ==
  /\ batch = Row("none", "writing", "none", "none", FALSE)
  /\ done = {}
  /\ attempts = [i \in Items |-> 0]
  /\ lease = NoLease
  /\ run = [p \in Procs |-> IdleRun]
  /\ out = [p \in Procs |-> NoCalls]
  /\ current = {}
  /\ pausing = {}
  /\ cmd = [p \in Procs |-> "none"]
  /\ tokens = {}
  /\ landed = {}
  /\ uncertain = {}
  /\ lost = {}
  /\ faults = 0

\* Commit freezes the reviewed prefix into a batch under a fresh write lease;
\* the renderer then starts RunProviderWrite in the background.
Prepare(p) ==
  /\ batch.phase = "none"
  /\ Acquire(p, "write")
  /\ batch' = Writing
  /\ Goto(p, "scheduled")
  /\ UNCHANGED <<done, attempts, out, current, command, landed, uncertain, faults>>

\* A terminal tick that saw unfinished automatic work starts RunProviderWrite
\* in the background, without the version it saw.
Tick(p) ==
  /\ run[p].pc = "idle"
  /\ \/ batch.phase = "writing"
     \/ batch.phase = "reconciling" /\ batch.target = "writing" /\ Complete
  /\ Goto(p, "scheduled")
  /\ UNCHANGED <<store, out, current, command, truth, faults>>

--------------------------------------------------------------------------------
(* ReserveProviderWriteExecution: read the batch, then resume it.            *)

\* Only an explicit resume may look at an unknown outcome, by reading it back.
NeedsReadback ==
  /\ batch.phase = "attention_required" /\ batch.class = "reconcile_only"
  /\ batch.reason = "unknown" /\ batch.target = "writing"

Reservable(explicit) ==
  /\ Open /\ batch.target = "writing"
  /\ \/ batch.phase # "attention_required"
     \/ batch.class = "retryable"
     \/ explicit /\ NeedsReadback

\* providerWritePhaseAllowsAttemptedRetry: the parked phase says that no
\* attempt is in doubt.
AllowsAttemptedRetry ==
  \/ batch.phase \in {"reconnect_required", "rate_limited"}
  \/ /\ batch.phase = "attention_required" /\ batch.class = "retryable"
     /\ batch.reason = "exhausted"

\* beginProviderWriteRun and the first read of the batch and its items.
ReserveRead(p, explicit) ==
  /\ p \notin pausing
  /\ Reservable(explicit)
  /\ run' = [run EXCEPT ![p] =
               [pc |-> IF NeedsReadback THEN "verifying" ELSE "reserved",
                asked |-> explicit,
                active |-> HoldsLive(p, "write") /\ batch.phase \in {"writing", "reconciling"},
                allow |-> AllowsAttemptedRetry, doubt |-> Doubtful,
                fault |-> "none", beat |-> "ok"]]
  /\ current' = current \cup {p}
  /\ UNCHANGED <<store, out, command, truth, faults>>

RunScheduled(p) ==
  /\ run[p].pc = "scheduled"
  /\ ReserveRead(p, FALSE)

\* The background run found a pause request, a finished batch or parked work
\* it may not resume.
ScheduledRefused(p) ==
  /\ run[p].pc = "scheduled"
  /\ p \in pausing \/ ~Reservable(FALSE)
  /\ Goto(p, "idle")
  /\ UNCHANGED <<store, out, current, command, truth, faults>>

\* ResumeProviderWrite with the version its caller saw: a user's resume, or a
\* web or terminal tick for a rate limit that has passed or a new session.
ResumeCommand(p) ==
  /\ run[p].pc = "idle"
  /\ ReserveRead(p, TRUE)

\* The store's ResumeProviderWrite under a write lease.
ResumeWrite(p) ==
  /\ p \in current /\ ~batch.gated
  /\ Acquire(p, "write")
  /\ batch' = IF Complete THEN Reconciling("writing") ELSE Writing
  /\ Bump({p})

\* What the reservation decides once it owns the batch, from the items it
\* read before: doubtful ones park the batch again.
Admit(p) ==
  LET doubtful == run[p].doubt /\ ~run[p].allow IN
  run' = [run EXCEPT ![p] =
            [IdleRun EXCEPT !.asked = run[p].asked,
                            !.pc = IF doubtful THEN "parking" ELSE "owned",
                            !.fault = IF doubtful THEN "unknown" ELSE "none"]]

ReserveResume(p) ==
  /\ run[p].pc = "reserved"
  /\ \/ /\ run[p].active
        /\ Admit(p)
        /\ UNCHANGED <<store, out, current, command, truth, faults>>
     \/ /\ ~run[p].active
        /\ ResumeWrite(p)
        /\ Admit(p)
        /\ UNCHANGED <<done, attempts, out, pausing, cmd, landed, uncertain, faults>>
     \/ /\ ~run[p].active
        /\ p \notin current \/ batch.gated \/ ~LeaseFree
        /\ StopRun(p, current)
        /\ UNCHANGED <<store, command, landed, uncertain, faults>>

--------------------------------------------------------------------------------
(* verifyUnknownProviderWrites: read uncertain transactions back.            *)

ReleaseLease(p) == lease' = IF Holds(p, "write") THEN NoLease ELSE lease

\* Take the write lease, then check that the batch is still the one that was
\* read; a writer that cannot read back gives the lease up again.
VerifyAcquire(p) ==
  /\ run[p].pc = "verifying"
  /\ \/ /\ CanReadBack /\ p \in current
        /\ Acquire(p, "write")
        /\ Goto(p, "reading")
        /\ UNCHANGED <<batch, done, attempts, out, current, command,
                       landed, uncertain, faults>>
     \/ /\ StopRun(p, current)
        /\ UNCHANGED <<store, command, landed, uncertain, faults>>

\* Items verification must settle: everything attempted and pending, except
\* deletions that may simply be repeated.
Unverified(p) ==
  {i \in Items \ done :
     /\ attempts[i] > 0 /\ out[p][i] # "before"
     /\ i \in DeleteItems => attempts[i] >= ProviderWriteAttempts}

\* Mutant of RecordResult: the last result does not leave the writing phase.
RecordResultStaysWriting(p, i) ==
  /\ done' = done \cup {i} /\ UNCHANGED batch
  /\ Bump({p}) /\ uncertain' = uncertain \ {i}

\* RecordProviderWriteResult: store one result; the last one moves the batch
\* to reconciling.
RecordResult(p, i) ==
  /\ done' = done \cup {i}
  /\ batch' = IF done' = Items
              THEN Reconciling(batch.target) ELSE batch
  /\ Bump({p})
  /\ uncertain' = uncertain \ {i}

\* The transaction holds the requested value: record it without a write.
ReadRequested(p) ==
  /\ run[p].pc = "reading" /\ Unverified(p) # {}
  /\ LET i == First(Unverified(p)) IN
       /\ i \in UpdateItems /\ i \in landed
       /\ HoldsLive(p, "write") /\ p \in current
       /\ RecordResult(p, i)
  /\ UNCHANGED <<attempts, lease, run, out, pausing, cmd, landed, lost, faults>>

\* The transaction still holds the value before the edit: it may be sent again.
ReadBefore(p) ==
  /\ run[p].pc = "reading" /\ Unverified(p) # {}
  /\ LET i == First(Unverified(p)) IN
       /\ i \in UpdateItems /\ i \notin landed
       /\ attempts[i] < ProviderWriteAttempts
       /\ out' = [out EXCEPT ![p][i] = "before"]
       /\ uncertain' = uncertain \ {i}
  /\ UNCHANGED <<store, run, current, command, landed, lost, faults>>

\* A foreign value, a read error, an exhausted item or a lost lease leaves the
\* batch parked as it was.
VerifyUnresolved(p) ==
  /\ run[p].pc = "reading"
  /\ ReleaseLease(p)
  /\ StopRun(p, current)
  /\ UNCHANGED <<batch, done, attempts, command, landed, uncertain, faults>>

\* Everything is settled: park as paused, which releases the lease, and go on
\* with a reservation that may send again what the reads found unapplied.
VerifyDone(p) ==
  /\ run[p].pc = "reading" /\ Unverified(p) = {}
  /\ HoldsLive(p, "write") /\ p \in current
  /\ batch' = Row("paused", "writing", "none", "none", FALSE)
  /\ lease' = NoLease
  /\ Bump({p})
  /\ run' = [run EXCEPT ![p] = [IdleRun EXCEPT !.pc = "reserved", !.asked = TRUE,
                                               !.allow = TRUE]]
  /\ out' = [out EXCEPT ![p] = NoCalls]
  /\ UNCHANGED <<done, attempts, pausing, cmd, truth, faults>>

--------------------------------------------------------------------------------
(* runProviderWriteOwned: the worker's loop.                                 *)

\* Read the batch again.  A worker that no longer owns the lease resumes the
\* batch itself and repeats the doubt check; a complete batch is finalized;
\* a writing one enters the loop once the session is checked.
EnterRun(p) ==
  /\ run[p].pc = "owned"
  /\ LET owned  == lease.owner = p /\ lease.live
         active == \/ batch.phase = "writing"
                   \/ batch.phase = "reconciling" /\ Complete
     IN
       \/ /\ ~owned /\ batch.target = "writing" /\ active
          /\ run' = [run EXCEPT ![p] = [IdleRun EXCEPT !.pc = "reserved",
                                                       !.doubt = Doubtful]]
          /\ current' = current \cup {p}
          /\ UNCHANGED <<out, lost>>
       \/ /\ owned /\ batch.phase = "writing"
          /\ current' = current \cup {p}
          /\ \/ Goto(p, "loop")
             \/ \E f \in {"reconnect", "rate_limited", "incomplete", "rejected"} :
                  Fail(p, f)
          /\ UNCHANGED <<out, lost>>
       \/ /\ owned /\ batch.phase = "reconciling" /\ batch.target = "writing"
          /\ current' = current \cup {p}
          /\ Goto(p, "finalizing")
          /\ UNCHANGED <<out, lost>>
       \/ /\ ~(active /\ batch.target = "writing")
          /\ StopRun(p, current)
  /\ UNCHANGED <<store, command, landed, uncertain, faults>>

\* Renew the lease, then claim the next items unless a pause is requested:
\* attempts are counted before anything is sent.
Claimed(p) ==
  {i \in Claimable :
     Cardinality({j \in Claimable : j < i}) < ProviderWriteConcurrency}

CanClaim(p) ==
  /\ p \notin pausing
  /\ HoldsLive(p, "write") /\ p \in current /\ batch.phase = "writing"

Claim(p) ==
  /\ run[p].pc = "loop" /\ CanClaim(p) /\ Claimed(p) # {}
  /\ attempts' = [i \in Items |->
                    IF i \in Claimed(p) /\ attempts[i] < ProviderWriteAttempts
                    THEN attempts[i] + 1 ELSE attempts[i]]
  /\ out' = [out EXCEPT ![p] =
               [i \in Items |-> IF i \in Claimed(p) THEN "sent" ELSE "none"]]
  /\ run' = [run EXCEPT ![p].pc = "calling", ![p].beat = "ok"]
  /\ uncertain' = uncertain \cup (Claimed(p) \cap UpdateItems)
  /\ lost' = lost \ {p}
  /\ UNCHANGED <<batch, done, lease, current, command, landed, faults>>

ClaimRefused(p) ==
  /\ run[p].pc = "loop" /\ ~(CanClaim(p) /\ Claimed(p) # {})
  /\ StopRun(p, current)
  /\ UNCHANGED <<store, command, landed, uncertain, faults>>

\* runProviderWriteCalls: the concurrent calls answer in any order.
CallReturns(p, i, o) ==
  /\ Calling(p) /\ out[p][i] = "sent"
  /\ o \in {"ok"} \cup Failures
  /\ i \in DeleteItems => o # "incomplete"
  /\ out' = [out EXCEPT ![p][i] = o]
  /\ \/ /\ o \in {"ok", "incomplete", "unknown"}
        /\ landed' = landed \cup {i}
     \/ /\ o \in NotApplied \cup {"unknown"}
        /\ landed' = landed
  /\ uncertain' = IF o \in NotApplied \cup {"incomplete"}
                  THEN uncertain \ {i} ELSE uncertain
  /\ UNCHANGED <<store, run, current, command, lost, faults>>

\* The heartbeat failed to renew a lease that is no longer this worker's.
HeartbeatStops(p) ==
  /\ Calling(p) /\ run[p].beat = "ok"
  /\ \E i \in Items : out[p][i] = "sent"
  /\ ~HoldsLive(p, "write")
  /\ run' = [run EXCEPT ![p].beat = "stopped"]
  /\ UNCHANGED <<store, out, current, command, truth, faults>>

Waiting(p) == {i \in Items : out[p][i] = "sent"}
Answered(p) == {i \in Items : out[p][i] \in {"ok", "incomplete"}}

\* Answers are handled in position order.  A normalized one is recorded under
\* the batch version just read and an observation time from before the calls.
RecordAnswer(p) ==
  /\ Calling(p) /\ Waiting(p) = {} /\ Answered(p) # {}
  /\ LET i == First(Answered(p)) IN
       \/ /\ out[p][i] = "ok"
          /\ Open /\ Holds(p, "write") /\ i \notin done
          /\ RecordResult(p, i)
          /\ out' = [out EXCEPT ![p][i] = "recorded"]
          /\ UNCHANGED <<run, lost>>
       \/ /\ out[p][i] = "ok"
          /\ ~(Open /\ Holds(p, "write") /\ i \notin done)
          /\ StopRun(p, current)
          /\ UNCHANGED <<batch, done, tokens, uncertain>>
       \/ /\ out[p][i] = "incomplete"
          /\ IF Open
             THEN /\ out' = [out EXCEPT ![p][i] = "abnormal"]
                  /\ current' = current \cup {p}
                  /\ UNCHANGED <<run, lost>>
             ELSE StopRun(p, current)
          /\ UNCHANGED <<batch, done, tokens, uncertain>>
  /\ UNCHANGED <<attempts, lease, pausing, cmd, landed, faults>>

\* The audit of the answers failed, or the worker's context ended: it returns
\* without recording or parking, and keeps the lease row.
RunAborts(p) ==
  /\ \/ Calling(p) /\ Waiting(p) = {}
     \/ run[p].pc \in {"owned", "loop", "parking", "finalizing"}
  /\ faults < MaxFaults /\ faults' = faults + 1
  /\ StopRun(p, current)
  /\ UNCHANGED <<store, command, landed, uncertain>>

--------------------------------------------------------------------------------
(* The end of a round of calls.                                              *)

Settled(p) == Calling(p) /\ Waiting(p) = {} /\ Answered(p) = {}

FailureOf(o) == IF o = "abnormal" THEN "incomplete" ELSE o
Failed(p) == {i \in Items : FailureOf(out[p][i]) \in Failures}

\* Mutant of Priority: every failure is as serious as any other.
PriorityFlat(f) == 1

\* providerWriteFailurePriority
Priority(f) == IF f \in {"unknown", "rejected"} THEN 2 ELSE 1

\* preferredProviderWriteFailure: the first of the most serious failures.  A
\* stopped heartbeat adds an unknown outcome for the first claimed item, last.
PreferredFailure(p) ==
  LET priority == [i \in Failed(p) |-> Priority(FailureOf(out[p][i]))]
      worst    == {i \in Failed(p) : \A j \in Failed(p) : priority[j] <= priority[i]}
      added    == run[p].beat = "ensured" /\ ~Complete
  IN IF added /\ \A i \in worst : priority[i] < 2
     THEN [item |-> First({i \in Items : out[p][i] # "none"}), fault |-> "unknown"]
     ELSE [item |-> First(worst), fault |-> FailureOf(out[p][First(worst)])]

HasFailure(p) == Failed(p) # {} \/ (run[p].beat = "ensured" /\ ~Complete)

\* Mutant of CanRetry: attempts are not counted.
CanRetryForever(failure) == failure.fault = "unavailable"

\* providerWriteUnavailableCanRetry
CanRetry(failure) ==
  /\ attempts[failure.item] < ProviderWriteAttempts
  /\ \/ failure.fault = "unavailable"
     \/ failure.item \in DeleteItems /\ failure.fault = "unknown"

\* ensureProviderWriteLeaseAfterHeartbeat: the lease may still be there, or be
\* taken again when nobody changed the batch; otherwise the worker gives up.
EnsureLease(p) ==
  /\ Settled(p) /\ run[p].beat = "stopped"
  /\ \/ /\ Open /\ HoldsLive(p, "write")
        /\ run' = [run EXCEPT ![p].beat = "ensured"]
        /\ current' = current \cup {p}
        /\ UNCHANGED <<store, tokens, out, lost>>
     \/ /\ ~(Open /\ HoldsLive(p, "write"))
        /\ ResumeWrite(p)
        /\ run' = [run EXCEPT ![p].beat = "ensured"]
        /\ UNCHANGED <<done, attempts, out>>
     \/ /\ ~(Open /\ HoldsLive(p, "write"))
        /\ p \notin current \/ batch.gated \/ ~LeaseFree
        /\ StopRun(p, current)
        /\ UNCHANGED <<store, tokens>>
  /\ UNCHANGED <<pausing, cmd, landed, uncertain, faults>>

\* Retry the round, park the batch for its preferred failure, finalize it, or
\* claim the next items.
NextRound(p) ==
  /\ Settled(p) /\ run[p].beat # "stopped"
  /\ IF HasFailure(p)
     THEN LET failure == PreferredFailure(p) IN
          IF CanRetry(failure) THEN Goto(p, "loop")
          ELSE Fail(p, IF failure.fault = "unavailable" THEN "exhausted"
                       ELSE failure.fault)
     ELSE Goto(p, IF Complete THEN "finalizing" ELSE "loop")
  /\ out' = [out EXCEPT ![p] = NoCalls]
  /\ lost' = lost \ {p}
  /\ UNCHANGED <<store, current, command, landed, uncertain, faults>>

\* ParkProviderWrite: stop automatic work and release the lease in one step.
Park(p) ==
  /\ run[p].pc = "parking"
  /\ IF HoldsLive(p, "write") /\ p \in current
     THEN /\ batch' = ParkedRow(run[p].fault)
          /\ lease' = NoLease
          /\ tokens' = {}
          /\ StopRun(p, {})
     ELSE /\ StopRun(p, current)
          /\ UNCHANGED <<batch, lease, tokens>>
  /\ UNCHANGED <<done, attempts, pausing, cmd, landed, uncertain, faults>>

\* FinalizeProviderWrite: fold the recorded results and drop the batch.
Finalize(p) ==
  /\ run[p].pc = "finalizing"
  /\ IF /\ HoldsLive(p, "write") /\ p \in current
        /\ batch.phase = "reconciling" /\ Complete
     THEN /\ batch' = Row("finalized", "writing", "none", "none", FALSE)
          /\ lease' = NoLease
          /\ tokens' = {}
          /\ StopRun(p, {})
     ELSE /\ StopRun(p, current)
          /\ UNCHANGED <<batch, lease, tokens>>
  /\ UNCHANGED <<done, attempts, pausing, cmd, landed, uncertain, faults>>

--------------------------------------------------------------------------------
(* PauseProviderWrite: stop this process's claims, wait for its worker, park. *)

PauseRequest(p) ==
  /\ Open /\ p \notin pausing
  /\ pausing' = pausing \cup {p}
  /\ UNCHANGED <<store, worker, cmd, tokens, truth, faults>>

\* Mutants of PauseFinish: the pause does not wait for the worker's calls; the
\* request waits for a lease it may never see again.
PauseFinishAtOnce(p) ==
  /\ p \in pausing
  /\ pausing' = pausing \ {p}
  /\ IF batch.phase = "writing" /\ HoldsLive(p, "write")
     THEN /\ batch' = Row("paused", "writing", "none", "none", FALSE)
          /\ lease' = NoLease
          /\ Bump({})
     ELSE UNCHANGED <<batch, lease, current, tokens>>
  /\ UNCHANGED <<done, attempts, run, out, cmd, truth, faults>>

PauseFinishWithLease(p) ==
  /\ p \in pausing
  /\ run[p].pc \in {"idle", "scheduled"}
  /\ batch.phase = "writing" /\ HoldsLive(p, "write")
  /\ pausing' = pausing \ {p}
  /\ batch' = Row("paused", "writing", "none", "none", FALSE)
  /\ lease' = NoLease
  /\ Bump({})
  /\ UNCHANGED <<done, attempts, run, out, cmd, truth, faults>>

PauseFinish(p) ==
  /\ p \in pausing
  /\ run[p].pc \in {"idle", "scheduled"}
  /\ pausing' = pausing \ {p}
  /\ IF batch.phase = "writing" /\ HoldsLive(p, "write")
     THEN /\ batch' = Row("paused", "writing", "none", "none", FALSE)
          /\ lease' = NoLease
          /\ Bump({})
     ELSE UNCHANGED <<batch, lease, current, tokens>>
  /\ UNCHANGED <<done, attempts, run, out, cmd, truth, faults>>

\* The request's context ended while it waited.
PauseCancelled(p) ==
  /\ p \in pausing
  /\ pausing' = pausing \ {p}
  /\ UNCHANGED <<store, worker, cmd, tokens, truth, faults>>

--------------------------------------------------------------------------------
(* StopAndReconcileProviderWrite and ConfirmProviderWriteReconcile.          *)

ReconcileAllowed ==
  \/ batch.phase \in Parked \ {"rate_limited"}
  \/ batch.phase = "reconciling" /\ batch.target = "reconciling"

BeginReconcile(p) ==
  /\ ~batch.gated
  /\ Acquire(p, "reconcile")
  /\ batch' = Reconciling("reconciling")
  /\ Bump({})

StopAndReconcile(p) ==
  /\ cmd[p] = "none" /\ ReconcileAllowed
  /\ BeginReconcile(p)
  /\ cmd' = [cmd EXCEPT ![p] = "fetching"]
  /\ UNCHANGED <<done, attempts, run, out, pausing, landed, uncertain, faults>>

\* The fetch failed, or its identity is wrong.
ReconcileParks(p) ==
  /\ cmd[p] = "fetching" /\ HoldsLive(p, "reconcile")
  /\ \/ batch' = Row("reconnect_required", "reconciling", "none", "none", FALSE)
     \/ batch' = Row("attention_required", "reconciling",
                     "reconcile_only", "incomplete", FALSE)
  /\ lease' = NoLease
  /\ Bump({})
  /\ cmd' = [cmd EXCEPT ![p] = "none"]
  /\ UNCHANGED <<done, attempts, run, out, pausing, truth, faults>>

\* Too many deletions: park the candidate under a token bound to the version
\* this very park creates.
ReconcileNeedsConfirmation(p) ==
  /\ cmd[p] = "fetching" /\ Holds(p, "reconcile")
  /\ batch' = Row("reconcile_confirmation_required", "reconciling",
                  "none", "none", FALSE)
  /\ lease' = NoLease
  /\ current' = {} /\ tokens' = {p}
  /\ cmd' = [cmd EXCEPT ![p] = "none"]
  /\ UNCHANGED <<done, attempts, run, out, pausing, truth, faults>>

ConfirmReconcile(p) ==
  /\ cmd[p] = "none" /\ p \in tokens
  /\ BeginReconcile(p)
  /\ cmd' = [cmd EXCEPT ![p] = "folding"]
  /\ UNCHANGED <<done, attempts, run, out, pausing, landed, uncertain, faults>>

\* The token is taken but the batch cannot be resumed, or the token expired.
TokenSpent(p) ==
  /\ cmd[p] = "none" /\ p \in tokens
  /\ tokens' = tokens \ {p}
  /\ UNCHANGED <<store, worker, pausing, cmd, truth, faults>>

ReconcileFolds(p) ==
  /\ cmd[p] # "none" /\ Holds(p, "reconcile")
  /\ batch.phase = "reconciling"
  /\ batch' = Row("reconciled", "reconciling", "none", "none", FALSE)
  /\ lease' = NoLease
  /\ Bump({})
  /\ cmd' = [cmd EXCEPT ![p] = "none"]
  /\ UNCHANGED <<done, attempts, run, out, pausing, truth, faults>>

\* A lost lease or a rejected plan ends the command; the store is unchanged.
ReconcileAborts(p) ==
  /\ cmd[p] # "none"
  /\ cmd' = [cmd EXCEPT ![p] = "none"]
  /\ UNCHANGED <<store, worker, pausing, tokens, truth, faults>>

--------------------------------------------------------------------------------
(* Time and crashes.                                                         *)

\* A lease whose owner is gone or has nothing running is not renewed.
Abandoned ==
  \/ lease.owner = NoProc
  \/ lease.owner \in Procs /\ run[lease.owner].pc = "idle" /\ cmd[lease.owner] = "none"

\* A claim renews its lease for a whole lease duration.  Unless StalledReads,
\* no process stays that long between reading the items and resuming them.
ReadsInTime ==
  \A p \in current : run[p].pc = "reserved" => run[p].doubt = Doubtful \/ run[p].allow

LeaseExpires ==
  /\ lease.live
  /\ StalledReads \/ ReadsInTime
  /\ lease' = [lease EXCEPT !.live = FALSE]
  /\ \/ Abandoned /\ faults' = faults
     \/ ~Abandoned /\ faults < MaxFaults /\ faults' = faults + 1
  /\ UNCHANGED <<batch, done, attempts, worker, command, truth>>

RetryAfterElapses ==
  /\ batch.gated
  /\ batch' = [batch EXCEPT !.gated = FALSE]
  /\ UNCHANGED <<done, attempts, lease, worker, command, truth, faults>>

\* The process dies: its worker, commands and tokens go, its lease row stays
\* under an instance ID nobody has any more.  Calls it had sent may have landed.
Crash(p) ==
  /\ faults < MaxFaults /\ faults' = faults + 1
  /\ run[p].pc # "idle" \/ cmd[p] # "none" \/ p \in tokens
  /\ StopRun(p, current)
  /\ cmd' = [cmd EXCEPT ![p] = "none"]
  /\ pausing' = pausing \ {p}
  /\ tokens' = tokens \ {p}
  /\ \E applied \in SUBSET Waiting(p) : landed' = landed \cup applied
  /\ lease' = IF lease.owner = p THEN [lease EXCEPT !.owner = NoProc] ELSE lease
  /\ UNCHANGED <<batch, done, attempts, uncertain>>

--------------------------------------------------------------------------------
Work(p) ==
  \/ RunScheduled(p) \/ ScheduledRefused(p) \/ ReserveResume(p)
  \/ VerifyAcquire(p) \/ ReadRequested(p) \/ ReadBefore(p)
  \/ VerifyUnresolved(p) \/ VerifyDone(p)
  \/ EnterRun(p) \/ Claim(p) \/ ClaimRefused(p)
  \/ \E i \in Items, o \in {"ok"} \cup Failures : CallReturns(p, i, o)
  \/ HeartbeatStops(p) \/ RecordAnswer(p) \/ EnsureLease(p) \/ NextRound(p)
  \/ Park(p) \/ Finalize(p)

Commands(p) ==
  \/ ResumeCommand(p)
  \/ PauseRequest(p) \/ PauseFinish(p) \/ PauseCancelled(p)
  \/ StopAndReconcile(p) \/ ReconcileParks(p) \/ ReconcileNeedsConfirmation(p)
  \/ ConfirmReconcile(p) \/ TokenSpent(p) \/ ReconcileFolds(p) \/ ReconcileAborts(p)

Next ==
  \/ \E p \in Procs :
       Prepare(p) \/ Tick(p) \/ Work(p) \/ Commands(p) \/ RunAborts(p) \/ Crash(p)
  \/ LeaseExpires \/ RetryAfterElapses

Spec == Init /\ [][Next]_vars

\* Terminal ticks keep coming, a worker that can step does, a request that
\* waits is served or cancelled, and a lease nobody renews runs out.  Users
\* owe nothing, and neither do crashes, stalls or rate limits.
Fairness ==
  /\ \A p \in Procs : WF_vars(Tick(p)) /\ WF_vars(Work(p)) /\ WF_vars(PauseFinish(p))
  /\ \A p \in Procs : WF_vars(ReconcileFolds(p) \/ ReconcileAborts(p))
  /\ WF_vars(LeaseExpires /\ Abandoned)

FairSpec == Spec /\ Fairness

--------------------------------------------------------------------------------
(* Properties.                                                               *)

\* Every variable keeps its type.
BatchRows == [phase : Phases, target : {"writing", "reconciling"},
              class : {"none", "retryable", "reconcile_only"},
              reason : {"none"} \cup Faults, gated : BOOLEAN]
LeaseRows == [owner : Procs \cup {NoProc}, kind : {"none", "write", "reconcile"},
              live : BOOLEAN]
RunStates == [pc : {"idle", "scheduled", "reserved", "verifying", "reading",
                    "owned", "loop", "calling", "parking", "finalizing"},
              asked : BOOLEAN, active : BOOLEAN, allow : BOOLEAN, doubt : BOOLEAN,
              fault : {"none"} \cup Faults, beat : {"ok", "stopped", "ensured"}]
CallStates == {"none", "sent", "ok", "recorded", "abnormal", "before"} \cup Failures

TypeOK ==
  /\ batch \in BatchRows /\ lease \in LeaseRows
  /\ done \subseteq Items /\ attempts \in [Items -> 0..ProviderWriteAttempts]
  /\ run \in [Procs -> RunStates] /\ out \in [Procs -> [Items -> CallStates]]
  /\ cmd \in [Procs -> {"none", "fetching", "folding"}]
  /\ current \subseteq Procs /\ pausing \subseteq Procs
  /\ tokens \subseteq Procs /\ lost \subseteq Procs
  /\ landed \subseteq Items /\ uncertain \subseteq UpdateItems
  /\ faults \in 0..MaxFaults

Sends(p, i) == out'[p][i] = "sent" /\ out[p][i] # "sent"

\* An update whose last attempt has no answer -- the call failed after it may
\* have been applied, or its worker died or was superseded first -- is never
\* sent again before a readback has settled it.  The code keeps no such flag:
\* it must follow from attempt counts, phases and the doubt check on resume.
UnknownUpdateNotResent ==
  [][\A p \in Procs, i \in UpdateItems : Sends(p, i) => i \notin uncertain]_vars

\* A batch parked in a phase from which resume may repeat attempted items
\* (providerWritePhaseAllowsAttemptedRetry) has no unanswered update, so a
\* round's known failure may only be parked when it hides no unknown one.
RetryableParkIsCertain ==
  AllowsAttemptedRetry /\ batch.target = "writing" => uncertain \subseteq done

\* A result is recorded by the worker that sent the item and only while no
\* other process took the lease in between, although the transaction's
\* observation time is older than the calls and proves no unexpired lease.
RecordedUnderClaimLease ==
  [][\A p \in Procs, i \in Items :
       out[p][i] = "ok" /\ out'[p][i] = "recorded" => p \notin lost]_vars

\* When a batch is parked, reconciled or gone, the only calls still on their
\* way are those of workers whose lease was taken over: pausing, parking and
\* finalizing never leave live calls behind.
QuietUnlessWriting ==
  batch.phase # "writing" => \A p \in Procs : Waiting(p) # {} => p \in lost

\* Without readback, no two processes ever have the same update on its way,
\* stalled and superseded workers included.
OneSenderPerUpdate ==
  \A i \in UpdateItems : \A p, q \in Procs :
    out[p][i] = "sent" /\ out[q][i] = "sent" => p = q

\* A reconcile confirmation is honoured only while the batch is still parked
\* for it: any resume or reconcile, by any process, makes the token useless.
TokenMatchesPark == tokens # {} => batch.phase = "reconcile_confirmation_required"

\* A writing batch always has an item to claim: followers of a new-name group
\* never wait for a leader that cannot be sent, and the last result leaves
\* the phase.
WritingNeverStarves == batch.phase = "writing" => Claimable # {}

\* The batch keeps the promises of WriteIntent.
Stage == IF Open THEN "open" ELSE batch.phase
Intent == INSTANCE WriteIntent WITH stage <- Stage, recorded <- done, landed <- landed
KeepsIntent == Intent!IntentSpec

Active == \/ batch.phase = "writing"
          \/ batch.phase = "reconciling" /\ batch.target = "writing"

\* Work that is to proceed by itself ends or parks, whoever crashes, stalls or
\* loses its lease on the way, unless users keep asking for a pause.
BatchSettles == Active ~> (~Active \/ pausing # {})

\* A pause request is answered: its worker always comes to rest.
PauseServed == \A p \in Procs : p \in pausing ~> p \notin pausing
================================================================================
