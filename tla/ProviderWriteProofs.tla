------------------------ MODULE ProviderWriteProofs --------------------------
(***************************************************************************)
(* Safety of ProviderWrite for every set of processes and items.            *)
(*                                                                          *)
(* The argument: whoever changes the phase holds the lease (Shape), calls   *)
(* are sent only under the write lease of a writing batch and keep it until *)
(* another process takes it (LiveClaim), and a worker that lost it takes it *)
(* again only when its round is settled (LostMeansGone).  AnsweredLanded    *)
(* adds that recorded results are true, which gives the refinement.  Type   *)
(* correctness comes first: everything else rests on it.                   *)
(***************************************************************************)
EXTENDS ProviderWrite, WellFoundedInduction, TLAPS

--------------------------------------------------------------------------------
(* Type correctness: helper lemmas, then one step per action.                *)

\* The first item of a set of items is its least member: positions are
\* natural numbers, so First chooses something that exists.
LEMMA FirstIsMember ==
  ASSUME NEW S \in SUBSET Items, S # {}
  PROVE  First(S) \in S /\ \A j \in S : First(S) <= j
<1>1. S \subseteq Nat
  BY ConstantAssumption
<1>2. PICK x \in S : \A y \in S : ~(<<y, x>> \in OpToRel(<, Nat))
  BY <1>1, NatLessThanWellFounded, WFMin, Zenon
<1>3. \A y \in S : ~(y < x)
  BY <1>1, <1>2 DEF OpToRel
<1>4. \A y \in S : x <= y
  BY <1>1, <1>3
<1>. QED
  BY <1>4 DEF First

\* endProviderWriteRun leaves an idle worker with no calls.
LEMMA StopRunTyped ==
  ASSUME NEW p \in Procs, NEW copies \in SUBSET Procs, StopRun(p, copies),
         run \in [Procs -> RunStates], out \in [Procs -> [Items -> CallStates]],
         lost \subseteq Procs
  PROVE  /\ run' \in [Procs -> RunStates]
         /\ out' \in [Procs -> [Items -> CallStates]]
         /\ current' \subseteq Procs /\ lost' \subseteq Procs
<1>1. IdleRun \in RunStates
  BY DEF IdleRun, RunStates
<1>2. NoCalls \in [Items -> CallStates]
  BY DEF NoCalls, CallStates
<1>. QED
  BY <1>1, <1>2 DEF StopRun

\* A worker that moves on, fails or loses its heartbeat stays well typed.
LEMMA RunUpdateTyped ==
  ASSUME run \in [Procs -> RunStates], NEW p \in Procs
  PROVE  /\ \A pc \in {"idle", "scheduled", "reserved", "verifying", "reading",
                    "owned", "loop", "calling", "parking", "finalizing"} :
              Goto(p, pc) => run' \in [Procs -> RunStates]
         /\ \A fault \in Faults : Fail(p, fault) => run' \in [Procs -> RunStates]
         /\ \A b \in {"ok", "stopped", "ensured"} :
             /\ [run EXCEPT ![p].beat = b] \in [Procs -> RunStates]
             /\ [run EXCEPT ![p].pc = "calling", ![p].beat = b] \in [Procs -> RunStates]
<1>1. run[p] \in RunStates
  OBVIOUS
<1>2. \A pc \in {"idle", "scheduled", "reserved", "verifying", "reading",
                    "owned", "loop", "calling", "parking", "finalizing"} :
        [run[p] EXCEPT !.pc = pc] \in RunStates
  BY <1>1 DEF RunStates
<1>3. \A fault \in Faults :
        [run[p] EXCEPT !.pc = "parking", !.fault = fault] \in RunStates
  BY <1>1 DEF RunStates
<1>4. \A b \in {"ok", "stopped", "ensured"} :
        /\ [run[p] EXCEPT !.beat = b] \in RunStates
        /\ [run[p] EXCEPT !.pc = "calling", !.beat = b] \in RunStates
  BY <1>1 DEF RunStates
<1>5. ASSUME NEW r \in RunStates PROVE [run EXCEPT ![p] = r] \in [Procs -> RunStates]
  OBVIOUS
<1>. QED
  BY <1>2, <1>3, <1>4, <1>5 DEF Goto, Fail

\* So does the table of calls when one call moves on.
LEMMA CallUpdateTyped ==
  ASSUME out \in [Procs -> [Items -> CallStates]], NEW p \in Procs,
         NEW i \in Items, NEW c \in CallStates
  PROVE  [out EXCEPT ![p][i] = c] \in [Procs -> [Items -> CallStates]]
  OBVIOUS

\* acquireLeaseInTransaction stores a lease of one of the processes.
LEMMA AcquireTyped ==
  ASSUME NEW p \in Procs, NEW kind \in {"write", "reconcile"}, Acquire(p, kind),
         lost \subseteq Procs
  PROVE  lease' \in LeaseRows /\ lost' \subseteq Procs
  BY DEF Acquire, LeaseRows

\* The rows, workers and leases the model names are well typed.
LEMMA RowsTyped ==
  /\ Writing \in BatchRows
  /\ \A t \in {"writing", "reconciling"} :
       Reconciling(t) \in BatchRows
  /\ \A fault \in {"none"} \cup Faults : ParkedRow(fault) \in BatchRows
  /\ IdleRun \in RunStates /\ NoLease \in LeaseRows
  /\ NoCalls \in [Items -> CallStates]
<1>. USE DEF BatchRows, Phases, Parked, Closed, Row
<1>1. Writing \in BatchRows
  BY DEF Writing
<1>2. \A t \in {"writing", "reconciling"} : Reconciling(t) \in BatchRows
  BY DEF Reconciling
<1>3. \A fault \in {"none"} \cup Faults : ParkedRow(fault) \in BatchRows
  BY DEF ParkedRow, Faults, Failures, NotApplied
<1>4. IdleRun \in RunStates
  BY DEF IdleRun, RunStates
<1>5. NoLease \in LeaseRows
  BY DEF NoLease, LeaseRows
<1>6. NoCalls \in [Items -> CallStates]
  BY DEF NoCalls, CallStates
<1>. QED
  BY <1>1, <1>2, <1>3, <1>4, <1>5, <1>6

\* The tests a reservation remembers have a truth value.
LEMMA TestsAreBoolean ==
  Doubtful \in BOOLEAN /\ AllowsAttemptedRetry \in BOOLEAN /\ Complete \in BOOLEAN
  BY DEF Doubtful, AllowsAttemptedRetry, Complete

\* preferredProviderWriteFailure returns one of the failures of the round,
\* or the unknown outcome of a heartbeat that stopped.
LEMMA WorstFailure ==
  ASSUME TypeOK, NEW p \in Procs, HasFailure(p)
  PROVE  PreferredFailure(p).fault \in Failures
<1> DEFINE priority == [i \in Failed(p) |-> Priority(FailureOf(out[p][i]))]
           worst == {i \in Failed(p) : \A j \in Failed(p) : priority[j] <= priority[i]}
           added == run[p].beat = "ensured" /\ ~Complete
<1>1. CASE added /\ \A i \in worst : priority[i] < 2
  BY <1>1 DEF PreferredFailure, Failures
<1>2. CASE ~(added /\ \A i \in worst : priority[i] < 2)
  <2>1. Failed(p) # {}
    <3>1. CASE added
      BY <3>1, <1>2
    <3>2. CASE ~added
      BY <3>2 DEF HasFailure
    <3>. QED
      BY <3>1, <3>2
  <2>2. \A i \in Failed(p) : priority[i] \in {1, 2}
    BY DEF Priority
  <2>3. worst # {}
    <3>1. CASE \E i \in Failed(p) : priority[i] = 2
      BY <3>1, <2>2
    <3>2. CASE \A i \in Failed(p) : priority[i] = 1
      BY <3>2, <2>1
    <3>. QED
      BY <3>1, <3>2, <2>2
  <2>4. First(worst) \in worst
    <3>. HIDE DEF worst
    <3>1. worst \in SUBSET Items
      BY DEF worst, Failed
    <3>. QED
      BY <2>3, <3>1, FirstIsMember
  <2>5. FailureOf(out[p][First(worst)]) \in Failures
    BY <2>4 DEF Failed
  <2>. QED
    BY <1>2, <2>5 DEF PreferredFailure
<1>. QED
  BY <1>1, <1>2

--------------------------------------------------------------------------------
\* Every step keeps every variable in its type.
LEMMA TypeStep == TypeOK /\ [Next]_vars => TypeOK'
<1> SUFFICES ASSUME TypeOK, [Next]_vars PROVE TypeOK'
  OBVIOUS
<1> USE DEF TypeOK
<1> USE DEF vars, store, worker, command, truth
<1>1. ASSUME NEW p \in Procs, RunScheduled(p) PROVE TypeOK'
  BY <1>1, TestsAreBoolean DEF RunScheduled, ReserveRead, RunStates
<1>2. ASSUME NEW p \in Procs, ResumeCommand(p) PROVE TypeOK'
  BY <1>2, TestsAreBoolean DEF ResumeCommand, ReserveRead, RunStates
<1>3. ASSUME NEW p \in Procs, ScheduledRefused(p) PROVE TypeOK'
  BY <1>3, RunUpdateTyped DEF ScheduledRefused
<1>4. ASSUME NEW p \in Procs, Tick(p) PROVE TypeOK'
  BY <1>4, RunUpdateTyped DEF Tick
<1>5. ASSUME NEW p \in Procs, Prepare(p) PROVE TypeOK'
  BY <1>5, RunUpdateTyped, AcquireTyped, RowsTyped DEF Prepare
<1>6. ASSUME NEW p \in Procs, ReserveResume(p) PROVE TypeOK'
  <2>1. ASSUME Admit(p) PROVE run' \in [Procs -> RunStates]
    <3>1. \A asked \in BOOLEAN, pc \in {"parking", "owned"},
             fault \in {"none", "unknown"} :
            [IdleRun EXCEPT !.asked = asked, !.pc = pc, !.fault = fault] \in RunStates
      BY DEF IdleRun, RunStates, Faults, Failures
    <3>2. run[p].asked \in BOOLEAN
      BY DEF RunStates
    <3>. QED
      BY <2>1, <3>1, <3>2 DEF Admit
  <2>2. ASSUME ResumeWrite(p)
        PROVE  batch' \in BatchRows /\ lease' \in LeaseRows /\ lost' \subseteq Procs
               /\ current' \subseteq Procs /\ tokens' \subseteq Procs
    BY <2>2, AcquireTyped, RowsTyped DEF ResumeWrite, Bump
  <2>. QED
    BY <1>6, <2>1, <2>2, StopRunTyped DEF ReserveResume
<1>7. ASSUME NEW p \in Procs, VerifyAcquire(p) PROVE TypeOK'
  BY <1>7, RunUpdateTyped, AcquireTyped, StopRunTyped DEF VerifyAcquire
<1>8. ASSUME NEW p \in Procs, ReadRequested(p) PROVE TypeOK'
  BY <1>8, RowsTyped DEF ReadRequested, RecordResult, Bump, UpdateItems, BatchRows
<1>9. ASSUME NEW p \in Procs, ReadBefore(p) PROVE TypeOK'
  BY <1>9, CallUpdateTyped DEF ReadBefore, UpdateItems, CallStates
<1>10. ASSUME NEW p \in Procs, VerifyUnresolved(p) PROVE TypeOK'
  BY <1>10, StopRunTyped, RowsTyped DEF VerifyUnresolved, ReleaseLease
<1>11. ASSUME NEW p \in Procs, VerifyDone(p) PROVE TypeOK'
  <2>1. Row("paused", "writing", "none", "none", FALSE) \in BatchRows
    BY DEF Row, BatchRows, Phases, Parked
  <2>2. [IdleRun EXCEPT !.pc = "reserved", !.asked = TRUE, !.allow = TRUE] \in RunStates
    BY DEF IdleRun, RunStates
  <2>3. run' \in [Procs -> RunStates] /\ out' \in [Procs -> [Items -> CallStates]]
    BY <1>11, <2>2, RowsTyped DEF VerifyDone
  <2>4. batch' \in BatchRows /\ lease' \in LeaseRows
    BY <1>11, <2>1, RowsTyped DEF VerifyDone
  <2>5. current' \subseteq Procs /\ tokens' \subseteq Procs
    BY <1>11 DEF VerifyDone, Bump
  <2>. QED
    BY <1>11, <2>3, <2>4, <2>5 DEF VerifyDone
<1>12. ASSUME NEW p \in Procs, EnterRun(p) PROVE TypeOK'
  <2>1. [IdleRun EXCEPT !.pc = "reserved", !.doubt = Doubtful] \in RunStates
    BY TestsAreBoolean DEF IdleRun, RunStates
  <2>2. ASSUME run' = [run EXCEPT ![p] = [IdleRun EXCEPT !.pc = "reserved",
                                                       !.doubt = Doubtful]]
        PROVE  run' \in [Procs -> RunStates]
    BY <2>1, <2>2
  <2>3. ASSUME NEW f \in {"reconnect", "rate_limited", "incomplete", "rejected"},
               Fail(p, f)
        PROVE  run' \in [Procs -> RunStates]
    BY <2>3, RunUpdateTyped DEF Faults, Failures, NotApplied
  <2>4. Goto(p, "loop") \/ Goto(p, "finalizing") => run' \in [Procs -> RunStates]
    BY RunUpdateTyped
  <2>. QED
    BY <1>12, <2>2, <2>3, <2>4, StopRunTyped DEF EnterRun
<1>13. ASSUME NEW p \in Procs, Claim(p) PROVE TypeOK'
  <2>1. attempts' \in [Items -> 0..ProviderWriteAttempts]
    BY <1>13, ConstantAssumption DEF Claim
  <2>2. out' \in [Procs -> [Items -> CallStates]]
    <3>1. [i \in Items |-> IF i \in Claimed(p) THEN "sent" ELSE "none"]
            \in [Items -> CallStates]
      BY DEF CallStates
    <3>. QED
      BY <1>13, <3>1 DEF Claim
  <2>3. uncertain' \subseteq UpdateItems
    BY <1>13 DEF Claim
  <2>. QED
    BY <1>13, <2>1, <2>2, <2>3, RunUpdateTyped DEF Claim
<1>14. ASSUME NEW p \in Procs, ClaimRefused(p) PROVE TypeOK'
  BY <1>14, StopRunTyped DEF ClaimRefused
<1>15. ASSUME NEW p \in Procs, HeartbeatStops(p) PROVE TypeOK'
  BY <1>15, RunUpdateTyped DEF HeartbeatStops
<1>16. ASSUME NEW p \in Procs, RecordAnswer(p) PROVE TypeOK'
  <2> DEFINE i == First(Answered(p))
  <2>1. i \in Items
    BY <1>16, FirstIsMember DEF RecordAnswer, Answered
  <2>2. \A c \in {"recorded", "abnormal"} :
          [out EXCEPT ![p][i] = c] \in [Procs -> [Items -> CallStates]]
    BY <2>1, CallUpdateTyped DEF CallStates
  <2>3. ASSUME RecordResult(p, i)
        PROVE  /\ batch' \in BatchRows /\ done' \subseteq Items
               /\ current' \subseteq Procs /\ tokens' \subseteq Procs
               /\ uncertain' \subseteq UpdateItems
    BY <2>1, <2>3, RowsTyped DEF RecordResult, Bump, BatchRows
  <2>4. CASE out[p][i] = "ok" /\ RecordResult(p, i)
             /\ out' = [out EXCEPT ![p][i] = "recorded"] /\ UNCHANGED <<run, lost>>
    <3>. HIDE DEF i
    <3>. QED
      BY <1>16, <2>2, <2>3, <2>4 DEF RecordAnswer
  <2>5. CASE StopRun(p, current) /\ UNCHANGED <<batch, done, tokens, uncertain>>
    BY <1>16, <2>5, StopRunTyped DEF RecordAnswer
  <2>6. CASE out' = [out EXCEPT ![p][i] = "abnormal"] /\ current' = current \cup {p}
             /\ UNCHANGED <<run, lost>> /\ UNCHANGED <<batch, done, tokens, uncertain>>
    <3>. HIDE DEF i
    <3>. QED
      BY <1>16, <2>2, <2>6 DEF RecordAnswer
  <2>. QED
    BY <1>16, <2>4, <2>5, <2>6 DEF RecordAnswer
<1>17. ASSUME NEW p \in Procs, EnsureLease(p) PROVE TypeOK'
  <2>1. run' = [run EXCEPT ![p].beat = "ensured"] => run' \in [Procs -> RunStates]
    <3>1. "ensured" \in {"ok", "stopped", "ensured"}
      OBVIOUS
    <3>2. [run EXCEPT ![p].beat = "ensured"] \in [Procs -> RunStates]
      BY <3>1, RunUpdateTyped, Zenon
    <3>. QED
      BY <3>2
  <2>2. ASSUME ResumeWrite(p)
        PROVE  batch' \in BatchRows /\ lease' \in LeaseRows /\ lost' \subseteq Procs
               /\ current' \subseteq Procs /\ tokens' \subseteq Procs
    BY <2>2, AcquireTyped, RowsTyped DEF ResumeWrite, Bump
  <2>. QED
    BY <1>17, <2>1, <2>2, StopRunTyped DEF EnsureLease
<1>18. ASSUME NEW p \in Procs, NextRound(p) PROVE TypeOK'
  <2>1. HasFailure(p) => PreferredFailure(p).fault \in Faults
    BY WorstFailure DEF Faults
  <2>2. run' \in [Procs -> RunStates]
    <3>1. CASE HasFailure(p)
      BY <1>18, <2>1, <3>1, RunUpdateTyped DEF NextRound, Faults
    <3>2. CASE ~HasFailure(p)
      BY <1>18, <3>2, RunUpdateTyped DEF NextRound
    <3>. QED
      BY <3>1, <3>2
  <2>3. out' \in [Procs -> [Items -> CallStates]]
    BY <1>18, RowsTyped DEF NextRound
  <2>. QED
    BY <1>18, <2>2, <2>3 DEF NextRound
<1>19. ASSUME NEW p \in Procs, Park(p) PROVE TypeOK'
  <2>1. ParkedRow(run[p].fault) \in BatchRows
    BY RowsTyped DEF RunStates
  <2>2. {} \in SUBSET Procs /\ current \in SUBSET Procs
    OBVIOUS
  <2>. QED
    BY <1>19, <2>1, <2>2, StopRunTyped, RowsTyped DEF Park
<1>20. ASSUME NEW p \in Procs, Finalize(p) PROVE TypeOK'
  <2>1. Row("finalized", "writing", "none", "none", FALSE) \in BatchRows
    BY DEF Row, BatchRows, Phases, Closed
  <2>2. {} \in SUBSET Procs /\ current \in SUBSET Procs
    OBVIOUS
  <2>. QED
    BY <1>20, <2>1, <2>2, StopRunTyped, RowsTyped DEF Finalize
<1>21. ASSUME NEW p \in Procs, PauseRequest(p) PROVE TypeOK'
  BY <1>21 DEF PauseRequest
<1>22. ASSUME NEW p \in Procs, PauseFinish(p) PROVE TypeOK'
  <2>1. Row("paused", "writing", "none", "none", FALSE) \in BatchRows
    BY DEF Row, BatchRows, Phases, Parked
  <2>. QED
    BY <1>22, <2>1, RowsTyped DEF PauseFinish, Bump
<1>23. ASSUME NEW p \in Procs, PauseCancelled(p) PROVE TypeOK'
  BY <1>23 DEF PauseCancelled
<1>24. ASSUME NEW p \in Procs, StopAndReconcile(p) PROVE TypeOK'
  BY <1>24, AcquireTyped, RowsTyped DEF StopAndReconcile, BeginReconcile, Bump
<1>25. ASSUME NEW p \in Procs, ReconcileParks(p) PROVE TypeOK'
  <2>1. /\ Row("reconnect_required", "reconciling", "none", "none", FALSE) \in BatchRows
        /\ Row("attention_required", "reconciling", "reconcile_only", "incomplete", FALSE)
             \in BatchRows
    BY DEF Row, BatchRows, Phases, Parked, Faults, Failures
  <2>. QED
    BY <1>25, <2>1, RowsTyped DEF ReconcileParks, Bump
<1>26. ASSUME NEW p \in Procs, ReconcileNeedsConfirmation(p) PROVE TypeOK'
  BY <1>26, RowsTyped DEF ReconcileNeedsConfirmation, Row, BatchRows, Phases, Parked
<1>27. ASSUME NEW p \in Procs, ConfirmReconcile(p) PROVE TypeOK'
  BY <1>27, AcquireTyped, RowsTyped DEF ConfirmReconcile, BeginReconcile, Bump
<1>28. ASSUME NEW p \in Procs, TokenSpent(p) PROVE TypeOK'
  BY <1>28 DEF TokenSpent
<1>29. ASSUME NEW p \in Procs, ReconcileFolds(p) PROVE TypeOK'
  BY <1>29, RowsTyped DEF ReconcileFolds, Row, BatchRows, Phases, Closed, Bump
<1>30. ASSUME NEW p \in Procs, ReconcileAborts(p) PROVE TypeOK'
  BY <1>30 DEF ReconcileAborts
<1>31. ASSUME NEW p \in Procs, RunAborts(p) PROVE TypeOK'
  BY <1>31, StopRunTyped, ConstantAssumption DEF RunAborts
<1>32. ASSUME NEW p \in Procs, Crash(p) PROVE TypeOK'
  <2>1. landed' \subseteq Items
    BY <1>32 DEF Crash, Waiting
  <2>2. lease' \in LeaseRows
    BY <1>32 DEF Crash, LeaseRows
  <2>3. faults' \in 0..MaxFaults
    BY <1>32, ConstantAssumption DEF Crash
  <2>. QED
    BY <1>32, <2>1, <2>2, <2>3, StopRunTyped DEF Crash
<1>33. ASSUME NEW p \in Procs, NEW i \in Items, NEW o \in {"ok"} \cup Failures,
              CallReturns(p, i, o)
       PROVE  TypeOK'
  BY <1>33, CallUpdateTyped DEF CallReturns, CallStates
<1>34. CASE LeaseExpires
  <2>1. lease' \in LeaseRows
    BY <1>34 DEF LeaseExpires, LeaseRows
  <2>2. faults' \in 0..MaxFaults
    BY <1>34, ConstantAssumption DEF LeaseExpires
  <2>. QED
    BY <1>34, <2>1, <2>2 DEF LeaseExpires
<1>35. CASE RetryAfterElapses
  BY <1>35 DEF RetryAfterElapses, BatchRows
<1>36. CASE UNCHANGED vars
  BY <1>36
<1>. QED
  BY <1>1, <1>2, <1>3, <1>4, <1>5, <1>6, <1>7, <1>8, <1>9, <1>10, <1>11, <1>12, <1>13,
     <1>14, <1>15, <1>16, <1>17, <1>18, <1>19, <1>20, <1>21, <1>22, <1>23, <1>24, <1>25,
     <1>26, <1>27, <1>28, <1>29, <1>30, <1>31, <1>32, <1>33, <1>34, <1>35, <1>36
     DEF Next, Work, Commands

--------------------------------------------------------------------------------
(* Safety.                                                                   *)

\* A lease that names a process, or a process whose copy of the version is the
\* stored one, means that the batch is open.
HeldMeansOpen == \A p \in Procs : lease.owner = p \/ p \in current => Open
\* Before Prepare nothing runs and nothing is recorded.
Unprepared == batch.phase = "none" => done = {} /\ \A p \in Procs : run[p].pc = "idle"
\* Calls are on their way only for workers inside runProviderWriteCalls.
SentMeansCalling == \A p \in Procs : Waiting(p) # {} => Calling(p)
\* The last recorded result leaves the writing phase.
Unfinished == batch.phase = "writing" => ~Complete
\* What the other invariants need to know of every state.
Shape == TokenMatchesPark /\ HeldMeansOpen /\ Unprepared /\ SentMeansCalling /\ Unfinished

\* A step that leaves the other workers alone and this one without a call on
\* its way keeps calls inside calling workers.
LEMMA CallsKept ==
  ASSUME SentMeansCalling, NEW p \in Procs,
         \A q \in Procs \ {p} : run'[q] = run[q] /\ out'[q] = out[q],
         \A i \in Items : out'[p][i] # "sent"
  PROVE  SentMeansCalling'
<1>1. Waiting(p)' = {}
  BY DEF Waiting
<1>2. ASSUME NEW q \in Procs \ {p}, Waiting(q)' # {} PROVE Calling(q)'
  <2>1. Waiting(q) # {}
    BY <1>2 DEF Waiting
  <2>. QED
    BY <2>1 DEF SentMeansCalling, Calling
<1>. QED
  BY <1>1, <1>2 DEF SentMeansCalling

\* Every step keeps the five parts of Shape.
LEMMA ShapeStep == TypeOK /\ TypeOK' /\ Shape /\ [Next]_vars => Shape'
<1> SUFFICES ASSUME TypeOK, TypeOK', Shape, [Next]_vars PROVE Shape'
  OBVIOUS
<1> USE ConstantAssumption
        DEF TypeOK, Shape, TokenMatchesPark, HeldMeansOpen, Unprepared,
            SentMeansCalling, Unfinished, Open, Calling, Waiting, vars, store, worker,
            command, truth, Complete
<1> USE DEF BatchRows, LeaseRows, Row, Writing, Reconciling, Parked, Closed, Acquire,
            LeaseFree, StopRun, Goto, Fail, Bump, NoLease, Holds, HoldsLive, IdleRun,
            NoCalls
<1>1. ASSUME NEW p \in Procs, RunScheduled(p) PROVE Shape'
  BY <1>1 DEF RunScheduled, ReserveRead, Reservable
<1>2. ASSUME NEW p \in Procs, ResumeCommand(p) PROVE Shape'
  BY <1>2 DEF ResumeCommand, ReserveRead, Reservable
<1>3. ASSUME NEW p \in Procs, ScheduledRefused(p) PROVE Shape'
  BY <1>3 DEF ScheduledRefused
<1>4. ASSUME NEW p \in Procs, Tick(p) PROVE Shape'
  BY <1>4 DEF Tick
<1>5. ASSUME NEW p \in Procs, Prepare(p) PROVE Shape'
  BY <1>5 DEF Prepare
<1>6. ASSUME NEW p \in Procs, ReserveResume(p) PROVE Shape'
  <2>1. TokenMatchesPark'
    BY <1>6 DEF ReserveResume, ResumeWrite, Admit
  <2>2. HeldMeansOpen'
    BY <1>6 DEF ReserveResume, ResumeWrite, Admit
  <2>3. Unprepared'
    BY <1>6 DEF ReserveResume, ResumeWrite, Admit
  <2>4. SentMeansCalling'
    <3>1. \A q \in Procs \ {p} : run'[q] = run[q] /\ out'[q] = out[q]
      BY <1>6 DEF ReserveResume, ResumeWrite, Admit
    <3>2. \A i \in Items : out'[p][i] # "sent"
      BY <1>6 DEF ReserveResume, ResumeWrite, Admit
    <3>. QED
      BY <3>1, <3>2, CallsKept
  <2>5. Unfinished'
    BY <1>6 DEF ReserveResume, ResumeWrite, Admit
  <2>. QED
    BY <2>1, <2>2, <2>3, <2>4, <2>5 DEF Shape
<1>7. ASSUME NEW p \in Procs, VerifyAcquire(p) PROVE Shape'
  <2>1. TokenMatchesPark'
    BY <1>7 DEF VerifyAcquire
  <2>2. HeldMeansOpen'
    BY <1>7 DEF VerifyAcquire
  <2>3. Unprepared'
    BY <1>7 DEF VerifyAcquire
  <2>4. SentMeansCalling'
    BY <1>7 DEF VerifyAcquire
  <2>5. Unfinished'
    BY <1>7 DEF VerifyAcquire
  <2>. QED
    BY <2>1, <2>2, <2>3, <2>4, <2>5 DEF Shape
<1>8. ASSUME NEW p \in Procs, ReadRequested(p) PROVE Shape'
  BY <1>8 DEF ReadRequested, RecordResult
<1>9. ASSUME NEW p \in Procs, ReadBefore(p) PROVE Shape'
  BY <1>9 DEF ReadBefore
<1>10. ASSUME NEW p \in Procs, VerifyUnresolved(p) PROVE Shape'
  BY <1>10 DEF VerifyUnresolved, ReleaseLease
<1>11. ASSUME NEW p \in Procs, VerifyDone(p) PROVE Shape'
  BY <1>11 DEF VerifyDone
<1>12. ASSUME NEW p \in Procs, EnterRun(p) PROVE Shape'
  <2>1. TokenMatchesPark'
    BY <1>12 DEF EnterRun
  <2>2. HeldMeansOpen'
    BY <1>12 DEF EnterRun
  <2>3. Unprepared'
    BY <1>12 DEF EnterRun
  <2>4. SentMeansCalling'
    BY <1>12 DEF EnterRun
  <2>5. Unfinished'
    BY <1>12 DEF EnterRun
  <2>. QED
    BY <2>1, <2>2, <2>3, <2>4, <2>5 DEF Shape
<1>13. ASSUME NEW p \in Procs, Claim(p) PROVE Shape'
  BY <1>13 DEF Claim, CanClaim
<1>14. ASSUME NEW p \in Procs, ClaimRefused(p) PROVE Shape'
  BY <1>14 DEF ClaimRefused
<1>15. ASSUME NEW p \in Procs, HeartbeatStops(p) PROVE Shape'
  BY <1>15 DEF HeartbeatStops
<1>16. ASSUME NEW p \in Procs, RecordAnswer(p) PROVE Shape'
  <2>1. TokenMatchesPark'
    BY <1>16 DEF RecordAnswer, RecordResult
  <2>2. HeldMeansOpen'
    BY <1>16 DEF RecordAnswer, RecordResult
  <2>3. Unprepared'
    BY <1>16 DEF RecordAnswer, RecordResult
  <2>4. SentMeansCalling'
    <3>1. \A q \in Procs \ {p} : run'[q] = run[q] /\ out'[q] = out[q]
      BY <1>16 DEF RecordAnswer
    <3>2. \A i \in Items : out'[p][i] # "sent"
      BY <1>16 DEF RecordAnswer
    <3>. QED
      BY <3>1, <3>2, CallsKept
  <2>5. Unfinished'
    BY <1>16 DEF RecordAnswer, RecordResult
  <2>. QED
    BY <2>1, <2>2, <2>3, <2>4, <2>5 DEF Shape
<1>17. ASSUME NEW p \in Procs, EnsureLease(p) PROVE Shape'
  <2>1. TokenMatchesPark'
    BY <1>17 DEF EnsureLease, ResumeWrite
  <2>2. HeldMeansOpen'
    BY <1>17 DEF EnsureLease, ResumeWrite
  <2>3. Unprepared'
    <3>1. batch.phase # "none"
      BY <1>17 DEF EnsureLease, Settled
    <3>2. batch'.phase # "none"
      BY <1>17, <3>1 DEF EnsureLease, ResumeWrite
    <3>. QED
      BY <3>2
  <2>4. SentMeansCalling'
    <3>1. \A q \in Procs \ {p} : run'[q] = run[q] /\ out'[q] = out[q]
      BY <1>17 DEF EnsureLease, ResumeWrite
    <3>2. \A i \in Items : out'[p][i] # "sent"
      <4>1. \A i \in Items : out[p][i] # "sent"
        BY <1>17 DEF EnsureLease, Settled, Waiting
      <4>2. \A i \in Items : NoCalls[i] # "sent"
        BY DEF NoCalls
      <4>3. out'[p] = out[p] \/ out'[p] = NoCalls
        BY <1>17 DEF EnsureLease, ResumeWrite, StopRun
      <4>. QED
        BY <4>1, <4>2, <4>3
    <3>. QED
      BY <3>1, <3>2, CallsKept
  <2>5. Unfinished'
    BY <1>17 DEF EnsureLease, ResumeWrite
  <2>. QED
    BY <2>1, <2>2, <2>3, <2>4, <2>5 DEF Shape
<1>18. ASSUME NEW p \in Procs, NextRound(p) PROVE Shape'
  BY <1>18 DEF NextRound, Settled
<1>19. ASSUME NEW p \in Procs, Park(p) PROVE Shape'
  BY <1>19 DEF Park, ParkedRow
<1>20. ASSUME NEW p \in Procs, Finalize(p) PROVE Shape'
  <2>1. TokenMatchesPark'
    BY <1>20 DEF Finalize
  <2>2. HeldMeansOpen'
    BY <1>20 DEF Finalize
  <2>3. Unprepared'
    BY <1>20 DEF Finalize
  <2>4. SentMeansCalling'
    <3>1. \A q \in Procs \ {p} : run'[q] = run[q] /\ out'[q] = out[q]
      BY <1>20 DEF Finalize
    <3>2. \A i \in Items : out'[p][i] # "sent"
      BY <1>20 DEF Finalize
    <3>. QED
      BY <3>1, <3>2, CallsKept
  <2>5. Unfinished'
    BY <1>20 DEF Finalize
  <2>. QED
    BY <2>1, <2>2, <2>3, <2>4, <2>5 DEF Shape
<1>21. ASSUME NEW p \in Procs, PauseRequest(p) PROVE Shape'
  BY <1>21 DEF PauseRequest
<1>22. ASSUME NEW p \in Procs, PauseFinish(p) PROVE Shape'
  BY <1>22 DEF PauseFinish
<1>23. ASSUME NEW p \in Procs, PauseCancelled(p) PROVE Shape'
  BY <1>23 DEF PauseCancelled
<1>24. ASSUME NEW p \in Procs, StopAndReconcile(p) PROVE Shape'
  BY <1>24 DEF StopAndReconcile, BeginReconcile, ReconcileAllowed
<1>25. ASSUME NEW p \in Procs, ReconcileParks(p) PROVE Shape'
  BY <1>25 DEF ReconcileParks
<1>26. ASSUME NEW p \in Procs, ReconcileNeedsConfirmation(p) PROVE Shape'
  BY <1>26 DEF ReconcileNeedsConfirmation
<1>27. ASSUME NEW p \in Procs, ConfirmReconcile(p) PROVE Shape'
  BY <1>27 DEF ConfirmReconcile, BeginReconcile
<1>28. ASSUME NEW p \in Procs, TokenSpent(p) PROVE Shape'
  BY <1>28 DEF TokenSpent
<1>29. ASSUME NEW p \in Procs, ReconcileFolds(p) PROVE Shape'
  BY <1>29 DEF ReconcileFolds
<1>30. ASSUME NEW p \in Procs, ReconcileAborts(p) PROVE Shape'
  BY <1>30 DEF ReconcileAborts
<1>31. ASSUME NEW p \in Procs, RunAborts(p) PROVE Shape'
  BY <1>31 DEF RunAborts
<1>32. ASSUME NEW p \in Procs, Crash(p) PROVE Shape'
  BY <1>32 DEF Crash
<1>33. ASSUME NEW p \in Procs, NEW i \in Items, NEW o \in {"ok"} \cup Failures,
              CallReturns(p, i, o)
       PROVE  Shape'
  BY <1>33 DEF CallReturns
<1>34. CASE LeaseExpires
  BY <1>34 DEF LeaseExpires
<1>35. CASE RetryAfterElapses
  BY <1>35 DEF RetryAfterElapses
<1>36. CASE UNCHANGED vars
  BY <1>36
<1>. QED
  BY <1>1, <1>2, <1>3, <1>4, <1>5, <1>6, <1>7, <1>8, <1>9, <1>10, <1>11, <1>12, <1>13,
     <1>14, <1>15, <1>16, <1>17, <1>18, <1>19, <1>20, <1>21, <1>22, <1>23, <1>24, <1>25,
     <1>26, <1>27, <1>28, <1>29, <1>30, <1>31, <1>32, <1>33, <1>34, <1>35, <1>36
     DEF Next, Work, Commands

\* A worker with calls on its way and a lease nobody took over still holds the
\* write lease of a writing batch.
LiveClaim == \A p \in Procs :
  Waiting(p) # {} /\ p \notin lost => Holds(p, "write") /\ batch.phase = "writing"
\* A superseded worker with answers to settle does not hold the write lease.
LostMeansGone == \A p \in Procs :
  Calling(p) /\ ~Settled(p) /\ p \in lost => ~Holds(p, "write")
\* Recorded items, and items whose answer says applied, are applied.
AnsweredLanded ==
  /\ done \subseteq landed
  /\ \A p \in Procs, i \in Items :
       out[p][i] \in {"ok", "recorded", "incomplete", "abnormal"} => i \in landed


--------------------------------------------------------------------------------
\* Every step keeps LiveClaim: whoever changes the phase holds the lease, so
\* no worker with calls on its way still holds it.
LEMMA LiveClaimStep ==
  TypeOK /\ TypeOK' /\ Shape /\ Shape' /\ LiveClaim /\ [Next]_vars => LiveClaim'
<1> SUFFICES ASSUME TypeOK, TypeOK', Shape, Shape', LiveClaim, [Next]_vars
             PROVE  LiveClaim'
  OBVIOUS
<1> USE ConstantAssumption
        DEF LiveClaim, TypeOK, Shape, TokenMatchesPark, HeldMeansOpen, Unprepared,
            SentMeansCalling, Unfinished, Open, Calling, Waiting, BatchRows, LeaseRows,
            Row, Writing, Reconciling, Parked, Closed, Acquire, LeaseFree, StopRun,
            Goto, Fail, Bump, NoLease, Holds, HoldsLive, IdleRun, NoCalls
<1> USE DEF vars, store, worker, command, truth
<1>1. ASSUME NEW p \in Procs, RunScheduled(p) PROVE LiveClaim'
  BY <1>1 DEF RunScheduled, ReserveRead, Reservable
<1>2. ASSUME NEW p \in Procs, ResumeCommand(p) PROVE LiveClaim'
  BY <1>2 DEF ResumeCommand, ReserveRead, Reservable
<1>3. ASSUME NEW p \in Procs, ScheduledRefused(p) PROVE LiveClaim'
  BY <1>3 DEF ScheduledRefused
<1>4. ASSUME NEW p \in Procs, Tick(p) PROVE LiveClaim'
  BY <1>4 DEF Tick
<1>5. ASSUME NEW p \in Procs, Prepare(p) PROVE LiveClaim'
  BY <1>5 DEF Prepare
<1>6. ASSUME NEW p \in Procs, ReserveResume(p) PROVE LiveClaim'
  BY <1>6 DEF ReserveResume, ResumeWrite, Admit
<1>7. ASSUME NEW p \in Procs, VerifyAcquire(p) PROVE LiveClaim'
  BY <1>7 DEF VerifyAcquire
<1>8. ASSUME NEW p \in Procs, ReadRequested(p) PROVE LiveClaim'
  BY <1>8 DEF ReadRequested, RecordResult, Unverified
<1>9. ASSUME NEW p \in Procs, ReadBefore(p) PROVE LiveClaim'
  BY <1>9 DEF ReadBefore
<1>10. ASSUME NEW p \in Procs, VerifyUnresolved(p) PROVE LiveClaim'
  BY <1>10 DEF VerifyUnresolved, ReleaseLease
<1>11. ASSUME NEW p \in Procs, VerifyDone(p) PROVE LiveClaim'
  BY <1>11 DEF VerifyDone
<1>12. ASSUME NEW p \in Procs, EnterRun(p) PROVE LiveClaim'
  BY <1>12 DEF EnterRun
<1>13. ASSUME NEW p \in Procs, Claim(p) PROVE LiveClaim'
  <2>1. \A q \in Procs \ {p} : Waiting(q)' = Waiting(q) /\ (q \in lost' <=> q \in lost)
    BY <1>13 DEF Claim, CanClaim, Claimed
  <2>2. Holds(p, "write") /\ batch.phase = "writing" /\ UNCHANGED <<lease, batch>>
    BY <1>13 DEF Claim, CanClaim, Claimed
  <2>. QED
    BY <2>1, <2>2
<1>14. ASSUME NEW p \in Procs, ClaimRefused(p) PROVE LiveClaim'
  BY <1>14 DEF ClaimRefused
<1>15. ASSUME NEW p \in Procs, HeartbeatStops(p) PROVE LiveClaim'
  BY <1>15 DEF HeartbeatStops
<1>16. ASSUME NEW p \in Procs, RecordAnswer(p) PROVE LiveClaim'
  BY <1>16 DEF RecordAnswer, RecordResult, Answered
<1>17. ASSUME NEW p \in Procs, EnsureLease(p) PROVE LiveClaim'
  BY <1>17 DEF EnsureLease, ResumeWrite, Settled
<1>18. ASSUME NEW p \in Procs, NextRound(p) PROVE LiveClaim'
  BY <1>18 DEF NextRound, Settled
<1>19. ASSUME NEW p \in Procs, Park(p) PROVE LiveClaim'
  BY <1>19 DEF Park, ParkedRow
<1>20. ASSUME NEW p \in Procs, Finalize(p) PROVE LiveClaim'
  BY SMTT(30), <1>20 DEF Finalize
<1>21. ASSUME NEW p \in Procs, PauseRequest(p) PROVE LiveClaim'
  BY <1>21 DEF PauseRequest
<1>22. ASSUME NEW p \in Procs, PauseFinish(p) PROVE LiveClaim'
  BY <1>22 DEF PauseFinish
<1>23. ASSUME NEW p \in Procs, PauseCancelled(p) PROVE LiveClaim'
  BY <1>23 DEF PauseCancelled
<1>24. ASSUME NEW p \in Procs, StopAndReconcile(p) PROVE LiveClaim'
  BY <1>24 DEF StopAndReconcile, BeginReconcile, ReconcileAllowed
<1>25. ASSUME NEW p \in Procs, ReconcileParks(p) PROVE LiveClaim'
  BY <1>25 DEF ReconcileParks
<1>26. ASSUME NEW p \in Procs, ReconcileNeedsConfirmation(p) PROVE LiveClaim'
  BY <1>26 DEF ReconcileNeedsConfirmation
<1>27. ASSUME NEW p \in Procs, ConfirmReconcile(p) PROVE LiveClaim'
  BY <1>27 DEF ConfirmReconcile, BeginReconcile
<1>28. ASSUME NEW p \in Procs, TokenSpent(p) PROVE LiveClaim'
  BY <1>28 DEF TokenSpent
<1>29. ASSUME NEW p \in Procs, ReconcileFolds(p) PROVE LiveClaim'
  BY <1>29 DEF ReconcileFolds
<1>30. ASSUME NEW p \in Procs, ReconcileAborts(p) PROVE LiveClaim'
  BY <1>30 DEF ReconcileAborts
<1>31. ASSUME NEW p \in Procs, RunAborts(p) PROVE LiveClaim'
  BY <1>31 DEF RunAborts
<1>32. ASSUME NEW p \in Procs, Crash(p) PROVE LiveClaim'
  BY <1>32 DEF Crash
<1>33. ASSUME NEW p \in Procs, NEW i \in Items, NEW o \in {"ok"} \cup Failures,
              CallReturns(p, i, o)
       PROVE  LiveClaim'
  BY <1>33 DEF CallReturns
<1>34. CASE LeaseExpires
  BY <1>34 DEF LeaseExpires
<1>35. CASE RetryAfterElapses
  BY <1>35 DEF RetryAfterElapses
<1>36. CASE UNCHANGED vars
  BY <1>36
<1>. QED
  BY <1>1, <1>2, <1>3, <1>4, <1>5, <1>6, <1>7, <1>8, <1>9, <1>10, <1>11, <1>12, <1>13,
     <1>14, <1>15, <1>16, <1>17, <1>18, <1>19, <1>20, <1>21, <1>22, <1>23, <1>24, <1>25,
     <1>26, <1>27, <1>28, <1>29, <1>30, <1>31, <1>32, <1>33, <1>34, <1>35, <1>36
     DEF Next, Work, Commands


--------------------------------------------------------------------------------
\* A step that stops or starts one worker outside its calls, and either
\* leaves the lease alone or takes it for that worker, keeps LostMeansGone.
LEMMA LostKept ==
  ASSUME LostMeansGone, NEW p \in Procs, run'[p].pc # "calling",
         \A q \in Procs \ {p} : run'[q] = run[q] /\ out'[q] = out[q],
         (lease' = lease /\ lost' \subseteq lost) \/ lease'.owner = p
  PROVE  LostMeansGone'
<1>1. ASSUME NEW q \in Procs, Calling(q)', ~Settled(q)', q \in lost'
      PROVE  ~Holds(q, "write")'
  <2>1. q # p
    BY <1>1 DEF Calling
  <2>2. CASE lease'.owner = p
    BY <2>1, <2>2 DEF Holds
  <2>3. CASE lease' = lease /\ lost' \subseteq lost
    <3>1. Calling(q) /\ ~Settled(q)
      BY <1>1, <2>1 DEF Settled, Calling, Waiting, Answered
    <3>. QED
      BY <1>1, <2>3, <3>1 DEF LostMeansGone, Holds
  <2>. QED
    BY <2>2, <2>3
<1>. QED
  BY <1>1 DEF LostMeansGone

\* Every step keeps LostMeansGone: a superseded worker takes the lease again
\* only after every answer of its round is settled.
LEMMA LostStep ==
  TypeOK /\ TypeOK' /\ Shape /\ Shape' /\ LostMeansGone /\ [Next]_vars => LostMeansGone'
<1> SUFFICES ASSUME TypeOK, TypeOK', Shape, Shape', LostMeansGone, [Next]_vars
             PROVE  LostMeansGone'
  OBVIOUS
<1> USE ConstantAssumption
        DEF LostMeansGone, Settled, Answered, TypeOK, Shape, TokenMatchesPark,
            HeldMeansOpen, Unprepared, SentMeansCalling, Unfinished, Open, Calling,
            Waiting, BatchRows, LeaseRows, Row, Writing, Reconciling, Parked, Closed,
            Acquire, LeaseFree, StopRun, Goto, Fail, Bump, NoLease, Holds, HoldsLive,
            IdleRun, NoCalls
<1> USE DEF vars, store, worker, command, truth
<1>1. ASSUME NEW p \in Procs, RunScheduled(p) PROVE LostMeansGone'
  BY <1>1 DEF RunScheduled, ReserveRead, Reservable
<1>2. ASSUME NEW p \in Procs, ResumeCommand(p) PROVE LostMeansGone'
  BY <1>2 DEF ResumeCommand, ReserveRead, Reservable
<1>3. ASSUME NEW p \in Procs, ScheduledRefused(p) PROVE LostMeansGone'
  BY <1>3 DEF ScheduledRefused
<1>4. ASSUME NEW p \in Procs, Tick(p) PROVE LostMeansGone'
  BY <1>4 DEF Tick
<1>5. ASSUME NEW p \in Procs, Prepare(p) PROVE LostMeansGone'
  BY <1>5 DEF Prepare
<1>6. ASSUME NEW p \in Procs, ReserveResume(p) PROVE LostMeansGone'
  <2>1. run'[p].pc # "calling"
    <3>1. Admit(p) => run'[p].pc \in {"parking", "owned"}
      BY DEF Admit
    <3>2. StopRun(p, current) => run'[p].pc = "idle"
      OBVIOUS
    <3>. QED
      BY <1>6, <3>1, <3>2 DEF ReserveResume
  <2>2. \A q \in Procs \ {p} : run'[q] = run[q] /\ out'[q] = out[q]
    BY <1>6 DEF ReserveResume, ResumeWrite, Admit
  <2>3. (lease' = lease /\ lost' \subseteq lost) \/ lease'.owner = p
    BY <1>6 DEF ReserveResume, ResumeWrite, Admit
  <2>. QED
    BY <2>1, <2>2, <2>3, LostKept
<1>7. ASSUME NEW p \in Procs, VerifyAcquire(p) PROVE LostMeansGone'
  <2>1. run'[p].pc # "calling"
    BY <1>7 DEF VerifyAcquire, RunStates
  <2>2. \A q \in Procs \ {p} : run'[q] = run[q] /\ out'[q] = out[q]
    BY <1>7 DEF VerifyAcquire
  <2>3. (lease' = lease /\ lost' \subseteq lost) \/ lease'.owner = p
    BY <1>7 DEF VerifyAcquire
  <2>. QED
    BY <2>1, <2>2, <2>3, LostKept
<1>8. ASSUME NEW p \in Procs, ReadRequested(p) PROVE LostMeansGone'
  BY <1>8 DEF ReadRequested, RecordResult, Unverified
<1>9. ASSUME NEW p \in Procs, ReadBefore(p) PROVE LostMeansGone'
  BY <1>9 DEF ReadBefore
<1>10. ASSUME NEW p \in Procs, VerifyUnresolved(p) PROVE LostMeansGone'
  BY <1>10 DEF VerifyUnresolved, ReleaseLease
<1>11. ASSUME NEW p \in Procs, VerifyDone(p) PROVE LostMeansGone'
  BY <1>11 DEF VerifyDone
<1>12. ASSUME NEW p \in Procs, EnterRun(p) PROVE LostMeansGone'
  <2>1. run'[p].pc # "calling"
    <3>1. ASSUME NEW pc \in {"loop", "finalizing"}, Goto(p, pc)
          PROVE  run'[p].pc # "calling"
      BY <3>1
    <3>2. ASSUME NEW f \in {"reconnect", "rate_limited", "incomplete", "rejected"},
                 Fail(p, f)
          PROVE  run'[p].pc # "calling"
      BY <3>2
    <3>3. StopRun(p, current) => run'[p].pc = "idle"
      OBVIOUS
    <3>4. run' = [run EXCEPT ![p] = [IdleRun EXCEPT !.pc = "reserved",
                                                   !.doubt = Doubtful]]
          => run'[p].pc = "reserved"
      OBVIOUS
    <3>. QED
      BY <1>12, <3>1, <3>2, <3>3, <3>4 DEF EnterRun
  <2>2. \A q \in Procs \ {p} : run'[q] = run[q] /\ out'[q] = out[q]
    BY <1>12 DEF EnterRun
  <2>3. (lease' = lease /\ lost' \subseteq lost) \/ lease'.owner = p
    BY <1>12 DEF EnterRun
  <2>. QED
    BY <2>1, <2>2, <2>3, LostKept
<1>13. ASSUME NEW p \in Procs, Claim(p) PROVE LostMeansGone'
  BY <1>13 DEF Claim, CanClaim, Claimed
<1>14. ASSUME NEW p \in Procs, ClaimRefused(p) PROVE LostMeansGone'
  BY <1>14 DEF ClaimRefused
<1>15. ASSUME NEW p \in Procs, HeartbeatStops(p) PROVE LostMeansGone'
  BY <1>15 DEF HeartbeatStops
<1>16. ASSUME NEW p \in Procs, RecordAnswer(p) PROVE LostMeansGone'
  BY <1>16 DEF RecordAnswer, RecordResult, Answered
<1>17. ASSUME NEW p \in Procs, EnsureLease(p) PROVE LostMeansGone'
  BY <1>17 DEF EnsureLease, ResumeWrite, Settled
<1>18. ASSUME NEW p \in Procs, NextRound(p) PROVE LostMeansGone'
  BY <1>18 DEF NextRound, Settled
<1>19. ASSUME NEW p \in Procs, Park(p) PROVE LostMeansGone'
  BY <1>19 DEF Park, ParkedRow
<1>20. ASSUME NEW p \in Procs, Finalize(p) PROVE LostMeansGone'
  BY <1>20 DEF Finalize
<1>21. ASSUME NEW p \in Procs, PauseRequest(p) PROVE LostMeansGone'
  BY <1>21 DEF PauseRequest
<1>22. ASSUME NEW p \in Procs, PauseFinish(p) PROVE LostMeansGone'
  BY <1>22 DEF PauseFinish
<1>23. ASSUME NEW p \in Procs, PauseCancelled(p) PROVE LostMeansGone'
  BY <1>23 DEF PauseCancelled
<1>24. ASSUME NEW p \in Procs, StopAndReconcile(p) PROVE LostMeansGone'
  BY <1>24 DEF StopAndReconcile, BeginReconcile, ReconcileAllowed
<1>25. ASSUME NEW p \in Procs, ReconcileParks(p) PROVE LostMeansGone'
  BY <1>25 DEF ReconcileParks
<1>26. ASSUME NEW p \in Procs, ReconcileNeedsConfirmation(p) PROVE LostMeansGone'
  BY <1>26 DEF ReconcileNeedsConfirmation
<1>27. ASSUME NEW p \in Procs, ConfirmReconcile(p) PROVE LostMeansGone'
  BY <1>27 DEF ConfirmReconcile, BeginReconcile
<1>28. ASSUME NEW p \in Procs, TokenSpent(p) PROVE LostMeansGone'
  BY <1>28 DEF TokenSpent
<1>29. ASSUME NEW p \in Procs, ReconcileFolds(p) PROVE LostMeansGone'
  BY <1>29 DEF ReconcileFolds
<1>30. ASSUME NEW p \in Procs, ReconcileAborts(p) PROVE LostMeansGone'
  BY <1>30 DEF ReconcileAborts
<1>31. ASSUME NEW p \in Procs, RunAborts(p) PROVE LostMeansGone'
  BY <1>31 DEF RunAborts
<1>32. ASSUME NEW p \in Procs, Crash(p) PROVE LostMeansGone'
  BY <1>32 DEF Crash
<1>33. ASSUME NEW p \in Procs, NEW i \in Items, NEW o \in {"ok"} \cup Failures,
              CallReturns(p, i, o)
       PROVE  LostMeansGone'
  BY <1>33 DEF CallReturns
<1>34. CASE LeaseExpires
  BY <1>34 DEF LeaseExpires
<1>35. CASE RetryAfterElapses
  BY <1>35 DEF RetryAfterElapses
<1>36. CASE UNCHANGED vars
  BY <1>36
<1>. QED
  BY <1>1, <1>2, <1>3, <1>4, <1>5, <1>6, <1>7, <1>8, <1>9, <1>10, <1>11, <1>12, <1>13,
     <1>14, <1>15, <1>16, <1>17, <1>18, <1>19, <1>20, <1>21, <1>22, <1>23, <1>24, <1>25,
     <1>26, <1>27, <1>28, <1>29, <1>30, <1>31, <1>32, <1>33, <1>34, <1>35, <1>36
     DEF Next, Work, Commands


--------------------------------------------------------------------------------
\* A step that records and remembers only landed items keeps AnsweredLanded.
LEMMA LandedKept ==
  ASSUME AnsweredLanded, NEW p \in Procs, landed' = landed, done' \subseteq landed,
         \A q \in Procs \ {p} : out'[q] = out[q],
         \A i \in Items : out'[p][i] \in {"ok", "recorded", "incomplete", "abnormal"}
                           => i \in landed
  PROVE  AnsweredLanded'
  BY DEF AnsweredLanded

\* Every step keeps AnsweredLanded: an answer that says applied is applied.
LEMMA LandedStep == TypeOK /\ TypeOK' /\ AnsweredLanded /\ [Next]_vars => AnsweredLanded'
<1> SUFFICES ASSUME TypeOK, TypeOK', AnsweredLanded, [Next]_vars PROVE AnsweredLanded'
  OBVIOUS
<1> USE FirstIsMember
        DEF TypeOK, AnsweredLanded, Waiting, StopRun, NoCalls, Bump, ReleaseLease,
            NotApplied, Failures
<1> USE DEF vars, store, worker, command, truth
<1>1. ASSUME NEW p \in Procs, RunScheduled(p) PROVE AnsweredLanded'
  BY <1>1 DEF RunScheduled, ReserveRead, Reservable
<1>2. ASSUME NEW p \in Procs, ResumeCommand(p) PROVE AnsweredLanded'
  BY <1>2 DEF ResumeCommand, ReserveRead, Reservable
<1>3. ASSUME NEW p \in Procs, ScheduledRefused(p) PROVE AnsweredLanded'
  BY <1>3 DEF ScheduledRefused
<1>4. ASSUME NEW p \in Procs, Tick(p) PROVE AnsweredLanded'
  BY <1>4 DEF Tick
<1>5. ASSUME NEW p \in Procs, Prepare(p) PROVE AnsweredLanded'
  BY <1>5 DEF Prepare
<1>6. ASSUME NEW p \in Procs, ReserveResume(p) PROVE AnsweredLanded'
  BY <1>6 DEF ReserveResume, ResumeWrite, Admit
<1>7. ASSUME NEW p \in Procs, VerifyAcquire(p) PROVE AnsweredLanded'
  BY <1>7 DEF VerifyAcquire
<1>8. ASSUME NEW p \in Procs, ReadRequested(p) PROVE AnsweredLanded'
  BY <1>8 DEF ReadRequested, RecordResult, Unverified
<1>9. ASSUME NEW p \in Procs, ReadBefore(p) PROVE AnsweredLanded'
  BY <1>9 DEF ReadBefore
<1>10. ASSUME NEW p \in Procs, VerifyUnresolved(p) PROVE AnsweredLanded'
  BY <1>10 DEF VerifyUnresolved, ReleaseLease
<1>11. ASSUME NEW p \in Procs, VerifyDone(p) PROVE AnsweredLanded'
  BY <1>11 DEF VerifyDone
<1>12. ASSUME NEW p \in Procs, EnterRun(p) PROVE AnsweredLanded'
  BY <1>12 DEF EnterRun
<1>13. ASSUME NEW p \in Procs, Claim(p) PROVE AnsweredLanded'
  BY <1>13 DEF Claim, CanClaim, Claimed
<1>14. ASSUME NEW p \in Procs, ClaimRefused(p) PROVE AnsweredLanded'
  BY <1>14 DEF ClaimRefused
<1>15. ASSUME NEW p \in Procs, HeartbeatStops(p) PROVE AnsweredLanded'
  BY <1>15 DEF HeartbeatStops
<1>16. ASSUME NEW p \in Procs, RecordAnswer(p) PROVE AnsweredLanded'
  <2> DEFINE i == First(Answered(p))
  <2>1. i \in Answered(p)
    BY <1>16, FirstIsMember DEF RecordAnswer, Answered
  <2>2. i \in Items /\ i \in landed
    BY <2>1 DEF Answered
  <2>3. landed' = landed /\ done' \subseteq landed
    BY <1>16, <2>2 DEF RecordAnswer, RecordResult
  <2>4. \A q \in Procs \ {p} : out'[q] = out[q]
    BY <1>16 DEF RecordAnswer, RecordResult
  <2>5. \A j \in Items : out'[p][j] \in {"ok", "recorded", "incomplete", "abnormal"}
                            => j \in landed
    <3>1. \A j \in Items \ {i} : out'[p][j] \in {out[p][j], "none"}
      BY <1>16, <2>2 DEF RecordAnswer, RecordResult
    <3>. QED
      BY <2>2, <3>1
  <2>. QED
    BY <2>3, <2>4, <2>5, LandedKept
<1>17. ASSUME NEW p \in Procs, EnsureLease(p) PROVE AnsweredLanded'
  BY <1>17 DEF EnsureLease, ResumeWrite, Settled
<1>18. ASSUME NEW p \in Procs, NextRound(p) PROVE AnsweredLanded'
  BY <1>18 DEF NextRound, Settled
<1>19. ASSUME NEW p \in Procs, Park(p) PROVE AnsweredLanded'
  <2>1. landed' = landed /\ done' = done
    BY <1>19 DEF Park
  <2>2. out' = [out EXCEPT ![p] = NoCalls]
    BY <1>19 DEF Park, StopRun
  <2>3. done' \subseteq landed
    BY <2>1 DEF AnsweredLanded
  <2>4. \A q \in Procs \ {p} : out'[q] = out[q]
    BY <2>2
  <2>5. \A i \in Items : out'[p][i] = "none"
    BY <2>2 DEF NoCalls
  <2>. QED
    BY <2>1, <2>3, <2>4, <2>5, LandedKept
<1>20. ASSUME NEW p \in Procs, Finalize(p) PROVE AnsweredLanded'
  <2>1. landed' = landed /\ done' = done
    BY <1>20 DEF Finalize
  <2>2. out' = [out EXCEPT ![p] = NoCalls]
    BY <1>20 DEF Finalize, StopRun
  <2>3. done' \subseteq landed
    BY <2>1 DEF AnsweredLanded
  <2>4. \A q \in Procs \ {p} : out'[q] = out[q]
    BY <2>2
  <2>5. \A i \in Items : out'[p][i] = "none"
    BY <2>2 DEF NoCalls
  <2>. QED
    BY <2>1, <2>3, <2>4, <2>5, LandedKept
<1>21. ASSUME NEW p \in Procs, PauseRequest(p) PROVE AnsweredLanded'
  BY <1>21 DEF PauseRequest
<1>22. ASSUME NEW p \in Procs, PauseFinish(p) PROVE AnsweredLanded'
  BY <1>22 DEF PauseFinish
<1>23. ASSUME NEW p \in Procs, PauseCancelled(p) PROVE AnsweredLanded'
  BY <1>23 DEF PauseCancelled
<1>24. ASSUME NEW p \in Procs, StopAndReconcile(p) PROVE AnsweredLanded'
  BY <1>24 DEF StopAndReconcile, BeginReconcile, ReconcileAllowed
<1>25. ASSUME NEW p \in Procs, ReconcileParks(p) PROVE AnsweredLanded'
  BY <1>25 DEF ReconcileParks
<1>26. ASSUME NEW p \in Procs, ReconcileNeedsConfirmation(p) PROVE AnsweredLanded'
  BY <1>26 DEF ReconcileNeedsConfirmation
<1>27. ASSUME NEW p \in Procs, ConfirmReconcile(p) PROVE AnsweredLanded'
  BY <1>27 DEF ConfirmReconcile, BeginReconcile
<1>28. ASSUME NEW p \in Procs, TokenSpent(p) PROVE AnsweredLanded'
  BY <1>28 DEF TokenSpent
<1>29. ASSUME NEW p \in Procs, ReconcileFolds(p) PROVE AnsweredLanded'
  BY <1>29 DEF ReconcileFolds
<1>30. ASSUME NEW p \in Procs, ReconcileAborts(p) PROVE AnsweredLanded'
  BY <1>30 DEF ReconcileAborts
<1>31. ASSUME NEW p \in Procs, RunAborts(p) PROVE AnsweredLanded'
  BY <1>31 DEF RunAborts
<1>32. ASSUME NEW p \in Procs, Crash(p) PROVE AnsweredLanded'
  BY <1>32 DEF Crash
<1>33. ASSUME NEW p \in Procs, NEW i \in Items, NEW o \in {"ok"} \cup Failures,
              CallReturns(p, i, o)
       PROVE  AnsweredLanded'
  BY <1>33 DEF CallReturns
<1>34. CASE LeaseExpires
  BY <1>34 DEF LeaseExpires
<1>35. CASE RetryAfterElapses
  BY <1>35 DEF RetryAfterElapses
<1>36. CASE UNCHANGED vars
  BY <1>36
<1>. QED
  BY <1>1, <1>2, <1>3, <1>4, <1>5, <1>6, <1>7, <1>8, <1>9, <1>10, <1>11, <1>12, <1>13,
     <1>14, <1>15, <1>16, <1>17, <1>18, <1>19, <1>20, <1>21, <1>22, <1>23, <1>24, <1>25,
     <1>26, <1>27, <1>28, <1>29, <1>30, <1>31, <1>32, <1>33, <1>34, <1>35, <1>36
     DEF Next, Work, Commands

--------------------------------------------------------------------------------
\* The inductive invariant.
IInv == TypeOK /\ Shape /\ LiveClaim /\ LostMeansGone /\ AnsweredLanded

\* The inductive invariant holds when no batch was ever prepared.
LEMMA InitIInv == Init => IInv
<1> SUFFICES ASSUME Init PROVE IInv
  OBVIOUS
<1>1. TypeOK
  <2>1. batch \in BatchRows
    BY DEF Init, Row, BatchRows, Phases
  <2>2. attempts \in [Items -> 0..ProviderWriteAttempts] /\ faults \in 0..MaxFaults
    BY ConstantAssumption DEF Init
  <2>. QED
    BY <2>1, <2>2, RowsTyped DEF Init, TypeOK
<1>2. /\ TokenMatchesPark /\ HeldMeansOpen /\ Unprepared
      /\ SentMeansCalling /\ Unfinished
  BY ConstantAssumption
     DEF Init, TokenMatchesPark, HeldMeansOpen, Unprepared, SentMeansCalling,
         Unfinished, Waiting, NoCalls, IdleRun, NoLease, Row
<1>3. LiveClaim /\ LostMeansGone /\ AnsweredLanded
  BY
     DEF Init, LiveClaim, LostMeansGone, AnsweredLanded, Calling, Waiting, NoCalls,
         IdleRun
<1>. QED
  BY <1>1, <1>2, <1>3 DEF IInv, Shape

\* Every step keeps the inductive invariant.
LEMMA StepIInv == IInv /\ [Next]_vars => IInv'
<1> SUFFICES ASSUME IInv, [Next]_vars PROVE IInv'
  OBVIOUS
<1>1. TypeOK'
  BY TypeStep DEF IInv
<1>2. Shape'
  BY <1>1, ShapeStep DEF IInv
<1>3. LiveClaim' /\ LostMeansGone' /\ AnsweredLanded'
  BY <1>1, <1>2, LiveClaimStep, LostStep, LandedStep DEF IInv
<1>. QED
  BY <1>1, <1>2, <1>3 DEF IInv

\* The inductive invariant holds in every reachable state.
LEMMA Invariance == Spec => []IInv
  BY InitIInv, StepIInv, PTL DEF Spec

\* Every variable keeps its type, for every set of processes and items and
\* every attempt budget and call concurrency.
THEOREM TypeCorrect == Spec => []TypeOK
<1>1. IInv => TypeOK
  BY DEF IInv
<1>. QED
  BY <1>1, Invariance, PTL

\* PauseProviderWrite, ParkProviderWrite, FinalizeProviderWrite and the
\* reconcile transactions leave no live worker with a provider call on its way.
THEOREM PausedIsQuiet == Spec => []QuietUnlessWriting
<1>1. IInv => QuietUnlessWriting
  BY DEF IInv, LiveClaim, QuietUnlessWriting
<1>. QED
  BY <1>1, Invariance, PTL

\* A reconcile confirmation (takeWriteConfirmation) is only ever held for a
\* batch that is parked for it: every resume and reconcile makes it useless.
THEOREM TokensMatch == Spec => []TokenMatchesPark
<1>1. IInv => TokenMatchesPark
  BY DEF IInv, Shape
<1>. QED
  BY <1>1, Invariance, PTL

\* loadClaimableProviderWriteItems always has an item for a writing batch,
\* although followers of a new-name group wait for their leader.
THEOREM NeverStarves == Spec => []WritingNeverStarves
<1>1. ASSUME IInv, batch.phase = "writing" PROVE Claimable # {}
  <2>1. PICK i \in Items : i \notin done
    BY <1>1 DEF IInv, TypeOK, Shape, Unfinished, Complete
  <2>2. CASE i \notin NewItems \/ First(NewItems) \in done
    BY <2>1, <2>2 DEF Claimable
  <2>3. CASE i \in NewItems /\ First(NewItems) \notin done
    <3>1. NewItems \in SUBSET Items /\ NewItems # {}
      BY <2>3, ConstantAssumption
    <3>2. First(NewItems) \in NewItems
      BY <3>1, FirstIsMember
    <3>. QED
      BY <2>3, <3>1, <3>2 DEF Claimable
  <2>. QED
    BY <2>2, <2>3
<1>2. IInv => WritingNeverStarves
  BY <1>1 DEF WritingNeverStarves
<1>. QED
  BY <1>2, Invariance, PTL

--------------------------------------------------------------------------------
\* Only RecordAnswer turns a worker's normalized answer into a recorded one.
LEMMA RecordedByAnswer ==
  ASSUME TypeOK, [Next]_vars, NEW q \in Procs, NEW j \in Items,
         out[q][j] = "ok", out'[q][j] = "recorded"
  PROVE  RecordAnswer(q)
<1> USE DEF TypeOK, vars, store, worker, command, truth, StopRun, NoCalls
<1>1. ASSUME NEW p \in Procs, RunScheduled(p) PROVE FALSE
  BY <1>1 DEF RunScheduled, ReserveRead, Reservable
<1>2. ASSUME NEW p \in Procs, ResumeCommand(p) PROVE FALSE
  BY <1>2 DEF ResumeCommand, ReserveRead, Reservable
<1>3. ASSUME NEW p \in Procs, ScheduledRefused(p) PROVE FALSE
  BY <1>3 DEF ScheduledRefused
<1>4. ASSUME NEW p \in Procs, Tick(p) PROVE FALSE
  BY <1>4 DEF Tick
<1>5. ASSUME NEW p \in Procs, Prepare(p) PROVE FALSE
  BY <1>5 DEF Prepare
<1>6. ASSUME NEW p \in Procs, ReserveResume(p) PROVE FALSE
  BY <1>6 DEF ReserveResume, ResumeWrite, Admit
<1>7. ASSUME NEW p \in Procs, VerifyAcquire(p) PROVE FALSE
  BY <1>7 DEF VerifyAcquire
<1>8. ASSUME NEW p \in Procs, ReadRequested(p) PROVE FALSE
  BY <1>8 DEF ReadRequested, RecordResult, Unverified
<1>9. ASSUME NEW p \in Procs, ReadBefore(p) PROVE FALSE
  BY <1>9 DEF ReadBefore
<1>10. ASSUME NEW p \in Procs, VerifyUnresolved(p) PROVE FALSE
  BY <1>10 DEF VerifyUnresolved, ReleaseLease
<1>11. ASSUME NEW p \in Procs, VerifyDone(p) PROVE FALSE
  BY <1>11 DEF VerifyDone
<1>12. ASSUME NEW p \in Procs, EnterRun(p) PROVE FALSE
  BY <1>12 DEF EnterRun
<1>13. ASSUME NEW p \in Procs, Claim(p) PROVE FALSE
  BY <1>13 DEF Claim, CanClaim, Claimed
<1>14. ASSUME NEW p \in Procs, ClaimRefused(p) PROVE FALSE
  BY <1>14 DEF ClaimRefused
<1>15. ASSUME NEW p \in Procs, HeartbeatStops(p) PROVE FALSE
  BY <1>15 DEF HeartbeatStops
<1>16. ASSUME NEW p \in Procs, RecordAnswer(p) PROVE p = q
  BY <1>16 DEF RecordAnswer
<1>17. ASSUME NEW p \in Procs, EnsureLease(p) PROVE FALSE
  BY <1>17 DEF EnsureLease, ResumeWrite, Settled
<1>18. ASSUME NEW p \in Procs, NextRound(p) PROVE FALSE
  BY <1>18 DEF NextRound, Settled
<1>19. ASSUME NEW p \in Procs, Park(p) PROVE FALSE
  BY ZenonT(40), <1>19 DEF Park, ParkedRow
<1>20. ASSUME NEW p \in Procs, Finalize(p) PROVE FALSE
  BY ZenonT(40), <1>20 DEF Finalize
<1>21. ASSUME NEW p \in Procs, PauseRequest(p) PROVE FALSE
  BY <1>21 DEF PauseRequest
<1>22. ASSUME NEW p \in Procs, PauseFinish(p) PROVE FALSE
  BY <1>22 DEF PauseFinish
<1>23. ASSUME NEW p \in Procs, PauseCancelled(p) PROVE FALSE
  BY <1>23 DEF PauseCancelled
<1>24. ASSUME NEW p \in Procs, StopAndReconcile(p) PROVE FALSE
  BY <1>24 DEF StopAndReconcile, BeginReconcile, ReconcileAllowed
<1>25. ASSUME NEW p \in Procs, ReconcileParks(p) PROVE FALSE
  BY <1>25 DEF ReconcileParks
<1>26. ASSUME NEW p \in Procs, ReconcileNeedsConfirmation(p) PROVE FALSE
  BY <1>26 DEF ReconcileNeedsConfirmation
<1>27. ASSUME NEW p \in Procs, ConfirmReconcile(p) PROVE FALSE
  BY <1>27 DEF ConfirmReconcile, BeginReconcile
<1>28. ASSUME NEW p \in Procs, TokenSpent(p) PROVE FALSE
  BY <1>28 DEF TokenSpent
<1>29. ASSUME NEW p \in Procs, ReconcileFolds(p) PROVE FALSE
  BY <1>29 DEF ReconcileFolds
<1>30. ASSUME NEW p \in Procs, ReconcileAborts(p) PROVE FALSE
  BY <1>30 DEF ReconcileAborts
<1>31. ASSUME NEW p \in Procs, RunAborts(p) PROVE FALSE
  BY <1>31 DEF RunAborts
<1>32. ASSUME NEW p \in Procs, Crash(p) PROVE FALSE
  BY <1>32 DEF Crash
<1>33. ASSUME NEW p \in Procs, NEW i \in Items, NEW o \in {"ok"} \cup Failures,
              CallReturns(p, i, o)
       PROVE  FALSE
  BY <1>33 DEF CallReturns, Failures, NotApplied
<1>34. CASE LeaseExpires \/ RetryAfterElapses \/ UNCHANGED vars
  BY <1>34 DEF LeaseExpires, RetryAfterElapses
<1>. QED
  BY <1>1, <1>2, <1>3, <1>4, <1>5, <1>6, <1>7, <1>8, <1>9, <1>10, <1>11, <1>12, <1>13,
     <1>14, <1>15, <1>16, <1>17, <1>18, <1>19, <1>20, <1>21, <1>22, <1>23, <1>24, <1>25,
     <1>26, <1>27, <1>28, <1>29, <1>30, <1>31, <1>32, <1>33, <1>34
     DEF Next, Work, Commands

\* RecordProviderWriteResult is only reached by a worker whose lease nobody
\* took since it claimed the item, although the transaction compares the
\* lease against a time taken before the calls.
THEOREM RecordsUnderLease == Spec => RecordedUnderClaimLease
<1>1. ASSUME IInv, [Next]_vars, NEW p \in Procs, NEW i \in Items,
             out[p][i] = "ok", out'[p][i] = "recorded"
      PROVE  p \notin lost
  <2>1. RecordAnswer(p)
    BY <1>1, RecordedByAnswer DEF IInv
  <2>2. Holds(p, "write")
    <3>1. First(Answered(p)) \in Items
      BY <2>1, FirstIsMember DEF RecordAnswer, Answered
    <3>. QED
      BY <1>1, <2>1, <3>1 DEF RecordAnswer, IInv, TypeOK, StopRun, NoCalls
  <2>3. Calling(p) /\ ~Settled(p)
    BY <2>1 DEF RecordAnswer, Settled
  <2>. QED
    BY <1>1, <2>2, <2>3 DEF IInv, LostMeansGone
<1>2. IInv /\ [Next]_vars =>
        \A p \in Procs, i \in Items :
          out[p][i] = "ok" /\ out'[p][i] = "recorded" => p \notin lost
  BY <1>1
<1>. QED
  BY <1>2, Invariance, PTL DEF Spec, RecordedUnderClaimLease

--------------------------------------------------------------------------------
\* RecordProviderWriteResult records a landed item of an open batch once.
LEMMA RecordsIntent ==
  ASSUME NEW p \in Procs, NEW i \in landed \ done, RecordResult(p, i),
         Open, landed' = landed
  PROVE  Intent!Record
<1>1. Stage = "open" /\ Stage' = "open"
  BY DEF RecordResult, Reconciling, Row, Stage, Open, Parked
<1>2. done' = done \cup {i}
  BY DEF RecordResult
<1>. QED
  BY <1>1, <1>2 DEF Intent!Record

\* Every step of the batch is a step of WriteIntent or leaves it unchanged.
LEMMA IntentStep ==
  IInv /\ IInv' /\ [Next]_vars => [Intent!IntentNext]_(Intent!intentVars)
<1> SUFFICES ASSUME IInv, IInv', [Next]_vars
             PROVE  [Intent!IntentNext]_(Intent!intentVars)
  OBVIOUS
<1> USE DEF IInv, TypeOK, vars, store, worker, command, truth, Stage, Open, Parked,
            Closed, Row, Writing, Reconciling, BatchRows, StopRun, Intent!intentVars
<1>1. ASSUME NEW p \in Procs, RunScheduled(p)
      PROVE  [Intent!IntentNext]_(Intent!intentVars)
  BY <1>1 DEF RunScheduled, ReserveRead, Reservable
<1>2. ASSUME NEW p \in Procs, ResumeCommand(p)
      PROVE  [Intent!IntentNext]_(Intent!intentVars)
  BY <1>2 DEF ResumeCommand, ReserveRead, Reservable
<1>3. ASSUME NEW p \in Procs, ScheduledRefused(p)
      PROVE  [Intent!IntentNext]_(Intent!intentVars)
  BY <1>3 DEF ScheduledRefused
<1>4. ASSUME NEW p \in Procs, Tick(p) PROVE [Intent!IntentNext]_(Intent!intentVars)
  BY <1>4 DEF Tick
<1>5. ASSUME NEW p \in Procs, Prepare(p) PROVE [Intent!IntentNext]_(Intent!intentVars)
  BY <1>5 DEF Prepare, Intent!IntentNext, Intent!Prepare
<1>6. ASSUME NEW p \in Procs, ReserveResume(p)
      PROVE  [Intent!IntentNext]_(Intent!intentVars)
  BY <1>6 DEF ReserveResume, ResumeWrite, Admit, Shape, HeldMeansOpen
<1>7. ASSUME NEW p \in Procs, VerifyAcquire(p)
      PROVE  [Intent!IntentNext]_(Intent!intentVars)
  BY <1>7 DEF VerifyAcquire
<1>8. ASSUME NEW p \in Procs, ReadRequested(p)
      PROVE  [Intent!IntentNext]_(Intent!intentVars)
  <2> DEFINE i == First(Unverified(p))
  <2>1. i \in Unverified(p)
    BY <1>8, FirstIsMember DEF ReadRequested, Unverified
  <2>2. i \in landed \ done /\ RecordResult(p, i) /\ landed' = landed
    BY <1>8, <2>1 DEF ReadRequested, Unverified
  <2>3. Open
    BY <1>8 DEF ReadRequested, HoldsLive, Holds, Shape, HeldMeansOpen
  <2>. QED
    BY <2>2, <2>3, RecordsIntent DEF Intent!IntentNext
<1>9. ASSUME NEW p \in Procs, ReadBefore(p)
      PROVE  [Intent!IntentNext]_(Intent!intentVars)
  BY <1>9 DEF ReadBefore
<1>10. ASSUME NEW p \in Procs, VerifyUnresolved(p)
       PROVE  [Intent!IntentNext]_(Intent!intentVars)
  BY <1>10 DEF VerifyUnresolved, ReleaseLease
<1>11. ASSUME NEW p \in Procs, VerifyDone(p)
       PROVE  [Intent!IntentNext]_(Intent!intentVars)
  BY <1>11 DEF VerifyDone, Shape, HeldMeansOpen
<1>12. ASSUME NEW p \in Procs, EnterRun(p) PROVE [Intent!IntentNext]_(Intent!intentVars)
  BY <1>12 DEF EnterRun
<1>13. ASSUME NEW p \in Procs, Claim(p) PROVE [Intent!IntentNext]_(Intent!intentVars)
  BY <1>13 DEF Claim, CanClaim, Claimed
<1>14. ASSUME NEW p \in Procs, ClaimRefused(p)
       PROVE  [Intent!IntentNext]_(Intent!intentVars)
  BY <1>14 DEF ClaimRefused
<1>15. ASSUME NEW p \in Procs, HeartbeatStops(p)
       PROVE  [Intent!IntentNext]_(Intent!intentVars)
  BY <1>15 DEF HeartbeatStops
<1>16. ASSUME NEW p \in Procs, RecordAnswer(p)
       PROVE  [Intent!IntentNext]_(Intent!intentVars)
  <2> DEFINE i == First(Answered(p))
  <2>1. i \in Answered(p)
    BY <1>16, FirstIsMember DEF RecordAnswer, Answered
  <2>2. CASE UNCHANGED <<batch, done>>
    BY <1>16, <2>2 DEF RecordAnswer
  <2>3. CASE out[p][i] = "ok" /\ Open /\ i \notin done /\ RecordResult(p, i)
    <3>1. i \in landed \ done
      BY <2>1, <2>3 DEF Answered, AnsweredLanded
    <3>2. landed' = landed
      BY <1>16 DEF RecordAnswer
    <3>. QED
      BY <2>3, <3>1, <3>2, RecordsIntent DEF Intent!IntentNext
  <2>. QED
    BY <1>16, <2>2, <2>3 DEF RecordAnswer
<1>17. ASSUME NEW p \in Procs, EnsureLease(p)
       PROVE  [Intent!IntentNext]_(Intent!intentVars)
  BY <1>17 DEF EnsureLease, ResumeWrite, Settled, Shape, HeldMeansOpen
<1>18. ASSUME NEW p \in Procs, NextRound(p)
       PROVE  [Intent!IntentNext]_(Intent!intentVars)
  BY <1>18 DEF NextRound, Settled
<1>19. ASSUME NEW p \in Procs, Park(p) PROVE [Intent!IntentNext]_(Intent!intentVars)
  BY <1>19 DEF Park, ParkedRow, Shape, HeldMeansOpen
<1>20. ASSUME NEW p \in Procs, Finalize(p) PROVE [Intent!IntentNext]_(Intent!intentVars)
  <2>1. CASE /\ HoldsLive(p, "write") /\ batch.phase = "reconciling" /\ Complete
             /\ batch' = Row("finalized", "writing", "none", "none", FALSE)
    <3>1. Stage = "open" /\ Stage' = "finalized"
      BY <2>1
    <3>2. UNCHANGED <<done, landed>> /\ done = Items
      BY <1>20, <2>1 DEF Finalize, Complete
    <3>. QED
      BY <3>1, <3>2 DEF Intent!IntentNext, Intent!Finalize
  <2>2. CASE UNCHANGED batch
    BY <1>20, <2>2 DEF Finalize
  <2>. QED
    BY <1>20, <2>1, <2>2 DEF Finalize
<1>21. ASSUME NEW p \in Procs, PauseRequest(p)
       PROVE  [Intent!IntentNext]_(Intent!intentVars)
  BY <1>21 DEF PauseRequest
<1>22. ASSUME NEW p \in Procs, PauseFinish(p)
       PROVE  [Intent!IntentNext]_(Intent!intentVars)
  BY <1>22 DEF PauseFinish
<1>23. ASSUME NEW p \in Procs, PauseCancelled(p)
       PROVE  [Intent!IntentNext]_(Intent!intentVars)
  BY <1>23 DEF PauseCancelled
<1>24. ASSUME NEW p \in Procs, StopAndReconcile(p)
       PROVE  [Intent!IntentNext]_(Intent!intentVars)
  BY <1>24 DEF StopAndReconcile, BeginReconcile, ReconcileAllowed
<1>25. ASSUME NEW p \in Procs, ReconcileParks(p)
       PROVE  [Intent!IntentNext]_(Intent!intentVars)
  BY <1>25 DEF ReconcileParks, Shape, HeldMeansOpen, HoldsLive, Holds
<1>26. ASSUME NEW p \in Procs, ReconcileNeedsConfirmation(p)
       PROVE  [Intent!IntentNext]_(Intent!intentVars)
  BY <1>26 DEF ReconcileNeedsConfirmation, Shape, HeldMeansOpen, Holds
<1>27. ASSUME NEW p \in Procs, ConfirmReconcile(p)
       PROVE  [Intent!IntentNext]_(Intent!intentVars)
  BY <1>27 DEF ConfirmReconcile, BeginReconcile, Shape, TokenMatchesPark
<1>28. ASSUME NEW p \in Procs, TokenSpent(p)
       PROVE  [Intent!IntentNext]_(Intent!intentVars)
  BY <1>28 DEF TokenSpent
<1>29. ASSUME NEW p \in Procs, ReconcileFolds(p)
       PROVE  [Intent!IntentNext]_(Intent!intentVars)
  BY <1>29 DEF ReconcileFolds, Intent!IntentNext, Intent!Reconcile
<1>30. ASSUME NEW p \in Procs, ReconcileAborts(p)
       PROVE  [Intent!IntentNext]_(Intent!intentVars)
  BY <1>30 DEF ReconcileAborts
<1>31. ASSUME NEW p \in Procs, RunAborts(p)
       PROVE  [Intent!IntentNext]_(Intent!intentVars)
  BY <1>31 DEF RunAborts
<1>32. ASSUME NEW p \in Procs, Crash(p) PROVE [Intent!IntentNext]_(Intent!intentVars)
  <2>1. Stage' = Stage /\ done' = done
    BY <1>32 DEF Crash
  <2>2. PICK applied \in SUBSET Waiting(p) : landed' = landed \cup applied
    BY <1>32 DEF Crash
  <2>3. CASE applied = {}
    BY <2>1, <2>2, <2>3
  <2>4. CASE applied # {}
    <3>1. applied \in SUBSET Items
      BY DEF Waiting
    <3>2. batch.phase # "none"
      BY <2>4 DEF Shape, SentMeansCalling, Unprepared, Calling
    <3>. QED
      BY <2>1, <2>2, <3>1, <3>2 DEF Intent!IntentNext, Intent!Land
  <2>. QED
    BY <2>3, <2>4
<1>33. ASSUME NEW p \in Procs, NEW i \in Items, NEW o \in {"ok"} \cup Failures,
              CallReturns(p, i, o)
       PROVE  [Intent!IntentNext]_(Intent!intentVars)
  BY <1>33 DEF CallReturns, Intent!IntentNext, Intent!Land, Shape, Unprepared, Calling
<1>34. CASE LeaseExpires \/ RetryAfterElapses \/ UNCHANGED vars
  BY <1>34 DEF LeaseExpires, RetryAfterElapses
<1>. QED
  BY <1>1, <1>2, <1>3, <1>4, <1>5, <1>6, <1>7, <1>8, <1>9, <1>10, <1>11, <1>12, <1>13,
     <1>14, <1>15, <1>16, <1>17, <1>18, <1>19, <1>20, <1>21, <1>22, <1>23, <1>24, <1>25,
     <1>26, <1>27, <1>28, <1>29, <1>30, <1>31, <1>32, <1>33, <1>34
     DEF Next, Work, Commands

\* The batch implements WriteIntent: results are recorded once and only for
\* items the provider applied, and a batch is finalized only when complete.
THEOREM ImplementsIntent == Spec => KeepsIntent
<1>1. Init => Intent!IntentInit
  BY DEF Init, Intent!IntentInit, Stage, Open, Parked, Row
<1>. QED
  BY <1>1, Invariance, IntentStep, PTL DEF Spec, KeepsIntent, Intent!IntentSpec

--------------------------------------------------------------------------------
(* Resends: no update is sent again while an earlier attempt at it has no    *)
(* answer, for batches of edits or of deletions.                             *)
(*                                                                           *)
(* The code keeps no record of unanswered attempts.  That none is repeated   *)
(* follows from who may still act on what it read: a worker that holds the   *)
(* lease answers for every attempt but its own round's (Cautious), a         *)
(* reservation for what it read unless the lease it waits for still sends,   *)
(* and a parked phase that lets resume repeat attempts for all of them.      *)
(* Batches that mix edits and deletions retry a deletion of unknown outcome  *)
(* with the edits of its round, and no process may stall for a whole lease   *)
(* between reading the items and resuming them: both are assumed away here,  *)
(* since either lets an edit be sent twice.                                  *)

Unmixed == DeleteItems = {} \/ UpdateItems = {}

\* Every sent attempt at a pending item has been answered.
Certain == uncertain \subseteq done

\* Items of a round without a final answer.
InHand(p) == {i \in Items : out[p][i] \in {"sent", "ok", "unknown"}}

\* The faults that park a batch as one whose attempted items may be repeated.
RetryableFaults == {"rate_limited", "reconnect", "exhausted"}

\* A reservation that would go on without parking the batch again.
Trusting(p) == run[p].pc = "reserved" /\ (run[p].allow \/ ~run[p].doubt)

\* What it trusts is true when it can act on it: nobody else has the lease it read under, or the
\* version it read is stored and the lease that may still send is live.
TrustsRightly(p) ==
  /\ Trusting(p) /\ run[p].active /\ Holds(p, "write") => Certain
  /\ Trusting(p) /\ ~run[p].active /\ p \in current =>
       /\ Certain \/ (lease.live /\ batch.phase = "writing")
       /\ run[p].allow => batch.phase # "writing"

\* A readback works on a parked batch, and what it read as not applied is settled.
ReadsParked(p) ==
  /\ run[p].pc = "verifying" /\ p \in current => batch.phase # "writing"
  /\ run[p].pc = "reading" /\ Holds(p, "write") =>
       batch.phase # "writing" /\ \A i \in Items : out[p][i] = "before" => i \notin uncertain
  /\ run[p].pc # "reading" => \A i \in Items : out[p][i] # "before"

\* A worker that holds the lease has only its own round's calls unanswered.
SendsSurely(p) ==
  Holds(p, "write") =>
    /\ run[p].pc \in {"owned", "loop"} => Certain
    /\ run[p].pc = "parking" /\ run[p].fault \in RetryableFaults => Certain
    /\ Calling(p) /\ run[p].beat # "ensured" => uncertain \subseteq done \cup InHand(p)

Cautious(p) == TrustsRightly(p) /\ ReadsParked(p) /\ SendsSurely(p)

Sure ==
  /\ \A i \in uncertain : attempts[i] > 0
  /\ RetryableParkIsCertain
  /\ \A p \in Procs : Cautious(p)

--------------------------------------------------------------------------------
(* What the model's tests mean.                                              *)

\* The doubt check of a reservation sees every unanswered attempt.
LEMMA DoubtSeesAll ==
  ASSUME TypeOK, \A i \in uncertain : attempts[i] > 0, ~Doubtful
  PROVE  Certain
<1>1. \A i \in UpdateItems \ done : ~(attempts[i] > 0)
  BY DEF Doubtful
<1>. QED
  BY <1>1 DEF TypeOK, Certain

\* preferredProviderWriteFailure prefers an unknown outcome to every failure that is known not to
\* apply, and a stopped heartbeat counts as one.
LEMMA UnknownIsPreferred ==
  ASSUME TypeOK, NEW p \in Procs, HasFailure(p),
         PreferredFailure(p).fault \notin {"unknown", "rejected"}
  PROVE  (\A i \in Items : out[p][i] # "unknown") /\ (run[p].beat # "ensured" \/ Complete)
<1> DEFINE priority == [i \in Failed(p) |-> Priority(FailureOf(out[p][i]))]
           worst == {i \in Failed(p) : \A j \in Failed(p) : priority[j] <= priority[i]}
           added == run[p].beat = "ensured" /\ ~Complete
<1>1. ~(added /\ \A i \in worst : priority[i] < 2)
  BY DEF PreferredFailure
<1>2. PreferredFailure(p).fault = FailureOf(out[p][First(worst)])
  BY <1>1 DEF PreferredFailure
<1>3. \A i \in Failed(p) : priority[i] \in {1, 2}
  BY DEF Priority
<1>4. Failed(p) # {} => worst # {}
  <2>1. CASE \E i \in Failed(p) : priority[i] = 2
    BY <2>1, <1>3
  <2>2. CASE \A i \in Failed(p) : priority[i] = 1
    BY <2>2
  <2>. QED
    BY <2>1, <2>2, <1>3
<1>5. ASSUME worst # {} PROVE First(worst) \in worst /\ priority[First(worst)] = 1
  <2>1. First(worst) \in worst
    <3>. HIDE DEF worst
    <3>1. worst \in SUBSET Items
      BY DEF worst, Failed
    <3>. QED
      BY <1>5, <3>1, FirstIsMember
  <2>. QED
    BY <1>2, <2>1 DEF Priority
<1>6. \A i \in Failed(p) : priority[i] = 1
  <2> SUFFICES ASSUME NEW i \in Failed(p) PROVE priority[i] = 1
    OBVIOUS
  <2>1. worst # {}
    BY <1>4
  <2>. HIDE DEF priority
  <2>2. priority[i] <= priority[First(worst)]
    BY <1>5, <2>1
  <2>. QED
    BY <1>3, <1>5, <2>1, <2>2
<1>7. \A i \in Items : out[p][i] # "unknown"
  <2> SUFFICES ASSUME NEW i \in Items, out[p][i] = "unknown" PROVE FALSE
    OBVIOUS
  <2>1. i \in Failed(p) /\ priority[i] = 2
    BY DEF Failed, FailureOf, Failures, Priority
  <2>. QED
    BY <1>6, <2>1
<1>8. ~added
  <2>1. added => \E i \in worst : ~(priority[i] < 2)
    BY <1>1
  <2>. QED
    BY <1>6, <2>1
<1>. QED
  BY <1>7, <1>8

--------------------------------------------------------------------------------
(* Who else is still cautious after a step.                                  *)

\* Every step but a claim sends nothing and only answers attempts.
Answers ==
  /\ uncertain' \subseteq uncertain /\ done \subseteq done' /\ attempts' = attempts
  /\ \A q \in Procs, i \in Items : ~Sends(q, i)

LEMMA OnlyClaimsSend ==
  ASSUME TypeOK, [Next]_vars, ~\E p \in Procs : Claim(p)
  PROVE  Answers
<1> USE DEF TypeOK, Answers, Sends, vars, store, worker, truth, StopRun, NoCalls
<1>1. ASSUME NEW p \in Procs, RunScheduled(p) PROVE Answers
  BY <1>1 DEF RunScheduled, ReserveRead
<1>2. ASSUME NEW p \in Procs, ResumeCommand(p) PROVE Answers
  BY <1>2 DEF ResumeCommand, ReserveRead
<1>3. ASSUME NEW p \in Procs, ScheduledRefused(p) PROVE Answers
  BY <1>3 DEF ScheduledRefused
<1>4. ASSUME NEW p \in Procs, Tick(p) PROVE Answers
  BY <1>4 DEF Tick
<1>5. ASSUME NEW p \in Procs, Prepare(p) PROVE Answers
  BY <1>5 DEF Prepare
<1>6. ASSUME NEW p \in Procs, ReserveResume(p) PROVE Answers
  BY <1>6 DEF ReserveResume, ResumeWrite
<1>7. ASSUME NEW p \in Procs, VerifyAcquire(p) PROVE Answers
  BY <1>7 DEF VerifyAcquire
<1>8. ASSUME NEW p \in Procs, ReadRequested(p) PROVE Answers
  BY <1>8 DEF ReadRequested, RecordResult
<1>9. ASSUME NEW p \in Procs, ReadBefore(p) PROVE Answers
  BY <1>9 DEF ReadBefore
<1>10. ASSUME NEW p \in Procs, VerifyUnresolved(p) PROVE Answers
  BY <1>10 DEF VerifyUnresolved
<1>11. ASSUME NEW p \in Procs, VerifyDone(p) PROVE Answers
  BY <1>11 DEF VerifyDone
<1>12. ASSUME NEW p \in Procs, EnterRun(p) PROVE Answers
  BY <1>12 DEF EnterRun
<1>13. ASSUME NEW p \in Procs, ClaimRefused(p) PROVE Answers
  BY <1>13 DEF ClaimRefused
<1>14. ASSUME NEW p \in Procs, HeartbeatStops(p) PROVE Answers
  BY <1>14 DEF HeartbeatStops
<1>15. ASSUME NEW p \in Procs, RecordAnswer(p) PROVE Answers
  BY <1>15 DEF RecordAnswer, RecordResult
<1>16. ASSUME NEW p \in Procs, EnsureLease(p) PROVE Answers
  BY <1>16 DEF EnsureLease, ResumeWrite
<1>17. ASSUME NEW p \in Procs, NextRound(p) PROVE Answers
  BY <1>17 DEF NextRound
<1>18. ASSUME NEW p \in Procs, Park(p) PROVE Answers
  BY <1>18 DEF Park
<1>19. ASSUME NEW p \in Procs, Finalize(p) PROVE Answers
  BY ZenonT(40), <1>19 DEF Finalize
<1>20. ASSUME NEW p \in Procs, PauseRequest(p) PROVE Answers
  BY <1>20 DEF PauseRequest
<1>21. ASSUME NEW p \in Procs, PauseFinish(p) PROVE Answers
  BY <1>21 DEF PauseFinish
<1>22. ASSUME NEW p \in Procs, PauseCancelled(p) PROVE Answers
  BY <1>22 DEF PauseCancelled
<1>23. ASSUME NEW p \in Procs, StopAndReconcile(p) PROVE Answers
  BY <1>23 DEF StopAndReconcile, BeginReconcile
<1>24. ASSUME NEW p \in Procs, ReconcileParks(p) PROVE Answers
  BY <1>24 DEF ReconcileParks
<1>25. ASSUME NEW p \in Procs, ReconcileNeedsConfirmation(p) PROVE Answers
  BY <1>25 DEF ReconcileNeedsConfirmation
<1>26. ASSUME NEW p \in Procs, ConfirmReconcile(p) PROVE Answers
  BY <1>26 DEF ConfirmReconcile, BeginReconcile
<1>27. ASSUME NEW p \in Procs, TokenSpent(p) PROVE Answers
  BY <1>27 DEF TokenSpent
<1>28. ASSUME NEW p \in Procs, ReconcileFolds(p) PROVE Answers
  BY <1>28 DEF ReconcileFolds
<1>29. ASSUME NEW p \in Procs, ReconcileAborts(p) PROVE Answers
  BY <1>29 DEF ReconcileAborts
<1>30. ASSUME NEW p \in Procs, RunAborts(p) PROVE Answers
  BY <1>30 DEF RunAborts
<1>31. ASSUME NEW p \in Procs, Crash(p) PROVE Answers
  BY <1>31 DEF Crash
<1>32. ASSUME NEW p \in Procs, NEW i \in Items, NEW o \in {"ok"} \cup Failures,
              CallReturns(p, i, o)
       PROVE  Answers
  BY <1>32 DEF CallReturns
<1>33. CASE LeaseExpires
  BY <1>33 DEF LeaseExpires
<1>34. CASE RetryAfterElapses
  BY <1>34 DEF RetryAfterElapses
<1>35. CASE UNCHANGED vars
  BY <1>35
<1>. QED
  BY <1>1, <1>2, <1>3, <1>4, <1>5, <1>6, <1>7, <1>8, <1>9, <1>10, <1>11, <1>12, <1>13,
     <1>14, <1>15, <1>16, <1>17, <1>18, <1>19, <1>20, <1>21, <1>22, <1>23, <1>24, <1>25,
     <1>26, <1>27, <1>28, <1>29, <1>30, <1>31, <1>32, <1>33, <1>34, <1>35
     DEF Next, Work, Commands

LEMMA CertainKept == Answers /\ Certain => Certain'
  BY DEF Answers, Certain

\* A process that the step leaves alone, and whose lease, version and phase it does not renew.
LEMMA StaysCautious ==
  ASSUME Answers, NEW q \in Procs, Cautious(q), run'[q] = run[q], out'[q] = out[q],
         q \in current' => q \in current,
         Holds(q, "write")' => Holds(q, "write"),
         batch'.phase = "writing" /\ (q \in current' \/ Holds(q, "write")') => batch.phase = "writing",
         lease.live /\ batch.phase = "writing" /\ q \in current' =>
           Certain' \/ (lease'.live /\ batch'.phase = "writing")
  PROVE  Cautious(q)'
<1>1. TrustsRightly(q)'
  BY CertainKept DEF Cautious, TrustsRightly, Trusting
<1>2. ReadsParked(q)'
  BY DEF Cautious, ReadsParked, Answers
<1>3. SendsSurely(q)'
  BY CertainKept DEF Cautious, SendsSurely, Answers, Calling, InHand
<1>. QED
  BY <1>1, <1>2, <1>3 DEF Cautious

\* A step that leaves the lease and the phase alone.
LEMMA UndisturbedCautious ==
  ASSUME Answers, NEW q \in Procs, Cautious(q), run'[q] = run[q], out'[q] = out[q],
         q \in current' => q \in current, lease' = lease, batch'.phase = batch.phase
  PROVE  Cautious(q)'
  BY StaysCautious DEF Holds

\* A process without the lease and with an old version has to be cautious about nothing.
LEMMA StaleCautious ==
  ASSUME NEW q \in Procs, q \notin current', ~Holds(q, "write")',
         run'[q].pc # "reading" => \A i \in Items : out'[q][i] # "before"
  PROVE  Cautious(q)'
  BY DEF Cautious, TrustsRightly, Trusting, ReadsParked, SendsSurely

\* Neither has one whose worker has returned.
LEMMA StoppedCautious ==
  ASSUME NEW q \in Procs, run'[q].pc \in {"idle", "scheduled"}, \A i \in Items : out'[q][i] # "before"
  PROVE  Cautious(q)'
  BY DEF Cautious, TrustsRightly, Trusting, ReadsParked, SendsSurely, Calling

LEMMA StopRunIs ==
  ASSUME TypeOK, NEW p \in Procs, NEW copies, StopRun(p, copies)
  PROVE  /\ run'[p].pc = "idle" /\ \A i \in Items : out'[p][i] # "before"
         /\ \A q \in Procs \ {p} : run'[q] = run[q] /\ out'[q] = out[q]
         /\ current' = copies \ {p}
         /\ Cautious(p)'
<1>1. /\ run'[p].pc = "idle" /\ \A i \in Items : out'[p][i] # "before"
      /\ \A q \in Procs \ {p} : run'[q] = run[q] /\ out'[q] = out[q]
      /\ current' = copies \ {p}
  BY DEF StopRun, IdleRun, NoCalls, TypeOK
<1>. QED
  BY <1>1, StoppedCautious

\* A worker that returns and touches neither the lease nor the phase.
LEMMA StopKeeps ==
  ASSUME TypeOK, Answers, NEW p \in Procs, \A q \in Procs : Cautious(q), StopRun(p, current),
         lease' = lease, batch'.phase = batch.phase
  PROVE  \A q \in Procs : Cautious(q)'
<1>1. \A q \in Procs \ {p} : Cautious(q)'
  BY StopRunIs, UndisturbedCautious
<1>. QED
  BY <1>1, StopRunIs

\* Only parkProviderWriteFailure makes a phase that lets resume repeat attempts.
RetryAllowed == AllowsAttemptedRetry /\ batch.target = "writing"

LEMMA OnlyParkAllowsRetry ==
  ASSUME [Next]_vars, TypeOK, ~\E p \in Procs : Park(p), RetryAllowed'
  PROVE  RetryAllowed
<1> USE DEF RetryAllowed, AllowsAttemptedRetry, vars, store, Row, Writing, Reconciling
<1>1. ASSUME NEW p \in Procs, RunScheduled(p) PROVE RetryAllowed
  BY <1>1 DEF RunScheduled, ReserveRead
<1>2. ASSUME NEW p \in Procs, ResumeCommand(p) PROVE RetryAllowed
  BY <1>2 DEF ResumeCommand, ReserveRead
<1>3. ASSUME NEW p \in Procs, ScheduledRefused(p) PROVE RetryAllowed
  BY <1>3 DEF ScheduledRefused
<1>4. ASSUME NEW p \in Procs, Tick(p) PROVE RetryAllowed
  BY <1>4 DEF Tick
<1>5. ASSUME NEW p \in Procs, Prepare(p) PROVE RetryAllowed
  BY <1>5 DEF Prepare
<1>6. ASSUME NEW p \in Procs, ReserveResume(p) PROVE RetryAllowed
  BY <1>6 DEF ReserveResume, ResumeWrite
<1>7. ASSUME NEW p \in Procs, VerifyAcquire(p) PROVE RetryAllowed
  BY <1>7 DEF VerifyAcquire
<1>8. ASSUME NEW p \in Procs, ReadRequested(p) PROVE RetryAllowed
  BY <1>8 DEF ReadRequested, RecordResult
<1>9. ASSUME NEW p \in Procs, ReadBefore(p) PROVE RetryAllowed
  BY <1>9 DEF ReadBefore
<1>10. ASSUME NEW p \in Procs, VerifyUnresolved(p) PROVE RetryAllowed
  BY <1>10 DEF VerifyUnresolved
<1>11. ASSUME NEW p \in Procs, VerifyDone(p) PROVE RetryAllowed
  BY <1>11 DEF VerifyDone
<1>12. ASSUME NEW p \in Procs, EnterRun(p) PROVE RetryAllowed
  BY <1>12 DEF EnterRun
<1>13. ASSUME NEW p \in Procs, ClaimRefused(p) PROVE RetryAllowed
  BY <1>13 DEF ClaimRefused
<1>14. ASSUME NEW p \in Procs, HeartbeatStops(p) PROVE RetryAllowed
  BY <1>14 DEF HeartbeatStops
<1>15. ASSUME NEW p \in Procs, RecordAnswer(p) PROVE RetryAllowed
  BY <1>15 DEF RecordAnswer, RecordResult
<1>16. ASSUME NEW p \in Procs, EnsureLease(p) PROVE RetryAllowed
  BY <1>16 DEF EnsureLease, ResumeWrite
<1>17. ASSUME NEW p \in Procs, NextRound(p) PROVE RetryAllowed
  BY <1>17 DEF NextRound
<1>18. ASSUME NEW p \in Procs, Finalize(p) PROVE RetryAllowed
  BY <1>18 DEF Finalize
<1>19. ASSUME NEW p \in Procs, PauseRequest(p) PROVE RetryAllowed
  BY <1>19 DEF PauseRequest
<1>20. ASSUME NEW p \in Procs, PauseFinish(p) PROVE RetryAllowed
  BY <1>20 DEF PauseFinish
<1>21. ASSUME NEW p \in Procs, PauseCancelled(p) PROVE RetryAllowed
  BY <1>21 DEF PauseCancelled
<1>22. ASSUME NEW p \in Procs, StopAndReconcile(p) PROVE RetryAllowed
  BY <1>22 DEF StopAndReconcile, BeginReconcile
<1>23. ASSUME NEW p \in Procs, ReconcileParks(p) PROVE RetryAllowed
  BY <1>23 DEF ReconcileParks
<1>24. ASSUME NEW p \in Procs, ReconcileNeedsConfirmation(p) PROVE RetryAllowed
  BY <1>24 DEF ReconcileNeedsConfirmation
<1>25. ASSUME NEW p \in Procs, ConfirmReconcile(p) PROVE RetryAllowed
  BY <1>25 DEF ConfirmReconcile, BeginReconcile
<1>26. ASSUME NEW p \in Procs, TokenSpent(p) PROVE RetryAllowed
  BY <1>26 DEF TokenSpent
<1>27. ASSUME NEW p \in Procs, ReconcileFolds(p) PROVE RetryAllowed
  BY <1>27 DEF ReconcileFolds
<1>28. ASSUME NEW p \in Procs, ReconcileAborts(p) PROVE RetryAllowed
  BY <1>28 DEF ReconcileAborts
<1>29. ASSUME NEW p \in Procs, RunAborts(p) PROVE RetryAllowed
  BY <1>29 DEF RunAborts
<1>30. ASSUME NEW p \in Procs, Crash(p) PROVE RetryAllowed
  BY <1>30 DEF Crash
<1>31. ASSUME NEW p \in Procs, Claim(p) PROVE RetryAllowed
  BY <1>31 DEF Claim
<1>32. ASSUME NEW p \in Procs, NEW i \in Items, NEW o \in {"ok"} \cup Failures,
              CallReturns(p, i, o)
       PROVE  RetryAllowed
  BY <1>32 DEF CallReturns
<1>33. CASE LeaseExpires
  BY <1>33 DEF LeaseExpires
<1>34. CASE RetryAfterElapses
  BY <1>34 DEF RetryAfterElapses, TypeOK, BatchRows
<1>35. CASE UNCHANGED vars
  BY <1>35
<1>. QED
  BY <1>1, <1>2, <1>3, <1>4, <1>5, <1>6, <1>7, <1>8, <1>9, <1>10, <1>11, <1>12, <1>13,
     <1>14, <1>15, <1>16, <1>17, <1>18, <1>19, <1>20, <1>21, <1>22, <1>23, <1>24, <1>25,
     <1>26, <1>27, <1>28, <1>29, <1>30, <1>31, <1>32, <1>33, <1>34, <1>35
     DEF Next, Work, Commands

--------------------------------------------------------------------------------
(* Who is cautious after each step.                                          *)

\* What every one of the step lemmas starts from.
Started == ~StalledReads /\ Unmixed /\ TypeOK /\ Shape /\ Sure

\* The first read of a reservation sees what it may trust.
LEMMA ReserveReadCautious ==
  ASSUME Started, Answers, NEW p \in Procs, NEW explicit \in BOOLEAN, ReserveRead(p, explicit),
         run[p].pc # "reading"
  PROVE  \A q \in Procs : Cautious(q)'
<1> USE DEF Started, TypeOK
<1>1. /\ \A q \in Procs \ {p} : run'[q] = run[q]
      /\ current' = current \cup {p}
      /\ UNCHANGED <<batch, lease, done, attempts, out, uncertain>>
      /\ Reservable(explicit)
  BY DEF ReserveRead, store, truth
<1>2. /\ run'[p].pc = IF NeedsReadback THEN "verifying" ELSE "reserved"
      /\ run'[p].active = (HoldsLive(p, "write") /\ batch.phase \in {"writing", "reconciling"})
      /\ run'[p].allow = AllowsAttemptedRetry
      /\ run'[p].doubt = Doubtful
  BY DEF ReserveRead
<1>3. \A q \in Procs \ {p} : Cautious(q)'
  BY <1>1, UndisturbedCautious DEF Sure
<1>4. ~Doubtful => Certain
  BY DoubtSeesAll DEF Sure
<1>5. AllowsAttemptedRetry => Certain
  BY <1>1 DEF Reservable, Sure, RetryableParkIsCertain, Certain
<1>6. AllowsAttemptedRetry => batch.phase \notin {"writing", "reconciling"}
  BY DEF AllowsAttemptedRetry
<1>7. TrustsRightly(p)'
  <2>1. Trusting(p)' => Certain'
    BY <1>1, <1>2, <1>4, <1>5 DEF Trusting, Certain
  <2>2. Trusting(p)' /\ run'[p].allow => batch'.phase # "writing"
    BY <1>1, <1>2, <1>6
  <2>. QED
    BY <2>1, <2>2 DEF TrustsRightly
<1>8. ReadsParked(p)'
  BY <1>1, <1>2 DEF ReadsParked, NeedsReadback, Sure, Cautious
<1>9. SendsSurely(p)'
  BY <1>2 DEF SendsSurely, Calling
<1>. QED
  BY <1>3, <1>7, <1>8, <1>9 DEF Cautious

\* A reservation goes on only with what it may trust.
LEMMA ReserveResumeCautious ==
  ASSUME Started, TypeOK', Answers, NEW p \in Procs, ReserveResume(p)
  PROVE  \A q \in Procs : Cautious(q)'
<1> USE DEF Started, TypeOK
<1>1. /\ run[p].pc = "reserved" /\ Cautious(p)
      /\ \A q \in Procs, i \in Items : run[q].pc # "reading" => out[q][i] # "before"
  BY DEF ReserveResume, Sure, Cautious, ReadsParked
<1>2. ASSUME Admit(p), out' = out, Holds(p, "write")', Trusting(p) => Certain'
      PROVE  Cautious(p)'
  <2>1. \/ run'[p].pc = "parking" /\ run'[p].fault = "unknown"
        \/ run'[p].pc = "owned" /\ Trusting(p)
    <3>1. CASE run[p].doubt /\ ~run[p].allow
      <4>1. run'[p] = [IdleRun EXCEPT !.asked = run[p].asked, !.pc = "parking", !.fault = "unknown"]
        BY <1>2, <3>1 DEF Admit
      <4>. QED
        BY <4>1 DEF IdleRun
    <3>2. CASE ~(run[p].doubt /\ ~run[p].allow)
      BY <1>1, <1>2, <3>2 DEF Admit, IdleRun, Trusting
    <3>. QED
      BY <3>1, <3>2
  <2>. QED
    BY <1>1, <1>2, <2>1
       DEF Cautious, TrustsRightly, Trusting, ReadsParked, SendsSurely, Calling, RetryableFaults
<1>3. CASE run[p].active /\ Admit(p) /\ UNCHANGED <<store, out, current, command, truth, faults>>
  <2>1. \A q \in Procs \ {p} : run'[q] = run[q]
    BY <1>3 DEF Admit
  <2>2. \A q \in Procs \ {p} : Cautious(q)'
    BY <1>3, <2>1, UndisturbedCautious DEF Sure, store
  <2>3. CASE Holds(p, "write")
    BY <1>1, <1>2, <1>3, <2>2, <2>3, CertainKept
       DEF Cautious, TrustsRightly, Trusting, Holds, store
  <2>4. CASE ~Holds(p, "write")
    <3>1. run'[p].pc \in {"parking", "owned"}
      BY <1>3 DEF Admit, IdleRun
    <3>2. ~Holds(p, "write")' /\ out' = out
      BY <1>3, <2>4 DEF Holds, store
    <3>3. Cautious(p)'
      BY <1>1, <3>1, <3>2 DEF Cautious, TrustsRightly, Trusting, ReadsParked, SendsSurely
    <3>. QED
      BY <2>2, <3>3
  <2>. QED
    BY <2>3, <2>4
<1>4. CASE /\ ~run[p].active /\ ResumeWrite(p) /\ Admit(p)
           /\ UNCHANGED <<done, attempts, out, pausing, cmd, landed, uncertain, faults>>
  <2>1. /\ p \in current /\ ~lease.live /\ current' = {p}
        /\ lease'.owner = p /\ lease'.kind = "write"
    BY <1>4 DEF ResumeWrite, Acquire, LeaseFree, Bump
  <2>2. \A q \in Procs \ {p} : run'[q] = run[q]
    BY <1>4 DEF Admit
  <2>3. \A q \in Procs \ {p} : Cautious(q)'
    BY <1>1, <1>4, <2>1, <2>2, StaleCautious DEF Holds
  <2>4. Trusting(p) => Certain'
    BY <1>1, <1>4, <2>1, CertainKept DEF Cautious, TrustsRightly, Trusting
  <2>5. Cautious(p)'
    BY <1>2, <1>4, <2>1, <2>4 DEF Holds
  <2>. QED
    BY <2>3, <2>5
<1>5. CASE StopRun(p, current) /\ UNCHANGED <<store, command, landed, uncertain, faults>>
  BY <1>5, StopKeeps DEF Sure, store
<1>. QED
  BY <1>3, <1>4, <1>5 DEF ReserveResume

\* A readback takes the lease of a parked batch only.
LEMMA VerifyAcquireCautious ==
  ASSUME Started, Answers, NEW p \in Procs, VerifyAcquire(p)
  PROVE  \A q \in Procs : Cautious(q)'
<1> USE DEF Started, TypeOK
<1>1. CASE StopRun(p, current) /\ UNCHANGED <<store, command, landed, uncertain, faults>>
  BY <1>1, StopKeeps DEF Sure, store
<1>2. CASE /\ p \in current /\ Acquire(p, "write") /\ Goto(p, "reading")
           /\ UNCHANGED <<batch, done, attempts, out, current, command, landed, uncertain, faults>>
  <2>1. /\ ~lease.live /\ lease'.owner = p
        /\ run'[p].pc = "reading" /\ \A q \in Procs \ {p} : run'[q] = run[q]
    BY <1>2 DEF Acquire, LeaseFree, Goto
  <2>2. \A q \in Procs \ {p} : Cautious(q)'
    <3> SUFFICES ASSUME NEW q \in Procs \ {p} PROVE Cautious(q)'
      OBVIOUS
    <3>1. ~Holds(q, "write")'
      BY <2>1 DEF Holds
    <3>. QED
      BY <1>2, <2>1, <3>1, StaysCautious DEF Sure
  <2>3. run[p].pc = "verifying" /\ Cautious(p)
    BY DEF VerifyAcquire, Sure
  <2>4. Cautious(p)'
    BY <1>2, <2>1, <2>3
       DEF Cautious, TrustsRightly, Trusting, ReadsParked, SendsSurely, Calling
  <2>. QED
    BY <2>2, <2>4
<1>. QED
  BY <1>1, <1>2 DEF VerifyAcquire

\* A readback step settles items of a parked batch.
LEMMA ReadRequestedCautious ==
  ASSUME Started, Answers, NEW p \in Procs, ReadRequested(p)
  PROVE  \A q \in Procs : Cautious(q)'
<1> USE DEF Started, TypeOK
<1>1. PICK i \in Items : RecordResult(p, i)
  BY DEF ReadRequested, UpdateItems
<1>2. /\ UNCHANGED <<lease, run, out>> /\ run[p].pc = "reading"
      /\ HoldsLive(p, "write") /\ p \in current
  BY DEF ReadRequested
<1>3. current' = {p} /\ (batch'.phase = "writing" => batch.phase = "writing")
  BY <1>1 DEF RecordResult, Bump, Reconciling, Row
<1>4. batch.phase # "writing"
  BY <1>2 DEF Sure, Cautious, ReadsParked, HoldsLive
<1>. QED
  BY <1>2, <1>3, <1>4, StaysCautious DEF Sure, Holds

LEMMA ReadBeforeCautious ==
  ASSUME Started, Answers, NEW p \in Procs, ReadBefore(p)
  PROVE  \A q \in Procs : Cautious(q)'
<1> USE DEF Started, TypeOK
<1>1. PICK i \in Items : out' = [out EXCEPT ![p][i] = "before"] /\ uncertain' = uncertain \ {i}
  BY DEF ReadBefore, UpdateItems
<1>2. UNCHANGED <<batch, lease, run, current>> /\ run[p].pc = "reading"
  BY DEF ReadBefore, store
<1>3. \A q \in Procs \ {p} : Cautious(q)'
  <2>1. \A q \in Procs \ {p} : out'[q] = out[q]
    BY <1>1
  <2>. QED
    BY <1>2, <2>1, UndisturbedCautious DEF Sure
<1>4. \A j \in Items : out'[p][j] = "before" => j = i \/ out[p][j] = "before"
  BY <1>1
<1>5. Cautious(p)
  BY DEF Sure
<1>6. Cautious(p)'
  BY <1>1, <1>2, <1>4, <1>5
     DEF Cautious, TrustsRightly, Trusting, ReadsParked, SendsSurely, Calling, Holds
<1>. QED
  BY <1>3, <1>6

LEMMA VerifyUnresolvedCautious ==
  ASSUME Started, Answers, NEW p \in Procs, VerifyUnresolved(p)
  PROVE  \A q \in Procs : Cautious(q)'
<1> USE DEF Started, TypeOK
<1>1. StopRun(p, current) /\ UNCHANGED batch /\ run[p].pc = "reading"
  BY DEF VerifyUnresolved
<1>2. IF Holds(p, "write") THEN lease'.owner = NoProc ELSE lease' = lease
  BY DEF VerifyUnresolved, ReleaseLease, NoLease
<1>3. Holds(p, "write") => batch.phase # "writing"
  BY <1>1 DEF Sure, Cautious, ReadsParked
<1>4. ASSUME NEW q \in Procs \ {p} PROVE Cautious(q)'
  <2>1. Holds(q, "write")' => Holds(q, "write")
    BY <1>2, ConstantAssumption DEF Holds
  <2>2. run'[q] = run[q] /\ out'[q] = out[q] /\ (q \in current' => q \in current)
    BY <1>1, StopRunIs
  <2>3. lease.live /\ batch.phase = "writing" => lease'.live /\ batch'.phase = "writing"
    BY <1>1, <1>2, <1>3
  <2>. QED
    BY <1>1, <2>1, <2>2, <2>3, StaysCautious DEF Sure
<1>. QED
  BY <1>1, <1>4, StopRunIs

\* A readback that settled every item has left no doubt.
LEMMA VerifyDoneCautious ==
  ASSUME Started, Answers, NEW p \in Procs, VerifyDone(p)
  PROVE  \A q \in Procs : Cautious(q)'
<1> USE DEF Started, TypeOK
<1>1. /\ run[p].pc = "reading" /\ Unverified(p) = {} /\ HoldsLive(p, "write")
      /\ batch'.phase = "paused" /\ lease'.owner = NoProc /\ current' = {p}
      /\ UNCHANGED <<done, uncertain>>
  BY DEF VerifyDone, Row, NoLease, Bump, truth
<1>2. /\ run'[p].pc = "reserved" /\ ~run'[p].active
      /\ \A q \in Procs \ {p} : run'[q] = run[q] /\ out'[q] = out[q]
      /\ \A i \in Items : out'[p][i] # "before"
  BY DEF VerifyDone, IdleRun, NoCalls
<1>3. Certain
  <2> SUFFICES ASSUME NEW i \in uncertain, i \notin done PROVE FALSE
    BY DEF Certain
  <2>1. i \in Items /\ i \notin DeleteItems /\ attempts[i] > 0
    BY DEF Sure, UpdateItems
  <2>2. out[p][i] = "before"
    BY <1>1, <2>1 DEF Unverified
  <2>. QED
    BY <1>1, <2>1, <2>2 DEF Sure, Cautious, ReadsParked, HoldsLive
<1>4. Certain'
  BY <1>1, <1>3 DEF Certain
<1>5. \A q \in Procs : ~Holds(q, "write")'
  BY <1>1, ConstantAssumption DEF Holds
<1>6. \A q \in Procs \ {p} : Cautious(q)'
  <2>1. ASSUME NEW q \in Procs, run[q].pc # "reading" PROVE \A i \in Items : out[q][i] # "before"
    BY <2>1 DEF Sure, Cautious, ReadsParked
  <2>. QED
    BY <1>1, <1>2, <1>5, <2>1, StaleCautious
<1>7. Cautious(p)'
  BY <1>1, <1>2, <1>4, <1>5
     DEF Cautious, TrustsRightly, Trusting, ReadsParked, SendsSurely
<1>. QED
  BY <1>6, <1>7

\* A worker that finds its lease gone reserves again, and doubts what it sees.
LEMMA EnterRunCautious ==
  ASSUME Started, Answers, NEW p \in Procs, EnterRun(p)
  PROVE  \A q \in Procs : Cautious(q)'
<1> USE DEF Started, TypeOK
<1>1. /\ UNCHANGED <<batch, lease, done, attempts, uncertain>>
      /\ run[p].pc = "owned" /\ Cautious(p)
  BY DEF EnterRun, store, Sure
<1>2. CASE StopRun(p, current)
  BY <1>1, <1>2, StopKeeps DEF Sure
<1>3. ASSUME current' = current \cup {p}, out' = out,
             \A q \in Procs \ {p} : run'[q] = run[q], Cautious(p)'
      PROVE  \A q \in Procs : Cautious(q)'
  BY <1>1, <1>3, UndisturbedCautious DEF Sure
<1>4. CASE /\ run' = [run EXCEPT ![p] = [IdleRun EXCEPT !.pc = "reserved", !.doubt = Doubtful]]
           /\ current' = current \cup {p} /\ out' = out
  <2>1. /\ run'[p].pc = "reserved" /\ ~run'[p].allow /\ run'[p].doubt = Doubtful
        /\ \A q \in Procs \ {p} : run'[q] = run[q]
    BY <1>4 DEF IdleRun
  <2>2. ~Doubtful => Certain'
    BY <1>1, DoubtSeesAll DEF Sure, Certain
  <2>3. Cautious(p)'
    BY <1>1, <1>4, <2>1, <2>2
       DEF Cautious, TrustsRightly, Trusting, ReadsParked, SendsSurely, Calling
  <2>. QED
    BY <1>3, <1>4, <2>1, <2>3
<1>5. CASE /\ current' = current \cup {p} /\ out' = out
           /\ \/ Goto(p, "loop")
              \/ \E f \in {"reconnect", "rate_limited", "incomplete", "rejected"} : Fail(p, f)
              \/ Goto(p, "finalizing")
  <2>1. run'[p].pc \in {"loop", "parking", "finalizing"} /\ \A q \in Procs \ {p} : run'[q] = run[q]
    <3>1. ASSUME NEW f, Fail(p, f)
          PROVE  run'[p].pc = "parking" /\ \A q \in Procs \ {p} : run'[q] = run[q]
      BY <3>1 DEF Fail
    <3>2. ASSUME NEW pc, Goto(p, pc)
          PROVE  run'[p].pc = pc /\ \A q \in Procs \ {p} : run'[q] = run[q]
      BY <3>2 DEF Goto
    <3>. QED
      BY <1>5, <3>1, <3>2
  <2>2. Holds(p, "write") => Certain'
    BY <1>1 DEF Cautious, SendsSurely, Certain
  <2>3. Cautious(p)'
    BY <1>1, <1>5, <2>1, <2>2
       DEF Cautious, TrustsRightly, Trusting, ReadsParked, SendsSurely, Calling, Holds
  <2>. QED
    BY <1>3, <1>5, <2>1, <2>3
<1>. QED
  BY <1>2, <1>4, <1>5 DEF EnterRun

\* A claim sends nothing in doubt, and answers for what it sends.
LEMMA ClaimCautious ==
  ASSUME Started, NEW p \in Procs, Claim(p)
  PROVE  Sure'
<1> USE DEF Started, TypeOK
<1>1. /\ run[p].pc = "loop" /\ HoldsLive(p, "write") /\ batch.phase = "writing"
      /\ UNCHANGED <<batch, done, lease, current>>
      /\ uncertain' = uncertain \cup (Claimed(p) \cap UpdateItems)
      /\ Claimed(p) \subseteq Items
  BY DEF Claim, CanClaim, command, Claimed, Claimable
<1>2. /\ run'[p].pc = "calling"
      /\ \A q \in Procs \ {p} : run'[q] = run[q] /\ out'[q] = out[q]
      /\ \A i \in Items : out'[p][i] = IF i \in Claimed(p) THEN "sent" ELSE "none"
  BY DEF Claim
<1>3. \A i \in uncertain' : attempts'[i] > 0
  <2> SUFFICES ASSUME NEW i \in uncertain' PROVE attempts'[i] > 0
    OBVIOUS
  <2>1. i \in Items /\ attempts[i] \in 0..ProviderWriteAttempts
    BY <1>1 DEF UpdateItems
  <2>2. attempts'[i] = IF i \in Claimed(p) /\ attempts[i] < ProviderWriteAttempts
                       THEN attempts[i] + 1 ELSE attempts[i]
    BY <2>1 DEF Claim
  <2>3. i \in Claimed(p) \/ attempts[i] > 0
    BY <1>1 DEF Sure
  <2>. QED
    BY <2>1, <2>2, <2>3, ConstantAssumption
<1>4. RetryableParkIsCertain'
  BY <1>1 DEF RetryableParkIsCertain, AllowsAttemptedRetry
<1>5. Certain
  BY <1>1 DEF Sure, Cautious, SendsSurely, HoldsLive
<1>6. Cautious(p)'
  <2>1. uncertain' \subseteq done' \cup InHand(p)'
    BY <1>1, <1>2, <1>5 DEF Certain, InHand
  <2>2. \A i \in Items : out'[p][i] # "before"
    BY <1>2
  <2>. QED
    BY <1>2, <2>1, <2>2 DEF Cautious, TrustsRightly, Trusting, ReadsParked, SendsSurely
<1>7. ASSUME NEW q \in Procs \ {p} PROVE Cautious(q)'
  <2>1. ~Holds(q, "write") /\ ~Holds(q, "write")' /\ lease.live
    BY <1>1 DEF Holds, HoldsLive
  <2>2. Cautious(q)
    BY DEF Sure
  <2>. QED
    BY <1>1, <1>2, <2>1, <2>2 DEF Cautious, TrustsRightly, Trusting, ReadsParked, SendsSurely
<1>. QED
  BY <1>3, <1>4, <1>6, <1>7 DEF Sure

LEMMA HeartbeatStopsCautious ==
  ASSUME Started, Answers, NEW p \in Procs, HeartbeatStops(p)
  PROVE  \A q \in Procs : Cautious(q)'
<1> USE DEF Started, TypeOK
<1>1. /\ run[p].pc = "calling" /\ run[p].beat = "ok" /\ run'[p].pc = "calling"
      /\ \A q \in Procs \ {p} : run'[q] = run[q]
      /\ UNCHANGED <<batch, lease, done, out, current, uncertain>>
      /\ Cautious(p)
  BY DEF HeartbeatStops, Calling, store, truth, Sure
<1>2. \A q \in Procs \ {p} : Cautious(q)'
  BY <1>1, UndisturbedCautious DEF Sure
<1>3. Cautious(p)'
  BY <1>1 DEF Cautious, TrustsRightly, Trusting, ReadsParked, SendsSurely, Calling, InHand, Holds
<1>. QED
  BY <1>2, <1>3

\* An answer settles its attempt, unless it says that nobody knows.
LEMMA CallReturnsCautious ==
  ASSUME Started, Answers, NEW p \in Procs, NEW i \in Items, NEW o \in {"ok"} \cup Failures,
         CallReturns(p, i, o)
  PROVE  \A q \in Procs : Cautious(q)'
<1> USE DEF Started, TypeOK
<1>1. /\ run[p].pc = "calling" /\ out' = [out EXCEPT ![p][i] = o]
      /\ UNCHANGED <<batch, lease, run, done, current>>
      /\ Cautious(p)
  BY DEF CallReturns, Calling, store, Sure
<1>2. o # "before" /\ (i \in uncertain' => o \in {"ok", "unknown"})
  BY DEF CallReturns, Failures, NotApplied
<1>3. /\ out'[p][i] = o /\ \A j \in Items \ {i} : out'[p][j] = out[p][j]
      /\ \A q \in Procs \ {p} : out'[q] = out[q]
  BY <1>1
<1>4. \A q \in Procs \ {p} : Cautious(q)'
  BY <1>1, <1>3, UndisturbedCautious DEF Sure
<1>5. uncertain \subseteq done \cup InHand(p) => uncertain' \subseteq done' \cup InHand(p)'
  BY <1>1, <1>2, <1>3 DEF Answers, InHand, UpdateItems
<1>6. Cautious(p)'
  BY <1>1, <1>2, <1>3, <1>5
     DEF Cautious, TrustsRightly, Trusting, ReadsParked, SendsSurely, Calling, Holds
<1>. QED
  BY <1>4, <1>6

LEMMA RecordAnswerCautious ==
  ASSUME Started, Answers, NEW p \in Procs, RecordAnswer(p)
  PROVE  \A q \in Procs : Cautious(q)'
<1> USE DEF Started, TypeOK
<1>1. /\ run[p].pc = "calling" /\ lease' = lease /\ Answered(p) # {} /\ Cautious(p)
  BY DEF RecordAnswer, Calling, Sure
<1>2. First(Answered(p)) \in Items
  <2>1. Answered(p) \subseteq Items
    BY DEF Answered
  <2>. QED
    BY <1>1, <2>1, FirstIsMember
<1>3. PICK i \in Items :
         \/ /\ out[p][i] = "ok" /\ RecordResult(p, i)
            /\ out' = [out EXCEPT ![p][i] = "recorded"] /\ UNCHANGED run
         \/ StopRun(p, current) /\ UNCHANGED batch
         \/ /\ out[p][i] = "incomplete" /\ out' = [out EXCEPT ![p][i] = "abnormal"]
            /\ current' = current \cup {p} /\ UNCHANGED <<run, batch, done, uncertain>>
  BY <1>2 DEF RecordAnswer
<1>4. CASE /\ RecordResult(p, i) /\ out' = [out EXCEPT ![p][i] = "recorded"] /\ UNCHANGED run
  <2>1. /\ current' = {p} /\ (batch'.phase = "writing" => batch.phase = "writing")
        /\ done' = done \cup {i} /\ uncertain' = uncertain \ {i}
    BY <1>4 DEF RecordResult, Bump, Reconciling, Row
  <2>2. /\ out'[p][i] = "recorded" /\ \A j \in Items \ {i} : out'[p][j] = out[p][j]
        /\ \A q \in Procs \ {p} : out'[q] = out[q]
    BY <1>4
  <2>3. ASSUME NEW q \in Procs \ {p} PROVE Cautious(q)'
    BY <1>1, <1>4, <2>1, <2>2, StaysCautious DEF Sure, Holds
  <2>4. uncertain \subseteq done \cup InHand(p) => uncertain' \subseteq done' \cup InHand(p)'
    BY <2>1, <2>2 DEF InHand
  <2>5. Cautious(p)'
    BY <1>1, <1>4, <2>1, <2>2, <2>4
       DEF Cautious, TrustsRightly, Trusting, ReadsParked, SendsSurely, Calling, Holds
  <2>. QED
    BY <2>3, <2>5
<1>5. CASE StopRun(p, current) /\ UNCHANGED batch
  BY <1>1, <1>5, StopKeeps DEF Sure
<1>6. CASE /\ out[p][i] = "incomplete" /\ out' = [out EXCEPT ![p][i] = "abnormal"]
           /\ current' = current \cup {p} /\ UNCHANGED <<run, batch, done, uncertain>>
  <2>1. /\ out'[p][i] = "abnormal" /\ \A j \in Items \ {i} : out'[p][j] = out[p][j]
        /\ \A q \in Procs \ {p} : out'[q] = out[q]
    BY <1>6
  <2>2. \A q \in Procs \ {p} : Cautious(q)'
    BY <1>1, <1>6, <2>1, UndisturbedCautious DEF Sure
  <2>3. InHand(p)' = InHand(p)
    BY <1>6, <2>1 DEF InHand
  <2>4. Cautious(p)'
    BY <1>1, <1>6, <2>1, <2>3
       DEF Cautious, TrustsRightly, Trusting, ReadsParked, SendsSurely, Calling, Holds
  <2>. QED
    BY <2>2, <2>4
<1>. QED
  BY <1>3, <1>4, <1>5, <1>6

\* A worker that takes its lease again no longer answers for the others.
LEMMA EnsureLeaseCautious ==
  ASSUME Started, Answers, NEW p \in Procs, EnsureLease(p)
  PROVE  \A q \in Procs : Cautious(q)'
<1> USE DEF Started, TypeOK
<1>1. /\ run[p].pc = "calling" /\ Cautious(p)
      /\ \A q \in Procs, i \in Items : run[q].pc # "reading" => out[q][i] # "before"
  BY DEF EnsureLease, Settled, Calling, Sure, Cautious, ReadsParked
<1>2. CASE StopRun(p, current) /\ UNCHANGED <<store, tokens>>
  BY <1>2, StopKeeps DEF Sure, store
<1>3. CASE run' = [run EXCEPT ![p].beat = "ensured"] /\ out' = out
  <2>1. /\ run'[p].pc = "calling" /\ run'[p].beat = "ensured"
        /\ \A q \in Procs \ {p} : run'[q] = run[q]
    BY <1>1, <1>3
  <2>2. Cautious(p)'
    BY <1>1, <1>3, <2>1
       DEF Cautious, TrustsRightly, Trusting, ReadsParked, SendsSurely, Calling
  <2>3. CASE current' = current \cup {p} /\ UNCHANGED store
    <3>1. \A q \in Procs \ {p} : Cautious(q)'
      BY <1>3, <2>1, <2>3, UndisturbedCautious DEF Sure, store
    <3>. QED
      BY <2>2, <3>1
  <2>4. CASE ResumeWrite(p)
    <3>1. lease'.owner = p /\ current' = {p}
      BY <2>4 DEF ResumeWrite, Acquire, Bump
    <3>2. \A q \in Procs \ {p} : Cautious(q)'
      BY <1>1, <1>3, <2>1, <3>1, StaleCautious DEF Holds
    <3>. QED
      BY <2>2, <3>2
  <2>. QED
    BY <1>3, <2>1, <2>3, <2>4, <1>2 DEF EnsureLease
<1>. QED
  BY <1>2, <1>3 DEF EnsureLease

\* A round whose failures are known not to apply, and a batch of one kind, leave nothing in doubt.
LEMMA RoundIsCertain ==
  ASSUME Started, NEW p \in Procs, Settled(p), run[p].beat # "stopped", Holds(p, "write"),
         HasFailure(p) => PreferredFailure(p).fault \notin {"unknown", "rejected"}
  PROVE  Certain
<1> USE DEF Started, TypeOK
<1>1. CASE Complete
  BY <1>1 DEF Complete, Certain, UpdateItems
<1>2. CASE ~Complete
  <2>1. run[p].beat # "ensured" /\ \A i \in Items : out[p][i] # "unknown"
    <3>1. CASE HasFailure(p)
      BY <1>2, <3>1, UnknownIsPreferred
    <3>2. CASE ~HasFailure(p)
      BY <1>2, <3>2 DEF HasFailure, Failed, FailureOf, Failures
    <3>. QED
      BY <3>1, <3>2
  <2>2. uncertain \subseteq done \cup InHand(p)
    BY <2>1 DEF Settled, Sure, Cautious, SendsSurely
  <2>3. InHand(p) = {}
    BY <2>1 DEF InHand, Settled, Waiting, Answered
  <2>. QED
    BY <2>2, <2>3 DEF Certain
<1>. QED
  BY <1>1, <1>2

LEMMA NextRoundCautious ==
  ASSUME Started, Answers, NEW p \in Procs, NextRound(p)
  PROVE  \A q \in Procs : Cautious(q)'
<1> USE DEF Started, TypeOK
<1>1. /\ Settled(p) /\ run[p].beat # "stopped"
      /\ UNCHANGED <<batch, lease, done, attempts, current, uncertain>>
  BY DEF NextRound, store
<1>2. /\ \A q \in Procs \ {p} : run'[q] = run[q] /\ out'[q] = out[q]
      /\ \A i \in Items : out'[p][i] # "before"
      /\ run'[p].pc \in {"loop", "parking", "finalizing"}
  <2>1. ASSUME NEW f, Fail(p, f)
        PROVE  run'[p].pc = "parking" /\ \A q \in Procs \ {p} : run'[q] = run[q]
    BY <2>1 DEF Fail
  <2>2. ASSUME NEW pc, Goto(p, pc)
        PROVE  run'[p].pc = pc /\ \A q \in Procs \ {p} : run'[q] = run[q]
    BY <2>2 DEF Goto
  <2>3. (\E f : Fail(p, f)) \/ Goto(p, "loop") \/ Goto(p, "finalizing")
    BY DEF NextRound
  <2>4. \A q \in Procs \ {p} : out'[q] = out[q]
    BY DEF NextRound
  <2>5. \A i \in Items : out'[p][i] # "before"
    BY DEF NextRound, NoCalls
  <2>. QED
    BY <2>1, <2>2, <2>3, <2>4, <2>5
<1>3. \A q \in Procs \ {p} : Cautious(q)'
  BY <1>1, <1>2, UndisturbedCautious DEF Sure
<1>4. ASSUME Holds(p, "write"), run'[p].pc = "loop" \/ run'[p].fault \in RetryableFaults,
             run'[p].pc # "finalizing"
      PROVE  Certain
  <2>1. CASE ~HasFailure(p)
    BY <1>1, <1>4, <2>1, RoundIsCertain
  <2>2. CASE HasFailure(p)
    <3> DEFINE failure == PreferredFailure(p)
    <3>1. CASE CanRetry(failure)
      <4>1. failure.fault = "unavailable" \/ DeleteItems # {}
        BY <3>1 DEF CanRetry
      <4>2. CASE DeleteItems # {}
        BY <4>2 DEF Unmixed, Certain
      <4>3. CASE failure.fault = "unavailable"
        BY <1>1, <1>4, <4>3, RoundIsCertain
      <4>. QED
        BY <4>1, <4>2, <4>3
    <3>2. CASE ~CanRetry(failure)
      <4> DEFINE fault == IF failure.fault = "unavailable" THEN "exhausted" ELSE failure.fault
      <4>1. Fail(p, fault)
        BY <2>2, <3>2 DEF NextRound
      <4>2. run'[p].pc = "parking" /\ run'[p].fault = fault
        <5>. HIDE DEF fault
        <5>. QED
          BY <4>1 DEF Fail, RunStates
      <4>3. failure.fault \notin {"unknown", "rejected"}
        BY <1>4, <4>2 DEF RetryableFaults
      <4>. QED
        BY <1>1, <1>4, <4>3, RoundIsCertain
    <3>. QED
      BY <3>1, <3>2
  <2>. QED
    BY <2>1, <2>2
<1>5. Cautious(p)'
  BY <1>1, <1>2, <1>4
     DEF Cautious, TrustsRightly, Trusting, ReadsParked, SendsSurely, Calling, Holds, Certain
<1>. QED
  BY <1>3, <1>5

\* A step that gives the lease up, or hands it to a reconcile command, and takes every copy.
LEMMA AllStaleCautious ==
  ASSUME Started, current' = {}, lease'.owner = NoProc \/ lease'.kind # "write",
         \A q \in Procs : (run'[q] = run[q] /\ out'[q] = out[q]) \/ Cautious(q)'
  PROVE  \A q \in Procs : Cautious(q)'
<1> USE DEF Started, TypeOK
<1>1. ASSUME NEW q \in Procs, run'[q] = run[q], out'[q] = out[q] PROVE Cautious(q)'
  <2>1. run'[q].pc # "reading" => \A i \in Items : out'[q][i] # "before"
    BY <1>1 DEF Sure, Cautious, ReadsParked
  <2>2. ~Holds(q, "write")'
    BY ConstantAssumption DEF Holds
  <2>. QED
    BY <2>1, <2>2, StaleCautious
<1>. QED
  BY <1>1

\* The end of a batch or of its automatic work.
LEMMA ParkCautious ==
  ASSUME Started, Answers, NEW p \in Procs, Park(p)
  PROVE  RetryableParkIsCertain' /\ \A q \in Procs : Cautious(q)'
<1> USE DEF Started, TypeOK
<1>1. CASE HoldsLive(p, "write") /\ p \in current
  <2>1. batch' = ParkedRow(run[p].fault) /\ lease' = NoLease /\ StopRun(p, {})
    BY <1>1 DEF Park
  <2>2. \A q \in Procs : (run'[q] = run[q] /\ out'[q] = out[q]) \/ Cautious(q)'
    BY <2>1, StopRunIs
  <2>3. lease'.owner = NoProc /\ current' = {}
    BY <2>1, StopRunIs DEF NoLease
  <2>4. AllowsAttemptedRetry' => run[p].fault \in RetryableFaults
    BY <2>1 DEF AllowsAttemptedRetry, ParkedRow, Row, RetryableFaults
  <2>5. run[p].fault \in RetryableFaults => Certain'
    BY <1>1, CertainKept DEF Park, Sure, Cautious, SendsSurely, HoldsLive
  <2>. QED
    BY <2>2, <2>3, <2>4, <2>5, AllStaleCautious DEF RetryableParkIsCertain, Certain
<1>2. CASE ~(HoldsLive(p, "write") /\ p \in current)
  <2>1. StopRun(p, current) /\ UNCHANGED <<batch, lease>>
    BY <1>2 DEF Park
  <2>. QED
    BY <2>1, StopKeeps, CertainKept
       DEF Sure, RetryableParkIsCertain, AllowsAttemptedRetry, Certain
<1>. QED
  BY <1>1, <1>2

LEMMA FinalizeCautious ==
  ASSUME Started, Answers, NEW p \in Procs, Finalize(p)
  PROVE  \A q \in Procs : Cautious(q)'
<1> USE DEF Started, TypeOK
<1>1. CASE lease' = NoLease /\ StopRun(p, {})
  <2>1. \A q \in Procs : (run'[q] = run[q] /\ out'[q] = out[q]) \/ Cautious(q)'
    BY <1>1, StopRunIs
  <2>2. lease'.owner = NoProc /\ current' = {}
    BY <1>1, StopRunIs DEF NoLease
  <2>. QED
    BY <2>1, <2>2, AllStaleCautious
<1>2. CASE StopRun(p, current) /\ UNCHANGED <<batch, lease>>
  BY <1>2, StopKeeps DEF Sure
<1>. QED
  BY <1>1, <1>2 DEF Finalize

\* A process that dies takes its share of the doubt with it.
LEMMA CrashCautious ==
  ASSUME Started, Answers, NEW p \in Procs, Crash(p)
  PROVE  \A q \in Procs : Cautious(q)'
<1> USE DEF Started, TypeOK
<1>1. StopRun(p, current) /\ UNCHANGED batch
  BY DEF Crash
<1>2. lease'.live = lease.live /\ lease'.kind = lease.kind /\ lease'.owner \in {lease.owner, NoProc}
  BY DEF Crash, LeaseRows
<1>3. ASSUME NEW q \in Procs \ {p} PROVE Cautious(q)'
  <2>1. Holds(q, "write")' => Holds(q, "write")
    BY <1>2, ConstantAssumption DEF Holds
  <2>2. run'[q] = run[q] /\ out'[q] = out[q] /\ (q \in current' => q \in current)
    BY <1>1, StopRunIs
  <2>. QED
    BY <1>1, <1>2, <2>1, <2>2, StaysCautious DEF Sure
<1>. QED
  BY <1>1, <1>3, StopRunIs

\* What a reservation read is still true when the lease it saw runs out.
LEMMA LeaseExpiresCautious ==
  ASSUME Started, Answers, LeaseExpires
  PROVE  \A q \in Procs : Cautious(q)'
<1> USE DEF Started, TypeOK
<1>1. /\ ReadsInTime /\ UNCHANGED <<batch, done, attempts, run, out, current, uncertain>>
      /\ lease'.owner = lease.owner /\ lease'.kind = lease.kind
  BY DEF LeaseExpires, LeaseRows, worker, truth
<1>2. ASSUME NEW q \in Procs PROVE Cautious(q)'
  <2>1. Cautious(q)
    BY DEF Sure
  <2>2. ~Doubtful => Certain
    BY DoubtSeesAll DEF Sure
  <2>3. Trusting(q) /\ ~run[q].active /\ q \in current => Certain
    BY <1>1, <2>1, <2>2 DEF ReadsInTime, Cautious, TrustsRightly, Trusting
  <2>. QED
    BY <1>1, <2>1, <2>3
       DEF Cautious, TrustsRightly, Trusting, ReadsParked, SendsSurely, Calling, InHand, Holds,
           Certain
<1>. QED
  BY <1>2

--------------------------------------------------------------------------------
(* The invariant and what follows from it.                                   *)

LEMMA OthersCautious ==
  ASSUME Started, TypeOK', [Next]_vars, ~\E p \in Procs : Claim(p)
  PROVE  \A q \in Procs : Cautious(q)'
<1> USE DEF Started, TypeOK
<1>0. Answers
  BY OnlyClaimsSend
<1>1. \A q \in Procs, i \in Items : run[q].pc # "reading" => out[q][i] # "before"
  BY DEF Sure, Cautious, ReadsParked
<1>2. ASSUME NEW p \in Procs, RunScheduled(p) PROVE \A q \in Procs : Cautious(q)'
  BY <1>0, <1>2, ReserveReadCautious DEF RunScheduled
<1>3. ASSUME NEW p \in Procs, ResumeCommand(p) PROVE \A q \in Procs : Cautious(q)'
  BY <1>0, <1>3, ReserveReadCautious DEF ResumeCommand
<1>4. ASSUME NEW p \in Procs, ScheduledRefused(p) PROVE \A q \in Procs : Cautious(q)'
  <2>1. /\ UNCHANGED <<batch, lease, out, current>> /\ run[p].pc # "reading"
        /\ run'[p].pc \in {"idle", "scheduled"} /\ \A q \in Procs \ {p} : run'[q] = run[q]
    BY <1>4 DEF ScheduledRefused, store, Goto
  <2>2. \A q \in Procs \ {p} : Cautious(q)'
    BY <1>0, <2>1, UndisturbedCautious DEF Sure
  <2>3. Cautious(p)'
    BY <1>1, <2>1, StoppedCautious
  <2>. QED
    BY <2>2, <2>3
<1>5. ASSUME NEW p \in Procs, Tick(p) PROVE \A q \in Procs : Cautious(q)'
  <2>1. /\ UNCHANGED <<batch, lease, out, current>> /\ run[p].pc # "reading"
        /\ run'[p].pc \in {"idle", "scheduled"} /\ \A q \in Procs \ {p} : run'[q] = run[q]
    BY <1>5 DEF Tick, store, Goto
  <2>2. \A q \in Procs \ {p} : Cautious(q)'
    BY <1>0, <2>1, UndisturbedCautious DEF Sure
  <2>3. Cautious(p)'
    BY <1>1, <2>1, StoppedCautious
  <2>. QED
    BY <2>2, <2>3
<1>6. ASSUME NEW p \in Procs, Prepare(p) PROVE \A q \in Procs : Cautious(q)'
  <2>1. \A q \in Procs : run[q].pc = "idle"
    BY <1>6 DEF Prepare, Shape, Unprepared
  <2>2. \A q \in Procs : run'[q].pc \in {"idle", "scheduled"}
    BY <1>6, <2>1 DEF Prepare, Goto
  <2>3. out' = out
    BY <1>6 DEF Prepare
  <2>. QED
    BY <1>1, <2>1, <2>2, <2>3, StoppedCautious
<1>7. ASSUME NEW p \in Procs, ReserveResume(p) PROVE \A q \in Procs : Cautious(q)'
  BY <1>0, <1>7, ReserveResumeCautious
<1>8. ASSUME NEW p \in Procs, VerifyAcquire(p) PROVE \A q \in Procs : Cautious(q)'
  BY <1>0, <1>8, VerifyAcquireCautious
<1>9. ASSUME NEW p \in Procs, ReadRequested(p) PROVE \A q \in Procs : Cautious(q)'
  BY <1>0, <1>9, ReadRequestedCautious
<1>10. ASSUME NEW p \in Procs, ReadBefore(p) PROVE \A q \in Procs : Cautious(q)'
  BY <1>0, <1>10, ReadBeforeCautious
<1>11. ASSUME NEW p \in Procs, VerifyUnresolved(p) PROVE \A q \in Procs : Cautious(q)'
  BY <1>0, <1>11, VerifyUnresolvedCautious
<1>12. ASSUME NEW p \in Procs, VerifyDone(p) PROVE \A q \in Procs : Cautious(q)'
  BY <1>0, <1>12, VerifyDoneCautious
<1>13. ASSUME NEW p \in Procs, EnterRun(p) PROVE \A q \in Procs : Cautious(q)'
  BY <1>0, <1>13, EnterRunCautious
<1>14. ASSUME NEW p \in Procs, HeartbeatStops(p) PROVE \A q \in Procs : Cautious(q)'
  BY <1>0, <1>14, HeartbeatStopsCautious
<1>15. ASSUME NEW p \in Procs, RecordAnswer(p) PROVE \A q \in Procs : Cautious(q)'
  BY <1>0, <1>15, RecordAnswerCautious
<1>16. ASSUME NEW p \in Procs, EnsureLease(p) PROVE \A q \in Procs : Cautious(q)'
  BY <1>0, <1>16, EnsureLeaseCautious
<1>17. ASSUME NEW p \in Procs, NextRound(p) PROVE \A q \in Procs : Cautious(q)'
  BY <1>0, <1>17, NextRoundCautious
<1>18. ASSUME NEW p \in Procs, Park(p) PROVE \A q \in Procs : Cautious(q)'
  BY <1>0, <1>18, ParkCautious
<1>19. ASSUME NEW p \in Procs, Finalize(p) PROVE \A q \in Procs : Cautious(q)'
  BY <1>0, <1>19, FinalizeCautious
<1>20. ASSUME NEW p \in Procs, Crash(p) PROVE \A q \in Procs : Cautious(q)'
  BY <1>0, <1>20, CrashCautious
<1>21. ASSUME NEW p \in Procs, NEW i \in Items, NEW o \in {"ok"} \cup Failures,
              CallReturns(p, i, o)
       PROVE  \A q \in Procs : Cautious(q)'
  BY <1>0, <1>21, CallReturnsCautious
<1>22. ASSUME NEW p \in Procs, ClaimRefused(p) PROVE \A q \in Procs : Cautious(q)'
  BY <1>0, <1>22, StopKeeps DEF ClaimRefused, Sure, store
<1>23. ASSUME NEW p \in Procs, RunAborts(p) PROVE \A q \in Procs : Cautious(q)'
  BY <1>0, <1>23, StopKeeps DEF RunAborts, Sure, store
<1>24. ASSUME NEW p \in Procs, PauseRequest(p) PROVE \A q \in Procs : Cautious(q)'
  BY <1>0, <1>24, UndisturbedCautious DEF PauseRequest, Sure, store, worker
<1>25. ASSUME NEW p \in Procs, PauseCancelled(p) PROVE \A q \in Procs : Cautious(q)'
  BY <1>0, <1>25, UndisturbedCautious DEF PauseCancelled, Sure, store, worker
<1>26. ASSUME NEW p \in Procs, TokenSpent(p) PROVE \A q \in Procs : Cautious(q)'
  BY <1>0, <1>26, UndisturbedCautious DEF TokenSpent, Sure, store, worker
<1>27. ASSUME NEW p \in Procs, ReconcileAborts(p) PROVE \A q \in Procs : Cautious(q)'
  BY <1>0, <1>27, UndisturbedCautious DEF ReconcileAborts, Sure, store, worker
<1>28. ASSUME NEW p \in Procs, PauseFinish(p) PROVE \A q \in Procs : Cautious(q)'
  <2>1. UNCHANGED <<run, out>>
    BY <1>28 DEF PauseFinish
  <2>2. CASE lease' = NoLease /\ Bump({})
    BY <2>1, <2>2, AllStaleCautious DEF NoLease, Bump
  <2>3. CASE UNCHANGED <<batch, lease, current, tokens>>
    BY <1>0, <2>1, <2>3, UndisturbedCautious DEF Sure
  <2>. QED
    BY <1>28, <2>2, <2>3 DEF PauseFinish
<1>29. ASSUME NEW p \in Procs, StopAndReconcile(p) PROVE \A q \in Procs : Cautious(q)'
  BY <1>29, AllStaleCautious DEF StopAndReconcile, BeginReconcile, Acquire, Bump
<1>30. ASSUME NEW p \in Procs, ConfirmReconcile(p) PROVE \A q \in Procs : Cautious(q)'
  BY <1>30, AllStaleCautious DEF ConfirmReconcile, BeginReconcile, Acquire, Bump
<1>31. ASSUME NEW p \in Procs, ReconcileParks(p) PROVE \A q \in Procs : Cautious(q)'
  BY <1>31, AllStaleCautious DEF ReconcileParks, NoLease, Bump
<1>32. ASSUME NEW p \in Procs, ReconcileNeedsConfirmation(p) PROVE \A q \in Procs : Cautious(q)'
  BY <1>32, AllStaleCautious DEF ReconcileNeedsConfirmation, NoLease
<1>33. ASSUME NEW p \in Procs, ReconcileFolds(p) PROVE \A q \in Procs : Cautious(q)'
  BY <1>33, AllStaleCautious DEF ReconcileFolds, NoLease, Bump
<1>34. CASE LeaseExpires
  BY <1>0, <1>34, LeaseExpiresCautious
<1>35. CASE RetryAfterElapses
  BY <1>0, <1>35, UndisturbedCautious DEF RetryAfterElapses, BatchRows, Sure, worker
<1>36. CASE UNCHANGED vars
  BY <1>0, <1>36, UndisturbedCautious DEF vars, store, worker, Sure
<1>. QED
  BY <1>2, <1>3, <1>4, <1>5, <1>6, <1>7, <1>8, <1>9, <1>10, <1>11, <1>12, <1>13, <1>14,
     <1>15, <1>16, <1>17, <1>18, <1>19, <1>20, <1>21, <1>22, <1>23, <1>24, <1>25, <1>26,
     <1>27, <1>28, <1>29, <1>30, <1>31, <1>32, <1>33, <1>34, <1>35, <1>36
     DEF Next, Work, Commands

LEMMA SureStep == Started /\ TypeOK' /\ [Next]_vars => Sure'
<1> SUFFICES ASSUME Started, TypeOK', [Next]_vars PROVE Sure'
  OBVIOUS
<1>1. CASE \E p \in Procs : Claim(p)
  BY <1>1, ClaimCautious
<1>2. CASE ~\E p \in Procs : Claim(p)
  <2>1. Answers
    BY <1>2, OnlyClaimsSend DEF Started
  <2>2. \A i \in uncertain' : attempts'[i] > 0
    BY <2>1 DEF Answers, Started, Sure
  <2>3. RetryableParkIsCertain'
    <3>1. CASE \E p \in Procs : Park(p)
      BY <2>1, <3>1, ParkCautious
    <3>2. CASE ~\E p \in Procs : Park(p)
      BY <2>1, <3>2, OnlyParkAllowsRetry, CertainKept
         DEF Started, Sure, RetryableParkIsCertain, RetryAllowed, Certain
    <3>. QED
      BY <3>1, <3>2
  <2>4. \A q \in Procs : Cautious(q)'
    BY <1>2, OthersCautious
  <2>. QED
    BY <2>2, <2>3, <2>4 DEF Sure
<1>. QED
  BY <1>1, <1>2

LEMMA SureHolds ==
  ASSUME ~StalledReads, Unmixed
  PROVE  Spec => []Sure
<1>1. Init => Sure
  BY DEF Init, Sure, RetryableParkIsCertain, AllowsAttemptedRetry, Cautious, TrustsRightly, Trusting,
         ReadsParked, SendsSurely, Calling, IdleRun, NoCalls, Row
<1>2. IInv /\ IInv' /\ Sure /\ [Next]_vars => Sure'
  BY SureStep DEF IInv, Started
<1>. QED
  BY <1>1, <1>2, Invariance, PTL DEF Spec

\* A batch parked in a phase from which resume may repeat attempted items holds no update whose
\* last attempt has no answer (providerWritePhaseAllowsAttemptedRetry, provider_write.go).
THEOREM RetriesAreCertain ==
  ASSUME ~StalledReads, Unmixed
  PROVE  Spec => []RetryableParkIsCertain
<1>1. Sure => RetryableParkIsCertain
  BY DEF Sure
<1>. QED
  BY <1>1, SureHolds, PTL

\* No worker, whatever crashed, stalled or was superseded before it, sends an update whose last
\* attempt has no answer, unless a readback settled it (claimAndRunProviderWriteItems).
THEOREM UnknownStaysUnsent ==
  ASSUME ~StalledReads, Unmixed
  PROVE  Spec => UnknownUpdateNotResent
<1>1. ASSUME TypeOK, Sure, [Next]_vars, NEW p \in Procs, NEW i \in UpdateItems, Sends(p, i)
      PROVE  i \notin uncertain
  <2>1. PICK q \in Procs : Claim(q)
    BY <1>1, OnlyClaimsSend DEF Answers, UpdateItems
  <2>2. Certain
    BY <1>1, <2>1 DEF Claim, CanClaim, Sure, Cautious, SendsSurely, HoldsLive
  <2>3. i \in Claimed(q)
    BY <1>1, <2>1 DEF TypeOK, Claim, Sends, UpdateItems
  <2>. QED
    BY <2>2, <2>3 DEF Certain, Claimed, Claimable
<1>2. IInv /\ Sure /\ [Next]_vars
        => [\A p \in Procs, i \in UpdateItems : Sends(p, i) => i \notin uncertain]_vars
  BY <1>1 DEF IInv
<1>. QED
  BY <1>2, Invariance, SureHolds, PTL DEF Spec, UnknownUpdateNotResent

--------------------------------------------------------------------------------
(* One sender per update, when nobody can read back.                         *)

\* A sent update is one whose attempt nobody has an answer for, or one that is recorded.
SentIsKnown ==
  \A q \in Procs : \A i \in UpdateItems : out[q][i] = "sent" => i \in uncertain \cup done

NobodyReads == \A p \in Procs : run[p].pc # "reading"

\* A worker that moves without starting a readback.
LEMMA NobodyStartsReading ==
  ASSUME TypeOK, NobodyReads, NEW p \in Procs, run'[p].pc # "reading",
         \A q \in Procs \ {p} : run'[q] = run[q]
  PROVE  NobodyReads'
  BY DEF NobodyReads

LEMMA WorkerMoves ==
  ASSUME TypeOK, NEW p \in Procs
  PROVE  /\ \A pc : Goto(p, pc) => run'[p].pc = pc /\ \A q \in Procs \ {p} : run'[q] = run[q]
         /\ \A f : Fail(p, f) => run'[p].pc = "parking" /\ \A q \in Procs \ {p} : run'[q] = run[q]
         /\ \A copies : StopRun(p, copies) =>
              run'[p].pc = "idle" /\ \A q \in Procs \ {p} : run'[q] = run[q]
<1>1. ASSUME NEW pc, Goto(p, pc)
      PROVE  run'[p].pc = pc /\ \A q \in Procs \ {p} : run'[q] = run[q]
  BY <1>1 DEF Goto, TypeOK, RunStates
<1>2. ASSUME NEW f, Fail(p, f)
      PROVE  run'[p].pc = "parking" /\ \A q \in Procs \ {p} : run'[q] = run[q]
  BY <1>2 DEF Fail, TypeOK, RunStates
<1>. QED
  BY <1>1, <1>2, StopRunIs

\* Without readback, only the answer of the call settles an attempt that is not recorded.
LEMMA OnlyAnswersSettle ==
  ASSUME TypeOK, ~CanReadBack, NobodyReads, [Next]_vars
  PROVE  /\ NobodyReads'
         /\ \/ uncertain \subseteq uncertain' \cup done'
            \/ \E p \in Procs, i \in Items, o \in {"ok"} \cup Failures : CallReturns(p, i, o)
<1> DEFINE Kept == NobodyReads' /\ uncertain \subseteq uncertain' \cup done'
<1> USE DEF TypeOK, NobodyReads, vars, store, worker, truth, StopRun, IdleRun, Goto, Fail
<1>1. ASSUME NEW p \in Procs, RunScheduled(p) PROVE Kept
  BY <1>1 DEF RunScheduled, ReserveRead
<1>2. ASSUME NEW p \in Procs, ResumeCommand(p) PROVE Kept
  BY <1>2 DEF ResumeCommand, ReserveRead
<1>3. ASSUME NEW p \in Procs, ScheduledRefused(p) PROVE Kept
  BY <1>3 DEF ScheduledRefused
<1>4. ASSUME NEW p \in Procs, Tick(p) PROVE Kept
  BY <1>4 DEF Tick
<1>5. ASSUME NEW p \in Procs, Prepare(p) PROVE Kept
  BY <1>5 DEF Prepare
<1>6. ASSUME NEW p \in Procs, ReserveResume(p) PROVE Kept
  <2>1. uncertain' = uncertain
    BY <1>6 DEF ReserveResume
  <2>2. Admit(p) \/ StopRun(p, current)
    BY <1>6 DEF ReserveResume
  <2>3. run'[p].pc # "reading" /\ \A q \in Procs \ {p} : run'[q] = run[q]
    <3>1. Admit(p) => run'[p].pc # "reading"
      BY DEF Admit
    <3>2. Admit(p) => \A q \in Procs \ {p} : run'[q] = run[q]
      BY DEF Admit
    <3>. QED
      BY <2>2, <3>1, <3>2, WorkerMoves
  <2>. QED
    BY <2>1, <2>2, <2>3, NobodyStartsReading
<1>7. ASSUME NEW p \in Procs, VerifyAcquire(p) PROVE Kept
  BY <1>7 DEF VerifyAcquire
<1>8. ASSUME NEW p \in Procs, ReadRequested(p) PROVE Kept
  BY <1>8 DEF ReadRequested, RecordResult
<1>9. ASSUME NEW p \in Procs, VerifyUnresolved(p) PROVE Kept
  BY <1>9 DEF VerifyUnresolved
<1>10. ASSUME NEW p \in Procs, VerifyDone(p) PROVE Kept
  BY <1>10 DEF VerifyDone
<1>11. ASSUME NEW p \in Procs, EnterRun(p) PROVE Kept
  <2>1. uncertain' = uncertain
    BY <1>11 DEF EnterRun
  <2>2. \/ run' = [run EXCEPT ![p] = [IdleRun EXCEPT !.pc = "reserved", !.doubt = Doubtful]]
        \/ \E f : Fail(p, f)
        \/ Goto(p, "loop") \/ Goto(p, "finalizing") \/ StopRun(p, current)
    <3>. HIDE DEF Goto, Fail, StopRun
    <3>. QED
      BY <1>11 DEF EnterRun
  <2>3. run'[p].pc # "reading" /\ \A q \in Procs \ {p} : run'[q] = run[q]
    <3>1. CASE run' = [run EXCEPT ![p] = [IdleRun EXCEPT !.pc = "reserved", !.doubt = Doubtful]]
      BY <3>1
    <3>. HIDE DEF Goto, Fail, StopRun
    <3>. QED
      BY <2>2, <3>1, WorkerMoves
  <2>. QED
    BY <2>1, <2>2, <2>3, NobodyStartsReading
<1>12. ASSUME NEW p \in Procs, ClaimRefused(p) PROVE Kept
  BY <1>12 DEF ClaimRefused
<1>13. ASSUME NEW p \in Procs, HeartbeatStops(p) PROVE Kept
  BY <1>13 DEF HeartbeatStops
<1>14. ASSUME NEW p \in Procs, RecordAnswer(p) PROVE Kept
  BY <1>14 DEF RecordAnswer, RecordResult
<1>15. ASSUME NEW p \in Procs, EnsureLease(p) PROVE Kept
  <2>1. uncertain' = uncertain
    BY <1>15 DEF EnsureLease
  <2>2. run[p].pc = "calling"
        /\ (run' = [run EXCEPT ![p].beat = "ensured"] \/ StopRun(p, current))
    <3>. HIDE DEF StopRun
    <3>. QED
      BY <1>15 DEF EnsureLease, Settled, Calling
  <2>3. run'[p].pc # "reading" /\ \A q \in Procs \ {p} : run'[q] = run[q]
    <3>1. CASE run' = [run EXCEPT ![p].beat = "ensured"]
      BY <2>2, <3>1
    <3>. HIDE DEF StopRun
    <3>. QED
      BY <2>2, <3>1, WorkerMoves
  <2>. QED
    BY <2>1, <2>2, <2>3, NobodyStartsReading
<1>16. ASSUME NEW p \in Procs, NextRound(p) PROVE Kept
  <2>1. uncertain' = uncertain
    BY <1>16 DEF NextRound
  <2>2. (\E f : Fail(p, f)) \/ Goto(p, "loop") \/ Goto(p, "finalizing")
    <3>. HIDE DEF Goto, Fail, StopRun
    <3>. QED
      BY <1>16 DEF NextRound
  <2>3. run'[p].pc # "reading" /\ \A q \in Procs \ {p} : run'[q] = run[q]
    <3>. HIDE DEF Goto, Fail, StopRun
    <3>. QED
      BY <2>2, WorkerMoves
  <2>. QED
    BY <2>1, <2>2, <2>3, NobodyStartsReading
<1>17. ASSUME NEW p \in Procs, Park(p) PROVE Kept
  BY <1>17 DEF Park
<1>18. ASSUME NEW p \in Procs, Finalize(p) PROVE Kept
  <2>1. uncertain' = uncertain
    BY <1>18 DEF Finalize
  <2>2. StopRun(p, {}) \/ StopRun(p, current)
    <3>. HIDE DEF StopRun
    <3>. QED
      BY <1>18 DEF Finalize
  <2>3. run'[p].pc # "reading" /\ \A q \in Procs \ {p} : run'[q] = run[q]
    <3>. HIDE DEF StopRun
    <3>. QED
      BY <2>2, WorkerMoves
  <2>. QED
    BY <2>1, <2>2, <2>3, NobodyStartsReading
<1>19. ASSUME NEW p \in Procs, PauseRequest(p) PROVE Kept
  BY <1>19 DEF PauseRequest
<1>20. ASSUME NEW p \in Procs, PauseFinish(p) PROVE Kept
  BY <1>20 DEF PauseFinish
<1>21. ASSUME NEW p \in Procs, PauseCancelled(p) PROVE Kept
  BY <1>21 DEF PauseCancelled
<1>22. ASSUME NEW p \in Procs, StopAndReconcile(p) PROVE Kept
  BY <1>22 DEF StopAndReconcile, BeginReconcile
<1>23. ASSUME NEW p \in Procs, ReconcileParks(p) PROVE Kept
  BY <1>23 DEF ReconcileParks
<1>24. ASSUME NEW p \in Procs, ReconcileNeedsConfirmation(p) PROVE Kept
  BY <1>24 DEF ReconcileNeedsConfirmation
<1>25. ASSUME NEW p \in Procs, ConfirmReconcile(p) PROVE Kept
  BY <1>25 DEF ConfirmReconcile, BeginReconcile
<1>26. ASSUME NEW p \in Procs, TokenSpent(p) PROVE Kept
  BY <1>26 DEF TokenSpent
<1>27. ASSUME NEW p \in Procs, ReconcileFolds(p) PROVE Kept
  BY <1>27 DEF ReconcileFolds
<1>28. ASSUME NEW p \in Procs, ReconcileAborts(p) PROVE Kept
  BY <1>28 DEF ReconcileAborts
<1>29. ASSUME NEW p \in Procs, RunAborts(p) PROVE Kept
  BY <1>29 DEF RunAborts
<1>30. ASSUME NEW p \in Procs, Crash(p) PROVE Kept
  BY <1>30 DEF Crash
<1>31. ASSUME NEW p \in Procs, Claim(p) PROVE Kept
  BY <1>31 DEF Claim
<1>32. ASSUME NEW p \in Procs, ReadBefore(p) PROVE Kept
  BY <1>32 DEF ReadBefore
<1>33. ASSUME NEW p \in Procs, NEW i \in Items, NEW o \in {"ok"} \cup Failures,
              CallReturns(p, i, o)
       PROVE  NobodyReads'
  BY <1>33 DEF CallReturns
<1>34. CASE LeaseExpires
  BY <1>34 DEF LeaseExpires
<1>35. CASE RetryAfterElapses
  BY <1>35 DEF RetryAfterElapses
<1>36. CASE UNCHANGED vars
  BY <1>36
<1>. QED
  BY <1>1, <1>2, <1>3, <1>4, <1>5, <1>6, <1>7, <1>8, <1>9, <1>10, <1>11, <1>12, <1>13,
     <1>14, <1>15, <1>16, <1>17, <1>18, <1>19, <1>20, <1>21, <1>22, <1>23, <1>24, <1>25,
     <1>26, <1>27, <1>28, <1>29, <1>30, <1>31, <1>32, <1>33, <1>34, <1>35, <1>36
     DEF Next, Work, Commands

\* A claim takes no item that is sent: it is recorded or in doubt.
LEMMA SentStep ==
  ASSUME Started, TypeOK', ~CanReadBack, NobodyReads, SentIsKnown, OneSenderPerUpdate, [Next]_vars
  PROVE  SentIsKnown' /\ OneSenderPerUpdate'
<1> USE DEF Started
<1>1. CASE \E p \in Procs : Claim(p)
  <2>1. PICK p \in Procs : Claim(p)
    BY <1>1
  <2>2. Certain
    BY <2>1 DEF Claim, CanClaim, Sure, Cautious, SendsSurely, HoldsLive
  <2>3. /\ \A q \in Procs \ {p} : out'[q] = out[q]
        /\ \A i \in Items : out'[p][i] = IF i \in Claimed(p) THEN "sent" ELSE "none"
        /\ uncertain' = uncertain \cup (Claimed(p) \cap UpdateItems) /\ done' = done
    BY <2>1 DEF Claim, TypeOK
  <2>4. \A i \in Claimed(p) : i \notin done /\ i \notin uncertain
    BY <2>2 DEF Certain, Claimed, Claimable
  <2>5. \A q \in Procs \ {p}, i \in UpdateItems : out'[q][i] = "sent" => i \notin Claimed(p)
    BY <2>3, <2>4 DEF SentIsKnown
  <2>6. SentIsKnown'
    BY <2>3 DEF SentIsKnown, UpdateItems
  <2>7. OneSenderPerUpdate'
    BY <2>3, <2>5 DEF OneSenderPerUpdate, UpdateItems
  <2>. QED
    BY <2>6, <2>7
<1>2. CASE ~\E p \in Procs : Claim(p)
  <2>1. Answers
    BY <1>2, OnlyClaimsSend
  <2>2. \A q \in Procs, i \in UpdateItems : out'[q][i] = "sent" => out[q][i] = "sent"
    BY <2>1 DEF Answers, Sends, UpdateItems
  <2>3. OneSenderPerUpdate'
    BY <2>2 DEF OneSenderPerUpdate
  <2>4. ASSUME uncertain \subseteq uncertain' \cup done' PROVE SentIsKnown'
    <3>1. done \subseteq done'
      BY <2>1 DEF Answers
    <3>. QED
      BY <2>2, <2>4, <3>1 DEF SentIsKnown, UpdateItems
  <2>5. ASSUME NEW p \in Procs, NEW j \in Items, NEW o \in {"ok"} \cup Failures,
               CallReturns(p, j, o)
        PROVE  SentIsKnown'
    <3>1. /\ out[p][j] = "sent" /\ out'[p][j] # "sent"
          /\ uncertain \subseteq uncertain' \cup {j}
      BY <2>5 DEF CallReturns, TypeOK, Failures, NotApplied
    <3>2. \A q \in Procs : j \in UpdateItems => out'[q][j] # "sent"
      BY <2>2, <3>1 DEF OneSenderPerUpdate
    <3>. QED
      BY <2>1, <2>2, <3>1, <3>2 DEF SentIsKnown, Answers
  <2>. QED
    BY <2>3, <2>4, <2>5, OnlyAnswersSettle
<1>. QED
  BY <1>1, <1>2

\* Without readback no two processes ever have the same update on its way, stalled and superseded
\* workers included (claimAndRunProviderWriteItems, runProviderWriteCalls).
THEOREM OneSender ==
  ASSUME ~StalledReads, Unmixed, ~CanReadBack
  PROVE  Spec => []OneSenderPerUpdate
<1> DEFINE Sent == NobodyReads /\ SentIsKnown /\ OneSenderPerUpdate
<1>1. Init => Sent
  BY DEF Init, NobodyReads, SentIsKnown, OneSenderPerUpdate, IdleRun, NoCalls, UpdateItems
<1>2. IInv /\ IInv' /\ Sure /\ Sent /\ [Next]_vars => Sent'
  BY OnlyAnswersSettle, SentStep DEF IInv, Started
<1>3. Sent => OneSenderPerUpdate
  OBVIOUS
<1>. HIDE DEF Sent
<1>. QED
  BY <1>1, <1>2, <1>3, Invariance, SureHolds, PTL DEF Spec
================================================================================
