------------------------------- MODULE MCRefreshes ------------------------------
(***************************************************************************)
(* Two parts that share no step and are checked side by side: two processes *)
(* that refresh one profile (ProviderRefresh), and two callers of a process *)
(* that supervises its refreshes (Supervisor).                              *)
(***************************************************************************)
EXTENDS ProviderRefresh, TLC

CONSTANTS
  p1, p2, r1, r2,
  Callers, Slots, NoAttempt, MaxRevision, MaxRequests  \* Supervisor's

ASSUME SupervisorAssumption ==
  /\ IsFiniteSet(Slots) /\ NoAttempt \notin Slots
  /\ MaxRevision \in Nat /\ MaxRequests \in Nat

\* One call at a time in each of two processes, and the history they read.
OneEach == [c \in Calls |-> c]
CompleteHistory == {Rows}

VARIABLES
  part,
  changed, attempts, now, next, working, callers, asked, reserving, workers, closed, returned

Supervised == INSTANCE SupervisorProofs WITH stored <- changed
supervisorVars ==
  <<changed, attempts, now, next, working, callers, asked, reserving, workers, closed, returned>>

\* Processes, and callers, are interchangeable, and so are rows.
Symmetries == Permutations({p1, p2}) \cup Permutations({r1, r2})

MCInit ==
  /\ part \in {"refresh", "supervisor"} /\ Init /\ Supervised!Init
  /\ part = "supervisor" => ~additive

\* Bound: of two changes of the account, the second one meets no open write batch.
BatchBound == version' = 2 => batch' = {}

MCNext ==
  \/ part = "refresh" /\ Next /\ BatchBound /\ UNCHANGED <<part, supervisorVars>>
  \/ part = "supervisor" /\ Supervised!Next /\ UNCHANGED <<part, vars>>

MCSpec == MCInit /\ [][MCNext]_<<part, vars, supervisorVars>>

\* The properties of either part together.  The shapes, of rows, leases and attempts.
ShapesKept == (part = "refresh" => TypeOK) /\ (part = "supervisor" => Supervised!TypeOK)

\* Whoever asked the supervisor is told of a run that read what was asked for, or waits for
\* something that comes (AnswersCover, AnswerIsComing).
AnswersCome ==
  part = "supervisor" => Supervised!AnswersCover /\ Supervised!AnswerIsComing

\* Refreshes of one process do not run side by side, and nothing runs once Close has returned
\* (OneRefreshRuns, NothingAfterClose).
OneAtATime ==
  part = "supervisor" => Supervised!OneRefreshRuns /\ Supervised!NothingAfterClose

\* An attempt's outcome stands, and only what was parked on older state expires (OutcomesStay,
\* ExpiresObsolete).
OutcomesStand ==
  [][part = "supervisor" => Supervised!OutcomesStay /\ Supervised!ExpiresObsolete]_supervisorVars
================================================================================
