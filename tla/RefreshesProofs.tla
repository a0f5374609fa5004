---------------------------- MODULE RefreshesProofs ----------------------------
(***************************************************************************)
(* What the two parts of MCRefreshes keep, for every value of the constants *)
(* of either.                                                               *)
(*                                                                          *)
(* A step of one part leaves the other one's variables alone, so each part  *)
(* of MCSpec implements the specification it was taken from, whose theorems *)
(* carry over.                                                              *)
(***************************************************************************)
EXTENDS MCRefreshes, ProviderRefreshProofs

LEMMA SupervisedInstance == Supervised!Instance
BY SupervisorAssumption DEF Supervised!Instance, Supervised!IsFiniteSet, IsFiniteSet

\* Steps of refreshes stutter for the supervisor.
LEMMA Supervises == MCSpec => Supervised!Spec
<1>1. MCInit => Supervised!Init
  BY DEF MCInit
<1>2. [MCNext]_<<part, vars, supervisorVars>> => [Supervised!Next]_(Supervised!vars)
  BY DEF MCNext, supervisorVars, Supervised!vars, Supervised!writeVars, Supervised!closeVars
<1>. QED
  BY <1>1, <1>2, PTL DEF MCSpec, Supervised!Spec

\* Steps of the supervisor stutter for the refreshes.
LEMMA Refreshes == MCSpec => Spec
<1>1. MCInit => Init
  BY DEF MCInit
<1>2. [MCNext]_<<part, vars, supervisorVars>> => [Next]_vars
  BY DEF MCNext
<1>. QED
  BY <1>1, <1>2, PTL DEF MCSpec, Spec

\* Whatever refreshes, joins, confirmations and closes do, rows, leases, attempts and callers keep
\* their shapes.
THEOREM ShapesStay == MCSpec => []ShapesKept
<1>1. MCSpec => []TypeOK
  BY Refreshes, ShapesHold, PTL
<1>2. MCSpec => [](Supervised!TypeOK)
  BY Supervises, SupervisedInstance, Supervised!Types, PTL
<1>3. TypeOK /\ Supervised!TypeOK => ShapesKept
  BY DEF ShapesKept
<1>. QED
  BY <1>1, <1>2, <1>3, PTL

\* However starts, joins, follow-ups, confirmations and Close fall, whoever asked is told of a run
\* that read what was asked for, or waits for a run that comes (waitFor, finishRefresh).
THEOREM AnswersAlwaysCome == MCSpec => []AnswersCome
<1>1. MCSpec => [](Supervised!AnswersCover /\ Supervised!AnswerIsComing)
  BY Supervises, SupervisedInstance, Supervised!Answers, PTL
<1>2. Supervised!AnswersCover /\ Supervised!AnswerIsComing => AnswersCome
  BY DEF AnswersCome
<1>. QED
  BY <1>1, <1>2, PTL

\* Refreshes of one process do not run side by side, and nothing uses the profile once Close has
\* returned (queueRefreshLocked, ConfirmRefresh, Close).
THEOREM OneRunsAtATime == MCSpec => []OneAtATime
<1>1. MCSpec => [](Supervised!OneRefreshRuns /\ Supervised!NothingAfterClose)
  BY Supervises, SupervisedInstance, Supervised!OneAtATimeAndQuiet, PTL
<1>2. Supervised!OneRefreshRuns /\ Supervised!NothingAfterClose => OneAtATime
  BY DEF OneAtATime
<1>. QED
  BY <1>1, <1>2, PTL

\* An outcome stands once it is recorded, so its channel is closed once, and only what was parked
\* on older state expires (finishRefresh, ExpireObsolete).
THEOREM RecordedOutcomesStand == MCSpec => OutcomesStand
<1> DEFINE Stand == Supervised!OutcomesStay /\ Supervised!ExpiresObsolete
<1>1. MCSpec => [][Stand]_(Supervised!vars)
  BY Supervises, SupervisedInstance, Supervised!OutcomesStand, PTL
<1>2. UNCHANGED (Supervised!vars) => UNCHANGED supervisorVars
  BY DEF supervisorVars, Supervised!vars, Supervised!writeVars, Supervised!closeVars
<1>3. [Stand]_(Supervised!vars) => [part = "supervisor" => Stand]_supervisorVars
  BY <1>2
<1>. QED
  BY <1>1, <1>3, PTL DEF OutcomesStand
================================================================================
