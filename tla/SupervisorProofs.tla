---------------------------- MODULE SupervisorProofs ----------------------------
(***************************************************************************)
(* Safety of Supervisor for every set of callers, finite set of slots and   *)
(* bounds.                                                                  *)
(*                                                                          *)
(* The invariant says of an attempt what its runs have recorded (Recording),*)
(* of now, next and working which attempts may stand there (Places), and of *)
(* every caller what it may rely on of the attempts it refers to            *)
(* (Relies).                                                                *)
(***************************************************************************)
EXTENDS Supervisor, FiniteSetTheorems, TLAPS

\* What the constants are.
Instance ==
  /\ IsFiniteSet(Slots) /\ NoAttempt \notin Slots
  /\ MaxRevision \in Nat /\ MaxRequests \in Nat

States == {"running", "completed", "failed", "parked"}
OutcomeType == [state : States, reads : Scopes, batch : Nat]
AttemptType == [kind : Kinds, state : States, scope : Scopes, reads : Scopes, key : Nat \X Nat,
                revision : Nat, batch : Nat, run : Runs, outcome : [Runs -> OutcomeType],
                late : BOOLEAN]
Places == Slots \cup {NoAttempt}
CallerType == [pc : {"idle", "peeked", "seen", "ready", "started", "waiting"},
               ask : [kind : Kinds, scope : Scopes, key : Nat \X Nat],
               parked : [Kinds -> Places \X {0, 1, 2}], seen : [revision : Nat, batch : Nat],
               attempt : Places, run : Runs]

Typed ==
  /\ TypeOK /\ attempts \in [Slots -> AttemptType] /\ callers \in [Callers -> CallerType]
  /\ working \subseteq Slots /\ stored.batch <= stored.revision
  /\ reserving + workers <= asked

\* What a result or an attempt that says so gives to whoever asked for the attempt.
Gives(x, reads, batch) ==
  IF x.kind = "refresh" THEN reads >= x.scope ELSE batch = x.key[2]

\* An attempt's runs end in order, and what has read all that was asked for says so.
Recording(x) ==
  /\ x.run = 1 => x.outcome[2] = Pending
  /\ x.run = 2 => x.outcome[1] # Pending
  /\ x.state = "running" => x.outcome[x.run] = Pending
  /\ x.state \in {"parked", "completed"} => x.outcome[x.run] # Pending
  /\ x.state = "parked" => x.run = 1
  /\ x.state \in {"parked", "completed"} \/ x.run = 2 => Gives(x, x.reads, x.batch)
  /\ \A r \in Runs :
       /\ x.outcome[r].state = "completed" => Gives(x, x.outcome[r].reads, x.outcome[r].batch)
       /\ x.outcome[r].state = "running" => x.outcome[r] = Pending

Recordings ==
  \A a \in Slots : /\ Recording(attempts[a])
                   /\ attempts[a].revision <= stored.revision /\ attempts[a].batch <= stored.batch

\* A follow-up waits behind a refresh that runs, and nobody reads for it yet.
FollowUp ==
  next # NoAttempt =>
    /\ next \notin working /\ next # now.refresh /\ next # now.reconcile
    /\ attempts[next].kind = "refresh" /\ attempts[next].state = "running"
    /\ attempts[next].run = 1
    /\ now.refresh \in working

\* What runs has its place, and what nobody refers to is as good as new.
Placed ==
  /\ \A a \in working : attempts[a].state = "running" /\ now[attempts[a].kind] = a
  /\ \A a \in Slots : attempts[a].state = "running" => a \in working \/ a = next
  /\ \A kind \in Kinds : Active(now[kind]) => attempts[now[kind]].kind = kind
  /\ now.refresh # NoAttempt => now.refresh # now.reconcile
  /\ \A a \in Free : attempts[a] = Unused

\* A caller's attempt covers what it asked for and has an outcome once it ended.
Asked(c) ==
  LET a == callers[c].attempt
      ask == callers[c].ask
  IN
  /\ callers[c].pc \in {"started", "waiting"} <=> a # NoAttempt
  /\ a # NoAttempt =>
       /\ attempts[a].kind = ask.kind
       /\ IF ask.kind = "refresh" THEN ask.scope <= attempts[a].scope
                                  ELSE attempts[a].key[2] = ask.key[2]
       /\ attempts[a].state # "running" => attempts[a].outcome[attempts[a].run] # Pending
       /\ callers[c].pc = "waiting" => callers[c].run <= attempts[a].run

\* A parked attempt that a caller took note of had ended, and was of the batch then stored.
Noted(c) ==
  /\ callers[c].pc = "seen" =>
       callers[c].seen.revision <= stored.revision /\ callers[c].seen.batch <= stored.batch
  /\ \A kind \in Kinds :
       LET a == callers[c].parked[kind][1] IN
       a # NoAttempt =>
         /\ callers[c].pc \in {"peeked", "seen"}
         /\ attempts[a].outcome[1] # Pending
         /\ callers[c].pc = "seen" => attempts[a].batch <= callers[c].seen.batch

Ended ==
  /\ closed => next = NoAttempt
  /\ returned => closed
  /\ NothingAfterClose

IInv ==
  /\ Typed /\ Recordings /\ FollowUp /\ Placed /\ Ended
  /\ \A c \in Callers : Asked(c) /\ Noted(c)

--------------------------------------------------------------------------------
(* Attempts by themselves.                                                   *)

\* What a caller that refers to an attempt may find changed in it.
Evolve(x, y) ==
  /\ y.kind = x.kind /\ y.key = x.key /\ x.scope <= y.scope /\ x.run <= y.run
  /\ \A r \in Runs : x.outcome[r] # Pending => y.outcome[r] = x.outcome[r]
  /\ x.outcome[1] # Pending => y.batch = x.batch
  /\ (x.state # "running" => x.outcome[x.run] # Pending)
       => (y.state # "running" => y.outcome[y.run] # Pending)

LEMMA PendingTyped == Pending \in OutcomeType /\ Pending.state = "running"
BY DEF Pending, OutcomeType, States, Scopes, Due

LEMMA UnusedIs ==
  /\ Unused \in AttemptType /\ Recording(Unused)
  /\ Unused.kind = "refresh" /\ Unused.state = "failed" /\ Unused.run = 1
  /\ Unused.revision = 0 /\ Unused.batch = 0
  /\ Unused.outcome[1] = Pending /\ Unused.outcome[2] = Pending
<1>1. <<Pending, Pending>> \in [Runs -> OutcomeType]
  BY PendingTyped DEF Runs
<1>2. NoKey \in Nat \X Nat
  BY DEF NoKey
<1>3. Unused \in AttemptType
  BY <1>1, <1>2 DEF Unused, AttemptType, Kinds, States, Scopes, Due, Runs
<1>4. /\ Unused.kind = "refresh" /\ Unused.state = "failed" /\ Unused.run = 1
      /\ Unused.revision = 0 /\ Unused.batch = 0
      /\ Unused.outcome[1] = Pending /\ Unused.outcome[2] = Pending
  BY DEF Unused
<1>5. \A r \in Runs : Unused.outcome[r] = Pending
  BY <1>4 DEF Runs
<1>. QED
  BY <1>3, <1>4, <1>5, PendingTyped DEF Recording

AskType == [kind : Kinds, scope : Scopes, key : Nat \X Nat]

LEMMA NewAttemptIs ==
  ASSUME NEW ask \in AskType, stored \in [revision : Nat, batch : Nat]
  PROVE  LET x == NewAttempt(ask) IN
         /\ x \in AttemptType /\ Recording(x)
         /\ x.kind = ask.kind /\ x.scope = ask.scope /\ x.key = ask.key /\ x.state = "running"
         /\ x.revision = stored.revision /\ x.batch = stored.batch
         /\ x.run = 1 /\ x.outcome[1] = Pending
<1> DEFINE x == NewAttempt(ask)
<1>1. /\ x \in AttemptType /\ x.state = "running" /\ x.run = 1
      /\ x.kind = ask.kind /\ x.scope = ask.scope /\ x.key = ask.key
      /\ x.revision = stored.revision /\ x.batch = stored.batch
      /\ x.outcome = Unused.outcome
  BY UnusedIs DEF NewAttempt, AttemptType, AskType, States
<1>2. \A r \in Runs : x.outcome[r] = Pending
  BY <1>1, UnusedIs DEF Runs
<1>. HIDE DEF x
<1>3. Recording(x)
  BY <1>1, <1>2, PendingTyped DEF Recording, Runs
<1>. QED
  BY <1>1, <1>2, <1>3 DEF x, Runs

LEMMA EvolveSame == ASSUME NEW x \in AttemptType PROVE Evolve(x, x)
BY DEF Evolve, AttemptType, Scopes, Due, Manual, CompleteHistory, Runs

\* A parked attempt expires.
LEMMA ExpiredIs ==
  ASSUME NEW x \in AttemptType, Recording(x), x.state # "running",
         NEW y, y = [x EXCEPT !.state = "failed"]
  PROVE  /\ y \in AttemptType /\ Recording(y) /\ y.state = "failed"
         /\ x.state = "parked" => Evolve(x, y)
         /\ y.revision = x.revision /\ y.batch = x.batch /\ y.kind = x.kind /\ y.run = x.run
<1>1. /\ y \in AttemptType /\ y.state = "failed" /\ y.kind = x.kind /\ y.key = x.key
      /\ y.scope = x.scope /\ y.reads = x.reads /\ y.run = x.run /\ y.outcome = x.outcome
      /\ y.revision = x.revision /\ y.batch = x.batch
  BY DEF AttemptType, States
<1>2. Recording(y)
  BY <1>1 DEF Recording, Gives
<1>3. ASSUME x.state = "parked" PROVE Evolve(x, y)
  BY <1>1, <1>3 DEF Evolve, Recording, AttemptType, Scopes, Due, Manual, CompleteHistory, Runs
<1>. QED
  BY <1>1, <1>2, <1>3

\* The confirmation's deadline passes.
LEMMA LateIs ==
  ASSUME NEW x \in AttemptType, Recording(x), NEW y, y = [x EXCEPT !.late = TRUE]
  PROVE  /\ y \in AttemptType /\ Recording(y) /\ Evolve(x, y)
         /\ y.revision = x.revision /\ y.batch = x.batch /\ y.kind = x.kind
         /\ y.state = x.state /\ y.run = x.run
<1>1. /\ y \in AttemptType /\ y.state = x.state /\ y.kind = x.kind /\ y.key = x.key
      /\ y.scope = x.scope /\ y.reads = x.reads /\ y.run = x.run /\ y.outcome = x.outcome
      /\ y.revision = x.revision /\ y.batch = x.batch
  BY DEF AttemptType
<1>2. Recording(y)
  BY <1>1 DEF Recording, Gives
<1>3. Evolve(x, y)
  BY <1>1 DEF Evolve, AttemptType, Scopes, Due, Manual, CompleteHistory, Runs
<1>. QED
  BY <1>1, <1>2, <1>3

\* A follow-up is asked for more.
LEMMA RaisedIs ==
  ASSUME NEW x \in AttemptType, Recording(x), x.state = "running", x.run = 1,
         NEW scope \in Scopes, NEW y, y = [x EXCEPT !.scope = Max2(x.scope, scope)]
  PROVE  /\ y \in AttemptType /\ Recording(y) /\ Evolve(x, y)
         /\ y.revision = x.revision /\ y.batch = x.batch /\ y.kind = x.kind
         /\ y.state = x.state /\ y.run = x.run
         /\ scope <= y.scope
<1>1. /\ Max2(x.scope, scope) \in Scopes /\ Max2(x.scope, scope) >= x.scope
      /\ Max2(x.scope, scope) >= scope
  BY DEF Max2, Scopes, Due, Manual, CompleteHistory, AttemptType
<1>2. /\ y \in AttemptType /\ y.state = x.state /\ y.kind = x.kind /\ y.key = x.key
      /\ y.scope = Max2(x.scope, scope) /\ y.reads = x.reads /\ y.run = x.run
      /\ y.outcome = x.outcome /\ y.revision = x.revision /\ y.batch = x.batch
  BY <1>1 DEF AttemptType
<1>3. \A r \in Runs : x.outcome[r] = Pending
  BY DEF Recording, Runs
<1>4. Recording(y)
  BY <1>2, <1>3, PendingTyped DEF Recording, Gives
<1>5. Evolve(x, y)
  BY <1>1, <1>2 DEF Evolve, AttemptType, Scopes, Due, Manual, CompleteHistory, Runs
<1>. QED
  BY <1>1, <1>2, <1>4, <1>5

\* A parked attempt is confirmed.
LEMMA ConfirmedIs ==
  ASSUME NEW x \in AttemptType, Recording(x), x.state = "parked",
         NEW y, y = [x EXCEPT !.state = "running", !.run = 2]
  PROVE  /\ y \in AttemptType /\ Recording(y) /\ Evolve(x, y)
         /\ y.revision = x.revision /\ y.batch = x.batch /\ y.kind = x.kind /\ y.key = x.key
         /\ y.state = "running" /\ y.run = 2 /\ y.scope = x.scope
<1>1. /\ y \in AttemptType /\ y.state = "running" /\ y.kind = x.kind /\ y.key = x.key
      /\ y.scope = x.scope /\ y.reads = x.reads /\ y.run = 2 /\ y.outcome = x.outcome
      /\ y.revision = x.revision /\ y.batch = x.batch
  BY DEF AttemptType, States, Runs
<1>2. x.run = 1 /\ x.outcome[1] # Pending /\ x.outcome[2] = Pending
  BY DEF Recording
<1>3. Recording(y)
  BY <1>1, <1>2 DEF Recording, Gives
<1>4. Evolve(x, y)
  BY <1>1, <1>2 DEF Evolve, AttemptType, Scopes, Due, Manual, CompleteHistory, Runs
<1>. QED
  BY <1>1, <1>2, <1>3, <1>4

ResultType == [state : {"completed", "failed", "parked"}, read : BOOLEAN]

\* An outcome is recorded, of the attempt's own run or of the one before it.
LEMMA RecordedIs ==
  ASSUME NEW a \in Slots, attempts[a] \in AttemptType, NEW result \in ResultType,
         NEW x \in AttemptType, Recording(x), x.state = "running",
         NEW y, y = Recorded(a, result, x),
         result.state = "parked" => x.run = 1,
         result.state \in {"completed", "parked"} \/ x.run = 2 => Gives(y, y.reads, y.batch),
         x.outcome[1] # Pending => attempts[a].batch = x.batch
  PROVE  /\ y \in AttemptType /\ Recording(y) /\ Evolve(x, y)
         /\ y.state = result.state /\ y.kind = x.kind /\ y.run = x.run
         /\ y.revision = attempts[a].revision /\ y.batch = attempts[a].batch
<1> DEFINE reads == ReadsOf(a, result)
           o == [state |-> result.state, reads |-> reads, batch |-> attempts[a].batch]
           scope == IF result.state = "parked" THEN Max2(x.scope, Manual) ELSE x.scope
<1>1. reads \in Scopes
  BY DEF ReadsOf, Max2, Scopes, Due, Manual, CompleteHistory, AttemptType
<1>2. o \in OutcomeType /\ o # Pending
  BY <1>1 DEF OutcomeType, States, AttemptType, ResultType, Pending
<1>3. scope \in Scopes /\ x.scope <= scope
  BY DEF Max2, Scopes, Due, Manual, CompleteHistory, AttemptType
<1>4. y = [x EXCEPT !.state = result.state, !.reads = reads, !.scope = scope,
             !.revision = attempts[a].revision, !.batch = attempts[a].batch,
             !.outcome[x.run] = o]
  BY DEF Recorded
<1>. HIDE DEF reads, scope
<1>5. /\ y.state = result.state /\ y.kind = x.kind /\ y.key = x.key /\ y.run = x.run
      /\ y.scope = scope /\ y.reads = reads
      /\ y.revision = attempts[a].revision /\ y.batch = attempts[a].batch
      /\ y.outcome = [x.outcome EXCEPT ![x.run] = o]
  BY <1>4 DEF AttemptType
<1>6. /\ x.run \in Runs /\ x.outcome \in [Runs -> OutcomeType]
      /\ o.state = result.state /\ o.reads = reads /\ o.batch = attempts[a].batch
  BY DEF AttemptType
<1>. HIDE DEF o
<1>7. /\ y.outcome \in [Runs -> OutcomeType] /\ y.outcome[x.run] = o
      /\ \A r \in Runs \ {x.run} : y.outcome[r] = x.outcome[r]
  BY <1>2, <1>5, <1>6
<1>8. y \in AttemptType
  <2>1. result.state \in States
    BY DEF ResultType, States
  <2>. QED
    BY <1>1, <1>3, <1>4, <1>6, <1>7, <2>1, <1>2 DEF AttemptType
<1>9. x.outcome[x.run] = Pending /\ (x.run = 1 => x.outcome[2] = Pending)
      /\ (x.run = 2 => x.outcome[1] # Pending)
  BY DEF Recording
<1>10. Recording(y)
  <2>1. y.run = 1 => y.outcome[2] = Pending
    BY <1>5, <1>7, <1>9 DEF Runs
  <2>2. y.run = 2 => y.outcome[1] # Pending
    BY <1>5, <1>7, <1>9 DEF Runs
  <2>3. y.state # "running" /\ y.outcome[y.run] # Pending
    BY <1>2, <1>5, <1>7 DEF ResultType
  <2>4. ASSUME NEW r \in Runs
        PROVE  /\ y.outcome[r].state = "completed"
                    => Gives(y, y.outcome[r].reads, y.outcome[r].batch)
               /\ y.outcome[r].state = "running" => y.outcome[r] = Pending
    <3>1. CASE r = x.run
      BY <1>5, <1>6, <1>7, <3>1 DEF ResultType
    <3>2. CASE r # x.run /\ x.run = 1
      BY <1>7, <1>9, <3>2, PendingTyped DEF Runs
    <3>3. CASE r # x.run /\ x.run = 2
      <4>1. y.scope = x.scope
        BY <1>5, <3>3 DEF scope
      <4>. QED
        BY <1>5, <1>7, <3>3, <4>1 DEF Recording, Gives
    <3>. QED
      BY <1>6, <3>1, <3>2, <3>3 DEF Runs
  <2>. QED
    BY <1>5, <2>1, <2>2, <2>3, <2>4 DEF Recording, ResultType
<1>11. Evolve(x, y)
  <2>1. x.run <= y.run
    BY <1>5, <1>6 DEF Runs
  <2>2. \A r \in Runs : x.outcome[r] # Pending => y.outcome[r] = x.outcome[r]
    BY <1>7, <1>9
  <2>3. y.outcome[y.run] # Pending
    BY <1>2, <1>5, <1>7
  <2>. QED
    BY <1>3, <1>5, <2>1, <2>2, <2>3 DEF Evolve
<1>. QED
  BY <1>5, <1>8, <1>10, <1>11

\* What runs in a working attempt gives it what its callers asked for.
LEMMA OwnRecorded ==
  ASSUME NEW a \in Slots, attempts[a] \in AttemptType, Recording(attempts[a]),
         attempts[a].state = "running", NEW result \in Results(a)
  PROVE  /\ result \in ResultType /\ result.state # "running"
         /\ LET x == attempts[a]
                y == Recorded(a, result, x)
            IN /\ y \in AttemptType /\ Recording(y) /\ Evolve(x, y)
               /\ y.state = result.state /\ y.kind = x.kind /\ y.run = x.run
               /\ y.revision = x.revision /\ y.batch = x.batch
<1> DEFINE x == attempts[a]
           y == Recorded(a, result, x)
           scope == IF result.state = "parked" THEN Max2(x.scope, Manual) ELSE x.scope
<1>1. /\ result \in ResultType
      /\ x.run = 2 => ~result.read /\ result.state # "parked"
      /\ x.run # 2 =>
           /\ result.state = "parked" => result.read
           /\ x.kind = "reconcile" /\ x.key[2] # x.batch => result.state = "failed"
           /\ result.state = "completed" /\ x.kind = "refresh" /\ ~result.read => x.scope = Due
  BY DEF Results, ResultType
<1>2. /\ y.reads = ReadsOf(a, result) /\ y.scope = scope /\ y.kind = x.kind /\ y.key = x.key
      /\ y.batch = x.batch
  BY DEF Recorded, AttemptType
<1>3. x.run = 2 => Gives(x, x.reads, x.batch)
  BY DEF Recording
<1>4. ASSUME result.state \in {"completed", "parked"} \/ x.run = 2
      PROVE  Gives(y, y.reads, y.batch)
  <2>1. CASE x.run = 2
    BY <1>1, <1>2, <1>3, <2>1 DEF Gives, ReadsOf
  <2>2. CASE x.run # 2 /\ x.kind = "reconcile"
    BY <1>1, <1>2, <1>4, <2>2 DEF Gives
  <2>3. CASE x.run # 2 /\ x.kind = "refresh"
    BY <1>1, <1>2, <1>4, <2>3
       DEF Gives, ReadsOf, Max2, AttemptType, Scopes, Due, Manual, CompleteHistory
  <2>. QED
    BY <2>1, <2>2, <2>3 DEF AttemptType, Kinds
<1>5. x.run \in Runs
  BY DEF AttemptType
<1>. HIDE DEF y
<1>6. /\ y \in AttemptType /\ Recording(y) /\ Evolve(x, y)
      /\ y.state = result.state /\ y.kind = x.kind /\ y.run = x.run
      /\ y.revision = x.revision /\ y.batch = x.batch
  BY <1>1, <1>4, <1>5, RecordedIs DEF y, Runs
<1>. QED
  BY <1>1, <1>6 DEF y, ResultType

\* A follow-up takes the outcome of a run that read enough for it.
LEMMA FollowUpRecorded ==
  ASSUME NEW a \in Slots, attempts[a] \in AttemptType, NEW result \in ResultType,
         next \in Slots, attempts[next] \in AttemptType, Recording(attempts[next]),
         attempts[next].state = "running", attempts[next].run = 1,
         attempts[next].kind = "refresh", Covers(a, result)
  PROVE  LET x == attempts[next]
             y == Recorded(a, result, x)
         IN /\ y \in AttemptType /\ Recording(y) /\ Evolve(x, y)
            /\ y.state = result.state /\ y.kind = x.kind /\ y.run = x.run
            /\ y.revision = attempts[a].revision /\ y.batch = attempts[a].batch
<1> DEFINE x == attempts[next]
           y == Recorded(a, result, x)
           scope == IF result.state = "parked" THEN Max2(x.scope, Manual) ELSE x.scope
<1>1. /\ y.reads = ReadsOf(a, result) /\ y.scope = scope /\ y.kind = "refresh"
  BY DEF Recorded, AttemptType
<1>2. Gives(y, y.reads, y.batch)
  BY <1>1 DEF Gives, Covers, ReadsOf, Max2, AttemptType, Scopes, Due, Manual, CompleteHistory
<1>3. x.outcome[1] = Pending
  BY DEF Recording
<1>. HIDE DEF y
<1>4. /\ y \in AttemptType /\ Recording(y) /\ Evolve(x, y)
      /\ y.state = result.state /\ y.kind = x.kind /\ y.run = x.run
      /\ y.revision = attempts[a].revision /\ y.batch = attempts[a].batch
  BY <1>2, <1>3, RecordedIs DEF y
<1>. QED
  BY <1>4 DEF y

\* A follow-up is dropped.
LEMMA CanceledIs ==
  ASSUME NEW x \in AttemptType, Recording(x), x.state = "running", x.run = 1,
         NEW y, y = Canceled(x)
  PROVE  /\ y \in AttemptType /\ Recording(y) /\ Evolve(x, y)
         /\ y.state = "failed" /\ y.kind = x.kind /\ y.run = x.run
         /\ y.revision = x.revision /\ y.batch = x.batch
<1> DEFINE o == [state |-> "failed", reads |-> Due, batch |-> 0]
<1>1. o \in OutcomeType /\ o # Pending /\ o.state = "failed"
  BY DEF OutcomeType, States, Scopes, Due, Pending
<1>. HIDE DEF o
<1>2. y = [x EXCEPT !.state = "failed", !.outcome[1] = o]
  BY DEF Canceled, o
<1>3. /\ y.state = "failed" /\ y.kind = x.kind /\ y.key = x.key /\ y.run = 1
      /\ y.scope = x.scope /\ y.reads = x.reads
      /\ y.revision = x.revision /\ y.batch = x.batch
      /\ y.outcome = [x.outcome EXCEPT ![1] = o]
  BY <1>2 DEF AttemptType
<1>4. x.outcome \in [Runs -> OutcomeType] /\ x.outcome[2] = Pending /\ x.outcome[1] = Pending
  BY DEF AttemptType, Recording
<1>5. /\ y.outcome \in [Runs -> OutcomeType] /\ y.outcome[1] = o /\ y.outcome[2] = Pending
  BY <1>1, <1>3, <1>4 DEF Runs
<1>6. y \in AttemptType
  BY <1>1, <1>2, <1>5, <1>4 DEF AttemptType, States, Runs
<1>7. Recording(y)
  BY <1>1, <1>3, <1>5, PendingTyped DEF Recording, Runs
<1>8. Evolve(x, y)
  BY <1>1, <1>3, <1>4, <1>5 DEF Evolve, AttemptType, Scopes, Due, Manual, CompleteHistory, Runs
<1>. QED
  BY <1>3, <1>6, <1>7, <1>8

--------------------------------------------------------------------------------
(* What a step does to the attempts.                                         *)

StoredGrows ==
  /\ stored' \in [revision : 0..MaxRevision, batch : 0..MaxRevision]
  /\ stored.revision <= stored'.revision /\ stored.batch <= stored'.batch
  /\ stored'.batch <= stored'.revision

\* Attempts only evolve, but for the new ones and those that nobody refers to any more.
Advance ==
  /\ attempts' \in [Slots -> AttemptType] /\ Recordings'
  /\ \A b \in Slots :
       b \in Free \/ attempts'[b] = Unused \/ Evolve(attempts[b], attempts'[b])
  /\ \A b \in Slots : b \in Held(callers) /\ b \in Held(callers')
                        => Evolve(attempts[b], attempts'[b])

LEMMA KeptIs ==
  ASSUME NEW all \in [Slots -> AttemptType], attempts' = Kept(all, now', next', callers')
  PROVE  /\ attempts' \in [Slots -> AttemptType]
         /\ \A b \in Slots : attempts'[b] = all[b] \/ attempts'[b] = Unused
         /\ \A b \in Slots : b \in Held(callers') => attempts'[b] = all[b]
         /\ \A b \in Slots : /\ b = now'.refresh \/ b = now'.reconcile \/ b = next'
                             /\ all[b].state \in {"running", "parked"}
                             => attempts'[b] = all[b]
         /\ \A b \in Free' : attempts'[b] = Unused
BY UnusedIs DEF Kept, InUse, Free

LEMMA KeptAdvances ==
  ASSUME IInv, StoredGrows, NEW all \in [Slots -> AttemptType],
         attempts' = Kept(all, now', next', callers'),
         \A b \in Slots : /\ Recording(all[b])
                          /\ all[b].revision <= stored'.revision /\ all[b].batch <= stored'.batch
                          /\ b \in Free \/ Evolve(attempts[b], all[b])
  PROVE  Advance
<1>1. Recordings'
  BY KeptIs, UnusedIs DEF Recordings, StoredGrows
<1>2. \A b \in Held(callers) : b \notin Free
  BY DEF Free, InUse
<1>. QED
  BY <1>1, <1>2, KeptIs DEF Advance

LEMMA ExpiredAll ==
  ASSUME IInv, NEW gone \in SUBSET Slots, \A b \in gone : attempts[b].state = "parked"
  PROVE  /\ Expired(gone) \in [Slots -> AttemptType]
         /\ \A b \in Slots :
              LET y == Expired(gone)[b] IN
              /\ Recording(y) /\ Evolve(attempts[b], y)
              /\ y.revision = attempts[b].revision /\ y.batch = attempts[b].batch
              /\ y.kind = attempts[b].kind /\ y.run = attempts[b].run
              /\ IF b \in gone THEN y.state = "failed" ELSE y = attempts[b]
<1>1. attempts \in [Slots -> AttemptType] /\ \A b \in Slots : Recording(attempts[b])
  BY DEF IInv, Typed, Recordings
<1>2. ASSUME NEW b \in Slots
      PROVE  LET y == Expired(gone)[b] IN
              /\ y \in AttemptType
              /\ Recording(y) /\ Evolve(attempts[b], y)
              /\ y.revision = attempts[b].revision /\ y.batch = attempts[b].batch
              /\ y.kind = attempts[b].kind /\ y.run = attempts[b].run
              /\ IF b \in gone THEN y.state = "failed" ELSE y = attempts[b]
  <2>1. CASE b \in gone
    <3>1. Expired(gone)[b] = [attempts[b] EXCEPT !.state = "failed"] /\ attempts[b].state = "parked"
      BY <2>1 DEF Expired
    <3>. QED
      BY <1>1, <2>1, <3>1, ExpiredIs
  <2>2. CASE b \notin gone
    <3>1. Expired(gone)[b] = attempts[b]
      BY <2>2 DEF Expired
    <3>. QED
      BY <1>1, <2>2, <3>1, EvolveSame
  <2>. QED
    BY <2>1, <2>2
<1>. QED
  BY <1>2 DEF Expired

\* Steps that start and end no run.
LEMMA PlacesStay ==
  ASSUME IInv, UNCHANGED <<now, next, working>>, attempts' \in [Slots -> AttemptType],
         \A b \in Slots :
           \/ attempts'[b] = Unused
           \/ /\ attempts'[b].kind = attempts[b].kind
              /\ attempts'[b].state = attempts[b].state \/ attempts'[b].state = "failed",
         \A b \in Slots :
           /\ b = now.refresh \/ b = now.reconcile \/ b = next
           /\ attempts[b].state = "running"
           => /\ attempts'[b].state = "running" /\ attempts'[b].kind = attempts[b].kind
              /\ attempts'[b].run = attempts[b].run,
         \A b \in Free' : attempts'[b] = Unused
  PROVE  Placed' /\ FollowUp'
<1>1. /\ working \subseteq Slots /\ next \in Places /\ now \in [Kinds -> Places]
      /\ attempts \in [Slots -> AttemptType]
  BY DEF IInv, Typed, TypeOK, Places
<1>2. \A b \in working : b = now.refresh \/ b = now.reconcile
  BY <1>1 DEF IInv, Placed, AttemptType, Kinds
<1>3. \A b \in working : attempts'[b].state = "running" /\ attempts'[b].kind = attempts[b].kind
  BY <1>1, <1>2 DEF IInv, Placed
<1>4. \A b \in working' : attempts'[b].state = "running" /\ now'[attempts'[b].kind] = b
  BY <1>3 DEF IInv, Placed
<1>5. \A b \in Slots : attempts'[b].state = "running" => b \in working' \/ b = next'
  BY UnusedIs DEF IInv, Placed
<1>6. ASSUME NEW kind \in Kinds, Active(now[kind])' PROVE attempts'[now'[kind]].kind = kind
  <2>1. now[kind] \in Slots /\ attempts'[now[kind]].state \in {"running", "parked"}
    BY <1>1, <1>6 DEF Active, Is, Places
  <2>2. attempts[now[kind]].state \in {"running", "parked"}
    BY <2>1, UnusedIs
  <2>3. attempts'[now[kind]].kind = attempts[now[kind]].kind
    BY <2>1, UnusedIs
  <2>4. now[kind] # NoAttempt
    BY <1>6 DEF Active, Is
  <2>. QED
    BY <2>2, <2>3, <2>4 DEF IInv, Placed, Active, Is
<1>7. FollowUp'
  <2> SUFFICES ASSUME next # NoAttempt PROVE FollowUp'
    BY DEF FollowUp
  <2>1. next \in Slots
    BY <1>1 DEF Places
  <2>. QED
    BY <2>1 DEF IInv, FollowUp
<1>8. Placed'
  BY <1>4, <1>5, <1>6 DEF IInv, Placed
<1>. QED
  BY <1>7, <1>8

\* Attempts end as a caller looks, and what the caller lets go of is collected.
LEMMA ExpirySteps ==
  ASSUME IInv, StoredGrows, UNCHANGED <<now, next, working>>,
         NEW gone \in SUBSET Slots, \A b \in gone : attempts[b].state = "parked",
         attempts' = Kept(Expired(gone), now, next, callers')
  PROVE  Advance /\ Placed' /\ FollowUp'
<1> DEFINE all == Expired(gone)
<1>1. /\ all \in [Slots -> AttemptType]
      /\ \A b \in Slots :
              /\ Recording(all[b]) /\ Evolve(attempts[b], all[b])
              /\ all[b].revision = attempts[b].revision /\ all[b].batch = attempts[b].batch
              /\ all[b].kind = attempts[b].kind /\ all[b].run = attempts[b].run
              /\ IF b \in gone THEN all[b].state = "failed" ELSE all[b] = attempts[b]
  BY ExpiredAll
<1>2. attempts' = Kept(all, now', next', callers')
  OBVIOUS
<1>. HIDE DEF all
<1>3. \A b \in Slots : all[b].revision <= stored'.revision /\ all[b].batch <= stored'.batch
  <2>1. /\ \A b \in Slots : /\ attempts[b].revision <= stored.revision
                             /\ attempts[b].batch <= stored.batch
        /\ \A b \in Slots : attempts[b].revision \in Nat /\ attempts[b].batch \in Nat
        /\ stored.revision \in Nat /\ stored.batch \in Nat
    BY DEF IInv, Recordings, Typed, TypeOK, AttemptType
  <2>2. stored'.revision \in Nat /\ stored'.batch \in Nat
    BY DEF StoredGrows
  <2>. QED
    BY <1>1, <2>1, <2>2 DEF StoredGrows
<1>4. Advance
  BY <1>1, <1>2, <1>3, KeptAdvances
<1>5. /\ attempts' \in [Slots -> AttemptType]
      /\ \A b \in Slots : attempts'[b] = all[b] \/ attempts'[b] = Unused
      /\ \A b \in Slots : /\ b = now.refresh \/ b = now.reconcile \/ b = next
                          /\ all[b].state \in {"running", "parked"}
                          => attempts'[b] = all[b]
      /\ \A b \in Free' : attempts'[b] = Unused
  BY <1>1, <1>2, KeptIs
<1>6. \A b \in Slots : attempts[b].state = "running" => all[b] = attempts[b]
  BY <1>1
<1>7. Placed' /\ FollowUp'
  BY <1>1, <1>5, <1>6, PlacesStay
<1>. QED
  BY <1>4, <1>7

\* Steps that leave the attempts alone, and nobody lets go of one.
LEMMA SameSteps ==
  ASSUME IInv, StoredGrows, UNCHANGED <<attempts, now, next, working>>, Free' \subseteq Free
  PROVE  Advance /\ Placed' /\ FollowUp'
<1>1. /\ attempts \in [Slots -> AttemptType]
      /\ \A b \in Slots : attempts[b].revision \in Nat /\ attempts[b].batch \in Nat
      /\ stored.revision \in Nat /\ stored.batch \in Nat
  BY DEF IInv, Typed, TypeOK, AttemptType
<1>2. Recordings'
  BY <1>1 DEF IInv, Recordings, StoredGrows
<1>3. Advance
  BY <1>1, <1>2, EvolveSame DEF Advance
<1>4. \A b \in Free' : attempts'[b] = Unused
  BY DEF IInv, Placed
<1>. QED
  BY <1>1, <1>3, <1>4, PlacesStay

--------------------------------------------------------------------------------
(* What a step does to the callers.                                          *)

\* Callers that a step does not concern.
LEMMA OthersStay ==
  ASSUME IInv, Advance, StoredGrows, NEW d \in Callers, callers'[d] = callers[d]
  PROVE  Asked(d)' /\ Noted(d)'
<1>1. /\ callers[d].attempt \in Places /\ callers[d].ask.scope \in Scopes
      /\ callers[d].run \in Runs
      /\ \A kind \in Kinds : callers[d].parked[kind][1] \in Places
      /\ callers[d].seen \in [revision : Nat, batch : Nat]
      /\ stored \in [revision : Nat, batch : Nat]
      /\ stored' \in [revision : Nat, batch : Nat]
      /\ attempts \in [Slots -> AttemptType] /\ attempts' \in [Slots -> AttemptType]
  BY DEF IInv, Typed, TypeOK, CallerType, StoredGrows, Advance
<1>2. ASSUME callers[d].attempt # NoAttempt
      PROVE  callers[d].attempt \in Slots
             /\ Evolve(attempts[callers[d].attempt], attempts'[callers[d].attempt])
  <2>1. callers[d].attempt \in Held(callers) /\ callers[d].attempt \in Held(callers')
    BY DEF Held
  <2>. QED
    BY <1>1, <1>2, <2>1 DEF Advance, Places
<1>3. ASSUME NEW kind \in Kinds, callers[d].parked[kind][1] # NoAttempt
      PROVE  /\ callers[d].parked[kind][1] \in Slots
             /\ Evolve(attempts[callers[d].parked[kind][1]], attempts'[callers[d].parked[kind][1]])
  <2>1. /\ callers[d].parked[kind][1] \in Held(callers)
        /\ callers[d].parked[kind][1] \in Held(callers')
    BY DEF Held
  <2>. QED
    BY <1>1, <1>3, <2>1 DEF Advance, Places
<1>4. Asked(d)'
  <2>1. CASE callers[d].attempt = NoAttempt
    BY <2>1 DEF IInv, Asked
  <2>2. CASE callers[d].attempt # NoAttempt
    <3> DEFINE a == callers[d].attempt
    <3>1. a \in Slots /\ Evolve(attempts[a], attempts'[a])
      BY <1>2, <2>2
    <3>2. /\ attempts[a].scope \in {0, 1, 2} /\ attempts'[a].scope \in {0, 1, 2}
          /\ attempts[a].run \in {1, 2} /\ attempts'[a].run \in {1, 2}
      BY <1>1, <3>1 DEF AttemptType, Runs, Scopes, Due, Manual, CompleteHistory
    <3>3. callers[d].ask.scope \in {0, 1, 2} /\ callers[d].run \in {1, 2}
      BY <1>1 DEF Runs, Scopes, Due, Manual, CompleteHistory
    <3>4. Asked(d)
      BY DEF IInv
    <3>. QED
      BY <2>2, <3>1, <3>2, <3>3, <3>4 DEF Asked, Evolve
  <2>. QED
    BY <2>1, <2>2
<1>5. Noted(d)'
  <2>1. Noted(d)
    BY DEF IInv
  <2>2. callers[d].pc = "seen" =>
          callers[d].seen.revision <= stored'.revision /\ callers[d].seen.batch <= stored'.batch
    BY <1>1, <2>1 DEF Noted, StoredGrows
  <2>3. ASSUME NEW kind \in Kinds, callers[d].parked[kind][1] # NoAttempt
        PROVE  /\ callers[d].pc \in {"peeked", "seen"}
               /\ attempts'[callers[d].parked[kind][1]].outcome[1] # Pending
               /\ callers[d].pc = "seen"
                    => attempts'[callers[d].parked[kind][1]].batch <= callers[d].seen.batch
    BY <1>3, <2>1, <2>3 DEF Noted, Evolve, Runs
  <2>. QED
    BY <2>2, <2>3 DEF Noted
<1>. QED
  BY <1>4, <1>5

CountersKept ==
  /\ UNCHANGED <<writeVars, closeVars>>
  /\ asked' \in 0..MaxRequests /\ asked <= asked'

\* The parts of the invariant after a step, put together.
LEMMA Together ==
  ASSUME IInv, Advance, StoredGrows, Placed', FollowUp', Ended',
         NEW C \in SUBSET Callers, \A d \in Callers \ C : callers'[d] = callers[d],
         \A d \in C : Asked(d)' /\ Noted(d)',
         callers' \in [Callers -> CallerType],
         now' \in [Kinds -> Places], next' \in Places, working' \subseteq Slots,
         asked' \in 0..MaxRequests, reserving' \in 0..MaxRequests, workers' \in 0..MaxRequests,
         reserving' + workers' <= asked', closed' \in BOOLEAN, returned' \in BOOLEAN,
         NoAttempt \notin Slots
  PROVE  IInv' /\ Advance
<1>1. \A d \in Callers : Asked(d)' /\ Noted(d)'
  BY OthersStay
<1>2. attempts' \in [Slots -> AttemptType] /\ Recordings'
  BY DEF Advance
<1>3. working' \subseteq InUse(now', next', callers') \ {NoAttempt}
  <2>1. \A a \in working' : attempts'[a].kind \in Kinds /\ now'[attempts'[a].kind] = a
    BY <1>2 DEF Placed, AttemptType
  <2>. QED
    BY <2>1 DEF InUse, Kinds
<1>4. TypeOK'
  <2>1. \A a \in Slots :
       /\ attempts'[a].kind \in Kinds
       /\ attempts'[a].state \in {"running", "completed", "failed", "parked"}
       /\ attempts'[a].scope \in Scopes /\ attempts'[a].reads \in Scopes
       /\ attempts'[a].run \in Runs
    BY <1>2 DEF AttemptType, States
  <2>2. \A c \in Callers :
       /\ callers'[c].pc \in {"idle", "peeked", "seen", "ready", "started", "waiting"}
       /\ callers'[c].attempt \in Slots \cup {NoAttempt} /\ callers'[c].run \in Runs
    BY DEF CallerType, Places
  <2>. QED
    BY <1>3, <2>1, <2>2 DEF TypeOK, StoredGrows, Places
<1>5. Typed'
  BY <1>2, <1>4 DEF Typed, StoredGrows
<1>. QED
  BY <1>1, <1>2, <1>5 DEF IInv

\* A step of a caller alone, with what it leaves as it is.
LEMMA CallerSteps ==
  ASSUME IInv, Instance, Advance, Placed', FollowUp', CountersKept,
         UNCHANGED <<stored, next, working>>, now' = now,
         NEW c \in Callers, NEW r \in CallerType, callers' = [callers EXCEPT ![c] = r],
         Asked(c)' /\ Noted(c)'
  PROVE  IInv' /\ Advance
<1>1. StoredGrows
  BY DEF StoredGrows, IInv, Typed, TypeOK
<1>2. Ended'
  BY DEF Ended, IInv, CountersKept, writeVars, closeVars, NothingAfterClose
<1>3. callers' \in [Callers -> CallerType] /\ \A d \in Callers \ {c} : callers'[d] = callers[d]
  BY DEF IInv, Typed
<1>4. /\ now' \in [Kinds -> Places] /\ next' \in Places /\ working' \subseteq Slots
      /\ asked' \in 0..MaxRequests /\ reserving' \in 0..MaxRequests /\ workers' \in 0..MaxRequests
      /\ closed' \in BOOLEAN /\ returned' \in BOOLEAN
  BY DEF IInv, Typed, TypeOK, CountersKept, writeVars, closeVars, Places
<1>5. reserving' + workers' <= asked'
  <2>1. /\ reserving' = reserving /\ workers' = workers /\ asked <= asked'
        /\ reserving + workers <= asked
        /\ reserving \in Nat /\ workers \in Nat /\ asked \in Nat /\ asked' \in Nat
    BY DEF CountersKept, writeVars, IInv, Typed, TypeOK, Instance
  <2>. QED
    BY <2>1
<1> DEFINE C == {c}
<1>6. C \in SUBSET Callers /\ \A d \in C : Asked(d)' /\ Noted(d)'
  OBVIOUS
<1>7. \A d \in Callers \ C : callers'[d] = callers[d]
  BY <1>3
<1>. HIDE DEF C
<1>. QED
  BY <1>1, <1>2, <1>3, <1>4, <1>5, <1>6, <1>7, Together DEF Instance

--------------------------------------------------------------------------------
(* Requests: the callers' own steps.                                         *)

LEMMA IdleIs ==
  /\ Idle \in CallerType /\ Idle.pc = "idle" /\ Idle.attempt = NoAttempt
  /\ \A kind \in Kinds : Idle.parked[kind] = <<NoAttempt, 0>>
  /\ Idle.ask \in AskType
<1>1. NoKey \in Nat \X Nat
  BY DEF NoKey
<1>2. Idle.parked \in [Kinds -> Places \X {0, 1, 2}]
  BY DEF Idle, Places
<1>. QED
  BY <1>1, <1>2 DEF Idle, CallerType, AskType, Kinds, Scopes, Due, Places, Runs

\* A caller without an attempt and without notes.
LEMMA Empty ==
  ASSUME IInv, NEW c \in Callers, callers[c].pc \in {"idle", "ready"}
  PROVE  /\ callers[c].attempt = NoAttempt
         /\ \A kind \in Kinds : callers[c].parked[kind][1] = NoAttempt
BY DEF IInv, Asked, Noted

LEMMA HoldsOn ==
  ASSUME IInv, Instance, NEW c \in Callers, NEW r \in CallerType,
         callers' = [callers EXCEPT ![c] = r], UNCHANGED <<now, next>>,
         callers[c].attempt \in {NoAttempt, r.attempt},
         \A kind \in Kinds : callers[c].parked[kind][1] \in {NoAttempt, r.parked[kind][1]}
  PROVE  Free' \subseteq Free
<1>1. callers'[c] = r /\ \A d \in Callers \ {c} : callers'[d] = callers[d]
  BY DEF IInv, Typed
<1>2. ASSUME NEW b \in Slots, b \in Held(callers) PROVE b \in Held(callers')
  <2>1. b # NoAttempt
    BY DEF Instance
  <2>2. CASE \E d \in Callers : b = callers[d].attempt
    BY <1>1, <2>1, <2>2 DEF Held
  <2>3. CASE \E d \in Callers, kind \in Kinds : b = callers[d].parked[kind][1]
    BY <1>1, <2>1, <2>3 DEF Held
  <2>. QED
    BY <1>2, <2>2, <2>3 DEF Held
<1>. QED
  BY <1>2 DEF Free, InUse

LEMMA StoredStays == ASSUME IInv, UNCHANGED stored PROVE StoredGrows
BY DEF StoredGrows, IInv, Typed, TypeOK

LEMMA AskIs ==
  ASSUME IInv, NEW ask \in {Ask("refresh", s) : s \in Scopes} \cup {Ask("reconcile", Due)}
  PROVE  ask \in AskType
<1>1. stored.revision \in Nat /\ stored.batch \in Nat
  BY DEF IInv, Typed, TypeOK
<1>. QED
  BY <1>1 DEF Ask, AskType, Kinds, Scopes, Due, NoKey

LEMMA RequestSound ==
  ASSUME IInv, Instance, NEW c \in Callers, Request(c)
  PROVE  IInv' /\ Advance
<1> DEFINE parked == [kind \in Kinds |-> ParkedRun(now[kind])]
<1>1. PICK ask \in AskType :
        callers' = [callers EXCEPT ![c] = [Idle EXCEPT !.ask = ask, !.parked = parked,
                      !.pc = IF parked = Idle.parked THEN "ready" ELSE "peeked"]]
  BY AskIs DEF Request
<1>2. /\ now \in [Kinds -> Places] /\ attempts \in [Slots -> AttemptType]
      /\ \A b \in Slots : Recording(attempts[b])
  BY DEF IInv, Typed, TypeOK, Places, Recordings
<1>3. ASSUME NEW kind \in Kinds
      PROVE  /\ parked[kind] \in Places \X {0, 1, 2}
             /\ parked[kind][1] # NoAttempt => attempts[parked[kind][1]].outcome[1] # Pending
  <2>1. CASE Is(now[kind], "parked")
    <3>1. now[kind] \in Slots /\ attempts[now[kind]].state = "parked"
      BY <1>2, <2>1 DEF Is, Places
    <3>2. attempts[now[kind]].run = 1 /\ attempts[now[kind]].outcome[1] # Pending
      BY <1>2, <3>1 DEF Recording
    <3>. QED
      BY <2>1, <3>1, <3>2 DEF ParkedRun, Places
  <2>2. CASE ~Is(now[kind], "parked")
    BY <2>2 DEF ParkedRun, Places
  <2>. QED
    BY <2>1, <2>2
<1>4. parked \in [Kinds -> Places \X {0, 1, 2}]
  BY <1>3
<1>. HIDE DEF parked
<1> DEFINE r == [Idle EXCEPT !.ask = ask, !.parked = parked,
                      !.pc = IF parked = Idle.parked THEN "ready" ELSE "peeked"]
<1>5. /\ r \in CallerType /\ r.attempt = NoAttempt /\ r.parked = parked
      /\ r.pc = IF parked = Idle.parked THEN "ready" ELSE "peeked"
  BY <1>1, <1>4, IdleIs DEF CallerType, AskType
<1>. HIDE DEF r
<1>6. callers' = [callers EXCEPT ![c] = r] /\ callers'[c] = r
  BY <1>1 DEF r, IInv, Typed
<1>7. callers[c].pc = "idle" /\ UNCHANGED <<stored, attempts, now, next, working>> /\ CountersKept
  BY DEF Request, Asks, CountersKept, Instance, IInv, Typed, TypeOK
<1>8. Free' \subseteq Free
  BY <1>5, <1>6, <1>7, Empty, HoldsOn
<1>9. Advance /\ Placed' /\ FollowUp'
  BY <1>7, <1>8, SameSteps, StoredStays
<1>10. Asked(c)'
  BY <1>5, <1>6 DEF Asked
<1>11. Noted(c)'
  <2>1. r.pc # "seen"
    BY <1>5
  <2>2. ASSUME NEW kind \in Kinds, parked[kind][1] # NoAttempt
        PROVE  r.pc = "peeked" /\ attempts'[parked[kind][1]].outcome[1] # Pending
    BY <1>3, <1>5, <1>7, <2>2, IdleIs
  <2>. QED
    BY <1>5, <1>6, <2>1, <2>2 DEF Noted
<1>. QED
  BY <1>5, <1>6, <1>7, <1>9, <1>10, <1>11, CallerSteps

LEMMA ReadStoredStateSound ==
  ASSUME IInv, Instance, NEW c \in Callers, ReadStoredState(c)
  PROVE  IInv' /\ Advance
<1> DEFINE r == [callers[c] EXCEPT !.pc = "seen", !.seen = stored]
<1>1. callers[c] \in CallerType /\ stored \in [revision : Nat, batch : Nat]
  BY DEF IInv, Typed, TypeOK
<1>2. /\ r \in CallerType /\ r.pc = "seen" /\ r.seen = stored /\ r.attempt = callers[c].attempt
      /\ r.parked = callers[c].parked
  BY <1>1 DEF CallerType
<1>. HIDE DEF r
<1>3. callers' = [callers EXCEPT ![c] = r] /\ callers'[c] = r
  BY DEF r, ReadStoredState, IInv, Typed
<1>4. /\ callers[c].pc = "peeked" /\ UNCHANGED <<stored, attempts, now, next, working>>
      /\ CountersKept
  BY DEF ReadStoredState, CountersKept, Instance, IInv, Typed, TypeOK
<1>5. Free' \subseteq Free
  BY <1>2, <1>3, <1>4, HoldsOn
<1>6. Advance /\ Placed' /\ FollowUp'
  BY <1>4, <1>5, SameSteps, StoredStays
<1>7. callers[c].attempt = NoAttempt
  BY <1>4 DEF IInv, Asked
<1>8. Asked(c)'
  BY <1>2, <1>3, <1>7 DEF Asked
<1>9. Noted(c)'
  <2>1. ASSUME NEW kind \in Kinds, callers[c].parked[kind][1] # NoAttempt
        PROVE  LET a == callers[c].parked[kind][1] IN
               attempts[a].outcome[1] # Pending /\ attempts[a].batch <= stored.batch
    <3>1. callers[c].parked[kind][1] \in Slots
      BY <1>1, <2>1 DEF CallerType, Places
    <3>. QED
      BY <2>1, <3>1 DEF IInv, Noted, Recordings
  <2>2. stored.revision <= stored.revision /\ stored.batch <= stored.batch
    BY <1>1
  <2>. QED
    BY <1>2, <1>3, <1>4, <2>1, <2>2 DEF Noted
<1>. QED
  BY <1>2, <1>3, <1>4, <1>6, <1>8, <1>9, CallerSteps

LEMMA ExpireObsoleteSound ==
  ASSUME IInv, Instance, NEW c \in Callers, ExpireObsolete(c)
  PROVE  IInv' /\ Advance
<1> DEFINE r == [Idle EXCEPT !.pc = "ready", !.ask = callers[c].ask]
           gone == {now[k] : k \in {k \in Kinds : Judged(c, k)
                                     /\ MovedPast(callers[c].seen, attempts[now[k]])}}
<1>1. callers[c] \in CallerType
  BY DEF IInv, Typed
<1>2. /\ r \in CallerType /\ r.pc = "ready" /\ r.attempt = NoAttempt
      /\ \A kind \in Kinds : r.parked[kind][1] = NoAttempt
  <2>1. callers[c].ask \in AskType
    BY <1>1 DEF CallerType, AskType
  <2>2. r \in CallerType /\ r.pc = "ready" /\ r.attempt = NoAttempt /\ r.parked = Idle.parked
    BY <2>1, IdleIs DEF CallerType, AskType
  <2>. QED
    BY <2>2, IdleIs
<1>. HIDE DEF r
<1>3. callers' = [callers EXCEPT ![c] = r] /\ callers'[c] = r
  BY DEF r, ExpireObsolete, IInv, Typed
<1>4. gone \in SUBSET Slots /\ \A b \in gone : attempts[b].state = "parked"
  BY DEF Judged, Is, IInv, Typed, TypeOK
<1>5. /\ attempts' = Kept(Expired(gone), now, next, callers')
      /\ UNCHANGED <<stored, now, next, working>> /\ CountersKept
  BY DEF ExpireObsolete, CountersKept, Instance, IInv, Typed, TypeOK
<1>. HIDE DEF gone
<1>6. Advance /\ Placed' /\ FollowUp'
  BY <1>4, <1>5, ExpirySteps, StoredStays
<1>7. Asked(c)' /\ Noted(c)'
  BY <1>2, <1>3 DEF Asked, Noted
<1>. QED
  BY <1>2, <1>3, <1>5, <1>6, <1>7, CallerSteps

LEMMA ExpireOnDeadlineSound ==
  ASSUME IInv, Instance, NEW c \in Callers, ExpireOnDeadline(c)
  PROVE  IInv' /\ Advance
<1> DEFINE a == IF callers[c].pc = "ready" THEN now[callers[c].ask.kind] ELSE callers[c].attempt
           gone == {a}
<1>1. /\ callers[c] \in CallerType /\ now \in [Kinds -> Places] /\ callers[c].ask.kind \in Kinds
      /\ callers \in [Callers -> CallerType]
  BY DEF IInv, Typed, TypeOK, CallerType, Places
<1>2. a \in Places /\ Is(a, "parked")
  BY <1>1 DEF ExpireOnDeadline, Timely, CallerType
<1>3. gone \in SUBSET Slots /\ \A b \in gone : attempts[b].state = "parked"
  BY <1>2 DEF Is, Places
<1>4. /\ attempts' = Kept(Expired(gone), now, next, callers')
      /\ UNCHANGED <<stored, now, next, working, callers>> /\ CountersKept
  BY DEF ExpireOnDeadline, CountersKept, Instance, IInv, Typed, TypeOK
<1>. HIDE DEF gone
<1>5. Advance /\ Placed' /\ FollowUp'
  BY <1>3, <1>4, ExpirySteps, StoredStays
<1>6. Asked(c)' /\ Noted(c)'
  BY <1>4, <1>5, OthersStay, StoredStays
<1>7. callers' = [callers EXCEPT ![c] = callers[c]]
  BY <1>1, <1>4
<1>. QED
  BY <1>1, <1>4, <1>5, <1>6, <1>7, CallerSteps

LEMMA LeaveSound ==
  ASSUME IInv, Instance, NEW c \in Callers, Leave(c), CountersKept,
         UNCHANGED <<stored, now, next, working>>
  PROVE  IInv' /\ Advance
<1>1. callers' = [callers EXCEPT ![c] = Idle] /\ callers'[c] = Idle
  BY DEF Leave, IInv, Typed
<1>2. attempts' = Kept(Expired({}), now, next, callers')
  <2>1. Expired({}) = attempts
    BY DEF Expired, IInv, Typed
  <2>. QED
    BY <2>1 DEF Leave
<1>3. Advance /\ Placed' /\ FollowUp'
  BY <1>2, ExpirySteps, StoredStays
<1>4. Asked(c)' /\ Noted(c)'
  BY <1>1, IdleIs DEF Asked, Noted
<1>. QED
  BY <1>1, <1>3, <1>4, IdleIs, CallerSteps

\* A caller that holds an attempt from now on.
LEMMA HoldingIs ==
  ASSUME IInv, NEW c \in Callers, NEW a \in Slots, Holding(c, a)
  PROVE  \E r \in CallerType :
           /\ callers' = [callers EXCEPT ![c] = r] /\ callers'[c] = r
           /\ r.pc = "started" /\ r.attempt = a /\ r.ask = callers[c].ask
           /\ \A kind \in Kinds : r.parked[kind][1] = NoAttempt
<1> DEFINE r == [Idle EXCEPT !.pc = "started", !.attempt = a, !.ask = callers[c].ask]
<1>1. callers[c].ask \in AskType /\ a \in Places
  BY DEF IInv, Typed, CallerType, AskType, Places
<1>2. /\ r \in CallerType /\ r.pc = "started" /\ r.attempt = a /\ r.ask = callers[c].ask
      /\ r.parked = Idle.parked
  BY <1>1, IdleIs DEF CallerType, AskType
<1>. HIDE DEF r
<1>3. callers' = [callers EXCEPT ![c] = r] /\ callers'[c] = r
  BY DEF Holding, r, IInv, Typed
<1>4. \A kind \in Kinds : r.parked[kind][1] = NoAttempt
  BY <1>2, IdleIs
<1>. QED
  BY <1>2, <1>3, <1>4

\* A caller joins an attempt that covers what it asks for.
LEMMA JoinSound ==
  ASSUME IInv, Instance, NEW c \in Callers, NEW a \in Slots, Holding(c, a), CountersKept,
         UNCHANGED <<stored, attempts, now, next, working>>,
         callers[c].pc = "ready", attempts[a].state \in {"running", "parked"},
         attempts[a].kind = callers[c].ask.kind,
         IF callers[c].ask.kind = "refresh"
         THEN callers[c].ask.scope <= attempts[a].scope
         ELSE attempts[a].key[2] = callers[c].ask.key[2]
  PROVE  IInv' /\ Advance
<1>1. PICK r \in CallerType :
        /\ callers' = [callers EXCEPT ![c] = r] /\ callers'[c] = r
        /\ r.pc = "started" /\ r.attempt = a /\ r.ask = callers[c].ask
        /\ \A kind \in Kinds : r.parked[kind][1] = NoAttempt
  BY HoldingIs
<1>2. Free' \subseteq Free
  BY <1>1, Empty, HoldsOn
<1>3. Advance /\ Placed' /\ FollowUp'
  BY <1>2, SameSteps, StoredStays
<1>4. Recording(attempts[a]) /\ a # NoAttempt
  BY DEF IInv, Recordings, Instance
<1>5. Asked(c)'
  BY <1>1, <1>4 DEF Asked, Recording
<1>6. Noted(c)'
  BY <1>1 DEF Noted
<1>. QED
  BY <1>1, <1>3, <1>5, <1>6, CallerSteps

LEMMA JoinRefreshSound ==
  ASSUME IInv, Instance, NEW c \in Callers, JoinRefresh(c)
  PROVE  IInv' /\ Advance
<1> DEFINE a == now.refresh
<1>1. /\ a \in Slots /\ attempts[a].state \in {"running", "parked"}
      /\ attempts[a].kind = "refresh" /\ callers[c].ask.kind = "refresh"
      /\ attempts[a].scope >= callers[c].ask.scope /\ callers[c].pc = "ready"
  BY DEF JoinRefresh, Starts, Joins, Active, Is, IInv, Typed, TypeOK, Placed, Kinds
<1>2. Holding(c, a) /\ UNCHANGED <<stored, attempts, now, next, working>> /\ CountersKept
  BY DEF JoinRefresh, CountersKept, Instance, IInv, Typed, TypeOK
<1>3. callers[c].ask.scope <= attempts[a].scope
  <2>1. callers[c].ask.scope \in {0, 1, 2} /\ attempts[a].scope \in {0, 1, 2}
    BY <1>1 DEF IInv, Typed, CallerType, AttemptType, Scopes, Due, Manual, CompleteHistory
  <2>. QED
    BY <1>1, <2>1
<1>. HIDE DEF a
<1>. QED
  BY <1>1, <1>2, <1>3, JoinSound

LEMMA StartAfterCloseSound ==
  ASSUME IInv, Instance, NEW c \in Callers, StartAfterClose(c)
  PROVE  IInv' /\ Advance
<1>1. Leave(c) /\ CountersKept /\ UNCHANGED <<stored, now, next, working>>
  BY DEF StartAfterClose, CountersKept, Instance, IInv, Typed, TypeOK
<1>. QED
  BY <1>1, LeaveSound

LEMMA WakeSound ==
  ASSUME IInv, Instance, NEW c \in Callers, Wake(c) \/ GiveUp(c)
  PROVE  IInv' /\ Advance
<1>1. Leave(c) /\ CountersKept /\ UNCHANGED <<stored, now, next, working>>
  BY DEF Wake, GiveUp, CountersKept, Instance, IInv, Typed, TypeOK
<1>. QED
  BY <1>1, LeaveSound

LEMMA WaitSound ==
  ASSUME IInv, Instance, NEW c \in Callers, Wait(c)
  PROVE  IInv' /\ Advance
<1> DEFINE a == callers[c].attempt
           r == [callers[c] EXCEPT !.pc = "waiting", !.run = attempts[a].run]
<1>1. UNCHANGED <<stored, now, next, working>> /\ CountersKept /\ callers[c].pc = "started"
  BY DEF Wait, CountersKept, Instance, IInv, Typed, TypeOK
<1>2. CASE Leave(c)
  BY <1>1, <1>2, LeaveSound
<1>3. CASE /\ callers' = [callers EXCEPT ![c].pc = "waiting", ![c].run = attempts[a].run]
           /\ UNCHANGED attempts
  <2>1. Asked(c) /\ Noted(c) /\ callers[c] \in CallerType
    BY DEF IInv, Typed
  <2>2. a \in Slots /\ a # NoAttempt
    BY <1>1, <2>1 DEF Asked, CallerType, Places
  <2>3. attempts[a].run \in Runs /\ attempts[a].run <= attempts[a].run
    BY <2>2 DEF IInv, Typed, AttemptType, Runs
  <2>4. /\ r \in CallerType /\ r.pc = "waiting" /\ r.run = attempts[a].run
        /\ r.attempt = a /\ r.parked = callers[c].parked /\ r.ask = callers[c].ask
    BY <2>1, <2>3 DEF CallerType
  <2>. HIDE DEF r
  <2>5. callers' = [callers EXCEPT ![c] = r] /\ callers'[c] = r
    BY <1>3 DEF r, IInv, Typed
  <2>6. Free' \subseteq Free
    BY <1>1, <2>4, <2>5, HoldsOn
  <2>7. Advance /\ Placed' /\ FollowUp'
    BY <1>1, <1>3, <2>6, SameSteps, StoredStays
  <2>8. Asked(c)'
    BY <1>1, <1>3, <2>1, <2>2, <2>3, <2>4, <2>5 DEF Asked
  <2>9. Noted(c)'
    BY <1>1, <2>1, <2>4, <2>5 DEF Noted
  <2>. QED
    BY <1>1, <2>4, <2>5, <2>7, <2>8, <2>9, CallerSteps
<1>. QED
  BY <1>2, <1>3 DEF Wait

--------------------------------------------------------------------------------
(* Requests: attempts that a caller makes or changes.                        *)

LEMMA CountersStay ==
  ASSUME IInv, Instance, CountersKept
  PROVE  /\ asked' \in 0..MaxRequests
         /\ reserving' \in 0..MaxRequests /\ workers' \in 0..MaxRequests
         /\ reserving' + workers' <= asked' /\ closed' \in BOOLEAN /\ returned' \in BOOLEAN
<1>1. /\ reserving' = reserving /\ workers' = workers /\ asked <= asked'
      /\ closed' = closed /\ returned' = returned
      /\ asked' \in 0..MaxRequests
  BY DEF CountersKept, writeVars, closeVars
<1>2. /\ reserving + workers <= asked
      /\ reserving \in 0..MaxRequests /\ workers \in 0..MaxRequests /\ asked \in 0..MaxRequests
      /\ closed \in BOOLEAN /\ returned \in BOOLEAN
  BY DEF IInv, Typed, TypeOK
<1>3. reserving' + workers' <= asked'
  BY <1>1, <1>2 DEF Instance
<1>. QED
  BY <1>1, <1>2, <1>3

\* What runs, and the follow-up, stand in now and next.
LEMMA StandingIs ==
  ASSUME IInv, Instance
  PROVE  /\ attempts \in [Slots -> AttemptType] /\ now \in [Kinds -> Places] /\ next \in Places
         /\ working \subseteq Slots /\ callers \in [Callers -> CallerType]
         /\ \A b \in working : b = now.refresh \/ b = now.reconcile
         /\ NoAttempt \notin working
<1>1. /\ attempts \in [Slots -> AttemptType] /\ now \in [Kinds -> Places] /\ next \in Places
      /\ working \subseteq Slots /\ callers \in [Callers -> CallerType]
  BY DEF IInv, Typed, TypeOK, Places
<1>2. \A b \in working : b = now.refresh \/ b = now.reconcile
  BY <1>1 DEF IInv, Placed, AttemptType, Kinds
<1>. QED
  BY <1>1, <1>2 DEF Instance

\* One attempt evolves and nothing else does.
LEMMA OneChanges ==
  ASSUME IInv, Instance, UNCHANGED stored, NEW a \in Slots, NEW y \in AttemptType,
         attempts' = [attempts EXCEPT ![a] = y],
         Recording(y), Evolve(attempts[a], y), y.revision = attempts[a].revision,
         y.batch = attempts[a].batch, Free' \subseteq Free, a \notin Free
  PROVE  /\ Advance /\ attempts'[a] = y /\ \A b \in Slots \ {a} : attempts'[b] = attempts[b]
         /\ \A b \in Free' : attempts'[b] = Unused
<1>1. attempts \in [Slots -> AttemptType]
  BY StandingIs
<1>2. /\ attempts' \in [Slots -> AttemptType] /\ attempts'[a] = y
      /\ \A b \in Slots \ {a} : attempts'[b] = attempts[b]
  BY <1>1
<1>3. \A b \in Slots : Evolve(attempts[b], attempts'[b])
  BY <1>1, <1>2, EvolveSame
<1>4. Recordings'
  BY <1>1, <1>2 DEF IInv, Recordings
<1>5. Free \subseteq Slots /\ \A b \in Free : attempts[b] = Unused
  BY DEF IInv, Placed, Free
<1>. QED
  BY <1>2, <1>3, <1>4, <1>5 DEF Advance

\* A caller makes an attempt and holds it.
LEMMA NewIs ==
  ASSUME IInv, Instance, UNCHANGED stored, NEW c \in Callers, callers[c].pc = "ready",
         NEW a \in Free, Holding(c, a), Make(c, a)
  PROVE  /\ Advance /\ a \in Slots /\ a # NoAttempt
         /\ a \notin {now.refresh, now.reconcile, next} /\ a \notin working
         /\ attempts'[a].kind = callers[c].ask.kind /\ attempts'[a].state = "running"
         /\ attempts'[a].run = 1
         /\ \A b \in Slots \ {a} : attempts'[b] = attempts[b] \/ attempts'[b] = Unused
         /\ \A b \in Slots \ {a} : /\ b = now'.refresh \/ b = now'.reconcile \/ b = next'
                                   /\ attempts[b].state \in {"running", "parked"}
                                   => attempts'[b] = attempts[b]
         /\ \A b \in Free' : attempts'[b] = Unused
         /\ Asked(c)' /\ Noted(c)'
         /\ \E r \in CallerType : callers' = [callers EXCEPT ![c] = r]
<1> DEFINE x == NewAttempt(callers[c].ask)
           all == [attempts EXCEPT ![a] = x]
<1>1. /\ a \in Slots /\ a # NoAttempt /\ a \notin {now.refresh, now.reconcile, next}
      /\ a \notin working /\ attempts \in [Slots -> AttemptType]
      /\ callers[c].ask \in AskType
  BY StandingIs DEF Free, InUse, Instance, CallerType, AskType
<1>2. stored \in [revision : Nat, batch : Nat]
  BY DEF IInv, Typed, TypeOK
<1>3. /\ x \in AttemptType /\ Recording(x)
      /\ x.kind = callers[c].ask.kind /\ x.scope = callers[c].ask.scope
      /\ x.key = callers[c].ask.key /\ x.state = "running"
      /\ x.revision = stored.revision /\ x.batch = stored.batch /\ x.run = 1
  BY <1>1, <1>2, NewAttemptIs
<1>. HIDE DEF x
<1>4. /\ all \in [Slots -> AttemptType] /\ all[a] = x
      /\ \A b \in Slots \ {a} : all[b] = attempts[b]
  BY <1>1, <1>3
<1>5. attempts' = Kept(all, now', next', callers')
  BY DEF Make, x
<1>. HIDE DEF all
<1>6. ASSUME NEW b \in Slots
      PROVE  /\ Recording(all[b])
             /\ all[b].revision <= stored'.revision /\ all[b].batch <= stored'.batch
             /\ b \in Free \/ Evolve(attempts[b], all[b])
  <2>1. CASE b = a
    BY <1>2, <1>3, <1>4, <2>1
  <2>2. CASE b # a
    <3>1. all[b] = attempts[b] /\ attempts[b] \in AttemptType
      BY <1>1, <1>4, <2>2
    <3>2. Recording(attempts[b]) /\ attempts[b].revision <= stored.revision
          /\ attempts[b].batch <= stored.batch
      BY DEF IInv, Recordings
    <3>. QED
      BY <3>1, <3>2, EvolveSame
  <2>. QED
    BY <2>1, <2>2
<1>7. Advance
  BY <1>4, <1>5, <1>6, KeptAdvances, StoredStays
<1>8. PICK r \in CallerType :
        /\ callers' = [callers EXCEPT ![c] = r] /\ callers'[c] = r
        /\ r.pc = "started" /\ r.attempt = a /\ r.ask = callers[c].ask
        /\ \A kind \in Kinds : r.parked[kind][1] = NoAttempt
  BY <1>1, HoldingIs
<1>9. a \in Held(callers')
  BY <1>8 DEF Held
<1>10. /\ \A b \in Slots : attempts'[b] = all[b] \/ attempts'[b] = Unused
       /\ \A b \in Slots : b \in Held(callers') => attempts'[b] = all[b]
       /\ \A b \in Slots : /\ b = now'.refresh \/ b = now'.reconcile \/ b = next'
                           /\ all[b].state \in {"running", "parked"}
                           => attempts'[b] = all[b]
       /\ \A b \in Free' : attempts'[b] = Unused
  BY <1>4, <1>5, KeptIs
<1>11. attempts'[a] = x
  BY <1>1, <1>4, <1>9, <1>10
<1>12. /\ \A b \in Slots \ {a} : attempts'[b] = attempts[b] \/ attempts'[b] = Unused
       /\ \A b \in Slots \ {a} : /\ b = now'.refresh \/ b = now'.reconcile \/ b = next'
                                 /\ attempts[b].state \in {"running", "parked"}
                                 => attempts'[b] = attempts[b]
  BY <1>4, <1>10
<1>13. Asked(c)'
  <2>1. callers[c].ask.scope <= x.scope
    BY <1>1, <1>3 DEF AskType, Scopes, Due, Manual, CompleteHistory
  <2>. QED
    BY <1>1, <1>3, <1>8, <1>11, <2>1 DEF Asked
<1>14. Noted(c)'
  BY <1>8 DEF Noted
<1>. QED
  BY <1>1, <1>3, <1>7, <1>8, <1>10, <1>11, <1>12, <1>13, <1>14

\* A step of a caller that makes or confirms an attempt before Close.
LEMMA OpenSteps ==
  ASSUME IInv, Instance, Advance, Placed', FollowUp', CountersKept, UNCHANGED stored, ~closed,
         now' \in [Kinds -> Places], next' \in Places, working' \subseteq Slots,
         NEW c \in Callers, NEW r \in CallerType, callers' = [callers EXCEPT ![c] = r],
         Asked(c)' /\ Noted(c)'
  PROVE  IInv' /\ Advance
<1>1. Ended'
  BY DEF Ended, IInv, CountersKept, closeVars, NothingAfterClose
<1>2. callers' \in [Callers -> CallerType] /\ \A d \in Callers \ {c} : callers'[d] = callers[d]
  BY DEF IInv, Typed
<1> DEFINE C == {c}
<1>3. C \in SUBSET Callers /\ \A d \in C : Asked(d)' /\ Noted(d)'
  OBVIOUS
<1>4. \A d \in Callers \ C : callers'[d] = callers[d]
  BY <1>2
<1>. HIDE DEF C
<1>. QED
  BY <1>1, <1>2, <1>3, <1>4, CountersStay, StoredStays, Together DEF Instance

\* A new attempt that runs at once: nothing of its kind ran.
LEMMA StartNewSound ==
  ASSUME IInv, Instance, NEW c \in Callers, NEW kind \in Kinds, StartNew(c, kind),
         callers[c].pc = "ready", callers[c].ask.kind = kind, ~closed, CountersKept,
         UNCHANGED stored, ~Is(now[kind], "running")
  PROVE  IInv' /\ Advance
<1>1. PICK a \in Free : /\ now' = [now EXCEPT ![kind] = a] /\ working' = working \cup {a}
                        /\ Holding(c, a) /\ Make(c, a) /\ next' = next
  BY DEF StartNew
<1>2. /\ attempts \in [Slots -> AttemptType] /\ now \in [Kinds -> Places] /\ next \in Places
      /\ working \subseteq Slots
      /\ \A b \in working : b = now.refresh \/ b = now.reconcile
      /\ NoAttempt \notin working
  BY StandingIs
<1>3. /\ Advance /\ a \in Slots /\ a # NoAttempt
      /\ a \notin {now.refresh, now.reconcile, next} /\ a \notin working
      /\ attempts'[a].kind = kind /\ attempts'[a].state = "running"
      /\ \A b \in Slots \ {a} : attempts'[b] = attempts[b] \/ attempts'[b] = Unused
      /\ \A b \in Slots \ {a} : /\ b = now'.refresh \/ b = now'.reconcile \/ b = next'
                                /\ attempts[b].state \in {"running", "parked"}
                                => attempts'[b] = attempts[b]
      /\ \A b \in Free' : attempts'[b] = Unused
      /\ Asked(c)' /\ Noted(c)'
      /\ \E r \in CallerType : callers' = [callers EXCEPT ![c] = r]
  BY <1>1, NewIs
<1>4. /\ now'[kind] = a /\ \A k \in Kinds \ {kind} : now'[k] = now[k]
      /\ now' \in [Kinds -> Places] /\ working' \subseteq Slots
  BY <1>1, <1>2, <1>3 DEF Places
<1>5. \A b \in working : attempts[b].state = "running" /\ now[attempts[b].kind] = b
  BY DEF IInv, Placed
<1>6. ASSUME NEW b \in working
      PROVE  /\ attempts'[b] = attempts[b] /\ b # a
             /\ attempts[b].kind \in Kinds /\ attempts[b].kind # kind
  <2>1. attempts[b].kind \in Kinds /\ b # a /\ b # NoAttempt
    BY <1>2, <1>3 DEF AttemptType
  <2>2. attempts[b].kind # kind
    BY <1>5, <2>1 DEF Is
  <2>3. now'[attempts[b].kind] = b
    BY <1>4, <1>5, <2>1, <2>2
  <2>4. b = now'.refresh \/ b = now'.reconcile
    BY <2>1, <2>3 DEF Kinds
  <2>. QED
    BY <1>2, <1>3, <1>5, <2>1, <2>2, <2>4
<1>7. \A b \in working' : attempts'[b].state = "running" /\ now'[attempts'[b].kind] = b
  BY <1>1, <1>3, <1>4, <1>5, <1>6
<1>8. \A b \in Slots : attempts'[b].state = "running" => b \in working' \/ b = next'
  BY <1>1, <1>3, UnusedIs DEF IInv, Placed
<1>9. ASSUME NEW k \in Kinds, Active(now[k])' PROVE attempts'[now'[k]].kind = k
  <2>1. CASE k = kind
    BY <1>3, <1>4, <2>1
  <2>2. CASE k # kind
    <3>1. now'[k] = now[k] /\ now[k] \in Slots \ {a} /\ now[k] # NoAttempt
      BY <1>2, <1>3, <1>4, <1>9, <2>2 DEF Active, Is, Places, Kinds
    <3>2. attempts'[now[k]].state \in {"running", "parked"}
      BY <1>9, <3>1 DEF Active, Is
    <3>3. attempts'[now[k]] = attempts[now[k]]
      BY <1>3, <3>1, <3>2, UnusedIs
    <3>. QED
      BY <3>1, <3>2, <3>3 DEF IInv, Placed, Active, Is
  <2>. QED
    BY <2>1, <2>2
<1>10. now'.refresh # NoAttempt => now'.refresh # now'.reconcile
  <2>1. now.refresh # NoAttempt => now.refresh # now.reconcile
    BY DEF IInv, Placed
  <2>. QED
    BY <1>3, <1>4, <2>1 DEF Kinds
<1>11. Placed'
  BY <1>3, <1>7, <1>8, <1>9, <1>10 DEF Placed
<1>12. FollowUp'
  <2> SUFFICES ASSUME next # NoAttempt PROVE FollowUp'
    BY <1>1 DEF FollowUp
  <2>1. /\ next \notin working /\ next # now.refresh /\ next # now.reconcile
        /\ attempts[next].kind = "refresh" /\ attempts[next].state = "running"
        /\ attempts[next].run = 1 /\ now.refresh \in working
    BY DEF IInv, FollowUp
  <2>2. kind # "refresh"
    BY <1>5, <1>2, <2>1 DEF Is
  <2>3. now'.refresh = now.refresh /\ now'.reconcile = a
    BY <1>4, <2>2 DEF Kinds
  <2>4. next \in Slots \ {a}
    BY <1>2, <1>3 DEF Places
  <2>5. attempts'[next] = attempts[next]
    BY <1>1, <1>3, <2>1, <2>4
  <2>. QED
    BY <1>1, <2>1, <2>3, <2>4, <2>5 DEF FollowUp
<1>13. PICK r \in CallerType : callers' = [callers EXCEPT ![c] = r]
  BY <1>3
<1>. QED
  BY <1>1, <1>2, <1>3, <1>4, <1>11, <1>12, <1>13, OpenSteps

LEMMA StartRefreshSound ==
  ASSUME IInv, Instance, NEW c \in Callers, StartRefresh(c)
  PROVE  IInv' /\ Advance
<1>1. /\ callers[c].pc = "ready" /\ callers[c].ask.kind = "refresh" /\ ~closed
      /\ StartNew(c, "refresh") /\ UNCHANGED stored /\ CountersKept
  BY DEF StartRefresh, Starts, CountersKept, Instance, IInv, Typed, TypeOK
<1>2. ~Is(now["refresh"], "running")
  <2> SUFFICES ASSUME Is(now.refresh, "running") PROVE FALSE
    OBVIOUS
  <2>1. now.refresh \in Slots
    BY StandingIs DEF Is, Places, Kinds
  <2>2. attempts[now.refresh].scope \in {0, 1, 2} /\ callers[c].ask.scope \in {0, 1, 2}
    BY <2>1, StandingIs DEF AttemptType, CallerType, Scopes, Due, Manual, CompleteHistory
  <2>3. /\ ~(attempts[now.refresh].scope >= callers[c].ask.scope)
        /\ ~(attempts[now.refresh].scope < callers[c].ask.scope)
    BY DEF StartRefresh, Joins, MustQueue, Active
  <2>. QED
    BY <2>2, <2>3
<1>. QED
  BY <1>1, <1>2, StartNewSound DEF Kinds

\* A caller joins the reconcile of its state or of its batch, or is refused.
LEMMA StartReconcileSound ==
  ASSUME IInv, Instance, NEW c \in Callers, StartReconcile(c)
  PROVE  IInv' /\ Advance
<1> DEFINE key == callers[c].ask.key
           a == now.reconcile
<1>1. /\ callers[c].pc = "ready" /\ callers[c].ask.kind = "reconcile" /\ ~closed
      /\ UNCHANGED stored /\ CountersKept
  BY DEF StartReconcile, Starts, CountersKept, Instance, IInv, Typed, TypeOK
<1>2. CASE /\ Active(a)
           /\ attempts[a].key = key \/ (Is(a, "parked") /\ attempts[a].batch = key[2])
           /\ Holding(c, a) /\ UNCHANGED <<attempts, now, next, working>>
  <2>1. /\ a \in Slots /\ attempts[a].state \in {"running", "parked"}
        /\ attempts[a].kind = "reconcile"
    BY <1>2, StandingIs DEF Active, Is, Places, Kinds, IInv, Placed
  <2>2. attempts[a].key[2] = key[2]
    <3>1. Recording(attempts[a])
      BY <2>1 DEF IInv, Recordings
    <3>2. CASE attempts[a].key = key
      BY <3>2
    <3>3. CASE attempts[a].state = "parked" /\ attempts[a].batch = key[2]
      BY <2>1, <3>1, <3>3 DEF Recording, Gives
    <3>. QED
      BY <1>2, <3>2, <3>3 DEF Is
  <2>. HIDE DEF a
  <2>. QED
    BY <1>1, <1>2, <2>1, <2>2, JoinSound
<1>3. CASE Leave(c) /\ UNCHANGED <<now, next, working>>
  BY <1>1, <1>3, LeaveSound
<1>4. CASE ~Active(a) /\ StartNew(c, "reconcile")
  <2>1. ~Is(now["reconcile"], "running")
    BY <1>4 DEF Active
  <2>. QED
    BY <1>1, <1>4, <2>1, StartNewSound DEF Kinds
<1>. QED
  BY <1>2, <1>3, <1>4 DEF StartReconcile

\* A caller that needs more than the running refresh reads waits behind it.
LEMMA QueueRefreshSound ==
  ASSUME IInv, Instance, NEW c \in Callers, QueueRefresh(c)
  PROVE  IInv' /\ Advance
<1> DEFINE scope == callers[c].ask.scope
<1>1. /\ callers[c].pc = "ready" /\ callers[c].ask.kind = "refresh" /\ ~closed
      /\ UNCHANGED <<stored, now, working>> /\ CountersKept /\ Is(now.refresh, "running")
  BY DEF QueueRefresh, Starts, MustQueue, CountersKept, Instance, IInv, Typed, TypeOK
<1>2. /\ attempts \in [Slots -> AttemptType] /\ now \in [Kinds -> Places] /\ next \in Places
      /\ working \subseteq Slots /\ callers \in [Callers -> CallerType]
      /\ \A b \in working : b = now.refresh \/ b = now.reconcile
      /\ NoAttempt \notin working
  BY StandingIs
<1>3. now.refresh \in Slots /\ scope \in Scopes /\ now.refresh # NoAttempt
  BY <1>1, <1>2 DEF Is, Places, Kinds, CallerType
<1>4. CASE next = NoAttempt /\ \E a \in Free : next' = a /\ Holding(c, a) /\ Make(c, a)
  <2>1. PICK a \in Free : next' = a /\ Holding(c, a) /\ Make(c, a)
    BY <1>4
  <2>2. /\ Advance /\ a \in Slots /\ a # NoAttempt
        /\ a \notin {now.refresh, now.reconcile, next} /\ a \notin working
        /\ attempts'[a].kind = "refresh" /\ attempts'[a].state = "running"
        /\ attempts'[a].run = 1
        /\ \A b \in Slots \ {a} : attempts'[b] = attempts[b] \/ attempts'[b] = Unused
        /\ \A b \in Slots \ {a} : /\ b = now'.refresh \/ b = now'.reconcile \/ b = next'
                                  /\ attempts[b].state \in {"running", "parked"}
                                  => attempts'[b] = attempts[b]
        /\ \A b \in Free' : attempts'[b] = Unused
        /\ Asked(c)' /\ Noted(c)'
        /\ \E r \in CallerType : callers' = [callers EXCEPT ![c] = r]
    BY <1>1, <2>1, NewIs
  <2>3. now.refresh \in working
    BY <1>1, <1>3, <1>4 DEF Is, IInv, Placed
  <2>4. \A b \in working : attempts[b].state = "running" /\ now[attempts[b].kind] = b
    BY DEF IInv, Placed
  <2>5. \A b \in working : attempts'[b] = attempts[b]
    BY <1>1, <1>2, <2>2, <2>4
  <2>6. \A b \in Slots : attempts'[b].state = "running" => b \in working' \/ b = next'
    BY <1>1, <1>4, <2>1, <2>2, UnusedIs DEF IInv, Placed, Instance
  <2>7. ASSUME NEW k \in Kinds, Active(now[k])' PROVE attempts'[now'[k]].kind = k
    <3>1. now'[k] = now[k] /\ now[k] \in Slots \ {a} /\ now[k] # NoAttempt
      BY <1>1, <1>2, <2>2, <2>7 DEF Active, Is, Places, Kinds
    <3>2. attempts'[now[k]].state \in {"running", "parked"}
      BY <2>7, <3>1 DEF Active, Is
    <3>3. attempts'[now[k]] = attempts[now[k]]
      BY <2>2, <3>1, <3>2, UnusedIs
    <3>. QED
      BY <3>1, <3>2, <3>3 DEF IInv, Placed, Active, Is
  <2>8. Placed'
    BY <1>1, <2>2, <2>4, <2>5, <2>6, <2>7 DEF Placed, IInv
  <2>9. FollowUp'
    BY <1>1, <2>1, <2>2, <2>3 DEF FollowUp
  <2>10. PICK r \in CallerType : callers' = [callers EXCEPT ![c] = r]
    BY <2>2
  <2>11. next' \in Places
    BY <2>1, <2>2 DEF Places
  <2>. QED
    BY <1>1, <1>2, <2>2, <2>8, <2>9, <2>10, <2>11, OpenSteps
<1>5. CASE /\ next # NoAttempt
           /\ attempts' = [attempts EXCEPT ![next].scope = Max2(@, scope)]
           /\ Holding(c, next) /\ UNCHANGED next
  <2> DEFINE y == [attempts[next] EXCEPT !.scope = Max2(attempts[next].scope, scope)]
  <2>1. /\ next \in Slots /\ attempts[next].kind = "refresh" /\ attempts[next].state = "running"
        /\ attempts[next].run = 1
    BY <1>2, <1>5 DEF IInv, FollowUp, Places
  <2>2. attempts[next] \in AttemptType /\ Recording(attempts[next])
    BY <1>2, <2>1 DEF IInv, Recordings
  <2>0. y = [attempts[next] EXCEPT !.scope = Max2(attempts[next].scope, scope)]
    OBVIOUS
  <2>4. attempts' = [attempts EXCEPT ![next] = y]
    BY <1>5
  <2>. HIDE DEF y
  <2>3. /\ y \in AttemptType /\ Recording(y) /\ Evolve(attempts[next], y)
        /\ y.revision = attempts[next].revision /\ y.batch = attempts[next].batch
        /\ y.kind = attempts[next].kind /\ y.state = attempts[next].state
        /\ y.run = attempts[next].run /\ scope <= y.scope
    BY <1>3, <2>0, <2>1, <2>2, RaisedIs, ZenonT(40)
  <2>5. PICK r \in CallerType :
          /\ callers' = [callers EXCEPT ![c] = r] /\ callers'[c] = r
          /\ r.pc = "started" /\ r.attempt = next /\ r.ask = callers[c].ask
          /\ \A kind \in Kinds : r.parked[kind][1] = NoAttempt
    BY <1>5, <2>1, HoldingIs
  <2>6. Free' \subseteq Free /\ next \notin Free
    <3>1. Free' \subseteq Free
      BY <1>1, <1>5, <2>5, Empty, HoldsOn
    <3>. QED
      BY <3>1 DEF Free, InUse
  <2>7. /\ Advance /\ attempts'[next] = y
        /\ \A b \in Slots \ {next} : attempts'[b] = attempts[b]
        /\ \A b \in Free' : attempts'[b] = Unused
    BY <1>1, <2>1, <2>3, <2>4, <2>6, OneChanges
  <2>8. attempts' \in [Slots -> AttemptType]
    BY <2>7 DEF Advance
  <2>9. \A b \in Slots : /\ attempts'[b].kind = attempts[b].kind
                         /\ attempts'[b].state = attempts[b].state
                         /\ attempts'[b].run = attempts[b].run
    BY <2>3, <2>7
  <2>10. Placed' /\ FollowUp'
    BY <1>1, <1>5, <2>7, <2>8, <2>9, PlacesStay
  <2>11. Asked(c)'
    <3>1. /\ callers'[c].attempt = next /\ callers'[c].ask = callers[c].ask
          /\ callers'[c].pc = "started" /\ attempts'[callers'[c].attempt] = y
      BY <2>5, <2>7
    <3>2. y.kind = callers'[c].ask.kind /\ callers'[c].ask.scope <= y.scope
          /\ callers'[c].ask.kind = "refresh" /\ y.state = "running"
      BY <1>1, <2>1, <2>3, <3>1
    <3>. QED
      BY <1>5, <3>1, <3>2 DEF Asked
  <2>12. Noted(c)'
    BY <2>5 DEF Noted
  <2>. QED
    BY <1>1, <1>2, <1>5, <2>5, <2>7, <2>10, <2>11, <2>12, OpenSteps
<1>. QED
  BY <1>4, <1>5 DEF QueueRefresh

\* A parked attempt runs on.
LEMMA ConfirmSound ==
  ASSUME IInv, Instance, NEW c \in Callers, NEW kind \in Kinds, Confirm(c, kind)
  PROVE  IInv' /\ Advance
<1> DEFINE a == now[kind]
           y == [attempts[a] EXCEPT !.state = "running", !.run = 2]
           r == [Idle EXCEPT !.pc = "waiting", !.attempt = a, !.run = 2,
                   !.ask = [kind |-> kind, scope |-> Due, key |-> attempts[a].key]]
<1>1. /\ callers[c].pc = "idle" /\ ~closed /\ Is(a, "parked") /\ UNCHANGED <<stored, now, next>>
      /\ working' = working \cup {a}
      /\ CountersKept
  BY DEF Confirm, Asks, CountersKept, Instance, IInv, Typed, TypeOK
<1>2. /\ attempts \in [Slots -> AttemptType] /\ now \in [Kinds -> Places] /\ next \in Places
      /\ working \subseteq Slots /\ callers \in [Callers -> CallerType]
      /\ \A b \in working : b = now.refresh \/ b = now.reconcile
      /\ NoAttempt \notin working
  BY StandingIs
<1>3. /\ a \in Slots /\ a # NoAttempt /\ attempts[a].state = "parked" /\ attempts[a].kind = kind
      /\ attempts[a] \in AttemptType /\ Recording(attempts[a])
  BY <1>1, <1>2 DEF Is, Places, IInv, Placed, Active, Recordings
<1>0. y = [attempts[a] EXCEPT !.state = "running", !.run = 2]
  OBVIOUS
<1>. HIDE DEF y
<1>4. /\ y \in AttemptType /\ Recording(y) /\ Evolve(attempts[a], y)
      /\ y.revision = attempts[a].revision /\ y.batch = attempts[a].batch
      /\ y.kind = attempts[a].kind /\ y.key = attempts[a].key
      /\ y.state = "running" /\ y.run = 2 /\ y.scope = attempts[a].scope
  BY <1>0, <1>3, ConfirmedIs, ZenonT(40)
<1>5. attempts' = [attempts EXCEPT ![a] = y]
  BY <1>2, <1>3 DEF Confirm, y
<1>6. /\ r \in CallerType /\ r.pc = "waiting" /\ r.attempt = a /\ r.run = 2
      /\ r.ask.kind = kind /\ r.ask.scope = Due /\ r.ask.key = attempts[a].key
      /\ \A k \in Kinds : r.parked[k][1] = NoAttempt
  <2>1. [kind |-> kind, scope |-> Due, key |-> attempts[a].key] \in AskType
    BY <1>3 DEF AskType, AttemptType, Scopes
  <2>2. /\ r \in CallerType /\ r.pc = "waiting" /\ r.attempt = a /\ r.run = 2
        /\ r.ask = [kind |-> kind, scope |-> Due, key |-> attempts[a].key]
        /\ r.parked = Idle.parked
    BY <1>3, <2>1, IdleIs DEF CallerType, AskType, Runs, Places
  <2>. QED
    BY <2>2, IdleIs
<1>. HIDE DEF r
<1>7. callers' = [callers EXCEPT ![c] = r] /\ callers'[c] = r
  BY <1>2 DEF Confirm, r
<1>8. Free' \subseteq Free /\ a \notin Free
  <2>1. Free' \subseteq Free
    BY <1>1, <1>6, <1>7, Empty, HoldsOn
  <2>. QED
    BY <2>1 DEF Free, InUse, Kinds
<1>9. /\ Advance /\ attempts'[a] = y
      /\ \A b \in Slots \ {a} : attempts'[b] = attempts[b]
      /\ \A b \in Free' : attempts'[b] = Unused
  BY <1>1, <1>3, <1>4, <1>5, <1>8, OneChanges
<1>10. Placed'
  <2>1. \A b \in working : /\ b # a /\ attempts'[b] = attempts[b]
                           /\ attempts[b].state = "running" /\ now[attempts[b].kind] = b
    BY <1>2, <1>3, <1>9 DEF IInv, Placed
  <2>2. \A b \in working' : attempts'[b].state = "running" /\ now'[attempts'[b].kind] = b
    BY <1>1, <1>3, <1>4, <1>9, <2>1
  <2>3. \A b \in Slots : attempts'[b].state = "running" => b \in working' \/ b = next'
    BY <1>1, <1>9 DEF IInv, Placed
  <2>4. ASSUME NEW k \in Kinds, Active(now[k])' PROVE attempts'[now'[k]].kind = k
    <3>1. CASE now[k] = a
      <4>1. Active(now[k])
        BY <1>1, <3>1 DEF Active
      <4>. QED
        BY <1>1, <1>4, <1>9, <3>1, <4>1 DEF IInv, Placed
    <3>2. CASE now[k] # a
      <4>1. now'[k] = now[k] /\ now[k] \in Slots \ {a} /\ now[k] # NoAttempt
        BY <1>1, <1>2, <2>4, <3>2 DEF Active, Is, Places
      <4>. QED
        BY <1>9, <2>4, <4>1 DEF IInv, Placed, Active, Is
    <3>. QED
      BY <3>1, <3>2
  <2>5. now'.refresh # NoAttempt => now'.refresh # now'.reconcile
    BY <1>1 DEF IInv, Placed
  <2>. QED
    BY <1>9, <2>2, <2>3, <2>4, <2>5 DEF Placed
<1>11. FollowUp'
  <2> SUFFICES ASSUME next # NoAttempt PROVE FollowUp'
    BY <1>1 DEF FollowUp
  <2>1. /\ next \notin working /\ next # now.refresh /\ next # now.reconcile
        /\ attempts[next].kind = "refresh" /\ attempts[next].state = "running"
        /\ attempts[next].run = 1 /\ now.refresh \in working
    BY DEF IInv, FollowUp
  <2>2. next \in Slots \ {a}
    BY <1>2, <2>1 DEF Places, Kinds
  <2>3. attempts'[next] = attempts[next]
    BY <1>9, <2>2
  <2>. QED
    BY <1>1, <2>1, <2>2, <2>3 DEF FollowUp
<1>12. Asked(c)'
  <2>1. Due <= y.scope /\ 2 <= y.run
    BY <1>4 DEF AttemptType, Scopes, Due, Manual, CompleteHistory
  <2>. QED
    BY <1>3, <1>4, <1>6, <1>7, <1>9, <2>1 DEF Asked
<1>13. Noted(c)'
  BY <1>6, <1>7 DEF Noted
<1>14. working' \subseteq Slots /\ now' \in [Kinds -> Places] /\ next' \in Places
  BY <1>1, <1>2, <1>3
<1>. QED
  BY <1>1, <1>6, <1>7, <1>9, <1>10, <1>11, <1>12, <1>13, <1>14, OpenSteps

--------------------------------------------------------------------------------
(* Steps of nobody's request.                                                *)

\* Steps that no caller takes part in.
LEMMA QuietSteps ==
  ASSUME IInv, Instance, Advance, StoredGrows, Placed', FollowUp', Ended', UNCHANGED callers,
         now' \in [Kinds -> Places], next' \in Places, working' \subseteq Slots,
         asked' \in 0..MaxRequests, reserving' \in 0..MaxRequests, workers' \in 0..MaxRequests,
         reserving' + workers' <= asked', closed' \in BOOLEAN, returned' \in BOOLEAN
  PROVE  IInv' /\ Advance
<1> DEFINE C == {}
<1>1. C \in SUBSET Callers /\ \A d \in C : Asked(d)' /\ Noted(d)'
  OBVIOUS
<1>2. callers' \in [Callers -> CallerType] /\ \A d \in Callers \ C : callers'[d] = callers[d]
  BY StandingIs
<1>. HIDE DEF C
<1>. QED
  BY <1>1, <1>2, Together DEF Instance

LEMMA ConfirmationDeadlineSound ==
  ASSUME IInv, Instance, NEW kind \in Kinds, ConfirmationDeadline(kind)
  PROVE  IInv' /\ Advance
<1> DEFINE a == now[kind]
           y == [attempts[a] EXCEPT !.late = TRUE]
<1>1. /\ Is(a, "parked") /\ UNCHANGED <<stored, now, next, working, callers>> /\ CountersKept
  BY DEF ConfirmationDeadline, CountersKept, Instance, IInv, Typed, TypeOK
<1>2. /\ attempts \in [Slots -> AttemptType] /\ now \in [Kinds -> Places] /\ next \in Places
      /\ working \subseteq Slots
  BY StandingIs
<1>3. a \in Slots /\ attempts[a] \in AttemptType /\ Recording(attempts[a])
  BY <1>1, <1>2 DEF Is, Places, IInv, Recordings
<1>4. /\ y \in AttemptType /\ Recording(y) /\ Evolve(attempts[a], y)
      /\ y.revision = attempts[a].revision /\ y.batch = attempts[a].batch
      /\ y.kind = attempts[a].kind /\ y.state = attempts[a].state /\ y.run = attempts[a].run
  BY <1>3, LateIs
<1>5. attempts' = [attempts EXCEPT ![a] = y]
  BY <1>2, <1>3 DEF ConfirmationDeadline
<1>. HIDE DEF y
<1>6. Free' = Free /\ a \notin Free
  BY <1>1 DEF Free, InUse, Held, Kinds
<1>7. /\ Advance /\ attempts'[a] = y
      /\ \A b \in Slots \ {a} : attempts'[b] = attempts[b]
      /\ \A b \in Free' : attempts'[b] = Unused
  BY <1>1, <1>3, <1>4, <1>5, <1>6, OneChanges
<1>8. attempts' \in [Slots -> AttemptType]
  BY <1>7 DEF Advance
<1>9. \A b \in Slots : /\ attempts'[b].kind = attempts[b].kind
                       /\ attempts'[b].state = attempts[b].state
                       /\ attempts'[b].run = attempts[b].run
  BY <1>4, <1>7
<1>10. Placed' /\ FollowUp'
  BY <1>1, <1>7, <1>8, <1>9, PlacesStay
<1>11. Ended'
  BY <1>1 DEF Ended, IInv, CountersKept, writeVars, closeVars, NothingAfterClose
<1>. QED
  BY <1>1, <1>2, <1>7, <1>10, <1>11, CountersStay, StoredStays, QuietSteps

LEMMA OtherProcessSound ==
  ASSUME IInv, Instance, OtherProcess
  PROVE  IInv' /\ Advance
<1>1. UNCHANGED <<attempts, now, next, working, callers>> /\ CountersKept
  BY DEF OtherProcess, CountersKept, Instance, IInv, Typed, TypeOK
<1>2. StoredGrows
  <2>1. /\ stored.revision \in 0..MaxRevision /\ stored.batch \in 0..MaxRevision
        /\ stored.batch <= stored.revision /\ stored.revision < MaxRevision
    BY DEF OtherProcess, IInv, Typed, TypeOK
  <2>2. PICK batch \in {stored.batch, stored.batch + 1} :
          stored' = [revision |-> stored.revision + 1, batch |-> batch]
    BY DEF OtherProcess
  <2>. QED
    BY <2>1, <2>2 DEF StoredGrows, Instance
<1>3. Free' = Free
  BY <1>1 DEF Free, InUse, Held
<1>4. Advance /\ Placed' /\ FollowUp'
  BY <1>1, <1>2, <1>3, SameSteps
<1>5. Ended'
  BY <1>1 DEF Ended, IInv, CountersKept, writeVars, closeVars, NothingAfterClose
<1>. QED
  BY <1>1, <1>2, <1>4, <1>5, CountersStay, StandingIs, QuietSteps

\* Reservations, workers and the wait for them touch no attempt.
LEMMA WriteSteps ==
  ASSUME IInv, Instance, ReserveWrite \/ Reserved \/ WorkerEnds \/ CloseReturns
  PROVE  IInv' /\ Advance
<1>1. UNCHANGED <<stored, attempts, now, next, working, callers, closed>>
  BY DEF ReserveWrite, Reserved, WorkerEnds, CloseReturns, closeVars, writeVars
<1>2. Free' = Free
  BY <1>1 DEF Free, InUse, Held
<1>3. Advance /\ Placed' /\ FollowUp'
  BY <1>1, <1>2, SameSteps, StoredStays
<1>4. /\ asked \in 0..MaxRequests /\ reserving \in 0..MaxRequests /\ workers \in 0..MaxRequests
      /\ reserving + workers <= asked /\ closed \in BOOLEAN /\ returned \in BOOLEAN
      /\ closed => next = NoAttempt
      /\ returned => closed /\ working = {} /\ workers = 0 /\ reserving = 0
  BY DEF IInv, Typed, TypeOK, Ended, NothingAfterClose
<1>5. /\ asked' \in 0..MaxRequests /\ reserving' \in 0..MaxRequests /\ workers' \in 0..MaxRequests
      /\ reserving' + workers' <= asked'
  BY <1>4 DEF ReserveWrite, Asks, Reserved, WorkerEnds, CloseReturns, writeVars, Instance
<1>6. CASE ReserveWrite \/ Reserved \/ WorkerEnds
  <2>1. UNCHANGED returned /\ ~returned
    BY <1>4, <1>6 DEF ReserveWrite, Reserved, WorkerEnds, closeVars, Instance
  <2>2. Ended'
    BY <1>1, <1>4, <2>1 DEF Ended, NothingAfterClose
  <2>. QED
    BY <1>1, <1>3, <1>4, <1>5, <2>1, <2>2, StandingIs, StoredStays, QuietSteps
<1>7. CASE CloseReturns
  <2>1. IsFiniteSet(working)
    BY StandingIs, FS_Subset DEF Instance
  <2>2. Cardinality(working) \in Nat /\ (Cardinality(working) = 0 <=> working = {})
    BY <2>1, FS_CardinalityType, FS_EmptySet
  <2>3. working = {} /\ workers = 0 /\ reserving = 0
    BY <1>4, <1>7, <2>2 DEF CloseReturns, WaitGroup, Instance
  <2>4. closed /\ returned' = TRUE /\ UNCHANGED writeVars
    BY <1>7 DEF CloseReturns
  <2>5. Ended'
    BY <1>1, <1>4, <2>3, <2>4 DEF Ended, NothingAfterClose, writeVars
  <2>. QED
    BY <1>1, <1>3, <1>4, <1>5, <2>4, <2>5, StandingIs, StoredStays, QuietSteps
<1>. QED
  BY <1>6, <1>7

LEMMA CloseSound ==
  ASSUME IInv, Instance, Close
  PROVE  IInv' /\ Advance
<1> DEFINE all == [b \in Slots |-> IF b = next THEN Canceled(attempts[b]) ELSE attempts[b]]
<1>1. /\ ~closed /\ closed' = TRUE /\ next' = NoAttempt
      /\ UNCHANGED <<stored, now, working, callers, asked, writeVars, returned>>
      /\ attempts' = Kept(all, now', next', callers')
  BY DEF Close, DropFollowUp
<1>2. /\ attempts \in [Slots -> AttemptType] /\ now \in [Kinds -> Places] /\ next \in Places
      /\ working \subseteq Slots
      /\ \A b \in working : b = now.refresh \/ b = now.reconcile
      /\ NoAttempt \notin working
  BY StandingIs
<1>3. /\ \A b \in Slots : /\ Recording(attempts[b]) /\ attempts[b].revision <= stored.revision
                          /\ attempts[b].batch <= stored.batch
      /\ next # NoAttempt => next \notin working /\ next # now.refresh /\ next # now.reconcile
  BY DEF IInv, Recordings, FollowUp
<1>4. ASSUME NEW b \in Slots
      PROVE  /\ all[b] \in AttemptType /\ Recording(all[b]) /\ Evolve(attempts[b], all[b])
             /\ all[b].revision = attempts[b].revision /\ all[b].batch = attempts[b].batch
             /\ all[b].kind = attempts[b].kind
             /\ IF b = next THEN all[b].state = "failed" ELSE all[b] = attempts[b]
  <2>1. CASE b = next
    <3>1. /\ attempts[b] \in AttemptType /\ Recording(attempts[b])
          /\ attempts[b].state = "running" /\ attempts[b].run = 1
      BY <1>2, <1>3, <2>1 DEF IInv, FollowUp, Instance
    <3>2. all[b] = Canceled(attempts[b])
      BY <2>1
    <3>. HIDE DEF all
    <3>. QED
      BY <2>1, <3>1, <3>2, CanceledIs
  <2>2. CASE b # next
    <3>1. all[b] = attempts[b]
      BY <2>2
    <3>. HIDE DEF all
    <3>. QED
      BY <1>2, <1>3, <2>2, <3>1, EvolveSame
  <2>. QED
    BY <2>1, <2>2
<1>5. all \in [Slots -> AttemptType]
  BY <1>4
<1>. HIDE DEF all
<1>6. Advance
  BY <1>1, <1>3, <1>4, <1>5, KeptAdvances, StoredStays
<1>7. /\ \A b \in Slots : attempts'[b] = all[b] \/ attempts'[b] = Unused
      /\ \A b \in Slots : /\ b = now'.refresh \/ b = now'.reconcile \/ b = next'
                          /\ all[b].state \in {"running", "parked"}
                          => attempts'[b] = all[b]
      /\ \A b \in Free' : attempts'[b] = Unused
  BY <1>1, <1>5, KeptIs
<1>8. \A b \in working : attempts[b].state = "running" /\ now[attempts[b].kind] = b /\ b # next
  BY <1>2, <1>3 DEF IInv, Placed
<1>9. \A b \in working : attempts'[b] = attempts[b]
  BY <1>1, <1>2, <1>4, <1>7, <1>8
<1>10. \A b \in Slots : attempts'[b].state = "running" => b \in working
  BY <1>4, <1>7, UnusedIs DEF IInv, Placed
<1>11. ASSUME NEW k \in Kinds, Active(now[k])' PROVE attempts'[now'[k]].kind = k
  <2>1. now'[k] = now[k] /\ now[k] \in Slots /\ now[k] # NoAttempt
    BY <1>1, <1>2, <1>11 DEF Active, Is, Places
  <2>2. attempts'[now[k]].state \in {"running", "parked"}
    BY <1>11, <2>1 DEF Active, Is
  <2>3. attempts'[now[k]] = attempts[now[k]]
    BY <1>4, <1>7, <2>1, <2>2, UnusedIs
  <2>. QED
    BY <2>1, <2>2, <2>3 DEF IInv, Placed, Active, Is
<1>12. Placed'
  BY <1>1, <1>7, <1>8, <1>9, <1>10, <1>11 DEF Placed, IInv
<1>13. FollowUp' /\ Ended'
  BY <1>1 DEF FollowUp, Ended, IInv, NothingAfterClose
<1>14. /\ asked' \in 0..MaxRequests /\ reserving' \in 0..MaxRequests /\ workers' \in 0..MaxRequests
       /\ reserving' + workers' <= asked' /\ closed' \in BOOLEAN /\ returned' \in BOOLEAN
       /\ next' \in Places
  BY <1>1 DEF IInv, Typed, TypeOK, writeVars, Places
<1>. QED
  BY <1>1, <1>2, <1>6, <1>12, <1>13, <1>14, StoredStays, QuietSteps

\* A run ends for its attempt, and a follow-up takes its outcome, or runs in its place.
LEMMA RunEnds ==
  ASSUME IInv, Instance, StoredGrows, NEW a \in working, NEW all \in [Slots -> AttemptType],
         NEW S \in SUBSET Slots, a \in S,
         \A b \in Slots :
           /\ Recording(all[b]) /\ Evolve(attempts[b], all[b])
           /\ all[b].revision <= stored.revision /\ all[b].batch <= stored.batch
           /\ all[b].kind = attempts[b].kind
           /\ IF b \in S THEN all[b].state # "running" ELSE all[b] = attempts[b],
         attempts' = Kept(all, now', next', callers'),
         UNCHANGED <<callers, asked, writeVars, closeVars>>,
         \/ /\ S = {a} /\ UNCHANGED <<now, next>> /\ working' = working \ {a}
            /\ next # NoAttempt => a # now.refresh
         \/ /\ next # NoAttempt /\ a = now.refresh /\ next' = NoAttempt
            /\ now' = [now EXCEPT !.refresh = next]
            /\ \/ S = {a, next} /\ working' = working \ {a}
               \/ S = {a} /\ working' = (working \ {a}) \cup {next}
  PROVE  IInv' /\ Advance
<1>1. /\ attempts \in [Slots -> AttemptType] /\ now \in [Kinds -> Places] /\ next \in Places
      /\ working \subseteq Slots
      /\ \A b \in working : b = now.refresh \/ b = now.reconcile
      /\ NoAttempt \notin working /\ a \in Slots /\ a # NoAttempt
  BY StandingIs
<1>2. /\ \A b \in working : attempts[b].state = "running" /\ now[attempts[b].kind] = b
      /\ \A b \in Slots : attempts[b].state = "running" => b \in working \/ b = next
      /\ now.refresh # NoAttempt => now.refresh # now.reconcile
      /\ \A b \in Slots : attempts[b].kind \in Kinds
  BY <1>1 DEF IInv, Placed, AttemptType
<1>3. next # NoAttempt =>
        /\ next \in Slots /\ next \notin working /\ next # now.refresh /\ next # now.reconcile
        /\ attempts[next].kind = "refresh" /\ attempts[next].state = "running"
        /\ attempts[next].run = 1 /\ now.refresh \in working
  BY <1>1 DEF IInv, FollowUp, Places
<1>4. \A b \in Slots : all[b].revision <= stored'.revision /\ all[b].batch <= stored'.batch
  <2>1. \A b \in Slots : all[b].revision \in Nat /\ all[b].batch \in Nat
    BY DEF AttemptType
  <2>2. stored.revision \in Nat /\ stored.batch \in Nat
        /\ stored'.revision \in Nat /\ stored'.batch \in Nat
    BY DEF StoredGrows, IInv, Typed, TypeOK
  <2>. QED
    BY <2>1, <2>2 DEF StoredGrows
<1>5. Advance
  BY <1>4, KeptAdvances
<1>6. /\ \A b \in Slots : attempts'[b] = all[b] \/ attempts'[b] = Unused
      /\ \A b \in Slots : /\ b = now'.refresh \/ b = now'.reconcile \/ b = next'
                          /\ all[b].state \in {"running", "parked"}
                          => attempts'[b] = all[b]
      /\ \A b \in Free' : attempts'[b] = Unused
  BY KeptIs
<1>7. \A b \in S : attempts'[b].state # "running"
  BY <1>6, UnusedIs
<1>8. \A b \in Slots \ S : attempts'[b].state = "running" => attempts[b].state = "running"
  BY <1>6, UnusedIs
<1>9. now' \in [Kinds -> Places] /\ next' \in Places /\ working' \subseteq Slots
  BY <1>1, <1>3 DEF Places, Kinds
<1>10. \A b \in Slots : attempts'[b].state = "running" => b \in working' \/ b = next'
  BY <1>2, <1>7, <1>8
<1>11. ASSUME NEW b \in working'
       PROVE  attempts'[b].state = "running" /\ now'[attempts'[b].kind] = b
  <2>1. CASE b \in working /\ b # a
    <3>1. b \notin S /\ b \in Slots /\ b # NoAttempt
      BY <1>1, <1>3, <2>1
    <3>2. all[b] = attempts[b] /\ attempts[b].state = "running" /\ now[attempts[b].kind] = b
      BY <1>2, <2>1, <3>1
    <3>3. now'[attempts[b].kind] = b
      BY <1>1, <1>2, <2>1, <3>1, <3>2 DEF Kinds
    <3>4. b = now'.refresh \/ b = now'.reconcile
      BY <1>2, <3>1, <3>3 DEF Kinds
    <3>. QED
      BY <1>6, <3>1, <3>2, <3>3, <3>4
  <2>2. CASE b = next /\ next # NoAttempt /\ a = now.refresh
             /\ now' = [now EXCEPT !.refresh = next] /\ S = {a}
    <3>1. /\ b \notin S /\ b \in Slots /\ now'.refresh = b /\ now'["refresh"] = b
          /\ attempts[b].kind = "refresh" /\ attempts[b].state = "running"
      BY <1>1, <1>3, <2>2 DEF Kinds
    <3>2. all[b] = attempts[b]
      BY <3>1
    <3>3. attempts'[b] = attempts[b]
      BY <1>6, <3>1, <3>2
    <3>. QED
      BY <3>1, <3>3
  <2>. QED
    BY <1>1, <2>1, <2>2
<1>12. now'.refresh # NoAttempt => now'.refresh # now'.reconcile
  BY <1>1, <1>2, <1>3 DEF Kinds
<1>13. ASSUME NEW k \in Kinds, Active(now[k])' PROVE attempts'[now'[k]].kind = k
  <2>1. now'[k] \in Slots /\ now'[k] # NoAttempt
    BY <1>9, <1>13 DEF Active, Is, Places
  <2>2. attempts'[now'[k]].state \in {"running", "parked"}
    BY <1>13 DEF Active, Is
  <2>3. attempts'[now'[k]].kind = attempts[now'[k]].kind
    BY <1>6, <2>1, <2>2, UnusedIs
  <2>4. attempts[now'[k]].kind = k
    <3>1. CASE now'[k] = now[k] /\ now[k] = a
      BY <1>1, <1>2, <3>1 DEF Kinds
    <3>2. CASE now'[k] = now[k] /\ now[k] # a
      <4>1. now[k] \notin S
        BY <1>3, <2>1, <3>2 DEF Kinds
      <4>2. attempts[now[k]].state \in {"running", "parked"}
        BY <1>6, <2>1, <2>2, <3>2, <4>1, UnusedIs
      <4>. QED
        BY <2>1, <3>2, <4>2 DEF IInv, Placed, Active, Is
    <3>3. CASE now'[k] # now[k]
      <4>1. k = "refresh" /\ now'[k] = next /\ next # NoAttempt
        BY <1>1, <3>3 DEF Kinds
      <4>. QED
        BY <1>3, <4>1
    <3>. QED
      BY <3>1, <3>2, <3>3
  <2>. QED
    BY <2>3, <2>4
<1>14. Placed'
  BY <1>6, <1>10, <1>11, <1>12, <1>13 DEF Placed
<1>15. FollowUp'
  <2> SUFFICES ASSUME next' # NoAttempt PROVE FollowUp'
    BY DEF FollowUp
  <2>1. /\ next' = next /\ next # NoAttempt /\ now' = now /\ S = {a}
        /\ working' = working \ {a} /\ a # now.refresh
    OBVIOUS
  <2>2. attempts'[next] = attempts[next]
    BY <1>3, <1>6, <2>1
  <2>. QED
    BY <1>3, <2>1, <2>2 DEF FollowUp
<1>16. ~returned
  BY DEF IInv, Ended, NothingAfterClose
<1>17. Ended'
  BY <1>16 DEF Ended, IInv, closeVars, NothingAfterClose
<1>18. CountersKept
  BY DEF CountersKept, IInv, Typed, TypeOK, Instance
<1>. QED
  BY <1>5, <1>9, <1>14, <1>15, <1>17, <1>18, CountersStay, QuietSteps

LEMMA ChangedGrows ==
  ASSUME IInv, Instance, NEW a \in Slots, NEW result, Changed(a, result)
  PROVE  StoredGrows
<1>1. CASE UNCHANGED stored
  BY <1>1, StoredStays
<1>2. CASE /\ stored.revision < MaxRevision
           /\ \E batch \in {stored.batch, stored.batch + 1} :
                stored' = [revision |-> stored.revision + 1, batch |-> batch]
  <2>1. /\ stored.revision \in 0..MaxRevision /\ stored.batch \in 0..MaxRevision
        /\ stored.batch <= stored.revision
    BY DEF IInv, Typed, TypeOK
  <2>2. PICK batch \in {stored.batch, stored.batch + 1} :
          stored' = [revision |-> stored.revision + 1, batch |-> batch]
    BY <1>2
  <2>. QED
    BY <1>2, <2>1, <2>2 DEF StoredGrows, Instance
<1>. QED
  BY <1>1, <1>2 DEF Changed

LEMMA WorkEndsSound ==
  ASSUME IInv, Instance, NEW a \in Slots, WorkEnds(a)
  PROVE  IInv' /\ Advance
<1>1. PICK result \in Results(a) :
        /\ IF attempts[a].kind = "refresh" THEN FinishRefresh(a, result)
                                           ELSE FinishReconcile(a, result)
        /\ Changed(a, result)
  BY DEF WorkEnds
<1>2. a \in working /\ UNCHANGED <<callers, asked, writeVars, closeVars>>
  BY DEF WorkEnds
<1>3. StoredGrows
  BY <1>1, ChangedGrows
<1>4. /\ attempts \in [Slots -> AttemptType] /\ now \in [Kinds -> Places] /\ next \in Places
      /\ NoAttempt \notin working
  BY StandingIs
<1>5. /\ attempts[a].state = "running" /\ now[attempts[a].kind] = a /\ attempts[a].kind \in Kinds
      /\ now.refresh # NoAttempt => now.refresh # now.reconcile
  BY <1>2, <1>4 DEF IInv, Placed, AttemptType
<1>6. \A b \in Slots : /\ Recording(attempts[b]) /\ attempts[b].revision <= stored.revision
                       /\ attempts[b].batch <= stored.batch
  BY DEF IInv, Recordings
<1> DEFINE x == attempts[a]
           y == Recorded(a, result, x)
<1>7. /\ result \in ResultType /\ result.state # "running"
      /\ y \in AttemptType /\ Recording(y) /\ Evolve(x, y)
      /\ y.state = result.state /\ y.kind = x.kind
      /\ y.revision = x.revision /\ y.batch = x.batch
  BY <1>4, <1>5, <1>6, OwnRecorded
<1>. HIDE DEF y
<1> DEFINE one == [attempts EXCEPT ![a] = y]
<1>8. /\ one \in [Slots -> AttemptType] /\ one[a] = y
      /\ \A b \in Slots \ {a} : one[b] = attempts[b]
  BY <1>4, <1>7
<1>9. one = [b \in Slots |-> IF b \in {a} THEN Recorded(a, result, attempts[b]) ELSE attempts[b]]
  BY <1>4 DEF y
<1>. HIDE DEF one
<1> DEFINE own == {a}
<1>10. \A b \in Slots :
         /\ Recording(one[b]) /\ Evolve(attempts[b], one[b])
         /\ one[b].revision <= stored.revision /\ one[b].batch <= stored.batch
         /\ one[b].kind = attempts[b].kind
         /\ IF b \in own THEN one[b].state # "running" ELSE one[b] = attempts[b]
  <2> SUFFICES ASSUME NEW b \in Slots
               PROVE  /\ Recording(one[b]) /\ Evolve(attempts[b], one[b])
                      /\ one[b].revision <= stored.revision /\ one[b].batch <= stored.batch
                      /\ one[b].kind = attempts[b].kind
                      /\ IF b \in own THEN one[b].state # "running" ELSE one[b] = attempts[b]
    OBVIOUS
  <2>1. CASE b = a
    BY <1>6, <1>7, <1>8, <2>1
  <2>2. CASE b # a
    BY <1>4, <1>6, <1>8, <2>2, EvolveSame
  <2>. QED
    BY <2>1, <2>2
<1>11. own \in SUBSET Slots /\ a \in own /\ own = {a}
  OBVIOUS
<1>. HIDE DEF own
<1>12. CASE attempts[a].kind = "reconcile"
  <2>1. /\ attempts' = Kept(one, now', next', callers') /\ working' = working \ {a}
        /\ UNCHANGED <<now, next>>
    BY <1>1, <1>2, <1>12 DEF FinishReconcile, one, y
  <2>2. a # now.refresh
    BY <1>2, <1>4, <1>5, <1>12
  <2>. QED
    BY <1>2, <1>3, <1>8, <1>10, <1>11, <2>1, <2>2, RunEnds
<1>13. CASE attempts[a].kind = "refresh"
  <2> DEFINE follows == next # NoAttempt /\ Covers(a, result)
             recorded == {a} \cup (IF follows THEN {next} ELSE {})
             all == [b \in Slots |-> IF b \in recorded THEN Recorded(a, result, attempts[b])
                                                       ELSE attempts[b]]
  <2>1. /\ working' = (working \ {a}) \cup (IF follows THEN {} ELSE {next} \ {NoAttempt})
        /\ now' = IF next # NoAttempt THEN [now EXCEPT !.refresh = next] ELSE now
        /\ next' = NoAttempt /\ attempts' = Kept(all, now', next', callers)
    BY <1>1, <1>13 DEF FinishRefresh
  <2>2. a = now.refresh
    BY <1>5, <1>13
  <2>3. CASE ~follows
    <3>1. recorded = {a}
      BY <2>3
    <3>2. attempts' = Kept(one, now', next', callers')
      BY <1>2, <1>9, <2>1, <3>1
    <3>3. CASE next = NoAttempt
      <4>1. UNCHANGED <<now, next>> /\ working' = working \ {a}
        BY <2>1, <2>3, <3>3
      <4>. QED
        BY <1>2, <1>3, <1>8, <1>10, <1>11, <3>2, <3>3, <4>1, RunEnds
    <3>4. CASE next # NoAttempt
      <4>1. /\ working' = (working \ {a}) \cup {next} /\ now' = [now EXCEPT !.refresh = next]
            /\ next' = NoAttempt
        BY <2>1, <2>3, <3>4
      <4>. QED
        BY <1>2, <1>3, <1>8, <1>10, <1>11, <2>2, <3>2, <3>4, <4>1, RunEnds
    <3>. QED
      BY <3>3, <3>4
  <2>4. CASE follows
    <3> DEFINE S == {a, next}
               z == Recorded(a, result, attempts[next])
    <3>1. /\ recorded = S /\ next # NoAttempt /\ Covers(a, result)
      BY <2>4
    <3>2. /\ next \in Slots /\ next # a /\ attempts[next].kind = "refresh"
          /\ attempts[next].state = "running" /\ attempts[next].run = 1
      BY <1>2, <1>4, <3>1 DEF IInv, FollowUp, Places
    <3>3. /\ z \in AttemptType /\ Recording(z) /\ Evolve(attempts[next], z)
          /\ z.state = result.state /\ z.kind = attempts[next].kind
          /\ z.revision = attempts[a].revision /\ z.batch = attempts[a].batch
      BY <1>4, <1>6, <1>7, <3>1, <3>2, FollowUpRecorded
    <3>4. all[a] = y /\ all[next] = z /\ \A b \in Slots \ S : all[b] = attempts[b]
      BY <3>1, <3>2 DEF y
    <3>5. all \in [Slots -> AttemptType]
      <4>1. \A b \in Slots : all[b] \in AttemptType
        BY <1>4, <1>7, <3>3, <3>4
      <4>. QED
        BY <4>1
    <3>. HIDE DEF z, all
    <3>6. \A b \in Slots :
            /\ Recording(all[b]) /\ Evolve(attempts[b], all[b])
            /\ all[b].revision <= stored.revision /\ all[b].batch <= stored.batch
            /\ all[b].kind = attempts[b].kind
            /\ IF b \in S THEN all[b].state # "running" ELSE all[b] = attempts[b]
      <4> SUFFICES ASSUME NEW b \in Slots
                   PROVE  /\ Recording(all[b]) /\ Evolve(attempts[b], all[b])
                          /\ all[b].revision <= stored.revision /\ all[b].batch <= stored.batch
                          /\ all[b].kind = attempts[b].kind
                          /\ IF b \in S THEN all[b].state # "running" ELSE all[b] = attempts[b]
        OBVIOUS
      <4>1. CASE b = a
        BY <1>6, <1>7, <3>4, <4>1
      <4>2. CASE b = next
        BY <1>6, <1>7, <3>3, <3>4, <4>2
      <4>3. CASE b \notin S
        BY <1>4, <1>6, <3>4, <4>3, EvolveSame
      <4>. QED
        BY <4>1, <4>2, <4>3
    <3>7. /\ working' = working \ {a} /\ now' = [now EXCEPT !.refresh = next]
          /\ next' = NoAttempt /\ attempts' = Kept(all, now', next', callers')
      BY <1>2, <2>1, <2>4, <3>1
    <3>8. S \in SUBSET Slots /\ a \in S /\ S = {a, next}
      BY <3>2
    <3>. HIDE DEF S
    <3>. QED
      BY <1>2, <1>3, <2>2, <3>1, <3>5, <3>6, <3>7, <3>8, RunEnds
  <2>. QED
    BY <2>3, <2>4
<1>. QED
  BY <1>5, <1>12, <1>13 DEF Kinds

--------------------------------------------------------------------------------
(* The specification.                                                        *)

LEMMA InitSound == ASSUME Instance, Init PROVE IInv
<1>1. /\ attempts \in [Slots -> AttemptType] /\ \A b \in Slots : attempts[b] = Unused
      /\ callers \in [Callers -> CallerType] /\ \A c \in Callers : callers[c] = Idle
      /\ now.refresh = NoAttempt /\ now.reconcile = NoAttempt /\ next = NoAttempt
      /\ \A kind \in Kinds : now[kind] = NoAttempt
  BY UnusedIs, IdleIs DEF Init, Kinds
<1>2. TypeOK
  <2>1. \A a \in Slots :
       /\ attempts[a].kind \in Kinds
       /\ attempts[a].state \in {"running", "completed", "failed", "parked"}
       /\ attempts[a].scope \in Scopes /\ attempts[a].reads \in Scopes
       /\ attempts[a].run \in Runs
    BY <1>1 DEF AttemptType, States
  <2>2. \A c \in Callers :
       /\ callers[c].pc \in {"idle", "peeked", "seen", "ready", "started", "waiting"}
       /\ callers[c].attempt \in Slots \cup {NoAttempt} /\ callers[c].run \in Runs
    BY <1>1 DEF CallerType, Places
  <2>3. /\ stored \in [revision : 0..MaxRevision, batch : 0..MaxRevision]
        /\ asked \in 0..MaxRequests /\ reserving \in 0..MaxRequests
        /\ workers \in 0..MaxRequests /\ closed \in BOOLEAN /\ returned \in BOOLEAN
    <3>1. 0 \in 0..MaxRevision /\ 0 \in 0..MaxRequests
      BY DEF Instance
    <3>2. [revision |-> 0, batch |-> 0] \in [revision : 0..MaxRevision, batch : 0..MaxRevision]
      BY <3>1
    <3>. QED
      BY <3>1, <3>2 DEF Init
  <2>4. /\ now \in [Kinds -> Slots \cup {NoAttempt}] /\ next \in Slots \cup {NoAttempt}
        /\ working \subseteq InUse(now, next, callers) \ {NoAttempt}
    BY DEF Init
  <2>. QED
    BY <2>1, <2>2, <2>3, <2>4 DEF TypeOK
<1>3. Typed
  BY <1>1, <1>2 DEF Typed, Init
<1>4. Recordings
  BY <1>1, UnusedIs DEF Recordings, Init
<1>5. FollowUp /\ Placed /\ Ended
  BY <1>1, UnusedIs DEF FollowUp, Placed, Ended, NothingAfterClose, Init, Active, Is, Free
<1>6. \A c \in Callers : Asked(c) /\ Noted(c)
  BY <1>1, IdleIs DEF Asked, Noted
<1>. QED
  BY <1>3, <1>4, <1>5, <1>6 DEF IInv

LEMMA NextSound == ASSUME Instance, IInv, Next PROVE IInv' /\ Advance
<1>1. ASSUME NEW c \in Callers, Request(c) \/ Proceed(c) \/ GiveUp(c) PROVE IInv' /\ Advance
  BY <1>1, RequestSound, ReadStoredStateSound, ExpireObsoleteSound, ExpireOnDeadlineSound,
     JoinRefreshSound, QueueRefreshSound, StartRefreshSound, StartReconcileSound,
     StartAfterCloseSound, WaitSound, WakeSound, ZenonT(40) DEF Proceed
<1>2. ASSUME NEW c \in Callers, NEW kind \in Kinds, Confirm(c, kind) PROVE IInv' /\ Advance
  BY <1>2, ConfirmSound
<1>3. ASSUME NEW a \in Slots, WorkEnds(a) PROVE IInv' /\ Advance
  BY <1>3, WorkEndsSound
<1>4. ASSUME NEW kind \in Kinds, ConfirmationDeadline(kind) PROVE IInv' /\ Advance
  BY <1>4, ConfirmationDeadlineSound
<1>5. CASE OtherProcess
  BY <1>5, OtherProcessSound
<1>6. CASE ReserveWrite \/ Reserved \/ WorkerEnds \/ CloseReturns
  BY <1>6, WriteSteps
<1>7. CASE Close
  BY <1>7, CloseSound
<1>. QED
  BY <1>1, <1>2, <1>3, <1>4, <1>5, <1>6, <1>7 DEF Next

LEMMA StutterSound == ASSUME IInv, UNCHANGED vars PROVE IInv'
<1>1. UNCHANGED <<stored, attempts, now, next, working, callers, asked, reserving, workers, closed,
                  returned>>
  BY DEF vars, writeVars, closeVars
<1>2. Free' = Free
  BY <1>1 DEF Free, InUse, Held
<1>3. Typed'
  BY <1>1 DEF IInv, Typed, TypeOK, InUse, Held
<1>4. Recordings' /\ FollowUp' /\ Ended'
  BY <1>1 DEF IInv, Recordings, FollowUp, Ended, NothingAfterClose
<1>5. Placed'
  BY <1>1, <1>2 DEF IInv, Placed, Active, Is
<1>6. \A c \in Callers : Asked(c)' /\ Noted(c)'
  BY <1>1 DEF IInv, Asked, Noted
<1>. QED
  BY <1>3, <1>4, <1>5, <1>6 DEF IInv

\* Whatever callers, runs, other processes and Close do, attempts, places and callers agree
\* (supervisor.go: the fields behind mu, and the goroutines that finish runs).
THEOREM Sound == ASSUME Instance PROVE Spec => []IInv
<1>1. Init => IInv
  BY InitSound
<1>2. IInv /\ [Next]_vars => IInv'
  BY NextSound, StutterSound
<1>. QED
  BY <1>1, <1>2, PTL DEF Spec

\* Every variable of the supervisor keeps its shape, and what works is in use.
THEOREM Types == ASSUME Instance PROVE Spec => []TypeOK
<1>1. IInv => TypeOK
  BY DEF IInv, Typed
<1>. QED
  BY <1>1, Sound, PTL

LEMMA AttemptOf ==
  ASSUME IInv, NEW c \in Callers, callers[c].attempt # NoAttempt
  PROVE  LET a == callers[c].attempt IN
         /\ a \in Slots /\ Recording(attempts[a]) /\ attempts[a] \in AttemptType
         /\ callers[c].run \in Runs /\ callers[c].ask.kind \in Kinds
         /\ callers[c].ask.scope \in Scopes
BY DEF IInv, Typed, Recordings, CallerType, Places

\* What gives an attempt all of it gives its callers what they asked for.
LEMMA GivesAsked ==
  ASSUME IInv, NEW c \in Callers, callers[c].attempt # NoAttempt,
         NEW reads \in Scopes, NEW batch,
         Gives(attempts[callers[c].attempt], reads, batch)
  PROVE  IF callers[c].ask.kind = "refresh" THEN reads >= callers[c].ask.scope
                                            ELSE batch = callers[c].ask.key[2]
<1> DEFINE a == callers[c].attempt
<1>1. /\ attempts[a].kind = callers[c].ask.kind
      /\ IF callers[c].ask.kind = "refresh" THEN callers[c].ask.scope <= attempts[a].scope
                                            ELSE attempts[a].key[2] = callers[c].ask.key[2]
  BY DEF IInv, Asked
<1>2. attempts[a].scope \in {0, 1, 2} /\ callers[c].ask.scope \in {0, 1, 2} /\ reads \in {0, 1, 2}
  BY AttemptOf DEF AttemptType, Scopes, Due, Manual, CompleteHistory
<1>3. CASE callers[c].ask.kind = "refresh"
  <2>1. reads >= attempts[a].scope /\ callers[c].ask.scope <= attempts[a].scope
    BY <1>1, <1>3 DEF Gives
  <2>. QED
    BY <1>2, <1>3, <2>1
<1>4. CASE callers[c].ask.kind # "refresh"
  BY <1>1, <1>4 DEF Gives
<1>. QED
  BY <1>3, <1>4

LEMMA AnswersSound == ASSUME IInv PROVE AnswersCover /\ AnswerIsComing
<1>1. ASSUME NEW c \in Callers, callers[c].pc = "started"
      PROVE  StatusOf(callers[c].attempt).state = "completed" =>
               IF callers[c].ask.kind = "refresh"
               THEN StatusOf(callers[c].attempt).reads >= callers[c].ask.scope
               ELSE StatusOf(callers[c].attempt).batch = callers[c].ask.key[2]
  <2> DEFINE a == callers[c].attempt
  <2>1. a # NoAttempt
    BY <1>1 DEF IInv, Asked
  <2>2. /\ StatusOf(a).state = attempts[a].state /\ StatusOf(a).reads = attempts[a].reads
        /\ StatusOf(a).batch = attempts[a].batch
    BY DEF StatusOf
  <2>3. Recording(attempts[a]) /\ attempts[a].reads \in Scopes
    BY <2>1, AttemptOf DEF AttemptType
  <2> SUFFICES ASSUME attempts[a].state = "completed"
               PROVE  IF callers[c].ask.kind = "refresh"
                      THEN attempts[a].reads >= callers[c].ask.scope
                      ELSE attempts[a].batch = callers[c].ask.key[2]
    BY <2>2
  <2>4. Gives(attempts[a], attempts[a].reads, attempts[a].batch)
    BY <2>3 DEF Recording
  <2>. QED
    BY <2>1, <2>3, <2>4, GivesAsked
<1>2. ASSUME NEW c \in Callers, callers[c].pc = "waiting", RunEnded(c)
      PROVE  /\ Outcome(c).state # "running"
             /\ Outcome(c).state = "completed" =>
                  IF callers[c].ask.kind = "refresh"
                  THEN Outcome(c).reads >= callers[c].ask.scope
                  ELSE Outcome(c).batch = callers[c].ask.key[2]
  <2> DEFINE a == callers[c].attempt
             o == attempts[a].outcome[callers[c].run]
  <2>1. a # NoAttempt
    BY <1>2 DEF IInv, Asked
  <2>2. /\ a \in Slots /\ Recording(attempts[a]) /\ attempts[a] \in AttemptType
        /\ callers[c].run \in Runs
    BY <2>1, AttemptOf
  <2>3. o # Pending /\ Outcome(c) = o
    BY <1>2 DEF RunEnded, Outcome
  <2>4. /\ o \in OutcomeType /\ o.state # "running"
        /\ o.state = "completed" => Gives(attempts[a], o.reads, o.batch)
    BY <2>2, <2>3 DEF Recording, AttemptType
  <2>5. o.reads \in Scopes
    BY <2>4 DEF OutcomeType
  <2>. HIDE DEF o
  <2>. QED
    BY <2>1, <2>3, <2>4, <2>5, GivesAsked
<1>3. AnswersCover
  BY <1>1, <1>2 DEF AnswersCover
<1>4. ASSUME NEW c \in Callers, callers[c].pc = "waiting", ~RunEnded(c)
      PROVE  \/ /\ callers[c].attempt \in working
                /\ attempts[callers[c].attempt].run = callers[c].run
             \/ callers[c].attempt = next /\ now.refresh \in working
  <2> DEFINE a == callers[c].attempt
             x == attempts[a]
  <2>1. /\ a # NoAttempt /\ callers[c].run <= x.run
        /\ x.state # "running" => x.outcome[x.run] # Pending
    BY <1>4 DEF IInv, Asked
  <2>2. /\ a \in Slots /\ Recording(x) /\ x.run \in {1, 2} /\ callers[c].run \in {1, 2}
    BY <2>1, AttemptOf DEF AttemptType, Runs
  <2>3. x.outcome[callers[c].run] = Pending
    BY <1>4 DEF RunEnded
  <2>4. x.run = callers[c].run
    BY <2>1, <2>2, <2>3 DEF Recording
  <2>5. x.state = "running"
    BY <2>1, <2>3, <2>4
  <2>6. a \in working \/ a = next
    BY <2>2, <2>5 DEF IInv, Placed
  <2>. QED
    BY <2>1, <2>4, <2>6 DEF IInv, FollowUp
<1>5. AnswerIsComing
  BY <1>4 DEF AnswerIsComing
<1>. QED
  BY <1>3, <1>5

\* A caller is told of a run that read what it asked for, and who waits is answered: a run is under
\* way, or a follow-up stands behind one that is (waitFor, StartRefresh, finishRefresh).
THEOREM Answers == ASSUME Instance PROVE Spec => [](AnswersCover /\ AnswerIsComing)
<1>1. IInv => AnswersCover /\ AnswerIsComing
  BY AnswersSound
<1>. QED
  BY <1>1, Sound, PTL

LEMMA OneAtATimeSound == ASSUME IInv, Instance PROVE OneRefreshRuns /\ NothingAfterClose
<1> DEFINE R == {a \in working : attempts[a].kind = "refresh"}
<1>1. R \subseteq {now.refresh}
  BY DEF IInv, Placed
<1>2. IsFiniteSet({now.refresh}) /\ Cardinality({now.refresh}) = 1
  BY FS_Singleton
<1>3. /\ Cardinality(R) <= Cardinality({now.refresh}) /\ Cardinality(R) \in Nat
  <2>. HIDE DEF R
  <2>. QED
    BY <1>1, <1>2, FS_Subset, FS_CardinalityType
<1>4. Cardinality(R) <= 1
  BY <1>2, <1>3
<1>. QED
  BY <1>4 DEF OneRefreshRuns, IInv, Ended

\* Two refreshes never run side by side, and nothing runs, is reserved or writes once Close has
\* returned (queueRefreshLocked, ConfirmRefresh, Close's wait for the group).
THEOREM OneAtATimeAndQuiet == ASSUME Instance PROVE Spec => [](OneRefreshRuns /\ NothingAfterClose)
<1>1. IInv => OneRefreshRuns /\ NothingAfterClose
  BY OneAtATimeSound
<1>. QED
  BY <1>1, Sound, PTL

LEMMA OutcomesStaySound == ASSUME IInv, Advance PROVE OutcomesStay
<1> SUFFICES ASSUME NEW a \in Slots, NEW r \in Runs, attempts[a].outcome[r] # Pending,
                    attempts'[a] # Unused
             PROVE  attempts'[a].outcome[r] = attempts[a].outcome[r]
  BY DEF OutcomesStay
<1>1. a \notin Free
  BY UnusedIs DEF IInv, Placed, Runs
<1>2. Evolve(attempts[a], attempts'[a])
  BY <1>1 DEF Advance
<1>. QED
  BY <1>2 DEF Evolve

\* Only ExpireObsolete takes a caller that has read the stored state further.
LEMMA SeenMoves ==
  ASSUME IInv, Next, NEW c \in Callers, callers[c].pc = "seen", callers'[c].pc = "ready"
  PROVE  ExpireObsolete(c)
<1>1. callers \in [Callers -> CallerType] /\ callers'[c] # callers[c]
  BY DEF IInv, Typed
<1>2. ASSUME NEW d \in Callers, Request(d) \/ Proceed(d) \/ GiveUp(d)
      PROVE  ExpireObsolete(c)
  <2>1. CASE ExpireOnDeadline(d)
    BY <1>1, <2>1 DEF ExpireOnDeadline
  <2>2. CASE d # c
    <3>1. callers'[c] = callers[c]
      <4>1. CASE Request(d) \/ ReadStoredState(d) \/ ExpireObsolete(d)
        BY <1>1, <2>2, <4>1 DEF Request, ReadStoredState, ExpireObsolete
      <4>2. CASE JoinRefresh(d) \/ QueueRefresh(d)
        BY <1>1, <2>2, <4>2 DEF JoinRefresh, QueueRefresh, Holding
      <4>3. CASE StartRefresh(d) \/ StartReconcile(d)
        BY <1>1, <2>2, <4>3 DEF StartRefresh, StartReconcile, StartNew, Holding, Leave
      <4>4. CASE StartAfterClose(d) \/ Wait(d) \/ Wake(d) \/ GiveUp(d)
        BY <1>1, <2>2, <4>4 DEF StartAfterClose, Wait, Wake, GiveUp, Leave
      <4>5. CASE ExpireOnDeadline(d)
        BY <4>5 DEF ExpireOnDeadline
      <4>. QED
        BY <1>2, <4>1, <4>2, <4>3, <4>4, <4>5 DEF Proceed
    <3>. QED
      BY <1>1, <3>1
  <2>3. CASE d = c /\ ~ExpireOnDeadline(d)
    BY <1>2, <2>3 DEF Request, ReadStoredState, Proceed, GiveUp, JoinRefresh, QueueRefresh,
       StartRefresh, StartReconcile, Starts, StartAfterClose, Wait, Wake
  <2>. QED
    BY <2>1, <2>2, <2>3
<1>3. ASSUME NEW d \in Callers, NEW kind \in Kinds, Confirm(d, kind) PROVE FALSE
  <2>1. d # c
    BY <1>3 DEF Confirm
  <2>. QED
    BY <1>1, <1>3, <2>1 DEF Confirm
<1>4. ASSUME \/ \E a \in Slots : WorkEnds(a)
             \/ OtherProcess \/ \E kind \in Kinds : ConfirmationDeadline(kind)
             \/ ReserveWrite \/ Reserved \/ WorkerEnds \/ Close \/ CloseReturns
      PROVE  FALSE
  BY <1>1, <1>4 DEF WorkEnds, OtherProcess, ConfirmationDeadline, ReserveWrite, Reserved,
     WorkerEnds, Close, CloseReturns
<1>. QED
  BY <1>2, <1>3, <1>4 DEF Next

LEMMA ExpiresObsoleteSound == ASSUME IInv, Next PROVE ExpiresObsolete
<1> SUFFICES ASSUME NEW c \in Callers, NEW kind \in Kinds, callers[c].pc = "seen",
                    callers'[c].pc = "ready", Is(now[kind], "parked"),
                    attempts'[now[kind]].state = "failed"
             PROVE  MovedPast(stored, attempts[now[kind]])
  BY DEF ExpiresObsolete
<1> DEFINE a == now[kind]
           obsolete == {k \in Kinds : Judged(c, k)
                                      /\ MovedPast(callers[c].seen, attempts[now[k]])}
           gone == {now[k] : k \in obsolete}
           all == Expired(gone)
<1>1. /\ attempts' = Kept(all, now', next', callers') /\ UNCHANGED <<stored, now, next>>
  BY SeenMoves DEF ExpireObsolete
<1>2. /\ a \in Slots /\ a # NoAttempt /\ attempts[a].state = "parked"
      /\ attempts \in [Slots -> AttemptType] /\ stored \in [revision : Nat, batch : Nat]
      /\ callers[c].seen \in [revision : Nat, batch : Nat]
  BY DEF IInv, Typed, TypeOK, Is, CallerType
<1>3. gone \in SUBSET Slots /\ \A b \in gone : attempts[b].state = "parked"
  BY DEF Judged, Is, IInv, Typed, TypeOK
<1>4. a \in gone
  <2> SUFFICES ASSUME a \notin gone PROVE FALSE
    OBVIOUS
  <2>1. all \in [Slots -> AttemptType] /\ all[a] = attempts[a]
    <3>. HIDE DEF gone
    <3>. QED
      BY <1>2, <1>3, ExpiredAll
  <2>2. a = now'.refresh \/ a = now'.reconcile
    BY <1>1 DEF Kinds
  <2>. HIDE DEF all
  <2>3. attempts'[a] = all[a]
    BY <1>1, <1>2, <2>1, <2>2, KeptIs
  <2>. QED
    BY <1>2, <2>1, <2>3
<1>5. PICK k \in Kinds : Judged(c, k) /\ MovedPast(callers[c].seen, attempts[a]) /\ now[k] = a
  BY <1>4
<1>6. callers[c].parked[k][1] = a
  BY <1>2, <1>5 DEF Judged, ParkedRun
<1>7. /\ callers[c].seen.revision <= stored.revision /\ callers[c].seen.batch <= stored.batch
      /\ attempts[a].batch <= callers[c].seen.batch
  BY <1>2, <1>6 DEF IInv, Noted
<1>8. attempts[a].revision \in Nat /\ attempts[a].batch \in Nat
  BY <1>2 DEF AttemptType
<1>. HIDE DEF a
<1>9. CASE callers[c].seen.revision > attempts[a].revision
  BY <1>2, <1>7, <1>8, <1>9 DEF MovedPast, a
<1>10. CASE attempts[a].kind = "reconcile" /\ callers[c].seen.batch # attempts[a].batch
  <2>1. stored.batch # attempts[a].batch
    BY <1>2, <1>7, <1>8, <1>10
  <2>. QED
    BY <1>10, <2>1 DEF MovedPast, a
<1>. QED
  BY <1>5, <1>9, <1>10 DEF MovedPast

\* A run's outcome stands once it is recorded, and what is judged by a stored state that was read
\* before is really behind the stored profile (finishRefresh, ExpireObsolete).
THEOREM OutcomesStand ==
  ASSUME Instance PROVE Spec => [][OutcomesStay /\ ExpiresObsolete]_vars
<1>1. IInv /\ [Next]_vars => [OutcomesStay /\ ExpiresObsolete]_vars
  BY NextSound, OutcomesStaySound, ExpiresObsoleteSound
<1>. QED
  BY <1>1, Sound, PTL DEF Spec
================================================================================
