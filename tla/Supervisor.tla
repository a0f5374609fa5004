------------------------------ MODULE Supervisor -------------------------------
(***************************************************************************)
(* The attempts that one process shares for one profile.                   *)
(*                                                                          *)
(* At most one refresh runs, with at most one follow-up behind it for       *)
(* callers that need more than it reads, and at most one reconcile.         *)
(* Callers start, join, await and confirm them; a parked attempt expires    *)
(* with its deadline or when the stored profile has moved past it.  Every   *)
(* step here is one critical section of the supervisor's mutex, one read    *)
(* of the store, or the end of a run, which no lock protects.               *)
(*                                                                          *)
(* Sources: internal/mcp/supervisor.go, refresh.go, reconcile.go and        *)
(* scheduler.go of the embedding package.  What a run does is               *)
(* ProviderRefresh and ProviderWrite.                                      *)
(***************************************************************************)
EXTENDS Integers, Sequences, FiniteSets

CONSTANTS
  Callers,
  Slots,        \* identities of attempts that somebody still refers to
  NoAttempt,    \* not one of Slots
  MaxRevision,  \* bound: changes of the stored profile
  MaxRequests   \* bound: requests, confirmations and writes

\* RefreshScope.
Due == 0
Manual == 1
CompleteHistory == 2
Scopes == {Due, Manual, CompleteHistory}

Kinds == {"refresh", "reconcile"}

VARIABLES
  stored,     \* what other processes can change: revision and write batch
  attempts,   \* the supervisedAttempt in each slot
  now,        \* refreshNow and reconcileNow
  next,       \* refreshNext
  working,    \* attempts whose current run has not returned
  callers,
  asked,      \* requests so far
  reserving,  \* calls in ReserveWrite
  workers,    \* running write workers
  closed,
  returned    \* Close has returned: the wait group was empty

writeVars == <<reserving, workers>>
closeVars == <<closed, returned>>
vars == <<stored, attempts, now, next, working, callers, asked, writeVars, closeVars>>

Max2(a, b) == IF a >= b THEN a ELSE b

--------------------------------------------------------------------------------
(* Attempts.  Each has a first run and perhaps the fold of its confirmation; *)
(* "outcome" holds what each has ended with.  "reads" is what its runs have  *)
(* read, "revision" and "batch" the store it was computed from, "key" what a *)
(* reconcile was asked for.                                                  *)

Runs == {1, 2}
Pending == [state |-> "running", reads |-> Due, batch |-> 0]
NoKey == <<0, 0>>

Unused == [kind |-> "refresh", state |-> "failed", scope |-> Due, reads |-> Due, key |-> NoKey,
           revision |-> 0, batch |-> 0, run |-> 1, outcome |-> <<Pending, Pending>>,
           late |-> FALSE]

Ask(kind, scope) ==
  [kind |-> kind, scope |-> scope,
   key |-> IF kind = "reconcile" THEN <<stored.revision, stored.batch>> ELSE NoKey]

NewAttempt(ask) ==
  [Unused EXCEPT !.kind = ask.kind, !.state = "running", !.scope = ask.scope, !.key = ask.key,
                 !.revision = stored.revision, !.batch = stored.batch]

Idle == [pc |-> "idle", ask |-> [kind |-> "refresh", scope |-> Due, key |-> NoKey],
         parked |-> [kind \in Kinds |-> <<NoAttempt, 0>>], seen |-> [revision |-> 0, batch |-> 0],
         attempt |-> NoAttempt, run |-> 1]

Held(held) ==
  {held[c].attempt : c \in Callers} \cup {held[c].parked[kind][1] : c \in Callers, kind \in Kinds}

InUse(nowOnes, followUp, held) == {nowOnes.refresh, nowOnes.reconcile, followUp} \cup Held(held)

\* What nobody holds is collected, and what has ended no longer matters.
Kept(all, nowOnes, followUp, held) ==
  [a \in Slots |->
     IF \/ a \in Held(held)
        \/ a \in InUse(nowOnes, followUp, held) /\ all[a].state \in {"running", "parked"}
     THEN all[a] ELSE Unused]

Free == Slots \ InUse(now, next, callers)

TypeOK ==
  /\ stored \in [revision : 0..MaxRevision, batch : 0..MaxRevision]
  /\ \A a \in Slots :
       /\ attempts[a].kind \in Kinds
       /\ attempts[a].state \in {"running", "completed", "failed", "parked"}
       /\ attempts[a].scope \in Scopes /\ attempts[a].reads \in Scopes
       /\ attempts[a].run \in Runs
  /\ now \in [Kinds -> Slots \cup {NoAttempt}] /\ next \in Slots \cup {NoAttempt}
  /\ working \subseteq InUse(now, next, callers) \ {NoAttempt}
  /\ \A c \in Callers :
       /\ callers[c].pc \in {"idle", "peeked", "seen", "ready", "started", "waiting"}
       /\ callers[c].attempt \in Slots \cup {NoAttempt} /\ callers[c].run \in Runs
  /\ asked \in 0..MaxRequests
  /\ reserving \in 0..MaxRequests /\ workers \in 0..MaxRequests
  /\ closed \in BOOLEAN /\ returned \in BOOLEAN

Is(a, state) == a # NoAttempt /\ attempts[a].state = state
Active(a) == Is(a, "running") \/ Is(a, "parked")

\* parkedRun: an attempt and the run that parked it.
ParkedRun(a) == IF Is(a, "parked") THEN <<a, attempts[a].run>> ELSE <<NoAttempt, 0>>

\* expireConfirmationLocked, at the head of every critical section that looks
\* at a parked attempt.
Timely(a) == ~(Is(a, "parked") /\ attempts[a].late)
Expired(gone) ==
  [a \in Slots |-> IF a \in gone THEN [attempts[a] EXCEPT !.state = "failed"]
                                 ELSE attempts[a]]

\* newRefreshLocked.
Make(c, a) == /\ a \in Free /\ \A b \in Free : a <= b
              /\ attempts' = Kept([attempts EXCEPT ![a] = NewAttempt(callers[c].ask)],
                                  now', next', callers')

Holding(c, a) ==
  callers' = [callers EXCEPT ![c] = [Idle EXCEPT !.pc = "started", !.attempt = a,
                                                !.ask = callers[c].ask]]

\* The call ends, with an answer or without.
Leave(c) ==
  /\ callers' = [callers EXCEPT ![c] = Idle]
  /\ attempts' = Kept(attempts, now, next, callers')

--------------------------------------------------------------------------------
(* A caller's request: ExpireObsolete, a start, a wait.                      *)

Asks == asked < MaxRequests /\ asked' = asked + 1

\* ExpireObsolete notes the parked runs, and reads nothing if there are none.
Request(c) ==
  /\ callers[c].pc = "idle" /\ Asks
  /\ \E ask \in {Ask("refresh", s) : s \in Scopes} \cup {Ask("reconcile", Due)} :
       LET parked == [kind \in Kinds |-> ParkedRun(now[kind])]
       IN callers' = [callers EXCEPT ![c] =
            [Idle EXCEPT !.ask = ask, !.parked = parked,
               !.pc = IF parked = Idle.parked THEN "ready" ELSE "peeked"]]
  /\ UNCHANGED <<stored, attempts, now, next, working, writeVars, closeVars>>

ReadStoredState(c) ==
  /\ callers[c].pc = "peeked"
  /\ callers' = [callers EXCEPT ![c].pc = "seen", ![c].seen = stored]
  /\ UNCHANGED <<stored, attempts, now, next, working, asked, writeVars, closeVars>>

\* movedPastRefresh, movedPastReconcile.
MovedPast(seen, attempt) ==
  \/ seen.revision > attempt.revision
  \/ attempt.kind = "reconcile" /\ seen.batch # attempt.batch

\* Mutant of Judged: whatever is parked now is judged.
JudgedWhenParked(c, kind) == Is(now[kind], "parked")

\* The run that parked the attempt then still holds it parked.
Judged(c, kind) ==
  Is(now[kind], "parked") /\ ParkedRun(now[kind]) = callers[c].parked[kind]

ExpireObsolete(c) ==
  /\ callers[c].pc = "seen"
  /\ callers' = [callers EXCEPT ![c] = [Idle EXCEPT !.pc = "ready", !.ask = callers[c].ask]]
  /\ LET obsolete == {k \in Kinds : Judged(c, k) /\ MovedPast(callers[c].seen, attempts[now[k]])}
     IN attempts' = Kept(Expired({now[k] : k \in obsolete}), now, next, callers')
  /\ UNCHANGED <<stored, now, next, working, asked, writeVars, closeVars>>

ExpireOnDeadline(c) ==
  LET a == IF callers[c].pc = "ready" THEN now[callers[c].ask.kind] ELSE callers[c].attempt
  IN /\ callers[c].pc \in {"ready", "started"} /\ ~Timely(a)
     /\ attempts' = Kept(Expired({a}), now, next, callers)
     /\ UNCHANGED <<stored, now, next, working, callers, asked, writeVars, closeVars>>

Starts(c, kind) ==
  callers[c].pc = "ready" /\ callers[c].ask.kind = kind /\ ~closed /\ Timely(now[kind])

Joins(a, scope) == Active(a) /\ attempts[a].scope >= scope

\* Mutant of MustQueue: a narrower refresh is replaced while it runs.
NeverQueues(a, scope) == FALSE

\* A running refresh that reads too little is not disturbed.
MustQueue(a, scope) == Is(a, "running") /\ attempts[a].scope < scope

JoinRefresh(c) ==
  /\ Starts(c, "refresh") /\ Joins(now.refresh, callers[c].ask.scope)
  /\ Holding(c, now.refresh)
  /\ UNCHANGED <<stored, attempts, now, next, working, asked, writeVars, closeVars>>

\* queueRefreshLocked: the follow-up takes the broadest caller's work.
QueueRefresh(c) ==
  LET scope == callers[c].ask.scope
  IN /\ Starts(c, "refresh") /\ MustQueue(now.refresh, scope)
     /\ UNCHANGED now
     /\ \/ /\ next = NoAttempt
           /\ \E a \in Free : next' = a /\ Holding(c, a) /\ Make(c, a)
        \/ /\ next # NoAttempt
           /\ attempts' = [attempts EXCEPT ![next].scope = Max2(@, scope)]
           /\ Holding(c, next) /\ UNCHANGED next
     /\ UNCHANGED <<stored, working, asked, writeVars, closeVars>>

\* runRefreshLocked or its like for a reconcile: a new attempt that runs.
StartNew(c, kind) ==
  /\ UNCHANGED next
  /\ \E a \in Free : /\ now' = [now EXCEPT ![kind] = a] /\ working' = working \cup {a}
                     /\ Holding(c, a) /\ Make(c, a)

\* A parked refresh that reads too little is replaced at once.
StartRefresh(c) ==
  LET scope == callers[c].ask.scope
  IN /\ Starts(c, "refresh")
     /\ ~Joins(now.refresh, scope) /\ ~MustQueue(now.refresh, scope)
     /\ StartNew(c, "refresh")
     /\ UNCHANGED <<stored, asked, writeVars, closeVars>>

\* Joined with the same revision and batch version, refused with others.  The
\* embedding package also joins a parked one by the batch it has left.
StartReconcile(c) ==
  LET key == callers[c].ask.key
      current == now.reconcile
  IN /\ Starts(c, "reconcile")
     /\ \/ /\ Active(current)
           /\ \/ /\ \/ attempts[current].key = key
                    \/ Is(current, "parked") /\ attempts[current].batch = key[2]
                 /\ Holding(c, current) /\ UNCHANGED attempts
              \/ attempts[current].key # key /\ Leave(c)
           /\ UNCHANGED <<now, next, working>>
        \/ ~Active(current) /\ StartNew(c, "reconcile")
     /\ UNCHANGED <<stored, asked, writeVars, closeVars>>

StartAfterClose(c) ==
  /\ callers[c].pc = "ready" /\ closed /\ Leave(c)
  /\ UNCHANGED <<stored, now, next, working, asked, writeVars, closeVars>>

StatusOf(a) ==
  [state |-> attempts[a].state, reads |-> attempts[a].reads, batch |-> attempts[a].batch]

RunEnded(c) == attempts[callers[c].attempt].outcome[callers[c].run] # Pending

\* Mutant of Outcome: the attempt's status when the waiter comes to look.
OutcomeByStatus(c) == StatusOf(callers[c].attempt)

Outcome(c) == attempts[callers[c].attempt].outcome[callers[c].run]

\* waitFor: what has stopped answers with its status, and what runs with the
\* outcome of the run that is current now.
Wait(c) ==
  LET a == callers[c].attempt
  IN /\ callers[c].pc = "started" /\ Timely(a)
     /\ \/ /\ Is(a, "running")
           /\ callers' = [callers EXCEPT ![c].pc = "waiting", ![c].run = attempts[a].run]
           /\ UNCHANGED attempts
        \/ ~Is(a, "running") /\ Leave(c)
     /\ UNCHANGED <<stored, now, next, working, asked, writeVars, closeVars>>

Wake(c) ==
  /\ callers[c].pc = "waiting" /\ RunEnded(c)
  /\ Leave(c)
  /\ UNCHANGED <<stored, now, next, working, asked, writeVars, closeVars>>

\* The caller's request ends first; the attempt runs on.
GiveUp(c) ==
  /\ callers[c].pc = "waiting" /\ ~RunEnded(c)
  /\ Leave(c)
  /\ UNCHANGED <<stored, now, next, working, asked, writeVars, closeVars>>

\* ConfirmRefresh, ConfirmReconcile: a new run, on the caller's goroutine.
Confirm(c, kind) ==
  LET a == now[kind]
  IN /\ callers[c].pc = "idle" /\ Asks /\ ~closed /\ Is(a, "parked") /\ Timely(a)
     /\ attempts' = [attempts EXCEPT ![a].state = "running", ![a].run = 2]
     /\ working' = working \cup {a}
     /\ callers' = [callers EXCEPT ![c] =
          [Idle EXCEPT !.pc = "waiting", !.attempt = a, !.run = 2,
             !.ask = [kind |-> kind, scope |-> Due, key |-> attempts[a].key]]]
     /\ UNCHANGED <<stored, now, next, writeVars, closeVars>>

--------------------------------------------------------------------------------
(* Runs.                                                                     *)

\* What a run may report: whether it read the provider, and how it ended.  A
\* fold does not read or park again; a reconcile of another batch than the
\* caller's is refused by the service.
Results(a) ==
  LET attempt == attempts[a]
      all == [state : {"completed", "failed", "parked"}, read : BOOLEAN]
  IN IF attempt.run = 2 THEN {r \in all : ~r.read /\ r.state # "parked"}
     ELSE {r \in all :
             /\ r.state = "parked" => r.read
             /\ attempt.kind = "reconcile" /\ attempt.key[2] # attempt.batch => r.state = "failed"
             /\ r.state = "completed" /\ attempt.kind = "refresh" /\ ~r.read
                  => attempt.scope = Due}

\* A due read reads what a manual one would.
ReadsOf(a, result) ==
  IF result.read THEN Max2(attempts[a].scope, Manual) ELSE attempts[a].reads

\* recordRefreshLocked of the outcome of a's run, for a or for the follow-up.
Recorded(a, result, attempt) ==
  [attempt EXCEPT !.state = result.state, !.reads = ReadsOf(a, result),
     !.scope = IF result.state = "parked" THEN Max2(@, Manual) ELSE @,
     !.revision = attempts[a].revision, !.batch = attempts[a].batch,
     !.outcome[attempt.run] = [state |-> result.state, reads |-> ReadsOf(a, result),
                               batch |-> attempts[a].batch]]

Covers(a, result) == result.read /\ Max2(attempts[a].scope, Manual) >= attempts[next].scope

\* finishRefresh: the follow-up takes the outcome, or starts.
FinishRefresh(a, result) ==
  LET follows == next # NoAttempt /\ Covers(a, result)
      recorded == {a} \cup (IF follows THEN {next} ELSE {})
  IN /\ working' = (working \ {a}) \cup (IF follows THEN {} ELSE {next} \ {NoAttempt})
     /\ now' = IF next # NoAttempt THEN [now EXCEPT !.refresh = next] ELSE now
     /\ next' = NoAttempt
     /\ attempts' = Kept([b \in Slots |-> IF b \in recorded THEN Recorded(a, result, attempts[b])
                                                           ELSE attempts[b]],
                         now', next', callers)

FinishReconcile(a, result) ==
  /\ attempts' = Kept([attempts EXCEPT ![a] = Recorded(a, result, @)], now, next, callers)
  /\ working' = working \ {a}
  /\ UNCHANGED <<now, next>>

\* A run that completes may have changed the stored profile; a reconcile that
\* does ends its batch.
Changed(a, result) ==
  \/ UNCHANGED stored
  \/ /\ result.state = "completed" /\ stored.revision < MaxRevision
     /\ stored' = [revision |-> stored.revision + 1,
                   batch |-> IF attempts[a].kind = "reconcile" THEN stored.batch + 1
                                                              ELSE stored.batch]

WorkEnds(a) ==
  /\ a \in working
  /\ \E result \in Results(a) :
       /\ IF attempts[a].kind = "refresh" THEN FinishRefresh(a, result)
                                          ELSE FinishReconcile(a, result)
       /\ Changed(a, result)
  /\ UNCHANGED <<callers, asked, writeVars, closeVars>>

\* Another process refreshes, edits, or finishes the batch and starts another.
OtherProcess ==
  /\ stored.revision < MaxRevision
  /\ \E batch \in {stored.batch, stored.batch + 1} :
       stored' = [revision |-> stored.revision + 1, batch |-> batch]
  /\ UNCHANGED <<attempts, now, next, working, callers, asked, writeVars, closeVars>>

ConfirmationDeadline(kind) ==
  /\ Is(now[kind], "parked") /\ ~attempts[now[kind]].late
  /\ attempts' = [attempts EXCEPT ![now[kind]].late = TRUE]
  /\ UNCHANGED <<stored, now, next, working, callers, asked, writeVars, closeVars>>

--------------------------------------------------------------------------------
(* Provider writes and the end.                                              *)

ReserveWrite ==
  /\ Asks /\ ~closed /\ reserving' = reserving + 1
  /\ UNCHANGED <<stored, attempts, now, next, working, callers, workers, closeVars>>

\* No execution, one released because of Close, or one that gets a worker.
Reserved ==
  /\ reserving > 0 /\ reserving' = reserving - 1
  /\ UNCHANGED workers \/ (~closed /\ workers' = workers + 1)
  /\ UNCHANGED <<stored, attempts, now, next, working, callers, asked, closeVars>>

WorkerEnds ==
  /\ workers > 0 /\ workers' = workers - 1
  /\ UNCHANGED <<stored, attempts, now, next, working, callers, asked, reserving, closeVars>>

Canceled(attempt) ==
  [attempt EXCEPT !.state = "failed",
                  !.outcome[attempt.run] = [state |-> "failed", reads |-> Due, batch |-> 0]]

DropFollowUp ==
  /\ next' = NoAttempt
  /\ attempts' = Kept([a \in Slots |-> IF a = next THEN Canceled(attempts[a]) ELSE attempts[a]],
                      now, next', callers)

Close ==
  /\ ~closed /\ closed' = TRUE
  /\ DropFollowUp
  /\ UNCHANGED <<stored, now, working, callers, asked, writeVars, returned>>

\* Mutant of WaitGroup: a reservation is not counted until it has a worker.
WaitGroupOfWorkers == Cardinality(working) + workers

WaitGroup == Cardinality(working) + workers + reserving

CloseReturns ==
  /\ closed /\ ~returned /\ WaitGroup = 0
  /\ returned' = TRUE
  /\ UNCHANGED <<stored, attempts, now, next, working, callers, asked, writeVars, closed>>

--------------------------------------------------------------------------------
(* Specification.                                                            *)

Init ==
  /\ stored = [revision |-> 0, batch |-> 0]
  /\ attempts = [a \in Slots |-> Unused]
  /\ now = [kind \in Kinds |-> NoAttempt] /\ next = NoAttempt
  /\ working = {} /\ callers = [c \in Callers |-> Idle] /\ asked = 0
  /\ reserving = 0 /\ workers = 0
  /\ closed = FALSE /\ returned = FALSE

\* The steps of a request that has begun.
Proceed(c) ==
  \/ ReadStoredState(c) \/ ExpireObsolete(c) \/ ExpireOnDeadline(c)
  \/ JoinRefresh(c) \/ QueueRefresh(c) \/ StartRefresh(c) \/ StartReconcile(c)
  \/ StartAfterClose(c)
  \/ Wait(c) \/ Wake(c)

Next ==
  \/ \E c \in Callers : \/ Request(c) \/ Proceed(c) \/ GiveUp(c)
                        \/ \E kind \in Kinds : Confirm(c, kind)
  \/ \E a \in Slots : WorkEnds(a)
  \/ OtherProcess
  \/ \E kind \in Kinds : ConfirmationDeadline(kind)
  \/ ReserveWrite \/ Reserved \/ WorkerEnds
  \/ Close \/ CloseReturns

Spec == Init /\ [][Next]_vars

--------------------------------------------------------------------------------
(* Properties.                                                               *)

\* A caller who is told that a refresh completed gets what it asked for: some
\* run of its attempt, or the run whose outcome the attempt took, read at least
\* its scope.  A caller of a reconcile gets one of its batch.  And nobody is
\* answered with an attempt that runs (StartRefresh, finishRefresh, waitFor).
AnswersCover ==
  \A c \in Callers :
    LET caller == callers[c]
        told == IF caller.pc = "waiting" THEN Outcome(c) ELSE StatusOf(caller.attempt)
    IN caller.pc = "started" \/ (caller.pc = "waiting" /\ RunEnded(c)) =>
         /\ caller.pc = "waiting" => told.state # "running"
         /\ told.state = "completed" =>
              IF caller.ask.kind = "refresh" THEN told.reads >= caller.ask.scope
                                             ELSE told.batch = caller.ask.key[2]

\* Whoever waits is answered by a run that is under way, or by the follow-up
\* behind a refresh that is: no finish, confirmation, replacement or Close
\* leaves a waiter on a channel that nobody will close.
AnswerIsComing ==
  \A c \in Callers :
    LET a == callers[c].attempt
    IN callers[c].pc = "waiting" /\ ~RunEnded(c) =>
         \/ a \in working /\ attempts[a].run = callers[c].run
         \/ a = next /\ now.refresh \in working

\* Two refreshes of a profile never run side by side in one process, however
\* joins, follow-ups, confirmations and replacements fall.
OneRefreshRuns == Cardinality({a \in working : attempts[a].kind = "refresh"}) <= 1

\* A run ends once: its channel is closed once and its outcome never changes
\* (a second close would panic).
OutcomesStay ==
  \A a \in Slots : \A r \in Runs :
    attempts[a].outcome[r] # Pending =>
      attempts'[a].outcome[r] = attempts[a].outcome[r] \/ attempts'[a] = Unused

\* After Close has returned the profile can be closed: nothing supervised uses
\* it, and nothing starts to.
NothingAfterClose == returned => working = {} /\ workers = 0 /\ reserving = 0

\* ExpireObsolete fails only what the store has really moved past; an attempt
\* that parked while it read, on a newer batch, stays (afterStoredStateRead).
ExpiresObsolete ==
  \A c \in Callers, kind \in Kinds :
    callers[c].pc = "seen" /\ callers'[c].pc = "ready" /\ Is(now[kind], "parked")
      /\ attempts'[now[kind]].state = "failed"
    => MovedPast(stored, attempts[now[kind]])
================================================================================
