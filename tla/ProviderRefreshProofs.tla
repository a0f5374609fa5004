------------------------- MODULE ProviderRefreshProofs -------------------------
(***************************************************************************)
(* Safety of ProviderRefresh for every set of calls, processes and rows.    *)
(*                                                                          *)
(* A candidate is as good as the state its call started from: while the     *)
(* stored generation is the call's own, no fold came between, so what the   *)
(* call read is not older than what is stored (Fresh) and the deletion      *)
(* guard counted at least the rows that are stored (Counted).  SimpleFIN's  *)
(* hour rests on the lease row instead: the call that still holds it is the *)
(* last one that was admitted, or comes after every one (Spaced).           *)
(***************************************************************************)
EXTENDS ProviderRefresh, FiniteSetTheorems, TLAPS

\* A call that has read the clock remembers an hour that has come; a candidate was observed by
\* now.
ReadTheClock(c) ==
  /\ call[c].phase \notin {"idle", "recorded"} => call[c].now \in 1..hour
  /\ call[c].cand.at <= hour

\* No call is ahead of the stored generation or of the provider.
NotAhead(c) == call[c].gen <= generation /\ call[c].cand.version <= version

\* A candidate of the stored generation is not older than what the last fold stored.
Fresh(c) ==
  call[c].phase \in {"fetched", "confirming", "folding"} /\ call[c].gen = generation
  => call[c].cand.version >= folded

\* What the deletion guard will count, or has counted, covers the stored rows.  Only the
\* confirmation of a parked candidate goes without it.
Counted(c) ==
  ~additive /\ call[c].gen = generation =>
    /\ call[c].phase \in {"ready", "fetching", "fetched"} => committed \subseteq call[c].have
    /\ call[c].phase = "folding" /\ ~call[c].confirmed /\ call[c].cand.rows = {}
       => committed \cap call[c].cand.window = {}

\* Only SimpleFIN waits for an admission, only the others for a confirmation.
OfItsKind(c) ==
  /\ call[c].phase \in {"owned", "admitting"} => additive
  /\ call[c].phase = "confirming" => call[c].confirmed
  /\ call[c].confirmed => ~additive

CallSound(c) == ReadTheClock(c) /\ NotAhead(c) /\ Fresh(c) /\ Counted(c) /\ OfItsKind(c)

\* A parked candidate is what its call was.
ParkedSound(p) ==
  \A k \in parked[p] :
    /\ k.cand.at <= hour /\ k.cand.version <= version /\ k.gen <= generation
    /\ k.gen = generation => k.cand.version >= folded
    /\ ~additive

\* What holds of every state, besides the types.
Sound ==
  /\ folded <= version /\ (additive => batch = {})
  /\ \A c \in Calls : CallSound(c)
  /\ \A p \in Procs : ParkedSound(p)

\* What the steps of others do to a call: time passes, the provider changes, rows leave; or
\* another generation is stored.
Drift ==
  /\ additive' = additive /\ hour <= hour' /\ version <= version'
  /\ \/ generation' = generation /\ committed' \subseteq committed /\ folded' = folded
     \/ generation' > generation

\* A call that still holds the lease row is the last one that was admitted, or comes after every
\* admitted one.
CallSpaced(c) ==
  /\ call[c].phase \in {"fetched", "folding"} => call[c].now <= call[c].cand.at
  /\ HoldsRow(Owner[c]) => \A a \in admitted :
       /\ call[c].phase = "admitting" => a < call[c].now
       /\ call[c].phase \in {"fetching", "fetched", "folding", "failing"} => a <= call[c].now

\* The next SimpleFIN read comes after every admitted one.
Spaced ==
  additive =>
    /\ \A a \in admitted : a <= hour /\ a < Floor
    /\ \A c \in Calls : CallSpaced(c)

\* refreshMu: a process runs one refresh at a time (Supervisor's OneRefreshRuns).
OneCallPerProcess == \A c, d \in Calls : Owner[c] = Owner[d] => c = d

--------------------------------------------------------------------------------
(* Types, and what the helpers do to a call.                                 *)

\* The only call that changes is c, and it stays a call.
Moves(c) == call' \in [Calls -> CallStates] /\ \A d \in Calls \ {c} : call'[d] = call[d]

\* A call may be put in any state of its type.
LEMMA PutMoves ==
  ASSUME call \in [Calls -> CallStates], NEW c \in Calls, NEW r \in CallStates,
         call' = [call EXCEPT ![c] = r]
  PROVE  Moves(c) /\ call'[c] = r
  BY DEF Moves

\* The states no call is in yet, and those a call leaves behind.
LEMMA IdleTyped ==
  /\ NoCandidate \in Candidates /\ Idle \in CallStates
  /\ \A now \in 0..MaxHour :
       [Idle EXCEPT !.phase = "failing", !.now = now] \in CallStates
  /\ [Idle EXCEPT !.phase = "recorded"] \in CallStates
<1>1. 0 \in 0..MaxVersion /\ 0 \in 0..MaxHour
  BY RefreshAssumption
<1>2. NoCandidate \in Candidates
  BY <1>1 DEF NoCandidate, Candidates
<1>3. Idle \in CallStates
  BY <1>1, <1>2 DEF Idle, CallStates
<1>. QED
  BY <1>2, <1>3 DEF CallStates, Leasing

\* Step changes the phase only.
LEMMA StepMoves ==
  ASSUME call \in [Calls -> CallStates], NEW c \in Calls,
         NEW phase \in Locking \cup Leasing, Step(c, phase)
  PROVE  /\ Moves(c) /\ call'[c].phase = phase
         /\ call'[c].gen = call[c].gen /\ call'[c].now = call[c].now
         /\ call'[c].have = call[c].have /\ call'[c].cand = call[c].cand
         /\ call'[c].late = call[c].late /\ call'[c].confirmed = call[c].confirmed
  BY DEF Step, Moves, CallStates

\* End leaves an idle call.
LEMMA EndMoves ==
  ASSUME call \in [Calls -> CallStates], NEW c \in Calls, End(c)
  PROVE  Moves(c) /\ call'[c] = Idle
  BY PutMoves, IdleTyped DEF End

\* A failing call remembers the hour of its read.
LEMMA FailingMoves ==
  ASSUME call \in [Calls -> CallStates], NEW c \in Calls, Failing(c)
  PROVE  /\ Moves(c) /\ call'[c].phase = "failing"
         /\ call'[c] = [Idle EXCEPT !.phase = "failing", !.now = call[c].now]
<1>1. call[c].now \in 0..MaxHour
  BY DEF CallStates
<1>2. [Idle EXCEPT !.phase = "failing", !.now = call[c].now].phase = "failing"
  BY DEF Idle
<1>. QED
  BY <1>1, <1>2, PutMoves, IdleTyped DEF Failing

\* A lease that is taken, given back or lost is a lease.
LEMMA LeaseTyped ==
  /\ NoLease \in LeaseRows
  /\ \A p \in Procs, kind \in {"refresh", "write"} : LeaseOf(p, kind) \in LeaseRows
  /\ lease \in LeaseRows =>
       /\ \A p \in Procs : Released(p) \in LeaseRows
       /\ [lease EXCEPT !.owner = NoOwner] \in LeaseRows
       /\ [lease EXCEPT !.live = FALSE] \in LeaseRows
  BY DEF NoLease, LeaseOf, Released, LeaseRows

\* The candidates that may wait in one process.
ParkedStates == SUBSET [gen : Nat, cand : Candidates]

\* A process may be left with any of them.
LEMMA ParkTyped ==
  ASSUME parked \in [Procs -> ParkedStates], NEW c \in Calls, NEW S \in ParkedStates,
         parked' = [parked EXCEPT ![Owner[c]] = S]
  PROVE  parked' \in [Procs -> ParkedStates]
  BY DEF Procs

\* A call starts from the stored rows and generation.
LEMMA StartMoves ==
  ASSUME TypeOK, NEW c \in Calls, Start(c)
  PROVE  /\ Moves(c)
         /\ call'[c] = [Idle EXCEPT !.phase = "ready", !.gen = generation, !.now = hour,
                                    !.have = committed]
<1>1. hour \in 0..MaxHour /\ committed \in SUBSET Rows /\ generation \in Nat
  BY RefreshAssumption DEF TypeOK
<1>2. [Idle EXCEPT !.phase = "ready", !.gen = generation, !.now = hour,
                   !.have = committed] \in CallStates
  BY <1>1, IdleTyped DEF CallStates, Locking
<1>. QED
  BY <1>2, PutMoves DEF Start, TypeOK

\* A spent token leaves a confirming call with the token's candidate, or nothing.
LEMMA ConfirmationMoves ==
  ASSUME TypeOK, NEW c \in Calls, TakeConfirmation(c)
  PROVE  /\ Moves(c) /\ call'[c].phase \in {"idle", "confirming"}
         /\ \E k \in parked[Owner[c]] :
              /\ parked' = [parked EXCEPT ![Owner[c]] = @ \ {k}]
              /\ \/ /\ k.gen = generation
                    /\ call'[c] = [Idle EXCEPT !.phase = "confirming", !.gen = generation,
                                               !.now = hour, !.cand = k.cand,
                                               !.confirmed = TRUE]
                 \/ call'[c] = Idle
<1>1. PICK k \in parked[Owner[c]] :
        /\ parked' = [parked EXCEPT ![Owner[c]] = @ \ {k}]
        /\ call' = [call EXCEPT ![c] =
                     IF k.gen = generation
                     THEN [Idle EXCEPT !.phase = "confirming", !.gen = generation,
                                       !.now = hour, !.cand = k.cand, !.confirmed = TRUE]
                     ELSE Idle]
  BY DEF TakeConfirmation
<1>2. k.cand \in Candidates /\ hour \in 0..MaxHour /\ generation \in Nat
  BY RefreshAssumption DEF TypeOK, Procs
<1>3. [Idle EXCEPT !.phase = "confirming", !.gen = generation, !.now = hour,
                   !.cand = k.cand, !.confirmed = TRUE] \in CallStates
  BY <1>2, IdleTyped DEF CallStates, Locking
<1>4. Idle.phase = "idle"
      /\ [Idle EXCEPT !.phase = "confirming", !.gen = generation, !.now = hour,
                      !.cand = k.cand, !.confirmed = TRUE].phase = "confirming"
  BY DEF Idle
<1>. QED
  BY <1>1, <1>3, <1>4, PutMoves, IdleTyped DEF TypeOK

\* The admission reads the stored generation.
LEMMA AdmissionMoves ==
  ASSUME TypeOK, NEW c \in Calls, AdmissionRead(c)
  PROVE  /\ Moves(c)
         /\ \/ call'[c] = Idle /\ lease' = Released(Owner[c])
            \/ /\ Floor <= call[c].now /\ lease' = lease
               /\ call'[c] = [call[c] EXCEPT !.phase = "admitting", !.gen = generation]
               /\ call'[c].phase = "admitting"
<1>1. call[c] \in CallStates
  BY DEF TypeOK
<1>2. [call[c] EXCEPT !.phase = "admitting", !.gen = generation] \in CallStates
  BY <1>1 DEF TypeOK, CallStates, Locking
<1>3. Floor \in Int /\ call[c].now \in Int
  BY <1>1, RefreshAssumption DEF TypeOK, CallStates, Floor, Hours
<1>4. CASE Floor > call[c].now
  BY <1>4, EndMoves DEF AdmissionRead, TypeOK
<1>5. CASE ~(Floor > call[c].now)
  <2>1. /\ call' = [call EXCEPT ![c] = [call[c] EXCEPT !.phase = "admitting",
                                                       !.gen = generation]]
        /\ lease' = lease
    BY <1>5 DEF AdmissionRead
  <2>2. /\ Moves(c)
        /\ call'[c] = [call[c] EXCEPT !.phase = "admitting", !.gen = generation]
    BY <1>2, <2>1, PutMoves DEF TypeOK
  <2>4. call'[c].phase = "admitting"
    BY <1>1, <2>2 DEF CallStates
  <2>3. Floor <= call[c].now
    BY <1>3, <1>5
  <2>. QED
    BY <2>1, <2>2, <2>3, <2>4
<1>. QED
  BY <1>4, <1>5

\* A read sees the provider as it is now.
LEMMA FetchMoves ==
  ASSUME TypeOK, NEW c \in Calls, Fetch(c)
  PROVE  /\ Moves(c) /\ call'[c].phase = "fetched"
         /\ call'[c].cand.version = version /\ call'[c].cand.at = hour
         /\ call'[c].gen = call[c].gen /\ call'[c].now = call[c].now
         /\ call'[c].have = call[c].have /\ call'[c].confirmed = call[c].confirmed
<1>1. PICK w \in Windows :
        call' = [call EXCEPT ![c] =
                   [call[c] EXCEPT !.phase = "fetched",
                      !.cand = [rows |-> truth \cap w, window |-> w, version |-> version,
                                at |-> hour],
                      !.late = HoldsRow(Owner[c]) /\ ~lease.live]]
  BY ZenonT(40) DEF Fetch
<1>2. [rows |-> truth \cap w, window |-> w, version |-> version, at |-> hour] \in Candidates
  BY RefreshAssumption DEF TypeOK, Candidates
<1>3. (HoldsRow(Owner[c]) /\ ~lease.live) \in BOOLEAN /\ call[c] \in CallStates
  BY DEF HoldsRow, TypeOK
<1> DEFINE r == [call[c] EXCEPT !.phase = "fetched",
                      !.cand = [rows |-> truth \cap w, window |-> w, version |-> version,
                                at |-> hour],
                      !.late = HoldsRow(Owner[c]) /\ ~lease.live]
<1>4. r \in CallStates
  BY <1>2, <1>3 DEF CallStates, Leasing
<1>5. Moves(c) /\ call'[c] = r
  <2>. HIDE DEF r
  <2>. QED
    BY <1>1, <1>4, PutMoves DEF TypeOK, r
<1>6. r.phase = "fetched" /\ r.cand.version = version /\ r.cand.at = hour
      /\ r.gen = call[c].gen /\ r.now = call[c].now /\ r.have = call[c].have
      /\ r.confirmed = call[c].confirmed
  BY <1>3 DEF CallStates
<1>. QED
  BY <1>5, <1>6

\* The guard either parks the candidate or forgets the rows it counted.
LEMMA GuardMoves ==
  ASSUME TypeOK, NEW c \in Calls, Guard(c)
  PROVE  /\ Moves(c) /\ call'[c].phase \in {"failing", "folding"}
         /\ \/ /\ ~additive
               /\ call'[c] = [Idle EXCEPT !.phase = "failing", !.now = call[c].now]
               /\ parked' = [parked EXCEPT ![Owner[c]] =
                                {[gen |-> call[c].gen, cand |-> call[c].cand]}]
            \/ /\ additive \/ ~RemovesTooMuch(call[c].have, call[c].cand)
               /\ call'[c] = [call[c] EXCEPT !.phase = "folding", !.have = {}]
               /\ parked' = parked
<1>1. call[c] \in CallStates
  BY DEF TypeOK
<1>2. [call[c] EXCEPT !.phase = "folding", !.have = {}] \in CallStates
  BY <1>1 DEF CallStates, Locking
<1>3. CASE ~additive /\ RemovesTooMuch(call[c].have, call[c].cand)
  BY <1>3, FailingMoves DEF Guard, TypeOK
<1>4. CASE ~(~additive /\ RemovesTooMuch(call[c].have, call[c].cand))
  <2>1. call' = [call EXCEPT ![c] = [call[c] EXCEPT !.phase = "folding", !.have = {}]]
    BY <1>4 DEF Guard
  <2>. QED
    BY <1>1, <1>2, <1>4, <2>1, PutMoves DEF Guard, TypeOK, CallStates
<1>. QED
  BY <1>3, <1>4

\* After the failure is recorded the call has nothing left but its lease.
LEMMA RecordFailureMoves ==
  ASSUME TypeOK, NEW c \in Calls, RecordFailure(c)
  PROVE  Moves(c) /\ call'[c] = [Idle EXCEPT !.phase = "recorded"]
  BY PutMoves, IdleTyped DEF RecordFailure, TypeOK

\* A fold that fails counts from now.
LEMMA CredentialMoves ==
  ASSUME TypeOK, NEW c \in Calls, CredentialChanged(c)
  PROVE  Moves(c) /\ call'[c] = [Idle EXCEPT !.phase = "failing", !.now = hour]
<1>1. hour \in 0..MaxHour
  BY DEF TypeOK
<1>. QED
  BY <1>1, PutMoves, IdleTyped DEF CredentialChanged, TypeOK

\* A crash leaves the calls of the process idle.
LEMMA CrashMoves ==
  ASSUME TypeOK, NEW p \in Procs, Crash(p)
  PROVE  /\ call' \in [Calls -> CallStates]
         /\ \A c \in Calls : call'[c] = IF Owner[c] = p THEN Idle ELSE call[c]
  BY IdleTyped DEF Crash, TypeOK

\* A reload changes the rows a reading call will count, and nothing else.
LEMMA ReloadMoves ==
  ASSUME TypeOK, NEW p \in Procs, Reload(p)
  PROVE  /\ call' \in [Calls -> CallStates]
         /\ \A c \in Calls :
              \/ call'[c] = call[c]
              \/ call'[c] = [call[c] EXCEPT !.have = committed]
<1>1. \A c \in Calls : [call[c] EXCEPT !.have = committed] \in CallStates
  BY DEF TypeOK, CallStates
<1>. QED
  BY <1>1 DEF Reload, TypeOK

\* The first state is well typed.
LEMMA InitTyped == Init => TypeOK
<1> SUFFICES ASSUME Init PROVE TypeOK
  OBVIOUS
<1>1. /\ 0 \in 0..MaxVersion /\ 0 \in 0..MaxHour /\ 1 \in 1..MaxHour /\ 0 \in Hours
      /\ 0 \in Nat
  BY RefreshAssumption DEF Hours
<1>2. NoLease \in LeaseRows
  BY LeaseTyped
<1>3. additive \in BOOLEAN
  BY RefreshAssumption DEF Init
<1>. QED
  BY <1>1, <1>2, <1>3, IdleTyped DEF Init, TypeOK

\* Every step keeps every variable in its type.
LEMMA TypeStep == TypeOK /\ Sound /\ [Next]_vars => TypeOK'
<1> SUFFICES ASSUME TypeOK, Sound, [Next]_vars PROVE TypeOK'
  OBVIOUS
<1> USE RefreshAssumption
    DEF TypeOK, Sound, CallSound, ReadTheClock, vars, stored, remote, local, ghost
<1>1. ASSUME NEW c \in Calls, Start(c) PROVE TypeOK'
  BY <1>1, StartMoves DEF Start, Moves
<1>2. ASSUME NEW c \in Calls, TakeConfirmation(c) PROVE TypeOK'
  <2>1. PICK k \in parked[Owner[c]] : parked' = [parked EXCEPT ![Owner[c]] = @ \ {k}]
    BY <1>2 DEF TakeConfirmation
  <2>2. parked[Owner[c]] \ {k} \in ParkedStates
    BY DEF Procs, ParkedStates
  <2>3. parked' \in [Procs -> ParkedStates]
    BY <2>1, <2>2, ParkTyped DEF ParkedStates
  <2>. QED
    BY <1>2, <2>3, ConfirmationMoves DEF TakeConfirmation, Moves, ParkedStates
<1>3. ASSUME NEW c \in Calls, Acquire(c) PROVE TypeOK'
  <2>1. call' \in [Calls -> CallStates]
    <3>1. (IF additive THEN "owned" ELSE "fetching") \in Locking \cup Leasing
      BY DEF Locking, Leasing
    <3>. QED
      BY <1>3, <3>1, StepMoves, EndMoves DEF Acquire, Moves
  <2>2. lease' \in LeaseRows
    BY <1>3, LeaseTyped DEF Acquire, Procs
  <2>. QED
    BY <1>3, <2>1, <2>2 DEF Acquire
<1>4. ASSUME NEW c \in Calls, AdmissionRead(c) PROVE TypeOK'
  BY ZenonT(40), <1>4, AdmissionMoves, LeaseTyped DEF AdmissionRead, Moves, Procs
<1>5. ASSUME NEW c \in Calls, RecordAttempt(c) PROVE TypeOK'
  BY <1>5, StepMoves, EndMoves DEF RecordAttempt, Moves, Leasing, Hours
<1>6. ASSUME NEW c \in Calls, Fetch(c) PROVE TypeOK'
  BY <1>6, FetchMoves DEF Fetch, Moves
<1>7. ASSUME NEW c \in Calls, Abandon(c) PROVE TypeOK'
  BY <1>7, EndMoves, LeaseTyped DEF Abandon, Moves, Procs
<1>8. ASSUME NEW c \in Calls, FetchFails(c) PROVE TypeOK'
  BY <1>8, FailingMoves DEF FetchFails, Moves
<1>9. ASSUME NEW c \in Calls, Guard(c) PROVE TypeOK'
  <2>1. [gen |-> call[c].gen, cand |-> call[c].cand] \in [gen : Nat, cand : Candidates]
    BY DEF CallStates
  <2>2. {[gen |-> call[c].gen, cand |-> call[c].cand]} \in ParkedStates
    BY <2>1 DEF ParkedStates
  <2>3. parked' \in [Procs -> ParkedStates]
    BY <1>9, <2>2, ParkTyped DEF Guard, ParkedStates
  <2>4. call' \in [Calls -> CallStates]
    BY <1>9, GuardMoves DEF Moves
  <2>. QED
    BY <1>9, <2>3, <2>4 DEF Guard, ParkedStates
<1>10. ASSUME NEW c \in Calls, RecordFailure(c) PROVE TypeOK'
  <2>1. call[c].now \in 0..MaxHour
    BY DEF CallStates
  <2>2. lastAttempt' \in 0..MaxHour /\ nextEligible' \in Hours
    <3>1. CASE HoldsRow(Owner[c]) /\ additive
      <4>1. PICK eligible \in {0} \cup (hour + 1 .. hour + 2) :
              /\ lastAttempt' = call[c].now
              /\ nextEligible' = IF eligible < call[c].now + 1
                                 THEN call[c].now + 1 ELSE eligible
        BY <1>10, <3>1 DEF RecordFailure
      <4>. QED
        BY <2>1, <4>1 DEF Hours
    <3>2. CASE ~(HoldsRow(Owner[c]) /\ additive)
      BY <1>10, <3>2 DEF RecordFailure
    <3>. QED
      BY <3>1, <3>2
  <2>. QED
    BY <1>10, <2>2, RecordFailureMoves DEF RecordFailure, Moves
<1>11. ASSUME NEW c \in Calls, Release(c) PROVE TypeOK'
  BY <1>11, EndMoves, LeaseTyped DEF Release, Moves, Procs
<1>12. ASSUME NEW c \in Calls, CredentialChanged(c) PROVE TypeOK'
  BY <1>12, CredentialMoves DEF CredentialChanged, Moves
<1>13. ASSUME NEW c \in Calls, Fold(c) PROVE TypeOK'
  BY <1>13, EndMoves, LeaseTyped DEF Fold, Moves, Merged, CallStates, Candidates, Hours
<1>14. ASSUME NEW c \in Calls, FoldRefused(c) PROVE TypeOK'
  BY <1>14, EndMoves, LeaseTyped DEF FoldRefused, Moves, Procs
<1>15. ASSUME NEW c \in Calls, AcquireForConfirmed(c) PROVE TypeOK'
  BY <1>15, StepMoves, EndMoves, LeaseTyped DEF AcquireForConfirmed, Moves, Locking, Procs
<1>16. ASSUME NEW c \in Calls, Panic(c) PROVE TypeOK'
  BY <1>16, EndMoves, LeaseTyped DEF Panic, Moves, Procs
<1>17. ASSUME NEW p \in Procs, ExpireConfirmation(p) PROVE TypeOK'
  BY <1>17 DEF ExpireConfirmation
<1>18. ASSUME NEW p \in Procs, Crash(p) PROVE TypeOK'
  BY <1>18, CrashMoves, LeaseTyped DEF Crash
<1>19. ASSUME NEW p \in Procs, Reload(p) PROVE TypeOK'
  BY <1>19, ReloadMoves DEF Reload
<1>20. ASSUME NEW p \in Procs, OpenBatch(p) PROVE TypeOK'
  BY <1>20, LeaseTyped DEF OpenBatch
<1>21. ASSUME NEW p \in Procs, ResumeBatch(p) PROVE TypeOK'
  BY <1>21, LeaseTyped DEF ResumeBatch
<1>22. ASSUME NEW r \in Rows, CommitDelete(r) PROVE TypeOK'
  BY <1>22 DEF CommitDelete
<1>23. CASE ExpireLease
  BY <1>23, LeaseTyped DEF ExpireLease
<1>24. CASE Tick
  BY <1>24 DEF Tick
<1>25. CASE ProviderChanges
  BY <1>25 DEF ProviderChanges
<1>26. CASE LandBatch
  BY <1>26 DEF LandBatch
<1>27. CASE FinishBatch
  BY <1>27, LeaseTyped DEF FinishBatch
<1>28. CASE ReconcileBatch
  BY <1>28, LeaseTyped DEF ReconcileBatch
<1>29. CASE UNCHANGED vars
  BY <1>29
<1>. QED
  BY <1>1, <1>2, <1>3, <1>4, <1>5, <1>6, <1>7, <1>8, <1>9, <1>10, <1>11, <1>12, <1>13, <1>14,
     <1>15, <1>16, <1>17, <1>18, <1>19, <1>20, <1>21, <1>22, <1>23, <1>24, <1>25, <1>26, <1>27,
     <1>28, <1>29
     DEF Next, Refresh

--------------------------------------------------------------------------------
(* Calls and candidates stay sound.                                          *)

\* A call that does not move stays sound while the rest drifts.
LEMMA OthersSound ==
  ASSUME TypeOK, TypeOK', Drift, NEW c \in Calls, CallSound(c), call'[c] = call[c]
  PROVE  CallSound(c)'
<1>1. /\ call[c].now \in Int /\ call[c].gen \in Int
      /\ call[c].cand.at \in Int /\ call[c].cand.version \in Int
  BY DEF TypeOK, CallStates, Candidates
<1>2. /\ hour \in Int /\ hour' \in Int /\ version \in Int /\ version' \in Int
      /\ generation \in Int /\ generation' \in Int
  BY DEF TypeOK
<1>3. ReadTheClock(c)' /\ NotAhead(c)'
  BY <1>1, <1>2 DEF CallSound, ReadTheClock, NotAhead, Drift
<1>4. CASE generation' = generation /\ committed' \subseteq committed /\ folded' = folded
  BY <1>3, <1>4 DEF CallSound, Fresh, Counted, OfItsKind, Drift
<1>5. CASE generation' > generation
  <2>1. call'[c].gen # generation'
    BY <1>1, <1>2, <1>5 DEF CallSound, NotAhead
  <2>. QED
    BY <1>3, <2>1 DEF CallSound, Fresh, Counted, OfItsKind, Drift
<1>. QED
  BY <1>4, <1>5 DEF Drift

\* So does a parked candidate.
LEMMA ParkedStaySound ==
  ASSUME TypeOK, TypeOK', Drift, NEW p \in Procs, ParkedSound(p), parked'[p] \subseteq parked[p]
  PROVE  ParkedSound(p)'
<1> SUFFICES ASSUME NEW k \in parked'[p]
             PROVE  /\ k.cand.at <= hour' /\ k.cand.version <= version' /\ k.gen <= generation'
                    /\ k.gen = generation' => k.cand.version >= folded'
                    /\ ~additive'
  BY DEF ParkedSound
<1>1. /\ k \in parked[p]
      /\ k.gen \in Int /\ k.cand.at \in Int /\ k.cand.version \in Int
  BY DEF TypeOK, Candidates
<1>2. /\ hour \in Int /\ hour' \in Int /\ version \in Int /\ version' \in Int
      /\ generation \in Int /\ generation' \in Int
  BY DEF TypeOK
<1>. QED
  BY <1>1, <1>2 DEF ParkedSound, Drift

\* A call at rest, or one that only has its failure to record, is sound.
LEMMA RestIsSound ==
  ASSUME TypeOK', NEW c \in Calls, NEW now,
         \/ call'[c] = Idle \/ call'[c] = [Idle EXCEPT !.phase = "recorded"]
         \/ now \in 1..hour' /\ call'[c] = [Idle EXCEPT !.phase = "failing", !.now = now]
  PROVE  CallSound(c)'
<1>1. MaxHour \in Nat /\ MaxVersion \in Nat
  BY RefreshAssumption
<1>2. hour' \in 1..MaxHour /\ version' \in 0..MaxVersion /\ generation' \in Nat
  BY DEF TypeOK
<1>3. 0 <= hour' /\ 0 <= version' /\ 0 <= generation'
  BY <1>1, <1>2
<1>4. call'[c].phase = "failing" => now \in 1..hour'
  BY DEF Idle
<1>5. call'[c] \in {Idle, [Idle EXCEPT !.phase = "recorded"],
                   [Idle EXCEPT !.phase = "failing", !.now = now]}
  OBVIOUS
<1>6. ASSUME NEW r \in {Idle, [Idle EXCEPT !.phase = "recorded"],
                       [Idle EXCEPT !.phase = "failing", !.now = now]}
      PROVE  /\ r.phase \in {"idle", "recorded", "failing"} /\ r.gen = 0 /\ ~r.confirmed
             /\ r.cand.at = 0 /\ r.cand.version = 0
             /\ r.phase = "failing" => r.now = now
  <2>1. CASE r = Idle
    BY <2>1 DEF Idle, NoCandidate
  <2>2. CASE r = [Idle EXCEPT !.phase = "recorded"]
    BY <2>2 DEF Idle, NoCandidate
  <2>3. CASE r = [Idle EXCEPT !.phase = "failing", !.now = now]
    BY <2>3 DEF Idle, NoCandidate
  <2>. QED
    BY <1>6, <2>1, <2>2, <2>3
<1>7. /\ call'[c].phase \in {"idle", "recorded", "failing"} /\ ~call'[c].confirmed
      /\ call'[c].gen = 0 /\ call'[c].cand.at = 0 /\ call'[c].cand.version = 0
      /\ call'[c].phase = "failing" => call'[c].now \in 1..hour'
  <2>. HIDE DEF Idle
  <2>. QED
    BY <1>4, <1>5, <1>6
<1>. QED
  BY <1>3, <1>7 DEF CallSound, ReadTheClock, NotAhead, Fresh, Counted, OfItsKind

\* One sound move of one call keeps everything sound.
LEMMA MoveSound ==
  ASSUME TypeOK, TypeOK', Sound, Drift, NEW c \in Calls, Moves(c), CallSound(c)',
         \A p \in Procs : parked'[p] \subseteq parked[p] \/ ParkedSound(p)',
         folded' <= version', additive => batch' = {}
  PROVE  Sound'
<1>1. \A d \in Calls : CallSound(d)'
  BY OthersSound DEF Sound, Moves
<1>2. \A p \in Procs : ParkedSound(p)'
  BY ParkedStaySound DEF Sound
<1>. QED
  BY <1>1, <1>2 DEF Sound, Drift, TypeOK

\* A step in which no call moves keeps everything sound.
LEMMA DriftSound ==
  ASSUME TypeOK, TypeOK', Sound, Drift, call' = call, parked' = parked,
         folded' <= version', additive => batch' = {}
  PROVE  Sound'
<1>1. \A d \in Calls : CallSound(d)'
  BY OthersSound DEF Sound
<1>2. \A p \in Procs : ParkedSound(p)'
  BY ParkedStaySound DEF Sound
<1>. QED
  BY <1>1, <1>2 DEF Sound, Drift, TypeOK

\* A call that leaves the phases that lease gives the lease back.
LEMMA LeaseStep == TypeOK /\ NoStrandedLease /\ [Next]_vars => NoStrandedLease'
<1> SUFFICES ASSUME TypeOK, NoStrandedLease, [Next]_vars PROVE NoStrandedLease'
  OBVIOUS
<1> USE RefreshAssumption
    DEF TypeOK, NoStrandedLease, vars, stored, remote, local, ghost, Leasing, HoldsRow,
        Released, NoLease, LeaseOf, LeaseRows
<1>1. ASSUME NEW c \in Calls, Start(c) PROVE NoStrandedLease'
  BY <1>1, StartMoves DEF Start, Moves, Idle
<1>2. ASSUME NEW c \in Calls, TakeConfirmation(c) PROVE NoStrandedLease'
  <2>1. Moves(c) /\ lease' = lease
    BY <1>2, ConfirmationMoves DEF TakeConfirmation
  <2>2. call[c].phase = "idle"
    BY <1>2 DEF TakeConfirmation, Idle
  <2>. QED
    BY <2>1, <2>2 DEF Moves
<1>3. ASSUME NEW c \in Calls, Acquire(c) PROVE NoStrandedLease'
  BY <1>3, StepMoves, EndMoves DEF Acquire, Moves, Idle
<1>4. ASSUME NEW c \in Calls, AdmissionRead(c) PROVE NoStrandedLease'
  <2>1. CASE lease' = Released(Owner[c])
    BY <1>4, <2>1, AdmissionMoves DEF Moves
  <2>2. CASE lease' = lease /\ call'[c].phase = "admitting"
    BY <1>4, <2>2, AdmissionMoves DEF Moves
  <2>. QED
    BY <1>4, <2>1, <2>2, AdmissionMoves
<1>5. ASSUME NEW c \in Calls, RecordAttempt(c) PROVE NoStrandedLease'
  BY <1>5, StepMoves, EndMoves DEF RecordAttempt, Moves, Idle
<1>6. ASSUME NEW c \in Calls, Fetch(c) PROVE NoStrandedLease'
  BY ZenonT(40), <1>6, FetchMoves DEF Fetch, Moves, Idle
<1>7. ASSUME NEW c \in Calls, Abandon(c) PROVE NoStrandedLease'
  BY <1>7, EndMoves DEF Abandon, Moves, Idle
<1>8. ASSUME NEW c \in Calls, FetchFails(c) PROVE NoStrandedLease'
  BY <1>8, FailingMoves DEF FetchFails, Moves, Idle
<1>9. ASSUME NEW c \in Calls, Guard(c) PROVE NoStrandedLease'
  BY <1>9, GuardMoves DEF Guard, Moves, Idle
<1>10. ASSUME NEW c \in Calls, RecordFailure(c) PROVE NoStrandedLease'
  BY <1>10, RecordFailureMoves DEF RecordFailure, Moves, Idle
<1>11. ASSUME NEW c \in Calls, Release(c) PROVE NoStrandedLease'
  BY <1>11, EndMoves DEF Release, Moves, Idle
<1>12. ASSUME NEW c \in Calls, CredentialChanged(c) PROVE NoStrandedLease'
  BY <1>12, CredentialMoves DEF CredentialChanged, Moves, Idle
<1>13. ASSUME NEW c \in Calls, Fold(c) PROVE NoStrandedLease'
  BY <1>13, EndMoves DEF Fold, Moves, Idle
<1>14. ASSUME NEW c \in Calls, FoldRefused(c) PROVE NoStrandedLease'
  BY <1>14, EndMoves DEF FoldRefused, Moves, Idle
<1>15. ASSUME NEW c \in Calls, AcquireForConfirmed(c) PROVE NoStrandedLease'
  BY <1>15, StepMoves, EndMoves DEF AcquireForConfirmed, Moves, Idle
<1>16. ASSUME NEW c \in Calls, Panic(c) PROVE NoStrandedLease'
  BY <1>16, EndMoves DEF Panic, Moves, Idle
<1>17. ASSUME NEW p \in Procs, ExpireConfirmation(p) PROVE NoStrandedLease'
  BY <1>17 DEF ExpireConfirmation
<1>18. ASSUME NEW p \in Procs, Crash(p) PROVE NoStrandedLease'
  BY <1>18, CrashMoves DEF Crash, Idle
<1>19. ASSUME NEW p \in Procs, Reload(p) PROVE NoStrandedLease'
  BY <1>19, ReloadMoves DEF Reload, Idle
<1>20. ASSUME NEW p \in Procs, OpenBatch(p) PROVE NoStrandedLease'
  BY <1>20 DEF OpenBatch
<1>21. ASSUME NEW p \in Procs, ResumeBatch(p) PROVE NoStrandedLease'
  BY <1>21 DEF ResumeBatch
<1>22. ASSUME NEW r \in Rows, CommitDelete(r) PROVE NoStrandedLease'
  BY <1>22 DEF CommitDelete
<1>23. CASE ExpireLease
  BY <1>23 DEF ExpireLease
<1>24. CASE Tick
  BY <1>24 DEF Tick
<1>25. CASE ProviderChanges
  BY <1>25 DEF ProviderChanges
<1>26. CASE LandBatch
  BY <1>26 DEF LandBatch
<1>27. CASE FinishBatch
  BY <1>27 DEF FinishBatch
<1>28. CASE ReconcileBatch
  BY <1>28 DEF ReconcileBatch
<1>29. CASE UNCHANGED vars
  BY <1>29
<1>. QED
  BY <1>1, <1>2, <1>3, <1>4, <1>5, <1>6, <1>7, <1>8, <1>9, <1>10, <1>11, <1>12, <1>13, <1>14,
     <1>15, <1>16, <1>17, <1>18, <1>19, <1>20, <1>21, <1>22, <1>23, <1>24, <1>25, <1>26, <1>27,
     <1>28, <1>29
     DEF Next, Refresh

\* A candidate that keeps none of the rows it covers passes the guard only when there are none.
LEMMA EmptyKeepsNothing ==
  ASSUME NEW have \in SUBSET Rows, NEW cand, cand.rows = {}, ~RemovesTooMuch(have, cand)
  PROVE  have \cap cand.window = {}
<1> DEFINE existing == have \cap cand.window
<1>1. IsFiniteSet(existing)
  BY RefreshAssumption, FS_Subset
<1>2. existing \ cand.rows = existing
  OBVIOUS
<1>3. ~(/\ RowWeight * Cardinality(existing) > 0
        /\ RowWeight * Cardinality(existing) <= RowWeight * Cardinality(existing))
  BY <1>2 DEF RemovesTooMuch, DeletionConfirmationRequired
<1>4. Cardinality(existing) \in Nat
  BY <1>1, FS_CardinalityType
<1>5. Cardinality(existing) = 0
  <2>1. RowWeight \in Nat \ {0}
    BY RefreshAssumption
  <2>. HIDE DEF existing
  <2>. QED
    BY <1>3, <1>4, <2>1
<1>. QED
  BY <1>1, <1>5, FS_EmptySet

\* In the first state no call has started and nothing is parked.
LEMMA InitSound == Init => Sound
<1> SUFFICES ASSUME Init PROVE Sound
  OBVIOUS
<1>1. \A c \in Calls : CallSound(c)
  BY DEF Init, CallSound, ReadTheClock, NotAhead, Fresh, Counted, OfItsKind, Idle, NoCandidate
<1>. QED
  BY <1>1 DEF Init, Sound, ParkedSound

\* Every step keeps calls and candidates sound.
LEMMA SoundStep == TypeOK /\ TypeOK' /\ Sound /\ [Next]_vars => Sound'
<1> SUFFICES ASSUME TypeOK, TypeOK', Sound, [Next]_vars PROVE Sound'
  OBVIOUS
<1> USE DEF stored, remote, local, ghost
<1>1. ASSUME NEW c \in Calls, Start(c) PROVE Sound'
  <2>1. UNCHANGED <<additive, committed, generation, hour, version, folded, parked, batch>>
    BY <1>1 DEF Start
  <2>2. Moves(c)
    BY <1>1, StartMoves
  <2>3. /\ call'[c].phase = "ready" /\ call'[c].gen = generation /\ call'[c].now = hour
        /\ call'[c].have = committed /\ call'[c].cand = NoCandidate /\ ~call'[c].confirmed
    BY <1>1, StartMoves DEF Idle
  <2>4. NoCandidate.at = 0 /\ NoCandidate.version = 0
    BY DEF NoCandidate
  <2>5. hour \in 1..hour /\ 0 <= hour /\ 0 <= version /\ generation <= generation
    BY DEF TypeOK
  <2>6. CallSound(c)'
    BY <2>1, <2>3, <2>4, <2>5 DEF CallSound, ReadTheClock, NotAhead, Fresh, Counted, OfItsKind
  <2>7. Drift
    BY <2>1 DEF Drift, TypeOK
  <2>. QED
    BY <2>1, <2>2, <2>6, <2>7, MoveSound DEF Sound
<1>2. ASSUME NEW c \in Calls, TakeConfirmation(c) PROVE Sound'
  <2>1. UNCHANGED <<additive, committed, generation, hour, version, folded, batch>>
    BY <1>2 DEF TakeConfirmation
  <2>2. Moves(c)
    BY <1>2, ConfirmationMoves
  <2>3. PICK k \in parked[Owner[c]] :
          /\ parked' = [parked EXCEPT ![Owner[c]] = @ \ {k}]
          /\ \/ /\ k.gen = generation
                /\ call'[c] = [Idle EXCEPT !.phase = "confirming", !.gen = generation,
                                           !.now = hour, !.cand = k.cand,
                                           !.confirmed = TRUE]
             \/ call'[c] = Idle
    BY <1>2, ConfirmationMoves
  <2>4. \A p \in Procs : parked'[p] \subseteq parked[p]
    BY <2>3 DEF TypeOK
  <2>5. /\ k.cand.at <= hour /\ k.cand.version <= version /\ ~additive
        /\ k.gen = generation => k.cand.version >= folded
    BY DEF Sound, ParkedSound, Procs
  <2>6. Drift
    BY <2>1 DEF Drift, TypeOK
  <2>7. CASE k.gen = generation /\ call'[c].phase = "confirming"
    <3>1. call'[c] = [Idle EXCEPT !.phase = "confirming", !.gen = generation, !.now = hour,
                                  !.cand = k.cand, !.confirmed = TRUE]
      BY <2>3, <2>7 DEF Idle
    <3>2. /\ call'[c].gen = generation /\ call'[c].now = hour /\ call'[c].cand = k.cand
          /\ call'[c].confirmed
      BY <3>1 DEF Idle
    <3>3. hour \in 1..hour /\ generation <= generation
      BY DEF TypeOK
    <3>4. CallSound(c)'
      BY <2>1, <2>5, <2>7, <3>2, <3>3
         DEF CallSound, ReadTheClock, NotAhead, Fresh, Counted, OfItsKind
    <3>. QED
      BY <2>1, <2>2, <2>4, <2>6, <3>4, MoveSound DEF Sound
  <2>8. CASE call'[c] = Idle
    BY <2>1, <2>2, <2>4, <2>6, <2>8, RestIsSound, MoveSound DEF Sound
  <2>. QED
    BY <2>3, <2>7, <2>8 DEF Idle
<1>3. ASSUME NEW c \in Calls, Acquire(c) PROVE Sound'
  <2>1. UNCHANGED <<additive, committed, generation, hour, version, folded, parked, batch>>
    BY <1>3 DEF Acquire
  <2>2. Drift
    BY <2>1 DEF Drift, TypeOK
  <2>3. CASE call'[c] = Idle /\ Moves(c)
    BY <2>1, <2>2, <2>3, RestIsSound, MoveSound DEF Sound
  <2>4. CASE Step(c, IF additive THEN "owned" ELSE "fetching")
    <3>1. (IF additive THEN "owned" ELSE "fetching") \in Locking \cup Leasing
      BY DEF Locking, Leasing
    <3>2. /\ Moves(c)
          /\ call'[c].phase = IF additive THEN "owned" ELSE "fetching"
          /\ call'[c].gen = call[c].gen /\ call'[c].now = call[c].now
          /\ call'[c].have = call[c].have /\ call'[c].cand = call[c].cand
          /\ call'[c].confirmed = call[c].confirmed
      BY <2>4, <3>1, StepMoves DEF TypeOK
    <3>3. CallSound(c)'
      BY <1>3, <2>1, <3>2
         DEF Acquire, Sound, CallSound, ReadTheClock, NotAhead, Fresh, Counted, OfItsKind
    <3>. QED
      BY <2>1, <2>2, <3>2, <3>3, MoveSound DEF Sound
  <2>. QED
    BY <1>3, <2>3, <2>4, EndMoves DEF Acquire, TypeOK
<1>4. ASSUME NEW c \in Calls, AdmissionRead(c) PROVE Sound'
  <2>1. UNCHANGED <<additive, committed, generation, hour, version, folded, parked, batch>>
    BY <1>4 DEF AdmissionRead
  <2>2. Drift
    BY <2>1 DEF Drift, TypeOK
  <2>3. CASE call'[c] = Idle /\ Moves(c)
    BY <2>1, <2>2, <2>3, RestIsSound, MoveSound DEF Sound
  <2>4. CASE Moves(c) /\ call'[c] = [call[c] EXCEPT !.phase = "admitting", !.gen = generation]
    <3>1. /\ call'[c].phase = "admitting" /\ call'[c].gen = generation
          /\ call'[c].now = call[c].now /\ call'[c].cand = call[c].cand
          /\ call'[c].confirmed = call[c].confirmed
      BY <2>4 DEF TypeOK, CallStates
    <3>2. generation <= generation
      BY DEF TypeOK
    <3>3. CallSound(c)'
      BY <1>4, <2>1, <3>1, <3>2 DEF AdmissionRead, Sound, CallSound, ReadTheClock,
         NotAhead, Fresh, Counted, OfItsKind
    <3>. QED
      BY <2>1, <2>2, <2>4, <3>3, MoveSound DEF Sound
  <2>. QED
    BY <1>4, <2>3, <2>4, AdmissionMoves
<1>5. ASSUME NEW c \in Calls, RecordAttempt(c) PROVE Sound'
  <2>1. UNCHANGED <<additive, committed, generation, hour, version, folded, parked, batch>>
    BY <1>5 DEF RecordAttempt
  <2>2. Drift
    BY <2>1 DEF Drift, TypeOK
  <2>3. CASE call'[c] = Idle /\ Moves(c)
    BY <2>1, <2>2, <2>3, RestIsSound, MoveSound DEF Sound
  <2>4. CASE Step(c, "fetching")
    <3>1. /\ Moves(c) /\ call'[c].phase = "fetching"
          /\ call'[c].gen = call[c].gen /\ call'[c].now = call[c].now
          /\ call'[c].have = call[c].have /\ call'[c].cand = call[c].cand
          /\ call'[c].confirmed = call[c].confirmed
      BY <2>4, StepMoves DEF TypeOK, Locking, Leasing
    <3>2. CallSound(c)'
      BY <1>5, <2>1, <3>1
         DEF RecordAttempt, Sound, CallSound, ReadTheClock, NotAhead, Fresh, Counted, OfItsKind
    <3>. QED
      BY <2>1, <2>2, <3>1, <3>2, MoveSound DEF Sound
  <2>. QED
    BY <1>5, <2>3, <2>4, EndMoves DEF RecordAttempt, TypeOK
<1>6. ASSUME NEW c \in Calls, Fetch(c) PROVE Sound'
  <2>1. UNCHANGED <<additive, committed, generation, hour, version, folded, parked, batch>>
    BY <1>6 DEF Fetch
  <2>2. Drift
    BY <2>1 DEF Drift, TypeOK
  <2>3. Moves(c)
    BY <1>6, FetchMoves
  <2>4. CallSound(c)'
    <3>1. hour <= hour /\ version <= version /\ version >= folded
      BY DEF TypeOK, Sound
    <3>2. /\ call'[c].phase = "fetched"
          /\ call'[c].cand.version = version /\ call'[c].cand.at = hour
          /\ call'[c].gen = call[c].gen /\ call'[c].now = call[c].now
          /\ call'[c].have = call[c].have /\ call'[c].confirmed = call[c].confirmed
      BY <1>6, FetchMoves
    <3>3. call[c].phase = "fetching" /\ CallSound(c)
      BY <1>6 DEF Fetch, Sound
    <3>. QED
      BY <2>1, <3>1, <3>2, <3>3 DEF CallSound, ReadTheClock, NotAhead, Fresh, Counted, OfItsKind
  <2>. QED
    BY <2>1, <2>2, <2>3, <2>4, MoveSound DEF Sound
<1>7. ASSUME NEW c \in Calls, Abandon(c) PROVE Sound'
  <2>1. Moves(c) /\ call'[c] = Idle /\ Drift /\ UNCHANGED <<parked, folded, version, batch>>
    BY <1>7, EndMoves DEF Abandon, Drift, TypeOK
  <2>. QED
    BY <2>1, RestIsSound, MoveSound DEF Sound, Drift
<1>8. ASSUME NEW c \in Calls, FetchFails(c) PROVE Sound'
  <2>1. UNCHANGED <<additive, committed, generation, hour, version, folded, parked, batch>>
    BY <1>8 DEF FetchFails
  <2>2. Drift
    BY <2>1 DEF Drift, TypeOK
  <2>3. Moves(c)
    BY <1>8, FailingMoves DEF FetchFails, TypeOK
  <2>4. CallSound(c)'
    <3>1. call[c].now \in 1..hour'
      BY <1>8, <2>1 DEF FetchFails, Sound, CallSound, ReadTheClock
    <3>. QED
      BY <1>8, <3>1, FailingMoves, RestIsSound DEF FetchFails, TypeOK
  <2>. QED
    BY <2>1, <2>2, <2>3, <2>4, MoveSound DEF Sound
<1>9. ASSUME NEW c \in Calls, Guard(c) PROVE Sound'
  <2>1. UNCHANGED <<additive, committed, generation, hour, version, folded, batch>>
    BY <1>9 DEF Guard
  <2>2. Drift
    BY <2>1 DEF Drift, TypeOK
  <2>3. Moves(c)
    BY <1>9, GuardMoves
  <2>4. /\ call[c].phase = "fetched" /\ CallSound(c)
        /\ call[c].now \in 1..hour
    BY <1>9 DEF Guard, Sound, CallSound, ReadTheClock
  <2>5. CASE /\ ~additive
             /\ call'[c] = [Idle EXCEPT !.phase = "failing", !.now = call[c].now]
             /\ parked' = [parked EXCEPT ![Owner[c]] =
                             {[gen |-> call[c].gen, cand |-> call[c].cand]}]
    <3>1. CallSound(c)'
      BY <2>1, <2>4, <2>5, RestIsSound
    <3>2. ASSUME NEW p \in Procs PROVE parked'[p] \subseteq parked[p] \/ ParkedSound(p)'
      <4>1. CASE p = Owner[c]
        <5>1. parked'[p] = {[gen |-> call[c].gen, cand |-> call[c].cand]}
          BY <2>5, <4>1 DEF TypeOK
        <5>. QED
          BY <2>1, <2>4, <2>5, <5>1
             DEF ParkedSound, CallSound, ReadTheClock, NotAhead, Fresh
      <4>2. CASE p # Owner[c]
        BY <2>5, <4>2 DEF TypeOK
      <4>. QED
        BY <4>1, <4>2
    <3>. QED
      BY <2>1, <2>2, <2>3, <3>1, <3>2, MoveSound DEF Sound
  <2>6. CASE /\ additive \/ ~RemovesTooMuch(call[c].have, call[c].cand)
             /\ call'[c] = [call[c] EXCEPT !.phase = "folding", !.have = {}]
             /\ parked' = parked
    <3>1. /\ call'[c].phase = "folding" /\ call'[c].gen = call[c].gen
          /\ call'[c].now = call[c].now /\ call'[c].cand = call[c].cand
          /\ call'[c].confirmed = call[c].confirmed
      BY <2>6 DEF TypeOK, CallStates
    <3>2. ASSUME ~additive, call[c].gen = generation, call[c].cand.rows = {}
          PROVE  committed \cap call[c].cand.window = {}
      <4>1. committed \subseteq call[c].have
        BY <2>4, <3>2 DEF CallSound, Counted
      <4>2. call[c].have \cap call[c].cand.window = {}
        <5>1. call[c].have \in SUBSET Rows
          BY DEF TypeOK, CallStates
        <5>. QED
          BY <2>6, <3>2, <5>1, EmptyKeepsNothing
      <4>. QED
        BY <4>1, <4>2
    <3>3. CallSound(c)'
      BY <2>1, <2>4, <3>1, <3>2
         DEF CallSound, ReadTheClock, NotAhead, Fresh, Counted, OfItsKind
    <3>. QED
      BY <2>1, <2>2, <2>3, <2>6, <3>3, MoveSound DEF Sound
  <2>. QED
    BY <1>9, <2>5, <2>6, GuardMoves
<1>10. ASSUME NEW c \in Calls, RecordFailure(c) PROVE Sound'
  <2>1. UNCHANGED <<additive, committed, generation, hour, version, folded, parked, batch>>
    BY <1>10 DEF RecordFailure
  <2>2. Drift
    BY <2>1 DEF Drift, TypeOK
  <2>3. Moves(c)
    BY <1>10, RecordFailureMoves
  <2>4. CallSound(c)'
    BY <1>10, RecordFailureMoves, RestIsSound
  <2>. QED
    BY <2>1, <2>2, <2>3, <2>4, MoveSound DEF Sound
<1>11. ASSUME NEW c \in Calls, Release(c) PROVE Sound'
  <2>1. Moves(c) /\ call'[c] = Idle /\ Drift /\ UNCHANGED <<parked, folded, version, batch>>
    BY <1>11, EndMoves DEF Release, Drift, TypeOK
  <2>. QED
    BY <2>1, RestIsSound, MoveSound DEF Sound, Drift
<1>12. ASSUME NEW c \in Calls, CredentialChanged(c) PROVE Sound'
  <2>1. UNCHANGED <<additive, committed, generation, hour, version, folded, parked, batch>>
    BY <1>12 DEF CredentialChanged
  <2>2. Drift
    BY <2>1 DEF Drift, TypeOK
  <2>3. Moves(c)
    BY <1>12, CredentialMoves
  <2>4. CallSound(c)'
    <3>1. hour \in 1..hour'
      BY <2>1 DEF TypeOK
    <3>. QED
      BY <1>12, <3>1, CredentialMoves, RestIsSound
  <2>. QED
    BY <2>1, <2>2, <2>3, <2>4, MoveSound DEF Sound
<1>13. ASSUME NEW c \in Calls, Fold(c) PROVE Sound'
  <2>1. /\ call[c].phase = "folding" /\ call[c].gen = generation
        /\ folded' = call[c].cand.version /\ generation' = generation + 1
        /\ UNCHANGED <<additive, hour, version, parked, batch>>
    BY <1>13 DEF Fold, Admissible
  <2>2. Moves(c) /\ call'[c] = Idle
    BY <1>13, EndMoves DEF Fold, TypeOK
  <2>3. Drift
    BY <2>1 DEF Drift, TypeOK
  <2>4. folded' <= version'
    BY <2>1 DEF Sound, CallSound, NotAhead
  <2>. QED
    BY <2>1, <2>2, <2>3, <2>4, RestIsSound, MoveSound DEF Sound
<1>14. ASSUME NEW c \in Calls, FoldRefused(c) PROVE Sound'
  <2>1. Moves(c) /\ call'[c] = Idle /\ Drift /\ UNCHANGED <<parked, folded, version, batch>>
    BY <1>14, EndMoves DEF FoldRefused, Drift, TypeOK
  <2>. QED
    BY <2>1, RestIsSound, MoveSound DEF Sound, Drift
<1>15. ASSUME NEW c \in Calls, AcquireForConfirmed(c) PROVE Sound'
  <2>1. UNCHANGED <<additive, committed, generation, hour, version, folded, parked, batch>>
    BY <1>15 DEF AcquireForConfirmed
  <2>2. Drift
    BY <2>1 DEF Drift, TypeOK
  <2>3. CASE call'[c] = Idle /\ Moves(c)
    BY <2>1, <2>2, <2>3, RestIsSound, MoveSound DEF Sound
  <2>4. CASE Step(c, "folding")
    <3>1. /\ Moves(c) /\ call'[c].phase = "folding"
          /\ call'[c].gen = call[c].gen /\ call'[c].now = call[c].now
          /\ call'[c].have = call[c].have /\ call'[c].cand = call[c].cand
          /\ call'[c].confirmed = call[c].confirmed
      BY <2>4, StepMoves DEF TypeOK, Locking, Leasing
    <3>2. CallSound(c)'
      BY <1>15, <2>1, <3>1
         DEF AcquireForConfirmed, Sound, CallSound, ReadTheClock, NotAhead, Fresh, Counted,
             OfItsKind
    <3>. QED
      BY <2>1, <2>2, <3>1, <3>2, MoveSound DEF Sound
  <2>. QED
    BY <1>15, <2>3, <2>4, EndMoves DEF AcquireForConfirmed, TypeOK
<1>16. ASSUME NEW c \in Calls, Panic(c) PROVE Sound'
  <2>1. Moves(c) /\ call'[c] = Idle /\ Drift /\ UNCHANGED <<parked, folded, version, batch>>
    BY <1>16, EndMoves DEF Panic, Drift, TypeOK
  <2>. QED
    BY <2>1, RestIsSound, MoveSound DEF Sound, Drift
<1>17. ASSUME NEW p \in Procs, ExpireConfirmation(p) PROVE Sound'
  <2>1. PICK k \in parked[p] : parked' = [parked EXCEPT ![p] = @ \ {k}]
    BY <1>17 DEF ExpireConfirmation
  <2>2. UNCHANGED <<additive, committed, generation, hour, version, folded, call, batch>>
    BY <1>17 DEF ExpireConfirmation
  <2>3. Drift
    BY <2>2 DEF Drift, TypeOK
  <2>4. \A q \in Procs : parked'[q] \subseteq parked[q]
    BY <2>1 DEF TypeOK
  <2>5. \A q \in Procs : ParkedSound(q)'
    BY <2>3, <2>4, ParkedStaySound DEF Sound
  <2>6. \A c \in Calls : CallSound(c)'
    BY <2>2, <2>3, OthersSound DEF Sound
  <2>. QED
    BY <2>2, <2>5, <2>6 DEF Sound
<1>18. ASSUME NEW p \in Procs, Crash(p) PROVE Sound'
  <2>1. UNCHANGED <<additive, committed, generation, hour, version, folded, batch>>
    BY <1>18 DEF Crash
  <2>2. Drift
    BY <2>1 DEF Drift, TypeOK
  <2>3. \A q \in Procs : parked'[q] \subseteq parked[q]
    BY <1>18 DEF Crash, TypeOK
  <2>4. \A q \in Procs : ParkedSound(q)'
    BY <2>2, <2>3, ParkedStaySound DEF Sound
  <2>5. ASSUME NEW c \in Calls PROVE CallSound(c)'
    BY <1>18, <2>2, CrashMoves, OthersSound, RestIsSound DEF Sound
  <2>. QED
    BY <2>1, <2>4, <2>5 DEF Sound
<1>19. ASSUME NEW p \in Procs, Reload(p) PROVE Sound'
  <2>1. UNCHANGED <<additive, committed, generation, hour, version, folded, parked, batch>>
    BY <1>19 DEF Reload
  <2>2. Drift
    BY <2>1 DEF Drift, TypeOK
  <2>3. \A q \in Procs : ParkedSound(q)'
    BY <2>1, <2>2, ParkedStaySound DEF Sound
  <2>4. ASSUME NEW c \in Calls PROVE CallSound(c)'
    <3>1. CASE call'[c] = call[c]
      BY <2>2, <3>1, OthersSound DEF Sound
    <3>2. CASE call'[c] = [call[c] EXCEPT !.have = committed]
      <4>1. /\ call'[c].phase = call[c].phase /\ call'[c].gen = call[c].gen
            /\ call'[c].now = call[c].now /\ call'[c].cand = call[c].cand
            /\ call'[c].confirmed = call[c].confirmed /\ call'[c].have = committed
        BY <3>2 DEF TypeOK, CallStates
      <4>. QED
        BY <2>1, <4>1
           DEF Sound, CallSound, ReadTheClock, NotAhead, Fresh, Counted, OfItsKind
    <3>. QED
      BY <1>19, <3>1, <3>2, ReloadMoves
  <2>. QED
    BY <2>1, <2>3, <2>4 DEF Sound
<1>20. ASSUME NEW p \in Procs, OpenBatch(p) PROVE Sound'
  BY <1>20, DriftSound DEF OpenBatch, Drift, Sound, TypeOK
<1>21. ASSUME NEW p \in Procs, ResumeBatch(p) PROVE Sound'
  BY <1>21, DriftSound DEF ResumeBatch, Drift, Sound, TypeOK
<1>22. ASSUME NEW r \in Rows, CommitDelete(r) PROVE Sound'
  BY <1>22, DriftSound DEF CommitDelete, Drift, Sound, TypeOK
<1>23. CASE ExpireLease
  BY <1>23, DriftSound DEF ExpireLease, Drift, Sound, TypeOK
<1>24. CASE Tick
  BY <1>24, DriftSound DEF Tick, Drift, Sound, TypeOK
<1>25. CASE ProviderChanges
  BY <1>25, DriftSound DEF ProviderChanges, Drift, Sound, TypeOK
<1>26. CASE LandBatch
  BY <1>26, DriftSound DEF LandBatch, Drift, Sound, TypeOK
<1>27. CASE FinishBatch
  BY <1>27, DriftSound DEF FinishBatch, Drift, Sound, TypeOK
<1>28. CASE ReconcileBatch
  BY <1>28, DriftSound DEF ReconcileBatch, Drift, Sound, TypeOK
<1>29. CASE UNCHANGED vars
  BY <1>29, DriftSound DEF vars, Drift, Sound, TypeOK
<1>. QED
  BY <1>1, <1>2, <1>3, <1>4, <1>5, <1>6, <1>7, <1>8, <1>9, <1>10, <1>11, <1>12, <1>13, <1>14,
     <1>15, <1>16, <1>17, <1>18, <1>19, <1>20, <1>21, <1>22, <1>23, <1>24, <1>25, <1>26, <1>27,
     <1>28, <1>29
     DEF Next, Refresh

--------------------------------------------------------------------------------
(* SimpleFIN's hour.                                                         *)

\* The clock and the stored times are numbers.
LEMMA TimesTyped ==
  ASSUME TypeOK
  PROVE  /\ hour \in Int /\ lastAttempt \in Int /\ nextEligible \in Int /\ Floor \in Int
         /\ \A a \in admitted : a \in Int
         /\ \A c \in Calls : call[c].now \in Int /\ call[c].cand.at \in Int
  BY RefreshAssumption DEF TypeOK, Hours, Floor, CallStates, Candidates

\* A call that does not move, and does not get the lease, stays spaced from the same reads.
LEMMA OthersSpaced ==
  ASSUME NEW c \in Calls, CallSpaced(c), call'[c] = call[c],
         HoldsRow(Owner[c])' => HoldsRow(Owner[c]) /\ admitted' = admitted
  PROVE  CallSpaced(c)'
  BY DEF CallSpaced

\* A move of one call that changes neither the reads so far nor when the next one may be.
LEMMA MoveSpaced ==
  ASSUME TypeOK, TypeOK', Spaced, additive, NEW c \in Calls, Moves(c), CallSpaced(c)',
         UNCHANGED <<additive, hour, lastAttempt, nextEligible, admitted>>,
         \A d \in Calls \ {c} : HoldsRow(Owner[d])' => HoldsRow(Owner[d])
  PROVE  Spaced'
<1>1. Floor' = Floor
  BY DEF Floor
<1>2. \A d \in Calls : CallSpaced(d)'
  BY OthersSpaced DEF Spaced, Moves
<1>. QED
  BY <1>1, <1>2 DEF Spaced

\* A step in which no call moves or gets the lease.
LEMMA RestSpaced ==
  ASSUME TypeOK, TypeOK', Spaced, additive,
         \A c \in Calls : call'[c] = call[c] \/ CallSpaced(c)',
         UNCHANGED <<additive, lastAttempt, nextEligible, admitted>>, hour <= hour',
         \A d \in Calls : HoldsRow(Owner[d])' => HoldsRow(Owner[d])
  PROVE  Spaced'
<1>1. Floor' = Floor
  BY DEF Floor
<1>2. \A d \in Calls : CallSpaced(d)'
  BY OthersSpaced DEF Spaced
<1>3. hour \in Int /\ hour' \in Int /\ \A a \in admitted : a \in Int
  BY TimesTyped DEF TypeOK
<1>. QED
  BY <1>1, <1>2, <1>3 DEF Spaced

\* Giving the lease back gives it to nobody.
LEMMA ReleasedHoldsNothing ==
  ASSUME NEW p, lease' = Released(p) \/ lease' = lease
  PROVE  \A c \in Calls : HoldsRow(Owner[c])' => HoldsRow(Owner[c])
  BY DEF Released, HoldsRow, NoLease

\* A call that is idle or starting is spaced from anything.
LEMMA QuietSpaced ==
  ASSUME NEW c \in Calls,
         call'[c].phase \in {"idle", "ready", "owned", "confirming", "recorded"}
  PROVE  CallSpaced(c)'
  BY DEF CallSpaced

\* What kind of provider a profile has never changes.
LEMMA KindKept == [Next]_vars => additive' = additive
  BY DEF Next, Refresh, Start, TakeConfirmation, Acquire, AdmissionRead, RecordAttempt, Fetch,
     Abandon, FetchFails, Guard, RecordFailure, Release, CredentialChanged, Fold, FoldRefused,
     AcquireForConfirmed, Panic, ExpireConfirmation, Crash, Reload, OpenBatch, ResumeBatch,
     CommitDelete, ExpireLease, Tick, ProviderChanges, LandBatch, FinishBatch, ReconcileBatch,
     vars

\* Every step of a SimpleFIN profile keeps its reads apart.
LEMMA SpacedStep ==
  ASSUME OneCallPerProcess, TypeOK, TypeOK', Sound, Spaced, [Next]_vars
  PROVE  Spaced'
<1> SUFFICES ASSUME additive PROVE Spaced'
  BY KindKept DEF Spaced
<1> USE DEF stored, remote, local, ghost
<1>1. ASSUME NEW c \in Calls, Start(c) PROVE Spaced'
  <2>1. Moves(c) /\ call'[c].phase = "ready"
    BY <1>1, StartMoves DEF Idle
  <2>2. UNCHANGED <<additive, hour, lastAttempt, nextEligible, admitted>> /\ lease' = lease
    BY <1>1 DEF Start
  <2>. QED
    BY <2>1, <2>2, QuietSpaced, MoveSpaced DEF HoldsRow
<1>2. ASSUME NEW c \in Calls, TakeConfirmation(c) PROVE Spaced'
  <2>1. Moves(c) /\ call'[c].phase \in {"idle", "confirming"}
    BY <1>2, ConfirmationMoves
  <2>2. UNCHANGED <<additive, hour, lastAttempt, nextEligible, admitted>> /\ lease' = lease
    BY <1>2 DEF TakeConfirmation
  <2>. QED
    BY <2>1, <2>2, QuietSpaced, MoveSpaced DEF HoldsRow
<1>3. ASSUME NEW c \in Calls, Acquire(c) PROVE Spaced'
  <2>1. Moves(c) /\ call'[c].phase \in {"idle", "owned"}
    BY <1>3, StepMoves, EndMoves DEF Acquire, TypeOK, Idle, Locking
  <2>2. UNCHANGED <<additive, hour, lastAttempt, nextEligible, admitted>>
    BY <1>3 DEF Acquire
  <2>3. \A d \in Calls \ {c} : HoldsRow(Owner[d])' => HoldsRow(Owner[d])
    BY <1>3 DEF Acquire, HoldsRow, LeaseOf, OneCallPerProcess
  <2>. QED
    BY <2>1, <2>2, <2>3, QuietSpaced, MoveSpaced
<1>4. ASSUME NEW c \in Calls, AdmissionRead(c) PROVE Spaced'
  <2>1. Moves(c)
    BY <1>4, AdmissionMoves
  <2>2. UNCHANGED <<additive, hour, lastAttempt, nextEligible, admitted>>
    BY <1>4 DEF AdmissionRead
  <2>3. \A d \in Calls \ {c} : HoldsRow(Owner[d])' => HoldsRow(Owner[d])
    BY <1>4, AdmissionMoves, ReleasedHoldsNothing
  <2>4. CASE call'[c] = Idle
    BY <2>1, <2>2, <2>3, <2>4, QuietSpaced, MoveSpaced DEF Idle
  <2>5. CASE /\ Floor <= call[c].now
             /\ call'[c] = [call[c] EXCEPT !.phase = "admitting", !.gen = generation]
    <3>1. call'[c].phase = "admitting" /\ call'[c].now = call[c].now
      BY <2>5 DEF TypeOK, CallStates
    <3>2. \A a \in admitted : a < call[c].now
      BY <2>5, TimesTyped DEF Spaced
    <3>3. CallSpaced(c)'
      BY <2>2, <3>1, <3>2 DEF CallSpaced
    <3>. QED
      BY <2>1, <2>2, <2>3, <3>3, MoveSpaced
  <2>. QED
    BY <1>4, <2>4, <2>5, AdmissionMoves
<1>5. ASSUME NEW c \in Calls, RecordAttempt(c) PROVE Spaced'
  <2>1. CASE HoldsRow(Owner[c])
    <3>1. /\ lastAttempt' = call[c].now /\ nextEligible' = call[c].now + 1
          /\ admitted' = admitted \cup {call[c].now} /\ Step(c, "fetching")
          /\ UNCHANGED <<additive, hour, lease>> /\ call[c].phase = "admitting"
      BY <1>5, <2>1 DEF RecordAttempt
    <3>2. Moves(c) /\ call'[c].phase = "fetching" /\ call'[c].now = call[c].now
      BY <3>1, StepMoves DEF TypeOK, Leasing
    <3>3. \A a \in admitted : a < call[c].now
      BY <2>1, <3>1 DEF Spaced, CallSpaced
    <3>4. call[c].now \in 1..hour
      BY <3>1 DEF Sound, CallSound, ReadTheClock
    <3>5. Floor' = call[c].now + 1
      BY <3>1, <3>4, TimesTyped DEF Floor
    <3>6. \A a \in admitted' : a <= hour' /\ a < Floor' /\ a <= call'[c].now
      BY <3>1, <3>2, <3>3, <3>4, <3>5, TimesTyped DEF Spaced
    <3>7. CallSpaced(c)'
      BY <3>2, <3>6 DEF CallSpaced
    <3>8. ASSUME NEW d \in Calls \ {c} PROVE CallSpaced(d)'
      <4>1. ~HoldsRow(Owner[d])'
        BY <2>1, <3>1 DEF HoldsRow, OneCallPerProcess
      <4>. QED
        BY <3>2, <4>1, OthersSpaced DEF Spaced, Moves
    <3>. QED
      BY <3>6, <3>7, <3>8 DEF Spaced
  <2>2. CASE ~HoldsRow(Owner[c])
    <3>1. Moves(c) /\ call'[c].phase = "idle"
      BY <1>5, <2>2, EndMoves DEF RecordAttempt, TypeOK, Idle
    <3>2. UNCHANGED <<additive, hour, lastAttempt, nextEligible, admitted>> /\ lease' = lease
      BY <1>5, <2>2 DEF RecordAttempt
    <3>. QED
      BY <3>1, <3>2, QuietSpaced, MoveSpaced DEF HoldsRow
  <2>. QED
    BY <2>1, <2>2
<1>6. ASSUME NEW c \in Calls, Fetch(c) PROVE Spaced'
  <2>1. UNCHANGED <<additive, hour, lastAttempt, nextEligible, admitted>> /\ lease' = lease /\
      call[c].phase = "fetching"
    BY <1>6 DEF Fetch
  <2>2. /\ Moves(c) /\ call'[c].phase = "fetched"
        /\ call'[c].cand.at = hour /\ call'[c].now = call[c].now
    BY <1>6, FetchMoves
  <2>3. call[c].now <= hour
    BY <2>1, TimesTyped DEF Sound, CallSound, ReadTheClock
  <2>4. CallSpaced(c)'
    BY <2>1, <2>2, <2>3 DEF Spaced, CallSpaced, HoldsRow
  <2>. QED
    BY <2>1, <2>2, <2>4, MoveSpaced DEF HoldsRow
<1>7. ASSUME NEW c \in Calls, Abandon(c) PROVE Spaced'
  <2>1. Moves(c) /\ call'[c].phase = "idle"
    BY <1>7, EndMoves DEF Abandon, TypeOK, Idle
  <2>2. UNCHANGED <<additive, hour, lastAttempt, nextEligible, admitted>>
    BY <1>7 DEF Abandon
  <2>3. \A d \in Calls \ {c} : HoldsRow(Owner[d])' => HoldsRow(Owner[d])
    BY <1>7, ReleasedHoldsNothing DEF Abandon
  <2>. QED
    BY <2>1, <2>2, <2>3, QuietSpaced, MoveSpaced
<1>8. ASSUME NEW c \in Calls, FetchFails(c) PROVE Spaced'
  <2>1. UNCHANGED <<additive, hour, lastAttempt, nextEligible, admitted>> /\ lease' = lease /\
      call[c].phase = "fetching"
    BY <1>8 DEF FetchFails
  <2>2. Moves(c) /\ call'[c].phase = "failing" /\ call'[c].now = call[c].now
    BY <1>8, FailingMoves DEF FetchFails, TypeOK, Idle
  <2>3. CallSpaced(c)'
    BY <2>1, <2>2 DEF Spaced, CallSpaced, HoldsRow
  <2>. QED
    BY <2>1, <2>2, <2>3, MoveSpaced DEF HoldsRow
<1>9. ASSUME NEW c \in Calls, Guard(c) PROVE Spaced'
  <2>1. UNCHANGED <<additive, hour, lastAttempt, nextEligible, admitted>> /\ lease' = lease /\
      call[c].phase = "fetched"
    BY <1>9 DEF Guard
  <2>2. Moves(c) /\ call'[c] = [call[c] EXCEPT !.phase = "folding", !.have = {}]
    BY <1>9, GuardMoves
  <2>3. /\ call'[c].phase = "folding" /\ call'[c].now = call[c].now
        /\ call'[c].cand = call[c].cand
    BY <2>2 DEF TypeOK, CallStates
  <2>4. CallSpaced(c)'
    BY <2>1, <2>3 DEF Spaced, CallSpaced, HoldsRow
  <2>. QED
    BY <2>1, <2>2, <2>4, MoveSpaced DEF HoldsRow
<1>10. ASSUME NEW c \in Calls, RecordFailure(c) PROVE Spaced'
  <2>1. Moves(c) /\ call'[c].phase = "recorded"
    BY <1>10, RecordFailureMoves DEF Idle
  <2>2. call[c].phase = "failing" /\ UNCHANGED <<additive, hour, admitted, lease>>
    BY <1>10 DEF RecordFailure
  <2>3. CASE HoldsRow(Owner[c])
    <3>1. lastAttempt' = call[c].now
      BY <1>10, <2>3 DEF RecordFailure
    <3>2. nextEligible' >= call[c].now + 1
      <4>1. PICK eligible \in {0} \cup (hour + 1 .. hour + 2) :
              nextEligible' = IF eligible < call[c].now + 1
                              THEN call[c].now + 1 ELSE eligible
        BY <1>10, <2>3 DEF RecordFailure
      <4>. QED
        BY <4>1, TimesTyped
    <3>3. \A a \in admitted : a <= call[c].now
      BY <2>2, <2>3 DEF Spaced, CallSpaced
    <3>4. Floor' >= call[c].now + 1
      <4>1. nextEligible' \in Int /\ call[c].now \in Int
        BY TimesTyped DEF TypeOK, Hours
      <4>. QED
        BY <3>1, <3>2, <4>1 DEF Floor
    <3>5. Floor' \in Int
      BY RefreshAssumption DEF TypeOK, Hours, Floor
    <3>6. \A a \in admitted' : a <= hour' /\ a < Floor'
      BY <2>2, <3>3, <3>4, <3>5, TimesTyped DEF Spaced
    <3>7. \A d \in Calls : CallSpaced(d)'
      BY <2>1, <2>2, QuietSpaced, OthersSpaced DEF Spaced, Moves, HoldsRow
    <3>. QED
      BY <3>6, <3>7 DEF Spaced
  <2>4. CASE ~HoldsRow(Owner[c])
    BY <1>10, <2>1, <2>2, <2>4, QuietSpaced, MoveSpaced DEF RecordFailure, HoldsRow
  <2>. QED
    BY <2>3, <2>4
<1>11. ASSUME NEW c \in Calls, Release(c) PROVE Spaced'
  <2>1. Moves(c) /\ call'[c].phase = "idle"
    BY <1>11, EndMoves DEF Release, TypeOK, Idle
  <2>2. UNCHANGED <<additive, hour, lastAttempt, nextEligible, admitted>>
    BY <1>11 DEF Release
  <2>3. \A d \in Calls \ {c} : HoldsRow(Owner[d])' => HoldsRow(Owner[d])
    BY <1>11, ReleasedHoldsNothing DEF Release
  <2>. QED
    BY <2>1, <2>2, <2>3, QuietSpaced, MoveSpaced
<1>12. ASSUME NEW c \in Calls, CredentialChanged(c) PROVE Spaced'
  <2>1. UNCHANGED <<additive, hour, lastAttempt, nextEligible, admitted>> /\ lease' = lease
    BY <1>12 DEF CredentialChanged
  <2>2. Moves(c) /\ call'[c].phase = "failing" /\ call'[c].now = hour
    BY <1>12, CredentialMoves DEF Idle
  <2>3. CallSpaced(c)'
    BY <2>1, <2>2 DEF Spaced, CallSpaced
  <2>. QED
    BY <2>1, <2>2, <2>3, MoveSpaced DEF HoldsRow
<1>13. ASSUME NEW c \in Calls, Fold(c) PROVE Spaced'
  <2>1. /\ call[c].phase = "folding" /\ HoldsRow(Owner[c])
        /\ lastAttempt' = call[c].cand.at /\ nextEligible' = 0 /\ lease' = NoLease
        /\ UNCHANGED <<additive, hour, admitted>>
    BY <1>13 DEF Fold, Admissible
  <2>2. Moves(c) /\ call'[c].phase = "idle"
    BY <1>13, EndMoves DEF Fold, TypeOK, Idle
  <2>3. \A a \in admitted : a <= call[c].cand.at
    BY <2>1, TimesTyped DEF Spaced, CallSpaced
  <2>4. 1 <= call[c].cand.at
    BY <2>1, TimesTyped DEF Spaced, CallSpaced, Sound, CallSound, ReadTheClock
  <2>5. Floor' = call[c].cand.at + 1
    BY <2>1, <2>4, TimesTyped DEF Floor
  <2>6. \A a \in admitted' : a <= hour' /\ a < Floor'
    BY <2>1, <2>3, <2>5, TimesTyped DEF Spaced
  <2>7. \A d \in Calls : ~HoldsRow(Owner[d])'
    BY <2>1 DEF HoldsRow, NoLease
  <2>8. \A d \in Calls : CallSpaced(d)'
    BY <2>2, <2>7, QuietSpaced, OthersSpaced DEF Spaced, Moves
  <2>. QED
    BY <2>6, <2>8 DEF Spaced
<1>14. ASSUME NEW c \in Calls, FoldRefused(c) PROVE Spaced'
  <2>1. Moves(c) /\ call'[c].phase = "idle"
    BY <1>14, EndMoves DEF FoldRefused, TypeOK, Idle
  <2>2. UNCHANGED <<additive, hour, lastAttempt, nextEligible, admitted>>
    BY <1>14 DEF FoldRefused
  <2>3. \A d \in Calls \ {c} : HoldsRow(Owner[d])' => HoldsRow(Owner[d])
    BY <1>14, ReleasedHoldsNothing DEF FoldRefused
  <2>. QED
    BY <2>1, <2>2, <2>3, QuietSpaced, MoveSpaced
<1>15. ASSUME NEW c \in Calls, AcquireForConfirmed(c) PROVE Spaced'
  BY <1>15 DEF AcquireForConfirmed, Sound, CallSound, OfItsKind
<1>16. ASSUME NEW c \in Calls, Panic(c) PROVE Spaced'
  <2>1. Moves(c) /\ call'[c].phase = "idle"
    BY <1>16, EndMoves DEF Panic, TypeOK, Idle
  <2>2. UNCHANGED <<additive, hour, lastAttempt, nextEligible, admitted>>
    BY <1>16 DEF Panic
  <2>3. \A d \in Calls \ {c} : HoldsRow(Owner[d])' => HoldsRow(Owner[d])
    BY <1>16, ReleasedHoldsNothing DEF Panic
  <2>. QED
    BY <2>1, <2>2, <2>3, QuietSpaced, MoveSpaced
<1>17. ASSUME NEW p \in Procs, ExpireConfirmation(p) PROVE Spaced'
  BY <1>17, RestSpaced DEF ExpireConfirmation, HoldsRow, TypeOK
<1>18. ASSUME NEW p \in Procs, Crash(p) PROVE Spaced'
  <2>1. UNCHANGED <<additive, hour, lastAttempt, nextEligible, admitted>>
    BY <1>18 DEF Crash
  <2>2. \A d \in Calls : HoldsRow(Owner[d])' => HoldsRow(Owner[d])
    BY <1>18, RefreshAssumption DEF Crash, HoldsRow, TypeOK, LeaseRows
  <2>3. \A c \in Calls : call'[c] = call[c] \/ CallSpaced(c)'
    BY <1>18, CrashMoves, QuietSpaced DEF Idle
  <2>. QED
    BY <2>1, <2>2, <2>3, RestSpaced DEF TypeOK
<1>19. ASSUME NEW p \in Procs, Reload(p) PROVE Spaced'
  <2>1. UNCHANGED <<additive, hour, lastAttempt, nextEligible, admitted, lease>>
    BY <1>19 DEF Reload
  <2>2. ASSUME NEW c \in Calls PROVE call'[c] = call[c] \/ CallSpaced(c)'
    <3>1. CASE call'[c] = [call[c] EXCEPT !.have = committed]
      <4>1. /\ call'[c].phase = call[c].phase /\ call'[c].now = call[c].now
            /\ call'[c].cand = call[c].cand
        BY <3>1 DEF TypeOK, CallStates
      <4>. QED
        BY <2>1, <4>1 DEF Spaced, CallSpaced, HoldsRow
    <3>. QED
      BY <1>19, <3>1, ReloadMoves
  <2>. QED
    BY <2>1, <2>2, RestSpaced DEF HoldsRow, TypeOK
<1>20. ASSUME NEW p \in Procs, OpenBatch(p) PROVE Spaced'
  BY <1>20, RestSpaced DEF OpenBatch, HoldsRow, LeaseOf, NoLease, TypeOK
<1>21. ASSUME NEW p \in Procs, ResumeBatch(p) PROVE Spaced'
  BY <1>21, RestSpaced DEF ResumeBatch, HoldsRow, LeaseOf, NoLease, TypeOK
<1>22. ASSUME NEW r \in Rows, CommitDelete(r) PROVE Spaced'
  BY <1>22, RestSpaced DEF CommitDelete, HoldsRow, LeaseOf, NoLease, TypeOK
<1>23. CASE ExpireLease
  BY <1>23, RestSpaced DEF ExpireLease, HoldsRow, LeaseOf, NoLease, TypeOK
<1>24. CASE Tick
  BY <1>24, RestSpaced DEF Tick, HoldsRow, LeaseOf, NoLease, TypeOK
<1>25. CASE ProviderChanges
  BY <1>25, RestSpaced DEF ProviderChanges, HoldsRow, LeaseOf, NoLease, TypeOK
<1>26. CASE LandBatch
  BY <1>26, RestSpaced DEF LandBatch, HoldsRow, LeaseOf, NoLease, TypeOK
<1>27. CASE FinishBatch
  BY <1>27, RestSpaced DEF FinishBatch, HoldsRow, LeaseOf, NoLease, TypeOK
<1>28. CASE ReconcileBatch
  BY <1>28 DEF ReconcileBatch, Sound
<1>29. CASE UNCHANGED vars
  BY <1>29, RestSpaced DEF vars, HoldsRow, TypeOK
<1>. QED
  BY <1>1, <1>2, <1>3, <1>4, <1>5, <1>6, <1>7, <1>8, <1>9, <1>10, <1>11, <1>12, <1>13, <1>14,
     <1>15, <1>16, <1>17, <1>18, <1>19, <1>20, <1>21, <1>22, <1>23, <1>24, <1>25, <1>26, <1>27,
     <1>28, <1>29
     DEF Next, Refresh

--------------------------------------------------------------------------------
(* Theorems.                                                                 *)

\* The types and Sound hold in every state.
LEMMA Invariance == Spec => [](TypeOK /\ Sound)
<1>1. Init => TypeOK /\ Sound
  BY InitTyped, InitSound
<1>2. TypeOK /\ Sound /\ [Next]_vars => TypeOK' /\ Sound'
  BY TypeStep, SoundStep
<1>. QED
  BY <1>1, <1>2, PTL DEF Spec

\* Every variable keeps its shape, whatever the calls, leases, candidates and hours.
THEOREM ShapesHold == Spec => []TypeOK
  BY Invariance, PTL

\* However a refresh call of a living process ends, its lease does not stay behind
\* (releaseProviderLease, releaseLeaseOnPanic), even when calls of one process overlap.
THEOREM LeaseComesBack == Spec => []NoStrandedLease
<1>1. Init => NoStrandedLease
  BY DEF Init, NoStrandedLease, NoLease
<1>2. TypeOK /\ NoStrandedLease /\ [Next]_vars => NoStrandedLease'
  BY LeaseStep
<1>. QED
  BY <1>1, <1>2, ShapesHold, PTL DEF Spec

\* The stored generation changes by a fold, or by the reconciliation of a batch.
LEMMA OnlyFolds ==
  ASSUME TypeOK, [Next]_vars, Folds
  PROVE  (\E c \in Calls : Fold(c)) \/ ReconcileBatch
  BY DEF Next, Refresh, Start, TakeConfirmation, Acquire, AdmissionRead, RecordAttempt, Fetch,
     Abandon, FetchFails, Guard, RecordFailure, Release, CredentialChanged, FoldRefused,
     AcquireForConfirmed, Panic, ExpireConfirmation, Crash, Reload, OpenBatch, ResumeBatch,
     CommitDelete, ExpireLease, Tick, ProviderChanges, LandBatch, FinishBatch, vars, stored,
     Folds

\* A fold's candidate is of the stored generation, so it is not older than the last one.
LEMMA FoldMovesForward ==
  ASSUME TypeOK, Sound, [Next]_vars, Folds
  PROVE  folded' >= folded
<1>1. CASE ReconcileBatch
  BY <1>1 DEF ReconcileBatch, Sound, TypeOK
<1>2. ASSUME NEW c \in Calls, Fold(c) PROVE folded' >= folded
  BY <1>2 DEF Fold, Admissible, Sound, CallSound, Fresh
<1>. QED
  BY <1>1, <1>2, OnlyFolds

\* A fold that stores no rows in place of some was confirmed: the guard had counted them.
LEMMA FoldIsGuarded ==
  ASSUME TypeOK, Sound, [Next]_vars, Folds, ~additive, NEW c \in Calls,
         call[c].phase = "folding", call'[c] = Idle, committed # {}, committed' = {}
  PROVE  call[c].confirmed
<1>1. call'[c] # call[c]
  BY DEF Idle
<1>2. CASE ReconcileBatch
  BY <1>1, <1>2 DEF ReconcileBatch, local
<1>3. ASSUME NEW d \in Calls, Fold(d) PROVE call[c].confirmed
  <2>1. d = c
    BY <1>1, <1>3, EndMoves DEF Fold, TypeOK, Moves
  <2>2. call[c].gen = generation /\ committed' = Merged(call[c].cand)
    BY <1>3, <2>1 DEF Fold, Admissible
  <2>3. call[c].cand.rows = {} /\ committed \subseteq call[c].cand.window
    BY <2>2 DEF Merged
  <2>4. ~call[c].confirmed => committed \cap call[c].cand.window = {}
    BY <2>2, <2>3 DEF Sound, CallSound, Counted
  <2>. QED
    BY <2>3, <2>4
<1>. QED
  BY <1>2, <1>3, OnlyFolds

\* A SimpleFIN fold adds only rows whose identity is unknown.
LEMMA NothingReturns ==
  ASSUME TypeOK, Sound, [Next]_vars, additive
  PROVE  committed' \cap (known \ committed) = {}
<1>1. CASE Folds
  <2>1. ~ReconcileBatch
    BY DEF ReconcileBatch, Sound
  <2>2. PICK c \in Calls : Fold(c)
    BY <1>1, <2>1, OnlyFolds
  <2>. QED
    BY <2>2 DEF Fold, Merged
<1>2. CASE ~Folds
  <2>1. committed' \subseteq committed
    <3>1. ASSUME NEW c \in Calls, Fold(c) PROVE FALSE
      BY <1>2, <3>1 DEF Fold, Folds, TypeOK
    <3>2. ASSUME ReconcileBatch PROVE FALSE
      BY <3>2 DEF ReconcileBatch, Sound
    <3>. QED
      BY <3>1, <3>2 DEF Next, Refresh, Start, TakeConfirmation, Acquire, AdmissionRead,
         RecordAttempt, Fetch, Abandon, FetchFails, Guard, RecordFailure, Release,
         CredentialChanged, FoldRefused, AcquireForConfirmed, Panic, ExpireConfirmation,
         Crash, Reload, OpenBatch, ResumeBatch, CommitDelete, ExpireLease, Tick,
         ProviderChanges, LandBatch, FinishBatch, vars, stored
  <2>. QED
    BY <2>1
<1>. QED
  BY <1>1, <1>2

\* Whatever calls, leases, confirmations and batches overlap, a fold never stores data older than
\* what was stored, never drops every row unconfirmed, and never brings a deleted row back.
THEOREM FoldsHold == Spec => FoldsAreSafe
<1>1. TypeOK /\ Sound /\ [Next]_vars => [Folds => folded' >= folded]_vars
  BY FoldMovesForward
<1>2. TypeOK /\ Sound /\ [Next]_vars =>
        [\A c \in Calls :
           ~additive /\ Folds /\ call[c].phase = "folding" /\ call'[c] = Idle
           /\ committed # {} /\ committed' = {} => call[c].confirmed]_vars
  BY FoldIsGuarded
<1>3. TypeOK /\ Sound /\ [Next]_vars =>
        [additive => committed' \cap (known \ committed) = {}]_vars
  BY NothingReturns
<1>. QED
  BY <1>1, <1>2, <1>3, Invariance, PTL
     DEF Spec, FoldsAreSafe, FoldsMoveForward, GuardedDeletion, DeletedStaysDeleted

\* Only RecordRefreshAttempt admits a waiting call, and only under the lease row.
LEMMA OnlyRecordAdmits ==
  ASSUME TypeOK, [Next]_vars, NEW e \in Calls,
         call[e].phase = "admitting", call'[e].phase = "fetching"
  PROVE  HoldsRow(Owner[e])
<1> USE DEF stored, remote, local, ghost
<1>1. ASSUME NEW c \in Calls, Start(c) PROVE HoldsRow(Owner[e])
  BY <1>1, StartMoves DEF Start, Moves, Idle
<1>2. ASSUME NEW c \in Calls, TakeConfirmation(c) PROVE HoldsRow(Owner[e])
  BY <1>2, ConfirmationMoves DEF TakeConfirmation, TypeOK, Moves
<1>3. ASSUME NEW c \in Calls, Acquire(c) PROVE HoldsRow(Owner[e])
  BY <1>3, EndMoves, StepMoves DEF Acquire, TypeOK, Moves, Idle, Leasing, Locking
<1>4. ASSUME NEW c \in Calls, AdmissionRead(c) PROVE HoldsRow(Owner[e])
  BY <1>4, AdmissionMoves DEF AdmissionRead, Moves, Idle
<1>5. ASSUME NEW c \in Calls, RecordAttempt(c) PROVE HoldsRow(Owner[e])
  BY <1>5, EndMoves, StepMoves DEF RecordAttempt, TypeOK, Moves, Idle, Leasing
<1>6. ASSUME NEW c \in Calls, Fetch(c) PROVE HoldsRow(Owner[e])
  BY <1>6, FetchMoves DEF Fetch, TypeOK, Moves
<1>7. ASSUME NEW c \in Calls, Abandon(c) PROVE HoldsRow(Owner[e])
  BY <1>7, EndMoves DEF Abandon, TypeOK, Moves, Idle
<1>8. ASSUME NEW c \in Calls, FetchFails(c) PROVE HoldsRow(Owner[e])
  BY <1>8, FailingMoves DEF FetchFails, TypeOK, Moves
<1>9. ASSUME NEW c \in Calls, Guard(c) PROVE HoldsRow(Owner[e])
  BY <1>9, GuardMoves DEF Guard, TypeOK, Moves
<1>10. ASSUME NEW c \in Calls, RecordFailure(c) PROVE HoldsRow(Owner[e])
  BY <1>10, RecordFailureMoves DEF RecordFailure, Moves, Idle
<1>11. ASSUME NEW c \in Calls, Release(c) PROVE HoldsRow(Owner[e])
  BY <1>11, EndMoves DEF Release, TypeOK, Moves, Idle
<1>12. ASSUME NEW c \in Calls, CredentialChanged(c) PROVE HoldsRow(Owner[e])
  BY <1>12, CredentialMoves DEF CredentialChanged, Moves, Idle
<1>13. ASSUME NEW c \in Calls, Fold(c) PROVE HoldsRow(Owner[e])
  BY <1>13, EndMoves DEF Fold, TypeOK, Moves, Idle
<1>14. ASSUME NEW c \in Calls, FoldRefused(c) PROVE HoldsRow(Owner[e])
  BY <1>14, EndMoves DEF FoldRefused, TypeOK, Moves, Idle
<1>15. ASSUME NEW c \in Calls, AcquireForConfirmed(c) PROVE HoldsRow(Owner[e])
  BY <1>15, EndMoves, StepMoves DEF AcquireForConfirmed, TypeOK, Moves, Idle, Leasing, Locking
<1>16. ASSUME NEW c \in Calls, Panic(c) PROVE HoldsRow(Owner[e])
  BY <1>16, EndMoves DEF Panic, TypeOK, Moves, Idle
<1>17. ASSUME NEW p \in Procs, ExpireConfirmation(p) PROVE HoldsRow(Owner[e])
  BY <1>17 DEF ExpireConfirmation
<1>18. ASSUME NEW p \in Procs, Crash(p) PROVE HoldsRow(Owner[e])
  BY <1>18, CrashMoves DEF Crash, Idle
<1>19. ASSUME NEW p \in Procs, Reload(p) PROVE HoldsRow(Owner[e])
  <2>1. call'[e].phase = call[e].phase
    BY <1>19, ReloadMoves DEF TypeOK, CallStates
  <2>. QED
    BY <2>1
<1>20. ASSUME NEW p \in Procs, OpenBatch(p) PROVE HoldsRow(Owner[e])
  BY <1>20 DEF OpenBatch
<1>21. ASSUME NEW p \in Procs, ResumeBatch(p) PROVE HoldsRow(Owner[e])
  BY <1>21 DEF ResumeBatch
<1>22. ASSUME NEW r \in Rows, CommitDelete(r) PROVE HoldsRow(Owner[e])
  BY <1>22 DEF CommitDelete
<1>23. CASE ExpireLease
  BY <1>23 DEF ExpireLease
<1>24. CASE Tick
  BY <1>24 DEF Tick
<1>25. CASE ProviderChanges
  BY <1>25 DEF ProviderChanges
<1>26. CASE LandBatch
  BY <1>26 DEF LandBatch
<1>27. CASE FinishBatch
  BY <1>27 DEF FinishBatch
<1>28. CASE ReconcileBatch
  BY <1>28 DEF ReconcileBatch
<1>29. CASE UNCHANGED vars
  BY <1>29 DEF vars
<1>. QED
  BY <1>1, <1>2, <1>3, <1>4, <1>5, <1>6, <1>7, <1>8, <1>9, <1>10, <1>11, <1>12, <1>13, <1>14,
     <1>15, <1>16, <1>17, <1>18, <1>19, <1>20, <1>21, <1>22, <1>23, <1>24, <1>25, <1>26, <1>27,
     <1>28, <1>29
     DEF Next, Refresh

\* While a process runs one refresh at a time, SimpleFIN is asked at most once an hour, across
\* processes, leases that run out, crashes, failures and successes.
THEOREM QuotaHolds == OneCallPerProcess => (Spec => QuotaKept)
<1> SUFFICES ASSUME OneCallPerProcess PROVE Spec => QuotaKept
  OBVIOUS
<1>1. Init => Spaced
  <2>1. Init => \A c \in Calls : CallSpaced(c)
    BY DEF Init, CallSpaced, Idle
  <2>. QED
    BY <2>1 DEF Init, Spaced
<1>2. TypeOK /\ Sound /\ TypeOK' /\ Spaced /\ [Next]_vars => Spaced'
  BY SpacedStep
<1>3. Spec => []Spaced
  BY <1>1, <1>2, Invariance, PTL DEF Spec
<1>4. TypeOK /\ Sound /\ Spaced /\ [Next]_vars =>
        [\A c \in Calls :
           additive /\ call[c].phase = "admitting" /\ call'[c].phase = "fetching"
           => call[c].now \notin admitted]_vars
  <2> SUFFICES ASSUME TypeOK, Sound, Spaced, [Next]_vars, NEW c \in Calls, additive,
                      call[c].phase = "admitting", call'[c].phase = "fetching"
               PROVE  call[c].now \notin admitted
    OBVIOUS
  <2>1. HoldsRow(Owner[c])
    BY OnlyRecordAdmits
  <2>. QED
    BY <2>1, TimesTyped DEF Spaced, CallSpaced
<1>. QED
  BY <1>3, <1>4, Invariance, PTL DEF Spec, QuotaKept
================================================================================
