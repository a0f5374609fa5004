------------------------------ MODULE Onboarding -------------------------------
(***************************************************************************)
(* Connecting a profile to Monarch or YNAB.                                *)
(*                                                                          *)
(* An attempt goes from one answer of the user to the next; the work        *)
(* between them is a job, a goroutine that takes the coordinator's mutex    *)
(* for each of its looks at the attempt.  The attempt's flow owns a lease   *)
(* on the profile and the profile's provider-connect lock.  Cancel,         *)
(* CancelProfile, Close and the idle reaper end attempts under running      *)
(* jobs, and some of their callers stop waiting.                            *)
(*                                                                          *)
(* Sources: attempts.go, flow.go, authenticate.go, import.go, ynab_flow.go  *)
(* and the drivers of internal/onboarding.  Versions only refuse a Submit   *)
(* whose presenter saw an older state, and are left out.                    *)
(***************************************************************************)
EXTENDS Integers, FiniteSets

CONSTANTS
  Attempts,  \* attempts on one profile that something still refers to
  Slots      \* bound, numbers from 1: jobs of one attempt whose goroutines have not ended

Kinds == {"monarch", "ynab"}

VARIABLES
  attempt,    \* the attempts and their flows
  job,        \* the jobs of each attempt
  duties,     \* calls and goroutines that wait for a job and then release the attempt's flow
  answered,   \* history: attempts whose cancellation was answered
  profile,    \* what is stored for the profile
  elsewhere,  \* another process holds the provider-connect lock
  closed

vars == <<attempt, job, duties, answered, profile, elsewhere, closed>>

Monarch(a) == attempt[a].kind = "monarch"

\* The profile is not bound to another provider, whose identity no answer matches.
Bindable(a) == profile.bound \in {"none", attempt[a].kind}

\* attemptFlow: "held" is its lease and its connect lock, the others what it has of its fields;
\* "retry" is retryState = importing.
NewFlow == [held |-> FALSE, config |-> FALSE, session |-> FALSE, identity |-> FALSE, token |-> FALSE,
            password |-> FALSE, credentials |-> FALSE, plans |-> FALSE, snapshot |-> FALSE,
            vaultSaved |-> FALSE, retry |-> FALSE]
Unlisted == [listed |-> FALSE, kind |-> "monarch", state |-> "inspect", canRetry |-> FALSE, canReenter |-> FALSE,
             explicit |-> FALSE, running |-> FALSE, jobDone |-> 0, flow |-> NewFlow]

\* A goroutine: where it is, and what it has opened or taken over that no flow owns.
NoJob == [pc |-> "none", owned |-> "nothing"]
Job(pc) == [NoJob EXCEPT !.pc = pc]
Ending == Job("ending")

\* States in which the user waits for a job.
Working == {"inspect", "validate_session", "authenticating", "importing"}
States == Working \cup {"settings_required", "unlock_required", "credentials_required",
  "remote_profile_required", "complete", "local_only", "identity_mismatch", "failed", "canceled"}

--------------------------------------------------------------------------------
(* The coordinator's steps under its mutex                                    *)

Alive(a) == attempt[a].listed /\ attempt[a].state # "canceled"

\* transitionLocked.
Transition(x, state, canRetry, canReenter) ==
  [x EXCEPT !.state = state, !.canRetry = canRetry, !.canReenter = canReenter,
            !.flow.retry = @ /\ state \in {"failed", "importing"}]

\* setStableState and fail, of x, which is a with the changes the job made before.
Settled(a, x, state, canRetry, canReenter) ==
  attempt' = [attempt EXCEPT ![a] = IF Alive(a) THEN Transition(x, state, canRetry, canReenter) ELSE @]

Goes(a, s, pc) == job' = [job EXCEPT ![a][s].pc = pc]
Ends(a, s) == job' = [job EXCEPT ![a][s] = Ending]
Settle(a, s, x, state, canRetry, canReenter) == Settled(a, x, state, canRetry, canReenter) /\ Ends(a, s)
Stable(a, s, state) == Settle(a, s, attempt[a], state, FALSE, FALSE)
Fail(a, s, canRetry, canReenter) == Settle(a, s, attempt[a], "failed", canRetry, canReenter)
Stop(a, s) == Ends(a, s) /\ UNCHANGED attempt

\* startJobLocked.
StartJob(a, x, slot, pc) ==
  /\ attempt' = [attempt EXCEPT ![a] = [x EXCEPT !.running = TRUE, !.jobDone = slot]]
  /\ job' = [job EXCEPT ![a][slot] = Job(pc)]

FreeSlots(a) == {s \in Slots : job[a][s].pc = "none" /\ \A d \in duties : d.attempt = a => d.job # s}

\* flow.release.
Release(x) == [x EXCEPT !.flow.held = FALSE]

\* TryLock of the provider-connect lock.
LockFree ==
  /\ ~elsewhere
  /\ \A a \in Attempts : ~attempt[a].flow.held /\ \A s \in Slots : job[a][s].owned # "both"

external == <<duties, answered, profile, elsewhere, closed>>
At(a, s, pc) == job[a][s].pc = pc

--------------------------------------------------------------------------------
(* Inspection                                                                 *)

Open(a, s) ==
  /\ At(a, s, "inspect")
  /\ \/ ~Alive(a) /\ Stop(a, s)
     \/ Alive(a) /\ job' = [job EXCEPT ![a][s] = [pc |-> "lock", owned |-> "lease"]] /\ UNCHANGED attempt
     \/ Alive(a) /\ Fail(a, s, FALSE, FALSE)
  /\ UNCHANGED external

TakeLock(a, s) ==
  /\ At(a, s, "lock")
  /\ \/ LockFree /\ job' = [job EXCEPT ![a][s] = [pc |-> "install", owned |-> "both"]] /\ UNCHANGED attempt
     \/ Fail(a, s, TRUE, FALSE)
  /\ UNCHANGED external

\* The runtime and the connection are read, then installFlow gives the flow what the job holds.
Install(a, s) ==
  /\ At(a, s, "install")
  /\ \/ ~Alive(a) /\ Stop(a, s)
     \/ /\ Alive(a)
        /\ attempt' = [attempt EXCEPT ![a].flow.held = TRUE]
        /\ job' = [job EXCEPT ![a][s] = Job("route")]
     \/ Fail(a, s, TRUE, FALSE)
  /\ UNCHANGED external

InputState(a) == IF profile.vault[attempt[a].kind] THEN "unlock_required" ELSE "credentials_required"

\* inspectMonarch, to its first question or to the saved session's validation.
RouteMonarch(a, s) ==
  LET configured == [attempt[a] EXCEPT !.flow.config = TRUE] IN
  /\ At(a, s, "route") /\ Monarch(a) /\ Alive(a)
  /\ IF profile.bound = "none" /\ ~profile.pristine THEN Stable(a, s, "local_only")
     ELSE \/ Fail(a, s, TRUE, FALSE)
          \/ (profile.session \/ attempt[a].explicit) /\ Fail(a, s, FALSE, TRUE)
          \/ /\ ~profile.session /\ (profile.bound # "none" \/ attempt[a].explicit)
             /\ attempt' = [attempt EXCEPT ![a] = configured] /\ Goes(a, s, "vault")
          \/ ~profile.session /\ profile.bound = "none" /\ ~attempt[a].explicit /\ Stable(a, s, "settings_required")
          \/ profile.session /\ Settle(a, s, configured, "failed", TRUE, FALSE)
          \/ /\ profile.session
             /\ Settled(a, [configured EXCEPT !.flow.session = TRUE], "validate_session", FALSE, FALSE)
             /\ Goes(a, s, "validate")
  /\ UNCHANGED external

RouteYNAB(a, s) ==
  /\ At(a, s, "route") /\ ~Monarch(a) /\ Alive(a)
  /\ IF profile.bound = "none" /\ ~profile.pristine THEN Stable(a, s, "local_only")
     ELSE IF ~Bindable(a) THEN Stable(a, s, "identity_mismatch")
     ELSE Stable(a, s, InputState(a)) \/ Fail(a, s, TRUE, FALSE)
  /\ UNCHANGED external

RouteStops(a, s) == At(a, s, "route") /\ ~Alive(a) /\ Stop(a, s) /\ UNCHANGED external

\* routeToInput: its look at the attempt, then at the vault.
ToInput(a, s) ==
  /\ At(a, s, "input")
  /\ \/ ~Alive(a) /\ Stop(a, s)
     \/ Alive(a) /\ ~attempt[a].flow.config /\ Stable(a, s, "settings_required")
     \/ Alive(a) /\ attempt[a].flow.config /\ Goes(a, s, "vault") /\ UNCHANGED attempt
  /\ UNCHANGED external

LookAtVault(a, s) ==
  /\ At(a, s, "vault")
  /\ Stable(a, s, InputState(a)) \/ Fail(a, s, TRUE, FALSE)
  /\ UNCHANGED external

\* clearRetainedSession.
ClearRetained(x) == [x EXCEPT !.flow.session = FALSE, !.flow.identity = FALSE, !.flow.retry = FALSE]
\* clearYNABRuntime, and ReauthenticateLocked of each driver.
ClearRuntime(x) == [x EXCEPT !.flow.token = FALSE, !.flow.password = FALSE, !.flow.credentials = FALSE,
                             !.flow.snapshot = FALSE]
Reauthenticated(a, x) ==
  IF Monarch(a) THEN [x EXCEPT !.flow.session = FALSE, !.flow.identity = FALSE] ELSE ClearRuntime(x)

\* startImport and startYNABImport, the last thing the job does: the import is a job of its own.
Import(a, s, x, ready) ==
  \/ /\ Alive(a) /\ ready
     /\ \E slot \in FreeSlots(a) \ {s} :
          /\ attempt' = [attempt EXCEPT ![a] = [Transition(x, "importing", FALSE, FALSE) EXCEPT
                                                  !.flow.retry = TRUE, !.running = TRUE, !.jobDone = slot]]
          /\ job' = [job EXCEPT ![a][s] = Ending, ![a][slot] = Job("import")]
  \/ ~(Alive(a) /\ ready) /\ Stop(a, s)

ImportMonarch(a, s) ==
  LET x == [attempt[a] EXCEPT !.flow.session = TRUE, !.flow.identity = TRUE] IN
  Import(a, s, x, x.flow.held /\ x.flow.config)

Validate(a, s) ==
  /\ At(a, s, "validate")
  /\ \/ attempt' = [attempt EXCEPT ![a] = IF @.listed THEN ClearRetained(@) ELSE @] /\ Goes(a, s, "input")
     \/ \E canReenter \in BOOLEAN : Fail(a, s, TRUE, canReenter)
     \/ Stable(a, s, "identity_mismatch")
     \/ Bindable(a) /\ ImportMonarch(a, s)
  /\ UNCHANGED external

--------------------------------------------------------------------------------
(* Credentials                                                                *)

\* Monarch's authentication, to the answer of the provider.
Authenticate(a, s) ==
  LET pc == job[a][s].pc IN
  /\ pc \in {"unlock", "credentials"} /\ Monarch(a)
  /\ IF ~Alive(a) \/ ~attempt[a].flow.config THEN Stop(a, s)
     ELSE \/ pc = "unlock" /\ Stable(a, s, "unlock_required")
          \/ Stable(a, s, "credentials_required")
          \/ Stable(a, s, "identity_mismatch")
          \/ /\ Bindable(a) /\ UNCHANGED attempt
             /\ Goes(a, s, IF pc = "unlock" THEN "save_session" ELSE "save_vault")
  /\ UNCHANGED external

\* A provider that has answered is saved, whatever happened to the attempt meanwhile.
SaveVault(a, s) ==
  /\ At(a, s, "save_vault")
  /\ \/ Stable(a, s, "credentials_required") /\ UNCHANGED profile
     \/ profile' = [profile EXCEPT !.vault[attempt[a].kind] = TRUE] /\ Goes(a, s, "save_session") /\ UNCHANGED attempt
  /\ UNCHANGED <<duties, answered, elsewhere, closed>>

SaveSession(a, s) ==
  /\ At(a, s, "save_session")
  /\ \/ Stable(a, s, "credentials_required") /\ UNCHANGED profile
     \/ profile' = [profile EXCEPT !.session = TRUE] /\ ImportMonarch(a, s)
  /\ UNCHANGED <<duties, answered, elsewhere, closed>>

\* failYNABProvider.
FailYNAB(a, s, canRetry) ==
  \/ \E canReenter \in BOOLEAN : Fail(a, s, canRetry, canReenter)
  \/ Settle(a, s, ClearRuntime(attempt[a]), "credentials_required", FALSE, TRUE)

Unlock(a, s) ==
  /\ At(a, s, "unlock") /\ ~Monarch(a)
  /\ \/ ~Alive(a) /\ Stop(a, s)
     \/ Alive(a) /\ (Stable(a, s, "unlock_required") \/ Fail(a, s, TRUE, TRUE))
     \/ /\ Alive(a)
        /\ attempt' = [attempt EXCEPT ![a].flow = [@ EXCEPT !.token = TRUE, !.password = TRUE,
                                                           !.credentials = TRUE, !.vaultSaved = TRUE]]
        /\ Goes(a, s, "plan")
  /\ UNCHANGED external

\* authenticateYNABNew: one plan is fetched, several are offered.
ListPlans(a, s) ==
  LET retained == [attempt[a] EXCEPT !.flow.token = TRUE, !.flow.password = TRUE, !.flow.vaultSaved = FALSE] IN
  /\ At(a, s, "credentials") /\ ~Monarch(a)
  /\ \/ ~Alive(a) /\ Stop(a, s)
     \/ Alive(a) /\ (Fail(a, s, FALSE, TRUE) \/ FailYNAB(a, s, TRUE))
     \/ Alive(a) /\ attempt' = [attempt EXCEPT ![a] = retained] /\ Goes(a, s, "plan")
     \/ Alive(a) /\ Settle(a, s, [retained EXCEPT !.flow.plans = TRUE], "remote_profile_required", FALSE, FALSE)
  /\ UNCHANGED external

SelectPlan(a, s) ==
  LET taken == [attempt[a] EXCEPT !.flow.plans = FALSE] IN
  /\ At(a, s, "select")
  /\ \/ ~(Alive(a) /\ attempt[a].flow.plans) /\ Stop(a, s)
     \/ /\ Alive(a) /\ attempt[a].flow.plans
        /\ \/ Settle(a, s, taken, "failed", FALSE, TRUE)
           \/ attempt' = [attempt EXCEPT ![a] = taken] /\ Goes(a, s, "plan")
  /\ UNCHANGED external

\* fetchYNABPlan.  "changed" is whether the saved settings differ from the plan's.
FetchPlan(a, s) ==
  LET fetched == [attempt[a] EXCEPT !.flow.credentials = TRUE, !.flow.snapshot = TRUE] IN
  /\ At(a, s, "plan")
  /\ IF ~(Alive(a) /\ attempt[a].flow.token) THEN Stop(a, s)
     ELSE \/ \E canRetry \in BOOLEAN : FailYNAB(a, s, canRetry)
          \/ \E changed \in BOOLEAN :
               /\ Bindable(a)
               /\ IF attempt[a].flow.vaultSaved /\ ~changed
                    THEN Import(a, s, [fetched EXCEPT !.flow.password = FALSE], fetched.flow.held)
                    ELSE /\ ~(attempt[a].flow.vaultSaved /\ profile.bound # "none")
                         /\ Settle(a, s, fetched, "settings_required", FALSE, FALSE)
  /\ UNCHANGED external

\* confirmAndImportYNAB; ynabSaveInputs refuses what has no credentials or no password.
SaveYNAB(a, s) ==
  /\ At(a, s, "confirm")
  /\ IF ~(Alive(a) /\ attempt[a].flow.credentials /\ attempt[a].flow.password)
       THEN Stop(a, s) /\ UNCHANGED profile
       ELSE \/ Fail(a, s, FALSE, TRUE) /\ UNCHANGED profile
            \/ profile' = [profile EXCEPT !.vault[attempt[a].kind] = TRUE] /\ Goes(a, s, "saved") /\ UNCHANGED attempt
  /\ UNCHANGED <<duties, answered, elsewhere, closed>>

VaultSaved(a, s) ==
  /\ At(a, s, "saved")
  /\ attempt' = [attempt EXCEPT ![a].flow = IF attempt[a].listed
                   THEN [@ EXCEPT !.password = FALSE, !.vaultSaved = TRUE, !.retry = TRUE] ELSE @]
  /\ Goes(a, s, "import")
  /\ UNCHANGED external

--------------------------------------------------------------------------------
(* The import                                                                 *)

Inputs(a) ==
  LET f == attempt[a].flow IN
  /\ attempt[a].listed /\ attempt[a].state = "importing" /\ f.held
  /\ IF Monarch(a) THEN f.config /\ f.identity ELSE f.credentials /\ f.snapshot

BeginImport(a, s) ==
  /\ At(a, s, "import")
  /\ \/ ~Inputs(a) /\ Stop(a, s)
     \/ Inputs(a) /\ Goes(a, s, "importing") /\ UNCHANGED attempt
  /\ UNCHANGED external

\* completeImport.
Completed(a) == Settled(a, attempt[a], "complete", FALSE, FALSE)

\* importFailure.
ImportFails(a, s) ==
  \/ \E canRetry \in BOOLEAN : Fail(a, s, canRetry, FALSE)
  \/ /\ Monarch(a)
     /\ attempt' = [attempt EXCEPT ![a] = IF @.listed THEN ClearRetained(@) ELSE @]
     /\ IF Alive(a) THEN Goes(a, s, "vault") ELSE Ends(a, s)
  \/ ~Monarch(a) /\ Settle(a, s, ClearRuntime(attempt[a]), "credentials_required", FALSE, TRUE)

ImportLands(a, s) ==
  profile' = [profile EXCEPT !.bound = attempt[a].kind, !.pristine = FALSE] /\ Completed(a) /\ Ends(a, s)

\* The refresh, or the reconnect of a bound profile; nothing of the attempt stops it once it commits.
RunImport(a, s) ==
  /\ At(a, s, "importing") /\ Monarch(a)
  /\ ImportLands(a, s) \/ (ImportFails(a, s) /\ UNCHANGED profile)
  /\ UNCHANGED <<duties, answered, elsewhere, closed>>

\* The refresh; a profile with an open write batch is only unlocked.
RunYNABImport(a, s) ==
  /\ At(a, s, "importing") /\ ~Monarch(a)
  /\ ImportLands(a, s) \/ (ImportFails(a, s) /\ UNCHANGED profile)
  /\ UNCHANGED <<duties, answered, elsewhere, closed>>

--------------------------------------------------------------------------------
(* The end of a job                                                           *)

\* A panic anywhere in a job: failUnexpectedly; what the job still owns is released on the way.
Panic(a, s) ==
  /\ job[a][s].pc \notin {"none", "ending", "releasing"}
  /\ Fail(a, s, attempt[a].state # "importing" \/ attempt[a].flow.retry, TRUE)
  /\ UNCHANGED external

\* Mutant of EndJob: a canceled attempt is left to the caller that canceled it.
MutantEndJob(a, s) ==
  /\ At(a, s, "ending")
  /\ attempt' = [attempt EXCEPT ![a] = IF @.listed /\ @.jobDone = s
                                        THEN [@ EXCEPT !.running = FALSE, !.jobDone = 0] ELSE @]
  /\ job' = [job EXCEPT ![a][s] = NoJob]
  /\ UNCHANGED external
\* The deferred end; it releases a canceled attempt, whose caller may have stopped waiting.
EndJob(a, s) ==
  LET last == attempt[a].listed /\ attempt[a].jobDone = s IN
  /\ At(a, s, "ending")
  /\ attempt' = [attempt EXCEPT ![a] = IF last THEN [@ EXCEPT !.running = FALSE, !.jobDone = 0] ELSE @]
  /\ job' = [job EXCEPT ![a][s] = IF last /\ attempt[a].state = "canceled" THEN Job("releasing") ELSE NoJob]
  /\ UNCHANGED external

ReleaseCanceled(a, s) ==
  /\ At(a, s, "releasing")
  /\ attempt' = [attempt EXCEPT ![a] = Release(@)]
  /\ job' = [job EXCEPT ![a][s] = NoJob]
  /\ UNCHANGED external

\* restartInspect: a new flow; the old one is released outside the mutex.
Restart(a, s) ==
  /\ At(a, s, "restart")
  /\ \/ ~Alive(a) /\ Stop(a, s)
     \/ /\ Alive(a)
        /\ attempt' = [attempt EXCEPT ![a].flow = NewFlow]
        /\ job' = [job EXCEPT ![a][s] = [pc |-> "drop", owned |-> IF attempt[a].flow.held THEN "both" ELSE "nothing"]]
  /\ UNCHANGED external

DropFlow(a, s) ==
  /\ At(a, s, "drop")
  /\ job' = [job EXCEPT ![a][s] = Job("inspect")]
  /\ UNCHANGED <<attempt, external>>

--------------------------------------------------------------------------------
(* The presenter's calls                                                      *)

Start(a) ==
  /\ ~closed /\ ~attempt[a].listed /\ ~attempt[a].flow.held
  /\ \A s \in Slots : job[a][s] = NoJob
  /\ \A d \in duties : d.attempt # a
  /\ \E kind \in Kinds, explicit \in BOOLEAN, slot \in Slots :
       /\ explicit => kind = "monarch"
       /\ StartJob(a, [Unlisted EXCEPT !.listed = TRUE, !.kind = kind, !.explicit = explicit], slot, "inspect")
  /\ answered' = answered \ {a}
  /\ UNCHANGED <<duties, profile, elsewhere, closed>>

\* Submit, with the job each action starts.
Submit(a, from, state, pc) ==
  /\ attempt[a].listed /\ attempt[a].state = from
  /\ \E slot \in FreeSlots(a) : StartJob(a, Transition(attempt[a], state, FALSE, FALSE), slot, pc)
  /\ UNCHANGED external

SubmitUnlock(a) == Submit(a, "unlock_required", "authenticating", "unlock")
SubmitCredentials(a) == Submit(a, "credentials_required", "authenticating", "credentials")
SelectRemoteProfile(a) == Submit(a, "remote_profile_required", "authenticating", "select")

\* ConfirmSettingsLocked of each driver.
ConfirmSettings(a) ==
  \/ ~Monarch(a) /\ Submit(a, "settings_required", "importing", "confirm")
  \/ /\ Monarch(a) /\ attempt[a].listed /\ attempt[a].state = "settings_required"
     /\ \E slot \in FreeSlots(a) :
          StartJob(a, Transition([attempt[a] EXCEPT !.flow.config = TRUE], "inspect", FALSE, FALSE), slot, "input")
     /\ UNCHANGED external

Reauthenticate(a) ==
  /\ attempt[a].listed
  /\ attempt[a].state = "identity_mismatch" \/ (attempt[a].state = "failed" /\ attempt[a].canReenter)
  /\ IF ~attempt[a].flow.held \/ (Monarch(a) /\ ~attempt[a].flow.config)
       THEN Submit(a, attempt[a].state, "inspect", "restart")
       ELSE /\ attempt' = [attempt EXCEPT ![a] =
                             Transition(Reauthenticated(a, @), "credentials_required", FALSE, FALSE)]
            /\ UNCHANGED <<job, external>>

\* Mutant of Retryable: a retry is accepted while the import runs.
MutantRetryable(a) == attempt[a].state = "importing" \/ (attempt[a].state = "failed" /\ attempt[a].canRetry)
Retryable(a) == attempt[a].state = "failed" /\ attempt[a].canRetry

Retry(a) ==
  /\ attempt[a].listed /\ Retryable(a)
  /\ IF attempt[a].flow.retry THEN Submit(a, attempt[a].state, "importing", "import")
                              ELSE Submit(a, attempt[a].state, "inspect", "restart")

\* TakeOpenedProfile: the presenter gets the lease, the lock is released.
TakeOpenedProfile(a) ==
  /\ attempt[a].listed /\ attempt[a].state = "complete" /\ attempt[a].flow.held
  /\ attempt' = [attempt EXCEPT ![a] = Release(@)]
  /\ UNCHANGED <<job, external>>

Canceled(x) == IF x.state = "canceled" THEN x ELSE Transition(x, "canceled", FALSE, FALSE)
Duty(a, late) == [attempt |-> a, job |-> attempt[a].jobDone, late |-> late]

\* Cancel, as far as its waiting.
Cancel(a) ==
  /\ attempt[a].listed
  /\ attempt' = [attempt EXCEPT ![a] = Canceled(@)]
  /\ duties' = duties \cup {Duty(a, FALSE)}
  /\ UNCHANGED <<job, answered, profile, elsewhere, closed>>

\* CancelProfile.  If its caller's context ends, releaseLate waits in its place.
CancelProfile ==
  LET listed == {a \in Attempts : attempt[a].listed} IN
  /\ listed # {}
  /\ attempt' = [a \in Attempts |-> IF a \in listed THEN Canceled(attempt[a]) ELSE attempt[a]]
  /\ duties' = duties \cup {Duty(a, TRUE) : a \in listed}
  /\ UNCHANGED <<job, answered, profile, elsewhere, closed>>

Close ==
  LET listed == {a \in Attempts : attempt[a].listed} IN
  /\ ~closed
  /\ closed' = TRUE
  /\ attempt' = [a \in Attempts |-> IF a \in listed THEN [attempt[a] EXCEPT !.listed = FALSE] ELSE attempt[a]]
  /\ duties' = duties \cup {Duty(a, TRUE) : a \in listed}
  /\ UNCHANGED <<job, answered, profile, elsewhere>>

\* Mutant of JobDone: the caller does not wait.
MutantJobDone(d) == TRUE
\* The channel a duty waits on is closed, or there was none.
JobDone(d) == d.job # 0 => job[d.attempt][d.job].pc = "none"

FinishDuty(d) ==
  /\ JobDone(d)
  /\ attempt' = [attempt EXCEPT ![d.attempt] = Release(@)]
  /\ duties' = duties \ {d}
  /\ answered' = answered \cup {d.attempt}
  /\ UNCHANGED <<job, profile, elsewhere, closed>>

\* The context of a Cancel ends before the job: nobody waits in its place.
AbandonCancel(d) ==
  /\ ~d.late /\ d.job # 0
  /\ duties' = duties \ {d}
  /\ UNCHANGED <<attempt, job, answered, profile, elsewhere, closed>>

\* The idle time of an attempt may have passed unless a job runs.
Idle(a) == attempt[a].listed /\ ~attempt[a].running

\* lookup and reapExpiredLocked.
Reap(a) ==
  /\ Idle(a)
  /\ attempt' = [attempt EXCEPT ![a] = [Release(@) EXCEPT !.listed = FALSE]]
  /\ UNCHANGED <<job, external>>

\* Another process connects the profile.
OtherProcess ==
  /\ elsewhere \/ LockFree
  /\ elsewhere' = ~elsewhere
  /\ UNCHANGED <<attempt, job, duties, answered, profile, closed>>

--------------------------------------------------------------------------------
Init ==
  /\ attempt = [a \in Attempts |-> Unlisted]
  /\ job = [a \in Attempts |-> [s \in Slots |-> NoJob]]
  /\ duties = {} /\ answered = {} /\ elsewhere = FALSE /\ closed = FALSE
  /\ profile \in [bound : {"none"}, pristine : BOOLEAN, vault : {[kind \in Kinds |-> FALSE]}, session : {FALSE}]

Work(a, s) ==
  \/ Open(a, s) \/ TakeLock(a, s) \/ Install(a, s) \/ RouteMonarch(a, s) \/ RouteYNAB(a, s) \/ RouteStops(a, s)
  \/ ToInput(a, s) \/ LookAtVault(a, s) \/ Validate(a, s)
  \/ Authenticate(a, s) \/ SaveVault(a, s) \/ SaveSession(a, s)
  \/ Unlock(a, s) \/ ListPlans(a, s) \/ SelectPlan(a, s) \/ FetchPlan(a, s) \/ SaveYNAB(a, s) \/ VaultSaved(a, s)
  \/ BeginImport(a, s) \/ RunImport(a, s) \/ RunYNABImport(a, s) \/ Panic(a, s)
  \/ Restart(a, s) \/ DropFlow(a, s) \/ EndJob(a, s) \/ ReleaseCanceled(a, s)

Present(a) ==
  \/ Start(a) \/ SubmitUnlock(a) \/ SubmitCredentials(a) \/ SelectRemoteProfile(a) \/ ConfirmSettings(a)
  \/ Reauthenticate(a) \/ Retry(a) \/ TakeOpenedProfile(a) \/ Cancel(a) \/ Reap(a)

Next ==
  \/ \E a \in Attempts : Present(a) \/ \E s \in Slots : Work(a, s)
  \/ \E d \in duties : FinishDuty(d) \/ AbandonCancel(d)
  \/ CancelProfile \/ Close \/ OtherProcess

Spec == Init /\ [][Next]_vars

Duties == [attempt : Attempts, job : Slots \cup {0}, late : {TRUE}] \cup [attempt : Attempts, job : {0}, late : {FALSE}]

\* Jobs go on (their requests have timeouts, their contexts are canceled), and so do the calls that
\* wait for them, unless they are abandoned.
FairSpec ==
  /\ Spec
  /\ \A a \in Attempts, s \in Slots : WF_vars(Work(a, s))
  /\ \A d \in Duties : WF_vars(d \in duties /\ FinishDuty(d))

--------------------------------------------------------------------------------
(* Properties                                                                 *)

\* The steps in which a job uses the profile through its attempt's flow.
Using == {"route", "input", "vault", "validate", "unlock", "credentials", "select", "plan", "save_vault",
          "save_session", "confirm", "saved", "import", "importing"}

TypeOK ==
  /\ attempt \in [Attempts ->
       [listed : BOOLEAN, kind : Kinds, state : States, canRetry : BOOLEAN, canReenter : BOOLEAN, explicit : BOOLEAN,
        running : BOOLEAN, jobDone : Slots \cup {0}, flow : [DOMAIN NewFlow -> BOOLEAN]]]
  /\ job \in [Attempts -> [Slots ->
       [pc : Using \cup {"none", "inspect", "lock", "install", "ending", "releasing", "restart", "drop"},
        owned : {"nothing", "lease", "both"}]]]
  /\ duties \subseteq [attempt : Attempts, job : Slots \cup {0}, late : BOOLEAN]
  /\ answered \subseteq Attempts
  /\ profile \in [bound : Kinds \cup {"none"}, pristine : BOOLEAN, vault : [Kinds -> BOOLEAN], session : BOOLEAN]
  /\ elsewhere \in BOOLEAN /\ closed \in BOOLEAN
  /\ \A a \in Attempts : attempt[a].running <=> attempt[a].jobDone # 0

\* An attempt is never left in a state only a job can leave: a retry or an answer that finds its
\* inputs gone ends its job without a word, so whatever clears them must also clear the way there.
NoSilentStall == \A a \in Attempts : attempt[a].listed /\ ~attempt[a].running => attempt[a].state \notin Working

\* A canceled attempt stays canceled, whatever its jobs find out after.
CanceledStays ==
  [][\A a \in Attempts : attempt[a].listed /\ attempt[a].state = "canceled" /\ attempt'[a].listed
       => attempt'[a].state = "canceled"]_vars

\* Once a cancellation was answered no job of the attempt uses, saves or imports anything, and the
\* attempt holds neither lease nor lock: releaseProfileForRollback moves the profile's files next.
AnsweredIsQuiet ==
  \A a \in answered :
    ~attempt[a].flow.held /\ \A s \in Slots : job[a][s].pc \notin Using /\ job[a][s].owned = "nothing"

\* A job works on a profile its attempt still holds, and only one job of an attempt works.
UseWhileHeld ==
  \A a \in Attempts :
    /\ \A s \in Slots : job[a][s].pc \in Using => attempt[a].flow.held
    /\ Cardinality({s \in Slots : job[a][s].pc \in Using \cup {"inspect", "lock", "install", "restart", "drop"}}) <= 1

Leaving(a) == attempt[a].state = "canceled" \/ ~attempt[a].listed
Gone(a) == ~attempt[a].flow.held /\ \A s \in Slots : job[a][s].owned = "nothing"

\* An attempt that was canceled or removed gives the profile back without any further call, also
\* when its caller stopped waiting.
LetsGo == \A a \in Attempts : Leaving(a) ~> Gone(a)
================================================================================
