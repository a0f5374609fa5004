----------------------------- MODULE SimpleFINSetup -----------------------------
(***************************************************************************)
(* Connecting a profile to SimpleFIN, and cancelling a new profile.        *)
(*                                                                          *)
(* A setup token can be claimed once: whether or not the answer arrives,   *)
(* the token is used up, and the answer is the only copy of the credential *)
(* until it is saved.  An attempt's job opens the profile, claims, saves   *)
(* and imports; cancellations end attempts under running jobs; requests    *)
(* that cancel a new profile end its attempts, evict its service, ask the  *)
(* coordinator whether it retains the profile and remove it from the       *)
(* catalog (ProfileCatalog!CancelNew, ProfilePool!Evict).                  *)
(*                                                                          *)
(* Sources: internal/simplefinonboarding/coordinator.go and the handler of *)
(* internal/api/profilecatalog.go.  Attempts are never removed from the    *)
(* table.  No job outlives its ten minutes: its requests have shorter      *)
(* timeouts of their own.                                                  *)
(***************************************************************************)
EXTENDS Integers, FiniteSets

CONSTANTS
  Attempts,
  Requests  \* requests that cancel the new profile

VARIABLES
  setup,     \* the attempts
  worker,    \* the job of each attempt
  waits,     \* attempts whose cancellations wait for the job: Cancel ("call") and CancelProfile ("sure")
  quiet,     \* history: attempts whose cancellation was answered
  request,   \* how far each request is
  stored,    \* the profile as it is stored, and what the pool holds of it
  shut       \* the coordinator is closed

setupVars == <<setup, worker, waits, quiet, request, stored, shut>>

\* "failure" is what the failed or canceled state offers or says; "claim" is history: what became of
\* the last claimed token, whose answer may be lost, and whose credential may meet a failing save or
\* a panic.
Unstarted == [state |-> "unused", failure |-> "none", flow |-> "none", session |-> FALSE, saved |-> FALSE,
              retain |-> FALSE, claim |-> "none"]

Waiting == {"inspect", "claiming", "saving_session", "importing"}
SetupStates == Waiting \cup {"unused", "credentials_required", "identity_mismatch", "complete", "failed", "canceled"}

None == [pc |-> "none", owned |-> "nothing"]
Job(pc) == [None EXCEPT !.pc = pc]
JobStates == {"none", "open", "lock", "install", "look", "found", "claim", "claimed", "save", "flag", "load", "import"}

--------------------------------------------------------------------------------
(* The coordinator's steps under its mutex                                    *)

Moved(x, state, failure) == [x EXCEPT !.state = state, !.failure = failure]
\* setState and fail.
SetState(x, state, failure) == IF x.state = "canceled" THEN x ELSE Moved(x, state, failure)

To(a, pc) == worker' = [worker EXCEPT ![a] = Job(pc)]
Ends(a) == To(a, "none")
\* A job's last step.  The goroutine does nothing more, so the end of the job is part of it.
Rest(a, x, state, failure) == setup' = [setup EXCEPT ![a] = SetState(x, state, failure)] /\ Ends(a)
Fail(a, failure) == Rest(a, setup[a], "failed", failure)

rest == <<waits, quiet, request, stored, shut>>
InJob(a, pc) == worker[a].pc = pc

Leased == \E a \in Attempts : setup[a].flow = "held" \/ worker[a].owned # "nothing"
Locked == \E a \in Attempts : setup[a].flow = "held" \/ worker[a].owned = "both"

\* attemptFlow.release, once.
Released(x) == [x EXCEPT !.flow = "none", !.session = FALSE]

--------------------------------------------------------------------------------
(* The job                                                                    *)

\* The pool opens the service unless the profile is gone or being evicted.
Open(a) ==
  /\ InJob(a, "open")
  /\ \/ /\ stored.exists /\ ~stored.evicting
        /\ stored' = [stored EXCEPT !.pooled = TRUE]
        /\ worker' = [worker EXCEPT ![a] = [pc |-> "lock", owned |-> "lease"]]
        /\ UNCHANGED setup
     \/ Fail(a, "final") /\ UNCHANGED stored
  /\ UNCHANGED <<waits, quiet, request, shut>>

TakeLock(a) ==
  /\ InJob(a, "lock")
  /\ \/ ~Locked /\ worker' = [worker EXCEPT ![a] = [pc |-> "install", owned |-> "both"]] /\ UNCHANGED setup
     \/ Fail(a, "final")
  /\ UNCHANGED rest

Install(a) ==
  /\ InJob(a, "install")
  /\ \/ setup[a].state # "canceled" /\ setup' = [setup EXCEPT ![a].flow = "held"] /\ To(a, "look")
     \/ setup[a].state = "canceled" /\ Ends(a) /\ UNCHANGED setup
     \/ Fail(a, "final")
  /\ UNCHANGED rest

\* The connection, then the saved session; "other" is one whose account or money does not match.
Look(a) ==
  /\ InJob(a, "look")
  /\ IF ~stored.bound /\ ~stored.pristine THEN Fail(a, "final")
     ELSE \/ stored.session = "none" /\ Rest(a, setup[a], "credentials_required", "none")
          \/ stored.session # "none" /\ Rest(a, setup[a], "identity_mismatch", "reenter")
          \/ stored.session # "none" /\ To(a, "found") /\ UNCHANGED setup
  /\ UNCHANGED rest

Found(a) ==
  /\ InJob(a, "found")
  /\ setup' = [setup EXCEPT ![a].session = TRUE, ![a].saved = TRUE, ![a].retain = TRUE]
  /\ To(a, "load")
  /\ UNCHANGED rest

\* The POST: its answer may be lost, or not be a credential.
Claim(a) ==
  /\ InJob(a, "claim")
  /\ \/ setup' = [setup EXCEPT ![a].claim = "returned"] /\ To(a, "claimed")
     \/ Rest(a, [setup[a] EXCEPT !.claim = "lost"], "failed", "reenter")
  /\ UNCHANGED rest

Claimed(a) ==
  /\ InJob(a, "claimed")
  /\ setup' = [setup EXCEPT ![a] = SetState([@ EXCEPT !.session = TRUE], "saving_session", "none")]
  /\ To(a, "save")
  /\ UNCHANGED rest

\* Mutant of Save: a canceled attempt's credential is not saved.
MutantSave(a) ==
  /\ InJob(a, "save")
  /\ \/ Rest(a, [setup[a] EXCEPT !.claim = "refused"], "failed", "retry") /\ UNCHANGED stored
     \/ setup[a].state = "canceled" /\ To(a, "flag") /\ UNCHANGED <<setup, stored>>
     \/ /\ setup[a].state # "canceled"
        /\ stored' = [stored EXCEPT !.session = "saved"]
        /\ setup' = [setup EXCEPT ![a].claim = "saved"]
        /\ To(a, "flag")
  /\ UNCHANGED <<waits, quiet, request, shut>>
\* saveAndImport: "Save a returned credential even when cancellation arrived".
Save(a) ==
  /\ InJob(a, "save")
  /\ \/ Rest(a, [setup[a] EXCEPT !.claim = "refused"], "failed", "retry") /\ UNCHANGED stored
     \/ /\ stored' = [stored EXCEPT !.session = "saved"]
        /\ setup' = [setup EXCEPT ![a].claim = "saved"]
        /\ To(a, "flag")
  /\ UNCHANGED <<waits, quiet, request, shut>>

Flag(a) ==
  /\ InJob(a, "flag")
  /\ setup' = [setup EXCEPT ![a].saved = TRUE]
  /\ To(a, "load")
  /\ UNCHANGED rest

\* importSaved, to the start of the import.
Load(a) ==
  /\ InJob(a, "load")
  /\ \/ setup[a].state = "canceled" /\ Ends(a) /\ UNCHANGED setup
     \/ setup[a].state # "canceled" /\ (Fail(a, "retry") \/ Rest(a, setup[a], "identity_mismatch", "reenter"))
     \/ setup[a].state # "canceled" /\ setup' = [setup EXCEPT ![a] = Moved(@, "importing", "none")] /\ To(a, "import")
  /\ UNCHANGED rest

Import(a) ==
  /\ InJob(a, "import")
  /\ \/ Fail(a, "retry") /\ UNCHANGED stored
     \/ /\ Rest(a, setup[a], "complete", "none")
        /\ stored' = [stored EXCEPT !.bound = TRUE, !.pristine = FALSE]
  /\ UNCHANGED <<waits, quiet, request, shut>>

\* A panic anywhere in the job.
Panic(a) ==
  /\ ~InJob(a, "none")
  /\ Rest(a, [setup[a] EXCEPT !.claim = CASE @ = "asked" -> "lost" [] @ = "returned" -> "refused" [] OTHER -> @],
          "failed", IF setup[a].saved \/ setup[a].session THEN "retry" ELSE "reenter")
  /\ UNCHANGED rest

--------------------------------------------------------------------------------
(* The presenter's calls                                                      *)

Begin(a, x, pc) == setup' = [setup EXCEPT ![a] = x] /\ To(a, pc) /\ UNCHANGED rest

Start(a) ==
  /\ ~shut /\ setup[a].state = "unused"
  /\ Begin(a, Moved(setup[a], "inspect", "none"), "open")

Reenters(a) ==
  setup[a].state \in {"credentials_required", "identity_mismatch"}
    \/ (setup[a].state = "failed" /\ setup[a].failure = "reenter")

InspectAgain(a) ==
  Reenters(a) /\ setup[a].flow # "held" /\ Begin(a, Moved(setup[a], "inspect", "none"), "open")

\* A bound profile takes no other account's URL.
RefuseAccount(a) ==
  /\ Reenters(a) /\ setup[a].flow = "held" /\ stored.bound
  /\ setup' = [setup EXCEPT ![a] = Moved(@, "identity_mismatch", "reenter")]
  /\ UNCHANGED <<worker, rest>>

\* "A lost POST response may still consume the token. Never roll back from here."
Connect(a) ==
  /\ Reenters(a) /\ setup[a].flow = "held"
  /\ Begin(a, [Moved(setup[a], "claiming", "none") EXCEPT !.session = FALSE, !.saved = FALSE, !.retain = TRUE,
                                                          !.claim = "asked"], "claim")

CanRetrySave(a) == setup[a].state = "failed" /\ setup[a].session /\ ~setup[a].saved
RetrySave(a) == CanRetrySave(a) /\ Begin(a, Moved(setup[a], "saving_session", "none"), "save")

CanRetryImport(a) == setup[a].state = "failed" /\ setup[a].saved
RetryImport(a) == CanRetryImport(a) /\ Begin(a, Moved(setup[a], "importing", "none"), "load")

\* cancelLocked.
Canceled(x) == SetState(x, "canceled", IF x.retain /\ ~x.saved THEN "revoke" ELSE "none")

Cancel(a) ==
  /\ setup[a].state # "unused"
  /\ setup' = [setup EXCEPT ![a] = Canceled(@)]
  /\ waits' = waits \cup {<<a, "call">>}
  /\ UNCHANGED <<worker, quiet, request, stored, shut>>

Started == {a \in Attempts : setup[a].state # "unused"}
CancelAll ==
  /\ setup' = [a \in Attempts |-> IF a \in Started THEN Canceled(setup[a]) ELSE setup[a]]
  /\ waits' = waits \cup (Started \X {"sure"})

\* CancelProfile: releaseLate waits for a caller that stops.
CancelProfile == CancelAll /\ UNCHANGED <<worker, quiet, request, stored, shut>>

\* Close; Shutdown does the same and leaves the coordinator open.
Close == ~shut /\ shut' = TRUE /\ CancelAll /\ UNCHANGED <<worker, quiet, request, stored>>

\* waitDone.
Done(a) == InJob(a, "none")

Release(w) ==
  /\ Done(w[1])
  /\ setup' = [setup EXCEPT ![w[1]] = Released(@)]
  /\ waits' = waits \ {w}
  /\ quiet' = quiet \cup {w[1]}
  /\ UNCHANGED <<worker, request, stored, shut>>

\* The context of a Cancel ends before the job: nobody waits in its place.
AbandonCancel(w) ==
  /\ w[2] = "call" /\ ~Done(w[1])
  /\ waits' = waits \ {w}
  /\ UNCHANGED <<setup, worker, quiet, request, stored, shut>>

\* TakeOpenedProfile, once the job has ended.
TakeOpenedProfile(a) ==
  /\ Done(a) /\ setup[a].state = "complete" /\ setup[a].flow = "held"
  /\ setup' = [setup EXCEPT ![a].flow = "none"]
  /\ UNCHANGED <<worker, rest>>

--------------------------------------------------------------------------------
(* Cancelling a new profile                                                   *)

Step(r, from, to) == request[r] = from /\ request' = [request EXCEPT ![r] = to]

\* releaseProfileForRollback: CancelProfile, its wait, the eviction.
EndAttempts(r) == Step(r, "idle", "ending") /\ CancelAll /\ UNCHANGED <<worker, quiet, stored, shut>>
AttemptsEnded(r) ==
  /\ Step(r, "ending", "evict") /\ ~\E a \in Attempts : <<a, "sure">> \in waits
  /\ UNCHANGED <<setup, worker, waits, quiet, stored, shut>>
BeginEvict(r) ==
  /\ Step(r, "evict", "evicting") /\ ~stored.evicting
  /\ stored' = [stored EXCEPT !.evicting = TRUE]
  /\ UNCHANGED <<setup, worker, waits, quiet, shut>>
Evicted(r) ==
  /\ Step(r, "evicting", "evicted") /\ ~Leased
  /\ stored' = [stored EXCEPT !.evicting = FALSE, !.pooled = FALSE]
  /\ UNCHANGED <<setup, worker, waits, quiet, shut>>

Retains == \E a \in Attempts : setup[a].retain

AskCoordinator(r) ==
  /\ Step(r, "evicted", IF Retains THEN "kept" ELSE "remove")
  /\ UNCHANGED <<setup, worker, waits, quiet, stored, shut>>

\* The catalog needs the profile to itself and finds nothing saved.
Removable == stored.exists /\ ~stored.pooled /\ stored.pristine /\ stored.session = "none"
CancelNewProfile(r) ==
  /\ Step(r, "remove", IF Removable THEN "removed" ELSE "kept")
  /\ stored' = [stored EXCEPT !.exists = @ /\ ~Removable]
  /\ UNCHANGED <<setup, worker, waits, quiet, shut>>

--------------------------------------------------------------------------------
Init ==
  /\ setup = [a \in Attempts |-> Unstarted]
  /\ worker = [a \in Attempts |-> None]
  /\ waits = {} /\ quiet = {} /\ shut = FALSE
  /\ request = [r \in Requests |-> "idle"]
  /\ stored \in [exists : {TRUE}, pristine : BOOLEAN, bound : {FALSE}, session : {"none"}, pooled : {FALSE},
                 evicting : {FALSE}]

Work(a) ==
  \/ Open(a) \/ TakeLock(a) \/ Install(a) \/ Look(a) \/ Found(a) \/ Claim(a) \/ Claimed(a) \/ Save(a) \/ Flag(a)
  \/ Load(a) \/ Import(a) \/ Panic(a)

Present(a) ==
  \/ Start(a) \/ InspectAgain(a) \/ RefuseAccount(a) \/ Connect(a) \/ RetrySave(a) \/ RetryImport(a)
  \/ Cancel(a) \/ TakeOpenedProfile(a)

Roll(r) ==
  EndAttempts(r) \/ AttemptsEnded(r) \/ BeginEvict(r) \/ Evicted(r) \/ AskCoordinator(r) \/ CancelNewProfile(r)

Next ==
  \/ \E a \in Attempts : Work(a) \/ Present(a)
  \/ \E w \in waits : Release(w) \/ AbandonCancel(w)
  \/ CancelProfile \/ Close
  \/ \E r \in Requests : Roll(r)

Spec == Init /\ [][Next]_setupVars

\* Jobs go on: their requests have timeouts.  CancelProfile's wait is never given up.
FairSpec ==
  /\ Spec
  /\ \A a \in Attempts : WF_setupVars(Work(a)) /\ WF_setupVars(<<a, "sure">> \in waits /\ Release(<<a, "sure">>))

--------------------------------------------------------------------------------
(* Properties                                                                 *)

Types ==
  /\ setup \in [Attempts -> [state : SetupStates, failure : {"none", "final", "retry", "reenter", "revoke"},
                             flow : {"none", "held"}, session : BOOLEAN, saved : BOOLEAN, retain : BOOLEAN,
                             claim : {"none", "asked", "lost", "returned", "refused", "saved"}]]
  /\ worker \in [Attempts -> [pc : JobStates, owned : {"nothing", "lease", "both"}]]
  /\ waits \subseteq Attempts \X {"call", "sure"} /\ quiet \subseteq Attempts /\ shut \in BOOLEAN
  /\ request \in [Requests -> {"idle", "ending", "evict", "evicting", "evicted", "remove", "removed", "kept"}]
  /\ stored \in [exists : BOOLEAN, pristine : BOOLEAN, bound : BOOLEAN, session : {"none", "saved"},
                 pooled : BOOLEAN, evicting : BOOLEAN]
  /\ Leased => stored.pooled

\* A credential that a claim returned is saved or its save was tried, whatever happened to the
\* attempt; one that is not saved can still be, or the user was told so by a failure that asks for
\* another token or by the cancellation ("Claimed credentials are never rolled back").
CredentialNotLost ==
  \A a \in Attempts : InJob(a, "none") =>
    /\ setup[a].claim \notin {"asked", "returned"}
    /\ setup[a].claim \in {"lost", "refused"} => CanRetrySave(a) \/ setup[a].failure \in {"reenter", "revoke"}

\* A profile for which a claim began is not removed as abandoned (Retains; docs/architecture/
\* interfaces.md: only while it holds no saved state and no SimpleFIN claim).  It holds of one request:
\* of two that overlap, the first may have asked before a claim that the second then ends.
RetainedStays == [][stored.exists /\ ~stored'.exists => \A a \in Attempts : setup[a].claim = "none"]_setupVars

\* No attempt waits for a job that is not there.
NoDeadEnd == \A a \in Attempts : InJob(a, "none") => setup[a].state \notin Waiting

\* Once a cancellation was answered, nothing of the attempt runs, holds the profile or changes it.
QuietAfterCancel ==
  \A a \in quiet : InJob(a, "none") /\ setup[a].flow = "none" /\ setup[a].state = "canceled"

\* A job past its inspection works on a profile its attempt holds.
WorksWhileHeld ==
  \A a \in Attempts :
    worker[a].pc \in {"look", "found", "claim", "claimed", "save", "flag", "load", "import"} => setup[a].flow = "held"

Leaving(a) == <<a, "sure">> \in waits
Gone(a) == setup[a].flow = "none" /\ worker[a] = None

\* CancelProfile gives the profile back in the end.
CancelReleases == \A a \in Attempts : Leaving(a) ~> Gone(a)
================================================================================
