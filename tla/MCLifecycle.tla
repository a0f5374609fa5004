------------------------------ MODULE MCLifecycle -------------------------------
(***************************************************************************)
(* What holds a profile between a request and the end of the process, each  *)
(* part checked by itself: the pool of opened services (ProfilePool), the   *)
(* attempts to connect a provider (Onboarding, SimpleFINSetup) and those to *)
(* import Amazon files (AmazonImport).  The parts share no step, so that    *)
(* one of them is chosen at the start and the others stand still.           *)
(***************************************************************************)
EXTENDS ProfilePool

CONSTANTS
  p1, p2, c1, c2, c3, e1, e2, e3,
  Attempts, a1,  \* attempts to set up SimpleFIN or to import files, and one of them
  Connecting,    \* attempts of Onboarding, a1 among them
  Slots,         \* bound: jobs of one attempt of Onboarding
  Requests,      \* requests that cancel a new profile
  Directories    \* imports of a directory

\* 0 is no job, and who imports is told apart from whom.
ASSUME LifecycleAssumption ==
  /\ 0 \notin Slots
  /\ NoEntry \notin Attempts \cup Directories
  /\ Attempts \cap Directories = {}

MCProfiles == {p1, p2}
MCCallers == {c1, c2, c3}
MCTemporaries == {p2}

VARIABLES
  part,
  crowd,                                                      \* of the pool: who takes part
  attempt, job, duties, answered, bound, elsewhere, shutdown, \* Onboarding
  setup, worker, waits, quiet, request, stored, shut,         \* SimpleFINSetup
  state, work, asked, files, stages, idle, current, ended, profile, importing, removed, acknowledged,
  installed                                                   \* AmazonImport

Connect == INSTANCE Onboarding WITH Attempts <- Connecting, profile <- bound, closed <- shutdown
connectVars == <<attempt, job, duties, answered, bound, elsewhere, shutdown>>

Setup == INSTANCE SimpleFINSetup
setupVars == <<setup, worker, waits, quiet, request, stored, shut>>

Amazon == INSTANCE AmazonImport WITH NoOne <- NoEntry, closed <- ended, answered <- acknowledged
amazonVars ==
  <<state, work, asked, files, stages, idle, current, ended, profile, importing, removed, acknowledged,
    installed>>

\* Bounds.  Three callers share a profile, or two callers two of them; at most two calls wait to
\* release one connect attempt; SimpleFIN is set up for a pristine profile.
InBounds ==
  /\ IF crowd THEN \A c \in Callers : calls'[c].profile # p2 ELSE calls'[c3].pc = "idle"
  /\ Cardinality(duties') <= 2

MCInit ==
  /\ part \in {"pool", "connect", "setup", "amazon"}
  /\ crowd \in BOOLEAN
  /\ Init /\ Connect!Init /\ Setup!Init /\ Amazon!Init
  /\ part # "pool" => crowd
  /\ part # "connect" => bound.pristine
  /\ stored.pristine

MCNext ==
  /\ \/ part = "pool" /\ Next /\ UNCHANGED <<connectVars, setupVars, amazonVars>>
     \/ part = "connect" /\ Connect!Next /\ UNCHANGED <<vars, setupVars, amazonVars>>
     \/ part = "setup" /\ Setup!Next /\ UNCHANGED <<vars, connectVars, amazonVars>>
     \/ part = "amazon" /\ Amazon!Next /\ UNCHANGED <<vars, connectVars, setupVars>>
  /\ InBounds
  /\ UNCHANGED <<part, crowd>>

\* The fairness of each part.
MCFairness ==
  /\ \A c \in Callers : WF_vars(part = "pool" /\ Continue(c)) /\ WF_vars(part = "pool" /\ Release(c))
  /\ \A a \in Connecting, s \in Slots : WF_connectVars(part = "connect" /\ Connect!Work(a, s))
  /\ \A d \in Connect!Duties : WF_connectVars(part = "connect" /\ d \in duties /\ Connect!FinishDuty(d))
  /\ \A a \in Attempts :
       /\ WF_setupVars(part = "setup" /\ Setup!Work(a))
       /\ WF_setupVars(part = "setup" /\ <<a, "sure">> \in waits /\ Setup!Release(<<a, "sure">>))
       /\ WF_amazonVars(part = "amazon" /\ Amazon!Working(a))

MCSpec ==
  /\ MCInit /\ [][MCNext]_<<part, crowd, vars, connectVars, setupVars, amazonVars>>
  /\ MCFairness

\* The properties of the parts together.  The shapes: of pools, attempts and jobs.
ShapesKept ==
  /\ part = "pool" => TypeOK
  /\ part = "connect" => Connect!TypeOK
  /\ part = "setup" => Setup!Types
  /\ part = "amazon" => Amazon!TypeOK

\* No attempt waits for a job that is not there, and no claimed credential is lost without a word
\* (NoSilentStall, NoDeadEnd, CredentialNotLost).
NothingStalls ==
  /\ part = "connect" => Connect!NoSilentStall
  /\ part = "setup" => Setup!NoDeadEnd /\ Setup!CredentialNotLost

\* Jobs work on a profile their attempt holds, and an attempt that is over holds none (UseWhileHeld,
\* WorksWhileHeld of either, EndedHoldsNothing).
WorkedOnWhileHeld ==
  /\ part = "connect" => Connect!UseWhileHeld
  /\ part = "setup" => Setup!WorksWhileHeld
  /\ part = "amazon" => Amazon!WorksWhileHeld /\ Amazon!EndedHoldsNothing

\* Once a cancellation is answered nothing of the attempt is at work (AnsweredIsQuiet,
\* QuietAfterCancel).
QuietOnceAnswered ==
  /\ part = "connect" => Connect!AnsweredIsQuiet
  /\ part = "setup" => Setup!QuietAfterCancel

\* A canceled attempt stays canceled and installs nothing, and a profile with a claim is not removed
\* by requests that do not overlap (CanceledStays, CanceledIsFinal, RetainedStays).
CancellationsAreFinal == Connect!CanceledStays /\ Amazon!CanceledIsFinal /\ Setup!RetainedStays

Owed ==
  CASE part = "pool" -> closed
    [] part = "connect" -> Connect!Leaving(a1)
    [] part = "setup" -> Setup!Leaving(a1)
    [] part = "amazon" -> ended
Paid ==
  CASE part = "pool" -> Drained
    [] part = "connect" -> Connect!Gone(a1)
    [] part = "setup" -> Setup!Gone(a1)
    [] part = "amazon" -> Amazon!Unheld

\* ShutdownDrains, LetsGo, CancelReleases and CloseReleases, each in its own part; the attempts of a
\* part are interchangeable.  Whoever has to give a profile back does, without any further call.
ProfileGivenBack == Owed ~> Paid
================================================================================
