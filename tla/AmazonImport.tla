------------------------------ MODULE AmazonImport ------------------------------
(***************************************************************************)
(* Attempts to import uploaded Amazon files into one profile.               *)
(*                                                                          *)
(* An attempt holds the profile (a shared lock) from its start, and the     *)
(* import lock of the profile from the moment it begins to stage the        *)
(* uploaded files.  Staging, parsing and installing run without the mutex   *)
(* of the coordinator, next to cancellations, other starts and the close of *)
(* the process; imports from a directory, also those of other processes,    *)
(* compete for the same locks.  An attempt nobody touches for 30 minutes is *)
(* cleaned up by the next request that finds it.                            *)
(*                                                                          *)
(* A request whose state version is stale is refused and changes nothing;   *)
(* progress and results are left out.                                       *)
(*                                                                          *)
(* Sources: internal/amazonimport/coordinator.go, attempts.go, staging.go;  *)
(* internal/assembly/amazon.go.                                             *)
(***************************************************************************)
EXTENDS Naturals, FiniteSets

CONSTANTS
  Attempts,    \* attempts to import uploaded files
  Directories, \* imports of a directory
  NoOne

VARIABLES
  state,     \* attempt.state, "new" before it is registered and "refused"
  work,      \* what an attempt or a directory import is doing without the mutex
  asked,     \* attempt.cancelRequested
  files,     \* attempts that have staged files
  stages,    \* stage directories that exist
  idle,      \* attempts nobody has touched for 30 minutes
  current,   \* the attempt of the profile
  closed,
  profile,   \* holders of the profile's shared lock
  importing, \* holder of the profile's import lock
  removed,   \* the profile was removed
  answered,  \* history: attempts whose cancellation was answered
  installed  \* history: attempts and directory imports that were installed

vars == <<state, work, asked, files, stages, idle, current, closed, profile, importing, removed,
          answered, installed>>

States == {"new", "refused", "source_required", "parsing", "installing", "complete", "failed", "canceled"}
Terminal == {"complete", "failed", "canceled"}
Works == {"none", "resolved", "staging", "writing", "written", "unwritten", "interrupted",
          "parsing", "installing", "installed", "refused", "checked", "locked", "parsed"}
Running(a) == work[a] \notin {"none", "resolved"}

\* cleanupAttempt: what the attempt recorded as its own.
Cleanup(a) ==
  /\ files' = files \ {a} /\ stages' = IF a \in files THEN stages \ {a} ELSE stages
  /\ importing' = IF importing = a THEN NoOne ELSE importing
  /\ profile' = profile \ {a}

Cleaned == UNCHANGED <<files, stages, importing, profile>>

\* A request finds the attempt of the profile; one that was idle too long is cleaned up instead.
Found(a) == current = a /\ ~(idle[a] /\ ~Running(a))
Touched(a) == idle' = [idle EXCEPT ![a] = FALSE]
Do(a, w) == work' = [work EXCEPT ![a] = w]
Set(a, s) == state' = [state EXCEPT ![a] = s]

--------------------------------------------------------------------------------
(* Requests.                                                                  *)

\* Start, before the mutex: the profile is resolved and locked.
Resolve(a) ==
  /\ state[a] = "new" /\ work[a] = "none" /\ ~removed
  /\ Do(a, "resolved") /\ profile' = profile \cup {a}
  /\ UNCHANGED <<state, asked, files, stages, idle, current, closed, importing, removed, answered, installed>>

Outlived == current # NoOne /\ idle[current] /\ ~Running(current)
Occupied == /\ current # NoOne /\ ~Outlived
            /\ Running(current) \/ state[current] \notin Terminal

Refuse(a) == Set(a, "refused") /\ profile' = profile \ {a} /\ UNCHANGED <<files, stages, importing, current>>
Replace(a) ==
  /\ current' = a /\ Set(a, "source_required")
  /\ IF Outlived THEN Cleanup(current) ELSE Cleaned

\* Start: an attempt that is idle too long makes way, and so does one that has ended.
Register(a) ==
  /\ work[a] = "resolved" /\ Do(a, "none") /\ Touched(a)
  /\ IF closed \/ Occupied THEN Refuse(a) ELSE Replace(a)
  /\ UNCHANGED <<asked, closed, removed, answered, installed>>

\* Stage takes the import lock under the mutex; an attempt that has it is refused as well.
Stage(a) ==
  /\ Found(a) /\ Touched(a) /\ state[a] = "source_required" /\ importing = NoOne
  /\ importing' = a /\ Do(a, "staging") /\ asked' = asked \ {a}
  /\ UNCHANGED <<state, files, stages, current, closed, profile, removed, answered, installed>>

\* stageUploads makes the stage directory and removes others, if they are old.
Write(a) ==
  /\ work[a] = "staging"
  /\ \/ Do(a, "unwritten") /\ UNCHANGED stages
     \/ \E old \in SUBSET (stages \ {a}) : Do(a, "writing") /\ stages' = (stages \ old) \cup {a}
  /\ UNCHANGED <<state, asked, files, idle, current, closed, profile, importing, removed, answered, installed>>

\* The files are complete, or what was written is removed after an error or an interruption: by
\* Cancel, which the reads of the upload notice, or by the end of the request.
Written(a) ==
  /\ work[a] = "writing"
  /\ \/ a \notin asked /\ Do(a, "written") /\ UNCHANGED stages
     \/ \E w \in {"unwritten", "interrupted"} : Do(a, w) /\ stages' = stages \ {a}
  /\ UNCHANGED <<state, asked, files, idle, current, closed, profile, importing, removed, answered, installed>>

\* The end of Stage, under the mutex again.
Staged(a) ==
  /\ work[a] \in {"written", "unwritten", "interrupted"} /\ Do(a, "none")
  /\ \/ /\ closed /\ current' = NoOne /\ stages' = stages \ {a} /\ files' = files \ {a}
        /\ importing' = NoOne /\ profile' = profile \ {a} /\ UNCHANGED state
     \/ /\ ~closed /\ (a \in asked \/ work[a] = "interrupted")
        /\ Set(a, "canceled") /\ Cleanup(a) /\ UNCHANGED current
     \/ /\ ~closed /\ a \notin asked /\ work[a] = "unwritten" /\ importing' = NoOne
        /\ UNCHANGED <<state, files, stages, profile, current>>
     \/ /\ ~closed /\ a \notin asked /\ work[a] = "written" /\ files' = files \cup {a}
        /\ UNCHANGED <<state, stages, importing, profile, current>>
  /\ UNCHANGED <<asked, idle, closed, removed, answered, installed>>

Execute(a) ==
  /\ Found(a) /\ Touched(a) /\ state[a] = "source_required" /\ a \in files /\ importing = a
  /\ Set(a, "parsing") /\ Do(a, "parsing") /\ asked' = asked \ {a}
  /\ UNCHANGED <<files, stages, current, closed, profile, importing, removed, answered, installed>>

\* finish, also after a panic.
Finish(a, result) ==
  Do(a, "none") /\ Set(a, IF a \in asked THEN "canceled" ELSE result) /\ Cleanup(a)

\* Mutant of Parsed: a cancellation while parsing is forgotten.
ParsedAnyway(a) ==
  /\ work[a] = "parsing"
  /\ \/ Set(a, "installing") /\ Do(a, "installing") /\ Cleaned
     \/ \E result \in {"failed", "canceled"} : Finish(a, result)
  /\ UNCHANGED <<asked, idle, current, closed, removed, answered, installed>>
\* The parse ended: with a candidate, an error, an interruption or a panic.
Parsed(a) ==
  /\ work[a] = "parsing"
  /\ \/ a \notin asked /\ Set(a, "installing") /\ Do(a, "installing") /\ Cleaned
     \/ \E result \in {"failed", "canceled"} : Finish(a, result)
  /\ UNCHANGED <<asked, idle, current, closed, removed, answered, installed>>

Install(a) ==
  /\ work[a] = "installing"
  /\ \/ Do(a, "installed") /\ installed' = installed \cup {a}
     \/ Do(a, "refused") /\ UNCHANGED installed
  /\ UNCHANGED <<state, asked, files, stages, idle, current, closed, profile, importing, removed, answered>>

Installed(a) ==
  /\ work[a] \in {"installed", "refused"}
  /\ Finish(a, IF work[a] = "installed" THEN "complete" ELSE "failed")
  /\ UNCHANGED <<asked, idle, current, closed, removed, answered, installed>>

\* Cancel is refused once the attempt installs, or has ended.
Cancel(a) ==
  /\ Found(a) /\ Touched(a) /\ state[a] # "installing" /\ (state[a] \in Terminal => Running(a))
  /\ Set(a, "canceled") /\ answered' = answered \cup {a}
  /\ IF Running(a) THEN asked' = asked \cup {a} /\ Cleaned ELSE Cleanup(a) /\ UNCHANGED asked
  /\ UNCHANGED <<work, current, closed, removed, installed>>

\* Any request that finds an idle attempt.
Expire(a) ==
  /\ current = a /\ ~Found(a) /\ current' = NoOne /\ Cleanup(a)
  /\ UNCHANGED <<state, work, asked, idle, closed, removed, answered, installed>>

Status(a) ==
  /\ Found(a) /\ idle[a] /\ Touched(a)
  /\ UNCHANGED <<state, work, asked, files, stages, current, closed, profile, importing, removed, answered, installed>>

--------------------------------------------------------------------------------
(* Imports of a directory, here or in another process, and the rest.          *)

Held(d) == work[d] \in {"locked", "parsed"}

\* ImportDirectory: resolve, lock, parse and install, or let go after an error.
ResolveDirectory(d) ==
  /\ work[d] = "none" /\ ~removed /\ Do(d, "checked") /\ profile' = profile \cup {d}
  /\ UNCHANGED <<importing, installed>>
LockDirectory(d) ==
  /\ work[d] = "checked" /\ importing = NoOne /\ Do(d, "locked") /\ importing' = d
  /\ UNCHANGED <<profile, installed>>
ParseDirectory(d) ==
  work[d] = "locked" /\ Do(d, "parsed") /\ UNCHANGED <<profile, importing, installed>>
InstallDirectory(d) ==
  /\ work[d] = "parsed" /\ Do(d, "installed") /\ installed' = installed \cup {d}
  /\ profile' = profile \ {d} /\ importing' = NoOne
LeaveDirectory(d) ==
  /\ work[d] \in {"checked", "locked", "parsed"} /\ Do(d, "refused") /\ profile' = profile \ {d}
  /\ importing' = (IF importing = d THEN NoOne ELSE importing) /\ UNCHANGED installed
ImportDirectory(d) ==
  /\ ResolveDirectory(d) \/ LockDirectory(d) \/ ParseDirectory(d) \/ InstallDirectory(d) \/ LeaveDirectory(d)
  /\ UNCHANGED <<state, asked, files, stages, idle, current, closed, removed, answered>>

Age ==
  /\ current # NoOne /\ ~idle[current] /\ idle' = [idle EXCEPT ![current] = TRUE]
  /\ UNCHANGED <<state, work, asked, files, stages, current, closed, profile, importing, removed, answered, installed>>

Close ==
  /\ ~closed /\ closed' = TRUE
  /\ IF current # NoOne /\ ~Running(current) THEN Cleanup(current) /\ current' = NoOne
                                             ELSE Cleaned /\ UNCHANGED current
  /\ UNCHANGED <<state, work, asked, idle, removed, answered, installed>>

\* Whoever removes or recreates the profile has its lock alone.
RemoveProfile ==
  /\ profile = {} /\ ~removed /\ removed' = TRUE /\ stages' = {}
  /\ UNCHANGED <<state, work, asked, files, idle, current, closed, profile, importing, answered, installed>>

Init ==
  /\ state = [a \in Attempts |-> "new"] /\ work = [x \in Attempts \cup Directories |-> "none"]
  /\ asked = {} /\ files = {} /\ stages = {} /\ idle = [a \in Attempts |-> FALSE]
  /\ current = NoOne /\ closed = FALSE /\ profile = {} /\ importing = NoOne /\ removed = FALSE
  /\ answered = {} /\ installed = {}

Working(a) == Register(a) \/ Write(a) \/ Written(a) \/ Staged(a) \/ Parsed(a) \/ Install(a) \/ Installed(a)
Next ==
  \/ \E a \in Attempts :
       \/ Resolve(a) \/ Stage(a) \/ Execute(a) \/ Cancel(a) \/ Expire(a) \/ Status(a)
       \/ Working(a)
  \/ \E d \in Directories : ImportDirectory(d)
  \/ Age \/ Close \/ RemoveProfile

Spec == Init /\ [][Next]_vars

\* What the coordinator does by itself goes on; users, time and shutdown may never come.
FairSpec == Spec /\ \A a \in Attempts : WF_vars(Working(a))

--------------------------------------------------------------------------------
(* Properties                                                                 *)

\* Types; and an attempt that says it parses or installs does.
TypeOK ==
  /\ state \in [Attempts -> States] /\ work \in [Attempts \cup Directories -> Works]
  /\ asked \subseteq Attempts /\ files \subseteq Attempts /\ stages \subseteq Attempts
  /\ idle \in [Attempts -> BOOLEAN] /\ current \in Attempts \cup {NoOne} /\ closed \in BOOLEAN
  /\ profile \subseteq Attempts \cup Directories /\ importing \in Attempts \cup Directories \cup {NoOne}
  /\ removed \in BOOLEAN /\ answered \subseteq Attempts /\ installed \subseteq Attempts \cup Directories
  /\ \A a \in Attempts : state[a] \in {"parsing", "installing"} => Running(a)

\* Whatever is staging, parsing or installing, or has files to be parsed, holds the profile and its
\* import lock, and the files are there; so no two imports meet and the profile is not removed.
WorksWhileHeld ==
  /\ \A a \in Attempts : Running(a) \/ a \in files => importing = a /\ a \in profile
  /\ \A d \in Directories : Held(d) => importing = d /\ d \in profile
  /\ files \subseteq stages /\ (removed => profile = {})

\* An attempt that is over holds nothing: neither the import lock nor the profile, which could
\* then be neither imported into nor removed until the process ends.
EndedHoldsNothing ==
  \A a \in Attempts :
    work[a] = "none" /\ (current # a \/ state[a] \in Terminal) =>
      importing # a /\ a \notin profile /\ a \notin files

\* After an answered cancellation nothing of the attempt is installed.
CanceledIsFinal == [][\A a \in answered : a \in installed' => a \in installed]_vars

Unheld == profile \cap Attempts = {} /\ importing \notin Attempts

\* A closed coordinator lets go of the profile, whatever was running.
CloseReleases == closed ~> Unheld
================================================================================
