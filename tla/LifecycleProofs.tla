---------------------------- MODULE LifecycleProofs ----------------------------
(***************************************************************************)
(* What the parts of MCLifecycle keep, for every value of the constants of  *)
(* each: whatever attempts, jobs, slots, requests and callers there are.    *)
(*                                                                          *)
(* Each part of attempts has an inductive invariant (AmazonInv, SetupInv,   *)
(* ConnectInv) that says where a job and its attempt are together: what an  *)
(* attempt holds while work goes on outside the coordinator's mutex, what   *)
(* the answer it waits for will be used with, and that nothing is left to   *)
(* run once a cancellation was answered.  A step of one part leaves the     *)
(* other ones' variables alone, so MCSpec implements the specification of   *)
(* each part; the pool's theorems are those of ProfilePoolProofs.           *)
(***************************************************************************)
EXTENDS MCLifecycle, ProfilePoolProofs

--------------------------------------------------------------------------------
(* Attempts to import Amazon files, and imports of a directory               *)

AmazonParts == NoEntry \notin Attempts \cup Directories /\ Attempts \cap Directories = {}

StagingWorks == {"staging", "writing", "written", "unwritten", "interrupted"}
InstallingWorks == {"installing", "installed", "refused"}

Nothing(a) == importing # a /\ a \notin profile /\ a \notin files

\* Where an attempt is, and what it holds there.
Stands(a) ==
  /\ work[a] \in {"none", "resolved", "parsing"} \cup StagingWorks \cup InstallingWorks
  /\ current = a => state[a] \notin {"new", "refused"} /\ work[a] # "resolved"
  /\ current = a /\ state[a] \notin Amazon!Terminal => a \in profile
  /\ work[a] = "resolved" => state[a] = "new" /\ a \in profile /\ importing # a /\ a \notin files
  /\ work[a] = "none" => state[a] \notin {"parsing", "installing"}
  /\ work[a] = "none" /\ (current # a \/ state[a] \in Amazon!Terminal) => Nothing(a)
  /\ Amazon!Running(a) => current = a /\ importing = a /\ a \in profile
  /\ a \in files => importing = a /\ a \in profile /\ a \in stages
\* What its work is for; a cancellation that was asked for has been recorded.
Pursues(a) ==
  /\ work[a] \in StagingWorks => a \notin files /\ state[a] \in {"source_required", "canceled"}
  /\ work[a] \in {"writing", "written"} => a \in stages
  /\ work[a] = "parsing" => state[a] \in {"parsing", "canceled"}
  /\ work[a] \in InstallingWorks => state[a] = "installing"
  /\ Amazon!Running(a) /\ state[a] = "canceled" => a \in asked
  /\ a \in acknowledged => state[a] = "canceled"

Directory(d) ==
  /\ Amazon!Held(d) <=> importing = d
  /\ Amazon!Held(d) \/ work[d] = "checked" => d \in profile

AmazonAttempt(a) == Stands(a) /\ Pursues(a)
AmazonGone == removed => profile = {}

AmazonInv ==
  /\ Amazon!TypeOK
  /\ \A a \in Attempts : AmazonAttempt(a)
  /\ \A d \in Directories : Directory(d)
  /\ AmazonGone

LEMMA ResolveKeeps ==
  ASSUME AmazonParts, AmazonInv, NEW a \in Attempts, Amazon!Resolve(a) PROVE AmazonInv'
<1> USE DEF AmazonInv, AmazonParts
<1>1. Amazon!TypeOK'
  BY DEF Amazon!TypeOK, Amazon!Resolve, Amazon!Do, Amazon!States, Amazon!Works, Amazon!Running,
     AmazonAttempt, Stands, Amazon!Terminal, StagingWorks, InstallingWorks
<1>2. AmazonAttempt(a)'
  BY DEF Amazon!TypeOK, Amazon!Resolve, Amazon!Do, Stands, Pursues, AmazonAttempt, Amazon!Running,
     Nothing, StagingWorks, InstallingWorks, Amazon!Terminal
<1>3. ASSUME NEW b \in Attempts, b # a PROVE AmazonAttempt(b)'
  BY <1>3 DEF Amazon!TypeOK, Amazon!Resolve, Amazon!Do, Stands, Pursues, AmazonAttempt, Amazon!Running,
     Nothing, StagingWorks, InstallingWorks, Amazon!Terminal
<1>4. ASSUME NEW e \in Directories PROVE Directory(e)'
  BY <1>4 DEF Amazon!TypeOK, Amazon!Resolve, Amazon!Do, Directory, Amazon!Held, Stands, Pursues,
     AmazonAttempt, Amazon!Running, Nothing, StagingWorks, InstallingWorks, Amazon!Terminal
<1>5. AmazonGone'
  BY DEF AmazonGone, Amazon!TypeOK, Amazon!Resolve, Amazon!Do, Stands, Pursues, AmazonAttempt,
     Amazon!Running, Nothing, StagingWorks, InstallingWorks, Amazon!Terminal
<1> QED
  BY <1>1, <1>2, <1>3, <1>4, <1>5

LEMMA StageKeeps ==
  ASSUME AmazonParts, AmazonInv, NEW a \in Attempts, Amazon!Stage(a) PROVE AmazonInv'
<1> USE DEF AmazonInv, AmazonParts
<1>1. Amazon!TypeOK'
  BY DEF Amazon!TypeOK, Amazon!Stage, Amazon!Found, Amazon!Touched, Amazon!Do, Amazon!States,
     Amazon!Works, Amazon!Running, AmazonAttempt, Stands, Amazon!Terminal, StagingWorks, InstallingWorks
<1>2. AmazonAttempt(a)'
  BY DEF Amazon!TypeOK, Amazon!Stage, Amazon!Found, Amazon!Touched, Amazon!Do, Stands, Pursues,
     AmazonAttempt, Amazon!Running, Nothing, StagingWorks, InstallingWorks, Amazon!Terminal
<1>3. ASSUME NEW b \in Attempts, b # a PROVE AmazonAttempt(b)'
  BY <1>3 DEF Amazon!TypeOK, Amazon!Stage, Amazon!Found, Amazon!Touched, Amazon!Do, Stands, Pursues,
     AmazonAttempt, Amazon!Running, Nothing, StagingWorks, InstallingWorks, Amazon!Terminal
<1>4. ASSUME NEW e \in Directories PROVE Directory(e)'
  BY <1>4 DEF Amazon!TypeOK, Amazon!Stage, Amazon!Found, Amazon!Touched, Amazon!Do, Directory,
     Amazon!Held, Stands, Pursues, AmazonAttempt, Amazon!Running, Nothing, StagingWorks, InstallingWorks,
     Amazon!Terminal
<1>5. AmazonGone'
  BY DEF AmazonGone, Amazon!TypeOK, Amazon!Stage, Amazon!Found, Amazon!Touched, Amazon!Do, Stands,
     Pursues, AmazonAttempt, Amazon!Running, Nothing, StagingWorks, InstallingWorks, Amazon!Terminal
<1> QED
  BY <1>1, <1>2, <1>3, <1>4, <1>5

LEMMA ExecuteKeeps ==
  ASSUME AmazonParts, AmazonInv, NEW a \in Attempts, Amazon!Execute(a) PROVE AmazonInv'
<1> USE DEF AmazonInv, AmazonParts
<1>1. Amazon!TypeOK'
  BY DEF Amazon!TypeOK, Amazon!Execute, Amazon!Found, Amazon!Touched, Amazon!Do, Amazon!Set,
     Amazon!States, Amazon!Works, Amazon!Running, AmazonAttempt, Stands, Amazon!Terminal, StagingWorks,
     InstallingWorks
<1>2. AmazonAttempt(a)'
  BY DEF Amazon!TypeOK, Amazon!Execute, Amazon!Found, Amazon!Touched, Amazon!Do, Amazon!Set, Stands,
     Pursues, AmazonAttempt, Amazon!Running, Nothing, StagingWorks, InstallingWorks, Amazon!Terminal
<1>3. ASSUME NEW b \in Attempts, b # a PROVE AmazonAttempt(b)'
  BY <1>3 DEF Amazon!TypeOK, Amazon!Execute, Amazon!Found, Amazon!Touched, Amazon!Do, Amazon!Set,
     Stands, Pursues, AmazonAttempt, Amazon!Running, Nothing, StagingWorks, InstallingWorks,
     Amazon!Terminal
<1>4. ASSUME NEW e \in Directories PROVE Directory(e)'
  BY <1>4 DEF Amazon!TypeOK, Amazon!Execute, Amazon!Found, Amazon!Touched, Amazon!Do, Amazon!Set,
     Directory, Amazon!Held, Stands, Pursues, AmazonAttempt, Amazon!Running, Nothing, StagingWorks,
     InstallingWorks, Amazon!Terminal
<1>5. AmazonGone'
  BY DEF AmazonGone, Amazon!TypeOK, Amazon!Execute, Amazon!Found, Amazon!Touched, Amazon!Do, Amazon!Set,
     Stands, Pursues, AmazonAttempt, Amazon!Running, Nothing, StagingWorks, InstallingWorks,
     Amazon!Terminal
<1> QED
  BY <1>1, <1>2, <1>3, <1>4, <1>5

LEMMA AmazonCancelKeeps ==
  ASSUME AmazonParts, AmazonInv, NEW a \in Attempts, Amazon!Cancel(a) PROVE AmazonInv'
<1> USE DEF AmazonInv, AmazonParts
<1>1. Amazon!TypeOK'
  BY DEF Amazon!TypeOK, Amazon!Cancel, Amazon!Found, Amazon!Touched, Amazon!Set, Amazon!Cleanup,
     Amazon!Cleaned, Amazon!States, Amazon!Works, Amazon!Running, AmazonAttempt, Stands,
     Amazon!Terminal, StagingWorks, InstallingWorks
<1>2. AmazonAttempt(a)'
  BY DEF Amazon!TypeOK, Amazon!Cancel, Amazon!Found, Amazon!Touched, Amazon!Set, Amazon!Cleanup,
     Amazon!Cleaned, Stands, Pursues, AmazonAttempt, Amazon!Running, Nothing, StagingWorks,
     InstallingWorks, Amazon!Terminal
<1>3. ASSUME NEW b \in Attempts, b # a PROVE AmazonAttempt(b)'
  BY <1>3 DEF Amazon!TypeOK, Amazon!Cancel, Amazon!Found, Amazon!Touched, Amazon!Set, Amazon!Cleanup,
     Amazon!Cleaned, Stands, Pursues, AmazonAttempt, Amazon!Running, Nothing, StagingWorks,
     InstallingWorks, Amazon!Terminal
<1>4. ASSUME NEW e \in Directories PROVE Directory(e)'
  BY <1>4 DEF Amazon!TypeOK, Amazon!Cancel, Amazon!Found, Amazon!Touched, Amazon!Set, Amazon!Cleanup,
     Amazon!Cleaned, Directory, Amazon!Held, Stands, Pursues, AmazonAttempt, Amazon!Running, Nothing,
     StagingWorks, InstallingWorks, Amazon!Terminal
<1>5. AmazonGone'
  BY DEF AmazonGone, Amazon!TypeOK, Amazon!Cancel, Amazon!Found, Amazon!Touched, Amazon!Set,
     Amazon!Cleanup, Amazon!Cleaned, Stands, Pursues, AmazonAttempt, Amazon!Running, Nothing,
     StagingWorks, InstallingWorks, Amazon!Terminal
<1> QED
  BY <1>1, <1>2, <1>3, <1>4, <1>5

LEMMA ExpireKeeps ==
  ASSUME AmazonParts, AmazonInv, NEW a \in Attempts, Amazon!Expire(a) PROVE AmazonInv'
<1> USE DEF AmazonInv, AmazonParts
<1>1. Amazon!TypeOK'
  BY DEF Amazon!TypeOK, Amazon!Expire, Amazon!Found, Amazon!Cleanup, Amazon!States, Amazon!Works,
     Amazon!Running, AmazonAttempt, Stands, Amazon!Terminal, StagingWorks, InstallingWorks
<1>2. AmazonAttempt(a)'
  BY DEF Amazon!TypeOK, Amazon!Expire, Amazon!Found, Amazon!Cleanup, Stands, Pursues, AmazonAttempt,
     Amazon!Running, Nothing, StagingWorks, InstallingWorks, Amazon!Terminal
<1>3. ASSUME NEW b \in Attempts, b # a PROVE AmazonAttempt(b)'
  BY <1>3 DEF Amazon!TypeOK, Amazon!Expire, Amazon!Found, Amazon!Cleanup, Stands, Pursues, AmazonAttempt,
     Amazon!Running, Nothing, StagingWorks, InstallingWorks, Amazon!Terminal
<1>4. ASSUME NEW e \in Directories PROVE Directory(e)'
  BY <1>4 DEF Amazon!TypeOK, Amazon!Expire, Amazon!Found, Amazon!Cleanup, Directory, Amazon!Held,
     Stands, Pursues, AmazonAttempt, Amazon!Running, Nothing, StagingWorks, InstallingWorks,
     Amazon!Terminal
<1>5. AmazonGone'
  BY DEF AmazonGone, Amazon!TypeOK, Amazon!Expire, Amazon!Found, Amazon!Cleanup, Stands, Pursues,
     AmazonAttempt, Amazon!Running, Nothing, StagingWorks, InstallingWorks, Amazon!Terminal
<1> QED
  BY <1>1, <1>2, <1>3, <1>4, <1>5

LEMMA StatusKeeps ==
  ASSUME AmazonParts, AmazonInv, NEW a \in Attempts, Amazon!Status(a) PROVE AmazonInv'
<1> USE DEF AmazonInv, AmazonParts
<1>1. Amazon!TypeOK'
  BY DEF Amazon!TypeOK, Amazon!Status, Amazon!Found, Amazon!Touched, Amazon!States, Amazon!Works,
     Amazon!Running, AmazonAttempt, Stands, Amazon!Terminal, StagingWorks, InstallingWorks
<1>2. AmazonAttempt(a)'
  BY DEF Amazon!TypeOK, Amazon!Status, Amazon!Found, Amazon!Touched, Stands, Pursues, AmazonAttempt,
     Amazon!Running, Nothing, StagingWorks, InstallingWorks, Amazon!Terminal
<1>3. ASSUME NEW b \in Attempts, b # a PROVE AmazonAttempt(b)'
  BY <1>3 DEF Amazon!TypeOK, Amazon!Status, Amazon!Found, Amazon!Touched, Stands, Pursues, AmazonAttempt,
     Amazon!Running, Nothing, StagingWorks, InstallingWorks, Amazon!Terminal
<1>4. ASSUME NEW e \in Directories PROVE Directory(e)'
  BY <1>4 DEF Amazon!TypeOK, Amazon!Status, Amazon!Found, Amazon!Touched, Directory, Amazon!Held,
     Stands, Pursues, AmazonAttempt, Amazon!Running, Nothing, StagingWorks, InstallingWorks,
     Amazon!Terminal
<1>5. AmazonGone'
  BY DEF AmazonGone, Amazon!TypeOK, Amazon!Status, Amazon!Found, Amazon!Touched, Stands, Pursues,
     AmazonAttempt, Amazon!Running, Nothing, StagingWorks, InstallingWorks, Amazon!Terminal
<1> QED
  BY <1>1, <1>2, <1>3, <1>4, <1>5

LEMMA RegisterKeeps ==
  ASSUME AmazonParts, AmazonInv, NEW a \in Attempts, Amazon!Register(a) PROVE AmazonInv'
<1> USE DEF AmazonInv, AmazonParts
<1>1. Amazon!TypeOK'
  BY DEF Amazon!TypeOK, Amazon!Register, Amazon!Do, Amazon!Touched, Amazon!Refuse, Amazon!Replace,
     Amazon!Occupied, Amazon!Outlived, Amazon!Cleanup, Amazon!Cleaned, Amazon!Set, Amazon!States,
     Amazon!Works, Amazon!Running, AmazonAttempt, Stands, Amazon!Terminal, StagingWorks, InstallingWorks
<1>2. AmazonAttempt(a)'
  BY DEF Amazon!TypeOK, Amazon!Register, Amazon!Do, Amazon!Touched, Amazon!Refuse, Amazon!Replace,
     Amazon!Occupied, Amazon!Outlived, Amazon!Cleanup, Amazon!Cleaned, Amazon!Set, Stands, Pursues,
     AmazonAttempt, Amazon!Running, Nothing, StagingWorks, InstallingWorks, Amazon!Terminal
<1>3. ASSUME NEW b \in Attempts, b # a PROVE AmazonAttempt(b)'
  BY <1>3 DEF Amazon!TypeOK, Amazon!Register, Amazon!Do, Amazon!Touched, Amazon!Refuse, Amazon!Replace,
     Amazon!Occupied, Amazon!Outlived, Amazon!Cleanup, Amazon!Cleaned, Amazon!Set, Stands, Pursues,
     AmazonAttempt, Amazon!Running, Nothing, StagingWorks, InstallingWorks, Amazon!Terminal
<1>4. ASSUME NEW e \in Directories PROVE Directory(e)'
  BY <1>4 DEF Amazon!TypeOK, Amazon!Register, Amazon!Do, Amazon!Touched, Amazon!Refuse, Amazon!Replace,
     Amazon!Occupied, Amazon!Outlived, Amazon!Cleanup, Amazon!Cleaned, Amazon!Set, Directory,
     Amazon!Held, Stands, Pursues, AmazonAttempt, Amazon!Running, Nothing, StagingWorks, InstallingWorks,
     Amazon!Terminal
<1>5. AmazonGone'
  BY DEF AmazonGone, Amazon!TypeOK, Amazon!Register, Amazon!Do, Amazon!Touched, Amazon!Refuse,
     Amazon!Replace, Amazon!Occupied, Amazon!Outlived, Amazon!Cleanup, Amazon!Cleaned, Amazon!Set,
     Stands, Pursues, AmazonAttempt, Amazon!Running, Nothing, StagingWorks, InstallingWorks,
     Amazon!Terminal
<1> QED
  BY <1>1, <1>2, <1>3, <1>4, <1>5

LEMMA WriteKeeps ==
  ASSUME AmazonParts, AmazonInv, NEW a \in Attempts, Amazon!Write(a) PROVE AmazonInv'
<1> USE DEF AmazonInv, AmazonParts
<1>1. Amazon!TypeOK'
  BY DEF Amazon!TypeOK, Amazon!Write, Amazon!Do, Amazon!States, Amazon!Works, Amazon!Running,
     AmazonAttempt, Stands, Amazon!Terminal, StagingWorks, InstallingWorks
<1>2. AmazonAttempt(a)'
  BY DEF Amazon!TypeOK, Amazon!Write, Amazon!Do, Stands, Pursues, AmazonAttempt, Amazon!Running, Nothing,
     StagingWorks, InstallingWorks, Amazon!Terminal
<1>3. ASSUME NEW b \in Attempts, b # a PROVE AmazonAttempt(b)'
  BY <1>3 DEF Amazon!TypeOK, Amazon!Write, Amazon!Do, Stands, Pursues, AmazonAttempt, Amazon!Running,
     Nothing, StagingWorks, InstallingWorks, Amazon!Terminal
<1>4. ASSUME NEW e \in Directories PROVE Directory(e)'
  BY <1>4 DEF Amazon!TypeOK, Amazon!Write, Amazon!Do, Directory, Amazon!Held, Stands, Pursues,
     AmazonAttempt, Amazon!Running, Nothing, StagingWorks, InstallingWorks, Amazon!Terminal
<1>5. AmazonGone'
  BY DEF AmazonGone, Amazon!TypeOK, Amazon!Write, Amazon!Do, Stands, Pursues, AmazonAttempt,
     Amazon!Running, Nothing, StagingWorks, InstallingWorks, Amazon!Terminal
<1> QED
  BY <1>1, <1>2, <1>3, <1>4, <1>5

LEMMA WrittenKeeps ==
  ASSUME AmazonParts, AmazonInv, NEW a \in Attempts, Amazon!Written(a) PROVE AmazonInv'
<1> USE DEF AmazonInv, AmazonParts
<1>1. Amazon!TypeOK'
  BY DEF Amazon!TypeOK, Amazon!Written, Amazon!Do, Amazon!States, Amazon!Works, Amazon!Running,
     AmazonAttempt, Stands, Amazon!Terminal, StagingWorks, InstallingWorks
<1>2. AmazonAttempt(a)'
  BY DEF Amazon!TypeOK, Amazon!Written, Amazon!Do, Stands, Pursues, AmazonAttempt, Amazon!Running,
     Nothing, StagingWorks, InstallingWorks, Amazon!Terminal
<1>3. ASSUME NEW b \in Attempts, b # a PROVE AmazonAttempt(b)'
  BY <1>3 DEF Amazon!TypeOK, Amazon!Written, Amazon!Do, Stands, Pursues, AmazonAttempt, Amazon!Running,
     Nothing, StagingWorks, InstallingWorks, Amazon!Terminal
<1>4. ASSUME NEW e \in Directories PROVE Directory(e)'
  BY <1>4 DEF Amazon!TypeOK, Amazon!Written, Amazon!Do, Directory, Amazon!Held, Stands, Pursues,
     AmazonAttempt, Amazon!Running, Nothing, StagingWorks, InstallingWorks, Amazon!Terminal
<1>5. AmazonGone'
  BY DEF AmazonGone, Amazon!TypeOK, Amazon!Written, Amazon!Do, Stands, Pursues, AmazonAttempt,
     Amazon!Running, Nothing, StagingWorks, InstallingWorks, Amazon!Terminal
<1> QED
  BY <1>1, <1>2, <1>3, <1>4, <1>5

LEMMA StagedKeeps ==
  ASSUME AmazonParts, AmazonInv, NEW a \in Attempts, Amazon!Staged(a) PROVE AmazonInv'
<1> DEFINE Left == ended /\ current' = NoEntry /\ state' = state
           Quit == ~ended /\ state' = [state EXCEPT ![a] = "canceled"] /\ current' = current
           Kept == ~ended /\ a \notin asked /\ state' = state /\ current' = current /\ profile' = profile
<1> USE DEF AmazonInv, AmazonParts
<1>1. /\ work' = [work EXCEPT ![a] = "none"] /\ UNCHANGED <<asked, idle, ended, removed, acknowledged,
             installed>>
      /\ current = a /\ importing = a /\ a \in profile /\ a \notin files
      /\ state[a] \in {"source_required", "canceled"} /\ (state[a] = "canceled" => a \in asked)
  BY DEF Amazon!Staged, Amazon!Do, Amazon!TypeOK, AmazonAttempt, Stands, Pursues, Amazon!Running,
     StagingWorks
<1>2. \/ /\ Left \/ Quit
         /\ importing' = NoEntry /\ profile' = profile \ {a} /\ files' = files
         /\ stages' \in {stages, stages \ {a}}
      \/ /\ Kept
         /\ \/ importing' = NoEntry /\ files' = files /\ stages' = stages
            \/ importing' = a /\ files' = files \cup {a} /\ stages' = stages /\ work[a] = "written"
  <2>1. files \ {a} = files
    BY <1>1
  <2> QED
    BY <1>1, <2>1 DEF Amazon!Staged, Amazon!Set, Amazon!Cleanup, Amazon!TypeOK
<1>3. Amazon!TypeOK'
  <2>1. state' \in [Attempts -> Amazon!States] /\ work' \in [Attempts \cup Directories -> Amazon!Works]
    BY <1>1, <1>2 DEF Amazon!TypeOK, Amazon!States, Amazon!Works
  <2>2. files' \subseteq Attempts /\ stages' \subseteq Attempts /\ current' \in Attempts \cup {NoEntry}
        /\ profile' \subseteq Attempts \cup Directories
        /\ importing' \in Attempts \cup Directories \cup {NoEntry}
    BY <1>1, <1>2 DEF Amazon!TypeOK
  <2>3. ASSUME NEW b \in Attempts, state'[b] \in {"parsing", "installing"} PROVE Amazon!Running(b)'
    BY <1>1, <1>2, <2>3 DEF Amazon!TypeOK, Amazon!Running
  <2> QED
    BY <1>1, <2>1, <2>2, <2>3 DEF Amazon!TypeOK
<1>4. AmazonAttempt(a)'
  <2>1. CASE a \notin profile'
    BY <1>1, <1>2, <2>1 DEF Amazon!TypeOK, AmazonAttempt, Stands, Pursues, Amazon!Running, Nothing,
       StagingWorks, InstallingWorks, Amazon!Terminal
  <2>2. CASE Kept
    BY <1>1, <1>2, <2>2 DEF Amazon!TypeOK, AmazonAttempt, Stands, Pursues, Amazon!Running, Nothing,
       StagingWorks, InstallingWorks, Amazon!Terminal
  <2> QED
    BY <1>2, <2>1, <2>2
<1>5. ASSUME NEW b \in Attempts, b # a PROVE AmazonAttempt(b)'
  BY <1>1, <1>2, <1>5 DEF Amazon!TypeOK, Stands, Pursues, AmazonAttempt, Amazon!Running, Nothing,
     StagingWorks, InstallingWorks, Amazon!Terminal
<1>6. ASSUME NEW e \in Directories PROVE Directory(e)'
  BY <1>1, <1>2, <1>6 DEF Amazon!TypeOK, Directory, Amazon!Held
<1>7. AmazonGone'
  BY <1>1, <1>2 DEF AmazonGone
<1> QED
  BY <1>3, <1>4, <1>5, <1>6, <1>7

LEMMA ParsedKeeps ==
  ASSUME AmazonParts, AmazonInv, NEW a \in Attempts, Amazon!Parsed(a) PROVE AmazonInv'
<1> USE DEF AmazonInv, AmazonParts
<1>1. Amazon!TypeOK'
  BY DEF Amazon!TypeOK, Amazon!Parsed, Amazon!Do, Amazon!Set, Amazon!Finish, Amazon!Cleanup,
     Amazon!Cleaned, Amazon!States, Amazon!Works, Amazon!Running, AmazonAttempt, Stands,
     Amazon!Terminal, StagingWorks, InstallingWorks
<1>2. AmazonAttempt(a)'
  BY DEF Amazon!TypeOK, Amazon!Parsed, Amazon!Do, Amazon!Set, Amazon!Finish, Amazon!Cleanup,
     Amazon!Cleaned, Stands, Pursues, AmazonAttempt, Amazon!Running, Nothing, StagingWorks,
     InstallingWorks, Amazon!Terminal
<1>3. ASSUME NEW b \in Attempts, b # a PROVE AmazonAttempt(b)'
  BY <1>3 DEF Amazon!TypeOK, Amazon!Parsed, Amazon!Do, Amazon!Set, Amazon!Finish, Amazon!Cleanup,
     Amazon!Cleaned, Stands, Pursues, AmazonAttempt, Amazon!Running, Nothing, StagingWorks,
     InstallingWorks, Amazon!Terminal
<1>4. ASSUME NEW e \in Directories PROVE Directory(e)'
  BY <1>4 DEF Amazon!TypeOK, Amazon!Parsed, Amazon!Do, Amazon!Set, Amazon!Finish, Amazon!Cleanup,
     Amazon!Cleaned, Directory, Amazon!Held, Stands, Pursues, AmazonAttempt, Amazon!Running, Nothing,
     StagingWorks, InstallingWorks, Amazon!Terminal
<1>5. AmazonGone'
  BY DEF AmazonGone, Amazon!TypeOK, Amazon!Parsed, Amazon!Do, Amazon!Set, Amazon!Finish, Amazon!Cleanup,
     Amazon!Cleaned, Stands, Pursues, AmazonAttempt, Amazon!Running, Nothing, StagingWorks,
     InstallingWorks, Amazon!Terminal
<1> QED
  BY <1>1, <1>2, <1>3, <1>4, <1>5

LEMMA AmazonInstallKeeps ==
  ASSUME AmazonParts, AmazonInv, NEW a \in Attempts, Amazon!Install(a) PROVE AmazonInv'
<1> USE DEF AmazonInv, AmazonParts
<1>1. Amazon!TypeOK'
  BY DEF Amazon!TypeOK, Amazon!Install, Amazon!Do, Amazon!States, Amazon!Works, Amazon!Running,
     AmazonAttempt, Stands, Amazon!Terminal, StagingWorks, InstallingWorks
<1>2. AmazonAttempt(a)'
  BY DEF Amazon!TypeOK, Amazon!Install, Amazon!Do, Stands, Pursues, AmazonAttempt, Amazon!Running,
     Nothing, StagingWorks, InstallingWorks, Amazon!Terminal
<1>3. ASSUME NEW b \in Attempts, b # a PROVE AmazonAttempt(b)'
  BY <1>3 DEF Amazon!TypeOK, Amazon!Install, Amazon!Do, Stands, Pursues, AmazonAttempt, Amazon!Running,
     Nothing, StagingWorks, InstallingWorks, Amazon!Terminal
<1>4. ASSUME NEW e \in Directories PROVE Directory(e)'
  BY <1>4 DEF Amazon!TypeOK, Amazon!Install, Amazon!Do, Directory, Amazon!Held, Stands, Pursues,
     AmazonAttempt, Amazon!Running, Nothing, StagingWorks, InstallingWorks, Amazon!Terminal
<1>5. AmazonGone'
  BY DEF AmazonGone, Amazon!TypeOK, Amazon!Install, Amazon!Do, Stands, Pursues, AmazonAttempt,
     Amazon!Running, Nothing, StagingWorks, InstallingWorks, Amazon!Terminal
<1> QED
  BY <1>1, <1>2, <1>3, <1>4, <1>5

LEMMA InstalledKeeps ==
  ASSUME AmazonParts, AmazonInv, NEW a \in Attempts, Amazon!Installed(a) PROVE AmazonInv'
<1> USE DEF AmazonInv, AmazonParts
<1>1. Amazon!TypeOK'
  BY DEF Amazon!TypeOK, Amazon!Installed, Amazon!Do, Amazon!Set, Amazon!Finish, Amazon!Cleanup,
     Amazon!States, Amazon!Works, Amazon!Running, AmazonAttempt, Stands, Amazon!Terminal, StagingWorks,
     InstallingWorks
<1>2. AmazonAttempt(a)'
  BY DEF Amazon!TypeOK, Amazon!Installed, Amazon!Do, Amazon!Set, Amazon!Finish, Amazon!Cleanup, Stands,
     Pursues, AmazonAttempt, Amazon!Running, Nothing, StagingWorks, InstallingWorks, Amazon!Terminal
<1>3. ASSUME NEW b \in Attempts, b # a PROVE AmazonAttempt(b)'
  BY <1>3 DEF Amazon!TypeOK, Amazon!Installed, Amazon!Do, Amazon!Set, Amazon!Finish, Amazon!Cleanup,
     Stands, Pursues, AmazonAttempt, Amazon!Running, Nothing, StagingWorks, InstallingWorks,
     Amazon!Terminal
<1>4. ASSUME NEW e \in Directories PROVE Directory(e)'
  BY <1>4 DEF Amazon!TypeOK, Amazon!Installed, Amazon!Do, Amazon!Set, Amazon!Finish, Amazon!Cleanup,
     Directory, Amazon!Held, Stands, Pursues, AmazonAttempt, Amazon!Running, Nothing, StagingWorks,
     InstallingWorks, Amazon!Terminal
<1>5. AmazonGone'
  BY DEF AmazonGone, Amazon!TypeOK, Amazon!Installed, Amazon!Do, Amazon!Set, Amazon!Finish,
     Amazon!Cleanup, Stands, Pursues, AmazonAttempt, Amazon!Running, Nothing, StagingWorks,
     InstallingWorks, Amazon!Terminal
<1> QED
  BY <1>1, <1>2, <1>3, <1>4, <1>5

LEMMA ImportDirectoryKeeps ==
  ASSUME AmazonParts, AmazonInv, NEW d \in Directories, Amazon!ImportDirectory(d) PROVE AmazonInv'
<1> USE DEF AmazonInv, AmazonParts
<1>1. Amazon!TypeOK'
  BY DEF Amazon!TypeOK, Amazon!ImportDirectory, Amazon!ResolveDirectory, Amazon!LockDirectory,
     Amazon!ParseDirectory, Amazon!InstallDirectory, Amazon!LeaveDirectory, Amazon!Do, Amazon!States,
     Amazon!Works, Amazon!Running
<1>2. ASSUME NEW b \in Attempts PROVE AmazonAttempt(b)'
  BY <1>2 DEF Amazon!TypeOK, Amazon!ImportDirectory, Amazon!ResolveDirectory, Amazon!LockDirectory,
     Amazon!ParseDirectory, Amazon!InstallDirectory, Amazon!LeaveDirectory, Amazon!Do, Amazon!Held,
     Directory, Stands, Pursues, AmazonAttempt, Amazon!Running, Nothing, StagingWorks, InstallingWorks,
     Amazon!Terminal
<1>3. ASSUME NEW e \in Directories PROVE Directory(e)'
  <2>1. CASE e = d
    <3>1. CASE Amazon!ResolveDirectory(d)
      BY <1>3, <2>1, <3>1 DEF Amazon!TypeOK, Amazon!ResolveDirectory, Amazon!Do, Directory, Amazon!Held
    <3>2. CASE Amazon!LockDirectory(d)
      BY <1>3, <2>1, <3>2 DEF Amazon!TypeOK, Amazon!LockDirectory, Amazon!Do, Directory, Amazon!Held
    <3>3. CASE Amazon!ParseDirectory(d)
      BY <1>3, <2>1, <3>3 DEF Amazon!TypeOK, Amazon!ParseDirectory, Amazon!Do, Directory, Amazon!Held
    <3>4. CASE Amazon!InstallDirectory(d) \/ Amazon!LeaveDirectory(d)
      <4>1. work'[e] \in {"installed", "refused"} /\ importing' # e
        BY <1>3, <2>1, <3>4 DEF AmazonParts, Amazon!TypeOK, Amazon!InstallDirectory,
           Amazon!LeaveDirectory, Amazon!Do
      <4> QED
        BY <4>1 DEF Directory, Amazon!Held
    <3> QED
      BY <3>1, <3>2, <3>3, <3>4 DEF Amazon!ImportDirectory
  <2>2. CASE e # d
    <3>1. work'[e] = work[e] /\ (e \in profile => e \in profile') /\ (importing = e => importing' = e)
      BY <1>3, <2>2 DEF Amazon!TypeOK, Amazon!ImportDirectory, Amazon!ResolveDirectory,
         Amazon!LockDirectory, Amazon!ParseDirectory, Amazon!InstallDirectory, Amazon!LeaveDirectory,
         Amazon!Do, Directory, Amazon!Held
    <3>2. importing' = e => importing = e
      BY <1>3, <2>2 DEF Amazon!ImportDirectory, Amazon!ResolveDirectory, Amazon!LockDirectory,
         Amazon!ParseDirectory, Amazon!InstallDirectory, Amazon!LeaveDirectory
    <3> QED
      BY <1>3, <3>1, <3>2 DEF Directory, Amazon!Held
  <2> QED
    BY <2>1, <2>2
<1>4. AmazonGone'
  BY DEF AmazonGone, Amazon!TypeOK, Amazon!ImportDirectory, Amazon!ResolveDirectory,
     Amazon!LockDirectory, Amazon!ParseDirectory, Amazon!InstallDirectory, Amazon!LeaveDirectory,
     Amazon!Do, Stands, Pursues, AmazonAttempt, Amazon!Running, Nothing, StagingWorks, InstallingWorks,
     Amazon!Terminal
<1> QED
  BY <1>1, <1>2, <1>3, <1>4

LEMMA AgeKeeps ==
  ASSUME AmazonParts, AmazonInv, Amazon!Age PROVE AmazonInv'
<1> USE DEF AmazonInv, AmazonParts
<1>1. Amazon!TypeOK'
  BY DEF Amazon!TypeOK, Amazon!Age, Amazon!States, Amazon!Works, Amazon!Running
<1>2. ASSUME NEW b \in Attempts PROVE AmazonAttempt(b)'
  BY <1>2 DEF Amazon!TypeOK, Amazon!Age, Amazon!Held, Directory, Stands, Pursues, AmazonAttempt,
     Amazon!Running, Nothing, StagingWorks, InstallingWorks, Amazon!Terminal
<1>3. ASSUME NEW e \in Directories PROVE Directory(e)'
  BY <1>3 DEF Amazon!TypeOK, Amazon!Age, Directory, Amazon!Held, Stands, Pursues, AmazonAttempt,
     Amazon!Running, Nothing, StagingWorks, InstallingWorks, Amazon!Terminal
<1>4. AmazonGone'
  BY DEF AmazonGone, Amazon!TypeOK, Amazon!Age, Stands, Pursues, AmazonAttempt, Amazon!Running, Nothing,
     StagingWorks, InstallingWorks, Amazon!Terminal
<1> QED
  BY <1>1, <1>2, <1>3, <1>4

LEMMA AmazonCloseKeeps ==
  ASSUME AmazonParts, AmazonInv, Amazon!Close PROVE AmazonInv'
<1> USE DEF AmazonInv, AmazonParts
<1>1. Amazon!TypeOK'
  BY DEF Amazon!TypeOK, Amazon!Close, Amazon!Cleanup, Amazon!Cleaned, Amazon!States, Amazon!Works,
     Amazon!Running
<1>2. ASSUME NEW b \in Attempts PROVE AmazonAttempt(b)'
  BY <1>2 DEF Amazon!TypeOK, Amazon!Close, Amazon!Cleanup, Amazon!Cleaned, Amazon!Held, Directory,
     Stands, Pursues, AmazonAttempt, Amazon!Running, Nothing, StagingWorks, InstallingWorks,
     Amazon!Terminal
<1>3. ASSUME NEW e \in Directories PROVE Directory(e)'
  BY <1>3 DEF Amazon!TypeOK, Amazon!Close, Amazon!Cleanup, Amazon!Cleaned, Directory, Amazon!Held,
     Stands, Pursues, AmazonAttempt, Amazon!Running, Nothing, StagingWorks, InstallingWorks,
     Amazon!Terminal
<1>4. AmazonGone'
  BY DEF AmazonGone, Amazon!TypeOK, Amazon!Close, Amazon!Cleanup, Amazon!Cleaned, Stands, Pursues,
     AmazonAttempt, Amazon!Running, Nothing, StagingWorks, InstallingWorks, Amazon!Terminal
<1> QED
  BY <1>1, <1>2, <1>3, <1>4

LEMMA RemoveProfileKeeps ==
  ASSUME AmazonParts, AmazonInv, Amazon!RemoveProfile PROVE AmazonInv'
<1> USE DEF AmazonInv, AmazonParts
<1>1. Amazon!TypeOK'
  BY DEF Amazon!TypeOK, Amazon!RemoveProfile, Amazon!States, Amazon!Works, Amazon!Running
<1>2. ASSUME NEW b \in Attempts PROVE AmazonAttempt(b)'
  BY <1>2 DEF Amazon!TypeOK, Amazon!RemoveProfile, Amazon!Held, Directory, Stands, Pursues,
     AmazonAttempt, Amazon!Running, Nothing, StagingWorks, InstallingWorks, Amazon!Terminal
<1>3. ASSUME NEW e \in Directories PROVE Directory(e)'
  BY <1>3 DEF Amazon!TypeOK, Amazon!RemoveProfile, Directory, Amazon!Held, Stands, Pursues,
     AmazonAttempt, Amazon!Running, Nothing, StagingWorks, InstallingWorks, Amazon!Terminal
<1>4. AmazonGone'
  BY DEF AmazonGone, Amazon!TypeOK, Amazon!RemoveProfile, Stands, Pursues, AmazonAttempt, Amazon!Running,
     Nothing, StagingWorks, InstallingWorks, Amazon!Terminal
<1> QED
  BY <1>1, <1>2, <1>3, <1>4

LEMMA AmazonStarts == ASSUME AmazonParts, Amazon!Init PROVE AmazonInv
  BY DEF AmazonParts, Amazon!Init, AmazonInv, Amazon!TypeOK, Amazon!States, Amazon!Works, Directory,
     Amazon!Held, AmazonGone, Stands, Pursues, AmazonAttempt, Amazon!Running, Nothing, StagingWorks,
     InstallingWorks, Amazon!Terminal

LEMMA AmazonKeeps == ASSUME AmazonParts, AmazonInv, [Amazon!Next]_(Amazon!vars) PROVE AmazonInv'
<1>1. CASE UNCHANGED Amazon!vars
  BY <1>1 DEF Amazon!vars, AmazonInv, Amazon!TypeOK, Directory, Amazon!Held, AmazonGone, Stands, Pursues,
     AmazonAttempt, Amazon!Running, Nothing
<1>2. CASE Amazon!Next
  BY <1>2, ResolveKeeps, StageKeeps, ExecuteKeeps, AmazonCancelKeeps, ExpireKeeps, StatusKeeps,
     RegisterKeeps, WriteKeeps, WrittenKeeps, StagedKeeps, ParsedKeeps, AmazonInstallKeeps,
     InstalledKeeps, ImportDirectoryKeeps, AgeKeeps, AmazonCloseKeeps,
     RemoveProfileKeeps DEF Amazon!Next, Amazon!Working
<1> QED
  BY <1>1, <1>2

LEMMA AmazonImplies == ASSUME AmazonParts, AmazonInv PROVE Amazon!WorksWhileHeld /\ Amazon!EndedHoldsNothing
  BY DEF AmazonParts, AmazonInv, Amazon!TypeOK, Amazon!WorksWhileHeld, Amazon!EndedHoldsNothing,
     Directory, Amazon!Held, AmazonGone, Stands, Pursues, AmazonAttempt, Amazon!Running, Nothing,
     Amazon!Terminal

LEMMA AmazonFinal ==
  ASSUME AmazonParts, AmazonInv, [Amazon!Next]_(Amazon!vars), NEW a \in acknowledged, a \in installed'
  PROVE  a \in installed
<1>1. a \in Attempts /\ work[a] # "installing"
  BY DEF AmazonInv, Amazon!TypeOK, AmazonAttempt, Stands, Pursues, InstallingWorks
<1>2. CASE UNCHANGED Amazon!vars
  BY <1>2 DEF Amazon!vars
<1>3. ASSUME NEW b \in Attempts, Amazon!Install(b) PROVE a \in installed
  BY <1>1, <1>3 DEF Amazon!Install
<1>4. ASSUME NEW d \in Directories, Amazon!ImportDirectory(d) PROVE a \in installed
  BY <1>1, <1>4 DEF Amazon!ImportDirectory, Amazon!ResolveDirectory, Amazon!LockDirectory,
     Amazon!ParseDirectory, Amazon!InstallDirectory, Amazon!LeaveDirectory, AmazonParts
<1> QED
  BY <1>2, <1>3, <1>4 DEF Amazon!Next, Amazon!Working, Amazon!Resolve, Amazon!Stage, Amazon!Execute,
     Amazon!Cancel, Amazon!Expire, Amazon!Status, Amazon!Register, Amazon!Write, Amazon!Written,
     Amazon!Staged, Amazon!Parsed, Amazon!Installed, Amazon!Age, Amazon!Close, Amazon!RemoveProfile

--------------------------------------------------------------------------------
(* Attempts to set up SimpleFIN                                              *)

\* The steps of a job after its inspection, in which it has the flow of its attempt.
Early == {"open", "lock", "install"}
Inside == {"look", "found", "claim", "claimed", "save", "flag", "load", "import"}
Unsure == {"asked", "lost", "returned", "refused"}

\* Where an attempt and its job are.
Goes(x, pc) ==
  /\ x.state \in Setup!Waiting => pc # "none"
  /\ pc # "none" => x.state \in Setup!Waiting \cup {"canceled"}
  /\ pc \in Early \/ x.state = "unused" =>
       x.flow = "none" /\ x.claim = "none" /\ ~x.session /\ ~x.saved /\ ~x.retain
  /\ pc \in Inside => x.flow = "held"
  /\ pc \in {"look", "found"} => x.claim = "none"
  /\ pc \in {"save", "flag"} => x.session /\ ~x.saved
  /\ pc \in {"load", "import"} => x.saved
  /\ x.state \notin {"canceled", "complete"} /\ (x.saved \/ x.retain) => x.flow = "held"

\* What became of its claim.
Claims(x, pc) ==
  /\ pc = "claim" <=> x.claim = "asked"
  /\ pc = "claimed" => x.claim = "returned"
  /\ x.claim = "returned" => pc \in {"claimed", "save"}
  /\ pc = "flag" => x.claim = "saved"
  /\ x.session \/ x.claim # "none" => x.retain
  /\ x.claim \in Unsure => ~x.saved
  /\ x.state = "canceled" /\ x.retain /\ ~x.saved => x.failure = "revoke"
  /\ pc = "none" /\ x.state # "canceled" /\ x.claim \in {"lost", "refused"} =>
       \/ x.state = "failed" /\ x.session
       \/ x.failure = "reenter"

Owns(w) == w.owned = (IF w.pc = "lock" THEN "lease" ELSE IF w.pc = "install" THEN "both" ELSE "nothing")

Called(a) == a \in quiet \/ <<a, "call">> \in waits \/ <<a, "sure">> \in waits

SetupAttempt(a) ==
  /\ Goes(setup[a], worker[a].pc) /\ Claims(setup[a], worker[a].pc) /\ Owns(worker[a])
  /\ Called(a) => setup[a].state = "canceled"
  /\ a \in quiet => worker[a].pc = "none" /\ setup[a].flow = "none"
  /\ setup[a].state = "complete" => ~stored.pristine

\* One request at a time: none removes a profile whose claim began after it asked for one.
SetupOneRequest == \A r, s \in Requests : r = s
Asked == \A r \in Requests : request[r] = "remove" /\ Setup!Retains => stored.pooled

SetupInv ==
  /\ Setup!Types
  /\ \A a \in Attempts : SetupAttempt(a)
  /\ SetupOneRequest => Asked
Failures == {"none", "final", "retry", "reenter", "revoke"}
Setups == [state : Setup!SetupStates, failure : Failures,
           flow : {"none", "held"}, session : BOOLEAN, saved : BOOLEAN, retain : BOOLEAN,
           claim : {"none", "asked", "lost", "returned", "refused", "saved"}]
SetupJobs == [pc : Setup!JobStates, owned : {"nothing", "lease", "both"}]
SetupProfiles == [exists : BOOLEAN, pristine : BOOLEAN, bound : BOOLEAN, session : {"none", "saved"},
             pooled : BOOLEAN, evicting : BOOLEAN]

\* What y keeps of x when only its state changes.
SetupAlike(y, x) ==
  y.flow = x.flow /\ y.session = x.session /\ y.saved = x.saved /\ y.retain = x.retain /\ y.claim = x.claim

LEMMA SetupShapes ==
  ASSUME SetupInv
  PROVE  /\ setup \in [Attempts -> Setups] /\ worker \in [Attempts -> SetupJobs] /\ stored \in SetupProfiles
         /\ waits \subseteq Attempts \X {"call", "sure"} /\ quiet \subseteq Attempts /\ shut \in BOOLEAN
  BY DEF SetupInv, Setup!Types, Setups, SetupJobs, SetupProfiles, Failures

LEMMA MovedGives ==
  ASSUME NEW x \in Setups, NEW st \in Setup!SetupStates, NEW failure \in Failures
  PROVE  /\ Setup!Moved(x, st, failure) \in Setups /\ SetupAlike(Setup!Moved(x, st, failure), x)
         /\ Setup!Moved(x, st, failure).state = st /\ Setup!Moved(x, st, failure).failure = failure
  BY DEF Setups, Setup!Moved, SetupAlike

LEMMA JobGives ==
  /\ Setup!Job("none") = Setup!None /\ Setup!None \in SetupJobs /\ Setup!None.pc = "none"
         /\ Setup!None.owned = "nothing"
  /\ \A pc \in Setup!JobStates : Setup!Job(pc) \in SetupJobs /\ Setup!Job(pc).pc = pc
         /\ Setup!Job(pc).owned = "nothing"
<1>1. Setup!Job("none") = Setup!None
  BY DEF Setup!Job, Setup!None
<1>2. ASSUME NEW pc \in Setup!JobStates
      PROVE  Setup!Job(pc) \in SetupJobs /\ Setup!Job(pc).pc = pc /\ Setup!Job(pc).owned = "nothing"
  BY <1>2 DEF Setup!Job, Setup!None, SetupJobs
<1> QED
  BY <1>1, <1>2 DEF Setup!None, SetupJobs, Setup!JobStates

LEMMA SetStateGives ==
  ASSUME NEW x \in Setups, NEW st \in Setup!SetupStates, NEW failure \in Failures
  PROVE  /\ Setup!SetState(x, st, failure) \in Setups /\ SetupAlike(Setup!SetState(x, st, failure), x)
         /\ Setup!SetState(x, st, failure).state = IF x.state = "canceled" THEN x.state ELSE st
         /\ Setup!SetState(x, st, failure).failure = IF x.state = "canceled" THEN x.failure ELSE failure
<1>1. CASE x.state = "canceled"
  BY <1>1 DEF Setup!SetState, SetupAlike
<1>2. CASE x.state # "canceled"
  BY <1>2, MovedGives DEF Setup!SetState
<1> QED
  BY <1>1, <1>2

LEMMA Others ==
  ASSUME SetupInv, NEW b \in Attempts, setup'[b] = setup[b], worker'[b] = worker[b], Called(b)' = Called(b),
         (b \in quiet') = (b \in quiet), stored'.pristine => stored.pristine
  PROVE  SetupAttempt(b)'
  BY DEF SetupInv, SetupAttempt, Called

\* A step of one attempt.
SetupOnly(a) ==
  /\ setup' \in [Attempts -> Setups] /\ worker' \in [Attempts -> SetupJobs] /\ stored' \in SetupProfiles
  /\ waits' \subseteq Attempts \X {"call", "sure"} /\ UNCHANGED <<request, quiet, shut>>
  /\ \A b \in Attempts \ {a} : setup'[b] = setup[b] /\ worker'[b] = worker[b] /\ Called(b)' = Called(b)
  /\ (stored'.pristine => stored.pristine) /\ (stored.pooled => stored'.pooled)
  /\ setup'[a].flow = "held" \/ worker'[a].owned # "nothing" => stored'.pooled
  /\ setup'[a].retain => setup[a].retain \/ stored'.pooled

LEMMA SetupOnlyKeeps ==
  ASSUME SetupInv, NEW a \in Attempts, SetupOnly(a), SetupAttempt(a)' PROVE SetupInv'
<1>1. ASSUME NEW b \in Attempts PROVE SetupAttempt(b)'
  BY <1>1, Others DEF SetupOnly
<1>2. (Setup!Leased => stored.pooled)'
  BY DEF SetupInv, Setup!Types, Setup!Leased, SetupOnly
<1>3. ASSUME SetupOneRequest PROVE Asked'
  BY <1>3 DEF SetupInv, Asked, Setup!Retains, SetupOnly
<1>4. Setup!Types'
  BY <1>2, SetupShapes DEF SetupInv, Setup!Types, SetupOnly, Setups, SetupJobs, SetupProfiles, Failures
<1> QED
  BY <1>1, <1>3, <1>4 DEF SetupInv, SetupOneRequest

\* A call that changes an attempt without a job.
LEMMA SetupStayKeeps ==
  ASSUME SetupInv, NEW a \in Attempts, NEW y \in Setups, setup' = [setup EXCEPT ![a] = y],
         UNCHANGED <<worker, Setup!rest>>,
         worker[a].pc = "none", setup[a].state # "canceled", Goes(y, "none"), Claims(y, "none"),
         y.state = "complete" => ~stored.pristine, y.flow = "held"
             => Setup!Leased, y.retain = setup[a].retain
  PROVE  SetupInv'
<1>1. setup' \in [Attempts -> Setups] /\ setup'[a] = y /\ \A b \in Attempts \ {a} : setup'[b] = setup[b]
  BY SetupShapes
<1>2. SetupAttempt(a) /\ (Setup!Leased => stored.pooled)
  BY DEF SetupInv, Setup!Types
<1>3. worker[a].owned = "nothing" /\ ~Called(a)
  BY <1>2 DEF SetupAttempt, Owns
<1>4. SetupOnly(a)
  BY <1>1, <1>2, <1>3, SetupShapes DEF SetupOnly, Called, Setup!rest
<1>5. SetupAttempt(a)'
  BY <1>1, <1>2, <1>3 DEF SetupAttempt, Owns, Called, Setup!rest
<1> QED
  BY <1>4, <1>5, SetupOnlyKeeps

\* A job goes on to pc, or ends, and leaves y of its attempt.
LEMMA MoveKeeps ==
  ASSUME SetupInv, NEW a \in Attempts, NEW y \in Setups, NEW pc \in Setup!JobStates \ {"lock", "install"},
         setup' = [setup EXCEPT ![a] = y], Setup!To(a, pc),
         UNCHANGED <<waits, quiet, request, shut>>, stored' \in SetupProfiles,
         stored'.pooled = stored.pooled,
         stored'.pristine => stored.pristine,
         Goes(y, pc), Claims(y, pc),
         worker[a].pc = "none" => setup[a].state # "canceled", setup[a].state = "canceled"
             => y.state = "canceled",
         y.state = "complete" => ~stored'.pristine,
         y.flow = "held" => Setup!Leased, y.retain => setup[a].retain \/ Setup!Leased
  PROVE  SetupInv'
<1>1. setup' \in [Attempts -> Setups] /\ setup'[a] = y /\ \A b \in Attempts \ {a} : setup'[b] = setup[b]
  BY SetupShapes
<1>2. /\ worker' \in [Attempts -> SetupJobs] /\ worker'[a].pc = pc /\ worker'[a].owned = "nothing"
      /\ \A b \in Attempts \ {a} : worker'[b] = worker[b]
  BY SetupShapes, JobGives DEF Setup!To
<1>3. Setup!Leased => stored.pooled
  BY DEF SetupInv, Setup!Types
<1>4. SetupOnly(a)
  BY <1>1, <1>2, <1>3, SetupShapes DEF SetupOnly, Called
<1>5. SetupAttempt(a)'
  <2>1. SetupAttempt(a)
    BY DEF SetupInv
  <2>2. setup[a].state = "canceled" => a \notin quiet
    BY <2>1 DEF SetupAttempt
  <2> QED
    BY <1>1, <1>2, <2>1, <2>2 DEF SetupAttempt, Owns, Called
<1> QED
  BY <1>4, <1>5, SetupOnlyKeeps

\* The end of a job.
LEMMA RestKeeps ==
  ASSUME SetupInv, NEW a \in Attempts, worker[a].pc # "none", NEW x \in Setups,
         NEW st \in {"failed", "credentials_required", "identity_mismatch", "complete"},
         NEW failure \in Failures,
         Setup!Rest(a, x, st, failure),
         x.flow = setup[a].flow, x.session = setup[a].session, x.saved = setup[a].saved,
         x.retain = setup[a].retain,
         x.state = setup[a].state, x.failure = setup[a].failure,
         x.claim \notin {"asked", "returned"}, x.claim # "none" => x.retain,
         x.claim \in Unsure => ~x.saved,
         x.claim \in {"lost", "refused"} => (st = "failed" /\ x.session) \/ failure = "reenter",
         UNCHANGED <<waits, quiet, request, shut>>, stored' \in SetupProfiles,
         stored'.pooled = stored.pooled,
         stored'.pristine => stored.pristine, st = "complete" => ~stored'.pristine
  PROVE  SetupInv'
<1> DEFINE y == Setup!SetState(x, st, failure)
<1>1. /\ y \in Setups /\ SetupAlike(y, x)
      /\ y.state = IF x.state = "canceled" THEN x.state ELSE st
      /\ y.failure = IF x.state = "canceled" THEN x.failure ELSE failure
  <2>1. st \in Setup!SetupStates
    BY DEF Setup!SetupStates, Setup!Waiting
  <2> QED
    BY <2>1, SetStateGives
<1>2. setup' = [setup EXCEPT ![a] = y] /\ Setup!To(a, "none")
  BY DEF Setup!Rest, Setup!Ends
<1> HIDE DEF y
<1>3. SetupAttempt(a)
  BY DEF SetupInv
<1>4. Goes(y, "none")
  BY <1>1, <1>3 DEF SetupAttempt, Goes, SetupAlike, Setup!Waiting, Early, Inside
<1>5. Claims(y, "none")
  BY <1>1, <1>3 DEF SetupAttempt, Claims, SetupAlike, Unsure
<1>6. y.flow = "held" => Setup!Leased
  BY <1>1 DEF Setup!Leased, SetupAlike
<1>7. /\ setup[a].state = "canceled" => y.state = "canceled"
      /\ y.state = "complete" => ~stored'.pristine
      /\ y.retain => setup[a].retain
  BY <1>1, <1>3 DEF SetupAlike, SetupAttempt, Goes, Setup!Waiting
<1> QED
  BY <1>1, <1>2, <1>4, <1>5, <1>6, <1>7, MoveKeeps DEF Setup!JobStates

LEMMA SetupFailKeeps ==
  ASSUME SetupInv, NEW a \in Attempts, worker[a].pc # "none", NEW failure \in Failures, Setup!Fail(a,
         failure), UNCHANGED Setup!rest,
         setup[a].claim \notin {"asked", "returned"},
         setup[a].claim \in {"lost", "refused"} => setup[a].session \/ failure = "reenter"
  PROVE  SetupInv'
  BY RestKeeps, SetupShapes DEF Setup!Fail, Setup!rest, SetupInv, SetupAttempt, Claims

LEMMA SetupOpenKeeps ==
  ASSUME SetupInv, NEW a \in Attempts, Setup!Open(a) PROVE SetupInv'
<1>0. SetupAttempt(a) /\ setup[a] \in Setups /\ stored \in SetupProfiles
          /\ setup[a].flow \in {"none", "held"}
  BY SetupShapes DEF SetupInv, Setups
<1>1. CASE stored' = [stored EXCEPT !.pooled = TRUE] /\ worker' = [worker EXCEPT ![a] = [pc |-> "lock",
               owned |-> "lease"]] /\ UNCHANGED setup
  <2>1. SetupOnly(a)
    <3>1. [pc |-> "lock", owned |-> "lease"] \in SetupJobs
      BY DEF SetupJobs, Setup!JobStates
    <3>2. worker' \in [Attempts -> SetupJobs] /\ stored' \in SetupProfiles /\ stored'.pooled
              /\ stored'.pristine = stored.pristine
      BY <1>0, <1>1, <3>1, SetupShapes DEF Setup!Open, SetupProfiles
    <3> QED
      BY <1>0, <1>1, <3>2, SetupShapes DEF SetupOnly, Setup!Open, Called
  <2>2. SetupAttempt(a)'
    <3>1. worker'[a].pc = "lock" /\ worker'[a].owned = "lease" /\ setup'[a] = setup[a]
          /\ stored'.pristine = stored.pristine
      BY <1>0, <1>1, SetupShapes DEF Setup!Open, SetupProfiles
    <3> QED
      BY <1>0, <1>1, <3>1 DEF Setup!Open, Setup!InJob, SetupAttempt, Goes, Claims, Owns, Called, Early,
         Inside, Setup!Waiting
  <2> QED
    BY <2>1, <2>2, SetupOnlyKeeps
<1>2. CASE Setup!Fail(a, "final") /\ UNCHANGED stored
  BY <1>2, <1>0, SetupFailKeeps DEF Setup!Open, Setup!InJob, Setup!rest, Failures, SetupAttempt, Claims,
     Goes, Early, Inside, Unsure
<1> QED
  BY <1>1, <1>2 DEF Setup!Open

LEMMA SetupTakeLockKeeps ==
  ASSUME SetupInv, NEW a \in Attempts, Setup!TakeLock(a) PROVE SetupInv'
<1>0. SetupAttempt(a) /\ setup[a] \in Setups /\ stored \in SetupProfiles
          /\ setup[a].flow \in {"none", "held"}
  BY SetupShapes DEF SetupInv, Setups
<1>1. CASE worker' = [worker EXCEPT ![a] = [pc |-> "install", owned |-> "both"]] /\ UNCHANGED setup
  <2>0. stored.pooled
    BY <1>0, <1>1 DEF SetupInv, Setup!Types, Setup!Leased, SetupAttempt, Owns, Setup!TakeLock,
       Setup!InJob
  <2>1. SetupOnly(a)
    <3>1. [pc |-> "install", owned |-> "both"] \in SetupJobs
      BY DEF SetupJobs, Setup!JobStates
    <3>2. worker' \in [Attempts -> SetupJobs] /\ stored' \in SetupProfiles /\ stored'.pooled
              /\ stored'.pristine = stored.pristine
      BY <1>0, <1>1, <2>0, <3>1, SetupShapes DEF Setup!TakeLock, Setup!rest
    <3> QED
      BY <1>0, <1>1, <3>2, SetupShapes DEF SetupOnly, Setup!TakeLock, Setup!rest, Called
  <2>2. SetupAttempt(a)'
    <3>1. worker'[a].pc = "install" /\ worker'[a].owned = "both" /\ setup'[a] = setup[a]
          /\ stored'.pristine = stored.pristine
      BY <1>0, <1>1, SetupShapes DEF Setup!TakeLock, Setup!rest, SetupProfiles
    <3> QED
      BY <1>0, <1>1, <3>1 DEF Setup!TakeLock, Setup!rest, Setup!InJob, SetupAttempt, Goes, Claims, Owns,
         Called, Early, Inside, Setup!Waiting
  <2> QED
    BY <2>1, <2>2, SetupOnlyKeeps
<1>2. CASE Setup!Fail(a, "final")
  BY <1>2, <1>0, SetupFailKeeps DEF Setup!TakeLock, Setup!InJob, Setup!rest, Failures, SetupAttempt,
     Claims, Goes, Early, Inside, Unsure
<1> QED
  BY <1>1, <1>2 DEF Setup!TakeLock

LEMMA SetupInstallKeeps ==
  ASSUME SetupInv, NEW a \in Attempts, Setup!Install(a) PROVE SetupInv'
<1>0. SetupAttempt(a) /\ setup[a] \in Setups /\ stored \in SetupProfiles
          /\ setup[a].flow \in {"none", "held"}
  BY SetupShapes DEF SetupInv, Setups
<1>1. CASE setup[a].state # "canceled" /\ setup' = [setup EXCEPT ![a].flow = "held"] /\ Setup!To(a, "look")
  <2> DEFINE y == [setup[a] EXCEPT !.flow = "held"]
  <2>1. y \in Setups /\ y.state = setup[a].state /\ y.failure = setup[a].failure /\ y.flow = "held"
            /\ y.session = setup[a].session
             /\ y.saved = setup[a].saved /\ y.retain = setup[a].retain /\ y.claim = setup[a].claim
    BY <1>0 DEF Setups
  <2>2. setup' = [setup EXCEPT ![a] = y] /\ Setup!To(a, "look")
    BY <1>1, SetupShapes DEF Setup!Install, Setup!InJob, Setup!Ends
  <2> HIDE DEF y
  <2>3. Goes(y, "look") /\ Claims(y, "look")
    BY <1>1, <1>0, <2>1 DEF Setup!Install, Setup!InJob, Setup!Ends, SetupAttempt, Goes, Claims, Owns,
       Early, Inside, Unsure, Setup!Waiting
  <2>4. Setup!Leased /\ worker[a].pc # "none"
    BY <1>1, <1>0 DEF Setup!Install, Setup!InJob, Setup!Ends, SetupAttempt, Goes, Owns, Inside,
       Setup!Leased
  <2> QED
    BY <1>1, <1>0, <2>1, <2>2, <2>3, <2>4, MoveKeeps DEF Setup!Install, Setup!rest, SetupAttempt,
       Setup!JobStates, SetupProfiles
<1>2. CASE setup[a].state = "canceled" /\ Setup!Ends(a) /\ UNCHANGED setup
  <2> DEFINE y == setup[a]
  <2>1. y \in Setups /\ y.state = setup[a].state /\ y.failure = setup[a].failure /\ y.flow = setup[a].flow
            /\ y.session = setup[a].session
             /\ y.saved = setup[a].saved /\ y.retain = setup[a].retain /\ y.claim = setup[a].claim
    BY <1>0
  <2>2. setup' = [setup EXCEPT ![a] = y] /\ Setup!To(a, "none")
    BY <1>2, SetupShapes DEF Setup!Install, Setup!InJob, Setup!Ends
  <2> HIDE DEF y
  <2>3. Goes(y, "none") /\ Claims(y, "none")
    BY <1>2, <1>0, <2>1 DEF Setup!Install, Setup!InJob, Setup!Ends, SetupAttempt, Goes, Claims, Owns,
       Early, Inside, Unsure, Setup!Waiting
  <2>4. Setup!Leased /\ worker[a].pc # "none"
    BY <1>2, <1>0 DEF Setup!Install, Setup!InJob, Setup!Ends, SetupAttempt, Goes, Owns, Inside,
       Setup!Leased
  <2> QED
    BY <1>2, <1>0, <2>1, <2>2, <2>3, <2>4, MoveKeeps DEF Setup!Install, Setup!rest, SetupAttempt,
       Setup!JobStates, SetupProfiles
<1>3. CASE Setup!Fail(a, "final")
  BY <1>3, <1>0, SetupFailKeeps DEF Setup!Install, Setup!InJob, Setup!rest, Failures, SetupAttempt,
     Claims, Goes, Early, Inside, Unsure
<1> QED
  BY <1>1, <1>2, <1>3 DEF Setup!Install

LEMMA LookKeeps ==
  ASSUME SetupInv, NEW a \in Attempts, Setup!Look(a) PROVE SetupInv'
<1>0. SetupAttempt(a) /\ setup[a] \in Setups /\ stored \in SetupProfiles
          /\ setup[a].flow \in {"none", "held"}
  BY SetupShapes DEF SetupInv, Setups
<1>1. CASE Setup!Fail(a, "final")
  BY <1>1, <1>0, SetupFailKeeps DEF Setup!Look, Setup!InJob, Setup!rest, Failures, SetupAttempt, Claims,
     Goes, Early, Inside, Unsure
<1>2. CASE Setup!Rest(a, setup[a], "credentials_required", "none")
  BY <1>2, <1>0, RestKeeps DEF Setup!Look, Setup!InJob, Setup!rest, SetupAttempt, Goes, Claims, Unsure,
     Failures
<1>3. CASE Setup!Rest(a, setup[a], "identity_mismatch", "reenter")
  BY <1>3, <1>0, RestKeeps DEF Setup!Look, Setup!InJob, Setup!rest, SetupAttempt, Goes, Claims, Unsure,
     Failures
<1>4. CASE Setup!To(a, "found") /\ UNCHANGED setup
  <2> DEFINE y == setup[a]
  <2>1. y \in Setups /\ y.state = setup[a].state /\ y.failure = setup[a].failure /\ y.flow = setup[a].flow
            /\ y.session = setup[a].session
             /\ y.saved = setup[a].saved /\ y.retain = setup[a].retain /\ y.claim = setup[a].claim
    BY <1>0
  <2>2. setup' = [setup EXCEPT ![a] = y] /\ Setup!To(a, "found")
    BY <1>4, SetupShapes DEF Setup!Look, Setup!InJob, Setup!Ends
  <2> HIDE DEF y
  <2>3. Goes(y, "found") /\ Claims(y, "found")
    BY <1>4, <1>0, <2>1 DEF Setup!Look, Setup!InJob, Setup!Ends, SetupAttempt, Goes, Claims, Owns,
       Early, Inside, Unsure, Setup!Waiting
  <2>4. Setup!Leased /\ worker[a].pc # "none"
    BY <1>4, <1>0 DEF Setup!Look, Setup!InJob, Setup!Ends, SetupAttempt, Goes, Owns, Inside,
       Setup!Leased
  <2> QED
    BY <1>4, <1>0, <2>1, <2>2, <2>3, <2>4, MoveKeeps DEF Setup!Look, Setup!rest, SetupAttempt,
       Setup!JobStates, SetupProfiles
<1> QED
  BY <1>1, <1>2, <1>3, <1>4 DEF Setup!Look

LEMMA FoundKeeps ==
  ASSUME SetupInv, NEW a \in Attempts, Setup!Found(a) PROVE SetupInv'
<1>0. SetupAttempt(a) /\ setup[a] \in Setups /\ stored \in SetupProfiles
          /\ setup[a].flow \in {"none", "held"}
  BY SetupShapes DEF SetupInv, Setups
<1>1. SetupInv'
  <2> DEFINE y == [setup[a] EXCEPT !.session = TRUE, !.saved = TRUE, !.retain = TRUE]
  <2>1. y \in Setups /\ y.state = setup[a].state /\ y.failure = setup[a].failure /\ y.flow = setup[a].flow
            /\ y.session = TRUE
             /\ y.saved = TRUE /\ y.retain = TRUE /\ y.claim = setup[a].claim
    BY <1>0 DEF Setups
  <2>2. setup' = [setup EXCEPT ![a] = y] /\ Setup!To(a, "load")
    BY SetupShapes DEF Setup!Found, Setup!InJob, Setup!Ends
  <2> HIDE DEF y
  <2>3. Goes(y, "load") /\ Claims(y, "load")
    BY <1>0, <2>1 DEF Setup!Found, Setup!InJob, Setup!Ends, SetupAttempt, Goes, Claims, Owns, Early,
       Inside, Unsure, Setup!Waiting
  <2>4. Setup!Leased /\ worker[a].pc # "none"
    BY <1>0 DEF Setup!Found, Setup!InJob, Setup!Ends, SetupAttempt, Goes, Owns, Inside, Setup!Leased
  <2> QED
    BY <1>0, <2>1, <2>2, <2>3, <2>4, MoveKeeps DEF Setup!Found, Setup!rest, SetupAttempt,
       Setup!JobStates, SetupProfiles
<1> QED
  BY <1>1 DEF Setup!Found

LEMMA ClaimKeeps ==
  ASSUME SetupInv, NEW a \in Attempts, Setup!Claim(a) PROVE SetupInv'
<1>0. SetupAttempt(a) /\ setup[a] \in Setups /\ stored \in SetupProfiles
          /\ setup[a].flow \in {"none", "held"}
  BY SetupShapes DEF SetupInv, Setups
<1>1. CASE setup' = [setup EXCEPT ![a].claim = "returned"] /\ Setup!To(a, "claimed")
  <2> DEFINE y == [setup[a] EXCEPT !.claim = "returned"]
  <2>1. y \in Setups /\ y.state = setup[a].state /\ y.failure = setup[a].failure /\ y.flow = setup[a].flow
            /\ y.session = setup[a].session
             /\ y.saved = setup[a].saved /\ y.retain = setup[a].retain /\ y.claim = "returned"
    BY <1>0 DEF Setups
  <2>2. setup' = [setup EXCEPT ![a] = y] /\ Setup!To(a, "claimed")
    BY <1>1, SetupShapes DEF Setup!Claim, Setup!InJob, Setup!Ends
  <2> HIDE DEF y
  <2>3. Goes(y, "claimed") /\ Claims(y, "claimed")
    BY <1>1, <1>0, <2>1 DEF Setup!Claim, Setup!InJob, Setup!Ends, SetupAttempt, Goes, Claims, Owns,
       Early, Inside, Unsure, Setup!Waiting
  <2>4. Setup!Leased /\ worker[a].pc # "none"
    BY <1>1, <1>0 DEF Setup!Claim, Setup!InJob, Setup!Ends, SetupAttempt, Goes, Owns, Inside,
       Setup!Leased
  <2> QED
    BY <1>1, <1>0, <2>1, <2>2, <2>3, <2>4, MoveKeeps DEF Setup!Claim, Setup!rest, SetupAttempt,
       Setup!JobStates, SetupProfiles
<1>2. CASE Setup!Rest(a, [setup[a] EXCEPT !.claim = "lost"], "failed", "reenter")
  <2> DEFINE y == [setup[a] EXCEPT !.claim = "lost"]
  <2>1. y \in Setups /\ y.flow = setup[a].flow /\ y.session = setup[a].session /\ y.saved = setup[a].saved
        /\ y.retain = setup[a].retain /\ y.state = setup[a].state /\ y.failure = setup[a].failure
        /\ y.claim = "lost" /\ Setup!Rest(a, y, "failed", "reenter")
    BY <1>2, <1>0 DEF Setups
  <2>2. worker[a].pc = "claim" /\ stored' = stored /\ "reenter" \in Failures
        /\ UNCHANGED <<waits, quiet, request, shut>>
    BY DEF Setup!Claim, Setup!InJob, Setup!rest, Failures
  <2>3. setup[a].claim = "asked" /\ setup[a].retain /\ ~setup[a].saved
    BY <1>0, <2>2 DEF SetupAttempt, Claims, Unsure
  <2> HIDE DEF y
  <2> QED
    BY <1>0, <2>1, <2>2, <2>3, RestKeeps DEF Unsure, SetupProfiles
<1> QED
  BY <1>1, <1>2 DEF Setup!Claim

LEMMA ClaimedKeeps ==
  ASSUME SetupInv, NEW a \in Attempts, Setup!Claimed(a) PROVE SetupInv'
<1>0. SetupAttempt(a) /\ setup[a] \in Setups /\ stored \in SetupProfiles
          /\ setup[a].flow \in {"none", "held"}
  BY SetupShapes DEF SetupInv, Setups
<1>1. SetupInv'
  <2> DEFINE x == [setup[a] EXCEPT !.session = TRUE]
             y == Setup!SetState(x, "saving_session", "none")
  <2>1. x \in Setups /\ x.session /\ x.state = setup[a].state /\ x.failure = setup[a].failure
        /\ x.flow = setup[a].flow /\ x.saved = setup[a].saved /\ x.retain = setup[a].retain
               /\ x.claim = setup[a].claim
    BY <1>0 DEF Setups
  <2> HIDE DEF x
  <2>2. /\ y \in Setups /\ SetupAlike(y, x)
        /\ y.state = IF x.state = "canceled" THEN x.state ELSE "saving_session"
        /\ y.failure = IF x.state = "canceled" THEN x.failure ELSE "none"
    BY <2>1, SetStateGives DEF Setup!SetupStates, Setup!Waiting, Failures
  <2>3. setup' = [setup EXCEPT ![a] = y] /\ Setup!To(a, "save")
    BY SetupShapes DEF Setup!Claimed, x
  <2> HIDE DEF y
  <2>4. Goes(y, "save") /\ Claims(y, "save")
    BY <1>0, <2>1, <2>2 DEF SetupAlike, Setup!Claimed, Setup!InJob, SetupAttempt, Goes, Claims, Early,
       Inside, Unsure, Setup!Waiting
  <2>5. Setup!Leased /\ worker[a].pc # "none"
    BY <1>0 DEF Setup!Claimed, Setup!InJob, SetupAttempt, Goes, Inside, Setup!Leased
  <2>6. y.state # "complete" /\ UNCHANGED Setup!rest /\ (setup[a].state = "canceled"
            => y.state = "canceled")
    BY <1>0, <2>1, <2>2 DEF Setup!Claimed, Setup!InJob, SetupAttempt, Goes, Setup!Waiting
  <2> QED
    BY <1>0, <2>2, <2>3, <2>4, <2>5, <2>6, MoveKeeps DEF Setup!rest, Setup!JobStates
<1> QED
  BY <1>1 DEF Setup!Claimed

LEMMA SaveKeeps ==
  ASSUME SetupInv, NEW a \in Attempts, Setup!Save(a) PROVE SetupInv'
<1>0. SetupAttempt(a) /\ setup[a] \in Setups /\ stored \in SetupProfiles
          /\ setup[a].flow \in {"none", "held"}
  BY SetupShapes DEF SetupInv, Setups
<1>1. CASE Setup!Rest(a, [setup[a] EXCEPT !.claim = "refused"], "failed", "retry") /\ UNCHANGED stored
  <2> DEFINE x == [setup[a] EXCEPT !.claim = "refused"]
  <2>1. x \in Setups /\ x.state = setup[a].state /\ x.failure = setup[a].failure /\ x.flow = setup[a].flow
        /\ x.session = setup[a].session /\ x.saved = setup[a].saved /\ x.retain = setup[a].retain
               /\ x.claim = "refused"
    BY <1>0 DEF Setups
  <2>2. Setup!Rest(a, x, "failed", "retry") /\ stored' = stored
    BY <1>1
  <2> HIDE DEF x
  <2>3. worker[a].pc = "save" /\ UNCHANGED <<waits, quiet, request, shut>>
    BY DEF Setup!Save, Setup!InJob, Setup!rest
  <2>4. x.session /\ ~x.saved /\ x.retain
    BY <1>0, <2>1, <2>3 DEF SetupAttempt, Goes, Claims
  <2> QED
    BY <1>0, <2>1, <2>2, <2>3, <2>4, RestKeeps DEF Failures, Unsure
<1>2. CASE stored' = [stored EXCEPT !.session = "saved"] /\ setup' = [setup EXCEPT ![a].claim = "saved"]
               /\ Setup!To(a, "flag")
  <2> DEFINE y == [setup[a] EXCEPT !.claim = "saved"]
  <2>1. y \in Setups /\ y.state = setup[a].state /\ y.failure = setup[a].failure /\ y.flow = setup[a].flow
            /\ y.session = setup[a].session
             /\ y.saved = setup[a].saved /\ y.retain = setup[a].retain /\ y.claim = "saved"
    BY <1>0 DEF Setups
  <2>2. setup' = [setup EXCEPT ![a] = y] /\ Setup!To(a, "flag")
    BY <1>2, SetupShapes DEF Setup!Save, Setup!InJob, Setup!Ends
  <2> HIDE DEF y
  <2>3. Goes(y, "flag") /\ Claims(y, "flag")
    BY <1>2, <1>0, <2>1 DEF Setup!Save, Setup!InJob, Setup!Ends, SetupAttempt, Goes, Claims, Owns,
       Early, Inside, Unsure, Setup!Waiting
  <2>4. Setup!Leased /\ worker[a].pc # "none"
    BY <1>2, <1>0 DEF Setup!Save, Setup!InJob, Setup!Ends, SetupAttempt, Goes, Owns, Inside,
       Setup!Leased
  <2> QED
    BY <1>2, <1>0, <2>1, <2>2, <2>3, <2>4, MoveKeeps DEF Setup!Save, Setup!rest, SetupAttempt,
       Setup!JobStates, SetupProfiles
<1> QED
  BY <1>1, <1>2 DEF Setup!Save

LEMMA FlagKeeps ==
  ASSUME SetupInv, NEW a \in Attempts, Setup!Flag(a) PROVE SetupInv'
<1>0. SetupAttempt(a) /\ setup[a] \in Setups /\ stored \in SetupProfiles
          /\ setup[a].flow \in {"none", "held"}
  BY SetupShapes DEF SetupInv, Setups
<1>1. SetupInv'
  <2> DEFINE y == [setup[a] EXCEPT !.saved = TRUE]
  <2>1. y \in Setups /\ y.state = setup[a].state /\ y.failure = setup[a].failure /\ y.flow = setup[a].flow
            /\ y.session = setup[a].session
             /\ y.saved = TRUE /\ y.retain = setup[a].retain /\ y.claim = setup[a].claim
    BY <1>0 DEF Setups
  <2>2. setup' = [setup EXCEPT ![a] = y] /\ Setup!To(a, "load")
    BY SetupShapes DEF Setup!Flag, Setup!InJob, Setup!Ends
  <2> HIDE DEF y
  <2>3. Goes(y, "load") /\ Claims(y, "load")
    BY <1>0, <2>1 DEF Setup!Flag, Setup!InJob, Setup!Ends, SetupAttempt, Goes, Claims, Owns, Early,
       Inside, Unsure, Setup!Waiting
  <2>4. Setup!Leased /\ worker[a].pc # "none"
    BY <1>0 DEF Setup!Flag, Setup!InJob, Setup!Ends, SetupAttempt, Goes, Owns, Inside, Setup!Leased
  <2>5. (y.state = "complete" => ~stored.pristine) /\ UNCHANGED Setup!rest
    BY <1>0, <2>1 DEF Setup!Flag, SetupAttempt
  <2> QED
    BY <1>0, <2>1, <2>2, <2>3, <2>4, <2>5, MoveKeeps DEF Setup!rest, Setup!JobStates
<1> QED
  BY <1>1 DEF Setup!Flag

LEMMA LoadKeeps ==
  ASSUME SetupInv, NEW a \in Attempts, Setup!Load(a) PROVE SetupInv'
<1>0. SetupAttempt(a) /\ setup[a] \in Setups /\ stored \in SetupProfiles
          /\ setup[a].flow \in {"none", "held"}
  BY SetupShapes DEF SetupInv, Setups
<1>1. CASE setup[a].state = "canceled" /\ Setup!Ends(a) /\ UNCHANGED setup
  <2> DEFINE y == setup[a]
  <2>1. y \in Setups /\ y.state = setup[a].state /\ y.failure = setup[a].failure /\ y.flow = setup[a].flow
            /\ y.session = setup[a].session
             /\ y.saved = setup[a].saved /\ y.retain = setup[a].retain /\ y.claim = setup[a].claim
    BY <1>0
  <2>2. setup' = [setup EXCEPT ![a] = y] /\ Setup!To(a, "none")
    BY <1>1, SetupShapes DEF Setup!Load, Setup!InJob, Setup!Ends
  <2> HIDE DEF y
  <2>3. Goes(y, "none") /\ Claims(y, "none")
    BY <1>1, <1>0, <2>1 DEF Setup!Load, Setup!InJob, Setup!Ends, SetupAttempt, Goes, Claims, Owns,
       Early, Inside, Unsure, Setup!Waiting
  <2>4. Setup!Leased /\ worker[a].pc # "none"
    BY <1>1, <1>0 DEF Setup!Load, Setup!InJob, Setup!Ends, SetupAttempt, Goes, Owns, Inside,
       Setup!Leased
  <2> QED
    BY <1>1, <1>0, <2>1, <2>2, <2>3, <2>4, MoveKeeps DEF Setup!Load, Setup!rest, SetupAttempt,
       Setup!JobStates, SetupProfiles
<1>2. CASE Setup!Fail(a, "retry")
  BY <1>2, <1>0, SetupFailKeeps DEF Setup!Load, Setup!InJob, Setup!rest, Failures, SetupAttempt, Claims,
     Goes, Early, Inside, Unsure
<1>3. CASE Setup!Rest(a, setup[a], "identity_mismatch", "reenter")
  BY <1>3, <1>0, RestKeeps DEF Setup!Load, Setup!InJob, Setup!rest, SetupAttempt, Goes, Claims, Unsure,
     Failures
<1>4. CASE setup[a].state # "canceled" /\ setup' = [setup EXCEPT ![a] = Setup!Moved(@, "importing",
               "none")] /\ Setup!To(a, "import")
  <2> DEFINE y == Setup!Moved(setup[a], "importing", "none")
  <2>1. y \in Setups /\ y.state = "importing" /\ y.failure = "none" /\ y.flow = setup[a].flow
            /\ y.session = setup[a].session
             /\ y.saved = setup[a].saved /\ y.retain = setup[a].retain /\ y.claim = setup[a].claim
    BY <1>0, MovedGives DEF SetupAlike, Setup!SetupStates, Setup!Waiting, Failures
  <2>2. setup' = [setup EXCEPT ![a] = y] /\ Setup!To(a, "import")
    BY <1>4, SetupShapes DEF Setup!Load, Setup!InJob, Setup!Ends
  <2> HIDE DEF y
  <2>3. Goes(y, "import") /\ Claims(y, "import")
    BY <1>4, <1>0, <2>1 DEF Setup!Load, Setup!InJob, Setup!Ends, SetupAttempt, Goes, Claims, Owns,
       Early, Inside, Unsure, Setup!Waiting
  <2>4. Setup!Leased /\ worker[a].pc # "none"
    BY <1>4, <1>0 DEF Setup!Load, Setup!InJob, Setup!Ends, SetupAttempt, Goes, Owns, Inside,
       Setup!Leased
  <2> QED
    BY <1>4, <1>0, <2>1, <2>2, <2>3, <2>4, MoveKeeps DEF Setup!Load, Setup!rest, SetupAttempt,
       Setup!JobStates, SetupProfiles
<1> QED
  BY <1>1, <1>2, <1>3, <1>4 DEF Setup!Load

LEMMA SetupImportKeeps ==
  ASSUME SetupInv, NEW a \in Attempts, Setup!Import(a) PROVE SetupInv'
<1>0. SetupAttempt(a) /\ setup[a] \in Setups /\ stored \in SetupProfiles
          /\ setup[a].flow \in {"none", "held"}
  BY SetupShapes DEF SetupInv, Setups
<1>1. CASE Setup!Fail(a, "retry") /\ UNCHANGED stored
  BY <1>1, <1>0, SetupFailKeeps DEF Setup!Import, Setup!InJob, Setup!rest, Failures, SetupAttempt,
     Claims, Goes, Early, Inside, Unsure
<1>2. CASE Setup!Rest(a, setup[a], "complete", "none") /\ stored' = [stored EXCEPT !.bound = TRUE,
               !.pristine = FALSE]
  BY <1>2, <1>0, RestKeeps DEF Setup!Import, Setup!InJob, Setup!rest, SetupAttempt, Goes, Claims,
     Unsure, Failures, Setups, SetupProfiles
<1> QED
  BY <1>1, <1>2 DEF Setup!Import

LEMMA SetupPanicKeeps ==
  ASSUME SetupInv, NEW a \in Attempts, Setup!Panic(a) PROVE SetupInv'
<1> DEFINE claim == CASE setup[a].claim = "asked" -> "lost"
                      [] setup[a].claim = "returned" -> "refused"
                      [] OTHER -> setup[a].claim
           x == [setup[a] EXCEPT !.claim = claim]
           failure == IF setup[a].saved \/ setup[a].session THEN "retry" ELSE "reenter"
<1>1. SetupAttempt(a) /\ setup[a] \in Setups /\ stored \in SetupProfiles
  BY SetupShapes DEF SetupInv
<1>2. /\ claim \in {"none", "lost", "refused", "saved"} /\ (claim = "none" <=> setup[a].claim = "none")
      /\ claim \in Unsure <=> setup[a].claim \in Unsure
  BY <1>1 DEF Setups, Unsure
<1>3. Setup!Rest(a, x, "failed", failure) /\ UNCHANGED Setup!rest /\ worker[a].pc # "none"
  BY DEF Setup!Panic, Setup!InJob
<1> HIDE DEF claim
<1>4. x \in Setups /\ x.claim = claim /\ x.flow = setup[a].flow /\ x.session = setup[a].session
      /\ x.saved = setup[a].saved /\ x.retain = setup[a].retain /\ x.state = setup[a].state
      /\ x.failure = setup[a].failure
  BY <1>1, <1>2 DEF Setups
<1>5. failure \in Failures /\ (setup[a].session \/ setup[a].saved \/ failure = "reenter")
  BY DEF Failures
<1> HIDE DEF x, failure
<1>6. /\ claim # "none" => x.retain
      /\ claim \in Unsure => ~x.saved
      /\ claim \in {"lost", "refused"} => x.session \/ failure = "reenter"
  BY <1>1, <1>2, <1>4, <1>5 DEF SetupAttempt, Claims, Unsure
<1> QED
  BY <1>1, <1>2, <1>3, <1>4, <1>5, <1>6, RestKeeps DEF Setup!rest

LEMMA SetupStartKeeps ==
  ASSUME SetupInv, NEW a \in Attempts, Setup!Start(a) PROVE SetupInv'
<1>0. SetupAttempt(a) /\ setup[a] \in Setups /\ stored \in SetupProfiles
          /\ setup[a].flow \in {"none", "held"}
  BY SetupShapes DEF SetupInv, Setups
<1>1. SetupInv'
  <2> DEFINE y == Setup!Moved(setup[a], "inspect", "none")
  <2>1. y \in Setups /\ y.state = "inspect" /\ y.failure = "none" /\ y.flow = setup[a].flow
            /\ y.session = setup[a].session
             /\ y.saved = setup[a].saved /\ y.retain = setup[a].retain /\ y.claim = setup[a].claim
    BY <1>0, MovedGives DEF SetupAlike, Setup!SetupStates, Setup!Waiting, Failures
  <2>2. setup' = [setup EXCEPT ![a] = y] /\ Setup!To(a, "open")
    BY SetupShapes DEF Setup!Start, Setup!InJob, Setup!Ends, Setup!Begin
  <2> HIDE DEF y
  <2>3. Goes(y, "open") /\ Claims(y, "open")
    BY <1>0, <2>1 DEF Setup!Start, Setup!InJob, Setup!Ends, Setup!Begin, SetupAttempt, Goes, Claims,
       Owns, Early, Inside, Unsure, Setup!Waiting
  <2>4. (setup[a].flow = "held" => Setup!Leased) /\ setup[a].state # "canceled"
    BY DEF Setup!Leased, Setup!Start
  <2> QED
    BY <1>0, <2>1, <2>2, <2>3, <2>4, MoveKeeps DEF Setup!Start, Setup!rest, Setup!JobStates, Setup!Begin
<1> QED
  BY <1>1 DEF Setup!Start

LEMMA InspectAgainKeeps ==
  ASSUME SetupInv, NEW a \in Attempts, Setup!InspectAgain(a) PROVE SetupInv'
<1>0. SetupAttempt(a) /\ setup[a] \in Setups /\ stored \in SetupProfiles
          /\ setup[a].flow \in {"none", "held"}
  BY SetupShapes DEF SetupInv, Setups
<1>1. SetupInv'
  <2> DEFINE y == Setup!Moved(setup[a], "inspect", "none")
  <2>1. y \in Setups /\ y.state = "inspect" /\ y.failure = "none" /\ y.flow = setup[a].flow
            /\ y.session = setup[a].session
             /\ y.saved = setup[a].saved /\ y.retain = setup[a].retain /\ y.claim = setup[a].claim
    BY <1>0, MovedGives DEF SetupAlike, Setup!SetupStates, Setup!Waiting, Failures
  <2>2. setup' = [setup EXCEPT ![a] = y] /\ Setup!To(a, "open")
    BY SetupShapes DEF Setup!InspectAgain, Setup!InJob, Setup!Ends, Setup!Begin, Setup!Reenters
  <2> HIDE DEF y
  <2>3. Goes(y, "open") /\ Claims(y, "open")
    BY <1>0, <2>1 DEF Setup!InspectAgain, Setup!InJob, Setup!Ends, Setup!Begin, Setup!Reenters,
       SetupAttempt, Goes, Claims, Owns, Early, Inside, Unsure, Setup!Waiting
  <2>4. (setup[a].flow = "held" => Setup!Leased) /\ setup[a].state # "canceled"
    BY DEF Setup!Leased, Setup!InspectAgain, Setup!Reenters
  <2> QED
    BY <1>0, <2>1, <2>2, <2>3, <2>4, MoveKeeps DEF Setup!InspectAgain, Setup!rest, Setup!JobStates,
       Setup!Begin
<1> QED
  BY <1>1 DEF Setup!InspectAgain

LEMMA RefuseAccountKeeps ==
  ASSUME SetupInv, NEW a \in Attempts, Setup!RefuseAccount(a) PROVE SetupInv'
<1>0. SetupAttempt(a) /\ setup[a] \in Setups /\ stored \in SetupProfiles
          /\ setup[a].flow \in {"none", "held"}
  BY SetupShapes DEF SetupInv, Setups
<1>1. SetupInv'
  <2> DEFINE y == Setup!Moved(setup[a], "identity_mismatch", "reenter")
  <2>1. y \in Setups /\ SetupAlike(y, setup[a]) /\ y.state = "identity_mismatch" /\ y.failure = "reenter"
    BY <1>0, MovedGives DEF Setup!SetupStates, Failures
  <2>2. setup' = [setup EXCEPT ![a] = y] /\ UNCHANGED <<worker, Setup!rest>>
    BY DEF Setup!RefuseAccount
  <2> HIDE DEF y
  <2>3. worker[a].pc = "none" /\ setup[a].state \notin {"canceled", "unused"} /\ setup[a].flow = "held"
            /\ Setup!Leased
    BY <1>0 DEF Setup!RefuseAccount, Setup!Reenters, SetupAttempt, Goes, Setup!Waiting, Setup!Leased
  <2>4. Goes(y, "none") /\ Claims(y, "none")
    BY <1>0, <2>1, <2>3 DEF SetupAlike, SetupAttempt, Goes, Claims, Early, Inside, Unsure, Setup!Waiting
  <2> QED
    BY <1>0, <2>1, <2>2, <2>3, <2>4, SetupStayKeeps DEF SetupAlike
<1> QED
  BY <1>1 DEF Setup!RefuseAccount

LEMMA SetupConnectKeeps ==
  ASSUME SetupInv, NEW a \in Attempts, Setup!Connect(a) PROVE SetupInv'
<1>0. SetupAttempt(a) /\ setup[a] \in Setups /\ stored \in SetupProfiles
          /\ setup[a].flow \in {"none", "held"}
  BY SetupShapes DEF SetupInv, Setups
<1>1. SetupInv'
  <2> DEFINE x == Setup!Moved(setup[a], "claiming", "none")
             y == [x EXCEPT !.session = FALSE, !.saved = FALSE, !.retain = TRUE, !.claim = "asked"]
  <2>1. x \in Setups /\ SetupAlike(x, setup[a]) /\ x.state = "claiming" /\ x.failure = "none"
    BY <1>0, MovedGives DEF Setup!SetupStates, Setup!Waiting, Failures
  <2> HIDE DEF x
  <2>2. y \in Setups /\ y.state = "claiming" /\ y.failure = "none" /\ y.flow = x.flow /\ y.session = FALSE
        /\ y.saved = FALSE /\ y.retain = TRUE /\ y.claim = "asked"
    BY <2>1 DEF Setups
  <2>3. setup' = [setup EXCEPT ![a] = y] /\ Setup!To(a, "claim")
    BY DEF Setup!Connect, Setup!Begin, x
  <2> HIDE DEF y
  <2>4. setup[a].state \notin {"canceled", "unused"} /\ setup[a].flow = "held" /\ Setup!Leased
    BY <1>0 DEF Setup!Connect, Setup!Reenters, Setup!Leased
  <2>5. Goes(y, "claim") /\ Claims(y, "claim")
    BY <2>1, <2>2, <2>4 DEF SetupAlike, Goes, Claims, Early, Inside, Unsure, Setup!Waiting
  <2> QED
    BY <1>0, <2>1, <2>2, <2>3, <2>4, <2>5, MoveKeeps DEF Setup!Connect, Setup!Begin, Setup!rest,
       Setup!JobStates, SetupProfiles
<1> QED
  BY <1>1 DEF Setup!Connect

LEMMA RetrySaveKeeps ==
  ASSUME SetupInv, NEW a \in Attempts, Setup!RetrySave(a) PROVE SetupInv'
<1>0. SetupAttempt(a) /\ setup[a] \in Setups /\ stored \in SetupProfiles
          /\ setup[a].flow \in {"none", "held"}
  BY SetupShapes DEF SetupInv, Setups
<1>1. SetupInv'
  <2> DEFINE y == Setup!Moved(setup[a], "saving_session", "none")
  <2>1. y \in Setups /\ y.state = "saving_session" /\ y.failure = "none" /\ y.flow = setup[a].flow
            /\ y.session = setup[a].session
             /\ y.saved = setup[a].saved /\ y.retain = setup[a].retain /\ y.claim = setup[a].claim
    BY <1>0, MovedGives DEF SetupAlike, Setup!SetupStates, Setup!Waiting, Failures
  <2>2. setup' = [setup EXCEPT ![a] = y] /\ Setup!To(a, "save")
    BY SetupShapes DEF Setup!RetrySave, Setup!InJob, Setup!Ends, Setup!Begin, Setup!CanRetrySave
  <2> HIDE DEF y
  <2>3. Goes(y, "save") /\ Claims(y, "save")
    BY <1>0, <2>1 DEF Setup!RetrySave, Setup!InJob, Setup!Ends, Setup!Begin, Setup!CanRetrySave,
       SetupAttempt, Goes, Claims, Owns, Early, Inside, Unsure, Setup!Waiting
  <2>4. (setup[a].flow = "held" => Setup!Leased) /\ setup[a].state # "canceled"
    BY DEF Setup!Leased, Setup!RetrySave, Setup!CanRetrySave
  <2> QED
    BY <1>0, <2>1, <2>2, <2>3, <2>4, MoveKeeps DEF Setup!RetrySave, Setup!rest, Setup!JobStates,
       Setup!Begin
<1> QED
  BY <1>1 DEF Setup!RetrySave

LEMMA RetryImportKeeps ==
  ASSUME SetupInv, NEW a \in Attempts, Setup!RetryImport(a) PROVE SetupInv'
<1>0. SetupAttempt(a) /\ setup[a] \in Setups /\ stored \in SetupProfiles
          /\ setup[a].flow \in {"none", "held"}
  BY SetupShapes DEF SetupInv, Setups
<1>1. SetupInv'
  <2> DEFINE y == Setup!Moved(setup[a], "importing", "none")
  <2>1. y \in Setups /\ y.state = "importing" /\ y.failure = "none" /\ y.flow = setup[a].flow
            /\ y.session = setup[a].session
             /\ y.saved = setup[a].saved /\ y.retain = setup[a].retain /\ y.claim = setup[a].claim
    BY <1>0, MovedGives DEF SetupAlike, Setup!SetupStates, Setup!Waiting, Failures
  <2>2. setup' = [setup EXCEPT ![a] = y] /\ Setup!To(a, "load")
    BY SetupShapes DEF Setup!RetryImport, Setup!InJob, Setup!Ends, Setup!Begin, Setup!CanRetryImport
  <2> HIDE DEF y
  <2>3. Goes(y, "load") /\ Claims(y, "load")
    BY <1>0, <2>1 DEF Setup!RetryImport, Setup!InJob, Setup!Ends, Setup!Begin, Setup!CanRetryImport,
       SetupAttempt, Goes, Claims, Owns, Early, Inside, Unsure, Setup!Waiting
  <2>4. (setup[a].flow = "held" => Setup!Leased) /\ setup[a].state # "canceled"
    BY DEF Setup!Leased, Setup!RetryImport, Setup!CanRetryImport
  <2> QED
    BY <1>0, <2>1, <2>2, <2>3, <2>4, MoveKeeps DEF Setup!RetryImport, Setup!rest, Setup!JobStates,
       Setup!Begin
<1> QED
  BY <1>1 DEF Setup!RetryImport

LEMMA SetupTakeOpenedProfileKeeps ==
  ASSUME SetupInv, NEW a \in Attempts, Setup!TakeOpenedProfile(a) PROVE SetupInv'
<1>0. SetupAttempt(a) /\ setup[a] \in Setups /\ stored \in SetupProfiles
          /\ setup[a].flow \in {"none", "held"}
  BY SetupShapes DEF SetupInv, Setups
<1>1. SetupInv'
  <2> DEFINE y == [setup[a] EXCEPT !.flow = "none"]
  <2>1. y \in Setups /\ y.state = setup[a].state /\ y.failure = setup[a].failure /\ y.flow = "none"
        /\ y.session = setup[a].session /\ y.saved = setup[a].saved /\ y.retain = setup[a].retain
        /\ y.claim = setup[a].claim
    BY <1>0 DEF Setups
  <2>2. setup' = [setup EXCEPT ![a] = y] /\ UNCHANGED <<worker, Setup!rest>>
    BY DEF Setup!TakeOpenedProfile
  <2> HIDE DEF y
  <2>3. worker[a].pc = "none" /\ setup[a].state = "complete" /\ ~stored.pristine
    BY <1>0 DEF Setup!TakeOpenedProfile, Setup!Done, Setup!InJob, SetupAttempt
  <2>4. Goes(y, "none") /\ Claims(y, "none")
    BY <1>0, <2>1, <2>3 DEF SetupAttempt, Goes, Claims, Early, Inside, Unsure, Setup!Waiting
  <2> QED
    BY <1>0, <2>1, <2>2, <2>3, <2>4, SetupStayKeeps
<1> QED
  BY <1>1 DEF Setup!TakeOpenedProfile

LEMMA SetupCanceledGives ==
  ASSUME NEW x \in Setups
  PROVE  /\ Setup!Canceled(x) \in Setups /\ SetupAlike(Setup!Canceled(x), x)
                /\ Setup!Canceled(x).state = "canceled"
         /\ Setup!Canceled(x).failure = IF x.state = "canceled" THEN x.failure
                                  ELSE IF x.retain /\ ~x.saved THEN "revoke" ELSE "none"
<1>1. "canceled" \in Setup!SetupStates /\ (IF x.retain /\ ~x.saved THEN "revoke" ELSE "none") \in Failures
  BY DEF Setup!SetupStates, Failures
<1> QED
  BY <1>1, SetStateGives DEF Setup!Canceled

LEMMA CanceledIs ==
  ASSUME SetupInv, NEW a \in Attempts, setup[a].state # "unused", setup'[a] = Setup!Canceled(setup[a]),
         UNCHANGED <<worker, quiet, stored>>
  PROVE  SetupAttempt(a)'
<1> DEFINE y == Setup!Canceled(setup[a])
<1>1. SetupAttempt(a) /\ setup[a] \in Setups
  BY SetupShapes DEF SetupInv
<1>2. /\ y \in Setups /\ SetupAlike(y, setup[a]) /\ y.state = "canceled"
      /\ setup[a].state # "canceled" => y.failure = IF setup[a].retain
             /\ ~setup[a].saved THEN "revoke" ELSE "none"
      /\ setup[a].state = "canceled" => y.failure = setup[a].failure
  BY <1>1, SetupCanceledGives
<1>3. setup'[a] = y /\ worker'[a] = worker[a]
  OBVIOUS
<1> HIDE DEF y
<1>4. Goes(y, worker[a].pc)
  BY <1>1, <1>2 DEF SetupAttempt, Goes, SetupAlike, Early, Inside, Setup!Waiting
<1>5. Claims(y, worker[a].pc)
  BY <1>1, <1>2 DEF SetupAttempt, Claims, SetupAlike, Unsure
<1>6. a \in quiet => worker[a].pc = "none" /\ y.flow = "none"
  BY <1>1, <1>2 DEF SetupAttempt, SetupAlike
<1> QED
  BY <1>1, <1>2, <1>3, <1>4, <1>5, <1>6 DEF SetupAttempt

LEMMA SetupCancelKeeps ==
  ASSUME SetupInv, NEW a \in Attempts, Setup!Cancel(a) PROVE SetupInv'
<1>1. setup[a] \in Setups /\ setup[a].state # "unused"
          /\ setup' = [setup EXCEPT ![a] = Setup!Canceled(setup[a])]
  BY SetupShapes DEF Setup!Cancel
<1>2. /\ setup' \in [Attempts -> Setups] /\ setup'[a] = Setup!Canceled(setup[a])
      /\ \A b \in Attempts \ {a} : setup'[b] = setup[b]
  BY <1>1, SetupCanceledGives, SetupShapes
<1>3. SetupAttempt(a)'
  BY <1>1, <1>2, CanceledIs DEF Setup!Cancel
<1>4. SetupOnly(a)
  <2>1. (setup'[a].flow = "held" => Setup!Leased) /\ (worker[a].owned # "nothing" => Setup!Leased)
            /\ setup'[a].retain = setup[a].retain
    BY <1>1, <1>2, SetupCanceledGives DEF SetupAlike, Setup!Leased
  <2> QED
    BY <1>2, <2>1, SetupShapes DEF SetupOnly, Called, Setup!Cancel, SetupInv, Setup!Types
<1> QED
  BY <1>3, <1>4, SetupOnlyKeeps

LEMMA CancelAllKeeps ==
  ASSUME SetupInv, Setup!CancelAll, UNCHANGED <<worker, quiet, stored>>, shut' \in BOOLEAN,
         \A r \in Requests : request'[r] = "remove" => request[r] = "remove",
         request' \in [Requests -> {"idle", "ending", "evict", "evicting", "evicted", "remove", "removed",
             "kept"}]
  PROVE  SetupInv'
<1>1. ASSUME NEW a \in Attempts
      PROVE  /\ setup'[a] \in Setups /\ SetupAlike(setup'[a], setup[a])
             /\ setup[a].state = "unused" => setup'[a] = setup[a]
             /\ setup[a].state # "unused" => setup'[a] = Setup!Canceled(setup[a])
  <2>1. setup'[a] = IF setup[a].state # "unused" THEN Setup!Canceled(setup[a]) ELSE setup[a]
    BY DEF Setup!CancelAll, Setup!Started
  <2> QED
    BY <2>1, SetupShapes, SetupCanceledGives DEF SetupAlike
<1>2. ASSUME NEW a \in Attempts PROVE SetupAttempt(a)'
  <2>1. CASE setup[a].state = "unused"
    <3>1. Called(a)' => Called(a)
      BY <2>1 DEF Setup!CancelAll, Setup!Started, Called
    <3>2. SetupAttempt(a) /\ setup'[a] = setup[a]
      BY <1>1, <2>1 DEF SetupInv
    <3> QED
      BY <3>1, <3>2 DEF SetupAttempt
  <2> QED
    BY <1>1, <2>1, CanceledIs
<1>3. setup' \in [Attempts -> Setups]
  <2>1. setup' = [a \in Attempts |-> setup'[a]]
    BY DEF Setup!CancelAll
  <2> QED
    BY <1>1, <2>1
<1>4. waits' \subseteq Attempts \X {"call", "sure"}
  BY SetupShapes DEF Setup!CancelAll, Setup!Started
<1>5. Setup!Leased' => stored'.pooled
  BY <1>1 DEF Setup!Leased, SetupAlike, SetupInv, Setup!Types
<1>6. ASSUME SetupOneRequest PROVE Asked'
  BY <1>1, <1>6 DEF SetupInv, Asked, Setup!Retains, SetupAlike
<1>7. Setup!Types'
  BY <1>3, <1>4, <1>5, SetupShapes DEF Setup!Types, Setups, SetupJobs, SetupProfiles, Failures
<1> QED
  BY <1>2, <1>6, <1>7 DEF SetupInv, SetupOneRequest

LEMMA SetupCancelProfileKeeps == ASSUME SetupInv, Setup!CancelProfile PROVE SetupInv'
  BY CancelAllKeeps, SetupShapes DEF Setup!CancelProfile, SetupInv, Setup!Types

LEMMA SetupCloseKeeps == ASSUME SetupInv, Setup!Close PROVE SetupInv'
  BY CancelAllKeeps DEF Setup!Close, SetupInv, Setup!Types

LEMMA EndAttemptsKeeps == ASSUME SetupInv, NEW r \in Requests, Setup!EndAttempts(r) PROVE SetupInv'
  BY CancelAllKeeps DEF Setup!EndAttempts, Setup!Step, SetupInv, Setup!Types

LEMMA ReleaseKeeps ==
  ASSUME SetupInv, NEW w \in waits, Setup!Release(w) PROVE SetupInv'
<1> DEFINE a == w[1]
           y == [setup[a] EXCEPT !.flow = "none", !.session = FALSE]
<1>1. a \in Attempts /\ w[2] \in {"call", "sure"} /\ w = <<a, w[2]>>
  BY SetupShapes
<1>2. SetupAttempt(a) /\ setup[a] \in Setups /\ worker[a].pc = "none" /\ Called(a)
  BY <1>1, SetupShapes DEF SetupInv, Called, Setup!Release, Setup!Done, Setup!InJob
<1>3. y \in Setups /\ y.state = setup[a].state /\ y.failure = setup[a].failure /\ y.flow = "none"
      /\ y.session = FALSE /\ y.saved = setup[a].saved /\ y.retain = setup[a].retain
             /\ y.claim = setup[a].claim
  BY <1>2 DEF Setups
<1>4. setup' = [setup EXCEPT ![a] = y]
  BY DEF Setup!Release, Setup!Released
<1> HIDE DEF y
<1>5. /\ setup' \in [Attempts -> Setups] /\ setup'[a] = y
      /\ \A b \in Attempts \ {a} : setup'[b] = setup[b]
  BY <1>1, <1>3, <1>4, SetupShapes
<1>6. waits' \subseteq waits /\ quiet' = quiet \cup {a} /\ UNCHANGED <<worker, request, stored, shut>>
  BY DEF Setup!Release
<1> HIDE DEF a
<1>7. ASSUME NEW b \in Attempts PROVE SetupAttempt(b)'
  <2>1. CASE b = a
    <3>1. setup[a].state = "canceled"
      BY <1>2 DEF SetupAttempt
    <3>2. Goes(y, "none") /\ Claims(y, "none")
      BY <1>2, <1>3, <3>1 DEF SetupAttempt, Goes, Claims, Early, Inside, Setup!Waiting, Unsure
    <3> QED
      BY <1>2, <1>3, <1>5, <1>6, <2>1, <3>1, <3>2 DEF SetupAttempt
  <2>2. CASE b # a
    BY <1>5, <1>6, <1>7, <2>2 DEF SetupInv, SetupAttempt, Called
  <2> QED
    BY <2>1, <2>2
<1>8. Setup!Leased' => stored'.pooled
  BY <1>1, <1>3, <1>5, <1>6 DEF Setup!Leased, SetupInv, Setup!Types
<1>9. ASSUME SetupOneRequest PROVE Asked'
  BY <1>1, <1>3, <1>5, <1>6, <1>9 DEF SetupInv, Asked, Setup!Retains
<1>10. Setup!Types'
  BY <1>1, <1>5, <1>6, <1>8, SetupShapes DEF SetupInv, Setup!Types, Setups, SetupJobs, SetupProfiles,
     Failures
<1> QED
  BY <1>7, <1>9, <1>10 DEF SetupInv, SetupOneRequest

LEMMA RequestKeeps ==
  ASSUME SetupInv, UNCHANGED <<setup, worker, quiet, shut>>, waits' \subseteq waits,
         request' \in [Requests -> {"idle", "ending", "evict", "evicting", "evicted", "remove", "removed",
             "kept"}],
         stored' \in SetupProfiles, stored'.pristine => stored.pristine, Setup!Leased => stored'.pooled,
         SetupOneRequest => Asked'
  PROVE  SetupInv'
<1>1. ASSUME NEW b \in Attempts PROVE SetupAttempt(b)'
  BY <1>1 DEF SetupInv, SetupAttempt, Called
<1>2. Setup!Types'
  BY SetupShapes DEF SetupInv, Setup!Types, Setup!Leased, Setups, SetupJobs, SetupProfiles, Failures
<1> QED
  BY <1>1, <1>2 DEF SetupInv, SetupOneRequest

LEMMA AbandonCancelKeeps == ASSUME SetupInv, NEW w \in waits, Setup!AbandonCancel(w) PROVE SetupInv'
<1>1. SetupOneRequest => Asked'
  BY DEF Setup!AbandonCancel, SetupInv, Asked, Setup!Retains
<1> QED
  BY <1>1, RequestKeeps, SetupShapes DEF Setup!AbandonCancel, SetupInv, Setup!Types

LEMMA RollKeeps ==
  ASSUME SetupInv, NEW r \in Requests, Setup!Roll(r) PROVE SetupInv'
<1> DEFINE Requesting == [Requests -> {"idle", "ending", "evict", "evicting", "evicted", "remove",
               "removed", "kept"}]
<1>1. request \in Requesting /\ (Setup!Leased => stored.pooled)
  BY DEF SetupInv, Setup!Types
<1>2. CASE Setup!EndAttempts(r)
  BY <1>2, EndAttemptsKeeps
<1>3. ASSUME NEW from, NEW to \in {"evict", "evicting", "evicted", "kept", "removed"}, Setup!Step(r, from,
                 to) 
      PROVE  request' \in Requesting /\ \A s \in Requests : request'[s] = "remove" => request[s] = "remove"
                 /\ s # r
  BY <1>1, <1>3 DEF Setup!Step
<1>4. CASE Setup!AttemptsEnded(r)
  BY <1>1, <1>3, <1>4, RequestKeeps, SetupShapes DEF Setup!AttemptsEnded, SetupInv, Asked, Setup!Retains
<1>5. CASE Setup!BeginEvict(r)
  <2>1. stored' \in SetupProfiles /\ stored'.pooled = stored.pooled /\ stored'.pristine = stored.pristine
    BY <1>5, SetupShapes DEF Setup!BeginEvict, SetupProfiles
  <2> QED
    BY <1>1, <1>3, <1>5, <2>1, RequestKeeps, SetupShapes DEF Setup!BeginEvict, SetupInv, Asked,
       Setup!Retains
<1>6. CASE Setup!Evicted(r)
  <2>1. stored' \in SetupProfiles /\ stored'.pristine = stored.pristine /\ ~Setup!Leased
    BY <1>6, SetupShapes DEF Setup!Evicted, SetupProfiles
  <2>2. SetupOneRequest => Asked'
    BY <1>3, <1>6 DEF Setup!Evicted, SetupOneRequest, Asked
  <2>3. request' \in Requesting
    BY <1>3, <1>6 DEF Setup!Evicted
  <2> QED
    BY <1>6, <2>1, <2>2, <2>3, RequestKeeps DEF Setup!Evicted
<1>7. CASE Setup!AskCoordinator(r)
  <2>1. request' = [request EXCEPT ![r] = IF Setup!Retains THEN "kept" ELSE "remove"]
        /\ UNCHANGED <<setup, worker, waits, quiet, stored, shut>>
    BY <1>7 DEF Setup!AskCoordinator, Setup!Step
  <2>2. request' \in Requesting /\ (SetupOneRequest => Asked')
    BY <1>1, <2>1 DEF SetupInv, Asked, Setup!Retains
  <2> QED
    BY <1>1, <2>1, <2>2, RequestKeeps, SetupShapes
<1>8. CASE Setup!CancelNewProfile(r)
  <2>1. stored' \in SetupProfiles /\ stored'.pooled = stored.pooled /\ stored'.pristine = stored.pristine
    BY <1>8, SetupShapes DEF Setup!CancelNewProfile, SetupProfiles, Setup!Removable
  <2> QED
    BY <1>1, <1>3, <1>8, <2>1, RequestKeeps, SetupShapes DEF Setup!CancelNewProfile, SetupInv, Asked,
       Setup!Retains
<1> QED
  BY <1>2, <1>4, <1>5, <1>6, <1>7, <1>8 DEF Setup!Roll

LEMMA SetupStarts == ASSUME Setup!Init PROVE SetupInv
<1>1. Setup!Unstarted \in Setups /\ Setup!Unstarted.state = "unused" /\ Setup!Unstarted.flow = "none"
          /\ Setup!Unstarted.claim = "none"
      /\ ~Setup!Unstarted.session /\ ~Setup!Unstarted.saved /\ ~Setup!Unstarted.retain
  BY DEF Setup!Unstarted, Setups, Setup!SetupStates, Failures
<1>2. \A a \in Attempts : setup[a] = Setup!Unstarted /\ worker[a] = Setup!None
  BY DEF Setup!Init
<1>3. ASSUME NEW a \in Attempts PROVE SetupAttempt(a)
  BY <1>1, <1>2, JobGives DEF Setup!Init, SetupAttempt, Goes, Claims, Owns, Called, Early, Inside,
     Unsure, Setup!Waiting
<1>4. ~Setup!Leased /\ ~Setup!Retains
  BY <1>1, <1>2, JobGives DEF Setup!Leased, Setup!Retains
<1>5. Setup!Types
  BY <1>1, <1>4, JobGives DEF Setup!Init, Setup!Types, Setups, SetupJobs, SetupProfiles, Failures
<1> QED
  BY <1>3, <1>4, <1>5 DEF SetupInv, Asked

LEMMA SetupKeeps == ASSUME SetupInv, [Setup!Next]_(Setup!setupVars) PROVE SetupInv'
<1>1. CASE UNCHANGED Setup!setupVars
  BY <1>1 DEF Setup!setupVars, SetupInv, Setup!Types, Setup!Leased, SetupAttempt, Called,
     SetupOneRequest, Asked, Setup!Retains
<1>2. ASSUME NEW a \in Attempts, Setup!Work(a) PROVE SetupInv'
  BY <1>2, SetupOpenKeeps, SetupTakeLockKeeps, SetupInstallKeeps, LookKeeps, FoundKeeps, ClaimKeeps,
     ClaimedKeeps, SaveKeeps, FlagKeeps, LoadKeeps, SetupImportKeeps, SetupPanicKeeps DEF Setup!Work
<1>3. ASSUME NEW a \in Attempts, Setup!Present(a) PROVE SetupInv'
  BY <1>3, SetupStartKeeps, InspectAgainKeeps, RefuseAccountKeeps, SetupConnectKeeps, RetrySaveKeeps,
     RetryImportKeeps, SetupCancelKeeps, SetupTakeOpenedProfileKeeps DEF Setup!Present
<1> QED
  BY <1>1, <1>2, <1>3, ReleaseKeeps, AbandonCancelKeeps, SetupCancelProfileKeeps, SetupCloseKeeps,
     RollKeeps DEF Setup!Next

LEMMA SetupImplies ==
  ASSUME SetupInv
  PROVE  Setup!NoDeadEnd /\ Setup!CredentialNotLost /\ Setup!QuietAfterCancel /\ Setup!WorksWhileHeld
<1>1. \A a \in Attempts : SetupAttempt(a) /\ setup[a] \in Setups
  BY SetupShapes DEF SetupInv
<1>2. Setup!NoDeadEnd /\ Setup!WorksWhileHeld
  BY <1>1 DEF Setup!NoDeadEnd, Setup!WorksWhileHeld, SetupAttempt, Goes, Setup!InJob, Inside
<1>3. Setup!QuietAfterCancel
  BY <1>1 DEF SetupInv, Setup!Types, Setup!QuietAfterCancel, SetupAttempt, Setup!InJob, Called
<1>4. Setup!CredentialNotLost
  BY <1>1 DEF Setup!CredentialNotLost, Setup!CanRetrySave, SetupAttempt, Claims, Goes, Unsure,
     Setup!InJob
<1> QED
  BY <1>2, <1>3, <1>4

LEMMA SetupRetained ==
  ASSUME SetupInv, [Setup!Next]_(Setup!setupVars), SetupOneRequest, stored.exists, ~stored'.exists,
         NEW a \in Attempts
  PROVE  setup[a].claim = "none"
<1>1. \E r \in Requests : Setup!CancelNewProfile(r)
  BY SetupShapes DEF Setup!Next, Setup!Work, Setup!Present, Setup!Roll, Setup!setupVars, SetupProfiles,
     Setup!rest, Setup!Begin, Setup!Open, Setup!TakeLock, Setup!Install, Setup!Look, Setup!Found,
     Setup!Claim, Setup!Claimed, Setup!Save, Setup!Flag, Setup!Load, Setup!Import, Setup!Panic,
     Setup!Start, Setup!InspectAgain, Setup!RefuseAccount, Setup!Connect, Setup!RetrySave,
     Setup!RetryImport, Setup!Cancel, Setup!TakeOpenedProfile, Setup!Release, Setup!AbandonCancel,
     Setup!CancelProfile, Setup!Close, Setup!EndAttempts, Setup!AttemptsEnded, Setup!BeginEvict,
     Setup!Evicted, Setup!AskCoordinator
<1>2. ~Setup!Retains
  BY <1>1, SetupShapes DEF Setup!CancelNewProfile, Setup!Step, Setup!Removable, SetupInv, Asked,
     SetupProfiles
<1>3. SetupAttempt(a)
  BY DEF SetupInv
<1> QED
  BY <1>2, <1>3 DEF SetupAttempt, Claims, Setup!Retains

--------------------------------------------------------------------------------
(* Attempts to connect a provider                                            *)

\* The steps of a job that is not over.
Active == Connect!Using \cup {"inspect", "lock", "install", "restart", "drop"}
Owning == {"lock", "install", "drop"}
Asking == {"unlock_required", "credentials_required", "settings_required", "remote_profile_required"}

\* What a job of an attempt x finds at pc.
Serves(x, pc) ==
  /\ pc \in Active => x.state \in Connect!Working
  /\ pc \in {"confirm", "saved", "import", "importing"} => x.state = "importing"
  /\ x.kind = "monarch" =>
       /\ pc \notin {"plan", "select", "confirm", "saved"}
       /\ pc \in {"vault", "validate", "unlock", "credentials", "save_vault", "save_session"}
              => x.flow.config
       /\ pc \in {"import", "importing"} => x.flow.config /\ x.flow.identity
  /\ x.kind = "ynab" =>
       /\ pc \notin {"input", "vault", "validate", "save_vault", "save_session"}
       /\ pc = "select" => x.flow.plans
       /\ pc \in {"select", "plan"} => x.flow.token /\ x.flow.password
       /\ pc = "confirm" => x.flow.password
       /\ pc \in {"confirm", "saved", "import", "importing"} => x.flow.credentials /\ x.flow.snapshot

\* What the answer that a state asks for is used with, and what an import is.
Asks(kind, st, flow) ==
  /\ st \in Asking => flow.held
  /\ kind = "monarch" =>
       /\ st # "remote_profile_required"
       /\ st \in {"unlock_required", "credentials_required"} => flow.config
  /\ kind = "ynab" =>
       /\ st = "remote_profile_required" => flow.plans /\ flow.token /\ flow.password
       /\ st = "settings_required" => flow.password /\ flow.credentials /\ flow.snapshot
ConnectReady(kind, flow) ==
  /\ flow.held
  /\ kind = "monarch" => flow.config /\ flow.identity
  /\ kind = "ynab" => flow.credentials /\ flow.snapshot
Has(x) ==
  /\ Asks(x.kind, x.state, x.flow)
  /\ x.flow.retry => x.state \in {"failed", "importing"} /\ ConnectReady(x.kind, x.flow)

\* Where a job is: the one that is not over is the last that began.
Slot(a, s) ==
  /\ job[a][s].pc \in Active => attempt[a].jobDone = s
  /\ job[a][s].pc \in Connect!Using => attempt[a].flow.held
  /\ job[a][s].owned # "nothing" => job[a][s].pc \in Owning
  /\ job[a][s].pc = "releasing" => ~Connect!Alive(a) /\ attempt[a].jobDone = 0
  /\ attempt[a].listed /\ attempt[a].jobDone = s => job[a][s].pc \in Active \cup {"ending"}
  /\ Connect!Alive(a) => Serves(attempt[a], job[a][s].pc)

ConnectAttempt(a) ==
  /\ \A s \in Slots : Slot(a, s)
  /\ Connect!Alive(a) => Has(attempt[a])
  /\ Connect!Alive(a) /\ attempt[a].state \in Connect!Working =>
       \E s \in Slots : s = attempt[a].jobDone /\ job[a][s].pc \in Active
  /\ a \in answered => ~Connect!Alive(a) /\ ~attempt[a].flow.held
         /\ \A s \in Slots : job[a][s].pc \notin Active
  /\ \A d \in duties : d.attempt = a => ~Connect!Alive(a) /\ attempt[a].jobDone \in {d.job, 0}

ConnectInv == Connect!TypeOK /\ \A a \in Connecting : ConnectAttempt(a)

ConnectNumbered == 0 \notin Slots

--------------------------------------------------------------------------------
Flows == [DOMAIN Connect!NewFlow -> BOOLEAN]
Recs == [listed : BOOLEAN, kind : Connect!Kinds, state : Connect!States, canRetry : BOOLEAN,
    canReenter : BOOLEAN, explicit : BOOLEAN,
         running : BOOLEAN, jobDone : Slots \cup {0}, flow : Flows]
Steps == Connect!Using \cup {"none", "inspect", "lock", "install", "ending", "releasing", "restart", "drop"}
ConnectJobs == [pc : Steps, owned : {"nothing", "lease", "both"}]
AllDuties == [attempt : Connecting, job : Slots \cup {0}, late : BOOLEAN]
ConnectProfiles == [bound : Connect!Kinds \cup {"none"}, pristine : BOOLEAN,
    vault : [Connect!Kinds -> BOOLEAN], session : BOOLEAN]

LEMMA ConnectShapes ==
  ASSUME ConnectInv
  PROVE  /\ attempt \in [Connecting -> Recs] /\ job \in [Connecting -> [Slots -> ConnectJobs]]
         /\ duties \subseteq AllDuties /\ answered \subseteq Connecting /\ bound \in ConnectProfiles
         /\ elsewhere \in BOOLEAN /\ shutdown \in BOOLEAN
         /\ \A a \in Connecting : attempt[a].running <=> attempt[a].jobDone # 0
  BY DEF ConnectInv, Connect!TypeOK, Flows, Recs, Steps, ConnectJobs, AllDuties, ConnectProfiles

FlowNames == {"held", "config", "session", "identity", "token", "password", "credentials", "plans",
    "snapshot",
              "vaultSaved", "retry"}

LEMMA FlowTyped ==
  DOMAIN Connect!NewFlow = FlowNames /\ Connect!NewFlow \in Flows
      /\ \A k \in DOMAIN Connect!NewFlow : ~Connect!NewFlow[k]
<1>1. DOMAIN Connect!NewFlow = FlowNames
  BY DEF Connect!NewFlow, FlowNames
<1>2. \A k \in FlowNames : Connect!NewFlow[k] = FALSE
  BY DEF Connect!NewFlow, FlowNames
<1>3. Connect!NewFlow = [k \in DOMAIN Connect!NewFlow |-> Connect!NewFlow[k]]
  BY DEF Connect!NewFlow
<1> QED
  BY <1>1, <1>2, <1>3 DEF Flows

\* y is x but for its state, what it offers and its flow; the flows are the same but for retry.
ConnectAlike(y, x) == y.listed = x.listed /\ y.kind = x.kind /\ y.running = x.running
    /\ y.jobDone = x.jobDone
SameFlow(f, g) ==
  /\ f.held = g.held /\ f.config = g.config /\ f.session = g.session /\ f.identity = g.identity
         /\ f.token = g.token
  /\ f.password = g.password /\ f.credentials = g.credentials /\ f.plans = g.plans
         /\ f.snapshot = g.snapshot
  /\ f.vaultSaved = g.vaultSaved

LEMMA TransitionGives ==
  ASSUME NEW x \in Recs, NEW st \in Connect!States, NEW r \in BOOLEAN, NEW e \in BOOLEAN
  PROVE  /\ Connect!Transition(x, st, r, e) \in Recs /\ ConnectAlike(Connect!Transition(x, st, r, e), x)
         /\ Connect!Transition(x, st, r, e).state = st
         /\ SameFlow(Connect!Transition(x, st, r, e).flow, x.flow)
         /\ Connect!Transition(x, st, r, e).flow.retry = (x.flow.retry /\ st \in {"failed", "importing"})
<1>1. x.flow \in Flows /\ (x.flow.retry /\ st \in {"failed", "importing"}) \in BOOLEAN
  BY FlowTyped DEF Recs, Flows, FlowNames
<1> DEFINE f == [x.flow EXCEPT !.retry = @ /\ st \in {"failed", "importing"}]
<1>2. f \in Flows /\ SameFlow(f, x.flow) /\ f.retry = (x.flow.retry /\ st \in {"failed", "importing"})
  BY <1>1, FlowTyped DEF Flows, FlowNames, SameFlow
<1>3. Connect!Transition(x, st, r, e) =
        [x EXCEPT !.state = st, !.canRetry = r, !.canReenter = e, !.flow = f]
  BY DEF Connect!Transition, Recs
<1> HIDE DEF f
<1> QED
  BY <1>2, <1>3 DEF Recs, ConnectAlike

LEMMA MoveGives ==
  ASSUME NEW x \in Recs, NEW st \in Connect!States, NEW y, y = Connect!Transition(x, st, FALSE, FALSE)
  PROVE  /\ y \in Recs /\ ConnectAlike(y, x) /\ y.state = st /\ SameFlow(y.flow, x.flow)
         /\ y.flow.retry = (x.flow.retry /\ st \in {"failed", "importing"})
<1>1. /\ Connect!Transition(x, st, FALSE, FALSE) \in Recs
      /\ ConnectAlike(Connect!Transition(x, st, FALSE, FALSE), x)
      /\ Connect!Transition(x, st, FALSE, FALSE).state = st
      /\ SameFlow(Connect!Transition(x, st, FALSE, FALSE).flow, x.flow)
      /\ Connect!Transition(x, st, FALSE, FALSE).flow.retry = (x.flow.retry /\ st \in {"failed", "importing"})
  BY TransitionGives, Zenon
<1> QED
  BY <1>1, Zenon

LEMMA Jobless ==
  /\ Connect!NoJob \in ConnectJobs /\ Connect!NoJob.pc = "none" /\ Connect!NoJob.owned = "nothing"
  /\ \A pc \in Steps : Connect!Job(pc) \in ConnectJobs /\ Connect!Job(pc).pc = pc
         /\ Connect!Job(pc).owned = "nothing"
  /\ Connect!Ending = Connect!Job("ending")
<1>1. ASSUME NEW pc \in Steps
       PROVE Connect!Job(pc) \in ConnectJobs /\ Connect!Job(pc).pc = pc /\ Connect!Job(pc).owned = "nothing"
  BY DEF Connect!Job, Connect!NoJob, ConnectJobs
<1> QED
  BY <1>1 DEF Connect!NoJob, ConnectJobs, Steps, Connect!Ending

\* What a step of one attempt leaves alone.
ConnectOnly(a) ==
  /\ attempt' \in [Connecting -> Recs] /\ job' \in [Connecting -> [Slots -> ConnectJobs]]
  /\ duties' \subseteq AllDuties /\ answered' \subseteq Connecting /\ bound' \in ConnectProfiles
  /\ elsewhere' \in BOOLEAN /\ shutdown' \in BOOLEAN
  /\ attempt'[a].running <=> attempt'[a].jobDone # 0
  /\ \A b \in Connecting \ {a} :
       attempt'[b] = attempt[b] /\ job'[b] = job[b] /\ (b \in answered' => b \in answered)
  /\ \A d \in duties' : d.attempt # a => d \in duties

LEMMA ConnectOnlyKeeps ==
  ASSUME ConnectInv, NEW a \in Connecting, ConnectOnly(a), ConnectAttempt(a)' PROVE ConnectInv'
<1>1. ASSUME NEW b \in Connecting, b # a PROVE ConnectAttempt(b)'
  <2>1. ConnectAttempt(b) /\ attempt'[b] = attempt[b] /\ job'[b] = job[b]
            /\ (b \in answered' => b \in answered)
    BY <1>1 DEF ConnectInv, ConnectOnly
  <2>2. \A d \in duties' : d.attempt = b => d \in duties
    BY <1>1 DEF ConnectOnly
  <2>3. Connect!Alive(b)' = Connect!Alive(b)
    BY <2>1 DEF Connect!Alive
  <2>4. ASSUME NEW s \in Slots PROVE Slot(b, s)'
    BY <2>1, <2>3 DEF ConnectAttempt, Slot
  <2> QED
    BY <2>1, <2>2, <2>3, <2>4 DEF ConnectAttempt
<1>2. \A b \in Connecting : attempt'[b].running <=> attempt'[b].jobDone # 0
  BY ConnectShapes DEF ConnectOnly
<1>3. Connect!TypeOK'
  BY <1>2 DEF ConnectOnly, Connect!TypeOK, Flows, Recs, Steps, ConnectJobs, AllDuties, ConnectProfiles
<1> QED
  BY <1>1, <1>3 DEF ConnectInv

LEMMA StepKeeps ==
  ASSUME ConnectNumbered, ConnectInv, NEW a \in Connecting, NEW s \in Slots, job[a][s].pc \in Active,
         NEW y \in Recs, NEW j \in ConnectJobs,
         attempt' = [attempt EXCEPT ![a] = y], job' = [job EXCEPT ![a][s] = j],
         UNCHANGED <<duties, answered, elsewhere, shutdown>>, bound' \in ConnectProfiles,
         ConnectAlike(y, attempt[a]), y.state = "canceled" <=> attempt[a].state = "canceled",
         j.pc \in Active \cup {"ending"}, j.owned # "nothing" => j.pc \in Owning, j.pc \in Connect!Using
             => y.flow.held,
         Connect!Alive(a) => Serves(y, j.pc) /\ Has(y) /\ (y.state \in Connect!Working => j.pc \in Active)
  PROVE  ConnectInv'
<1>1. ConnectAttempt(a) /\ Slot(a, s) /\ attempt[a].jobDone = s
  BY DEF ConnectInv, ConnectAttempt, Slot
<1>2. /\ attempt' \in [Connecting -> Recs] /\ attempt'[a] = y
      /\ \A b \in Connecting \ {a} : attempt'[b] = attempt[b]
  BY ConnectShapes
<1>3. /\ job' \in [Connecting -> [Slots -> ConnectJobs]] /\ job'[a][s] = j
      /\ \A b \in Connecting \ {a} : job'[b] = job[b]
      /\ \A t \in Slots \ {s} : job'[a][t] = job[a][t]
  BY ConnectShapes
<1>4. y.jobDone = s /\ y.running /\ y.listed = attempt[a].listed
  BY <1>1, ConnectShapes DEF ConnectAlike, ConnectNumbered
<1>5. ConnectOnly(a)
  BY <1>2, <1>3, <1>4, ConnectShapes DEF ConnectOnly, ConnectNumbered
<1>6. Connect!Alive(a)' = Connect!Alive(a)
  BY <1>2, <1>4 DEF Connect!Alive
<1>7. ASSUME NEW t \in Slots PROVE Slot(a, t)'
  <2>1. CASE t = s
    <3>1. attempt'[a] = y /\ job'[a][t] = j /\ Connect!Alive(a)' = Connect!Alive(a)
      BY <1>2, <1>3, <1>6, <2>1
    <3>2. j.pc \notin {"releasing", "none"}
      BY DEF Active, Connect!Using
    <3> QED
      BY <1>1, <1>4, <2>1, <3>1, <3>2 DEF Slot
  <2>2. CASE t # s
    <3>1. job[a][t].pc \notin Active \cup {"releasing"} /\ Slot(a, t)
      BY <1>1, <2>2 DEF ConnectAttempt, Slot, ConnectNumbered
    <3>2. Serves(y, job[a][t].pc)
      BY <3>1 DEF Serves, Active, Connect!Using
    <3> QED
      BY <1>2, <1>3, <1>4, <2>2, <3>1, <3>2 DEF Slot, Active
  <2> QED
    BY <2>1, <2>2
<1>8. a \notin answered
  BY <1>1 DEF ConnectAttempt
<1>9. ConnectAttempt(a)'
  BY <1>1, <1>2, <1>3, <1>4, <1>6, <1>7, <1>8 DEF ConnectAttempt
<1> QED
  BY <1>5, <1>9, ConnectOnlyKeeps

LEMMA StopKeeps ==
  ASSUME ConnectNumbered, ConnectInv, NEW a \in Connecting, NEW s \in Slots, job[a][s].pc \in Active,
         ~Connect!Alive(a), Connect!Stop(a, s),
         UNCHANGED Connect!external
  PROVE  ConnectInv'
<1>1. attempt[a] \in Recs /\ attempt' = [attempt EXCEPT ![a] = attempt[a]]
  BY ConnectShapes DEF Connect!Stop
<1>2. Connect!Ending \in ConnectJobs /\ Connect!Ending.pc = "ending" /\ Connect!Ending.owned = "nothing"
          /\ job' = [job EXCEPT ![a][s] = Connect!Ending]
  BY Jobless DEF Connect!Stop, Connect!Ends, Steps
<1> QED
  BY <1>1, <1>2, StepKeeps, ConnectShapes DEF Connect!external, Connect!Using, ConnectAlike

LEMMA SettleKeeps ==
  ASSUME ConnectNumbered, ConnectInv, NEW a \in Connecting, NEW s \in Slots, job[a][s].pc \in Active,
         NEW x \in Recs,
         NEW st \in Connect!States \ (Connect!Working \cup {"canceled"}), NEW r \in BOOLEAN,
         NEW e \in BOOLEAN,
         Connect!Settle(a, s, x, st, r, e), ConnectAlike(x, attempt[a]),
         UNCHANGED <<duties, answered, elsewhere, shutdown>>, bound' \in ConnectProfiles,
         Connect!Alive(a) => Asks(x.kind, st, x.flow) /\ (x.flow.retry
             /\ st = "failed" => ConnectReady(x.kind, x.flow))
  PROVE  ConnectInv'
<1> DEFINE y == IF Connect!Alive(a) THEN Connect!Transition(x, st, r, e) ELSE attempt[a]
<1>1. Connect!Ending \in ConnectJobs /\ Connect!Ending.pc = "ending" /\ Connect!Ending.owned = "nothing"
          /\ job' = [job EXCEPT ![a][s] = Connect!Ending]
  BY Jobless DEF Connect!Settle, Connect!Ends, Steps
<1>2. attempt' = [attempt EXCEPT ![a] = y]
  BY DEF Connect!Settle, Connect!Settled
<1>3. y \in Recs /\ ConnectAlike(y, attempt[a])
  <2>1. CASE Connect!Alive(a)
    BY <2>1, TransitionGives DEF ConnectAlike
  <2>2. CASE ~Connect!Alive(a)
    BY <2>2, ConnectShapes DEF ConnectAlike
  <2> QED
    BY <2>1, <2>2
<1>4. CASE Connect!Alive(a)
  <2>1. /\ y.state = st /\ SameFlow(y.flow, x.flow) /\ y.flow.retry = (x.flow.retry
               /\ st \in {"failed", "importing"})
        /\ y.kind = x.kind
    BY <1>4, TransitionGives DEF ConnectAlike
  <2> HIDE DEF y
  <2>2. Asks(y.kind, y.state, y.flow) /\ (y.flow.retry => ConnectReady(y.kind, y.flow))
    BY <1>4, <2>1 DEF SameFlow, Asks, ConnectReady, Connect!Working
  <2>3. Serves(y, "ending") /\ y.state \notin Connect!Working \cup {"canceled"}
            /\ attempt[a].state # "canceled"
    BY <1>4, <2>1 DEF Serves, Active, Connect!Using, Connect!Alive
  <2>4. Has(y) /\ "ending" \notin Connect!Using
    BY <2>1, <2>2 DEF Has, Connect!Using
  <2> QED
    BY <1>1, <1>2, <1>3, <1>4, <2>1, <2>3, <2>4, StepKeeps
<1>5. CASE ~Connect!Alive(a)
  <2>1. y = attempt[a]
    BY <1>5
  <2> HIDE DEF y
  <2> QED
    BY <1>1, <1>2, <1>3, <1>5, <2>1, StepKeeps DEF Connect!Using
<1> QED
  BY <1>4, <1>5

LEMMA StableKeeps ==
  ASSUME ConnectNumbered, ConnectInv, NEW a \in Connecting, NEW s \in Slots, job[a][s].pc \in Active,
         NEW st \in Connect!States \ (Connect!Working \cup {"canceled", "failed"}), Connect!Stable(a, s,
             st),
         UNCHANGED <<duties, answered, elsewhere, shutdown>>, bound' \in ConnectProfiles,
         Connect!Alive(a) => Asks(attempt[a].kind, st, attempt[a].flow)
  PROVE  ConnectInv'
  BY SettleKeeps, ConnectShapes DEF Connect!Stable, ConnectAlike

LEMMA ConnectFailKeeps ==
  ASSUME ConnectNumbered, ConnectInv, NEW a \in Connecting, NEW s \in Slots, job[a][s].pc \in Active,
         NEW r \in BOOLEAN, NEW e \in BOOLEAN, Connect!Fail(a, s, r, e),
         UNCHANGED <<duties, answered, elsewhere, shutdown>>, bound' \in ConnectProfiles
  PROVE  ConnectInv'
<1>1. attempt[a] \in Recs /\ (Connect!Alive(a) => Has(attempt[a]))
  BY ConnectShapes DEF ConnectInv, ConnectAttempt
<1>2. Asks(attempt[a].kind, "failed", attempt[a].flow)
          /\ "failed" \in Connect!States \ (Connect!Working \cup {"canceled"})
  BY DEF Asks, Asking, Connect!States, Connect!Working
<1> QED
  BY <1>1, <1>2, SettleKeeps DEF Connect!Fail, ConnectAlike, Has
--------------------------------------------------------------------------------
\* y is x but for its flow, whose fields other than S are those of x.
Changed(y, x, S) ==
  /\ y \in Recs /\ ConnectAlike(y, x) /\ y.state = x.state
  /\ \A k \in FlowNames \ S : y.flow[k] = x.flow[k]

LEMMA HeldGives ==
  ASSUME NEW x \in Recs, NEW y, y = [x EXCEPT !.flow.held = TRUE]
  PROVE  Changed(y, x, {"held"}) /\ y.flow.held
<1> DEFINE g == [x.flow EXCEPT !.held = TRUE]
<1>1. g \in Flows /\ g.held
      /\ \A k \in FlowNames \ {"held"} : g[k] = x.flow[k]
  BY FlowTyped DEF Recs, Flows, FlowNames
<1>2. y = [x EXCEPT !.flow = g]
  BY DEF Recs
<1> HIDE DEF g
<1> QED
  BY <1>1, <1>2 DEF Recs, Changed, ConnectAlike

LEMMA ReleaseGives ==
  ASSUME NEW x \in Recs, NEW y, y = Connect!Release(x)
  PROVE  Changed(y, x, {"held"}) /\ ~y.flow.held
<1> DEFINE g == [x.flow EXCEPT !.held = FALSE]
<1>1. g \in Flows /\ ~g.held
      /\ \A k \in FlowNames \ {"held"} : g[k] = x.flow[k]
  BY FlowTyped DEF Recs, Flows, FlowNames
<1>2. y = [x EXCEPT !.flow = g]
  BY DEF Recs, Connect!Release
<1> HIDE DEF g
<1> QED
  BY <1>1, <1>2 DEF Recs, Changed, ConnectAlike

LEMMA ConfigGives ==
  ASSUME NEW x \in Recs, NEW y, y = [x EXCEPT !.flow.config = TRUE]
  PROVE  Changed(y, x, {"config"}) /\ y.flow.config
<1> DEFINE g == [x.flow EXCEPT !.config = TRUE]
<1>1. g \in Flows /\ g.config
      /\ \A k \in FlowNames \ {"config"} : g[k] = x.flow[k]
  BY FlowTyped DEF Recs, Flows, FlowNames
<1>2. y = [x EXCEPT !.flow = g]
  BY DEF Recs
<1> HIDE DEF g
<1> QED
  BY <1>1, <1>2 DEF Recs, Changed, ConnectAlike

LEMMA SessionGives ==
  ASSUME NEW x \in Recs, NEW y, y = [x EXCEPT !.flow.session = TRUE]
  PROVE  Changed(y, x, {"session"}) /\ y.flow.session
<1> DEFINE g == [x.flow EXCEPT !.session = TRUE]
<1>1. g \in Flows /\ g.session
      /\ \A k \in FlowNames \ {"session"} : g[k] = x.flow[k]
  BY FlowTyped DEF Recs, Flows, FlowNames
<1>2. y = [x EXCEPT !.flow = g]
  BY DEF Recs
<1> HIDE DEF g
<1> QED
  BY <1>1, <1>2 DEF Recs, Changed, ConnectAlike

LEMMA IdentityGives ==
  ASSUME NEW x \in Recs, NEW y, y = [x EXCEPT !.flow.session = TRUE, !.flow.identity = TRUE]
  PROVE  Changed(y, x, {"session", "identity"}) /\ y.flow.session /\ y.flow.identity
<1> DEFINE g == [x.flow EXCEPT !.session = TRUE, !.identity = TRUE]
<1>1. g \in Flows /\ g.session /\ g.identity
      /\ \A k \in FlowNames \ {"session", "identity"} : g[k] = x.flow[k]
  BY FlowTyped DEF Recs, Flows, FlowNames
<1>2. y = [x EXCEPT !.flow = g]
  BY DEF Recs
<1> HIDE DEF g
<1> QED
  BY <1>1, <1>2 DEF Recs, Changed, ConnectAlike

LEMMA ClearRetainedGives ==
  ASSUME NEW x \in Recs, NEW y, y = Connect!ClearRetained(x)
  PROVE  Changed(y, x, {"session", "identity", "retry"}) /\ ~y.flow.session /\ ~y.flow.identity
             /\ ~y.flow.retry
<1> DEFINE g == [x.flow EXCEPT !.session = FALSE, !.identity = FALSE, !.retry = FALSE]
<1>1. g \in Flows /\ ~g.session /\ ~g.identity /\ ~g.retry
      /\ \A k \in FlowNames \ {"session", "identity", "retry"} : g[k] = x.flow[k]
  BY FlowTyped DEF Recs, Flows, FlowNames
<1>2. y = [x EXCEPT !.flow = g]
  BY DEF Recs, Connect!ClearRetained
<1> HIDE DEF g
<1> QED
  BY <1>1, <1>2 DEF Recs, Changed, ConnectAlike

LEMMA ClearRuntimeGives ==
  ASSUME NEW x \in Recs, NEW y, y = Connect!ClearRuntime(x)
  PROVE  Changed(y, x, {"token", "password", "credentials", "snapshot"}) /\ ~y.flow.token
             /\ ~y.flow.password /\ ~y.flow.credentials /\ ~y.flow.snapshot
<1> DEFINE g == [x.flow EXCEPT !.token = FALSE, !.password = FALSE, !.credentials = FALSE,
               !.snapshot = FALSE]
<1>1. g \in Flows /\ ~g.token /\ ~g.password /\ ~g.credentials /\ ~g.snapshot
      /\ \A k \in FlowNames \ {"token", "password", "credentials", "snapshot"} : g[k] = x.flow[k]
  BY FlowTyped DEF Recs, Flows, FlowNames
<1>2. y = [x EXCEPT !.flow = g]
  BY DEF Recs, Connect!ClearRuntime
<1> HIDE DEF g
<1> QED
  BY <1>1, <1>2 DEF Recs, Changed, ConnectAlike

LEMMA ForgetGives ==
  ASSUME NEW x \in Recs, NEW y, y = [x EXCEPT !.flow.session = FALSE, !.flow.identity = FALSE]
  PROVE  Changed(y, x, {"session", "identity"}) /\ ~y.flow.session /\ ~y.flow.identity
<1> DEFINE g == [x.flow EXCEPT !.session = FALSE, !.identity = FALSE]
<1>1. g \in Flows /\ ~g.session /\ ~g.identity
      /\ \A k \in FlowNames \ {"session", "identity"} : g[k] = x.flow[k]
  BY FlowTyped DEF Recs, Flows, FlowNames
<1>2. y = [x EXCEPT !.flow = g]
  BY DEF Recs
<1> HIDE DEF g
<1> QED
  BY <1>1, <1>2 DEF Recs, Changed, ConnectAlike

LEMMA UnlockGives ==
  ASSUME NEW x \in Recs, NEW y, y = [x EXCEPT !.flow = [@ EXCEPT !.token = TRUE, !.password = TRUE,
         !.credentials = TRUE, !.vaultSaved = TRUE]]
  PROVE  Changed(y, x, {"token", "password", "credentials", "vaultSaved"}) /\ y.flow.token
             /\ y.flow.password /\ y.flow.credentials /\ y.flow.vaultSaved
<1> DEFINE g == [x.flow EXCEPT !.token = TRUE, !.password = TRUE, !.credentials = TRUE, !.vaultSaved = TRUE]
<1>1. g \in Flows /\ g.token /\ g.password /\ g.credentials /\ g.vaultSaved
      /\ \A k \in FlowNames \ {"token", "password", "credentials", "vaultSaved"} : g[k] = x.flow[k]
  BY FlowTyped DEF Recs, Flows, FlowNames
<1>2. y = [x EXCEPT !.flow = g]
  BY DEF Recs
<1> HIDE DEF g
<1> QED
  BY <1>1, <1>2 DEF Recs, Changed, ConnectAlike

LEMMA ListGives ==
  ASSUME NEW x \in Recs, NEW y, y = [x EXCEPT !.flow.token = TRUE, !.flow.password = TRUE,
         !.flow.vaultSaved = FALSE]
  PROVE  Changed(y, x, {"token", "password", "vaultSaved"}) /\ y.flow.token /\ y.flow.password
             /\ ~y.flow.vaultSaved
<1> DEFINE g == [x.flow EXCEPT !.token = TRUE, !.password = TRUE, !.vaultSaved = FALSE]
<1>1. g \in Flows /\ g.token /\ g.password /\ ~g.vaultSaved
      /\ \A k \in FlowNames \ {"token", "password", "vaultSaved"} : g[k] = x.flow[k]
  BY FlowTyped DEF Recs, Flows, FlowNames
<1>2. y = [x EXCEPT !.flow = g]
  BY DEF Recs
<1> HIDE DEF g
<1> QED
  BY <1>1, <1>2 DEF Recs, Changed, ConnectAlike

LEMMA OfferGives ==
  ASSUME NEW x \in Recs, NEW y, y = [x EXCEPT !.flow.plans = TRUE]
  PROVE  Changed(y, x, {"plans"}) /\ y.flow.plans
<1> DEFINE g == [x.flow EXCEPT !.plans = TRUE]
<1>1. g \in Flows /\ g.plans
      /\ \A k \in FlowNames \ {"plans"} : g[k] = x.flow[k]
  BY FlowTyped DEF Recs, Flows, FlowNames
<1>2. y = [x EXCEPT !.flow = g]
  BY DEF Recs
<1> HIDE DEF g
<1> QED
  BY <1>1, <1>2 DEF Recs, Changed, ConnectAlike

LEMMA TakeGives ==
  ASSUME NEW x \in Recs, NEW y, y = [x EXCEPT !.flow.plans = FALSE]
  PROVE  Changed(y, x, {"plans"}) /\ ~y.flow.plans
<1> DEFINE g == [x.flow EXCEPT !.plans = FALSE]
<1>1. g \in Flows /\ ~g.plans
      /\ \A k \in FlowNames \ {"plans"} : g[k] = x.flow[k]
  BY FlowTyped DEF Recs, Flows, FlowNames
<1>2. y = [x EXCEPT !.flow = g]
  BY DEF Recs
<1> HIDE DEF g
<1> QED
  BY <1>1, <1>2 DEF Recs, Changed, ConnectAlike

LEMMA FetchGives ==
  ASSUME NEW x \in Recs, NEW y, y = [x EXCEPT !.flow.credentials = TRUE, !.flow.snapshot = TRUE]
  PROVE  Changed(y, x, {"credentials", "snapshot"}) /\ y.flow.credentials /\ y.flow.snapshot
<1> DEFINE g == [x.flow EXCEPT !.credentials = TRUE, !.snapshot = TRUE]
<1>1. g \in Flows /\ g.credentials /\ g.snapshot
      /\ \A k \in FlowNames \ {"credentials", "snapshot"} : g[k] = x.flow[k]
  BY FlowTyped DEF Recs, Flows, FlowNames
<1>2. y = [x EXCEPT !.flow = g]
  BY DEF Recs
<1> HIDE DEF g
<1> QED
  BY <1>1, <1>2 DEF Recs, Changed, ConnectAlike

LEMMA SpendGives ==
  ASSUME NEW x \in Recs, NEW y, y = [x EXCEPT !.flow.password = FALSE]
  PROVE  Changed(y, x, {"password"}) /\ ~y.flow.password
<1> DEFINE g == [x.flow EXCEPT !.password = FALSE]
<1>1. g \in Flows /\ ~g.password
      /\ \A k \in FlowNames \ {"password"} : g[k] = x.flow[k]
  BY FlowTyped DEF Recs, Flows, FlowNames
<1>2. y = [x EXCEPT !.flow = g]
  BY DEF Recs
<1> HIDE DEF g
<1> QED
  BY <1>1, <1>2 DEF Recs, Changed, ConnectAlike

LEMMA SaveGives ==
  ASSUME NEW x \in Recs, NEW y, y = [x EXCEPT !.flow = [@ EXCEPT !.password = FALSE, !.vaultSaved = TRUE,
         !.retry = TRUE]]
  PROVE  Changed(y, x, {"password", "vaultSaved", "retry"}) /\ ~y.flow.password /\ y.flow.vaultSaved
             /\ y.flow.retry
<1> DEFINE g == [x.flow EXCEPT !.password = FALSE, !.vaultSaved = TRUE, !.retry = TRUE]
<1>1. g \in Flows /\ ~g.password /\ g.vaultSaved /\ g.retry
      /\ \A k \in FlowNames \ {"password", "vaultSaved", "retry"} : g[k] = x.flow[k]
  BY FlowTyped DEF Recs, Flows, FlowNames
<1>2. y = [x EXCEPT !.flow = g]
  BY DEF Recs
<1> HIDE DEF g
<1> QED
  BY <1>1, <1>2 DEF Recs, Changed, ConnectAlike

--------------------------------------------------------------------------------
LEMMA ConnectHere ==
  ASSUME ConnectNumbered, ConnectInv, NEW a \in Connecting, NEW s \in Slots
  PROVE  /\ attempt[a] \in Recs /\ job[a][s] \in ConnectJobs /\ Slot(a, s) /\ bound \in ConnectProfiles
         /\ Connect!Alive(a) => Serves(attempt[a], job[a][s].pc) /\ Has(attempt[a])
                /\ attempt[a].state # "canceled"
         /\ job[a][s].pc \in Connect!Using => attempt[a].flow.held
         /\ job[a][s].pc \in Active \ Owning => job[a][s].owned = "nothing"
         /\ Connect!Kinds = {"monarch", "ynab"} /\ attempt[a].kind \in Connect!Kinds
  BY ConnectShapes DEF ConnectInv, ConnectAttempt, Slot, Recs, ConnectJobs, Connect!Alive, Connect!Kinds

LEMMA GoesKeeps ==
  ASSUME ConnectNumbered, ConnectInv, NEW a \in Connecting, NEW s \in Slots,
         job[a][s].pc \in Active \ Owning,
         NEW y \in Recs, NEW pc \in Active \ Owning, attempt' = [attempt EXCEPT ![a] = y], Connect!Goes(a,
             s, pc),
         UNCHANGED <<duties, answered, elsewhere, shutdown>>, bound' \in ConnectProfiles,
         ConnectAlike(y, attempt[a]), y.state = "canceled" <=> attempt[a].state = "canceled",
         pc \in Connect!Using => y.flow.held,
         Connect!Alive(a) => Serves(y, pc) /\ Has(y)
  PROVE  ConnectInv'
<1> DEFINE j == [job[a][s] EXCEPT !.pc = pc]
<1>1. j \in ConnectJobs /\ j.pc = pc /\ j.owned = "nothing"
  BY ConnectHere DEF ConnectJobs, Steps, Active
<1>2. job' = [job EXCEPT ![a][s] = j]
  BY DEF Connect!Goes
<1> HIDE DEF j
<1> QED
  BY <1>1, <1>2, StepKeeps

\* A job goes on and the attempt stands as it did.
LEMMA PassesKeeps ==
  ASSUME ConnectNumbered, ConnectInv, NEW a \in Connecting, NEW s \in Slots, job[a][s].pc \in Connect!Using,
         NEW pc \in Connect!Using, UNCHANGED attempt, Connect!Goes(a, s, pc),
         UNCHANGED <<duties, answered, elsewhere, shutdown>>, bound' \in ConnectProfiles,
         Connect!Alive(a) => Serves(attempt[a], pc)
  PROVE  ConnectInv'
<1>1. Connect!Using \subseteq Active \ Owning
  BY DEF Connect!Using, Active, Owning
<1>2. attempt' = [attempt EXCEPT ![a] = attempt[a]] /\ attempt[a] \in Recs
  BY ConnectShapes
<1> QED
  BY <1>1, <1>2, GoesKeeps, ConnectHere DEF ConnectAlike

LEMMA ConnectImportKeeps ==
  ASSUME ConnectNumbered, ConnectInv, NEW a \in Connecting, NEW s \in Slots, job[a][s].pc \in Active,
         NEW x \in Recs,
         NEW ready \in BOOLEAN, Connect!Import(a, s, x, ready),
         UNCHANGED <<duties, answered, elsewhere, shutdown>>, bound' \in ConnectProfiles,
         ConnectAlike(x, attempt[a]), Connect!Alive(a) => ready /\ ConnectReady(x.kind, x.flow)
  PROVE  ConnectInv'
<1>1. ConnectAttempt(a) /\ Slot(a, s) /\ attempt[a].jobDone = s /\ attempt[a] \in Recs
  BY ConnectHere DEF ConnectInv, Slot
<1>2. CASE ~(Connect!Alive(a) /\ ready)
  <2>1. Connect!Stop(a, s) /\ ~Connect!Alive(a)
    BY <1>2 DEF Connect!Import
  <2>2. attempt' = [attempt EXCEPT ![a] = attempt[a]]
    BY <2>1, ConnectShapes DEF Connect!Stop
  <2>3. Connect!Ending \in ConnectJobs /\ Connect!Ending.pc = "ending" /\ Connect!Ending.owned = "nothing"
            /\ job' = [job EXCEPT ![a][s] = Connect!Ending]
    BY <2>1, Jobless DEF Connect!Stop, Connect!Ends, Steps
  <2> QED
    BY <1>1, <2>1, <2>2, <2>3, StepKeeps DEF Connect!Using, ConnectAlike
<1>3. CASE Connect!Alive(a) /\ ready
  <2>1. PICK slot \in Connect!FreeSlots(a) \ {s} :
          /\ attempt' = [attempt EXCEPT ![a] = [Connect!Transition(x, "importing", FALSE, FALSE) EXCEPT
                                                  !.flow.retry = TRUE, !.running = TRUE, !.jobDone = slot]]
          /\ job' = [job EXCEPT ![a][s] = Connect!Ending, ![a][slot] = Connect!Job("import")]
    BY <1>3 DEF Connect!Import
  <2>2. slot \in Slots /\ slot # s /\ slot # 0 /\ job[a][slot].pc = "none"
    BY <2>1 DEF Connect!FreeSlots, ConnectNumbered
  <2> DEFINE z == Connect!Transition(x, "importing", FALSE, FALSE)
             g == [z.flow EXCEPT !.retry = TRUE]
             y == [z EXCEPT !.flow = g, !.running = TRUE, !.jobDone = slot]
  <2>3. z \in Recs /\ ConnectAlike(z, x) /\ z.state = "importing" /\ SameFlow(z.flow, x.flow)
    BY TransitionGives DEF Connect!States, Connect!Working
  <2>4. g \in Flows /\ SameFlow(g, x.flow)
    BY <2>3, FlowTyped DEF Recs, Flows, FlowNames, SameFlow
  <2>5. y = [z EXCEPT !.flow.retry = TRUE, !.running = TRUE, !.jobDone = slot]
    BY <2>3 DEF Recs
  <2>6. attempt' = [attempt EXCEPT ![a] = y]
    BY <2>1, <2>5
  <2> HIDE DEF z, g
  <2>7. /\ y \in Recs /\ y.listed = x.listed /\ y.kind = x.kind /\ y.state = "importing"
               /\ SameFlow(y.flow, x.flow)
        /\ y.running /\ y.jobDone = slot
    BY <2>2, <2>3, <2>4 DEF Recs, ConnectAlike
  <2> HIDE DEF y
  <2>8. /\ job' \in [Connecting -> [Slots -> ConnectJobs]]
        /\ job'[a][s].pc = "ending" /\ job'[a][s].owned = "nothing"
        /\ job'[a][slot].pc = "import" /\ job'[a][slot].owned = "nothing"
        /\ \A b \in Connecting \ {a} : job'[b] = job[b]
        /\ \A t \in Slots \ {s, slot} : job'[a][t] = job[a][t]
    <3>1. /\ Connect!Ending \in ConnectJobs /\ Connect!Ending.pc = "ending"
                 /\ Connect!Ending.owned = "nothing"
          /\ Connect!Job("import") \in ConnectJobs /\ Connect!Job("import").pc = "import"
                 /\ Connect!Job("import").owned = "nothing"
      BY Jobless DEF Steps, Connect!Using
    <3>2. job \in [Connecting -> [Slots -> ConnectJobs]]
      BY ConnectShapes
    <3> QED
      BY <2>1, <2>2, <3>1, <3>2
  <2>9. /\ attempt' \in [Connecting -> Recs] /\ attempt'[a] = y
        /\ \A b \in Connecting \ {a} : attempt'[b] = attempt[b]
    BY <2>6, <2>7, ConnectShapes
  <2>10. ConnectOnly(a)
    BY <2>2, <2>7, <2>8, <2>9, ConnectShapes DEF ConnectOnly
  <2>11. ConnectReady(y.kind, y.flow)
    BY <1>3, <2>7 DEF ConnectReady, SameFlow
  <2>12. y.listed /\ Connect!Alive(a)'
    BY <1>3, <2>7, <2>9 DEF Connect!Alive, ConnectAlike
  <2>13. Has(y) /\ Serves(y, "import") /\ Serves(y, "ending") /\ Serves(y, "none")
    BY <2>7, <2>11 DEF Has, Asks, Asking, ConnectReady, Serves, Active, Connect!Using, Connect!Working
  <2>14. ASSUME NEW t \in Slots PROVE Slot(a, t)'
    <3>1. CASE t = slot
      BY <2>2, <2>7, <2>8, <2>9, <2>11, <2>13, <3>1 DEF Slot, Active, Connect!Using, ConnectReady
    <3>2. CASE t = s
      BY <2>2, <2>7, <2>8, <2>9, <2>13, <3>2 DEF Slot, Active, Connect!Using
    <3>3. CASE t \notin {s, slot}
      <4>1. job[a][t].pc \notin Active \cup {"releasing"} /\ Slot(a, t)
        BY <1>1, <1>3, <3>3 DEF ConnectAttempt, Slot
      <4>2. Serves(y, job[a][t].pc)
        BY <4>1 DEF Serves, Active, Connect!Using
      <4> QED
        BY <2>7, <2>8, <2>9, <3>3, <4>1, <4>2 DEF Slot, Active
    <3> QED
      BY <3>1, <3>2, <3>3
  <2>15. ConnectAttempt(a)'
    <3>1. "import" \in Active
      BY DEF Active, Connect!Using
    <3> QED
      BY <1>1, <1>3, <2>2, <2>7, <2>8, <2>9, <2>12, <2>13, <2>14, <3>1 DEF ConnectAttempt
  <2> QED
    BY <2>10, <2>15, ConnectOnlyKeeps
<1> QED
  BY <1>2, <1>3

\* An answer, or a retry, starts a job.
LEMMA BeginKeeps ==
  ASSUME ConnectNumbered, ConnectInv, NEW a \in Connecting, Connect!Alive(a),
         attempt[a].state \notin Connect!Working, NEW slot \in Connect!FreeSlots(a),
         NEW x \in Recs, NEW pc \in Active, Connect!StartJob(a, x, slot, pc), UNCHANGED Connect!external,
         x.listed, x.state \in Connect!Working, pc \in Connect!Using => x.flow.held, Serves(x, pc), Has(x)
  PROVE  ConnectInv'
<1>1. ConnectAttempt(a) /\ slot \in Slots /\ slot # 0 /\ job[a][slot].pc = "none"
  BY DEF ConnectInv, Connect!FreeSlots, ConnectNumbered
<1> DEFINE y == [x EXCEPT !.running = TRUE, !.jobDone = slot]
<1>2. /\ y \in Recs /\ y.listed /\ y.kind = x.kind /\ y.state = x.state /\ y.flow = x.flow /\ y.running
      /\ y.jobDone = slot
  BY <1>1 DEF Recs
<1>3. /\ attempt' \in [Connecting -> Recs] /\ attempt'[a] = y
      /\ \A b \in Connecting \ {a} : attempt'[b] = attempt[b]
  BY <1>2, ConnectShapes DEF Connect!StartJob
<1> HIDE DEF y
<1>4. /\ job' \in [Connecting -> [Slots -> ConnectJobs]]
      /\ job'[a][slot].pc = pc /\ job'[a][slot].owned = "nothing"
      /\ \A b \in Connecting \ {a} : job'[b] = job[b]
      /\ \A t \in Slots \ {slot} : job'[a][t] = job[a][t]
  <2>1. Connect!Job(pc) \in ConnectJobs /\ Connect!Job(pc).pc = pc /\ Connect!Job(pc).owned = "nothing"
    BY Jobless DEF Active, Steps
  <2> QED
    BY <1>1, <2>1, ConnectShapes DEF Connect!StartJob
<1>5. ConnectOnly(a)
  BY <1>1, <1>2, <1>3, <1>4, ConnectShapes DEF ConnectOnly, Connect!external
<1>6. Connect!Alive(a)'
  BY <1>2, <1>3 DEF Connect!Alive, Connect!Working
<1>7. ASSUME NEW t \in Slots PROVE job[a][t].pc \notin Active \cup {"releasing"}
  BY <1>1, <1>7 DEF ConnectAttempt, Slot, Serves
<1>8. Has(y) /\ \A p \in Steps : Serves(x, p) => Serves(y, p)
  BY <1>2 DEF Has, Serves
<1>9. ASSUME NEW t \in Slots PROVE Slot(a, t)'
  <2>1. CASE t = slot
    <3>1. Serves(y, pc) /\ pc \in Steps /\ pc # "releasing"
      BY <1>8 DEF Steps, Active, Connect!Using
    <3> QED
      BY <1>2, <1>3, <1>4, <2>1, <3>1 DEF Slot
  <2>2. CASE t # slot
    <3>1. Serves(y, job[a][t].pc)
      BY <1>7 DEF Serves, Active, Connect!Using
    <3> QED
      BY <1>1, <1>2, <1>3, <1>4, <1>7, <2>2, <3>1 DEF ConnectAttempt, Slot, Active
  <2> QED
    BY <2>1, <2>2
<1>10. ConnectAttempt(a)'
  BY <1>1, <1>2, <1>3, <1>4, <1>6, <1>8, <1>9 DEF ConnectAttempt, Connect!external
<1> QED
  BY <1>5, <1>10, ConnectOnlyKeeps

\* A call that goes on with an attempt without a job.
LEMMA ConnectStayKeeps ==
  ASSUME ConnectNumbered, ConnectInv, NEW a \in Connecting, Connect!Alive(a),
         attempt[a].state \notin Connect!Working,
         NEW y \in Recs, attempt' = [attempt EXCEPT ![a] = y], UNCHANGED <<job, Connect!external>>,
         ConnectAlike(y, attempt[a]), y.state \notin Connect!Working \cup {"canceled"}, Has(y)
  PROVE  ConnectInv'
<1>1. ConnectAttempt(a)
  BY DEF ConnectInv
<1>2. /\ attempt' \in [Connecting -> Recs] /\ attempt'[a] = y
      /\ \A b \in Connecting \ {a} : attempt'[b] = attempt[b]
  BY ConnectShapes
<1>3. Connect!Alive(a)'
  BY <1>2 DEF Connect!Alive, ConnectAlike
<1>4. ConnectOnly(a)
  BY <1>2, ConnectShapes DEF ConnectOnly, Connect!external, ConnectAlike
<1>5. ASSUME NEW t \in Slots PROVE job[a][t].pc \notin Active \cup {"releasing"}
  BY <1>1, <1>5 DEF ConnectAttempt, Slot, Serves
<1>6. ASSUME NEW t \in Slots PROVE Slot(a, t)'
  <2>1. Serves(y, job[a][t].pc)
    BY <1>5 DEF Serves, Active, Connect!Using
  <2> QED
    BY <1>1, <1>2, <1>5, <2>1 DEF ConnectAttempt, Slot, Active, ConnectAlike
<1>7. ConnectAttempt(a)'
  BY <1>1, <1>2, <1>3, <1>6 DEF ConnectAttempt, Connect!external, ConnectAlike
<1> QED
  BY <1>4, <1>7, ConnectOnlyKeeps
--------------------------------------------------------------------------------
LEMMA ConnectOpenKeeps ==
  ASSUME ConnectNumbered, ConnectInv, NEW a \in Connecting, NEW s \in Slots, Connect!Open(a, s)
  PROVE  ConnectInv'
<1>1. job[a][s].pc \in Active
  BY DEF Connect!Open, Connect!At, Active
<1>2. CASE ~Connect!Alive(a) /\ Connect!Stop(a, s)
  BY <1>1, <1>2, StopKeeps DEF Connect!Open
<1>3. CASE Connect!Alive(a) /\ Connect!Fail(a, s, FALSE, FALSE)
  BY <1>1, <1>3, ConnectHere, ConnectFailKeeps DEF Connect!Open, Connect!external
<1>4. CASE /\ Connect!Alive(a) /\ UNCHANGED attempt
           /\ job' = [job EXCEPT ![a][s] = [pc |-> "lock", owned |-> "lease"]]
  <2> DEFINE j == [pc |-> "lock", owned |-> "lease"]
  <2>1. j \in ConnectJobs /\ j.pc = "lock" /\ j.owned = "lease" /\ job' = [job EXCEPT ![a][s] = j]
    BY <1>4 DEF ConnectJobs, Steps
  <2> HIDE DEF j
  <2>2. attempt' = [attempt EXCEPT ![a] = attempt[a]]
    BY <1>4, ConnectShapes
  <2>3. Serves(attempt[a], "lock")
    BY <1>1, <1>4, ConnectHere DEF Serves, Active, Connect!Using
  <2> QED
    <3>1. "lock" \in Active \cap Owning /\ "lock" \notin Connect!Using
      BY DEF Active, Owning, Connect!Using
    <3>2. UNCHANGED <<duties, answered, elsewhere, shutdown>> /\ bound' \in ConnectProfiles
      BY ConnectHere DEF Connect!Open, Connect!external
    <3>3. attempt[a] \in Recs /\ ConnectAlike(attempt[a], attempt[a])
              /\ (Connect!Alive(a) => Has(attempt[a]))
      BY ConnectHere DEF ConnectAlike
    <3> QED
      BY <1>1, <2>1, <2>2, <2>3, <3>1, <3>2, <3>3, StepKeeps
<1> QED
  BY <1>2, <1>3, <1>4 DEF Connect!Open

LEMMA ConnectTakeLockKeeps ==
  ASSUME ConnectNumbered, ConnectInv, NEW a \in Connecting, NEW s \in Slots, Connect!TakeLock(a, s)
  PROVE  ConnectInv'
<1>1. job[a][s].pc \in Active
  BY DEF Connect!TakeLock, Connect!At, Active
<1>2. CASE Connect!Fail(a, s, TRUE, FALSE)
  BY <1>1, <1>2, ConnectHere, ConnectFailKeeps DEF Connect!TakeLock, Connect!external
<1>3. CASE /\ job' = [job EXCEPT ![a][s] = [pc |-> "install", owned |-> "both"]] /\ UNCHANGED attempt
  <2> DEFINE j == [pc |-> "install", owned |-> "both"]
  <2>1. j \in ConnectJobs /\ j.pc = "install" /\ j.owned = "both" /\ job' = [job EXCEPT ![a][s] = j]
    BY <1>3 DEF ConnectJobs, Steps
  <2> HIDE DEF j
  <2>2. attempt' = [attempt EXCEPT ![a] = attempt[a]]
    BY <1>3, ConnectShapes
  <2>3. Connect!Alive(a) => Serves(attempt[a], "install")
    BY <1>1, ConnectHere DEF Serves, Active, Connect!Using
  <2> QED
    <3>1. "install" \in Active \cap Owning /\ "install" \notin Connect!Using
      BY DEF Active, Owning, Connect!Using
    <3>2. UNCHANGED <<duties, answered, elsewhere, shutdown>> /\ bound' \in ConnectProfiles
      BY ConnectHere DEF Connect!TakeLock, Connect!external
    <3>3. attempt[a] \in Recs /\ ConnectAlike(attempt[a], attempt[a])
              /\ (Connect!Alive(a) => Has(attempt[a]))
      BY ConnectHere DEF ConnectAlike
    <3> QED
      BY <1>1, <2>1, <2>2, <2>3, <3>1, <3>2, <3>3, StepKeeps
<1> QED
  BY <1>2, <1>3 DEF Connect!TakeLock

LEMMA ConnectInstallKeeps ==
  ASSUME ConnectNumbered, ConnectInv, NEW a \in Connecting, NEW s \in Slots, Connect!Install(a, s)
  PROVE  ConnectInv'
<1>1. job[a][s].pc \in Active
  BY DEF Connect!Install, Connect!At, Active
<1>2. CASE ~Connect!Alive(a) /\ Connect!Stop(a, s)
  BY <1>1, <1>2, StopKeeps DEF Connect!Install
<1>3. CASE Connect!Fail(a, s, TRUE, FALSE)
  BY <1>1, <1>3, ConnectHere, ConnectFailKeeps DEF Connect!Install, Connect!external
<1>4. CASE /\ Connect!Alive(a)
           /\ attempt' = [attempt EXCEPT ![a].flow.held = TRUE]
           /\ job' = [job EXCEPT ![a][s] = Connect!Job("route")]
  <2> DEFINE y == [attempt[a] EXCEPT !.flow.held = TRUE]
             j == Connect!Job("route")
  <2>1. j \in ConnectJobs /\ j.pc = "route" /\ j.owned = "nothing" /\ job' = [job EXCEPT ![a][s] = j]
    BY <1>4, Jobless DEF Steps, Connect!Using
  <2>2. Changed(y, attempt[a], {"held"}) /\ y.flow.held
    BY ConnectHere, HeldGives
  <2>3. attempt' = [attempt EXCEPT ![a] = y]
    BY <1>4
  <2> HIDE DEF y, j
  <2>4. Serves(y, "route")
    BY <1>1, <1>4, <2>2, ConnectHere DEF Changed, Serves, Active, Connect!Using
  <2>5. Has(y)
    BY <1>4, <2>2, ConnectHere DEF Changed, FlowNames, ConnectAlike, Has, Asks, ConnectReady
  <2> QED
    <3>1. "route" \in Active
      BY DEF Active, Connect!Using
    <3>2. UNCHANGED <<duties, answered, elsewhere, shutdown>> /\ bound' \in ConnectProfiles
      BY ConnectHere DEF Connect!Install, Connect!external
    <3> QED
      BY <1>1, <2>1, <2>2, <2>3, <2>4, <2>5, <3>1, <3>2, StepKeeps DEF Changed
<1> QED
  BY <1>2, <1>3, <1>4 DEF Connect!Install

LEMMA RouteMonarchKeeps ==
  ASSUME ConnectNumbered, ConnectInv, NEW a \in Connecting, NEW s \in Slots, Connect!RouteMonarch(a, s)
  PROVE  ConnectInv'
<1> DEFINE x == [attempt[a] EXCEPT !.flow.config = TRUE]
           z == [x EXCEPT !.flow.session = TRUE]
           y == Connect!Transition(z, "validate_session", FALSE, FALSE)
<1>1. /\ job[a][s].pc = "route" /\ job[a][s].pc \in Active \ Owning /\ attempt[a].kind = "monarch"
             /\ Connect!Alive(a)
      /\ attempt[a].flow.held
  BY ConnectHere DEF Connect!RouteMonarch, Connect!At, Active, Owning, Connect!Using, Connect!Monarch
<1>2. attempt[a] \in Recs /\ Has(attempt[a]) /\ attempt[a].state \in Connect!Working
          /\ UNCHANGED Connect!external
      /\ bound' \in ConnectProfiles
  BY <1>1, ConnectHere DEF Serves, Connect!RouteMonarch, Connect!external
<1>3. Changed(x, attempt[a], {"config"}) /\ x.flow.config
  BY <1>2, ConfigGives
<1>4. CASE \E st \in {"local_only", "settings_required"} : Connect!Stable(a, s, st)
  <2>1. PICK st \in {"local_only", "settings_required"} : Connect!Stable(a, s, st)
    BY <1>4
  <2>2. Asks(attempt[a].kind, st, attempt[a].flow)
    BY <1>1 DEF Asks
  <2> QED
    BY <1>1, <1>2, <2>1, <2>2, StableKeeps DEF Connect!external, Connect!States, Connect!Working
<1>5. CASE Connect!Fail(a, s, TRUE, FALSE) \/ Connect!Fail(a, s, FALSE, TRUE)
  BY <1>1, <1>2, <1>5, ConnectFailKeeps DEF Connect!external
<1>6. CASE attempt' = [attempt EXCEPT ![a] = x] /\ Connect!Goes(a, s, "vault")
  <2> HIDE DEF x
  <2>1. Serves(x, "vault") /\ Has(x) /\ x.flow.held
    BY <1>1, <1>2, <1>3 DEF Changed, FlowNames, ConnectAlike, Serves, Has, Asks, ConnectReady
  <2> QED
    BY <1>1, <1>2, <1>3, <1>6, <2>1, GoesKeeps DEF Changed, Connect!external, Active, Owning,
       Connect!Using
<1>7. CASE Connect!Settle(a, s, x, "failed", TRUE, FALSE)
  <2> HIDE DEF x
  <2>1. Asks(x.kind, "failed", x.flow) /\ (x.flow.retry => ConnectReady(x.kind, x.flow))
    BY <1>2, <1>3 DEF Changed, FlowNames, ConnectAlike, Has, Asks, ConnectReady, Asking
  <2> QED
    BY <1>1, <1>2, <1>3, <1>7, <2>1, SettleKeeps DEF Changed, Connect!external, Connect!States,
       Connect!Working
<1>8. CASE Connect!Settled(a, z, "validate_session", FALSE, FALSE) /\ Connect!Goes(a, s, "validate")
  <2> HIDE DEF x
  <2>1. Changed(z, x, {"session"})
    BY <1>3, SessionGives DEF Changed
  <2>2. attempt' = [attempt EXCEPT ![a] = y]
    BY <1>1, <1>8 DEF Connect!Settled
  <2> HIDE DEF z
  <2>3. y \in Recs /\ ConnectAlike(y, z) /\ y.state = "validate_session" /\ SameFlow(y.flow, z.flow)
            /\ ~y.flow.retry
    <3>1. z \in Recs /\ "validate_session" \in Connect!States
      BY <2>1 DEF Changed, Connect!States, Connect!Working
    <3> QED
      BY <3>1, MoveGives
  <2> HIDE DEF y
  <2>4. ConnectAlike(y, attempt[a]) /\ y.flow.config /\ y.flow.held
    BY <1>1, <1>3, <2>1, <2>3 DEF Changed, FlowNames, ConnectAlike, SameFlow
  <2>5. Serves(y, "validate") /\ Has(y)
    BY <1>1, <2>3, <2>4 DEF ConnectAlike, Serves, Connect!Working, Has, Asks, Asking, ConnectReady
  <2> QED
    BY <1>1, <1>2, <1>8, <2>2, <2>3, <2>4, <2>5, GoesKeeps DEF Connect!external, Active, Owning,
       Connect!Using, Connect!Alive
<1> QED
  BY <1>4, <1>5, <1>6, <1>7, <1>8 DEF Connect!RouteMonarch

LEMMA RouteYNABKeeps ==
  ASSUME ConnectNumbered, ConnectInv, NEW a \in Connecting, NEW s \in Slots, Connect!RouteYNAB(a, s)
  PROVE  ConnectInv'
<1>1. job[a][s].pc \in Active /\ attempt[a].kind = "ynab" /\ attempt[a].flow.held
          /\ UNCHANGED Connect!external
      /\ bound' \in ConnectProfiles
  BY ConnectHere DEF Connect!RouteYNAB, Connect!At, Active, Connect!Using, Connect!Monarch,
     Connect!external
<1>2. CASE \E st \in {"local_only", "identity_mismatch", "unlock_required",
               "credentials_required"} : Connect!Stable(a, s, st)
  <2>1. PICK st \in {"local_only", "identity_mismatch", "unlock_required",
                 "credentials_required"} : Connect!Stable(a, s, st)
    BY <1>2
  <2>2. Asks(attempt[a].kind, st, attempt[a].flow)
    BY <1>1 DEF Asks
  <2> QED
    BY <1>1, <2>1, <2>2, StableKeeps DEF Connect!external, Connect!States, Connect!Working
<1>3. CASE Connect!Fail(a, s, TRUE, FALSE)
  BY <1>1, <1>3, ConnectFailKeeps DEF Connect!external
<1> QED
  BY <1>2, <1>3 DEF Connect!RouteYNAB, Connect!InputState

LEMMA RouteStopsKeeps ==
  ASSUME ConnectNumbered, ConnectInv, NEW a \in Connecting, NEW s \in Slots, Connect!RouteStops(a, s)
  PROVE  ConnectInv'
  BY StopKeeps DEF Connect!RouteStops, Connect!At, Active, Connect!Using

LEMMA ToInputKeeps ==
  ASSUME ConnectNumbered, ConnectInv, NEW a \in Connecting, NEW s \in Slots, Connect!ToInput(a, s)
  PROVE  ConnectInv'
<1>1. job[a][s].pc = "input" /\ job[a][s].pc \in Active \cap Connect!Using /\ UNCHANGED Connect!external
          /\ attempt[a].flow.held
      /\ bound' \in ConnectProfiles
  BY ConnectHere DEF Connect!ToInput, Connect!At, Active, Connect!Using, Connect!external
<1>2. CASE ~Connect!Alive(a) /\ Connect!Stop(a, s)
  BY <1>1, <1>2, StopKeeps
<1>3. CASE Connect!Alive(a) /\ ~attempt[a].flow.config /\ Connect!Stable(a, s, "settings_required")
  <2>1. Asks(attempt[a].kind, "settings_required", attempt[a].flow)
    BY <1>1, <1>3, ConnectHere DEF Asks, Serves
  <2> QED
    BY <1>1, <1>3, <2>1, StableKeeps DEF Connect!external, Connect!States, Connect!Working
<1>4. CASE Connect!Alive(a) /\ attempt[a].flow.config /\ Connect!Goes(a, s, "vault") /\ UNCHANGED attempt
  <2>1. Serves(attempt[a], "vault")
    BY <1>1, <1>4, ConnectHere DEF Serves, Active, Connect!Using
  <2> QED
    BY <1>1, <1>4, <2>1, PassesKeeps DEF Connect!external, Connect!Using
<1> QED
  BY <1>2, <1>3, <1>4 DEF Connect!ToInput

LEMMA LookAtVaultKeeps ==
  ASSUME ConnectNumbered, ConnectInv, NEW a \in Connecting, NEW s \in Slots, Connect!LookAtVault(a, s)
  PROVE  ConnectInv'
<1>1. job[a][s].pc = "vault" /\ job[a][s].pc \in Active /\ attempt[a].flow.held
          /\ UNCHANGED Connect!external
      /\ bound' \in ConnectProfiles
  BY ConnectHere DEF Connect!LookAtVault, Connect!At, Active, Connect!Using, Connect!external
<1>2. CASE Connect!Stable(a, s, Connect!InputState(a))
  <2>1. Connect!InputState(a) \in {"unlock_required", "credentials_required"}
    BY DEF Connect!InputState
  <2>2. Connect!Alive(a) => Asks(attempt[a].kind, Connect!InputState(a), attempt[a].flow)
    BY <1>1, <2>1, ConnectHere DEF Asks, Serves
  <2> QED
    BY <1>1, <1>2, <2>1, <2>2, StableKeeps DEF Connect!external, Connect!States, Connect!Working
<1>3. CASE Connect!Fail(a, s, TRUE, FALSE)
  BY <1>1, <1>3, ConnectFailKeeps DEF Connect!external
<1> QED
  BY <1>2, <1>3 DEF Connect!LookAtVault

LEMMA ImportMonarchKeeps ==
  ASSUME ConnectNumbered, ConnectInv, NEW a \in Connecting, NEW s \in Slots, job[a][s].pc \in {"validate",
         "save_session"},
         Connect!ImportMonarch(a, s), UNCHANGED <<duties, answered, elsewhere, shutdown>>,
         bound' \in ConnectProfiles
  PROVE  ConnectInv'
<1> DEFINE x == [attempt[a] EXCEPT !.flow.session = TRUE, !.flow.identity = TRUE]
<1>1. Changed(x, attempt[a], {"session", "identity"}) /\ x.flow.identity
  BY ConnectHere, IdentityGives
<1>2. Connect!Import(a, s, x, x.flow.held /\ x.flow.config)
  BY DEF Connect!ImportMonarch
<1> HIDE DEF x
<1>3. job[a][s].pc \in Active /\ attempt[a].flow.held /\ (Connect!Alive(a) => attempt[a].kind = "monarch"
          /\ attempt[a].flow.config)
  BY ConnectHere DEF Active, Connect!Using, Serves
<1>4. Connect!Alive(a) => x.flow.held /\ x.flow.config /\ ConnectReady(x.kind, x.flow)
  BY <1>1, <1>3 DEF Changed, FlowNames, ConnectAlike, ConnectReady
<1>5. (x.flow.held /\ x.flow.config) \in BOOLEAN
  OBVIOUS
<1> QED
  BY <1>1, <1>2, <1>3, <1>4, <1>5, ConnectImportKeeps DEF Changed

LEMMA ValidateKeeps ==
  ASSUME ConnectNumbered, ConnectInv, NEW a \in Connecting, NEW s \in Slots, Connect!Validate(a, s)
  PROVE  ConnectInv'
<1>1. job[a][s].pc = "validate" /\ job[a][s].pc \in Active \ Owning /\ attempt[a].flow.held
          /\ UNCHANGED Connect!external
      /\ bound' \in ConnectProfiles
  BY ConnectHere DEF Connect!Validate, Connect!At, Active, Owning, Connect!Using, Connect!external
<1>2. CASE /\ attempt' = [attempt EXCEPT ![a] = IF @.listed THEN Connect!ClearRetained(@) ELSE @]
           /\ Connect!Goes(a, s, "input")
  <2> DEFINE x == Connect!ClearRetained(attempt[a])
             y == IF attempt[a].listed THEN x ELSE attempt[a]
  <2>1. Changed(x, attempt[a], {"session", "identity", "retry"}) /\ ~x.flow.retry
    BY ConnectHere, ClearRetainedGives
  <2>2. attempt' = [attempt EXCEPT ![a] = y]
    BY <1>2
  <2> HIDE DEF x
  <2>3. y \in Recs /\ ConnectAlike(y, attempt[a]) /\ y.state = attempt[a].state /\ y.flow.held
            /\ (Connect!Alive(a) => y = x)
    BY <1>1, <2>1, ConnectHere DEF Changed, FlowNames, ConnectAlike, Connect!Alive
  <2> HIDE DEF y
  <2>4. Connect!Alive(a) => Serves(y, "input") /\ Has(y)
    BY <1>1, <2>1, <2>3, ConnectHere DEF Changed, FlowNames, ConnectAlike, Serves, Active,
       Connect!Using, Has, Asks, Asking, Connect!Working
  <2> QED
    BY <1>1, <1>2, <2>2, <2>3, <2>4, GoesKeeps DEF Connect!external, Active, Owning, Connect!Using
<1>3. CASE \E canReenter \in BOOLEAN : Connect!Fail(a, s, TRUE, canReenter)
  BY <1>1, <1>3, ConnectFailKeeps DEF Connect!external
<1>4. CASE Connect!Stable(a, s, "identity_mismatch")
  <2>1. Connect!Alive(a) => Asks(attempt[a].kind, "identity_mismatch", attempt[a].flow)
    BY DEF Asks, Asking
  <2> QED
    BY <1>1, <1>4, <2>1, StableKeeps DEF Connect!external, Connect!States, Connect!Working
<1>5. CASE Connect!ImportMonarch(a, s)
  BY <1>1, <1>5, ImportMonarchKeeps DEF Connect!external
<1> QED
  BY <1>2, <1>3, <1>4, <1>5 DEF Connect!Validate

LEMMA AuthenticateKeeps ==
  ASSUME ConnectNumbered, ConnectInv, NEW a \in Connecting, NEW s \in Slots, Connect!Authenticate(a, s)
  PROVE  ConnectInv'
<1>1. job[a][s].pc \in {"unlock", "credentials"} /\ job[a][s].pc \in Active \cap Connect!Using
          /\ attempt[a].flow.held
      /\ UNCHANGED Connect!external /\ bound' \in ConnectProfiles
             /\ (Connect!Alive(a) => attempt[a].flow.config)
      /\ attempt[a].kind = "monarch"
  BY ConnectHere DEF Connect!Authenticate, Active, Connect!Using, Connect!external, Serves,
     Connect!Monarch
<1>2. CASE ~Connect!Alive(a) /\ Connect!Stop(a, s)
  BY <1>1, <1>2, StopKeeps
<1>3. CASE \E st \in {"unlock_required", "credentials_required", "identity_mismatch"} : Connect!Alive(a)
               /\ Connect!Stable(a, s, st)
  <2>1. PICK st \in {"unlock_required", "credentials_required", "identity_mismatch"} : Connect!Alive(a)
                 /\ Connect!Stable(a, s, st)
    BY <1>3
  <2>2. Asks(attempt[a].kind, st, attempt[a].flow)
    BY <1>1, <2>1 DEF Asks
  <2> QED
    BY <1>1, <2>1, <2>2, StableKeeps DEF Connect!external, Connect!States, Connect!Working
<1>4. CASE Connect!Alive(a) /\ UNCHANGED attempt /\ \E pc \in {"save_session",
               "save_vault"} : Connect!Goes(a, s, pc)
  <2>1. Serves(attempt[a], "save_session") /\ Serves(attempt[a], "save_vault")
    BY <1>1, <1>4, ConnectHere DEF Serves, Active, Connect!Using
  <2> QED
    BY <1>1, <1>4, <2>1, PassesKeeps DEF Connect!external, Connect!Using
<1> QED
  BY <1>1, <1>2, <1>3, <1>4 DEF Connect!Authenticate

LEMMA VaultTyped ==
  ASSUME ConnectNumbered, ConnectInv, NEW a \in Connecting,
         bound' = [bound EXCEPT !.vault[attempt[a].kind] = TRUE]
  PROVE  bound' \in ConnectProfiles
<1> DEFINE v == [bound.vault EXCEPT ![attempt[a].kind] = TRUE]
<1>1. bound \in ConnectProfiles /\ attempt[a].kind \in Connect!Kinds
  BY ConnectShapes DEF Recs
<1>2. v \in [Connect!Kinds -> BOOLEAN]
  BY <1>1 DEF ConnectProfiles
<1>3. bound' = [bound EXCEPT !.vault = v]
  OBVIOUS
<1> HIDE DEF v
<1> QED
  BY <1>1, <1>2, <1>3 DEF ConnectProfiles

LEMMA CredentialsAsked ==
  ASSUME ConnectNumbered, ConnectInv, NEW a \in Connecting, NEW s \in Slots,
         job[a][s].pc \in {"save_vault", "save_session", "unlock", "credentials"}, Connect!Alive(a)
  PROVE  \A st \in {"credentials_required", "unlock_required"} : Asks(attempt[a].kind, st, attempt[a].flow)
<1>1. job[a][s].pc \in Connect!Using
  BY DEF Connect!Using
<1> QED
  BY <1>1, ConnectHere DEF Asks, Serves

LEMMA SaveVaultKeeps ==
  ASSUME ConnectNumbered, ConnectInv, NEW a \in Connecting, NEW s \in Slots, Connect!SaveVault(a, s)
  PROVE  ConnectInv'
<1>1. job[a][s].pc = "save_vault" /\ job[a][s].pc \in Active \cap Connect!Using
  BY DEF Connect!SaveVault, Connect!At, Active, Connect!Using
<1>2. CASE Connect!Stable(a, s, "credentials_required") /\ UNCHANGED bound
  BY <1>1, <1>2, ConnectHere, CredentialsAsked, StableKeeps DEF Connect!SaveVault, Connect!States,
     Connect!Working
<1>3. CASE /\ bound' = [bound EXCEPT !.vault[attempt[a].kind] = TRUE]
           /\ Connect!Goes(a, s, "save_session") /\ UNCHANGED attempt
  <2>1. Connect!Alive(a) => Serves(attempt[a], "save_session")
    BY <1>1, ConnectHere DEF Serves, Active, Connect!Using
  <2> QED
    BY <1>1, <1>3, <2>1, VaultTyped, PassesKeeps DEF Connect!SaveVault, Connect!Using
<1> QED
  BY <1>2, <1>3 DEF Connect!SaveVault

LEMMA SaveSessionKeeps ==
  ASSUME ConnectNumbered, ConnectInv, NEW a \in Connecting, NEW s \in Slots, Connect!SaveSession(a, s)
  PROVE  ConnectInv'
<1>1. job[a][s].pc = "save_session" /\ job[a][s].pc \in Active
  BY DEF Connect!SaveSession, Connect!At, Active, Connect!Using
<1>2. CASE Connect!Stable(a, s, "credentials_required") /\ UNCHANGED bound
  BY <1>1, <1>2, ConnectHere, CredentialsAsked, StableKeeps DEF Connect!SaveSession, Connect!States,
     Connect!Working
<1>3. CASE bound' = [bound EXCEPT !.session = TRUE] /\ Connect!ImportMonarch(a, s)
  <2>1. bound' \in ConnectProfiles
    BY <1>3, ConnectShapes DEF ConnectProfiles
  <2> QED
    BY <1>1, <1>3, <2>1, ImportMonarchKeeps DEF Connect!SaveSession
<1> QED
  BY <1>2, <1>3 DEF Connect!SaveSession

LEMMA FailYNABKeeps ==
  ASSUME ConnectNumbered, ConnectInv, NEW a \in Connecting, NEW s \in Slots,
         job[a][s].pc \in Connect!Using, NEW canRetry \in BOOLEAN,
         Connect!Alive(a) => attempt[a].kind = "ynab", Connect!FailYNAB(a, s, canRetry),
         UNCHANGED <<duties, answered, elsewhere, shutdown>>, bound' \in ConnectProfiles
  PROVE  ConnectInv'
<1>1. job[a][s].pc \in Active /\ attempt[a].flow.held
  BY ConnectHere DEF Active
<1>2. CASE \E canReenter \in BOOLEAN : Connect!Fail(a, s, canRetry, canReenter)
  BY <1>1, <1>2, ConnectFailKeeps
<1>3. CASE Connect!Settle(a, s, Connect!ClearRuntime(attempt[a]), "credentials_required", FALSE, TRUE)
  <2> DEFINE x == Connect!ClearRuntime(attempt[a])
  <2>1. Changed(x, attempt[a], {"token", "password", "credentials", "snapshot"})
    BY ConnectHere, ClearRuntimeGives
  <2> HIDE DEF x
  <2>2. Connect!Alive(a) => Asks(x.kind, "credentials_required", x.flow)
    BY <1>1, <2>1 DEF Changed, FlowNames, ConnectAlike, Asks
  <2> QED
    BY <1>1, <1>3, <2>1, <2>2, SettleKeeps DEF x, Changed, Connect!States, Connect!Working
<1> QED
  BY <1>2, <1>3 DEF Connect!FailYNAB

LEMMA UnlockKeeps ==
  ASSUME ConnectNumbered, ConnectInv, NEW a \in Connecting, NEW s \in Slots, Connect!Unlock(a, s)
  PROVE  ConnectInv'
<1>1. job[a][s].pc = "unlock" /\ job[a][s].pc \in Active \ Owning /\ UNCHANGED Connect!external
          /\ attempt[a].flow.held
      /\ attempt[a].kind = "ynab" /\ bound' \in ConnectProfiles
  BY ConnectHere DEF Connect!Unlock, Connect!At, Active, Owning, Connect!Using, Connect!external,
     Connect!Monarch
<1>2. CASE ~Connect!Alive(a) /\ Connect!Stop(a, s)
  BY <1>1, <1>2, StopKeeps
<1>3. CASE Connect!Alive(a) /\ Connect!Stable(a, s, "unlock_required")
  BY <1>1, <1>3, CredentialsAsked, StableKeeps DEF Connect!external, Connect!States, Connect!Working
<1>4. CASE Connect!Alive(a) /\ Connect!Fail(a, s, TRUE, TRUE)
  BY <1>1, <1>4, ConnectFailKeeps DEF Connect!external
<1>5. CASE /\ Connect!Alive(a) /\ Connect!Goes(a, s, "plan")
           /\ attempt' = [attempt EXCEPT ![a].flow = [@ EXCEPT !.token = TRUE, !.password = TRUE,
                                                              !.credentials = TRUE, !.vaultSaved = TRUE]]
  <2> DEFINE y == [attempt[a] EXCEPT !.flow = [@ EXCEPT !.token = TRUE, !.password = TRUE,
                 !.credentials = TRUE,
                                                       !.vaultSaved = TRUE]]
  <2>1. /\ Changed(y, attempt[a], {"token", "password", "credentials", "vaultSaved"})
        /\ y.flow.token /\ y.flow.password /\ y.flow.credentials
    BY ConnectHere, UnlockGives
  <2>2. attempt' = [attempt EXCEPT ![a] = y]
    BY <1>5
  <2> HIDE DEF y
  <2>3. Serves(y, "plan") /\ Has(y) /\ y.flow.held
    BY <1>1, <1>5, <2>1, ConnectHere DEF Changed, FlowNames, ConnectAlike, Serves, Active,
       Connect!Using, Has, Asks, ConnectReady
  <2> QED
    BY <1>1, <1>5, <2>1, <2>2, <2>3, GoesKeeps DEF Connect!external, Changed, Active, Owning,
       Connect!Using
<1> QED
  BY <1>2, <1>3, <1>4, <1>5 DEF Connect!Unlock

LEMMA ListPlansKeeps ==
  ASSUME ConnectNumbered, ConnectInv, NEW a \in Connecting, NEW s \in Slots, Connect!ListPlans(a, s)
  PROVE  ConnectInv'
<1> DEFINE x == [attempt[a] EXCEPT !.flow.token = TRUE, !.flow.password = TRUE, !.flow.vaultSaved = FALSE]
           z == [x EXCEPT !.flow.plans = TRUE]
<1>1. job[a][s].pc = "credentials" /\ job[a][s].pc \in (Active \ Owning) \cap Connect!Using
          /\ UNCHANGED Connect!external
      /\ attempt[a].flow.held /\ attempt[a].kind = "ynab" /\ bound' \in ConnectProfiles
  BY ConnectHere DEF Connect!ListPlans, Connect!At, Active, Owning, Connect!Using, Connect!external,
     Connect!Monarch
<1>2. Changed(x, attempt[a], {"token", "password", "vaultSaved"}) /\ x.flow.token /\ x.flow.password
  BY ConnectHere, ListGives
<1>3. CASE ~Connect!Alive(a) /\ Connect!Stop(a, s)
  BY <1>1, <1>3, StopKeeps
<1>4. CASE Connect!Alive(a) /\ (Connect!Fail(a, s, FALSE, TRUE) \/ Connect!FailYNAB(a, s, TRUE))
  BY <1>1, <1>4, ConnectFailKeeps, FailYNABKeeps DEF Connect!external
<1>5. CASE Connect!Alive(a) /\ attempt' = [attempt EXCEPT ![a] = x] /\ Connect!Goes(a, s, "plan")
  <2> HIDE DEF x
  <2>1. Serves(x, "plan") /\ Has(x) /\ x.flow.held
    BY <1>1, <1>2, <1>5, ConnectHere DEF Changed, FlowNames, ConnectAlike, Serves, Active,
       Connect!Using, Has, Asks, ConnectReady
  <2> QED
    BY <1>1, <1>2, <1>5, <2>1, GoesKeeps DEF Connect!external, Changed, Active, Owning, Connect!Using
<1>6. CASE Connect!Alive(a) /\ Connect!Settle(a, s, z, "remote_profile_required", FALSE, FALSE)
  <2> HIDE DEF x
  <2>1. Changed(z, x, {"plans"}) /\ z.flow.plans
    BY <1>2, OfferGives DEF Changed
  <2> HIDE DEF z
  <2>2. Asks(z.kind, "remote_profile_required", z.flow)
    BY <1>1, <1>2, <2>1 DEF Changed, FlowNames, ConnectAlike, Asks
  <2>3. ConnectAlike(z, attempt[a])
    BY <1>2, <2>1 DEF Changed, ConnectAlike
  <2> QED
    BY <1>1, <1>6, <2>1, <2>2, <2>3, SettleKeeps DEF Connect!external, Changed, Connect!States,
       Connect!Working
<1> QED
  BY <1>3, <1>4, <1>5, <1>6 DEF Connect!ListPlans

LEMMA SelectPlanKeeps ==
  ASSUME ConnectNumbered, ConnectInv, NEW a \in Connecting, NEW s \in Slots, Connect!SelectPlan(a, s)
  PROVE  ConnectInv'
<1> DEFINE x == [attempt[a] EXCEPT !.flow.plans = FALSE]
<1>1. job[a][s].pc = "select" /\ job[a][s].pc \in (Active \ Owning) \cap Connect!Using
          /\ UNCHANGED Connect!external
      /\ attempt[a].flow.held /\ bound' \in ConnectProfiles
  BY ConnectHere DEF Connect!SelectPlan, Connect!At, Active, Owning, Connect!Using, Connect!external
<1>2. Changed(x, attempt[a], {"plans"})
  BY ConnectHere, TakeGives
<1>3. Connect!Alive(a) => attempt[a].kind = "ynab" /\ attempt[a].flow.plans /\ attempt[a].flow.token
          /\ attempt[a].flow.password
  BY <1>1, ConnectHere DEF Serves
<1>4. CASE ~Connect!Alive(a) /\ Connect!Stop(a, s)
  BY <1>1, <1>4, StopKeeps
<1>5. CASE Connect!Alive(a) /\ Connect!Settle(a, s, x, "failed", FALSE, TRUE)
  <2> HIDE DEF x
  <2>1. Asks(x.kind, "failed", x.flow) /\ (x.flow.retry => ConnectReady(x.kind, x.flow))
    BY <1>2, <1>5, ConnectHere DEF Changed, FlowNames, ConnectAlike, Has, Asks, Asking, ConnectReady
  <2> QED
    BY <1>1, <1>2, <1>5, <2>1, SettleKeeps DEF Connect!external, Changed, Connect!States,
       Connect!Working
<1>6. CASE Connect!Alive(a) /\ attempt' = [attempt EXCEPT ![a] = x] /\ Connect!Goes(a, s, "plan")
  <2> HIDE DEF x
  <2>1. Serves(x, "plan") /\ x.flow.held
    BY <1>1, <1>2, <1>3, <1>6, ConnectHere DEF Changed, FlowNames, ConnectAlike, Serves, Active,
       Connect!Using
  <2>2. Has(x)
    BY <1>1, <1>2, <1>3, <1>6, ConnectHere DEF Changed, FlowNames, ConnectAlike, Serves, Active,
       Connect!Using, Connect!Working, Has, Asks, ConnectReady
  <2> QED
    BY <1>1, <1>2, <1>6, <2>1, <2>2, GoesKeeps DEF Connect!external, Changed, Active, Owning,
       Connect!Using
<1> QED
  BY <1>3, <1>4, <1>5, <1>6 DEF Connect!SelectPlan
--------------------------------------------------------------------------------
LEMMA FetchPlanKeeps ==
  ASSUME ConnectNumbered, ConnectInv, NEW a \in Connecting, NEW s \in Slots, Connect!FetchPlan(a, s)
  PROVE  ConnectInv'
<1> DEFINE x == [attempt[a] EXCEPT !.flow.credentials = TRUE, !.flow.snapshot = TRUE]
           z == [x EXCEPT !.flow.password = FALSE]
<1>1. job[a][s].pc = "plan" /\ job[a][s].pc \in Active \cap Connect!Using /\ UNCHANGED Connect!external
          /\ attempt[a].flow.held
      /\ bound' \in ConnectProfiles
  BY ConnectHere DEF Connect!FetchPlan, Connect!At, Active, Connect!Using, Connect!external
<1>2. Connect!Alive(a) => attempt[a].kind = "ynab" /\ attempt[a].flow.token /\ attempt[a].flow.password
  BY <1>1, ConnectHere DEF Serves
<1>3. Changed(x, attempt[a], {"credentials", "snapshot"}) /\ x.flow.credentials /\ x.flow.snapshot
  BY ConnectHere, FetchGives
<1>4. \/ ~(Connect!Alive(a) /\ attempt[a].flow.token) /\ Connect!Stop(a, s)
      \/ \E canRetry \in BOOLEAN : Connect!FailYNAB(a, s, canRetry)
      \/ Connect!Alive(a) /\ Connect!Import(a, s, z, x.flow.held)
      \/ Connect!Alive(a) /\ Connect!Settle(a, s, x, "settings_required", FALSE, FALSE)
  BY DEF Connect!FetchPlan
<1> HIDE DEF x
<1>5. CASE ~(Connect!Alive(a) /\ attempt[a].flow.token) /\ Connect!Stop(a, s)
  BY <1>1, <1>2, <1>5, StopKeeps
<1>6. CASE \E canRetry \in BOOLEAN : Connect!FailYNAB(a, s, canRetry)
  BY <1>1, <1>2, <1>6, FailYNABKeeps DEF Connect!external
<1>7. CASE Connect!Alive(a) /\ Connect!Import(a, s, z, x.flow.held)
  <2>1. Changed(z, x, {"password"})
    BY <1>3, SpendGives DEF Changed
  <2> HIDE DEF z
  <2>2. ConnectAlike(z, attempt[a]) /\ z \in Recs
    BY <1>3, <2>1 DEF Changed, ConnectAlike
  <2>3. x.flow.held /\ ConnectReady(z.kind, z.flow)
    BY <1>1, <1>2, <1>3, <1>7, <2>1 DEF Changed, FlowNames, ConnectAlike, ConnectReady
  <2>4. x.flow.held \in BOOLEAN
    BY <1>3, FlowTyped DEF Changed, Recs, Flows, FlowNames
  <2> QED
    BY <1>1, <1>7, <2>2, <2>3, <2>4, ConnectImportKeeps DEF Connect!external
<1>8. CASE Connect!Alive(a) /\ Connect!Settle(a, s, x, "settings_required", FALSE, FALSE)
  <2>1. Asks(x.kind, "settings_required", x.flow)
    BY <1>1, <1>2, <1>3, <1>8 DEF Changed, FlowNames, ConnectAlike, Asks
  <2> QED
    BY <1>1, <1>3, <1>8, <2>1, SettleKeeps DEF Connect!external, Changed, Connect!States,
       Connect!Working
<1> QED
  BY <1>4, <1>5, <1>6, <1>7, <1>8

LEMMA SaveYNABKeeps ==
  ASSUME ConnectNumbered, ConnectInv, NEW a \in Connecting, NEW s \in Slots, Connect!SaveYNAB(a, s)
  PROVE  ConnectInv'
<1>1. job[a][s].pc = "confirm" /\ job[a][s].pc \in Active \cap Connect!Using
  BY DEF Connect!SaveYNAB, Connect!At, Active, Connect!Using
<1>2. Connect!Alive(a) => attempt[a].kind = "ynab" /\ attempt[a].flow.credentials
          /\ attempt[a].flow.password
  BY <1>1, ConnectHere DEF Serves
<1>3. CASE ~Connect!Alive(a) /\ Connect!Stop(a, s) /\ UNCHANGED bound
  BY <1>1, <1>3, StopKeeps DEF Connect!SaveYNAB, Connect!external
<1>4. CASE Connect!Fail(a, s, FALSE, TRUE) /\ UNCHANGED bound
  BY <1>1, <1>4, ConnectHere, ConnectFailKeeps DEF Connect!SaveYNAB
<1>5. CASE /\ bound' = [bound EXCEPT !.vault[attempt[a].kind] = TRUE]
           /\ Connect!Goes(a, s, "saved") /\ UNCHANGED attempt
  <2>1. Connect!Alive(a) => Serves(attempt[a], "saved")
    BY <1>1, <1>2, ConnectHere DEF Serves, Active, Connect!Using
  <2> QED
    BY <1>1, <1>5, <2>1, VaultTyped, PassesKeeps DEF Connect!SaveYNAB, Connect!Using
<1> QED
  BY <1>2, <1>3, <1>4, <1>5 DEF Connect!SaveYNAB

LEMMA VaultSavedKeeps ==
  ASSUME ConnectNumbered, ConnectInv, NEW a \in Connecting, NEW s \in Slots, Connect!VaultSaved(a, s)
  PROVE  ConnectInv'
<1> DEFINE x == [attempt[a] EXCEPT !.flow = [@ EXCEPT !.password = FALSE, !.vaultSaved = TRUE,
               !.retry = TRUE]]
           y == IF attempt[a].listed THEN x ELSE attempt[a]
<1>1. job[a][s].pc = "saved" /\ job[a][s].pc \in Active \ Owning /\ UNCHANGED Connect!external
          /\ attempt[a].flow.held
      /\ bound' \in ConnectProfiles /\ Connect!Goes(a, s, "import")
  BY ConnectHere DEF Connect!VaultSaved, Connect!At, Active, Owning, Connect!Using, Connect!external
<1>2. Changed(x, attempt[a], {"password", "vaultSaved", "retry"})
  BY ConnectHere, SaveGives
<1>3. attempt' = [attempt EXCEPT ![a] = y]
  <2>1. attempt \in [Connecting -> Recs] /\ attempt[a] \in Recs
    BY ConnectShapes
  <2>2. CASE attempt[a].listed
    BY <2>1, <2>2 DEF Connect!VaultSaved
  <2>3. CASE ~attempt[a].listed
    BY <2>1, <2>3 DEF Connect!VaultSaved, Recs
  <2> QED
    BY <2>2, <2>3
<1> HIDE DEF x
<1>4. y \in Recs /\ ConnectAlike(y, attempt[a]) /\ y.state = attempt[a].state /\ y.flow.held
          /\ (Connect!Alive(a) => y = x)
  BY <1>1, <1>2, ConnectHere DEF Changed, FlowNames, ConnectAlike, Connect!Alive
<1> HIDE DEF y
<1>5. Connect!Alive(a) => attempt[a].kind = "ynab" /\ attempt[a].state = "importing"
          /\ attempt[a].flow.credentials
                  /\ attempt[a].flow.snapshot
  BY <1>1, ConnectHere DEF Serves
<1>6. ASSUME Connect!Alive(a) PROVE Serves(y, "import") /\ Has(y)
  <2>1. /\ y.kind = "ynab" /\ y.state = "importing" /\ y.flow.credentials /\ y.flow.snapshot /\ y.flow.held
    BY <1>2, <1>4, <1>5, <1>6 DEF Changed, FlowNames, ConnectAlike
  <2> QED
    BY <2>1 DEF Serves, Connect!Working, Has, Asks, Asking, ConnectReady
<1> QED
  BY <1>1, <1>3, <1>4, <1>6, GoesKeeps DEF Connect!external, Active, Owning, Connect!Using

LEMMA BeginImportKeeps ==
  ASSUME ConnectNumbered, ConnectInv, NEW a \in Connecting, NEW s \in Slots, Connect!BeginImport(a, s)
  PROVE  ConnectInv'
<1>1. job[a][s].pc = "import" /\ job[a][s].pc \in Active \cap Connect!Using /\ UNCHANGED Connect!external
          /\ attempt[a].flow.held
      /\ bound' \in ConnectProfiles
  BY ConnectHere DEF Connect!BeginImport, Connect!At, Active, Connect!Using, Connect!external
<1>2. CASE ~Connect!Inputs(a) /\ Connect!Stop(a, s)
  <2>1. ~Connect!Alive(a)
    BY <1>1, <1>2, ConnectHere DEF Connect!Inputs, Connect!Monarch, Serves, Connect!Alive
  <2> QED
    BY <1>1, <1>2, <2>1, StopKeeps
<1>3. CASE Connect!Goes(a, s, "importing") /\ UNCHANGED attempt
  <2>1. Connect!Alive(a) => Serves(attempt[a], "importing")
    BY <1>1, ConnectHere DEF Serves, Active, Connect!Using
  <2> QED
    BY <1>1, <1>3, <2>1, PassesKeeps DEF Connect!external, Connect!Using
<1> QED
  BY <1>2, <1>3 DEF Connect!BeginImport

LEMMA ImportLandsKeeps ==
  ASSUME ConnectNumbered, ConnectInv, NEW a \in Connecting, NEW s \in Slots, job[a][s].pc \in Active,
         Connect!ImportLands(a, s),
         UNCHANGED <<duties, answered, elsewhere, shutdown>>
  PROVE  ConnectInv'
<1>1. bound' \in ConnectProfiles
  BY ConnectHere DEF Connect!ImportLands, ConnectProfiles
<1>2. Connect!Stable(a, s, "complete")
  BY DEF Connect!ImportLands, Connect!Completed, Connect!Stable, Connect!Settle
<1>3. Asks(attempt[a].kind, "complete", attempt[a].flow)
  BY DEF Asks, Asking
<1> QED
  BY <1>1, <1>2, <1>3, StableKeeps DEF Connect!States, Connect!Working

LEMMA RunImportKeeps ==
  ASSUME ConnectNumbered, ConnectInv, NEW a \in Connecting, NEW s \in Slots, Connect!RunImport(a, s)
  PROVE  ConnectInv'
<1>1. job[a][s].pc = "importing" /\ job[a][s].pc \in (Active \ Owning) \cap Connect!Using
          /\ attempt[a].flow.held
      /\ UNCHANGED <<duties, answered, elsewhere, shutdown>> /\ attempt[a].kind = "monarch"
  BY ConnectHere DEF Connect!RunImport, Connect!At, Active, Owning, Connect!Using, Connect!Monarch
<1>2. CASE Connect!ImportLands(a, s)
  BY <1>1, <1>2, ImportLandsKeeps
<1>3. CASE \E canRetry \in BOOLEAN : Connect!Fail(a, s, canRetry, FALSE) /\ UNCHANGED bound
  BY <1>1, <1>3, ConnectHere, ConnectFailKeeps
<1>4. CASE /\ attempt' = [attempt EXCEPT ![a] = IF @.listed THEN Connect!ClearRetained(@) ELSE @]
           /\ IF Connect!Alive(a) THEN Connect!Goes(a, s, "vault") ELSE Connect!Ends(a, s)
           /\ UNCHANGED bound
  <2> DEFINE x == Connect!ClearRetained(attempt[a])
             y == IF attempt[a].listed THEN x ELSE attempt[a]
  <2>1. Changed(x, attempt[a], {"session", "identity", "retry"}) /\ ~x.flow.retry
    BY ConnectHere, ClearRetainedGives
  <2>2. attempt' = [attempt EXCEPT ![a] = y]
    BY <1>4
  <2> HIDE DEF x
  <2>3. y \in Recs /\ ConnectAlike(y, attempt[a]) /\ y.state = attempt[a].state /\ y.flow.held
            /\ (Connect!Alive(a) => y = x)
    BY <1>1, <2>1, ConnectHere DEF Changed, FlowNames, ConnectAlike, Connect!Alive
  <2> HIDE DEF y
  <2>4. bound' \in ConnectProfiles
    BY <1>4, ConnectHere
  <2>5. CASE Connect!Alive(a)
    <3>1. /\ y.kind = "monarch" /\ y.state = "importing" /\ y.flow.config /\ ~y.flow.retry
      BY <1>1, <2>1, <2>3, <2>5, ConnectHere DEF Changed, FlowNames, ConnectAlike, Serves
    <3>2. Serves(y, "vault") /\ Has(y)
      BY <3>1 DEF Serves, Connect!Working, Has, Asks, Asking
    <3> QED
      BY <1>1, <1>4, <2>2, <2>3, <2>4, <2>5, <3>2, GoesKeeps DEF Active, Owning, Connect!Using
  <2>6. CASE ~Connect!Alive(a)
    <3>1. Connect!Ending \in ConnectJobs /\ Connect!Ending.pc = "ending"
              /\ Connect!Ending.owned = "nothing" /\ job' = [job EXCEPT ![a][s] = Connect!Ending]
      BY <1>4, <2>6, Jobless DEF Connect!Ends, Steps
    <3> QED
      BY <1>1, <2>2, <2>3, <2>4, <2>6, <3>1, StepKeeps DEF Connect!Using
  <2> QED
    BY <2>5, <2>6
<1> QED
  BY <1>1, <1>2, <1>3, <1>4 DEF Connect!RunImport, Connect!ImportFails, Connect!Monarch

LEMMA RunYNABImportKeeps ==
  ASSUME ConnectNumbered, ConnectInv, NEW a \in Connecting, NEW s \in Slots, Connect!RunYNABImport(a, s)
  PROVE  ConnectInv'
<1>1. job[a][s].pc \in Active \cap Connect!Using /\ UNCHANGED <<duties, answered, elsewhere, shutdown>>
          /\ attempt[a].kind = "ynab"
  BY ConnectHere DEF Connect!RunYNABImport, Connect!At, Active, Connect!Using, Connect!Monarch
<1>2. CASE Connect!ImportLands(a, s)
  BY <1>1, <1>2, ImportLandsKeeps
<1>3. CASE Connect!ImportFails(a, s) /\ UNCHANGED bound
  <2>1. (\E canRetry \in BOOLEAN : Connect!Fail(a, s, canRetry, FALSE)) \/ Connect!FailYNAB(a, s, TRUE)
    BY <1>1, <1>3 DEF Connect!ImportFails, Connect!FailYNAB, Connect!Monarch
  <2> QED
    BY <1>1, <1>3, <2>1, ConnectHere, ConnectFailKeeps, FailYNABKeeps
<1> QED
  BY <1>2, <1>3 DEF Connect!RunYNABImport

LEMMA ConnectPanicKeeps ==
  ASSUME ConnectNumbered, ConnectInv, NEW a \in Connecting, NEW s \in Slots, Connect!Panic(a, s)
  PROVE  ConnectInv'
<1>1. job[a][s].pc \in Active /\ UNCHANGED Connect!external /\ bound' \in ConnectProfiles
  BY ConnectHere DEF Connect!Panic, ConnectJobs, Steps, Active, Connect!external
<1> DEFINE canRetry == attempt[a].state # "importing" \/ attempt[a].flow.retry
<1>2. canRetry \in BOOLEAN /\ Connect!Fail(a, s, canRetry, TRUE)
  BY DEF Connect!Panic
<1> HIDE DEF canRetry
<1> QED
  BY <1>1, <1>2, ConnectFailKeeps DEF Connect!external

LEMMA RestartKeeps ==
  ASSUME ConnectNumbered, ConnectInv, NEW a \in Connecting, NEW s \in Slots, Connect!Restart(a, s)
  PROVE  ConnectInv'
<1>1. job[a][s].pc = "restart" /\ job[a][s].pc \in Active /\ UNCHANGED Connect!external
          /\ bound' \in ConnectProfiles
  BY ConnectHere DEF Connect!Restart, Connect!At, Active, Connect!external
<1>2. CASE ~Connect!Alive(a) /\ Connect!Stop(a, s)
  BY <1>1, <1>2, StopKeeps
<1>3. CASE /\ Connect!Alive(a)
           /\ attempt' = [attempt EXCEPT ![a].flow = Connect!NewFlow]
           /\ job' = [job EXCEPT ![a][s] =
                       [pc |-> "drop", owned |-> IF attempt[a].flow.held THEN "both" ELSE "nothing"]]
  <2> DEFINE y == [attempt[a] EXCEPT !.flow = Connect!NewFlow]
             j == [pc |-> "drop", owned |-> IF attempt[a].flow.held THEN "both" ELSE "nothing"]
  <2>1. y \in Recs /\ ConnectAlike(y, attempt[a]) /\ y.state = attempt[a].state /\ ~y.flow.retry
    BY ConnectHere, FlowTyped DEF Recs, ConnectAlike, FlowNames
  <2>2. j \in ConnectJobs /\ j.pc = "drop"
    BY DEF ConnectJobs, Steps
  <2>3. attempt' = [attempt EXCEPT ![a] = y] /\ job' = [job EXCEPT ![a][s] = j]
    BY <1>3, ConnectShapes
  <2> HIDE DEF y, j
  <2>4. Serves(y, "drop") /\ Has(y)
    BY <1>1, <1>3, <2>1, ConnectHere DEF Serves, Active, Connect!Using, Has, Asks, Asking,
       Connect!Working
  <2>5. "drop" \in Active \cap Owning /\ "drop" \notin Connect!Using
    BY DEF Active, Owning, Connect!Using
  <2> QED
    BY <1>1, <2>1, <2>2, <2>3, <2>4, <2>5, StepKeeps DEF Connect!external
<1> QED
  BY <1>2, <1>3 DEF Connect!Restart

LEMMA DropFlowKeeps ==
  ASSUME ConnectNumbered, ConnectInv, NEW a \in Connecting, NEW s \in Slots, Connect!DropFlow(a, s)
  PROVE  ConnectInv'
<1>1. job[a][s].pc = "drop" /\ job[a][s].pc \in Active /\ UNCHANGED Connect!external
          /\ bound' \in ConnectProfiles
  BY ConnectHere DEF Connect!DropFlow, Connect!At, Active, Connect!external
<1> DEFINE j == Connect!Job("inspect")
<1>2. j \in ConnectJobs /\ j.pc = "inspect" /\ j.owned = "nothing" /\ job' = [job EXCEPT ![a][s] = j]
  BY Jobless DEF Connect!DropFlow, Steps
<1> HIDE DEF j
<1>3. attempt[a] \in Recs /\ attempt' = [attempt EXCEPT ![a] = attempt[a]]
          /\ ConnectAlike(attempt[a], attempt[a])
  BY ConnectShapes DEF Connect!DropFlow, ConnectAlike
<1>4. Connect!Alive(a) => Serves(attempt[a], "inspect") /\ Has(attempt[a])
  BY <1>1, ConnectHere DEF Serves, Active, Connect!Using
<1>5. "inspect" \in Active /\ "inspect" \notin Connect!Using
  BY DEF Active, Connect!Using
<1> QED
  BY <1>1, <1>2, <1>3, <1>4, <1>5, StepKeeps DEF Connect!external
--------------------------------------------------------------------------------
LEMMA EndJobKeeps ==
  ASSUME ConnectNumbered, ConnectInv, NEW a \in Connecting, NEW s \in Slots, Connect!EndJob(a, s)
  PROVE  ConnectInv'
<1> DEFINE last == attempt[a].listed /\ attempt[a].jobDone = s
           y == IF last THEN [attempt[a] EXCEPT !.running = FALSE, !.jobDone = 0] ELSE attempt[a]
           j == IF last /\ attempt[a].state = "canceled" THEN Connect!Job("releasing") ELSE Connect!NoJob
<1>1. ConnectAttempt(a) /\ Slot(a, s) /\ job[a][s].pc = "ending" /\ s # 0 /\ UNCHANGED Connect!external
  BY DEF Connect!EndJob, Connect!At, ConnectInv, ConnectAttempt, ConnectNumbered
<1>2. /\ y \in Recs /\ y.listed = attempt[a].listed /\ y.kind = attempt[a].kind
             /\ y.state = attempt[a].state
      /\ y.flow = attempt[a].flow /\ y.jobDone = (IF last THEN 0 ELSE attempt[a].jobDone)
      /\ y.running <=> y.jobDone # 0
  BY ConnectShapes DEF Recs
<1>3. j \in ConnectJobs /\ j.pc = (IF last /\ attempt[a].state = "canceled" THEN "releasing" ELSE "none")
          /\ j.owned = "nothing"
  BY Jobless DEF Steps
<1>4. attempt' = [attempt EXCEPT ![a] = y] /\ job' = [job EXCEPT ![a][s] = j]
  BY ConnectShapes DEF Connect!EndJob
<1> HIDE DEF y, j
<1>5. /\ attempt' \in [Connecting -> Recs] /\ attempt'[a] = y
      /\ \A b \in Connecting \ {a} : attempt'[b] = attempt[b]
  BY <1>2, <1>4, ConnectShapes
<1>6. /\ job' \in [Connecting -> [Slots -> ConnectJobs]] /\ job'[a][s] = j
      /\ \A b \in Connecting \ {a} : job'[b] = job[b]
      /\ \A t \in Slots \ {s} : job'[a][t] = job[a][t]
  BY <1>3, <1>4, ConnectShapes
<1>7. ConnectOnly(a)
  BY <1>1, <1>2, <1>5, <1>6, ConnectShapes DEF ConnectOnly, Connect!external
<1>8. Connect!Alive(a)' = Connect!Alive(a) /\ (Connect!Alive(a) => ~(attempt[a].listed
          /\ attempt[a].state = "canceled"))
  BY <1>2, <1>5 DEF Connect!Alive
<1>9. ASSUME NEW t \in Slots PROVE Slot(a, t)'
  <2>1. CASE t = s
    <3>1. Serves(y, j.pc) \/ ~Connect!Alive(a)
      BY <1>3, <1>8 DEF Serves, Active, Connect!Using
    <3>2. j.pc \notin Active /\ (y.listed => y.jobDone # s) /\ (j.pc = "releasing" => ~Connect!Alive(a)
              /\ y.jobDone = 0)
      BY <1>1, <1>2, <1>3 DEF Active, Connect!Using, Connect!Alive
    <3> QED
      BY <1>3, <1>5, <1>6, <1>8, <2>1, <3>1, <3>2 DEF Slot, Active
  <2>2. CASE t # s
    <3>1. Slot(a, t) /\ (last => job[a][t].pc \notin Active)
      BY <1>1, <2>2 DEF ConnectAttempt, Slot
    <3>2. Serves(attempt[a], job[a][t].pc) => Serves(y, job[a][t].pc)
      BY <1>2 DEF Serves
    <3>3. t # 0
      BY DEF ConnectNumbered
    <3> QED
      BY <1>2, <1>5, <1>6, <1>8, <2>2, <3>1, <3>2, <3>3 DEF Slot, Active
  <2> QED
    BY <2>1, <2>2
<1>10. Connect!Alive(a) /\ attempt[a].state \in Connect!Working => ~last
  BY <1>1 DEF ConnectAttempt, Active, Connect!Using
<1>11. ConnectAttempt(a)'
  <2>1. Connect!Alive(a)' => Has(attempt'[a])
    BY <1>1, <1>2, <1>5, <1>8 DEF ConnectAttempt, Has
  <2>2. Connect!Alive(a)' /\ attempt'[a].state \in Connect!Working =>
          \E t \in Slots : t = attempt'[a].jobDone /\ job'[a][t].pc \in Active
    <3> SUFFICES ASSUME Connect!Alive(a), attempt[a].state \in Connect!Working
                 PROVE  \E t \in Slots : t = attempt'[a].jobDone /\ job'[a][t].pc \in Active
      BY <1>2, <1>5, <1>8
    <3>1. PICK t \in Slots : t = attempt[a].jobDone /\ job[a][t].pc \in Active
      BY <1>1 DEF ConnectAttempt
    <3>2. t # s
      BY <1>1, <3>1 DEF Active, Connect!Using
    <3> QED
      BY <1>2, <1>5, <1>6, <1>10, <3>1, <3>2
  <2>3. \A t \in Slots : job'[a][t].pc \in Active => job[a][t].pc \in Active
    BY <1>3, <1>6 DEF Active, Connect!Using
  <2> QED
    BY <1>1, <1>2, <1>5, <1>8, <1>9, <2>1, <2>2, <2>3 DEF ConnectAttempt, Connect!external
<1> QED
  BY <1>7, <1>11, ConnectOnlyKeeps

\* An attempt that is over and has no job at work gives back what it holds.
LEMMA EndsKeeps ==
  ASSUME ConnectNumbered, ConnectInv, NEW a \in Connecting, NEW y \in Recs,
         attempt' = [attempt EXCEPT ![a] = y],
         y.listed => attempt[a].listed, y.running = attempt[a].running, y.jobDone = attempt[a].jobDone,
         ~y.flow.held, ~(y.listed /\ y.state # "canceled"), \A t \in Slots : job[a][t].pc \notin Active,
         job' \in [Connecting -> [Slots -> ConnectJobs]], \A b \in Connecting \ {a} : job'[b] = job[b],
         \A t \in Slots : job'[a][t] = job[a][t] \/ (job'[a][t] = Connect!NoJob /\ attempt[a].jobDone = 0),
         duties' \subseteq duties, answered' \subseteq answered \cup {a}, UNCHANGED <<bound, elsewhere,
             shutdown>>
  PROVE  ConnectInv'
<1>1. ConnectAttempt(a)
  BY DEF ConnectInv
<1>2. /\ attempt' \in [Connecting -> Recs] /\ attempt'[a] = y
      /\ \A b \in Connecting \ {a} : attempt'[b] = attempt[b]
  BY ConnectShapes
<1>3. ConnectOnly(a)
  BY <1>2, ConnectShapes DEF ConnectOnly
<1>4. ~Connect!Alive(a)'
  BY <1>2 DEF Connect!Alive
<1>5. ASSUME NEW t \in Slots PROVE Slot(a, t)' /\ job'[a][t].pc \notin Active
  <2>1. Slot(a, t) /\ t # 0 /\ job[a][t].pc \notin Active
    BY <1>1 DEF ConnectAttempt, ConnectNumbered
  <2>2. CASE job'[a][t] = job[a][t]
    BY <1>2, <1>4, <2>1, <2>2 DEF Slot, Active
  <2>3. CASE job'[a][t] = Connect!NoJob /\ attempt[a].jobDone = 0
    BY <1>2, <1>4, <2>1, <2>3, Jobless DEF Slot, Active, Connect!Using
  <2> QED
    BY <2>2, <2>3
<1>6. ConnectAttempt(a)'
  <2>1. ~Connect!Alive(a) \/ \A d \in duties : d.attempt # a
    BY <1>1 DEF ConnectAttempt
  <2>2. \A d \in duties' : d.attempt = a => attempt'[a].jobDone \in {d.job, 0}
    BY <1>1, <1>2 DEF ConnectAttempt
  <2> QED
    BY <1>2, <1>4, <1>5, <2>2 DEF ConnectAttempt
<1> QED
  BY <1>3, <1>6, ConnectOnlyKeeps

LEMMA ReleaseCanceledKeeps ==
  ASSUME ConnectNumbered, ConnectInv, NEW a \in Connecting, NEW s \in Slots, Connect!ReleaseCanceled(a, s)
  PROVE  ConnectInv'
<1> DEFINE y == Connect!Release(attempt[a])
<1>1. ConnectAttempt(a) /\ Slot(a, s) /\ ~Connect!Alive(a) /\ attempt[a].jobDone = 0
  BY DEF Connect!ReleaseCanceled, Connect!At, ConnectInv, ConnectAttempt, Slot
<1>2. Changed(y, attempt[a], {"held"}) /\ ~y.flow.held
  BY ConnectHere, ReleaseGives
<1>3. attempt' = [attempt EXCEPT ![a] = y] /\ job' = [job EXCEPT ![a][s] = Connect!NoJob]
          /\ UNCHANGED Connect!external
  BY DEF Connect!ReleaseCanceled
<1> HIDE DEF y
<1>4. \A t \in Slots : job[a][t].pc \notin Active
  BY <1>1 DEF ConnectAttempt, Slot, ConnectNumbered
<1>5. /\ job' \in [Connecting -> [Slots -> ConnectJobs]] /\ \A b \in Connecting \ {a} : job'[b] = job[b]
      /\ \A t \in Slots : job'[a][t] = job[a][t] \/ job'[a][t] = Connect!NoJob
  BY <1>3, Jobless, ConnectShapes
<1>6. y \in Recs /\ ConnectAlike(y, attempt[a]) /\ y.state = attempt[a].state
  BY <1>2 DEF Changed
<1> QED
  BY <1>1, <1>2, <1>3, <1>4, <1>5, <1>6, EndsKeeps DEF ConnectAlike, Connect!Alive, Connect!external

LEMMA FinishDutyKeeps ==
  ASSUME ConnectNumbered, ConnectInv, NEW d \in duties, Connect!FinishDuty(d) PROVE ConnectInv'
<1> DEFINE a == d.attempt
           y == Connect!Release(attempt[a])
<1>1. a \in Connecting /\ ConnectAttempt(a) /\ attempt[a] \in Recs
  BY ConnectShapes DEF ConnectInv, AllDuties
<1>2. ~Connect!Alive(a) /\ attempt[a].jobDone \in {d.job, 0}
  BY <1>1 DEF ConnectAttempt
<1>3. Changed(y, attempt[a], {"held"}) /\ ~y.flow.held
  BY <1>1, ReleaseGives
<1>4. attempt' = [attempt EXCEPT ![a] = y] /\ duties' \subseteq duties
          /\ answered' \subseteq answered \cup {a}
      /\ UNCHANGED <<job, bound, elsewhere, shutdown>>
  BY DEF Connect!FinishDuty
<1>5. ASSUME NEW t \in Slots PROVE job[a][t].pc \notin Active
  <2>1. d.job # 0 => job[a][d.job].pc = "none"
    BY DEF Connect!FinishDuty, Connect!JobDone
  <2> QED
    BY <1>1, <1>2, <2>1 DEF ConnectAttempt, Slot, Active, Connect!Using, ConnectNumbered
<1> HIDE DEF y, a
<1>6. y \in Recs /\ ConnectAlike(y, attempt[a]) /\ y.state = attempt[a].state
  BY <1>3 DEF Changed
<1>7. job' \in [Connecting -> [Slots -> ConnectJobs]]
  BY <1>4, ConnectShapes
<1> QED
  BY <1>1, <1>2, <1>3, <1>4, <1>5, <1>6, <1>7, EndsKeeps DEF ConnectAlike, Connect!Alive

LEMMA ReapKeeps ==
  ASSUME ConnectNumbered, ConnectInv, NEW a \in Connecting, Connect!Reap(a) PROVE ConnectInv'
<1> DEFINE x == Connect!Release(attempt[a])
           y == [x EXCEPT !.listed = FALSE]
<1>1. ConnectAttempt(a) /\ attempt[a].listed /\ ~attempt[a].running /\ attempt[a] \in Recs
  BY ConnectShapes DEF ConnectInv, Connect!Reap, Connect!Idle
<1>2. attempt[a].jobDone = 0
  BY <1>1, ConnectShapes
<1>3. Changed(x, attempt[a], {"held"}) /\ ~x.flow.held
  BY <1>1, ReleaseGives
<1>4. attempt' = [attempt EXCEPT ![a] = y] /\ UNCHANGED <<job, Connect!external>>
  BY DEF Connect!Reap
<1> HIDE DEF x
<1>5. y \in Recs /\ ~y.listed /\ ~y.flow.held /\ y.running = attempt[a].running
          /\ y.jobDone = attempt[a].jobDone
  BY <1>3 DEF Changed, ConnectAlike, Recs
<1> HIDE DEF y
<1>6. \A t \in Slots : job[a][t].pc \notin Active
  BY <1>1, <1>2 DEF ConnectAttempt, Slot, ConnectNumbered
<1>7. job' \in [Connecting -> [Slots -> ConnectJobs]]
  BY <1>4, ConnectShapes
<1> QED
  BY <1>1, <1>4, <1>5, <1>6, <1>7, EndsKeeps DEF Connect!external

LEMMA ConnectStartKeeps ==
  ASSUME ConnectNumbered, ConnectInv, NEW a \in Connecting, Connect!Start(a) PROVE ConnectInv'
<1>1. PICK kind \in Connect!Kinds, explicit \in BOOLEAN, slot \in Slots :
        Connect!StartJob(a, [Connect!Unlisted EXCEPT !.listed = TRUE, !.kind = kind,
            !.explicit = explicit], slot, "inspect")
  BY DEF Connect!Start
<1> DEFINE x == [Connect!Unlisted EXCEPT !.listed = TRUE, !.kind = kind, !.explicit = explicit]
           y == [x EXCEPT !.running = TRUE, !.jobDone = slot]
<1>2. /\ x \in Recs /\ x.listed /\ x.state = "inspect" /\ ~x.flow.retry
  BY FlowTyped DEF Connect!Unlisted, Recs, Connect!States, Connect!Working, FlowNames
<1> HIDE DEF x
<1>3. /\ y \in Recs /\ y.listed /\ y.state = "inspect" /\ ~y.flow.retry /\ y.running /\ y.jobDone = slot
  BY <1>2 DEF Recs
<1>4. /\ attempt' \in [Connecting -> Recs] /\ attempt'[a] = y
      /\ \A b \in Connecting \ {a} : attempt'[b] = attempt[b]
  BY <1>1, <1>3, ConnectShapes DEF Connect!StartJob, x
<1> HIDE DEF y
<1>5. /\ job' \in [Connecting -> [Slots -> ConnectJobs]]
      /\ job'[a][slot].pc = "inspect" /\ job'[a][slot].owned = "nothing"
      /\ \A b \in Connecting \ {a} : job'[b] = job[b]
      /\ \A t \in Slots \ {slot} : job'[a][t] = Connect!NoJob
  <2>1. Connect!Job("inspect") \in ConnectJobs /\ Connect!Job("inspect").pc = "inspect"
            /\ Connect!Job("inspect").owned = "nothing"
    BY Jobless DEF Steps
  <2> QED
    BY <1>1, <2>1, ConnectShapes DEF Connect!StartJob, Connect!Start
<1>6. ConnectOnly(a)
  BY <1>3, <1>4, <1>5, ConnectShapes DEF ConnectOnly, Connect!Start, ConnectNumbered
<1>7. Connect!Alive(a)'
  BY <1>3, <1>4 DEF Connect!Alive
<1>8. Has(y) /\ Serves(y, "inspect") /\ Serves(y, "none")
  BY <1>3 DEF Has, Asks, Asking, Serves, Active, Connect!Using, Connect!Working
<1>9. ASSUME NEW t \in Slots PROVE Slot(a, t)'
  <2>1. CASE t = slot
    BY <1>3, <1>4, <1>5, <1>8, <2>1 DEF Slot, Active, Connect!Using
  <2>2. CASE t # slot
    BY <1>3, <1>4, <1>5, <1>8, <2>2, Jobless DEF Slot, Active, Connect!Using
  <2> QED
    BY <2>1, <2>2
<1>10. ConnectAttempt(a)'
  <2>1. "inspect" \in Active
    BY DEF Active
  <2>2. a \notin answered' /\ \A d \in duties' : d.attempt # a
    BY DEF Connect!Start
  <2> QED
    BY <1>3, <1>4, <1>5, <1>7, <1>8, <1>9, <2>1, <2>2 DEF ConnectAttempt
<1> QED
  BY <1>6, <1>10, ConnectOnlyKeeps

\* An attempt is canceled or removed, and what is to release it waits for its job.
LEMMA LeavesKeeps ==
  ASSUME ConnectNumbered, ConnectInv, NEW a \in Connecting, attempt'[a].jobDone = attempt[a].jobDone,
         attempt'[a].listed => attempt[a].listed, attempt'[a].flow.held = attempt[a].flow.held,
         ~Connect!Alive(a)', job'[a] = job[a], a \in answered' => a \in answered,
         \A d \in duties' : d.attempt = a => d \in duties \/ d.job = attempt[a].jobDone
  PROVE  ConnectAttempt(a)'
<1>1. ConnectAttempt(a)
  BY DEF ConnectInv
<1>2. ASSUME NEW t \in Slots PROVE Slot(a, t)'
  BY <1>1 DEF ConnectAttempt, Slot
<1> QED
  BY <1>1, <1>2 DEF ConnectAttempt

LEMMA ConnectCanceledGives ==
  ASSUME NEW x \in Recs
  PROVE  Connect!Canceled(x) \in Recs /\ ConnectAlike(Connect!Canceled(x), x)
             /\ Connect!Canceled(x).state = "canceled"
         /\ Connect!Canceled(x).flow.held = x.flow.held
<1>1. CASE x.state = "canceled"
  BY <1>1 DEF Connect!Canceled, ConnectAlike
<1>2. CASE x.state # "canceled"
  <2> DEFINE z == Connect!Transition(x, "canceled", FALSE, FALSE)
  <2>1. z \in Recs /\ ConnectAlike(z, x) /\ z.state = "canceled" /\ SameFlow(z.flow, x.flow)
    <3>1. "canceled" \in Connect!States
      BY DEF Connect!States
    <3> QED
      BY <3>1, MoveGives
  <2>2. Connect!Canceled(x) = z
    BY <1>2 DEF Connect!Canceled
  <2> HIDE DEF z
  <2> QED
    BY <2>1, <2>2 DEF SameFlow
<1> QED
  BY <1>1, <1>2

LEMMA ConnectCancelKeeps ==
  ASSUME ConnectNumbered, ConnectInv, NEW a \in Connecting, Connect!Cancel(a) PROVE ConnectInv'
<1> DEFINE y == Connect!Canceled(attempt[a])
<1>1. /\ y \in Recs /\ ConnectAlike(y, attempt[a]) /\ y.state = "canceled"
             /\ y.flow.held = attempt[a].flow.held
  BY ConnectShapes, ConnectCanceledGives
<1>2. attempt' = [attempt EXCEPT ![a] = y] /\ duties' = duties \cup {Connect!Duty(a, FALSE)}
      /\ UNCHANGED <<job, answered, bound, elsewhere, shutdown>>
  BY DEF Connect!Cancel
<1> HIDE DEF y
<1>3. /\ attempt' \in [Connecting -> Recs] /\ attempt'[a] = y
      /\ \A b \in Connecting \ {a} : attempt'[b] = attempt[b]
  BY <1>1, <1>2, ConnectShapes
<1>4. Connect!Duty(a, FALSE) \in AllDuties /\ Connect!Duty(a, FALSE).attempt = a
          /\ Connect!Duty(a, FALSE).job = attempt[a].jobDone
  BY ConnectShapes DEF Connect!Duty, AllDuties, Recs
<1>5. ConnectOnly(a)
  BY <1>1, <1>2, <1>3, <1>4, ConnectShapes DEF ConnectOnly, ConnectAlike
<1>6. ~Connect!Alive(a)'
  BY <1>1, <1>3 DEF Connect!Alive
<1>7. ConnectAttempt(a)'
  BY <1>1, <1>2, <1>3, <1>4, <1>6, LeavesKeeps DEF ConnectAlike
<1> QED
  BY <1>5, <1>7, ConnectOnlyKeeps

\* CancelProfile and Close, which every listed attempt leaves.
LEMMA AllLeaveKeeps ==
  ASSUME ConnectNumbered, ConnectInv, attempt' \in [Connecting -> Recs],
         \A a \in Connecting : /\ attempt'[a].running = attempt[a].running
                               /\ attempt'[a].jobDone = attempt[a].jobDone
                               /\ attempt'[a].listed => attempt[a].listed
                               /\ attempt'[a].flow.held = attempt[a].flow.held
                               /\ ~(attempt'[a].listed /\ attempt'[a].state # "canceled"),
         duties' = duties \cup {Connect!Duty(a, TRUE) : a \in {b \in Connecting : attempt[b].listed}},
         UNCHANGED <<job, answered, bound, elsewhere>>, shutdown' \in BOOLEAN
  PROVE  ConnectInv'
<1>1. ASSUME NEW d \in duties', d \notin duties
      PROVE  d \in AllDuties /\ d.job = attempt[d.attempt].jobDone
  <2>1. PICK b \in Connecting : d = Connect!Duty(b, TRUE)
    BY <1>1
  <2> QED
    BY <2>1, ConnectShapes DEF Connect!Duty, AllDuties, Recs
<1>2. ASSUME NEW a \in Connecting PROVE ConnectAttempt(a)'
  <2>1. ~Connect!Alive(a)'
    BY DEF Connect!Alive
  <2> QED
    BY <1>1, <2>1, LeavesKeeps
<1>3. duties' \subseteq AllDuties
  BY <1>1, ConnectShapes
<1>4. Connect!TypeOK'
  BY <1>3, ConnectShapes DEF Connect!TypeOK, Flows, Recs, Steps, ConnectJobs, AllDuties, ConnectProfiles
<1> QED
  BY <1>2, <1>4 DEF ConnectInv

LEMMA ConnectCancelProfileKeeps ==
  ASSUME ConnectNumbered, ConnectInv, Connect!CancelProfile PROVE ConnectInv'
<1>1. ASSUME NEW a \in Connecting
      PROVE  /\ attempt'[a] \in Recs /\ attempt'[a].running = attempt[a].running
             /\ attempt'[a].jobDone = attempt[a].jobDone
             /\ attempt'[a].listed => attempt[a].listed
             /\ attempt'[a].flow.held = attempt[a].flow.held
             /\ ~(attempt'[a].listed /\ attempt'[a].state # "canceled")
  <2>1. attempt'[a] = IF attempt[a].listed THEN Connect!Canceled(attempt[a]) ELSE attempt[a]
    BY DEF Connect!CancelProfile
  <2> QED
    BY <2>1, ConnectShapes, ConnectCanceledGives DEF ConnectAlike
<1>2. attempt' \in [Connecting -> Recs]
  <2>1. attempt' = [a \in Connecting |-> attempt'[a]]
    BY DEF Connect!CancelProfile
  <2> QED
    BY <1>1, <2>1
<1>3. shutdown' \in BOOLEAN
  BY ConnectShapes DEF Connect!CancelProfile
<1> QED
  BY <1>1, <1>2, <1>3, AllLeaveKeeps DEF Connect!CancelProfile

LEMMA ConnectCloseKeeps == ASSUME ConnectNumbered, ConnectInv, Connect!Close PROVE ConnectInv'
<1>1. ASSUME NEW a \in Connecting
      PROVE  /\ attempt'[a] \in Recs /\ attempt'[a].running = attempt[a].running
             /\ attempt'[a].jobDone = attempt[a].jobDone /\ attempt'[a].flow.held = attempt[a].flow.held
             /\ ~attempt'[a].listed
  <2>1. attempt'[a] = IF attempt[a].listed THEN [attempt[a] EXCEPT !.listed = FALSE] ELSE attempt[a]
    BY DEF Connect!Close
  <2>2. attempt[a] \in Recs
    BY ConnectShapes
  <2> QED
    BY <2>1, <2>2 DEF Recs
<1>2. attempt' \in [Connecting -> Recs]
  <2>1. attempt' = [a \in Connecting |-> attempt'[a]]
    BY DEF Connect!Close
  <2> QED
    BY <1>1, <2>1
<1> QED
  BY <1>1, <1>2, AllLeaveKeeps DEF Connect!Close
--------------------------------------------------------------------------------
\* Submit of an answer or a retry: the job it starts finds what it needs in x.
LEMMA SubmitKeeps ==
  ASSUME ConnectNumbered, ConnectInv, NEW a \in Connecting, NEW from,
         from \notin Connect!Working \cup {"canceled"},
         NEW st \in Connect!Working, NEW pc \in Active, Connect!Submit(a, from, st, pc),
         pc \in Connect!Using => attempt[a].flow.held,
         \A x \in Recs : x.kind = attempt[a].kind /\ x.state = st /\ SameFlow(x.flow, attempt[a].flow)
                           => Serves(x, pc)
  PROVE  ConnectInv'
<1> DEFINE x == Connect!Transition(attempt[a], st, FALSE, FALSE)
<1>1. Connect!Alive(a) /\ attempt[a].state \notin Connect!Working /\ attempt[a] \in Recs /\ Has(attempt[a])
          /\ UNCHANGED Connect!external
  BY ConnectShapes DEF Connect!Submit, Connect!Alive, ConnectInv, ConnectAttempt
<1>2. PICK slot \in Connect!FreeSlots(a) : Connect!StartJob(a, x, slot, pc)
  BY DEF Connect!Submit
<1>3. /\ x \in Recs /\ ConnectAlike(x, attempt[a]) /\ x.state = st /\ SameFlow(x.flow, attempt[a].flow)
      /\ x.flow.retry = (attempt[a].flow.retry /\ st \in {"failed", "importing"})
  <2>1. st \in Connect!States
    BY DEF Connect!States
  <2> QED
    BY <1>1, <2>1, TransitionGives
<1> HIDE DEF x
<1>4. Serves(x, pc) /\ x.listed /\ (pc \in Connect!Using => x.flow.held)
  BY <1>1, <1>3 DEF ConnectAlike, SameFlow, Connect!Alive
<1>5. Has(x)
  <2>1. Asks(x.kind, x.state, x.flow)
    BY <1>3 DEF Asks, Asking, Connect!Working
  <2>2. x.flow.retry => x.state \in {"failed", "importing"} /\ ConnectReady(x.kind, x.flow)
    BY <1>1, <1>3 DEF Has, ConnectReady, SameFlow, ConnectAlike
  <2> QED
    BY <2>1, <2>2 DEF Has
<1> QED
  BY <1>1, <1>2, <1>3, <1>4, <1>5, BeginKeeps

LEMMA Waiting ==
  ASSUME ConnectInv, NEW a \in Connecting, attempt[a].listed, attempt[a].state # "canceled"
  PROVE  Connect!Alive(a) /\ Has(attempt[a]) /\ attempt[a] \in Recs
  BY ConnectShapes DEF ConnectInv, ConnectAttempt, Connect!Alive

LEMMA SubmitsKeep ==
  ASSUME ConnectNumbered, ConnectInv, NEW a \in Connecting, Connect!SubmitUnlock(a)
         \/ Connect!SubmitCredentials(a) \/ Connect!SelectRemoteProfile(a)
  PROVE  ConnectInv'
<1>1. CASE Connect!SubmitUnlock(a) \/ Connect!SubmitCredentials(a)
  <2>1. PICK from \in {"unlock_required", "credentials_required"}, pc \in {"unlock", "credentials"} :
          Connect!Submit(a, from, "authenticating", pc)
    BY <1>1 DEF Connect!SubmitUnlock, Connect!SubmitCredentials
  <2>2. attempt[a].flow.held /\ (attempt[a].kind = "monarch" => attempt[a].flow.config)
    BY <2>1, Waiting DEF Connect!Submit, Has, Asks, Asking
  <2>3. ASSUME NEW x \in Recs, x.kind = attempt[a].kind, x.state = "authenticating", SameFlow(x.flow,
                   attempt[a].flow)
        PROVE  Serves(x, pc)
    BY <2>1, <2>2, <2>3 DEF Serves, SameFlow, Connect!Working
  <2> QED
    BY <2>1, <2>2, <2>3, SubmitKeeps DEF Active, Connect!Using, Connect!Working
<1>2. CASE Connect!SelectRemoteProfile(a)
  <2>1. Connect!Submit(a, "remote_profile_required", "authenticating", "select")
    BY <1>2 DEF Connect!SelectRemoteProfile
  <2>2. attempt[a].flow.held /\ attempt[a].kind # "monarch"
        /\ (attempt[a].kind = "ynab" => attempt[a].flow.plans /\ attempt[a].flow.token
               /\ attempt[a].flow.password)
    BY <2>1, Waiting DEF Connect!Submit, Has, Asks, Asking
  <2>3. ASSUME NEW x \in Recs, x.kind = attempt[a].kind, x.state = "authenticating", SameFlow(x.flow,
                   attempt[a].flow)
        PROVE  Serves(x, "select")
    BY <2>2, <2>3 DEF Serves, SameFlow, Connect!Working
  <2> QED
    BY <2>1, <2>2, <2>3, SubmitKeeps DEF Active, Connect!Using, Connect!Working
<1> QED
  BY <1>1, <1>2

LEMMA ConfirmSettingsKeeps ==
  ASSUME ConnectNumbered, ConnectInv, NEW a \in Connecting, Connect!ConfirmSettings(a) PROVE ConnectInv'
<1>1. attempt[a].listed /\ attempt[a].state = "settings_required"
  BY DEF Connect!ConfirmSettings, Connect!Submit
<1>2. Connect!Alive(a) /\ attempt[a].flow.held /\ Has(attempt[a]) /\ attempt[a] \in Recs
  BY <1>1, Waiting DEF Has, Asks, Asking
<1>3. CASE ~Connect!Monarch(a) /\ Connect!Submit(a, "settings_required", "importing", "confirm")
  <2>1. attempt[a].kind = "ynab" /\ attempt[a].flow.password /\ attempt[a].flow.credentials
            /\ attempt[a].flow.snapshot
    BY <1>1, <1>2, <1>3 DEF Connect!Monarch, Recs, Connect!Kinds, Has, Asks
  <2>2. ASSUME NEW x \in Recs, x.kind = attempt[a].kind, x.state = "importing", SameFlow(x.flow,
                   attempt[a].flow)
        PROVE  Serves(x, "confirm")
    BY <2>1, <2>2 DEF Serves, SameFlow, Connect!Working
  <2> QED
    BY <1>2, <1>3, <2>2, SubmitKeeps DEF Active, Connect!Using, Connect!Working
<1>4. CASE /\ Connect!Monarch(a) /\ UNCHANGED Connect!external
           /\ \E slot \in Connect!FreeSlots(a) :
                Connect!StartJob(a, Connect!Transition([attempt[a] EXCEPT !.flow.config = TRUE], "inspect",
                    FALSE, FALSE), slot, "input")
  <2> DEFINE w == [attempt[a] EXCEPT !.flow.config = TRUE]
             x == Connect!Transition(w, "inspect", FALSE, FALSE)
  <2>1. PICK slot \in Connect!FreeSlots(a) : Connect!StartJob(a, x, slot, "input")
    BY <1>4
  <2>2. Changed(w, attempt[a], {"config"})
    BY <1>2, ConfigGives
  <2> HIDE DEF w
  <2>3. /\ x \in Recs /\ ConnectAlike(x, w) /\ x.state = "inspect" /\ SameFlow(x.flow, w.flow)
               /\ ~x.flow.retry
    <3>1. w \in Recs /\ "inspect" \in Connect!States
      BY <2>2 DEF Changed, Connect!States, Connect!Working
    <3> QED
      BY <3>1, MoveGives
  <2> HIDE DEF x
  <2>4. x.listed /\ x.kind = "monarch" /\ x.flow.held
    BY <1>2, <1>4, <2>2, <2>3 DEF Changed, FlowNames, ConnectAlike, SameFlow, Connect!Monarch,
       Connect!Alive
  <2>5. Serves(x, "input") /\ Has(x)
    BY <2>3, <2>4 DEF Serves, Connect!Working, Has, Asks, Asking
  <2> QED
    BY <1>1, <1>2, <1>4, <2>1, <2>3, <2>4, <2>5, BeginKeeps DEF Active, Connect!Using, Connect!Working
<1> QED
  BY <1>3, <1>4 DEF Connect!ConfirmSettings

LEMMA RetryKeeps ==
  ASSUME ConnectNumbered, ConnectInv, NEW a \in Connecting, Connect!Retry(a) PROVE ConnectInv'
<1>1. Has(attempt[a]) /\ attempt[a].state = "failed" /\ attempt[a] \in Recs
  BY Waiting DEF Connect!Retry, Connect!Retryable
<1>2. CASE attempt[a].flow.retry /\ Connect!Submit(a, "failed", "importing", "import")
  <2>1. ConnectReady(attempt[a].kind, attempt[a].flow)
    BY <1>1, <1>2 DEF Has
  <2>2. ASSUME NEW x \in Recs, x.kind = attempt[a].kind, x.state = "importing", SameFlow(x.flow,
                   attempt[a].flow)
        PROVE  Serves(x, "import")
    BY <2>1, <2>2 DEF Serves, SameFlow, Connect!Working, ConnectReady
  <2> QED
    BY <1>2, <2>1, <2>2, SubmitKeeps DEF Active, Connect!Using, Connect!Working, ConnectReady
<1>3. CASE Connect!Submit(a, "failed", "inspect", "restart")
  <2>1. ASSUME NEW x \in Recs, x.state = "inspect" PROVE Serves(x, "restart")
    BY <2>1 DEF Serves, Connect!Working
  <2> QED
    BY <1>3, <2>1, SubmitKeeps DEF Active, Connect!Using, Connect!Working
<1> QED
  BY <1>1, <1>2, <1>3 DEF Connect!Retry

LEMMA ReauthenticateKeeps ==
  ASSUME ConnectNumbered, ConnectInv, NEW a \in Connecting, Connect!Reauthenticate(a) PROVE ConnectInv'
<1>1. /\ Has(attempt[a]) /\ attempt[a].state \in {"identity_mismatch", "failed"} /\ attempt[a] \in Recs
      /\ Connect!Alive(a)
  BY Waiting DEF Connect!Reauthenticate
<1>2. CASE Connect!Submit(a, attempt[a].state, "inspect", "restart")
  <2>1. ASSUME NEW x \in Recs, x.state = "inspect" PROVE Serves(x, "restart")
    BY <2>1 DEF Serves, Connect!Working
  <2> QED
    BY <1>1, <1>2, <2>1, SubmitKeeps DEF Active, Connect!Using, Connect!Working
<1>3. CASE /\ attempt[a].flow.held /\ (Connect!Monarch(a) => attempt[a].flow.config)
           /\ attempt' = [attempt EXCEPT ![a] =
                            Connect!Transition(Connect!Reauthenticated(a, @), "credentials_required",
                                FALSE, FALSE)]
           /\ UNCHANGED <<job, Connect!external>>
  <2> DEFINE w == Connect!Reauthenticated(a, attempt[a])
             y == Connect!Transition(w, "credentials_required", FALSE, FALSE)
  <2>1. /\ w \in Recs /\ ConnectAlike(w, attempt[a]) /\ w.flow.held /\ (w.kind = "monarch" => w.flow.config)
    <3>1. CASE Connect!Monarch(a)
      <4>1. Changed(w, attempt[a], {"session", "identity"})
        BY <1>1, <3>1, ForgetGives DEF Connect!Reauthenticated
      <4> HIDE DEF w
      <4> QED
        BY <1>3, <3>1, <4>1 DEF Changed, FlowNames
    <3>2. CASE ~Connect!Monarch(a)
      <4>1. Changed(w, attempt[a], {"token", "password", "credentials", "snapshot"})
        BY <1>1, <3>2, ClearRuntimeGives DEF Connect!Reauthenticated
      <4> HIDE DEF w
      <4> QED
        BY <1>3, <3>2, <4>1 DEF Changed, FlowNames, ConnectAlike, Connect!Monarch
    <3> QED
      BY <3>1, <3>2
  <2>2. attempt' = [attempt EXCEPT ![a] = y]
    BY <1>3, ConnectShapes
  <2> HIDE DEF w
  <2>3. /\ y \in Recs /\ ConnectAlike(y, w) /\ y.state = "credentials_required" /\ SameFlow(y.flow, w.flow)
               /\ ~y.flow.retry
    <3>1. "credentials_required" \in Connect!States
      BY DEF Connect!States
    <3> QED
      BY <2>1, <3>1, MoveGives
  <2> HIDE DEF y
  <2>4. Has(y)
    BY <2>1, <2>3 DEF Has, Asks, ConnectAlike, SameFlow
  <2> QED
    BY <1>1, <1>3, <2>1, <2>2, <2>3, <2>4, ConnectStayKeeps DEF ConnectAlike, Connect!Working
<1> QED
  BY <1>2, <1>3 DEF Connect!Reauthenticate

LEMMA ConnectTakeOpenedProfileKeeps ==
  ASSUME ConnectNumbered, ConnectInv, NEW a \in Connecting, Connect!TakeOpenedProfile(a) PROVE ConnectInv'
<1>1. Has(attempt[a]) /\ attempt[a].state = "complete" /\ attempt[a] \in Recs /\ Connect!Alive(a)
  BY Waiting DEF Connect!TakeOpenedProfile
<1> DEFINE y == Connect!Release(attempt[a])
<1>2. Changed(y, attempt[a], {"held"})
  BY <1>1, ReleaseGives
<1>3. attempt' = [attempt EXCEPT ![a] = y] /\ UNCHANGED <<job, Connect!external>>
  BY DEF Connect!TakeOpenedProfile
<1> HIDE DEF y
<1>4. y.state = "complete" /\ ~y.flow.retry
  BY <1>1, <1>2 DEF Changed, FlowNames, Has
<1>5. Has(y)
  BY <1>4 DEF Has, Asks, Asking
<1> QED
  BY <1>1, <1>2, <1>3, <1>4, <1>5, ConnectStayKeeps DEF Changed, Connect!Working

LEMMA LeavesAlone ==
  ASSUME ConnectInv, UNCHANGED <<attempt, job, answered, bound, shutdown>>, duties' \subseteq duties,
         elsewhere' \in BOOLEAN
  PROVE  ConnectInv'
<1>1. ASSUME NEW a \in Connecting PROVE ConnectAttempt(a)'
  <2>1. ConnectAttempt(a) /\ Connect!Alive(a)' = Connect!Alive(a)
    BY DEF ConnectInv, Connect!Alive
  <2>2. \A t \in Slots : Slot(a, t)'
    BY <2>1 DEF ConnectAttempt, Slot
  <2> QED
    BY <2>1, <2>2 DEF ConnectAttempt
<1>2. Connect!TypeOK'
  BY ConnectShapes DEF Connect!TypeOK, Flows, Recs, Steps, ConnectJobs, AllDuties, ConnectProfiles
<1> QED
  BY <1>1, <1>2 DEF ConnectInv

LEMMA ConnectStarts == ASSUME Connect!Init PROVE ConnectInv
<1>1. Connect!Unlisted \in Recs /\ ~Connect!Unlisted.listed /\ ~Connect!Unlisted.running
          /\ Connect!Unlisted.jobDone = 0 /\ ~Connect!Unlisted.flow.held
  BY FlowTyped DEF Connect!Unlisted, Recs, Connect!Kinds, Connect!States, Connect!Working, FlowNames
<1>2. Connect!TypeOK
  <2>1. attempt \in [Connecting -> Recs] /\ job \in [Connecting -> [Slots -> ConnectJobs]]
    BY <1>1, Jobless DEF Connect!Init
  <2>2. bound \in ConnectProfiles
    BY DEF Connect!Init, ConnectProfiles
  <2> QED
    BY <1>1, <2>1, <2>2 DEF Connect!Init, Connect!TypeOK, Flows, Recs, Steps, ConnectJobs, AllDuties,
       ConnectProfiles
<1>3. ASSUME NEW a \in Connecting PROVE ConnectAttempt(a)
  <2>1. attempt[a] = Connect!Unlisted /\ ~Connect!Alive(a) /\ \A s \in Slots : job[a][s] = Connect!NoJob
    BY <1>1 DEF Connect!Init, Connect!Alive
  <2>2. \A s \in Slots : Slot(a, s)
    BY <1>1, <2>1, Jobless DEF Slot, Active, Connect!Using
  <2> QED
    BY <1>1, <2>1, <2>2 DEF Connect!Init, ConnectAttempt
<1> QED
  BY <1>2, <1>3 DEF ConnectInv

LEMMA WorkKeeps ==
  ASSUME ConnectNumbered, ConnectInv, NEW a \in Connecting, NEW s \in Slots, Connect!Work(a, s)
  PROVE  ConnectInv'
<1>1. CASE Connect!Open(a, s) \/ Connect!TakeLock(a, s) \/ Connect!Install(a, s)
               \/ Connect!RouteMonarch(a, s) \/ Connect!RouteYNAB(a, s) \/ Connect!RouteStops(a, s)
  BY <1>1, ConnectOpenKeeps, ConnectTakeLockKeeps, ConnectInstallKeeps, RouteMonarchKeeps,
     RouteYNABKeeps, RouteStopsKeeps
<1>2. CASE Connect!ToInput(a, s) \/ Connect!LookAtVault(a, s) \/ Connect!Validate(a, s)
               \/ Connect!Authenticate(a, s) \/ Connect!SaveVault(a, s)
           \/ Connect!SaveSession(a, s)
  BY <1>2, ToInputKeeps, LookAtVaultKeeps, ValidateKeeps, AuthenticateKeeps, SaveVaultKeeps,
     SaveSessionKeeps
<1>3. CASE Connect!Unlock(a, s) \/ Connect!ListPlans(a, s) \/ Connect!SelectPlan(a, s)
               \/ Connect!FetchPlan(a, s) \/ Connect!SaveYNAB(a, s) \/ Connect!VaultSaved(a, s)
  BY <1>3, UnlockKeeps, ListPlansKeeps, SelectPlanKeeps, FetchPlanKeeps, SaveYNABKeeps, VaultSavedKeeps
<1>4. CASE Connect!BeginImport(a, s) \/ Connect!RunImport(a, s) \/ Connect!RunYNABImport(a, s)
               \/ Connect!Panic(a, s)
  BY <1>4, BeginImportKeeps, RunImportKeeps, RunYNABImportKeeps, ConnectPanicKeeps
<1>5. CASE Connect!Restart(a, s) \/ Connect!DropFlow(a, s) \/ Connect!EndJob(a, s)
               \/ Connect!ReleaseCanceled(a, s)
  BY <1>5, RestartKeeps, DropFlowKeeps, EndJobKeeps, ReleaseCanceledKeeps
<1> QED
  BY <1>1, <1>2, <1>3, <1>4, <1>5 DEF Connect!Work

LEMMA ConnectKeeps == ASSUME ConnectNumbered, ConnectInv, [Connect!Next]_(Connect!vars) PROVE ConnectInv'
<1>1. ASSUME NEW a \in Connecting, Connect!Present(a) PROVE ConnectInv'
  BY <1>1, ConnectStartKeeps, SubmitsKeep, ConfirmSettingsKeeps, ReauthenticateKeeps, RetryKeeps,
     ConnectTakeOpenedProfileKeeps, ConnectCancelKeeps, ReapKeeps DEF Connect!Present
<1>2. ASSUME NEW d \in duties, Connect!FinishDuty(d) \/ Connect!AbandonCancel(d) PROVE ConnectInv'
  <2>1. CASE Connect!FinishDuty(d)
    BY <2>1, FinishDutyKeeps
  <2>2. CASE Connect!AbandonCancel(d)
    BY <2>2, LeavesAlone, ConnectShapes DEF Connect!AbandonCancel
  <2> QED
    BY <1>2, <2>1, <2>2
<1>3. CASE Connect!OtherProcess
  BY <1>3, LeavesAlone, ConnectShapes DEF Connect!OtherProcess
<1>4. CASE UNCHANGED Connect!vars
  BY <1>4, LeavesAlone, ConnectShapes DEF Connect!vars
<1> QED
  BY <1>1, <1>2, <1>3, <1>4, WorkKeeps, ConnectCancelProfileKeeps, ConnectCloseKeeps DEF Connect!Next

LEMMA ConnectImplies ==
  ASSUME ConnectNumbered, ConnectInv
  PROVE  Connect!TypeOK /\ Connect!NoSilentStall /\ Connect!AnsweredIsQuiet /\ Connect!UseWhileHeld
<1>1. ASSUME NEW a \in Connecting, attempt[a].listed, ~attempt[a].running
       PROVE attempt[a].state \notin Connect!Working
  <2>1. ConnectAttempt(a) /\ attempt[a].jobDone = 0
    BY <1>1, ConnectShapes DEF ConnectInv
  <2>2. CASE Connect!Alive(a)
    BY <2>1, <2>2 DEF ConnectAttempt, ConnectNumbered
  <2>3. CASE ~Connect!Alive(a)
    BY <1>1, <2>3 DEF Connect!Alive, Connect!Working
  <2> QED
    BY <2>2, <2>3
<1>2. ASSUME NEW a \in answered
      PROVE  ~attempt[a].flow.held /\ \A s \in Slots : job[a][s].pc \notin Connect!Using
                 /\ job[a][s].owned = "nothing"
  <2>1. a \in Connecting /\ ConnectAttempt(a)
    BY ConnectShapes DEF ConnectInv
  <2> QED
    BY <2>1 DEF ConnectAttempt, Slot, Active, Owning
<1>3. ASSUME NEW a \in Connecting
      PROVE  /\ \A s \in Slots : job[a][s].pc \in Connect!Using => attempt[a].flow.held
             /\ Connect!Cardinality({s \in Slots :
                  job[a][s].pc \in Connect!Using \cup {"inspect", "lock", "install", "restart", "drop"}}) <= 1
  <2> DEFINE S == {s \in Slots :
                     job[a][s].pc \in Connect!Using \cup {"inspect", "lock", "install", "restart", "drop"}}
  <2>1. \A s \in Slots : Slot(a, s)
    BY DEF ConnectInv, ConnectAttempt
  <2>2. S = {} \/ S = {attempt[a].jobDone}
    BY <2>1 DEF Slot, Active
  <2> HIDE DEF S
  <2>3. Cardinality(S) <= 1
    <3>1. CASE S = {}
      BY <3>1, FS_EmptySet
    <3>2. CASE S = {attempt[a].jobDone}
      <4>1. Cardinality({attempt[a].jobDone}) = 1
        BY FS_Singleton
      <4> QED
        BY <3>2, <4>1
    <3> QED
      BY <2>2, <3>1, <3>2
  <2>4. Connect!Cardinality(S) = Cardinality(S)
    BY DEF Connect!Cardinality, Cardinality
  <2> QED
    BY <2>1, <2>3, <2>4 DEF Slot, S
<1> QED
  BY <1>1, <1>2, <1>3 DEF ConnectInv, Connect!NoSilentStall, Connect!AnsweredIsQuiet,
     Connect!UseWhileHeld

--------------------------------------------------------------------------------
\* A step of a's job leaves the other attempts alone, and the state of a when a is not to go on.
Leaves(a) ==
  /\ \A b \in Connecting \ {a} : attempt'[b] = attempt[b]
  /\ ~Connect!Alive(a) => attempt'[a].state = attempt[a].state

LEMMA EditLeaves ==
  ASSUME ConnectInv, NEW a \in Connecting, NEW y, attempt' = [attempt EXCEPT ![a] = y],
         ~Connect!Alive(a) => y.state = attempt[a].state
  PROVE  Leaves(a)
  BY ConnectShapes DEF Leaves

LEMMA SettleLeaves ==
  ASSUME ConnectInv, NEW a \in Connecting, NEW s, NEW x, NEW st, NEW r, NEW e,
         Connect!Settle(a, s, x, st, r, e) \/ Connect!Stable(a, s, st) \/ Connect!Fail(a, s, r, e)
             \/ Connect!Stop(a, s)
  PROVE  Leaves(a)
<1>1. CASE Connect!Stop(a, s)
  BY <1>1 DEF Connect!Stop, Leaves
<1>2. ASSUME NEW z, NEW to, NEW rr, NEW ee, Connect!Settle(a, s, z, to, rr, ee) PROVE Leaves(a)
  <2> DEFINE y == IF Connect!Alive(a) THEN Connect!Transition(z, to, rr, ee) ELSE attempt[a]
  <2>1. attempt' = [attempt EXCEPT ![a] = y]
    BY <1>2 DEF Connect!Settle, Connect!Settled
  <2>2. ~Connect!Alive(a) => y.state = attempt[a].state
    OBVIOUS
  <2> HIDE DEF y
  <2> QED
    BY <2>1, <2>2, EditLeaves
<1> QED
  BY <1>1, <1>2 DEF Connect!Stable, Connect!Fail

LEMMA ImportLeaves ==
  ASSUME ConnectInv, NEW a \in Connecting, NEW s, NEW x, NEW ready, Connect!Import(a, s, x, ready)
  PROVE  Leaves(a)
<1>1. CASE Connect!Stop(a, s)
  BY <1>1, SettleLeaves
<1>2. CASE Connect!Alive(a) /\ \E y : attempt' = [attempt EXCEPT ![a] = y]
  BY <1>2, EditLeaves
<1> QED
  BY <1>1, <1>2 DEF Connect!Import

LEMMA ClearLeaves ==
  ASSUME ConnectInv, NEW a \in Connecting, attempt' = [attempt EXCEPT ![a] = IF @.listed
         THEN Connect!ClearRetained(@) ELSE @]
  PROVE  Leaves(a)
<1> DEFINE y == IF attempt[a].listed THEN Connect!ClearRetained(attempt[a]) ELSE attempt[a]
<1>1. attempt' = [attempt EXCEPT ![a] = y] /\ attempt[a] \in Recs
  BY ConnectShapes
<1>2. y.state = attempt[a].state
  BY <1>1, ClearRetainedGives DEF Changed
<1> HIDE DEF y
<1> QED
  BY <1>1, <1>2, EditLeaves

LEMMA WorkLeaves ==
  ASSUME ConnectInv, NEW a \in Connecting, NEW s \in Slots, Connect!Work(a, s) PROVE Leaves(a)
<1>1. attempt[a] \in Recs
  BY ConnectShapes
<1>2. CASE \/ UNCHANGED attempt
           \/ \E x, st, r, e : Connect!Settle(a, s, x, st, r, e) \/ Connect!Stable(a, s, st)
                  \/ Connect!Fail(a, s, r, e) \/ Connect!Stop(a, s)
  <2>1. CASE UNCHANGED attempt
    BY <2>1 DEF Leaves
  <2> QED
    BY <1>2, <2>1, SettleLeaves
<1>3. CASE Connect!Alive(a) /\ \E y : attempt' = [attempt EXCEPT ![a] = y]
  BY <1>3, EditLeaves
<1>4. CASE \E x, ready : Connect!Import(a, s, x, ready)
  BY <1>4, ImportLeaves
<1>5. CASE attempt' = [attempt EXCEPT ![a] = IF @.listed THEN Connect!ClearRetained(@) ELSE @]
  BY <1>5, ClearLeaves
<1>6. CASE Connect!Open(a, s) \/ Connect!TakeLock(a, s) \/ Connect!RouteYNAB(a, s)
               \/ Connect!RouteStops(a, s) \/ Connect!ToInput(a, s) \/ Connect!LookAtVault(a, s)
           \/ Connect!Authenticate(a, s) \/ Connect!SaveVault(a, s) \/ Connect!SaveYNAB(a, s)
                  \/ Connect!BeginImport(a, s) \/ Connect!Panic(a, s) \/ Connect!DropFlow(a, s)
  BY <1>2, <1>6 DEF Connect!Open, Connect!TakeLock, Connect!RouteYNAB, Connect!RouteStops,
     Connect!ToInput, Connect!LookAtVault, Connect!Authenticate, Connect!SaveVault, Connect!SaveYNAB,
     Connect!BeginImport, Connect!Panic, Connect!DropFlow
<1>7. CASE Connect!Install(a, s)
  <2>1. CASE attempt' = [attempt EXCEPT ![a].flow.held = TRUE] /\ Connect!Alive(a)
    BY <1>3, <2>1
  <2> QED
    BY <1>2, <1>7, <2>1 DEF Connect!Install
<1>8. CASE Connect!RouteMonarch(a, s)
  <2>1. Connect!Alive(a)
    BY <1>8 DEF Connect!RouteMonarch
  <2>2. CASE \E x, r, e : Connect!Settled(a, x, "validate_session", r, e)
    BY <1>3, <2>1, <2>2 DEF Connect!Settled
  <2> QED
    BY <1>2, <1>3, <1>8, <2>1, <2>2 DEF Connect!RouteMonarch
<1>9. CASE Connect!Validate(a, s) \/ Connect!SaveSession(a, s)
  BY <1>2, <1>4, <1>5, <1>9 DEF Connect!Validate, Connect!SaveSession, Connect!ImportMonarch
<1>10. CASE \E r : Connect!FailYNAB(a, s, r)
  BY <1>2, <1>10 DEF Connect!FailYNAB
<1>11. CASE Connect!Unlock(a, s) \/ Connect!ListPlans(a, s) \/ Connect!SelectPlan(a, s)
  <2>1. CASE \E y : Connect!Alive(a) /\ attempt' = [attempt EXCEPT ![a].flow = y]
    BY <1>3, <2>1
  <2> QED
    BY <1>2, <1>3, <1>10, <1>11, <2>1 DEF Connect!Unlock, Connect!ListPlans, Connect!SelectPlan
<1>12. CASE Connect!FetchPlan(a, s)
  BY <1>2, <1>4, <1>10, <1>12 DEF Connect!FetchPlan
<1>13. CASE Connect!RunImport(a, s) \/ Connect!RunYNABImport(a, s)
  <2>1. CASE Connect!ImportLands(a, s)
    BY <1>2, <2>1 DEF Connect!ImportLands, Connect!Completed, Connect!Settle
  <2>2. CASE Connect!ImportFails(a, s)
    BY <1>2, <1>5, <2>2 DEF Connect!ImportFails
  <2> QED
    BY <1>13, <2>1, <2>2 DEF Connect!RunImport, Connect!RunYNABImport
<1>14. CASE Connect!VaultSaved(a, s)
  <2>1. PICK g : attempt' = [attempt EXCEPT ![a].flow = g]
    BY <1>14 DEF Connect!VaultSaved
  <2>2. attempt' = [attempt EXCEPT ![a] = [attempt[a] EXCEPT !.flow = g]]
    BY <2>1, <1>1
  <2> QED
    BY <1>1, <2>2, EditLeaves DEF Recs
<1>15. CASE Connect!EndJob(a, s)
  <2> DEFINE y == IF attempt[a].listed /\ attempt[a].jobDone = s
                    THEN [attempt[a] EXCEPT !.running = FALSE, !.jobDone = 0] ELSE attempt[a]
  <2>1. attempt' = [attempt EXCEPT ![a] = y] /\ y.state = attempt[a].state
    BY <1>1, <1>15 DEF Connect!EndJob, Recs
  <2> HIDE DEF y
  <2> QED
    BY <2>1, EditLeaves
<1>16. CASE Connect!ReleaseCanceled(a, s)
  <2> DEFINE y == Connect!Release(attempt[a])
  <2>1. attempt' = [attempt EXCEPT ![a] = y] /\ y.state = attempt[a].state
    BY <1>1, <1>16, ReleaseGives DEF Connect!ReleaseCanceled, Changed
  <2> HIDE DEF y
  <2> QED
    BY <2>1, EditLeaves
<1>17. CASE Connect!Restart(a, s)
  <2>1. CASE Connect!Alive(a) /\ attempt' = [attempt EXCEPT ![a].flow = Connect!NewFlow]
    BY <1>3, <2>1
  <2> QED
    BY <1>2, <1>17, <2>1 DEF Connect!Restart
<1> QED
  BY <1>6, <1>7, <1>8, <1>9, <1>11, <1>12, <1>13, <1>14, <1>15, <1>16, <1>17 DEF Connect!Work

LEMMA ConnectFinal ==
  ASSUME ConnectInv, [Connect!Next]_(Connect!vars), NEW a \in Connecting, attempt[a].listed,
         attempt[a].state = "canceled", attempt'[a].listed
  PROVE  attempt'[a].state = "canceled"
<1>1. ~Connect!Alive(a) /\ attempt[a] \in Recs
  BY ConnectShapes DEF Connect!Alive
<1>2. ASSUME NEW b \in Connecting, NEW s \in Slots, Connect!Work(b, s) PROVE attempt'[a].state = "canceled"
  BY <1>1, <1>2, WorkLeaves DEF Leaves
<1>3. ASSUME NEW b \in Connecting, NEW y, attempt' = [attempt EXCEPT ![b] = y],
             b = a => y.state = "canceled" \/ ~y.listed
      PROVE  attempt'[a].state = "canceled"
  BY <1>3, ConnectShapes
<1>4. ASSUME NEW b \in Connecting, Connect!Present(b) PROVE attempt'[a].state = "canceled"
  <2>1. CASE \E x, slot, pc : Connect!StartJob(b, x, slot, pc) /\ b # a
    BY <1>3, <2>1 DEF Connect!StartJob
  <2>2. CASE Connect!Start(b)
    BY <2>1, <2>2 DEF Connect!Start
  <2>3. CASE \E from, st, pc : Connect!Submit(b, from, st, pc) /\ from # "canceled"
    BY <2>1, <2>3 DEF Connect!Submit
  <2>4. CASE Connect!SubmitUnlock(b) \/ Connect!SubmitCredentials(b) \/ Connect!SelectRemoteProfile(b)
    BY <2>3, <2>4 DEF Connect!SubmitUnlock, Connect!SubmitCredentials, Connect!SelectRemoteProfile
  <2>5. CASE Connect!ConfirmSettings(b)
    <3>1. CASE attempt[b].state = "settings_required" /\ \E x, slot, pc : Connect!StartJob(b, x, slot, pc)
      BY <2>1, <3>1
    <3>2. CASE Connect!Submit(b, "settings_required", "importing", "confirm")
      BY <2>3, <3>2
    <3> QED
      BY <2>5, <3>1, <3>2 DEF Connect!ConfirmSettings
  <2>6. CASE Connect!Retry(b)
    BY <2>3, <2>6 DEF Connect!Retry, Connect!Retryable
  <2>7. CASE Connect!Reauthenticate(b)
    <3>1. b # a
      BY <2>7 DEF Connect!Reauthenticate
    <3> QED
      BY <1>3, <2>3, <2>7, <3>1 DEF Connect!Reauthenticate
  <2>8. CASE Connect!TakeOpenedProfile(b)
    BY <1>3, <2>8 DEF Connect!TakeOpenedProfile
  <2>9. CASE Connect!Cancel(b)
    <3> DEFINE y == Connect!Canceled(attempt[b])
    <3>1. attempt' = [attempt EXCEPT ![b] = y] /\ (b = a => y = attempt[a])
      BY <2>9 DEF Connect!Cancel, Connect!Canceled
    <3> HIDE DEF y
    <3> QED
      BY <1>3, <3>1
  <2>10. CASE Connect!Reap(b)
    <3> DEFINE x == Connect!Release(attempt[b])
               y == [x EXCEPT !.listed = FALSE]
    <3>1. attempt' = [attempt EXCEPT ![b] = y] /\ x \in Recs
      BY <2>10, ConnectShapes, ReleaseGives DEF Connect!Reap, Changed
    <3> HIDE DEF x
    <3>2. ~y.listed
      BY <3>1 DEF Recs
    <3> HIDE DEF y
    <3> QED
      BY <1>3, <3>1, <3>2
  <2> QED
    BY <1>4, <2>2, <2>4, <2>5, <2>6, <2>7, <2>8, <2>9, <2>10 DEF Connect!Present
<1>5. ASSUME NEW d \in duties, Connect!FinishDuty(d) PROVE attempt'[a].state = "canceled"
  <2>1. d.attempt \in Connecting
    BY ConnectShapes DEF AllDuties
  <2> DEFINE y == Connect!Release(attempt[d.attempt])
  <2>2. attempt' = [attempt EXCEPT ![d.attempt] = y] /\ y.state = attempt[d.attempt].state
    BY <1>5, <2>1, ConnectShapes, ReleaseGives DEF Connect!FinishDuty, Changed
  <2> HIDE DEF y
  <2> QED
    BY <1>3, <2>1, <2>2
<1>6. CASE Connect!CancelProfile \/ Connect!Close
  <2>1. CASE Connect!CancelProfile
    <3>1. attempt'[a] = Connect!Canceled(attempt[a])
      BY <2>1 DEF Connect!CancelProfile
    <3> QED
      BY <3>1 DEF Connect!Canceled
  <2>2. CASE Connect!Close
    <3>1. attempt'[a] = [attempt[a] EXCEPT !.listed = FALSE]
      BY <2>2 DEF Connect!Close
    <3> QED
      BY <1>1, <3>1 DEF Recs
  <2> QED
    BY <1>6, <2>1, <2>2
<1>7. CASE UNCHANGED attempt
  BY <1>7
<1> QED
  BY <1>2, <1>4, <1>5, <1>6, <1>7 DEF Connect!Next, Connect!AbandonCancel, Connect!OtherProcess,
     Connect!vars

--------------------------------------------------------------------------------
(* The parts together                                                         *)

lifecycleVars == <<part, crowd, vars, connectVars, setupVars, amazonVars>>

LEMMA PartsStep ==
  ASSUME [MCNext]_lifecycleVars
  PROVE  /\ [Next]_vars /\ [Connect!Next]_(Connect!vars) /\ [Setup!Next]_(Setup!setupVars)
         /\ [Amazon!Next]_(Amazon!vars)
<1>1. /\ connectVars = Connect!vars /\ setupVars = Setup!setupVars /\ amazonVars = Amazon!vars
  BY DEF connectVars, Connect!vars, setupVars, Setup!setupVars, amazonVars, Amazon!vars
<1> QED
  BY <1>1 DEF MCNext, lifecycleVars, connectVars, Connect!vars, setupVars, Setup!setupVars, amazonVars,
     Amazon!vars

\* Steps of the attempts stutter for the pool.
LEMMA Pools == MCSpec => Spec
<1>1. MCInit => Init
  BY DEF MCInit
<1>2. [MCNext]_lifecycleVars => [Next]_vars
  BY PartsStep
<1> QED
  BY <1>1, <1>2, PTL DEF MCSpec, Spec, lifecycleVars

LEMMA AmazonInvHolds == MCSpec => []AmazonInv
<1>1. AmazonParts
  BY LifecycleAssumption DEF AmazonParts
<1>2. MCInit => AmazonInv
  BY <1>1, AmazonStarts DEF MCInit
<1>3. AmazonInv /\ [MCNext]_lifecycleVars => AmazonInv'
  BY <1>1, PartsStep, AmazonKeeps
<1> QED
  BY <1>2, <1>3, PTL DEF MCSpec, lifecycleVars

LEMMA SetupInvHolds == MCSpec => []SetupInv
<1>1. MCInit => SetupInv
  BY SetupStarts DEF MCInit
<1>2. SetupInv /\ [MCNext]_lifecycleVars => SetupInv'
  BY PartsStep, SetupKeeps
<1> QED
  BY <1>1, <1>2, PTL DEF MCSpec, lifecycleVars

LEMMA ConnectInvHolds == MCSpec => []ConnectInv
<1>1. ConnectNumbered
  BY LifecycleAssumption DEF ConnectNumbered
<1>2. MCInit => ConnectInv
  BY ConnectStarts DEF MCInit
<1>3. ConnectInv /\ [MCNext]_lifecycleVars => ConnectInv'
  BY <1>1, PartsStep, ConnectKeeps
<1> QED
  BY <1>2, <1>3, PTL DEF MCSpec, lifecycleVars

\* Whatever requests, jobs, cancellations and shutdowns do, the pool's table and the attempts of
\* every coordinator keep their shapes; a job that an attempt waits for is the one that runs.
THEOREM LifecycleShapes == MCSpec => []ShapesKept
<1>1. MCSpec => []TypeOK
  BY Pools, LeasesAreCounted, PTL
<1>2. AmazonInv /\ SetupInv /\ ConnectInv /\ TypeOK => ShapesKept
  BY DEF AmazonInv, SetupInv, ConnectInv, ShapesKept
<1> QED
  BY <1>1, <1>2, AmazonInvHolds, SetupInvHolds, ConnectInvHolds, PTL

\* The pool of the process gives a profile one service and closes it once (registry.go).
THEOREM LifecyclePool == MCSpec => []PoolIsSafe
  BY Pools, PoolHolds, PTL

\* No attempt is left in a state that only a job can leave, whatever its inputs were when the job
\* looked (startJobLocked, startImport, confirmAndImportYNAB), and a claimed SimpleFIN credential
\* that could not be saved can be saved again or is said to be lost (claim, saveSession).
THEOREM LifecycleStalls == MCSpec => []NothingStalls
<1>1. ConnectNumbered
  BY LifecycleAssumption DEF ConnectNumbered
<1>2. SetupInv /\ ConnectInv => NothingStalls
  BY <1>1, SetupImplies, ConnectImplies DEF NothingStalls
<1> QED
  BY <1>2, SetupInvHolds, ConnectInvHolds, PTL

\* A job works on a profile its attempt holds, one job of an attempt works, and an attempt that is
\* over holds nothing (installFlow, release, cleanupAttempt).
THEOREM LifecycleHolds == MCSpec => []WorkedOnWhileHeld
<1>1. ConnectNumbered /\ AmazonParts
  BY LifecycleAssumption DEF ConnectNumbered, AmazonParts
<1>2. AmazonInv /\ SetupInv /\ ConnectInv => WorkedOnWhileHeld
  BY <1>1, AmazonImplies, SetupImplies, ConnectImplies DEF WorkedOnWhileHeld
<1> QED
  BY <1>2, AmazonInvHolds, SetupInvHolds, ConnectInvHolds, PTL

\* Once Cancel or CancelProfile was answered nothing of the attempt is at work, although its job
\* ran on under the cancellation and its caller may have stopped waiting (releaseLate).
THEOREM LifecycleQuiet == MCSpec => []QuietOnceAnswered
<1>1. ConnectNumbered
  BY LifecycleAssumption DEF ConnectNumbered
<1>2. SetupInv /\ ConnectInv => QuietOnceAnswered
  BY <1>1, SetupImplies, ConnectImplies DEF QuietOnceAnswered
<1> QED
  BY <1>2, SetupInvHolds, ConnectInvHolds, PTL

\* A canceled attempt stays canceled under its running jobs (setStableState, fail), one whose
\* cancellation was answered is not installed after, and a profile with a claimed credential is not
\* removed, by requests of which no two overlap (CancelNewProfile).
THEOREM LifecycleCancels ==
  ASSUME SetupOneRequest
  PROVE  MCSpec => CancellationsAreFinal
<1>1. AmazonParts
  BY LifecycleAssumption DEF AmazonParts
<1> DEFINE Stays == \A a \in Connecting :
             attempt[a].listed /\ attempt[a].state = "canceled" /\ attempt'[a].listed
               => attempt'[a].state = "canceled"
           Final == \A a \in acknowledged : a \in installed' => a \in installed
           Retained == stored.exists /\ ~stored'.exists => \A a \in Attempts : setup[a].claim = "none"
<1>2. ConnectInv /\ [MCNext]_lifecycleVars => [Stays]_(Connect!vars)
  BY PartsStep, ConnectFinal
<1>3. AmazonInv /\ [MCNext]_lifecycleVars => [Final]_(Amazon!vars)
  BY <1>1, PartsStep, AmazonFinal
<1>4. SetupInv /\ [MCNext]_lifecycleVars => [Retained]_(Setup!setupVars)
  BY PartsStep, SetupRetained
<1>5. MCSpec => [][MCNext]_lifecycleVars
  BY DEF MCSpec, lifecycleVars
<1> HIDE DEF Stays, Final, Retained
<1>6. MCSpec => [][Stays]_(Connect!vars) /\ [][Final]_(Amazon!vars) /\ [][Retained]_(Setup!setupVars)
  BY <1>2, <1>3, <1>4, <1>5, AmazonInvHolds, SetupInvHolds, ConnectInvHolds, PTL
<1> QED
  BY <1>6 DEF CancellationsAreFinal, Connect!CanceledStays, Amazon!CanceledIsFinal, Setup!RetainedStays,
     Stays, Final, Retained
================================================================================
