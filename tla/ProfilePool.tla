------------------------------ MODULE ProfilePool ------------------------------
(***************************************************************************)
(* The opened profile services of one process.                             *)
(*                                                                          *)
(* Requests acquire a lease on a profile's service, which the first of them *)
(* opens, and release it.  Evictions, the idle sweep and shutdown wait for  *)
(* the leases and close the service.  One mutex guards the table; opening,  *)
(* closing and waiting happen outside it.                                   *)
(*                                                                          *)
(* Source: internal/profilepool/registry.go.  Opening and closing a service *)
(* take and free the profile's files and shared lock (ProfileCatalog).      *)
(***************************************************************************)
EXTENDS Integers, FiniteSets

CONSTANTS
  Profiles,
  Callers,     \* goroutines
  Entries,     \* identities of table entries that something still refers to
  NoEntry,
  Temporaries  \* profiles whose files are deleted when they close

ASSUME ProfilePoolAssumption ==
  NoEntry \notin Entries /\ Temporaries \subseteq Profiles /\ IsFiniteSet(Callers)

VARIABLES
  entries,  \* the entry of each profile, or NoEntry
  entry,    \* what each entry holds
  calls,    \* what each caller is doing
  closed,   \* Close has begun
  drained   \* history: Close has returned, and no eviction of it was interrupted

vars == <<entries, entry, calls, closed, drained>>

\* registryEntry.  "service" is "broken" once it was closed twice.  Nobody reads what a removed
\* entry held.
NewEntry == [opening |-> TRUE, evicting |-> FALSE, refs |-> 0, service |-> "shut"]
Gone(e) == [entry EXCEPT ![e].opening = FALSE, ![e].evicting = FALSE]
Shut(e) == [Gone(e) EXCEPT ![e].service = IF @ = "open" THEN "shut" ELSE "broken"]

\* A goroutine in one call.  "todo" are the profiles Close or CloseIdle still has to evict,
\* "job" the call it makes, "ended" whether its context has ended, "failed" whether an eviction
\* of it returned that error.
Idle == [pc |-> "idle", job |-> "none", profile |-> NoEntry, entry |-> NoEntry, todo |-> {},
         ended |-> FALSE, failed |-> FALSE]

EvictorStates == {"evict", "waiting", "woken", "owner", "asleep", "closing"}

--------------------------------------------------------------------------------
(* Waiting.  A waiter captures its channel in the critical section in which   *)
(* it decides to wait, so closing the channel reaches exactly these waiters.  *)

\* signalLocked: every owner asleep in finishEviction looks at its entry again.
Signal(cs) == [c \in Callers |-> IF cs[c].pc = "asleep" THEN [cs[c] EXCEPT !.pc = "owner"] ELSE cs[c]]

\* close(entry.evicted).
Evicted(cs, e) ==
  [c \in Callers |-> IF cs[c].pc = "waiting" /\ cs[c].entry = e
                       THEN [cs[c] EXCEPT !.pc = "woken"] ELSE cs[c]]

\* close(entry.ready): they look at the table again.
Ready(cs, e) ==
  [c \in Callers |-> IF cs[c].pc = "awaiting" /\ cs[c].entry = e
                       THEN [cs[c] EXCEPT !.pc = "acquire", !.entry = NoEntry] ELSE cs[c]]

\* An eviction returns: the next profile of Close or CloseIdle, or the call's end.
Returned(call) ==
  IF call.todo = {} THEN Idle
  ELSE LET p == CHOOSE x \in call.todo : TRUE IN
       [call EXCEPT !.pc = "evict", !.profile = p, !.entry = NoEntry, !.todo = @ \ {p}]

Finishes(call) == call.job = "close" /\ call.todo = {} /\ ~call.failed

\* Return(c, cs): c's eviction returns, in the calls cs.
Return(c, cs) == [cs EXCEPT ![c] = Returned(cs[c])]

--------------------------------------------------------------------------------
(* Acquire                                                                    *)

\* A fresh call, or one that looks at the table again.
Calling(c, p) == calls[c].pc = "idle" \/ (calls[c].pc = "acquire" /\ calls[c].profile = p)
Free == {e \in Entries : (\A p \in Profiles : entries[p] # e) /\ \A c \in Callers : calls[c].entry # e}

\* The table has no entry: this call opens the profile.
AcquireNew(c, p) ==
  /\ Calling(c, p) /\ ~closed /\ entries[p] = NoEntry /\ Free # {}
  /\ LET e == CHOOSE x \in Free : TRUE IN
       /\ entries' = [entries EXCEPT ![p] = e]
       /\ entry' = [entry EXCEPT ![e] = NewEntry]
       /\ calls' = Signal([calls EXCEPT ![c] = [Idle EXCEPT !.pc = "opening", !.profile = p, !.entry = e]])
  /\ UNCHANGED <<closed, drained>>

Leasable(e) == ~entry[e].evicting /\ ~entry[e].opening

\* Mutant of AcquireOpened: the lease is not counted.
MutantAcquireOpened(c, p) ==
  /\ Calling(c, p) /\ ~closed /\ entries[p] # NoEntry /\ Leasable(entries[p])
  /\ calls' = Signal([calls EXCEPT ![c] = [Idle EXCEPT !.pc = "leased", !.profile = p, !.entry = entries[p]]])
  /\ UNCHANGED <<entries, entry, closed, drained>>
AcquireOpened(c, p) ==
  /\ Calling(c, p) /\ ~closed /\ entries[p] # NoEntry /\ Leasable(entries[p])
  /\ entry' = [entry EXCEPT ![entries[p]].refs = @ + 1]
  /\ calls' = Signal([calls EXCEPT ![c] = [Idle EXCEPT !.pc = "leased", !.profile = p, !.entry = entries[p]]])
  /\ UNCHANGED <<entries, closed, drained>>

AcquireWaits(c, p) ==
  /\ Calling(c, p) /\ ~closed /\ entries[p] # NoEntry
  /\ entry[entries[p]].opening /\ ~entry[entries[p]].evicting
  /\ calls' = [calls EXCEPT ![c] = [Idle EXCEPT !.pc = "awaiting", !.profile = p, !.entry = entries[p]]]
  /\ UNCHANGED <<entries, entry, closed, drained>>

\* Shutdown or an eviction refuses a call that waited for another's opening.
AcquireRefused(c, p) ==
  /\ calls[c].pc = "acquire" /\ calls[c].profile = p
  /\ closed \/ (entries[p] # NoEntry /\ entry[entries[p]].evicting)
  /\ calls' = [calls EXCEPT ![c] = Idle]
  /\ UNCHANGED <<entries, entry, closed, drained>>

\* open returned a service; nothing is locked yet.
OpenSucceeds(c) ==
  /\ calls[c].pc = "opening"
  /\ entry' = [entry EXCEPT ![calls[c].entry].service = "open"]
  /\ calls' = [calls EXCEPT ![c].pc = "opened"]
  /\ UNCHANGED <<entries, closed, drained>>

\* open failed, or panicked and the entry was removed on the way out.
OpenFails(c) ==
  LET e == calls[c].entry IN
  /\ calls[c].pc = "opening"
  /\ entries' = [entries EXCEPT ![calls[c].profile] = NoEntry]
  /\ entry' = Gone(e)
  /\ calls' = Signal(Ready([calls EXCEPT ![c] = Idle], e))
  /\ UNCHANGED <<closed, drained>>

\* Mutant of Install: the opened service of a refused call is dropped from the table before it
\* is closed.
MutantInstall(c) ==
  LET e == calls[c].entry IN
  /\ calls[c].pc = "opened"
  /\ IF closed \/ entry[e].evicting
       THEN /\ entry' = [entry EXCEPT ![e].opening = FALSE]
            /\ entries' = [entries EXCEPT ![calls[c].profile] = NoEntry]
            /\ calls' = Signal(Ready([calls EXCEPT ![c].pc = "unwinding"], e))
       ELSE /\ entry' = [entry EXCEPT ![e].opening = FALSE, ![e].refs = 1]
            /\ calls' = Signal(Ready([calls EXCEPT ![c].pc = "leased"], e))
            /\ UNCHANGED entries
  /\ UNCHANGED <<closed, drained>>
\* Under the lock again.  A call refused meanwhile keeps its entry as opening until it has closed
\* the service.
Install(c) ==
  LET e == calls[c].entry IN
  /\ calls[c].pc = "opened"
  /\ IF closed \/ entry[e].evicting
       THEN calls' = [calls EXCEPT ![c].pc = "unwinding"] /\ UNCHANGED entry
       ELSE /\ entry' = [entry EXCEPT ![e].opening = FALSE, ![e].refs = 1]
            /\ calls' = Signal(Ready([calls EXCEPT ![c].pc = "leased"], e))
  /\ UNCHANGED <<entries, closed, drained>>

Unwind(c) ==
  LET e == calls[c].entry IN
  /\ calls[c].pc = "unwinding"
  /\ entry' = Shut(e)
  /\ entries' = [entries EXCEPT ![calls[c].profile] = NoEntry]
  /\ calls' = Signal(Ready([calls EXCEPT ![c] = Idle], e))
  /\ UNCHANGED <<closed, drained>>

--------------------------------------------------------------------------------
(* Release                                                                    *)

\* The registry is closed and nobody else closes the entry.
LastRelease(e) == closed /\ ~entry[e].evicting /\ entry[e].refs = 1

Release(c) ==
  LET e == calls[c].entry IN
  /\ calls[c].pc = "leased"
  /\ entry' = [entry EXCEPT ![e].refs = @ - 1, ![e].evicting = @ \/ LastRelease(e)]
  /\ calls' = Signal([calls EXCEPT ![c] = IF LastRelease(e) THEN [@ EXCEPT !.pc = "owner", !.job = "release"]
                                                            ELSE Idle])
  /\ UNCHANGED <<entries, closed, drained>>

--------------------------------------------------------------------------------
(* Evict, CloseIdle and Close                                                 *)

\* The idle period of the entry may have ended: its clock is not modelled.
Sweepable(p) ==
  /\ entries[p] # NoEntry /\ p \notin Temporaries
  /\ ~entry[entries[p]].opening /\ ~entry[entries[p]].evicting /\ entry[entries[p]].refs = 0

Begin(c, job, ps) ==
  /\ calls[c].pc = "idle" /\ ps # {}
  /\ \E p \in ps :
       calls' = [calls EXCEPT ![c] = [Idle EXCEPT !.pc = "evict", !.job = job, !.profile = p, !.todo = ps \ {p}]]

Evict(c, p) == Begin(c, "evict", {p}) /\ UNCHANGED <<entries, entry, closed, drained>>

\* The profiles are chosen under the lock and evicted one after the other, each under its own.
CloseIdle(c) ==
  /\ \E ps \in SUBSET {p \in Profiles : Sweepable(p)} : Begin(c, "idle", ps)
  /\ UNCHANGED <<entries, entry, closed, drained>>

Close(c) ==
  LET ps == {p \in Profiles : entries[p] # NoEntry} IN
  /\ calls[c].pc = "idle" /\ ~closed
  /\ closed' = TRUE
  /\ drained' = (ps = {})
  /\ \/ ps = {} /\ calls' = Signal(calls)
     \/ \E p \in ps :
          calls' = Signal([calls EXCEPT ![c] = [Idle EXCEPT !.pc = "evict", !.job = "close", !.profile = p,
                                                            !.todo = ps \ {p}]])
  /\ UNCHANGED <<entries, entry>>

\* Nothing to evict.
EvictNothing(c) ==
  /\ calls[c].pc = "evict" /\ entries[calls[c].profile] = NoEntry
  /\ calls' = Return(c, calls)
  /\ drained' = (drained \/ Finishes(calls[c]))
  /\ UNCHANGED <<entries, entry, closed>>

Owned(e) == entry[e].evicting

EvictOwns(c) ==
  LET e == entries[calls[c].profile] IN
  /\ calls[c].pc = "evict" /\ e # NoEntry /\ ~Owned(e)
  /\ entry' = [entry EXCEPT ![e].evicting = TRUE]
  /\ calls' = Signal([calls EXCEPT ![c].pc = "owner", ![c].entry = e])
  /\ UNCHANGED <<entries, closed, drained>>

EvictWaits(c) ==
  LET e == entries[calls[c].profile] IN
  /\ calls[c].pc = "evict" /\ e # NoEntry /\ Owned(e)
  /\ calls' = [calls EXCEPT ![c].pc = "waiting", ![c].entry = e]
  /\ UNCHANGED <<entries, entry, closed, drained>>

\* The owner's entry is still there: it gave up, and this call tries in its place.
WaiterRetries(c) ==
  /\ calls[c].pc = "woken" /\ entries[calls[c].profile] = calls[c].entry
  /\ calls' = [calls EXCEPT ![c].pc = "evict", ![c].entry = NoEntry]
  /\ UNCHANGED <<entries, entry, closed, drained>>

WaiterReturns(c) ==
  /\ calls[c].pc = "woken" /\ entries[calls[c].profile] # calls[c].entry
  /\ calls' = Return(c, calls)
  /\ drained' = (drained \/ Finishes(calls[c]))
  /\ UNCHANGED <<entries, entry, closed>>

\* finishEviction, one turn of its loop.
Removed(c) == entries[calls[c].profile] # calls[c].entry
Closable(e) == ~entry[e].opening /\ entry[e].refs = 0

\* The opener removed the entry itself.
OwnerFindsRemoved(c) ==
  /\ calls[c].pc = "owner" /\ Removed(c)
  /\ calls' = Return(c, Evicted(calls, calls[c].entry))
  /\ drained' = (drained \/ Finishes(calls[c]))
  /\ UNCHANGED <<entries, entry, closed>>

OwnerCloses(c) ==
  /\ calls[c].pc = "owner" /\ ~Removed(c) /\ Closable(calls[c].entry)
  /\ calls' = [calls EXCEPT ![c].pc = "closing"]
  /\ UNCHANGED <<entries, entry, closed, drained>>

\* The context is looked at after the entry, so the last lease is never left behind.
GivesUp(c) == calls[c].ended /\ ~Removed(c) /\ ~Closable(calls[c].entry)

OwnerGivesUp(c) ==
  LET e == calls[c].entry IN
  /\ calls[c].pc = "owner" /\ GivesUp(c)
  /\ entry' = [entry EXCEPT ![e].evicting = FALSE]
  /\ calls' = Signal(Return(c, Evicted([calls EXCEPT ![c].failed = TRUE], e)))
  /\ UNCHANGED <<entries, closed, drained>>

OwnerSleeps(c) ==
  /\ calls[c].pc = "owner" /\ ~Removed(c) /\ ~Closable(calls[c].entry) /\ ~calls[c].ended
  /\ calls' = [calls EXCEPT ![c].pc = "asleep"]
  /\ UNCHANGED <<entries, entry, closed, drained>>

CloseService(c) ==
  LET e == calls[c].entry IN
  /\ calls[c].pc = "closing"
  /\ entry' = Shut(e)
  /\ entries' = [entries EXCEPT ![calls[c].profile] = IF @ = e THEN NoEntry ELSE @]
  /\ calls' = Signal(Return(c, Evicted(calls, e)))
  /\ drained' = (drained \/ Finishes(calls[c]))
  /\ UNCHANGED closed

\* The context of a call ends while its owner may look at it; earlier or later makes no difference.
\* The release that closes a service has none.
ContextEnds(c) ==
  /\ calls[c].job # "release" /\ ~calls[c].ended
  /\ calls[c].pc \in {"owner", "asleep"}
  /\ calls' = [calls EXCEPT ![c].ended = TRUE, ![c].pc = IF @ = "asleep" THEN "owner" ELSE @]
  /\ UNCHANGED <<entries, entry, closed, drained>>

\* A waiter whose context ends, now or earlier, returns its error; select may prefer it.
WaitInterrupted(c) ==
  /\ calls[c].pc \in {"awaiting", "waiting", "woken"}
  /\ calls' = IF calls[c].pc = "awaiting" THEN [calls EXCEPT ![c] = Idle]
              ELSE Return(c, [calls EXCEPT ![c].failed = TRUE, ![c].ended = TRUE])
  /\ UNCHANGED <<entries, entry, closed, drained>>

--------------------------------------------------------------------------------
Init ==
  /\ entries = [p \in Profiles |-> NoEntry]
  /\ entry = [e \in Entries |-> [NewEntry EXCEPT !.opening = FALSE]]
  /\ calls = [c \in Callers |-> Idle]
  /\ closed = FALSE /\ drained = FALSE

\* A call goes on: what no caller decides.
Continue(c) ==
  \/ \E p \in Profiles :
       /\ calls[c].pc = "acquire"
       /\ AcquireNew(c, p) \/ AcquireOpened(c, p) \/ AcquireWaits(c, p) \/ AcquireRefused(c, p)
  \/ OpenSucceeds(c) \/ OpenFails(c) \/ Install(c) \/ Unwind(c)
  \/ EvictNothing(c) \/ EvictOwns(c) \/ EvictWaits(c) \/ WaiterRetries(c) \/ WaiterReturns(c)
  \/ OwnerFindsRemoved(c) \/ OwnerCloses(c) \/ OwnerGivesUp(c) \/ OwnerSleeps(c) \/ CloseService(c)

Start(c) ==
  \/ \E p \in Profiles :
       /\ calls[c].pc = "idle"
       /\ AcquireNew(c, p) \/ AcquireOpened(c, p) \/ AcquireWaits(c, p) \/ Evict(c, p)
  \/ CloseIdle(c) \/ Close(c)

Next == \E c \in Callers : Continue(c) \/ Release(c) \/ Start(c) \/ ContextEnds(c) \/ WaitInterrupted(c)

Spec == Init /\ [][Next]_vars

\* Calls go on and whoever holds a lease releases it: every handler and worker defers its release.
FairSpec == Spec /\ \A c \in Callers : WF_vars(Continue(c)) /\ WF_vars(Release(c))

--------------------------------------------------------------------------------
(* Properties                                                                 *)

Leases(e) == {c \in Callers : calls[c].pc = "leased" /\ calls[c].entry = e}

EntryStates ==
  [opening : BOOLEAN, evicting : BOOLEAN, refs : Nat, service : {"shut", "open", "broken"}]
CallStates ==
  [pc : {"idle", "acquire", "awaiting", "opening", "opened", "unwinding", "leased"} \cup EvictorStates,
   job : {"none", "evict", "idle", "close", "release"}, profile : Profiles \cup {NoEntry},
   entry : Entries \cup {NoEntry}, todo : SUBSET Profiles, ended : BOOLEAN, failed : BOOLEAN]

\* The shapes of the table and the calls; an entry counts its leases.
TypeOK ==
  /\ entries \in [Profiles -> Entries \cup {NoEntry}]
  /\ entry \in [Entries -> EntryStates]
  /\ calls \in [Callers -> CallStates]
  /\ closed \in BOOLEAN /\ drained \in BOOLEAN
  /\ \A e \in Entries : entry[e].refs = Cardinality(Leases(e))

\* One service per profile: while one is opened, open or closing, no other is open or being opened
\* (registry.go keeps the entry as opening until a refused call has closed what it opened).
OneService ==
  \A p \in Profiles :
    Cardinality({e \in Entries : entry[e].service = "open" /\ entries[p] = e}
                \cup {calls[c].entry : c \in {x \in Callers : calls[x].profile = p /\
                        calls[x].pc \in {"opening", "opened", "unwinding", "leased", "closing"}}}) <= 1

\* A lease's service stays open while the lease is held: nobody has closed it or is closing it.
LeaseUsable ==
  \A c \in Callers : calls[c].pc = "leased" =>
    /\ entry[calls[c].entry].service = "open" /\ entries[calls[c].profile] = calls[c].entry
    /\ \A d \in Callers : calls[d].pc = "closing" => calls[d].entry # calls[c].entry

\* An open service is in the table, so an eviction that finds the profile gone from it, by its own
\* close, its owner's or the opener's, may move the profile's files; and a Close none of whose
\* evictions was interrupted leaves nothing open.
EvictedIsClosed ==
  /\ \A e \in Entries :
       entry[e].service = "open" \/ (\E c \in Callers : calls[c].pc = "opening" /\ calls[c].entry = e)
         => \E p \in Profiles : entries[p] = e
  /\ drained => \A e \in Entries : entry[e].service # "open"

\* Nobody closes a service twice, on any of the ways that lead to a close.
ClosedOnce == \A e \in Entries : entry[e].service # "broken"

\* An owner sleeps only while an opening or a lease will signal it, and a waiter only while an
\* owner will: no wakeup is lost between the two channels.
NoLostWakeup ==
  \A c \in Callers :
    /\ calls[c].pc = "asleep" => ~Removed(c) /\ ~Closable(calls[c].entry)
    /\ calls[c].pc = "waiting" =>
         \E d \in Callers : calls[d].pc \in {"owner", "asleep", "closing"} /\ calls[d].entry = calls[c].entry

\* A profile has one service, which stays open while it is leased, is closed once and is gone when
\* an eviction says so; and nobody sleeps through that.
PoolIsSafe == OneService /\ LeaseUsable /\ EvictedIsClosed /\ ClosedOnce /\ NoLostWakeup

Drained == \A e \in Entries : entry[e].service # "open"

\* Once shutdown has begun every service is closed in the end, also one in use when Close stopped
\* waiting for it: its last release closes it.
ShutdownDrains == closed ~> Drained
================================================================================
