--------------------------- MODULE ProfilePoolProofs ---------------------------
(***************************************************************************)
(* Safety of ProfilePool for every set of profiles, callers and entries.    *)
(*                                                                          *)
(* Everything rests on who may change a table entry.  Its opener keeps it   *)
(* in the table as opening until the service is open or closed again        *)
(* (Opener); a lease keeps it there, counted and open (Lessee); whoever     *)
(* evicts it is its only owner until the entry is gone or given up          *)
(* (Owner, Single); and a shutdown never forgets an entry it has not seen   *)
(* leave the table (Shuts, Emptied).                                        *)
(***************************************************************************)
EXTENDS ProfilePool, FiniteSetTheorems, TLAPS

Openers == {"opening", "opened", "unwinding"}
Owners == {"owner", "asleep", "closing"}
InTable(e) == \E p \in Profiles : entries[p] = e

\* A call refers to an entry from the moment it found or made it, and the entry's place in the
\* table is the call's profile.
Knows(c) ==
  /\ calls[c].pc # "idle" => calls[c].profile \in Profiles
  /\ calls[c].pc \in {"idle", "acquire", "evict"} <=> calls[c].entry = NoEntry
  /\ calls[c].entry # NoEntry =>
       \A p \in Profiles : entries[p] = calls[c].entry => p = calls[c].profile

\* Nobody but its opener removes an entry that is opening.
Opener(c) ==
  calls[c].pc \in Openers =>
    /\ entries[calls[c].profile] = calls[c].entry
    /\ entry[calls[c].entry].opening
    /\ entry[calls[c].entry].service = IF calls[c].pc = "opening" THEN "shut" ELSE "open"

\* A leased entry is in the table, past its opening.
Lessee(c) ==
  calls[c].pc = "leased" =>
    /\ entries[calls[c].profile] = calls[c].entry
    /\ ~entry[calls[c].entry].opening

\* An owner's entry is marked while it is in the table; a closing one stays there, unused.
Owner(c) ==
  /\ calls[c].pc \in Owners /\ ~Removed(c) => entry[calls[c].entry].evicting
  /\ calls[c].pc \in {"asleep", "closing"} => ~Removed(c)
  /\ calls[c].pc = "asleep" => ~Closable(calls[c].entry)
  /\ calls[c].pc = "closing" => Closable(calls[c].entry)

\* A waiter has an owner to wait for.
Awaited(c) ==
  calls[c].pc = "waiting" =>
    \E d \in Callers : calls[d].pc \in Owners /\ calls[d].entry = calls[c].entry

\* An entry has one opener and one owner.
Single ==
  \A c, d \in Callers :
    /\ calls[c].entry = calls[d].entry
    /\ \/ calls[c].pc \in Openers /\ calls[d].pc \in Openers
       \/ calls[c].pc \in Owners /\ calls[d].pc \in Owners
    => c = d

\* An entry in the table is open or opens, and an owner will see to it if it is marked; an open
\* service is in the table, and none is closed twice.
Placed(e) ==
  /\ InTable(e) /\ ~entry[e].opening => entry[e].service = "open"
  /\ InTable(e) /\ entry[e].evicting =>
       \E c \in Callers : calls[c].pc \in Owners /\ calls[c].entry = e
  /\ entry[e].service = "open" => InTable(e)
  /\ entry[e].service # "broken"

\* A profile has its own entry.
Separate == \A p, q \in Profiles : entries[p] = entries[q] /\ entries[p] # NoEntry => p = q

\* What Close has not evicted yet it still has to: nothing enters the table behind its back.
Shuts(c) ==
  calls[c].job = "close" /\ calls[c].pc # "idle" =>
    /\ closed
    /\ calls[c].entry # NoEntry => entries[calls[c].profile] \in {calls[c].entry, NoEntry}
    /\ ~calls[c].failed => \A p \in Profiles :
         entries[p] # NoEntry => p \in calls[c].todo \cup {calls[c].profile}

Emptied == drained => closed /\ \A p \in Profiles : entries[p] = NoEntry

CallSound(c) == Knows(c) /\ Opener(c) /\ Lessee(c) /\ Owner(c)

Sound ==
  /\ \A c \in Callers : CallSound(c) /\ Awaited(c) /\ Shuts(c)
  /\ \A e \in Entries : Placed(e)
  /\ Single /\ Separate /\ Emptied

--------------------------------------------------------------------------------
(* What a step does to the calls.                                            *)

\* Two records of one call that differ in how far it has come.
SameCall(x, y) ==
  y.profile = x.profile /\ y.job = x.job /\ y.todo = x.todo /\ y.failed = x.failed

\* What the step of another caller may do to a call: wake it.
Woken(x, y) ==
  \/ y = x
  \/ x.pc = "asleep" /\ y.pc = "owner" /\ y.entry = x.entry /\ SameCall(x, y)
  \/ x.pc = "waiting" /\ y.pc = "woken" /\ y.entry = x.entry /\ SameCall(x, y)
  \/ x.pc = "awaiting" /\ y.pc = "acquire" /\ y.entry = NoEntry /\ SameCall(x, y)

Moves(c) ==
  calls' \in [Callers -> CallStates] /\ \A d \in Callers \ {c} : Woken(calls[d], calls'[d])

\* A step that signals leaves nobody asleep.
Stirred == \A d \in Callers : calls'[d].pc # "asleep"

\* A signal wakes the sleepers and changes nothing else.
LEMMA SignalWakes ==
  ASSUME NEW cs \in [Callers -> CallStates]
  PROVE  /\ Signal(cs) \in [Callers -> CallStates]
         /\ \A d \in Callers :
              /\ Signal(cs)[d].pc # "asleep"
              /\ cs[d].pc # "asleep" => Signal(cs)[d] = cs[d]
              /\ cs[d].pc = "asleep" => /\ Signal(cs)[d].pc = "owner"
                                        /\ Signal(cs)[d].entry = cs[d].entry
                                        /\ SameCall(cs[d], Signal(cs)[d])
<1>1. ASSUME NEW d \in Callers
      PROVE  LET y == [cs[d] EXCEPT !.pc = "owner"]
             IN  /\ y \in CallStates /\ y.pc = "owner" /\ y.entry = cs[d].entry
                 /\ SameCall(cs[d], y)
  BY DEF CallStates, EvictorStates, SameCall
<1>. QED
  BY <1>1 DEF Signal

\* A woken call that is then signalled has been woken.
LEMMA WokenSignalled ==
  ASSUME NEW cs \in [Callers -> CallStates], NEW d \in Callers, NEW x, Woken(x, cs[d])
  PROVE  Woken(x, Signal(cs)[d])
<1>1. CASE cs[d].pc # "asleep"
  BY <1>1, SignalWakes
<1>2. CASE cs[d].pc = "asleep"
  <2>1. cs[d] = x
    BY <1>2 DEF Woken
  <2>. QED
    BY <1>2, <2>1, SignalWakes DEF Woken
<1>. QED
  BY <1>1, <1>2

LEMMA SignalStirs ==
  ASSUME NEW cs \in [Callers -> CallStates], calls' = Signal(cs)
  PROVE  Stirred /\ calls' \in [Callers -> CallStates]
  BY SignalWakes DEF Stirred

\* Closing an entry's ready channel wakes those that await it.
LEMMA ReadyWakes ==
  ASSUME NEW cs \in [Callers -> CallStates], NEW e
  PROVE  /\ Ready(cs, e) \in [Callers -> CallStates]
         /\ \A d \in Callers :
              /\ cs[d].pc # "awaiting" \/ cs[d].entry # e => Ready(cs, e)[d] = cs[d]
              /\ cs[d].pc = "awaiting" /\ cs[d].entry = e =>
                   /\ Ready(cs, e)[d].pc = "acquire" /\ Ready(cs, e)[d].entry = NoEntry
                   /\ SameCall(cs[d], Ready(cs, e)[d])
<1>1. ASSUME NEW d \in Callers
      PROVE  LET y == [cs[d] EXCEPT !.pc = "acquire", !.entry = NoEntry]
             IN  /\ y \in CallStates /\ y.pc = "acquire" /\ y.entry = NoEntry
                 /\ SameCall(cs[d], y)
  BY DEF CallStates, SameCall
<1>. QED
  BY <1>1 DEF Ready

\* Closing its evicted channel wakes those that wait for its owner.
LEMMA EvictedWakes ==
  ASSUME NEW cs \in [Callers -> CallStates], NEW e
  PROVE  /\ Evicted(cs, e) \in [Callers -> CallStates]
         /\ \A d \in Callers :
              /\ cs[d].pc # "waiting" \/ cs[d].entry # e => Evicted(cs, e)[d] = cs[d]
              /\ cs[d].pc = "waiting" /\ cs[d].entry = e =>
                   /\ Evicted(cs, e)[d].pc = "woken" /\ Evicted(cs, e)[d].entry = cs[d].entry
                   /\ SameCall(cs[d], Evicted(cs, e)[d])
<1>1. ASSUME NEW d \in Callers
      PROVE  LET y == [cs[d] EXCEPT !.pc = "woken"]
             IN  /\ y \in CallStates /\ y.pc = "woken" /\ y.entry = cs[d].entry
                 /\ SameCall(cs[d], y)
  BY DEF CallStates, EvictorStates, SameCall
<1>. QED
  BY <1>1 DEF Evicted

\* An eviction that returns goes on with one of the profiles still to do, or ends its call.
LEMMA ReturnedIs ==
  ASSUME NEW x \in CallStates
  PROVE  /\ Returned(x) \in CallStates /\ Returned(x).entry = NoEntry
         /\ Returned(x).pc \in {"idle", "evict"}
         /\ Returned(x).pc = "idle" <=> x.todo = {}
         /\ x.todo # {} =>
              /\ Returned(x).profile \in x.todo /\ Returned(x).job = x.job
              /\ Returned(x).todo = x.todo \ {Returned(x).profile}
              /\ Returned(x).failed = x.failed
         /\ x.todo = {} => Returned(x) = Idle
<1>1. Idle \in CallStates /\ Idle.pc = "idle" /\ Idle.entry = NoEntry
  BY DEF Idle, CallStates
<1>2. CASE x.todo = {}
  BY <1>1, <1>2 DEF Returned
<1>3. CASE x.todo # {}
  <2> DEFINE p == CHOOSE q \in x.todo : TRUE
  <2>1. p \in x.todo
    BY <1>3
  <2>. HIDE DEF p
  <2> DEFINE y == [x EXCEPT !.pc = "evict", !.profile = p, !.entry = NoEntry,
                            !.todo = @ \ {p}]
  <2>2. p \in Profiles /\ x.todo \ {p} \in SUBSET Profiles
    BY <2>1 DEF CallStates
  <2>3. /\ y \in CallStates /\ y.entry = NoEntry /\ y.pc = "evict" /\ y.profile = p
        /\ y.job = x.job /\ y.todo = x.todo \ {p} /\ y.failed = x.failed
    BY <2>2 DEF CallStates, EvictorStates
  <2>4. Returned(x) = y
    BY <1>3 DEF Returned, p
  <2>. QED
    BY <1>3, <2>1, <2>3, <2>4
<1>. QED
  BY <1>2, <1>3

\* A caller changes its own call.
LEMMA PutMoves ==
  ASSUME calls \in [Callers -> CallStates], NEW c \in Callers, NEW r \in CallStates,
         calls' = [calls EXCEPT ![c] = r]
  PROVE  Moves(c) /\ calls'[c] = r
  BY DEF Moves, Woken

\* The same, and signals.
LEMMA SignalMoves ==
  ASSUME calls \in [Callers -> CallStates], NEW c \in Callers, NEW r \in CallStates,
         r.pc # "asleep", calls' = Signal([calls EXCEPT ![c] = r])
  PROVE  Moves(c) /\ calls'[c] = r /\ Stirred
<1> DEFINE cs == [calls EXCEPT ![c] = r]
<1>1. cs \in [Callers -> CallStates] /\ cs[c] = r /\ \A d \in Callers \ {c} : cs[d] = calls[d]
  OBVIOUS
<1>. HIDE DEF cs
<1>2. calls' = Signal(cs)
  BY DEF cs
<1>3. \A d \in Callers \ {c} : Woken(calls[d], cs[d])
  BY <1>1 DEF Woken
<1>4. \A d \in Callers \ {c} : Woken(calls[d], calls'[d])
  BY <1>1, <1>2, <1>3, WokenSignalled
<1>5. calls'[c] = r
  BY <1>1, <1>2, SignalWakes
<1>. QED
  BY <1>1, <1>2, <1>4, <1>5, SignalStirs DEF Moves

\* The same, and closes the ready channel of an entry.
LEMMA ReadyMoves ==
  ASSUME calls \in [Callers -> CallStates], NEW c \in Callers, NEW r \in CallStates, NEW e,
         r.pc \notin {"asleep", "awaiting"}, calls' = Signal(Ready([calls EXCEPT ![c] = r], e))
  PROVE  Moves(c) /\ calls'[c] = r /\ Stirred
<1> DEFINE cs == [calls EXCEPT ![c] = r]
           rs == Ready(cs, e)
<1>1. cs \in [Callers -> CallStates] /\ cs[c] = r /\ \A d \in Callers \ {c} : cs[d] = calls[d]
  OBVIOUS
<1>. HIDE DEF cs
<1>2. /\ rs \in [Callers -> CallStates] /\ rs[c] = r
      /\ \A d \in Callers \ {c} :
           \/ rs[d] = calls[d]
           \/ /\ calls[d].pc = "awaiting" /\ rs[d].pc = "acquire" /\ rs[d].entry = NoEntry
              /\ SameCall(calls[d], rs[d])
  BY <1>1, ReadyWakes
<1>3. calls' = Signal(rs)
  BY DEF cs
<1>. HIDE DEF rs
<1>4. \A d \in Callers \ {c} : Woken(calls[d], rs[d])
  BY <1>2 DEF Woken
<1>5. \A d \in Callers \ {c} : Woken(calls[d], calls'[d])
  BY <1>2, <1>3, <1>4, WokenSignalled
<1>6. calls'[c] = r
  BY <1>2, <1>3, SignalWakes
<1>. QED
  BY <1>2, <1>3, <1>5, <1>6, SignalStirs DEF Moves

\* An owner that lets go of its entry wakes those that wait for it.
LEMMA LetsGo ==
  ASSUME calls \in [Callers -> CallStates], NEW c \in Callers, NEW r \in CallStates, NEW e,
         r.pc # "waiting",
         \/ calls' = Return(c, Evicted([calls EXCEPT ![c] = r], e))
         \/ calls' = Signal(Return(c, Evicted([calls EXCEPT ![c] = r], e)))
  PROVE  /\ Moves(c) /\ calls'[c] = Returned(r)
         /\ \A d \in Callers : calls'[d].pc = "waiting" => calls'[d].entry # e
         /\ calls' = Signal(Return(c, Evicted([calls EXCEPT ![c] = r], e))) => Stirred
<1> DEFINE cs == [calls EXCEPT ![c] = r]
           es == Evicted(cs, e)
           rs == Return(c, es)
<1>1. cs \in [Callers -> CallStates] /\ cs[c] = r /\ \A d \in Callers \ {c} : cs[d] = calls[d]
  OBVIOUS
<1>2. calls' = rs \/ calls' = Signal(rs)
  OBVIOUS
<1>. HIDE DEF cs
<1>3. /\ es \in [Callers -> CallStates] /\ es[c] = r
      /\ \A d \in Callers : es[d].pc = "waiting" => es[d].entry # e
      /\ \A d \in Callers \ {c} :
           \/ es[d] = calls[d]
           \/ /\ calls[d].pc = "waiting" /\ es[d].pc = "woken" /\ es[d].entry = calls[d].entry
              /\ SameCall(calls[d], es[d])
  BY <1>1, EvictedWakes
<1>. HIDE DEF es
<1>4. Returned(r) \in CallStates /\ Returned(r).pc \in {"idle", "evict"}
  BY ReturnedIs
<1>5. /\ rs \in [Callers -> CallStates] /\ rs[c] = Returned(r)
      /\ \A d \in Callers \ {c} : rs[d] = es[d]
  BY <1>3, <1>4 DEF Return
<1>. HIDE DEF rs
<1>6. \A d \in Callers \ {c} : Woken(calls[d], rs[d])
  BY <1>3, <1>5 DEF Woken
<1>7. \A d \in Callers : rs[d].pc = "waiting" => rs[d].entry # e
  BY <1>3, <1>4, <1>5
<1>8. calls' = Signal(Return(c, Evicted([calls EXCEPT ![c] = r], e))) => Stirred
  BY <1>5, SignalStirs DEF rs, es, cs
<1>9. CASE calls' = rs
  BY <1>5, <1>6, <1>7, <1>8, <1>9 DEF Moves
<1>10. CASE calls' = Signal(rs)
  <2>1. \A d \in Callers \ {c} : Woken(calls[d], calls'[d])
    BY <1>5, <1>6, <1>10, WokenSignalled
  <2>2. calls'[c] = Returned(r)
    BY <1>4, <1>5, <1>10, SignalWakes
  <2>3. \A d \in Callers : calls'[d].pc = "waiting" => calls'[d].entry # e
    BY <1>5, <1>7, <1>10, SignalWakes
  <2>. QED
    BY <1>5, <1>10, <2>1, <2>2, <2>3, SignalStirs DEF Moves
<1>. QED
  BY <1>2, <1>8, <1>9, <1>10

--------------------------------------------------------------------------------
(* What a step leaves alone.                                                 *)

\* The step changes neither what the entry holds nor its place.
Spared(e) ==
  entry'[e] = entry[e] /\ \A p \in Profiles : entries'[p] = e <=> entries[p] = e

\* A call whose entry is spared stays sound when it is woken.
LEMMA SparedCall ==
  ASSUME TypeOK, NEW c \in Callers, Moves(c), NEW d \in Callers \ {c}, CallSound(d),
         calls[d].entry # NoEntry => Spared(calls[d].entry)
  PROVE  CallSound(d)'
<1>1. calls[d] \in CallStates /\ Woken(calls[d], calls'[d])
  BY DEF TypeOK, Moves
<1>2. calls[d].entry = NoEntry <=> calls[d].pc \in {"idle", "acquire", "evict"}
  BY DEF CallSound, Knows
<1>3. calls[d].entry # NoEntry => calls[d].profile \in Profiles
  BY <1>1, <1>2 DEF CallSound, Knows
<1>4. CASE calls'[d] = calls[d]
  BY <1>2, <1>3, <1>4
     DEF CallSound, Knows, Opener, Lessee, Owner, Removed, Closable, Spared, Openers, Owners
<1>5. CASE calls[d].pc = "asleep" /\ calls'[d].pc = "owner" /\ calls'[d].entry = calls[d].entry
           /\ calls'[d].profile = calls[d].profile
  BY <1>2, <1>3, <1>5
     DEF CallSound, Knows, Opener, Lessee, Owner, Removed, Closable, Spared, Openers, Owners
<1>6. CASE calls[d].pc = "waiting" /\ calls'[d].pc = "woken" /\ calls'[d].entry = calls[d].entry
           /\ calls'[d].profile = calls[d].profile
  BY <1>2, <1>3, <1>6
     DEF CallSound, Knows, Opener, Lessee, Owner, Removed, Closable, Spared, Openers, Owners
<1>7. CASE calls[d].pc = "awaiting" /\ calls'[d].pc = "acquire" /\ calls'[d].entry = NoEntry
           /\ calls'[d].profile = calls[d].profile
  BY <1>2, <1>3, <1>7
     DEF CallSound, Knows, Opener, Lessee, Owner, Removed, Closable, Spared, Openers, Owners
<1>. QED
  BY <1>1, <1>4, <1>5, <1>6, <1>7 DEF Woken, SameCall

\* A waking takes no role away and gives none.
LEMMA RolesKept ==
  ASSUME NEW x, NEW y, Woken(x, y)
  PROVE  /\ y.pc \in Openers => x.pc \in Openers /\ y.entry = x.entry
         /\ x.pc \in Owners <=> y.pc \in Owners
         /\ y.pc \in Owners => y.entry = x.entry
         /\ y.pc = "waiting" => x.pc = "waiting" /\ y.entry = x.entry
         /\ x.pc = "leased" <=> y.pc = "leased"
         /\ y.pc = "leased" => y.entry = x.entry
  BY DEF Woken, Openers, Owners

\* The owner of an entry stays one.
StaysOwner(c) ==
  calls[c].pc \in Owners => calls'[c].pc \in Owners /\ calls'[c].entry = calls[c].entry

LEMMA AwaitedKept ==
  ASSUME NEW c \in Callers, Moves(c), \A d \in Callers : Awaited(d), Awaited(c)',
         \/ StaysOwner(c)
         \/ \A d \in Callers : calls'[d].pc = "waiting" => calls'[d].entry # calls[c].entry
  PROVE  \A d \in Callers : Awaited(d)'
<1>1. \A d \in Callers \ {c} : Woken(calls[d], calls'[d])
  BY DEF Moves
<1>2. SUFFICES ASSUME NEW d \in Callers \ {c}, calls'[d].pc = "waiting"
               PROVE  \E w \in Callers : calls'[w].pc \in Owners /\ calls'[w].entry = calls'[d].entry
  BY DEF Awaited
<1>3. calls[d].pc = "waiting" /\ calls'[d].entry = calls[d].entry
  BY <1>1, <1>2, RolesKept
<1>4. PICK w \in Callers : calls[w].pc \in Owners /\ calls[w].entry = calls[d].entry
  BY <1>3 DEF Awaited
<1>5. CASE w = c
  BY <1>2, <1>3, <1>4, <1>5 DEF StaysOwner
<1>6. CASE w # c
  BY <1>1, <1>3, <1>4, <1>6, RolesKept
<1>. QED
  BY <1>5, <1>6

\* Nobody else has that role of the entry.
Alone(c, role, e) == \A d \in Callers \ {c} : calls[d].pc \in role => calls[d].entry # e

LEMMA SingleKept ==
  ASSUME NEW c \in Callers, Moves(c), Single,
         calls'[c].pc \in Openers => Alone(c, Openers, calls'[c].entry),
         calls'[c].pc \in Owners => Alone(c, Owners, calls'[c].entry)
  PROVE  Single'
<1>1. \A d \in Callers \ {c} :
        /\ calls'[d].pc \in Openers => calls[d].pc \in Openers /\ calls'[d].entry = calls[d].entry
        /\ calls'[d].pc \in Owners => calls[d].pc \in Owners /\ calls'[d].entry = calls[d].entry
  BY RolesKept DEF Moves
<1>2. SUFFICES ASSUME NEW a \in Callers, NEW b \in Callers, calls'[a].entry = calls'[b].entry,
                      \/ calls'[a].pc \in Openers /\ calls'[b].pc \in Openers
                      \/ calls'[a].pc \in Owners /\ calls'[b].pc \in Owners
               PROVE  a = b
  BY DEF Single
<1>3. CASE a = c \/ b = c
  BY <1>1, <1>2, <1>3 DEF Alone
<1>4. CASE a # c /\ b # c
  BY <1>1, <1>2, <1>4 DEF Single
<1>. QED
  BY <1>3, <1>4

\* Who has a role of an entry has it alone.
LEMMA AloneNow ==
  ASSUME Single, NEW c \in Callers
  PROVE  /\ calls[c].pc \in Openers => Alone(c, Openers, calls[c].entry)
         /\ calls[c].pc \in Owners => Alone(c, Owners, calls[c].entry)
  BY DEF Single, Alone

\* A spared entry keeps its place as long as its owner does not let it go.
LEMMA SparedPlaced ==
  ASSUME NEW c \in Callers, Moves(c), NEW e \in Entries, Placed(e), Spared(e),
         StaysOwner(c) \/ calls[c].entry # e
  PROVE  Placed(e)'
<1>1. InTable(e)' <=> InTable(e)
  BY DEF InTable, Spared
<1>2. ASSUME NEW d \in Callers, calls[d].pc \in Owners, calls[d].entry = e
      PROVE  calls'[d].pc \in Owners /\ calls'[d].entry = e
  BY <1>2, RolesKept DEF Moves, StaysOwner
<1>. QED
  BY <1>1, <1>2 DEF Placed, Spared

\* Removing entries from the table disturbs no shutdown.
LEMMA ShutsKept ==
  ASSUME NEW c \in Callers, Moves(c), NEW d \in Callers \ {c}, TypeOK, Knows(d), Shuts(d),
         closed => closed', \A p \in Profiles : entries'[p] \in {entries[p], NoEntry}
  PROVE  Shuts(d)'
<1>1. Woken(calls[d], calls'[d])
  BY DEF Moves
<1>2. /\ SameCall(calls[d], calls'[d]) /\ calls'[d].entry \in {calls[d].entry, NoEntry}
      /\ calls'[d].pc = "idle" <=> calls[d].pc = "idle"
  BY <1>1 DEF Woken, SameCall
<1>3. calls[d].pc # "idle" => calls[d].profile \in Profiles
  BY DEF Knows
<1>. QED
  BY <1>2, <1>3 DEF Shuts, SameCall

\* Leases are begun and ended by their callers only.
LEMMA LeasesKept ==
  ASSUME NEW c \in Callers, Moves(c), NEW e,
         calls'[c].pc = "leased" /\ calls'[c].entry = e <=> calls[c].pc = "leased" /\ calls[c].entry = e
  PROVE  Leases(e)' = Leases(e)
  BY RolesKept DEF Leases, Moves
LEMMA LeaseBegun ==
  ASSUME NEW c \in Callers, Moves(c), NEW e,
         calls'[c].pc = "leased" /\ calls'[c].entry = e, calls[c].pc # "leased"
  PROVE  Leases(e)' = Leases(e) \cup {c} /\ c \notin Leases(e)
  BY RolesKept DEF Leases, Moves
LEMMA LeaseEnded ==
  ASSUME NEW c \in Callers, Moves(c), NEW e,
         calls[c].pc = "leased" /\ calls[c].entry = e, calls'[c].pc # "leased"
  PROVE  Leases(e)' = Leases(e) \ {c} /\ c \in Leases(e)
  BY RolesKept DEF Leases, Moves

--------------------------------------------------------------------------------
(* Steps that leave the table alone.                                         *)

\* A step that changes neither the table nor its entries has to account for its own call only.
LEMMA QuietStep ==
  ASSUME TypeOK, Sound, NEW c \in Callers, Moves(c), UNCHANGED <<entries, entry>>,
         closed => closed', closed' \in BOOLEAN, drained' \in BOOLEAN, Emptied',
         CallSound(c)', Awaited(c)', Shuts(c)',
         calls'[c].pc = "leased" <=> calls[c].pc = "leased",
         calls'[c].pc = "leased" => calls'[c].entry = calls[c].entry,
         calls'[c].pc \in Openers => calls[c].pc \in Openers /\ calls'[c].entry = calls[c].entry,
         calls'[c].pc \in Owners => calls[c].pc \in Owners /\ calls'[c].entry = calls[c].entry,
         \/ StaysOwner(c)
         \/ /\ Removed(c)
            /\ \A d \in Callers : calls'[d].pc = "waiting" => calls'[d].entry # calls[c].entry
  PROVE  TypeOK' /\ Sound'
<1>1. \A e \in Entries \cup {NoEntry} : Spared(e)
  BY DEF Spared
<1>2. TypeOK'
  <2>1. \A e \in Entries : Leases(e)' = Leases(e)
    BY LeasesKept
  <2>. QED
    BY <2>1 DEF TypeOK, Moves
<1>3. \A d \in Callers \ {c} : CallSound(d)'
  BY <1>1, SparedCall DEF Sound, TypeOK, CallStates
<1>4. \A d \in Callers : Awaited(d)'
  BY AwaitedKept DEF Sound
<1>5. \A d \in Callers \ {c} : Shuts(d)'
  BY ShutsKept DEF Sound, CallSound
<1>6. \A e \in Entries : Placed(e)'
  <2> SUFFICES ASSUME NEW e \in Entries PROVE Placed(e)'
    OBVIOUS
  <2>1. CASE StaysOwner(c) \/ calls[c].entry # e
    BY <1>1, <2>1, SparedPlaced DEF Sound
  <2>2. CASE Removed(c) /\ calls[c].entry = e
    <3>1. ~InTable(e)
      BY <2>2, ProfilePoolAssumption DEF Sound, CallSound, Knows, InTable, Removed
    <3>. QED
      BY <3>1 DEF Sound, Placed, InTable
  <2>. QED
    BY <2>1, <2>2
<1>7. Single'
  BY SingleKept, AloneNow DEF Sound
<1>8. Separate'
  BY DEF Sound, Separate
<1>. QED
  BY <1>2, <1>3, <1>4, <1>5, <1>6, <1>7, <1>8 DEF Sound

\* A call that is idle or has an eviction before it refers to no entry.
LEMMA PlainSound ==
  ASSUME NEW c \in Callers, calls'[c].pc \in {"idle", "acquire", "evict"}, calls'[c].entry = NoEntry,
         calls'[c].pc # "idle" => calls'[c].profile \in Profiles
  PROVE  CallSound(c)' /\ Awaited(c)'
  BY DEF CallSound, Knows, Opener, Lessee, Owner, Awaited, Openers, Owners

LEMMA IdleIs ==
  /\ Idle \in CallStates /\ Idle.pc = "idle" /\ Idle.entry = NoEntry
  /\ Idle.job = "none" /\ Idle.ended = FALSE /\ Idle.failed = FALSE
  BY DEF Idle, CallStates

LEMMA AcquireWaitsSound ==
  ASSUME TypeOK, Sound, NEW c \in Callers, NEW p \in Profiles, AcquireWaits(c, p)
  PROVE  TypeOK' /\ Sound'
<1> DEFINE r == [Idle EXCEPT !.pc = "awaiting", !.profile = p, !.entry = entries[p]]
<1>1. entries[p] \in Entries
  BY DEF TypeOK, AcquireWaits
<1>2. /\ r \in CallStates /\ r.pc = "awaiting" /\ r.profile = p /\ r.entry = entries[p]
      /\ r.job = "none"
  BY <1>1 DEF Idle, CallStates
<1>. HIDE DEF r
<1>3. Moves(c) /\ calls'[c] = r
  BY <1>2, PutMoves DEF AcquireWaits, TypeOK, r
<1>4. CallSound(c)' /\ Awaited(c)' /\ Shuts(c)'
  <2>1. entries' = entries /\ entries[p] # NoEntry
    BY DEF AcquireWaits
  <2>2. Knows(c)'
    BY <1>2, <1>3, <2>1 DEF Knows, Sound, Separate
  <2>. QED
    BY <1>2, <1>3, <2>2
       DEF CallSound, Opener, Lessee, Owner, Awaited, Shuts, Openers, Owners
<1>5. calls[c].pc \notin Owners /\ calls[c].pc # "leased"
  BY DEF AcquireWaits, Calling, Owners
<1>. QED
  BY <1>2, <1>3, <1>4, <1>5, QuietStep
     DEF AcquireWaits, StaysOwner, Sound, Emptied, TypeOK, Openers, Owners

LEMMA AcquireRefusedSound ==
  ASSUME TypeOK, Sound, NEW c \in Callers, NEW p \in Profiles, AcquireRefused(c, p)
  PROVE  TypeOK' /\ Sound'
<1>1. Moves(c) /\ calls'[c] = Idle
  BY IdleIs, PutMoves DEF AcquireRefused, TypeOK
<1>2. CallSound(c)' /\ Awaited(c)' /\ Shuts(c)'
  BY <1>1, IdleIs, PlainSound DEF Shuts
<1>. QED
  BY <1>1, <1>2, IdleIs, QuietStep
     DEF AcquireRefused, StaysOwner, Sound, Emptied, TypeOK, Openers, Owners

\* The first eviction of a call.
LEMMA BeginSound ==
  ASSUME TypeOK, Sound, NEW c \in Callers, NEW job \in {"evict", "idle"}, NEW ps \in SUBSET Profiles,
         Begin(c, job, ps), UNCHANGED <<entries, entry, closed, drained>>
  PROVE  TypeOK' /\ Sound'
<1>1. PICK p \in ps :
        calls' = [calls EXCEPT ![c] = [Idle EXCEPT !.pc = "evict", !.job = job, !.profile = p,
                                                   !.todo = ps \ {p}]]
  BY DEF Begin
<1> DEFINE r == [Idle EXCEPT !.pc = "evict", !.job = job, !.profile = p, !.todo = ps \ {p}]
<1>2. r \in CallStates /\ r.pc = "evict" /\ r.profile = p /\ r.entry = NoEntry /\ r.job = job
  BY DEF Idle, CallStates, EvictorStates
<1>. HIDE DEF r
<1>3. Moves(c) /\ calls'[c] = r
  BY <1>1, <1>2, PutMoves DEF TypeOK, r
<1>4. CallSound(c)' /\ Awaited(c)' /\ Shuts(c)'
  BY <1>2, <1>3, PlainSound DEF Shuts
<1>. QED
  BY <1>2, <1>3, <1>4, QuietStep
     DEF Begin, StaysOwner, Sound, Emptied, TypeOK, Openers, Owners

LEMMA CloseSound ==
  ASSUME TypeOK, Sound, NEW c \in Callers, Close(c)
  PROVE  TypeOK' /\ Sound'
<1> DEFINE ps == {p \in Profiles : entries[p] # NoEntry}
<1>1. /\ calls[c].pc = "idle" /\ ~closed /\ closed' = TRUE /\ drained' = (ps = {})
      /\ UNCHANGED <<entries, entry>>
  BY DEF Close
<1>2. Emptied'
  BY <1>1 DEF Emptied
<1>3. ASSUME NEW r \in CallStates, r.pc \in {"idle", "evict"}, r.entry = NoEntry,
             r.pc = "idle" \/ (r.profile \in ps /\ r.todo = ps \ {r.profile}),
             calls' = Signal([calls EXCEPT ![c] = r])
      PROVE  TypeOK' /\ Sound'
  <2>1. Moves(c) /\ calls'[c] = r
    BY <1>3, SignalMoves DEF TypeOK
  <2>2. CallSound(c)' /\ Awaited(c)' /\ Shuts(c)'
    BY <1>1, <1>3, <2>1, PlainSound DEF Shuts
  <2>. QED
    BY <1>1, <1>2, <1>3, <2>1, <2>2, QuietStep DEF StaysOwner, Openers, Owners
<1>4. CASE calls' = Signal(calls)
  <2>1. calls = [calls EXCEPT ![c] = calls[c]] /\ calls[c] \in CallStates
    BY DEF TypeOK
  <2>2. calls[c].entry = NoEntry
    BY <1>1 DEF Sound, CallSound, Knows
  <2>. QED
    BY <1>1, <1>3, <1>4, <2>1, <2>2
<1>5. ASSUME NEW p \in ps,
             calls' = Signal([calls EXCEPT ![c] = [Idle EXCEPT !.pc = "evict", !.job = "close",
                                                    !.profile = p, !.todo = ps \ {p}]])
      PROVE  TypeOK' /\ Sound'
  <2> DEFINE r == [Idle EXCEPT !.pc = "evict", !.job = "close", !.profile = p, !.todo = ps \ {p}]
  <2>1. /\ r \in CallStates /\ r.pc = "evict" /\ r.entry = NoEntry /\ r.profile = p
        /\ r.todo = ps \ {p}
    BY DEF Idle, CallStates, EvictorStates
  <2>. HIDE DEF r
  <2>2. calls' = Signal([calls EXCEPT ![c] = r])
    BY <1>5 DEF r
  <2>. HIDE DEF ps
  <2>. QED
    BY <1>3, <2>1, <2>2
<1>. QED
  BY <1>4, <1>5 DEF Close

\* An eviction that returns leaves its profile empty, and goes on with the others.
LEMMA ReturnShuts ==
  ASSUME TypeOK, NEW c \in Callers, Shuts(c), calls[c].pc # "idle", closed' = closed,
         calls'[c] = Returned(calls[c]), \A p \in Profiles : entries'[p] \in {entries[p], NoEntry},
         calls[c].job = "close" => entries'[calls[c].profile] = NoEntry
  PROVE  /\ Shuts(c)'
         /\ Finishes(calls[c]) => closed' /\ \A p \in Profiles : entries'[p] = NoEntry
<1>1. calls[c] \in CallStates
  BY DEF TypeOK
<1>2. CASE calls[c].todo = {}
  <2>1. calls'[c].pc = "idle"
    BY <1>1, <1>2, ReturnedIs
  <2>. QED
    BY <1>2, <2>1 DEF Shuts, Finishes
<1>3. CASE calls[c].todo # {}
  <2>1. /\ calls'[c].entry = NoEntry /\ calls'[c].job = calls[c].job
        /\ calls'[c].failed = calls[c].failed
        /\ calls'[c].todo \cup {calls'[c].profile} = calls[c].todo
    BY <1>1, <1>3, ReturnedIs
  <2>. QED
    BY <1>3, <2>1 DEF Shuts, Finishes
<1>. QED
  BY <1>2, <1>3

LEMMA ReturnedSound ==
  ASSUME NEW c \in Callers, NEW x \in CallStates, calls'[c] = Returned(x)
  PROVE  CallSound(c)' /\ Awaited(c)' /\ calls'[c].pc \in {"idle", "evict"}
<1>1. /\ calls'[c].pc \in {"idle", "evict"} /\ calls'[c].entry = NoEntry
      /\ calls'[c].pc # "idle" => calls'[c].profile \in Profiles
  BY ReturnedIs DEF CallStates
<1>. QED
  BY <1>1, PlainSound

\* An eviction that found its profile empty, or one that interrupts itself, returns.
LEMMA QuietReturn ==
  ASSUME TypeOK, Sound, NEW c \in Callers, UNCHANGED <<entries, entry, closed>>,
         calls[c].pc \in EvictorStates, drained' = (drained \/ Finishes(calls[c])), Moves(c),
         calls'[c] = Returned(calls[c]), entries[calls[c].profile] # calls[c].entry \/ calls[c].pc = "evict",
         calls[c].pc = "evict" => entries[calls[c].profile] = NoEntry,
         calls[c].pc \in Owners =>
           \A d \in Callers : calls'[d].pc = "waiting" => calls'[d].entry # calls[c].entry
  PROVE  TypeOK' /\ Sound'
<1>1. calls[c] \in CallStates /\ calls[c].pc # "idle" /\ calls[c].pc # "leased"
  BY DEF TypeOK, EvictorStates
<1>2. CallSound(c)' /\ Awaited(c)' /\ calls'[c].pc \in {"idle", "evict"}
  BY <1>1, ReturnedSound
<1>3. calls[c].job = "close" => entries[calls[c].profile] = NoEntry
  <2>1. CASE calls[c].pc = "evict"
    BY <2>1
  <2>2. CASE calls[c].pc # "evict"
    <3>1. calls[c].entry # NoEntry /\ entries[calls[c].profile] # calls[c].entry
      BY <2>2 DEF Sound, CallSound, Knows, EvictorStates
    <3>. QED
      BY <1>1, <3>1 DEF Sound, Shuts
  <2>. QED
    BY <2>1, <2>2
<1>4. /\ Shuts(c)'
      /\ Finishes(calls[c]) => closed' /\ \A p \in Profiles : entries'[p] = NoEntry
  BY <1>1, <1>3, ReturnShuts DEF Sound
<1>5. Emptied' /\ drained' \in BOOLEAN
  BY <1>4 DEF Sound, Emptied, Finishes, TypeOK
<1>6. calls[c].pc \in Owners => Removed(c)
  BY DEF Removed, Owners
<1>. QED
  BY <1>1, <1>2, <1>4, <1>5, <1>6, QuietStep DEF StaysOwner, TypeOK, Openers, Owners

LEMMA EvictNothingSound ==
  ASSUME TypeOK, Sound, NEW c \in Callers, EvictNothing(c)
  PROVE  TypeOK' /\ Sound'
<1>1. calls[c] \in CallStates
  BY DEF TypeOK
<1>2. Moves(c) /\ calls'[c] = Returned(calls[c])
  BY <1>1, ReturnedIs, PutMoves DEF EvictNothing, Return, TypeOK
<1>. QED
  BY <1>2, QuietReturn DEF EvictNothing, EvictorStates, Owners

LEMMA WaiterReturnsSound ==
  ASSUME TypeOK, Sound, NEW c \in Callers, WaiterReturns(c)
  PROVE  TypeOK' /\ Sound'
<1>1. calls[c] \in CallStates
  BY DEF TypeOK
<1>2. Moves(c) /\ calls'[c] = Returned(calls[c])
  BY <1>1, ReturnedIs, PutMoves DEF WaiterReturns, Return, TypeOK
<1>. QED
  BY <1>2, QuietReturn DEF WaiterReturns, EvictorStates, Owners

LEMMA OwnerFindsRemovedSound ==
  ASSUME TypeOK, Sound, NEW c \in Callers, OwnerFindsRemoved(c)
  PROVE  TypeOK' /\ Sound'
<1>1. calls[c] \in CallStates /\ calls[c].pc # "waiting" /\ calls = [calls EXCEPT ![c] = calls[c]]
  BY DEF TypeOK, OwnerFindsRemoved
<1>2. /\ Moves(c) /\ calls'[c] = Returned(calls[c])
      /\ \A d \in Callers : calls'[d].pc = "waiting" => calls'[d].entry # calls[c].entry
  BY <1>1, LetsGo DEF OwnerFindsRemoved, TypeOK
<1>. QED
  BY <1>2, QuietReturn DEF OwnerFindsRemoved, EvictorStates, Owners, Removed

LEMMA EvictWaitsSound ==
  ASSUME TypeOK, Sound, NEW c \in Callers, EvictWaits(c)
  PROVE  TypeOK' /\ Sound'
<1> DEFINE e == entries[calls[c].profile]
           r == [calls[c] EXCEPT !.pc = "waiting", !.entry = e]
<1>1. /\ calls[c].pc = "evict" /\ calls[c].profile \in Profiles /\ e \in Entries
      /\ entry[e].evicting /\ UNCHANGED <<entries, entry, closed, drained>>
  BY DEF TypeOK, EvictWaits, Owned, Sound, CallSound, Knows
<1>2. /\ r \in CallStates /\ r.pc = "waiting" /\ r.entry = e /\ SameCall(calls[c], r)
  BY <1>1 DEF TypeOK, CallStates, EvictorStates, SameCall
<1>. HIDE DEF r
<1>3. calls' = [calls EXCEPT ![c] = r]
  BY DEF EvictWaits, TypeOK, r
<1>4. Moves(c) /\ calls'[c] = r
  BY <1>2, <1>3, PutMoves DEF TypeOK
<1>5. Knows(c)'
  BY <1>1, <1>2, <1>4, ProfilePoolAssumption DEF Knows, Sound, Separate, SameCall
<1>6. CallSound(c)'
  BY <1>2, <1>4, <1>5 DEF CallSound, Opener, Lessee, Owner, Openers, Owners
<1>7. Awaited(c)'
  <2>1. PICK d \in Callers : calls[d].pc \in Owners /\ calls[d].entry = e
    BY <1>1 DEF Sound, Placed, InTable
  <2>2. calls'[d].pc \in Owners /\ calls'[d].entry = e
    BY <1>1, <1>4, <2>1, RolesKept DEF Moves, Owners
  <2>. QED
    BY <1>2, <1>4, <2>2 DEF Awaited
<1>8. Shuts(c)'
  BY <1>1, <1>2, <1>4 DEF Sound, Shuts, SameCall
<1>. QED
  BY <1>1, <1>2, <1>4, <1>6, <1>7, <1>8, QuietStep
     DEF StaysOwner, TypeOK, Openers, Owners, Sound, Emptied

LEMMA WaiterRetriesSound ==
  ASSUME TypeOK, Sound, NEW c \in Callers, WaiterRetries(c)
  PROVE  TypeOK' /\ Sound'
<1> DEFINE r == [calls[c] EXCEPT !.pc = "evict", !.entry = NoEntry]
<1>1. calls[c].pc = "woken" /\ UNCHANGED <<entries, entry, closed, drained>>
  BY DEF WaiterRetries
<1>2. r \in CallStates /\ r.pc = "evict" /\ r.entry = NoEntry /\ SameCall(calls[c], r)
  BY DEF TypeOK, CallStates, EvictorStates, SameCall
<1>. HIDE DEF r
<1>3. calls' = [calls EXCEPT ![c] = r]
  BY DEF WaiterRetries, TypeOK, r
<1>4. Moves(c) /\ calls'[c] = r
  BY <1>2, <1>3, PutMoves DEF TypeOK
<1>5. CallSound(c)' /\ Awaited(c)'
  BY <1>1, <1>2, <1>4, PlainSound DEF Sound, CallSound, Knows, SameCall
<1>6. Shuts(c)'
  BY <1>1, <1>2, <1>4 DEF Sound, Shuts, SameCall
<1>. QED
  BY <1>1, <1>2, <1>4, <1>5, <1>6, QuietStep
     DEF StaysOwner, TypeOK, Openers, Owners, Sound, Emptied

\* An owner that closes, sleeps or is told that its context has ended keeps its entry.
LEMMA OwnerGoesOn ==
  ASSUME TypeOK, Sound, NEW c \in Callers, UNCHANGED <<entries, entry, closed, drained>>,
         calls[c].pc \in Owners, NEW r \in CallStates, r.pc \in Owners, r.entry = calls[c].entry,
         SameCall(calls[c], r), calls' = [calls EXCEPT ![c] = r],
         r.pc \in {"asleep", "closing"} => ~Removed(c),
         r.pc = "asleep" => ~Closable(calls[c].entry),
         r.pc = "closing" => Closable(calls[c].entry)
  PROVE  TypeOK' /\ Sound'
<1>1. Moves(c) /\ calls'[c] = r
  BY PutMoves DEF TypeOK
<1>2. Removed(c)' = Removed(c) /\ Closable(calls[c].entry)' = Closable(calls[c].entry)
  BY <1>1 DEF Removed, Closable, SameCall
<1>3. Knows(c)'
  BY <1>1 DEF Sound, CallSound, Knows, SameCall, Owners
<1>4. Owner(c)'
  BY <1>1, <1>2 DEF Sound, CallSound, Owner, Removed, Closable, SameCall
<1>5. CallSound(c)' /\ Awaited(c)'
  BY <1>1, <1>3, <1>4 DEF CallSound, Opener, Lessee, Awaited, Openers, Owners
<1>6. Shuts(c)'
  BY <1>1 DEF Sound, Shuts, SameCall, Owners
<1>. QED
  BY <1>1, <1>5, <1>6, QuietStep DEF StaysOwner, TypeOK, Openers, Owners, Sound, Emptied

LEMMA OwnerClosesSound ==
  ASSUME TypeOK, Sound, NEW c \in Callers, OwnerCloses(c)
  PROVE  TypeOK' /\ Sound'
<1> DEFINE r == [calls[c] EXCEPT !.pc = "closing"]
<1>1. r \in CallStates /\ r.pc = "closing" /\ r.entry = calls[c].entry /\ SameCall(calls[c], r)
  BY DEF TypeOK, CallStates, EvictorStates, SameCall
<1>. HIDE DEF r
<1>2. calls' = [calls EXCEPT ![c] = r]
  BY DEF OwnerCloses, TypeOK, r
<1>. QED
  BY <1>1, <1>2, OwnerGoesOn DEF OwnerCloses, Owners

LEMMA OwnerSleepsSound ==
  ASSUME TypeOK, Sound, NEW c \in Callers, OwnerSleeps(c)
  PROVE  TypeOK' /\ Sound'
<1> DEFINE r == [calls[c] EXCEPT !.pc = "asleep"]
<1>1. r \in CallStates /\ r.pc = "asleep" /\ r.entry = calls[c].entry /\ SameCall(calls[c], r)
  BY DEF TypeOK, CallStates, EvictorStates, SameCall
<1>. HIDE DEF r
<1>2. calls' = [calls EXCEPT ![c] = r]
  BY DEF OwnerSleeps, TypeOK, r
<1>. QED
  BY <1>1, <1>2, OwnerGoesOn DEF OwnerSleeps, Owners

LEMMA ContextEndsSound ==
  ASSUME TypeOK, Sound, NEW c \in Callers, ContextEnds(c)
  PROVE  TypeOK' /\ Sound'
<1> DEFINE r == [calls[c] EXCEPT !.ended = TRUE, !.pc = IF @ = "asleep" THEN "owner" ELSE @]
<1>1. r \in CallStates /\ r.pc = "owner" /\ r.entry = calls[c].entry /\ SameCall(calls[c], r)
  BY DEF TypeOK, CallStates, EvictorStates, SameCall, ContextEnds
<1>. HIDE DEF r
<1>2. calls' = [calls EXCEPT ![c] = r]
  BY DEF ContextEnds, TypeOK, r
<1>. QED
  BY <1>1, <1>2, OwnerGoesOn DEF ContextEnds, Owners

LEMMA WaitInterruptedSound ==
  ASSUME TypeOK, Sound, NEW c \in Callers, WaitInterrupted(c)
  PROVE  TypeOK' /\ Sound'
<1>1. UNCHANGED <<entries, entry, closed, drained>> /\ calls[c].pc \in {"awaiting", "waiting", "woken"}
  BY DEF WaitInterrupted
<1>2. ASSUME Moves(c), CallSound(c)', Awaited(c)', Shuts(c)', calls'[c].pc \in {"idle", "evict"}
      PROVE  TypeOK' /\ Sound'
  BY <1>1, <1>2, QuietStep DEF StaysOwner, TypeOK, Openers, Owners, Sound, Emptied
<1>3. CASE calls' = [calls EXCEPT ![c] = Idle]
  <2>1. Moves(c) /\ calls'[c] = Idle
    BY <1>3, IdleIs, PutMoves DEF TypeOK
  <2>. QED
    BY <1>2, <2>1, IdleIs, PlainSound DEF Shuts
<1>4. CASE calls' = Return(c, [calls EXCEPT ![c].failed = TRUE, ![c].ended = TRUE])
  <2> DEFINE r == [calls[c] EXCEPT !.failed = TRUE, !.ended = TRUE]
  <2>1. /\ r \in CallStates /\ r.failed = TRUE /\ r.todo = calls[c].todo /\ r.job = calls[c].job
    BY DEF TypeOK, CallStates
  <2>2. calls' = [calls EXCEPT ![c] = Returned(r)]
    BY <1>4 DEF Return, TypeOK
  <2>. HIDE DEF r
  <2>3. Moves(c) /\ calls'[c] = Returned(r)
    BY <2>1, <2>2, ReturnedIs, PutMoves DEF TypeOK
  <2>4. Shuts(c)'
    <3>1. CASE r.todo = {}
      BY <2>1, <2>3, <3>1, ReturnedIs DEF Shuts
    <3>2. CASE r.todo # {}
      BY <1>1, <2>1, <2>3, <3>2, ReturnedIs DEF Sound, Shuts
    <3>. QED
      BY <3>1, <3>2
  <2>. QED
    BY <1>2, <2>1, <2>3, <2>4, ReturnedSound
<1>. QED
  BY <1>3, <1>4 DEF WaitInterrupted

--------------------------------------------------------------------------------
(* Steps that change one entry or its place.                                 *)

\* The step keeps the place of the entry.
SamePlace(e) == \A p \in Profiles : entries'[p] = e <=> entries[p] = e

\* What a change of an entry may do to the other calls that refer to it.
Spare(d, e) ==
  /\ calls[d].pc \in Openers \cup {"leased"} =>
       /\ SamePlace(e)
       /\ entry'[e].opening = entry[e].opening /\ entry'[e].service = entry[e].service
  /\ calls[d].pc \in Owners => (entry[e].evicting => entry'[e].evicting) \/ ~InTable(e)'
  /\ calls[d].pc = "closing" \/ calls'[d].pc = "asleep" =>
       /\ SamePlace(e)
       /\ entry'[e].opening = entry[e].opening /\ entry'[e].refs = entry[e].refs

LEMMA TouchedCall ==
  ASSUME TypeOK, NEW c \in Callers, Moves(c), NEW d \in Callers \ {c}, CallSound(d),
         NEW e \in Entries, calls[d].entry = e, Spare(d, e),
         \A p \in Profiles : entries'[p] \in {entries[p], NoEntry}
  PROVE  CallSound(d)'
<1>1. calls[d] \in CallStates /\ Woken(calls[d], calls'[d])
  BY DEF TypeOK, Moves
<1>2. calls[d].pc \notin {"idle", "acquire", "evict"} /\ calls[d].profile \in Profiles
  BY <1>1, ProfilePoolAssumption DEF CallSound, Knows
<1>3. /\ calls'[d].entry \in {e, NoEntry} /\ calls'[d].profile = calls[d].profile
      /\ calls'[d].pc \in {"idle", "acquire", "evict"} <=> calls'[d].entry = NoEntry
      /\ calls'[d].pc \in Openers \cup {"leased", "closing", "asleep"} => calls'[d] = calls[d]
      /\ calls'[d].pc \in Owners => calls[d].pc \in Owners /\ calls'[d].entry = e
  BY <1>1, <1>2, ProfilePoolAssumption DEF Woken, SameCall, Openers, Owners
<1>4. Knows(d)'
  BY <1>2, <1>3, ProfilePoolAssumption DEF CallSound, Knows
<1>5. Opener(d)' /\ Lessee(d)'
  BY <1>2, <1>3 DEF CallSound, Opener, Lessee, Spare, SamePlace, Openers
<1>6. ASSUME calls'[d].pc \in Owners, ~Removed(d)' PROVE entry'[e].evicting
  <2>1. calls[d].pc \in Owners /\ entries'[calls[d].profile] = e
    BY <1>3, <1>6 DEF Removed
  <2>2. InTable(e)' /\ ~Removed(d)
    BY <1>2, <2>1, ProfilePoolAssumption DEF InTable, Removed
  <2>. QED
    BY <2>1, <2>2 DEF CallSound, Owner, Spare
<1>7. ASSUME calls'[d].pc \in {"asleep", "closing"}
      PROVE  Removed(d)' = Removed(d) /\ Closable(e)' = Closable(e) /\ calls'[d] = calls[d]
  BY <1>2, <1>3, <1>7 DEF Removed, Closable, Spare, SamePlace
<1>8. Owner(d)'
  BY <1>3, <1>6, <1>7 DEF CallSound, Owner, Closable, Owners
<1>. QED
  BY <1>4, <1>5, <1>8 DEF CallSound

LEMMA EntryStep ==
  ASSUME TypeOK, Sound, NEW c \in Callers, NEW e \in Entries, Moves(c),
         UNCHANGED closed, drained' \in BOOLEAN, Emptied',
         entries' \in [Profiles -> Entries \cup {NoEntry}], entry' \in [Entries -> EntryStates],
         \A x \in Entries \ {e} : entry'[x] = entry[x],
         \A p \in Profiles : entries'[p] = entries[p] \/ {entries[p], entries'[p]} \subseteq {e, NoEntry},
         \/ \A p \in Profiles : entries'[p] \in {entries[p], NoEntry}
         \/ ~closed /\ Separate',
         entry'[e].refs = Cardinality(Leases(e)'),
         calls[c].entry \in {e, NoEntry}, calls'[c].entry \in {e, NoEntry},
         CallSound(c)', Awaited(c)', Shuts(c)', Placed(e)',
         \A d \in Callers \ {c} : calls[d].entry = e => CallSound(d)',
         calls'[c].pc \in Openers => Alone(c, Openers, calls'[c].entry),
         calls'[c].pc \in Owners => Alone(c, Owners, calls'[c].entry),
         \/ StaysOwner(c)
         \/ \A d \in Callers : calls'[d].pc = "waiting" => calls'[d].entry # calls[c].entry
  PROVE  TypeOK' /\ Sound'
<1>1. \A x \in Entries \ {e} : Spared(x)
  BY ProfilePoolAssumption DEF Spared
<1>2. calls[c].pc = "leased" => calls[c].entry = e
  BY DEF Sound, CallSound, Knows
<1>3. calls'[c].pc = "leased" => calls'[c].entry = e
  BY DEF CallSound, Knows
<1>4. TypeOK'
  <2>1. \A x \in Entries \ {e} : Leases(x)' = Leases(x)
    BY <1>2, <1>3, LeasesKept
  <2>2. \A x \in Entries : entry'[x].refs = Cardinality(Leases(x)')
    BY <2>1 DEF TypeOK
  <2>. QED
    BY <2>2 DEF TypeOK, Moves
<1>5. \A d \in Callers \ {c} : CallSound(d)'
  <2> SUFFICES ASSUME NEW d \in Callers \ {c}, calls[d].entry # e PROVE CallSound(d)'
    OBVIOUS
  <2>1. calls[d].entry # NoEntry => Spared(calls[d].entry)
    BY <1>1 DEF TypeOK, CallStates
  <2>. QED
    BY <2>1, SparedCall DEF Sound
<1>6. \A d \in Callers : Awaited(d)'
  BY AwaitedKept DEF Sound
<1>7. \A d \in Callers \ {c} : Shuts(d)'
  <2> SUFFICES ASSUME NEW d \in Callers \ {c} PROVE Shuts(d)'
    OBVIOUS
  <2>1. CASE \A p \in Profiles : entries'[p] \in {entries[p], NoEntry}
    BY <2>1, ShutsKept DEF Sound, CallSound
  <2>2. CASE ~closed
    <3>1. ~(calls[d].job = "close" /\ calls[d].pc # "idle")
      BY <2>2 DEF Sound, Shuts
    <3>2. Woken(calls[d], calls'[d])
      BY DEF Moves
    <3>3. ~(calls'[d].job = "close" /\ calls'[d].pc # "idle")
      BY <3>1, <3>2 DEF Woken, SameCall
    <3>. QED
      BY <3>3 DEF Shuts
  <2>. QED
    BY <2>1, <2>2
<1>8. \A x \in Entries : Placed(x)'
  <2>1. ASSUME NEW x \in Entries \ {e} PROVE Placed(x)'
    <3>1. calls[c].entry # x
      BY ProfilePoolAssumption
    <3>. QED
      BY <1>1, <3>1, SparedPlaced DEF Sound
  <2>. QED
    BY <2>1
<1>9. Single'
  BY SingleKept DEF Sound
<1>10. Separate'
  BY DEF Sound, Separate
<1>. QED
  BY <1>4, <1>5, <1>6, <1>7, <1>8, <1>9, <1>10 DEF Sound

LEMMA LeasesFinite == ASSUME NEW e PROVE IsFiniteSet(Leases(e))
  BY ProfilePoolAssumption, FS_Subset DEF Leases

LEMMA AcquireNewSound ==
  ASSUME TypeOK, Sound, NEW c \in Callers, NEW p \in Profiles, AcquireNew(c, p)
  PROVE  TypeOK' /\ Sound'
<1>1. PICK e \in Entries :
        /\ \A q \in Profiles : entries[q] # e
        /\ \A d \in Callers : calls[d].entry # e
        /\ entries' = [entries EXCEPT ![p] = e] /\ entry' = [entry EXCEPT ![e] = NewEntry]
        /\ calls' = Signal([calls EXCEPT ![c] = [Idle EXCEPT !.pc = "opening", !.profile = p,
                                                              !.entry = e]])
  BY DEF AcquireNew, Free
<1> DEFINE r == [Idle EXCEPT !.pc = "opening", !.profile = p, !.entry = e]
<1>2. ~closed /\ entries[p] = NoEntry /\ UNCHANGED <<closed, drained>>
  BY DEF AcquireNew
<1>3. r \in CallStates /\ r.pc = "opening" /\ r.profile = p /\ r.entry = e /\ r.job = "none"
  BY <1>1 DEF Idle, CallStates
<1>. HIDE DEF r
<1>4. Moves(c) /\ calls'[c] = r
  BY <1>1, <1>3, SignalMoves DEF TypeOK, r
<1>5. /\ NewEntry \in EntryStates /\ NewEntry.opening /\ ~NewEntry.evicting /\ NewEntry.refs = 0
      /\ NewEntry.service = "shut"
  BY DEF NewEntry, EntryStates
<1>6. /\ entries' \in [Profiles -> Entries \cup {NoEntry}] /\ entry' \in [Entries -> EntryStates]
      /\ entry'[e] = NewEntry /\ entries'[p] = e /\ \A q \in Profiles \ {p} : entries'[q] = entries[q]
      /\ \A x \in Entries \ {e} : entry'[x] = entry[x]
  BY <1>1, <1>5 DEF TypeOK
<1>7. (\A q \in Profiles : entries[q] # e) /\ \A d \in Callers : calls[d].entry # e
  BY <1>1
<1>8. entry'[e].refs = Cardinality(Leases(e)')
  <2>1. \A d \in Callers \ {c} : ~(calls'[d].pc = "leased" /\ calls'[d].entry = e)
    BY <1>7, <1>4, RolesKept DEF Moves
  <2>2. Leases(e)' = {}
    BY <1>3, <1>4, <2>1 DEF Leases
  <2>. QED
    BY <1>5, <1>6, <2>2, FS_EmptySet
<1>9. Separate'
  BY <1>1, <1>6 DEF Separate, Sound
<1>10. Knows(c)'
  BY <1>3, <1>4, <1>6, <1>7, ProfilePoolAssumption DEF Knows
<1>11. CallSound(c)' /\ Awaited(c)' /\ Shuts(c)'
  BY <1>3, <1>4, <1>5, <1>6, <1>10
     DEF CallSound, Opener, Lessee, Owner, Awaited, Shuts, Openers, Owners
<1>12. Placed(e)'
  BY <1>5, <1>6 DEF Placed
<1>13. Emptied'
  BY <1>2 DEF Sound, Emptied
<1>14. calls[c].entry = NoEntry /\ StaysOwner(c)
  BY DEF AcquireNew, Calling, Sound, CallSound, Knows, StaysOwner, Owners
<1>15. Alone(c, Openers, calls'[c].entry) /\ Alone(c, Owners, calls'[c].entry)
  BY <1>1, <1>3, <1>4 DEF Alone
<1>16. \A q \in Profiles : entries'[q] = entries[q] \/ {entries[q], entries'[q]} \subseteq {e, NoEntry}
  BY <1>2, <1>6
<1>17. calls'[c].entry \in {e, NoEntry} /\ drained' \in BOOLEAN
  BY <1>2, <1>3, <1>4 DEF TypeOK
<1>. QED
  BY <1>1, <1>2, <1>4, <1>6, <1>8, <1>9, <1>11, <1>12, <1>13, <1>14, <1>15, <1>16, <1>17, EntryStep

LEMMA AcquireOpenedSound ==
  ASSUME TypeOK, Sound, NEW c \in Callers, NEW p \in Profiles, AcquireOpened(c, p)
  PROVE  TypeOK' /\ Sound'
<1> DEFINE e == entries[p]
           r == [Idle EXCEPT !.pc = "leased", !.profile = p, !.entry = e]
<1>1. /\ e \in Entries /\ ~entry[e].evicting /\ ~entry[e].opening
      /\ UNCHANGED <<entries, closed, drained>>
      /\ calls[c].pc \in {"idle", "acquire"}
  BY DEF TypeOK, AcquireOpened, Leasable, Calling
<1>2. r \in CallStates /\ r.pc = "leased" /\ r.profile = p /\ r.entry = e /\ r.job = "none"
  BY <1>1 DEF Idle, CallStates
<1>. HIDE DEF r
<1>3. calls' = Signal([calls EXCEPT ![c] = r])
  BY DEF AcquireOpened, r
<1>4. Moves(c) /\ calls'[c] = r /\ Stirred
  BY <1>2, <1>3, SignalMoves DEF TypeOK
<1>5. /\ entry' \in [Entries -> EntryStates] /\ \A x \in Entries \ {e} : entry'[x] = entry[x]
      /\ entry'[e].opening = entry[e].opening /\ entry'[e].evicting = entry[e].evicting
      /\ entry'[e].service = entry[e].service /\ entry'[e].refs = entry[e].refs + 1
  BY <1>1 DEF AcquireOpened, TypeOK, EntryStates
<1>6. entry'[e].refs = Cardinality(Leases(e)')
  <2>1. Leases(e)' = Leases(e) \cup {c} /\ c \notin Leases(e)
    BY <1>1, <1>2, <1>4, LeaseBegun
  <2>2. IsFiniteSet(Leases(e)) /\ entry[e].refs = Cardinality(Leases(e))
    BY <1>1, LeasesFinite DEF TypeOK
  <2>3. Cardinality(Leases(e) \cup {c}) = Cardinality(Leases(e)) + 1
    BY <2>1, <2>2, FS_AddElement
  <2>. QED
    BY <1>5, <2>1, <2>2, <2>3
<1>7. Knows(c)'
  BY <1>1, <1>2, <1>4, ProfilePoolAssumption DEF Knows, Sound, Separate
<1>8. CallSound(c)' /\ Awaited(c)' /\ Shuts(c)'
  BY <1>1, <1>2, <1>4, <1>5, <1>7
     DEF CallSound, Opener, Lessee, Owner, Awaited, Shuts, Openers, Owners
<1>9. Placed(e)'
  BY <1>1, <1>5 DEF Sound, Placed, InTable
<1>10. ASSUME NEW d \in Callers \ {c}, calls[d].entry = e PROVE CallSound(d)'
  <2>1. calls[d].pc \notin Owners
    BY <1>1, <1>10, ProfilePoolAssumption DEF Sound, CallSound, Knows, Owner, Removed
  <2>2. calls'[d].pc \notin Owners
    BY <2>1, RolesKept, <1>4 DEF Moves
  <2>3. Spare(d, e)
    BY <1>1, <1>5, <2>1, <2>2 DEF Spare, SamePlace, Owners
  <2>. QED
    BY <1>1, <1>4, <1>10, <2>3, TouchedCall DEF Sound
<1>11. calls[c].entry = NoEntry /\ StaysOwner(c)
  BY <1>1 DEF Sound, CallSound, Knows, StaysOwner, Owners
<1>12. Emptied' /\ drained' \in BOOLEAN
  BY <1>1 DEF Sound, Emptied, TypeOK
<1>13. calls'[c].pc \notin Openers /\ calls'[c].pc \notin Owners /\ calls'[c].entry = e
  BY <1>2, <1>4 DEF Openers, Owners
<1>. QED
  BY <1>1, <1>4, <1>5, <1>6, <1>8, <1>9, <1>10, <1>11, <1>12, <1>13, EntryStep DEF TypeOK

LEMMA OpenSucceedsSound ==
  ASSUME TypeOK, Sound, NEW c \in Callers, OpenSucceeds(c)
  PROVE  TypeOK' /\ Sound'
<1>1. PICK e \in Entries : e = calls[c].entry
  BY DEF OpenSucceeds, Sound, CallSound, Knows, TypeOK, CallStates
<1> DEFINE r == [calls[c] EXCEPT !.pc = "opened"]
<1>2. calls[c].pc = "opening" /\ UNCHANGED <<entries, closed, drained>>
  BY DEF OpenSucceeds
<1>3. r \in CallStates /\ r.pc = "opened" /\ r.entry = e /\ SameCall(calls[c], r)
  BY <1>1 DEF TypeOK, CallStates, SameCall
<1>. HIDE DEF r
<1>4. calls' = [calls EXCEPT ![c] = r]
  BY DEF OpenSucceeds, TypeOK, r
<1>5. Moves(c) /\ calls'[c] = r
  BY <1>3, <1>4, PutMoves DEF TypeOK
<1>6. /\ entry' \in [Entries -> EntryStates] /\ \A x \in Entries \ {e} : entry'[x] = entry[x]
      /\ entry'[e].opening = entry[e].opening /\ entry'[e].evicting = entry[e].evicting
      /\ entry'[e].refs = entry[e].refs /\ entry'[e].service = "open"
  BY <1>1 DEF OpenSucceeds, TypeOK, EntryStates
<1>7. entry'[e].refs = Cardinality(Leases(e)')
  <2>1. Leases(e)' = Leases(e)
    BY <1>2, <1>3, <1>5, LeasesKept
  <2>. QED
    BY <1>6, <2>1 DEF TypeOK
<1>8. /\ calls[c].profile \in Profiles /\ entries[calls[c].profile] = e /\ entry[e].opening
      /\ Alone(c, Openers, e)
  BY <1>1, <1>2, AloneNow DEF Sound, CallSound, Opener, Knows, Openers
<1>9. Knows(c)' /\ Shuts(c)'
  BY <1>1, <1>2, <1>3, <1>5 DEF Sound, CallSound, Knows, Shuts, SameCall
<1>10. CallSound(c)' /\ Awaited(c)'
  BY <1>2, <1>3, <1>5, <1>6, <1>8, <1>9
     DEF CallSound, Opener, Lessee, Owner, Awaited, Openers, Owners, SameCall
<1>11. Placed(e)'
  <2>1. InTable(e)' /\ InTable(e)
    BY <1>2, <1>8 DEF InTable
  <2>2. entry[e].evicting =>
          \E d \in Callers : calls'[d].pc \in Owners /\ calls'[d].entry = e
    BY <1>2, <1>5, <2>1, RolesKept DEF Sound, Placed, Moves, Owners
  <2>. QED
    BY <1>6, <2>1, <2>2 DEF Placed
<1>12. ASSUME NEW d \in Callers \ {c}, calls[d].entry = e PROVE CallSound(d)'
  <2>1. calls[d].pc \notin Openers \cup {"leased"}
    BY <1>8, <1>12 DEF Alone, Sound, CallSound, Lessee
  <2>2. Spare(d, e)
    BY <1>2, <1>6, <2>1 DEF Spare, SamePlace, Owners
  <2>. QED
    BY <1>2, <1>5, <1>12, <2>2, TouchedCall DEF Sound
<1>13. calls'[c].pc \notin Owners /\ calls'[c].entry = e /\ StaysOwner(c)
  BY <1>2, <1>3, <1>5 DEF StaysOwner, Owners
<1>14. Emptied' /\ drained' \in BOOLEAN
  BY <1>2 DEF Sound, Emptied, TypeOK
<1>. QED
  BY <1>1, <1>2, <1>5, <1>6, <1>7, <1>8, <1>9, <1>10, <1>11, <1>12, <1>13, <1>14, EntryStep
     DEF TypeOK

\* An opener or an owner removes its entry, with its service shut, and leaves.
LEMMA RemovalSound ==
  ASSUME TypeOK, Sound, NEW c \in Callers, NEW e \in Entries, calls[c].entry = e, Moves(c), Stirred,
         calls[c].pc \in Openers \cup {"closing"}, calls'[c].pc \in {"idle", "evict"},
         entries' = [entries EXCEPT ![calls[c].profile] = NoEntry],
         entry' \in [Entries -> EntryStates], \A x \in Entries \ {e} : entry'[x] = entry[x],
         entry'[e].refs = entry[e].refs, entry'[e].service = "shut",
         UNCHANGED closed, drained' \in BOOLEAN, Emptied', CallSound(c)', Awaited(c)', Shuts(c)',
         calls[c].pc = "closing" =>
           \A d \in Callers : calls'[d].pc = "waiting" => calls'[d].entry # e
  PROVE  TypeOK' /\ Sound'
<1>1. /\ calls[c].profile \in Profiles /\ entries[calls[c].profile] = e
      /\ \A p \in Profiles : entries[p] = e => p = calls[c].profile
  BY ProfilePoolAssumption DEF Sound, CallSound, Knows, Opener, Owner, Removed, Openers, Owners
<1>2. /\ entries' \in [Profiles -> Entries \cup {NoEntry}]
      /\ \A p \in Profiles : entries'[p] \in {entries[p], NoEntry}
      /\ \A p \in Profiles : entries'[p] = entries[p] \/ {entries[p], entries'[p]} \subseteq {e, NoEntry}
  BY <1>1 DEF TypeOK
<1>3. ~InTable(e)'
  BY <1>1, ProfilePoolAssumption DEF InTable, TypeOK
<1>4. calls[c].pc # "leased" /\ calls'[c].pc # "leased" /\ calls'[c].entry = NoEntry
  BY DEF Openers, CallSound, Knows
<1>5. entry'[e].refs = Cardinality(Leases(e)')
  <2>1. Leases(e)' = Leases(e)
    BY <1>4, LeasesKept
  <2>. QED
    BY <2>1 DEF TypeOK
<1>6. Placed(e)'
  BY <1>3 DEF Placed
<1>7. ASSUME NEW d \in Callers \ {c}, calls[d].entry = e PROVE CallSound(d)'
  <2>1. calls[d].pc \notin Openers \cup {"leased", "closing"}
    <3>1. CASE calls[c].pc \in Openers
      <4>1. entry[e].opening
        BY <3>1 DEF Sound, CallSound, Opener
      <4>2. calls[d].pc \notin Openers
        BY <1>7, <3>1, AloneNow DEF Sound, Alone
      <4>. QED
        BY <1>7, <4>1, <4>2 DEF Sound, CallSound, Lessee, Owner, Closable
    <3>2. CASE calls[c].pc = "closing"
      <4>1. ~entry[e].opening /\ entry[e].refs = 0
        BY <3>2 DEF Sound, CallSound, Owner, Closable
      <4>2. Leases(e) = {}
        BY <4>1, LeasesFinite, FS_EmptySet DEF TypeOK
      <4>3. calls[d].pc # "leased"
        BY <1>7, <4>2 DEF Leases
      <4>4. calls[d].pc # "closing"
        BY <1>7, <3>2, AloneNow DEF Sound, Alone, Owners
      <4>. QED
        BY <1>7, <4>1, <4>3, <4>4 DEF Sound, CallSound, Opener
    <3>. QED
      BY <3>1, <3>2
  <2>2. Spare(d, e)
    BY <1>3, <2>1 DEF Spare, Stirred
  <2>. QED
    BY <1>2, <1>7, <2>2, TouchedCall DEF Sound
<1>8. StaysOwner(c) \/ \A d \in Callers : calls'[d].pc = "waiting" => calls'[d].entry # calls[c].entry
  BY DEF StaysOwner, Openers, Owners
<1>9. calls'[c].pc \notin Openers /\ calls'[c].pc \notin Owners
  BY DEF Openers, Owners
<1>. QED
  BY <1>2, <1>4, <1>5, <1>6, <1>7, <1>8, <1>9, EntryStep

\* What is left of an entry that nobody opens or evicts any more.
LEMMA GoneIs ==
  ASSUME TypeOK, NEW e \in Entries
  PROVE  /\ Gone(e) \in [Entries -> EntryStates] /\ \A x \in Entries \ {e} : Gone(e)[x] = entry[x]
         /\ Gone(e)[e].refs = entry[e].refs /\ Gone(e)[e].service = entry[e].service
  BY DEF TypeOK, Gone, EntryStates

LEMMA OpenFailsSound ==
  ASSUME TypeOK, Sound, NEW c \in Callers, OpenFails(c)
  PROVE  TypeOK' /\ Sound'
<1>1. PICK e \in Entries : e = calls[c].entry
  BY DEF OpenFails, Sound, CallSound, Knows, TypeOK, CallStates
<1>2. /\ calls[c].pc = "opening" /\ UNCHANGED <<closed, drained>>
      /\ entries' = [entries EXCEPT ![calls[c].profile] = NoEntry]
      /\ entry' = Gone(e) /\ calls' = Signal(Ready([calls EXCEPT ![c] = Idle], e))
  BY <1>1 DEF OpenFails
<1>3. Moves(c) /\ calls'[c] = Idle /\ Stirred
  BY <1>2, IdleIs, ReadyMoves DEF TypeOK
<1>4. /\ entry' \in [Entries -> EntryStates] /\ \A x \in Entries \ {e} : entry'[x] = entry[x]
      /\ entry'[e].refs = entry[e].refs /\ entry'[e].service = entry[e].service
  BY <1>2, GoneIs
<1>5. entry[e].service = "shut"
  BY <1>1, <1>2 DEF Sound, CallSound, Opener, Openers
<1>6. CallSound(c)' /\ Awaited(c)' /\ Shuts(c)'
  BY <1>3, IdleIs, PlainSound DEF Shuts
<1>7. Emptied' /\ drained' \in BOOLEAN
  BY <1>2 DEF Sound, Emptied, TypeOK
<1>. QED
  BY <1>1, <1>2, <1>3, <1>4, <1>5, <1>6, <1>7, IdleIs, RemovalSound DEF Openers

\* What closing an entry's service leaves of it.
LEMMA ShutIs ==
  ASSUME TypeOK, NEW e \in Entries, entry[e].service = "open", entry' = Shut(e)
  PROVE  /\ entry' \in [Entries -> EntryStates] /\ \A x \in Entries \ {e} : entry'[x] = entry[x]
         /\ entry'[e].refs = entry[e].refs /\ entry'[e].service = "shut"
<1> DEFINE g == Gone(e)
<1>1. /\ g \in [Entries -> EntryStates] /\ \A x \in Entries \ {e} : g[x] = entry[x]
      /\ g[e].refs = entry[e].refs /\ g[e].service = "open"
  BY GoneIs
<1>. HIDE DEF g
<1>2. entry' = [g EXCEPT ![e].service = "shut"]
  BY <1>1 DEF Shut, g
<1>. QED
  BY <1>1, <1>2 DEF EntryStates

LEMMA UnwindSound ==
  ASSUME TypeOK, Sound, NEW c \in Callers, Unwind(c)
  PROVE  TypeOK' /\ Sound'
<1>1. PICK e \in Entries : e = calls[c].entry
  BY DEF Unwind, Sound, CallSound, Knows, TypeOK, CallStates
<1>2. /\ calls[c].pc = "unwinding" /\ UNCHANGED <<closed, drained>>
      /\ entries' = [entries EXCEPT ![calls[c].profile] = NoEntry]
      /\ entry' = Shut(e) /\ calls' = Signal(Ready([calls EXCEPT ![c] = Idle], e))
  BY <1>1 DEF Unwind
<1>3. Moves(c) /\ calls'[c] = Idle /\ Stirred
  BY <1>2, IdleIs, ReadyMoves DEF TypeOK
<1>4. entry[e].service = "open"
  BY <1>1, <1>2 DEF Sound, CallSound, Opener, Openers
<1>5. /\ entry' \in [Entries -> EntryStates] /\ \A x \in Entries \ {e} : entry'[x] = entry[x]
      /\ entry'[e].refs = entry[e].refs /\ entry'[e].service = "shut"
  BY <1>2, <1>4, ShutIs
<1>6. CallSound(c)' /\ Awaited(c)' /\ Shuts(c)'
  BY <1>3, IdleIs, PlainSound DEF Shuts
<1>7. Emptied' /\ drained' \in BOOLEAN
  BY <1>2 DEF Sound, Emptied, TypeOK
<1>. QED
  BY <1>1, <1>2, <1>3, <1>5, <1>6, <1>7, IdleIs, RemovalSound DEF Openers

LEMMA CloseServiceSound ==
  ASSUME TypeOK, Sound, NEW c \in Callers, CloseService(c)
  PROVE  TypeOK' /\ Sound'
<1>1. PICK e \in Entries : e = calls[c].entry
  BY DEF CloseService, Sound, CallSound, Knows, TypeOK, CallStates
<1>2. /\ calls[c].pc = "closing" /\ UNCHANGED closed /\ drained' = (drained \/ Finishes(calls[c]))
      /\ entry' = Shut(e)
      /\ calls' = Signal(Return(c, Evicted([calls EXCEPT ![c] = calls[c]], e)))
  BY <1>1 DEF CloseService, TypeOK
<1>3. /\ entries[calls[c].profile] = e /\ ~entry[e].opening /\ calls[c].profile \in Profiles
      /\ entry[e].service = "open"
  BY <1>1, <1>2 DEF Sound, CallSound, Knows, Owner, Closable, Removed, Placed, InTable
<1>4. entries' = [entries EXCEPT ![calls[c].profile] = NoEntry]
  BY <1>1, <1>3 DEF CloseService
<1>5. /\ Moves(c) /\ calls'[c] = Returned(calls[c]) /\ Stirred
      /\ \A d \in Callers : calls'[d].pc = "waiting" => calls'[d].entry # e
  BY <1>2, LetsGo DEF TypeOK
<1>6. /\ entry' \in [Entries -> EntryStates] /\ \A x \in Entries \ {e} : entry'[x] = entry[x]
      /\ entry'[e].refs = entry[e].refs /\ entry'[e].service = "shut"
  BY <1>2, <1>3, ShutIs
<1>7. CallSound(c)' /\ Awaited(c)' /\ calls'[c].pc \in {"idle", "evict"}
  BY <1>5, ReturnedSound DEF TypeOK
<1>8. entries'[calls[c].profile] = NoEntry /\ \A p \in Profiles : entries'[p] \in {entries[p], NoEntry}
  BY <1>3, <1>4 DEF TypeOK
<1>9. /\ Shuts(c)'
      /\ Finishes(calls[c]) => closed' /\ \A p \in Profiles : entries'[p] = NoEntry
  BY <1>2, <1>5, <1>8, ReturnShuts DEF Sound
<1>10. Emptied' /\ drained' \in BOOLEAN
  BY <1>2, <1>8, <1>9 DEF Sound, Emptied, TypeOK, Finishes
<1>. QED
  BY <1>1, <1>2, <1>4, <1>5, <1>6, <1>7, <1>9, <1>10, RemovalSound

LEMMA EvictOwnsSound ==
  ASSUME TypeOK, Sound, NEW c \in Callers, EvictOwns(c)
  PROVE  TypeOK' /\ Sound'
<1>1. PICK e \in Entries : e = entries[calls[c].profile] /\ calls[c].profile \in Profiles
  BY DEF EvictOwns, Sound, CallSound, Knows, TypeOK
<1> DEFINE r == [calls[c] EXCEPT !.pc = "owner", !.entry = e]
<1>2. /\ calls[c].pc = "evict" /\ calls[c].entry = NoEntry /\ ~entry[e].evicting
      /\ UNCHANGED <<entries, closed, drained>>
  BY <1>1 DEF EvictOwns, Owned, Sound, CallSound, Knows
<1>3. r \in CallStates /\ r.pc = "owner" /\ r.entry = e /\ SameCall(calls[c], r)
  BY ZenonT(40), <1>1 DEF TypeOK, CallStates, EvictorStates, SameCall
<1>. HIDE DEF r
<1>4. calls' = Signal([calls EXCEPT ![c] = r])
  BY <1>1 DEF EvictOwns, TypeOK, r
<1>5. Moves(c) /\ calls'[c] = r /\ Stirred
  BY <1>3, <1>4, SignalMoves DEF TypeOK
<1>6. /\ entry' \in [Entries -> EntryStates] /\ \A x \in Entries \ {e} : entry'[x] = entry[x]
      /\ entry'[e].opening = entry[e].opening /\ entry'[e].evicting
      /\ entry'[e].refs = entry[e].refs /\ entry'[e].service = entry[e].service
  BY <1>1 DEF EvictOwns, TypeOK, EntryStates
<1>7. entry'[e].refs = Cardinality(Leases(e)')
  <2>1. Leases(e)' = Leases(e)
    BY <1>2, <1>3, <1>5, LeasesKept
  <2>. QED
    BY <1>6, <2>1 DEF TypeOK
<1>8. Knows(c)' /\ Shuts(c)'
  BY <1>1, <1>2, <1>3, <1>5, ProfilePoolAssumption
     DEF Sound, CallSound, Knows, Shuts, SameCall, Separate
<1>9. CallSound(c)' /\ Awaited(c)'
  BY <1>3, <1>5, <1>6, <1>8 DEF CallSound, Opener, Lessee, Owner, Awaited, Openers, Owners
<1>10. Placed(e)'
  BY <1>2, <1>3, <1>5, <1>6 DEF Sound, Placed, InTable, Owners
<1>11. ASSUME NEW d \in Callers \ {c}, calls[d].entry = e
       PROVE  CallSound(d)' /\ calls[d].pc \notin Owners
  <2>1. calls[d].pc \notin Owners
    BY <1>1, <1>2, <1>11, ProfilePoolAssumption DEF Sound, CallSound, Knows, Owner, Removed
  <2>2. Spare(d, e)
    BY <1>2, <1>5, <1>6, <2>1 DEF Spare, SamePlace, Owners, Stirred
  <2>. QED
    BY <1>2, <1>5, <1>11, <2>1, <2>2, TouchedCall DEF Sound
<1>12. Alone(c, Owners, e)
  BY <1>11 DEF Alone
<1>13. calls'[c].pc \notin Openers /\ calls'[c].entry = e /\ StaysOwner(c)
  BY <1>2, <1>3, <1>5 DEF StaysOwner, Openers, Owners
<1>14. Emptied' /\ drained' \in BOOLEAN
  BY <1>2 DEF Sound, Emptied, TypeOK
<1>. QED
  BY <1>1, <1>2, <1>5, <1>6, <1>7, <1>8, <1>9, <1>10, <1>11, <1>12, <1>13, <1>14, EntryStep
     DEF TypeOK

LEMMA InstallSound ==
  ASSUME TypeOK, Sound, NEW c \in Callers, Install(c)
  PROVE  TypeOK' /\ Sound'
<1>1. PICK e \in Entries : e = calls[c].entry
  BY DEF Install, Sound, CallSound, Knows, TypeOK, CallStates
<1>2. calls[c].pc = "opened" /\ UNCHANGED <<entries, closed, drained>>
  BY DEF Install
<1>3. /\ calls[c].profile \in Profiles /\ entries[calls[c].profile] = e /\ entry[e].opening
      /\ entry[e].service = "open" /\ Alone(c, Openers, e) /\ StaysOwner(c)
  BY <1>1, <1>2, AloneNow DEF Sound, CallSound, Opener, Knows, Openers, StaysOwner, Owners
<1>4. Emptied' /\ drained' \in BOOLEAN
  BY <1>2 DEF Sound, Emptied, TypeOK
<1>5. CASE calls' = [calls EXCEPT ![c].pc = "unwinding"] /\ UNCHANGED entry
  <2> DEFINE r == [calls[c] EXCEPT !.pc = "unwinding"]
  <2>1. r \in CallStates /\ r.pc = "unwinding" /\ r.entry = e /\ SameCall(calls[c], r)
    BY <1>1 DEF TypeOK, CallStates, SameCall
  <2>. HIDE DEF r
  <2>2. calls' = [calls EXCEPT ![c] = r]
    BY <1>5 DEF TypeOK, r
  <2>3. Moves(c) /\ calls'[c] = r
    BY <2>1, <2>2, PutMoves DEF TypeOK
  <2>4. Knows(c)' /\ Shuts(c)'
    BY <1>1, <1>2, <2>1, <2>3 DEF Sound, CallSound, Knows, Shuts, SameCall
  <2>5. CallSound(c)' /\ Awaited(c)'
    BY <1>2, <1>3, <1>5, <2>1, <2>3, <2>4
       DEF CallSound, Opener, Lessee, Owner, Awaited, Openers, Owners, SameCall
  <2>. QED
    BY <1>1, <1>2, <1>3, <1>4, <1>5, <2>1, <2>3, <2>4, <2>5, QuietStep
       DEF TypeOK, Openers, Owners
<1>6. CASE /\ entry' = [entry EXCEPT ![e].opening = FALSE, ![e].refs = 1]
           /\ calls' = Signal(Ready([calls EXCEPT ![c].pc = "leased"], e))
  <2> DEFINE r == [calls[c] EXCEPT !.pc = "leased"]
  <2>1. r \in CallStates /\ r.pc = "leased" /\ r.entry = e /\ SameCall(calls[c], r)
    BY <1>1 DEF TypeOK, CallStates, SameCall
  <2>. HIDE DEF r
  <2>2. calls' = Signal(Ready([calls EXCEPT ![c] = r], e))
    BY <1>6 DEF TypeOK, r
  <2>3. Moves(c) /\ calls'[c] = r /\ Stirred
    BY <2>1, <2>2, ReadyMoves DEF TypeOK
  <2>4. /\ entry' \in [Entries -> EntryStates] /\ \A x \in Entries \ {e} : entry'[x] = entry[x]
        /\ ~entry'[e].opening /\ entry'[e].evicting = entry[e].evicting
        /\ entry'[e].refs = 1 /\ entry'[e].service = "open"
    BY ZenonT(40), <1>3, <1>6 DEF TypeOK, EntryStates
  <2>5. entry'[e].refs = Cardinality(Leases(e)')
    <3>1. Leases(e) = {}
      BY <1>3 DEF Leases, Sound, CallSound, Lessee
    <3>2. Leases(e)' = {c}
      BY <1>2, <2>1, <2>3, <3>1, LeaseBegun
    <3>. QED
      BY <2>4, <3>2, FS_Singleton
  <2>6. Knows(c)' /\ Shuts(c)'
    BY <1>1, <1>2, <2>1, <2>3 DEF Sound, CallSound, Knows, Shuts, SameCall
  <2>7. CallSound(c)' /\ Awaited(c)'
    BY <1>2, <1>3, <2>1, <2>3, <2>4, <2>6
       DEF CallSound, Opener, Lessee, Owner, Awaited, Openers, Owners, SameCall
  <2>8. Placed(e)'
    <3>1. InTable(e)' /\ InTable(e)
      BY <1>2, <1>3 DEF InTable
    <3>2. entry[e].evicting =>
            \E d \in Callers : calls'[d].pc \in Owners /\ calls'[d].entry = e
      BY <1>2, <2>3, <3>1, RolesKept DEF Sound, Placed, Moves, Owners
    <3>. QED
      BY <2>4, <3>1, <3>2 DEF Placed
  <2>9. ASSUME NEW d \in Callers \ {c}, calls[d].entry = e PROVE CallSound(d)'
    <3>1. calls[d].pc \notin Openers \cup {"leased", "closing"}
      BY <1>3, <2>9 DEF Alone, Sound, CallSound, Lessee, Owner, Closable
    <3>2. Spare(d, e)
      BY <2>3, <2>4, <3>1 DEF Spare, Stirred
    <3>. QED
      BY <1>2, <2>3, <2>9, <3>2, TouchedCall DEF Sound
  <2>10. calls'[c].pc \notin Openers /\ calls'[c].pc \notin Owners /\ calls'[c].entry = e
    BY <2>1, <2>3 DEF Openers, Owners
  <2>. QED
    BY <1>1, <1>2, <1>3, <1>4, <2>3, <2>4, <2>5, <2>6, <2>7, <2>8, <2>9, <2>10, EntryStep
       DEF TypeOK
<1>. QED
  BY <1>1, <1>5, <1>6 DEF Install

LEMMA ReleaseSound ==
  ASSUME TypeOK, Sound, NEW c \in Callers, Release(c)
  PROVE  TypeOK' /\ Sound'
<1>1. PICK e \in Entries : e = calls[c].entry
  BY DEF Release, Sound, CallSound, Knows, TypeOK, CallStates
<1>2. calls[c].pc = "leased" /\ UNCHANGED <<entries, closed, drained>>
  BY DEF Release
<1>3. PICK r \in CallStates :
        /\ calls' = Signal([calls EXCEPT ![c] = r])
        /\ \/ ~LastRelease(e) /\ r = Idle
           \/ /\ LastRelease(e) /\ r.pc = "owner" /\ r.job = "release" /\ r.entry = e
              /\ r.profile = calls[c].profile
  <2> DEFINE o == [calls[c] EXCEPT !.pc = "owner", !.job = "release"]
  <2>1. /\ o \in CallStates /\ o.pc = "owner" /\ o.job = "release" /\ o.entry = e
        /\ o.profile = calls[c].profile
    BY ZenonT(40), <1>1 DEF TypeOK, CallStates, EvictorStates
  <2>2. calls' = Signal([calls EXCEPT ![c] = IF LastRelease(e) THEN o ELSE Idle])
    BY <1>1 DEF Release, TypeOK
  <2>. HIDE DEF o
  <2>. QED
    BY <2>1, <2>2, IdleIs
<1>4. Moves(c) /\ calls'[c] = r /\ Stirred
  BY <1>3, IdleIs, SignalMoves DEF TypeOK
<1>5. c \in Leases(e) /\ entry[e].refs \in Nat /\ entry[e].refs # 0
  <2>1. c \in Leases(e)
    BY <1>1, <1>2 DEF Leases
  <2>2. entry[e].refs = Cardinality(Leases(e)) /\ entry[e].refs \in Nat
    BY DEF TypeOK, EntryStates
  <2>3. IsFiniteSet(Leases(e)) /\ Leases(e) # {}
    BY <2>1, LeasesFinite
  <2>4. Cardinality(Leases(e)) # 0
    BY <2>3, FS_EmptySet
  <2>. QED
    BY <2>1, <2>2, <2>4
<1>6. /\ entry' \in [Entries -> EntryStates] /\ \A x \in Entries \ {e} : entry'[x] = entry[x]
      /\ entry'[e].opening = entry[e].opening /\ entry'[e].service = entry[e].service
      /\ entry'[e].evicting = (entry[e].evicting \/ LastRelease(e))
      /\ entry'[e].refs = entry[e].refs - 1
  <2>1. entry[e].refs - 1 \in Nat /\ (entry[e].evicting \/ LastRelease(e)) \in BOOLEAN
    BY <1>5 DEF TypeOK, EntryStates, LastRelease
  <2>2. PICK n \in Nat, b \in BOOLEAN :
          /\ n = entry[e].refs - 1 /\ b = (entry[e].evicting \/ LastRelease(e))
          /\ entry' = [entry EXCEPT ![e].refs = n, ![e].evicting = b]
    BY <1>1, <2>1 DEF Release
  <2>. QED
    BY <2>2 DEF TypeOK, EntryStates
<1>7. r.pc # "leased" /\ r.pc \in {"idle", "owner"}
  BY <1>3, IdleIs
<1>8. entry'[e].refs = Cardinality(Leases(e)')
  <2>1. Leases(e)' = Leases(e) \ {c}
    BY <1>1, <1>2, <1>4, <1>7, LeaseEnded
  <2>. QED
    BY <1>5, <1>6, <2>1, LeasesFinite, FS_RemoveElement DEF TypeOK
<1>9. /\ calls[c].profile \in Profiles /\ entries[calls[c].profile] = e /\ ~entry[e].opening
      /\ \A p \in Profiles : entries[p] = e => p = calls[c].profile
  BY <1>1, <1>2, ProfilePoolAssumption DEF Sound, CallSound, Knows, Lessee
<1>10. CallSound(c)' /\ Awaited(c)' /\ Shuts(c)'
  <2>1. CASE r = Idle
    BY <1>4, <2>1, IdleIs, PlainSound DEF Shuts
  <2>2. CASE LastRelease(e) /\ r.pc = "owner" /\ r.job = "release" /\ r.entry = e
             /\ r.profile = calls[c].profile
    BY <1>2, <1>4, <1>6, <1>9, <2>2, ProfilePoolAssumption
       DEF CallSound, Knows, Opener, Lessee, Owner, Awaited, Shuts, Openers, Owners
  <2>. QED
    BY <1>3, <2>1, <2>2
<1>11. ASSUME NEW d \in Callers \ {c}, calls[d].entry = e
       PROVE  CallSound(d)' /\ (LastRelease(e) => calls[d].pc \notin Owners)
  <2>1. calls[d].pc \in Owners => entry[e].evicting
    <3>1. CASE Removed(d)
      BY <1>9, <1>11, <3>1 DEF Sound, CallSound, Knows, Removed, Owners
    <3>2. CASE ~Removed(d)
      BY <1>11, <3>2 DEF Sound, CallSound, Owner
    <3>. QED
      BY <3>1, <3>2
  <2>2. calls[d].pc # "closing"
    BY <1>5, <1>11 DEF Sound, CallSound, Owner, Closable
  <2>3. Spare(d, e)
    BY <1>2, <1>4, <1>6, <2>2 DEF Spare, SamePlace, Stirred
  <2>. QED
    BY <1>2, <1>4, <1>11, <2>1, <2>3, TouchedCall DEF Sound, LastRelease
<1>12. Placed(e)'
  <2>1. InTable(e)' /\ InTable(e)
    BY <1>2, <1>9 DEF InTable
  <2>2. entry'[e].evicting =>
          \E d \in Callers : calls'[d].pc \in Owners /\ calls'[d].entry = e
    <3>1. CASE entry[e].evicting
      BY <1>2, <1>4, <2>1, <3>1, RolesKept DEF Sound, Placed, Moves, Owners
    <3>2. CASE LastRelease(e)
      BY <1>3, <1>4, <3>2 DEF Owners
    <3>. QED
      BY <1>6, <3>1, <3>2
  <2>. QED
    BY <1>6, <1>9, <2>1, <2>2 DEF Sound, Placed
<1>13. calls'[c].pc \in Owners => Alone(c, Owners, calls'[c].entry)
  BY <1>3, <1>4, <1>11, IdleIs DEF Alone, Owners
<1>14. calls'[c].pc \notin Openers /\ calls'[c].entry \in {e, NoEntry} /\ StaysOwner(c)
  BY <1>2, <1>3, <1>4, IdleIs DEF StaysOwner, Openers, Owners
<1>15. Emptied' /\ drained' \in BOOLEAN
  BY <1>2 DEF Sound, Emptied, TypeOK
<1>. QED
  BY <1>1, <1>2, <1>4, <1>6, <1>8, <1>10, <1>11, <1>12, <1>13, <1>14, <1>15, EntryStep DEF TypeOK

LEMMA OwnerGivesUpSound ==
  ASSUME TypeOK, Sound, NEW c \in Callers, OwnerGivesUp(c)
  PROVE  TypeOK' /\ Sound'
<1>1. PICK e \in Entries : e = calls[c].entry
  BY DEF OwnerGivesUp, Sound, CallSound, Knows, TypeOK, CallStates
<1> DEFINE r == [calls[c] EXCEPT !.failed = TRUE]
<1>2. /\ calls[c].pc = "owner" /\ UNCHANGED <<entries, closed, drained>>
      /\ entry' = [entry EXCEPT ![e].evicting = FALSE]
      /\ calls' = Signal(Return(c, Evicted([calls EXCEPT ![c] = r], e)))
  BY <1>1 DEF OwnerGivesUp, TypeOK
<1>3. /\ r \in CallStates /\ r.pc = "owner" /\ r.todo = calls[c].todo /\ r.job = calls[c].job
      /\ r.failed = TRUE
  BY <1>2 DEF TypeOK, CallStates
<1>. HIDE DEF r
<1>4. /\ Moves(c) /\ calls'[c] = Returned(r) /\ Stirred
      /\ \A d \in Callers : calls'[d].pc = "waiting" => calls'[d].entry # e
  BY <1>2, <1>3, LetsGo DEF TypeOK
<1>5. /\ entry' \in [Entries -> EntryStates] /\ \A x \in Entries \ {e} : entry'[x] = entry[x]
      /\ entry'[e].opening = entry[e].opening /\ ~entry'[e].evicting
      /\ entry'[e].refs = entry[e].refs /\ entry'[e].service = entry[e].service
  BY <1>1, <1>2 DEF TypeOK, EntryStates
<1>6. CallSound(c)' /\ Awaited(c)' /\ calls'[c].pc \in {"idle", "evict"} /\ calls'[c].entry = NoEntry
  BY <1>3, <1>4, ReturnedSound, ReturnedIs
<1>7. Shuts(c)'
  <2>1. CASE r.todo = {}
    BY <1>3, <1>4, <2>1, ReturnedIs DEF Shuts
  <2>2. CASE r.todo # {}
    <3>1. calls'[c].job = calls[c].job /\ calls'[c].failed = TRUE
      BY <1>3, <1>4, <2>2, ReturnedIs
    <3>2. calls[c].job = "close" => closed'
      BY <1>2 DEF Sound, Shuts
    <3>. QED
      BY <1>6, <3>1, <3>2 DEF Shuts
  <2>. QED
    BY <2>1, <2>2
<1>8. entry'[e].refs = Cardinality(Leases(e)')
  <2>1. Leases(e)' = Leases(e)
    BY <1>2, <1>6, LeasesKept, <1>4
  <2>. QED
    BY <1>5, <2>1 DEF TypeOK
<1>9. Placed(e)'
  BY <1>2, <1>5 DEF Sound, Placed, InTable
<1>10. ASSUME NEW d \in Callers \ {c}, calls[d].entry = e PROVE CallSound(d)'
  <2>1. calls[d].pc \notin Owners
    BY <1>1, <1>2, <1>10, AloneNow DEF Sound, Alone, Owners
  <2>2. Spare(d, e)
    BY <1>2, <1>4, <1>5, <2>1 DEF Spare, SamePlace, Stirred, Owners
  <2>. QED
    BY <1>2, <1>4, <1>10, <2>2, TouchedCall DEF Sound
<1>11. calls'[c].pc \notin Openers /\ calls'[c].pc \notin Owners
  BY <1>6 DEF Openers, Owners
<1>12. Emptied' /\ drained' \in BOOLEAN
  BY <1>2 DEF Sound, Emptied, TypeOK
<1>. QED
  BY ZenonT(40), <1>1, <1>2, <1>4, <1>5, <1>6, <1>7, <1>8, <1>9, <1>10, <1>11, <1>12, EntryStep DEF TypeOK

--------------------------------------------------------------------------------
(* The theorems.                                                             *)

LEMMA InitSound == Init => TypeOK /\ Sound
<1> SUFFICES ASSUME Init PROVE TypeOK /\ Sound
  OBVIOUS
<1>1. \A c \in Callers : calls[c] = Idle
  BY DEF Init
<1>2. TypeOK
  <2>1. [NewEntry EXCEPT !.opening = FALSE] \in EntryStates
        /\ [NewEntry EXCEPT !.opening = FALSE].refs = 0
    BY DEF NewEntry, EntryStates
  <2>2. \A e \in Entries : Leases(e) = {}
    BY <1>1, IdleIs DEF Leases
  <2>. QED
    BY <2>1, <2>2, IdleIs, FS_EmptySet DEF Init, TypeOK
<1>3. \A c \in Callers : CallSound(c) /\ Awaited(c) /\ Shuts(c)
  BY <1>1, IdleIs
     DEF CallSound, Knows, Opener, Lessee, Owner, Awaited, Shuts, Openers, Owners
<1>4. \A e \in Entries : Placed(e)
  <2>1. \A e \in Entries : ~InTable(e)
    BY ProfilePoolAssumption DEF Init, InTable
  <2>2. \A e \in Entries : entry[e].service = "shut"
    BY DEF Init, NewEntry
  <2>. QED
    BY <2>1, <2>2 DEF Placed
<1>5. Single /\ Separate /\ Emptied
  BY <1>1, IdleIs DEF Single, Separate, Emptied, Init, Openers, Owners
<1>. QED
  BY <1>2, <1>3, <1>4, <1>5 DEF Sound

\* Every step keeps the shapes of the table and the calls, and what they know of each other.
LEMMA StepSound == TypeOK /\ Sound /\ [Next]_vars => TypeOK' /\ Sound'
<1> SUFFICES ASSUME TypeOK, Sound, [Next]_vars PROVE TypeOK' /\ Sound'
  OBVIOUS
<1>1. CASE UNCHANGED vars
  BY <1>1
     DEF vars, TypeOK, Leases, Sound, CallSound, Knows, Opener, Lessee, Owner, Removed, Closable,
         Awaited, Shuts, Placed, InTable, Single, Separate, Emptied
<1>2. ASSUME NEW c \in Callers, Continue(c) \/ Release(c) \/ Start(c) \/ ContextEnds(c) \/ WaitInterrupted(c)
      PROVE  TypeOK' /\ Sound'
  <2>1. ASSUME NEW p \in Profiles,
               AcquireNew(c, p) \/ AcquireOpened(c, p) \/ AcquireWaits(c, p) \/ AcquireRefused(c, p)
        PROVE  TypeOK' /\ Sound'
    BY <2>1, AcquireNewSound, AcquireOpenedSound, AcquireWaitsSound, AcquireRefusedSound
  <2>2. ASSUME NEW p \in Profiles, Evict(c, p)
        PROVE  TypeOK' /\ Sound'
    BY <2>2, BeginSound DEF Evict
  <2>3. ASSUME CloseIdle(c)
        PROVE  TypeOK' /\ Sound'
    BY <2>3, BeginSound DEF CloseIdle
  <2>. QED
    BY <1>2, <2>1, <2>2, <2>3, OpenSucceedsSound, OpenFailsSound, InstallSound, UnwindSound,
       ReleaseSound, CloseSound, EvictNothingSound, EvictOwnsSound, EvictWaitsSound,
       WaiterRetriesSound, WaiterReturnsSound, OwnerFindsRemovedSound, OwnerClosesSound,
       OwnerGivesUpSound, OwnerSleepsSound, CloseServiceSound, ContextEndsSound,
       WaitInterruptedSound
       DEF Continue, Start
<1>. QED
  BY <1>1, <1>2 DEF Next

\* Each profile has one service, which stays open while it is leased.
LEMMA SoundIsSafe == TypeOK /\ Sound => PoolIsSafe
<1> SUFFICES ASSUME TypeOK, Sound PROVE PoolIsSafe
  OBVIOUS
<1>1. OneService
  <2> SUFFICES ASSUME NEW p \in Profiles
               PROVE  Cardinality({e \in Entries : entry[e].service = "open" /\ entries[p] = e}
                        \cup {calls[c].entry : c \in {x \in Callers : calls[x].profile = p /\
                          calls[x].pc \in {"opening", "opened", "unwinding", "leased", "closing"}}}) <= 1
    BY DEF OneService
  <2> DEFINE S == {e \in Entries : entry[e].service = "open" /\ entries[p] = e}
                  \cup {calls[c].entry : c \in {x \in Callers : calls[x].profile = p /\
                          calls[x].pc \in {"opening", "opened", "unwinding", "leased", "closing"}}}
  <2>1. S \subseteq {entries[p]}
    BY DEF Sound, CallSound, Opener, Lessee, Owner, Removed, Openers
  <2>2. IsFiniteSet({entries[p]}) /\ Cardinality({entries[p]}) = 1
    BY FS_Singleton
  <2>. HIDE DEF S
  <2>3. Cardinality(S) <= 1
    BY <2>1, <2>2, FS_Subset
  <2>. QED
    BY <2>3 DEF S
<1>2. LeaseUsable
  <2> SUFFICES ASSUME NEW c \in Callers, calls[c].pc = "leased"
               PROVE  /\ entry[calls[c].entry].service = "open"
                      /\ entries[calls[c].profile] = calls[c].entry
                      /\ \A d \in Callers : calls[d].pc = "closing" => calls[d].entry # calls[c].entry
    BY DEF LeaseUsable
  <2>1. calls[c].entry \in Entries /\ calls[c].profile \in Profiles
    BY DEF Sound, CallSound, Knows, TypeOK, CallStates
  <2>2. entries[calls[c].profile] = calls[c].entry /\ ~entry[calls[c].entry].opening
    BY DEF Sound, CallSound, Lessee
  <2>3. entry[calls[c].entry].service = "open"
    BY <2>1, <2>2 DEF Sound, Placed, InTable
  <2>4. entry[calls[c].entry].refs # 0
    <3>1. c \in Leases(calls[c].entry)
      BY DEF Leases
    <3>. QED
      BY <2>1, <3>1, LeasesFinite, FS_EmptySet DEF TypeOK
  <2>5. ASSUME NEW d \in Callers, calls[d].pc = "closing" PROVE calls[d].entry # calls[c].entry
    BY <2>4, <2>5 DEF Sound, CallSound, Owner, Closable
  <2>. QED
    BY <2>2, <2>3, <2>5
<1>3. EvictedIsClosed
  <2>1. \A e \in Entries : entry[e].service = "open" => InTable(e)
    BY DEF Sound, Placed
  <2>2. \A c \in Callers : calls[c].pc = "opening" => InTable(calls[c].entry)
    BY DEF Sound, CallSound, Knows, Opener, Openers, InTable
  <2>3. drained => \A e \in Entries : ~InTable(e)
    BY ProfilePoolAssumption DEF Sound, Emptied, InTable
  <2>. QED
    BY <2>1, <2>2, <2>3 DEF EvictedIsClosed, InTable
<1>4. ClosedOnce
  BY DEF Sound, Placed, ClosedOnce
<1>5. NoLostWakeup
  BY DEF Sound, CallSound, Owner, Awaited, Owners, NoLostWakeup
<1>. QED
  BY <1>1, <1>2, <1>3, <1>4, <1>5 DEF PoolIsSafe

\* Calls and table entries know each other, in every state of every pool.
THEOREM PoolSound == Spec => [](TypeOK /\ Sound)
  BY InitSound, StepSound, PTL DEF Spec

\* The table and the calls keep their shapes, and an entry counts exactly the leases held on it:
\* what registry.go closes on is the number of handlers that use the service.
THEOREM LeasesAreCounted == Spec => []TypeOK
  BY PoolSound, PTL

\* A profile never has two services; a leased service is open, in the table and nobody is closing
\* it; a service is closed once and leaves the table with it, so an eviction that returns has
\* closed it; an owner sleeps and a waiter waits only while someone will wake them.
THEOREM PoolHolds == Spec => []PoolIsSafe
  BY PoolSound, SoundIsSafe, PTL
================================================================================
