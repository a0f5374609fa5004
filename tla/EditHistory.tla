------------------------------ MODULE EditHistory -------------------------------
(***************************************************************************)
(* What the journal promises its users: one linear history of edits.        *)
(*                                                                          *)
(* However many processes edit a profile from their caches, every edit is   *)
(* one that a single editor looking at the current profile could make; a    *)
(* new edit drops what was undone; hiding shows exactly what was asked for, *)
(* however the journal achieves it; a commit makes the profile shown the    *)
(* committed one; and nothing happens between the freezing of the reviewed  *)
(* edits for a provider and the end of that write.                          *)
(*                                                                          *)
(* Sources: the transactions of internal/store/sqlite/journal.go,           *)
(* cancel_hide.go, fold.go, provider_write.go, provider_write_reconcile.go. *)
(***************************************************************************)
EXTENDS Editing

CONSTANT InitialProfile

VARIABLES
  committed,
  journal,         \* active edits, then undone ones
  cursor,
  frozen           \* the active edits are being written to a provider

vars == <<committed, journal, cursor, frozen>>

Active == SubSeq(journal, 1, cursor)
Effective == Replay(committed, Active)

Init ==
  /\ committed = InitialProfile
  /\ journal = <<>>
  /\ cursor = 0
  /\ frozen = FALSE

Edited == ~frozen /\ UNCHANGED <<committed, frozen>>

Edit ==
  /\ Edited
  /\ cursor' = cursor + 1 /\ cursor' = Len(journal')
  /\ \E op \in Drafts(committed, Effective) : journal' = Append(Active, op)

\* Nothing is left to redo, and exactly the targets changed visibility.
Hide ==
  /\ Edited
  /\ cursor' = Len(journal')
  /\ LET before == Effective
         after == Replay(committed, journal')
     IN \E targets \in Selections(before) :
          after = ToggleHidden(before, HideTargets(before, targets))

Undo == Edited /\ cursor > 0 /\ cursor' = cursor - 1 /\ UNCHANGED journal
Redo == Edited /\ cursor < Len(journal) /\ cursor' = cursor + 1 /\ UNCHANGED journal

Emptied == journal' = <<>> /\ cursor' = 0

Commit ==
  /\ ~frozen /\ UNCHANGED frozen
  /\ Emptied
  /\ committed' = Effective

\* Edits that amount to nothing are dropped instead of written.
Freeze ==
  /\ ~frozen
  /\ UNCHANGED committed
  /\ \/ Emptied /\ UNCHANGED frozen /\ Changed(committed, Effective) = {}
     \/ /\ journal' = Active /\ frozen' = TRUE /\ UNCHANGED cursor
        /\ Changed(committed, Effective) # {}

\* Each transaction ends as it was or as it was reviewed.
Thaw ==
  /\ frozen /\ frozen' = FALSE
  /\ Emptied
  /\ \E applied \in SUBSET Changed(committed, Effective) :
       committed' = Applied(committed, Effective, applied)

Next == Edit \/ Hide \/ Undo \/ Redo \/ Commit \/ Freeze \/ Thaw

Spec == Init /\ [][Next]_vars
================================================================================
