-------------------------------- MODULE Rebase ---------------------------------
(***************************************************************************)
(* What a refresh makes of pending edits.                                   *)
(*                                                                          *)
(* The active operations are applied one by one to the refreshed profile.   *)
(* Transaction edits keep the transactions that are still there, hides only *)
(* those whose visibility still differs from what the user left, and an     *)
(* operation goes when nothing is left of it or an entity it names is gone. *)
(* An operation that stays but cannot be applied fails the whole refresh.   *)
(*                                                                          *)
(* Source: internal/replay/provider_rebase.go.                              *)
(***************************************************************************)
EXTENDS Replay

TransactionScoped(op) ==
  \/ op.type \in {"merchant.reassign", "category.assign",
                  "transaction.hide-toggle", "transaction.delete"}
  \/ op.type = "category.create" /\ op.targets # {}

\* Mutant of SurvivingTargets: a hide is one more target list.
SurvivingEvenHides(profile, before, op) == op.targets \cap DOMAIN profile.transactions

\* Of a hide, the targets the user saw last (deleted ones are not among them)
\* and would see otherwise now.
SurvivingTargets(profile, before, op) ==
  LET present == op.targets \cap DOMAIN profile.transactions
  IN IF op.type # "transaction.hide-toggle" THEN present
     ELSE {t \in present \cap DOMAIN before.transactions :
             profile.transactions[t].hidden # before.transactions[t].hidden}

\* Active entities an operation names.
NeededMerchants(op) ==
  CASE op.type = "merchant.label" -> {op.subject}
    [] op.type = "merchant.merge" -> {op.subject, op.to}
    [] op.type = "merchant.reassign" /\ op.label = NoLabel -> {op.to}
    [] OTHER -> {}

NeededCategories(op) ==
  CASE op.type = "category.assign" -> {op.to}
    [] op.type \in {"category.label", "category.move"} -> {op.subject}
    [] op.type \in {"category.merge", "category.delete"} -> {op.subject, op.to}
    [] OTHER -> {}

NeededGroups(op) ==
  CASE op.type \in {"category.create", "category.move"} -> {op.to}
    [] op.type = "group.label" -> {op.subject}
    [] op.type \in {"group.merge", "group.delete"} -> {op.subject, op.to}
    [] OTHER -> {}

DependenciesExist(profile, op) ==
  /\ NeededMerchants(op) \subseteq ActiveIn(profile.merchants)
  /\ NeededCategories(op) \subseteq ActiveIn(profile.categories)
  /\ NeededGroups(op) \subseteq ActiveIn(profile.groups)

\* Mutant of AppliesTo: what it leaves is not looked at.
AppliesAnyhow(profile, op) == Applicable(profile, op)

\* ApplyOperation: no error, and a valid profile.
AppliesTo(profile, op) == Applicable(profile, op) /\ ValidProfile(Apply(profile, op))

\* One active operation, after those before it have been placed.
Place(placed, before, original) ==
  LET scoped == TransactionScoped(original)
      op == IF scoped
            THEN [original EXCEPT !.targets = SurvivingTargets(placed.profile, before, original)]
            ELSE original
  IN IF \/ ~placed.accepted
        \/ scoped /\ op.targets = {}
        \/ ~DependenciesExist(placed.profile, op)
     THEN placed
     ELSE IF AppliesTo(placed.profile, op)
     THEN [placed EXCEPT !.profile = Apply(@, op), !.journal = Append(@, op)]
     ELSE [placed EXCEPT !.accepted = FALSE]

\* RebaseProviderJournal: the profile shown, the journal behind it, and
\* whether the refresh may go ahead.
RebaseOnto(newBase, oldBase, active) ==
  LET before == Replay(oldBase, active)
      placed[i \in 0..Len(active)] ==
        IF i = 0 THEN [profile |-> newBase, journal |-> <<>>, accepted |-> TRUE]
        ELSE Place(placed[i - 1], before, active[i])
  IN placed[Len(active)]
================================================================================
