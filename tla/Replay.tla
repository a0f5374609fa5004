-------------------------------- MODULE Replay ---------------------------------
(***************************************************************************)
(* Profiles, journal operations, and what replaying a journal does.        *)
(*                                                                          *)
(* A profile maps the identities of its merchants, category groups,         *)
(* categories and transactions to their records.  Identities are positive   *)
(* numbers, ordered the way the code orders its identity strings; each kind *)
(* has numbers of its own.  A label stands for its display form: labels 2k  *)
(* and 2k + 1 differ in their letters but have the same collision key.  Of  *)
(* the protected categories only Uncategorized is kept (Split is treated    *)
(* alike), and of a transaction the fields an edit can change.              *)
(*                                                                          *)
(* Sources: internal/replay/replay.go, affected.go, internal/domain.        *)
(***************************************************************************)
EXTENDS Integers, Sequences

Uncategorized == 1      \* the protected group, and its protected category
NoEntity == 0
NoLabel == -1

CollisionKey(label) == label \div 2

----------------------------------------------------------------------------
(* Profiles.                                                               *)

ActiveIn(entities) == {e \in DOMAIN entities : ~entities[e].retired}

KeyInUse(entities, source, label) ==
  \E e \in ActiveIn(entities) \ {source} :
    CollisionKey(entities[e].label) = CollisionKey(label)

KeysDistinct(entities) ==
  \A e \in ActiveIn(entities) : ~KeyInUse(entities, e, entities[e].label)

MergeDestinationsActive(entities) ==
  \A e \in DOMAIN entities :
    entities[e].into # NoEntity =>
      /\ entities[e].retired
      /\ entities[e].into \in ActiveIn(entities) \ {e}

ValidProfile(p) ==
  /\ Uncategorized \in ActiveIn(p.groups) \cap ActiveIn(p.categories)
  /\ p.categories[Uncategorized].group = Uncategorized
  /\ KeysDistinct(p.merchants) /\ KeysDistinct(p.groups) /\ KeysDistinct(p.categories)
  /\ MergeDestinationsActive(p.merchants)
  /\ MergeDestinationsActive(p.groups)
  /\ MergeDestinationsActive(p.categories)
  /\ \A c \in DOMAIN p.categories : p.categories[c].group \in ActiveIn(p.groups)
  /\ \A t \in DOMAIN p.transactions :
       /\ p.transactions[t].merchant \in ActiveIn(p.merchants)
       /\ p.transactions[t].category \in ActiveIn(p.categories)

\* What a view shows of a transaction: the labels its references join to.
Materialized(p, t) ==
  LET row == p.transactions[t]
      category == p.categories[row.category]
  IN [row |-> row,
      merchant |-> p.merchants[row.merchant].label,
      category |-> category.label,
      group |-> <<category.group, p.groups[category.group].label>>]

----------------------------------------------------------------------------
(* Operations.  "subject" is the entity an entity operation names, "to" its *)
(* destination, replacement or parent; "targets" are transactions only.  A  *)
(* reassignment with a label creates its destination.                      *)

Op(type, subject, targets, to, label) ==
  [type |-> type, subject |-> subject, targets |-> targets, to |-> to, label |-> label]

EntityOp(type, subject, to, label) == Op(type, subject, {}, to, label)
TransactionOp(type, targets, to) == Op(type, NoEntity, targets, to, NoLabel)

Editable(entities, e) == e \in ActiveIn(entities) \ {Uncategorized}

\* The conditions under which applying an operation reports no error.
Applicable(p, op) ==
  CASE op.type = "merchant.label" -> op.subject \in ActiveIn(p.merchants)
    [] op.type = "merchant.merge" -> {op.subject, op.to} \subseteq ActiveIn(p.merchants)
    [] op.type = "merchant.reassign" ->
         /\ IF op.label = NoLabel THEN op.to \in ActiveIn(p.merchants)
                                  ELSE op.to \notin DOMAIN p.merchants
         /\ op.targets \subseteq DOMAIN p.transactions
    [] op.type = "category.assign" ->
         /\ op.to \in ActiveIn(p.categories)
         /\ op.targets \subseteq DOMAIN p.transactions
    [] op.type = "category.create" ->
         /\ op.subject \notin DOMAIN p.categories
         /\ op.to \in ActiveIn(p.groups)
         /\ op.targets \subseteq DOMAIN p.transactions
    [] op.type = "category.label" -> Editable(p.categories, op.subject)
    [] op.type = "category.move" ->
         Editable(p.categories, op.subject) /\ op.to \in ActiveIn(p.groups)
    [] op.type \in {"category.merge", "category.delete"} ->
         Editable(p.categories, op.subject) /\ op.to \in ActiveIn(p.categories)
    [] op.type = "group.create" -> op.subject \notin DOMAIN p.groups
    [] op.type = "group.label" -> Editable(p.groups, op.subject)
    [] op.type \in {"group.merge", "group.delete"} ->
         Editable(p.groups, op.subject) /\ op.to \in ActiveIn(p.groups)
    [] op.type \in {"transaction.hide-toggle", "transaction.delete"} ->
         op.targets \subseteq DOMAIN p.transactions

Relabel(entities, e, label) == [entities EXCEPT ![e].label = label]

\* Retire one entity into another; what was merged into it before follows.
Retire(entities, source, destination) ==
  [e \in DOMAIN entities |->
     IF e = source
     THEN [entities[e] EXCEPT !.retired = TRUE, !.into = destination]
     ELSE IF entities[e].into = source
     THEN [entities[e] EXCEPT !.into = destination]
     ELSE entities[e]]

Insert(entities, e, record) ==
  [x \in DOMAIN entities \cup {e} |-> IF x = e THEN record ELSE entities[x]]

NewEntity(label) == [label |-> label, retired |-> FALSE, into |-> NoEntity]
NewCategory(label, group) ==
  [label |-> label, retired |-> FALSE, into |-> NoEntity, group |-> group]

\* Point the given transactions, or the categories of a group, elsewhere.
Reassign(records, targets, field, value) ==
  [r \in DOMAIN records |->
     IF r \in targets THEN [records[r] EXCEPT ![field] = value] ELSE records[r]]

Referring(records, field, value) == {r \in DOMAIN records : records[r][field] = value}

RetireCategory(p, source, destination) ==
  [p EXCEPT
     !.categories = Retire(p.categories, source, destination),
     !.transactions = Reassign(p.transactions, Referring(p.transactions, "category", source),
                               "category", destination)]

RetireGroup(p, source, destination) ==
  [p EXCEPT
     !.groups = Retire(p.groups, source, destination),
     !.categories = Reassign(p.categories, Referring(p.categories, "group", source),
                             "group", destination)]

RetireMerchant(p, source, destination) ==
  [p EXCEPT
     !.merchants = Retire(p.merchants, source, destination),
     !.transactions = Reassign(p.transactions, Referring(p.transactions, "merchant", source),
                               "merchant", destination)]

ReassignMerchant(p, op) ==
  [p EXCEPT
     !.merchants = IF op.label = NoLabel THEN p.merchants
                   ELSE Insert(p.merchants, op.to, NewEntity(op.label)),
     !.transactions = Reassign(p.transactions, op.targets, "merchant", op.to)]

CreateCategory(p, op) ==
  [p EXCEPT
     !.categories = Insert(p.categories, op.subject, NewCategory(op.label, op.to)),
     !.transactions = Reassign(p.transactions, op.targets, "category", op.subject)]

ToggleHidden(p, targets) ==
  [p EXCEPT !.transactions =
     [t \in DOMAIN p.transactions |->
        IF t \in targets THEN [p.transactions[t] EXCEPT !.hidden = ~@]
                         ELSE p.transactions[t]]]

DeleteTransactions(p, targets) ==
  [p EXCEPT !.transactions =
     [t \in DOMAIN p.transactions \ targets |-> p.transactions[t]]]

Apply(p, op) ==
  CASE op.type = "merchant.label" ->
         [p EXCEPT !.merchants = Relabel(@, op.subject, op.label)]
    [] op.type = "merchant.merge" -> RetireMerchant(p, op.subject, op.to)
    [] op.type = "merchant.reassign" -> ReassignMerchant(p, op)
    [] op.type = "category.assign" ->
         [p EXCEPT !.transactions = Reassign(@, op.targets, "category", op.to)]
    [] op.type = "category.create" -> CreateCategory(p, op)
    [] op.type = "category.label" ->
         [p EXCEPT !.categories = Relabel(@, op.subject, op.label)]
    [] op.type = "category.move" ->
         [p EXCEPT !.categories = Reassign(@, {op.subject}, "group", op.to)]
    [] op.type \in {"category.merge", "category.delete"} ->
         RetireCategory(p, op.subject, op.to)
    [] op.type = "group.create" ->
         [p EXCEPT !.groups = Insert(@, op.subject, NewEntity(op.label))]
    [] op.type = "group.label" ->
         [p EXCEPT !.groups = Relabel(@, op.subject, op.label)]
    [] op.type \in {"group.merge", "group.delete"} -> RetireGroup(p, op.subject, op.to)
    [] op.type = "transaction.hide-toggle" -> ToggleHidden(p, op.targets)
    [] op.type = "transaction.delete" -> DeleteTransactions(p, op.targets)

----------------------------------------------------------------------------
(* Replay.                                                                 *)

\* The profile before each operation of a journal, and after the last one.
Prefixes(committed, journal) ==
  LET state[i \in 0..Len(journal)] ==
        IF i = 0 THEN committed ELSE Apply(state[i - 1], journal[i])
  IN state

Replay(committed, journal) == Prefixes(committed, journal)[Len(journal)]

\* Every operation applies where replay meets it and leaves a valid profile;
\* otherwise the profile cannot be opened any more.
Replays(committed, journal) ==
  LET state == Prefixes(committed, journal)
  IN \A i \in 1..Len(journal) :
       Applicable(state[i - 1], journal[i]) /\ ValidProfile(state[i])

\* The transactions an operation touches in the profile it is applied to.
AffectedByOperation(p, op) ==
  CASE op.type \in {"merchant.reassign", "category.assign", "category.create",
                    "transaction.hide-toggle", "transaction.delete"} -> op.targets
    [] op.type \in {"merchant.label", "merchant.merge"} ->
         Referring(p.transactions, "merchant", op.subject)
    [] op.type \in {"category.label", "category.move", "category.merge",
                    "category.delete"} ->
         Referring(p.transactions, "category", op.subject)
    [] op.type \in {"group.label", "group.merge", "group.delete"} ->
         {t \in DOMAIN p.transactions :
            p.categories[p.transactions[t].category].group = op.subject}
    [] OTHER -> {}

Affected(committed, journal) ==
  LET state == Prefixes(committed, journal)
  IN UNION {AffectedByOperation(state[i - 1], journal[i]) : i \in 1..Len(journal)}

----------------------------------------------------------------------------
(* Differences between two profiles of the same journal.                    *)

Changed(before, after) ==
  {t \in DOMAIN before.transactions :
     \/ t \notin DOMAIN after.transactions
     \/ Materialized(before, t) # Materialized(after, t)}

\* The provider applied the changes of some transactions only.
Applied(before, after, applied) ==
  [before EXCEPT !.transactions =
     [t \in DOMAIN before.transactions \ (applied \ DOMAIN after.transactions) |->
        IF t \in applied THEN after.transactions[t] ELSE before.transactions[t]]]
================================================================================
