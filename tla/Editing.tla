------------------------------- MODULE Editing --------------------------------
(***************************************************************************)
(* The operations the mutation builders draft.                             *)
(*                                                                          *)
(* A builder sees one cached snapshot: the committed profile the views show *)
(* and the effective profile replay makes of it.  Each operator below is    *)
(* the set of operations its builder accepts from that snapshot, over every *)
(* selection and input a user can give.                                     *)
(*                                                                          *)
(* Sources: internal/app/edit_merchant.go, edit_category.go, taxonomy.go,   *)
(* hide.go, delete.go, targets.go.                                          *)
(***************************************************************************)
EXTENDS Replay

CONSTANTS
  Merchants, Groups, Categories,  \* identities that exist or may be created
  Labels,                         \* labels a user may type
  Kinds                           \* operation types users may draft

ASSUME EditingAssumption ==
  /\ \A ids \in {Merchants, Groups, Categories} : ids \subseteq Nat \ {NoEntity}
  /\ Uncategorized \in Groups \cap Categories
  /\ Labels \subseteq Nat

\* A selection resolves to transactions the effective profile still has: a
\* scope that contains a pending deletion is refused as a whole.
Selections(effective) == (SUBSET DOMAIN effective.transactions) \ {{}}

----------------------------------------------------------------------------
(* Merchants.  The entity edited is the merchant the committed rows show.   *)

SourceMerchants(committed, effective) ==
  {committed.transactions[t].merchant : t \in DOMAIN effective.transactions}
    \cap ActiveIn(effective.merchants)

MerchantEntityEdits(committed, effective) ==
  LET merchants == effective.merchants
      renames(m) == {l \in Labels : /\ l # merchants[m].label
                                    /\ ~KeyInUse(merchants, m, l)}
  IN UNION {{EntityOp("merchant.label", m, NoEntity, l) : l \in renames(m)}
            \cup {EntityOp("merchant.merge", m, d, NoLabel) :
                    d \in ActiveIn(merchants) \ {m}}
              : m \in SourceMerchants(committed, effective)}

MerchantReassignments(effective) ==
  LET merchants == effective.merchants
      destinations ==
        {<<d, NoLabel>> : d \in ActiveIn(merchants)}
          \cup {<<d, l>> : d \in Merchants \ DOMAIN merchants,
                           l \in {x \in Labels : ~KeyInUse(merchants, NoEntity, x)}}
  IN {Op("merchant.reassign", NoEntity, targets, d[1], d[2]) :
        targets \in Selections(effective), d \in destinations}

----------------------------------------------------------------------------
(* Categories and groups.                                                  *)

NewCategories(effective, targetSets) ==
  {Op("category.create", c, targets, g, l) :
     c \in Categories \ DOMAIN effective.categories,
     targets \in targetSets,
     g \in ActiveIn(effective.groups),
     l \in {x \in Labels : ~KeyInUse(effective.categories, NoEntity, x)}}

CategoryAssignments(effective) ==
  {TransactionOp("category.assign", targets, c) :
     targets \in Selections(effective), c \in ActiveIn(effective.categories)}
    \cup NewCategories(effective, Selections(effective))

EditableIn(entities) == ActiveIn(entities) \ {Uncategorized}

Relabels(type, entities) ==
  {EntityOp(type, x[1], NoEntity, x[2]) :
     x \in {y \in EditableIn(entities) \X Labels :
              /\ y[2] # entities[y[1]].label
              /\ ~KeyInUse(entities, y[1], y[2])}}

Retirements(types, entities) ==
  {EntityOp(type, x[1], x[2], NoLabel) :
     type \in types,
     x \in {y \in EditableIn(entities) \X ActiveIn(entities) : y[1] # y[2]}}

CategoryMoves(effective) ==
  {EntityOp("category.move", x[1], x[2], NoLabel) :
     x \in {y \in EditableIn(effective.categories) \X ActiveIn(effective.groups) :
              effective.categories[y[1]].group # y[2]}}

ManagedCategories(effective) ==
  NewCategories(effective, {{}})
    \cup Relabels("category.label", effective.categories)
    \cup CategoryMoves(effective)
    \cup Retirements({"category.merge", "category.delete"}, effective.categories)

NewGroups(effective) ==
  {EntityOp("group.create", g, NoEntity, l) :
     g \in Groups \ DOMAIN effective.groups,
     l \in {x \in Labels : ~KeyInUse(effective.groups, NoEntity, x)}}

ManagedGroups(effective) ==
  NewGroups(effective)
    \cup Relabels("group.label", effective.groups)
    \cup Retirements({"group.merge", "group.delete"}, effective.groups)

----------------------------------------------------------------------------
(* Visibility and deletion.                                                *)

\* A scope with both visible and hidden rows hides its visible ones; any
\* other scope is toggled whole.
HideTargets(effective, targets) ==
  LET visible == {t \in targets : ~effective.transactions[t].hidden}
  IN IF visible # {} THEN visible ELSE targets

Mixed(effective, targets) == HideTargets(effective, targets) # targets

HideToggle(targets) == TransactionOp("transaction.hide-toggle", targets, NoEntity)

Deletions(effective) ==
  {TransactionOp("transaction.delete", targets, NoEntity) :
     targets \in Selections(effective)}

\* Everything but visibility: the hide builder depends on the journal too.
Drafts(committed, effective) ==
  {op \in MerchantEntityEdits(committed, effective)
            \cup MerchantReassignments(effective)
            \cup CategoryAssignments(effective)
            \cup ManagedCategories(effective)
            \cup ManagedGroups(effective)
            \cup Deletions(effective) : op.type \in Kinds}
================================================================================
