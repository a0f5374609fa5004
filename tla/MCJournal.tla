------------------------------- MODULE MCJournal --------------------------------
(***************************************************************************)
(* Small profiles for TLC.  Labels 0 and 1, 2 and 3 share a collision key.  *)
(***************************************************************************)
EXTENDS Journal, TLC

CONSTANTS s1, s2

Group(label) == NewEntity(label)
Row(merchant, category, hidden) ==
  [merchant |-> merchant, category |-> category, hidden |-> hidden]

\* Two of each kind, the protected ones among them, one transaction hidden.
SmallProfile ==
  [merchants |-> (1 :> NewEntity(0)) @@ (2 :> NewEntity(2)),
   groups |-> (1 :> Group(0)) @@ (2 :> Group(2)),
   categories |-> (1 :> NewCategory(0, 1)) @@ (2 :> NewCategory(2, 2)),
   transactions |-> (1 :> Row(1, 1, FALSE)) @@ (2 :> Row(2, 2, TRUE))]

\* The protected entities, and one transaction.
FreshProfile ==
  [merchants |-> 1 :> NewEntity(0),
   groups |-> 1 :> Group(0),
   categories |-> 1 :> NewCategory(0, 1),
   transactions |-> 1 :> Row(1, 1, FALSE)]

AllKinds ==
  {"merchant.label", "merchant.merge", "merchant.reassign",
   "category.assign", "category.create", "category.label", "category.move",
   "category.merge", "category.delete",
   "group.create", "group.label", "group.merge", "group.delete",
   "transaction.hide-toggle", "transaction.delete"}

SharingKinds ==
  {"category.create", "category.assign"}

MergeKinds == {"group.create", "group.merge"}
================================================================================
