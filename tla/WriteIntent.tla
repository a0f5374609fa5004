------------------------------ MODULE WriteIntent ------------------------------
(***************************************************************************)
(* What a provider write batch promises, without processes, leases,        *)
(* versions or phases: the provider may apply an item any time once the    *)
(* batch is prepared; a result is recorded only for an applied item, once, *)
(* while the batch is open; the batch ends at most once, and it ends as     *)
(* finalized only with every result recorded.                              *)
(***************************************************************************)
CONSTANT Items

VARIABLES
  stage,     \* none, open, finalized or reconciled
  recorded,  \* items with a durable result
  landed     \* items the provider applied

intentVars == <<stage, recorded, landed>>

IntentInit == stage = "none" /\ recorded = {} /\ landed = {}

Prepare ==
  /\ stage = "none" /\ stage' = "open"
  /\ UNCHANGED <<recorded, landed>>

Land ==
  /\ stage # "none"
  /\ \E S \in SUBSET Items : landed' = landed \cup S
  /\ UNCHANGED <<stage, recorded>>

Record ==
  /\ stage = "open"
  /\ \E i \in landed \ recorded : recorded' = recorded \cup {i}
  /\ UNCHANGED <<stage, landed>>

Finalize ==
  /\ stage = "open" /\ recorded = Items
  /\ stage' = "finalized"
  /\ UNCHANGED <<recorded, landed>>

Reconcile ==
  /\ stage = "open" /\ stage' = "reconciled"
  /\ UNCHANGED <<recorded, landed>>

IntentNext == Prepare \/ Land \/ Record \/ Finalize \/ Reconcile

IntentSpec == IntentInit /\ [][IntentNext]_intentVars
================================================================================
