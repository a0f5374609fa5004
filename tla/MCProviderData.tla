----------------------------- MODULE MCProviderData -----------------------------
(***************************************************************************)
(* A small profile and the candidates its provider may return.             *)
(* Labels 0 and 1, 2 and 3 share a collision key.                          *)
(***************************************************************************)
EXTENDS Replay, TLC

Row(merchant, category, hidden) ==
  [merchant |-> merchant, category |-> category, hidden |-> hidden]

\* Two merchants of the provider; a third one was merged into the first.
StoredProfile ==
  [merchants |-> (1 :> NewEntity(0)) @@ (2 :> NewEntity(2))
                 @@ (3 :> [label |-> 4, retired |-> TRUE, into |-> 1]),
   groups |-> 1 :> NewEntity(0),
   categories |-> (1 :> NewCategory(0, 1)) @@ (2 :> NewCategory(2, 1)),
   transactions |-> (1 :> Row(1, 1, FALSE)) @@ (2 :> Row(2, 2, TRUE))]
StoredIdentity == (1 :> 1) @@ (2 :> 2)
MergedAway == 3 :> 1
StoredLabels == (1 :> 0) @@ (2 :> 2) @@ (3 :> 4)

Candidate(labels, rows, categories, window) ==
  [labels |-> labels, rows |-> rows, categories |-> categories, window |-> window]

Same == StoredProfile.transactions
Everything == {1, 2, 3}

Unchanged == Candidate((1 :> 0) @@ (2 :> 2), Same, {1, 2}, Everything)
\* Another letter case, and a new merchant whose label is taken.
Newcomer == Candidate((1 :> 0) @@ (2 :> 2) @@ (4 :> 1),
                      (3 :> Row(4, 1, FALSE)) @@ Same, {1, 2}, Everything)
\* The second merchant has a new name, and hides came and went.
Renamed == Candidate((1 :> 0) @@ (2 :> 4),
                     (1 :> Row(1, 1, TRUE)) @@ (2 :> Row(2, 2, FALSE)), {1, 2}, Everything)
\* The second category and transaction are gone.
Shrunk == Candidate(1 :> 0, 1 :> Row(1, 1, FALSE), {1}, Everything)
\* The same, seen in a recent window that does not reach the second one.
Recent == Candidate(1 :> 0, 1 :> Row(1, 1, TRUE), {1}, {1})
\* The merged merchant is back.
Returned == Candidate((1 :> 0) @@ (2 :> 2) @@ (3 :> 4),
                      (1 :> Row(3, 1, FALSE)) @@ (2 :> Row(2, 2, TRUE)), {1, 2}, Everything)

AllCandidates == {Unchanged, Newcomer, Renamed, Shrunk, Recent, Returned}
\* A new merchant with a label that an edit may have given away.
Rival == Candidate((1 :> 0) @@ (2 :> 2) @@ (4 :> 5),
                   (3 :> Row(4, 1, FALSE)) @@ Same, {1, 2}, Everything)
Rivals == {Unchanged, Rival}
================================================================================
