-------------------------------- MODULE MCImports -------------------------------
(***************************************************************************)
(* Profiles that files are imported into: a profile of bank CSV files       *)
(* (BankCSV) or of Amazon orders (AmazonOrders), never both.                *)
(*                                                                          *)
(* Two CSV files with two purchases of two merchants.  An Amazon order of a *)
(* product with an ASIN and one without, with a doubled row, a status       *)
(* update, corrections of either and a cancellation; and another order of   *)
(* the first product.  Labels 2k and 2k + 1 share a collision key; label 0  *)
(* is Uncategorized.                                                        *)
(***************************************************************************)
EXTENDS BankCSV

CONSTANTS f1, f2, MaxItems, MaxImports, MaxCommits

VARIABLES source, account, products, items, last, seen, imports, commits

orderVars == <<account, products, items, last, seen, imports, commits>>

MCFiles == {f1, f2}
MCText == <<10, 12>>
File(rows, skipped) == [rows |-> rows, skipped |-> skipped]
MCContents ==
  {File(<<>>, FALSE), File(1 :> 20, FALSE), File(1 :> 22, FALSE), File(1 :> 20 @@ 2 :> 0, FALSE),
   File(2 :> 20, TRUE)}
MCKinds ==
  {"merchant.merge", "category.assign", "category.merge", "transaction.hide-toggle", "transaction.delete"}

Row(order, asin, product, facts, status) ==
  [order |-> order, asin |-> asin, product |-> product, facts |-> facts, status |-> status]
Lamp == Row(1, 1, 10, 1, 1)
Shipped == Row(1, 1, 10, 1, 2)
Repriced == Row(1, 1, 10, 2, 1)
Tea == Row(1, 0, 12, 1, 1)
TeaRenamed == Row(1, 0, 14, 1, 1)
OtherLamp == Row(2, 1, 10, 1, 1)
Observed(orders, rows) == [orders |-> orders, rows |-> rows]
MCCandidates ==
  {Observed({1}, <<>>), Observed({1}, <<Lamp, Tea>>), Observed({1}, <<Shipped>>),
   Observed({1}, <<Repriced>>), Observed({1}, <<TeaRenamed, Shipped, Lamp>>),
   Observed({2}, <<OtherLamp>>)}

DeletionsOnly == {"transaction.delete"}

\* Edits of purchases; hiding is tried on CSV rows.
OrderKinds == Kinds \ {"transaction.hide-toggle"}

Orders == INSTANCE AmazonOrders WITH
  Candidates <- MCCandidates, Cloned <- 2 :> 20 @@ 3 :> 22, Kinds <- OrderKinds,
  Categories <- {1, 2, 3}, profile <- account

MCInit == source \in {"csv", "amazon"} /\ Init /\ Orders!Init
MCNext ==
  \/ source = "csv" /\ Next /\ UNCHANGED <<source, orderVars>>
  \/ source = "amazon" /\ Orders!Next /\ UNCHANGED <<source, vars>>
MCSpec == MCInit /\ [][MCNext]_<<source, vars, orderVars>>

\* The properties of either source.  What is stored can be opened, at every position of the journal,
\* agrees with the records of its source, and lets every CSV file be imported again (Consistent of
\* either, AlwaysImportable).
StaysImportable ==
  /\ source = "csv" => Consistent /\ AlwaysImportable
  /\ source = "amazon" => Orders!Consistent

\* Transactions are those of the source: of the rows the CSV files hold now, and one for each row of
\* an observed order; and importing the same rows again changes nothing (SourceKept,
\* ObservedIsAuthoritative, ReimportKeeps).
SourceIsFollowed ==
  /\ source = "csv" => SourceKept
  /\ source = "amazon" => Orders!ObservedIsAuthoritative /\ Orders!ReimportKeeps

\* An import takes nothing away that it has not read, and brings no deleted CSV row back
\* (SkipsRemoveNothing, DeletionsFinal, OthersKept).
OnlyReadRowsChange == SkipsRemoveNothing /\ DeletionsFinal /\ Orders!OthersKept

\* An import leaves the user's edits alone, those of a purchase that comes back among them
\* (EditsKept, ShownKept, RestoredAsLeft).
UserEditsKept == EditsKept /\ Orders!ShownKept /\ Orders!RestoredAsLeft

\* A deleted purchase does not come back.
DeletionsKept == Orders!DeletionsKept
================================================================================
