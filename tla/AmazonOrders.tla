------------------------------ MODULE AmazonOrders ------------------------------
(***************************************************************************)
(* Importing Amazon order histories into a local profile, again and again.  *)
(*                                                                          *)
(* Rows have no identity of their own: an import pairs the rows of every    *)
(* order it observes with the purchases the profile has of that order, keeps *)
(* the purchases that lost their row as retired, and brings them back with   *)
(* the edits they had when the row comes back.  It plans and installs in    *)
(* one transaction of the store, so that here it is one step between the    *)
(* user's edits.  Editing begins after the first import.                    *)
(*                                                                          *)
(* A source identity is the local transaction it was made for.  Accounts    *)
(* (one for an order), dates, money and notes are left out; of the facts of *)
(* a row, "facts" are those of its identity and "status" is another one.    *)
(*                                                                          *)
(* Sources: internal/app/amazon_import.go, amazon_reconcile.go;             *)
(* internal/store/sqlite/amazon_import.go, fold.go;                         *)
(* internal/importer/amazon/fingerprint.go, csv.go.                         *)
(***************************************************************************)
EXTENDS Editing, Rebase, FiniteSets, TLC

CONSTANTS
  Candidates,   \* what an import may observe: orders, and rows in the order of the files
  Cloned,       \* categories the first import copies from another profile: identity -> label
  MaxItems,     \* bound: purchases
  MaxJournal,   \* bound: pending operations
  MaxImports, MaxCommits  \* bounds

VARIABLES
  profile,      \* the committed profile, with its pending operations
  products,     \* "amazon/product" identities: product key -> merchant
  items,        \* amazon_order_items
  last,         \* history: the last candidate
  seen,         \* history: the last committed record of what the user has not deleted
  imports, commits

vars == <<profile, products, items, last, seen, imports, commits>>

Committed == profile.committed
Active == SubSeq(profile.journal, 1, profile.cursor)
Effective == Replay(Committed, Active)
Rows == Committed.transactions
Unimported == [orders |-> {}, rows |-> <<>>]

ProductKey(row) == <<row.asin, IF row.asin = 0 THEN CollisionKey(row.product) ELSE 0>>
FreshMerchant(key) == 100 + 10 * key[1] + key[2]

\* Fingerprints: what makes two rows the same purchase.
SameIdentity(a, b) ==
  /\ a.order = b.order /\ a.product = b.product /\ a.facts = b.facts
  /\ ProductKey(a) = ProductKey(b)

--------------------------------------------------------------------------------
(* Pairing purchases with rows (reconcileAmazonRows).                         *)

\* Mutant of ExactPairs: a row is paired with every purchase it is alike.
EveryAlike(present, rows, incoming) ==
  {p \in present \X incoming : SameIdentity(items[p[1]], rows[p[2]])}
\* The i-th purchase with the i-th row of the same identity.
ExactPairs(present, rows, incoming) ==
  LET purchases(i) == {e \in present : SameIdentity(items[e], rows[i])}
      before(i) == {j \in incoming : j < i /\ SameIdentity(rows[j], rows[i])}
      nth(S, n) == {e \in S : Cardinality({d \in S : d < e}) = n}
  IN UNION {{<<e, i>> : e \in nth(purchases(i), Cardinality(before(i)))} : i \in incoming}

\* The one purchase left of a product with the one row left of it; rows without an ASIN count as one
\* product.
SinglePairs(present, rows, incoming) ==
  LET of(product, i) == product.order = rows[i].order /\ product.asin = rows[i].asin
      purchases(i) == {e \in present : of(items[e], i)}
      alone(i) == {j \in incoming : of(rows[j], i)} = {i} /\ Cardinality(purchases(i)) = 1
  IN UNION {{<<e, i>> : e \in purchases(i)} : i \in {j \in incoming : alone(j)}}

Purchases(pairs) == {p[1] : p \in pairs}
Paired(pairs) == {p[2] : p \in pairs}

Unretired == {e \in DOMAIN items : ~items[e].retired}

\* pairAmazonOrder, for all orders at once.
Pairs(candidate) ==
  LET rows == candidate.rows
      exact == ExactPairs(Unretired, rows, DOMAIN rows)
      restored == ExactPairs(DOMAIN items \ Unretired, rows, DOMAIN rows \ Paired(exact))
      single == SinglePairs(Unretired \ Purchases(exact), rows,
                            DOMAIN rows \ (Paired(exact) \cup Paired(restored)))
  IN UNION {exact, restored, single}

\* Purchases of the observed orders that have no row any more.
Lost(candidate, pairs) ==
  {e \in Unretired \ Purchases(pairs) : items[e].order \in candidate.orders}

NewRows(candidate) == DOMAIN candidate.rows \ Paired(Pairs(candidate))

\* Random identities for new rows: they sort either way.
Placed(candidate, ascending) ==
  LET new == NewRows(candidate)
      place(i) == Cardinality({j \in new : IF ascending THEN j <= i ELSE j >= i})
  IN {<<Cardinality(DOMAIN items) + place(i), i>> : i \in new}

Unknown == [merchant |-> NoEntity, category |-> NoEntity, hidden |-> FALSE]

\* Mutant of LocalOf: what a purchase was imported with is what comes back.
LocalAtFirst(e) == IF e \in DOMAIN items THEN items[e].local ELSE Unknown
\* The record a purchase has, or had when it was last a transaction.
LocalOf(e) ==
  IF e \in DOMAIN Rows THEN Rows[e] ELSE IF e \in DOMAIN items THEN items[e].local ELSE Unknown

Reconciled(candidate, new) ==
  LET pairs == Pairs(candidate) \cup new
      lost == Lost(candidate, pairs)
      rowOf(e) == candidate.rows[CHOOSE i \in Paired(pairs) : <<e, i>> \in pairs]
      record(row, retired, e) ==
        [order |-> row.order, asin |-> row.asin, product |-> row.product, facts |-> row.facts,
         status |-> row.status, retired |-> retired, local |-> LocalOf(e)]
  IN [e \in DOMAIN items \cup Purchases(new) |->
        IF e \in Purchases(pairs) THEN record(rowOf(e), FALSE, e)
        ELSE record(items[e], items[e].retired \/ e \in lost, e)]

--------------------------------------------------------------------------------
(* The transactions of the purchases (materializeAmazonCommitted).            *)

NewProducts(reconciled) ==
  {ProductKey(reconciled[e]) : e \in {x \in DOMAIN reconciled : ~reconciled[x].retired}} \ DOMAIN products
ProductOf(key) == IF key \in DOMAIN products THEN products[key] ELSE FreshMerchant(key)
ProductsWith(reconciled) == [key \in DOMAIN products \cup NewProducts(reconciled) |-> ProductOf(key)]

LabelOf(reconciled, key) ==
  reconciled[CHOOSE e \in DOMAIN reconciled : ~reconciled[e].retired /\ ProductKey(reconciled[e]) = key].product
\* allocateAmazonLabel: a label that is taken gets a suffix.
NewMerchants(reconciled) ==
  LET new == NewProducts(reconciled)
  IN [m \in {FreshMerchant(key) : key \in new} |->
     LET label == LabelOf(reconciled, CHOOSE key \in new : FreshMerchant(key) = m)
     IN NewEntity(IF KeyInUse(Committed.merchants, NoEntity, label) THEN 1000 + label ELSE label)]

\* activeAmazonMerchant and activeAmazonCategory.
Follow(entities, e, otherwise) ==
  CASE e \in ActiveIn(entities) -> e
    [] e \in DOMAIN entities /\ entities[e].into \in ActiveIn(entities) -> entities[e].into
    [] OTHER -> otherwise

\* A purchase that is a transaction: its merchant follows its product unless the user chose another.
Kept(e, reconciled) ==
  [Rows[e] EXCEPT !.merchant =
     IF /\ e \in DOMAIN items /\ ProductKey(items[e]) \in DOMAIN products
        /\ @ = products[ProductKey(items[e])]
     THEN ProductOf(ProductKey(reconciled[e])) ELSE @]

Materialize(e, reconciled) ==
  LET local == LocalOf(e)
      merchant == ProductOf(ProductKey(reconciled[e]))
  IN IF e \in DOMAIN Rows THEN Kept(e, reconciled)
     ELSE IF local = Unknown THEN [merchant |-> merchant, category |-> Uncategorized, hidden |-> FALSE]
     ELSE [merchant |-> Follow(Committed.merchants, local.merchant, merchant),
           category |-> Follow(Committed.categories, local.category, Uncategorized),
           hidden |-> local.hidden]

PlannedProfile(reconciled) ==
  LET present == {e \in DOMAIN reconciled : ~reconciled[e].retired}
  IN [Committed EXCEPT
        !.merchants = @ @@ NewMerchants(reconciled),
        !.transactions = [e \in present |-> Materialize(e, reconciled)]]

PlannedItems(reconciled) ==
  [e \in DOMAIN reconciled |->
     IF reconciled[e].retired THEN reconciled[e]
     ELSE [reconciled[e] EXCEPT !.local = Materialize(e, reconciled)]]

\* ApplyAmazonImport.  What is left of the pending edits stays; a plan that is not a valid profile, or
\* that a pending edit cannot be applied to, is refused.
Store(candidate, reconciled, planned, rebased) ==
  /\ ValidProfile(planned) /\ rebased.accepted
  /\ profile' = [committed |-> planned, journal |-> rebased.journal, cursor |-> Len(rebased.journal)]
  /\ products' = ProductsWith(reconciled)
  /\ items' = PlannedItems(reconciled)
  /\ last' = candidate
  /\ seen' = planned.transactions @@ seen

Import(candidate, ascending) ==
  /\ imports < MaxImports /\ imports' = imports + 1
  /\ \E new \in {Placed(candidate, ascending)} :
       /\ ascending \/ Cardinality(new) > 1
       /\ Cardinality(DOMAIN items) + Cardinality(new) <= MaxItems
       /\ \E reconciled \in {Reconciled(candidate, new)} :
          \E planned \in {PlannedProfile(reconciled)} :
            Store(candidate, reconciled, planned, RebaseOnto(planned, Committed, Active))
  /\ UNCHANGED commits

--------------------------------------------------------------------------------
(* The user's edits.                                                          *)

HideToggles(effective) ==
  {h \in {HideToggle(HideTargets(effective, targets)) : targets \in Selections(effective)} :
     h.type \in Kinds}

Edit ==
  /\ last # Unimported /\ profile.cursor < MaxJournal /\ commits < MaxCommits
  /\ LET effective == Effective
     IN \E op \in Drafts(Committed, effective) \cup HideToggles(effective) :
          profile' = [profile EXCEPT !.journal = Append(Active, op), !.cursor = @ + 1]
  /\ UNCHANGED <<products, items, last, seen, imports, commits>>

MoveCursor ==
  /\ \E cursor \in {profile.cursor - 1, profile.cursor + 1} \cap 0 .. Len(profile.journal) :
       profile' = [profile EXCEPT !.cursor = cursor]
  /\ UNCHANGED <<products, items, last, seen, imports, commits>>

\* The fold of a local profile: the purchases are not told.
Commit ==
  /\ profile.cursor > 0 /\ commits < MaxCommits /\ commits' = commits + 1
  /\ profile' = [committed |-> Effective, journal |-> <<>>, cursor |-> 0]
  /\ seen' = Effective.transactions @@ [t \in DOMAIN seen \ DOMAIN Rows |-> seen[t]]
  /\ UNCHANGED <<products, items, last, imports>>

\* initializeAmazonTaxonomy
Taxonomy ==
  [merchants |-> <<>>, groups |-> Uncategorized :> NewEntity(0),
   categories |-> Uncategorized :> NewCategory(0, Uncategorized)
                    @@ [c \in DOMAIN Cloned |-> NewCategory(Cloned[c], Uncategorized)],
   transactions |-> <<>>]

Init ==
  /\ profile = [committed |-> Taxonomy, journal |-> <<>>, cursor |-> 0]
  /\ products = <<>> /\ items = <<>> /\ last = Unimported /\ seen = <<>> /\ imports = 0 /\ commits = 0

Next ==
  \/ \E candidate \in Candidates, ascending \in BOOLEAN : Import(candidate, ascending)
  \/ Edit \/ MoveCursor \/ Commit

Spec == Init /\ [][Next]_vars

--------------------------------------------------------------------------------
(* Properties                                                                 *)

\* What an import or a commit stores can be opened, at every position of the journal, and purchases
\* that are not retired are transactions unless the user deleted them (validateAmazonLedger).
Consistent ==
  /\ ValidProfile(Committed) /\ Replays(Committed, profile.journal)
  /\ DOMAIN Rows \subseteq Unretired

RowOf(item) ==
  [order |-> item.order, asin |-> item.asin, product |-> item.product, facts |-> item.facts,
   status |-> item.status]
Count(S, P(_)) == Cardinality({x \in S : P(x)})

\* After an import an observed order has one purchase for each of its rows, however often the rows
\* were imported, cancelled, corrected or doubled before, and no other purchase.
ObservedIsAuthoritative ==
  /\ \A e \in Unretired : items[e].order \in last.orders =>
       Count(Unretired, LAMBDA x : RowOf(items[x]) = RowOf(items[e]))
         = Count(DOMAIN last.rows, LAMBDA i : last.rows[i] = RowOf(items[e]))
  /\ \A i \in DOMAIN last.rows : \E e \in Unretired : RowOf(items[e]) = last.rows[i]

Deleted == Unretired \ DOMAIN Rows

\* Importing the same rows again adds nothing but what the user deleted, takes nothing away and
\* changes no committed record, whatever the user did since.
ReimportKeeps ==
  last # Unimported =>
    LET again == PlannedProfile(Reconciled(last, Placed(last, TRUE))).transactions
    IN /\ NewRows(last) = {} /\ DOMAIN again = DOMAIN Rows \cup Deleted
       /\ \A t \in DOMAIN Rows : again[t] = Rows[t]

\* Orders an import does not observe keep their transactions as they are.
OthersKept ==
  [][last' # last =>
       \A t \in DOMAIN Rows : items[t].order \notin last'.orders =>
         t \in DOMAIN Rows' /\ Rows'[t] = Rows[t]]_vars

\* An import changes neither the category nor the visibility shown of a purchase that stays, and
\* its merchant only when the product itself was corrected and the user had not chosen another one.
ShownKept ==
  [][items' # items =>
       \A t \in DOMAIN Effective.transactions \cap DOMAIN Effective'.transactions :
         LET before == Effective.transactions[t]
             after == Effective'.transactions[t]
         IN /\ after.category = before.category /\ after.hidden = before.hidden
            /\ after.merchant # before.merchant =>
                 /\ ProductKey(items'[t]) # ProductKey(items[t])
                 /\ Rows[t].merchant = products[ProductKey(items[t])]]_vars

\* A purchase whose row comes back has the edits it had when it was last a transaction, with the
\* categories and merchants those have been merged into since.
RestoredAsLeft ==
  [][\A t \in {e \in DOMAIN seen \cap DOMAIN Rows' : items[e].retired} :
       LET now == Rows'[t]
           was == seen[t]
           at(entities, e) == IF entities[e].retired THEN entities[e].into ELSE e
       IN /\ now.hidden = was.hidden
          /\ now.category = at(Committed.categories, was.category)
          /\ now.merchant = at(Committed.merchants, was.merchant)]_vars

\* A purchase the user deleted does not come back (docs/guide/amazon-mode.md: "deletions ...
\* Reimporting an export keeps those edits").
DeletionsKept == [][Deleted \cap DOMAIN Rows' = {}]_vars
================================================================================
