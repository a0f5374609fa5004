-------------------------------- MODULE BankCSV --------------------------------
(***************************************************************************)
(* Importing bank CSV files into a local profile, again and again.          *)
(*                                                                          *)
(* Every row of a file has a source key: account, date, amount, merchant    *)
(* text and occurrence, so that a key has one merchant text for good, and   *)
(* only its category, notes and metadata may change.  The profile remembers *)
(* for each file the keys its last contents had (claims), and for each key  *)
(* whether its transaction is there, was superseded when the last claim     *)
(* went, or was deleted by the user, and whether the user overrode its      *)
(* merchant or category.  An import plans and installs in one transaction   *)
(* of the store, so that here it is one step between the user's edits.      *)
(*                                                                          *)
(* Local transaction identities are the source keys: a row keeps its own    *)
(* (CSVRow.LocalTransactionID).  Accounts, notes and metadata are left out. *)
(*                                                                          *)
(* Sources: internal/app/bankcsv_import.go, amazon_import.go (labels);      *)
(* internal/store/bankcsv.go; internal/store/sqlite/bankcsv_import.go,      *)
(* fold.go.                                                                 *)
(***************************************************************************)
EXTENDS Editing, Rebase, TLC

CONSTANTS
  Files,         \* paths a user imports
  Contents,      \* what a file may hold: categories of source keys, and whether rows were skipped
  MerchantText,  \* the merchant text of each source key
  MaxJournal,    \* bound: pending operations
  MaxRevision    \* bound: imports and commits

VARIABLES
  profile,       \* the committed profile, with its pending operations
  merchantAlias, \* "csv:merchant": collision keys of merchant texts -> merchants
  categoryAlias, \* "csv:category"
  ledger,        \* csv_rows: source key -> overrides and disposition
  filed,         \* csv_files: file -> its last contents
  claims,        \* csv_file_rows
  touched,       \* history: keys whose transactions an edit was about
  revision

vars == <<profile, merchantAlias, categoryAlias, ledger, filed, claims, touched, revision>>

Keys == DOMAIN MerchantText
Committed == profile.committed
Active == SubSeq(profile.journal, 1, profile.cursor)
Effective == Replay(Committed, Active)
Pending == Affected(Committed, Active)
Rows == Committed.transactions

--------------------------------------------------------------------------------
(* Entities an import needs.                                                  *)

Suffixed(label) == 1000 + label

\* allocateAmazonLabel: the label, or one with a suffix when an active entity has its key.
Allocated(entities, label) == IF KeyInUse(entities, NoEntity, label) THEN Suffixed(label) ELSE label

\* New identities, one for each collision key.
FreshMerchant(key) == 100 + key
FreshCategory(key) == 200 + key

NewKeys(labels, alias) == {CollisionKey(l) : l \in labels} \ DOMAIN alias
WithKey(labels, key) == CHOOSE l \in labels : CollisionKey(l) = key

MerchantsFor(labels) ==
  [m \in {FreshMerchant(key) : key \in NewKeys(labels, merchantAlias)} |->
     NewEntity(Allocated(Committed.merchants, WithKey(labels, m - 100)))]
CategoriesFor(labels) ==
  [c \in {FreshCategory(key) : key \in NewKeys(labels, categoryAlias) \ {CollisionKey(0)}} |->
     NewCategory(Allocated(Committed.categories, WithKey(labels, c - 200)), Uncategorized)]

\* Mutant of Destination: merges are not followed.
UnmergedDestination(entities, e) == e
\* Where an entity has been merged into; stored destinations are active (MergeDestinationsActive).
Destination(entities, e) ==
  IF e \in DOMAIN entities /\ entities[e].retired THEN entities[e].into ELSE e

\* csvEntities.merchant and category.
MerchantOf(label) ==
  LET key == CollisionKey(label)
  IN IF key \in DOMAIN merchantAlias THEN Destination(Committed.merchants, merchantAlias[key])
                                     ELSE FreshMerchant(key)
CategoryOf(label) ==
  LET key == CollisionKey(label)
  IN CASE key = CollisionKey(0) -> Uncategorized
       [] key \in DOMAIN categoryAlias -> Destination(Committed.categories, categoryAlias[key])
       [] OTHER -> FreshCategory(key)

--------------------------------------------------------------------------------
(* buildCSVImportPlan                                                         *)

Claimed(f) == {k \in Keys : <<f, k>> \in claims}
Elsewhere(f) == {k \in Keys : \E g \in Files \ {f} : <<g, k>> \in claims}

\* The rows of a file that are written: new ones, superseded ones, and those the file had before.
Taken(f, file) ==
  {k \in DOMAIN file.rows :
     k \in DOMAIN ledger =>
       \/ ledger[k].disposition = "superseded"
       \/ ledger[k].disposition = "present" /\ k \in Claimed(f)}

NewRow == [merchantOverride |-> FALSE, categoryOverride |-> FALSE, disposition |-> "present"]

TransactionOf(k, file) ==
  LET live == k \in DOMAIN Rows
  IN [merchant |-> IF live /\ ledger[k].merchantOverride THEN Rows[k].merchant
                   ELSE MerchantOf(MerchantText[k]),
      category |-> IF live /\ ledger[k].categoryOverride THEN Rows[k].category
                   ELSE CategoryOf(file.rows[k]),
      hidden |-> live /\ Rows[k].hidden]

\* Mutant of Incoming: a file that skipped rows claims the others only.
IncomingDespiteSkips(f, file) == DOMAIN file.rows
\* A file with skipped rows keeps its earlier claims.
Incoming(f, file) == DOMAIN file.rows \cup (IF file.skipped THEN Claimed(f) ELSE {})

Protected(k) ==
  ledger[k].merchantOverride \/ ledger[k].categoryOverride \/ Rows[k].hidden \/ k \in Pending

\* Rows the file has lost, that no other file has and no edit is about.
Superseded(f, file) ==
  {k \in (Claimed(f) \ Incoming(f, file)) \ Elsewhere(f) :
     ledger[k].disposition = "present" /\ ~Protected(k)}

\* Which merchant texts and categories the rows look up.
MerchantsSought(taken) ==
  {MerchantText[k] : k \in {x \in taken : ~(x \in DOMAIN Rows /\ ledger[x].merchantOverride)}}
CategoriesSought(taken, file) ==
  {file.rows[k] : k \in {x \in taken : ~(x \in DOMAIN Rows /\ ledger[x].categoryOverride)}}

PlannedProfile(f, file) ==
  LET taken == Taken(f, file)
      gone == Superseded(f, file)
  IN [Committed EXCEPT
        !.merchants = @ @@ MerchantsFor(MerchantsSought(taken)),
        !.categories = @ @@ CategoriesFor(CategoriesSought(taken, file)),
        !.transactions = [k \in (DOMAIN @ \cup taken) \ gone |->
                            IF k \in taken THEN TransactionOf(k, file) ELSE @[k]]]

PlannedLedger(f, file) ==
  [k \in DOMAIN ledger \cup Taken(f, file) |->
     IF k \in Superseded(f, file) THEN [ledger[k] EXCEPT !.disposition = "superseded"]
     ELSE IF k \in DOMAIN ledger /\ k \in Taken(f, file) THEN [ledger[k] EXCEPT !.disposition = "present"]
     ELSE IF k \in DOMAIN ledger THEN ledger[k] ELSE NewRow]

\* The same bytes that were imported without a skipped row.
Unchanged(f, file) == f \in DOMAIN filed /\ filed[f] = file /\ ~file.skipped

\* ApplyCSVImport: an unchanged file is imported when the user forces it.  A plan that would lose a
\* pending edit, or cannot replay one, is refused as a whole.
Import(f, file, force) ==
  /\ revision < MaxRevision /\ revision' = revision + 1
  /\ force <=> Unchanged(f, file)
  /\ \E planned \in {PlannedProfile(f, file)} :
     \E rebased \in {RebaseOnto(planned, Committed, Active)} :
     /\ ValidProfile(planned) /\ rebased.accepted /\ rebased.journal = Active
     /\ profile' = [committed |-> planned, journal |-> Active, cursor |-> Len(Active)]
     /\ ledger' = PlannedLedger(f, file)
     /\ filed' = [g \in DOMAIN filed \cup {f} |-> IF g = f THEN file ELSE filed[g]]
     /\ claims' = {c \in claims : c[1] # f} \cup ({f} \X Incoming(f, file))
     /\ merchantAlias' = merchantAlias
          @@ [key \in NewKeys(MerchantsSought(Taken(f, file)), merchantAlias) |-> FreshMerchant(key)]
     /\ categoryAlias' = categoryAlias
          @@ [key \in NewKeys(CategoriesSought(Taken(f, file), file), categoryAlias) \ {CollisionKey(0)} |->
                FreshCategory(key)]
     /\ touched' = touched \cup Affected(planned, Active)

--------------------------------------------------------------------------------
(* The user's edits.                                                          *)

HideToggles(effective) ==
  {h \in {HideToggle(HideTargets(effective, targets)) : targets \in Selections(effective)} :
     h.type \in Kinds}

Edit ==
  /\ profile.cursor < MaxJournal /\ revision < MaxRevision
  /\ LET effective == Effective
     IN \E op \in Drafts(Committed, effective) \cup HideToggles(effective) :
          /\ profile' = [profile EXCEPT !.journal = Append(Active, op), !.cursor = @ + 1]
          /\ touched' = touched \cup AffectedByOperation(effective, op)
  /\ UNCHANGED <<merchantAlias, categoryAlias, ledger, filed, claims, revision>>

MoveCursor ==
  /\ \E cursor \in {profile.cursor - 1, profile.cursor + 1} \cap 0 .. Len(profile.journal) :
       profile' = [profile EXCEPT !.cursor = cursor]
  /\ touched' = touched \cup Affected(Committed, SubSeq(profile.journal, 1, profile'.cursor))
  /\ UNCHANGED <<merchantAlias, categoryAlias, ledger, filed, claims, revision>>

MerchantEdits == {"merchant.label", "merchant.merge", "merchant.reassign"}
CategoryEdits ==
  {"category.assign", "category.create", "category.label", "category.move", "category.merge",
   "category.delete", "group.label", "group.merge", "group.delete"}

\* foldCSVOverrides: what each operation was about when it was applied.
FoldedBy(types) ==
  LET before == Prefixes(Committed, Active)
  IN UNION {AffectedByOperation(before[i - 1], Active[i]) : i \in {j \in 1..Len(Active) : Active[j].type \in types}}

Commit ==
  /\ profile.cursor > 0 /\ revision < MaxRevision /\ revision' = revision + 1
  /\ profile' = [committed |-> Effective, journal |-> <<>>, cursor |-> 0]
  /\ ledger' = [k \in DOMAIN ledger |->
       [merchantOverride |-> ledger[k].merchantOverride \/ k \in FoldedBy(MerchantEdits),
        categoryOverride |-> ledger[k].categoryOverride \/ k \in FoldedBy(CategoryEdits),
        disposition |-> IF k \in FoldedBy({"transaction.delete"}) THEN "deleted" ELSE ledger[k].disposition]]
  /\ UNCHANGED <<merchantAlias, categoryAlias, filed, claims, touched>>

Pristine ==
  [merchants |-> <<>>, groups |-> Uncategorized :> NewEntity(0),
   categories |-> Uncategorized :> NewCategory(0, Uncategorized), transactions |-> <<>>]

Init ==
  /\ profile = [committed |-> Pristine, journal |-> <<>>, cursor |-> 0]
  /\ merchantAlias = <<>> /\ categoryAlias = <<>> /\ ledger = <<>> /\ filed = <<>>
  /\ claims = {} /\ touched = {} /\ revision = 0

Next ==
  \/ \E f \in Files, file \in Contents, force \in BOOLEAN : Import(f, file, force)
  \/ Edit \/ MoveCursor \/ Commit

Spec == Init /\ [][Next]_vars

--------------------------------------------------------------------------------
(* Properties                                                                 *)

\* What an import or a commit stores can be opened, at every position of the journal, and the source
\* records agree with it (ValidateCSVState).
Consistent ==
  /\ ValidProfile(Committed) /\ Replays(Committed, profile.journal)
  /\ \A k \in DOMAIN ledger : (ledger[k].disposition = "present") <=> k \in DOMAIN Rows

\* Whatever the user has merged, renamed, deleted or hidden, and whatever was imported before, every
\* file can still be imported once no edit is pending.
AlwaysImportable ==
  \A planned \in {PlannedProfile(f, file) : f \in Files, file \in Contents} : ValidProfile(planned)

\* Every row of a file's last contents is a transaction unless the user deleted it; and a
\* transaction that no file has any more is one the user had edited (docs/guide/bank-csv.md: "A
\* missing, unedited transaction is removed only when no other imported file still contains it").
SourceKept ==
  /\ \A f \in DOMAIN filed :
       \A k \in DOMAIN filed[f].rows : k \in DOMAIN ledger /\ ledger[k].disposition # "superseded"
  /\ \A k \in DOMAIN Rows : (\E f \in Files : k \in Claimed(f)) \/ k \in touched

\* A file whose rows could not all be read takes no transaction away.
SkipsRemoveNothing ==
  [][\A f \in Files :
       f \in DOMAIN filed' /\ filed'[f].skipped /\ (f \in DOMAIN filed => filed[f] # filed'[f]) =>
         DOMAIN Rows \subseteq DOMAIN Rows']_vars

\* A deletion the user committed is final, whichever files come back.
DeletionsFinal ==
  [][\A k \in DOMAIN ledger : ledger[k].disposition = "deleted" => k \notin DOMAIN Rows']_vars

MerchantEdited(k) == ledger[k].merchantOverride \/ k \in FoldedBy(MerchantEdits)
CategoryEdited(k) ==
  ledger[k].categoryOverride \/ k \in FoldedBy({"category.assign", "category.create"})

\* An import leaves the user's edits alone, committed or pending: their transactions stay, with
\* their visibility and with the merchant and the category that were edited.
EditsKept ==
  [][filed' # filed =>
       LET before == Effective
           after == Effective'
       IN \A k \in DOMAIN before.transactions :
            k \in Pending \/ MerchantEdited(k) \/ CategoryEdited(k) \/ Rows[k].hidden =>
              /\ k \in DOMAIN after.transactions
              /\ after.transactions[k].hidden = before.transactions[k].hidden
              /\ MerchantEdited(k) =>
                   Materialized(after, k).merchant = Materialized(before, k).merchant
              /\ CategoryEdited(k) =>
                   Materialized(after, k).category = Materialized(before, k).category]_vars
================================================================================
