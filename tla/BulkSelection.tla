--------------------------- MODULE BulkSelection ----------------------------
(***************************************************************************)
(* Ticking rows of a list and acting on all of them, in the five pages     *)
(* that offer it.  "debts", "accounts" and "transfers" send one deletion   *)
(* per row over one observer and wait for all; "transactions" and          *)
(* "account" (the page of one account) send one request for all rows,      *)
(* which deletes them or files them under a category.                      *)
(***************************************************************************)
EXTENDS Naturals, FiniteSets, ApiMutation

CONSTANTS
  Item,        \* rows that can be listed
  SecondPage,  \* those on the second page of a paged list
  MaxBatches   \* bound: batches confirmed

ASSUME BulkAssumption == IsFiniteSet(Item) /\ SecondPage \subseteq Item /\ MaxBatches \in Nat

PerRow == {"debts", "accounts", "transfers"}
Paged == {"transactions", "account"}

VARIABLES
  bulk_page,  \* the page that is mounted
  rows,       \* the items that exist at the server
  listed,     \* the rows the page has loaded
  view,       \* the page of the list, and the tab of the debts page
  bulk,       \* state of useBulkSelection; the dialog of the accounts page
  batches,    \* batches of which not everything is answered
  bulk_log    \* counter of the bound; history: rows ticked in this mode, rows that failed,
              \* sizes of the batches whose rows were sent again before they were answered

bulk_vars == <<bulk_page, rows, listed, view, bulk, batches, bulk_log>>

Idle == [mode |-> FALSE, selected |-> {}, confirm |-> FALSE]

BulkInit ==
  /\ bulk_page = "none"
  /\ rows = Item /\ listed = Item
  /\ view = [page |-> 1, tab |-> "first"]
  /\ bulk = Idle
  /\ batches = {}
  /\ bulk_log = [n |-> 0, ticked |-> {}, failed |-> {}, again |-> {}]

OpenList(p) ==
  /\ bulk_page = "none" /\ bulk_page' = p
  /\ UNCHANGED <<rows, listed, view, bulk, batches, bulk_log>>

\* The rows of the table: a paged list shows one page of them.
Visible ==
  IF bulk_page \in Paged
    THEN {i \in listed : (i \in SecondPage) <=> (view.page = 2)}
    ELSE listed

EnterBulkMode ==
  /\ bulk_page # "none" /\ ~bulk.mode
  /\ bulk_page = "debts" => view.tab = "first"
  /\ bulk' = IF bulk_page = "transfers" THEN [Idle EXCEPT !.mode = TRUE]
             ELSE [bulk EXCEPT !.mode = TRUE]
  /\ bulk_log' = [bulk_log EXCEPT !.ticked = {}]
  /\ UNCHANGED <<bulk_page, rows, listed, view, batches>>

\* exitBulkMode
AfterExitFaulty == [bulk EXCEPT !.mode = FALSE, !.confirm = FALSE]
AfterExit == [bulk EXCEPT !.mode = FALSE, !.selected = {}]

ExitBulkMode ==
  /\ bulk.mode /\ ~bulk.confirm
  /\ bulk' = AfterExit
  /\ UNCHANGED <<bulk_page, rows, listed, view, batches, bulk_log>>

\* Tabs of the debts page: the mode belongs to the first.
AfterTabFaulty(tab) == bulk
AfterTab(tab) == IF tab = "other" /\ bulk.mode THEN AfterExit ELSE bulk

SwitchTab ==
  /\ bulk_page = "debts"
  /\ view' = [view EXCEPT !.tab = IF @ = "first" THEN "other" ELSE "first"]
  /\ bulk' = AfterTab(view'.tab)
  /\ UNCHANGED <<bulk_page, rows, listed, batches, bulk_log>>

\* Another page of the list, or a filter, keeps what is ticked.
TurnPage ==
  /\ bulk_page \in Paged
  /\ view' = [view EXCEPT !.page = 3 - @]
  /\ UNCHANGED <<bulk_page, rows, listed, bulk, batches, bulk_log>>

SelectRows(selected) ==
  /\ bulk.mode /\ ~bulk.confirm
  /\ bulk' = [bulk EXCEPT !.selected = selected]
  /\ bulk_log' = [bulk_log EXCEPT !.ticked = (@ \cup selected) \ (bulk.selected \ selected)]
  /\ UNCHANGED <<bulk_page, rows, listed, view, batches>>

ToggleSelect(i) ==
  /\ i \in Visible
  /\ SelectRows(IF i \in bulk.selected THEN bulk.selected \ {i} ELSE bulk.selected \cup {i})

\* The box in the head of the table: all rows in sight and no other, or none.
SelectAllRows ==
  /\ bulk_page \in Paged \cup {"transfers"}
  /\ Visible # {}
  /\ SelectRows(IF Visible \subseteq bulk.selected THEN {} ELSE Visible)

-----------------------------------------------------------------------------
(* Batches *)

\* isPending of an observer tells of the request it was given last.
BusyFaulty(command) == FALSE
Busy(command) ==
  \E b \in batches :
    /\ b.command = command
    /\ \A c \in batches : c.command = command => c.n <= b.n
    /\ b.requests[b.last] \in {"sent", "done", "declined"}

\* The accounts page asks first.
AskBatch ==
  /\ bulk_page = "accounts" /\ bulk.mode /\ bulk.selected # {}
  /\ ~bulk.confirm /\ ~Busy("delete")
  /\ bulk' = [bulk EXCEPT !.confirm = TRUE]
  /\ UNCHANGED <<bulk_page, rows, listed, view, batches, bulk_log>>

DismissBatch ==
  /\ bulk.confirm
  /\ bulk' = [bulk EXCEPT !.confirm = FALSE]
  /\ UNCHANGED <<bulk_page, rows, listed, view, batches, bulk_log>>

\* The batches that still have a row of the selection to delete.
Overlapped ==
  {b \in batches : \E r \in DOMAIN b.requests :
     b.command = "delete" /\ b.requests[r] = "sent" /\ r \cap bulk.selected # {}}

StartBatch(command, requests) ==
  /\ bulk.selected # {} /\ ~Busy(command)
  /\ bulk.confirm \/ (bulk.mode /\ bulk_page # "accounts")
  /\ bulk_log.n < MaxBatches
  /\ \E last \in requests :
       batches' = batches \cup
         {[n |-> bulk_log.n + 1, command |-> command, last |-> last,
           requests |-> [r \in requests |-> "sent"]]}
  /\ bulk_log' = [bulk_log EXCEPT !.n = @ + 1,
       !.again = IF command = "delete"
                   THEN @ \cup {Cardinality(DOMAIN b.requests) : b \in Overlapped} ELSE @]
  /\ UNCHANGED <<bulk_page, rows, listed, view, bulk>>

\* One request per row, or one for all.
EachRow == {{i} : i \in bulk.selected}
AllRows == {bulk.selected}

DeleteDebts == bulk_page = "debts" /\ StartBatch("delete", EachRow)
DeleteAccounts == bulk_page = "accounts" /\ StartBatch("delete", EachRow)
DeleteTransfers == bulk_page = "transfers" /\ StartBatch("delete", EachRow)
DeleteTransactions == bulk_page = "transactions" /\ StartBatch("delete", AllRows)
DeleteOnAccountPage == bulk_page = "account" /\ StartBatch("delete", AllRows)

CategorizeSelected ==
  bulk_page \in Paged /\ StartBatch("categorize", AllRows)

Put(b, r, stage) == (batches \ {b}) \cup {[b EXCEPT !.requests[r] = stage]}

\* A deletion of one row that is gone is refused; one of many skips such rows.
ServeBatch(b, r) ==
  /\ b.requests[r] = "sent"
  /\ IF bulk_page \in PerRow /\ ~(r \subseteq rows)
       THEN batches' = Put(b, r, "declined") /\ UNCHANGED rows
       ELSE /\ batches' = Put(b, r, "done")
            /\ rows' = IF b.command = "delete" THEN rows \ r ELSE rows
  /\ UNCHANGED <<bulk_page, listed, view, bulk, bulk_log>>

AnswerBatch(b, r) ==
  /\ \/ b.requests[r] = "done" /\ batches' = Put(b, r, "ok")
     \/ b.requests[r] \in {"done", "declined"} /\ batches' = Put(b, r, "failed")
  /\ UNCHANGED <<bulk_page, rows, listed, view, bulk, bulk_log>>

\* Everything is answered.  What failed stays ticked, row by row; a batch in
\* one request leaves the selection alone when it fails.
SettleBatch(b) ==
  /\ \A r \in DOMAIN b.requests : b.requests[r] \in {"ok", "failed"}
  /\ batches' = batches \ {b}
  /\ LET failed == UNION {r \in DOMAIN b.requests : b.requests[r] = "failed"}
     IN  /\ bulk' = [(IF failed = {} THEN AfterExit
                      ELSE IF bulk_page \in PerRow THEN [bulk EXCEPT !.selected = failed]
                      ELSE bulk) EXCEPT !.confirm = FALSE]
         /\ bulk_log' = [bulk_log EXCEPT !.failed = @ \cup failed]
  /\ UNCHANGED <<bulk_page, rows, listed, view>>

\* Another client deletes a row; the list is loaded again.
DeleteElsewhere(i) ==
  /\ i \in rows /\ rows' = rows \ {i}
  /\ UNCHANGED <<bulk_page, listed, view, bulk, batches, bulk_log>>

RefetchList ==
  /\ listed # rows /\ listed' = rows
  /\ UNCHANGED <<bulk_page, rows, view, bulk, batches, bulk_log>>

BulkNext ==
  \/ \E p \in PerRow \cup Paged : OpenList(p)
  \/ EnterBulkMode \/ ExitBulkMode \/ SwitchTab \/ TurnPage
  \/ (\E i \in Item : ToggleSelect(i)) \/ SelectAllRows
  \/ AskBatch \/ DismissBatch \/ CategorizeSelected
  \/ DeleteDebts \/ DeleteAccounts \/ DeleteTransfers \/ DeleteTransactions
  \/ DeleteOnAccountPage
  \/ \E b \in batches :
       \/ SettleBatch(b)
       \/ \E r \in DOMAIN b.requests : ServeBatch(b, r) \/ AnswerBatch(b, r)
  \/ (\E i \in Item : DeleteElsewhere(i)) \/ RefetchList

BulkSpec == BulkInit /\ [][BulkNext]_bulk_vars

-----------------------------------------------------------------------------
(* Properties *)

BulkTypeOK ==
  /\ bulk_page \in {"none"} \cup PerRow \cup Paged
  /\ rows \subseteq Item /\ listed \subseteq Item
  /\ view \in [page : {1, 2}, tab : {"first", "other"}]
  /\ bulk \in [mode : BOOLEAN, selected : SUBSET Item, confirm : BOOLEAN]
  /\ view.tab = "other" => ~bulk.mode
  /\ \A b \in batches : b.n \in 1 .. bulk_log.n /\ b.last \in DOMAIN b.requests

\* Whatever is ticked, and would be deleted next, was ticked by the user since
\* the mode was entered, or has failed in a batch: nothing stays ticked from an
\* earlier mode (use-bulk-selection.ts).  A batch that fails after the user has
\* left the mode does put its rows back.
SelectionIsExplained ==
  bulk.selected \subseteq bulk_log.ticked \cup bulk_log.failed

\* A deletion is not sent again before it is answered (disabled={...isPending}),
\* but for a batch of several requests: of those the observer knows the last
\* only, and its answer enables the button while the others are under way.
SentAgainOnlyFromLongBatch == 1 \notin bulk_log.again

\* Bulk actions, with requests that fail, overlap and are answered late: what is
\* ticked has a reason, and only a batch of several requests is sent twice.
BulkInvariant == BulkTypeOK /\ SelectionIsExplained /\ SentAgainOnlyFromLongBatch
=============================================================================
