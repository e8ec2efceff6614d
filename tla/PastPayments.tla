---------------------------- MODULE PastPayments ----------------------------
(***************************************************************************)
(* The banner that a loan with a start in the past shows once: its overdue *)
(* rows, ticked, to be recorded in one request.  The page draws the banner *)
(* from three queries that are refetched one by one: the debt, its         *)
(* schedule, the accounts.  A row is identified with its period.           *)
(***************************************************************************)
EXTENDS Amortization, ApiMutation, FiniteSets, FiniteSetsExt

CONSTANTS
  PastLoan,    \* the loans under test, with the same number of periods
  MaxBatches,  \* bound: batches sent
  MaxChanges   \* bound: changes by other clients

ASSUME PastAssumption ==
  /\ PastLoan # {} /\ PastLoan \subseteq LoanType
  /\ \A l, k \in PastLoan : l.num_periods = k.num_periods
  /\ MaxBatches \in Nat /\ MaxChanges \in Nat

Row == 1 .. (CHOOSE l \in PastLoan : TRUE).num_periods

VARIABLES
  past_loan,     \* its terms
  past_debt,     \* at the server: rows that are due, payments by row, linked account,
                 \* the first row on or after the day the account was opened (0: no such day)
  past_seen,     \* the copies of the screen: "debt", "schedule", "accounts"
  past_banner,   \* setup=true in the address; mounted; ticked rows; history: the changes before
  past_request,  \* the observer of useBulkPastPayments
  past_log       \* counters of the bounds; history: the last batch that was recorded

past_vars == <<past_loan, past_debt, past_seen, past_banner, past_request, past_log>>

NoDebt == [due |-> 0, pays |-> [i \in Row |-> 0], linked |-> FALSE, cutoff |-> 0]
NoBanner == [setup |-> FALSE, up |-> FALSE, checked |-> {}, base |-> 0]

PastInit ==
  /\ past_loan = CHOOSE l \in PastLoan : TRUE
  /\ past_debt = NoDebt
  /\ past_seen = [query \in {"debt", "schedule", "accounts"} |-> NoDebt]
  /\ past_banner = NoBanner
  /\ past_request = NoRequest
  /\ past_log = [batches |-> 0, changes |-> 0,
                 last |-> [warned |-> 0, moved |-> 0, alone |-> FALSE]]

PastSchedule == [l \in PastLoan |-> GenerateSchedule(l)]
RowOf(i) == PastSchedule[past_loan][i]
TotalPaid(debt) == MapThenSumSet(LAMBDA i : debt.pays[i], Row)
Current == \A query \in DOMAIN past_seen : past_seen[query] = past_debt

-----------------------------------------------------------------------------
(* The screen *)

Overdue(schedule) == {i \in Row : i <= schedule.due /\ schedule.pays[i] = 0}

\* showSetupBanner
ShownFaulty(seen, setup) == setup /\ Overdue(seen["schedule"]) # {}
Shown(seen, setup) ==
  /\ setup
  /\ Overdue(seen["schedule"]) # {}
  /\ TotalPaid(seen["debt"]) = 0

\* The ticks are set when the banner mounts and stay when the rows change.
RedrawnFaulty(seen, setup) ==
  IF past_banner.up THEN past_banner
  ELSE IF ~Shown(seen, setup) THEN [NoBanner EXCEPT !.setup = setup]
  ELSE [setup |-> setup, up |-> TRUE, checked |-> Overdue(seen["schedule"]),
        base |-> past_log.changes]
Redrawn(seen, setup) ==
  IF ~Shown(seen, setup) THEN [NoBanner EXCEPT !.setup = setup]
  ELSE IF past_banner.up THEN past_banner
  ELSE [setup |-> setup, up |-> TRUE, checked |-> Overdue(seen["schedule"]),
        base |-> past_log.changes]

\* The loan has been created and its page is shown in setup mode.
OpenSetup(l, due, linked, cutoff) ==
  /\ past_debt = NoDebt
  /\ past_loan' = l
  /\ past_debt' = [due |-> due, pays |-> [i \in Row |-> 0],
                   linked |-> linked, cutoff |-> cutoff]
  /\ past_seen' = [query \in DOMAIN past_seen |-> past_debt']
  /\ past_banner' = [setup |-> TRUE, up |-> Shown(past_seen', TRUE),
                     checked |-> Overdue(past_debt'), base |-> past_log.changes]
  /\ UNCHANGED <<past_request, past_log>>

RefetchSetup(query) ==
  /\ past_seen[query] # past_debt
  /\ past_seen' = [past_seen EXCEPT ![query] = past_debt]
  /\ past_banner' = Redrawn(past_seen', past_banner.setup)
  /\ UNCHANGED <<past_loan, past_debt, past_request, past_log>>

ToggleRow(i) ==
  /\ past_banner.up /\ ~IsPending(past_request)
  /\ i \in Overdue(past_seen["schedule"])
  /\ past_banner' = [past_banner EXCEPT !.checked =
                       IF i \in @ THEN @ \ {i} ELSE @ \cup {i}]
  /\ UNCHANGED <<past_loan, past_debt, past_seen, past_request, past_log>>

SkipSetup ==
  /\ past_banner.up /\ ~IsPending(past_request)
  /\ past_banner' = NoBanner
  /\ UNCHANGED <<past_loan, past_debt, past_seen, past_request, past_log>>

\* totalBalanceImpact: the ticked rows of the second group.
AfterCutoffFaulty(row, cutoff) == row > cutoff
AfterCutoff(row, cutoff) == row >= cutoff

Warned ==
  MapThenSumSet(LAMBDA i : RowOf(i).payment_minor,
    {i \in past_banner.checked \cap Overdue(past_seen["schedule"]) :
       AfterCutoff(i, past_seen["accounts"].cutoff)})

ConfirmSetup ==
  /\ past_banner.up /\ ~IsPending(past_request)
  /\ past_seen["debt"].linked /\ past_banner.checked # {}
  /\ past_log.batches < MaxBatches
  /\ past_request' = Request([rows |-> past_banner.checked, warned |-> Warned,
                              current |-> Current, base |-> past_banner.base,
                              again |-> {i \in past_banner.checked : past_debt.pays[i] > 0}])
  /\ past_log' = [past_log EXCEPT !.batches = @ + 1]
  /\ UNCHANGED <<past_loan, past_debt, past_seen, past_banner>>

\* onComplete removes setup=true, if the banner is still there.
AnswerSetup ==
  /\ IsPending(past_request) /\ past_request' = NoRequest
  /\ \/ AnsweredWell(past_request)
        /\ past_banner' = IF past_banner.up THEN NoBanner ELSE past_banner
     \/ AnsweredBadly(past_request) /\ ~AtServer(past_request) /\ UNCHANGED past_banner
  /\ UNCHANGED <<past_loan, past_debt, past_seen, past_log>>

-----------------------------------------------------------------------------
(* The server: bulk_record_past_payments, which keeps all rows or none *)

Principal(rows) ==
  MapThenSumSet(LAMBDA i : RowOf(i).payment_minor - RowOf(i).interest_minor, rows)

PaidPrincipal ==
  MapThenSumSet(LAMBDA i : past_debt.pays[i] * Principal({i}), Row)

\* TransactionCreate takes no row that asks for nothing.
RowsAccepted(rows) ==
  /\ past_debt.linked
  /\ \A i \in rows :
       LET rest == past_loan.principal_minor - PaidPrincipal
                     - Principal({j \in rows : j < i})
       IN  /\ rest > 0 /\ RowOf(i).payment_minor > 0
           /\ past_loan.rate = 0 => RowOf(i).payment_minor <= rest

AffectsBalance(row) == row >= past_debt.cutoff

ServeSetup ==
  /\ AtServer(past_request)
  /\ LET body == past_request.body
     IN  IF RowsAccepted(body.rows)
           THEN /\ past_debt' = [past_debt EXCEPT !.pays =
                     [i \in Row |-> IF i \in body.rows THEN @[i] + 1 ELSE @[i]]]
                /\ past_request' = Done(past_request)
                /\ past_log' = [past_log EXCEPT !.last =
                     [warned |-> body.warned,
                      moved |-> MapThenSumSet(LAMBDA i : RowOf(i).payment_minor,
                                              {i \in body.rows : AffectsBalance(i)}),
                      alone |-> body.current /\ body.base = past_log.changes]]
           ELSE past_request' = Declined(past_request) /\ UNCHANGED <<past_debt, past_log>>
  /\ UNCHANGED <<past_loan, past_seen, past_banner>>

\* Another client pays a row, or edits the debt or its account before any payment.
ChangeSetup ==
  /\ past_debt # NoDebt /\ past_log.changes < MaxChanges
  /\ \/ \E i \in Row : RowsAccepted({i}) /\ past_debt' = [past_debt EXCEPT !.pays[i] = @ + 1]
     \/ /\ TotalPaid(past_debt) = 0
        /\ \/ \E due \in Row : past_debt' = [past_debt EXCEPT !.due = due]
           \/ \E cutoff \in Row : past_debt' = [past_debt EXCEPT !.cutoff = cutoff]
           \/ past_debt' = [past_debt EXCEPT !.linked = ~@]
  /\ past_log' = [past_log EXCEPT !.changes = @ + 1]
  /\ UNCHANGED <<past_loan, past_seen, past_banner, past_request>>

PastNext ==
  \/ \E l \in PastLoan, due \in Row, linked \in BOOLEAN, cutoff \in {0} \cup Row :
       OpenSetup(l, due, linked, cutoff)
  \/ \E query \in DOMAIN past_seen : RefetchSetup(query)
  \/ (\E i \in Row : ToggleRow(i)) \/ SkipSetup \/ ConfirmSetup \/ AnswerSetup
  \/ ServeSetup \/ ChangeSetup

PastSpec == PastInit /\ [][PastNext]_past_vars

-----------------------------------------------------------------------------
(* Properties *)

PastTypeOK ==
  /\ past_loan \in PastLoan
  /\ \A debt \in {past_debt} \cup {past_seen[query] : query \in DOMAIN past_seen} :
       /\ debt.due \in 0 .. Cardinality(Row) /\ debt.cutoff \in 0 .. Cardinality(Row)
       /\ debt.pays \in [Row -> 0 .. MaxBatches + MaxChanges] /\ debt.linked \in BOOLEAN
  /\ past_banner.checked \subseteq Row
  /\ past_banner.up => past_banner.setup /\ TotalPaid(past_seen["debt"]) = 0

\* A batch confirmed on a screen that is up to date repeats no payment: rows that
\* others have paid since the banner mounted stay ticked, and what keeps them
\* from being paid again is that the banner goes with the first payment
\* (loan-detail-content.tsx, showSetupBanner).
BatchRepeatsNothing ==
  (IsPending(past_request) /\ past_request.body.current) => past_request.body.again = {}

\* The change of the balance the banner warns of is the one the server makes,
\* with the rows on the day of the opening on the same side of both, if nobody
\* else has changed the loan since the banner mounted.  (A row ticked while it was
\* overdue is sent even when a refetch has hidden it, so that it is not enough that
\* the loan is now as it was then.)
WarnedIsMoved ==
  past_log.last.alone => past_log.last.warned = past_log.last.moved

\* The banner, over queries refetched one by one: it repeats no payment from a
\* screen that is up to date, and warns of what the server will do.
PastInvariant == PastTypeOK /\ BatchRepeatsNothing /\ WarnedIsMoved
=============================================================================
