# Masareef: the books, formally

Masareef keeps the personal finances of households: accounts, transactions,
transfers between accounts, splits, reconciliations, debts and installments,
imports of bank statements. A Next.js client talks to a FastAPI backend
(`src/backend/app`) over PostgreSQL. Every request gets a database session of
its own (`dependencies.get_db_session`), which is rolled back when the handler
raises and committed by the code that follows the `yield`; FastAPI (0.135.2,
`backend/uv.lock:465`) runs that code once the answer has been sent, so that a
client may act on a success that is not committed yet, or never will be. Handlers
call service functions that read rows through the SQLAlchemy ORM, change
attributes and flush. There is no lock and no version column anywhere: what the
books are worth depends on which requests may follow one another and, when they
overlap, on what READ COMMITTED lets through.

This directory holds TLA+ modules translated from that code, the TLC
configurations that check them on small instances, and proofs checked by TLAPS.

## 1. Inventory

State is in database tables; "operations" are the requests that write.

| Component | State | Operations | What is hard |
|---|---|---|---|
| Accounts (`services/account.py`, `routers/accounts.py`) | `accounts` (balance_minor, opened_at, is_active), `reconciliation_records` | create (with an opening balance), update, soft delete, reconcile | the displayed balance is computed from rows that other services write; the cut-off moves; deletion cascades |
| Transactions (`services/transaction.py`) | `transactions`, `transaction_splits` | create, update, delete, bulk delete, split, categorise, bulk categorise | four deletion paths with different guards; partial updates re-sign amounts; categories guard rows |
| Transfers (`services/transfer.py`) | two `transactions` rows sharing `transfer_id`, `balance_minor` of two accounts | create (with fx), delete | read-modify-write of two balances; legs can be changed through the transaction endpoints |
| Database sessions (`dependencies.py`, `database.py`) | one transaction per request | begin, commit (after the answer), rollback | interleaving, autoflush, row locks, deadlock, loss, answers ahead of their commits |
| Categories (`services/category.py`, `seed/`) | `categories` (owner, is_system) | create, rename, delete; seeding marks system categories | the flag decides what other requests may do, and appears when the seed script runs |
| Debts (`services/debt.py`, `services/amortization.py`) | `debts`, `debt_payments`, `p2p_debt_splits`, linked transactions | create, pay, bulk pay, bulk past payments, mark paid, reactivate, delete | concurrent payments, status against principal against splits, foreign keys at deletion, rounding |
| Persons (`services/person.py`) | `persons` | create, update, delete | deletion checks for active debts, then deletes; a debt is made active again without a look at its person |
| Installments (`services/installment.py`) | `installment_plans` | create, update, complete, delete | status derived from dates |
| FX (`services/fx.py`) | `exchange_rates` | conversion through USD | integer rounding in two hops |
| Import (`services/import_/`) | rows of a statement, hashes of existing transactions | preview, commit | duplicates are looked for at the preview only |
| Import templates | `import_templates`, links to accounts | create, update, delete, link, unlink | one link per account under concurrent requests |
| Households and authentication (`dependencies.py`, `dependencies_rbac.py`, `services/household.py`) | `households`, `household_members`, the cached key set | provision on first login, create, roles | parallel first requests, stale cache |
| Dashboard, summaries, statistics | none | read only | the same filters in several places |
| Institutions (`services/financial_institution.py`) | `financial_institutions` | create a custom one, check that of an account | created in the middle of another form |
| Client cache and hooks (`lib/query-client.ts`, `hooks/use-*.ts`) | one entry per query, its fetches | fetch, invalidate, refetch, collect | what each mutation invalidates is listed by hand; fetches under way when a write is acknowledged; refetches ahead of the commit |
| Debt screens (`components/debts/`, the two debt pages) | the open sheet or dialog, a ref, a banner | record a payment, complete, reactivate, delete, record past payments | copies behind the server, answers to sheets that were closed, observers that know nothing of each other, commands that fail or only seem to |
| Lists and bulk selection (`hooks/use-bulk-selection.ts`, five list pages) | mode, ticked rows, the batches under way | tick, select all, delete or categorise all | some requests of a batch fail, one observer for many requests |
| Entry forms (the sheets and dialogs that create or edit) | fields, what was touched, the request | open, type, save, close | resets, refetches behind the form, double submission, late answers, edits that send more than was touched |
| Import wizard (`app/(app)/import/`, `components/import/`) | step, file, account, ticked rows | parse, map, preview, commit | file and account change while the server works |
| Entry and onboarding (`proxy.ts`, `app/(auth)/`, `app/(onboarding)/`) | session, pages, step of the onboarding | visit, sign up, sign in, sign out, create the household | redirects that feed each other, several tabs, parallel first requests |
| Money formatting, parsers, landing pages, layout, migrations, scripts | reference data or none | | nothing that a model checker would find and a test would not |

How they interact: every component writes `transactions` through
`transaction.create_transaction` or its own inserts; `accounts.balance_minor` is
written by account creation, by reconciliation before the system categories are
seeded, and by transfers; everything that shows money reads
`balance_minor + sum of counted transactions`. Soft deletion (`is_active`)
is the only deletion, and each endpoint re-implements its cascade. The client
talks to the server through the query cache only: a hook per endpoint, a list of
queries to invalidate per mutation. Every screen works on such a copy and sends
requests whose answers come back to whatever is mounted by then.

What makes each component correct:

- *Accounts*: a reconciliation reaches the balance the user gave; a deleted
  account carries no live transaction; net worth and displayed balances agree.
- *Transactions*: sign and type agree; deletion is final, takes the splits along
  and respects the guards of system rows; splits sum to their transaction.
- *Transfers*: `balance_minor` moves by what the live legs move by; both legs or
  none; two overlapping requests lose nothing.
- *Households*: no row of a household on an account of another.
- *Debts*: principal paid never exceeds the principal, status, splits and
  payments agree, every installment can be paid, deletion is possible.
- *Sessions*: every request ends; nothing of a failed one remains.
- *Client cache*: what is shown never goes back, and a screen comes to show its
  own write, if the refetch does not overtake the commit.
- *Screens and forms*: what is offered and sent is right for what was shown; a
  refetch keeps what was typed; what is confirmed once is done once; a late
  answer does nothing to what was opened since.
- *Entry*: redirects end; a user ends in the household the user has chosen, and in one only.
- *Import, persons, institutions*: no row booked twice unasked, no debt left to a
  person who is deleted after it, no institution of the wrong type.

The list of hazards, each at its line, is in `PROJECT.json`.

## 2. Modules

| Module | Models | Uses |
|---|---|---|
| `Ledger` | accounts, transactions, splits, transfers, reconciliation: one action per request, run to its commit | |
| `LedgerProofs` | theorems about `Ledger` | `Ledger`, `AmortizationProofs` |
| `TransferBook` | abstract: how the set of live legs may change | |
| `LedgerSessions` | transfers and account deletion as concurrent database sessions | `TransferBook` (refinement) |
| `SessionsClaims` | statements of the documentation about concurrent requests | `LedgerSessions` |
| `SessionsProofs` | the refinement, the row locks, the balances | `LedgerSessions` |
| `Amortization` | the payment and the schedule of a loan: pure operators | |
| `AmortizationProofs` | what the amortization operators compute, and sums over finite sets, for the proofs that need them | `Amortization` |
| `ScheduleLoop` | the loop that builds a schedule, with the status of its rows | `Amortization` |
| `ScheduleProofs` | theorems about `ScheduleLoop` | `ScheduleLoop`, `AmortizationProofs` |
| `Debts` | one debt: payments, splits, status, deletion, as concurrent sessions | `Amortization` |
| `DebtsProofs` | theorems about `Debts` | `Debts`, `AmortizationProofs` |
| `CachedView` | abstract: what a screen may expect of the data of a query | |
| `ClientCache` | one entry of the query cache beside mutations and writes of others | `CachedView` (refinement) |
| `ClientHooks` | which tables each query reads and each mutation writes, what each hook invalidates, what each page has mounted and issues | |
| `ApiMutation` | a request of a component: sent, applied and committed or refused, answered or lost | |
| `PaymentSheet` | recording a payment, in the four hosts of the form | `Amortization`, `ApiMutation` |
| `DebtActions` | completing, reactivating, deleting a debt across page visits | |
| `PastPayments` | the banner that records the overdue rows of a new loan | `Amortization`, `ApiMutation` |
| `BulkSelection` | ticking rows and acting on all of them, on five pages | `ApiMutation` |
| `BulkPay` | the plans and the sheet that pays several at once | `ApiMutation` |
| `EntryForms` | every form that creates or edits an entry | `ApiMutation` |
| `ImportWizard` | parsing, mapping, previewing, committing a statement | `ApiMutation` |
| `PersonPicker` | personal debts, the person created in the form, deletion of persons | |
| `InstitutionPicker` | new accounts and the institution created in the form | |
| `Entry` | signing up and in, the proxy, onboarding, provisioning | |
| `KeyCache` | the cached key set of the identity provider | |
| `BrowserProofs` | theorems about the cache, the way in and the keys | `ClientCache`, `Entry`, `KeyCache` |
| `DebtScreensProofs` | theorems about the screens of a debt | `PaymentSheet`, `DebtActions`, `PastPayments`, `AmortizationProofs` |
| `ListScreensProofs` | theorems about the six modules of lists and forms | `BulkSelection` to `InstitutionPicker` |
| `MCLedger`, `MCLedgerSessions`, `MCScheduleLoop`, `MCDebts`, `MCBrowser`, `MCDebtScreens`, `MCListScreens` | instances for TLC | |

### Ledger

`accounts`, `transactions`, `records`, `last_id` are the tables of the same
names (only the columns the requests or the properties look at), `seeded` says
whether the seed script has created and marked the system categories. A
transaction's splits are kept as the sum of its active ones, which is all that
any handler compares. An action is a whole handler with its router: guards from
its early returns, and one step for everything it writes before the commit. A
refused request changes nothing (the session rolls back), so it is not a step.

Amounts are small integers and `MaxMinor` stands for the largest BIGINT, at
which an UPDATE fails (`Fits`). Descriptions, notes, currencies as strings,
listing and formatting are left out. Account ids are fixed in advance with
their household, currency and type, which no request can change; an account
starts `absent`, is created, and may be deleted once. `transfer_id` is a uuid4,
taken as the next unused id. `Update` and `Insert` are the two ways in which
SQL touches the transactions table.

### LedgerSessions

One session per request. A load reads what is committed (READ COMMITTED); what
the ORM computed from it is held in `job[s].loaded`; a flush takes the row locks
in the order of the unit of work (accounts before transactions, each by id);
the commit publishes everything at once and releases the locks. `session.get`
autoflushes, so a deletion writes the first account before it loads the second.
Sessions can crash at any point and deadlock victims are rolled back.
SQLAlchemy and PostgreSQL are external: the lock order, the deadlock detector
and the visibility rules are modelled from how the code uses them. Amounts are
one unit, because only whether an addition is lost matters; currencies are left
to `Ledger`. `contended` is a history variable: the accounts that two open
requests were about at one time.

### TransferBook

The promise of the transfer endpoints about the committed legs: they appear in
pairs, a reversal takes whatever is left of a pair, and single legs only
disappear with an account that is closed in the same step. `LedgerSessions`
implements it (`LegsAreBooked`), whatever overlaps, fails or crashes. Balances
are deliberately not part of that promise: the code does not keep it for them.

### Amortization and ScheduleLoop

`compute_periodic_payment` and `generate_schedule` in minor units. The code
computes with 28-digit `Decimal` and rounds up; the model has the rate of a
period as a fraction `rate / RateDen` and rounds the exact quotient up. The two
agree for every rate whose powers and products fit the 28 digits; a rate such as
14.53 % a year, whose monthly fraction does not end, is outside of the model.
Dates are months since the start of the loan, which is what
`_dates_match_period` reduces them to. The schedule is a recursive function in
`Amortization` and a loop in `ScheduleLoop`, where the loop invariant is the
induction; what the function computes is proved in `AmortizationProofs`.

### Debts

One debt (`debt`, `payments`, `splits`, and `booked` for the transactions of
its payments) and the sessions about it. `record_payment` is four steps, cut
where another commit can get between: read the principal paid, check and insert;
select the earliest unpaid split; update it (which waits for a session that has
updated the same row, then overwrites: the UPDATE is by primary key); decide the
status. A batch of past installments repeats them in one session. `terms` is
what no request changes. Deleting with payments reads the payments first and
deletes them later by `debt_id`, which the foreign key of a paid split refuses.
`overlapped` is a history variable: some of what debts promise is kept one
request at a time only, and the properties say so. A payment of nothing is
refused: the schema of a single one asks for a positive amount, and in a batch a row
that asks for nothing fails at the transaction of its payment.

The amount of the linked account, the choice of the category and the linking of
an existing transaction are left out: `Ledger` has the row that
`create_transaction` writes.

### ClientCache, ClientHooks and CachedView

`ClientCache` is the life of one entry of the TanStack query cache with the
options of `query-client.ts`: mounting and leaving, fetches that are answered,
fail or are abandoned, growing stale, invalidation by the `onSuccess` of a
mutation, collection after five minutes. Queries do not influence each other, so
one stands for all and the initial state chooses it. `truth` counts the writes
that change the server's answer; `entry.data` is the version on the screen. The
library is external and modelled from how the hooks use it.

A mutation is answered (`Succeed`) before or after its transaction is committed
(`Commit`), and one that has been answered may still be rolled back. The
invalidation comes with the answer. So `exposed`, a history variable, says that
the mark of the screen's own write may have been used up by an answer from before
it: of a fetch that was under way at the success and was not restarted, or of a
refetch that the server evaluated ahead of the commit.

`ClientHooks` is the data the code gives it: per query the tables its endpoint
reads (from the routers and services), per mutation the tables its endpoint
writes and the keys its hook invalidates, per page what it has mounted and which
mutations it or its dialogs issue; the command palette has the accounts mounted
on every page of the shell. `ScreenOf`, what is on the screen where a mutation is
issued, follows from the pages. `Affects` follows from the tables. What a hook
misses of its own screens is `Forgotten`, and that it is just this is an
assumption of `MCBrowser` (`HooksInvalidateScreens`, an equality) that TLC
evaluates. `CachedView` is the promise that all screen modules build on: their
refetches may bring any later state of the server, at any time, never an earlier
one.

### Screens, forms and lists

These modules have the same shape: the rows at the server, a copy that a refetch
replaces at some time, what is open on the screen with its fields, and the
requests under way. A click is an action whose guard is the condition under which
the button is there and enabled in the rendered component; the answer is an action,
and runs the callbacks of the hook and, only while the component that sent it is
mounted, those of `mutate`. An answer may be lost: what was done looks like an error.
Others may change the rows at the server at any time, up to a bound.

Between the two is the server. `DebtActions`, `PersonPicker` and `Entry` (like
`ClientCache`) have what the handler reads, the commit and the answer as actions of
their own, in any order that the code allows, and commits that fail after a success.
In the other modules the handler and its commit are one action, before a good
answer. Their refetches come at any time or not at all, so screens that show what was
there before the commit are among their behaviours; a second request served between
answer and commit of the first, and a commit that fails after the answer, are not.

- `PaymentSheet`: `sheet` is `RecordPaymentForm`; `host` says which of its four
  hosts mounts it, which decides whether closing unmounts it. `scheduleRef` is
  the ref the navbar button of the loan page reads. A suggested transaction has
  the period its due date is near and the period its own date falls into.
- `DebtActions`: the debts page and the page of a debt, each visit with observers
  of its own; commands carry their visit. A command may fail on its way, for the
  role, at the server or at the commit, each with an answer or without
  (`FailCommand`, `AnswerCommand`); what was asked for before then counts again.
- `PastPayments`: the banner reads three queries that are refetched one by one. It is
  mounted once: with the first payment it goes, and it does not come back.
- `BulkSelection`: `useBulkSelection` with the dialogs of the five pages; three of
  them send one request per row over one observer and wait for all, two send one.
- `BulkPay`: the three steps of the sheet. The plans and the debts the server
  looks for under the same numbers are different things (see below).
- `EntryForms`: a table of the forms (`FieldsOf`, `NeedsOf`, whether the state
  lives inside the sheet, what follows success) and one action per event. An edit
  sends all fields of its form, and more: `SentAlong` (the name of a personal debt, as it
  was on the screen) and `Cleared` (the linked account of an installment, always
  null). `Emptied` is the category that the buttons of a transaction's type empty.
- `ImportWizard`: the reducer of the page with its two requests. A row is what
  the duplicate check compares: a fingerprint of account, date, amount and
  description. Parsers give only their verdict.
- `PersonPicker`, `InstitutionPicker`: two forms that create what they refer to.
  The creation and the reactivation of a debt and the deletion of a person are two
  steps each at the server, a read and a write, and answers come before or after the
  second. The form of a debt may be opened for the person of an earlier debt, who
  may be deleted by then; the list it offers is the first page of the persons.

### Entry and KeyCache

`Entry` has the identity provider's view of one user, the session that the tabs
share, each tab's page and the address it is on its way to, the requests under
way and the user's households. `Route` is one pass through `proxy.ts`. A request
reads the membership when it begins and writes when it commits, which is after the
answer or before, or fails; `undone` remembers the pages that were told of a household
whose commit failed. `KeyCache` has
the two module variables of `dependencies.py` and the requests that refresh them,
cut at each `await`.

## 3. Runs

Properties that hold:

| Run | Question | Bounds |
|---|---|---|
| `ledger` | can any sequence of requests make sign and type disagree, revive the dead, orphan splits or thaw a system row? | 1 household, 2 accounts (one of credit type), 2 rows |
| `ledger_transfers` | does `balance_minor` follow the legs through resizing, retyping, half deletion, account deletion and at the edge of the range? | 1 household, 2 accounts, 2 rows, `MaxMinor` at the sum of two amounts |
| `ledger_households` | can a request of one household reach an account of another? does a reconciliation inside the window reach the given balance while the window moves? | 2 households, 2 accounts, 2 rows, 2 dates |
| `sessions` | with overlapping requests, which balances stay exact, and who can deadlock? | 3 requests, 3 accounts in a ring, 3 transfers |
| `sessions_answered` | is every request answered and every set of legs committed whole? | 3 requests, 2 accounts, 2 crossing transfers |
| `schedule` | does every schedule repay its loan, and every payment settle one row? | all loans up to the bounds of `ScheduleLoop.cfg`, every set of paid months |
| `debts` | which promises about splits, status, payments and transactions survive overlapping, failing and crashing requests, and is each request answered? | 2 sessions, 3 payments, 3 debts: with interest, without, personal with 2 splits |
| `browser` | what may a screen show of a query while writes, fetches, commits and failures cross? how does a user get in, with several tabs, and into which household? how old can cached keys be? | 2 writes, 2 fetches under way, every query of the client up to equal effects; 2 tabs, 3 visits, 2 requests; 2 verifying requests, times to live of 3 and to answer of 2, 7 ticks |
| `debt_screens` | is what the screens of a debt offer, warn of and send right, and do late answers and failing commands do no harm? | 2 loans of 2 periods (with and without interest), 2 suggested transactions (one in its period, one outside), 2 openings, 1 change elsewhere; 3 commands, 2 visits, 1 payment by others; 2 batches |
| `list_screens` | do bulk actions, batch payments, forms, import and inline creation do what was confirmed, once, for what was shown? whom and what account does a new debt refer to, and who may be deleted? | 2 rows on 2 pages, 2 batches; 2 plans, 2 sheets; 2 inputs, openings and saves of each form; 4 statements, 2 accounts, 2 parses and commits; 4 kinds of accounts; 3 persons (one with a debt, one created by another client, one in the form), pages of 1, 2 currencies, 2 openings, 1 debt and 1 person created in the form |

The bounds: two rows are enough for the table properties, because each relates one row to
its account, or the two legs of one transfer; the proofs confirm it for any
number. Three requests over a ring allow a cycle of three waiting sessions, and
a request that starts after two others have overlapped. Three payments are one
more than the splits and enough to overpay each of the debts; the loan without
interest is short enough for its last row to be empty. On the client, two of a
kind are what a race needs (two fetches, two openings, two saves, two tabs); a
third command is the one that comes after it. A page of one person is pushed off by
the next who comes. Two periods let a payment be for the last one or not.

A behaviour of `browser`, `debt_screens` or `list_screens` is one of one part:
`part` or `screen` is chosen at first and only that part moves. The parts share no
state, so the run checks the sum of their graphs and not the product; what they
have in common, the server's tables, is in each of them a change by others at any
time. The form of a personal debt is three such screens, with one thing moving in each
besides the debts: the list (deletions, persons of another client), the person created
in the form, or currencies and accounts, which share no field with the persons. And
only in one of the two tabs of the way in does the user enter public addresses. The
theorems about these modules have no such cuts. The largest runs, `debt_screens`, `list_screens`
and `browser`, have 4.7, 2.8 and 0.9 million states, reached in two
to three minutes each.

The runs disable the deadlock check: a table that is full, sessions and requests
that have all been used, and a user who does nothing more are the ends of the
bounded instances.

To keep each run to one question, the properties of a part are stated together,
each with a name of its own in the module:

| Property | Its parts |
|---|---|
| `TablesOK` | `TypeOK`, `PaidSplitsHavePayments` |
| `SplitsFollowPayments` | `SplitsPaidInOrder`, `OneSplitPerPayment` |
| `CacheInvariant` | `CacheTypeOK`, `OwnWriteIsNoticed` |
| `EntryInvariant` | `EntryTypeOK`, `OnboardedIntoChosen`, `SecondOnlyFromOverlap`, `CreatesOneAtATime` |
| `KeyInvariant` | `KeyTypeOK`, `KeysAreFresh` |
| `SheetPromises` | `SheetTypeOK`, `OfferIsUnpaid`, `AcceptedRestCompletes`, `RelinkedOnlyAcrossPeriods`, `TypingSurvivesRefetch`, `LateAnswerClosesNothing` |
| `ActionsPromises` | `ActionsTypeOK`, `LastCommandWins`, `NoPushFromElsewhere` |
| `PastInvariant` | `PastTypeOK`, `BatchRepeatsNothing`, `WarnedIsMoved` |
| `BulkInvariant` | `BulkTypeOK`, `SelectionIsExplained`, `SentAgainOnlyFromLongBatch` |
| `PayInvariant` | `PayTypeOK`, `NothingEmptyIsSent`, `BatchIsAtomic`, `ConfirmedOnce` |
| `FormInvariant` | `FormTypeOK`, `CreatedOnce` |
| `FormPromises` | `OnlyTouchedFieldsChange`, `TypedIsKept` |
| `ImportInvariant` | `ImportTypeOK`, `TickedAreReadable`, `CommittedWhereCompared`, `NotBookedTwiceUnasked` |
| `PersonInvariant` | `DeletedHaveNoDebts`, `NamelessAreExplained`, `ChosenInThisForm`, `AccountOfOwnCurrency` |
| `InstitutionInvariant` | `MismatchIsLate`, `NotCarriedOver`, `AccountsMatchInstitutions` |

Alone stand `ViewSpec` (the cache implements `CachedView`), `OwnWriteIsShown`
and `RedirectsEnd` (liveness). Each named part that is about the code has a
mutated handler that breaks it.

Several parts name an exception: an account not contended, a batch of more than
one request, a row booked after the comparison, a currency changed after the
account, a command given on a screen or in a dialog behind the server or while one
that was answered is not at its end, a banner mounted before others have changed the
loan, a refetch that overtook the commit, a commit that failed after its answer, a
debt made active again after its person was deleted, a person pushed off the first
page, a field that the form or another field empties. There the code does not keep
the promise, as the lists below say, and the property states what is left of it.

`ActiveOnLiveAccount`, `ReconcileReachesActual`, `NoOverpayment`,
`CoveringPaymentPaysOff` and `NoOrphanTransaction` are about requests one after the
other. The races on the same lines (`account.py:270`, `account.py:450`,
`debt.py:345`, `debt.py:471`, `debt.py:273`) go wrong in the code, and no property
covers them; the notes of their hazards in `PROJECT.json` say so.

Statements that the code does not keep (each run checks the one property and
finds a counterexample; `PROJECT.json` quotes the sentence and the line):

| Run | What happens |
|---|---|
| `claim_lost_update` | two overlapping transfers lose one amount |
| `claim_one_household` | two overlapping first requests give a user two households |

Other disagreements met while modelling, between the code and what its
documentation, comments, messages and tests say. They take one request or two,
and have no run:

- a leg of a transfer that is deleted as a transaction (`transaction.py:179`)
  leaves the balance as the transfer put it, against
  `routers/transactions.py:315` ("Soft-delete a transaction and reverse its
  balance contribution.");
- a transfer that commits while one of its accounts is being deleted
  (`account.py:270`) stays live on the deleted account, against `account.py:266`
  ("Soft delete an account and all its transactions (including splits).");
- two overlapping payments that cover the principal together each leave the
  debt active (`debt.py:471`), against `docs/03-features/debts.md:519` ("Paid-off
  status auto-triggers when remaining balance reaches zero");
- a personal debt with a paid split cannot be deleted with its payments: the
  foreign key refuses (`debt.py:289`), against `tests/routers/test_debts.py:543`
  ("delete_transactions=true soft-deletes linked transactions and hard-deletes
  payments.");
- bulk delete (`transaction.py:344`) takes an opening balance, which single
  deletion protects ("Opening Balance transactions cannot be deleted", line 159);
- categorise and bulk categorise (`transaction.py:371`, `387`) assign system
  categories, which `category.py:23` says cannot be assigned manually;
- an update of the amount (`transaction.py:133`) leaves the splits summing to the
  old one, against `docs/02-data-models.md:172`;
- deleting a transfer (`transfer.py:151`) leaves the splits of its legs active,
  against `docs/01-architecture.md:419`;
- deleting an account (`account.py:287`) deletes its transactions, which
  `docs/01-architecture.md:418` says remain;
- an adjustment dated before `opened_at` (`account.py:476`) corrects nothing,
  against `docs/03-features/accounts.md:134`;
- net worth (`account.py:397`) counts rows of any date, the displayed balance
  (`docs/03-features/accounts.md:21`) those since `opened_at`;
- two overlapping deletions of one transfer (`transfer.py:148`) can reverse a
  balance twice, against `docs/03-features/transfers.md:130`;
- the last row of a schedule (`amortization.py:138`) has as interest what the
  fixed payment leaves, not the balance times the rate
  (`docs/03-features/debts.md:37`);
- the last rows of a schedule may ask for nothing: rounding up repays the loan
  before the last row, with interest or without. A batch of past payments that names
  one is refused as a whole, and a payment dated in its period is all principal
  (`debt.py:383`);
- a payment of a quarterly loan made before its due date falls into the period
  before and marks that row paid.

And on the client, with the same reading (components and pages under `src/frontend/src`, messages under `src/frontend`):

- *Sheets and late answers*: the forms that keep their state outside of the sheet
  (transaction, transfer, new account, account card, and the payment form in hosts
  other than the tab of personal debts) close or clear a sheet reopened since the
  request was sent; the batch payment does too. A deletion answered late does
  not navigate, as `NoPushFromElsewhere` says.
- *Loan with a start in the past* (`bank-loan-form.tsx:196`): its sheet stays
  submittable until the page of the loan is there, and a second click creates a
  second loan. The first row of a list mounts the open form anew
  (`loans-tab.tsx:104`), and what was typed is gone.
- *Payments*: the rest of a loan is offered as a final payment from totals of an
  earlier fetch, so that it may leave a loan with interest open, against
  `messages/en.json:854`; a transaction linked for one period by its own date is
  offered again for the period its due date is near; the button of `p2p-tab.tsx:557`
  ("Record Payment — only for active debts") goes by what is owed, so that it is
  there for a debt marked paid too, and the server takes the payment; the button of the
  empty state of personal debts does nothing.
- *Completing and reactivating* (`loan-detail-content.tsx:108`): a dialog stays open while a
  refetch brings the status it asks for. Confirmed again, it sends what is the case, and
  with reactivations before and after it four requests of one user alone can end in
  another status than the one asked for last. So can a user who is told of an error
  although the command is carried out after all, or of a success whose commit is late
  or fails.
- *Past payments* (`setup-past-payments.tsx:63`): rows hidden by a refetch stay
  ticked and are sent, so that the banner warns of less than the server moves once
  others have changed the loan, even back to what it was; one row that asks for
  nothing has the batch refused.
- *Installments* (`bnpl-bulk-payment.tsx:181-184`): the numbers of plans are sent as
  numbers of debts (`debt.py:554`), so the sheet that says "Select installments to
  pay this month:" (`messages/en.json:1119`) pays debts with the same numbers, or is
  refused. A plan that is listed no more stays ticked.
- *Bulk deletion* (`accounts/page.tsx:195` and the lists like it): one observer
  knows only the last request of a batch, so the button works again while others
  are under way; the late end of a batch ticks its failed rows again, or clears a selection made since.
- *Import*: two previews that overlap book a row twice; the commit button works
  again between the success and the navigation; a late mapping answer takes the
  user from the upload to a preview, a late commit away from the page.
- *Answers ahead of commits*: a refetch after a save may be evaluated before the save
  is committed (`dependencies.py:76`), and the screen keeps the old balance until
  something else refetches it, while `docs/04-user-flows.md:128` says "toast
  confirmation → balance updates immediately".
- *Edits*: every edit of an installment clears its linked account
  (`installment-form.tsx:196` sends null, `installment.py:174-183` writes it); the
  buttons of a transaction's type empty its category (`transaction-row.tsx:279`).
- *Forms that create what they refer to*: `p2p-debt-form.tsx` keeps an account of
  the old currency when the currency changes, and `debt.py:121-220` does not compare
  them; the person created in place replaces one chosen meanwhile; an
  institution answered late lands in whatever form is open, against the comment
  in `create-account-dialog.tsx:101` (the server then refuses the account). A debt of
  a person who has been deleted since it was paid can be made active again
  (`debt.py:615`), which the check before a deletion (`person.py:85`) is there to
  prevent. The name of a debt has no name in it if its person is not on the first page of
  the list (`p2p-debt-form.tsx:184`).
- *Entry*: the onboarding goes on with the answer to the creation and not with its
  commit, so that it may end without a household, and the account that follows may be
  created in a household of its own (`dependencies.py:123`); a creation whose answer
  is lost is refused (409) until the page is loaded anew; when household-status gives no answer, the proxy lets the user
  through and the first query provisions a household of its own
  (`dependencies.py:120`).
- *Invalidation lists* (`Forgotten`): the page of a bank keeps its summary after one of
  its accounts is updated or deleted (`use-accounts.ts:84`, `124`); a transfer leaves
  net worth and transactions on the pages of the accounts as they were
  (`use-transfers.ts:33-57`); the dashboard waits for its minute
  (`.planning/research/ARCHITECTURE.md:137-138`).

Fairness: `FairSpec` gives every session weak fairness on its own next step. The
event loop resumes each coroutine whose query has been answered, PostgreSQL
hands a released row lock to a waiter and aborts one member of every deadlock
after `deadlock_timeout`; in `Debts` the waits are for splits, taken in the order
of their due dates, so they cannot form a circle. Crashes and new requests are not fair. `Ledger` has no
liveness: nothing in it has to happen. On the client, `AnswersArrive` says that a
fetch under way ends with an answer or an error (the browser's connection does
end, and which of the two is not assumed), and `RedirectsFollowed` that the browser follows a
redirect by itself. Nothing is assumed of the user, of writes, refetches on
focus, or of tabs.

## 4. Proofs

Eight modules of proofs state all safety properties of the runs, for every
value of the constants that the named assumptions allow: any number of households,
accounts, sessions, loans, rows, tabs, requests, and any bounds. A property that a
run checks on a small instance and a theorem states in general is listed under
"theorems" in `PROJECT.json`.

The invariants of the runs are seldom inductive. Each proof has an inductive
invariant of its own, which TLC has checked on the run's instance first, and one
lemma per action. What each adds is said below.

### Ledger

`LedgerProofs`, under `LedgerAssumption`:

- `TypeCorrect`: `TypeOK` is inductive by itself, given the range checks;
- `SignAlwaysMatchesType`, `ActiveAlwaysOnLiveAccount`,
  `RowsAlwaysStayInHousehold`, `SplitsAlwaysFollowPlainTransaction`: the
  invariants of the runs;
- `SoftDeleteAlwaysFinal`, `SystemRowsAlwaysFrozen`: what a request may never do to a
  row;
- `BalanceWritesAlwaysMatchLegs`, `ReconcileAlwaysReachesActual`: what a request does
  to a balance.

The argument: one lemma, `RequestStep`, shows with one case per request that a
step changes each existing row only as `Evolves` allows, inserts only rows that
are `Born` on a live account of their household, and lets an account die only
when its rows die with it (`TableStep`, `AccountStep`). Each invariant then is
inductive relative to `TypeOK` and needs no look at the requests. The
strengthening lies in `Evolves`: an inactive row does not change at all, and a
row that agrees with its type keeps agreeing.

The two theorems about balances need sums over the table. `SumIsTotal` says that a
fold of the community modules is the `Total` of `AmortizationProofs`, which is defined
for amounts of either sign and adds up over disjoint sets. `ReconcileHits`: the one
row that a reconciliation inserts adds its amount to the displayed sum (`SumMore`).
For transfers, `OnlyTransfersWrite` goes through the requests; a creation adds one leg
to each of two sums (`OneMoreLeg`), and a deletion takes a part of the legs out of
each (`SumParts`), worth the opposite of what is restored because sign and type agree
(`RestoredIsOpposite`, from `SignAlwaysMatchesType`). An account that comes into
being must have had an empty balance before: `AbsentAlwaysEmpty`, by
`ActiveAlwaysOnLiveAccount`, as a deletion restores balances of all accounts.
(`LedgerProofs` inherits the constant `RateDen` from `AmortizationProofs` and no
theorem in it depends on it.)

### Sessions

`SessionsProofs`, for finitely many accounts and transfers and a `Nobody` that is no
session:

- `SessionsBookLegs`: `LedgerSessions` implements `TransferBook`, every step a step
  of the book or a stutter. The invariant is `Ownership`: an open creation owns a
  transfer id that no leg is active for and no other creation has, an open deletion
  has seen every leg of its transfer that is still active, and an open closing has
  only legs on its account.
- `SessionsTypeCorrect` and `CreatesAlwaysAvoidDeadlock`, from `LocksTyped`. A
  creation loads both accounts before it updates the first, and updates in the
  order of ids (`LoadsFirst`, `FlushesInOrder`). Whoever holds what a creation waits
  for waits for a greater id, so that among creations none is behind itself.
- `SessionsKeepBalances`: the balance of an account that no two open requests were
  about at one time differs from the first by what its active legs add up to
  (`UncontendedBalance`). `BalancesKept` says what each open request knows of such a
  quiet account: its loaded value is the balance as it still is, with its own legs
  put in or taken out (`CreateKnows`, `DeleteKnows`), and requests that overlap on an
  account have made it contended (`Apart`).

### Schedules

`AmortizationProofs` has what the engine computes for every loan (`ScheduleSound`:
no row of `GenerateSchedule` has a negative portion, and the interest is within
the payment) and that the fixed payment covers the
interest of the first period (`PaymentCoversInterest`, from the PMT formula).

These are facts about recursive functions. The induction theorems of the library
cannot be used here, but that every nonempty set of naturals has a least member can
(`LeastNatural`), and so can its contrapositive for a set of numbers (`InductiveSet`,
`InductionTo`). That a recursive function is what its equation says is proved the
same way: the set of numbers up to which there is such a function contains 0
and, with n, n + 1 (`PowerDefined`, `RowsDefined`). Sums over finite sets, which
`Ledger`, `Debts` and the banner of past payments need, are treated alike:
`SumsDefined` and the lemmas about `Total` after it (empty, one member more, two
disjoint sets, opposite weights, natural, zero, monotone).

`ScheduleProofs`: the loop stays well typed (`ScheduleTypeCorrect`), the rows repay the
principal exactly (`EveryScheduleRepays`), no row adds to the debt
(`NoRowAddsToTheDebt`), and no payment date settles two rows (`PaymentsSettleOnce`,
because rows of one schedule are in different months). The invariant,
`Balanced`, adds that the balance is 0 once the last row is there: the code caps the
portion at what remains and gives the last row the rest.

### Debts

`DebtsProofs`, from `DebtsInductive`. Two of its parts hold whatever overlaps:

- `TablesHold` and `SplitsAlwaysFollow` rest on `JobSound`: whatever split a session
  has claimed, all earlier ones are paid or claimed by the same session. Splits only
  become paid while payments live, so what was true when a session selected its
  split is true when it writes.

and the others while requests come one at a time (`OneAtATime`):

- `NeverOverpaid`, `NoTransactionLeftBehind`, `CoveringPaymentAlwaysPaysOff` and the
  count of paid splits in `SplitsFollowPayments`. `Story` relates the tables (the
  paid splits are as many as the payments, up to all of them; every booked
  transaction has its payment), `InStep` what the open request knows: the
  principal paid as it read it (`SumsKnown`), how many splits it has settled
  (`CountsKnown`), ids in the order of the payments (`IdsAhead`).

### The browser

`BrowserProofs`:

- `CacheShowsView`: `ClientCache` implements `CachedView`, for any number of queries,
  mutations and fetches under way. The simulation needs `Ordered`: what the entry has
  and what any request has read is not newer than the server, and the answer of the
  current fetch is not older than the entry. The last part is why the fetch a
  mutation restarts cannot be overtaken: the abandoned one is no longer current.
- `OwnWritesAreNoticed`: `CacheInvariant`, if every mutation invalidates what it
  changes of the screens that issue it, but for what it is known to forget
  (`ScreensInvalidated`). For the tables of `ClientHooks` this is what `MCBrowser`
  assumes and TLC evaluates. `Noticed` adds that the current fetch can only have read
  something older than the own write if the mark may have been used up
  (`RestartedOrExposed`), and that no later write than the committed one has been seen
  succeed (`Acknowledged`). The write counts as the screen's own from the later of
  commit and answer, whichever comes first.
- `EntryKept`: `EntryInvariant`. `EntryInductive` counts the loads of pages: a request
  belongs to a load, a page that waits for a creation or its account is in step 3 with
  the button disabled (`PageKept`), and each load waits for one such request at most
  (`CallsKept`). A page at the end has its household committed, on the way to its
  commit, or undone by it (`ChosenBy`), and each step of a request passes that on.
- `KeyCacheInvariant`: `KeysAreFresh` is not inductive, since a request may fill the
  cache and another stamp it. `KeyInductive` adds that a waiting request has waited at
  most `Timeout`, that what is cached is stamped at most `Timeout` after it was read,
  and that a request that has filled the cache and not stamped it will stamp it that
  soon after what is cached by then. It assumes a positive `TTL`.

### The screens of a debt

`DebtScreensProofs`, for any loans, transactions, visits and numbers of requests:

- `ActionsKeepPromises`: `ActionsPromises`. While the user is alone on the first page
  and never acted behind the server, at most one command about the status is not at
  its end; it asks for another status than the debt has, it was the last one given, and
  what was asked for before it is what the debt has (`StatusKnown`). So if it fails the
  status is right again, and if it commits it is the one asked for. Where there is none,
  the status is the last one asked for.
- `PastPaymentsKept`: `PastInvariant`. A banner that is up has seen no payment, and
  one that has gone has a reason that does not go away (`BannerKnown`); while nothing has
  changed since it was mounted, the rows ticked are the overdue rows on the
  screen (`Unmoved`); payments on a row are no more than batches and changes
  (`PaysCounted`). The sums warned of and moved are compared through `Total`.
- `SheetKeepsPromises`: `SheetPromises`, both action properties included. The copies on
  the screen lag behind a debt that only grows, and a linked transaction settles the
  period it is dated in (`CopiesKnown`); the offer stays behind the fields and comes
  back with a reset (`FormKnown`); a final payment on its way asks for no less than what
  is owed by then (`RequestKnown`).

The loans under test are a nonempty set and "none" is not a transaction.

### Lists and forms

`ListScreensProofs`:

- `BulkKept`: a request that is sent twice before its answer belongs to a batch of
  several, because the observer knows the last request of a batch (`LastAnswered`).
- `BatchPaymentsKept`: what an open request asks for is not booked yet, or was asked
  for again after an error (`BookedBefore`).
- `FormsKept`, `FormsKeepPromises`: each opening is sent once while its request is
  under way (`SentOnce`), and a field that was not touched is as it was drawn, or is
  empty because another one that was touched empties it (`UntouchedKept`).
- `ImportsKept`: no parse is pending in a preview (`PreviewKept`), and what a commit
  sends was ticked in one (`CommitKept`).
- `PersonsKept`: a deletion that has found no debt and meets one after all overlaps
  with its creation or reactivation, which a history says (`RemovalSound`,
  `RequestSound`, `DebtSound`); a person chosen from the list is listed still, deleted or
  pushed off (`FormSound`), and the first page loses nobody else (`FirstPageKept`).
- `InstitutionsKept`: if no institution is preselected (`NonePreselected`). The dialog has
  a property for one, and no page passes it.

### What the proofs found

Four places where the model, or a property, was wrong on values that the runs do not
reach:

- a schedule with interest can have rows that ask for nothing (`PaymentSheet` divided
  by that payment; in `Debts` and the batches such a payment went through, where the
  schema refuses it);
- `WarnedIsMoved` compared the loan with what it was when the banner was mounted. With
  two changes it can be as it was, and rows hidden in between are sent;
- `LastCommandWins` fails with four commands when a dialog stays open behind the server;
- `OwnWriteIsNoticed` needs the hypothesis on the hooks that is named above.

### Only model-checked

- `EveryRequestEnds`, `OwnWriteIsShown` and `RedirectsEnd` are liveness: ENABLED and
  fairness are out of the prover's reach.
- The statements of the two runs that end in a counterexample.

No module uses RECURSIVE operators.

## 5. Plan

Done: the ledger, the sessions of transfers, schedules, the payments of one debt,
the client's cache, screens, forms and lists, import, persons, institutions, the way
in, and the proofs above. Left:

- `ScreensInvalidated` as a theorem about `ClientHooks`, so that
  `OwnWritesAreNoticed` needs no hypothesis for the hooks of the client.

Worth modelling after that: answers ahead of their commits in the payment sheet, the
batches and the import wizard; reconciliation and splitting as further requests of
`LedgerSessions`, and an abstract account book that `Ledger` refines once the
writes outside of it are named.

## 6. Not modelled

- Import parsers: characters in, rows out, no state. `ImportWizard` has their
  verdicts.
- Import templates: saved mappings; a linked template is a file whose layout is
  known. The one link per account under concurrent requests has no module.
- FX conversion of aggregates and everything that is only read (net worth,
  dashboards, summaries, statistics): sums over rows, rounding in two hops. Which
  tables they read, and when the client fetches them again, is in `ClientHooks`.
- Creating, renaming and deleting custom categories; updates of persons; deletion
  of plans; roles of members. Each is one row by one request, without a rule that
  spans several.
- Overlapping splits and reconciliations of one transaction or account
  (`transaction.py:289`, `account.py:449`): the requests are in `Ledger` one after
  the other only.
- Verification of a token and of passwords: the identity provider is external. A
  request in `Ledger` carries the household that `get_household_id` found for it.
- Landing pages, layout, primitives, formatting, migrations, scripts, deployment.
