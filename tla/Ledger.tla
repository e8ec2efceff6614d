------------------------------- MODULE Ledger -------------------------------
(***************************************************************************)
(* The books of a household: the accounts, transactions (with the splits   *)
(* hanging off them) and reconciliation records that the request handlers  *)
(* of the backend read and write.  One action is one HTTP request, run to  *)
(* its commit with no other request in between; the interleavings of       *)
(* requests are the subject of LedgerSessions.  A request the code refuses *)
(* (HTTPException, so the session rolls back) is a step that is not there. *)
(***************************************************************************)
EXTENDS Integers, FiniteSetsExt

CONSTANTS
  Household,       \* tenants
  Account,         \* account ids
  HouseholdOf,     \* account id -> household_id of its row
  CurrencyOf,      \* account id -> currency of its row (immutable)
  CreditAccount,   \* the ids whose type is credit_card or financing_app
  CustomCategory,  \* categories created by a household
  CategoryOwner,   \* custom category -> household
  Sendable,        \* categories a client may send: custom or predefined
  OpenedAt,        \* opened_at values a client may send
  Amount,          \* positive amounts a client may send
  TransferAmount,  \* absolute amounts a client may send with a transfer
  Opening,         \* opening balances a client may send, either sign
  Actual,          \* actual balances a client may reconcile to
  Rate,            \* fx_rate_minor_units a client may send
  Date,            \* calendar days, as ordinals
  MaxMinor,        \* largest value of a BIGINT column
  MaxTransactions  \* bound on the rows of the transactions table

NoDate == 0
NoTransfer == 0
NoRate == 0
Unset == 0              \* a field left out of an update request
NoCategory == "none"
KeepCategory == "keep"  \* category_id left out of an update request
KeepType == "keep"      \* type left out of an update request

SystemCategory == {"Opening Balance", "Reconciliation Adjustment"}
SpecialCategory == {"Transfer", "Uncategorized"}
Category == Sendable \cup CustomCategory \cup SystemCategory \cup SpecialCategory \cup {NoCategory}

Minor == -MaxMinor .. MaxMinor
TransactionId == 1 .. MaxTransactions
Type == {"debit", "credit"}

ASSUME LedgerAssumption ==
  /\ HouseholdOf \in [Account -> Household]
  /\ CreditAccount \subseteq Account
  /\ CategoryOwner \in [CustomCategory -> Household]
  /\ MaxMinor \in Nat /\ MaxTransactions \in Nat
  /\ Amount \subseteq 1 .. MaxMinor /\ TransferAmount \subseteq 0 .. MaxMinor
  /\ Opening \subseteq Minor /\ Actual \subseteq Minor
  /\ Rate \subseteq Nat \ {NoRate}
  /\ Date \subseteq Nat \ {NoDate}
  /\ OpenedAt \subseteq Date \cup {NoDate}
  /\ NoCategory \notin Sendable
  /\ KeepCategory \notin Category

VARIABLES
  seeded,        \* run_seeds has inserted and marked the system categories
  accounts,      \* account id -> row
  transactions,  \* transaction id -> row, ids 1..last_id
  last_id,       \* the id sequence of the transactions table
  records        \* reconciliation_records (nothing ever deactivates one)

vars == <<seeded, accounts, transactions, last_id, records>>

AccountRow ==
  [status : {"absent", "active", "deleted"},
   balance_minor : Minor,
   opened_at : Date \cup {NoDate}]

\* split_total is the sum of the active transaction_splits of the row.
TransactionRow ==
  [household_id : Household, account_id : Account, date : Date,
   amount_minor : Minor, type : Type, category : Category,
   transfer_id : Nat, applies_to_balance : BOOLEAN,
   is_active : BOOLEAN, split_total : Nat]

ReconciliationRecord ==
  [account_id : Account, transaction_id : Nat, actual : Minor]

Abs(n) == IF n < 0 THEN -n ELSE n

\* A BIGINT column refuses anything else, and the request fails.
FitsFaulty(n) == n \in Int
Fits(n) == n \in Minor

-----------------------------------------------------------------------------
(* Reading the tables *)

LiveFaulty(h, a) == accounts[a].status # "absent" /\ HouseholdOf[a] = h
LiveForeign(h, a) == accounts[a].status = "active"
Live(h, a) == accounts[a].status = "active" /\ HouseholdOf[a] = h

VisibleFaulty(h, t) ==
  t \in DOMAIN transactions /\ transactions[t].household_id = h
Visible(h, t) ==
  /\ t \in DOMAIN transactions
  /\ transactions[t].is_active
  /\ transactions[t].household_id = h

IsSystemFaulty(c) == c \in SystemCategory
IsSystem(c) == c \in SystemCategory \/ (seeded /\ c \in SpecialCategory)

Accessible(h, c) ==
  /\ c \in SystemCategory => seeded
  /\ c \in CustomCategory => CategoryOwner[c] = h

Assignable(h, c) == ~IsSystem(c) /\ Accessible(h, c)

SumAmounts(ids) == MapThenSumSet(LAMBDA t : transactions[t].amount_minor, ids)

\* The rows that the displayed balance of an account adds up.
Counted(a) ==
  {t \in DOMAIN transactions :
     /\ transactions[t].account_id = a
     /\ transactions[t].is_active
     /\ transactions[t].applies_to_balance}

CutOff(a) == accounts[a].opened_at

Displayed(a) ==
  accounts[a].balance_minor
    + SumAmounts({t \in Counted(a) : transactions[t].date >= CutOff(a)})

-----------------------------------------------------------------------------
(* Writing the tables *)

\* compute_balance_delta
Signed(amount, type) == IF type = "debit" THEN -Abs(amount) ELSE Abs(amount)

TypeOfSign(amount) == IF amount >= 0 THEN "credit" ELSE "debit"

NewRow(h, a, d, signed, type, c, x, applies) ==
  [household_id |-> h, account_id |-> a, date |-> d, amount_minor |-> signed,
   type |-> type, category |-> c, transfer_id |-> x,
   applies_to_balance |-> applies, is_active |-> TRUE, split_total |-> 0]

Insert(row) ==
  /\ last_id < MaxTransactions
  /\ last_id' = last_id + 1
  /\ transactions' = [t \in 1 .. last_id + 1 |->
                        IF t <= last_id THEN transactions[t] ELSE row]

DeactivatedFaulty(row) == [row EXCEPT !.is_active = FALSE]
Deactivated(row) == [row EXCEPT !.is_active = FALSE, !.split_total = 0]

\* An UPDATE: new maps the ids it touches to their rows.
Update(new) ==
  /\ transactions' = [t \in DOMAIN transactions |->
                        IF t \in DOMAIN new THEN new[t] ELSE transactions[t]]
  /\ UNCHANGED last_id

SetBalance(a, balance) ==
  accounts' = [accounts EXCEPT ![a].balance_minor = balance]

-----------------------------------------------------------------------------
Init ==
  /\ seeded \in BOOLEAN
  /\ accounts = [a \in Account |->
                   [status |-> "absent", balance_minor |-> 0, opened_at |-> NoDate]]
  /\ transactions = [t \in {} |-> {}]
  /\ last_id = 0
  /\ records = {}

\* scripts: seed_system_categories
RunSeeds ==
  /\ ~seeded
  /\ seeded' = TRUE
  /\ UNCHANGED <<accounts, transactions, last_id, records>>

(* Accounts *)

OpeningAmount(a, opening) == IF a \in CreditAccount THEN -opening ELSE opening

CreateAccount(h, a, opening, opened_at, today) ==
  LET amount == OpeningAmount(a, opening)
      row == [status |-> "active", opened_at |-> opened_at,
              balance_minor |-> IF seeded THEN 0 ELSE amount]
      ob_date == IF opened_at # NoDate THEN opened_at ELSE today
  IN  /\ accounts[a].status = "absent" /\ HouseholdOf[a] = h
      /\ accounts' = [accounts EXCEPT ![a] = row]
      /\ IF seeded /\ opening # 0
           THEN Insert(NewRow(h, a, ob_date, amount, TypeOfSign(amount),
                              "Opening Balance", NoTransfer, TRUE))
           ELSE UNCHANGED <<transactions, last_id>>
      /\ UNCHANGED <<seeded, records>>

\* Of the fields an update may set, only the cut-off date reaches a balance.
UpdateAccount(h, a, opened_at) ==
  /\ Live(h, a)
  /\ accounts' = [accounts EXCEPT ![a].opened_at = opened_at]
  /\ UNCHANGED <<seeded, transactions, last_id, records>>

DeleteAccount(h, a) ==
  /\ Live(h, a)
  /\ accounts' = [accounts EXCEPT ![a].status = "deleted"]
  /\ Update([t \in {u \in DOMAIN transactions :
                      /\ transactions[u].account_id = a
                      /\ transactions[u].is_active}
               |-> Deactivated(transactions[t])])
  /\ UNCHANGED <<seeded, records>>

DiscrepancyFaulty(a, actual) == Displayed(a) - actual
Discrepancy(a, actual) == actual - Displayed(a)

Reconcile(h, a, actual, d) ==
  LET adjustment == Discrepancy(a, actual)
      record == [account_id |-> a, transaction_id |-> last_id + 1,
                 actual |-> actual]
  IN  /\ Live(h, a)
      /\ adjustment # 0
      /\ Fits(adjustment)
      /\ \/ /\ seeded
            /\ Insert(NewRow(h, a, d, adjustment, TypeOfSign(adjustment),
                             "Reconciliation Adjustment", NoTransfer, TRUE))
            /\ records' = records \cup {record}
            /\ UNCHANGED accounts
         \/ /\ ~seeded
            /\ Fits(accounts[a].balance_minor + adjustment)
            /\ SetBalance(a, accounts[a].balance_minor + adjustment)
            /\ UNCHANGED <<transactions, last_id, records>>
      /\ UNCHANGED seeded

(* Transactions *)

CreateTransaction(h, a, amount, type, c, applies, d) ==
  /\ Live(h, a)
  /\ c # NoCategory => Assignable(h, c)
  /\ Insert(NewRow(h, a, d, Signed(amount, type), type, c, NoTransfer, applies))
  /\ UNCHANGED <<seeded, accounts, records>>

\* The amount an update stores: re-signed when the amount or the type is sent.
ResignedFaulty(old, amount, type) ==
  IF amount # Unset
    THEN Signed(amount, IF type # KeepType THEN type ELSE old.type)
    ELSE old.amount_minor
Resigned(old, amount, type) ==
  IF amount # Unset \/ type # KeepType
    THEN Signed(IF amount # Unset THEN amount ELSE Abs(old.amount_minor),
                IF type # KeepType THEN type ELSE old.type)
    ELSE old.amount_minor

\* The refusal to move a row away from a system category can never be
\* reached: the row's own category was refused before it.
UpdateTransaction(h, t, amount, type, c, d) ==
  /\ Visible(h, t)
  /\ ~IsSystem(transactions[t].category)
  /\ c \notin {KeepCategory, NoCategory} => Assignable(h, c)
  /\ Update([u \in {t} |->
       [transactions[t] EXCEPT
          !.date = IF d # Unset THEN d ELSE @,
          !.category = IF c # KeepCategory THEN c ELSE @,
          !.type = IF type # KeepType THEN type ELSE @,
          !.amount_minor = Resigned(transactions[t], amount, type)]])
  /\ UNCHANGED <<seeded, accounts, records>>

HasRecord(t) == \E r \in records : r.transaction_id = t

DeleteTransaction(h, t) ==
  /\ Visible(h, t)
  /\ transactions[t].category # "Opening Balance"
  /\ transactions[t].category = "Reconciliation Adjustment" => ~HasRecord(t)
  /\ Update([u \in {t} |-> Deactivated(transactions[t])])
  /\ UNCHANGED <<seeded, accounts, records>>

BulkDelete(h, ids) ==
  LET verified == {t \in ids : Visible(h, t)}
  IN  /\ verified # {}
      /\ Update([t \in verified |-> Deactivated(transactions[t])])
      /\ UNCHANGED <<seeded, accounts, records>>

\* total is the sum of the split items of the request; each of them is
\* positive, so a list with total 0 is the empty one.
SplitTransaction(h, t, total) ==
  /\ Visible(h, t)
  /\ total = Abs(transactions[t].amount_minor)
  /\ Update([u \in {t} |-> [transactions[t] EXCEPT !.split_total = total]])
  /\ UNCHANGED <<seeded, accounts, records>>

Categorize(h, t, c) ==
  /\ Visible(h, t)
  /\ Accessible(h, c)
  /\ Update([u \in {t} |-> [transactions[t] EXCEPT !.category = c]])
  /\ UNCHANGED <<seeded, accounts, records>>

BulkCategorize(h, ids, c) ==
  /\ ids # {}
  /\ Accessible(h, c)
  /\ Update([t \in {u \in ids : Visible(h, u)} |->
               [transactions[t] EXCEPT !.category = c]])
  /\ UNCHANGED <<seeded, accounts, records>>

(* Transfers *)

\* Integer round-half-up; a rate is refused between accounts of one currency
\* and demanded between accounts of two.
TargetAmount(source, rate) ==
  IF rate = NoRate THEN source ELSE (source * rate + 5000) \div 10000

CreateTransfer(h, from, to, source, rate, d) ==
  LET target == TargetAmount(source, rate)
      transfer_id == last_id + 1   \* a fresh uuid
      Leg(a, signed, type) ==
        NewRow(h, a, d, signed, type, "Transfer", transfer_id, FALSE)
  IN  /\ from # to
      /\ Live(h, from) /\ Live(h, to)
      /\ (rate = NoRate) <=> (CurrencyOf[from] = CurrencyOf[to])
      /\ Fits(target)
      /\ Fits(accounts[from].balance_minor - source)
      /\ Fits(accounts[to].balance_minor + target)
      /\ last_id + 2 <= MaxTransactions
      /\ last_id' = last_id + 2
      /\ transactions' =
           [t \in 1 .. last_id + 2 |->
              IF t <= last_id THEN transactions[t]
              ELSE IF t = last_id + 1 THEN Leg(from, -source, "debit")
              ELSE Leg(to, target, "credit")]
      /\ accounts' = [accounts EXCEPT ![from].balance_minor = @ - source,
                                      ![to].balance_minor = @ + target]
      /\ UNCHANGED <<seeded, records>>

Legs(h, x) == {t \in DOMAIN transactions :
                 Visible(h, t) /\ transactions[t].transfer_id = x}

RestoredFaulty(t) == Abs(transactions[t].amount_minor)

\* What delete_transfer adds back to the balance of the leg's account.
Restored(t) ==
  LET size == Abs(transactions[t].amount_minor)
  IN  IF transactions[t].type = "debit" THEN size ELSE -size

\* The splits of a leg are left alone.
DeleteTransfer(h, x) ==
  LET legs == Legs(h, x)
      NewBalance(a) ==
        accounts[a].balance_minor
          + MapThenSumSet(Restored, {t \in legs : transactions[t].account_id = a})
  IN  /\ x # NoTransfer
      /\ legs # {}
      /\ \A a \in Account : Fits(NewBalance(a))
      /\ accounts' = [a \in Account |->
                        [accounts[a] EXCEPT !.balance_minor = NewBalance(a)]]
      /\ Update([t \in legs |-> [transactions[t] EXCEPT !.is_active = FALSE]])
      /\ UNCHANGED <<seeded, records>>

-----------------------------------------------------------------------------
\* The requests of one household.
AccountRequest(h) ==
  \E a \in Account :
    \/ \E opening \in Opening, opened_at \in OpenedAt, today \in Date :
         CreateAccount(h, a, opening, opened_at, today)
    \/ \E opened_at \in OpenedAt : UpdateAccount(h, a, opened_at)
    \/ DeleteAccount(h, a)
    \/ \E actual \in Actual, d \in Date : Reconcile(h, a, actual, d)

TransactionRequest(h) ==
  \/ \E a \in Account, amount \in Amount, type \in Type,
        c \in Sendable \cup {NoCategory}, applies \in BOOLEAN, d \in Date :
       CreateTransaction(h, a, amount, type, c, applies, d)
  \/ \E t \in DOMAIN transactions :
       \/ \E amount \in Amount \cup {Unset}, type \in Type \cup {KeepType},
             c \in Sendable \cup {NoCategory, KeepCategory}, d \in Date \cup {Unset} :
            UpdateTransaction(h, t, amount, type, c, d)
       \/ DeleteTransaction(h, t)
       \/ \E total \in 0 .. MaxMinor : SplitTransaction(h, t, total)
       \/ \E c \in Sendable : Categorize(h, t, c)
  \/ \E ids \in SUBSET DOMAIN transactions :
       \/ BulkDelete(h, ids)
       \/ \E c \in Sendable : BulkCategorize(h, ids, c)

TransferRequest(h) ==
  \/ \E from, to \in Account, source \in TransferAmount,
        rate \in Rate \cup {NoRate}, d \in Date :
       CreateTransfer(h, from, to, source, rate, d)
  \/ \E x \in TransactionId : DeleteTransfer(h, x)

Next ==
  \/ RunSeeds
  \/ \E h \in Household :
       AccountRequest(h) \/ TransactionRequest(h) \/ TransferRequest(h)

Spec == Init /\ [][Next]_vars

-----------------------------------------------------------------------------
(* Properties *)

\* The tables hold rows of their column types, ids are dense, and no amount
\* or balance leaves the BIGINT range.
TypeOK ==
  /\ seeded \in BOOLEAN
  /\ accounts \in [Account -> AccountRow]
  /\ last_id \in 0 .. MaxTransactions
  /\ transactions \in [1 .. last_id -> TransactionRow]
  /\ records \subseteq ReconciliationRecord

\* Whatever handler wrote it last (creation, the partial update that sends
\* only one of amount and type, a transfer, a reconciliation), a row's stored
\* sign agrees with its type: delete_transfer picks the direction of the
\* reversal from the type and its size from the amount.
SignMatchesType ==
  \A t \in DOMAIN transactions :
    /\ transactions[t].amount_minor > 0 => transactions[t].type = "credit"
    /\ transactions[t].amount_minor < 0 => transactions[t].type = "debit"

\* Deleting an account leaves no live transaction behind on it, and no later
\* request puts one there.
ActiveOnLiveAccount ==
  \A t \in DOMAIN transactions :
    transactions[t].is_active =>
      accounts[transactions[t].account_id].status = "active"

\* Tenant isolation: every row that a household owns, the two legs of a
\* transfer included, sits on an account of that household.
RowsStayInHousehold ==
  \A t \in DOMAIN transactions :
    transactions[t].household_id = HouseholdOf[transactions[t].account_id]

\* Splits die with their transaction on every path that deletes one, the
\* transfer path excepted (see SplitsFollowTransaction).
SplitsFollowPlainTransaction ==
  \A t \in DOMAIN transactions :
    /\ transactions[t].transfer_id = NoTransfer
    /\ ~transactions[t].is_active
    => transactions[t].split_total = 0

LegSum(a) ==
  SumAmounts({t \in DOMAIN transactions :
                /\ transactions[t].account_id = a
                /\ transactions[t].is_active
                /\ transactions[t].transfer_id # NoTransfer})

\* Once the system categories exist, only transfers write balance_minor, and
\* every such write moves it by exactly what the live legs on that account
\* change by, for legs that were re-signed, resized or half deleted too.
BalanceWritesMatchLegs ==
  [][\A a \in Account :
       seeded /\ accounts'[a].balance_minor # accounts[a].balance_minor =>
         accounts'[a].balance_minor - accounts[a].balance_minor
           = LegSum(a)' - LegSum(a)]_vars

\* A soft delete is final: no handler revives, edits, recategorises or
\* re-splits a deleted row, and no handler revives an account.
SoftDeleteIsFinal ==
  [][/\ \A t \in DOMAIN transactions :
          ~transactions[t].is_active => transactions'[t] = transactions[t]
     /\ \A a \in Account :
          accounts[a].status = "deleted" => accounts'[a].status = "deleted"]_vars

\* A reconciliation whose adjustment is dated on or after the cut-off makes
\* the displayed balance equal to the balance the user gave.
ReconcileReachesActual ==
  [][\A r \in records' \ records :
       transactions'[r.transaction_id].date >= CutOff(r.account_id) =>
         Displayed(r.account_id)' = r.actual]_vars

\* The seed script has marked the category of the row, at the insertion of the
\* category or later.
Protected(t) ==
  transactions[t].category
    \in SystemCategory \cup (IF seeded THEN SpecialCategory ELSE {})

\* While a transaction is filed under a marked category no request, on the
\* transaction or on its transfer, changes its amount, type or date: it can
\* only be refiled or deleted.
SystemRowsFrozen ==
  [][\A t \in DOMAIN transactions :
       Protected(t) =>
         /\ transactions'[t].amount_minor = transactions[t].amount_minor
         /\ transactions'[t].type = transactions[t].type
         /\ transactions'[t].date = transactions[t].date]_vars
=============================================================================
