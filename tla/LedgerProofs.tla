---------------------------- MODULE LedgerProofs ----------------------------
(***************************************************************************)
(* Proofs about Ledger: its type invariant, the safety invariants, and     *)
(* what single requests do to rows and balances.  The sums over the table  *)
(* are the sums over finite sets of AmortizationProofs.                    *)
(***************************************************************************)
EXTENDS Ledger, AmortizationProofs, FiniteSetTheorems, TLAPS

-----------------------------------------------------------------------------
(* Rows *)

\* A signed amount is in the range of the amount column.
LEMMA SignedIsMinor ==
  ASSUME NEW amount \in Minor, NEW type
  PROVE  Signed(amount, type) \in Minor
BY LedgerAssumption DEF Signed, Abs, Minor

\* An amount that an update stores is in that range.
LEMMA ResignedIsMinor ==
  ASSUME NEW old \in TransactionRow, NEW amount \in Amount \cup {Unset}, NEW type
  PROVE  Resigned(old, amount, type) \in Minor
<1>1. old.amount_minor \in Minor /\ Abs(old.amount_minor) \in Minor
  BY LedgerAssumption DEF TransactionRow, Abs, Minor
<1>2. amount # Unset => amount \in Minor
  BY LedgerAssumption DEF Minor
<1>3. CASE amount # Unset
  BY <1>2, <1>3, SignedIsMinor DEF Resigned
<1>4. CASE amount = Unset
  BY <1>1, <1>4, SignedIsMinor DEF Resigned
<1> QED
  BY <1>3, <1>4

\* A row built from typed fields is a row of transactions.
LEMMA NewRowType ==
  ASSUME NEW h \in Household, NEW a \in Account, NEW d \in Date,
         NEW n \in Minor, NEW type \in Type, NEW c \in Category,
         NEW x \in Nat, NEW applies \in BOOLEAN
  PROVE  NewRow(h, a, d, n, type, c, x, applies) \in TransactionRow
BY DEF NewRow, TransactionRow

\* A soft-deleted row is a row of transactions.
LEMMA DeactivatedType ==
  ASSUME NEW row \in TransactionRow
  PROVE  Deactivated(row) \in TransactionRow
BY DEF Deactivated, TransactionRow

\* A row read from a well typed table.
LEMMA RowType ==
  ASSUME TypeOK, NEW t \in DOMAIN transactions
  PROVE  transactions[t] \in TransactionRow
BY DEF TypeOK

-----------------------------------------------------------------------------
(* Tables *)

\* The tables of a well typed state, one insertion later.
LEMMA InsertKeepsType ==
  ASSUME TypeOK, NEW row \in TransactionRow, Insert(row)
  PROVE  /\ last_id' \in 0 .. MaxTransactions
         /\ transactions' \in [1 .. last_id' -> TransactionRow]
BY LedgerAssumption DEF TypeOK, Insert

\* The tables of a well typed state, one UPDATE later.
LEMMA UpdateKeepsType ==
  ASSUME TypeOK, NEW new, \A t \in DOMAIN new : new[t] \in TransactionRow,
         Update(new)
  PROVE  /\ last_id' \in 0 .. MaxTransactions
         /\ transactions' \in [1 .. last_id' -> TransactionRow]
BY DEF TypeOK, Update

-----------------------------------------------------------------------------
(* Every table keeps its type *)

\* Both tables hold rows of their types, in the range of their columns, after
\* any sequence of requests.
THEOREM TypeCorrect == Spec => []TypeOK
<1> USE LedgerAssumption
<1>1. Init => TypeOK
  BY DEF Init, TypeOK, AccountRow, Minor
<1>2. TypeOK /\ [Next]_vars => TypeOK'
  <2> SUFFICES ASSUME TypeOK, [Next]_vars PROVE TypeOK'
    OBVIOUS
  <2>1. CASE RunSeeds
    BY <2>1 DEF RunSeeds, TypeOK
  <2>2. ASSUME NEW h \in Household, NEW a \in Account, NEW opening \in Opening,
               NEW opened_at \in OpenedAt, NEW today \in Date,
               CreateAccount(h, a, opening, opened_at, today)
        PROVE  TypeOK'
    <3> DEFINE amount == OpeningAmount(a, opening)
               row == [status |-> "active", opened_at |-> opened_at,
                       balance_minor |-> IF seeded THEN 0 ELSE amount]
               ob_date == IF opened_at # NoDate THEN opened_at ELSE today
               ob_row == NewRow(h, a, ob_date, amount, TypeOfSign(amount),
                                "Opening Balance", NoTransfer, TRUE)
    <3>1. amount \in Minor /\ 0 \in Minor
      BY DEF OpeningAmount, Minor
    <3>2. row \in AccountRow
      BY <3>1 DEF AccountRow
    <3>3. accounts' \in [Account -> AccountRow]
      BY <2>2, <3>2 DEF CreateAccount, TypeOK
    <3>4. ob_row \in TransactionRow
      <4>1. ob_date \in Date
        BY DEF NoDate
      <4>2. TypeOfSign(amount) \in Type /\ "Opening Balance" \in Category
        BY DEF TypeOfSign, Type, Category, SystemCategory
      <4>3. NoTransfer \in Nat
        BY DEF NoTransfer
      <4> HIDE DEF amount, ob_date
      <4> QED
        BY <3>1, <4>1, <4>2, <4>3, NewRowType
    <3>5. /\ last_id' \in 0 .. MaxTransactions
          /\ transactions' \in [1 .. last_id' -> TransactionRow]
      <4>1. CASE seeded /\ opening # 0
        <5>1. Insert(ob_row)
          BY <2>2, <4>1 DEF CreateAccount
        <5> HIDE DEF ob_row
        <5> QED
          BY <3>4, <5>1, InsertKeepsType
      <4>2. CASE ~(seeded /\ opening # 0)
        BY <2>2, <4>2 DEF CreateAccount, TypeOK
      <4> QED
        BY <4>1, <4>2
    <3> QED
      BY <2>2, <3>3, <3>5 DEF CreateAccount, TypeOK
  <2>3. ASSUME NEW h \in Household, NEW a \in Account,
               NEW opened_at \in OpenedAt, UpdateAccount(h, a, opened_at)
        PROVE  TypeOK'
    BY <2>3 DEF UpdateAccount, TypeOK, AccountRow
  <2>4. ASSUME NEW h \in Household, NEW a \in Account, DeleteAccount(h, a)
        PROVE  TypeOK'
    <3>1. accounts' \in [Account -> AccountRow]
      BY <2>4 DEF DeleteAccount, TypeOK, AccountRow
    <3>2. /\ last_id' \in 0 .. MaxTransactions
          /\ transactions' \in [1 .. last_id' -> TransactionRow]
      <4> DEFINE new == [t \in {u \in DOMAIN transactions :
                                   /\ transactions[u].account_id = a
                                   /\ transactions[u].is_active}
                           |-> Deactivated(transactions[t])]
      <4>1. \A t \in DOMAIN new : new[t] \in TransactionRow
        BY RowType, DeactivatedType
      <4>2. Update(new)
        BY <2>4 DEF DeleteAccount
      <4> HIDE DEF new
      <4> QED
        BY <4>1, <4>2, UpdateKeepsType
    <3> QED
      BY <2>4, <3>1, <3>2 DEF DeleteAccount, TypeOK
  <2>5. ASSUME NEW h \in Household, NEW a \in Account, NEW actual \in Actual,
               NEW d \in Date, Reconcile(h, a, actual, d)
        PROVE  TypeOK'
    <3> DEFINE adjustment == Discrepancy(a, actual)
               row == NewRow(h, a, d, adjustment, TypeOfSign(adjustment),
                             "Reconciliation Adjustment", NoTransfer, TRUE)
               record == [account_id |-> a, transaction_id |-> last_id + 1,
                          actual |-> actual]
    <3>1. adjustment \in Minor
      BY <2>5 DEF Reconcile, Fits
    <3>2. row \in TransactionRow
      <4>1. /\ TypeOfSign(adjustment) \in Type
            /\ "Reconciliation Adjustment" \in Category
        BY DEF TypeOfSign, Type, Category, SystemCategory
      <4>2. NoTransfer \in Nat
        BY DEF NoTransfer
      <4> HIDE DEF adjustment
      <4> QED
        BY <3>1, <4>1, <4>2, NewRowType
    <3>3. record \in ReconciliationRecord
      BY DEF TypeOK, ReconciliationRecord
    <3>4. CASE seeded
      <4>1. Insert(row) /\ records' = records \cup {record}
        BY <2>5, <3>4 DEF Reconcile
      <4>2. /\ last_id' \in 0 .. MaxTransactions
            /\ transactions' \in [1 .. last_id' -> TransactionRow]
        <5> HIDE DEF row
        <5> QED
          BY <3>2, <4>1, InsertKeepsType
      <4> HIDE DEF record
      <4>3. accounts' = accounts /\ seeded' = seeded
        BY <2>5, <3>4 DEF Reconcile
      <4> QED
        BY <3>3, <4>1, <4>2, <4>3 DEF TypeOK
    <3>5. CASE ~seeded
      <4> DEFINE balance == accounts[a].balance_minor + adjustment
      <4>1. /\ balance \in Minor
            /\ accounts' = [accounts EXCEPT ![a].balance_minor = balance]
            /\ UNCHANGED <<seeded, transactions, last_id, records>>
        BY <2>5, <3>5 DEF Reconcile, Fits, SetBalance
      <4> HIDE DEF balance
      <4> QED
        BY <4>1 DEF TypeOK, AccountRow
    <3> QED
      BY <3>4, <3>5
  <2>6. ASSUME NEW h \in Household, NEW a \in Account, NEW amount \in Amount,
               NEW type \in Type, NEW c \in Sendable \cup {NoCategory},
               NEW applies \in BOOLEAN, NEW d \in Date,
               CreateTransaction(h, a, amount, type, c, applies, d)
        PROVE  TypeOK'
    <3> DEFINE row == NewRow(h, a, d, Signed(amount, type), type, c,
                             NoTransfer, applies)
    <3>1. row \in TransactionRow
      <4>1. Signed(amount, type) \in Minor
        BY SignedIsMinor DEF Minor
      <4>2. c \in Category /\ NoTransfer \in Nat
        BY DEF Category, NoTransfer
      <4> QED
        BY <4>1, <4>2, NewRowType
    <3>2. Insert(row) /\ UNCHANGED <<seeded, accounts, records>>
      BY <2>6 DEF CreateTransaction
    <3> HIDE DEF row
    <3> QED
      BY <3>1, <3>2, InsertKeepsType DEF TypeOK
  <2>7. ASSUME NEW h \in Household, NEW t \in DOMAIN transactions,
               NEW amount \in Amount \cup {Unset}, NEW type \in Type \cup {KeepType},
               NEW c \in Sendable \cup {NoCategory, KeepCategory},
               NEW d \in Date \cup {Unset},
               UpdateTransaction(h, t, amount, type, c, d)
        PROVE  TypeOK'
    <3> DEFINE row == [transactions[t] EXCEPT
                         !.date = IF d # Unset THEN d ELSE @,
                         !.category = IF c # KeepCategory THEN c ELSE @,
                         !.type = IF type # KeepType THEN type ELSE @,
                         !.amount_minor = Resigned(transactions[t], amount, type)]
    <3>1. transactions[t] \in TransactionRow
      BY RowType
    <3>2. Resigned(transactions[t], amount, type) \in Minor
      BY <3>1, ResignedIsMinor
    <3>3. row \in TransactionRow
      BY <3>1, <3>2, ZenonT(60) DEF TransactionRow, Category
    <3>4. /\ Update([u \in {t} |-> row])
          /\ UNCHANGED <<seeded, accounts, records>>
      BY <2>7 DEF UpdateTransaction
    <3> DEFINE new == [u \in {t} |-> row]
    <3> HIDE DEF row
    <3>5. Update(new) /\ \A u \in DOMAIN new : new[u] \in TransactionRow
      BY <3>3, <3>4
    <3> HIDE DEF new
    <3> QED
      BY <3>4, <3>5, UpdateKeepsType DEF TypeOK
  <2>8. ASSUME NEW h \in Household, NEW t \in DOMAIN transactions, DeleteTransaction(h, t)
        PROVE  TypeOK'
    <3> DEFINE new == [u \in {t} |-> Deactivated(transactions[t])]
    <3>1. \A u \in DOMAIN new : new[u] \in TransactionRow
      BY RowType, DeactivatedType
    <3>2. Update(new) /\ UNCHANGED <<seeded, accounts, records>>
      BY <2>8 DEF DeleteTransaction
    <3> HIDE DEF new
    <3> QED
      BY <3>1, <3>2, UpdateKeepsType DEF TypeOK
  <2>9. ASSUME NEW h \in Household, NEW t \in DOMAIN transactions,
               NEW total \in 0 .. MaxMinor, SplitTransaction(h, t, total)
        PROVE  TypeOK'
    <3> DEFINE new == [u \in {t} |-> [transactions[t] EXCEPT !.split_total = total]]
    <3>1. \A u \in DOMAIN new : new[u] \in TransactionRow
      BY RowType DEF TransactionRow
    <3>2. Update(new) /\ UNCHANGED <<seeded, accounts, records>>
      BY <2>9 DEF SplitTransaction
    <3> HIDE DEF new
    <3> QED
      BY <3>1, <3>2, UpdateKeepsType DEF TypeOK
  <2>10. ASSUME NEW h \in Household, NEW t \in DOMAIN transactions, NEW c \in Sendable,
                Categorize(h, t, c)
        PROVE  TypeOK'
    <3> DEFINE new == [u \in {t} |-> [transactions[t] EXCEPT !.category = c]]
    <3>1. \A u \in DOMAIN new : new[u] \in TransactionRow
      BY RowType DEF TransactionRow, Category
    <3>2. Update(new) /\ UNCHANGED <<seeded, accounts, records>>
      BY <2>10 DEF Categorize
    <3> HIDE DEF new
    <3> QED
      BY <3>1, <3>2, UpdateKeepsType DEF TypeOK
  <2>11. ASSUME NEW h \in Household, NEW ids \in SUBSET DOMAIN transactions, BulkDelete(h, ids)
        PROVE  TypeOK'
    <3> DEFINE new == [t \in {u \in ids : Visible(h, u)} |-> Deactivated(transactions[t])]
    <3>1. \A u \in DOMAIN new : new[u] \in TransactionRow
      BY RowType, DeactivatedType
    <3>2. Update(new) /\ UNCHANGED <<seeded, accounts, records>>
      BY <2>11 DEF BulkDelete
    <3> HIDE DEF new
    <3> QED
      BY <3>1, <3>2, UpdateKeepsType DEF TypeOK
  <2>12. ASSUME NEW h \in Household, NEW ids \in SUBSET DOMAIN transactions,
                NEW c \in Sendable, BulkCategorize(h, ids, c)
        PROVE  TypeOK'
    <3> DEFINE new == [t \in {u \in ids : Visible(h, u)} |->
                      [transactions[t] EXCEPT !.category = c]]
    <3>1. \A u \in DOMAIN new : new[u] \in TransactionRow
      BY RowType DEF TransactionRow, Category
    <3>2. Update(new) /\ UNCHANGED <<seeded, accounts, records>>
      BY <2>12 DEF BulkCategorize
    <3> HIDE DEF new
    <3> QED
      BY <3>1, <3>2, UpdateKeepsType DEF TypeOK
  <2>13. ASSUME NEW h \in Household, NEW from \in Account, NEW to \in Account,
                NEW source \in TransferAmount, NEW rate \in Rate \cup {NoRate},
                NEW d \in Date, CreateTransfer(h, from, to, source, rate, d)
         PROVE  TypeOK'
    <3> DEFINE target == TargetAmount(source, rate)
               Leg(a, signed, type) ==
                 NewRow(h, a, d, signed, type, "Transfer", last_id + 1, FALSE)
    <3>1. /\ target \in Minor
          /\ accounts[from].balance_minor - source \in Minor
          /\ accounts[to].balance_minor + target \in Minor
          /\ from # to
      BY <2>13 DEF CreateTransfer, Fits
    <3>2. Leg(from, -source, "debit") \in TransactionRow
      <4>1. /\ -source \in Minor /\ "debit" \in Type
            /\ "Transfer" \in Category /\ last_id + 1 \in Nat
        BY DEF Minor, Type, Category, SpecialCategory, TypeOK
      <4> QED
        BY <4>1, NewRowType
    <3>3. Leg(to, target, "credit") \in TransactionRow
      <4>1. /\ "credit" \in Type /\ "Transfer" \in Category
            /\ last_id + 1 \in Nat
        BY DEF Type, Category, SpecialCategory, TypeOK
      <4> HIDE DEF target
      <4> QED
        BY <3>1, <4>1, NewRowType
    <3>4. accounts' \in [Account -> AccountRow]
      <4>1. accounts' = [accounts EXCEPT ![from].balance_minor = @ - source,
                                         ![to].balance_minor = @ + target]
        BY <2>13 DEF CreateTransfer
      <4> HIDE DEF target
      <4> QED
        BY <3>1, <4>1, ZenonT(60) DEF TypeOK, AccountRow
    <3>5. /\ last_id' \in 0 .. MaxTransactions
          /\ transactions' \in [1 .. last_id' -> TransactionRow]
      <4> DEFINE row1 == Leg(from, -source, "debit")
                 row2 == Leg(to, target, "credit")
      <4>1. /\ last_id' = last_id + 2
            /\ last_id + 2 <= MaxTransactions
            /\ transactions' = [t \in 1 .. last_id + 2 |->
                                  IF t <= last_id THEN transactions[t]
                                  ELSE IF t = last_id + 1 THEN row1 ELSE row2]
        BY <2>13 DEF CreateTransfer
      <4>2. row1 \in TransactionRow /\ row2 \in TransactionRow
        BY <3>2, <3>3
      <4> HIDE DEF row1, row2
      <4> QED
        BY <4>1, <4>2 DEF TypeOK
    <3> QED
      BY <2>13, <3>4, <3>5 DEF CreateTransfer, TypeOK
  <2>14. ASSUME NEW h \in Household, NEW x \in TransactionId,
                DeleteTransfer(h, x)
         PROVE  TypeOK'
    <3> DEFINE Balance(a) ==
                 accounts[a].balance_minor
                   + MapThenSumSet(Restored, {t \in Legs(h, x) :
                                                transactions[t].account_id = a})
               new == [t \in Legs(h, x) |->
                         [transactions[t] EXCEPT !.is_active = FALSE]]
    <3>1. accounts' \in [Account -> AccountRow]
      <4>1. /\ \A a \in Account : Balance(a) \in Minor
            /\ accounts' = [a \in Account |->
                              [accounts[a] EXCEPT !.balance_minor = Balance(a)]]
        BY <2>14 DEF DeleteTransfer, Fits
      <4> HIDE DEF Balance
      <4> QED
        BY <4>1 DEF TypeOK, AccountRow
    <3>2. Update(new) /\ UNCHANGED <<seeded, records>>
      BY <2>14 DEF DeleteTransfer
    <3>3. \A t \in DOMAIN new : new[t] \in TransactionRow
      BY RowType, ZenonT(60) DEF Legs, TransactionRow
    <3> HIDE DEF new
    <3> QED
      BY <3>1, <3>2, <3>3, UpdateKeepsType DEF TypeOK
  <2>15. CASE UNCHANGED vars
    BY <2>15 DEF vars, TypeOK
  <2> QED
    BY <2>1, <2>2, <2>3, <2>4, <2>5, <2>6, <2>7, <2>8, <2>9, <2>10, <2>11,
       <2>12, <2>13, <2>14, <2>15
       DEF Next, AccountRequest, TransactionRequest, TransferRequest
<1> QED
  BY <1>1, <1>2, PTL DEF Spec

-----------------------------------------------------------------------------
(* What one request may do to a row and to an account *)

\* The sign of the amount and the type say the same.
SignOK(row) ==
  /\ row.amount_minor > 0 => row.type = "credit"
  /\ row.amount_minor < 0 => row.type = "debit"

\* From one row of the table to what the request leaves of it.
Evolves(old, new) ==
  /\ new.household_id = old.household_id
  /\ new.account_id = old.account_id
  /\ new.transfer_id = old.transfer_id
  /\ old.is_active \/ new = old
  /\ SignOK(old) => SignOK(new)
  /\ old.transfer_id = NoTransfer /\ old.is_active /\ ~new.is_active
     => new.split_total = 0
  /\ IsSystem(old.category) => /\ new.amount_minor = old.amount_minor
                              /\ new.type = old.type
                              /\ new.date = old.date

\* A row the request inserts, on an account that is live after it.
Born(row) ==
  /\ row.is_active
  /\ row.split_total = 0
  /\ row.household_id = HouseholdOf[row.account_id]
  /\ SignOK(row)

TableStep ==
  /\ DOMAIN transactions \subseteq DOMAIN transactions'
  /\ \A t \in DOMAIN transactions : Evolves(transactions[t], transactions'[t])
  /\ \A t \in DOMAIN transactions' \ DOMAIN transactions :
       /\ Born(transactions'[t])
       /\ accounts'[transactions'[t].account_id].status = "active"

\* An account never comes back, and none leaves with a live transaction on it.
AccountStep ==
  \A a \in Account :
    /\ accounts[a].status = "deleted" => accounts'[a].status = "deleted"
    /\ accounts[a].status = "active" =>
         \/ accounts'[a].status = "active"
         \/ \A t \in DOMAIN transactions :
              transactions[t].account_id = a => ~transactions'[t].is_active

\* A row may stay as it is.
LEMMA EvolvesReflexive ==
  ASSUME NEW row
  PROVE  Evolves(row, row)
BY DEF Evolves

\* A soft deletion is a permitted change of a row.
LEMMA DeactivatedEvolves ==
  ASSUME NEW row \in TransactionRow, row.is_active
  PROVE  Evolves(row, Deactivated(row)) /\ ~Deactivated(row).is_active
BY DEF Evolves, Deactivated, TransactionRow, SignOK

\* An amount that a handler signs agrees with the type it is signed by.
LEMMA SignedSign ==
  ASSUME NEW amount \in Int, NEW type \in Type
  PROVE  /\ Signed(amount, type) > 0 => type = "credit"
         /\ Signed(amount, type) < 0 => type = "debit"
BY DEF Signed, Abs, Type

\* The type derived from a signed amount agrees with its sign.
LEMMA TypeOfSignSign ==
  ASSUME NEW amount \in Int
  PROVE  /\ amount > 0 => TypeOfSign(amount) = "credit"
         /\ amount < 0 => TypeOfSign(amount) = "debit"
BY DEF TypeOfSign

\* A converted transfer amount is never negative.
LEMMA TargetAmountNatural ==
  ASSUME NEW source \in Nat, NEW rate \in Nat
  PROVE  TargetAmount(source, rate) \in Nat
<1>1. source * rate \in Nat
  OBVIOUS
<1>2. \A n \in Nat : (n + 5000) \div 10000 \in Nat
  OBVIOUS
<1> QED
  BY <1>1, <1>2 DEF TargetAmount

\* A request that inserts one row, on an account that is live after it.
LEMMA InsertTableStep ==
  ASSUME TypeOK, NEW row \in TransactionRow, Insert(row), Born(row),
         accounts'[row.account_id].status = "active"
  PROVE  TableStep
<1>1. \A t \in DOMAIN transactions : Evolves(transactions[t], transactions'[t])
  BY EvolvesReflexive, RowType DEF Insert, TypeOK, TransactionRow
<1>2. /\ DOMAIN transactions = 1 .. last_id
      /\ DOMAIN transactions' = 1 .. last_id + 1
  BY DEF Insert, TypeOK
<1>3. \A t \in DOMAIN transactions' \ DOMAIN transactions : transactions'[t] = row
  BY <1>2 DEF Insert, TypeOK
<1>4. DOMAIN transactions \subseteq DOMAIN transactions'
  BY <1>2 DEF TypeOK
<1> QED
  BY <1>1, <1>3, <1>4 DEF TableStep

\* A request that updates rows.
LEMMA UpdateTableStep ==
  ASSUME TypeOK, NEW new, Update(new),
         \A t \in DOMAIN new : /\ t \in DOMAIN transactions
                               /\ Evolves(transactions[t], new[t])
  PROVE  TableStep
<1>1. \A t \in DOMAIN transactions : Evolves(transactions[t], transactions'[t])
  BY EvolvesReflexive, RowType DEF Update, TypeOK, TransactionRow
<1> QED
  BY <1>1 DEF TableStep, Update

\* A request that leaves both tables alone, or the status of every account.
LEMMA UnchangedTableStep ==
  ASSUME TypeOK, UNCHANGED transactions
  PROVE  TableStep
<1>1. \A t \in DOMAIN transactions : Evolves(transactions[t], transactions[t])
  BY EvolvesReflexive, RowType DEF TransactionRow
<1> QED
  BY <1>1 DEF TableStep

\* A request that leaves the status of every account alone.
LEMMA SameStatusAccountStep ==
  ASSUME \A a \in Account : accounts'[a].status = accounts[a].status
  PROVE  AccountStep
BY DEF AccountStep

\* Every request is a permitted change of both tables: one case per action.
LEMMA RequestStep ==
  ASSUME TypeOK, [Next]_vars
  PROVE  TableStep /\ AccountStep
<1> USE LedgerAssumption
<1>1. CASE RunSeeds
  BY <1>1, UnchangedTableStep, SameStatusAccountStep DEF RunSeeds
<1>2. ASSUME NEW h \in Household, NEW a \in Account, NEW opening \in Opening,
             NEW opened_at \in OpenedAt, NEW today \in Date,
             CreateAccount(h, a, opening, opened_at, today)
      PROVE  TableStep /\ AccountStep
  <2> DEFINE amount == OpeningAmount(a, opening)
             ob_date == IF opened_at # NoDate THEN opened_at ELSE today
             row == NewRow(h, a, ob_date, amount, TypeOfSign(amount),
                           "Opening Balance", NoTransfer, TRUE)
  <2>1. accounts'[a].status = "active" /\ HouseholdOf[a] = h
    BY <1>2 DEF CreateAccount, TypeOK
  <2>2. AccountStep
    BY <1>2 DEF CreateAccount, TypeOK, AccountStep
  <2>3. CASE seeded /\ opening # 0
    <3>1. Insert(row)
      BY <1>2, <2>3 DEF CreateAccount
    <3>2. amount \in Minor /\ ob_date \in Date
      BY DEF OpeningAmount, Minor, NoDate
    <3>3. row \in TransactionRow
      <4>1. /\ TypeOfSign(amount) \in Type /\ "Opening Balance" \in Category
            /\ NoTransfer \in Nat
        BY DEF TypeOfSign, Type, Category, SystemCategory, NoTransfer
      <4> HIDE DEF amount, ob_date
      <4> QED
        BY <3>2, <4>1, NewRowType
    <3>4. Born(row) /\ row.account_id = a
      <4>1. amount \in Int
        BY <3>2 DEF Minor
      <4> HIDE DEF amount, ob_date
      <4>2. /\ amount > 0 => TypeOfSign(amount) = "credit"
            /\ amount < 0 => TypeOfSign(amount) = "debit"
        BY <4>1, TypeOfSignSign
      <4> QED
        BY <2>1, <4>1, <4>2 DEF Born, NewRow, SignOK
    <3> HIDE DEF row
    <3> QED
      BY <2>1, <2>2, <3>1, <3>3, <3>4, InsertTableStep
  <2>4. CASE ~(seeded /\ opening # 0)
    BY <1>2, <2>2, <2>4, UnchangedTableStep DEF CreateAccount
  <2> QED
    BY <2>3, <2>4
<1>3. ASSUME NEW h \in Household, NEW a \in Account,
             NEW opened_at \in OpenedAt, UpdateAccount(h, a, opened_at)
      PROVE  TableStep /\ AccountStep
  <2>1. \A b \in Account : accounts'[b].status = accounts[b].status
    BY <1>3 DEF UpdateAccount, TypeOK, AccountRow
  <2> QED
    BY <1>3, <2>1, UnchangedTableStep, SameStatusAccountStep DEF UpdateAccount
<1>4. ASSUME NEW h \in Household, NEW a \in Account, DeleteAccount(h, a)
      PROVE  TableStep /\ AccountStep
  <2> DEFINE doomed == {u \in DOMAIN transactions :
                          /\ transactions[u].account_id = a
                          /\ transactions[u].is_active}
             new == [t \in doomed |-> Deactivated(transactions[t])]
  <2>1. Update(new)
    BY <1>4 DEF DeleteAccount
  <2>2. \A t \in doomed : /\ Evolves(transactions[t], new[t])
                          /\ ~new[t].is_active
    BY RowType, DeactivatedEvolves
  <2>3. TableStep
    <3> HIDE DEF new
    <3>1. DOMAIN new = doomed
      BY DEF new
    <3> QED
      BY <2>1, <2>2, <3>1, UpdateTableStep
  <2>4. \A t \in DOMAIN transactions :
          transactions[t].account_id = a => ~transactions'[t].is_active
    BY <2>1, <2>2, RowType DEF Update, TransactionRow
  <2>5. \A b \in Account \ {a} : accounts'[b] = accounts[b]
    BY <1>4 DEF DeleteAccount, TypeOK
  <2>6. accounts[a].status = "active"
    BY <1>4 DEF DeleteAccount, Live
  <2>7. AccountStep
    <3> HIDE DEF new, doomed
    <3> QED
      BY <2>4, <2>5, <2>6 DEF AccountStep
  <2> QED
    BY <2>3, <2>7
<1>5. ASSUME NEW h \in Household, NEW a \in Account, NEW actual \in Actual,
             NEW d \in Date, Reconcile(h, a, actual, d)
      PROVE  TableStep /\ AccountStep
  <2> DEFINE adjustment == Discrepancy(a, actual)
             row == NewRow(h, a, d, adjustment, TypeOfSign(adjustment),
                           "Reconciliation Adjustment", NoTransfer, TRUE)
  <2>1. Live(h, a) /\ adjustment \in Minor
    BY <1>5 DEF Reconcile, Fits
  <2>2. CASE seeded
    <3>1. Insert(row) /\ accounts' = accounts
      BY <1>5, <2>2 DEF Reconcile
    <3>2. row \in TransactionRow
      <4>1. /\ TypeOfSign(adjustment) \in Type /\ NoTransfer \in Nat
            /\ "Reconciliation Adjustment" \in Category
        BY DEF TypeOfSign, Type, Category, SystemCategory, NoTransfer
      <4> HIDE DEF adjustment
      <4> QED
        BY <2>1, <4>1, NewRowType
    <3>3. Born(row) /\ row.account_id = a
      <4>1. adjustment \in Int
        BY <2>1 DEF Minor
      <4> HIDE DEF adjustment
      <4>2. /\ adjustment > 0 => TypeOfSign(adjustment) = "credit"
            /\ adjustment < 0 => TypeOfSign(adjustment) = "debit"
        BY <4>1, TypeOfSignSign
      <4> QED
        BY <2>1, <4>1, <4>2 DEF Live, Born, NewRow, SignOK
    <3> HIDE DEF row
    <3> QED
      BY <2>1, <3>1, <3>2, <3>3, InsertTableStep, SameStatusAccountStep DEF Live
  <2>3. CASE ~seeded
    <3>1. UNCHANGED transactions
      BY <1>5, <2>3 DEF Reconcile
    <3>2. \A b \in Account : accounts'[b].status = accounts[b].status
      <4> DEFINE balance == accounts[a].balance_minor + adjustment
      <4>1. accounts' = [accounts EXCEPT ![a].balance_minor = balance]
        BY <1>5, <2>3 DEF Reconcile, SetBalance
      <4> HIDE DEF balance
      <4> QED
        BY <4>1 DEF TypeOK, AccountRow
    <3> QED
      BY <3>1, <3>2, UnchangedTableStep, SameStatusAccountStep
  <2> QED
    BY <2>2, <2>3
<1>6. ASSUME NEW h \in Household, NEW a \in Account, NEW amount \in Amount,
             NEW type \in Type, NEW c \in Sendable \cup {NoCategory},
             NEW applies \in BOOLEAN, NEW d \in Date,
             CreateTransaction(h, a, amount, type, c, applies, d)
      PROVE  TableStep /\ AccountStep
  <2> DEFINE signed == Signed(amount, type)
             row == NewRow(h, a, d, signed, type, c, NoTransfer, applies)
  <2>1. Insert(row) /\ accounts' = accounts /\ Live(h, a)
    BY <1>6 DEF CreateTransaction
  <2>2. signed \in Minor /\ signed \in Int
    BY SignedIsMinor DEF Minor
  <2>3. row \in TransactionRow
    <3>1. c \in Category /\ NoTransfer \in Nat
      BY DEF Category, NoTransfer
    <3> HIDE DEF signed
    <3> QED
      BY <2>2, <3>1, NewRowType
  <2>4. Born(row) /\ row.account_id = a
    <3>1. signed > 0 => type = "credit"
      BY SignedSign DEF Minor
    <3>2. signed < 0 => type = "debit"
      BY SignedSign DEF Minor
    <3> HIDE DEF signed
    <3> QED
      BY <2>1, <2>2, <3>1, <3>2 DEF Live, Born, NewRow, SignOK
  <2> HIDE DEF row
  <2> QED
    BY <2>1, <2>3, <2>4, InsertTableStep, SameStatusAccountStep DEF Live
<1>7. ASSUME NEW h \in Household, NEW t \in DOMAIN transactions,
             NEW amount \in Amount \cup {Unset}, NEW type \in Type \cup {KeepType},
             NEW c \in Sendable \cup {NoCategory, KeepCategory},
             NEW d \in Date \cup {Unset},
             UpdateTransaction(h, t, amount, type, c, d)
      PROVE  TableStep /\ AccountStep
  <2> DEFINE old == transactions[t]
             row == [old EXCEPT
                       !.date = IF d # Unset THEN d ELSE @,
                       !.category = IF c # KeepCategory THEN c ELSE @,
                       !.type = IF type # KeepType THEN type ELSE @,
                       !.amount_minor = Resigned(old, amount, type)]
             new == [u \in {t} |-> row]
  <2>1. Update(new) /\ accounts' = accounts
    BY <1>7 DEF UpdateTransaction
  <2>2. old \in TransactionRow /\ old.is_active /\ ~IsSystem(old.category)
    BY <1>7, RowType DEF UpdateTransaction, Visible
  <2>3. Evolves(old, row)
    <3>1. SignOK(old) => SignOK(row)
      <4>1. CASE amount # Unset \/ type # KeepType
        <5> DEFINE size == IF amount # Unset THEN amount ELSE Abs(old.amount_minor)
                   kind == IF type # KeepType THEN type ELSE old.type
        <5>1. size \in Int /\ kind \in Type
          BY <2>2 DEF Abs, Minor, TransactionRow
        <5>2. row.type = kind /\ row.amount_minor = Signed(size, kind)
          BY <2>2, <4>1 DEF TransactionRow, Resigned
        <5> HIDE DEF size, kind, row
        <5> QED
          BY <5>1, <5>2, SignedSign DEF SignOK
      <4>2. CASE amount = Unset /\ type = KeepType
        BY <2>2, <4>2 DEF TransactionRow, Resigned, SignOK
      <4> QED
        BY <4>1, <4>2
    <3>2. /\ row.household_id = old.household_id
          /\ row.account_id = old.account_id
          /\ row.transfer_id = old.transfer_id
          /\ row.is_active = old.is_active
      BY <2>2 DEF TransactionRow
    <3> QED
      BY <2>2, <3>1, <3>2 DEF Evolves
  <2>4. \A u \in DOMAIN new : /\ u \in DOMAIN transactions
                              /\ Evolves(transactions[u], new[u])
    <3> HIDE DEF row
    <3> QED
      BY <2>3
  <2> HIDE DEF new
  <2> QED
    BY <2>1, <2>4, UpdateTableStep, SameStatusAccountStep
<1>8. ASSUME NEW h \in Household, NEW t \in DOMAIN transactions, DeleteTransaction(h, t)
      PROVE  TableStep /\ AccountStep
  <2> DEFINE new == [u \in {t} |-> Deactivated(transactions[t])]
  <2>1. Update(new) /\ accounts' = accounts
    BY <1>8 DEF DeleteTransaction
  <2>2. \A u \in DOMAIN new : /\ u \in DOMAIN transactions
                              /\ Evolves(transactions[u], new[u])
    BY <1>8, RowType, DeactivatedEvolves DEF DeleteTransaction, Visible
  <2> HIDE DEF new
  <2> QED
    BY <2>1, <2>2, UpdateTableStep, SameStatusAccountStep
<1>9. ASSUME NEW h \in Household, NEW t \in DOMAIN transactions,
             NEW total \in 0 .. MaxMinor, SplitTransaction(h, t, total)
      PROVE  TableStep /\ AccountStep
  <2> DEFINE new == [u \in {t} |-> [transactions[t] EXCEPT !.split_total = total]]
  <2>1. Update(new) /\ accounts' = accounts
    BY <1>9 DEF SplitTransaction
  <2>2. \A u \in DOMAIN new : /\ u \in DOMAIN transactions
                              /\ Evolves(transactions[u], new[u])
    BY <1>9, RowType
       DEF SplitTransaction, Visible, TransactionRow, Evolves, SignOK
  <2> HIDE DEF new
  <2> QED
    BY <2>1, <2>2, UpdateTableStep, SameStatusAccountStep
<1>10. ASSUME NEW h \in Household, NEW t \in DOMAIN transactions, NEW c \in Sendable,
              Categorize(h, t, c)
      PROVE  TableStep /\ AccountStep
  <2> DEFINE new == [u \in {t} |-> [transactions[t] EXCEPT !.category = c]]
  <2>1. Update(new) /\ accounts' = accounts
    BY <1>10 DEF Categorize
  <2>2. \A u \in DOMAIN new : /\ u \in DOMAIN transactions
                              /\ Evolves(transactions[u], new[u])
    BY <1>10, RowType
       DEF Categorize, Visible, TransactionRow, Evolves, SignOK
  <2> HIDE DEF new
  <2> QED
    BY <2>1, <2>2, UpdateTableStep, SameStatusAccountStep
<1>11. ASSUME NEW h \in Household, NEW ids \in SUBSET DOMAIN transactions, BulkDelete(h, ids)
      PROVE  TableStep /\ AccountStep
  <2> DEFINE new == [t \in {u \in ids : Visible(h, u)} |-> Deactivated(transactions[t])]
  <2>1. Update(new) /\ accounts' = accounts
    BY <1>11 DEF BulkDelete
  <2>2. \A u \in DOMAIN new : /\ u \in DOMAIN transactions
                              /\ Evolves(transactions[u], new[u])
    BY <1>11, RowType, DeactivatedEvolves DEF Visible
  <2> HIDE DEF new
  <2> QED
    BY <2>1, <2>2, UpdateTableStep, SameStatusAccountStep
<1>12. ASSUME NEW h \in Household, NEW ids \in SUBSET DOMAIN transactions,
              NEW c \in Sendable, BulkCategorize(h, ids, c)
      PROVE  TableStep /\ AccountStep
  <2> DEFINE new == [t \in {u \in ids : Visible(h, u)} |->
                      [transactions[t] EXCEPT !.category = c]]
  <2>1. Update(new) /\ accounts' = accounts
    BY <1>12 DEF BulkCategorize
  <2>2. \A u \in DOMAIN new : /\ u \in DOMAIN transactions
                              /\ Evolves(transactions[u], new[u])
    BY <1>12, RowType DEF Visible, TransactionRow, Evolves, SignOK
  <2> HIDE DEF new
  <2> QED
    BY <2>1, <2>2, UpdateTableStep, SameStatusAccountStep
<1>13. ASSUME NEW h \in Household, NEW from \in Account, NEW to \in Account,
              NEW source \in TransferAmount, NEW rate \in Rate \cup {NoRate},
              NEW d \in Date, CreateTransfer(h, from, to, source, rate, d)
       PROVE  TableStep /\ AccountStep
  <2> DEFINE target == TargetAmount(source, rate)
             Leg(a, signed, type) ==
               NewRow(h, a, d, signed, type, "Transfer", last_id + 1, FALSE)
             row1 == Leg(from, -source, "debit")
             row2 == Leg(to, target, "credit")
  <2>1. /\ Live(h, from) /\ Live(h, to)
        /\ transactions' = [t \in 1 .. last_id + 2 |->
                              IF t <= last_id THEN transactions[t]
                              ELSE IF t = last_id + 1 THEN row1 ELSE row2]
    BY <1>13 DEF CreateTransfer
  <2>2. \A b \in Account : accounts'[b].status = accounts[b].status
    BY <1>13 DEF CreateTransfer, TypeOK, AccountRow
  <2>3. Born(row1) /\ row1.account_id = from
    <3>1. -source \in Int /\ ~(-source > 0)
      OBVIOUS
    <3> QED
      BY <2>1, <3>1 DEF Live, Born, NewRow, SignOK
  <2>4. Born(row2) /\ row2.account_id = to
    <3>1. target \in Nat
      <4>1. source \in Nat /\ rate \in Nat
        BY DEF NoRate
      <4> QED
        BY <4>1, TargetAmountNatural
    <3>2. target \in Int /\ ~(target < 0)
      <4> HIDE DEF target
      <4> QED
        BY <3>1
    <3> HIDE DEF target
    <3> QED
      BY <2>1, <3>2 DEF Live, Born, NewRow, SignOK
  <2> HIDE DEF row1, row2
  <2>5. \A t \in DOMAIN transactions : Evolves(transactions[t], transactions'[t])
    BY <2>1, EvolvesReflexive, RowType DEF TypeOK, TransactionRow
  <2>6. TableStep
    <3>1. /\ DOMAIN transactions = 1 .. last_id
          /\ DOMAIN transactions' = 1 .. last_id + 2
          /\ last_id \in Nat
      BY <2>1 DEF TypeOK
    <3>2. \A t \in DOMAIN transactions' \ DOMAIN transactions :
            transactions'[t] = row1 \/ transactions'[t] = row2
      BY <2>1, <3>1
    <3>3. /\ accounts'[from].status = "active"
          /\ accounts'[to].status = "active"
      BY <2>1, <2>2 DEF Live
    <3>4. DOMAIN transactions \subseteq DOMAIN transactions'
      BY <3>1
    <3> QED
      BY <2>3, <2>4, <2>5, <3>2, <3>3, <3>4 DEF TableStep
  <2> QED
    BY <2>2, <2>6, SameStatusAccountStep
<1>14. ASSUME NEW h \in Household, NEW x \in TransactionId,
              DeleteTransfer(h, x)
       PROVE  TableStep /\ AccountStep
  <2> DEFINE Balance(a) ==
               accounts[a].balance_minor
                 + MapThenSumSet(Restored, {t \in Legs(h, x) :
                                              transactions[t].account_id = a})
             new == [t \in Legs(h, x) |->
                       [transactions[t] EXCEPT !.is_active = FALSE]]
  <2>1. Update(new) /\ x # NoTransfer
    BY <1>14 DEF DeleteTransfer
  <2>2. \A b \in Account : accounts'[b].status = accounts[b].status
    <3>1. accounts' = [a \in Account |->
                        [accounts[a] EXCEPT !.balance_minor = Balance(a)]]
      BY <1>14 DEF DeleteTransfer
    <3> HIDE DEF Balance
    <3> QED
      BY <3>1 DEF TypeOK, AccountRow
  <2>3. \A t \in DOMAIN new : /\ t \in DOMAIN transactions
                              /\ Evolves(transactions[t], new[t])
    BY <2>1, RowType DEF Legs, Visible, TransactionRow, Evolves, SignOK
  <2> HIDE DEF new
  <2> QED
    BY <2>1, <2>2, <2>3, UpdateTableStep, SameStatusAccountStep
<1>15. CASE UNCHANGED vars
  BY <1>15, UnchangedTableStep, SameStatusAccountStep DEF vars
<1> QED
  BY <1>1, <1>2, <1>3, <1>4, <1>5, <1>6, <1>7, <1>8, <1>9, <1>10, <1>11,
     <1>12, <1>13, <1>14, <1>15, SMTT(30)
     DEF Next, AccountRequest, TransactionRequest, TransferRequest

-----------------------------------------------------------------------------
(* The safety invariants *)

\* Stored sign and type agree in every row of every reachable state, however
\* many requests of whichever kind wrote it: delete_transfer may trust them.
THEOREM SignAlwaysMatchesType == Spec => []SignMatchesType
<1>1. Init => SignMatchesType
  BY DEF Init, SignMatchesType
<1>2. TypeOK /\ SignMatchesType /\ [Next]_vars => SignMatchesType'
  <2> SUFFICES ASSUME TypeOK, SignMatchesType, [Next]_vars,
                      NEW t \in DOMAIN transactions'
               PROVE  SignOK(transactions'[t])
    BY DEF SignMatchesType, SignOK
  <2>1. TableStep
    BY RequestStep
  <2>2. CASE t \in DOMAIN transactions
    BY <2>1, <2>2 DEF TableStep, Evolves, SignMatchesType, SignOK
  <2>3. CASE t \notin DOMAIN transactions
    BY <2>1, <2>3 DEF TableStep, Born
  <2> QED
    BY <2>2, <2>3
<1> QED
  BY <1>1, <1>2, TypeCorrect, PTL DEF Spec

\* No live transaction ever sits on an account that is not live: the deletion
\* takes them all along and no request, a transfer or a reconciliation
\* included, puts one back.
THEOREM ActiveAlwaysOnLiveAccount == Spec => []ActiveOnLiveAccount
<1>1. Init => ActiveOnLiveAccount
  BY DEF Init, ActiveOnLiveAccount
<1>2. TypeOK /\ ActiveOnLiveAccount /\ [Next]_vars => ActiveOnLiveAccount'
  <2> SUFFICES ASSUME TypeOK, ActiveOnLiveAccount, [Next]_vars,
                      NEW t \in DOMAIN transactions', transactions'[t].is_active
               PROVE  accounts'[transactions'[t].account_id].status = "active"
    BY DEF ActiveOnLiveAccount
  <2>1. TableStep /\ AccountStep
    BY RequestStep
  <2>2. CASE t \in DOMAIN transactions
    <3>1. /\ Evolves(transactions[t], transactions'[t])
          /\ transactions[t].account_id \in Account
      BY <2>1, <2>2, RowType DEF TableStep, TransactionRow
    <3>2. /\ transactions[t].is_active
          /\ transactions'[t].account_id = transactions[t].account_id
      BY <3>1 DEF Evolves
    <3>3. accounts[transactions[t].account_id].status = "active"
      BY <2>2, <3>2 DEF ActiveOnLiveAccount
    <3> QED
      BY <2>1, <2>2, <3>1, <3>2, <3>3 DEF AccountStep
  <2>3. CASE t \notin DOMAIN transactions
    BY <2>1, <2>3 DEF TableStep
  <2> QED
    BY <2>2, <2>3
<1> QED
  BY <1>1, <1>2, TypeCorrect, PTL DEF Spec

\* Tenant isolation, for any number of households: no request of one of them
\* creates or moves a row onto an account of another.
THEOREM RowsAlwaysStayInHousehold == Spec => []RowsStayInHousehold
<1>1. Init => RowsStayInHousehold
  BY DEF Init, RowsStayInHousehold
<1>2. TypeOK /\ RowsStayInHousehold /\ [Next]_vars => RowsStayInHousehold'
  <2> SUFFICES ASSUME TypeOK, RowsStayInHousehold, [Next]_vars,
                      NEW t \in DOMAIN transactions'
               PROVE  transactions'[t].household_id
                        = HouseholdOf[transactions'[t].account_id]
    BY DEF RowsStayInHousehold
  <2>1. TableStep
    BY RequestStep
  <2>2. CASE t \in DOMAIN transactions
    BY <2>1, <2>2 DEF TableStep, Evolves, RowsStayInHousehold
  <2>3. CASE t \notin DOMAIN transactions
    BY <2>1, <2>3 DEF TableStep, Born
  <2> QED
    BY <2>2, <2>3
<1> QED
  BY <1>1, <1>2, TypeCorrect, PTL DEF Spec

\* A deleted row that is no leg of a transfer has no active split.
THEOREM SplitsAlwaysFollowPlainTransaction ==
  Spec => []SplitsFollowPlainTransaction
<1>1. Init => SplitsFollowPlainTransaction
  BY DEF Init, SplitsFollowPlainTransaction
<1>2. TypeOK /\ SplitsFollowPlainTransaction /\ [Next]_vars
      => SplitsFollowPlainTransaction'
  <2> SUFFICES ASSUME TypeOK, SplitsFollowPlainTransaction, [Next]_vars,
                      NEW t \in DOMAIN transactions',
                      transactions'[t].transfer_id = NoTransfer,
                      ~transactions'[t].is_active
               PROVE  transactions'[t].split_total = 0
    BY DEF SplitsFollowPlainTransaction
  <2>1. TableStep
    BY RequestStep
  <2>2. CASE t \in DOMAIN transactions
    BY <2>1, <2>2 DEF TableStep, Evolves, SplitsFollowPlainTransaction
  <2>3. CASE t \notin DOMAIN transactions
    BY <2>1, <2>3 DEF TableStep, Born
  <2> QED
    BY <2>2, <2>3
<1> QED
  BY <1>1, <1>2, TypeCorrect, PTL DEF Spec

-----------------------------------------------------------------------------
(* The action properties *)

\* No request of any kind touches a deleted row or revives an account.
THEOREM SoftDeleteAlwaysFinal == Spec => SoftDeleteIsFinal
<1> DEFINE Final ==
      /\ \A t \in DOMAIN transactions :
           ~transactions[t].is_active => transactions'[t] = transactions[t]
      /\ \A a \in Account :
           accounts[a].status = "deleted" => accounts'[a].status = "deleted"
<1>1. TypeOK /\ [Next]_vars => Final
  BY RequestStep DEF TableStep, Evolves, AccountStep
<1>2. TypeOK /\ [Next]_vars => [Final]_vars
  BY <1>1
<1> QED
  BY <1>2, TypeCorrect, PTL DEF Spec, SoftDeleteIsFinal

\* Amount, type and date of a row filed under a system category stay put.
THEOREM SystemRowsAlwaysFrozen == Spec => SystemRowsFrozen
<1> DEFINE Frozen ==
      \A t \in DOMAIN transactions :
        Protected(t) =>
          /\ transactions'[t].amount_minor = transactions[t].amount_minor
          /\ transactions'[t].type = transactions[t].type
          /\ transactions'[t].date = transactions[t].date
<1>1. TypeOK /\ [Next]_vars => Frozen
  BY RequestStep DEF TableStep, Evolves, Protected, IsSystem
<1>2. TypeOK /\ [Next]_vars => [Frozen]_vars
  BY <1>1
<1> QED
  BY <1>2, TypeCorrect, PTL DEF Spec, SystemRowsFrozen

-----------------------------------------------------------------------------
(* What the table adds up to *)

\* What the rows of a table add up to, and their amounts as weights.
SumIn(table, ids) == MapThenSumSet(LAMBDA t : table[t].amount_minor, ids)
AmountsIn(table, ids) == [t \in ids |-> table[t].amount_minor]

\* A sum of the community modules is a total.
LEMMA SumIsTotal ==
  ASSUME NEW table, NEW ids, IsFiniteSet(ids)
  PROVE  SumIn(table, ids) = Total(AmountsIn(table, ids), ids)
<1> DEFINE w == AmountsIn(table, ids)
           Amounts(f) == f = [s \in SUBSET ids |->
                            IF s = {} THEN 0
                            ELSE LET t == CHOOSE u \in s : TRUE
                                 IN  table[t].amount_minor + f[s \ {t}]]
           iter == CHOOSE sums : Amounts(sums)
           sums == CHOOSE g : AreSums(w, g, ids)
<1>1. SumIn(table, ids) = iter[ids]
  BY DEF SumIn, MapThenSumSet, MapThenFoldSet
<1>2. ASSUME NEW f PROVE Amounts(f) <=> AreSums(w, f, ids)
  <2>1. ASSUME NEW s \in SUBSET ids
        PROVE  SumStep(w, f, s) = IF s = {} THEN 0
                                  ELSE LET t == CHOOSE u \in s : TRUE
                                       IN  table[t].amount_minor + f[s \ {t}]
    <3>1. s # {} => Pick(s) \in ids /\ w[Pick(s)] = table[Pick(s)].amount_minor
      BY DEF Pick, AmountsIn
    <3> QED
      BY <3>1 DEF SumStep, Pick
  <2>2. [s \in SUBSET ids |-> SumStep(w, f, s)] =
          [s \in SUBSET ids |-> IF s = {} THEN 0
                                ELSE LET t == CHOOSE u \in s : TRUE
                                     IN  table[t].amount_minor + f[s \ {t}]]
    BY <2>1
  <2> QED
    BY <2>2 DEF AreSums
<1> HIDE DEF w
<1>3. AreSums(w, sums, ids)
  BY SumsDefined
<1> HIDE DEF Amounts, sums
<1>4. Amounts(iter)
  BY <1>2, <1>3
<1> HIDE DEF iter
<1>5. AreSums(w, iter, ids)
  BY <1>2, <1>4
<1>6. iter[ids] = sums[ids]
  BY <1>3, <1>5, SumsAgree
<1> QED
  BY <1>1, <1>6 DEF Total, sums, w

\* Ids of a table, and the sum of their rows.
LEMMA TableFacts ==
  ASSUME TypeOK
  PROVE  /\ \A ids \in SUBSET DOMAIN transactions :
              IsFiniteSet(ids) /\ SumIn(transactions, ids) \in Int
         /\ \A t \in DOMAIN transactions :
              transactions[t] \in TransactionRow /\ transactions[t].amount_minor \in Int
         /\ \A a \in Account : accounts[a] \in AccountRow /\ accounts[a].balance_minor \in Int
<1>1. DOMAIN transactions = 1 .. last_id /\ last_id \in Nat
  BY LedgerAssumption DEF TypeOK
<1>2. \A ids \in SUBSET DOMAIN transactions : IsFiniteSet(ids)
  BY <1>1, FS_Interval, FS_Subset
<1>3. \A t \in DOMAIN transactions :
        transactions[t] \in TransactionRow /\ transactions[t].amount_minor \in Int
  BY LedgerAssumption DEF TypeOK, TransactionRow, Minor
<1>4. \A a \in Account : accounts[a] \in AccountRow /\ accounts[a].balance_minor \in Int
  BY LedgerAssumption DEF TypeOK, AccountRow, Minor
<1>5. ASSUME NEW ids \in SUBSET DOMAIN transactions PROVE SumIn(transactions, ids) \in Int
  <2> DEFINE w == AmountsIn(transactions, ids)
  <2>1. \A t \in ids : w[t] \in Int
    BY <1>3 DEF AmountsIn
  <2> HIDE DEF w
  <2>2. Total(w, ids) \in Int
    BY <1>2, <2>1, TotalInteger
  <2> QED
    BY <1>2, <2>2, SumIsTotal DEF w
<1> QED
  BY <1>2, <1>3, <1>4, <1>5

\* Another table with the same amounts.
LEMMA SumSame ==
  ASSUME TypeOK, NEW ids \in SUBSET DOMAIN transactions, NEW table,
         \A t \in ids : table[t].amount_minor = transactions[t].amount_minor
  PROVE  SumIn(table, ids) = SumIn(transactions, ids)
<1> DEFINE w == AmountsIn(transactions, ids)
           v == AmountsIn(table, ids)
<1>1. IsFiniteSet(ids) /\ \A t \in ids : v[t] = w[t]
  BY TableFacts DEF AmountsIn
<1> HIDE DEF w, v
<1>2. Total(v, ids) = Total(w, ids)
  BY <1>1, TotalSame
<1> QED
  BY <1>1, <1>2, SumIsTotal DEF w, v

\* A row that has been inserted adds its amount.
LEMMA SumMore ==
  ASSUME TypeOK, NEW ids \in SUBSET DOMAIN transactions, NEW n, n \notin ids, NEW table,
         \A t \in ids : table[t] = transactions[t], table[n].amount_minor \in Int
  PROVE  SumIn(table, ids \cup {n}) = SumIn(transactions, ids) + table[n].amount_minor
<1> DEFINE more == ids \cup {n}
           w == AmountsIn(table, more)
           v == AmountsIn(transactions, ids)
<1>1. IsFiniteSet(ids) /\ IsFiniteSet(more)
  BY TableFacts, FS_AddElement
<1>2. /\ \A t \in ids : w[t] = v[t] /\ w[t] \in Int
      /\ w[n] = table[n].amount_minor /\ w[n] \in Int
  BY TableFacts DEF AmountsIn
<1> HIDE DEF w, v
<1>3. Total(w, more) = Total(w, ids) + w[n]
  BY <1>1, <1>2, TotalMore
<1>4. Total(w, ids) = Total(v, ids)
  BY <1>1, <1>2, TotalSame
<1>5. SumIn(table, more) = Total(w, more) /\ SumIn(transactions, ids) = Total(v, ids)
  BY <1>1, SumIsTotal DEF w, v
<1> QED
  BY <1>2, <1>3, <1>4, <1>5

\* The rows of a table that the displayed balance of an account adds up, and
\* the live legs of transfers on an account.
ShownIn(table, cutoff, a) ==
  {t \in DOMAIN table :
     /\ table[t].account_id = a /\ table[t].is_active
     /\ table[t].applies_to_balance /\ table[t].date >= cutoff}

LegsIn(table, a) ==
  {t \in DOMAIN table :
     /\ table[t].account_id = a /\ table[t].is_active
     /\ table[t].transfer_id # NoTransfer}

\* The displayed balance, before and after a step.
LEMMA DisplayedIsSum ==
  ASSUME NEW a
  PROVE  /\ Displayed(a) =
              accounts[a].balance_minor
                + SumIn(transactions, ShownIn(transactions, accounts[a].opened_at, a))
         /\ Displayed(a)' =
              accounts'[a].balance_minor
                + SumIn(transactions', ShownIn(transactions', accounts'[a].opened_at, a))
<1>1. {t \in Counted(a) : transactions[t].date >= CutOff(a)}
        = ShownIn(transactions, accounts[a].opened_at, a)
  BY DEF Counted, CutOff, ShownIn
<1>2. {t \in {u \in DOMAIN transactions' :
                /\ transactions'[u].account_id = a
                /\ transactions'[u].is_active
                /\ transactions'[u].applies_to_balance} :
          transactions'[t].date >= accounts'[a].opened_at}
        = ShownIn(transactions', accounts'[a].opened_at, a)
  BY DEF ShownIn
<1>3. Displayed(a) = accounts[a].balance_minor
                + SumIn(transactions, {t \in Counted(a) : transactions[t].date >= CutOff(a)})
  BY DEF Displayed, SumAmounts, SumIn
<1>4. Displayed(a)' = accounts'[a].balance_minor
        + SumIn(transactions', {t \in {u \in DOMAIN transactions' :
                                        /\ transactions'[u].account_id = a
                                        /\ transactions'[u].is_active
                                        /\ transactions'[u].applies_to_balance} :
                                  transactions'[t].date >= accounts'[a].opened_at})
  BY DEF Displayed, SumAmounts, SumIn, Counted, CutOff, MapThenSumSet, MapThenFoldSet
<1> QED
  BY <1>1, <1>2, <1>3, <1>4

\* A reconciliation moves the displayed balance to the actual one if the
\* adjustment is dated on or after the cut-off.
LEMMA ReconcileHits ==
  ASSUME TypeOK, NEW h, NEW a \in Account, NEW actual \in Actual, NEW d \in Date,
         Reconcile(h, a, actual, d), seeded,
         transactions'[last_id + 1].date >= CutOff(a)
  PROVE  Displayed(a)' = actual
<1> DEFINE adjustment == Discrepancy(a, actual)
           row == NewRow(h, a, d, adjustment, TypeOfSign(adjustment),
                         "Reconciliation Adjustment", NoTransfer, TRUE)
           n == last_id + 1
           ids == ShownIn(transactions, accounts[a].opened_at, a)
<1>1. /\ Insert(row) /\ accounts' = accounts
      /\ adjustment \in Minor /\ adjustment = actual - Displayed(a)
  BY DEF Reconcile, Fits, Discrepancy
<1>2. row.amount_minor = adjustment /\ row.account_id = a /\ row.is_active
      /\ row.applies_to_balance
  BY DEF NewRow
<1>3. actual \in Int /\ adjustment \in Int
  <2>1. adjustment \in Minor /\ actual \in Minor
    BY <1>1, LedgerAssumption
  <2>2. \A m \in Minor : m \in Int
    BY LedgerAssumption DEF Minor
  <2> HIDE DEF adjustment
  <2> QED
    BY <2>1, <2>2
<1> HIDE DEF row, adjustment
<1>4. /\ DOMAIN transactions = 1 .. last_id /\ DOMAIN transactions' = 1 .. n /\ last_id \in Nat
      /\ \A t \in DOMAIN transactions : transactions'[t] = transactions[t]
      /\ transactions'[n] = row
  BY <1>1 DEF Insert, TypeOK
<1>5. ShownIn(transactions', accounts'[a].opened_at, a) = ids \cup {n}
  BY <1>1, <1>2, <1>4 DEF ShownIn, CutOff
<1>6. ids \in SUBSET DOMAIN transactions /\ n \notin ids
  BY <1>4 DEF ShownIn
<1> HIDE DEF ids, n
<1>7. SumIn(transactions', ids \cup {n}) = SumIn(transactions, ids) + adjustment
  <2>1. /\ \A t \in ids : transactions'[t] = transactions[t]
        /\ transactions'[n].amount_minor = adjustment /\ transactions'[n].amount_minor \in Int
    BY <1>2, <1>3, <1>4, <1>6
  <2> QED
    BY <1>6, <2>1, SumMore
<1>8. SumIn(transactions, ids) \in Int /\ accounts[a].balance_minor \in Int
  BY <1>6, TableFacts
<1>9. Displayed(a) = accounts[a].balance_minor + SumIn(transactions, ids)
  BY DisplayedIsSum DEF ids
<1>10. Displayed(a)' = accounts[a].balance_minor + SumIn(transactions', ids \cup {n})
  BY <1>1, <1>5, DisplayedIsSum
<1> QED
  BY <1>1, <1>3, <1>7, <1>8, <1>9, <1>10

\* Whenever a reconciliation record appears whose adjustment counts, the
\* displayed balance of its account is the balance the user gave: reconcile
\* computes the adjustment from the same rows that the balance adds up.
THEOREM ReconcileAlwaysReachesActual == Spec => ReconcileReachesActual
<1> DEFINE Reaches ==
      \A r \in records' \ records :
        transactions'[r.transaction_id].date >= CutOff(r.account_id) =>
          Displayed(r.account_id)' = r.actual
<1>1. TypeOK /\ [Next]_vars => Reaches
  <2> SUFFICES ASSUME TypeOK, [Next]_vars, NEW r \in records' \ records,
                      transactions'[r.transaction_id].date >= CutOff(r.account_id)
               PROVE  Displayed(r.account_id)' = r.actual
    OBVIOUS
  <2>1. PICK h \in Household, a \in Account, actual \in Actual, d \in Date :
          Reconcile(h, a, actual, d)
    <3>1. records' # records
      OBVIOUS
    <3>2. PICK h \in Household :
            AccountRequest(h) \/ TransactionRequest(h) \/ TransferRequest(h)
      BY <3>1 DEF Next, RunSeeds, vars
    <3>3. ~TransferRequest(h)
      <4>1. ASSUME NEW from \in Account, NEW to \in Account, NEW source \in TransferAmount,
                   NEW rate \in Rate \cup {NoRate}, NEW d \in Date
            PROVE  ~CreateTransfer(h, from, to, source, rate, d)
        BY <3>1 DEF CreateTransfer
      <4>2. \A x \in TransactionId : ~DeleteTransfer(h, x)
        BY <3>1 DEF DeleteTransfer
      <4> QED
        BY <4>1, <4>2 DEF TransferRequest
    <3>4. ~TransactionRequest(h)
      BY <3>1 DEF TransactionRequest, CreateTransaction, UpdateTransaction,
                  DeleteTransaction, SplitTransaction, Categorize, BulkDelete,
                  BulkCategorize
    <3>5. \A a \in Account :
            /\ \A opening \in Opening, opened_at \in OpenedAt, today \in Date :
                 ~CreateAccount(h, a, opening, opened_at, today)
            /\ \A opened_at \in OpenedAt : ~UpdateAccount(h, a, opened_at)
            /\ ~DeleteAccount(h, a)
      BY <3>1 DEF CreateAccount, UpdateAccount, DeleteAccount
    <3> QED
      BY <3>2, <3>3, <3>4, <3>5 DEF AccountRequest
  <2>2. /\ seeded
        /\ r = [account_id |-> a, transaction_id |-> last_id + 1, actual |-> actual]
    BY <2>1 DEF Reconcile
  <2>3. r.account_id = a /\ r.transaction_id = last_id + 1 /\ r.actual = actual
    BY <2>2
  <2>4. transactions'[last_id + 1].date >= CutOff(a)
    BY <2>3
  <2>5. Displayed(a)' = actual
    BY <2>1, <2>2, <2>4, ReconcileHits
  <2> QED
    BY <2>3, <2>5
<1>2. TypeOK /\ [Next]_vars => [Reaches]_vars
  BY <1>1
<1> QED
  BY <1>2, TypeCorrect, PTL DEF Spec, ReconcileReachesActual

-----------------------------------------------------------------------------
(* Balances *)

\* An account that does not exist yet has nothing on it.
AbsentIsEmpty ==
  \A a \in Account : accounts[a].status = "absent" => accounts[a].balance_minor = 0

\* A step that writes no balance but that of an account being created or, as
\* long as there are no system categories, reconciled.
Quiet ==
  \A a \in Account :
    \/ /\ accounts'[a].balance_minor = accounts[a].balance_minor
       /\ accounts'[a].status = "absent" => accounts[a].status = "absent"
    \/ /\ accounts'[a].status = "active"
       /\ seeded => /\ accounts[a].status = "absent"
                    /\ accounts'[a].balance_minor = 0

\* Of all requests, only the transfers are not quiet.
LEMMA OnlyTransfersWrite ==
  ASSUME TypeOK, [Next]_vars
  PROVE  \/ Quiet
         \/ \E h \in Household, from \in Account, to \in Account,
               source \in TransferAmount, rate \in Rate \cup {NoRate}, d \in Date :
              CreateTransfer(h, from, to, source, rate, d)
         \/ \E h \in Household, x \in TransactionId : DeleteTransfer(h, x)
<1>1. accounts \in [Account -> AccountRow]
  BY DEF TypeOK
<1>2. UNCHANGED accounts => Quiet
  BY DEF Quiet
<1>3. ASSUME NEW h \in Household, NEW a \in Account, NEW opening \in Opening,
             NEW opened_at \in OpenedAt, NEW today \in Date,
             CreateAccount(h, a, opening, opened_at, today)
      PROVE  Quiet
  <2> DEFINE row == [status |-> "active", opened_at |-> opened_at,
                     balance_minor |-> IF seeded THEN 0 ELSE OpeningAmount(a, opening)]
  <2>1. accounts[a].status = "absent" /\ accounts' = [accounts EXCEPT ![a] = row]
    BY <1>3 DEF CreateAccount
  <2>2. row.status = "active" /\ (seeded => row.balance_minor = 0)
    OBVIOUS
  <2> HIDE DEF row
  <2> QED
    BY <1>1, <2>1, <2>2 DEF Quiet
<1>4. ASSUME NEW h \in Household, NEW a \in Account, NEW opened_at \in OpenedAt,
             UpdateAccount(h, a, opened_at)
      PROVE  Quiet
  BY <1>1, <1>4 DEF UpdateAccount, Quiet, AccountRow
<1>5. ASSUME NEW h \in Household, NEW a \in Account, DeleteAccount(h, a)
      PROVE  Quiet
  BY <1>1, <1>5 DEF DeleteAccount, Quiet, AccountRow
<1>6. ASSUME NEW h \in Household, NEW a \in Account, NEW actual \in Actual,
             NEW d \in Date, Reconcile(h, a, actual, d)
      PROVE  Quiet
  <2>1. CASE seeded
    BY <1>2, <1>6, <2>1 DEF Reconcile
  <2>2. CASE ~seeded
    <3> DEFINE balance == accounts[a].balance_minor + Discrepancy(a, actual)
    <3>1. /\ accounts' = [accounts EXCEPT ![a].balance_minor = balance]
          /\ accounts[a].status = "active"
      BY <1>6, <2>2 DEF Reconcile, SetBalance, Live
    <3> HIDE DEF balance
    <3> QED
      BY <1>1, <2>2, <3>1 DEF Quiet, AccountRow
  <2> QED
    BY <2>1, <2>2
<1>7. ASSUME NEW h \in Household, TransactionRequest(h) PROVE UNCHANGED accounts
  BY <1>7 DEF TransactionRequest, CreateTransaction, UpdateTransaction,
              DeleteTransaction, SplitTransaction, Categorize, BulkDelete, BulkCategorize
<1>8. RunSeeds \/ UNCHANGED vars => UNCHANGED accounts
  BY DEF RunSeeds, vars
<1>9. ASSUME NEW h \in Household, AccountRequest(h) PROVE Quiet
  BY <1>3, <1>4, <1>5, <1>6, <1>9 DEF AccountRequest
<1> QED
  BY <1>2, <1>7, <1>8, <1>9 DEF Next, TransferRequest

\* The balance of an account after the deletion of a transfer, and the rows it
\* is restored from.
LEMMA DeleteTransferWrites ==
  ASSUME TypeOK, NEW h, NEW x \in TransactionId, DeleteTransfer(h, x), NEW a \in Account
  PROVE  /\ accounts'[a].status = accounts[a].status
         /\ accounts'[a].balance_minor =
              accounts[a].balance_minor
                + MapThenSumSet(Restored, {t \in Legs(h, x) : transactions[t].account_id = a})
         /\ Legs(h, x) \subseteq DOMAIN transactions
         /\ \A t \in Legs(h, x) : /\ transactions[t].is_active
                                 /\ transactions[t].transfer_id # NoTransfer
         /\ \A t \in DOMAIN transactions :
              transactions'[t] = IF t \in Legs(h, x)
                                   THEN [transactions[t] EXCEPT !.is_active = FALSE]
                                   ELSE transactions[t]
         /\ DOMAIN transactions' = DOMAIN transactions
<1> DEFINE Balance(b) ==
             accounts[b].balance_minor
               + MapThenSumSet(Restored, {t \in Legs(h, x) : transactions[t].account_id = b})
<1>1. accounts' = [b \in Account |-> [accounts[b] EXCEPT !.balance_minor = Balance(b)]]
  BY DEF DeleteTransfer
<1>2. /\ accounts'[a].status = accounts[a].status
      /\ accounts'[a].balance_minor = Balance(a)
  <2> HIDE DEF Balance
  <2> QED
    BY <1>1, TableFacts DEF AccountRow
<1>3. /\ x # NoTransfer
      /\ Update([t \in Legs(h, x) |-> [transactions[t] EXCEPT !.is_active = FALSE]])
  BY DEF DeleteTransfer
<1>4. /\ Legs(h, x) \subseteq DOMAIN transactions
      /\ \A t \in Legs(h, x) : /\ transactions[t].is_active
                              /\ transactions[t].transfer_id # NoTransfer
  BY <1>3 DEF Legs, Visible
<1>5. /\ \A t \in DOMAIN transactions :
           transactions'[t] = IF t \in Legs(h, x)
                                THEN [transactions[t] EXCEPT !.is_active = FALSE]
                                ELSE transactions[t]
      /\ DOMAIN transactions' = DOMAIN transactions
  BY <1>3 DEF Update
<1> QED
  BY <1>2, <1>4, <1>5

\* No reachable account is absent and has a balance: the reversal of a
\* transfer goes to accounts with a live leg only.
THEOREM AbsentAlwaysEmpty == Spec => []AbsentIsEmpty
<1>1. Init => AbsentIsEmpty
  BY DEF Init, AbsentIsEmpty
<1>2. TypeOK /\ ActiveOnLiveAccount /\ AbsentIsEmpty /\ [Next]_vars => AbsentIsEmpty'
  <2> SUFFICES ASSUME TypeOK, ActiveOnLiveAccount, AbsentIsEmpty, [Next]_vars,
                      NEW a \in Account, accounts'[a].status = "absent"
               PROVE  accounts'[a].balance_minor = 0
    BY DEF AbsentIsEmpty
  <2>1. CASE Quiet
    BY <2>1 DEF Quiet, AbsentIsEmpty
  <2>2. ASSUME NEW h \in Household, NEW from \in Account, NEW to \in Account,
               NEW source \in TransferAmount, NEW rate \in Rate \cup {NoRate},
               NEW d \in Date, CreateTransfer(h, from, to, source, rate, d)
        PROVE  accounts'[a].balance_minor = 0
    <3> DEFINE target == TargetAmount(source, rate)
    <3>1. /\ accounts[from].status = "active" /\ accounts[to].status = "active"
          /\ accounts' = [accounts EXCEPT ![from].balance_minor = @ - source,
                                         ![to].balance_minor = @ + target]
      BY <2>2 DEF CreateTransfer, Live
    <3> HIDE DEF target
    <3>2. accounts'[a].status = accounts[a].status
      BY <3>1 DEF TypeOK, AccountRow
    <3>3. a # from /\ a # to
      BY <3>1, <3>2
    <3>4. accounts'[a] = accounts[a]
      BY <3>1, <3>3 DEF TypeOK
    <3> QED
      BY <3>4 DEF AbsentIsEmpty
  <2>3. ASSUME NEW h \in Household, NEW x \in TransactionId, DeleteTransfer(h, x)
        PROVE  accounts'[a].balance_minor = 0
    <3> DEFINE mine == {t \in Legs(h, x) : transactions[t].account_id = a}
    <3>1. /\ accounts[a].status = "absent"
          /\ accounts'[a].balance_minor
               = accounts[a].balance_minor + MapThenSumSet(Restored, mine)
      BY <2>3, DeleteTransferWrites
    <3>2. mine = {}
      BY <2>3, <3>1, DeleteTransferWrites DEF ActiveOnLiveAccount
    <3>3. MapThenSumSet(Restored, {}) = 0
      BY DEF MapThenSumSet, MapThenFoldSet
    <3> HIDE DEF mine
    <3> QED
      BY <3>1, <3>2, <3>3 DEF AbsentIsEmpty
  <2> QED
    BY <2>1, <2>2, <2>3, OnlyTransfersWrite
<1> QED
  BY <1>1, <1>2, TypeCorrect, ActiveAlwaysOnLiveAccount, PTL DEF Spec

\* The sum of some rows is that of a part of them and that of the others.
LEMMA SumParts ==
  ASSUME TypeOK, NEW ids \in SUBSET DOMAIN transactions, NEW part \in SUBSET ids
  PROVE  SumIn(transactions, ids)
           = SumIn(transactions, ids \ part) + SumIn(transactions, part)
<1> DEFINE rest == ids \ part
           w == AmountsIn(transactions, ids)
           v == AmountsIn(transactions, rest)
           u == AmountsIn(transactions, part)
<1>1. IsFiniteSet(ids) /\ IsFiniteSet(rest) /\ IsFiniteSet(part)
  BY TableFacts, FS_Subset
<1>2. /\ rest \cap part = {} /\ rest \cup part = ids
      /\ \A t \in ids : w[t] \in Int
      /\ \A t \in rest : v[t] = w[t]
      /\ \A t \in part : u[t] = w[t]
  BY TableFacts DEF AmountsIn
<1>3. /\ SumIn(transactions, ids) = Total(w, ids)
      /\ SumIn(transactions, rest) = Total(v, rest)
      /\ SumIn(transactions, part) = Total(u, part)
  BY <1>1, SumIsTotal
<1> HIDE DEF rest, w, v, u
<1>4. Total(w, rest \cup part) = Total(w, rest) + Total(w, part)
  BY <1>1, <1>2, TotalApart
<1>5. Total(v, rest) = Total(w, rest) /\ Total(u, part) = Total(w, part)
  BY <1>1, <1>2, TotalSame
<1> QED
  BY <1>2, <1>3, <1>4, <1>5 DEF rest

\* Legs are restored for the opposite of what they add up to: the direction
\* comes from the type, the size from the amount, and the two agree.
LEMMA RestoredIsOpposite ==
  ASSUME TypeOK, SignMatchesType, NEW ids \in SUBSET DOMAIN transactions
  PROVE  MapThenSumSet(Restored, ids) = -SumIn(transactions, ids)
<1> DEFINE w == AmountsIn(transactions, ids)
           v == [t \in ids |-> Restored(t)]
           Sums(f) == f = [s \in SUBSET ids |->
                             IF s = {} THEN 0
                             ELSE LET t == CHOOSE u \in s : TRUE
                                  IN  Restored(t) + f[s \ {t}]]
           iter == CHOOSE sums : Sums(sums)
           total == CHOOSE g : AreSums(v, g, ids)
<1>1. MapThenSumSet(Restored, ids) = iter[ids]
  BY DEF MapThenSumSet, MapThenFoldSet
<1>2. ASSUME NEW f PROVE Sums(f) <=> AreSums(v, f, ids)
  <2>1. ASSUME NEW s \in SUBSET ids
        PROVE  SumStep(v, f, s) = IF s = {} THEN 0
                                  ELSE LET t == CHOOSE u \in s : TRUE
                                       IN  Restored(t) + f[s \ {t}]
    <3>1. s # {} => Pick(s) \in ids /\ v[Pick(s)] = Restored(Pick(s))
      BY DEF Pick
    <3> QED
      BY <3>1 DEF SumStep, Pick
  <2>2. [s \in SUBSET ids |-> SumStep(v, f, s)] =
          [s \in SUBSET ids |-> IF s = {} THEN 0
                                ELSE LET t == CHOOSE u \in s : TRUE
                                     IN  Restored(t) + f[s \ {t}]]
    BY <2>1
  <2> QED
    BY <2>2 DEF AreSums
<1>3. IsFiniteSet(ids)
  BY TableFacts
<1>4. \A t \in ids : w[t] \in Int /\ v[t] = -w[t]
  <2> SUFFICES ASSUME NEW t \in ids
               PROVE  transactions[t].amount_minor \in Int
                      /\ Restored(t) = -transactions[t].amount_minor
    BY DEF AmountsIn
  <2>1. /\ transactions[t].amount_minor \in Int
        /\ transactions[t].type \in Type
    BY TableFacts DEF TransactionRow
  <2>2. /\ transactions[t].amount_minor > 0 => transactions[t].type = "credit"
        /\ transactions[t].amount_minor < 0 => transactions[t].type = "debit"
    BY DEF SignMatchesType
  <2> QED
    BY <2>1, <2>2 DEF Restored, Abs, Type
<1>5. SumIn(transactions, ids) = Total(w, ids)
  BY <1>3, SumIsTotal
<1> HIDE DEF w, v
<1>6. AreSums(v, total, ids)
  BY <1>3, SumsDefined
<1> HIDE DEF Sums, total
<1>7. Sums(iter)
  BY <1>2, <1>6
<1> HIDE DEF iter
<1>8. iter[ids] = total[ids]
  BY <1>2, <1>3, <1>6, <1>7, SumsAgree
<1>9. Total(v, ids) = total[ids]
  BY DEF Total, total
<1>10. Total(v, ids) = -Total(w, ids)
  BY <1>3, <1>4, TotalOpposite
<1> QED
  BY <1>1, <1>5, <1>8, <1>9, <1>10

\* What the live legs on an account add up to, before and after a step.
LEMMA LegSumIsSum ==
  ASSUME NEW a
  PROVE  /\ LegSum(a) = SumIn(transactions, LegsIn(transactions, a))
         /\ LegSum(a)' = SumIn(transactions', LegsIn(transactions', a))
BY DEF LegSum, SumAmounts, SumIn, LegsIn, MapThenSumSet, MapThenFoldSet

\* A leg that a step adds on an account.
LEMMA OneMoreLeg ==
  ASSUME TypeOK, NEW a \in Account, NEW n, n \notin DOMAIN transactions,
         \A t \in DOMAIN transactions : transactions'[t] = transactions[t],
         transactions'[n].amount_minor \in Int,
         LegsIn(transactions', a) = LegsIn(transactions, a) \cup {n}
  PROVE  LegSum(a)' - LegSum(a) = transactions'[n].amount_minor
<1> DEFINE ids == LegsIn(transactions, a)
<1>1. ids \in SUBSET DOMAIN transactions
  BY DEF LegsIn
<1>2. LegSum(a) = SumIn(transactions, ids) /\ LegSum(a)' = SumIn(transactions', ids \cup {n})
  BY LegSumIsSum
<1> HIDE DEF ids
<1>3. n \notin ids /\ \A t \in ids : transactions'[t] = transactions[t]
  BY <1>1
<1>4. SumIn(transactions', ids \cup {n})
        = SumIn(transactions, ids) + transactions'[n].amount_minor
  BY <1>1, <1>3, SumMore
<1>5. SumIn(transactions, ids) \in Int
  BY <1>1, TableFacts
<1> QED
  BY <1>2, <1>4, <1>5

\* A transfer takes from one balance, and gives to another, its legs.
LEMMA CreateTransferMatchesLegs ==
  ASSUME TypeOK, NEW h \in Household, NEW from \in Account, NEW to \in Account,
         NEW source \in TransferAmount, NEW rate \in Rate \cup {NoRate},
         NEW d \in Date, CreateTransfer(h, from, to, source, rate, d),
         NEW a \in Account, accounts'[a].balance_minor # accounts[a].balance_minor
  PROVE  accounts'[a].balance_minor - accounts[a].balance_minor = LegSum(a)' - LegSum(a)
<1> DEFINE target == TargetAmount(source, rate)
           Leg(b, signed, type) ==
             NewRow(h, b, d, signed, type, "Transfer", last_id + 1, FALSE)
           row1 == Leg(from, -source, "debit")
           row2 == Leg(to, target, "credit")
           n == last_id + 1
           m == last_id + 2
<1>1. /\ from # to /\ target \in Minor
      /\ transactions' = [t \in 1 .. last_id + 2 |->
                            IF t <= last_id THEN transactions[t]
                            ELSE IF t = last_id + 1 THEN row1 ELSE row2]
      /\ accounts' = [accounts EXCEPT ![from].balance_minor = @ - source,
                                     ![to].balance_minor = @ + target]
  BY DEF CreateTransfer, Fits
<1>2. source \in Int /\ target \in Int
  <2> HIDE DEF target
  <2> QED
    BY <1>1, LedgerAssumption DEF Minor
<1>3. last_id \in Nat /\ last_id + 1 # NoTransfer
  BY DEF TypeOK, NoTransfer
<1>4. /\ row1.account_id = from /\ row1.amount_minor = -source
      /\ row1.is_active /\ row1.transfer_id # NoTransfer
      /\ row2.account_id = to /\ row2.amount_minor = target
      /\ row2.is_active /\ row2.transfer_id # NoTransfer
  BY <1>3 DEF NewRow
<1> HIDE DEF row1, row2, target
<1>5. /\ DOMAIN transactions = 1 .. last_id /\ DOMAIN transactions' = 1 .. m
      /\ \A t \in DOMAIN transactions : transactions'[t] = transactions[t]
      /\ transactions'[n] = row1 /\ transactions'[m] = row2
      /\ n # m /\ n \notin DOMAIN transactions /\ m \notin DOMAIN transactions
      /\ DOMAIN transactions' = DOMAIN transactions \cup {n, m}
  BY <1>1, <1>3 DEF TypeOK
<1>6. \A b \in Account : accounts[b] \in AccountRow /\ accounts[b].balance_minor \in Int
  BY TableFacts
<1>7. /\ accounts'[from].balance_minor = accounts[from].balance_minor - source
      /\ accounts'[to].balance_minor = accounts[to].balance_minor + target
      /\ a # from /\ a # to => accounts'[a] = accounts[a]
  <2>1. accounts \in [Account -> AccountRow]
    BY DEF TypeOK
  <2> QED
    BY <1>1, <2>1 DEF AccountRow
<1> HIDE DEF n, m
<1>8. CASE a = from
  <2>1. LegsIn(transactions', a) = LegsIn(transactions, a) \cup {n}
    BY <1>1, <1>4, <1>5, <1>8 DEF LegsIn
  <2>2. transactions'[n].amount_minor = -source
    BY <1>4, <1>5
  <2>3. LegSum(a)' - LegSum(a) = -source
    BY <1>2, <1>5, <2>1, <2>2, OneMoreLeg
  <2> QED
    BY <1>2, <1>6, <1>7, <1>8, <2>3
<1>9. CASE a = to
  <2>1. LegsIn(transactions', a) = LegsIn(transactions, a) \cup {m}
    BY <1>1, <1>4, <1>5, <1>9 DEF LegsIn
  <2>2. transactions'[m].amount_minor = target
    BY <1>4, <1>5
  <2>3. LegSum(a)' - LegSum(a) = target
    BY <1>2, <1>5, <2>1, <2>2, OneMoreLeg
  <2> QED
    BY <1>2, <1>6, <1>7, <1>9, <2>3
<1> QED
  BY <1>7, <1>8, <1>9

\* The deletion of a transfer gives back to a balance what its legs took.
LEMMA DeleteTransferMatchesLegs ==
  ASSUME TypeOK, SignMatchesType, NEW h \in Household, NEW x \in TransactionId,
         DeleteTransfer(h, x), NEW a \in Account
  PROVE  accounts'[a].balance_minor - accounts[a].balance_minor = LegSum(a)' - LegSum(a)
<1> DEFINE ids == LegsIn(transactions, a)
           part == {t \in Legs(h, x) : transactions[t].account_id = a}
<1>1. ids \in SUBSET DOMAIN transactions /\ part \in SUBSET ids
  BY DeleteTransferWrites DEF LegsIn
<1>2. LegsIn(transactions', a) = ids \ part
  <2>1. ASSUME NEW t \in DOMAIN transactions
        PROVE  t \in LegsIn(transactions', a) <=> t \in ids \ part
    <3>1. transactions[t] \in TransactionRow
      BY TableFacts
    <3>2. CASE t \in Legs(h, x)
      <4>1. transactions'[t] = [transactions[t] EXCEPT !.is_active = FALSE]
        BY <3>2, DeleteTransferWrites
      <4> QED
        BY <3>1, <3>2, <4>1 DEF LegsIn, TransactionRow
    <3>3. CASE t \notin Legs(h, x)
      <4>1. transactions'[t] = transactions[t] /\ t \in DOMAIN transactions'
        BY <3>3, DeleteTransferWrites
      <4> QED
        BY <3>3, <4>1 DEF LegsIn
    <3> QED
      BY <3>2, <3>3
  <2>2. DOMAIN transactions' = DOMAIN transactions
    BY DeleteTransferWrites
  <2> QED
    BY <2>1, <2>2 DEF LegsIn
<1>3. \A t \in ids \ part : transactions'[t] = transactions[t]
  BY DeleteTransferWrites DEF LegsIn
<1>4. accounts'[a].balance_minor = accounts[a].balance_minor + MapThenSumSet(Restored, part)
  BY DeleteTransferWrites
<1>5. LegSum(a) = SumIn(transactions, ids) /\ LegSum(a)' = SumIn(transactions', ids \ part)
  BY <1>2, LegSumIsSum
<1> HIDE DEF ids, part
<1>6. SumIn(transactions', ids \ part) = SumIn(transactions, ids \ part)
  <2>1. /\ ids \ part \in SUBSET DOMAIN transactions
        /\ \A t \in ids \ part : transactions'[t].amount_minor = transactions[t].amount_minor
    BY <1>1, <1>3
  <2> QED
    BY <2>1, SumSame
<1>7. SumIn(transactions, ids) = SumIn(transactions, ids \ part) + SumIn(transactions, part)
  BY <1>1, SumParts
<1>8. MapThenSumSet(Restored, part) = -SumIn(transactions, part)
  BY <1>1, RestoredIsOpposite
<1>9. /\ SumIn(transactions, part) \in Int /\ SumIn(transactions, ids \ part) \in Int
      /\ accounts[a].balance_minor \in Int
  <2>1. part \in SUBSET DOMAIN transactions /\ ids \ part \in SUBSET DOMAIN transactions
    BY <1>1
  <2> QED
    BY <2>1, TableFacts
<1> QED
  BY <1>4, <1>5, <1>6, <1>7, <1>8, <1>9

\* However its legs were re-signed, resized or half deleted before, a transfer
\* moves a balance by what the live legs on the account change by, and after
\* seeding nothing else moves a balance.
THEOREM BalanceWritesAlwaysMatchLegs == Spec => BalanceWritesMatchLegs
<1> DEFINE Match ==
      \A a \in Account :
        seeded /\ accounts'[a].balance_minor # accounts[a].balance_minor =>
          accounts'[a].balance_minor - accounts[a].balance_minor
            = LegSum(a)' - LegSum(a)
<1>1. TypeOK /\ SignMatchesType /\ AbsentIsEmpty /\ [Next]_vars => Match
  <2> SUFFICES ASSUME TypeOK, SignMatchesType, AbsentIsEmpty, [Next]_vars,
                      NEW a \in Account, seeded,
                      accounts'[a].balance_minor # accounts[a].balance_minor
               PROVE  accounts'[a].balance_minor - accounts[a].balance_minor
                        = LegSum(a)' - LegSum(a)
    OBVIOUS
  <2>1. ~Quiet
    BY DEF Quiet, AbsentIsEmpty
  <2>2. ASSUME NEW h \in Household, NEW from \in Account, NEW to \in Account,
               NEW source \in TransferAmount, NEW rate \in Rate \cup {NoRate},
               NEW d \in Date, CreateTransfer(h, from, to, source, rate, d)
        PROVE  accounts'[a].balance_minor - accounts[a].balance_minor
                 = LegSum(a)' - LegSum(a)
    BY <2>2, CreateTransferMatchesLegs
  <2>3. ASSUME NEW h \in Household, NEW x \in TransactionId, DeleteTransfer(h, x)
        PROVE  accounts'[a].balance_minor - accounts[a].balance_minor
                 = LegSum(a)' - LegSum(a)
    BY <2>3, DeleteTransferMatchesLegs
  <2> QED
    BY <2>1, <2>2, <2>3, OnlyTransfersWrite
<1>2. TypeOK /\ SignMatchesType /\ AbsentIsEmpty /\ [Next]_vars => [Match]_vars
  BY <1>1
<1> QED
  BY <1>2, TypeCorrect, SignAlwaysMatchesType, AbsentAlwaysEmpty, PTL
     DEF Spec, BalanceWritesMatchLegs

=============================================================================
