-------------------------------- MODULE Debts -------------------------------
(***************************************************************************)
(* One debt, and the requests about it that run at the same time: payments *)
(* (one, or a batch of past installments), marking paid, reactivating and  *)
(* deleting, with or without its payments.  Every request has a READ       *)
(* COMMITTED session of its own; what it inserts and updates is seen by    *)
(* the others when it commits.                                             *)
(***************************************************************************)
EXTENDS Amortization, Sequences, FiniteSets, FiniteSetsExt

CONSTANTS
  Session,      \* database sessions, one open request each
  Terms,        \* the debts under test
  Amount,       \* amounts clients pay
  MaxPayments   \* bound: payments asked for in one behaviour

\* type is "bank_loan" or "personal" (lent or borrowed: record_payment makes
\* no difference); splits is how many p2p_debt_splits the debt was created
\* with, numbered by due date.
TermsType == [type : {"bank_loan", "personal"}, loan : LoanType, splits : Nat]

ASSUME DebtsAssumption ==
  /\ Terms \subseteq TermsType
  /\ \A d \in Terms :
       IF d.type = "personal" THEN d.splits > 0 /\ d.loan.rate = 0
                              ELSE d.splits = 0
  /\ Amount \subseteq Nat \ {0}
  /\ MaxPayments \in Nat

VARIABLES
  terms,       \* the debt: what never changes ...
  debt,        \* ... and its status and is_active, as committed
  payments,    \* committed debt_payments
  splits,      \* payment_id of every split, 0 while it is unpaid
  booked,      \* payments whose transaction is active
  last_id,     \* payment ids given out
  job,         \* the state of every session
  lock,        \* split -> the session that has updated it
  overlapped   \* history: two requests have been open at one time

vars == <<terms, debt, payments, splits, booked, last_id, job, lock, overlapped>>

Nobody == "nobody"

Idle == [kind |-> "none", status |-> "idle", stage |-> "none", todo |-> <<>>,
         loaded |-> "active", read |-> 0, made |-> {}, split |-> 0,
         claimed |-> [i \in {} |-> 0], pays_off |-> FALSE, seen |-> {}]

Open(s) == job[s].status = "open"

Init ==
  /\ terms \in Terms
  /\ debt = [status |-> "active", is_active |-> TRUE]
  /\ payments = {} /\ booked = {} /\ last_id = 0
  /\ splits = [i \in 1 .. terms.splits |-> 0]
  /\ job = [s \in Session |-> Idle]
  /\ lock = [i \in 1 .. terms.splits |-> Nobody]
  /\ overlapped = FALSE

PrincipalOf(rows) == MapThenSumSet(LAMBDA p : p.principal_minor, rows)
Ids(rows) == {p.id : p \in rows}

Set(s, j) == job' = [job EXCEPT ![s] = j]

\* A session opens once get_debt has found the debt.
Start(s, j) ==
  /\ ~Open(s)
  /\ debt.is_active
  /\ Set(s, [j EXCEPT !.status = "open", !.loaded = debt.status])
  /\ overlapped' = (overlapped \/ \E t \in Session : Open(t))
  /\ UNCHANGED <<terms, debt, payments, splits, booked, lock>>

ReleaseFaulty(s) ==
  [i \in DOMAIN lock |-> IF lock[i] = s /\ i = job[s].split THEN Nobody
                         ELSE lock[i]]
Release(s) == [i \in DOMAIN lock |-> IF lock[i] = s THEN Nobody ELSE lock[i]]

End(s, status) ==
  /\ Set(s, [Idle EXCEPT !.kind = job[s].kind, !.status = status])
  /\ lock' = Release(s)
  /\ UNCHANGED <<terms, last_id, overlapped>>

Refuse(s) == End(s, "refused") /\ UNCHANGED <<debt, payments, splits, booked>>

-----------------------------------------------------------------------------
(* record_payment, bulk_record_past_payments *)

ScheduleOf == [d \in Terms |-> GenerateSchedule(d.loan)]
Schedule == ScheduleOf[terms]

\* The principal portion of a payment that falls into row i of the schedule:
\* interest in proportion to the row, rounded to nearest.
PortionFaulty(amount, i) ==
  LET row == Schedule[i]
  IN  IF terms.loan.rate > 0 /\ row.payment_minor > 0
        THEN amount - (amount * row.payment_minor + row.interest_minor \div 2)
                        \div CeilDiv(row.interest_minor, 1)
        ELSE amount
Portion(amount, i) ==
  LET row == Schedule[i]
  IN  IF terms.loan.rate > 0 /\ row.payment_minor > 0
        THEN amount - (amount * row.interest_minor + row.payment_minor \div 2)
                        \div row.payment_minor
        ELSE amount

\* One payment of any amount, matched to a row by its month (or to the first
\* one; without interest no row is looked up); or the installments of a
\* batch, in order, at their scheduled amounts.
SinglePayments ==
  LET rows == IF terms.loan.rate = 0 THEN {1} ELSE 1 .. terms.loan.num_periods
  IN  {<<item>> : item \in [amount : Amount, row : rows]}
PastInstallments ==
  LET item(i) == [amount |-> Schedule[i].payment_minor, row |-> i]
      rows == 1 .. terms.loan.num_periods
  IN  {<<item(i)>> : i \in rows}
        \cup {<<item(q[1]), item(q[2])>> : q \in {q \in rows \X rows : q[1] <= q[2]}}

BeginPay(s) ==
  \E items \in SinglePayments \cup PastInstallments :
    /\ last_id + Len(items) <= MaxPayments
    /\ last_id' = last_id + Len(items)
    /\ Start(s, [Idle EXCEPT !.kind = "pay", !.stage = "check",
                   !.todo = [n \in DOMAIN items |->
                               [id |-> last_id + n, amount |-> items[n].amount,
                                row |-> items[n].row]]])

\* The guards on the principal paid so far, and that of TransactionCreate: a row
\* of the schedule that asks for nothing has no transaction.
RefusedFaulty(amount, remaining) == remaining <= 0
Refused(amount, remaining) ==
  \/ remaining <= 0 \/ amount = 0
  \/ terms.loan.rate = 0 /\ amount > remaining

PaysOffFaulty(paid) == paid > terms.loan.principal_minor
PaysOff(paid) == paid >= terms.loan.principal_minor

\* What the session sees paid is what is committed and what it has inserted.
\* The payment and its transaction are inserted, or the request is refused.
CheckAndInsert(s) ==
  /\ Open(s) /\ job[s].kind = "pay" /\ job[s].stage = "check"
  /\ LET item == Head(job[s].todo)
         read == PrincipalOf(payments \cup job[s].made)
         row == [id |-> item.id,
                 principal_minor |-> Portion(item.amount, item.row)]
     IN  IF Refused(item.amount, terms.loan.principal_minor - read)
           THEN Refuse(s)
           ELSE /\ Set(s, [job[s] EXCEPT
                       !.read = read, !.made = @ \cup {row},
                       !.stage = IF terms.type = "personal" THEN "select"
                                 ELSE "settle"])
                /\ UNCHANGED <<terms, debt, payments, splits, booked, last_id,
                               lock, overlapped>>

\* The earliest split that is unpaid as far as the session can see, or 0.
NextSplitFaulty(s) ==
  LET unpaid == {i \in DOMAIN splits :
                   splits[i] = 0 /\ i \notin DOMAIN job[s].claimed}
  IN  IF unpaid = {} THEN 0 ELSE Max(unpaid)
NextSplitFirst(s) == 1
NextSplit(s) ==
  LET unpaid == {i \in DOMAIN splits :
                   splits[i] = 0 /\ i \notin DOMAIN job[s].claimed}
  IN  IF unpaid = {} THEN 0 ELSE Min(unpaid)

SelectSplit(s) ==
  /\ Open(s) /\ job[s].stage = "select"
  /\ Set(s, [job[s] EXCEPT
               !.split = NextSplit(s),
               !.stage = IF NextSplit(s) = 0 THEN "settle" ELSE "claim"])
  /\ UNCHANGED <<terms, debt, payments, splits, booked, last_id, lock, overlapped>>

\* The UPDATE waits for whoever has updated the row, and then overwrites.
ClaimSplit(s) ==
  /\ Open(s) /\ job[s].stage = "claim"
  /\ LET i == job[s].split
         claimed == job[s].claimed
     IN  /\ lock[i] \in {Nobody, s}
         /\ lock' = [lock EXCEPT ![i] = s]
         /\ Set(s, [job[s] EXCEPT
                      !.stage = "settle",
                      !.claimed = [k \in DOMAIN claimed \cup {i} |->
                        IF k = i THEN Head(job[s].todo).id ELSE claimed[k]]])
  /\ UNCHANGED <<terms, debt, payments, splits, booked, last_id, overlapped>>

\* Whether the debt is paid off, from the sum read before the insert.
Settle(s) ==
  /\ Open(s) /\ job[s].stage = "settle"
  /\ LET item == Head(job[s].todo)
         paid == job[s].read + Portion(item.amount, item.row)
     IN  Set(s, [job[s] EXCEPT
                   !.pays_off = @ \/ PaysOff(paid), !.todo = Tail(@),
                   !.stage = IF Tail(job[s].todo) = <<>> THEN "commit"
                             ELSE "check"])
  /\ UNCHANGED <<terms, debt, payments, splits, booked, last_id, lock, overlapped>>

\* An attribute that already has the value is not written (loaded).
Written(s, status) ==
  [debt EXCEPT !.status = IF job[s].loaded = status THEN @ ELSE status]

CommitPay(s) ==
  /\ Open(s) /\ job[s].kind = "pay" /\ job[s].stage = "commit"
  /\ payments' = payments \cup job[s].made
  /\ booked' = booked \cup Ids(job[s].made)
  /\ splits' = [i \in DOMAIN splits |->
                  IF i \in DOMAIN job[s].claimed THEN job[s].claimed[i]
                  ELSE splits[i]]
  /\ debt' = IF job[s].pays_off THEN Written(s, "paid_off") ELSE debt
  /\ End(s, "done")

(* mark_paid, reactivate_debt *)

BeginMark(s) ==
  Start(s, [Idle EXCEPT !.kind = "mark"]) /\ UNCHANGED last_id

CommitMark(s) ==
  /\ Open(s) /\ job[s].kind = "mark"
  /\ debt' = Written(s, "paid_off")
  /\ End(s, "done")
  /\ UNCHANGED <<payments, splits, booked>>

BeginReactivate(s) ==
  /\ debt.status = "paid_off"
  /\ Start(s, [Idle EXCEPT !.kind = "reactivate"]) /\ UNCHANGED last_id

CommitReactivate(s) ==
  /\ Open(s) /\ job[s].kind = "reactivate"
  /\ debt' = Written(s, "active")
  /\ End(s, "done")
  /\ UNCHANGED <<payments, splits, booked>>

(* soft_delete_debt *)

BeginDelete(s) ==
  Start(s, [Idle EXCEPT !.kind = "delete"]) /\ UNCHANGED last_id

CommitDelete(s) ==
  /\ Open(s) /\ job[s].kind = "delete"
  /\ debt' = [debt EXCEPT !.is_active = FALSE]
  /\ End(s, "done")
  /\ UNCHANGED <<payments, splits, booked>>

\* With delete_transactions: the payments are read for their transactions ...
BeginPurge(s) ==
  Start(s, [Idle EXCEPT !.kind = "purge", !.seen = Ids(payments)])
    /\ UNCHANGED last_id

\* A row that a split refers to cannot be deleted (foreign key).
ReferencedFaulty(rows) == FALSE
Referenced(rows) == \E i \in DOMAIN splits : splits[i] \in Ids(rows)

\* The transactions that are left once those of the payments read are gone.
UnbookedFaulty(s) == booked
Unbooked(s) == booked \ job[s].seen

\* ... which are deactivated, and all payments are deleted by debt_id.
CommitPurge(s) ==
  /\ Open(s) /\ job[s].kind = "purge"
  /\ IF Referenced(payments)
       THEN Refuse(s)
       ELSE /\ payments' = {}
            /\ booked' = Unbooked(s)
            /\ debt' = [debt EXCEPT !.is_active = FALSE]
            /\ End(s, "done")
            /\ UNCHANGED splits

(* The process or the connection is lost. *)
Crash(s) ==
  /\ Open(s)
  /\ End(s, "lost")
  /\ UNCHANGED <<debt, payments, splits, booked>>

-----------------------------------------------------------------------------
Begin(s) ==
  \/ BeginPay(s) \/ BeginMark(s) \/ BeginReactivate(s)
  \/ BeginDelete(s) \/ BeginPurge(s)

Step(s) ==
  \/ CheckAndInsert(s) \/ SelectSplit(s) \/ ClaimSplit(s) \/ Settle(s)
  \/ CommitPay(s) \/ CommitMark(s) \/ CommitReactivate(s)
  \/ CommitDelete(s) \/ CommitPurge(s)

Next == \E s \in Session : Begin(s) \/ Step(s) \/ Crash(s)

Spec == Init /\ [][Next]_vars

\* The event loop resumes a coroutine whose query is answered; the database
\* hands a free row lock over.
FairSpec == Spec /\ \A s \in Session : WF_vars(Step(s))

-----------------------------------------------------------------------------
(* Properties *)

\* Types: the principal portion of a payment is never negative, a split
\* refers to a payment that was made.
TypeOK ==
  /\ terms \in Terms
  /\ debt \in [status : {"active", "paid_off"}, is_active : BOOLEAN]
  /\ \A p \in payments : p.id \in 1 .. last_id /\ p.principal_minor \in Nat
  /\ splits \in [1 .. terms.splits -> 0 .. last_id]
  /\ booked \subseteq 1 .. last_id
  /\ lock \in [1 .. terms.splits -> Session \cup {Nobody}]

\* Splits are paid in the order of their due dates, whatever payments
\* overlap, fail or crash: no split is paid while an earlier one is not.
SplitsPaidInOrder ==
  \A i, k \in DOMAIN splits : i < k /\ splits[k] # 0 => splits[i] # 0

\* A paid split refers to a payment that exists.
PaidSplitsHavePayments ==
  \A i \in DOMAIN splits : splits[i] # 0 => splits[i] \in Ids(payments)

\* One request at a time, an interest-free debt is never overpaid ...
NoOverpayment ==
  ~overlapped /\ terms.loan.rate = 0 =>
    PrincipalOf(payments) <= terms.loan.principal_minor

\* ... every payment of a personal debt settles one split while there are
\* unpaid ones, so that splits and payments tell the same story ...
OneSplitPerPayment ==
  ~overlapped /\ terms.type = "personal" =>
    Cardinality({i \in DOMAIN splits : splits[i] # 0})
      = Min({Cardinality(payments), terms.splits})

\* ... no transaction of a payment outlives the payment ...
NoOrphanTransaction == ~overlapped => booked \subseteq Ids(payments)

\* ... and the payment that covers the principal marks the debt paid off.
CoveringPaymentPaysOff ==
  [][/\ ~overlapped'
     /\ PrincipalOf(payments) < terms.loan.principal_minor
     /\ PrincipalOf(payments') >= terms.loan.principal_minor
     => debt'.status = "paid_off"]_vars

\* The tables are typed and the references in them hold, whatever overlaps.
TablesOK == TypeOK /\ PaidSplitsHavePayments

\* Splits follow the payments: in their order always, one for one as long as
\* one request runs at a time.
SplitsFollowPayments == SplitsPaidInOrder /\ OneSplitPerPayment

\* Every request is answered: payments that want the same split queue for it
\* in the order of the splits and cannot wait for each other in a circle.
EveryRequestEnds == \A s \in Session : Open(s) ~> ~Open(s)
=============================================================================
