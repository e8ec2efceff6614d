----------------------------- MODULE ScheduleLoop ---------------------------
(***************************************************************************)
(* The loop of generate_schedule, one row per step, over every loan and    *)
(* every record of past payments that an instance allows.                  *)
(***************************************************************************)
EXTENDS Amortization, Sequences, FiniteSets

CONSTANTS
  Loan,     \* the loans under test
  Months    \* months since the start, of payments and of today

ASSUME LoopAssumption ==
  /\ Loan \subseteq LoanType
  /\ Months \subseteq Nat /\ IsFiniteSet(Months)

VARIABLES
  loan,       \* the arguments of the call ...
  payments,   \* ... the months that have a payment
  today,
  schedule,   \* the rows so far
  remaining,  \* principal not repaid by them
  repaid      \* history: the sum of their principal portions

vars == <<loan, payments, today, schedule, remaining, repaid>>

Init ==
  /\ loan \in Loan
  /\ payments \in SUBSET Months
  /\ today \in Months
  /\ schedule = <<>>
  /\ remaining = loan.principal_minor
  /\ repaid = 0

Status(i) ==
  IF \E m \in payments : MatchesPeriod(loan, m, i) THEN "paid"
  ELSE IF i * loan.frequency_months <= today THEN "overdue" ELSE "upcoming"

AddRow ==
  LET i == Len(schedule) + 1
      row == ScheduleRow(loan, i, remaining)
  IN  /\ i <= loan.num_periods
      /\ schedule' = Append(schedule, [row |-> row, status |-> Status(i)])
      /\ remaining' = row.remaining_minor
      /\ repaid' = repaid + row.principal_minor
      /\ UNCHANGED <<loan, payments, today>>

Next == AddRow

Spec == Init /\ [][Next]_vars

-----------------------------------------------------------------------------
(* Properties *)

RowType == [payment_minor : Int, principal_minor : Int, interest_minor : Int,
            remaining_minor : Int]

TypeOK ==
  /\ schedule \in Seq([row : RowType,
                       status : {"paid", "overdue", "upcoming"}])
  /\ loan \in Loan
  /\ payments \subseteq Months /\ today \in Months
  /\ Len(schedule) <= loan.num_periods
  /\ remaining \in Nat /\ repaid \in Int

Complete == Len(schedule) = loan.num_periods

\* The principal portions of the rows add up to the principal: whatever the
\* rounding of the payment and of the interest does on the way, nothing is
\* left after the last row and nothing is repaid twice.
RepaidInFull ==
  /\ repaid + remaining = loan.principal_minor
  /\ Complete => repaid = loan.principal_minor

\* No row adds to the debt: rounding the payment up is enough to cover the
\* interest, which is rounded up as well, in every period.
NoNegativeAmortization ==
  \A i \in DOMAIN schedule :
    /\ schedule[i].row.principal_minor >= 0
    /\ schedule[i].row.interest_minor >= 0

\* A payment settles at most one period of the schedule.
PaymentSettlesOnePeriod ==
  Cardinality({i \in DOMAIN schedule : schedule[i].status = "paid"})
    <= Cardinality(payments)
=============================================================================
