--------------------------- MODULE ScheduleProofs ---------------------------
(***************************************************************************)
(* Every schedule repays its loan, no row of it adds to the debt, and no   *)
(* payment settles two rows: proofs about ScheduleLoop for any principal,  *)
(* rate, number and length of periods.                                     *)
(***************************************************************************)
EXTENDS ScheduleLoop, AmortizationProofs, FiniteSetTheorems

USE RateAssumption, LoopAssumption

\* The balance after the last row is 0; before it, nothing is lost.
Balanced ==
  /\ repaid + remaining = loan.principal_minor
  /\ repaid \in Nat
  /\ Complete => remaining = 0

\* What is said of a row that is paid is true of it.
RowsExplained ==
  \A i \in DOMAIN schedule :
    schedule[i].status = "paid" => \E m \in payments : MatchesPeriod(loan, m, i)

LoopInductive == TypeOK /\ Balanced /\ NoNegativeAmortization /\ RowsExplained

\* One turn of the loop.
LEMMA RowStep ==
  ASSUME LoopInductive, AddRow
  PROVE  LoopInductive'
<1> DEFINE i == Len(schedule) + 1
           p == PrincipalPortion(loan, i, remaining)
           f == Interest(loan, i, remaining)
           entry == [row |-> ScheduleRow(loan, i, remaining), status |-> Status(i)]
<1>1. /\ TypeOK /\ Balanced /\ NoNegativeAmortization /\ RowsExplained
      /\ loan \in Loan /\ loan \in LoanType /\ remaining \in Nat /\ repaid \in Nat /\ i \in Nat
      /\ loan.num_periods \in Nat /\ loan.principal_minor \in Nat
      /\ remaining \in 0 .. loan.principal_minor
  BY DEF LoopInductive, TypeOK, Balanced, LoanType
<1>2. f \in Nat /\ p \in 0 .. remaining /\ (i = loan.num_periods => p = remaining)
  BY <1>1, RowPortions DEF IsLast
<1>3. p \in Nat /\ p <= remaining
  BY <1>1, <1>2
<1>4. ScheduleRow(loan, i, remaining)
        = [payment_minor |-> p + f, principal_minor |-> p,
           interest_minor |-> f, remaining_minor |-> remaining - p]
  BY DEF ScheduleRow
<1> HIDE DEF p, f
<1>5. /\ i <= loan.num_periods
      /\ remaining' = remaining - p /\ repaid' = repaid + p
      /\ loan' = loan /\ payments' = payments /\ today' = today
      /\ schedule' = Append(schedule, entry)
  BY <1>4 DEF AddRow
<1>6. /\ entry.status \in {"paid", "overdue", "upcoming"} /\ entry.row \in RowType
      /\ entry.row.principal_minor >= 0 /\ entry.row.interest_minor >= 0
      /\ entry.status = "paid" => \E m \in payments : MatchesPeriod(loan, m, i)
  <2>1. ScheduleRow(loan, i, remaining) \in RowType
    BY <1>1, <1>2, <1>3, <1>4 DEF RowType
  <2>2. Status(i) \in {"paid", "overdue", "upcoming"}
        /\ (Status(i) = "paid" => \E m \in payments : MatchesPeriod(loan, m, i))
    BY DEF Status
  <2> QED
    BY <1>2, <1>3, <1>4, <2>1, <2>2
<1>7. entry \in [row : RowType, status : {"paid", "overdue", "upcoming"}]
  BY <1>6
<1> HIDE DEF entry
<1>8. /\ schedule' \in Seq([row : RowType, status : {"paid", "overdue", "upcoming"}])
      /\ Len(schedule') = i
      /\ \A k \in DOMAIN schedule' :
           \/ k \in DOMAIN schedule /\ schedule'[k] = schedule[k]
           \/ k = i /\ schedule'[k] = entry
  BY <1>1, <1>5, <1>7 DEF TypeOK
<1>9. TypeOK'
  BY <1>1, <1>3, <1>5, <1>8 DEF TypeOK
<1>10. Balanced'
  BY <1>1, <1>2, <1>3, <1>5, <1>8 DEF Balanced, Complete
<1>11. NoNegativeAmortization'
  BY <1>1, <1>6, <1>8 DEF NoNegativeAmortization
<1>12. RowsExplained'
  <2> SUFFICES ASSUME NEW k \in DOMAIN schedule', schedule'[k].status = "paid"
               PROVE  \E m \in payments : MatchesPeriod(loan, m, k)
    BY <1>5 DEF RowsExplained
  <2> QED
    BY <1>1, <1>6, <1>8 DEF RowsExplained
<1> QED
  BY <1>9, <1>10, <1>11, <1>12 DEF LoopInductive

\* An empty schedule owes the whole principal.
LEMMA EmptySchedule == Init => LoopInductive
<1> SUFFICES ASSUME Init PROVE LoopInductive
  OBVIOUS
<1>1. /\ loan \in Loan /\ loan.num_periods \in Nat \ {0}
      /\ loan.principal_minor \in Nat \ {0}
  BY DEF Init, LoanType
<1>2. schedule = <<>> /\ DOMAIN schedule = {}
  BY DEF Init
<1> QED
  BY <1>1, <1>2 DEF Init, LoopInductive, TypeOK, Balanced, Complete, NoNegativeAmortization,
     RowsExplained

\* Every iteration of the loop keeps its invariant.
LEMMA LoopStep == LoopInductive /\ [Next]_vars => LoopInductive'
<1> SUFFICES ASSUME LoopInductive, [Next]_vars
             PROVE  LoopInductive'
  OBVIOUS
<1>1. CASE AddRow
  BY <1>1, RowStep
<1>2. CASE UNCHANGED vars
  BY <1>2 DEF vars, LoopInductive, TypeOK, Balanced, Complete, NoNegativeAmortization,
     RowsExplained
<1> QED
  BY <1>1, <1>2 DEF Next

\* The rows of generate_schedule are well typed, and the balance it carries
\* from row to row never becomes negative.
THEOREM ScheduleTypeCorrect == Spec => []TypeOK
BY EmptySchedule, LoopStep, PTL DEF Spec, LoopInductive

\* The principal portions of a whole schedule add up to the principal, for
\* every loan: the last row absorbs what rounding has left.
THEOREM EveryScheduleRepays == Spec => []RepaidInFull
<1>1. LoopInductive => RepaidInFull
  BY DEF LoopInductive, TypeOK, Balanced, RepaidInFull, LoanType
<1> QED
  BY EmptySchedule, LoopStep, <1>1, PTL DEF Spec

\* For every loan, compute_periodic_payment covers the interest of every row of
\* generate_schedule: none repays a negative amount.
THEOREM NoRowAddsToTheDebt == Spec => []NoNegativeAmortization
BY EmptySchedule, LoopStep, PTL DEF Spec, LoopInductive

\* A month lies in one period, so that a payment settles at most one row: the paid
\* rows can be mapped to different payments (_dates_match_period).
LEMMA PaidRowsHavePayments == LoopInductive => PaymentSettlesOnePeriod
<1> SUFFICES ASSUME LoopInductive PROVE PaymentSettlesOnePeriod
  OBVIOUS
<1> DEFINE paid == {i \in DOMAIN schedule : schedule[i].status = "paid"}
           by == [i \in paid |-> CHOOSE m \in payments : MatchesPeriod(loan, m, i)]
<1>1. ASSUME NEW i \in paid PROVE by[i] \in payments /\ MatchesPeriod(loan, by[i], i)
  BY DEF LoopInductive, RowsExplained
<1>2. IsFiniteSet(payments)
  BY FS_Subset DEF LoopInductive, TypeOK
<1>3. by \in Injection(paid, payments)
  <2>1. by \in [paid -> payments]
    BY <1>1
  <2>2. ASSUME NEW i \in paid, NEW k \in paid, by[i] = by[k] PROVE i = k
    BY <1>1, <2>2 DEF MatchesPeriod
  <2> QED
    BY <2>1, <2>2 DEF Injection, IsInjective
<1> HIDE DEF by
<1>4. Cardinality(paid) <= Cardinality(payments)
  BY <1>2, <1>3, FS_Injection
<1> QED
  BY <1>4 DEF PaymentSettlesOnePeriod

\* Whatever has been paid and when: a payment settles at most one row.
THEOREM PaymentsSettleOnce == Spec => []PaymentSettlesOnePeriod
BY EmptySchedule, LoopStep, PaidRowsHavePayments, PTL DEF Spec
=============================================================================
