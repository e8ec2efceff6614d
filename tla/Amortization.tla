---------------------------- MODULE Amortization ----------------------------
(***************************************************************************)
(* The amortization engine: the fixed payment of a loan and the rows of    *)
(* its schedule, in minor units.  The code computes with Decimal; here the *)
(* rate of a period is the fraction rate / RateDen (annual_rate_bps *      *)
(* frequency_months over 120000, reduced), and the results are those of    *)
(* the code for every rate that Decimal represents exactly.                *)
(***************************************************************************)
EXTENDS Integers

CONSTANT RateDen   \* denominator of the rate of a period

ASSUME RateAssumption == RateDen \in Nat \ {0}

LoanType == [principal_minor : Nat \ {0}, rate : Nat,
             num_periods : Nat \ {0}, frequency_months : Nat \ {0}]

\* a / b for a natural a, rounded up.
CeilDiv(a, b) == (a + b - 1) \div b

FloorDiv(a, b) == a \div b

\* base ** exponent, for an exponent that is a natural number.
Power(base, exponent) ==
  LET power[k \in 0 .. exponent] == IF k = 0 THEN 1 ELSE base * power[k - 1]
  IN  power[exponent]

\* compute_periodic_payment: the PMT formula, rounded up.
PeriodicPaymentFaulty(loan) ==
  LET grown == Power(RateDen + loan.rate, loan.num_periods)
  IN  IF loan.rate = 0
        THEN FloorDiv(loan.principal_minor, loan.num_periods)
        ELSE FloorDiv(loan.principal_minor * loan.rate * grown,
                      RateDen * (grown - Power(RateDen, loan.num_periods)))
PeriodicPayment(loan) ==
  LET grown == Power(RateDen + loan.rate, loan.num_periods)
  IN  IF loan.rate = 0
        THEN CeilDiv(loan.principal_minor, loan.num_periods)
        ELSE CeilDiv(loan.principal_minor * loan.rate * grown,
                     RateDen * (grown - Power(RateDen, loan.num_periods)))

IsLast(loan, i) == i = loan.num_periods

\* The interest of row i.  In the last row of a loan with interest it is
\* what the fixed payment leaves, if that payment covers the balance.
Interest(loan, i, remaining) ==
  IF loan.rate = 0 THEN 0
  ELSE IF IsLast(loan, i) /\ PeriodicPayment(loan) > remaining
         THEN PeriodicPayment(loan) - remaining
         ELSE CeilDiv(remaining * loan.rate, RateDen)

\* The principal portion of row i, capped by what remains.
PrincipalPortionUncapped(loan, i, remaining) ==
  IF remaining <= 0 THEN 0
  ELSE IF IsLast(loan, i) THEN remaining
  ELSE PeriodicPayment(loan) - Interest(loan, i, remaining)
PrincipalPortionFaulty(loan, i, remaining) ==
  IF remaining <= 0 THEN 0
  ELSE LET portion == PeriodicPayment(loan) - Interest(loan, i, remaining)
       IN  IF portion > remaining THEN remaining ELSE portion
PrincipalPortion(loan, i, remaining) ==
  LET portion == IF IsLast(loan, i) THEN remaining
                 ELSE PeriodicPayment(loan) - Interest(loan, i, remaining)
  IN  IF remaining <= 0 THEN 0
      ELSE IF portion > remaining THEN remaining ELSE portion

ScheduleRow(loan, i, remaining) ==
  LET principal == PrincipalPortion(loan, i, remaining)
      interest == Interest(loan, i, remaining)
  IN  [payment_minor |-> principal + interest, principal_minor |-> principal,
       interest_minor |-> interest, remaining_minor |-> remaining - principal]

\* The rows 1 .. num_periods; row 0 stands for the start of the loan.
GenerateSchedule(loan) ==
  LET row[i \in 0 .. loan.num_periods] ==
        IF i = 0
          THEN [payment_minor |-> 0, principal_minor |-> 0,
                interest_minor |-> 0, remaining_minor |-> loan.principal_minor]
          ELSE ScheduleRow(loan, i, row[i - 1].remaining_minor)
  IN  [i \in 1 .. loan.num_periods |-> row[i]]

\* _dates_match_period, with dates as months since the start of the loan:
\* row i falls due after i * frequency_months months.
MatchesPeriodFaulty(loan, month, i) ==
  LET due == i * loan.frequency_months
  IN  due - month < loan.frequency_months /\ month - due < loan.frequency_months
MatchesPeriod(loan, month, i) ==
  IF loan.frequency_months = 1 THEN month = i
  ELSE month \div loan.frequency_months = i
=============================================================================
