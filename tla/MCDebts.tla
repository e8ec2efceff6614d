------------------------------- MODULE MCDebts ------------------------------
(* Three debts for TLC: a loan with interest, one without, and a personal   *)
(* debt with two splits.                                                    *)
EXTENDS Debts

CONSTANTS s1, s2

Loan(principal, rate, periods) ==
  [principal_minor |-> principal, rate |-> rate, num_periods |-> periods,
   frequency_months |-> 1]

Personal == [type |-> "personal", loan |-> Loan(3, 0, 2), splits |-> 2]
AllTerms ==
  {[type |-> "bank_loan", loan |-> Loan(6, 5, 2), splits |-> 0],
   [type |-> "bank_loan", loan |-> Loan(4, 0, 3), splits |-> 0],
   Personal}
=============================================================================
