---------------------------- MODULE MCDebtScreens ----------------------------
(***************************************************************************)
(* The screens of a debt as one instance for TLC.  Each has its own debt   *)
(* and shares no state with the others, so a behaviour is one of one       *)
(* screen: the graph is the sum of theirs.                                 *)
(***************************************************************************)
EXTENDS PaymentSheet, DebtActions, PastPayments

VARIABLE screen

\* With and without interest.
MonthlyLoan(principal, rate, periods) ==
  [principal_minor |-> principal, rate |-> rate, num_periods |-> periods,
   frequency_months |-> 1]
Loans == {MonthlyLoan(4, 0, 2), MonthlyLoan(6, 5, 2)}
TxPeriod == [t1 |-> 1, t2 |-> 1]
NearPeriod == [t1 |-> 1, t2 |-> 2]

DebtScreensInit ==
  /\ screen \in {"sheet", "actions", "past"}
  /\ SheetInit /\ ActionsInit /\ PastInit

DebtScreensNext ==
  /\ UNCHANGED screen
  /\ \/ screen = "sheet" /\ SheetNext /\ UNCHANGED <<action_vars, past_vars>>
     \/ screen = "actions" /\ ActionsNext /\ UNCHANGED <<sheet_vars, past_vars>>
     \/ screen = "past" /\ PastNext /\ UNCHANGED <<sheet_vars, action_vars>>

DebtScreensSpec ==
  /\ DebtScreensInit
  /\ [][DebtScreensNext]_<<screen, sheet_vars, action_vars, past_vars>>
=============================================================================
