--------------------------- MODULE MCScheduleLoop ---------------------------
(* Small loans for TLC: every principal up to a bound, with and without     *)
(* interest, monthly and quarterly.                                         *)
EXTENDS ScheduleLoop

CONSTANTS MaxPrincipal, Rates, MaxPeriods, Frequencies

SmallLoans ==
  [principal_minor : 1 .. MaxPrincipal, rate : Rates,
   num_periods : 1 .. MaxPeriods, frequency_months : Frequencies]
=============================================================================
