SPECIFICATION Spec
CONSTANTS
  RateDen = 20
  MaxPrincipal = 40
  Rates = {0, 1, 3}
  MaxPeriods = 5
  Frequencies = {1, 3}
  Loan <- SmallLoans
  Months = {0, 2, 4, 6}
INVARIANTS
  TypeOK
  RepaidInFull
  NoNegativeAmortization
  PaymentSettlesOnePeriod
CHECK_DEADLOCK FALSE
