SPECIFICATION DebtScreensSpec
CONSTANTS
  RateDen = 20
  Loan <- Loans
  BankTx = {"t1", "t2"}
  DateOf <- TxPeriod
  Near <- NearPeriod
  Typed = {1}
  MaxOpened = 2
  MaxElsewhere = 1
  MaxCommands = 3
  MaxVisits = 2
  MaxForeign = 1
  PastLoan <- Loans
  MaxBatches = 2
  MaxChanges = 1
INVARIANTS
  PastInvariant
PROPERTIES
  SheetPromises
  ActionsPromises
CHECK_DEADLOCK FALSE
