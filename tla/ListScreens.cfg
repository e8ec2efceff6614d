SPECIFICATION ListScreensSpec
CONSTANTS
  Item = {1, 2}
  SecondPage = {2}
  MaxBatches = 2
  Plan = {1, 2}
  Monthly = 1
  Tenure = 1
  Owed <- OwedOf
  MaxSends = 2
  MaxSheets = 2
  MaxInputs = 2
  MaxOpens = 2
  MaxSaves = 2
  Statement = {"june", "july", "scan", "xls"}
  RowsOf <- StatementRows
  BadRows <- Unreadable
  Layout <- Layouts
  ImportTo = {"a", "b"}
  MaxParses = 2
  MaxCommits = 2
  MaxOthers = 1
  AccountKind = {"bank_account", "credit_card", "digital_wallet", "cash_wallet"}
  KindOf <- Kinds
  FirstKind = "bank_account"
  Preselected = "no institution"
  MaxDialogs = 2
  MaxInstitutions = 1
  MaxAccounts = 2
  Person = {1, 2, 3}
  Known = {2}
  Owing = {2}
  Elsewhere = {1}
  PageSize = 1
  Currency = {"EGP", "USD"}
  DefaultCurrency = "EGP"
  MaxShows = 2
  MaxDebts = 1
  MaxBirths = 1
INVARIANTS
  BulkInvariant
  PayInvariant
  FormInvariant
  ImportInvariant
  PersonInvariant
  InstitutionInvariant
PROPERTIES
  FormPromises
CHECK_DEADLOCK FALSE
