SPECIFICATION Spec
CONSTANTS
  h1 = h1  h2 = h2  a1 = a1  a2 = a2  b1 = b1  mine = mine
  Household = {h1, h2}
  Account = {a1, b1}
  HouseholdOf <- Neighbours
  CurrencyOf <- NeighboursCurrency
  CreditAccount = {b1}
  CustomCategory = {mine}
  CategoryOwner <- MineOwner
  Sendable = {}
  OpenedAt = {0, 2}
  Amount = {1}
  TransferAmount = {1}
  Opening = {0, 1}
  Actual = {0, 2}
  Rate = {10000}
  Date = {1, 2}
  MaxMinor = 2
  MaxTransactions = 2
INVARIANT
  RowsStayInHousehold
PROPERTY
  ReconcileReachesActual
CHECK_DEADLOCK FALSE
