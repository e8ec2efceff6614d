SPECIFICATION Spec
CONSTANTS
  h1 = h1  h2 = h2  a1 = a1  a2 = a2  b1 = b1  mine = mine
  Household = {h1}
  Account = {a1, a2}
  HouseholdOf <- OneHousehold
  CurrencyOf <- OneCurrency
  CreditAccount = {a2}
  CustomCategory = {mine}
  CategoryOwner <- MineOwner
  Sendable = {mine}
  OpenedAt = {0}
  Amount = {1}
  TransferAmount = {1}
  Opening = {0, 1}
  Actual = {0, 2}
  Rate = {10000}
  Date = {1}
  MaxMinor = 2
  MaxTransactions = 2
INVARIANTS
  SignMatchesType
  ActiveOnLiveAccount
  SplitsFollowPlainTransaction
PROPERTIES
  SoftDeleteIsFinal
  SystemRowsFrozen
CHECK_DEADLOCK FALSE
