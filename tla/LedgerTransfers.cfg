SPECIFICATION Spec
CONSTANTS
  h1 = h1  h2 = h2  a1 = a1  a2 = a2  b1 = b1  mine = mine
  Household = {h1}
  Account = {a1, a2}
  HouseholdOf <- OneHousehold
  CurrencyOf <- TwoCurrencies
  CreditAccount = {a2}
  CustomCategory = {mine}
  CategoryOwner <- MineOwner
  Sendable = {}
  OpenedAt = {0}
  Amount = {}
  TransferAmount = {1}
  Opening = {0}
  Actual = {}
  Rate = {15000}
  Date = {1}
  MaxMinor = 3
  MaxTransactions = 4
INVARIANT
  TypeOK
PROPERTY
  BalanceWritesMatchLegs
CHECK_DEADLOCK FALSE
