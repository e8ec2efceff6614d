SPECIFICATION FairSpec
CONSTANTS
  s1 = s1  s2 = s2
  Session = {s1, s2}
  RateDen = 20
  Terms <- AllTerms
  Amount = {2, 3}
  MaxPayments = 3
INVARIANTS
  TablesOK
  SplitsFollowPayments
  NoOverpayment
  NoOrphanTransaction
PROPERTIES
  CoveringPaymentPaysOff
  EveryRequestEnds
CHECK_DEADLOCK FALSE
