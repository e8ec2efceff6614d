SPECIFICATION Spec
CONSTANTS
  s1 = s1  s2 = s2  s3 = s3
  Session = {s1, s2}
  Account = {1, 2}
  Transfer = {1, 2}
  From <- CrossFrom
  To <- CrossTo
  Kind = {"create"}
INVARIANT TransfersMoveBalances
CHECK_DEADLOCK FALSE
