SPECIFICATION Spec
CONSTANTS
  s1 = s1  s2 = s2  s3 = s3
  Session = {s1, s2, s3}
  Account = {1, 2, 3}
  Transfer = {1, 2, 3}
  From <- RingFrom
  To <- RingTo
  Kind = {"create", "delete", "close"}
SYMMETRY Sessions
INVARIANTS TypeOK UncontendedBalance CreatesNeverDeadlock
CHECK_DEADLOCK FALSE
