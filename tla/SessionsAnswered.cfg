SPECIFICATION FairSpec
CONSTANTS
  s1 = s1  s2 = s2  s3 = s3
  Session = {s1, s2, s3}
  Account = {1, 2}
  Transfer = {1, 2}
  From <- CrossFrom
  To <- CrossTo
  Kind = {"create", "delete", "close"}
PROPERTIES EveryRequestEnds LegsAreBooked
CHECK_DEADLOCK FALSE
