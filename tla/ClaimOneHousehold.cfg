SPECIFICATION EntrySpec
CONSTANTS
  Tab = {"t1", "t2"}
  MaxVisits = 3
  MaxCalls = 3
INVARIANT OneHousehold
CHECK_DEADLOCK FALSE
