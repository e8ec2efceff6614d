SPECIFICATION BrowserSpec
CONSTANTS
  Query <- HookQuery
  Mutation <- HookMutation
  Affects <- HookAffects
  Invalidates <- HookInvalidates
  Screen <- ScreenOf
  Forgets <- Forgotten
  MaxWrites = 2
  MaxFlights = 2
  Tab = {"t1", "t2"}
  MaxVisits = 3
  MaxCalls = 2
  Verifier = {"v1", "v2"}
  TTL = 3
  Timeout = 2
  MaxClock = 7
INVARIANTS
  CacheInvariant
  EntryInvariant
  KeyInvariant
PROPERTIES
  ViewSpec
  OwnWriteIsShown
  RedirectsEnd
CHECK_DEADLOCK FALSE
