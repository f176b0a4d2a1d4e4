\* Both consoles, two requests, two fetches in flight.
SPECIFICATION ConsoleFairSpec
CONSTANTS
  Requests = {r1, r2}
  NoRequest = NoRequest
  Modes = {"tui", "plain"}
  MaxFetches = 2
CHECK_DEADLOCK FALSE
INVARIANTS
  
  SelectionSound
PROPERTIES
  PlainSkippedStayHidden
  PendingIsShown
