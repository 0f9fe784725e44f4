SPECIFICATION Spec
CONSTANTS
  Base = 4
  FixedLen = 2
  Values <- Messages
  Following <- NextBytes
INVARIANTS
  RoundTrip
  NoPanic
  PartNotMisread
CHECK_DEADLOCK FALSE
