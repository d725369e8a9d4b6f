CONSTANTS
  Checked = {"machines"}
  here = here
  m1 = m1
  m2 = m2
  make = make
  stop = stop
  Keys <- MCKeys
  Local = here
  MaxSent = 3
  Numbers = {"1", "2"}
  Intrinsic = {"creation", "operation"}
  Preferred <- MCPreferred
  Boxes <- MCBoxes
  LogCap = 1
  Window = 1
  MaxStarts = 2
  MaxEvents = 3
  MaxClock = 1
  Hosts <- MCHosts
  Sockets = {"s1"}
  NetRefresh = 1
  NetFade = 2
  MaxQueue = 2
  MaxClicks = 1
  MaxTime = 2
  Declared <- MCDeclared
  MaxCalls = 2
SPECIFICATION Suite
CHECK_DEADLOCK FALSE
INVARIANT ConnectedIsBound
