SPECIFICATION FairSpec
CONSTANTS
  here = here
  h1 = h1
  cimv2 = cimv2
  root = root
  Hosts <- MCHosts
  Local = here
  Namespaces <- MCNamespaces
  Cimv2 = cimv2
  Menu <- ScanMenu
  MaxRequests = 2
  MaxCancels = 1
INVARIANTS
  WorkerInv
  CancelTakesEffect
PROPERTIES
  ServiceSpec
  DropReturns
  CancelIsAnswered
  EveryRequestAnswered
CHECK_DEADLOCK FALSE
