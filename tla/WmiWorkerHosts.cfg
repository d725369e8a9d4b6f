SPECIFICATION Spec
CONSTANTS
  here = here
  h1 = h1
  cimv2 = cimv2
  root = root
  Hosts <- MCHosts
  Local = here
  Namespaces <- MCNamespaces
  Cimv2 = cimv2
  Menu <- HostMenu
  MaxRequests = 3
  MaxCancels = 0
INVARIANTS
  StampIsSelectedHost
  AnsweredByStampedHost
CHECK_DEADLOCK FALSE
