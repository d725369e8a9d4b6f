CONSTANTS
  here = here
  h1 = h1
  root = root
  cimv2 = cimv2
  none = none
  proc = proc
  Hosts <- MCHosts
  Local = here
  Namespaces <- MCNamespaces
  Default = cimv2
  Top = root
  Classes <- MCClasses
  NoClass = none
  Connects <- MCConnects
  MaxSent = 8
SPECIFICATION Spec
CHECK_DEADLOCK FALSE
INVARIANTS
  ScreenIsOfConnectedHost
  ListIsOfItsNamespace
  SpinnersHaveRequests
