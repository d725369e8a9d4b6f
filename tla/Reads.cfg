CONSTANTS
  Checked = {"walk", "associations", "scan", "snapshot", "diff", "query", "event", "file"}
  Absent = Absent
  Namespaces <- Tree
  Root = top
  Children <- ChildrenInTree
  Classes <- ClassesInTree
  Ancestors <- Lineage
  Defs <- Associated
  Returned <- Referring
  Scanned <- SubscriptionNamespaces
  Worlds <- Repositories
  MaxChanges = 1
  Targets <- Machines
  Empty = x
  Derived = Derived
  RelPath = RelPath
  Volatile = {pid}
  TablePairs <- Compared
  Numbers = {"1", "2"}
  Intrinsic = {"creation"}
  Preferred <- NameFirst
  Queries <- Typed
  Deliveries <- Delivered
  top = top
  cimv2 = cimv2
  security = security
  ms = ms
  applications = applications
  name = name
  pid = pid
  x = x
  y = y
  Characters <- FourKinds
  Exported <- Results
  comma = comma
  quote = quote
  newline = newline
  other = other
SPECIFICATION Suite
CHECK_DEADLOCK FALSE
INVARIANTS
  RollupIsTrue
  CompleteIsWhole
  ReadIsReported
  JoinsLoseNothing
  TablesAreAccounted
  EventTextsAreTrue
  FileReadsBack
