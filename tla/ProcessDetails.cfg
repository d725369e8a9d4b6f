CONSTANTS
  Sources <- MCSources
  Caps <- MCCaps
  NoCap = none
  BatchSize = 2
  Pids <- MCPids
  PidOf <- MCPidOf
  Deliveries <- Once
  BacklogMax = 0
  MaxRows = 2
  MaxProcs = 2
  MaxMonitors = 2
  Checked = {"processes"}
  here = here
  h1 = h1
  alt = alt
  q1 = q1
  q2 = q2
  blank = blank
  nobody = nobody
  ps = ps
  none = none
  cim = cim
  sub = sub
  nospace = nospace
  srv = srv
  Targets <- MCTargets
  Local = here
  AltTargets = {alt}
  Questions = {q1, q2}
  Blank = blank
  Nobody = nobody
  MaxRuns = 2
  MaxPicks = 1
  Texts = {ps}
  NoText = none
  Spaces = {cim, sub}
  NoSpace = nospace
  Names = {1, 2}
  Folders = {0, 1}
  TargetKeys = {srv}
  NoTarget = here
  Imports <- MCImports
  OldFiles <- Files
  HistoryCap = 1
  Debounce = 1
  MaxOps = 3
SPECIFICATION Suite
CHECK_DEADLOCK FALSE
INVARIANT DetailsNeverCross
