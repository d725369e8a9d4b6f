CONSTANTS
  Checked = {"overlays", "classes", "panes", "processes"}
  Views = {"explorer", "network"}
  Explorer = "explorer"
  Texts = {"p", "pr"}
  Short = {"p"}
  Found <- MCFound
  Commands <- MCCommands
  Score <- MCScore
  NoMatch = NoMatch
  NoRow = NoRow
  MaxPerGroup = 1
  Buttons = {"palette", "error_log"}
  Chords <- MCChords
  AllClasses <- MCAllClasses
  BoxTexts = {"t"}
  NoText = "none"
  Classes <- MCClasses
  NoClass = "none"
  Keys <- MCKeys
  Columns <- MCColumns
  MaxQueue = 4
  NoNumber = NoNumber
  AnySession = AnySession
  Arrivals <- MCArrivals
  Sessions = {1}
  MaxRows = 3
  MaxDepth = 2
SPECIFICATION Suite
CHECK_DEADLOCK FALSE
INVARIANTS
  PanesAreOfTheClass
  IndentsFollowParents
PROPERTIES
  KeysReachTheTop
  NoClassVanishes
