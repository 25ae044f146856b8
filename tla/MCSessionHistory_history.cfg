SPECIFICATION Spec
CONSTANTS
  Connections = {c1, c2}
  Sessions = {s1, s2}
  MaxTerminalOutput = 2
  MaxSessionHistory = 2
  MaxAgentHistory = 3
  MaxSequence = 3
  NoConnection = NoConnection
  NoSession = NoSession
CHECK_DEADLOCK FALSE
SYMMETRY Interchangeable
INVARIANTS
  OwnFramesAccepted
  
  LiveIsComplete
  HistoryIsSound
PROPERTIES
  StreamIsWhole
  EvictsTheOldest
