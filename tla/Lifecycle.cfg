SPECIFICATION Spec
CONSTANTS
  Ports = {0, 3306, 65536, 73482}
  Width = 65536
  MaxOdd = 2
  Modes = {"server", "create", "set", "key"}
  Callers = {"stop", "pause", "unpause"}
  Faults = {"open", "socket"}
  Requests = {"login", "save", "team data", "remove member", "other"}
  Slots = 2
  MaxLost = 2
INVARIANTS
  DeletedWhenThreadEnded
  HandlesLostByRequests
  LateStopSticks
  ListensWhereTold
PROPERTIES
  EndedThreadEndsProgram
  LateStopEndsProgram
CHECK_DEADLOCK FALSE
