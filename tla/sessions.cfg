SPECIFICATION Spec
CONSTANTS
  Session = {s1, s2}
  Client = {c1}
  Plain <- MCPlain
  Options <- MCOptions
  Requests <- MCRequests
  Leftover <- MCLeftover
  Foreign <- MCForeign
  Spaces <- MCSpaces
  Default <- MCDefault
  MAX_NAME = 6
  Overlaps = FALSE
CHECK_DEADLOCK FALSE
INVARIANTS
  TypeOK
  Reachable
  StartsIfRoom
  ListCleans
PROPERTIES
  OnlyDeadRemoved
  ImplementsRegistry
  StartEnds
  ClientEnds
