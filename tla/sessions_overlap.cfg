SPECIFICATION Spec
CONSTANTS
  Session = {s1, s2}
  Client = {c1}
  Plain <- MCPlain
  Options <- MCOptions
  Requests <- MCRequests
  Leftover <- MCLeftover
  Foreign <- MCForeign
  Spaces <- MCSpaces
  Default <- MCDefault
  MAX_NAME = 6
  Overlaps = TRUE
CHECK_DEADLOCK FALSE
PROPERTY ListSparesLive
