SPECIFICATION FairSpec
CONSTANTS
  Daemons = {d1}
  Proposals = {p1}
  None = None
  OperatorCommands = {"stop", "accept"}
  MaxCrashes = 0
INVARIANTS StateJustified
PROPERTIES StopAnswered
