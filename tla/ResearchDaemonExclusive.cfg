SPECIFICATION Spec
CONSTANTS
  Daemons = {d1, d2}
  Proposals = {p1}
  None = None
  OperatorCommands = {"stop", "accept"}
  MaxCrashes = 0
SYMMETRY Identities
INVARIANTS MutualExclusion
