SPECIFICATION ResumeSpec
CONSTANTS
  Daemons = {d1}
  Proposals = {p1}
  None = None
  OperatorCommands = {"accept", "reject", "promote"}
  MaxCrashes = 1
INVARIANTS PromotedWasApproved
PROPERTIES WaitsForTheReview ReviewResumes LockRecovered
