SPECIFICATION FairSpec
CONSTANTS w1 = w1  w2 = w2  n1 = n1  p1 = p1  p2 = p2  t1 = t1  t2 = t2  t3 = t3  u1 = u1
          None = None  Writers = {w1, n1}  Promoters = {w1}  Proposals = {p1}
          Traces = {t1, u1}  Clauses = {t1, u1}  ClauseOf <- OwnClause
          ResearchTraces = {t1}  Strong = {t1}  Canaries = {}
          Rank <- Ranked  MaxCrashes = 1
PROPERTIES BoundaryKept InterruptedIsFinished
