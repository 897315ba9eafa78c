SPECIFICATION Spec
CONSTANTS w1 = w1  w2 = w2  n1 = n1  p1 = p1  p2 = p2  t1 = t1  t2 = t2  t3 = t3  u1 = u1
          None = None  Writers = {w1, w2}  Promoters = {w1, w2}  Proposals = {p1}
          Traces = {t1, t2, t3}  Clauses = {t1, t2, t3}  ClauseOf <- OwnClause
          ResearchTraces = {t1, t2, t3}  Strong = {t1, t2}  Canaries = {t2}
          Rank <- Ranked  MaxCrashes = 1
INVARIANTS AuditSound FinishedMeansWritten
