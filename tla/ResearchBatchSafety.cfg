SPECIFICATION Spec
CONSTANTS a = a  b = b  c = c  None = None
          Benchmark <- Two  Experiment <- Two  LaneSize = 1  Scale = 100  ConfigLimit = 10
          OutcomesOf <- Weakness
          MaxCycles = 3  MaxInterruptions = 1
INVARIANTS WholeBatches ControlGate EvidenceIsCounted
PROPERTIES SavedWorkCounts
