SPECIFICATION Spec
CONSTANTS f1 = f1  f2 = f2  g1 = g1  None = None
          Files = {f1, f2}  PhaseOf <- AttackOnly
          Names = {1, 2}  MaxEdits = 1  MaxCrashes = 1
SYMMETRY Sources
INVARIANTS Undoable 
PROPERTIES EditsSurvive 
