SPECIFICATION Spec
CONSTANTS
  Models = {m1, m2, m3}
  Interrupts = TRUE
  MaxSaves = 3
SYMMETRY ModelSymmetry
INVARIANTS
  RestoredFromOneSave
PROPERTIES
  StoreIsAtomic
