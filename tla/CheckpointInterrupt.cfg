SPECIFICATION Spec
CONSTANTS
  Models = {m1, m2}
  Interrupts = TRUE
  MaxSaves = 2
PROPERTIES
  RaisedCommitsNothing
