\* Two operations at a time.
SPECIFICATION Spec
CONSTANTS
  Tasks = {t1, t2}
  Names = {a, b}
  MaxId = 2
  MaxNum = 2
  MaxOps = 5
SYMMETRY Symmetry
CHECK_DEADLOCK FALSE
INVARIANTS
  TypeOK
  DistinctInstances
PROPERTIES
  NoClobber
  ScaleExact
  ResurrectRestores
