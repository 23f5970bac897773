\* Two saves that may overlap, two tables of different length.
SPECIFICATION Spec
CONSTANTS
  small = small
  large = large
  Savers = {s1, s2}
  Values = {small, large}
  Size <- MCSize
  Inodes = {i1, i2, i3}
  NoInode = NoInode
  NoValue = NoValue
SYMMETRY Symmetry
CONSTRAINT FewPending
INVARIANTS
  EverLoadable
PROPERTY
  AtomicAndDurable
CHECK_DEADLOCK FALSE
