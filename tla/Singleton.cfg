\* Two clients and up to three daemons, alive, starting or ending.
SPECIFICATION Spec
CONSTANTS
  Daemons = {d1, d2, d3}
  Clients = {c1, c2}
  Files = {f1, f2, f3, f4}
  NoDaemon = NoDaemon
  NoFile = NoFile
  Stale = Stale
SYMMETRY Symmetry
INVARIANTS
  TypeOK
  SingleUnlessGhost
  ServingIsReachable
  PidFileNames
  AutoStart
