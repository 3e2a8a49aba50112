\* A conn that announces its pieces once.
SPECIFICATION Spec
CONSTANTS
  c1 = c1  c2 = c2  w1 = w1  p1 = p1  p2 = p2
  Conns = {c1}
  WebSeeds = {}
  Pieces = {p1, p2}
  Repeaters = {}
  UnavailableFiles = {}
  DropMutuallyCompletePeers = TRUE
  MaxAvailability = 4
INVARIANTS AssertedAtClose
CHECK_DEADLOCK FALSE
