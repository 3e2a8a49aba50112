\* A conn that announces its pieces once, and a webseed that lacks files.
SPECIFICATION Spec
CONSTANTS
  c1 = c1  c2 = c2  w1 = w1  p1 = p1  p2 = p2
  Conns = {c1}
  WebSeeds = {w1}
  Pieces = {p1, p2}
  Repeaters = {}
  UnavailableFiles <- TwoFiles
  DropMutuallyCompletePeers = TRUE
  MaxAvailability = 4
INVARIANTS NoUnderflow
CHECK_DEADLOCK FALSE
