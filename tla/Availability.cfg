\* The info arrives at any time, conns announce their pieces again and again, and
\* the webseed lacks files.
SPECIFICATION Spec
CONSTANTS
  c1 = c1  c2 = c2  w1 = w1  p1 = p1  p2 = p2
  Conns = {c1, c2}
  WebSeeds = {w1}
  Pieces = {p1, p2}
  Repeaters = {c1, c2}
  UnavailableFiles <- TwoFiles
  DropMutuallyCompletePeers = TRUE
  MaxAvailability = 4
INVARIANTS TypeOK RelativeAvailability DiscountsCovered HaveAllExclusive CompletePeersOpen
PROPERTIES ZeroAtClose
CHECK_DEADLOCK FALSE
