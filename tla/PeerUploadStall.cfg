\* Two requests that do not fit together; fair server and writer.
SPECIFICATION FairSpec
CONSTANTS
  small = small  medium = medium  large = large  huge = huge  overlong = overlong
  p1 = p1  p2 = p2
  Pieces = {p1, p2}
  Requests = {small, medium}
  Index <- TwoIndices
  Size <- TwoSizes
  Overflowing = {}
  localClientReqq = 2
  MaxAlloc = 2
  MaxChunkLength = 3
PROPERTIES RequestsGetRead
CHECK_DEADLOCK FALSE
