\* Requests that fit, that fit alone, that never fit, that are too long and that
\* reach past their piece, with and without the fast extension; fair server and writer.
SPECIFICATION FairSpec
CONSTANTS
  small = small  medium = medium  large = large  huge = huge  overlong = overlong
  p1 = p1  p2 = p2
  Pieces = {p1, p2}
  Requests = {small, medium, large, huge, overlong}
  Index <- Indices
  Size <- Sizes
  Overflowing = {overlong}
  localClientReqq = 2
  MaxAlloc = 2
  MaxChunkLength = 3
INVARIANTS TypeOK BufferOwnership AllocBound ServerRuns ChokedKeepsNothing NoForgottenRequest
PROPERTIES ServeEnds FastRequestsGetRead
CHECK_DEADLOCK FALSE
