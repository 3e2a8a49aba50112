\* Two connections that stay: c1 acknowledges cancels, rejects requests and sends
\* suggestions, c2 has no fast extension and tells its pieces anew at any time;
\* one piece of two chunks; the user handles write errors.
SPECIFICATION Spec
CONSTANTS
  c1 = c1  c2 = c2  p1 = p1  p2 = p2  r1 = r1  r2 = r2
  NoConn = NoConn
  Conns = {c1, c2}
  Pieces = {p1}
  Requests = {r1, r2}
  PieceOf <- OnePiece
  FastConns = {c1}
  CancelAckConns = {c1}
  RejectingConns = {c1}
  LeavingConns = {}
  BitfieldConns = {c2}
  AllowedFastPieces = {}
  UserCalls = {}
  DropMutuallyCompletePeers = TRUE
  StealRequestGrace = FALSE
  UserOnWriteChunkErr = TRUE
  MaxRequests = 2
  MaxExpected = 1
INVARIANTS TypeOK RequestOwnership ExpectedChunks NoRequestForHeldChunk NoForgottenRequest ShouldRequest ReceivedPieceChecked
PROPERTIES NoStealCircles
CHECK_DEADLOCK FALSE
