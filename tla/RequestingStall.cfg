\* Fair writers; peers acknowledge cancels and never refuse a request.
SPECIFICATION FairSpec
CONSTANTS
  c1 = c1  c2 = c2  p1 = p1  p2 = p2  r1 = r1  r2 = r2
  NoConn = NoConn
  Conns = {c1, c2}
  Pieces = {p1}
  Requests = {r1}
  PieceOf <- OneChunk
  FastConns = {c1, c2}
  CancelAckConns = {c1, c2}
  RejectingConns = {}
  LeavingConns = {c1}
  BitfieldConns = {}
  AllowedFastPieces = {}
  UserCalls = {}
  DropMutuallyCompletePeers = FALSE
  StealRequestGrace = FALSE
  UserOnWriteChunkErr = FALSE
  MaxRequests = 1
  MaxExpected = 2
PROPERTIES IdleConnAskedAgain
CHECK_DEADLOCK FALSE
