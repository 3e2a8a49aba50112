\* Fair writers; no peer rejects or acknowledges cancels. c1 comes and goes, c2
\* tells its pieces anew at any time.
SPECIFICATION FairSpec
CONSTANTS
  c1 = c1  c2 = c2  p1 = p1  p2 = p2  r1 = r1  r2 = r2
  NoConn = NoConn
  Conns = {c1, c2}
  Pieces = {p1}
  Requests = {r1}
  PieceOf <- OneChunk
  FastConns = {c1}
  CancelAckConns = {}
  RejectingConns = {}
  LeavingConns = {c1}
  BitfieldConns = {c2}
  AllowedFastPieces = {}
  UserCalls = {}
  DropMutuallyCompletePeers = FALSE
  StealRequestGrace = FALSE
  UserOnWriteChunkErr = FALSE
  MaxRequests = 1
  MaxExpected = 1
PROPERTIES IdleConnAskedAgain
CHECK_DEADLOCK FALSE
