\* No peer rejects or acknowledges cancels, so no update is withheld. One piece
\* of one chunk, allowed fast by c1, which comes and goes; the user verifies it,
\* has its completion updated, and stops and starts downloading at any time.
SPECIFICATION Spec
CONSTANTS
  c1 = c1  c2 = c2  p1 = p1  p2 = p2  r1 = r1  r2 = r2
  NoConn = NoConn
  Conns = {c1, c2}
  Pieces = {p1}
  Requests = {r1}
  PieceOf <- OneChunk
  FastConns = {c1}
  CancelAckConns = {}
  RejectingConns = {}
  LeavingConns = {c1}
  BitfieldConns = {}
  AllowedFastPieces = {p1}
  UserCalls = {"verify", "disallow", "allow", "update"}
  DropMutuallyCompletePeers = FALSE
  StealRequestGrace = TRUE
  UserOnWriteChunkErr = FALSE
  MaxRequests = 1
  MaxExpected = 1
INVARIANTS RequestOwnership NoRequestForHeldChunk NoForgottenRequest NoLostWakeup
PROPERTIES NoRequestDuringCheck
CHECK_DEADLOCK FALSE
