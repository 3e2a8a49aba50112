----------------------------- MODULE PeerUpload -----------------------------
(***************************************************************************)
(* The upload half of one PeerConn: requests from the peer, the goroutine  *)
(* that reads their data from storage (peerRequestServer), and the message *)
(* writer that sends it (upload), with chokes, cancels, rejects and close  *)
(* (peerconn.go).                                                          *)
(*                                                                         *)
(* Every action is a critical section of the client lock. The server gives *)
(* the lock up in two places, waiting for buffer space and reading from    *)
(* storage; its request may be gone, or back again, when it returns.       *)
(***************************************************************************)
EXTENDS Integers, FiniteSets, FiniteSetsExt

CONSTANTS
  Requests,        \* the Requests the peer may send
  Pieces,          \* the pieces they are of
  Index,           \* Request.Index
  Size,            \* Request.Length
  Overflowing,     \* those that reach past the end of their piece
  localClientReqq, \* the most requests of the peer we hold, advertised as reqq
  MaxAlloc,        \* ClientConfig.MaxAllocPeerRequestDataPerConn
  MaxChunkLength   \* maximumPeerRequestChunkLength

ASSUME IndexAssumption == Index \in [Requests -> Pieces]
ASSUME SizeAssumption == Size \in [Requests -> Nat \ {0}]
ASSUME OverflowingAssumption == Overflowing \subseteq Requests
ASSUME FiniteRequests == IsFiniteSet(Requests)
ASSUME LimitsAssumption ==
  localClientReqq \in Nat /\ MaxAlloc \in Nat /\ MaxChunkLength \in Nat

VARIABLES
  fastEnabled,     \* whether both sides enabled the fast extension
  closed,          \* the connection is closed
  choking,         \* we choke the peer
  allowed,         \* uploadAllowed
  have,            \* the pieces we have
  unread,          \* unreadPeerRequests
  ready,           \* readyPeerRequests
  server,          \* where the peerRequestServer goroutine is
  serving,         \* the requests it is serving: at most one
  allocDecreased,  \* whether the channel the server waits on is closed
  buffers,         \* buffers taken from the chunk pool and not put back
  owed,            \* requests the peer waits for an answer to
  overran,         \* whether it sent one with localClientReqq others unanswered
  stray            \* whether a request was answered while no answer was owed

peerVars == <<owed, overran, stray>>
serverVars == <<server, serving>>
vars == <<fastEnabled, closed, choking, allowed, have, unread, ready,
          serverVars, allocDecreased, buffers, peerVars>>

TypeOK ==
  /\ fastEnabled \in BOOLEAN
  /\ closed \in BOOLEAN /\ choking \in BOOLEAN /\ allowed \in BOOLEAN
  /\ have \subseteq Pieces
  /\ unread \subseteq Requests /\ ready \subseteq Requests
  /\ server \in {"none", "loop", "waiting", "reading"}
  /\ serving \subseteq Requests
  /\ allocDecreased \in BOOLEAN
  /\ buffers \in Nat
  /\ owed \subseteq Requests /\ overran \in BOOLEAN /\ stray \in BOOLEAN
-----------------------------------------------------------------------------
havePeerRequest(r) == r \in unread \cup ready

\* Mutant: the request that is being served counts twice.
numWithServed == Cardinality(unread) + Cardinality(ready) + Cardinality(serving)

numPeerRequests == Cardinality(unread) + Cardinality(ready)

peerRequestDataBuffered == MapThenSumSet(LAMBDA r : Size[r], ready)

\* A Piece or a Reject for every request in R goes to the peer.
Answer(R) ==
  /\ owed' = owed \ R
  /\ stray' = (stray \/ (~closed /\ ~(R \subseteq owed)))
  /\ UNCHANGED overran

\* The peer forgets its requests, and with them that they were too many.
Forget == owed' = {} /\ overran' = FALSE /\ UNCHANGED stray

\* peerRequestDataAllocDecreased.Broadcast, if the server waits for it.
Broadcast(decreased) ==
  allocDecreased' = IF server = "waiting" /\ decreased THEN TRUE ELSE allocDecreased

\* Mutants: a buffer is put back whether or not the request had one; the server
\* is not told that there is room.
deleteUnbuffered(r, held) ==
  /\ unread' = unread \ {r}
  /\ ready' = ready \ {r}
  /\ buffers' = held - 1
  /\ Broadcast(r \in ready)

deleteSilently(r, held) ==
  /\ unread' = unread \ {r}
  /\ ready' = ready \ {r}
  /\ buffers' = IF r \in ready THEN held - 1 ELSE held
  /\ UNCHANGED allocDecreased

\* held is how many buffers are out when this is called.
deletePeerRequest(r, held) ==
  /\ unread' = unread \ {r}
  /\ ready' = ready \ {r}
  /\ buffers' = IF r \in ready THEN held - 1 ELSE held
  /\ Broadcast(r \in ready)

\* Mutant: the buffers are not put back in the pool.
deleteAllUnpooled(held) ==
  unread' = {} /\ ready' = {} /\ buffers' = held /\ UNCHANGED allocDecreased

deleteAllPeerRequests(held) ==
  /\ unread' = {} /\ ready' = {}
  /\ buffers' = held - Cardinality(ready)
  /\ UNCHANGED allocDecreased

\* Mutant: the request is kept.
rejectOnly(r, held) ==
  buffers' = held /\ UNCHANGED <<unread, ready, allocDecreased>> /\ Answer({r})

reject(r, held) == deletePeerRequest(r, held) /\ Answer({r})

\* Mutant: a peer that does not keep its requests has them kept.
chokeOnly(held) ==
  /\ choking' = TRUE /\ buffers' = held
  /\ UNCHANGED <<unread, ready, allocDecreased, peerVars>>

\* A choke tells a peer without the fast extension to forget its requests.
choke(held) ==
  /\ choking' = TRUE
  /\ IF choking \/ fastEnabled
     THEN buffers' = held /\ UNCHANGED <<unread, ready, allocDecreased, peerVars>>
     ELSE deleteAllPeerRequests(held) /\ Forget

useBestReject(r, held) ==
  IF fastEnabled THEN reject(r, held) /\ UNCHANGED choking ELSE choke(held)
-----------------------------------------------------------------------------
Init ==
  /\ fastEnabled \in BOOLEAN
  /\ closed = FALSE /\ choking = TRUE /\ allowed \in BOOLEAN
  /\ have \in SUBSET Pieces
  /\ unread = {} /\ ready = {}
  /\ server = "none" /\ serving = {} /\ allocDecreased = FALSE
  /\ buffers = 0 /\ owed = {} /\ overran = FALSE /\ stray = FALSE

\* uploadAllowed depends on the configuration, on what both sides have, and on
\* the balance of bytes sent and received.
uploadAllowed ==
  /\ ~closed
  /\ allowed' = ~allowed
  /\ UNCHANGED <<fastEnabled, closed, choking, have, unread, ready,
                 serverVars, allocDecreased, buffers, peerVars>>

\* What afterSetPieceCompletion finds changed: a hash check passed or failed, or
\* storage answers otherwise than before, when a read failed
\* (peerRequestDataReadFailed, Reader) or the user asks (UpdateCompletion).
pieceCompletionChanged(i) ==
  /\ ~closed
  /\ have' = IF i \in have THEN have \ {i} ELSE have \cup {i}
  /\ UNCHANGED <<fastEnabled, closed, choking, allowed, unread, ready, serverVars,
                 allocDecreased, buffers, peerVars>>

\* Peer.close and onClose, for whatever reason.
close ==
  /\ ~closed
  /\ closed' = TRUE
  /\ deleteAllPeerRequests(buffers)
  /\ Forget
  /\ UNCHANGED <<fastEnabled, choking, allowed, have, serverVars>>

\* Mutant: a server is started only with the first request.
startServerOnce == IF server = "none" /\ unread = {} /\ ready = {} THEN "loop" ELSE server

startPeerRequestServer == IF server = "none" THEN "loop" ELSE server

\* What the peer knows of the room we have: it sends a request more.
Overrun == overran' = (overran \/ Cardinality(owed) >= localClientReqq)

\* onReadRequest for a request that is kept.
onReadRequest(r) ==
  /\ ~closed /\ ~havePeerRequest(r) /\ ~choking
  /\ numPeerRequests < localClientReqq
  /\ Size[r] <= MaxChunkLength /\ Index[r] \in have /\ r \notin Overflowing
  /\ owed' = owed \cup {r} /\ Overrun
  /\ unread' = unread \cup {r}
  /\ server' = startPeerRequestServer
  /\ UNCHANGED <<fastEnabled, closed, choking, allowed, have, ready, serving,
                 allocDecreased, buffers, stray>>

\* onReadRequest for a request that is refused: with a reject if the peer
\* understands one, and otherwise silently. A peer that is choked knows that its
\* request comes to nothing; one that is not waits for the answer.
refuseRequest(r) ==
  /\ ~closed /\ ~havePeerRequest(r)
  /\ \/ choking
     \/ numPeerRequests >= localClientReqq
     \/ Size[r] > MaxChunkLength /\ fastEnabled
  /\ IF fastEnabled
     THEN /\ deletePeerRequest(r, buffers)
          /\ UNCHANGED owed  \* owed and answered at once
     ELSE /\ UNCHANGED <<unread, ready, allocDecreased, buffers>>
          /\ owed' = IF choking THEN owed ELSE owed \cup {r}
  /\ Overrun
  /\ UNCHANGED <<fastEnabled, closed, choking, allowed, have, serverVars, stray>>

\* onReadRequest for a request that ends the connection.
invalidRequest(r) ==
  /\ \/ havePeerRequest(r) /\ fastEnabled
     \/ /\ ~havePeerRequest(r) /\ ~choking /\ numPeerRequests < localClientReqq
        /\ \/ Size[r] > MaxChunkLength /\ ~fastEnabled
           \/ Size[r] <= MaxChunkLength /\ (Index[r] \notin have \/ r \in Overflowing)
  /\ close

\* A cancel of a request that we do not hold is ignored, but the peer, which has
\* no acknowledgement to wait for, waits for it no longer.
onPeerSentCancel(r) ==
  /\ ~closed
  /\ IF fastEnabled /\ havePeerRequest(r) THEN reject(r, buffers)
     ELSE /\ IF havePeerRequest(r) THEN deletePeerRequest(r, buffers)
             ELSE UNCHANGED <<unread, ready, allocDecreased, buffers>>
          /\ owed' = owed \ {r} /\ UNCHANGED <<overran, stray>>
  /\ UNCHANGED <<fastEnabled, closed, choking, allowed, have, serverVars>>
-----------------------------------------------------------------------------
(* The server.                                                              *)

\* Mutant: only what is buffered already is compared with the limit.
AllocWithoutRequest(r) == peerRequestDataBuffered <= MaxAlloc

\* The test of waitForDataAlloc.
CanAlloc(r) == peerRequestDataBuffered + Size[r] <= MaxAlloc

\* servePeerRequest begins. Data that never fits is refused; otherwise the
\* server gives up the lock to wait for room, or to read.
servePeerRequest(r) ==
  /\ server = "loop" /\ ~closed /\ r \in unread
  /\ IF Size[r] > MaxAlloc
     THEN /\ useBestReject(r, buffers)
          /\ UNCHANGED serverVars
     ELSE /\ server' = IF CanAlloc(r) THEN "reading" ELSE "waiting"
          /\ serving' = {r}
          /\ buffers' = IF CanAlloc(r) THEN buffers + 1 ELSE buffers
          /\ UNCHANGED <<unread, ready, choking, allocDecreased, peerVars>>
  /\ UNCHANGED <<fastEnabled, closed, allowed, have>>

\* waitForDataAlloc wakes to look for room again.
waitForDataAlloc ==
  /\ server = "waiting" /\ allocDecreased
  /\ \E r \in serving :
       /\ server' = IF CanAlloc(r) THEN "reading" ELSE "waiting"
       /\ buffers' = IF CanAlloc(r) THEN buffers + 1 ELSE buffers
  /\ allocDecreased' = FALSE
  /\ UNCHANGED <<fastEnabled, closed, choking, allowed, have, unread, ready,
                 serving, peerVars>>

\* waitForDataAlloc wakes because the connection was closed, which deleted the
\* request with all the others, so that there is nothing to reject.
waitForDataAllocClosed ==
  /\ server = "waiting" /\ closed
  /\ server' = "loop" /\ serving' = {} /\ allocDecreased' = FALSE
  /\ UNCHANGED <<fastEnabled, closed, choking, allowed, have, unread, ready,
                 buffers, peerVars>>

\* readPeerRequestData succeeded: the data is kept if still wanted.
peerRequestDataRead ==
  /\ server = "reading"
  /\ unread' = unread \ serving
  /\ ready' = ready \cup (serving \cap unread)
  /\ buffers' = IF serving \subseteq unread THEN buffers ELSE buffers - 1
  /\ server' = "loop" /\ serving' = {}
  /\ UNCHANGED <<fastEnabled, closed, choking, allowed, have,
                 allocDecreased, peerVars>>

\* readPeerRequestData failed and has put its buffer back. If the torrent is
\* closed, and the connection with it, nothing is sent.
peerRequestDataReadFailed ==
  /\ server = "reading"
  /\ server' = "loop" /\ serving' = {}
  /\ \E r \in serving :
       \/ useBestReject(r, buffers - 1)
       \/ /\ closed
          /\ deletePeerRequest(r, buffers - 1)
          /\ UNCHANGED <<choking, peerVars>>
  /\ UNCHANGED <<fastEnabled, closed, allowed, have>>

peerRequestServerReturn ==
  /\ server = "loop" /\ (closed \/ unread = {})
  /\ server' = "none"
  /\ UNCHANGED <<fastEnabled, closed, choking, allowed, have, unread, ready,
                 serving, allocDecreased, buffers, peerVars>>
-----------------------------------------------------------------------------
(* The writer. One fillWriteBuffer sends what the rate limiter and the room *)
(* in the write buffer let it.                                              *)

upload(S) ==
  /\ ~closed /\ allowed
  /\ choking' = FALSE
  /\ ready' = ready \ S
  /\ buffers' = buffers - Cardinality(S)
  /\ Broadcast(S # {})
  /\ Answer(S)
  /\ UNCHANGED <<fastEnabled, closed, allowed, have, unread, serverVars>>

stopUpload ==
  /\ ~closed /\ ~allowed /\ ~choking
  /\ choke(buffers)
  /\ UNCHANGED <<fastEnabled, closed, allowed, have, serverVars>>
-----------------------------------------------------------------------------
ServerNext ==
  \/ \E r \in Requests : servePeerRequest(r)
  \/ waitForDataAlloc \/ waitForDataAllocClosed
  \/ peerRequestDataRead \/ peerRequestDataReadFailed
  \/ peerRequestServerReturn

Next ==
  \/ uploadAllowed \/ close \/ ServerNext \/ stopUpload
  \/ \E i \in Pieces : pieceCompletionChanged(i)
  \/ \E r \in Requests :
       \/ onReadRequest(r) \/ refuseRequest(r) \/ invalidRequest(r)
       \/ onPeerSentCancel(r)
  \/ \E S \in SUBSET ready : upload(S)

Spec == Init /\ [][Next]_vars

\* The server is a goroutine that is never abandoned and storage reads end; it
\* picks a request by ranging over a map, which starts at a random entry. The
\* writer wakes at least at every keepalive deadline; what it is allowed to
\* send it eventually sends, since the peer reads and the rate limiter refills.
FairSpec ==
  /\ Spec
  /\ WF_vars(ServerNext)
  /\ \A r \in Requests : SF_vars(servePeerRequest(r))
  /\ SF_vars(\E S \in SUBSET ready : S # {} /\ upload(S))
-----------------------------------------------------------------------------
(* Safety.                                                                  *)

\* Every buffer out of the chunk pool belongs to a request that is ready, or to
\* the read in progress: no path through cancels, chokes, closes and failed
\* reads loses one or puts one back twice ("Such buffers must be passed back to
\* PeerConn.releasePeerRequestData when done").
BufferOwnership ==
  buffers = Cardinality(ready) + (IF server = "reading" THEN 1 ELSE 0)

\* MaxAllocPeerRequestDataPerConn bounds what is buffered and being read, though
\* the lock is given up between the test and the read, and during the read.
AllocBound ==
  peerRequestDataBuffered
    + (IF server = "reading" THEN MapThenSumSet(LAMBDA r : Size[r], serving) ELSE 0)
    <= MaxAlloc

\* A request that is waiting to be read has a server running for it, however
\* the server's return and new requests interleave.
ServerRuns == unread # {} => server # "none"

\* Without the fast extension nothing is kept for a peer we choke: "I think we
\* would have wiped all peer requests when we last choked, and requests while
\* we're choking would be ignored".
ChokedKeepsNothing == ~fastEnabled /\ choking => unread = {} /\ ready = {}

\* What we hold the peer waits for, and a peer that understands rejects, or keeps
\* to the reqq our extended handshake gave it, waits for nothing that we dropped:
\* a queue full of requests it no longer waits for, or counted too high, would
\* refuse it silently (onReadRequest).
NoForgottenRequest ==
  /\ unread \cup ready \subseteq owed
  /\ fastEnabled \/ ~overran => owed = unread \cup ready

\* A request is unread or ready but not both, and neither once the connection
\* is closed; the server serves one request while it waits or reads, and the
\* data of that request is not ready yet.
ServerState ==
  /\ unread \cap ready = {}
  /\ closed => unread = {} /\ ready = {}
  /\ server \in {"waiting", "reading"} => \E r \in Requests : serving = {r}
  /\ server \in {"none", "loop"} => serving = {}
  /\ serving \cap ready = {}

\* The inductive invariant.
Inv ==
  /\ BufferOwnership /\ ServerRuns /\ ChokedKeepsNothing /\ NoForgottenRequest
  /\ ServerState

\* When the server is done with a request, at once or after it gave up the lock,
\* the request is not left for it to pick again ("Prevent caller from stalling.
\* It's either rejected or buffered").
ServeEnds ==
  [][/\ serving # {} /\ serving' = {} => serving \cap unread' = {}
     /\ \A r \in Requests :
          servePeerRequest(r) => serving' = {r} \/ r \notin unread']_vars

\* The peer is not sent an answer to a request that it has had an answer to, or
\* never made: it takes that for an error ("received invalid reject for
\* request").
NoStrayAnswer == ~stray
-----------------------------------------------------------------------------
(* Liveness.                                                                *)

\* As long as we are allowed to upload again and again, no request waits for
\* ever to be read: whenever buffered data goes away the server gets to read
\* more ("Total peer request data buffered has decreased, so the server can
\* read more").
RequestsGetRead ==
  []<>(allowed \/ closed) =>
    \A r \in Requests : r \in unread ~> r \notin unread

\* The same for a peer with the fast extension, whose requests a choke keeps.
FastRequestsGetRead == fastEnabled => RequestsGetRead
=============================================================================
