----------------------------- MODULE Requesting -----------------------------
(***************************************************************************)
(* How a Torrent shares the chunks it wants among its peer connections:    *)
(* requests, cancels and their acknowledgements, rejects, chokes, steals   *)
(* between connections, received chunks and their storage writes, and the  *)
(* piece states that make a chunk requestable (requesting.go, peerconn.go, *)
(* peer.go, torrent.go).                                                   *)
(*                                                                         *)
(* Every action is one critical section of the client lock, except the     *)
(* update of a connection's requests (applyRequestState), whose loop is    *)
(* one step per candidate; "updating" names the connection whose writer    *)
(* holds the lock meanwhile, and every other action waits for it.          *)
(***************************************************************************)
EXTENDS Integers, FiniteSets

CONSTANTS
  Conns,               \* PeerConns that may be added to the torrent
  NoConn,              \* the absence of a PeerConn
  Pieces,              \* piece indexes of the torrent
  Requests,            \* RequestIndexes: one for each chunk of the torrent
  PieceOf,             \* pieceIndexOfRequestIndex
  FastConns,           \* conns where both sides enabled the fast extension
  CancelAckConns,      \* conns for which remoteRejectsCancels holds
  RejectingConns,      \* conns whose remote end may refuse a request
  LeavingConns,        \* conns that may be closed and dropped
  BitfieldConns,       \* conns whose peer tells its pieces anew at any time
  AllowedFastPieces,   \* pieces that peers declare allowed fast
  UserCalls,           \* what the user does: "verify", "disallow", "allow", "update"
  DropMutuallyCompletePeers, \* ClientConfig.DropMutuallyCompletePeers
  StealRequestGrace,   \* whether ClientConfig.StealRequestGrace is positive
  UserOnWriteChunkErr, \* whether the user set a chunk write error handler
  MaxRequests,         \* the largest value of nominalMaxRequests
  MaxExpected          \* validReceiveChunks is told apart up to this count

ASSUME ConnsAssumption == NoConn \notin Conns /\ IsFiniteSet(Conns)
ASSUME PieceOfAssumption == PieceOf \in [Requests -> Pieces]
ASSUME FiniteRequests == IsFiniteSet(Requests)
ASSUME FastAssumption ==
  /\ FastConns \subseteq Conns
  /\ CancelAckConns \subseteq FastConns
  /\ RejectingConns \subseteq FastConns
  /\ LeavingConns \subseteq Conns /\ BitfieldConns \subseteq Conns
ASSUME EnvironmentAssumption ==
  /\ AllowedFastPieces \subseteq Pieces
  /\ UserCalls \subseteq {"verify", "disallow", "allow", "update"}
ASSUME FlagsAssumption ==
  /\ DropMutuallyCompletePeers \in BOOLEAN
  /\ StealRequestGrace \in BOOLEAN /\ UserOnWriteChunkErr \in BOOLEAN
ASSUME BoundsAssumption ==
  MaxRequests \in Nat \ {0} /\ MaxExpected \in Nat \ {0}

VARIABLES
  \* Per connection.
  status,             \* "new", "open", "closed" (but still in t.conns), "gone"
  peerPieces,         \* pieces the peer has
  peerChoking,        \* whether the peer chokes us
  peerAllowedFast,    \* pieces the peer lets us request while choked
  interested,         \* requestState.Interested
  requests,           \* requestState.Requests
  cancelled,          \* requestState.Cancelled: cancels not yet acknowledged
  validReceiveChunks, \* how many times each chunk may still be received
  needRequestUpdate,  \* the reason a request update is due, or "none"
  writing,            \* chunks accepted whose storage write has not finished
  \* Per torrent.
  requestState,       \* the connection that holds each outstanding request
  after,              \* <<c, d>>: c received a useful chunk later than d did
  dirtyChunks,        \* chunks received since their piece was last checked
  completed, queued, hashing, \* pieces complete, queued for hash, being
                      \* hashed (or marked after it)
  pendingPieces,      \* _pendingPieces: the pieces last seen as wanted
  dataDownloadDisallowed,
  \* The request update in progress.
  updating,           \* the connection whose requests are being updated
  candidates,         \* what is left of its request heap
  nominalMax          \* its nominalMaxRequests

connVars == <<status, peerPieces, peerChoking, peerAllowedFast, interested>>
requestVars == <<requests, cancelled, validReceiveChunks, requestState>>
pieceVars == <<dirtyChunks, completed, queued, hashing, pendingPieces,
               dataDownloadDisallowed>>
updateVars == <<updating, candidates, nominalMax>>
vars == <<connVars, requestVars, needRequestUpdate, writing, after, pieceVars,
          updateVars>>

Reasons == {"none", "cancel", "reject", "other"}

TypeOK ==
  /\ status \in [Conns -> {"new", "open", "closed", "gone"}]
  /\ peerPieces \in [Conns -> SUBSET Pieces]
  /\ peerChoking \in [Conns -> BOOLEAN]
  /\ peerAllowedFast \in [Conns -> SUBSET Pieces]
  /\ interested \in [Conns -> BOOLEAN]
  /\ requests \in [Conns -> SUBSET Requests]
  /\ cancelled \in [Conns -> SUBSET Requests]
  /\ validReceiveChunks \in [Conns -> [Requests -> Nat]]
  /\ needRequestUpdate \in [Conns -> Reasons]
  /\ writing \in [Conns -> SUBSET Requests]
  /\ requestState \in [Requests -> Conns \cup {NoConn}]
  /\ after \subseteq Conns \X Conns
  /\ dirtyChunks \subseteq Requests
  /\ completed \subseteq Pieces /\ queued \subseteq Pieces
  /\ hashing \subseteq Pieces /\ pendingPieces \subseteq Pieces
  /\ dataDownloadDisallowed \in BOOLEAN
  /\ updating \in Conns \cup {NoConn}
  /\ candidates \subseteq Requests
  /\ nominalMax \in 1..MaxRequests
-----------------------------------------------------------------------------
ChunksOf(i) == {r \in Requests : PieceOf[r] = i}

\* t.conns: a closed connection stays until its read loop has returned.
InConns == {c \in Conns : status[c] \in {"open", "closed"}}

Unlocked == updating = NoConn

\* Mutant: the queue for hash is not looked at.
ignoreNotQueued(i) == i \in completed \cup hashing \/ dataDownloadDisallowed

ignoreForRequests(i) ==
  i \in completed \cup queued \cup hashing \/ dataDownloadDisallowed

haveChunk(r) == PieceOf[r] \in completed \/ r \in dirtyChunks

isLowOnRequests(c) == requests[c] = {} /\ cancelled[c] = {}

\* One more or one less chunk to receive. MaxExpected stands for that many or
\* more, so that one less may still be as many.
incExpected(n) == IF n < MaxExpected THEN n + 1 ELSE n
decExpected(n) == IF n < MaxExpected THEN {n - 1} ELSE {n - 1, n}

ExpectChunk(c, r) ==
  validReceiveChunks' = [validReceiveChunks EXCEPT ![c][r] = incExpected(@)]

decExpectedChunkReceive(c, r) ==
  \E n \in decExpected(validReceiveChunks[c][r]) :
    validReceiveChunks' = [validReceiveChunks EXCEPT ![c][r] = n]

\* A reason is recorded only if there is none yet.
onNeedUpdateRequests(need, S, reason) ==
  [c \in Conns |-> IF c \in S /\ need[c] = "none" THEN reason ELSE need[c]]

\* The read loop of c is free to handle a message: the chunks it batched are
\* written before any message other than another chunk.
CanRead(c) == Unlocked /\ status[c] = "open" /\ writing[c] = {}

\* Mutant: chunks that were not asked for are accepted.
CanReceiveUnasked(c, r) == Unlocked /\ status[c] = "open"

\* A chunk may only arrive if it was asked for. Chunks are batched, so writes of
\* c may be outstanding.
CanReceive(c, r) ==
  Unlocked /\ status[c] = "open" /\ validReceiveChunks[c][r] > 0

\* Mutant: the torrent still takes the cancelled requests for outstanding.
cancelLocally(R) ==
  /\ requests' = [c \in Conns |-> requests[c] \ R]
  /\ UNCHANGED <<cancelled, requestState>>

\* Torrent.cancelRequest for every request in R. A connection that is due an
\* acknowledgement remembers it; one left with nothing is due an update.
cancelRequests(R) ==
  /\ requests' = [c \in Conns |-> requests[c] \ R]
  /\ cancelled' = [c \in Conns |->
       IF c \in CancelAckConns THEN cancelled[c] \cup (requests[c] \cap R)
       ELSE cancelled[c]]
  /\ requestState' =
       [r \in Requests |-> IF r \in R THEN NoConn ELSE requestState[r]]

LowAfterCancel(R) ==
  {c \in Conns \ CancelAckConns :
     requests[c] \cap R # {} /\ requests[c] \subseteq R /\ cancelled[c] = {}}

\* Mutant: only the connection itself hears that its requests are free.
deleteAllQuietly(c, peers) ==
  /\ requests' = [requests EXCEPT ![c] = {}]
  /\ requestState' = [r \in Requests |->
       IF r \in requests[c] THEN NoConn ELSE requestState[r]]
  /\ needRequestUpdate' =
       onNeedUpdateRequests(needRequestUpdate, peers \cap {c}, "other")

\* Mutant: the torrent is not told that the requests are gone.
deleteAllLocally(c, peers) ==
  /\ requests' = [requests EXCEPT ![c] = {}]
  /\ UNCHANGED <<requestState, needRequestUpdate>>

\* deleteAllRequests of c, and the updates of those left low on requests.
deleteAllRequests(c, peers) ==
  /\ requests' = [requests EXCEPT ![c] = {}]
  /\ requestState' = [r \in Requests |->
       IF r \in requests[c] THEN NoConn ELSE requestState[r]]
  /\ needRequestUpdate' = onNeedUpdateRequests(needRequestUpdate,
       {d \in peers : requests[c] # {} /\ cancelled[d] = {}
                      /\ (d = c \/ requests[d] = {})},
       "other")

\* maybeDropMutuallyCompletePeer: once everything is complete, connections to
\* complete peers that are of no other use are dropped, if so configured. Their
\* use (uploading to them) is left open.
MayDropComplete(complete, has) ==
  IF DropMutuallyCompletePeers /\ complete = Pieces
  THEN SUBSET {c \in Conns : status[c] \in {"open", "closed"}
                             /\ has[c] = Pieces}
  ELSE {{}}

Drop(D) == [c \in Conns |-> IF c \in D THEN "gone" ELSE status[c]]
-----------------------------------------------------------------------------
Init ==
  /\ status = [c \in Conns |-> "new"]
  /\ peerPieces = [c \in Conns |-> {}]
  /\ peerChoking = [c \in Conns |-> TRUE]
  /\ peerAllowedFast = [c \in Conns |-> {}]
  /\ interested = [c \in Conns |-> FALSE]
  /\ requests = [c \in Conns |-> {}]
  /\ cancelled = [c \in Conns |-> {}]
  /\ validReceiveChunks = [c \in Conns |-> [r \in Requests |-> 0]]
  /\ needRequestUpdate = [c \in Conns |-> "none"]
  /\ writing = [c \in Conns |-> {}]
  /\ requestState = [r \in Requests |-> NoConn]
  /\ after = {}
  /\ dirtyChunks = {} /\ completed = {} /\ queued = {} /\ hashing = {}
  /\ pendingPieces = Pieces
  /\ dataDownloadDisallowed = FALSE
  /\ updating = NoConn /\ candidates = {} /\ nominalMax = 1

addPeerConn(c) ==
  /\ Unlocked /\ status[c] = "new"
  /\ status' = [status EXCEPT ![c] = "open"]
  /\ UNCHANGED <<peerPieces, peerChoking, peerAllowedFast, interested,
                 requestVars, needRequestUpdate, writing, after, pieceVars,
                 updateVars>>

\* Peer.close, from anywhere: the connection keeps its requests for now.
close(c) ==
  /\ Unlocked /\ status[c] = "open" /\ c \in LeavingConns
  /\ status' = [status EXCEPT ![c] = "closed"]
  /\ UNCHANGED <<peerPieces, peerChoking, peerAllowedFast, interested,
                 requestVars, needRequestUpdate, writing, after, pieceVars,
                 updateVars>>

\* Torrent.dropConnection: at the end of the read loop, whether it ends by a
\* read error or an invalid message, and when the torrent prefers, bans or
\* finds a better connection.
dropConnection(c) ==
  /\ Unlocked /\ c \in InConns \cap LeavingConns
  /\ status' = [status EXCEPT ![c] = "gone"]
  /\ deleteAllRequests(c, InConns \ {c})
  /\ UNCHANGED <<peerPieces, peerChoking, peerAllowedFast, interested,
                 cancelled, validReceiveChunks, writing, after, pieceVars,
                 updateVars>>
-----------------------------------------------------------------------------
(* Messages handled by mainReadLoop.                                        *)

\* A choke from a peer without the fast extension discards our requests to it;
\* the chunks it had already been asked for may still arrive.
Choke(c) ==
  /\ CanRead(c) /\ ~peerChoking[c]
  /\ peerChoking' = [peerChoking EXCEPT ![c] = TRUE]
  /\ IF c \in FastConns
     THEN UNCHANGED <<requests, requestState, needRequestUpdate>>
     ELSE deleteAllRequests(c, InConns)
  /\ UNCHANGED <<status, peerPieces, peerAllowedFast, interested, cancelled,
                 validReceiveChunks, writing, after, pieceVars, updateVars>>

Unchoke(c) ==
  /\ CanRead(c) /\ peerChoking[c]
  /\ peerChoking' = [peerChoking EXCEPT ![c] = FALSE]
  /\ needRequestUpdate' = onNeedUpdateRequests(needRequestUpdate,
       IF pendingPieces = {} THEN {} ELSE {c}, "other")
  /\ UNCHANGED <<status, peerPieces, peerAllowedFast, interested, requestVars,
                 writing, after, pieceVars, updateVars>>

peerSentHave(c, i) ==
  /\ CanRead(c) /\ i \notin peerPieces[c]
  /\ peerPieces' = [peerPieces EXCEPT ![c] = @ \cup {i}]
  /\ needRequestUpdate' = onNeedUpdateRequests(needRequestUpdate,
       IF i \in pendingPieces THEN {c} ELSE {}, "other")
  /\ \E D \in MayDropComplete(completed, peerPieces') :
       D \subseteq {c} /\ status' = Drop(D)
  /\ UNCHANGED <<peerChoking, peerAllowedFast, interested, requestVars,
                 writing, after, pieceVars, updateVars>>

\* A Bitfield, HaveAll or HaveNone message: the peer has the pieces P. Requests
\* for others stay. Of a peer known to have all pieces it is not recorded which.
peerSentBitfield(c, P) ==
  /\ CanRead(c) /\ c \in BitfieldConns
  /\ peerPieces' = [peerPieces EXCEPT ![c] = P]
  /\ \E had \in {peerPieces[c]} \cup (IF peerPieces[c] = Pieces THEN {{}} ELSE {}) :
       needRequestUpdate' = onNeedUpdateRequests(needRequestUpdate,
         IF (IF P = Pieces THEN pendingPieces ELSE pendingPieces \cap (P \ had)) # {}
         THEN {c} ELSE {}, "other")
  /\ \E D \in MayDropComplete(completed, peerPieces') :
       D \subseteq {c} /\ status' = Drop(D)
  /\ UNCHANGED <<peerChoking, peerAllowedFast, interested, requestVars,
                 writing, after, pieceVars, updateVars>>

AllowedFast(c, i) ==
  /\ CanRead(c) /\ c \in FastConns
  /\ i \in AllowedFastPieces \ peerAllowedFast[c]
  /\ peerAllowedFast' = [peerAllowedFast EXCEPT ![c] = @ \cup {i}]
  /\ needRequestUpdate' = onNeedUpdateRequests(needRequestUpdate, {c}, "other")
  /\ UNCHANGED <<status, peerPieces, peerChoking, interested, requestVars,
                 writing, after, pieceVars, updateVars>>

Suggest(c) ==
  /\ CanRead(c) /\ c \in FastConns
  /\ needRequestUpdate' = onNeedUpdateRequests(needRequestUpdate, {c}, "other")
  /\ UNCHANGED <<connVars, requestVars, writing, after, pieceVars, updateVars>>

\* remoteRejectedRequest: the peer refuses a request, or acknowledges a cancel.
Reject(c, r) ==
  /\ CanRead(c)
  /\ r \in cancelled[c] \/ (c \in RejectingConns /\ r \in requests[c])
  /\ requests' = [requests EXCEPT ![c] = @ \ {r}]
  /\ IF r \in requests[c]
     THEN /\ requestState' = [requestState EXCEPT ![r] = NoConn]
          /\ UNCHANGED cancelled
     ELSE /\ cancelled' = [cancelled EXCEPT ![c] = @ \ {r}]
          /\ UNCHANGED requestState
  /\ needRequestUpdate' = onNeedUpdateRequests(needRequestUpdate,
       IF requests'[c] = {} /\ cancelled'[c] = {} THEN {c} ELSE {}, "reject")
  /\ decExpectedChunkReceive(c, r)
  /\ UNCHANGED <<connVars, writing, after, pieceVars, updateVars>>

\* receiveChunkPrologue for a chunk we already have.
ReceiveRedundantChunk(c, r) ==
  /\ CanReceive(c, r) /\ haveChunk(r)
  /\ decExpectedChunkReceive(c, r)
  /\ requests' = [requests EXCEPT ![c] = @ \ {r}]
  /\ requestState' = IF r \in requests[c]
       THEN [requestState EXCEPT ![r] = NoConn] ELSE requestState
  /\ cancelled' = IF r \in requests[c] THEN cancelled
       ELSE [cancelled EXCEPT ![c] = @ \ {r}]
  /\ needRequestUpdate' = onNeedUpdateRequests(needRequestUpdate,
       IF r \in requests[c] \cup cancelled[c]
          /\ requests'[c] = {} /\ cancelled'[c] = {} THEN {c} ELSE {}, "other")
  /\ UNCHANGED <<connVars, writing, after, pieceVars, updateVars>>

\* receiveChunkPrologue for a chunk we want: it becomes dirty before it is
\* written, and whichever other connection was asked for it is told to cancel.
ReceiveChunk(c, r) ==
  /\ CanReceive(c, r) /\ ~haveChunk(r) /\ r \notin writing[c]
  /\ decExpectedChunkReceive(c, r)
  /\ requests' = [d \in Conns |-> requests[d] \ {r}]
  /\ requestState' = [requestState EXCEPT ![r] = NoConn]
  /\ cancelled' = [d \in Conns |->
       IF d = c
       THEN IF r \in requests[c] THEN cancelled[c] ELSE cancelled[c] \ {r}
       ELSE IF d \in CancelAckConns
            THEN cancelled[d] \cup (requests[d] \cap {r}) ELSE cancelled[d]]
  /\ needRequestUpdate' = onNeedUpdateRequests(
       onNeedUpdateRequests(needRequestUpdate,
         IF r \in requests[c] \cup cancelled[c]
            /\ requests'[c] = {} /\ cancelled'[c] = {} THEN {c} ELSE {}, "other"),
       LowAfterCancel({r}) \ {c}, "cancel")
  /\ dirtyChunks' = dirtyChunks \cup {r}
  /\ writing' = [writing EXCEPT ![c] = @ \cup {r}]
  /\ after' = {p \in after : p[2] # c} \cup ({c} \X (Conns \ {c}))
  /\ UNCHANGED <<connVars, completed, queued, hashing, pendingPieces,
                 dataDownloadDisallowed, updateVars>>

\* Mutant: the chunks of the batch itself still count as being written.
writtenBefore(c, failed) ==
  {i \in Pieces : /\ \E r \in writing[c] \ failed : PieceOf[r] = i
                  /\ ChunksOf(i) \subseteq dirtyChunks \ failed
                  /\ \A d \in Conns : writing[d] \cap ChunksOf(i) = {}}

\* receiveChunkEpilogue: the pieces of which the batch of c, but for its failed
\* writes, wrote the last chunk.
writtenPieces(c, failed) ==
  {i \in Pieces : /\ \E r \in writing[c] \ failed : PieceOf[r] = i
                  /\ ChunksOf(i) \subseteq dirtyChunks \ failed
                  /\ \A d \in Conns \ {c} : writing[d] \cap ChunksOf(i) = {}}

\* flushChunkWrites: the batch was written with the lock released, and every
\* chunk's receiveChunkEpilogue runs. The last writer of a piece queues its
\* check. A failed write makes the chunk wanted again, and unless the user
\* handles write errors it stops all downloading.
flushChunkWrites(c, failed) ==
  /\ Unlocked /\ writing[c] # {} /\ failed \subseteq writing[c]
  /\ writing' = [writing EXCEPT ![c] = {}]
  /\ dirtyChunks' = dirtyChunks \ failed
  /\ queued' = queued \cup writtenPieces(c, failed)
  /\ pendingPieces' = pendingPieces \ writtenPieces(c, failed)
  /\ IF failed # {} /\ ~UserOnWriteChunkErr
     THEN /\ dataDownloadDisallowed' = TRUE
          /\ cancelRequests(Requests)
          /\ needRequestUpdate' = onNeedUpdateRequests(needRequestUpdate,
               InConns \cup {c}, "other")
     ELSE /\ needRequestUpdate' = onNeedUpdateRequests(needRequestUpdate,
               IF failed = {} THEN {} ELSE {c}, "other")
          /\ UNCHANGED <<dataDownloadDisallowed, requests, cancelled,
                         requestState>>
  /\ UNCHANGED <<connVars, validReceiveChunks, after, completed, hashing,
                 updateVars>>
-----------------------------------------------------------------------------
(* Piece checks, and the switch that stops downloading.                     *)

queuePieceCheck(i) ==
  /\ Unlocked /\ "verify" \in UserCalls /\ i \notin queued
  /\ queued' = queued \cup {i}
  /\ pendingPieces' = pendingPieces \ {i}
  /\ UNCHANGED <<connVars, requestVars, needRequestUpdate, writing, after,
                 dirtyChunks, completed, hashing, dataDownloadDisallowed,
                 updateVars>>

startHash(i) ==
  /\ Unlocked /\ i \in queued \ hashing
  /\ queued' = queued \ {i}
  /\ hashing' = hashing \cup {i}
  /\ pendingPieces' = pendingPieces \ {i}
  /\ UNCHANGED <<connVars, requestVars, needRequestUpdate, writing, after,
                 dirtyChunks, completed, dataDownloadDisallowed, updateVars>>

\* The requests outstanding for a newly complete piece are cancelled.
onPieceCompleted(i) ==
  /\ cancelRequests(ChunksOf(i))
  /\ needRequestUpdate' = onNeedUpdateRequests(needRequestUpdate,
       LowAfterCancel(ChunksOf(i)), "cancel")
  /\ \E D \in MayDropComplete(completed', peerPieces) : status' = Drop(D)

\* finishHash of a piece that passed.
PieceHashedPassed(i) ==
  /\ Unlocked /\ i \in hashing
  /\ hashing' = hashing \ {i}
  /\ completed' = completed \cup {i}
  /\ dirtyChunks' = dirtyChunks \ ChunksOf(i)
  /\ pendingPieces' = pendingPieces \ {i}
  /\ IF i \in completed
     THEN UNCHANGED <<requests, cancelled, requestState, needRequestUpdate,
                      status>>
     ELSE onPieceCompleted(i)
  /\ UNCHANGED <<peerPieces, peerChoking, peerAllowedFast, interested,
                 validReceiveChunks, writing, after, queued,
                 dataDownloadDisallowed, updateVars>>

\* updatePeerRequestsForPiece: who hears that piece i is wanted.
PeersForPiece(i) ==
  {c \in InConns : /\ isLowOnRequests(c)
                   /\ i \in peerPieces[c]
                   /\ ~(interested[c] /\ peerChoking[c]
                        /\ i \notin peerAllowedFast[c])}

\* finishHash of a piece that failed: its chunks are wanted again if all were
\* dirty, and the piece is pending again unless another check is queued.
PieceHashedFailed(i) ==
  /\ Unlocked /\ i \in hashing
  /\ hashing' = hashing \ {i}
  /\ completed' = completed \ {i}
  /\ dirtyChunks' = IF ChunksOf(i) \subseteq dirtyChunks
                    THEN dirtyChunks \ ChunksOf(i) ELSE dirtyChunks
  /\ LET wanted == i \notin queued /\ ~dataDownloadDisallowed
     IN /\ pendingPieces' = IF wanted THEN pendingPieces \cup {i}
                            ELSE pendingPieces \ {i}
        /\ needRequestUpdate' = onNeedUpdateRequests(needRequestUpdate,
             IF wanted /\ i \notin pendingPieces THEN PeersForPiece(i) ELSE {},
             "other")
  /\ UNCHANGED <<connVars, requestVars, writing, after, queued,
                 dataDownloadDisallowed, updateVars>>

\* updatePieceCompletion finds that storage has the piece after all, or has lost
\* it (Piece.UpdateCompletion, a failed read, setV2Hash).
PieceFound(i) ==
  /\ Unlocked /\ "update" \in UserCalls /\ i \notin completed
  /\ completed' = completed \cup {i}
  /\ dirtyChunks' = dirtyChunks \ ChunksOf(i)
  /\ pendingPieces' = pendingPieces \ {i}
  /\ onPieceCompleted(i)
  /\ UNCHANGED <<peerPieces, peerChoking, peerAllowedFast, interested,
                 validReceiveChunks, writing, after, queued, hashing,
                 dataDownloadDisallowed, updateVars>>

PieceLost(i) ==
  /\ Unlocked /\ "update" \in UserCalls /\ i \in completed
  /\ completed' = completed \ {i}
  /\ dirtyChunks' = IF ChunksOf(i) \subseteq dirtyChunks
                    THEN dirtyChunks \ ChunksOf(i) ELSE dirtyChunks
  /\ LET wanted == i \notin queued \cup hashing /\ ~dataDownloadDisallowed
     IN /\ pendingPieces' = IF wanted THEN pendingPieces \cup {i}
                            ELSE pendingPieces \ {i}
        /\ needRequestUpdate' = onNeedUpdateRequests(needRequestUpdate,
             IF wanted THEN {c \in InConns : i \in peerPieces[c]} ELSE {}, "other")
  /\ UNCHANGED <<connVars, requestVars, writing, after, queued, hashing,
                 dataDownloadDisallowed, updateVars>>

DisallowDataDownload ==
  /\ Unlocked /\ "disallow" \in UserCalls /\ ~dataDownloadDisallowed
  /\ dataDownloadDisallowed' = TRUE
  /\ cancelRequests(Requests)
  /\ needRequestUpdate' =
       onNeedUpdateRequests(needRequestUpdate, InConns, "other")
  /\ UNCHANGED <<connVars, validReceiveChunks, writing, after, dirtyChunks,
                 completed, queued, hashing, pendingPieces, updateVars>>

AllowDataDownload ==
  /\ Unlocked /\ "allow" \in UserCalls /\ dataDownloadDisallowed
  /\ dataDownloadDisallowed' = FALSE
  /\ pendingPieces' = Pieces \ (completed \cup queued \cup hashing)
  /\ needRequestUpdate' =
       onNeedUpdateRequests(needRequestUpdate, InConns, "other")
  /\ UNCHANGED <<connVars, requestVars, writing, after, dirtyChunks, completed,
                 queued, hashing, updateVars>>
-----------------------------------------------------------------------------
(* The message writer updates a connection's requests: updateRequests.      *)

\* Mutants: chunks we hold, or that the peer does not have, are not left out.
UndirtiedHeld(c) == {r \in Requests : /\ ~ignoreForRequests(PieceOf[r])
                                      /\ PieceOf[r] \in peerPieces[c]}
UndirtiedAnywhere(c) ==
  {r \in Requests : ~ignoreForRequests(PieceOf[r]) /\ r \notin dirtyChunks}

\* The chunks of requestable pieces the peer could send us.
Undirtied(c) == {r \in Requests : /\ ~ignoreForRequests(PieceOf[r])
                                  /\ PieceOf[r] \in peerPieces[c]
                                  /\ r \notin dirtyChunks}

\* Mutants: cancels that await an acknowledgement, or the choke, are overlooked.
DesiredCancelled(c) == {r \in Undirtied(c) : PieceOf[r] \in peerAllowedFast[c]
                                             \/ ~peerChoking[c]}
DesiredChoked(c) == Undirtied(c) \ cancelled[c]

\* getDesiredRequestState: those that can be requested now, or already are.
DesiredRequests(c) ==
  {r \in Undirtied(c) : /\ \/ PieceOf[r] \in peerAllowedFast[c]
                           \/ ~peerChoking[c]
                           \/ r \in requests[c]
                        /\ r \notin cancelled[c]}

allowSendNotInterested(c) ==
  \/ completed = Pieces
  \/ peerPieces[c] # Pieces /\ peerPieces[c] \subseteq completed

beginUpdateRequests(c) ==
  /\ Unlocked /\ status[c] = "open" /\ needRequestUpdate[c] # "none"
  /\ updating' = c
  /\ candidates' = DesiredRequests(c)
  /\ nominalMax' \in 1..MaxRequests
  /\ interested' = [interested EXCEPT ![c] =
       \/ \E r \in Undirtied(c) : PieceOf[r] \notin peerAllowedFast[c]
       \/ @ /\ ~allowSendNotInterested(c)]
  /\ UNCHANGED <<status, peerPieces, peerChoking, peerAllowedFast, requestVars,
                 needRequestUpdate, writing, after, pieceVars>>

Pop(c, r) ==
  /\ updating = c /\ r \in candidates
  /\ Cardinality(requests[c]) + Cardinality(cancelled[c]) < nominalMax
  /\ candidates' = candidates \ {r}
  /\ UNCHANGED <<connVars, writing, after, pieceVars, updating, nominalMax>>

\* Mutant: the request about to be added is not counted.
MayStealUncounted(c, d) ==
  /\ needRequestUpdate[c] # "cancel"
  /\ Cardinality(requests[c]) - (Cardinality(requests[d]) - 1) <= 1

\* The stealer may not end up more than one request ahead, and then only if it
\* received a useful chunk more recently.
MaySteal(c, d) ==
  LET diff == Cardinality(requests[c]) + 1 - (Cardinality(requests[d]) - 1)
  IN /\ needRequestUpdate[c] # "cancel"
     /\ diff < 1 \/ (diff = 1 /\ <<c, d>> \in after)

\* The loop goes on to the next candidate.
skipRequest(c, r) ==
  /\ Pop(c, r)
  /\ \/ needRequestUpdate[c] = "reject"
     \/ requestState[r] = c
     \/ /\ requestState[r] \notin {c, NoConn}
        /\ ~MaySteal(c, requestState[r]) \/ StealRequestGrace
  /\ UNCHANGED <<requestVars, needRequestUpdate>>

\* PeerConn.request of a chunk nobody was asked for.
request(c, r) ==
  /\ Pop(c, r)
  /\ needRequestUpdate[c] # "reject" /\ requestState[r] = NoConn
  /\ requests' = [requests EXCEPT ![c] = @ \cup {r}]
  /\ ExpectChunk(c, r)
  /\ requestState' = [requestState EXCEPT ![r] = c]
  /\ UNCHANGED <<cancelled, needRequestUpdate>>

\* The same, after cancelling the request of the connection d that held it.
stealRequest(c, r) ==
  LET d == requestState[r]
  IN /\ Pop(c, r)
     /\ needRequestUpdate[c] # "reject" /\ d \notin {c, NoConn}
     /\ MaySteal(c, d)
     /\ requests' = [requests EXCEPT ![c] = @ \cup {r}, ![d] = @ \ {r}]
     /\ cancelled' = IF d \in CancelAckConns
          THEN [cancelled EXCEPT ![d] = @ \cup {r}] ELSE cancelled
     /\ needRequestUpdate' = onNeedUpdateRequests(needRequestUpdate,
          LowAfterCancel({r}), "cancel")
     /\ ExpectChunk(c, r)
     /\ requestState' = [requestState EXCEPT ![r] = c]

endUpdateRequests(c) ==
  /\ updating = c
  /\ \/ candidates = {}
     \/ Cardinality(requests[c]) + Cardinality(cancelled[c]) >= nominalMax
  /\ needRequestUpdate' = [needRequestUpdate EXCEPT ![c] = "none"]
  /\ updating' = NoConn
  /\ candidates' = {}
  /\ nominalMax' = 1
  /\ UNCHANGED <<connVars, requestVars, writing, after, pieceVars>>
-----------------------------------------------------------------------------
ConnNext(c) ==
  \/ addPeerConn(c) \/ close(c) \/ dropConnection(c)
  \/ Choke(c) \/ Unchoke(c) \/ Suggest(c)
  \/ beginUpdateRequests(c) \/ endUpdateRequests(c)
  \/ \E i \in Pieces : peerSentHave(c, i) \/ AllowedFast(c, i)
  \/ \E P \in SUBSET Pieces : peerSentBitfield(c, P)
  \/ \E r \in Requests :
       \/ Reject(c, r) \/ ReceiveRedundantChunk(c, r) \/ ReceiveChunk(c, r)
       \/ skipRequest(c, r) \/ request(c, r) \/ stealRequest(c, r)
  \/ \E failed \in SUBSET Requests : flushChunkWrites(c, failed)

PieceNext(i) ==
  \/ queuePieceCheck(i) \/ startHash(i)
  \/ PieceHashedPassed(i) \/ PieceHashedFailed(i)
  \/ PieceFound(i) \/ PieceLost(i)

Next ==
  \/ \E c \in Conns : ConnNext(c)
  \/ \E i \in Pieces : PieceNext(i)
  \/ DisallowDataDownload \/ AllowDataDownload

Spec == Init /\ [][Next]_vars

\* The steps of one connection's writer: handleOnNeedUpdateRequests wakes it, and
\* it updates the requests whenever there is room in its write buffer.
UpdateStep(c) ==
  \/ beginUpdateRequests(c) \/ endUpdateRequests(c)
  \/ \E r \in Requests : skipRequest(c, r) \/ request(c, r) \/ stealRequest(c, r)

\* A woken writer runs, and storage writes end. Both wait for the client lock,
\* which others take in between, so fairness is strong: Go's mutexes hand the
\* lock to a goroutine that has waited for long.
FairSpec ==
  /\ Spec
  /\ \A c \in Conns : SF_vars(UpdateStep(c))
  /\ \A c \in Conns :
       SF_vars(\E failed \in SUBSET Requests : flushChunkWrites(c, failed))
-----------------------------------------------------------------------------
(* Safety.                                                                  *)

\* Torrent.requestState and the connections' own request sets agree: a chunk
\* is asked of at most one connection at a time, and that connection knows.
\* deleteRequest, cancelRequest and deletePeerConn panic otherwise.
RequestOwnership ==
  \A c \in Conns, r \in Requests : r \in requests[c] <=> requestState[r] = c

\* Every request that was sent and not answered, cancelled or not, still counts
\* among the chunks the connection may receive, so decExpectedChunkReceive has
\* something to decrement and a late chunk is not taken for an unexpected one;
\* and no request is both outstanding and awaiting the acknowledgement of a
\* cancel ("request already cancelled").
ExpectedChunks ==
  \A c \in Conns, r \in Requests :
    /\ ~(r \in requests[c] /\ r \in cancelled[c])
    /\ r \in requests[c] \cup cancelled[c] => validReceiveChunks[c][r] > 0

\* A chunk we hold (received and not given up since, by a failed write or check)
\* or whose piece is complete is not being asked of anyone: receiving it or
\* completing its piece by any route cancels the request wherever it had moved.
NoRequestForHeldChunk ==
  \A r \in Requests : haveChunk(r) => requestState[r] = NoConn

\* Requests are only outstanding on connections that can answer them: not on
\* one removed from the torrent, nor on one that choked us and, lacking the
\* fast extension, has forgotten them, nor on any once downloading is stopped.
NoForgottenRequest ==
  \A c \in Conns :
    \/ status[c] \notin {"open", "closed"}
    \/ c \notin FastConns /\ peerChoking[c]
    \/ dataDownloadDisallowed
    => requests[c] = {}

\* A piece whose last chunk has arrived gets checked: once all its chunks are
\* dirty and none is being written any more, it is queued for hash or being
\* hashed, in whatever batches, of however many connections, its chunks were
\* written, and whichever writes of those batches failed. Nothing else would
\* queue it, and nobody is asked for its chunks again.
ReceivedPieceChecked ==
  \A i \in Pieces :
    /\ ChunksOf(i) # {} /\ ChunksOf(i) \subseteq dirtyChunks
    /\ \A c \in Conns : writing[c] \cap ChunksOf(i) = {}
    => i \in queued \cup hashing

\* What a request update in progress has yet to ask for still passes the checks
\* of shouldRequest, whatever it asked for or stole before: the connection is
\* open, the piece is not complete, queued, being hashed or marked, the chunk
\* is missing, no cancel of it awaits an acknowledgement, and the peer does not
\* choke us unless the piece is allowed fast or the request is already made.
ShouldRequest ==
  updating # NoConn =>
    /\ status[updating] = "open"
    /\ \A r \in candidates :
         /\ PieceOf[r] \in peerPieces[updating]
         /\ ~ignoreForRequests(PieceOf[r]) /\ ~haveChunk(r)
         /\ r \notin cancelled[updating]
         /\ \/ PieceOf[r] \in peerAllowedFast[updating]
            \/ ~peerChoking[updating]
            \/ r \in requests[updating]

\* Without the fast extension no piece is allowed fast.
AllowedFastIsFast == \A c \in Conns \ FastConns : peerAllowedFast[c] = {}

\* The inductive invariant behind the safety properties above.
Inv ==
  /\ RequestOwnership /\ ExpectedChunks
  /\ NoRequestForHeldChunk /\ NoForgottenRequest
  /\ ShouldRequest /\ AllowedFastIsFast

\* An idle connection that could be asked for a chunk nobody was asked for has
\* a request update due (or running): no event frees a chunk, or makes one
\* requestable, without the connections that could take it being told.
NoLostWakeup ==
  \A c \in Conns :
    /\ status[c] = "open" /\ isLowOnRequests(c)
    /\ \E r \in DesiredRequests(c) : requestState[r] = NoConn
    => needRequestUpdate[c] # "none"
-----------------------------------------------------------------------------
(* Action properties.                                                       *)

\* Once a chunk of a piece being checked is no longer outstanding it is not
\* asked for again until the check is over: nothing is requested of a piece that
\* is queued for hash, being hashed or complete (the panics of shouldRequest).
NoRequestDuringCheck ==
  [][\A r \in Requests :
       requestState[r] = NoConn /\ requestState'[r] # NoConn =>
         PieceOf[r] \notin completed \cup queued \cup hashing]_vars
-----------------------------------------------------------------------------
(* Liveness.                                                                *)

\* Request r goes from one connection to another.
stolen(r) == /\ requestState[r] \in Conns /\ requestState'[r] \in Conns
             /\ requestState'[r] # requestState[r]

\* A request ends, or a connection receives a useful chunk.
Disturbed == \/ \E r \in Requests : requestState[r] # NoConn /\ requestState'[r] = NoConn
             \/ after' # after

\* Requests do not go around in circles ("Don't steal from the poor"): however
\* often and for whatever reason the connections update their requests, and
\* take up chunks that are free, they stop stealing from each other, unless time
\* and again a request ends or another connection turns out the more useful.
NoStealCircles ==
  <>[][~\E r \in Requests : stolen(r)]_vars \/ []<><<Disturbed>>_vars

\* A chunk that nobody was asked for, and that an open, idle connection could
\* be asked for, does not stay so: applyRequestState withholds requests after a
\* reject on the ground that the peer will send an unchoke when it can handle
\* more, "which will cause it to get added back to the request queue".
IdleConnAskedAgain ==
  \A c \in Conns, r \in Requests :
    LET idle == /\ status[c] = "open" /\ isLowOnRequests(c)
                /\ r \in DesiredRequests(c) /\ requestState[r] = NoConn
    IN idle ~> ~idle
=============================================================================
