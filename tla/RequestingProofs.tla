-------------------------- MODULE RequestingProofs --------------------------
(***************************************************************************)
(* Proofs about Requesting, for any number of connections, pieces and      *)
(* chunks.                                                                 *)
(***************************************************************************)
EXTENDS Requesting, TLAPS

\* onNeedUpdateRequests only ever records a reason.
LEMMA NeedType ==
  ASSUME NEW need \in [Conns -> Reasons], NEW S, NEW reason \in Reasons
  PROVE  onNeedUpdateRequests(need, S, reason) \in [Conns -> Reasons]
BY DEF onNeedUpdateRequests

\* What cancelRequests assigns has the types of what it replaces, and leaves no
\* connection with requests it did not have.
LEMMA CancelType ==
  ASSUME TypeOK, NEW R, cancelRequests(R)
  PROVE  /\ requests' \in [Conns -> SUBSET Requests]
         /\ cancelled' \in [Conns -> SUBSET Requests]
         /\ requestState' \in [Requests -> Conns \cup {NoConn}]
         /\ \A c \in Conns : requests'[c] \subseteq requests[c]
<1>1. requests' \in [Conns -> SUBSET Requests]
  BY DEF cancelRequests, TypeOK
<1>2. cancelled' \in [Conns -> SUBSET Requests]
  BY DEF cancelRequests, TypeOK
<1>3. requestState' \in [Requests -> Conns \cup {NoConn}]
  BY DEF cancelRequests, TypeOK
<1>4. \A c \in Conns : requests'[c] \subseteq requests[c]
  BY DEF cancelRequests, TypeOK
<1> QED
  BY <1>1, <1>2, <1>3, <1>4

\* One chunk less to receive, of c only; what is decremented is positive.
LEMMA DecChunks ==
  ASSUME TypeOK, NEW c \in Conns, NEW r \in Requests, decExpectedChunkReceive(c, r)
  PROVE  /\ \A d \in Conns, q \in Requests : ~(d = c /\ q = r) =>
              validReceiveChunks'[d][q] = validReceiveChunks[d][q]
         /\ validReceiveChunks[c][r] > 0 =>
              validReceiveChunks' \in [Conns -> [Requests -> Nat]]
<1>1. validReceiveChunks \in [Conns -> [Requests -> Nat]]
  BY DEF TypeOK
<1>2. PICK n \in decExpected(validReceiveChunks[c][r]) :
        validReceiveChunks' = [validReceiveChunks EXCEPT ![c][r] = n]
  BY DEF decExpectedChunkReceive
<1>3. validReceiveChunks[c][r] > 0 => n \in Nat
  BY <1>1, BoundsAssumption DEF decExpected
<1> HIDE DEF decExpected
<1> QED
  BY <1>1, <1>2, <1>3

\* One chunk more to receive, so that there is one.
LEMMA IncChunks ==
  ASSUME TypeOK, NEW c \in Conns, NEW r \in Requests, ExpectChunk(c, r)
  PROVE  /\ \A d \in Conns, q \in Requests : ~(d = c /\ q = r) =>
              validReceiveChunks'[d][q] = validReceiveChunks[d][q]
         /\ validReceiveChunks'[c][r] > 0
         /\ validReceiveChunks' \in [Conns -> [Requests -> Nat]]
<1>1. validReceiveChunks \in [Conns -> [Requests -> Nat]]
  BY DEF TypeOK
<1> DEFINE n == incExpected(validReceiveChunks[c][r])
<1>2. n \in Nat /\ n > 0
  BY <1>1, BoundsAssumption DEF incExpected
<1>3. validReceiveChunks' = [validReceiveChunks EXCEPT ![c][r] = n]
  BY DEF ExpectChunk
<1> HIDE DEF n
<1> QED
  BY <1>1, <1>2, <1>3

\* Initially every variable has its type.
LEMMA InitType == Init => TypeOK
<1> SUFFICES ASSUME Init PROVE TypeOK
  OBVIOUS
<1>1. nominalMax \in 1..MaxRequests
  BY BoundsAssumption DEF Init
<1>2. validReceiveChunks \in [Conns -> [Requests -> Nat]]
  BY DEF Init
<1>3. status \in [Conns -> {"new", "open", "closed", "gone"}]
      /\ needRequestUpdate \in [Conns -> Reasons]
  BY DEF Init, Reasons
<1> QED
  BY <1>1, <1>2, <1>3, Zenon DEF Init, TypeOK

\* The type invariant is inductive, given that what is decremented is positive.
LEMMA NextType == TypeOK /\ ExpectedChunks /\ [Next]_vars => TypeOK'
<1> SUFFICES ASSUME TypeOK, ExpectedChunks, [Next]_vars PROVE TypeOK'
  OBVIOUS
<1> USE ConnsAssumption, PieceOfAssumption, NeedType
<1>1. ASSUME NEW c \in Conns, addPeerConn(c) \/ close(c) PROVE TypeOK'
  BY <1>1 DEF addPeerConn, close, TypeOK, requestVars, pieceVars, updateVars
<1>2. ASSUME NEW c \in Conns, dropConnection(c) PROVE TypeOK'
  <2>1. needRequestUpdate' \in [Conns -> Reasons]
    BY <1>2 DEF dropConnection, TypeOK, deleteAllRequests, onNeedUpdateRequests, Reasons
  <2>2. requests' \in [Conns -> SUBSET Requests]
    BY <1>2 DEF dropConnection, TypeOK, deleteAllRequests
  <2>3. requestState' \in [Requests -> Conns \cup {NoConn}]
    BY <1>2 DEF dropConnection, TypeOK, deleteAllRequests
  <2> QED
    BY <1>2, <2>1, <2>2, <2>3, Zenon DEF dropConnection, TypeOK, pieceVars, updateVars
<1>3. ASSUME NEW c \in Conns, Choke(c) PROVE TypeOK'
  <2>1. needRequestUpdate' \in [Conns -> Reasons]
    <3>1. CASE c \in FastConns
      BY <1>3, <3>1 DEF Choke, TypeOK
    <3>2. CASE c \notin FastConns
      <4> DEFINE S == {d \in InConns : requests[c] # {} /\ cancelled[d] = {}
                                       /\ (d = c \/ requests[d] = {})}
      <4>1. needRequestUpdate' = onNeedUpdateRequests(needRequestUpdate, S, "other")
        BY <1>3, <3>2 DEF Choke, deleteAllRequests
      <4> HIDE DEF S
      <4> QED
        BY <4>1 DEF TypeOK, Reasons
    <3> QED
      BY <3>1, <3>2
  <2>2. requests' \in [Conns -> SUBSET Requests]
    BY <1>3 DEF Choke, TypeOK, deleteAllRequests
  <2>3. requestState' \in [Requests -> Conns \cup {NoConn}]
    BY <1>3 DEF Choke, TypeOK, deleteAllRequests
  <2>4. peerChoking' \in [Conns -> BOOLEAN]
    BY <1>3 DEF Choke, TypeOK
  <2> QED
    BY <1>3, <2>1, <2>2, <2>3, <2>4 DEF Choke, TypeOK, pieceVars, updateVars
<1>4. ASSUME NEW c \in Conns, Unchoke(c) \/ Suggest(c) PROVE TypeOK'
  <2>1. needRequestUpdate' \in [Conns -> Reasons]
    BY <1>4 DEF Unchoke, Suggest, TypeOK, onNeedUpdateRequests, Reasons
  <2>2. CASE Unchoke(c)
    BY <2>1, <2>2, Zenon DEF Unchoke, TypeOK, requestVars, pieceVars, updateVars
  <2>3. CASE Suggest(c)
    BY <2>1, <2>3, Zenon DEF Suggest, TypeOK, connVars, requestVars, pieceVars, updateVars
  <2> QED
    BY <1>4, <2>2, <2>3
<1>5. ASSUME NEW c \in Conns, NEW i \in Pieces, peerSentHave(c, i) PROVE TypeOK'
  <2>1. needRequestUpdate' \in [Conns -> Reasons]
    BY <1>5 DEF peerSentHave, TypeOK, onNeedUpdateRequests, Reasons
  <2>2. status' \in [Conns -> {"new", "open", "closed", "gone"}]
    BY <1>5 DEF peerSentHave, TypeOK, Drop
  <2> QED
    BY <1>5, <2>1, <2>2, Zenon DEF peerSentHave, TypeOK, requestVars, pieceVars, updateVars
<1>5b. ASSUME NEW c \in Conns, NEW P \in SUBSET Pieces, peerSentBitfield(c, P)
       PROVE TypeOK'
  <2>1. needRequestUpdate' \in [Conns -> Reasons]
    BY <1>5b DEF peerSentBitfield, TypeOK, onNeedUpdateRequests, Reasons
  <2>2. status' \in [Conns -> {"new", "open", "closed", "gone"}]
    BY <1>5b DEF peerSentBitfield, TypeOK, Drop
  <2>3. peerPieces' \in [Conns -> SUBSET Pieces]
    BY <1>5b DEF peerSentBitfield, TypeOK
  <2> QED
    BY <1>5b, <2>1, <2>2, <2>3, Zenon
    DEF peerSentBitfield, TypeOK, requestVars, pieceVars, updateVars
<1>6. ASSUME NEW c \in Conns, NEW i \in Pieces, AllowedFast(c, i) PROVE TypeOK'
  BY <1>6 DEF AllowedFast, TypeOK, requestVars, pieceVars, updateVars, Reasons
<1>7. ASSUME NEW c \in Conns, NEW r \in Requests, Reject(c, r) PROVE TypeOK'
  <2>1. validReceiveChunks[c][r] > 0
    BY <1>7 DEF Reject, ExpectedChunks
  <2>2. validReceiveChunks' \in [Conns -> [Requests -> Nat]]
    BY <1>7, <2>1, DecChunks DEF Reject
  <2>3. needRequestUpdate' \in [Conns -> Reasons]
    BY <1>7 DEF Reject, TypeOK, onNeedUpdateRequests, Reasons
  <2>4. /\ requests' \in [Conns -> SUBSET Requests]
        /\ cancelled' \in [Conns -> SUBSET Requests]
        /\ requestState' \in [Requests -> Conns \cup {NoConn}]
    <3>1. /\ requests' = [requests EXCEPT ![c] = requests[c] \ {r}]
          /\ \/ cancelled' = cancelled
             \/ cancelled' = [cancelled EXCEPT ![c] = cancelled[c] \ {r}]
          /\ \/ requestState' = requestState
             \/ requestState' = [requestState EXCEPT ![r] = NoConn]
      BY <1>7 DEF Reject
    <3>2. requests' \in [Conns -> SUBSET Requests]
      BY <3>1 DEF TypeOK
    <3>3. cancelled' \in [Conns -> SUBSET Requests]
      <4>1. cancelled \in [Conns -> SUBSET Requests]
        BY DEF TypeOK
      <4>2. cancelled[c] \ {r} \in SUBSET Requests
        BY <4>1
      <4>3. [cancelled EXCEPT ![c] = cancelled[c] \ {r}] \in [Conns -> SUBSET Requests]
        BY <4>1, <4>2
      <4> QED
        BY <3>1, <4>1, <4>3
    <3>4. requestState' \in [Requests -> Conns \cup {NoConn}]
      BY <3>1, Zenon DEF TypeOK
    <3> QED
      BY <3>2, <3>3, <3>4
  <2> QED
    BY <1>7, <2>2, <2>3, <2>4, Zenon
    DEF Reject, TypeOK, connVars, pieceVars, updateVars
<1>8. ASSUME NEW c \in Conns, NEW r \in Requests, ReceiveRedundantChunk(c, r)
      PROVE TypeOK'
  <2>1. validReceiveChunks[c][r] > 0
    BY <1>8 DEF ReceiveRedundantChunk, CanReceive
  <2>2. validReceiveChunks' \in [Conns -> [Requests -> Nat]]
    BY <1>8, <2>1, DecChunks DEF ReceiveRedundantChunk
  <2> QED
    BY <1>8, <2>2 DEF ReceiveRedundantChunk, TypeOK, connVars, pieceVars, updateVars, Reasons
<1>9. ASSUME NEW c \in Conns, NEW r \in Requests, ReceiveChunk(c, r) PROVE TypeOK'
  <2>1. validReceiveChunks[c][r] > 0
    BY <1>9 DEF ReceiveChunk, CanReceive
  <2>2. validReceiveChunks' \in [Conns -> [Requests -> Nat]]
    BY <1>9, <2>1, DecChunks DEF ReceiveChunk
  <2>3. after' \subseteq Conns \X Conns
    BY <1>9 DEF ReceiveChunk, TypeOK
  <2>4. needRequestUpdate' \in [Conns -> Reasons]
    BY <1>9 DEF ReceiveChunk, TypeOK, onNeedUpdateRequests, Reasons
  <2>5. /\ requests' \in [Conns -> SUBSET Requests]
        /\ cancelled' \in [Conns -> SUBSET Requests]
        /\ requestState' \in [Requests -> Conns \cup {NoConn}]
    BY <1>9 DEF ReceiveChunk, TypeOK
  <2>6. writing' \in [Conns -> SUBSET Requests] /\ dirtyChunks' \subseteq Requests
    BY <1>9 DEF ReceiveChunk, TypeOK
  <2> QED
    BY <1>9, <2>2, <2>3, <2>4, <2>5, <2>6, Zenon
    DEF ReceiveChunk, TypeOK, connVars, updateVars
<1>10. ASSUME NEW c \in Conns, NEW failed \in SUBSET Requests, flushChunkWrites(c, failed)
       PROVE TypeOK'
  <2>1. needRequestUpdate' \in [Conns -> Reasons]
    <3>1. PICK S : needRequestUpdate' = onNeedUpdateRequests(needRequestUpdate, S, "other")
      BY <1>10, Zenon DEF flushChunkWrites
    <3> QED
      BY <3>1 DEF TypeOK, onNeedUpdateRequests, Reasons
  <2>2. /\ requests' \in [Conns -> SUBSET Requests]
        /\ cancelled' \in [Conns -> SUBSET Requests]
        /\ requestState' \in [Requests -> Conns \cup {NoConn}]
    <3>1. CASE failed # {} /\ ~UserOnWriteChunkErr
      <4>1. cancelRequests(Requests)
        BY <1>10, <3>1 DEF flushChunkWrites
      <4> QED
        BY <4>1, CancelType
    <3>2. CASE ~(failed # {} /\ ~UserOnWriteChunkErr)
      BY <1>10, <3>2 DEF flushChunkWrites, TypeOK
    <3> QED
      BY <3>1, <3>2
  <2>3. queued' \subseteq Pieces /\ pendingPieces' \subseteq Pieces
    <3>1. writtenPieces(c, failed) \subseteq Pieces
      BY DEF writtenPieces
    <3>2. /\ queued' = queued \cup writtenPieces(c, failed)
          /\ pendingPieces' = pendingPieces \ writtenPieces(c, failed)
      BY <1>10 DEF flushChunkWrites
    <3> QED
      BY <3>1, <3>2, Zenon DEF TypeOK
  <2>4. dirtyChunks' \subseteq Requests /\ dataDownloadDisallowed' \in BOOLEAN
    BY <1>10, Zenon DEF flushChunkWrites, TypeOK
  <2> QED
    BY <1>10, <2>1, <2>2, <2>3, <2>4, Zenon DEF flushChunkWrites, TypeOK, connVars, updateVars
<1>11. ASSUME NEW i \in Pieces, queuePieceCheck(i) \/ startHash(i) PROVE TypeOK'
  BY <1>11 DEF queuePieceCheck, startHash, TypeOK, connVars, requestVars, updateVars
<1>12. ASSUME NEW i \in Pieces, PieceHashedPassed(i) PROVE TypeOK'
  <2>1. needRequestUpdate' \in [Conns -> Reasons]
    BY <1>12 DEF PieceHashedPassed, onPieceCompleted, TypeOK, onNeedUpdateRequests, Reasons
  <2>2. /\ requests' \in [Conns -> SUBSET Requests]
        /\ cancelled' \in [Conns -> SUBSET Requests]
        /\ requestState' \in [Requests -> Conns \cup {NoConn}]
    <3>1. CASE i \in completed
      <4>1. UNCHANGED <<requests, cancelled, requestState>>
        BY <1>12, <3>1 DEF PieceHashedPassed
      <4> QED
        BY <4>1 DEF TypeOK
    <3>2. CASE i \notin completed
      <4>1. cancelRequests(ChunksOf(i))
        BY <1>12, <3>2 DEF PieceHashedPassed, onPieceCompleted
      <4> QED
        BY <4>1, CancelType
    <3> QED
      BY <3>1, <3>2
  <2>3. status' \in [Conns -> {"new", "open", "closed", "gone"}]
    BY <1>12 DEF PieceHashedPassed, onPieceCompleted, TypeOK, Drop
  <2> QED
    BY <1>12, <2>1, <2>2, <2>3 DEF PieceHashedPassed, TypeOK, updateVars
<1>13. ASSUME NEW i \in Pieces, PieceHashedFailed(i) PROVE TypeOK'
  BY <1>13, Zenon DEF PieceHashedFailed, TypeOK, connVars, requestVars, updateVars, Reasons
<1>13b. ASSUME NEW i \in Pieces, PieceFound(i) PROVE TypeOK'
  <2>1. needRequestUpdate' \in [Conns -> Reasons]
    BY <1>13b DEF PieceFound, onPieceCompleted, TypeOK, onNeedUpdateRequests, Reasons
  <2>2. cancelRequests(ChunksOf(i))
    BY <1>13b DEF PieceFound, onPieceCompleted
  <2>3. status' \in [Conns -> {"new", "open", "closed", "gone"}]
    BY <1>13b DEF PieceFound, onPieceCompleted, TypeOK, Drop
  <2> QED
    BY <1>13b, <2>1, <2>2, <2>3, CancelType, Zenon DEF PieceFound, TypeOK, updateVars
<1>13c. ASSUME NEW i \in Pieces, PieceLost(i) PROVE TypeOK'
  BY <1>13c, Zenon DEF PieceLost, TypeOK, connVars, requestVars, updateVars, Reasons
<1>14. ASSUME DisallowDataDownload PROVE TypeOK'
  BY <1>14 DEF DisallowDataDownload, TypeOK, connVars, updateVars, cancelRequests, Reasons
<1>15. ASSUME AllowDataDownload PROVE TypeOK'
  BY <1>15, Zenon DEF AllowDataDownload, TypeOK, connVars, requestVars, updateVars, Reasons
<1>16. ASSUME NEW c \in Conns, beginUpdateRequests(c) PROVE TypeOK'
  BY <1>16 DEF beginUpdateRequests, TypeOK, requestVars, pieceVars, DesiredRequests, Undirtied
<1>17. ASSUME NEW c \in Conns, NEW r \in Requests, skipRequest(c, r) PROVE TypeOK'
  BY <1>17 DEF skipRequest, Pop, TypeOK, connVars, requestVars, pieceVars
<1>18. ASSUME NEW c \in Conns, NEW r \in Requests, request(c, r) PROVE TypeOK'
  <2>1. validReceiveChunks' \in [Conns -> [Requests -> Nat]]
    BY <1>18, IncChunks DEF request
  <2> QED
    BY <1>18, <2>1 DEF request, Pop, TypeOK, connVars, pieceVars
<1>19. ASSUME NEW c \in Conns, NEW r \in Requests, stealRequest(c, r) PROVE TypeOK'
  <2>1. needRequestUpdate' \in [Conns -> Reasons]
    BY <1>19 DEF stealRequest, TypeOK, onNeedUpdateRequests, Reasons
  <2>2. requestState[r] \in Conns
    BY <1>19 DEF stealRequest, TypeOK
  <2>a. /\ requests \in [Conns -> SUBSET Requests]
        /\ cancelled \in [Conns -> SUBSET Requests]
        /\ requestState \in [Requests -> Conns \cup {NoConn}]
    BY DEF TypeOK
  <2>b. requests' \in [Conns -> SUBSET Requests]
    BY <1>19, <2>2, <2>a DEF stealRequest
  <2>c. cancelled' \in [Conns -> SUBSET Requests]
    BY <1>19, <2>2, <2>a DEF stealRequest
  <2>d. requestState' \in [Requests -> Conns \cup {NoConn}]
    BY <1>19, <2>a DEF stealRequest
  <2>3. /\ requests' \in [Conns -> SUBSET Requests]
        /\ cancelled' \in [Conns -> SUBSET Requests]
        /\ requestState' \in [Requests -> Conns \cup {NoConn}]
    BY <2>b, <2>c, <2>d
  <2>4. validReceiveChunks' \in [Conns -> [Requests -> Nat]]
    BY <1>19, IncChunks DEF stealRequest
  <2> QED
    BY <1>19, <2>1, <2>3, <2>4, Zenon DEF stealRequest, Pop, TypeOK, connVars, pieceVars
<1>20. ASSUME NEW c \in Conns, endUpdateRequests(c) PROVE TypeOK'
  BY <1>20, BoundsAssumption
  DEF endUpdateRequests, TypeOK, connVars, requestVars, pieceVars, Reasons
<1>21. CASE UNCHANGED vars
  BY <1>21 DEF TypeOK, vars, connVars, requestVars, pieceVars, updateVars
<1> QED
  BY <1>1, <1>2, <1>3, <1>4, <1>5, <1>5b, <1>6, <1>7, <1>8, <1>9, <1>10, <1>11, <1>12,
     <1>13, <1>13b, <1>13c, <1>14, <1>15, <1>16, <1>17, <1>18, <1>19, <1>20, <1>21
  DEF Next, ConnNext, PieceNext
-----------------------------------------------------------------------------
\* Initially nothing is requested.
LEMMA InitInv == Init => Inv
BY ConnsAssumption
DEF Init, Inv, RequestOwnership, ExpectedChunks, NoRequestForHeldChunk, haveChunk,
    NoForgottenRequest, ShouldRequest, AllowedFastIsFast

\* Without an update in progress there is nothing for ShouldRequest to say.
LEMMA IdleShould == updating = NoConn => ShouldRequest
BY DEF ShouldRequest

\* Cancelling requests, of all connections at once, keeps the bookkeeping
\* consistent.
LEMMA CancelInv ==
  ASSUME TypeOK, Inv, NEW R \in SUBSET Requests, cancelRequests(R),
         validReceiveChunks' = validReceiveChunks
  PROVE  RequestOwnership' /\ ExpectedChunks'
<1>2. RequestOwnership /\ ExpectedChunks
  BY DEF Inv
<1>3. \A c \in Conns, r \in Requests :
        r \in requests'[c] <=> r \in requests[c] /\ r \notin R
  BY DEF cancelRequests
<1>4. \A c \in Conns, r \in Requests :
        r \in cancelled'[c] => r \in cancelled[c] \/ (r \in requests[c] /\ r \in R)
  <2>1. \A c \in Conns : cancelled'[c] \subseteq cancelled[c] \cup (requests[c] \cap R)
    BY DEF cancelRequests
  <2> QED
    BY <2>1
<1>5. \A r \in Requests :
        requestState'[r] = IF r \in R THEN NoConn ELSE requestState[r]
  BY DEF cancelRequests
<1>6. RequestOwnership'
  BY <1>2, <1>3, <1>5, ConnsAssumption DEF RequestOwnership
<1>7. ExpectedChunks'
  BY <1>2, <1>3, <1>4 DEF ExpectedChunks
<1> QED
  BY <1>6, <1>7

\* A step that leaves the requests alone, and makes no chunk held and no
\* connection unable to answer, preserves the invariant if the update in progress
\* still may ask for what it has left.
LEMMA QuietInv ==
  ASSUME Inv, UNCHANGED requestVars,
         completed' \subseteq completed, dirtyChunks' \subseteq dirtyChunks,
         \A c \in Conns :
           /\ status[c] \in {"open", "closed"} =>
                status'[c] \in {"open", "closed"} \/ requests[c] = {}
           /\ peerChoking'[c] => peerChoking[c] \/ c \in FastConns,
         dataDownloadDisallowed' => dataDownloadDisallowed,
         AllowedFastIsFast', ShouldRequest'
  PROVE  Inv'
<1>1. RequestOwnership /\ ExpectedChunks /\ NoRequestForHeldChunk /\ NoForgottenRequest
  BY DEF Inv
<1>2. RequestOwnership' /\ ExpectedChunks'
  BY <1>1 DEF RequestOwnership, ExpectedChunks, requestVars
<1>3. NoRequestForHeldChunk'
  BY <1>1 DEF NoRequestForHeldChunk, haveChunk, requestVars
<1>4. NoForgottenRequest'
  BY <1>1 DEF NoForgottenRequest, requestVars
<1> QED
  BY <1>2, <1>3, <1>4 DEF Inv

\* deleteAllRequests takes the requests of c, and no others, back.
LEMMA DeleteAllInv ==
  ASSUME TypeOK, Inv, NEW c \in Conns, NEW peers, deleteAllRequests(c, peers),
         UNCHANGED <<cancelled, validReceiveChunks, completed, dirtyChunks>>
  PROVE  /\ RequestOwnership' /\ ExpectedChunks' /\ NoRequestForHeldChunk'
         /\ requests'[c] = {}
         /\ \A d \in Conns \ {c} : requests'[d] = requests[d]
<1>1. RequestOwnership /\ ExpectedChunks /\ NoRequestForHeldChunk
  BY DEF Inv
<1>2. requests \in [Conns -> SUBSET Requests]
  BY DEF TypeOK
<1>3. requests'[c] = {} /\ \A d \in Conns \ {c} : requests'[d] = requests[d]
  BY <1>2 DEF deleteAllRequests
<1>4. \A r \in Requests :
        requestState'[r] = IF r \in requests[c] THEN NoConn ELSE requestState[r]
  BY DEF deleteAllRequests
<1>5. RequestOwnership'
  BY <1>1, <1>3, <1>4, ConnsAssumption DEF RequestOwnership
<1>6. ExpectedChunks'
  BY <1>1, <1>3 DEF ExpectedChunks
<1>7. NoRequestForHeldChunk'
  BY <1>1, <1>4 DEF NoRequestForHeldChunk, haveChunk
<1> QED
  BY <1>3, <1>5, <1>6, <1>7

\* c is done with its request for r, if it had one, or with its cancel of it; the
\* chunk is expected once less.
LEMMA AnsweredInv ==
  ASSUME TypeOK, Inv, NEW c \in Conns, NEW r \in Requests,
         requests' = [requests EXCEPT ![c] = requests[c] \ {r}],
         requestState' = IF r \in requests[c]
           THEN [requestState EXCEPT ![r] = NoConn] ELSE requestState,
         cancelled' = IF r \in requests[c] THEN cancelled
           ELSE [cancelled EXCEPT ![c] = cancelled[c] \ {r}],
         decExpectedChunkReceive(c, r),
         UNCHANGED <<connVars, pieceVars>>, updating' = NoConn
  PROVE  Inv'
<1>1. RequestOwnership /\ ExpectedChunks /\ NoRequestForHeldChunk
      /\ NoForgottenRequest /\ AllowedFastIsFast
  BY DEF Inv
<1>2. /\ requests \in [Conns -> SUBSET Requests]
      /\ cancelled \in [Conns -> SUBSET Requests]
  BY DEF TypeOK
<1>3. requestState \in [Requests -> Conns \cup {NoConn}]
  BY DEF TypeOK
<1>4. validReceiveChunks \in [Conns -> [Requests -> Nat]]
  BY DEF TypeOK
<1>5. \A d \in Conns, q \in Requests :
        q \in requests'[d] <=> q \in requests[d] /\ ~(d = c /\ q = r)
  BY <1>2
<1>6. \A q \in Requests : requestState'[q] =
        IF q = r /\ r \in requests[c] THEN NoConn ELSE requestState[q]
  BY <1>3
<1>7. \A d \in Conns, q \in Requests :
        q \in cancelled'[d] => q \in cancelled[d] /\ ~(d = c /\ q = r)
  BY <1>1, <1>2 DEF ExpectedChunks
<1>8. \A d \in Conns, q \in Requests :
        ~(d = c /\ q = r) => validReceiveChunks'[d][q] = validReceiveChunks[d][q]
  BY DecChunks
<1>9. RequestOwnership'
  BY <1>1, <1>5, <1>6, ConnsAssumption DEF RequestOwnership
<1>10. ExpectedChunks'
  BY <1>1, <1>5, <1>7, <1>8 DEF ExpectedChunks
<1>11. NoRequestForHeldChunk'
  BY <1>1, <1>6 DEF NoRequestForHeldChunk, haveChunk, pieceVars
<1>12. NoForgottenRequest'
  <2>1. \A d \in Conns : requests'[d] \subseteq requests[d]
    BY <1>2
  <2> QED
    BY <1>1, <2>1 DEF NoForgottenRequest, connVars, pieceVars
<1>13. AllowedFastIsFast' /\ ShouldRequest'
  BY <1>1 DEF AllowedFastIsFast, ShouldRequest, connVars
<1> QED
  BY <1>9, <1>10, <1>11, <1>12, <1>13 DEF Inv

\* Downloading is stopped: every request is cancelled.
LEMMA DisallowInv == ASSUME TypeOK, Inv, cancelRequests(Requests), updating' = NoConn,
         dirtyChunks' \subseteq dirtyChunks,
         UNCHANGED <<connVars, validReceiveChunks, completed>>
  PROVE  Inv'
<1>1. AllowedFastIsFast
  BY DEF Inv
<1>2. RequestOwnership' /\ ExpectedChunks'
  BY CancelInv
<1>3. \A r \in Requests : requestState'[r] = NoConn
  BY DEF cancelRequests
<1>4. requests \in [Conns -> SUBSET Requests]
  BY DEF TypeOK
<1>5. \A d \in Conns : requests'[d] = {}
  BY <1>4 DEF cancelRequests
<1>6. NoRequestForHeldChunk' /\ NoForgottenRequest'
  BY <1>3, <1>5 DEF NoRequestForHeldChunk, NoForgottenRequest
<1>7. AllowedFastIsFast' /\ ShouldRequest'
  BY <1>1 DEF AllowedFastIsFast, ShouldRequest, connVars
<1> QED
  BY <1>2, <1>6, <1>7 DEF Inv

\* A chunk is received: its request goes away everywhere.
LEMMA ReceiveChunkInv ==
  ASSUME TypeOK, Inv, NEW c \in Conns, NEW r \in Requests, ReceiveChunk(c, r)
  PROVE  Inv'
<1>1. /\ requests \in [Conns -> SUBSET Requests]
      /\ cancelled \in [Conns -> SUBSET Requests]
      /\ validReceiveChunks \in [Conns -> [Requests -> Nat]]
      /\ requestState \in [Requests -> Conns \cup {NoConn}]
  BY DEF TypeOK
<1>2. RequestOwnership /\ ExpectedChunks /\ NoRequestForHeldChunk
      /\ NoForgottenRequest /\ AllowedFastIsFast
  BY DEF Inv
<1>3. /\ updating' = NoConn /\ dirtyChunks' = dirtyChunks \cup {r}
      /\ UNCHANGED <<status, peerChoking, peerAllowedFast, completed,
                     dataDownloadDisallowed>>
  BY DEF ReceiveChunk, CanReceive, Unlocked, connVars, updateVars
<1>4. \A d \in Conns, q \in Requests :
        /\ q \in requests'[d] <=> q \in requests[d] /\ q # r
        /\ requestState'[q] = IF q = r THEN NoConn ELSE requestState[q]
  BY <1>1 DEF ReceiveChunk
<1>5. \A d \in Conns, q \in Requests :
        q \in cancelled'[d] =>
          \/ q \in cancelled[d] /\ (d # c \/ q # r)
          \/ q = r /\ d # c /\ r \in requests[d]
  BY <1>1, <1>2 DEF ReceiveChunk, ExpectedChunks
<1>6. \A d \in Conns, q \in Requests :
        d # c \/ q # r => validReceiveChunks'[d][q] = validReceiveChunks[d][q]
  <2>1. decExpectedChunkReceive(c, r)
    BY DEF ReceiveChunk
  <2> QED
    BY <2>1, DecChunks
<1>7. RequestOwnership'
  <2> SUFFICES ASSUME NEW d \in Conns, NEW q \in Requests
               PROVE  q \in requests'[d] <=> requestState'[q] = d
    BY DEF RequestOwnership
  <2>1. q \in requests[d] <=> requestState[q] = d
    BY <1>2 DEF RequestOwnership
  <2> QED
    BY <1>4, <2>1, ConnsAssumption
<1>8. ExpectedChunks'
  <2> SUFFICES ASSUME NEW d \in Conns, NEW q \in Requests
               PROVE  /\ ~(q \in requests'[d] /\ q \in cancelled'[d])
                      /\ q \in requests'[d] \cup cancelled'[d] =>
                           validReceiveChunks'[d][q] > 0
    BY DEF ExpectedChunks
  <2> QED
    BY <1>2, <1>4, <1>5, <1>6 DEF ExpectedChunks
<1>9. NoRequestForHeldChunk'
  BY <1>2, <1>3, <1>4 DEF NoRequestForHeldChunk, haveChunk
<1>10. NoForgottenRequest'
  <2>1. \A d \in Conns : requests'[d] \subseteq requests[d]
    BY <1>1 DEF ReceiveChunk
  <2> QED
    BY <1>2, <1>3, <2>1 DEF NoForgottenRequest
<1>11. AllowedFastIsFast' /\ ShouldRequest'
  BY <1>2, <1>3, IdleShould DEF AllowedFastIsFast, ShouldRequest
<1> QED
  BY <1>7, <1>8, <1>9, <1>10, <1>11 DEF Inv

\* A batch of writes ends, perhaps with the end of all downloading.
LEMMA FlushInv ==
  ASSUME TypeOK, Inv, NEW c \in Conns, NEW failed \in SUBSET Requests,
         flushChunkWrites(c, failed)
  PROVE  Inv'
<1>1. RequestOwnership /\ ExpectedChunks /\ NoRequestForHeldChunk
      /\ NoForgottenRequest /\ AllowedFastIsFast
  BY DEF Inv
<1>2. /\ updating' = NoConn /\ dirtyChunks' = dirtyChunks \ failed
      /\ UNCHANGED <<status, peerChoking, peerAllowedFast, completed,
                     validReceiveChunks>>
  BY DEF flushChunkWrites, Unlocked, connVars, updateVars
<1>3. CASE failed # {} /\ ~UserOnWriteChunkErr
  BY <1>3, DisallowInv DEF flushChunkWrites, Unlocked, updateVars
<1>4. CASE ~(failed # {} /\ ~UserOnWriteChunkErr)
  <2>1. UNCHANGED <<dataDownloadDisallowed, requests, cancelled, requestState>>
    BY <1>4 DEF flushChunkWrites
  <2>2. RequestOwnership' /\ ExpectedChunks' /\ NoForgottenRequest' /\ AllowedFastIsFast'
    BY <1>1, <1>2, <2>1
    DEF RequestOwnership, ExpectedChunks, NoForgottenRequest, AllowedFastIsFast
  <2>3. NoRequestForHeldChunk'
    BY <1>1, <1>2, <2>1 DEF NoRequestForHeldChunk, haveChunk
  <2> QED
    BY <1>2, <2>2, <2>3 DEF Inv, ShouldRequest
<1> QED
  BY <1>3, <1>4

\* A connection dropped because everything is complete has no requests.
LEMMA DropInv ==
  ASSUME TypeOK, Inv, NEW has, NEW D \in MayDropComplete(completed, has),
         status' = Drop(D), NEW d \in Conns
  PROVE  status[d] \in {"open", "closed"} =>
           status'[d] \in {"open", "closed"} \/ requests[d] = {}
<1>1. CASE d \in D
  <2>1. completed = Pieces
    BY <1>1 DEF MayDropComplete
  <2>2. \A r \in Requests : requestState[r] = NoConn
    BY <2>1, PieceOfAssumption DEF Inv, NoRequestForHeldChunk, haveChunk
  <2>3. \A r \in Requests : r \notin requests[d]
    BY <2>2, ConnsAssumption DEF Inv, RequestOwnership
  <2>4. requests[d] \subseteq Requests
    BY DEF TypeOK
  <2> QED
    BY <2>3, <2>4
<1>2. CASE d \notin D
  BY <1>2 DEF Drop
<1> QED
  BY <1>1, <1>2

\* A piece becomes complete: the requests for its chunks are cancelled.
LEMMA CompletedInv ==
  ASSUME TypeOK, Inv, NEW i \in Pieces, onPieceCompleted(i),
         updating' = NoConn, completed' = completed \cup {i},
         dirtyChunks' = dirtyChunks \ ChunksOf(i),
         UNCHANGED <<peerChoking, peerAllowedFast, validReceiveChunks,
                     dataDownloadDisallowed>>
  PROVE  Inv'
<1>1. RequestOwnership /\ ExpectedChunks /\ NoRequestForHeldChunk
      /\ NoForgottenRequest /\ AllowedFastIsFast
  BY DEF Inv
<1>2. cancelRequests(ChunksOf(i)) /\ ChunksOf(i) \subseteq Requests
  BY DEF onPieceCompleted, ChunksOf
<1>3. AllowedFastIsFast' /\ ShouldRequest'
  BY <1>1 DEF AllowedFastIsFast, ShouldRequest
<1>4. RequestOwnership' /\ ExpectedChunks'
  BY <1>2, CancelInv
<1>5. NoRequestForHeldChunk'
  <2>1. \A r \in Requests : requestState'[r] =
          IF PieceOf[r] = i THEN NoConn ELSE requestState[r]
    BY <1>2 DEF cancelRequests, ChunksOf
  <2> QED
    BY <1>1, <2>1 DEF NoRequestForHeldChunk, haveChunk, ChunksOf
<1>6. NoForgottenRequest'
  <2>1. PICK D \in MayDropComplete(completed', peerPieces) : status' = Drop(D)
    BY DEF onPieceCompleted
  <2>2. ASSUME NEW c \in Conns, c \in D PROVE requests'[c] = {}
    <3>1. completed' = Pieces
      BY <2>1, <2>2 DEF MayDropComplete
    <3>2. \A r \in Requests : requestState'[r] = NoConn
      BY <1>5, <3>1, PieceOfAssumption DEF NoRequestForHeldChunk, haveChunk
    <3>3. requests'[c] \subseteq Requests
      BY <1>2, CancelType
    <3>4. \A r \in Requests : r \notin requests'[c]
      BY <1>4, <3>2, ConnsAssumption DEF RequestOwnership
    <3> QED
      BY <3>3, <3>4
  <2>3. \A c \in Conns : requests'[c] \subseteq requests[c]
    BY <1>2, CancelType
  <2>4. \A c \in Conns \ D : status'[c] = status[c]
    BY <2>1 DEF Drop
  <2> QED
    BY <1>1, <2>2, <2>3, <2>4 DEF NoForgottenRequest
<1> QED
  BY <1>3, <1>4, <1>5, <1>6 DEF Inv

\* A piece passes its hash, whether it was complete before or not.
LEMMA PassedInv ==
  ASSUME TypeOK, Inv, NEW i \in Pieces, PieceHashedPassed(i)
  PROVE  Inv'
<1>1. /\ updating' = NoConn /\ completed' = completed \cup {i}
      /\ dirtyChunks' = dirtyChunks \ ChunksOf(i)
      /\ UNCHANGED <<peerChoking, peerAllowedFast, validReceiveChunks,
                     dataDownloadDisallowed>>
  BY DEF PieceHashedPassed, Unlocked, updateVars
<1>2. CASE i \in completed
  <2>1. UNCHANGED <<requestVars, status>>
    BY <1>2 DEF PieceHashedPassed, requestVars
  <2>2. completed' = completed /\ dirtyChunks' \subseteq dirtyChunks
    BY <1>1, <1>2
  <2>3. AllowedFastIsFast' /\ ShouldRequest'
    BY <1>1 DEF Inv, AllowedFastIsFast, ShouldRequest
  <2> QED
    BY <1>1, <2>1, <2>2, <2>3, QuietInv
<1>3. CASE i \notin completed
  <2>1. onPieceCompleted(i)
    BY <1>3 DEF PieceHashedPassed
  <2> QED
    BY <1>1, <2>1, CompletedInv
<1> QED
  BY <1>2, <1>3

\* An update requests a chunk that nobody was asked for.
LEMMA RequestInv ==
  ASSUME TypeOK, Inv, NEW c \in Conns, NEW r \in Requests, request(c, r)
  PROVE  Inv'
<1>1. /\ requests \in [Conns -> SUBSET Requests]
      /\ validReceiveChunks \in [Conns -> [Requests -> Nat]]
      /\ requestState \in [Requests -> Conns \cup {NoConn}]
      /\ candidates \subseteq Requests
  BY DEF TypeOK
<1>2. RequestOwnership /\ ExpectedChunks /\ NoRequestForHeldChunk
      /\ NoForgottenRequest /\ ShouldRequest /\ AllowedFastIsFast
  BY DEF Inv
<1>3. /\ updating = c /\ updating' = c /\ r \in candidates
      /\ candidates' \subseteq candidates /\ requestState[r] = NoConn
      /\ UNCHANGED <<status, peerPieces, peerChoking, peerAllowedFast, cancelled,
                     dirtyChunks, completed, queued, hashing,
                     dataDownloadDisallowed>>
  BY DEF request, Pop, connVars, pieceVars
<1>4. \A d \in Conns, q \in Requests :
        /\ q \in requests'[d] <=> q \in requests[d] \/ (d = c /\ q = r)
        /\ requestState'[q] = IF q = r THEN c ELSE requestState[q]
  <2>1. requests' = [requests EXCEPT ![c] = requests[c] \cup {r}]
    BY DEF request
  <2>2. requestState' = [requestState EXCEPT ![r] = c]
    BY DEF request
  <2>3. ASSUME NEW d \in Conns, NEW q \in Requests
        PROVE  q \in requests'[d] <=> q \in requests[d] \/ (d = c /\ q = r)
    <3>1. d = c => requests'[d] = requests[d] \cup {r}
      BY <1>1, <2>1
    <3>2. d # c => requests'[d] = requests[d]
      BY <1>1, <2>1
    <3> QED
      BY <3>1, <3>2
  <2>4. \A q \in Requests : requestState'[q] = IF q = r THEN c ELSE requestState[q]
    BY <1>1, <2>2
  <2> QED
    BY <2>3, <2>4
<1>5. \A d \in Conns, q \in Requests :
        IF d = c /\ q = r THEN validReceiveChunks'[d][q] > 0
        ELSE validReceiveChunks'[d][q] = validReceiveChunks[d][q]
  BY IncChunks DEF request
<1>6. /\ status[c] = "open" /\ r \notin cancelled[c] /\ ~haveChunk(r)
      /\ ~dataDownloadDisallowed
      /\ PieceOf[r] \in peerAllowedFast[c] \/ ~peerChoking[c] \/ r \in requests[c]
  BY <1>2, <1>3, ConnsAssumption DEF ShouldRequest, ignoreForRequests
<1>7. RequestOwnership'
  <2>1. \A d \in Conns : r \notin requests[d]
    BY <1>2, <1>3, ConnsAssumption DEF RequestOwnership
  <2>2. ASSUME NEW d \in Conns, NEW q \in Requests
        PROVE  q \in requests'[d] <=> requestState'[q] = d
    <3>1. q \in requests[d] <=> requestState[q] = d
      BY <1>2 DEF RequestOwnership
    <3> QED
      BY <1>4, <2>1, <3>1
  <2> QED
    BY <2>2 DEF RequestOwnership
<1>8. ExpectedChunks'
  <2> SUFFICES ASSUME NEW d \in Conns, NEW q \in Requests
               PROVE  /\ ~(q \in requests'[d] /\ q \in cancelled'[d])
                      /\ q \in requests'[d] \cup cancelled'[d] =>
                           validReceiveChunks'[d][q] > 0
    BY DEF ExpectedChunks
  <2>1. validReceiveChunks[d][q] \in Nat
    BY <1>1
  <2>2. /\ ~(q \in requests[d] /\ q \in cancelled[d])
        /\ q \in requests[d] \cup cancelled[d] => validReceiveChunks[d][q] > 0
    BY <1>2 DEF ExpectedChunks
  <2>3. CASE d = c /\ q = r
    BY <1>3, <1>5, <1>6, <2>1, <2>3
  <2>4. CASE ~(d = c /\ q = r)
    BY <1>3, <1>4, <1>5, <2>2, <2>4
  <2> QED
    BY <2>3, <2>4
<1>9. NoRequestForHeldChunk'
  BY <1>2, <1>3, <1>4, <1>6 DEF NoRequestForHeldChunk, haveChunk
<1>10. NoForgottenRequest'
  <2>1. \A d \in Conns : d # c => requests'[d] = requests[d]
    BY <1>1 DEF request
  <2>2. c \in FastConns \/ ~peerChoking[c]
    <3>1. r \notin requests[c]
      BY <1>2, <1>3, ConnsAssumption DEF RequestOwnership
    <3> QED
      BY <1>2, <1>6, <3>1 DEF AllowedFastIsFast
  <2> QED
    BY <1>2, <1>3, <1>6, <2>1, <2>2 DEF NoForgottenRequest
<1>11. ShouldRequest'
  <2>1. requests'[c] = requests[c] \cup {r}
    BY <1>1 DEF request
  <2> QED
    BY <1>2, <1>3, <2>1 DEF ShouldRequest, ignoreForRequests, haveChunk
<1>12. AllowedFastIsFast'
  BY <1>2, <1>3 DEF AllowedFastIsFast
<1> QED
  BY <1>7, <1>8, <1>9, <1>10, <1>11, <1>12 DEF Inv

\* An update takes a chunk from the connection d that was asked for it.
LEMMA StealInv ==
  ASSUME TypeOK, Inv, NEW c \in Conns, NEW r \in Requests, stealRequest(c, r)
  PROVE  Inv'
<1> DEFINE d == requestState[r]
<1>1. /\ requests \in [Conns -> SUBSET Requests]
      /\ cancelled \in [Conns -> SUBSET Requests]
      /\ validReceiveChunks \in [Conns -> [Requests -> Nat]]
      /\ requestState \in [Requests -> Conns \cup {NoConn}]
      /\ candidates \subseteq Requests
  BY DEF TypeOK
<1>2. RequestOwnership /\ ExpectedChunks /\ NoRequestForHeldChunk
      /\ NoForgottenRequest /\ ShouldRequest /\ AllowedFastIsFast
  BY DEF Inv
<1>3. /\ updating = c /\ updating' = c /\ r \in candidates
      /\ candidates' \subseteq candidates
      /\ UNCHANGED <<status, peerPieces, peerChoking, peerAllowedFast,
                     dirtyChunks, completed, queued, hashing,
                     dataDownloadDisallowed>>
  BY DEF stealRequest, Pop, connVars, pieceVars
<1>4. d \in Conns /\ d # c
  BY <1>1 DEF stealRequest
<1>5. r \in requests[d] /\ r \notin requests[c]
  BY <1>2, <1>4 DEF RequestOwnership
<1>6. /\ requests' = [requests EXCEPT ![c] = requests[c] \cup {r}, ![d] = requests[d] \ {r}]
      /\ cancelled' = IF d \in CancelAckConns
           THEN [cancelled EXCEPT ![d] = cancelled[d] \cup {r}] ELSE cancelled
      /\ ExpectChunk(c, r)
      /\ requestState' = [requestState EXCEPT ![r] = c]
  BY <1>1, <1>4 DEF stealRequest
<1> HIDE DEF d
<1>7. \A b \in Conns, q \in Requests :
        /\ q \in requests'[b] <=> \/ b = c /\ q = r
                                  \/ q \in requests[b] /\ ~(b = d /\ q = r)
        /\ requestState'[q] = IF q = r THEN c ELSE requestState[q]
  BY <1>1, <1>4, <1>6
<1>8. \A b \in Conns, q \in Requests :
        q \in cancelled'[b] => q \in cancelled[b] \/ (b = d /\ q = r)
  BY <1>1, <1>4, <1>6
<1>9. \A b \in Conns, q \in Requests :
        IF b = c /\ q = r THEN validReceiveChunks'[b][q] > 0
        ELSE validReceiveChunks'[b][q] = validReceiveChunks[b][q]
  BY <1>6, IncChunks
<1>10. /\ status[c] = "open" /\ r \notin cancelled[c] /\ ~haveChunk(r)
       /\ ~dataDownloadDisallowed
       /\ PieceOf[r] \in peerAllowedFast[c] \/ ~peerChoking[c]
  BY <1>2, <1>3, <1>5, ConnsAssumption DEF ShouldRequest, ignoreForRequests
<1>11. RequestOwnership'
  BY <1>2, <1>4, <1>5, <1>7 DEF RequestOwnership, d
<1>12. ExpectedChunks'
  <2> SUFFICES ASSUME NEW b \in Conns, NEW q \in Requests
               PROVE  /\ ~(q \in requests'[b] /\ q \in cancelled'[b])
                      /\ q \in requests'[b] \cup cancelled'[b] =>
                           validReceiveChunks'[b][q] > 0
    BY DEF ExpectedChunks
  <2>1. validReceiveChunks[b][q] \in Nat
    BY <1>1
  <2>2. ~(q \in requests'[b] /\ q \in cancelled'[b])
    BY <1>2, <1>4, <1>7, <1>8, <1>10 DEF ExpectedChunks
  <2>3. q \in requests'[b] \cup cancelled'[b] => validReceiveChunks'[b][q] > 0
    <3>1. q \in requests[b] \cup cancelled[b] => validReceiveChunks[b][q] > 0
      BY <1>2 DEF ExpectedChunks
    <3>2. CASE b = c /\ q = r
      BY <1>9, <2>1, <3>2
    <3>3. CASE ~(b = c /\ q = r)
      <4>1. validReceiveChunks'[b][q] = validReceiveChunks[b][q]
        BY <1>9, <3>3
      <4>2. q \in requests'[b] \cup cancelled'[b] => q \in requests[b] \cup cancelled[b]
        BY <1>5, <1>7, <1>8, <3>3
      <4> QED
        BY <3>1, <4>1, <4>2
    <3> QED
      BY <3>2, <3>3
  <2> QED
    BY <2>2, <2>3
<1>13. NoRequestForHeldChunk'
  BY <1>2, <1>3, <1>7, <1>10 DEF NoRequestForHeldChunk, haveChunk
<1>14. NoForgottenRequest'
  <2>1. \A b \in Conns : b # c => requests'[b] \subseteq requests[b]
    BY <1>1, <1>4, <1>6
  <2>2. c \in FastConns \/ ~peerChoking[c]
    BY <1>2, <1>10 DEF AllowedFastIsFast
  <2> QED
    BY <1>2, <1>3, <1>10, <2>1, <2>2 DEF NoForgottenRequest
<1>15. ShouldRequest'
  <2>1. cancelled'[c] = cancelled[c] /\ requests[c] \subseteq requests'[c]
    BY <1>1, <1>4, <1>6
  <2> QED
    BY <1>1, <1>2, <1>3, <2>1 DEF ShouldRequest, ignoreForRequests, haveChunk
<1>16. AllowedFastIsFast'
  BY <1>2, <1>3 DEF AllowedFastIsFast
<1> QED
  BY <1>11, <1>12, <1>13, <1>14, <1>15, <1>16 DEF Inv

\* Every action preserves the invariant.
LEMMA NextInv == TypeOK /\ Inv /\ [Next]_vars => Inv'
<1> SUFFICES ASSUME TypeOK, Inv, [Next]_vars PROVE Inv'
  OBVIOUS
<1>a. AllowedFastIsFast
  BY DEF Inv
<1>s. status \in [Conns -> {"new", "open", "closed", "gone"}]
  BY DEF TypeOK
<1>p. /\ peerChoking \in [Conns -> BOOLEAN]
      /\ peerAllowedFast \in [Conns -> SUBSET Pieces]
  BY DEF TypeOK
<1>1. ASSUME NEW c \in Conns, addPeerConn(c) \/ close(c) PROVE Inv'
  <2>1. /\ \/ status' = [status EXCEPT ![c] = "open"]
           \/ status' = [status EXCEPT ![c] = "closed"]
        /\ UNCHANGED <<requestVars, peerChoking, peerAllowedFast, completed,
                       dirtyChunks, dataDownloadDisallowed>>
        /\ updating' = NoConn
    BY <1>1 DEF addPeerConn, close, Unlocked, pieceVars, updateVars
  <2>2. \A d \in Conns : status[d] \in {"open", "closed"} => status'[d] \in {"open", "closed"}
    BY <1>s, <2>1
  <2>3. AllowedFastIsFast' /\ ShouldRequest'
    BY <1>a, <2>1 DEF AllowedFastIsFast, ShouldRequest
  <2> QED
    BY <2>1, <2>2, <2>3, QuietInv
<1>2. ASSUME NEW c \in Conns, dropConnection(c) PROVE Inv'
  <2>1. /\ deleteAllRequests(c, InConns \ {c}) /\ status' = [status EXCEPT ![c] = "gone"]
        /\ UNCHANGED <<cancelled, validReceiveChunks, completed, dirtyChunks,
                       peerChoking, peerAllowedFast, dataDownloadDisallowed>>
        /\ updating' = NoConn
    BY <1>2 DEF dropConnection, Unlocked, pieceVars, updateVars
  <2>2. /\ RequestOwnership' /\ ExpectedChunks' /\ NoRequestForHeldChunk'
        /\ requests'[c] = {} /\ \A d \in Conns \ {c} : requests'[d] = requests[d]
    BY <2>1, DeleteAllInv
  <2>3. \A d \in Conns \ {c} : status'[d] = status[d]
    BY <1>s, <2>1
  <2>4. NoForgottenRequest'
    BY <2>1, <2>2, <2>3 DEF Inv, NoForgottenRequest
  <2>5. AllowedFastIsFast' /\ ShouldRequest'
    BY <1>a, <2>1 DEF AllowedFastIsFast, ShouldRequest
  <2> QED
    BY <2>2, <2>4, <2>5 DEF Inv
<1>3. ASSUME NEW c \in Conns, Choke(c) PROVE Inv'
  <2>1. /\ peerChoking' = [peerChoking EXCEPT ![c] = TRUE] /\ updating' = NoConn
        /\ UNCHANGED <<cancelled, validReceiveChunks, completed, dirtyChunks, status,
                       peerAllowedFast, dataDownloadDisallowed>>
    BY <1>3 DEF Choke, CanRead, Unlocked, pieceVars, updateVars
  <2>2. \A d \in Conns \ {c} : peerChoking'[d] = peerChoking[d]
    BY <1>p, <2>1
  <2>3. AllowedFastIsFast' /\ ShouldRequest'
    BY <1>a, <2>1 DEF AllowedFastIsFast, ShouldRequest
  <2>4. CASE c \in FastConns
    <3>1. UNCHANGED requestVars
      BY <1>3, <2>1, <2>4 DEF Choke, requestVars
    <3> QED
      BY <2>1, <2>2, <2>3, <2>4, <3>1, QuietInv
  <2>5. CASE c \notin FastConns
    <3>1. deleteAllRequests(c, InConns)
      BY <1>3, <2>5 DEF Choke
    <3>2. /\ RequestOwnership' /\ ExpectedChunks' /\ NoRequestForHeldChunk'
          /\ requests'[c] = {} /\ \A d \in Conns \ {c} : requests'[d] = requests[d]
      BY <2>1, <3>1, DeleteAllInv
    <3>3. NoForgottenRequest'
      BY <2>1, <2>2, <3>2 DEF Inv, NoForgottenRequest
    <3> QED
      BY <2>3, <3>2, <3>3 DEF Inv
  <2> QED
    BY <2>4, <2>5
<1>4. ASSUME NEW c \in Conns, Unchoke(c) \/ Suggest(c) PROVE Inv'
  <2>1. /\ UNCHANGED <<requestVars, status, peerAllowedFast, completed,
                       dirtyChunks, dataDownloadDisallowed>>
        /\ updating' = NoConn
        /\ peerChoking' = [peerChoking EXCEPT ![c] = FALSE] \/ peerChoking' = peerChoking
    BY <1>4 DEF Unchoke, Suggest, CanRead, Unlocked, connVars, pieceVars, updateVars
  <2>2. \A d \in Conns : peerChoking'[d] => peerChoking[d]
    BY <1>p, <2>1
  <2>3. AllowedFastIsFast' /\ ShouldRequest'
    BY <1>a, <2>1 DEF AllowedFastIsFast, ShouldRequest
  <2> QED
    BY <2>1, <2>2, <2>3, QuietInv
<1>5. ASSUME NEW c \in Conns, NEW i \in Pieces, peerSentHave(c, i) PROVE Inv'
  <2>1. /\ UNCHANGED <<requestVars, peerChoking, peerAllowedFast, completed,
                       dirtyChunks, dataDownloadDisallowed>>
        /\ updating' = NoConn
    BY <1>5 DEF peerSentHave, CanRead, Unlocked, pieceVars, updateVars
  <2>2. PICK D \in MayDropComplete(completed, peerPieces') : status' = Drop(D)
    BY <1>5 DEF peerSentHave
  <2>3. \A d \in Conns : status[d] \in {"open", "closed"} =>
          status'[d] \in {"open", "closed"} \/ requests[d] = {}
    BY <2>2, DropInv
  <2>4. AllowedFastIsFast' /\ ShouldRequest'
    BY <1>a, <2>1 DEF AllowedFastIsFast, ShouldRequest
  <2> QED
    BY <2>1, <2>3, <2>4, QuietInv
<1>5b. ASSUME NEW c \in Conns, NEW P \in SUBSET Pieces, peerSentBitfield(c, P) PROVE Inv'
  <2>1. /\ UNCHANGED <<requestVars, peerChoking, peerAllowedFast, completed,
                       dirtyChunks, dataDownloadDisallowed>>
        /\ updating' = NoConn
    BY <1>5b DEF peerSentBitfield, CanRead, Unlocked, pieceVars, updateVars
  <2>2. PICK D \in MayDropComplete(completed, peerPieces') : status' = Drop(D)
    BY <1>5b DEF peerSentBitfield
  <2>3. \A d \in Conns : status[d] \in {"open", "closed"} =>
          status'[d] \in {"open", "closed"} \/ requests[d] = {}
    BY <2>2, DropInv
  <2>4. AllowedFastIsFast' /\ ShouldRequest'
    BY <1>a, <2>1 DEF AllowedFastIsFast, ShouldRequest
  <2> QED
    BY <2>1, <2>3, <2>4, QuietInv
<1>6. ASSUME NEW c \in Conns, NEW i \in Pieces, AllowedFast(c, i) PROVE Inv'
  <2>1. /\ UNCHANGED <<requestVars, status, peerChoking, completed,
                       dirtyChunks, dataDownloadDisallowed>>
        /\ updating' = NoConn /\ c \in FastConns
        /\ peerAllowedFast' = [peerAllowedFast EXCEPT ![c] = peerAllowedFast[c] \cup {i}]
    BY <1>6 DEF AllowedFast, CanRead, Unlocked, pieceVars, updateVars
  <2>2. AllowedFastIsFast' /\ ShouldRequest'
    BY <1>a, <1>p, <2>1 DEF AllowedFastIsFast, ShouldRequest
  <2> QED
    BY <2>1, <2>2, QuietInv
<1>7. ASSUME NEW c \in Conns, NEW r \in Requests, Reject(c, r) PROVE Inv'
  <2>1. /\ requests' = [requests EXCEPT ![c] = requests[c] \ {r}]
        /\ requestState' = IF r \in requests[c]
             THEN [requestState EXCEPT ![r] = NoConn] ELSE requestState
        /\ cancelled' = IF r \in requests[c] THEN cancelled
             ELSE [cancelled EXCEPT ![c] = cancelled[c] \ {r}]
        /\ decExpectedChunkReceive(c, r)
        /\ UNCHANGED <<connVars, pieceVars>> /\ updating' = NoConn
    BY <1>7 DEF Reject, CanRead, Unlocked, updateVars
  <2> QED
    BY <2>1, AnsweredInv, Zenon
<1>8. ASSUME NEW c \in Conns, NEW r \in Requests, ReceiveRedundantChunk(c, r) PROVE Inv'
  <2>1. /\ requests' = [requests EXCEPT ![c] = requests[c] \ {r}]
        /\ requestState' = IF r \in requests[c]
             THEN [requestState EXCEPT ![r] = NoConn] ELSE requestState
        /\ cancelled' = IF r \in requests[c] THEN cancelled
             ELSE [cancelled EXCEPT ![c] = cancelled[c] \ {r}]
        /\ decExpectedChunkReceive(c, r)
        /\ UNCHANGED <<connVars, pieceVars>> /\ updating' = NoConn
    BY <1>8 DEF ReceiveRedundantChunk, CanReceive, Unlocked, updateVars
  <2> QED
    BY <2>1, AnsweredInv
<1>9. ASSUME NEW c \in Conns, NEW r \in Requests, ReceiveChunk(c, r) PROVE Inv'
  BY <1>9, ReceiveChunkInv
<1>10. ASSUME NEW c \in Conns, NEW failed \in SUBSET Requests, flushChunkWrites(c, failed) PROVE Inv'
  BY <1>10, FlushInv
<1>11. ASSUME NEW i \in Pieces, queuePieceCheck(i) \/ startHash(i) PROVE Inv'
  <2>1. /\ UNCHANGED <<connVars, requestVars, completed, dirtyChunks,
                       dataDownloadDisallowed>>
        /\ updating' = NoConn
    BY <1>11 DEF queuePieceCheck, startHash, Unlocked, updateVars
  <2>2. AllowedFastIsFast' /\ ShouldRequest'
    BY <1>a, <2>1 DEF AllowedFastIsFast, ShouldRequest, connVars
  <2> QED
    BY <2>1, <2>2, QuietInv DEF connVars
<1>12. ASSUME NEW i \in Pieces, PieceHashedPassed(i) PROVE Inv'
  BY <1>12, PassedInv
<1>13. ASSUME NEW i \in Pieces, PieceHashedFailed(i) PROVE Inv'
  <2>1. /\ UNCHANGED <<connVars, requestVars, dataDownloadDisallowed>>
        /\ updating' = NoConn
        /\ completed' \subseteq completed /\ dirtyChunks' \subseteq dirtyChunks
    BY <1>13 DEF PieceHashedFailed, Unlocked, updateVars
  <2>2. AllowedFastIsFast' /\ ShouldRequest'
    BY <1>a, <2>1 DEF AllowedFastIsFast, ShouldRequest, connVars
  <2> QED
    BY <2>1, <2>2, QuietInv DEF connVars
<1>13b. ASSUME NEW i \in Pieces, PieceFound(i) PROVE Inv'
  BY <1>13b, CompletedInv DEF PieceFound, Unlocked, updateVars
<1>13c. ASSUME NEW i \in Pieces, PieceLost(i) PROVE Inv'
  <2>1. /\ UNCHANGED <<connVars, requestVars, dataDownloadDisallowed>>
        /\ updating' = NoConn
        /\ completed' \subseteq completed /\ dirtyChunks' \subseteq dirtyChunks
    BY <1>13c DEF PieceLost, Unlocked, updateVars
  <2>2. AllowedFastIsFast' /\ ShouldRequest'
    BY <1>a, <2>1 DEF AllowedFastIsFast, ShouldRequest, connVars
  <2> QED
    BY <2>1, <2>2, QuietInv DEF connVars
<1>14. ASSUME DisallowDataDownload PROVE Inv'
  BY <1>14, DisallowInv DEF DisallowDataDownload, Unlocked, updateVars
<1>15. ASSUME AllowDataDownload PROVE Inv'
  <2>1. /\ UNCHANGED <<connVars, requestVars, completed, dirtyChunks>>
        /\ updating' = NoConn /\ ~dataDownloadDisallowed'
    BY <1>15 DEF AllowDataDownload, Unlocked, updateVars
  <2>2. AllowedFastIsFast' /\ ShouldRequest'
    BY <1>a, <2>1 DEF AllowedFastIsFast, ShouldRequest, connVars
  <2> QED
    BY <2>1, <2>2, QuietInv DEF connVars
<1>16. ASSUME NEW c \in Conns, beginUpdateRequests(c) PROVE Inv'
  <2>1. /\ UNCHANGED <<status, peerPieces, peerChoking, peerAllowedFast, requestVars,
                       pieceVars>>
        /\ updating' = c /\ status[c] = "open" /\ candidates' = DesiredRequests(c)
    BY <1>16 DEF beginUpdateRequests
  <2>2. \A r \in DesiredRequests(c) :
          /\ PieceOf[r] \in peerPieces[c]
          /\ ~ignoreForRequests(PieceOf[r]) /\ r \notin dirtyChunks
          /\ r \notin cancelled[c]
          /\ PieceOf[r] \in peerAllowedFast[c] \/ ~peerChoking[c] \/ r \in requests[c]
    BY DEF DesiredRequests, Undirtied
  <2>3. ShouldRequest'
    BY <2>1, <2>2 DEF ShouldRequest, ignoreForRequests, haveChunk, requestVars, pieceVars
  <2>4. AllowedFastIsFast'
    BY <1>a, <2>1 DEF AllowedFastIsFast
  <2> QED
    BY <2>1, <2>3, <2>4, QuietInv DEF pieceVars
<1>17. ASSUME NEW c \in Conns, NEW r \in Requests, skipRequest(c, r) PROVE Inv'
  <2>1. /\ UNCHANGED <<connVars, requestVars, pieceVars, updating>>
        /\ candidates' \subseteq candidates
    BY <1>17 DEF skipRequest, Pop
  <2>2. ShouldRequest'
    BY <2>1 DEF Inv, ShouldRequest, ignoreForRequests, haveChunk, connVars,
                requestVars, pieceVars
  <2>3. AllowedFastIsFast'
    BY <1>a, <2>1 DEF AllowedFastIsFast, connVars
  <2> QED
    BY <2>1, <2>2, <2>3, QuietInv DEF connVars, pieceVars
<1>18. ASSUME NEW c \in Conns, NEW r \in Requests, request(c, r) PROVE Inv'
  BY <1>18, RequestInv
<1>19. ASSUME NEW c \in Conns, NEW r \in Requests, stealRequest(c, r) PROVE Inv'
  BY <1>19, StealInv
<1>20. ASSUME NEW c \in Conns, endUpdateRequests(c) PROVE Inv'
  <2>1. UNCHANGED <<connVars, requestVars, pieceVars>> /\ updating' = NoConn
    BY <1>20 DEF endUpdateRequests
  <2>2. AllowedFastIsFast' /\ ShouldRequest'
    BY <1>a, <2>1 DEF AllowedFastIsFast, ShouldRequest, connVars
  <2> QED
    BY <2>1, <2>2, QuietInv DEF connVars, pieceVars
<1>21. CASE UNCHANGED vars
  <2>1. UNCHANGED <<connVars, requestVars, pieceVars, updateVars>>
    BY <1>21 DEF vars
  <2>2. ShouldRequest'
    BY <2>1 DEF Inv, ShouldRequest, ignoreForRequests, haveChunk, connVars,
                requestVars, pieceVars, updateVars
  <2>3. AllowedFastIsFast'
    BY <1>a, <2>1 DEF AllowedFastIsFast, connVars
  <2> QED
    BY <2>1, <2>2, <2>3, QuietInv DEF connVars, pieceVars
<1> QED
  BY <1>1, <1>2, <1>3, <1>4, <1>5, <1>5b, <1>6, <1>7, <1>8, <1>9, <1>10, <1>11, <1>12,
     <1>13, <1>13b, <1>13c, <1>14, <1>15, <1>16, <1>17, <1>18, <1>19, <1>20, <1>21
  DEF Next, ConnNext, PieceNext
-----------------------------------------------------------------------------
\* Every variable keeps its type, and the inductive invariant holds, in every
\* reachable state: for any number of connections and chunks, no sequence of
\* requests, steals, cancels, rejects, chokes, chunks, drops and piece checks
\* trips the panics of request, cancel, deleteRequest, decExpectedChunkReceive
\* and deletePeerConn.
THEOREM InvHolds == Spec => [](TypeOK /\ Inv)
<1>1. Init => TypeOK /\ Inv
  BY InitType, InitInv
<1>2. TypeOK /\ Inv /\ [Next]_vars => (TypeOK /\ Inv)'
  BY NextType, NextInv DEF Inv
<1> QED
  BY <1>1, <1>2, PTL DEF Spec

\* A chunk is asked of at most one connection at a time, and the torrent's and
\* the connections' records of it agree.
THEOREM OwnershipHolds == Spec => []RequestOwnership
BY InvHolds, PTL DEF Inv

\* Outstanding and cancelled requests are disjoint and each is still expected.
THEOREM ExpectedHolds == Spec => []ExpectedChunks
BY InvHolds, PTL DEF Inv

\* A chunk that is held, or of a complete piece, is not requested.
THEOREM HeldHolds == Spec => []NoRequestForHeldChunk
BY InvHolds, PTL DEF Inv

\* No request is left on a connection that can no longer answer it.
THEOREM ForgottenHolds == Spec => []NoForgottenRequest
BY InvHolds, PTL DEF Inv

\* The checks of shouldRequest never fail within an update.
THEOREM ShouldRequestHolds == Spec => []ShouldRequest
BY InvHolds, PTL DEF Inv
-----------------------------------------------------------------------------
\* Only request and stealRequest give a chunk to a connection.
LEMMA WhoRequests ==
  ASSUME TypeOK, Next, NEW r \in Requests,
         requestState'[r] # requestState[r], requestState'[r] # NoConn
  PROVE  \E c \in Conns : request(c, r) \/ stealRequest(c, r)
<1>t. requestState \in [Requests -> Conns \cup {NoConn}]
  BY DEF TypeOK
<1>1. ASSUME NEW c \in Conns, dropConnection(c) \/ Choke(c) PROVE FALSE
  <2>1. \/ requestState' = requestState
        \/ requestState' = [q \in Requests |->
             IF q \in requests[c] THEN NoConn ELSE requestState[q]]
    BY <1>1 DEF dropConnection, Choke, deleteAllRequests
  <2> QED
    BY <1>t, <2>1
<1>2. ASSUME NEW c \in Conns, NEW q \in Requests,
             Reject(c, q) \/ ReceiveRedundantChunk(c, q) \/ ReceiveChunk(c, q)
      PROVE FALSE
  BY <1>t, <1>2 DEF Reject, ReceiveRedundantChunk, ReceiveChunk
<1>3. ASSUME NEW c \in Conns, NEW failed \in SUBSET Requests, flushChunkWrites(c, failed)
      PROVE FALSE
  BY <1>t, <1>3 DEF flushChunkWrites, cancelRequests
<1>4. ASSUME NEW i \in Pieces, PieceNext(i) PROVE FALSE
  BY <1>t, <1>4 DEF PieceNext, queuePieceCheck, startHash, PieceHashedPassed,
              PieceHashedFailed, PieceFound, PieceLost, onPieceCompleted,
              cancelRequests, requestVars
<1>5. ASSUME DisallowDataDownload \/ AllowDataDownload PROVE FALSE
  BY <1>t, <1>5 DEF DisallowDataDownload, AllowDataDownload, cancelRequests, requestVars
<1>6. ASSUME NEW c \in Conns,
             \/ addPeerConn(c) \/ close(c) \/ Unchoke(c) \/ Suggest(c)
             \/ beginUpdateRequests(c) \/ endUpdateRequests(c)
             \/ \E i \in Pieces : peerSentHave(c, i) \/ AllowedFast(c, i)
             \/ \E P \in SUBSET Pieces : peerSentBitfield(c, P)
             \/ \E q \in Requests : skipRequest(c, q)
      PROVE FALSE
  BY <1>6 DEF addPeerConn, close, Unchoke, Suggest, beginUpdateRequests,
              endUpdateRequests, peerSentHave, peerSentBitfield, AllowedFast,
              skipRequest, requestVars
<1>7. ASSUME NEW c \in Conns, NEW q \in Requests, request(c, q) \/ stealRequest(c, q)
      PROVE  q = r
  BY <1>t, <1>7 DEF request, stealRequest
<1> QED
  BY <1>1, <1>2, <1>3, <1>4, <1>5, <1>6, <1>7 DEF Next, ConnNext

\* Nothing is requested of a piece that is complete, queued for hash, being
\* hashed or marked.
THEOREM NoRequestDuringCheckHolds == Spec => NoRequestDuringCheck
<1>1. TypeOK /\ Inv /\ [Next]_vars =>
        [\A r \in Requests :
           requestState[r] = NoConn /\ requestState'[r] # NoConn =>
             PieceOf[r] \notin completed \cup queued \cup hashing]_vars
  <2> SUFFICES ASSUME TypeOK, Inv, Next, NEW r \in Requests,
                      requestState[r] = NoConn, requestState'[r] # NoConn
               PROVE  PieceOf[r] \notin completed \cup queued \cup hashing
    OBVIOUS
  <2>1. PICK c \in Conns : request(c, r) \/ stealRequest(c, r)
    BY WhoRequests
  <2>2. updating = c /\ r \in candidates
    BY <2>1 DEF request, stealRequest, Pop
  <2> QED
    BY <2>2, ConnsAssumption DEF Inv, ShouldRequest, ignoreForRequests
<1> QED
  BY <1>1, InvHolds, PTL DEF Spec, NoRequestDuringCheck
-----------------------------------------------------------------------------
\* Only ReceiveChunk, flushChunkWrites and the steps of the piece checks touch
\* what ReceivedPieceChecked speaks of.
CheckVars == <<dirtyChunks, writing, queued, hashing>>

LEMMA CheckedUnchanged ==
  ASSUME ReceivedPieceChecked, UNCHANGED CheckVars PROVE ReceivedPieceChecked'
BY DEF ReceivedPieceChecked, CheckVars

\* Fewer dirty chunks and no fewer checks leave the property as it is.
LEMMA CheckedShrinks ==
  ASSUME ReceivedPieceChecked, dirtyChunks' \subseteq dirtyChunks, writing' = writing,
         queued \cup hashing \subseteq queued' \cup hashing'
  PROVE  ReceivedPieceChecked'
BY DEF ReceivedPieceChecked

\* A check of piece i ends with its dirty chunks not all dirty.
LEMMA CheckedEnds ==
  ASSUME ReceivedPieceChecked, NEW i \in Pieces, writing' = writing,
         queued' = queued, hashing \ {i} \subseteq hashing',
         dirtyChunks' = dirtyChunks \ ChunksOf(i) \/
           (dirtyChunks' = dirtyChunks /\ ~(ChunksOf(i) \subseteq dirtyChunks))
  PROVE  ReceivedPieceChecked'
<1> SUFFICES ASSUME NEW k \in Pieces, ChunksOf(k) # {}, ChunksOf(k) \subseteq dirtyChunks',
                    \A c \in Conns : writing'[c] \cap ChunksOf(k) = {}
             PROVE  k \in queued' \cup hashing'
  BY DEF ReceivedPieceChecked
<1>1. dirtyChunks' \subseteq dirtyChunks
  OBVIOUS
<1>2. k # i
  OBVIOUS
<1>3. k \in queued \cup hashing
  BY <1>1 DEF ReceivedPieceChecked
<1> QED
  BY <1>2, <1>3

\* A chunk received is being written, and so is its piece.
LEMMA CheckedReceive ==
  ASSUME TypeOK, ReceivedPieceChecked, NEW c \in Conns, NEW r \in Requests,
         ReceiveChunk(c, r)
  PROVE  ReceivedPieceChecked'
<1> SUFFICES ASSUME NEW i \in Pieces, ChunksOf(i) # {}, ChunksOf(i) \subseteq dirtyChunks',
                    \A d \in Conns : writing'[d] \cap ChunksOf(i) = {}
             PROVE  i \in queued' \cup hashing'
  BY DEF ReceivedPieceChecked
<1>1. /\ writing' = [writing EXCEPT ![c] = writing[c] \cup {r}]
      /\ dirtyChunks' = dirtyChunks \cup {r}
      /\ UNCHANGED <<queued, hashing>>
  BY DEF ReceiveChunk
<1>2. writing \in [Conns -> SUBSET Requests]
  BY DEF TypeOK
<1>3. r \in writing'[c] /\ \A d \in Conns : writing[d] \subseteq writing'[d]
  BY <1>1, <1>2
<1>4. r \notin ChunksOf(i)
  BY <1>3
<1>5. ChunksOf(i) \subseteq dirtyChunks /\ \A d \in Conns : writing[d] \cap ChunksOf(i) = {}
  BY <1>1, <1>3, <1>4
<1> QED
  BY <1>1, <1>5 DEF ReceivedPieceChecked

\* The batch of c is written: a piece of which it wrote the last chunk is
\* queued, and any other piece was complete on disk before.
LEMMA CheckedFlush ==
  ASSUME TypeOK, ReceivedPieceChecked, NEW c \in Conns, NEW failed \in SUBSET Requests,
         flushChunkWrites(c, failed)
  PROVE  ReceivedPieceChecked'
<1> SUFFICES ASSUME NEW i \in Pieces, ChunksOf(i) # {}, ChunksOf(i) \subseteq dirtyChunks',
                    \A d \in Conns : writing'[d] \cap ChunksOf(i) = {}
             PROVE  i \in queued' \cup hashing'
  BY DEF ReceivedPieceChecked
<1>1. /\ writing' = [writing EXCEPT ![c] = {}]
      /\ dirtyChunks' = dirtyChunks \ failed
      /\ queued' = queued \cup writtenPieces(c, failed) /\ hashing' = hashing
  BY DEF flushChunkWrites
<1>2. writing \in [Conns -> SUBSET Requests]
  BY DEF TypeOK
<1>3. \A d \in Conns \ {c} : writing[d] \cap ChunksOf(i) = {}
  BY <1>1, <1>2
<1>4. CASE writing[c] \cap ChunksOf(i) = {}
  <2>1. \A d \in Conns : writing[d] \cap ChunksOf(i) = {}
    BY <1>3, <1>4
  <2>2. ChunksOf(i) \subseteq dirtyChunks
    BY <1>1
  <2> QED
    BY <1>1, <2>1, <2>2 DEF ReceivedPieceChecked
<1>5. CASE writing[c] \cap ChunksOf(i) # {}
  <2>1. PICK r \in writing[c] : r \in ChunksOf(i)
    BY <1>5
  <2>2. r \notin failed /\ PieceOf[r] = i /\ ChunksOf(i) \subseteq dirtyChunks \ failed
    BY <1>1, <2>1 DEF ChunksOf
  <2>3. i \in writtenPieces(c, failed)
    BY <1>3, <2>1, <2>2 DEF writtenPieces
  <2> QED
    BY <1>1, <2>3
<1> QED
  BY <1>4, <1>5

\* No received piece is left unchecked, however its chunks are spread over
\* connections and batches of writes and whichever of the writes fail.
THEOREM ReceivedPieceCheckedHolds == Spec => []ReceivedPieceChecked
<1>1. Init => ReceivedPieceChecked
  BY DEF Init, ReceivedPieceChecked
<1>2. TypeOK /\ ReceivedPieceChecked /\ [Next]_vars => ReceivedPieceChecked'
  <2> SUFFICES ASSUME TypeOK, ReceivedPieceChecked, [Next]_vars PROVE ReceivedPieceChecked'
    OBVIOUS
  <2>1. ASSUME NEW c \in Conns, NEW r \in Requests, ReceiveChunk(c, r)
        PROVE  ReceivedPieceChecked'
    BY <2>1, CheckedReceive
  <2>2. ASSUME NEW c \in Conns, NEW failed \in SUBSET Requests, flushChunkWrites(c, failed)
        PROVE  ReceivedPieceChecked'
    BY <2>2, CheckedFlush
  <2>3. ASSUME NEW i \in Pieces, queuePieceCheck(i) \/ startHash(i)
        PROVE  ReceivedPieceChecked'
    <3>1. /\ UNCHANGED <<dirtyChunks, writing>>
          /\ queued \cup hashing \subseteq queued' \cup hashing'
      BY <2>3 DEF queuePieceCheck, startHash
    <3> QED
      BY <3>1, CheckedShrinks
  <2>4. ASSUME NEW i \in Pieces, PieceHashedPassed(i) \/ PieceHashedFailed(i)
        PROVE  ReceivedPieceChecked'
    <3>1. /\ UNCHANGED <<writing, queued>> /\ hashing' = hashing \ {i}
          /\ \/ dirtyChunks' = dirtyChunks \ ChunksOf(i)
             \/ dirtyChunks' = dirtyChunks /\ ~(ChunksOf(i) \subseteq dirtyChunks)
      BY <2>4 DEF PieceHashedPassed, PieceHashedFailed
    <3> QED
      BY <3>1, CheckedEnds
  <2>5. ASSUME NEW i \in Pieces, PieceFound(i) \/ PieceLost(i) PROVE ReceivedPieceChecked'
    <3>1. UNCHANGED <<writing, queued, hashing>> /\ dirtyChunks' \subseteq dirtyChunks
      BY <2>5 DEF PieceFound, PieceLost
    <3> QED
      BY <3>1, CheckedShrinks
  <2>6. ASSUME NEW c \in Conns,
               \/ addPeerConn(c) \/ close(c) \/ dropConnection(c)
               \/ Choke(c) \/ Unchoke(c) \/ Suggest(c)
               \/ beginUpdateRequests(c) \/ endUpdateRequests(c)
               \/ \E i \in Pieces : peerSentHave(c, i) \/ AllowedFast(c, i)
               \/ \E P \in SUBSET Pieces : peerSentBitfield(c, P)
        PROVE  ReceivedPieceChecked'
    <3>1. UNCHANGED CheckVars
      BY <2>6, Zenon DEF CheckVars, pieceVars, addPeerConn, close, dropConnection, Choke,
         Unchoke, Suggest, beginUpdateRequests, endUpdateRequests, peerSentHave,
         AllowedFast, peerSentBitfield
    <3> QED
      BY <3>1, CheckedUnchanged
  <2>7. ASSUME NEW c \in Conns, NEW r \in Requests,
               \/ Reject(c, r) \/ ReceiveRedundantChunk(c, r)
               \/ skipRequest(c, r) \/ request(c, r) \/ stealRequest(c, r)
        PROVE  ReceivedPieceChecked'
    <3>1. UNCHANGED CheckVars
      BY <2>7, Zenon DEF CheckVars, pieceVars, Reject, ReceiveRedundantChunk, skipRequest,
         request, stealRequest, Pop
    <3> QED
      BY <3>1, CheckedUnchanged
  <2>8. ASSUME DisallowDataDownload \/ AllowDataDownload PROVE ReceivedPieceChecked'
    BY <2>8, CheckedUnchanged DEF DisallowDataDownload, AllowDataDownload, CheckVars
  <2>9. CASE UNCHANGED vars
    BY <2>9, CheckedUnchanged DEF vars, pieceVars, CheckVars
  <2> QED
    BY <2>1, <2>2, <2>3, <2>4, <2>5, <2>6, <2>7, <2>8, <2>9 DEF Next, ConnNext, PieceNext
<1> QED
  BY <1>1, <1>2, InvHolds, PTL DEF Spec
=============================================================================
