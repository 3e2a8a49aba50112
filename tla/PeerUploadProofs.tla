-------------------------- MODULE PeerUploadProofs --------------------------
(* The safety properties of PeerUpload hold for every set of requests, and   *)
(* with and without the fast extension.                                      *)
EXTENDS PeerUpload, FiniteSetTheorems, TLAPS

\* How the number of ready requests changes when one is added or deleted, and
\* when some are sent.
LEMMA ReadyCount ==
  ASSUME NEW A \in SUBSET Requests
  PROVE  /\ IsFiniteSet(A) /\ Cardinality(A) \in Nat
         /\ \A r \in A : /\ Cardinality(A \ {r}) = Cardinality(A) - 1
                         /\ Cardinality(A) > 0
         /\ \A r \in Requests \ A : Cardinality(A \cup {r}) = Cardinality(A) + 1
         /\ \A S \in SUBSET A : /\ Cardinality(A \ S) = Cardinality(A) - Cardinality(S)
                                /\ Cardinality(S) \in Nat
                                /\ Cardinality(S) <= Cardinality(A)
<1>1. IsFiniteSet(A) /\ Cardinality(A) \in Nat
  BY FiniteRequests, FS_Subset, FS_CardinalityType
<1>2. \A r \in A : Cardinality(A \ {r}) = Cardinality(A) - 1
  BY <1>1, FS_RemoveElement
<1>3. \A r \in A : Cardinality(A) > 0
  BY <1>1, FS_EmptySet
<1>4. \A r \in Requests \ A : Cardinality(A \cup {r}) = Cardinality(A) + 1
  BY <1>1, FS_AddElement
<1>5. ASSUME NEW S \in SUBSET A
      PROVE  /\ Cardinality(A \ S) = Cardinality(A) - Cardinality(S)
             /\ Cardinality(S) \in Nat /\ Cardinality(S) <= Cardinality(A)
  <2>1. IsFiniteSet(S) /\ Cardinality(S) \in Nat /\ Cardinality(S) <= Cardinality(A)
    BY <1>1, FS_Subset, FS_CardinalityType
  <2>2. Cardinality(A \ S) = Cardinality(A) - Cardinality(A \cap S)
    BY <1>1, <2>1, FS_Difference
  <2>3. A \cap S = S
    OBVIOUS
  <2> QED
    BY <2>1, <2>2, <2>3
<1> QED
  BY <1>1, <1>2, <1>3, <1>4, <1>5

\* Requests that are unread and requests that are ready are counted apart.
LEMMA HeldCount ==
  ASSUME TypeOK, unread \cap ready = {}
  PROVE  Cardinality(unread \cup ready) = Cardinality(unread) + Cardinality(ready)
<1>1. IsFiniteSet(unread) /\ IsFiniteSet(ready)
  BY ReadyCount DEF TypeOK
<1>2. Cardinality(unread \cup ready) =
        Cardinality(unread) + Cardinality(ready) - Cardinality(unread \cap ready)
  BY <1>1, FS_Union
<1>3. Cardinality(unread) \in Nat /\ Cardinality(ready) \in Nat
  BY ReadyCount DEF TypeOK
<1>4. Cardinality(unread \cap ready) = 0
  BY FS_EmptySet
<1> QED
  BY <1>2, <1>3, <1>4

\* newConnection starts with nothing requested and no server.
LEMMA InitInv == Init => TypeOK /\ Inv
<1> SUFFICES ASSUME Init PROVE TypeOK /\ Inv
  OBVIOUS
<1>1. Cardinality({}) = 0
  BY FS_EmptySet
<1>2. TypeOK
  BY DEF Init, TypeOK
<1>3. BufferOwnership
  BY <1>1 DEF Init, BufferOwnership
<1>4. ServerRuns /\ ChokedKeepsNothing /\ NoForgottenRequest
  BY DEF Init, ServerRuns, ChokedKeepsNothing, NoForgottenRequest
<1> QED
  BY <1>2, <1>3, <1>4 DEF Init, Inv, ServerState

\* Every critical section preserves the types and the invariant.
LEMMA NextInv == TypeOK /\ Inv /\ [Next]_vars => (TypeOK /\ Inv)'
<1> SUFFICES ASSUME TypeOK, Inv, [Next]_vars PROVE (TypeOK /\ Inv)'
  OBVIOUS
<1> USE DEF TypeOK, Inv, BufferOwnership, ServerRuns, ChokedKeepsNothing,
            NoForgottenRequest, ServerState, serverVars, peerVars
<1>1. /\ Cardinality({}) = 0 /\ Cardinality(ready) \in Nat
      /\ \A r \in Requests : r \notin ready => ready \ {r} = ready
      /\ \A r \in ready : /\ Cardinality(ready \ {r}) = Cardinality(ready) - 1
                          /\ Cardinality(ready) > 0
      /\ IF server = "reading" THEN buffers = Cardinality(ready) + 1
         ELSE buffers = Cardinality(ready)
  BY FS_EmptySet, ReadyCount
<1>2. CASE uploadAllowed
  BY <1>2 DEF uploadAllowed
<1>3. ASSUME NEW i \in Pieces, pieceCompletionChanged(i) PROVE (TypeOK /\ Inv)'
  BY <1>3 DEF pieceCompletionChanged
<1>4. ASSUME close PROVE (TypeOK /\ Inv)'
  <2>1. buffers' = (IF server = "reading" THEN 1 ELSE 0) /\ ready' = {} /\ server' = server
    BY <1>1, <1>4 DEF close, deleteAllPeerRequests
  <2>2. buffers' \in Nat /\ BufferOwnership'
    BY <1>1, <2>1
  <2> QED
    BY <1>4, <2>1, <2>2 DEF close, deleteAllPeerRequests, Forget
<1>5. ASSUME NEW r \in Requests, onReadRequest(r) PROVE (TypeOK /\ Inv)'
  BY <1>5 DEF onReadRequest, havePeerRequest, startPeerRequestServer, Overrun
<1>6. ASSUME NEW r \in Requests, refuseRequest(r) PROVE (TypeOK /\ Inv)'
  <2>1. r \notin unread \cup ready
    BY <1>6 DEF refuseRequest, havePeerRequest
  <2>2. unread' = unread /\ ready' = ready /\ buffers' = buffers
        /\ allocDecreased' \in BOOLEAN
    BY <1>6, <2>1 DEF refuseRequest, deletePeerRequest, Broadcast
  <2>3. NoForgottenRequest'
    <3>1. CASE fastEnabled
      BY <1>6, <2>2, <3>1 DEF refuseRequest
    <3>2. CASE ~fastEnabled /\ choking
      BY <1>6, <2>2, <3>2 DEF refuseRequest, Overrun
    <3>3. CASE ~fastEnabled /\ ~choking
      <4>1. owed' = owed \cup {r} /\ fastEnabled' = fastEnabled
        BY <1>6, <3>3 DEF refuseRequest
      <4>2. CASE overran
        <5>1. overran'
          BY <1>6, <4>2, Zenon DEF refuseRequest, Overrun
        <5> QED
          BY <2>2, <3>3, <4>1, <5>1
      <4>3. CASE ~overran
        <5>1. owed = unread \cup ready /\ numPeerRequests >= localClientReqq
          BY <1>6, <3>3, <4>3 DEF refuseRequest
        <5>2. Cardinality(owed) = numPeerRequests
          BY <5>1, HeldCount DEF numPeerRequests
        <5>3. overran'
          BY <1>6, <5>1, <5>2 DEF refuseRequest, Overrun
        <5> QED
          BY <2>2, <3>3, <4>1, <5>3
      <4> QED
        BY <4>2, <4>3
    <3> QED
      BY <3>1, <3>2, <3>3
  <2>4. owed' \subseteq Requests /\ overran' \in BOOLEAN
    BY <1>6 DEF refuseRequest, Overrun
  <2> QED
    BY <1>6, <2>2, <2>3, <2>4 DEF refuseRequest
<1>7. ASSUME NEW r \in Requests, invalidRequest(r) PROVE (TypeOK /\ Inv)'
  BY <1>4, <1>7 DEF invalidRequest
<1>8. ASSUME NEW r \in Requests, onPeerSentCancel(r) PROVE (TypeOK /\ Inv)'
  <2>1. /\ deletePeerRequest(r, buffers)
        /\ owed' = owed \ {r} /\ overran' = overran /\ stray' \in BOOLEAN
    BY <1>8 DEF onPeerSentCancel, reject, Answer, deletePeerRequest, Broadcast,
       havePeerRequest
  <2>2. UNCHANGED <<fastEnabled, closed, choking, allowed, have, server, serving>>
    BY <1>8 DEF onPeerSentCancel
  <2> QED
    <3>1. buffers' \in Nat /\ BufferOwnership'
      <4>1. CASE r \in ready
        BY <1>1, <2>1, <2>2, <4>1 DEF deletePeerRequest
      <4>2. CASE r \notin ready
        BY <1>1, <2>1, <2>2, <4>2 DEF deletePeerRequest
      <4> QED
        BY <4>1, <4>2
    <3>2. TypeOK'
      BY <2>1, <2>2, <3>1 DEF deletePeerRequest, Broadcast
    <3>3. (ServerRuns /\ ChokedKeepsNothing /\ NoForgottenRequest)'
      BY <1>1, <2>1, <2>2 DEF deletePeerRequest, Broadcast
    <3>4. ServerState'
      BY <1>1, <2>1, <2>2 DEF deletePeerRequest, Broadcast
    <3> QED
      BY <3>1, <3>2, <3>3, <3>4
<1>9. ASSUME NEW r \in Requests, servePeerRequest(r) PROVE (TypeOK /\ Inv)'
  <2>1. CASE Size[r] > MaxAlloc /\ fastEnabled
    <3>1. TypeOK'
      BY <1>1, <1>9, <2>1 DEF servePeerRequest, useBestReject, reject,
           deletePeerRequest, Broadcast, Answer
    <3>2. BufferOwnership'
      BY <1>1, <1>9, <2>1 DEF servePeerRequest, useBestReject, reject,
           deletePeerRequest, Broadcast, Answer
    <3>3. (ServerRuns /\ ChokedKeepsNothing /\ NoForgottenRequest)'
      BY <1>1, <1>9, <2>1 DEF servePeerRequest, useBestReject, reject,
           deletePeerRequest, Broadcast, Answer
    <3>4. ServerState'
      BY <1>1, <1>9, <2>1 DEF servePeerRequest, useBestReject, reject,
           deletePeerRequest, Broadcast, Answer
    <3> QED
      BY <3>1, <3>2, <3>3, <3>4
  <2>2. CASE Size[r] > MaxAlloc /\ ~fastEnabled
    <3>1. ~choking /\ deleteAllPeerRequests(buffers) /\ server' = server
      BY <1>9, <2>2 DEF servePeerRequest, useBestReject, choke
    <3>2. buffers' = 0 /\ BufferOwnership'
      BY <1>1, <1>9, <3>1 DEF servePeerRequest, deleteAllPeerRequests
    <3>5. TypeOK'
      <4>1. /\ unread' = {} /\ ready' = {} /\ owed' = {} /\ overran' = FALSE
            /\ choking' = TRUE
            /\ UNCHANGED <<fastEnabled, closed, allowed, have, server, serving,
                           stray, allocDecreased>>
        BY <1>9, <2>2, <3>1 DEF servePeerRequest, useBestReject, choke,
           deleteAllPeerRequests, Forget
      <4>2. buffers' \in Nat
        BY <3>2
      <4> QED
        BY <4>1, <4>2, Zenon
    <3>3. (ServerRuns /\ ChokedKeepsNothing /\ NoForgottenRequest)'
      BY <1>1, <1>9, <2>2 DEF servePeerRequest, useBestReject, choke,
           deleteAllPeerRequests, Forget
    <3>4. ServerState'
      BY <1>1, <1>9, <2>2 DEF servePeerRequest, useBestReject, choke,
           deleteAllPeerRequests
    <3> QED
      BY <3>2, <3>3, <3>4, <3>5
  <2>3. CASE ~(Size[r] > MaxAlloc)
    <3>1. TypeOK'
      BY <1>1, <1>9, <2>3 DEF servePeerRequest
    <3>2. BufferOwnership'
      BY <1>1, <1>9, <2>3 DEF servePeerRequest
    <3>3. (ServerRuns /\ ChokedKeepsNothing /\ NoForgottenRequest)'
      BY <1>1, <1>9, <2>3 DEF servePeerRequest
    <3>4. ServerState'
      BY <1>1, <1>9, <2>3 DEF servePeerRequest
    <3> QED
      BY <3>1, <3>2, <3>3, <3>4
  <2> QED
    BY <2>1, <2>2, <2>3
<1>10. CASE waitForDataAlloc
  <2>1. TypeOK'
    <3>1. buffers' \in Nat /\ server' \in {"reading", "waiting"}
      BY <1>10 DEF waitForDataAlloc
    <3> QED
      BY <1>10, <3>1 DEF waitForDataAlloc
  <2>2. BufferOwnership'
    BY <1>1, <1>10 DEF waitForDataAlloc
  <2>3. (ServerRuns /\ ChokedKeepsNothing /\ NoForgottenRequest)'
    BY <1>1, <1>10 DEF waitForDataAlloc
  <2>4. ServerState'
    BY <1>1, <1>10 DEF waitForDataAlloc
  <2> QED
    BY <2>1, <2>2, <2>3, <2>4
<1>11. CASE waitForDataAllocClosed
  BY <1>11 DEF waitForDataAllocClosed
<1>12. CASE peerRequestDataRead
  <2>1. PICK r \in Requests : serving = {r}
    BY <1>12 DEF peerRequestDataRead
  <2>2. CASE r \in unread
    <3>1. TypeOK'
      BY <1>1, <1>12, <2>1, <2>2, ReadyCount DEF peerRequestDataRead
    <3>2. BufferOwnership'
      <4>1. ready' = ready \cup {r} /\ r \notin ready /\ buffers' = buffers
        BY <1>12, <2>1, <2>2 DEF peerRequestDataRead
      <4>2. Cardinality(ready') = Cardinality(ready) + 1
        BY <4>1, ReadyCount
      <4> QED
        BY <1>1, <1>12, <4>1, <4>2 DEF peerRequestDataRead
    <3>3. (ServerRuns /\ ChokedKeepsNothing /\ NoForgottenRequest)'
      BY <1>1, <1>12, <2>1, <2>2, ReadyCount DEF peerRequestDataRead
    <3>4. ServerState'
      BY <1>1, <1>12, <2>1, <2>2, ReadyCount DEF peerRequestDataRead
    <3> QED
      BY <3>1, <3>2, <3>3, <3>4
  <2>3. CASE r \notin unread
    <3>1. ready' = ready /\ unread' = unread /\ buffers' = Cardinality(ready)
      BY <1>1, <1>12, <2>1, <2>3 DEF peerRequestDataRead
    <3> QED
      BY <1>1, <1>12, <3>1 DEF peerRequestDataRead
  <2> QED
    BY <2>2, <2>3
<1>13. CASE peerRequestDataReadFailed
  <2>1. PICK r \in Requests : serving = {r}
    BY <1>13 DEF peerRequestDataReadFailed
  <2>2. buffers - 1 = Cardinality(ready) /\ Cardinality(ready) \in Nat
    BY <1>13, ReadyCount DEF peerRequestDataReadFailed
  <2>3. CASE useBestReject(r, buffers - 1) /\ fastEnabled
    <3>0. /\ unread' = unread \ {r} /\ ready' = ready \ {r}
          /\ buffers' = IF r \in ready THEN Cardinality(ready) - 1 ELSE Cardinality(ready)
          /\ Broadcast(r \in ready) /\ Answer({r})
          /\ UNCHANGED <<fastEnabled, closed, choking, allowed, have>>
          /\ server' = "loop" /\ serving' = {}
      BY <1>13, <2>1, <2>2, <2>3 DEF peerRequestDataReadFailed, useBestReject,
         reject, deletePeerRequest
    <3>2. buffers' \in Nat /\ BufferOwnership'
      <4>1. CASE r \in ready
        <5>1. /\ Cardinality(ready) \in Nat /\ Cardinality(ready) > 0
              /\ Cardinality(ready') = Cardinality(ready) - 1
          BY <1>1, <3>0, <4>1
        <5>2. buffers' = Cardinality(ready) - 1
          BY <3>0, <4>1
        <5> QED
          BY <3>0, <5>1, <5>2
      <4>2. CASE r \notin ready
        <5>1. ready' = ready
          BY <3>0, <4>2
        <5>2. buffers' = Cardinality(ready') /\ Cardinality(ready') \in Nat
          BY <2>2, <3>0, <4>2, <5>1
        <5>3. server' # "reading"
          BY <3>0
        <5> QED
          BY <5>2, <5>3
      <4> QED
        BY <4>1, <4>2
    <3>1. TypeOK'
      BY <3>0, <3>2 DEF Broadcast, Answer
    <3>3. (ServerRuns /\ ChokedKeepsNothing /\ NoForgottenRequest)'
      BY <1>1, <1>13, <2>1, <2>2, <2>3 DEF peerRequestDataReadFailed,
           useBestReject, reject, deletePeerRequest, Broadcast, Answer
    <3>4. ServerState'
      BY <1>1, <1>13, <2>1, <2>2, <2>3 DEF peerRequestDataReadFailed,
           useBestReject, reject, deletePeerRequest, Broadcast, Answer
    <3> QED
      BY <3>1, <3>2, <3>3, <3>4
  <2>4. CASE useBestReject(r, buffers - 1) /\ ~fastEnabled
    <3>1. TypeOK'
      <4>1. buffers' \in Nat
        BY <1>1, <2>2, <2>4 DEF useBestReject, choke, deleteAllPeerRequests
      <4>2. /\ unread' \subseteq Requests /\ ready' \subseteq Requests
            /\ owed' \subseteq Requests /\ overran' \in BOOLEAN
            /\ choking' \in BOOLEAN /\ UNCHANGED <<allocDecreased, stray>>
        BY <2>4 DEF useBestReject, choke, deleteAllPeerRequests, Forget
      <4> QED
        BY <1>13, <4>1, <4>2, Zenon DEF peerRequestDataReadFailed
    <3>2. BufferOwnership'
      <4>1. buffers' = Cardinality(ready') /\ Cardinality(ready') \in Nat
        <5>1. CASE choking
          BY <2>2, <2>4, <5>1 DEF useBestReject, choke
        <5>2. CASE ~choking
          <6>1. ready' = {} /\ buffers' = buffers - 1 - Cardinality(ready)
            BY <2>4, <5>2 DEF useBestReject, choke, deleteAllPeerRequests, Forget
          <6> QED
            BY <1>1, <2>2, <6>1
        <5> QED
          BY <5>1, <5>2
      <4> QED
        BY <1>13, <4>1 DEF peerRequestDataReadFailed
    <3>3. (ServerRuns /\ ChokedKeepsNothing /\ NoForgottenRequest)'
      BY <1>1, <1>13, <2>1, <2>2, <2>4 DEF peerRequestDataReadFailed,
           useBestReject, choke, deleteAllPeerRequests, Forget
    <3>4. ServerState'
      BY <1>1, <1>13, <2>1, <2>2, <2>4 DEF peerRequestDataReadFailed,
           useBestReject, choke, deleteAllPeerRequests, Forget
    <3> QED
      BY <3>1, <3>2, <3>3, <3>4
  <2>5. CASE closed /\ deletePeerRequest(r, buffers - 1) /\ UNCHANGED <<choking, peerVars>>
    <3>1. TypeOK'
      BY <1>1, <1>13, <2>1, <2>2, <2>5 DEF peerRequestDataReadFailed,
           deletePeerRequest, Broadcast
    <3>2. BufferOwnership'
      <4>1. ready' = ready /\ buffers' = Cardinality(ready)
        BY <1>1, <2>1, <2>2, <2>5 DEF deletePeerRequest
      <4> QED
        BY <1>13, <2>2, <4>1 DEF peerRequestDataReadFailed
    <3>3. (ServerRuns /\ ChokedKeepsNothing /\ NoForgottenRequest)'
      BY <1>1, <1>13, <2>1, <2>2, <2>5 DEF peerRequestDataReadFailed,
           deletePeerRequest, Broadcast
    <3>4. ServerState'
      BY <1>1, <1>13, <2>1, <2>2, <2>5 DEF peerRequestDataReadFailed,
           deletePeerRequest, Broadcast
    <3> QED
      BY <3>1, <3>2, <3>3, <3>4
  <2> QED
    BY <1>13, <2>1, <2>3, <2>4, <2>5 DEF peerRequestDataReadFailed
<1>14. CASE peerRequestServerReturn
  BY <1>14 DEF peerRequestServerReturn
<1>15. ASSUME NEW S \in SUBSET ready, upload(S) PROVE (TypeOK /\ Inv)'
  <2>1. buffers' \in Nat /\ BufferOwnership'
    <3>1. /\ Cardinality(ready \ S) = Cardinality(ready) - Cardinality(S)
          /\ Cardinality(S) \in Nat /\ Cardinality(S) <= Cardinality(ready)
      BY ReadyCount
    <3>2. ready' = ready \ S /\ buffers' = buffers - Cardinality(S) /\ server' = server
      BY <1>15 DEF upload
    <3> QED
      BY <1>1, <3>1, <3>2
  <2>2. TypeOK'
    BY <1>15, <2>1 DEF upload, Broadcast, Answer
  <2>3. (ServerRuns /\ ChokedKeepsNothing /\ NoForgottenRequest)'
    BY <1>1, <1>15, ReadyCount DEF upload, Broadcast, Answer
  <2>4. ServerState'
    BY <1>1, <1>15, ReadyCount DEF upload, Broadcast, Answer
  <2> QED
    BY <2>1, <2>2, <2>3, <2>4
<1>16. CASE stopUpload
  <2>1. CASE fastEnabled
    BY <1>16, <2>1 DEF stopUpload, choke
  <2>2. CASE ~fastEnabled
    <3>1. /\ unread' = {} /\ ready' = {} /\ buffers' = buffers - Cardinality(ready)
          /\ server' = server /\ allocDecreased' = allocDecreased
      BY <1>16, <2>2 DEF stopUpload, choke, deleteAllPeerRequests
    <3>2. buffers' \in Nat /\ BufferOwnership'
      BY <1>1, <3>1
    <3> QED
      BY <1>16, <2>2, <3>1, <3>2 DEF stopUpload, choke, Forget
  <2> QED
    BY <2>1, <2>2
<1>17. CASE UNCHANGED vars
  BY <1>17 DEF vars
<1> QED
  BY <1>2, <1>3, <1>4, <1>5, <1>6, <1>7, <1>8, <1>9, <1>10, <1>11, <1>12,
     <1>13, <1>14, <1>15, <1>16, <1>17 DEF Next, ServerNext

\* The inductive invariant holds throughout.
THEOREM InvHolds == Spec => [](TypeOK /\ Inv)
  BY InitInv, NextInv, PTL DEF Spec

\* Buffers of the chunk pool are neither lost nor put back twice.
THEOREM BufferOwnershipHolds == Spec => []BufferOwnership
  BY InvHolds, PTL DEF Inv

\* Requests that wait to be read have a server.
THEOREM ServerRunsHolds == Spec => []ServerRuns
  BY InvHolds, PTL DEF Inv

\* Without the fast extension nothing is kept for a peer we choke.
THEOREM ChokedKeepsNothingHolds == Spec => []ChokedKeepsNothing
  BY InvHolds, PTL DEF Inv

\* A peer that keeps to the number of requests we told it we hold, or that
\* understands rejects, waits for nothing that is neither unread nor ready.
THEOREM NoForgottenRequestHolds == Spec => []NoForgottenRequest
  BY InvHolds, PTL DEF Inv

\* The server never returns to its loop with the request it served still there
\* (servePeerRequest would panic).
THEOREM ServeEndsHolds == Spec => ServeEnds
<1>1. TypeOK /\ Inv /\ [Next]_vars =>
        [/\ serving # {} /\ serving' = {} => serving \cap unread' = {}
         /\ \A r \in Requests :
              servePeerRequest(r) => serving' = {r} \/ r \notin unread']_vars
  <2> SUFFICES ASSUME TypeOK, Inv, Next
               PROVE  /\ serving # {} /\ serving' = {} => serving \cap unread' = {}
                      /\ \A r \in Requests :
                           servePeerRequest(r) => serving' = {r} \/ r \notin unread'
    OBVIOUS
  <2>1. ASSUME serving # {}, serving' = {} PROVE serving \cap unread' = {}
    <3>1. CASE waitForDataAllocClosed
      BY <3>1 DEF waitForDataAllocClosed, Inv, ServerState
    <3>2. CASE peerRequestDataRead
      BY <3>2 DEF peerRequestDataRead
    <3>3. CASE peerRequestDataReadFailed
      <4>1. PICK r \in Requests : serving = {r}
        BY <3>3 DEF peerRequestDataReadFailed, Inv, ServerState
      <4>2. \/ useBestReject(r, buffers - 1) \/ deletePeerRequest(r, buffers - 1)
        BY <3>3, <4>1 DEF peerRequestDataReadFailed
      <4> QED
        BY <4>1, <4>2 DEF useBestReject, reject, choke, deletePeerRequest,
           deleteAllPeerRequests, Inv, ChokedKeepsNothing
    <3>4. serving' = serving \/ serving = {} \/ waitForDataAllocClosed
          \/ peerRequestDataRead \/ peerRequestDataReadFailed
      BY DEF Next, ServerNext, uploadAllowed, close, stopUpload,
         pieceCompletionChanged, onPeerSentCancel, onReadRequest, refuseRequest,
         invalidRequest, upload, servePeerRequest, waitForDataAlloc,
         peerRequestServerReturn, serverVars, Inv, ServerState
    <3> QED
      BY <2>1, <3>1, <3>2, <3>3, <3>4
  <2>2. ASSUME NEW r \in Requests, servePeerRequest(r)
        PROVE  serving' = {r} \/ r \notin unread'
    <3>1. CASE Size[r] > MaxAlloc
      <4>1. useBestReject(r, buffers) /\ r \in unread
        BY <2>2, <3>1 DEF servePeerRequest
      <4> QED
        BY <4>1 DEF useBestReject, reject, choke, deletePeerRequest,
           deleteAllPeerRequests, Inv, ChokedKeepsNothing
    <3>2. CASE ~(Size[r] > MaxAlloc)
      BY <2>2, <3>2 DEF servePeerRequest
    <3> QED
      BY <3>1, <3>2
  <2> QED
    BY <2>1, <2>2
<1> QED
  BY <1>1, InvHolds, PTL DEF Spec, ServeEnds
=============================================================================
