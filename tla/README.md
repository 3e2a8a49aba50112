# TLA+ models of anacrolix/torrent

Models of the BitTorrent client library in `src/`: TLA+ modules translated from
the Go code, TLC configurations that model-check them on small instances, and
TLAPS proofs of their main invariants for every value of the constants.

A client is one process with many goroutines. Nearly all of its state is
guarded by one lock, the client lock; a goroutine that needs to block (to read
from a socket, to read or write storage) releases it and takes it again. What
is hard to test is what changes in between. So an action of these modules is one
critical section of that lock, and a handler that gives the lock up in the
middle is several actions.

## The system and what is modelled

| Part | Code | Module | State |
|---|---|---|---|
| Chunk requesting: who is asked for which chunk, stealing, cancels, rejects, chokes, received chunks | `requesting.go`, `peerconn.go`, `peer.go`, `torrent.go` | `Requesting` | modelled, proved |
| Uploading to a peer: its requests, the goroutine that reads their data, buffers, rejects | `peerconn.go` | `PeerUpload` | modelled, proved |
| Piece availability: how many peers have each piece | `torrent.go`, `peerconn.go`, `webseed-peer.go` | `Availability` | modelled |
| Client lock, deferred actions | `deferrwl.go`, `client-unlock-handlers.go` | every module's actions | partly |
| Message writer | `peer-conn-msg-writer.go` | `Requesting`, `PeerUpload` (that it wakes) | partly |
| Piece hashing and marking, banning | `torrent.go`, `piece.go`, `smartban.go` | `Requesting` (outcomes) | partly |
| Connection lifecycle: dialing, handshake, limits | `client.go`, `torrent.go`, `dial-pool.go` | | planned |
| Piece priorities and readers | `reader.go`, `torrent.go` | | planned |
| Piece request order | `internal/request-strategy` | | planned (operators) |
| Metadata exchange | `torrent.go`, `peerconn.go` | | planned |
| Peer exchange | `pex.go`, `pexconn.go` | | planned |
| Tracker announcing and its timer | `client-tracker-announcer.go`, `internal/mytimer` | | planned |
| UDP tracker client | `tracker/udp` | | planned |
| Webseeds: the request scheduler | `webseed-peer.go`, `webseed-requesting.go` | `Availability` (their pieces) | planned |
| WebTorrent tracker client | `webtorrent` | | planned |
| File storage: part files, completion | `storage/file-*.go` | | planned |
| Completion stores | `storage/*-piece-completion.go` | | planned |
| Mapped files and their renames | `storage/file-io-mmap.go` | | planned |
| Allocation and rate limits | `internal/alloclim`, `internal/limiter` | | planned |
| Merkle trees, piece layers | `merkle` | | planned (operators) |
| Encrypted handshake | `mse` | | no: cryptography and one sequential exchange |
| Wire and file formats | `peer_protocol`, `bencode`, `metainfo` | | no: conversions of single values |
| DHT, port forwarding, LSD, sockets | `dht.go`, `portfwd.go`, ... | | no: glue around libraries, pure I/O |
| Filesystem and commands | `fs`, `cmd` | | no: front ends without protocol state |

`PROJECT.json` has the same inventory with the reasons, the source lines of
every definition, and the hazards: the places where an order of events that no
test tries could go wrong.

Each component `X` has the model in `X.tla`, its instances for TLC in `MCX.tla`
and the `.cfg` files, and its theorems in `XProofs.tla`. Definitions keep the
names of the code. A definition introduced by the word "Mutant" is a wrong
variant of the one after it, kept to show that a property notices it.

## Requesting

**What it models.** A torrent with its connections, each with what the peer
has, whether it chokes us, our requests to it, the cancels it has not
acknowledged, how many times each chunk may still arrive
(`validReceiveChunks`), the reason an update of its requests is due, and the
chunks it has received whose storage write has not finished. For the torrent:
`requestState` (who holds each request), the dirty chunks, and the pieces that
are complete, queued for hash or being hashed.

| Actions | Code |
|---|---|
| `addPeerConn`, `close`, `dropConnection` | connections come, are closed but still known, and are removed |
| `Choke`, `Unchoke`, `peerSentHave`, `peerSentBitfield` (HaveAll and HaveNone too), `AllowedFast`, `Suggest`, `Reject` | cases of `mainReadLoop` |
| `ReceiveChunk`, `ReceiveRedundantChunk` | `receiveChunkPrologue` |
| `flushChunkWrites` | the batch of writes with the lock released, and every `receiveChunkEpilogue` |
| `queuePieceCheck`, `startHash`, `PieceHashedPassed`, `PieceHashedFailed` | a check of a piece and its outcomes |
| `PieceFound`, `PieceLost` | `updatePieceCompletion` finds the piece complete in storage after all, or gone |
| `DisallowDataDownload`, `AllowDataDownload` | the user's switch |
| `beginUpdateRequests`, `skipRequest`, `request`, `stealRequest`, `endUpdateRequests` | `getDesiredRequestState` and the loop of `applyRequestState` |

The loop of `applyRequestState` is one step per candidate, with the lock held
(`updating`) throughout, so that its invariants can be stated in the middle of
it. `after` records which of two connections received a useful chunk more
recently, the tie-break of stealing; it stands for `lastUsefulChunkReceived`.

**Abstractions.** The torrent is a v1 torrent, all pieces have the same priority
and the info is known. `nominalMaxRequests` is any number up to `MaxRequests` at
each update. Limits on unverified bytes and storage capacity, storage that cannot
tell whether it has a piece, webseeds, and the close of the torrent are left out.
Anything that ends a connection is `dropConnection`. Whether a connection to a peer
that has everything is dropped once we have everything is left open. Chunks of one
batch may interleave with other actions, where the code may keep the lock: a
superset of its behaviours. A hash does not wait for writes in progress, also a
superset. That `applyRequestState` returns early when the Interested message fills
the write buffer (`requesting.go:374`) is left out: requests are only updated with
the buffer at most at its low-water mark, and what else is written just before, the
hash requests of v2 torrents, is not modelled.

`validReceiveChunks` counts up to `MaxExpected`, which stands for that many or more:
an answer leaves it there or takes one off. No request is withheld on account of
this bound. Where a passing run uses it, it explores more than the code does; in
`RequestingStall`, where a counterexample has to be one of the code, the bound is
above any count that occurs. `LeavingConns`, `BitfieldConns`, `RejectingConns`,
`UserCalls` and the rest say what the peers and the user of an instance do, so that
each run explores one mix of events in full; in the proofs they are any sets.

**Properties.**

| Property | Says |
|---|---|
| `RequestOwnership` | the torrent and the connections agree who holds each request, and at most one does |
| `ExpectedChunks` | what is outstanding or cancelled is still expected, and never both at once |
| `NoRequestForHeldChunk` | nothing we hold is being asked of anyone |
| `NoForgottenRequest` | no request is left on a connection that cannot answer it |
| `ShouldRequest` | what an update has yet to ask for still passes the checks of `shouldRequest`, which panics otherwise |
| `NoRequestDuringCheck` | nothing new is asked of a piece that is being checked |
| `ReceivedPieceChecked` | a piece whose chunks are all received and written is queued for hash or being hashed, whatever batches they came in and whichever other writes failed |
| `NoStealCircles` | stealing comes to an end unless requests keep ending or useful chunks keep arriving (liveness) |
| `NoLostWakeup` | an idle connection that could take a free chunk has an update due |
| `IdleConnAskedAgain` | such a chunk does not stay free (liveness) |

**Runs.**

| Run | Instance | States |
|---|---|---|
| `Requesting` | two connections that stay (one with the fast extension, acknowledgements and rejects, one without, that announces its pieces anew at any time), a piece of two chunks, writes that fail with the user's handler for them: the state invariants, `ReceivedPieceChecked` and `NoStealCircles` | 546,365 |
| `RequestingUser` | one chunk, allowed fast; a connection that comes and goes; verifies, completion updates, the download switch and failed writes at any time, a steal grace period; no rejects or acknowledgements, so that no update is withheld: `NoLostWakeup`, `NoRequestDuringCheck`, and the invariants these events could disturb | 1.1 million |
| `RequestingIdle` | fair writers, one chunk, one connection that comes and goes and one that announces its pieces anew, no rejects or acknowledgements: `IdleConnAskedAgain` | 92,681 |
| `RequestingStall` | fair writers, one chunk, both connections with the fast extension and acknowledgements, one of which comes and goes: `IdleConnAskedAgain` is **violated**, see Findings | |

Two connections are enough for every interaction in this code: stealing,
cancelling and the hand-over of freed chunks are all between two. Two chunks
make the counts that stealing compares differ, and make batches of which one write
fails. Batches over several pieces are covered by the proof of
`ReceivedPieceChecked`. Deadlock is not checked, because all peers may leave.

**Fairness** (`FairSpec`). A writer that has been told of an update runs it, and
storage writes end. Both need the client lock, which others take meanwhile, so
fairness is strong; Go's mutex hands the lock to a goroutine that has waited for
a millisecond. No fairness is assumed of peers or the user.

`NoStealCircles` needs no fairness: it says of every behaviour, however often and
for whatever reason updates run, that it steals only finitely often or that time and
again a request ends (answered, cancelled, rejected, dropped) or a useful chunk
arrives. With a comparison that forgets the request about to be added, the mutant,
two connections pass one chunk back and forth.

**Proofs** (`RequestingProofs`). `Inv` is the conjunction of the five state
invariants and `AllowedFastIsFast`. It is inductive relative to `TypeOK`, and
`TypeOK` relative to `ExpectedChunks`: a count of `validReceiveChunks` stays
natural because what is rejected was expected. None of the conjuncts is
inductive alone: `NoRequestForHeldChunk` after a request needs `ShouldRequest`,
`NoForgottenRequest` after a request needs `ShouldRequest` and that a choked
connection without the fast extension allows nothing fast, `ShouldRequest` after
a steal needs that the stealer's own cancels do not grow, and the steps that
delete requests need `RequestOwnership`. Actions with the same effect on the
requests share a lemma (`QuietInv` leaves them alone, `DeleteAllInv` takes all of
one connection's back, `AnsweredInv` ends one, `CancelInv` and `DisallowInv`
cancel, `CompletedInv` completes a piece); the others have one each.
`NoRequestDuringCheck` follows from `Inv`. `ReceivedPieceChecked` is inductive by
itself: a chunk becomes dirty only together with its write, a write ends only in
`flushChunkWrites`, which looks at the piece with the other connections' writes,
and a check ends with the piece's chunks not all dirty. Assumed are only the named assumptions of `Requesting`: finite connections and chunks, a function
from chunks to pieces, extensions that imply one another.

## PeerUpload

**What it models.** The upload half of one connection: requests of the peer that
are unread or whose data is ready, the goroutine `peerRequestServer` with the two
places where it gives up the lock (waiting for buffer space, reading), the buffers
taken from the shared chunk pool, and what the peer still expects an answer to
(`owed`), which stands for the messages sent.

| Actions | Code |
|---|---|
| `onReadRequest`, `refuseRequest`, `invalidRequest` | the three ways out of `onReadRequest` |
| `onPeerSentCancel`, `close` | cancels, acknowledged with the fast extension; close |
| `servePeerRequest`, `waitForDataAlloc`, `waitForDataAllocClosed`, `peerRequestDataRead`, `peerRequestDataReadFailed`, `peerRequestServerReturn` | the server |
| `upload`, `stopUpload` | the writer sends what is ready, or chokes |
| `uploadAllowed`, `pieceCompletionChanged` | what the code consults and this module leaves open |

**Abstractions.** `owed` takes a request for made when we handle it and answered
when we send the answer, messages on the way left out. A request that
a peer without the fast extension makes while our queue is full is dropped without
an answer and stays owed; `overran` records that this happened, and the peer knows
how long the queue is from our extended handshake. What the rate limiter and the
write buffer let through in one go is any subset of what is ready. The server refuses oversized requests one
step at a time, where the code keeps the lock between them: a superset. After a
close nothing is counted as an unexpected answer.

**Properties.** `BufferOwnership` (each buffer out of the pool belongs to one ready
request or to the read in progress), `AllocBound` (buffered and being read stay
within the limit), `ServerRuns` (an unread request has a server),
`ChokedKeepsNothing`, `NoForgottenRequest` (the peer waits for everything we keep,
and for nothing else unless it has no fast extension and overran the queue),
`ServeEnds` (a request the server is done with, whether it read it or refused it at
once, is not left for it to pick again, which the code asserts), `NoStrayAnswer`, and for liveness
`RequestsGetRead`, and `FastRequestsGetRead` for peers with the fast extension.

**Runs.** Five requests: one fits the buffer limit twice, one once, one never, one is
longer than a request may be and one reaches beyond its piece, so that waiting for
room, refusing and closing happen; two pieces, which storage may lose and find; a
queue limit of two, which is reached. Whether the fast extension is enabled is a
variable that the handshake settled.

| Run | Instance | States |
|---|---|---|
| `PeerUpload` | fair, with and without the fast extension: all properties but `RequestsGetRead` and `NoStrayAnswer` | 9,632 |
| `PeerUploadStall` | `RequestsGetRead` without the fast extension: **violated**, see Findings | |
| `PeerUploadStray` | `NoStrayAnswer`: **violated**, see Findings | |

**Fairness.** The server is a goroutine and its reads end. It picks the next
request by ranging over a map, which starts at a random entry, so every request
that is there again and again is picked (strong fairness for each). The writer
wakes at each keepalive deadline if not before, and sends something if allowed
again and again.

**Proofs** (`PeerUploadProofs`). `Inv` adds `ServerState` to four invariants: what
is ready and what is being served are disjoint, and the server serves exactly one
request while it waits or reads. Without it `BufferOwnership` is not inductive:
data that is read again while ready would need two buffers. `AllocBound` is a sum
over a set, defined by a fold, and is left to TLC.

## Availability

**What it models.** `connsWithAllPieces` and `relativeAvailability`, which together
say how many peers have a piece. A connection announces pieces by `peerSentHave`,
`peerSentBitfield`, `peerSentHaveAllMsg` and `peerSentHaveNone`; before the info is
known this changes no count, and `onSetInfo` counts what was announced. A
connection ends by `dropConnection`, or by `close` when its message writer fails,
after which it stays in `t.conns` until its read loop returns. Webseeds have every
piece of the info until a file turns out to be missing (`readChunks`,
`removeFilePieces`). `torrentClose` closes everyone. `decPieceAvailability` panics
at zero; in the model the count becomes negative.

**Abstractions.** Whether both sides are complete and the connection of no other
use, so that it is dropped at the end of a handler, is left open. Piece indexes
that the torrent does not have are left out. `Repeaters` are connections whose peer
sends the messages that BEP 6 allows once, as the first, at any time; the code
handles them without looking. `MaxAvailability` bounds the counts, which grow
without bound in one of the findings.

Two variables are not in the code: `recanted` (some connection sent HaveNone after
HaveAll, before or after the info was known) and `leaked` (connections closed, but
still in `t.conns`, when the info arrived). They let the properties state exactly how
far the counts are right in spite of the findings. Webseeds may be added to a torrent
that is closed already; requests to webseeds are only planned for open ones.

**Properties and runs.** Two pieces, two connections and a webseed: the counts are
sums over peers, and the interactions are between one peer's messages and the
torrent's events.

| Property | Says |
|---|---|
| `RelativeAvailability` | unless a connection recanted, a count is the number of open peers with the piece outside `connsWithAllPieces`, plus the leaked ones, and that set is the open connections that sent HaveAll |
| `DiscountsCovered` | while the torrent is open, and unless a connection recanted before the info, no count is discounted that was not made |
| `HaveAllExclusive` | the panics of `peerSentBitfield` are not reached |
| `CompletePeersOpen` | the panic of `deletePeerConn` is not reached |
| `ZeroAtClose` | the close of the torrent takes every count back, the leaked ones excepted |

| Run | Instance | States |
|---|---|---|
| `Availability` | both connections are repeaters, the webseed lacks files, the info arrives at any time: all of the above | 720,118 |
| `AvailabilityHaveNone`, `AvailabilityDiscount` | one repeater: `RecordedOrCounted`, `NoUnderflow`: **violated**, see Findings | |
| `AvailabilityInfo` | one connection that announces its pieces once: `AssertedAtClose`: **violated**, see Findings | |
| `AvailabilityWebseed` | the same with a webseed: `NoUnderflow`: **violated**, see Findings | |

## Findings

Each is a run in which TLC finds the property violated.

- `RequestingStall`: an update of requests whose reason is a reject requests
  nothing, on the ground that the peer will send an unchoke when it can take more
  (`requesting.go:399`). A reject may also be the acknowledgement of our own cancel,
  from a peer that chokes nobody. A chunk is stolen from it, the thief goes away, and
  the chunk stays free though the connection is idle and could be asked.
- `PeerUploadStall`: without the fast extension a choke empties the buffered data
  without telling the server that waits for room, contrary to the comment at
  `peerconn.go:120`; it waits for ever and no later request of that peer is read.
- `PeerUploadStray`: a request cancelled during a read that fails is rejected twice,
  and the receiving end treats the second as an error (`peerconn.go:1150`).
- `AvailabilityHaveNone`: a HaveNone after a HaveAll leaves the connection recorded in
  `connsWithAllPieces`; its later haves are counted besides, contrary to
  `piece.go:46`.
- `AvailabilityDiscount`: if that happens before the info is known, the pieces the
  connection announces afterwards are not counted when the info arrives, and another
  HaveAll or a bitfield without them discounts them from zero, which
  `decPieceAvailability` asserts never happens (`torrent.go:259`).
- `AvailabilityInfo`: a connection whose writer failed just before the info arrived
  is counted and never discounted; the assertion of `Torrent.close` fails.
- `AvailabilityWebseed`: a webseed's answer that a file is missing, handled after the
  torrent was closed, discounts pieces that the close has discounted.

## What is proved and what is only model-checked

Proved by TLAPS, for any numbers of connections, pieces, chunks and requests: the
type invariants, the safety invariants and the action property of `Requesting`
and `PeerUpload`, except `NoLostWakeup` and `AllocBound`. Model-checked only:
those two, `Availability`, and all liveness properties, since fairness and
`ENABLED` are out of the prover's reach.

## Plan

In this order; the first of each group carries the most state that only an
interleaving can break.

1. **Availability**: prove `RelativeAvailability`, `DiscountsCovered` and `ZeroAtClose`, from lemmas on the cardinality of one peer's change.
2. **PieceHashing**: hashers and their limit, pending writes that a hash waits for,
   marking (and its failure), dirtiers and banning, `VerifyData`, close. Safety: no
   hash reads a piece being written, a peer is blamed only for chunks it sent since
   the last check. Liveness: queued pieces are hashed. Composed with `Requesting`
   through the piece states. **StorageLocks**: the client lock, the storage lock and
   the pending writes, for deadlock.
3. **ChunkAllocation**: the abstract specification of `Requesting` (a chunk is free,
   asked of one connection, or held), as a refinement that TLC checks and TLAPS proves.
4. **Announcer** with **AnnounceTimer**: dispatch limits, late results, the timer
   whose update races its callback; the abstract promise that a due torrent is
   announced.
5. **Webseeds**: slices, limits per host, cancellation, error pauses; the agreement
   of the client's and the torrents' tables.
6. **BufferedCompletion**, refining an atomic register; **FilePieces**, part files and
   completion with a crash between any two steps; mapped files and renames.
7. **ConnLifecycle**: half-open dials, duplicate connections, limits, replacement;
   **Pex**: the shared event list and each connection's place in it; **MsgWriter**: the
   wake-up channel and the buffer swap, refining a FIFO.
8. **Metadata**, **Readers** (windows, waiting, close), **UdpTracker** (transactions,
   retries, connection ids), **WebtorrentTracker**, **AllocLimit**, deferred actions.
9. Operators against reference definitions: request order and its storage cut,
   chunk and piece arithmetic at the boundaries, merkle proof layers.

Every state machine is written for both tools: functions and sets, no recursive
operators in what is proved about, one module of theorems per component, and the
invariants of a component named one by one so that a proof can cite what it needs.
