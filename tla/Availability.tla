---------------------------- MODULE Availability ----------------------------
(***************************************************************************)
(* How many peers have each piece. A Torrent keeps the peers that have     *)
(* every piece in connsWithAllPieces, and for each piece a count of the    *)
(* other peers that have it, relativeAvailability; peers announce pieces   *)
(* before and after the info of the torrent is known, in any order, and    *)
(* come and go (torrent.go, peerconn.go, peer.go, webseed-peer.go).        *)
(*                                                                         *)
(* Every action is one critical section of the client lock. A panic of     *)
(* decPieceAvailability is a count below zero.                             *)
(***************************************************************************)
EXTENDS Integers, FiniteSets

CONSTANTS
  Conns,            \* PeerConns that may be added to the torrent
  WebSeeds,         \* webseeds that may be added to the torrent
  Pieces,           \* piece indexes of the torrent
  Repeaters,        \* conns whose peer sends Bitfield, HaveAll and HaveNone at
                    \* any time, and not only as its first message
  UnavailableFiles, \* the pieces of each file that a webseed may not have
  DropMutuallyCompletePeers, \* the ClientConfig field
  MaxAvailability   \* bound on relativeAvailability explored by TLC

ASSUME PeersAssumption ==
  /\ IsFiniteSet(Conns) /\ IsFiniteSet(WebSeeds) /\ Conns \cap WebSeeds = {}
  /\ Repeaters \subseteq Conns
ASSUME PiecesAssumption ==
  Pieces # {} /\ UnavailableFiles \subseteq SUBSET Pieces
ASSUME ConfigAssumption ==
  DropMutuallyCompletePeers \in BOOLEAN /\ MaxAvailability \in Nat

VARIABLES
  haveInfo, torrentClosed,
  status,              \* "new", "open", "closed" (but still known), "gone"
  peerPieces,          \* _peerPieces, and webseed.Client.Pieces
  peerSentHaveAll,     \* of each conn
  spoke,               \* conns that announced pieces before
  connsWithAllPieces,
  relativeAvailability,
  reading,             \* webseeds with a request in flight
  recanted,            \* whether the info was known when conns sent HaveNone
                       \* after HaveAll
  leaked               \* conns that were closed, but still in t.conns, when
                       \* the info arrived

ghosts == <<recanted, leaked>>

vars == <<haveInfo, torrentClosed, status, peerPieces, peerSentHaveAll, spoke,
          connsWithAllPieces, relativeAvailability, reading, ghosts>>

Peers == Conns \cup WebSeeds

TypeOK ==
  /\ haveInfo \in BOOLEAN /\ torrentClosed \in BOOLEAN
  /\ status \in [Peers -> {"new", "open", "closed", "gone"}]
  /\ peerPieces \in [Peers -> SUBSET Pieces]
  /\ peerSentHaveAll \in [Peers -> BOOLEAN]
  /\ spoke \subseteq Conns
  /\ connsWithAllPieces \subseteq Conns
  /\ relativeAvailability \in [Pieces -> Int]
  /\ reading \subseteq WebSeeds
  /\ recanted \subseteq BOOLEAN /\ leaked \subseteq Conns
-----------------------------------------------------------------------------
Count(b) == IF b THEN 1 ELSE 0

\* incPieceAvailability of the pieces gained and decPieceAvailability of those
\* lost, which do nothing before the info is known.
Adjusted(avail, gained, lost) ==
  [i \in Pieces |-> IF haveInfo
     THEN avail[i] + Count(i \in gained) - Count(i \in lost) ELSE avail[i]]

peerHasAllPieces(p) ==
  peerSentHaveAll[p] \/ (haveInfo /\ peerPieces[p] = Pieces)

\* Mutant: a peer that has everything is not known to have this piece.
hasPieceListed(p, i) == i \in peerPieces[p]

peerHasPiece(p, i) == peerHasAllPieces(p) \/ i \in peerPieces[p]

\* Mutant: a peer that has everything is forgotten only by count.
decPiecesOnly(p, has, with, avail) ==
  /\ connsWithAllPieces' = with
  /\ relativeAvailability' = IF p \in with THEN avail ELSE Adjusted(avail, {}, has)

\* A peer that is among those that have all pieces counts nowhere else.
decPeerPieceAvailability(p, has, with, avail) ==
  /\ connsWithAllPieces' = with \ {p}
  /\ relativeAvailability' = IF p \in with THEN avail ELSE Adjusted(avail, {}, has)

\* The end of every handler: c now has these pieces, and a conn that has what
\* we have may be dropped if both sides have everything (peerPiecesChanged,
\* maybeDropMutuallyCompletePeer). Whether we do, and the uses the conn may
\* still have, are left open. The bound on the counts is the model's.
peerPiecesChanged(c, has, all, with, avail) ==
  /\ \A i \in Pieces : avail[i] <= MaxAvailability
  /\ peerPieces' = [peerPieces EXCEPT ![c] = has]
  /\ peerSentHaveAll' = [peerSentHaveAll EXCEPT ![c] = all]
  /\ spoke' = spoke \cup {c}
  /\ \/ /\ connsWithAllPieces' = with /\ relativeAvailability' = avail
        /\ UNCHANGED status
     \/ /\ DropMutuallyCompletePeers /\ haveInfo /\ (all \/ has = Pieces)
        /\ status' = [status EXCEPT ![c] = "gone"]
        /\ decPeerPieceAvailability(c, has, with, avail)
  /\ UNCHANGED <<haveInfo, torrentClosed, reading, leaked>>

\* mainReadLoop handles no message of a closed conn or torrent.
CanRead(c) == status[c] = "open" /\ ~torrentClosed

\* The code takes these messages at any time; well-behaved peers send one, as
\* their first.
MaySendBitfield(c) == CanRead(c) /\ (c \in Repeaters \/ c \notin spoke)
-----------------------------------------------------------------------------
Init ==
  /\ haveInfo = FALSE /\ torrentClosed = FALSE
  /\ status = [p \in Peers |-> "new"]
  /\ peerPieces = [p \in Peers |-> {}]
  /\ peerSentHaveAll = [p \in Peers |-> FALSE]
  /\ spoke = {} /\ connsWithAllPieces = {} /\ reading = {}
  /\ recanted = {} /\ leaked = {}
  /\ relativeAvailability = [i \in Pieces |-> 0]

addPeerConn(c) ==
  /\ ~torrentClosed /\ status[c] = "new"
  /\ status' = [status EXCEPT ![c] = "open"]
  /\ UNCHANGED <<haveInfo, torrentClosed, peerPieces, peerSentHaveAll, spoke,
                 connsWithAllPieces, relativeAvailability, reading, ghosts>>

\* Peer.close: the message writer failed. The conn stays in t.conns until its
\* read loop returns.
close(c) ==
  /\ status[c] = "open"
  /\ status' = [status EXCEPT ![c] = "closed"]
  /\ decPeerPieceAvailability(c, peerPieces[c], connsWithAllPieces, relativeAvailability)
  /\ UNCHANGED <<haveInfo, torrentClosed, peerPieces, peerSentHaveAll, spoke,
                 reading, ghosts>>

dropConnection(c) ==
  /\ status[c] \in {"open", "closed"}
  /\ status' = [status EXCEPT ![c] = "gone"]
  /\ IF status[c] = "open"
     THEN decPeerPieceAvailability(c, peerPieces[c], connsWithAllPieces, relativeAvailability)
     ELSE UNCHANGED <<connsWithAllPieces, relativeAvailability>>
  /\ UNCHANGED <<haveInfo, torrentClosed, peerPieces, peerSentHaveAll, spoke,
                 reading, ghosts>>

peerSentHave(c, i) ==
  /\ CanRead(c) /\ ~peerHasPiece(c, i)
  /\ peerPiecesChanged(c, peerPieces[c] \cup {i}, peerSentHaveAll[c],
       connsWithAllPieces, Adjusted(relativeAvailability, {i}, {}))
  /\ UNCHANGED recanted

\* Mutant: the pieces announced before are kept.
hasAllKept(c) ==
  peerPiecesChanged(c, peerPieces[c], TRUE, connsWithAllPieces \cup {c},
    Adjusted(relativeAvailability, {}, peerPieces[c]))

onPeerHasAllPieces(c) ==
  peerPiecesChanged(c, {}, TRUE, connsWithAllPieces \cup {c},
    Adjusted(relativeAvailability, {}, peerPieces[c]))

peerSentHaveAllMsg(c) ==
  MaySendBitfield(c) /\ onPeerHasAllPieces(c) /\ UNCHANGED recanted

\* Mutant: a bitfield adds to the pieces announced before.
bitfieldAdds(c, bf) ==
  /\ MaySendBitfield(c)
  /\ peerPiecesChanged(c, peerPieces[c] \cup bf, FALSE,
       IF peerSentHaveAll[c] THEN connsWithAllPieces \ {c} ELSE connsWithAllPieces,
       Adjusted(relativeAvailability, bf \ peerPieces[c], peerPieces[c] \ bf))
  /\ UNCHANGED recanted

\* A bitfield replaces what the peer announced before, all pieces included.
peerSentBitfield(c, bf) ==
  /\ MaySendBitfield(c)
  /\ IF haveInfo /\ bf = Pieces THEN onPeerHasAllPieces(c)
     ELSE peerPiecesChanged(c, bf, FALSE,
            IF peerSentHaveAll[c] THEN connsWithAllPieces \ {c} ELSE connsWithAllPieces,
            Adjusted(relativeAvailability, bf \ peerPieces[c], peerPieces[c] \ bf))
  /\ UNCHANGED recanted

\* HaveNone after HaveAll leaves the conn among those that have all pieces.
peerSentHaveNone(c) ==
  /\ MaySendBitfield(c)
  /\ IF peerSentHaveAll[c] \/ c \in connsWithAllPieces
     THEN peerPiecesChanged(c, {}, FALSE,
            IF peerSentHaveAll[c] THEN connsWithAllPieces ELSE connsWithAllPieces \ {c},
            relativeAvailability)
     ELSE peerPiecesChanged(c, {}, FALSE, connsWithAllPieces,
            Adjusted(relativeAvailability, {}, peerPieces[c]))
  /\ recanted' = recanted \cup (IF peerSentHaveAll[c] THEN {haveInfo} ELSE {})
-----------------------------------------------------------------------------
(* The info.                                                                *)

\* Called with the info set: a conn known to have all pieces only now, by its
\* individual pieces, has each of them anyway.
selectivePieceAvailabilityFromPeers(i) ==
  Cardinality({p \in Peers : /\ status[p] \in {"open", "closed"}
                             /\ p \notin connsWithAllPieces
                             /\ peerSentHaveAll[p] \/ i \in peerPieces[p]})

\* The pieces are counted; completing the last of them may drop conns that have
\* them all; and webseeds learn what they have, which is everything.
onSetInfo ==
  /\ ~haveInfo /\ ~torrentClosed
  /\ haveInfo' = TRUE
  /\ peerPieces' = [p \in Peers |->
       IF p \in WebSeeds /\ status[p] = "open" THEN Pieces ELSE peerPieces[p]]
  /\ \E D \in SUBSET {c \in Conns : DropMutuallyCompletePeers
                        /\ status[c] \in {"open", "closed"}
                        /\ (peerSentHaveAll[c] \/ peerPieces[c] = Pieces)} :
       /\ status' = [p \in Peers |-> IF p \in D THEN "gone" ELSE status[p]]
       /\ connsWithAllPieces' = connsWithAllPieces \ D
       /\ relativeAvailability' = [i \in Pieces |->
            selectivePieceAvailabilityFromPeers(i)
            - Cardinality({c \in D : /\ status[c] = "open" /\ i \in peerPieces[c]
                                     /\ c \notin connsWithAllPieces})
            + Cardinality({w \in WebSeeds : status[w] = "open"})]
  /\ leaked' = {c \in Conns : status[c] = "closed"}
  /\ UNCHANGED <<torrentClosed, peerSentHaveAll, spoke, reading, recanted>>
-----------------------------------------------------------------------------
(* Webseeds.                                                                *)

\* Mutant: the webseed is recorded as having all pieces, like a conn.
addWebSeedComplete(w) ==
  /\ status[w] = "new"
  /\ status' = [status EXCEPT ![w] = "open"]
  /\ connsWithAllPieces' = connsWithAllPieces \cup {w}
  /\ UNCHANGED <<haveInfo, torrentClosed, peerPieces, peerSentHaveAll, spoke,
                 relativeAvailability, reading, ghosts>>

\* AddWebSeeds may be called on a closed torrent too.
addWebSeed(w) ==
  /\ status[w] = "new"
  /\ status' = [status EXCEPT ![w] = "open"]
  /\ peerPieces' = [peerPieces EXCEPT ![w] = IF haveInfo THEN Pieces ELSE {}]
  /\ relativeAvailability' = Adjusted(relativeAvailability, Pieces, {})
  /\ UNCHANGED <<haveInfo, torrentClosed, peerSentHaveAll, spoke,
                 connsWithAllPieces, reading, ghosts>>

\* Webseed requests are planned for the torrents that are open.
spawnRequest(w) ==
  /\ ~torrentClosed /\ status[w] = "open" /\ haveInfo /\ w \notin reading
  /\ reading' = reading \cup {w}
  /\ UNCHANGED <<haveInfo, torrentClosed, status, peerPieces, peerSentHaveAll,
                 spoke, connsWithAllPieces, relativeAvailability, ghosts>>

\* Mutant: pieces are discounted that the webseed had not, or no more.
removeFileTwice(w, file) ==
  /\ peerPieces' = [peerPieces EXCEPT ![w] = @ \ file]
  /\ relativeAvailability' = Adjusted(relativeAvailability, {}, file)

removeFilePieces(w, file) ==
  /\ peerPieces' = [peerPieces EXCEPT ![w] = @ \ file]
  /\ relativeAvailability' = Adjusted(relativeAvailability, {}, file \cap peerPieces[w])

\* readChunks returns. It takes the lock after the read, without looking
\* whether the webseed was closed meanwhile.
readChunks(w) ==
  /\ w \in reading
  /\ reading' = reading \ {w}
  /\ \/ UNCHANGED <<peerPieces, relativeAvailability>>
     \/ \E file \in UnavailableFiles : removeFilePieces(w, file)
  /\ UNCHANGED <<haveInfo, torrentClosed, status, peerSentHaveAll, spoke,
                 connsWithAllPieces, ghosts>>
-----------------------------------------------------------------------------
\* Torrent.close closes all peers.
torrentClose ==
  /\ ~torrentClosed
  /\ torrentClosed' = TRUE
  /\ status' = [p \in Peers |-> IF status[p] = "open" THEN "closed" ELSE status[p]]
  /\ connsWithAllPieces' = {p \in connsWithAllPieces : status[p] # "open"}
  /\ relativeAvailability' = [i \in Pieces |->
       IF haveInfo
       THEN relativeAvailability[i]
            - Cardinality({p \in Peers : /\ status[p] = "open"
                                         /\ p \notin connsWithAllPieces
                                         /\ i \in peerPieces[p]})
       ELSE relativeAvailability[i]]
  /\ UNCHANGED <<haveInfo, peerPieces, peerSentHaveAll, spoke,
                 reading, ghosts>>

Next ==
  \/ \E c \in Conns :
       \/ addPeerConn(c) \/ close(c) \/ dropConnection(c)
       \/ peerSentHaveAllMsg(c) \/ peerSentHaveNone(c)
       \/ \E i \in Pieces : peerSentHave(c, i)
       \/ \E bf \in SUBSET Pieces : peerSentBitfield(c, bf)
  \/ \E w \in WebSeeds : addWebSeed(w) \/ spawnRequest(w) \/ readChunks(w)
  \/ onSetInfo \/ torrentClose

Spec == Init /\ [][Next]_vars
-----------------------------------------------------------------------------
(* Safety.                                                                  *)

Holders(i) == {p \in Peers : status[p] = "open" /\ i \in peerPieces[p]}

\* What the leaked conns added to the count of piece i.
Leak(i) == Cardinality({c \in leaked : peerSentHaveAll[c] \/ i \in peerPieces[c]})

\* relativeAvailability counts the peers that have the piece and are not recorded
\* in connsWithAllPieces, and those recorded there are the open conns that said
\* they have everything, whatever else peers send in whatever order and whenever
\* the info arrives. The exceptions: a conn took back that it has everything (see
\* RecordedOrCounted and NoUnderflow), and what conns closed but not dropped yet
\* when the info arrives add to the counts (see AssertedAtClose).
RelativeAvailability ==
  ~torrentClosed /\ recanted = {} =>
    /\ haveInfo => \A i \in Pieces :
         relativeAvailability[i] = Cardinality(Holders(i) \ connsWithAllPieces) + Leak(i)
    /\ connsWithAllPieces =
         {c \in Conns : status[c] = "open" /\ peerSentHaveAll[c]}

\* A piece is counted at least once for every open peer that would discount it,
\* so that decPieceAvailability does not find a count of zero while the torrent
\* is open, even when conns take back that they have everything, as long as they
\* do so once the info is known (before, see NoUnderflow).
DiscountsCovered ==
  haveInfo /\ ~torrentClosed /\ FALSE \notin recanted => \A i \in Pieces :
    relativeAvailability[i] >= Cardinality(Holders(i))

\* What peerSentBitfield panics about: a peer that sent HaveAll is recorded as
\* having all pieces, and has no individual pieces set.
HaveAllExclusive ==
  \A c \in Conns : status[c] = "open" /\ peerSentHaveAll[c] =>
    c \in connsWithAllPieces /\ peerPieces[c] = {}

\* No peer that left is still counted on for every piece (deletePeerConn panics
\* if one is when the last conn is gone).
CompletePeersOpen == \A c \in connsWithAllPieces : status[c] = "open"

\* When Torrent.close has closed the peers, every count of every peer, whether it
\* was dropped, lost or present until the end, has been taken back exactly once,
\* with the exceptions of RelativeAvailability.
ZeroAtClose ==
  [][~torrentClosed /\ torrentClosed' /\ haveInfo /\ recanted = {} =>
       \A i \in Pieces : relativeAvailability'[i] = Leak(i)]_vars

\* What the comment on Piece.relativeAvailability says: a peer is either recorded
\* in connsWithAllPieces or counted for its pieces.
RecordedOrCounted ==
  ~torrentClosed /\ haveInfo => \A c \in connsWithAllPieces : peerPieces[c] = {}

\* assertAllPiecesRelativeAvailabilityZero, when a torrent is closed.
AssertedAtClose ==
  torrentClosed => \A i \in Pieces : relativeAvailability[i] = 0

\* decPieceAvailability, which panics if a count is zero already, never finds one.
NoUnderflow == \A i \in Pieces : relativeAvailability[i] >= 0
=============================================================================
