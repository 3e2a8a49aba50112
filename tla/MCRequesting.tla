---------------------------- MODULE MCRequesting ----------------------------
(* Instances of Requesting for TLC.                                         *)
EXTENDS Requesting, TLC

CONSTANTS c1, c2, p1, p2, r1, r2

\* One piece of one chunk, one piece of two, and two pieces of one each.
OneChunk == [r \in {r1} |-> p1]
OnePiece == [r \in {r1, r2} |-> p1]
TwoPieces == (r1 :> p1) @@ (r2 :> p2)
=============================================================================
