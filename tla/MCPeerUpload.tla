---------------------------- MODULE MCPeerUpload ----------------------------
(* Small instances of PeerUpload for TLC.                                   *)
EXTENDS PeerUpload, TLC

CONSTANTS small, medium, large, huge, overlong, p1, p2

\* With MaxAlloc = 2 and MaxChunkLength = 3, small and medium do not fit
\* together, large never fits, huge may not be requested, and overlong reaches
\* past the end of its piece.
Sizes == small :> 1 @@ medium :> 2 @@ large :> 3 @@ huge :> 4 @@ overlong :> 1
Indices == [r \in {small, huge, overlong} |-> p1] @@ [r \in {medium, large} |-> p2]
TwoSizes == small :> 1 @@ medium :> 2
TwoIndices == small :> p1 @@ medium :> p2
=============================================================================
