--------------------------- MODULE MCAvailability ---------------------------
(* Instances of Availability for TLC.                                       *)
EXTENDS Availability

CONSTANTS c1, c2, w1, p1, p2

\* The webseed may lack the file in the first piece, or one over both.
TwoFiles == {{p1}, {p1, p2}}
=============================================================================
