--------------------------- MODULE MCNhdpDomain ---------------------------
(* The registry with model values for handlers; the trees' name order is  *)
(* the order of the sequences below.                                       *)
EXTENDS NhdpDomain

CONSTANTS e1, e2, e3, m1, m2, p1, p2

MCMetricOrder == <<m1>>
MCMprOrder == <<p1, p2>>
MCNoMprs == <<>>
=============================================================================
