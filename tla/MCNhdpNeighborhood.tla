------------------------- MODULE MCNhdpNeighborhood -------------------------
(* The registry and neighbor data with model values: both links belong to *)
(* the one neighbor.                                                        *)
EXTENDS NhdpNeighborhood, TLC

CONSTANTS e1, e2, m1, p1, n1, l1, l2

MCMetricOrder == <<m1>>
MCMprOrder == <<p1>>
MCLinkNeigh == [l \in Links |-> n1]

(* The links of the one neighbor are interchangeable, and so are the two *)
(* extension types: no initial state and no handler order names one.      *)
MCSymmetry == Permutations({l1, l2}) \cup Permutations({e1, e2})

(* cfgMpr is a history of the configured MPR names: no action reads it   *)
(* and neither does any invariant of this run, so states that differ in   *)
(* it alone have the same futures.                                        *)
MCView == <<domains, metric, mpr, nlinks, linkdata, neighdata, nodeIsMpr>>
=============================================================================
