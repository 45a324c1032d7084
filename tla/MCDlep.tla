------------------------------- MODULE MCDlep -------------------------------
(* Model-checking instance of Dlep: small MAC sets as model values.       *)
EXTENDS Dlep

(* Every proxied destination sits behind the first neighbor.              *)
MCVia == [d \in Dest |-> CHOOSE n \in Neigh : TRUE]
=============================================================================
