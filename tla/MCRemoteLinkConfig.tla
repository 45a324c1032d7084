------------------------- MODULE MCRemoteLinkConfig -------------------------
(* Model values for RemoteLinkConfig: the daemon's own handlers log      *)
(* source s1 at severity warn.                                            *)
EXTENDS RemoteLinkConfig

CONSTANTS s1, s2, warn

MCBaseMask == {<<s1, warn>>}
=============================================================================
