-------------------------- MODULE MCRuntimeSocket ---------------------------
(* RuntimeSocket for TLC: two run ids, so that an id is reused while the   *)
(* other one is in use.                                                    *)
EXTENDS RuntimeSocket

MCIds == {1, 2}
=============================================================================
