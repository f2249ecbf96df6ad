---------------------------- MODULE MCConnection ----------------------------
(* A finite instance of Connection: two targets that join, leave, rerun and *)
(* are replaced, over a socket that may fail and its successor.             *)
EXTENDS Connection

CONSTANT t1, t2
=============================================================================
