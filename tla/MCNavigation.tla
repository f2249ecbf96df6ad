---------------------------- MODULE MCNavigation ----------------------------
(* Navigation for TLC. *)
EXTENDS Navigation, TLC

CONSTANTS home, a, b, v1, v2

MCUrls == {home, a, b}
MCBodies == {v1, v2}

(* Nothing tells two links from each other, nor two values of the signals. *)
Symmetry == Permutations({a, b}) \cup Permutations(MCBodies)
=============================================================================
