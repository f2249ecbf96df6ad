---------------------------- MODULE MCRenderUnits ----------------------------
(* Finite instances of RenderUnits: a page and one or two shards.          *)
EXTENDS RenderUnits

CONSTANTS page, s1, s2

OneShard == {s1}
PageAndShard == {page, s1}
=============================================================================
