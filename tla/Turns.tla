-------------------------------- MODULE Turns --------------------------------
(***************************************************************************)
(* What the members of a sequence do to a state, one after the other.      *)
(***************************************************************************)
EXTENDS Naturals, Sequences

\* f applied to h and each member of a sequence in turn (TLC evaluates each
\* result once, as the member of a set).
InTurn(f(_, _), h, seq) ==
    LET after[n \in 0..Len(seq)] ==
            IF n = 0 THEN h
            ELSE CHOOSE r \in {f(now, seq[n]) : now \in {after[n - 1]}} : TRUE
    IN  after[Len(seq)]
=============================================================================
