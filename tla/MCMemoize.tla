----------------------------- MODULE MCMemoize ------------------------------
(***************************************************************************)
(* Memoize for TLC: a request, and the bodies of two entries.              *)
(***************************************************************************)
EXTENDS Memoize, TLC

(* The request registers three values of type "lang" and one of "user". *)
MCRegistered == <<1, 2, 3, 4>>
MCScopes ==
    {s \in Scopes(4) :
        <<s["lang"], s["user"]>> \in {<<1, 0>>, <<1, 4>>, <<2, 0>>, <<2, 4>>, <<3, 0>>}}

(* "inner" reads "lang".  If that is 2 it reads "user" too; if it is 3 it  *)
(* calls itself with another language, which is recursion with identical   *)
(* arguments.  "outer" calls it and then, if the language is 1, again with *)
(* a language of its own; it depends on "lang" and "user" through "inner". *)
LayeredBody(e, seen) ==
    IF e = "inner"
    THEN CASE seen = << >> -> ReadOp("lang")
           [] seen = <<2>> -> ReadOp("user")
           [] seen = <<3>> -> WithOp("lang", 1)
           [] Len(seen) = 2 /\ seen[1] = 3 -> CallOp("inner")
           [] OTHER -> ReturnOp(IF Len(seen) = 2 /\ seen[2] # NoValue THEN 3 ELSE seen[1])
    ELSE CASE seen = << >> -> CallOp("inner")
           [] Len(seen) = 1 /\ seen[1] = 1 -> WithOp("lang", 2)
           [] Len(seen) = 2 -> CallOp("inner")
           [] Len(seen) = 3 -> BackOp
           [] Len(seen) = 4 -> ReadOp("lang")
           [] OTHER -> ReturnOp(IF Len(seen) = 1 THEN seen[1] ELSE 2 + seen[3])

(* The comparison is with what a body returns, in every scope a language   *)
(* is registered in: none runs for longer than the bound.                  *)
ASSUME ColdRunsEnd ==
    \A e \in Entries, l \in 1..3, u \in {4, NoValue} :
        Cold[ColdSteps][ColdStart(e, ("lang" :> l) @@ ("user" :> u))] # NoValue
=============================================================================
