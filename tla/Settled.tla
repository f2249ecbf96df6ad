------------------------------- MODULE Settled -------------------------------
(****************************************************************************)
(* What a page comes to, by its template and by how its futures end: what   *)
(* can be there, what is there in the end, and what is due on the way.      *)
(****************************************************************************)
EXTENDS Views

\* The content of a node that can be there, with the futures that are ready.
RECURSIVE Ready(_), Visible(_)
Ready(n) ==
    LET d == template[n] IN
    CASE d.kind = "text" -> TRUE
      [] d.kind = "then" -> d.event # Yield /\ outcome[d.event] = "ok" /\ Ready(d.kid)
      [] d.kind = "suspense" -> Ready(d.kid) \/ (~d.wait /\ Ready(d.fallback))
      [] d.kind \in {"join", "loop"} -> \A k \in Range(d.kids) : Ready(k)
      [] d.kind = "live" -> d.steps[1].op = "emit" /\ ~d.steps[1].caught /\ Ready(d.steps[1].kid)
      [] d.kind \in {"boundary", "hoist"} -> Ready(d.kid)
Visible(n) ==
    LET d == template[n] IN
    IF d.kind = "text" THEN {n}
    ELSE IF d.kind = "boundary" THEN {}
    ELSE IF d.kind \in {"join", "loop"} THEN UNION {Visible(k) : k \in Range(d.kids)}
    ELSE IF d.kind = "live" THEN Visible(d.steps[1].kid)
    ELSE IF d.kind = "suspense" /\ ~Ready(d.kid) THEN Visible(d.fallback)
    ELSE Visible(d.kid)

\* What a page comes to, whatever the order in which its futures are ready.
RECURSIVE Final(_)
Final(n) ==
    LET d == template[n]
        good(t) == [error |-> "none", texts |-> t]
        bad(e) == [error |-> e, texts |-> <<>>]
        out(e) == IF e = Yield THEN "ok" ELSE outcome[e]
        ends == [i \in DOMAIN d.kids |-> Final(d.kids[i])]
        RECURSIVE run(_, _)
        run(i, last) ==
            LET x == d.steps[i] IN
            IF i > Len(d.steps) THEN last
            ELSE IF x.op = "await" THEN IF out(x.event) = "ok" THEN run(i + 1, last) ELSE bad(out(x.event))
            ELSE IF x.op = "repeat" THEN bad("endless")
            ELSE IF Final(x.kid).error = "none" THEN run(i + 1, Final(x.kid))
            ELSE IF x.caught THEN run(i + 1, last) ELSE Final(x.kid)
    IN CASE d.kind = "text" -> good(<<n>>)
         [] d.kind = "then" -> IF out(d.event) = "ok" THEN Final(d.kid) ELSE bad(out(d.event))
         [] d.kind \in {"suspense", "hoist"} -> Final(d.kid)
         [] d.kind \in {"join", "loop"} ->
              IF \E i \in DOMAIN ends : ends[i].error # "none"
              THEN ends[CHOOSE i \in DOMAIN ends : ends[i].error # "none"]
              ELSE good(FlattenSeq([i \in DOMAIN ends |-> ends[i].texts]))
         [] d.kind = "boundary" -> IF Final(d.kid).error \in d.handles THEN Final(d.fallback) ELSE Final(d.kid)
         [] d.kind = "live" -> run(1, bad("empty"))

\* While the task sleeps everything that can be there has been shown.  A
\* response that ends shows every text of the page and nothing of the
\* fallbacks and the emissions that were replaced; one that fails had to, for
\* an error that no boundary takes or in a fallback that was shown.
PageSettles ==
    /\ (Idle /\ Streaming /\ ~woken) => (Ready(1) => Visible(1) \subseteq shown)
    /\ phase = "ended" => (Final(1).error = "none" /\ Texts(page) = Final(1).texts)
    /\ phase \in {"redirected", "failed"} =>
          \/ Final(1).error # "none"
          \/ \E n \in Nodes : template[n].kind = "suspense" /\ Final(template[n].fallback).error # "none"

\* The texts that nothing but the end of the response can keep off the page.
RECURSIVE Due(_)
Due(n) ==
    LET d == template[n] IN
    CASE d.kind = "text" -> {n}
      [] d.kind \in {"then", "suspense", "hoist"} -> Due(d.kid)
      [] d.kind \in {"join", "loop"} -> UNION {Due(k) : k \in Range(d.kids)}
      [] d.kind = "live" -> UNION {Due(x.kid) : x \in {y \in Steps(d, "emit") : ~y.caught}}
      [] d.kind = "boundary" -> {}

\* Content that comes late reaches the browser, or the response ends: no
\* region that never stops streaming keeps the others from their turn.
LateContentArrives == <>(Due(1) \subseteq shown \/ ~Streaming)

\* The parts that a component hoists - the signals it declares and depends on,
\* its connection - are on the page for as long as its text is.
ShownContentKeepsItsParts ==
    \A n \in Nodes :
        LET d == template[n] IN
        (d.kind = "then" /\ d.hoists /\ <<"text", d.kid>> \in Range(page)) =>
            <<"part", n>> \in Range(page)

=============================================================================
