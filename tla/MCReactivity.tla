---------------------------- MODULE MCReactivity ----------------------------
EXTENDS Reactivity

ThreeSignals == {"a", "b", "c"}
Read(s) == <<"read", s, s>>
Unless(s) == <<"unless", s, s>>
Throw(s) == <<"throw", s, s>>
Copy(s, t) == <<"copy", s, t>>
Bump(s) == <<"bump", s, s>>
Drop(e) == <<"dispose", e, e>>

Page == <<"p1", "p2">>
Region == <<"r1">>
Does(p1, p2, r1) == [b \in {"p1", "p2", "r1"} |->
                        CASE b = "p1" -> p1 [] b = "p2" -> p2 [] b = "r1" -> r1]

\* A reader before the writer of what it reads, a reader that takes branches.
Derived == Does(<<Unless("b"), Read("c")>>, <<Copy("a", "b")>>, <<Read("a"), Read("b")>>)
\* Two that change what the other reads: a flush ends at the cap.
PingPong == Does(<<Unless("a"), Bump("b"), Read("c")>>, <<Read("b"), Bump("c")>>,
                 <<Read("c"), Bump("b")>>)
\* One that throws between its reads, one that disposes itself and reads on.
Breaking == Does(<<Read("a"), Throw("b"), Read("c")>>, <<Unless("a"), Drop("p2"), Read("b")>>,
                 <<Read("c"), Drop("p1")>>)
AllPrograms == {Derived, PingPong, Breaking}

Clicks == {<<Bump("a"), Bump("b")>>, <<Bump("b")>>, <<Bump("c")>>}

PageNeeds(v) == {"a"} \cup IF v["a"] # 0 THEN {"b"} ELSE {}
RegionNeeds(v) == IF v["b"] = 0 THEN {"c"} ELSE {"a"}
=============================================================================
