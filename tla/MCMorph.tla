------------------------------- MODULE MCMorph -------------------------------
EXTENDS Morph

Tree(tag, id, says, kids) == [tag |-> tag, id |-> id, says |-> says, kids |-> kids]
Div(id, kids) == Tree("div", id, <<>>, kids)
Input(id) == Tree("input", id, <<"value", "said">>, <<>>)
Mark(what, name) == Tree("comment", "", <<what, name>>, <<>>)
Signal(s) == Mark("signal", s)
Part(name, trees) == <<Mark("start", name)>> \o trees \o <<Mark("end", name)>>

\* Pages of one to three elements, which have an id once at most.
RECURSIVE Flat(_)
Flat(f) == FlattenSeq([i \in DOMAIN f |-> <<f[i].id>> \o Flat(f[i].kids)])
Unique(f) == \A i, j \in DOMAIN Flat(f) : Flat(f)[i] = Flat(f)[j] /\ Flat(f)[i] # "" => i = j
Leaves == {Input("a"), Input("c"), Div("b", <<>>)}
One == {<<x>> : x \in Leaves}
Boxed(fs) == {<<Div(id, f)>> : id \in {"", "b"}, f \in fs}
Two == {f \in {<<x, y>> : x, y \in Leaves} \cup Boxed(One) : Unique(f)}
Three == {<<Div("", f)>> : f \in Two} \cup {f \in {f \o <<x>> : x \in Leaves, f \in Boxed(One)} : Unique(f)}

\* Pages of regions, a shard with a region of its own, and signals.
Region1(trees) == Part("r1", trees)
Region2(trees) == Part("r2", trees)
Shard1(trees) == Part("k1", trees)
\* (A document declares a signal and has an id once, whichever parts it has.)
Composed == {
    <<Signal("p")>> \o Region1(<<Input("a")>>) \o Shard1(<<Signal("k"), Div("", Region2(<<>>))>>),
    Shard1(<<Div("", <<>>)>> \o Region2(<<Signal("t"), Input("c")>>)) \o <<Div("b", Region1(<<Signal("u")>>))>>,
    <<Div("b", <<Signal("p"), Div("", Region1(<<Div("", <<>>)>>))>>), Signal("t"), Input("c")>>,
    Region1(<<Div("", <<>>)>> \o Shard1(<<Input("d")>> \o Region2(<<Signal("t")>>)))}
InPart == [name \in {"r1", "r2", "k1"} |->
    CASE name = "r1" -> {<<Signal("u"), Input("a")>>, <<Div("", <<Signal("s")>>), Input("a")>>}
      [] name = "r2" -> {<<>>, <<Signal("t"), Input("c")>>}
      [] name = "k1" -> {<<Input("d")>> \o Region2(<<Signal("t")>>), <<Signal("k")>> \o Region2(<<>>)}]

AllPages == One \cup Two \cup Three \cup Composed
=============================================================================
