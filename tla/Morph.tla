-------------------------------- MODULE Morph --------------------------------
(***************************************************************************)
(* The document of a page in the browser: how the content that the server  *)
(* sends is morphed into the nodes that are there, and how the scopes that *)
(* own signals, live regions and shards follow.                            *)
(*                                                                         *)
(* The server sends trees.  A tree has a tag, an id or "", what it says (a *)
(* text, a marker, the value of an input) and children.  In the document a *)
(* node is a number; as long as it is in the document it is the same node, *)
(* with the focus and the value that the user gave it.                     *)
(***************************************************************************)
EXTENDS Integers, SequencesExt, FiniteSetsExt

CONSTANTS
    Pages,          \* what the page is rendered as: sequences of trees
    Regions,        \* the live regions
    Shards,         \* the shards
    Parts,          \* what a region or a shard is rendered as, by its name
    MoveBefore,     \* the browser can move a node without losing its state
    MaxShows,       \* bound: pages that are shown in a behaviour
    MaxSteps        \* bound: pages and updates of regions and shards in a behaviour

ASSUME MorphAssumption == MoveBefore \in BOOLEAN /\ MaxShows \in Nat /\ MaxSteps \in Nat

VARIABLES
    dom,        \* the nodes of the document, and the one that has the focus
    scopes,     \* the live scopes by the name of what they belong to
    registry,   \* the signals with their values
    fault,      \* the scan of the markers has thrown
    sent,       \* the document as the server means it (for checking only)
    origin,     \* the render that each of its parts is from (for checking only)
    step,       \* what happened last (for checking only)
    shows, updates  \* how many there were

vars == <<dom, scopes, registry, fault, sent, origin, step, shows, updates>>

Root == 0
None == -1
Fragment == -2

-----------------------------------------------------------------------------
(* Nodes.                                                                  *)

Node(t) == [tag |-> t.tag, id |-> t.id, says |-> t.says, value |-> t.says, kids |-> <<>>]
Blank == Node([tag |-> "", id |-> "", says |-> <<>>])

Index(seq, x) == SelectInSeq(seq, LAMBDA y : y = x)
First(seq) == IF seq = <<>> THEN None ELSE Head(seq)
After(at, p, n) == First(SubSeq(at[p].kids, Index(at[p].kids, n) + 1, Len(at[p].kids)))

\* The siblings from a cursor to an end, and without it.
Between(at, p, cursor, end) ==
    LET kids == at[p].kids IN
    IF cursor = None THEN <<>>
    ELSE SubSeq(kids, Index(kids, cursor), IF end = None THEN Len(kids) ELSE Index(kids, end) - 1)

RECURSIVE Below(_, _), Order(_, _), Plant(_, _, _)
Below(at, n) == {n} \cup UNION {Below(at, k) : k \in ToSet(at[n].kids)}
Order(at, n) == <<n>> \o FlattenSeq([i \in DOMAIN at[n].kids |-> Order(at, at[n].kids[i])])

\* The parser: trees become new nodes, the last children of p.
NewNode(at) == Min((1..Cardinality(DOMAIN at)) \ DOMAIN at)
Plant(at, p, trees) ==
    IF trees = <<>> THEN at
    ELSE LET n == NewNode(at)
             grown == [(n :> Node(Head(trees))) @@ at EXCEPT ![p].kids = Append(@, n)]
         IN Plant(Plant(grown, n, Head(trees).kids), p, Tail(trees))

Detached(at, n) == [m \in DOMAIN at |-> [at[m] EXCEPT !.kids = Remove(@, n)]]

\* A node that leaves the document takes the focus along.
Drop(h, n) == [at |-> Detached(h.at, n),
               focus |-> IF h.focus \in Below(h.at, n) THEN None ELSE h.focus]

Insert(h, p, n, before) ==
    LET place == IF before = n THEN After(h.at, p, n) ELSE before
        at == Detached(h.at, n)
        kids == at[p].kids
    IN [h EXCEPT !.at = [at EXCEPT ![p].kids =
                            InsertAt(kids, IF place = None THEN Len(kids) + 1 ELSE Index(kids, place), n)]]

Move(h, p, n, before) == Insert(IF MoveBefore THEN h ELSE [h EXCEPT !.focus = Drop(h, n).focus], p, n, before)

-----------------------------------------------------------------------------
(* Morphing.                                                               *)

IdsBelow(at, n) == {at[m].id : m \in Below(at, n)} \ {""}

\* createContext: the ids that are in the old and in the new content, which of
\* them each node contains, and the old node with each of them.
Context(h, olds, news, keep) ==
    LET ids(ns) == UNION {IdsBelow(h.at, n) : n \in ToSet(ns)}
        both == ids(olds) \cap ids(news)
        old == UNION {Below(h.at, n) : n \in ToSet(olds)}
    IN [ids |-> both,
        sets |-> [n \in DOMAIN h.at |-> IdsBelow(h.at, n) \cap both],
        old |-> [i \in both |-> CHOOSE n \in old : h.at[n].id = i],
        active |-> h.focus, keep |-> keep]

SoftMatch(at, c, old, new) ==
    /\ at[old].tag = at[new].tag
    /\ at[old].id \in c.ids => at[old].id = at[new].id

\* Mutant: there is no limit to what is displaced.
AllOlds(at, c, olds, news) == Len(olds)
\* How many old siblings may be displaced for the first of `news`: up to the
\* one that has the focus or makes the displaced ids too many.
Reach(at, c, olds, news) ==
    LET displaced(k) == Cardinality(UNION {c.sets[olds[i]] : i \in 1..k})
        stop == {k \in DOMAIN olds : \/ c.active \in Below(at, olds[k])
                                     \/ displaced(k) > Cardinality(c.sets[news[1]])}
    IN Min(stop \cup {Len(olds)})

\* findBestMatch: one that shares an id, or else the first without ids, unless
\* the next two of `news` are matched by nodes before it.
BestMatch(at, c, olds, news) ==
    LET soft(k, i) == SoftMatch(at, c, olds[k], news[i])
        near == {k \in 1..Reach(at, c, olds, news) : soft(k, 1)}
        same == {k \in near : c.sets[olds[k]] \cap c.sets[news[1]] # {}}
        free == {k \in near : c.sets[olds[k]] = {}}
        shifted(k) == Len(news) > 2 /\ \E i, j \in 1..(k - 1) : i < j /\ soft(i, 2) /\ soft(j, 3)
    IN IF olds = <<>> THEN None
       ELSE IF same # {} THEN olds[Min(same)]
       ELSE IF free # {} /\ ~shifted(Min(free)) THEN olds[Min(free)]
       ELSE None

\* syncAttributes, syncProperties and the data of texts and comments.
Sync(h, c, old, new) ==
    LET preserved == h.at[old].tag = "input" /\ (old = c.active \/ c.keep) IN
    [h EXCEPT !.at[old] =
        [@ EXCEPT !.id = h.at[new].id,
                  !.says = IF preserved THEN @ ELSE h.at[new].says,
                  !.value = IF preserved THEN @ ELSE h.at[new].value]]

\* Mutant: an old element with the same id is looked for among the siblings only.
OnlySiblings(at, c, n) == FALSE
Persistent(at, c, n) == at[n].id \in c.ids

\* What becomes of the first of `news`: the node that stands for it, and what
\* is to be morphed into its children, from a first one on.
Into(h, n, kids) == [h |-> h, node |-> n, from |-> First(h.at[n].kids), kids |-> kids]
Whole(h, n) == [h |-> h, node |-> n, from |-> None, kids |-> <<>>]
Placed(h, c, p, cursor, end, news) ==
    LET new == news[1]
        kids == h.at[new].kids
        olds == Between(h.at, p, cursor, end)
        match == BestMatch(h.at, c, olds, news)
        old == c.old[h.at[new].id]
        moved == Move(h, p, old, cursor)
        cleared == FoldLeft(Drop, h, SubSeq(olds, 1, Index(olds, match) - 1))
    IN IF match # None THEN Into(Sync(cleared, c, match, new), match, kids)
       ELSE IF Persistent(h.at, c, new)
         THEN IF h.at[old].tag = h.at[new].tag THEN Into(Sync(moved, c, old, new), old, kids)
              ELSE Whole(Drop(Insert(moved, p, new, old), old), new)
       ELSE IF c.sets[new] # {}
         THEN Into(Insert([h EXCEPT !.at[new].kids = <<>>], p, new, cursor), new, kids)
       ELSE Whole(Insert(h, p, new, cursor), new)

\* morphChildren and morphNode: one new node after the other, each with its
\* children; what is left of the old ones goes.
RECURSIVE Children(_, _, _, _, _, _)
Later(h, c, p, n, end, news) == Children(h, c, p, After(h.at, p, n), end, news)
Deeper(r, c, p, end, news) ==
    Later(Children(r.h, c, r.node, r.from, None, r.kids), c, p, r.node, end, news)
Children(h, c, p, cursor, end, news) ==
    IF news = <<>> THEN FoldLeft(Drop, h, Between(h.at, p, cursor, end))
    ELSE Deeper(Placed(h, c, p, cursor, end, news), c, p, end, Tail(news))

\* The range between two markers (or all) of p becomes `trees`.
Morphed(h, p, start, end, trees, keep) ==
    LET at == Plant((Fragment :> Blank) @@ h.at, Fragment, trees)
        first == IF start = None THEN First(at[p].kids) ELSE After(at, p, start)
        news == at[Fragment].kids
        all == [h EXCEPT !.at = at]
        done == Children(all, Context(all, Between(at, p, first, end), news, keep), p, first, end, news)
    IN [done EXCEPT !.at = Restrict(@, Below(@, Root))]

-----------------------------------------------------------------------------
(* Scopes.                                                                 *)

Page == "page"
Scope(parent, start, render) ==
    [parent |-> parent, start |-> start, end |-> None, signals |-> {}, render |-> render]

\* The scopes in a scope, itself included.
RECURSIVE Within(_, _)
Within(s, name) == {name} \cup UNION {Within(s, m) : m \in {m \in DOMAIN s : s[m].parent = name}}

\* hydrate: what a marker does, on a stack of scopes.  `u` also has the signals
\* of the content before, which the new one can adopt.
Open(u, name, n) ==
    LET top == Last(u.stack) IN
    [u EXCEPT !.scopes = (name :> Scope(top, n, u.scopes[top].render)) @@ @,
              !.stack = Append(@, name)]
Close(u, name, n) ==
    IF Last(u.stack) # name THEN [u EXCEPT !.fault = TRUE]
    ELSE [u EXCEPT !.scopes[name].end = n, !.stack = Front(@)]
\* Mutant: a signal that is declared again is not taken over.
Forget(u, s) ==
    IF s \in DOMAIN u.registry THEN u
    ELSE [u EXCEPT !.scopes[Last(u.stack)].signals = @ \cup {s}, !.registry = (s :> 0) @@ @]
Declare(u, s) ==
    LET owned == [u EXCEPT !.scopes[Last(u.stack)].signals = @ \cup {s}, !.left = @ \ {s}] IN
    IF s \notin DOMAIN u.registry THEN [owned EXCEPT !.registry = (s :> 0) @@ @]
    ELSE IF s \in u.left THEN owned ELSE u
Marker(u, n) ==
    LET says == dom'.at[n].says IN
    IF u.fault \/ dom'.at[n].tag # "comment" THEN u
    ELSE CASE says[1] = "signal" -> Declare(u, says[2])
           [] says[1] = "start" -> Open(u, says[2], n)
           [] says[1] = "end" -> Close(u, says[2], n)

\* Releases the scope of `name` and what is in it, scans the nodes with a new
\* one, and deletes the signals that the new content does not declare.
Rehydrated(name, render, nodes) ==
    LET gone == Within(scopes, name)
        kept == [scopes EXCEPT ![name].signals = {}, ![name].render = render]
        u == FoldLeft(Marker,
                 [scopes |-> Restrict(kept, (DOMAIN kept \ gone) \cup {name}),
                  registry |-> registry, left |-> UNION {scopes[m].signals : m \in gone},
                  stack |-> <<name>>, fault |-> FALSE], nodes)
    IN /\ scopes' = u.scopes
       /\ registry' = Restrict(u.registry, DOMAIN u.registry \ u.left)
       /\ fault' = (fault \/ u.fault)

\* The range of a part: its parent, and the nodes between its markers.
Parent(at, n) == CHOOSE p \in DOMAIN at : Contains(at[p].kids, n)
Inside(at, s) ==
    LET p == Parent(at, s.start)
        nodes == Between(at, p, After(at, p, s.start), s.end)
    IN FlattenSeq([i \in DOMAIN nodes |-> Order(at, nodes[i])])

-----------------------------------------------------------------------------
(* What the server means the document to be.                               *)

RECURSIVE Marks(_), Spliced(_, _, _)
Marks(trees) == UNION {Marks(t.kids) : t \in ToSet(trees)}
                \cup {t.says[2] : t \in {t \in ToSet(trees) : t.tag = "comment" /\ t.says[1] = "start"}}
Spliced(trees, name, new) ==
    LET at(what) == SelectInSeq(trees, LAMBDA t : t.says = <<what, name>>) IN
    IF at("start") = 0
    THEN [i \in DOMAIN trees |-> [trees[i] EXCEPT !.kids = Spliced(@, name, new)]]
    ELSE SubSeq(trees, 1, at("start")) \o new \o SubSeq(trees, at("end"), Len(trees))

\* The server means `trees` to take the place of the part `name`.
Meant(name, render, trees) ==
    /\ sent' = Spliced(sent, name, trees)
    /\ origin' = [m \in Marks(sent') |-> IF m \in Marks(trees) THEN render ELSE origin[m]]

-----------------------------------------------------------------------------
(* Steps.                                                                  *)

Init ==
    /\ dom = [at |-> (Root :> Blank), focus |-> None]
    /\ scopes = (Page :> Scope("", None, Page))
    /\ registry = <<>>
    /\ fault = FALSE
    /\ sent = <<>> /\ origin = <<>> /\ step = "input"
    /\ shows = 0 /\ updates = 0

Inputs(at) == {n \in DOMAIN at : at[n].tag = "input"}
Typed == <<"value", "typed">>

\* Bound: what the user does last, with no content to come, is left out.
MoreToCome == shows + updates < MaxSteps /\ (shows < MaxShows \/ DOMAIN scopes # {Page})

Type(n) ==
    /\ MoreToCome
    /\ dom' = [dom EXCEPT !.focus = n, !.at[n].value = Typed]
    /\ step' = "input"
    /\ UNCHANGED <<scopes, registry, fault, sent, origin, shows, updates>>

Leave ==
    /\ MoreToCome
    /\ dom.focus # None
    /\ dom' = [dom EXCEPT !.focus = None]
    /\ step' = "input"
    /\ UNCHANGED <<scopes, registry, fault, sent, origin, shows, updates>>

\* Bound: one signal with a value of the user's at a time.
Change(s) ==
    /\ MoreToCome /\ \A t \in DOMAIN registry : registry[t] = 0
    /\ registry' = [registry EXCEPT ![s] = 1]
    /\ step' = "input"
    /\ UNCHANGED <<dom, scopes, fault, sent, origin, shows, updates>>

Shown(trees) ==
    /\ sent' = trees
    /\ origin' = [m \in Marks(trees) |-> Page]
    /\ shows' = shows + 1
    /\ UNCHANGED updates

\* The document is parsed and scanned.
Load(trees) ==
    /\ shows = 0
    /\ dom' = [dom EXCEPT !.at = Plant(@, Root, trees)]
    /\ Rehydrated(Page, Page, Tail(Order(dom'.at, Root)))
    /\ Shown(trees)
    /\ step' = "load"

\* The page renders again, is replaced by another page, which takes the focus
\* away, or is refreshed by the development server, which keeps what was typed.
Show(trees, how) ==
    /\ shows \in 1..(MaxShows - 1) /\ shows + updates < MaxSteps
    /\ dom' = Morphed(IF how = "navigate" THEN [dom EXCEPT !.focus = None] ELSE dom,
                      Root, None, None, trees, how = "refresh")
    /\ Rehydrated(Page, Page, Tail(Order(dom'.at, Root)))
    /\ Shown(trees)
    /\ step' = how

Updated ==
    /\ step' = "update"
    /\ updates' = updates + 1
    /\ UNCHANGED shows

\* A shard renders on its own.
Rerender(k, trees) ==
    /\ shows + updates < MaxSteps
    /\ k \in DOMAIN scopes
    /\ scopes[k].end # None
    /\ dom' = Morphed(dom, Parent(dom.at, scopes[k].start), scopes[k].start, scopes[k].end, trees, FALSE)
    /\ Rehydrated(k, k, Inside(dom'.at, scopes[k]))
    /\ Meant(k, k, trees)
    /\ Updated

\* An update of a live region arrives, in the stream of the page's render or of
\* a shard's own.
Renders == {Page} \cup {k \in Shards \cap DOMAIN scopes : scopes[k].render = k}
\* Mutant: an update is for its region, whichever render that is from now.
ForRegion(r, render) == r \in Within(scopes, render) /\ scopes[r].end # None
Applies(r, render) == r \in Within(scopes, render) /\ scopes[r].end # None /\ scopes[r].render = render
Swap(r, render, trees) ==
    /\ shows + updates < MaxSteps
    /\ render \in Renders
    /\ IF Applies(r, render)
       THEN /\ dom' = Morphed(dom, Parent(dom.at, scopes[r].start), scopes[r].start, scopes[r].end, trees, FALSE)
            /\ Rehydrated(r, scopes[scopes[r].parent].render, Inside(dom'.at, scopes[r]))
       ELSE UNCHANGED <<dom, scopes, registry, fault>>
    /\ IF r \in DOMAIN origin /\ origin[r] = render THEN Meant(r, render, trees)
       ELSE UNCHANGED <<sent, origin>>
    /\ Updated

Next ==
    \/ \E n \in Inputs(dom.at) : Type(n)
    \/ Leave
    \/ \E s \in DOMAIN registry : Change(s)
    \/ \E trees \in Pages : Load(trees)
    \/ \E trees \in Pages, how \in {"render", "navigate", "refresh"} : Show(trees, how)
    \/ \E k \in Shards : \E trees \in Parts[k] : Rerender(k, trees)
    \/ \E r \in Regions, render \in {Page} \cup Shards : \E trees \in Parts[r] : Swap(r, render, trees)

Spec == Init /\ [][Next]_vars

-----------------------------------------------------------------------------
(* Properties.                                                             *)

\* What an input is like is a matter of ValuesAreKept.
RECURSIVE Plain(_), Shape(_, _)
Plain(trees) == [i \in DOMAIN trees |->
    [trees[i] EXCEPT !.says = IF trees[i].tag = "input" THEN <<>> ELSE @, !.kids = Plain(@)]]
Shape(at, n) == [i \in DOMAIN at[n].kids |->
    LET k == at[n].kids[i] IN
    [tag |-> at[k].tag, id |-> at[k].id, says |-> IF at[k].tag = "input" THEN <<>> ELSE at[k].says,
     kids |-> Shape(at, k)]]

\* The document becomes what the server means it to be, whatever was there, and
\* an update changes its own region only, if that is still the one it is for.
ContentArrives == Shape(dom.at, Root) = Plain(sent)

\* The places of the nodes in document order.
Place(n) == Index(Order(dom.at, Root), n)
Encloses(name, n) ==
    name = Page \/ (Place(scopes[name].start) < Place(n) /\ Place(n) < Place(scopes[name].end))

\* Each part has a scope with its markers, which are nested as the scopes are.
MarkersMatch ==
    /\ ~fault
    /\ DOMAIN scopes = {Page} \cup Marks(sent)
    /\ \A name \in DOMAIN scopes \ {Page} :
          /\ {scopes[name].start, scopes[name].end} \subseteq DOMAIN dom.at
          /\ Parent(dom.at, scopes[name].start) = Parent(dom.at, scopes[name].end)
          /\ dom.at[scopes[name].start].says = <<"start", name>>
          /\ dom.at[scopes[name].end].says = <<"end", name>>
          /\ \A other \in DOMAIN scopes :
                name \in Within(scopes, other) <=> name = other \/ Encloses(other, scopes[name].start)

\* Each signal that is declared is there, and belongs to the innermost part.
SignalsAreOwned ==
    LET declares(s) == {n \in DOMAIN dom.at : dom.at[n].says = <<"signal", s>>} IN
    /\ \A s \in DOMAIN registry : \E name \in DOMAIN scopes : s \in scopes[name].signals
    /\ \A n \in {n \in DOMAIN dom.at : dom.at[n].tag = "comment" /\ dom.at[n].says[1] = "signal"} :
          dom.at[n].says[2] \in DOMAIN registry
    /\ \A name \in DOMAIN scopes : \A s \in scopes[name].signals :
          \E n \in declares(s) :
              /\ Encloses(name, n)
              /\ \A other \in DOMAIN scopes : Encloses(other, n) => name \in Within(scopes, other)

\* The scopes and the signals follow the content, although morphing makes the
\* nodes of one part those of another (hydrate.ts, scope.ts, unit.ts): scopes
\* that are released are gone with the signals that only they declared, and
\* signals go over to the part that declares them now.
ScopesFollowContent == MarkersMatch /\ SignalsAreOwned

Ids(at) == {at[n].id : n \in DOMAIN at} \ {""}
\* The elements whose id and tag are there before and after a step.
Lasting == {n \in DOMAIN dom.at : \E m \in DOMAIN dom'.at :
               dom.at[n].id # "" /\ <<dom.at[n].id, dom.at[n].tag>> = <<dom'.at[m].id, dom'.at[m].tag>>}
\* No element of the tag of n can be taken for another one.
Distinct(n) ==
    /\ \A m \in DOMAIN dom.at : dom.at[m].tag = dom.at[n].tag => m \in Lasting
    /\ \A m \in DOMAIN dom.at : dom.at[m].id \in Ids(dom'.at) => m \in Lasting

\* An element never becomes the one with another id while its own is there, and
\* keeps its own when it cannot be taken for another (morph.ts, "Those elements
\* keep their IDs when matched").
IdsKeepTheirNodes ==
    [][\A n \in DOMAIN dom.at :
          /\ n \in DOMAIN dom'.at /\ dom.at[n].id \in Ids(dom'.at) => dom'.at[n].id = dom.at[n].id
          /\ n \in Lasting /\ Distinct(n) => n \in DOMAIN dom'.at]_vars

RECURSIVE Path(_, _)
Path(at, n) == IF n = Root THEN <<>> ELSE Append(Path(at, Parent(at, n)), at[n].id)
Around(at, n) == {m \in DOMAIN at \ {Root} : n \in Below(at, m)}

\* Content that has the focused control where it was, among elements that are
\* not taken for each other, leaves it the focus.
FocusStays ==
    LET f == dom.focus IN
    f # None /\ step' \in {"render", "update", "refresh"}
    /\ (\E n \in DOMAIN dom'.at : dom'.at[n].tag = dom.at[f].tag /\ Path(dom'.at, n) = Path(dom.at, f))
    /\ (\A m \in Around(dom.at, f) : m \in Lasting /\ Distinct(m))
        => dom'.focus = f

\* What the i-th node of the document says as the server means it.
RECURSIVE Says(_)
Says(trees) == FlattenSeq([i \in DOMAIN trees |-> <<trees[i].says>> \o Says(trees[i].kids)])

\* The value that the user typed stays in the control that has the focus, and
\* in those that a refresh by the development server leaves; the others show
\* what the server means them to.
InputsKeep ==
    \A n \in Inputs(dom'.at) :
        LET kept == n \in DOMAIN dom.at /\ dom'.at[n].value = dom.at[n].value
            said == dom'.at[n].value = Says(sent')[Index(Tail(Order(dom'.at, Root)), n)]
        IN step' # "input" =>
              \/ kept /\ (step' \in {"refresh", "update"} \/ n = dom.focus)
              \/ said /\ n # dom.focus /\ (step' = "refresh" => n \notin DOMAIN dom.at)
              \/ said /\ step' = "navigate"

\* Content leaves the values of the signals alone that it declares again.
SignalsKeep ==
    \A s \in DOMAIN registry \cap DOMAIN registry' :
        registry'[s] # registry[s] => step' = "input"

\* What new content costs the user (morph.ts, unit.ts): not the focus, where the
\* control stays in its place and is not taken for another; not what was typed in
\* the control that has the focus or in one that a refresh leaves, though the
\* others may show what the server says; and no value of a signal declared again.
UserStateStays == [][FocusStays /\ InputsKeep /\ SignalsKeep]_vars
=============================================================================
