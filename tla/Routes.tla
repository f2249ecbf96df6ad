------------------------------- MODULE Routes -------------------------------
(***************************************************************************)
(* The router's tables: what an application registers with the builder,    *)
(* in any order, what build() makes of it, and how a request finds its     *)
(* route, its layers and its layouts.  A path is the sequence of its       *)
(* segments and a URL that of its parts; an empty last one, in either, is  *)
(* a trailing slash, and <<>> is the root.                                 *)
(***************************************************************************)
EXTENDS Integers, FiniteSets, SequencesExt, Turns

CONSTANTS
    RouteDecls,     \* routes to register: an id, a path, methods, or any method
    PageDecls,      \* pages to register, likewise
    LayoutDecls,    \* layouts: an id and a path
    LayerDecls,     \* layers: an id and a path, or always
    Methods,        \* the methods of requests
    URLs,           \* the URLs of requests
    MaxDeclared     \* bound: registrations in a behaviour

AnyMethod == "any method"
Policies == {"redirect", "serve", "strict"}

Static(name) == [kind |-> "static", name |-> name]
Param(name) == [kind |-> "param", name |-> name]
CatchAll(name) == [kind |-> "all", name |-> name]
Group(name) == [kind |-> "group", name |-> name]
Slash == Static("")

Segments == [kind : {"static", "param", "all", "group"}, name : STRING]

\* What Path::new takes: only the last segment may be empty, and not as the first.
Valid(path) ==
    /\ path \in Seq(Segments)
    /\ \A i \in DOMAIN path : Len(path[i].name) \in Nat
    /\ \A i \in DOMAIN path : path[i] = Slash => i = Len(path) /\ i > 1

\* The parts of "/" are none, of which the first one is never an empty last one.
ASSUME RoutesAssumption ==
    /\ \A r \in RouteDecls \cup PageDecls :
          /\ r = [id |-> r.id, any |-> r.any, methods |-> r.methods, path |-> r.path,
                  layouts |-> <<>>]
          /\ r.any \in BOOLEAN /\ r.methods \subseteq Methods /\ Valid(r.path)
    /\ RouteDecls \cap PageDecls = {}
    /\ \A l \in LayoutDecls : Valid(l.path)
    /\ \A l \in LayerDecls : l.always \in BOOLEAN /\ Valid(l.path)
    /\ URLs \subseteq Seq(STRING) \ {<<"">>}
    /\ AnyMethod \notin Methods
    /\ {"GET", "HEAD"} \subseteq Methods
    /\ MaxDeclared \in Nat

VARIABLES
    builder,    \* what has been registered so far, in order
    router      \* the tables once they are built

routesVars == <<builder, router>>

-----------------------------------------------------------------------------
(* Paths.                                                                  *)

\* The entries at `places`, in the order that `before` gives to these.
Arranged(entries, places, before) ==
    LET Ahead(i) == Cardinality({j \in places : <<j, i>> \in before})
    IN  [k \in 1..Cardinality(places) |-> entries[CHOOSE i \in places : Ahead(i) = k - 1]]

\* The bytes of a segment: a slash, its name and its brackets.
SegmentLen(s) ==
    1 + Len(s.name) + (CASE s.kind = "static" -> 0
                         [] s.kind \in {"param", "group"} -> 2
                         [] s.kind = "all" -> 3)

PathLen(p) ==
    LET bytes[n \in 0..Len(p)] == IF n = 0 THEN 0 ELSE bytes[n - 1] + SegmentLen(p[n])
    IN  bytes[Len(p)]

\* Lengths first, then segment by segment for as long as both have one.
StartsWith(p, prefix) ==
    /\ PathLen(p) >= PathLen(prefix)
    /\ \A i \in DOMAIN p \cap DOMAIN prefix : p[i] = prefix[i]

\* The path without its groups; "/" alone is the root.
ToMatchitPath(p) ==
    LET places == {i \in DOMAIN p : p[i].kind # "group"}
        stripped == Arranged(p, places, {ij \in places \X places : ij[1] < ij[2]})
    IN  IF stripped = <<Slash>> THEN <<>> ELSE stripped

HasTrailingSlash(p) == p # <<>> /\ Last(p) = Slash

\* The other trailing-slash form of a path, if it has one.
Twin(p) ==
    IF p = <<>> \/ Last(p).kind = "all" THEN {}
    ELSE {IF HasTrailingSlash(p) THEN Front(p) ELSE Append(p, Slash)}

-----------------------------------------------------------------------------
(* The matcher.                                                            *)

\* A catch-all goes to the end.
Unmatchable(p) == \E i \in DOMAIN p : p[i].kind = "all" /\ i < Len(p)

\* Paths conflict when they differ in nothing but the names of parameters.
Shape(p) == [i \in DOMAIN p |-> IF p[i].kind = "static" THEN p[i] ELSE [p[i] EXCEPT !.name = ""]]

\* A parameter takes one part that is not empty, a catch-all what is left.
Fits(p, url) ==
    LET One(i) == IF p[i].kind = "static" THEN url[i] = p[i].name ELSE url[i] # ""
        n == Len(p)
    IN  IF n > 0 /\ Last(p).kind = "all"
        THEN Len(url) >= n /\ (\A i \in 1..(n - 1) : One(i)) /\ (Len(url) > n \/ One(n))
        ELSE Len(url) = n /\ \A i \in 1..n : One(i)

\* At the first segment where two paths differ, a static one goes before a
\* parameter, and that before a catch-all.
Precedes(p, q) ==
    LET Rank(s) == CASE s.kind = "static" -> 1 [] s.kind = "param" -> 2 [] s.kind = "all" -> 3
    IN  \E i \in DOMAIN p \cap DOMAIN q :
            /\ \A j \in 1..(i - 1) : Rank(p[j]) = Rank(q[j])
            /\ Rank(p[i]) < Rank(q[i])

\* The path that takes a URL, out of those that are registered.
BestFits(paths, url) ==
    LET fitting == {p \in paths : Fits(p, url)}
    IN  {p \in fitting : \A q \in fitting \ {p} : Precedes(p, q)}

-----------------------------------------------------------------------------
(* Registering.                                                            *)

NotBuilt == [state |-> "none", endpoints |-> <<>>, routes |-> <<>>, always |-> <<>>]

RoutesInit ==
    /\ builder = [routes |-> <<>>, pages |-> <<>>, layouts |-> <<>>, layers |-> <<>>,
                  policy |-> "redirect"]
    /\ router = NotBuilt

Declared == Len(builder.routes) + Len(builder.pages) + Len(builder.layouts) + Len(builder.layers)

\* One more entry of a kind, which is registered once.
Push(kind, entry) ==
    /\ router = NotBuilt
    /\ Declared < MaxDeclared
    /\ ~Contains(builder[kind], entry)
    /\ builder' = [builder EXCEPT ![kind] = Append(@, entry)]
    /\ UNCHANGED router

Route(r) == Push("routes", r)
Page(p) == Push("pages", p)
Layout(l) == Push("layouts", l)
Layer(l) == Push("layers", l)

SetTrailingSlash(policy) ==
    /\ router = NotBuilt
    /\ builder.policy # policy
    /\ builder' = [builder EXCEPT !.policy = policy]
    /\ UNCHANGED router

-----------------------------------------------------------------------------
(* Building.                                                               *)

\* A page is wired to its layouts, the outermost first: a stable sort by length.
WithLayouts(page) ==
    LET places == {i \in DOMAIN builder.layouts : StartsWith(page.path, builder.layouts[i].path)}
        length == [i \in places |-> PathLen(builder.layouts[i].path)]
        before == {ij \in places \X places :
                     \/ length[ij[1]] < length[ij[2]]
                     \/ length[ij[1]] = length[ij[2]] /\ ij[1] < ij[2]}
    IN  [page EXCEPT !.layouts = Arranged(builder.layouts, places, before)]

Registrations == builder.routes \o [i \in DOMAIN builder.pages |-> WithLayouts(builder.pages[i])]

Wraps(layer, path) == layer.always \/ StartsWith(path, layer.path)

\* Mutant: the length alone does not tell a layer without a path from one at the root.
BackingLen(layer) == IF layer.always THEN 0 ELSE PathLen(layer.path)

\* A layer without a path is shorter than one at the root.
LayerLen(layer) == IF layer.always THEN 0 ELSE PathLen(layer.path) + 1

\* The layers around a route, the outermost first; of those at one path, the
\* later one.
LayersForPath(path) ==
    LET places == {i \in DOMAIN builder.layers : Wraps(builder.layers[i], path)}
        length == [i \in places |-> LayerLen(builder.layers[i])]
        before == {ij \in places \X places :
                     \/ length[ij[1]] < length[ij[2]]
                     \/ length[ij[1]] = length[ij[2]] /\ ij[1] > ij[2]}
    IN  Arranged(builder.layers, places, before)

Endpoint(path) == [path |-> path, table |-> [m \in Methods \cup {AnyMethod} |-> 0]]

Conflicts(endpoints, path) ==
    \E e \in DOMAIN endpoints : Shape(endpoints[e].path) = Shape(path)

\* Where a route goes in the table of its endpoint.
Slots(r) == IF r.any THEN {AnyMethod} ELSE r.methods

Panic(tables) == [tables EXCEPT !.state = "panicked"]

\* One round of the loop over the registrations: the endpoint of the path, which
\* may have to be made, takes the route for its methods, if they are free.
Register(tables, r) ==
    LET key == ToMatchitPath(r.path)
        known == {e \in DOMAIN tables.endpoints : tables.endpoints[e].path = key}
        e == IF known # {} THEN CHOOSE k \in known : TRUE ELSE Len(tables.endpoints) + 1
        endpoints == IF known # {} THEN tables.endpoints
                     ELSE Append(tables.endpoints, Endpoint(key))
        slots == Slots(r)
        index == Len(tables.routes) + 1
    IN  IF \/ known = {} /\ (Unmatchable(key) \/ Conflicts(tables.endpoints, key))
           \/ slots = {}
           \/ \E m \in slots : endpoints[e].table[m] # 0
        THEN Panic(tables)
        ELSE [tables EXCEPT
                !.endpoints = [endpoints EXCEPT ![e].table =
                    [m \in DOMAIN @ |-> IF m \in slots THEN index ELSE @[m]]],
                !.routes = Append(@, [id |-> r.id, path |-> r.path, redirects |-> FALSE,
                                      layouts |-> r.layouts, layers |-> LayersForPath(r.path)])]

\* Once a round has panicked, none follows it.
RegisterNext(tables, r) == IF tables.state = "panicked" THEN tables ELSE Register(tables, r)

AliasHeadToGet(endpoint) ==
    [endpoint EXCEPT !.table["HEAD"] = IF @ = 0 THEN endpoint.table["GET"] ELSE @]

AlwaysLayers ==
    LET places == {i \in DOMAIN builder.layers : builder.layers[i].always}
    IN  Arranged(builder.layers, places, {ij \in places \X places : ij[1] > ij[2]})

\* One round of register_twins: a form that is registered already is left alone.
AddTwin(tables, e) ==
    LET endpoint == tables.endpoints[e]
        free == {path \in Twin(endpoint.path) : ~Conflicts(tables.endpoints, path)}
        index == Len(tables.routes) + 1
    IN  IF free = {} THEN tables
        ELSE LET path == CHOOSE p \in free : TRUE
             IN  IF builder.policy = "serve"
                 THEN [tables EXCEPT !.endpoints = Append(@, [endpoint EXCEPT !.path = path])]
                 ELSE [tables EXCEPT
                        !.endpoints = Append(@, [Endpoint(path) EXCEPT !.table[AnyMethod] = index]),
                        !.routes = Append(@, [id |-> "redirect", path |-> path, redirects |-> TRUE,
                                              layouts |-> <<>>, layers |-> AlwaysLayers])]

RegisterTwins(tables) ==
    IF builder.policy = "strict" THEN tables
    ELSE InTurn(AddTwin, tables, [e \in DOMAIN tables.endpoints |-> e])

\* A layer at a path, other than the root, that wraps nothing is a mistake.
Unused(layer) ==
    /\ ~layer.always
    /\ layer.path # <<>>
    /\ \A i \in DOMAIN Registrations : ~StartsWith(Registrations[i].path, layer.path)

Tables ==
    LET start == [NotBuilt EXCEPT !.state = "built", !.always = AlwaysLayers]
        grouped == InTurn(RegisterNext, start, Registrations)
        aliased == [grouped EXCEPT !.endpoints = [e \in DOMAIN @ |-> AliasHeadToGet(@[e])]]
    IN  IF grouped.state = "panicked" \/ \E i \in DOMAIN builder.layers : Unused(builder.layers[i])
        THEN Panic(NotBuilt)
        ELSE RegisterTwins(aliased)

Build ==
    /\ router = NotBuilt
    /\ router' = Tables
    /\ UNCHANGED builder

RoutesNext ==
    \/ \E r \in RouteDecls : Route(r)
    \/ \E p \in PageDecls : Page(p)
    \/ \E l \in LayoutDecls : Layout(l)
    \/ \E l \in LayerDecls : Layer(l)
    \/ \E policy \in Policies : SetTrailingSlash(policy)
    \/ Build

-----------------------------------------------------------------------------
(* Dispatching.                                                            *)

At(url) == {e \in DOMAIN router.endpoints :
               router.endpoints[e].path \in
                   BestFits({router.endpoints[i].path : i \in DOMAIN router.endpoints}, url)}

\* Mutant: the slash is added, whichever form was asked for.
SlashAdded(path, url) == Append(url, "")

\* A redirect leads to the form of the URL that the path does not have.
OtherForm(path, url) == IF HasTrailingSlash(path) THEN Front(url) ELSE Append(url, "")

\* What a request comes to: a route's answer, a redirect, or an error.
Dispatch(method, url) ==
    IF At(url) = {} THEN [is |-> "not found", layers |-> router.always]
    ELSE LET endpoint == router.endpoints[CHOOSE e \in At(url) : TRUE]
             index == IF endpoint.table[method] # 0 THEN endpoint.table[method]
                      ELSE endpoint.table[AnyMethod]
         IN  IF index = 0 THEN [is |-> "method not allowed", layers |-> router.always]
             ELSE LET route == router.routes[index]
                  IN  IF route.redirects
                      THEN [is |-> "redirect", to |-> OtherForm(route.path, url),
                            layers |-> route.layers]
                      ELSE [is |-> "route", id |-> route.id, layers |-> route.layers,
                            layouts |-> route.layouts]

-----------------------------------------------------------------------------
(* What was declared, whatever the order.                                  *)

Declarations == ToSet(builder.routes) \cup ToSet(builder.pages)
Served == {ToMatchitPath(r.path) : r \in Declarations}

\* Nothing could choose between two declarations, or one of them is void.
Faulty ==
    \/ \E r \in Declarations : Slots(r) = {} \/ Unmatchable(ToMatchitPath(r.path))
    \/ \E r, s \in Declarations :
          LET p == ToMatchitPath(r.path)
              q == ToMatchitPath(s.path)
          IN  \/ r # s /\ p = q /\ Slots(r) \cap Slots(s) # {}
              \/ p # q /\ Shape(p) = Shape(q)
    \/ \E l \in ToSet(builder.layers) :
          ~l.always /\ l.path # <<>> /\ \A r \in Declarations : ~IsPrefix(l.path, r.path)

\* The other forms that no declaration has claimed, and whose they are.
OtherForms == IF builder.policy = "strict" THEN {}
              ELSE {f \in UNION {{<<q, p>> : q \in Twin(p)} : p \in Served} :
                       \A p \in Served : Shape(p) # Shape(f[1])}

\* The declarations that a request at a declared path is for.
For(path, method) ==
    LET On(slot) == {r \in Declarations : ToMatchitPath(r.path) = path /\ slot \in Slots(r)}
    IN  IF On(method) # {} THEN On(method)
        ELSE IF method = "HEAD" /\ On("GET") # {} THEN On("GET") ELSE On(AnyMethod)

\* A stack holds its members once, and none of them inside what belongs inside.
Stacked(stack, members, Outside(_, _)) ==
    /\ ToSet(stack) = members
    /\ Len(stack) = Cardinality(members)
    /\ \A i, j \in DOMAIN stack : i < j => ~Outside(stack[j], stack[i])

Later(entries, a, b) == \E i, j \in DOMAIN entries : i > j /\ entries[i] = a /\ entries[j] = b

LayerOutside(a, b) ==
    IF a.always \/ b.always THEN a.always /\ (b.always => Later(builder.layers, a, b))
    ELSE IsStrictPrefix(a.path, b.path) \/ (a.path = b.path /\ Later(builder.layers, a, b))

LayoutOutside(a, b) ==
    IsStrictPrefix(a.path, b.path) \/ (a.path = b.path /\ Later(builder.layouts, b, a))

Always == {l \in ToSet(builder.layers) : l.always}

\* The route `r` answers, inside what was declared around its own path.
AnsweredBy(d, r) ==
    /\ d.is = "route"
    /\ d.id = r.id
    /\ Stacked(d.layers, Always \cup {l \in ToSet(builder.layers) \ Always : IsPrefix(l.path, r.path)},
               LayerOutside)
    /\ Stacked(d.layouts, IF r \in ToSet(builder.pages)
                          THEN {l \in ToSet(builder.layouts) : IsPrefix(l.path, r.path)} ELSE {},
               LayoutOutside)

Answered(method, url) ==
    LET d == Dispatch(method, url)
        forms == {f[1] : f \in OtherForms}
        best == BestFits(Served \cup forms, url)
        path == CHOOSE p \in best : TRUE
        declared == IF path \in Served THEN path
                    ELSE (CHOOSE f \in OtherForms : f[1] = path)[2]
        owners == For(declared, method)
    IN  IF best # {} /\ owners # {} /\ (path \in Served \/ builder.policy = "serve")
        THEN \E r \in owners : AnsweredBy(d, r)
        ELSE /\ d.is = IF best = {} THEN "not found"
                       ELSE IF path \in Served \/ builder.policy = "serve" THEN "method not allowed"
                       ELSE "redirect"
             /\ Stacked(d.layers, Always, LayerOutside)

\* The tables give each request the answer that was declared for it, and there
\* are none where nothing could say which that is.
TablesAreRight ==
    /\ router.state = "panicked" => Faulty
    /\ router.state = "built" => ~Faulty /\ \A m \in Methods, url \in URLs : Answered(m, url)

\* A redirect leads its client to a route, unless that has another method, and
\* neither to another redirect nor to nothing.
RedirectLands(method, url) ==
    LET d == Dispatch(method, url) IN
    d.is = "redirect" =>
        \/ Dispatch(method, d.to).is = "route"
        \/ /\ Dispatch(method, d.to).is = "method not allowed"
           /\ \E m \in Methods : Dispatch(m, d.to).is = "route"

\* What is served at the other form is what the declared one gets.
FormsAgree(method, url) ==
    builder.policy = "serve" =>
        \A e \in At(url) : LET path == router.endpoints[e].path IN
            path \notin Served => Dispatch(method, OtherForm(path, url)) = Dispatch(method, url)
=============================================================================
