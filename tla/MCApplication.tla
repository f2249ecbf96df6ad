---------------------------- MODULE MCApplication ----------------------------
(***************************************************************************)
(* What applications can register, for TLC: routes and pages that share    *)
(* URLs through groups, differ in methods, parameters, trailing slashes or *)
(* a catch-all, or are void; layouts and layers at one path and nested.    *)
(***************************************************************************)
EXTENDS Application

CONSTANTS t1, t2, t3

Only(id, methods, path) ==
    [id |-> id, any |-> FALSE, methods |-> methods, path |-> path, layouts |-> <<>>]
AnyAt(id, path) ==
    [id |-> id, any |-> TRUE, methods |-> {}, path |-> path, layouts |-> <<>>]
Everywhere(id) == [id |-> id, always |-> TRUE, path |-> <<>>]
LayerAt(id, path) == [id |-> id, always |-> FALSE, path |-> path]

Users == Only("users", {"GET"}, <<Static("users")>>)
Save == Only("save", {"POST"}, <<Group("a"), Static("users")>>)
Log == Everywhere("log")
Cookies == LayerAt("cookies", <<>>)

MCRouteDecls ==
    {Users, Save,
     AnyAt("users of any method", <<Static("users")>>),
     AnyAt("with a slash", <<Param("x"), Slash>>),
     Only("void", {}, <<Static("void")>>),
     Only("all too soon", {"GET"}, <<CatchAll("rest"), Group("a"), Static("me")>>),
     Only("one", {"POST"}, <<Param("y")>>),
     Only("files", {"GET"}, <<Static("users"), CatchAll("rest")>>)}

MCPageDecls ==
    {Only("home", {"GET"}, <<Group("a")>>),
     Only("root", {"HEAD"}, <<Group("a"), Slash>>),
     Only("list", {"GET"}, <<Group("a"), Static("users")>>),
     Only("user", {"GET"}, <<Group("a"), Static("users"), Param("x")>>),
     Only("me", {"GET", "POST"}, <<Group("a"), Static("users"), Static("me"), Slash>>)}

MCLayoutDecls ==
    {[id |-> "root", path |-> <<>>],
     [id |-> "first", path |-> <<Group("a")>>],
     [id |-> "second", path |-> <<Group("a")>>]}

MCLayerDecls ==
    {Log, Everywhere("trace"), Cookies, LayerAt("session", <<>>),
     LayerAt("in the group", <<Group("a")>>), LayerAt("in users", <<Static("users")>>),
     LayerAt("below a slash", <<Static("users"), Slash>>)}

MCURLs ==
    {<<>>, <<"users">>, <<"users", "">>, <<"x">>, <<"x", "">>,
     <<"users", "me">>, <<"users", "me", "">>, <<"users", "x">>, <<"users", "x", "">>,
     <<"users", "x", "y">>, <<"x", "me">>}

\* The application that is served: one handler for each method, around which
\* the cookie layer lies, and nothing but a redirect at the other form.
MCLaunched ==
    {[routes |-> <<Users, Save>>, pages |-> <<>>, layouts |-> <<>>, layers |-> <<Cookies>>,
      policy |-> "redirect"]}

MCAsks ==
    (t1 :> [method |-> "GET", url |-> <<"users">>]) @@
    (t2 :> [method |-> "POST", url |-> <<"users">>]) @@
    (t3 :> [method |-> "GET", url |-> <<"users", "">>])
=============================================================================
