----------------------------- MODULE Application -----------------------------
(***************************************************************************)
(* An application from its first registration to its last response: the    *)
(* builder's tables decide which requests of the service reach a handler.  *)
(***************************************************************************)
EXTENDS Service, Routes

CONSTANTS
    Asks,       \* the method and the URL of each target of a request or a rewrite
    Launched    \* bound: the applications that are served, of those that are built

ASSUME ApplicationAssumption == Asks \in [Targets -> [method : Methods, url : URLs]]

appVars == <<vars, routesVars>>

AppInit == Init /\ RoutesInit

\* The application is being put together, and nothing is served yet.
Assemble ==
    /\ RoutesNext
    /\ UNCHANGED vars

\* A handler takes the request only where the tables lead to one; a request can
\* still be refused, for its identity or its origin, before that.
Routed(c) ==
    LET asked == Asks[req[c].target]
    IN  Stage(c) = "dispatch" /\ req'[c].stage = "handler" =>
            Dispatch(asked.method, asked.url).is = "route"

\* The service works on its requests with the tables as they were built.
Operate ==
    /\ router.state = "built"
    /\ builder \in Launched
    /\ Next
    /\ \A c \in Conns : Routed(c)
    /\ UNCHANGED routesVars

AppNext == Assemble \/ Operate

AppSpec == AppInit /\ [][AppNext]_appVars /\ Fairness

-----------------------------------------------------------------------------
\* The tables are complete before the first connection, and stay as they are.
Unserved == server = "accepting" /\ NoTasks /\ requests = 0

\* build() refuses exactly what leaves a request without a clear answer, and its
\* tables give each request the answer that was declared for it - the most
\* specific path, its own method before any method, HEAD from GET, within the
\* layers and layouts around the route's own path, the less specific outside -
\* in whatever order the application registered them (builder.rs).
AnswersFollowDeclarations == Unserved => TablesAreRight

\* The other trailing-slash form of a URL leads to what was declared there: a
\* client that follows a redirect has arrived, and one that is served gets what
\* the declared form gets (trailing_slash.rs).
SlashFormsLead ==
    Unserved /\ router.state = "built" =>
        \A m \in Methods, url \in URLs : RedirectLands(m, url) /\ FormsAgree(m, url)
=============================================================================
