SPECIFICATION AppSpec
CONSTANTS
    Conns = {c1, c2}
    Targets = {t1, t2, t3}
    Asked = {t1}
    TaskOps = {"start"}
    Inner = {f1, f2}
    Detached = {d1}
    RewriteLimit = 1
    MaxRequests = 1
    MaxCalls = 2
    t1 = t1
    t2 = t2
    t3 = t3
    RouteDecls <- MCRouteDecls
    PageDecls <- MCPageDecls
    LayoutDecls <- MCLayoutDecls
    LayerDecls <- MCLayerDecls
    Methods = {"GET", "HEAD", "POST"}
    URLs <- MCURLs
    MaxDeclared = 3
    Asks <- MCAsks
    Launched <- MCLaunched
INVARIANTS
    AnswersFollowDeclarations
    SlashFormsLead
    ClosedJarRefuses
    SessionReachesTheClient
PROPERTY ShutdownEnds
CHECK_DEADLOCK FALSE
