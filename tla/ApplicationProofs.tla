--------------------------- MODULE ApplicationProofs --------------------------
(***************************************************************************)
(* The service and its requests, for any number of connections, targets,   *)
(* futures and tasks: what a shutdown leaves behind, what becomes of a     *)
(* cookie that is written too late, how far a chain of rewrites goes, and  *)
(* whether the client holds the token of its session.  An application,     *)
(* whatever it registers, implements the service: its tables can only keep *)
(* a request from a handler.  Its router, whatever is registered in        *)
(* whatever order, answers each request as was declared, and the other     *)
(* trailing-slash form of a URL leads to the same.                         *)
(***************************************************************************)
EXTENDS Application, Recursion, FiniteSetTheorems, SequenceTheorems, TLAPS


Stages == {"idle", "dispatch", "handler", "delta", "cell", "jar", "follow", "respond", "body"}
Outcomes == {"response", "error", "rewrite", "panic", "unmatched"}
Places == {"idle", "lock", "read", "store", "check", "open", "add", "set"}

Contexts ==
    [stage : Stages, target : Targets, visited : SUBSET Targets, outcome : Outcomes,
     headers : Nat, built : BOOLEAN, jar : Nat, cell : BOOLEAN, sealed : BOOLEAN,
     load : Nat \cup {Unloaded}, holder : Workers \cup {Nobody}, tidy : BOOLEAN]

Jobs == [op : Ops, pc : Places, token : Nat, fresh : Nat, late : BOOLEAN]

RequestTypes ==
    /\ req \in [Conns -> Contexts]
    /\ work \in [Conns -> [Workers -> Jobs]]
    /\ client \in [Conns -> Nat]
    /\ calls \in Nat

ServiceTypes ==
    /\ server \in {"accepting", "draining", "cut", "returned", "failed"}
    /\ conn \in [Conns -> {"away", "open", "draining", "cut", "upgraded"}]

Types == RequestTypes /\ ServiceTypes

-----------------------------------------------------------------------------
(* The types of the requests.                                              *)

LEMMA ContextType ==
    ASSUME NEW t \in Targets, NEW visited \in SUBSET Targets
    PROVE  Context(t, visited) \in Contexts
BY DEF Context, Contexts, Stages, Outcomes, None, Unloaded, Nobody

LEMMA NoRequestType == NoRequest \in Contexts
<1> DEFINE t == CHOOSE t \in Targets : TRUE
<1>1. t \in Targets
    BY RequestsAssumption
<1>2. Context(t, {}) \in Contexts
    BY <1>1, ContextType
<1>3. QED
    BY <1>2 DEF NoRequest, Contexts, Stages

LEMMA QuietType == Quiet \in Jobs
BY DEF Quiet, Jobs, Ops, Places, None

LEMMA AllQuietType == [w \in Workers |-> Quiet] \in [Workers -> Jobs]
BY QuietType

LEMMA InitTypes == Init => Types
BY NoRequestType, AllQuietType
   DEF Init, RequestsInit, Types, RequestTypes, ServiceTypes, None

LEMMA DropTypes ==
    ASSUME RequestTypes, NEW c \in Conns, Drop(c)
    PROVE  RequestTypes'
BY NoRequestType, AllQuietType DEF Drop, RequestTypes

\* A step that replaces the context of one connection keeps the types.
LEMMA ContextReplaced ==
    ASSUME RequestTypes, NEW c \in Conns, NEW r \in Contexts,
           req' = [req EXCEPT ![c] = r]
    PROVE  req' \in [Conns -> Contexts]
BY DEF RequestTypes

\* So does one that replaces the job of one worker.
LEMMA JobReplaced ==
    ASSUME RequestTypes, NEW c \in Conns, NEW w \in Workers, NEW j \in Jobs,
           work' = [work EXCEPT ![c][w] = j]
    PROVE  work' \in [Conns -> [Workers -> Jobs]]
BY DEF RequestTypes

\* The dispatches, the jar's seals and the response.
LEMMA ServeTypes ==
    ASSUME RequestTypes, NEW c \in Conns, Serve(c)
    PROVE  RequestTypes'
<1> DEFINE r == req[c]
<1>a. r \in Contexts /\ client[c] \in Nat /\ Cookie(c) \in Nat
    BY DEF RequestTypes, Cookie, Contexts
<1>b. ASSUME NEW q \in Contexts, req' = [req EXCEPT ![c] = q],
             UNCHANGED <<work, client, requests, calls>>
      PROVE  RequestTypes'
    BY <1>b, ContextReplaced DEF RequestTypes
<1>1. CASE Matched(c)
    <2> DEFINE q == [r EXCEPT !.stage = "handler"]
    <2>1. q \in Contexts
        BY <1>a DEF Contexts, Stages
    <2>2. req' = [req EXCEPT ![c] = q]
        BY <1>1 DEF Matched
    <2>3. QED
        BY <1>1, <1>b, <2>1, <2>2 DEF Matched
<1>2. CASE Unmatched(c)
    <2> DEFINE q == [r EXCEPT !.stage = "respond", !.outcome = "unmatched", !.headers = client[c]]
    <2>1. q \in Contexts
        BY <1>a DEF Contexts, Stages, Outcomes
    <2>2. req' = [req EXCEPT ![c] = q]
        BY <1>2 DEF Unmatched
    <2>3. QED
        BY <1>2, <1>b, <2>1, <2>2 DEF Unmatched
<1>3. CASE SendHead(c)
    <2> DEFINE q == [r EXCEPT !.stage = "body"]
    <2>a. q \in Contexts
        BY <1>a DEF Contexts, Stages
    <2>b. req' = [req EXCEPT ![c] = q]
        BY <1>3 DEF SendHead
    <2>1. req' \in [Conns -> Contexts]
        BY <2>a, <2>b, ContextReplaced
    <2>2. client' \in [Conns -> Nat]
        BY <1>3, <1>a DEF SendHead, RequestTypes, Contexts
    <2>3. QED
        BY <1>3, <2>1, <2>2 DEF SendHead, RequestTypes
<1>4. CASE SendBody(c)
    BY <1>4, DropTypes DEF SendBody
<1>5. CASE WriteDelta(c)
    <2> DEFINE tidy == r.tidy /\ \A w \in Workers : ~Changing(c, w)
               q == [r EXCEPT !.stage = "cell", !.headers = Cookie(c), !.tidy = tidy]
    <2>1. q \in Contexts
        <3>1. tidy \in BOOLEAN
            BY <1>a DEF Contexts
        <3> HIDE DEF tidy
        <3>2. QED
            BY <1>a, <3>1 DEF Contexts, Stages
    <2>2. req' = [req EXCEPT ![c] = q]
        BY <1>5 DEF WriteDelta
    <2>3. QED
        BY <1>5, <1>b, <2>1, <2>2 DEF WriteDelta
<1>6. CASE SealCell(c)
    <2> DEFINE q == [r EXCEPT !.stage = "jar", !.cell = TRUE]
    <2>1. q \in Contexts
        BY <1>a DEF Contexts, Stages
    <2>2. req' = [req EXCEPT ![c] = q]
        BY <1>6 DEF SealCell
    <2>3. QED
        BY <1>6, <1>b, <2>1, <2>2 DEF SealCell
<1>7. CASE SealJar(c)
    <2> DEFINE q == [r EXCEPT !.stage = Sealed(c), !.sealed = r.sealed \/ r.built]
    <2>1. Sealed(c) \in Stages
        BY DEF Sealed, Stages
    <2>2. q \in Contexts
        BY <1>a, <2>1 DEF Contexts
    <2>3. req' = [req EXCEPT ![c] = q]
        BY <1>7 DEF SealJar
    <2>4. QED
        BY <1>7, <1>b, <2>2, <2>3 DEF SealJar
<1>8. ASSUME NEW outcome \in {"response", "error", "rewrite", "panic"}, End(c, outcome)
      PROVE  RequestTypes'
    <2> DEFINE cut == {w \in Inner : work[c][w].pc = "set"}
               q == [r EXCEPT
                        !.stage = IF outcome = "panic" THEN "respond" ELSE "delta",
                        !.outcome = outcome,
                        !.headers = client[c],
                        !.holder = IF r.holder \in Inner THEN Nobody ELSE r.holder,
                        !.tidy = r.tidy /\ cut = {} /\ outcome # "panic"]
    <2>1. work' \in [Conns -> [Workers -> Jobs]]
        BY <1>8, QuietType DEF End, RequestTypes
    <2> DEFINE stage == IF outcome = "panic" THEN "respond" ELSE "delta"
               holder == IF r.holder \in Inner THEN Nobody ELSE r.holder
               tidy == r.tidy /\ cut = {} /\ outcome # "panic"
    <2>2. q \in Contexts
        <3>1. stage \in Stages /\ outcome \in Outcomes
            BY DEF Stages, Outcomes
        <3>2. holder \in Workers \cup {Nobody} /\ tidy \in BOOLEAN
            BY <1>a DEF Contexts
        <3>3. q = [r EXCEPT !.stage = stage, !.outcome = outcome, !.headers = client[c],
                            !.holder = holder, !.tidy = tidy]
            OBVIOUS
        <3> HIDE DEF cut, stage, holder, tidy, q
        <3>4. QED
            BY <1>a, <3>1, <3>2, <3>3 DEF Contexts
    <2>3. req' = [req EXCEPT ![c] = q]
        BY <1>8 DEF End
    <2>4. req' \in [Conns -> Contexts]
        BY <2>2, <2>3, ContextReplaced
    <2>5. QED
        BY <1>8, <2>1, <2>4 DEF End, RequestTypes
<1>9. ASSUME NEW t \in Targets, Follow(c, t)
      PROVE  RequestTypes'
    <2> DEFINE visited == r.visited \cup {r.target}
    <2>1. visited \in SUBSET Targets
        BY <1>a DEF Contexts
    <2>2. CASE t \in visited \/ Cardinality(visited) > RewriteLimit
        <3> DEFINE q == [r EXCEPT !.stage = "respond", !.visited = visited]
        <3>1. q \in Contexts
            BY <1>a, <2>1 DEF Contexts, Stages
        <3>2. req' = [req EXCEPT ![c] = q]
            BY <1>9, <2>2 DEF Follow
        <3>3. QED
            BY <1>9, <1>b, <2>2, <3>1, <3>2 DEF Follow
    <2>3. CASE ~(t \in visited \/ Cardinality(visited) > RewriteLimit)
        <3>1. req' = [req EXCEPT ![c] = Context(t, visited)]
            BY <1>9, <2>3 DEF Follow
        <3>2. req' \in [Conns -> Contexts]
            BY <2>1, <3>1, ContextType, ContextReplaced
        <3>3. work' \in [Conns -> [Workers -> Jobs]]
            BY <1>9, <2>3, AllQuietType DEF Follow, RequestTypes
        <3>4. QED
            BY <1>9, <3>2, <3>3 DEF Follow, RequestTypes
    <2>4. QED
        BY <2>2, <2>3
<1>10. QED
    BY <1>1, <1>2, <1>3, <1>4, <1>5, <1>6, <1>7, <1>8, <1>9 DEF Serve

\* What is known of the session, and what the calls do.
LEMMA WorkTypes ==
    ASSUME RequestTypes, NEW c \in Conns, NEW w \in Workers, Work(c, w)
    PROVE  RequestTypes'
<1> DEFINE r == req[c]
           job == work[c][w]
<1>a. job \in Jobs /\ r \in Contexts /\ client[c] \in Nat /\ Cookie(c) \in Nat
    BY DEF RequestTypes, Cookie, Contexts
<1>b. BuiltJar(c) \in Contexts
    BY <1>a DEF BuiltJar, Contexts
<1>c. Result(c, w) \in Nat
    <2>1. job.token \in Nat /\ job.fresh \in Nat /\ None \in Nat
        BY <1>a DEF Jobs, None
    <2>2. QED
        BY <2>1 DEF Result
<1>d. ASSUME NEW token \in Nat, Known(c, w, token)
      PROVE  work' \in [Conns -> [Workers -> Jobs]]
    <2> DEFINE j == IF job.op = "token" \/ (job.op # "stop" /\ token = None) THEN Quiet
                    ELSE [job EXCEPT !.token = token, !.pc = "store"]
    <2>1. j \in Jobs
        BY <1>a, QuietType DEF Jobs, Places
    <2>2. work' = [work EXCEPT ![c][w] = j]
        BY <1>d DEF Known
    <2>3. QED
        BY <2>1, <2>2, JobReplaced
<1>e. ASSUME Stored(c, w)
      PROVE  work' \in [Conns -> [Workers -> Jobs]]
    <2> DEFINE j == IF job.op = "refresh" THEN Quiet ELSE [job EXCEPT !.pc = "set"]
    <2>1. j \in Jobs
        BY <1>a, QuietType DEF Jobs, Places
    <2>2. work' = [work EXCEPT ![c][w] = j]
        BY <1>e DEF Stored
    <2>3. QED
        BY <2>1, <2>2, JobReplaced
<1>1. ASSUME NEW op \in Ops, Call(c, w, op)
      PROVE  RequestTypes'
    <2> DEFINE late == Stage(c) \in {"follow", "respond", "body"} /\ req[c].outcome # "panic"
               j == [op |-> op, pc |-> IF op = "start" THEN "store" ELSE "lock", token |-> None,
                     fresh |-> calls + 2, late |-> late]
               tidy == r.tidy /\ (op \in Lifecycle =>
                  late \/ (Stage(c) \in {"handler", "delta"} /\ \A v \in Workers : ~Changing(c, v)))
               q == [r EXCEPT !.tidy = tidy]
    <2>a. q \in Contexts
        <3>1. tidy \in BOOLEAN
            BY <1>a DEF Contexts
        <3> HIDE DEF tidy
        <3>2. QED
            BY <1>a, <3>1 DEF Contexts
    <2>b. req' = [req EXCEPT ![c] = q]
        BY <1>1 DEF Call
    <2>1. req' \in [Conns -> Contexts]
        BY <2>a, <2>b, ContextReplaced
    <2>2. late \in BOOLEAN /\ calls + 2 \in Nat
        BY DEF RequestTypes
    <2>3. j \in Jobs
        <3> HIDE DEF late
        <3>1. QED
            BY <2>2 DEF Jobs, Places, None
    <2>4. work' = [work EXCEPT ![c][w] = j]
        BY <1>1 DEF Call
    <2>5. work' \in [Conns -> [Workers -> Jobs]]
        BY <2>3, <2>4, JobReplaced
    <2>6. QED
        BY <1>1, <2>1, <2>5 DEF Call, RequestTypes
<1>2. CASE Lock(c, w)
    <2>1. CASE r.load # Unloaded
        <3>1. r.load \in Nat
            BY <1>a, <2>1 DEF Contexts
        <3>2. QED
            BY <1>2, <1>d, <2>1, <3>1 DEF Lock, RequestTypes
    <2>2. CASE r.load = Unloaded
        <3> DEFINE j == [job EXCEPT !.pc = "read", !.token = Cookie(c)]
        <3> DEFINE q == [r EXCEPT !.holder = w]
        <3>a. q \in Contexts
            BY <1>a DEF Contexts
        <3>b. req' = [req EXCEPT ![c] = q]
            BY <1>2, <2>2 DEF Lock
        <3>1. req' \in [Conns -> Contexts]
            BY <3>a, <3>b, ContextReplaced
        <3>2. j \in Jobs
            BY <1>a DEF Jobs, Places
        <3>3. work' = [work EXCEPT ![c][w] = j]
            BY <1>2, <2>2 DEF Lock
        <3>4. work' \in [Conns -> [Workers -> Jobs]]
            BY <3>2, <3>3, JobReplaced
        <3>5. QED
            BY <1>2, <3>1, <3>4 DEF Lock, RequestTypes
    <2>3. QED
        BY <2>1, <2>2
<1>3. CASE Read(c, w)
    <2>1. PICK token \in {job.token, Cookie(c)} :
            /\ req' = [req EXCEPT ![c] = [BuiltJar(c) EXCEPT
                            !.load = token,
                            !.sealed = r.sealed \/ r.cell,
                            !.holder = IF r.holder = w THEN Nobody ELSE r.holder]]
            /\ Known(c, w, token)
        BY <1>3 DEF Read
    <2> DEFINE b == BuiltJar(c)
               q == [b EXCEPT !.load = token, !.sealed = r.sealed \/ r.cell,
                              !.holder = IF r.holder = w THEN Nobody ELSE r.holder]
    <2>2. token \in Nat
        BY <1>a, <2>1 DEF Jobs
    <2>3. q \in Contexts
        <3> HIDE DEF b
        <3>1. b \in Contexts /\ r \in Contexts
            BY <1>a, <1>b DEF b
        <3>2. QED
            BY <2>2, <3>1 DEF Contexts
    <2>4. req' \in [Conns -> Contexts]
        BY <2>1, <2>3, ContextReplaced
    <2>5. QED
        BY <1>3, <1>d, <2>1, <2>2, <2>4 DEF Read, RequestTypes
<1>4. CASE Fail(c, w)
    <2> DEFINE q == [r EXCEPT !.holder = IF r.holder = w THEN Nobody ELSE r.holder]
    <2>a. q \in Contexts
        BY <1>a DEF Contexts
    <2>b. req' = [req EXCEPT ![c] = q]
        BY <1>4 DEF Fail
    <2>1. req' \in [Conns -> Contexts]
        BY <2>a, <2>b, ContextReplaced
    <2>2. work' \in [Conns -> [Workers -> Jobs]]
        BY <1>4, QuietType, JobReplaced DEF Fail
    <2>3. QED
        BY <1>4, <2>1, <2>2 DEF Fail, RequestTypes
<1>5. CASE Store(c, w)
    <2> DEFINE b == BuiltJar(c)
               q == [b EXCEPT !.jar = Result(c, w)]
    <2>1. q \in Contexts
        <3> HIDE DEF b
        <3>1. b \in Contexts
            BY <1>b DEF b
        <3>2. QED
            BY <1>c, <3>1 DEF Contexts
    <2>2. req' = [req EXCEPT ![c] = q]
        BY <1>5 DEF Store
    <2>3. req' \in [Conns -> Contexts]
        BY <2>1, <2>2, ContextReplaced
    <2>4. QED
        BY <1>5, <1>e, <2>3 DEF Store, RequestTypes
<1>6. CASE SetToken(c, w)
    <2> DEFINE q == [r EXCEPT !.load = Result(c, w)]
    <2>a. q \in Contexts
        BY <1>a, <1>c DEF Contexts
    <2>b. req' = [req EXCEPT ![c] = q]
        BY <1>6 DEF SetToken
    <2>1. req' \in [Conns -> Contexts]
        BY <2>a, <2>b, ContextReplaced
    <2>2. work' \in [Conns -> [Workers -> Jobs]]
        BY <1>6, QuietType, JobReplaced DEF SetToken
    <2>3. QED
        BY <1>6, <2>1, <2>2 DEF SetToken, RequestTypes
<1>7. CASE GetOrInit(c, w)
    <2>1. req' \in [Conns -> Contexts]
        BY <1>7, <1>b, ContextReplaced DEF GetOrInit
    <2> DEFINE j == [job EXCEPT !.pc = "check"]
    <2>a. j \in Jobs
        BY <1>a DEF Jobs, Places
    <2>b. work' = [work EXCEPT ![c][w] = j]
        BY <1>7 DEF GetOrInit
    <2>2. work' \in [Conns -> [Workers -> Jobs]]
        BY <2>a, <2>b, JobReplaced
    <2>3. QED
        BY <1>7, <2>1, <2>2 DEF GetOrInit, RequestTypes
<1>8. CASE InheritSeal(c, w)
    <2> DEFINE q == [r EXCEPT !.sealed = r.sealed \/ r.cell]
               j == [job EXCEPT !.pc = "open"]
    <2>a. q \in Contexts /\ j \in Jobs
        BY <1>a DEF Contexts, Jobs, Places
    <2>b. req' = [req EXCEPT ![c] = q] /\ work' = [work EXCEPT ![c][w] = j]
        BY <1>8 DEF InheritSeal
    <2>1. req' \in [Conns -> Contexts]
        BY <2>a, <2>b, ContextReplaced
    <2>2. work' \in [Conns -> [Workers -> Jobs]]
        BY <2>a, <2>b, JobReplaced
    <2>3. QED
        BY <1>8, <2>1, <2>2 DEF InheritSeal, RequestTypes
<1>9. CASE AssertOpen(c, w)
    <2> DEFINE j == IF r.sealed THEN Quiet ELSE [job EXCEPT !.pc = "add"]
    <2>1. j \in Jobs
        BY <1>a, QuietType DEF Jobs, Places
    <2>2. work' = [work EXCEPT ![c][w] = j]
        BY <1>9 DEF AssertOpen
    <2>3. work' \in [Conns -> [Workers -> Jobs]]
        BY <2>1, <2>2, JobReplaced
    <2>4. QED
        BY <1>9, <2>3 DEF AssertOpen, RequestTypes
<1>10. CASE Add(c, w)
    <2> DEFINE q == [r EXCEPT !.jar = Result(c, w)]
    <2>a. q \in Contexts
        BY <1>a, <1>c DEF Contexts
    <2>b. req' = [req EXCEPT ![c] = q]
        BY <1>10 DEF Add
    <2>1. req' \in [Conns -> Contexts]
        BY <2>a, <2>b, ContextReplaced
    <2>2. QED
        BY <1>10, <1>e, <2>1 DEF Add, RequestTypes
<1>11. QED
    BY <1>1, <1>2, <1>3, <1>4, <1>5, <1>6, <1>7, <1>8, <1>9, <1>10, RequestsAssumption DEF Work

-----------------------------------------------------------------------------
(* What holds of one connection between the steps.                         *)

Sent == {"follow", "respond", "body"}

\* A context that nobody is in is one that nothing works in.
QuietWhenIdle(c) == Stage(c) = "idle" => \A w \in Inner : work[c][w].pc = "idle"

\* Once the changes of the jar were taken, the cell is closed, unless no jar
\* was looked at at all.
ClosedWhenSent(c) ==
    Stage(c) \in Sent \cup {"jar"} /\ req[c].outcome \notin {"panic", "unmatched"} => req[c].cell

\* A late call is of a context whose cell is closed; before it gets to its
\* cookie it has closed the jar as well.
LateMeetsTheSeal(c) ==
    \A w \in Workers : work[c][w].late =>
        /\ Stage(c) \in Sent
        /\ req[c].outcome \notin {"panic", "unmatched"}
        /\ work[c][w].pc = "open" => req[c].sealed
        /\ work[c][w].pc # "add"

ChainIsShort(c) ==
    /\ IsFiniteSet(req[c].visited)
    /\ Stage(c) \in {"dispatch", "handler"} =>
        /\ req[c].target \notin req[c].visited
        /\ Cardinality(req[c].visited) <= RewriteLimit

RequestInv(c) == QuietWhenIdle(c) /\ ClosedWhenSent(c) /\ LateMeetsTheSeal(c) /\ ChainIsShort(c)

\* It holds of a connection that nothing happens to.
LEMMA OthersKeep ==
    ASSUME NEW c \in Conns, RequestInv(c), req'[c] = req[c], work'[c] = work[c]
    PROVE  RequestInv(c)'
BY DEF RequestInv, QuietWhenIdle, ClosedWhenSent, LateMeetsTheSeal, ChainIsShort, Stage

\* It holds of a context that has nothing working in it, at its beginning.
LEMMA FreshKeeps ==
    ASSUME NEW c \in Conns, \A w \in Workers : work'[c][w] = Quiet,
           req'[c].stage \in {"idle", "dispatch"}, IsFiniteSet(req'[c].visited),
           req'[c].target \notin req'[c].visited,
           Cardinality(req'[c].visited) <= RewriteLimit
    PROVE  RequestInv(c)'
BY DEF RequestInv, QuietWhenIdle, ClosedWhenSent, LateMeetsTheSeal, ChainIsShort, Stage,
       Quiet, Sent, Workers

LEMMA FirstContext ==
    ASSUME NEW t \in Targets
    PROVE  LET r == Context(t, {}) IN
           /\ IsFiniteSet(r.visited) /\ r.target \notin r.visited
           /\ Cardinality(r.visited) <= RewriteLimit
BY FS_EmptySet, RequestsAssumption DEF Context

LEMMA NoRequestIsShort ==
    /\ NoRequest.stage = "idle"
    /\ IsFiniteSet(NoRequest.visited) /\ NoRequest.target \notin NoRequest.visited
    /\ Cardinality(NoRequest.visited) <= RewriteLimit
<1> DEFINE t == CHOOSE t \in Targets : TRUE
<1>1. t \in Targets
    BY RequestsAssumption
<1>2. /\ NoRequest.stage = "idle"
      /\ NoRequest.visited = Context(t, {}).visited
      /\ NoRequest.target = Context(t, {}).target
    BY DEF NoRequest, Context
<1>3. QED
    BY <1>1, <1>2, FirstContext

LEMMA DropKeeps ==
    ASSUME RequestTypes, NEW c \in Conns, Drop(c)
    PROVE  RequestInv(c)'
<1>1. req'[c] = NoRequest
    BY DEF Drop, RequestTypes
<1>2. \A w \in Workers : work'[c][w] = Quiet
    BY DEF Drop, RequestTypes
<1>3. QED
    BY <1>1, <1>2, NoRequestIsShort, FreshKeeps

LEMMA BeginKeeps ==
    ASSUME RequestTypes, NEW c \in Conns, NEW t \in Targets, Begin(c, t)
    PROVE  RequestInv(c)'
<1>1. req'[c] = Context(t, {})
    BY DEF Begin, RequestTypes
<1>2. \A w \in Workers : work'[c][w] = Quiet
    BY DEF Begin, RequestTypes
<1>3. req'[c].stage = "dispatch"
    BY <1>1 DEF Context
<1>4. QED
    BY <1>1, <1>2, <1>3, FirstContext, FreshKeeps

\* A step of the request whose work stays as it is.
LEMMA StageMoves ==
    ASSUME RequestTypes, NEW c \in Conns, RequestInv(c), NEW q \in Contexts,
           req' = [req EXCEPT ![c] = q], work' = work,
           q.stage # "idle", Stage(c) # "idle",
           q.visited = req[c].visited \/ IsFiniteSet(q.visited),
           q.stage \in {"dispatch", "handler"} =>
                /\ Stage(c) \in {"dispatch", "handler"}
                /\ q.target = req[c].target /\ q.visited = req[c].visited,
           q.stage \in Sent \cup {"jar"} /\ q.outcome \notin {"panic", "unmatched"} => q.cell,
           Stage(c) \in Sent => q.stage \in Sent /\ q.outcome = req[c].outcome,
           req[c].sealed => q.sealed
    PROVE  RequestInv(c)'
<1>1. req'[c] = q
    BY DEF RequestTypes
<1>2. QuietWhenIdle(c)' /\ ClosedWhenSent(c)'
    BY <1>1 DEF QuietWhenIdle, ClosedWhenSent, Stage
<1>3. LateMeetsTheSeal(c)'
    BY <1>1 DEF RequestInv, LateMeetsTheSeal, Stage
<1>4. ChainIsShort(c)'
    BY <1>1 DEF RequestInv, ChainIsShort, Stage
<1>5. QED
    BY <1>2, <1>3, <1>4 DEF RequestInv

\* The request goes on its way.
LEMMA ServeKeeps ==
    ASSUME RequestTypes, NEW c \in Conns, RequestInv(c), Serve(c)
    PROVE  RequestInv(c)'
<1> DEFINE r == req[c]
<1>a. r \in Contexts /\ client[c] \in Nat /\ Cookie(c) \in Nat
    BY DEF RequestTypes, Cookie, Contexts
<1>1. CASE Matched(c)
    <2> DEFINE q == [r EXCEPT !.stage = "handler"]
    <2>1. q \in Contexts
        BY <1>a DEF Contexts, Stages
    <2>2. req' = [req EXCEPT ![c] = q] /\ work' = work /\ Stage(c) = "dispatch"
        BY <1>1 DEF Matched
    <2>3. /\ q.stage = "handler" /\ q.visited = r.visited /\ q.target = r.target
          /\ q.sealed = r.sealed
        BY <1>a DEF Contexts
    <2>4. QED
        BY <2>1, <2>2, <2>3, StageMoves DEF Sent
<1>2. CASE Unmatched(c)
    <2> DEFINE q == [r EXCEPT !.stage = "respond", !.outcome = "unmatched", !.headers = client[c]]
    <2>1. q \in Contexts
        BY <1>a DEF Contexts, Stages, Outcomes
    <2>2. req' = [req EXCEPT ![c] = q] /\ work' = work /\ Stage(c) = "dispatch"
        BY <1>2 DEF Unmatched
    <2>3. /\ q.stage = "respond" /\ q.outcome = "unmatched" /\ q.visited = r.visited
          /\ q.sealed = r.sealed
        BY <1>a DEF Contexts
    <2>4. QED
        BY <2>1, <2>2, <2>3, StageMoves DEF Sent
<1>3. CASE SendHead(c)
    <2> DEFINE q == [r EXCEPT !.stage = "body"]
    <2>1. q \in Contexts
        BY <1>a DEF Contexts, Stages
    <2>2. req' = [req EXCEPT ![c] = q] /\ work' = work /\ Stage(c) = "respond"
        BY <1>3 DEF SendHead
    <2>3. /\ q.stage = "body" /\ q.outcome = r.outcome /\ q.visited = r.visited
          /\ q.sealed = r.sealed /\ q.cell = r.cell
        BY <1>a DEF Contexts
    <2>4. r.outcome \notin {"panic", "unmatched"} => r.cell
        BY <2>2 DEF RequestInv, ClosedWhenSent, Sent
    <2>5. QED
        BY <2>1, <2>2, <2>3, <2>4, StageMoves DEF Sent
<1>4. CASE SendBody(c)
    BY <1>4, DropKeeps DEF SendBody
<1>5. CASE WriteDelta(c)
    <2> DEFINE tidy == r.tidy /\ \A w \in Workers : ~Changing(c, w)
               q == [r EXCEPT !.stage = "cell", !.headers = Cookie(c), !.tidy = tidy]
    <2>1. q \in Contexts
        <3>1. tidy \in BOOLEAN
            BY <1>a DEF Contexts
        <3> HIDE DEF tidy
        <3>2. QED
            BY <1>a, <3>1 DEF Contexts, Stages
    <2>2. req' = [req EXCEPT ![c] = q] /\ work' = work /\ Stage(c) = "delta"
        BY <1>5 DEF WriteDelta
    <2> HIDE DEF tidy
    <2>3. q.stage = "cell" /\ q.visited = r.visited /\ q.sealed = r.sealed
        BY <1>a DEF Contexts
    <2>4. QED
        BY <2>1, <2>2, <2>3, StageMoves DEF Sent
<1>6. CASE SealCell(c)
    <2> DEFINE q == [r EXCEPT !.stage = "jar", !.cell = TRUE]
    <2>1. q \in Contexts
        BY <1>a DEF Contexts, Stages
    <2>2. req' = [req EXCEPT ![c] = q] /\ work' = work /\ Stage(c) = "cell"
        BY <1>6 DEF SealCell
    <2>3. q.stage = "jar" /\ q.cell /\ q.visited = r.visited /\ q.sealed = r.sealed
        BY <1>a DEF Contexts
    <2>4. QED
        BY <2>1, <2>2, <2>3, StageMoves DEF Sent
<1>7. CASE SealJar(c)
    <2> DEFINE q == [r EXCEPT !.stage = Sealed(c), !.sealed = r.sealed \/ r.built]
    <2>1. Sealed(c) \in {"follow", "respond"}
        BY DEF Sealed
    <2>2. q \in Contexts
        BY <1>a, <2>1 DEF Contexts, Stages
    <2>3. req' = [req EXCEPT ![c] = q] /\ work' = work /\ Stage(c) = "jar"
        BY <1>7 DEF SealJar
    <2>4. /\ q.stage = Sealed(c) /\ q.outcome = r.outcome /\ q.visited = r.visited
          /\ q.cell = r.cell /\ (r.sealed => q.sealed)
        BY <1>a DEF Contexts
    <2>5. r.outcome \notin {"panic", "unmatched"} => r.cell
        BY <2>3 DEF RequestInv, ClosedWhenSent, Sent
    <2>6. QED
        BY <2>1, <2>2, <2>3, <2>4, <2>5, StageMoves DEF Sent
<1>8. ASSUME NEW outcome \in {"response", "error", "rewrite", "panic"}, End(c, outcome)
      PROVE  RequestInv(c)'
    <2>1. /\ Stage(c) = "handler"
          /\ req'[c].stage = IF outcome = "panic" THEN "respond" ELSE "delta"
          /\ req'[c].outcome = outcome
          /\ req'[c].visited = r.visited
        BY <1>8, <1>a DEF End, RequestTypes, Contexts
    <2>2. \A w \in Workers : work'[c][w] = IF w \in Inner THEN Quiet ELSE work[c][w]
        BY <1>8 DEF End, RequestTypes
    <2>3. \A w \in Workers : ~work[c][w].late
        BY <2>1 DEF RequestInv, LateMeetsTheSeal, Sent
    <2>4. \A w \in Workers : ~work'[c][w].late
        BY <2>2, <2>3 DEF Quiet
    <2>5. QuietWhenIdle(c)' /\ ClosedWhenSent(c)' /\ LateMeetsTheSeal(c)'
        BY <2>1, <2>4 DEF QuietWhenIdle, ClosedWhenSent, LateMeetsTheSeal, Stage, Sent
    <2>6. ChainIsShort(c)'
        BY <2>1 DEF RequestInv, ChainIsShort, Stage
    <2>7. QED
        BY <2>5, <2>6 DEF RequestInv
<1>9. ASSUME NEW t \in Targets, Follow(c, t)
      PROVE  RequestInv(c)'
    <2> DEFINE visited == r.visited \cup {r.target}
    <2>1. /\ visited \in SUBSET Targets /\ IsFiniteSet(visited)
          /\ Cardinality(visited) \in Nat
        <3>1. IsFiniteSet(visited)
            BY FS_AddElement DEF RequestInv, ChainIsShort
        <3>2. QED
            BY <1>a, <3>1, FS_CardinalityType DEF Contexts
    <2>2. CASE t \in visited \/ Cardinality(visited) > RewriteLimit
        <3> DEFINE q == [r EXCEPT !.stage = "respond", !.visited = visited]
        <3>1. q \in Contexts
            BY <1>a, <2>1 DEF Contexts, Stages
        <3>2. req' = [req EXCEPT ![c] = q] /\ work' = work /\ Stage(c) = "follow"
            BY <1>9, <2>2 DEF Follow
        <3>3. /\ q.stage = "respond" /\ q.outcome = r.outcome /\ q.visited = visited
              /\ q.cell = r.cell /\ q.sealed = r.sealed
            BY <1>a DEF Contexts
        <3>4. r.outcome \notin {"panic", "unmatched"} => r.cell
            BY <3>2 DEF RequestInv, ClosedWhenSent, Sent
        <3>5. QED
            BY <2>1, <3>1, <3>2, <3>3, <3>4, StageMoves DEF Sent
    <2>3. CASE ~(t \in visited \/ Cardinality(visited) > RewriteLimit)
        <3>1. req'[c] = Context(t, visited) /\ \A w \in Workers : work'[c][w] = Quiet
            BY <1>9, <2>3 DEF Follow, RequestTypes
        <3>2. /\ req'[c].stage = "dispatch" /\ req'[c].target = t
              /\ req'[c].visited = visited
            BY <3>1 DEF Context
        <3>3. Cardinality(visited) <= RewriteLimit
            BY <2>1, <2>3, RequestsAssumption
        <3>4. QED
            BY <2>1, <2>3, <3>1, <3>2, <3>3, FreshKeeps
    <2>4. QED
        BY <2>2, <2>3
<1>10. QED
    BY <1>1, <1>2, <1>3, <1>4, <1>5, <1>6, <1>7, <1>8, <1>9 DEF Serve

\* A step of the work that leaves the dispatch where it is, and that writes no
\* cookie of its own when it is late.
LEMMA WorkMoves ==
    ASSUME RequestTypes, NEW c \in Conns, NEW w \in Workers, RequestInv(c), NEW j \in Jobs,
           work' = [work EXCEPT ![c][w] = j],
           req'[c].stage = Stage(c), req'[c].outcome = req[c].outcome,
           req'[c].cell = req[c].cell,
           req'[c].target = req[c].target, req'[c].visited = req[c].visited,
           req[c].sealed => req'[c].sealed,
           Stage(c) # "idle" \/ w \in Detached,
           j.late => Stage(c) \in Sent /\ req[c].outcome \notin {"panic", "unmatched"},
           j.late /\ j.pc = "open" => req'[c].sealed,
           j.late => j.pc # "add"
    PROVE  RequestInv(c)'
<1>1. \A v \in Workers : work'[c][v] = IF v = w THEN j ELSE work[c][v]
    BY DEF RequestTypes
<1>2. QuietWhenIdle(c)'
    BY <1>1, RequestsAssumption DEF RequestInv, QuietWhenIdle, Stage, Workers
<1>3. ClosedWhenSent(c)' /\ ChainIsShort(c)'
    BY DEF RequestInv, ClosedWhenSent, ChainIsShort, Stage
<1>4. LateMeetsTheSeal(c)'
    BY <1>1 DEF RequestInv, LateMeetsTheSeal, Stage
<1>5. QED
    BY <1>2, <1>3, <1>4 DEF RequestInv

\* The session's calls go on.
LEMMA WorkKeeps ==
    ASSUME RequestTypes, NEW c \in Conns, NEW w \in Workers, RequestInv(c), Work(c, w)
    PROVE  RequestInv(c)'
<1> DEFINE r == req[c]
           job == work[c][w]
<1>a. job \in Jobs /\ r \in Contexts /\ client[c] \in Nat /\ Cookie(c) \in Nat
    BY DEF RequestTypes, Cookie, Contexts
<1>b. job.pc # "idle" => Stage(c) # "idle" \/ w \in Detached
    BY DEF RequestInv, QuietWhenIdle, Workers
<1>c. job.late => /\ Stage(c) \in Sent /\ r.outcome \notin {"panic", "unmatched"}
                  /\ r.cell
                  /\ job.pc = "open" => r.sealed
    BY DEF RequestInv, LateMeetsTheSeal, ClosedWhenSent
<1>d. Quiet.late = FALSE /\ Quiet.pc = "idle" /\ Quiet \in Jobs
    BY QuietType DEF Quiet
<1>e. BuiltJar(c) \in Contexts
    BY <1>a DEF BuiltJar, Contexts
<1> DEFINE Same(q) == /\ q.stage = r.stage /\ q.outcome = r.outcome /\ q.cell = r.cell
                      /\ q.target = r.target /\ q.visited = r.visited
                      /\ r.sealed => q.sealed
\* A job that was not idle, and of which only the place, and not to "add" or
\* to "open", and the token change.
<1>f. ASSUME NEW j \in Jobs, work' = [work EXCEPT ![c][w] = j], job.pc # "idle",
             j.late => job.late, Same(req'[c]),
             j.pc = "open" /\ r.cell => req'[c].sealed,
             j.pc = "add" => ~j.late
      PROVE  RequestInv(c)'
    <2>1. j.late => Stage(c) \in Sent /\ r.outcome \notin {"panic", "unmatched"} /\ r.cell
        BY <1>c, <1>f
    <2>2. QED
        BY <1>b, <1>f, <2>1, WorkMoves DEF Stage
<1>g. ASSUME NEW token \in Nat, Known(c, w, token), job.pc # "idle", Same(req'[c])
      PROVE  RequestInv(c)'
    <2> DEFINE j == IF job.op = "token" \/ (job.op # "stop" /\ token = None) THEN Quiet
                    ELSE [job EXCEPT !.token = token, !.pc = "store"]
    <2>1. j \in Jobs
        BY <1>a, <1>d DEF Jobs, Places
    <2>2. work' = [work EXCEPT ![c][w] = j]
        BY <1>g DEF Known
    <2>3. (j.late => job.late) /\ j.pc \notin {"open", "add"}
        BY <1>a, <1>d DEF Jobs
    <2> HIDE DEF j
    <2>4. QED
        BY <1>f, <1>g, <2>1, <2>2, <2>3
<1>h. ASSUME Stored(c, w), job.pc # "idle", Same(req'[c])
      PROVE  RequestInv(c)'
    <2> DEFINE j == IF job.op = "refresh" THEN Quiet ELSE [job EXCEPT !.pc = "set"]
    <2>1. j \in Jobs
        BY <1>a, <1>d DEF Jobs, Places
    <2>2. work' = [work EXCEPT ![c][w] = j]
        BY <1>h DEF Stored
    <2>3. (j.late => job.late) /\ j.pc \notin {"open", "add"}
        BY <1>a, <1>d DEF Jobs
    <2> HIDE DEF j
    <2>4. QED
        BY <1>f, <1>h, <2>1, <2>2, <2>3
<1>1. ASSUME NEW op \in Ops, Call(c, w, op)
      PROVE  RequestInv(c)'
    <2> DEFINE late == Stage(c) \in {"follow", "respond", "body"} /\ req[c].outcome # "panic"
               j == [op |-> op, pc |-> IF op = "start" THEN "store" ELSE "lock", token |-> None,
                     fresh |-> calls + 2, late |-> late]
    <2>1. Same(req'[c])
        BY <1>1, <1>a DEF Call, RequestTypes, Contexts
    <2>2. late \in BOOLEAN /\ calls + 2 \in Nat
        BY DEF RequestTypes
    <2>3. j \in Jobs /\ j.late = late /\ j.pc \notin {"open", "add"}
        <3> HIDE DEF late
        <3>1. QED
            BY <2>2 DEF Jobs, Places, None
    <2>4. work' = [work EXCEPT ![c][w] = j]
        BY <1>1 DEF Call
    <2>5. /\ late => Stage(c) \in Sent /\ r.outcome \notin {"panic", "unmatched"}
          /\ Stage(c) # "idle"
        BY <1>1 DEF Call, Sent
    <2> HIDE DEF j, late
    <2>6. QED
        BY <2>1, <2>3, <2>4, <2>5, WorkMoves DEF Stage
<1>2. CASE Lock(c, w)
    <2>1. CASE r.load # Unloaded
        <3>1. r.load \in Nat /\ job.pc # "idle" /\ Same(req'[c])
            BY <1>2, <1>a, <2>1 DEF Lock, Contexts
        <3>2. QED
            BY <1>2, <1>g, <2>1, <3>1 DEF Lock
    <2>2. CASE r.load = Unloaded
        <3> DEFINE j == [job EXCEPT !.pc = "read", !.token = Cookie(c)]
        <3>1. j \in Jobs /\ j.late = job.late /\ j.pc = "read"
            BY <1>a DEF Jobs, Places
        <3>2. work' = [work EXCEPT ![c][w] = j] /\ job.pc # "idle"
            BY <1>2, <2>2 DEF Lock
        <3>3. Same(req'[c])
            BY <1>2, <1>a, <2>2 DEF Lock, RequestTypes, Contexts
        <3> HIDE DEF j
        <3>4. QED
            BY <1>f, <3>1, <3>2, <3>3
    <2>3. QED
        BY <2>1, <2>2
<1>3. CASE Read(c, w)
    <2>1. PICK token \in {job.token, Cookie(c)} :
            /\ req' = [req EXCEPT ![c] = [BuiltJar(c) EXCEPT
                            !.load = token,
                            !.sealed = r.sealed \/ r.cell,
                            !.holder = IF r.holder = w THEN Nobody ELSE r.holder]]
            /\ Known(c, w, token)
        BY <1>3 DEF Read
    <2>2. token \in Nat /\ job.pc # "idle"
        BY <1>3, <1>a, <2>1 DEF Jobs, Read
    <2>3. Same(req'[c])
        <3>1. /\ req'[c].stage = BuiltJar(c).stage /\ req'[c].outcome = BuiltJar(c).outcome
              /\ req'[c].cell = BuiltJar(c).cell /\ req'[c].target = BuiltJar(c).target
              /\ req'[c].visited = BuiltJar(c).visited /\ (r.sealed => req'[c].sealed)
            BY <1>e, <2>1 DEF RequestTypes, Contexts
        <3>2. QED
            BY <1>a, <3>1 DEF BuiltJar, Contexts
    <2>4. QED
        BY <1>g, <2>1, <2>2, <2>3
<1>4. CASE Fail(c, w)
    <2>1. Same(req'[c])
        BY <1>4, <1>a DEF Fail, RequestTypes, Contexts
    <2>2. work' = [work EXCEPT ![c][w] = Quiet] /\ job.pc # "idle"
        BY <1>4 DEF Fail
    <2>3. QED
        BY <1>d, <1>f, <2>1, <2>2
<1>5. CASE Store(c, w)
    <2>1. Same(req'[c])
        <3>1. /\ req'[c].stage = BuiltJar(c).stage /\ req'[c].outcome = BuiltJar(c).outcome
              /\ req'[c].cell = BuiltJar(c).cell /\ req'[c].target = BuiltJar(c).target
              /\ req'[c].visited = BuiltJar(c).visited
              /\ req'[c].sealed = BuiltJar(c).sealed
            BY <1>5, <1>e DEF Store, RequestTypes, Contexts
        <3>2. QED
            BY <1>a, <3>1 DEF BuiltJar, Contexts
    <2>2. QED
        BY <1>5, <1>h, <2>1 DEF Store
<1>6. CASE SetToken(c, w)
    <2>1. Same(req'[c])
        BY <1>6, <1>a DEF SetToken, RequestTypes, Contexts
    <2>2. work' = [work EXCEPT ![c][w] = Quiet] /\ job.pc # "idle"
        BY <1>6 DEF SetToken
    <2>3. QED
        BY <1>d, <1>f, <2>1, <2>2
<1>7. CASE GetOrInit(c, w)
    <2> DEFINE j == [job EXCEPT !.pc = "check"]
    <2>1. j \in Jobs /\ j.late = job.late /\ j.pc = "check"
        BY <1>a DEF Jobs, Places
    <2>2. work' = [work EXCEPT ![c][w] = j] /\ job.pc # "idle"
        BY <1>7 DEF GetOrInit
    <2>3. Same(req'[c])
        <3>1. req'[c] = BuiltJar(c)
            BY <1>7 DEF GetOrInit, RequestTypes
        <3>2. QED
            BY <1>a, <3>1 DEF BuiltJar, Contexts
    <2> HIDE DEF j
    <2>4. QED
        BY <1>f, <2>1, <2>2, <2>3
<1>8. CASE InheritSeal(c, w)
    <2> DEFINE j == [job EXCEPT !.pc = "open"]
    <2>1. j \in Jobs /\ j.late = job.late /\ j.pc = "open"
        BY <1>a DEF Jobs, Places
    <2>2. work' = [work EXCEPT ![c][w] = j] /\ job.pc # "idle"
        BY <1>8 DEF InheritSeal
    <2>3. Same(req'[c]) /\ (r.cell => req'[c].sealed)
        BY <1>8, <1>a DEF InheritSeal, RequestTypes, Contexts
    <2> HIDE DEF j
    <2>4. QED
        BY <1>f, <2>1, <2>2, <2>3
<1>9. CASE AssertOpen(c, w)
    <2> DEFINE j == IF r.sealed THEN Quiet ELSE [job EXCEPT !.pc = "add"]
    <2>1. j \in Jobs /\ (j.late => job.late) /\ j.pc # "open"
        BY <1>a, <1>d DEF Jobs, Places
    <2>2. work' = [work EXCEPT ![c][w] = j] /\ job.pc = "open"
        BY <1>9 DEF AssertOpen
    <2>3. Same(req'[c])
        BY <1>9 DEF AssertOpen
    <2>4. j.pc = "add" => ~j.late
        BY <1>a, <1>c, <1>d, <2>2 DEF Jobs
    <2> HIDE DEF j
    <2>5. QED
        BY <1>f, <2>1, <2>2, <2>3, <2>4
<1>10. CASE Add(c, w)
    <2>1. Same(req'[c])
        BY <1>10, <1>a DEF Add, RequestTypes, Contexts
    <2>2. QED
        BY <1>10, <1>h, <2>1 DEF Add
<1>11. QED
    BY <1>1, <1>2, <1>3, <1>4, <1>5, <1>6, <1>7, <1>8, <1>9, <1>10, RequestsAssumption DEF Work

-----------------------------------------------------------------------------
(* The service.                                                            *)

\* A connection without a task has no request; a server that has returned has
\* no tasks; and nothing is cut off before the grace period ends.
ServiceInv ==
    /\ \A c \in Conns : ~Serving(c) => Stage(c) = "idle"
    /\ server = "returned" => NoTasks
    /\ GraceIsGranted

IInv == Types /\ ServiceInv /\ \A c \in Conns : RequestInv(c)

LEMMA InitInv == Init => IInv
<1> SUFFICES ASSUME Init PROVE IInv
    OBVIOUS
<1>1. Types
    BY InitTypes
<1>2. \A c \in Conns : req[c] = NoRequest /\ conn[c] = "away"
    BY DEF Init, RequestsInit
<1>3. ServiceInv
    BY <1>2, NoRequestIsShort DEF Init, ServiceInv, GraceIsGranted, Stage
<1>4. ASSUME NEW c \in Conns PROVE RequestInv(c)
    <2>1. \A w \in Workers : work[c][w] = Quiet
        BY DEF Init, RequestsInit
    <2>2. QED
        BY <1>2, <2>1, NoRequestIsShort
           DEF RequestInv, QuietWhenIdle, ClosedWhenSent, LateMeetsTheSeal, ChainIsShort,
               Stage, Quiet, Sent, Workers
<1>5. QED
    BY <1>1, <1>3, <1>4 DEF IInv

\* What happens to a request is nothing to the other connections.
LEMMA OneConnection ==
    ASSUME RequestTypes, NEW c \in Conns,
           \/ Drop(c)
           \/ \E t \in Asked : Begin(c, t)
           \/ Serve(c)
           \/ \E w \in Workers : Work(c, w)
    PROVE  \A d \in Conns \ {c} : req'[d] = req[d] /\ work'[d] = work[d]
<1> USE DEF RequestTypes
<1>1. CASE Drop(c)
    BY <1>1 DEF Drop
<1>2. CASE \E t \in Asked : Begin(c, t)
    BY <1>2 DEF Begin
<1>3. CASE Serve(c)
    <2>1. ASSUME NEW t \in Targets, Follow(c, t)
          PROVE  \A d \in Conns \ {c} : req'[d] = req[d] /\ work'[d] = work[d]
        BY <2>1 DEF Follow
    <2>2. QED
        BY <1>3, <2>1 DEF Serve, Matched, Unmatched, SendHead, SendBody, Drop, WriteDelta,
                          SealCell, SealJar, End
<1>4. ASSUME NEW w \in Workers, Work(c, w)
      PROVE  \A d \in Conns \ {c} : req'[d] = req[d] /\ work'[d] = work[d]
    BY <1>4 DEF Work, Call, Lock, Read, Fail, Store, SetToken, GetOrInit, InheritSeal,
                AssertOpen, Add, Known, Stored
<1>5. QED
    BY <1>1, <1>2, <1>3, <1>4

LEMMA StepInv ==
    ASSUME IInv, [Next]_vars
    PROVE  IInv'
<1>a. Types /\ RequestTypes /\ ServiceTypes /\ ServiceInv /\ \A c \in Conns : RequestInv(c)
    BY DEF IInv, Types
<1>b. ASSUME NEW c \in Conns, RequestTypes', RequestInv(c)',
             \A d \in Conns \ {c} : req'[d] = req[d] /\ work'[d] = work[d]
      PROVE  RequestTypes' /\ \A d \in Conns : RequestInv(d)'
    BY <1>a, <1>b, OthersKeep
\* The request of a connection stays as it is, or goes with its task.
<1>c. ASSUME NEW c \in Conns, Drop(c), UNCHANGED server, ServiceTypes',
             \A d \in Conns \ {c} : conn'[d] = conn[d],
             conn'[c] \in {"away", "cut", "upgraded"},
             conn'[c] = "cut" => CutoffClosed
      PROVE  IInv'
    <2>1. RequestTypes' /\ \A d \in Conns : RequestInv(d)'
        BY <1>a, <1>b, <1>c, DropTypes, DropKeeps, OneConnection
    <2>2. Stage(c)' = "idle" /\ ~Serving(c)'
        BY <1>a, <1>c, NoRequestIsShort DEF Drop, RequestTypes, Stage, Serving
    <2>3. \A d \in Conns \ {c} : Stage(d)' = Stage(d) /\ Serving(d)' = Serving(d)
        BY <1>a, <1>c, OneConnection DEF Stage, Serving
    <2>4. ServiceInv'
        BY <1>a, <1>c, <2>2, <2>3 DEF ServiceInv, NoTasks, GraceIsGranted, CutoffClosed
    <2>5. QED
        BY <1>c, <2>1, <2>4 DEF IInv, Types
<1>d. ASSUME UNCHANGED requestVars, ServiceTypes', ServiceInv'
      PROVE  IInv'
    <2>1. RequestTypes' /\ \A c \in Conns : RequestInv(c)'
        BY <1>a, <1>d, OthersKeep DEF requestVars, RequestTypes
    <2>2. QED
        BY <1>d, <2>1 DEF IInv, Types
<1>1. CASE AcceptFails \/ Shutdown \/ GraceEnds \/ Return
    <2>1. UNCHANGED <<conn, requestVars>> /\ ServiceTypes'
        BY <1>1, <1>a DEF AcceptFails, Shutdown, GraceEnds, Return, ServiceTypes
    <2>2. server' = "returned" => NoTasks
        BY <1>1 DEF AcceptFails, Shutdown, GraceEnds, Return
    <2>3. server' \in {"accepting", "draining"} => server \in {"accepting", "draining"}
        BY <1>1 DEF AcceptFails, Shutdown, GraceEnds, Return
    <2>4. ServiceInv'
        BY <1>a, <2>1, <2>2, <2>3 DEF ServiceInv, requestVars, NoTasks, Serving, Stage, GraceIsGranted
    <2>5. QED
        BY <1>d, <2>1, <2>4
<1>2. ASSUME NEW c \in Conns, Accept(c) \/ Drain(c) \/ CloseIdle(c)
      PROVE  IInv'
    <2>1. UNCHANGED <<server, requestVars>> /\ ServiceTypes'
        BY <1>2, <1>a DEF Accept, Drain, CloseIdle, ServiceTypes
    <2>2. \A d \in Conns : conn'[d] = IF d = c THEN conn'[c] ELSE conn[d]
        BY <1>2, <1>a DEF Accept, Drain, CloseIdle, ServiceTypes
    <2>3. \/ conn'[c] = "open" /\ server = "accepting"
          \/ conn'[c] = "draining" /\ Serving(c)
          \/ conn'[c] = "away" /\ Stage(c) = "idle"
        BY <1>2, <1>a DEF Accept, Drain, CloseIdle, ServiceTypes, Serving
    <2>4. ServiceInv'
        BY <1>a, <2>1, <2>2, <2>3 DEF ServiceInv, requestVars, NoTasks, Serving, Stage, GraceIsGranted
    <2>5. QED
        BY <1>d, <2>1, <2>4
<1>3. ASSUME NEW c \in Conns, Cut(c)
      PROVE  IInv'
    BY <1>3, <1>a, <1>c DEF Cut, ServiceTypes
<1>4. ASSUME NEW c \in Conns, Leave(c) \/ Upgrade(c)
      PROVE  IInv'
    BY <1>4, <1>a, <1>c DEF Leave, Upgrade, ServiceTypes
<1>5. ASSUME NEW c \in Conns, Receive(c) \/ Handle(c)
      PROVE  IInv'
    <2>1. PICK t \in Targets, w \in Workers \cup {Nobody} :
              (t \in Asked /\ Begin(c, t)) \/ Serve(c) \/ (w \in Workers /\ Work(c, w))
        BY <1>5, RequestsAssumption DEF Receive, Handle
    <2>2. RequestTypes'
        <3>1. CASE t \in Asked /\ Begin(c, t)
            <4>1. Context(t, {}) \in Contexts
                BY ContextType
            <4>2. QED
                BY <3>1, <4>1, <1>a, AllQuietType DEF Begin, RequestTypes
        <3>2. QED
            BY <1>a, <2>1, <3>1, ServeTypes, WorkTypes
    <2>3. RequestInv(c)'
        BY <1>a, <2>1, BeginKeeps, ServeKeeps, WorkKeeps
    <2>4. \A d \in Conns \ {c} : req'[d] = req[d] /\ work'[d] = work[d]
        BY <1>a, <2>1, OneConnection
    <2>5. Serving(c) /\ UNCHANGED serviceVars
        BY <1>5 DEF Receive, Handle, Serving
    <2>6. ServiceTypes' /\ ServiceInv'
        BY <1>a, <2>4, <2>5
           DEF serviceVars, ServiceTypes, ServiceInv, NoTasks, Serving, Stage, GraceIsGranted
    <2>7. QED
        BY <1>b, <2>2, <2>3, <2>4, <2>6 DEF IInv, Types
<1>6. CASE UNCHANGED vars
    <2>1. UNCHANGED requestVars /\ UNCHANGED serviceVars
        BY <1>6 DEF vars
    <2>2. ServiceTypes' /\ ServiceInv'
        BY <1>a, <2>1 DEF serviceVars, requestVars, ServiceTypes, ServiceInv, NoTasks, Serving,
                          Stage, GraceIsGranted
    <2>3. QED
        BY <1>d, <2>1, <2>2
<1>7. QED
    BY <1>1, <1>2, <1>3, <1>4, <1>5, <1>6 DEF Next

THEOREM Invariance == Spec => []IInv
BY InitInv, StepInv, PTL DEF Spec

\* A request that is under way when the shutdown begins is not dropped by the
\* server before the grace period is over (service.rs, internal_serve).
THEOREM GraceAlwaysGranted == Spec => []GraceIsGranted
<1>1. IInv => GraceIsGranted
    BY DEF IInv, ServiceInv
<1>2. QED
    BY <1>1, Invariance, PTL

\* A server that has returned has left no request behind that its handler or
\* what it joined still works on (service.rs, done_tx).
THEOREM ReturnAlwaysQuiet == Spec => []ReturnedMeansQuiet
<1>1. IInv => ReturnedMeansQuiet
    BY DEF IInv, ServiceInv, RequestInv, QuietWhenIdle, ReturnedMeansQuiet, NoTasks, Busy
<1>2. QED
    BY <1>1, Invariance, PTL

\* A cookie write that begins once write_cookies has closed the jar meets a seal,
\* whoever built the jar and however many tasks do (lib.rs, CookieJarCell).
THEOREM ClosedJarAlwaysRefuses == Spec => []ClosedJarRefuses
<1>1. IInv => ClosedJarRefuses
    BY DEF IInv, RequestInv, LateMeetsTheSeal, ClosedJarRefuses
<1>2. QED
    BY <1>1, Invariance, PTL

\* A chain of rewrites dispatches nothing twice and ends within the limit,
\* whatever the handlers ask for (rewrite.rs, RewriteChain).
THEOREM RewritesEnd == Spec => []NoTargetTwice
<1>1. IInv => NoTargetTwice
    BY DEF IInv, RequestInv, ChainIsShort, NoTargetTwice
<1>2. QED
    BY <1>1, Invariance, PTL

-----------------------------------------------------------------------------
(***************************************************************************)
(* The session of a request, for any number of futures and tasks: what the *)
(* context takes the token to be is what the response leaves the client    *)
(* with.  Both follow the cookie of the jar: the token does, except while  *)
(* the one call that changes it is between the store and the context, and  *)
(* the response does from the moment that its headers were written.        *)
(***************************************************************************)

\* A call is under way whose change the jar may still take.
Writes(c, w) == Changing(c, w) /\ ~work[c][w].late

\* A change is in the store and not yet in the context.
Setting(c) == \E w \in Workers : work[c][w].pc = "set"

\* Nothing was ever asked of the session of this context.
Untouched(c) ==
    /\ req[c].outcome = "unmatched" => Stage(c) \in {"respond", "body"}
    /\ Stage(c) \in {"idle", "dispatch"} \/ req[c].outcome = "unmatched" =>
        /\ req[c].load = Unloaded
        /\ ~req[c].built
        /\ \A w \in Workers : work[c][w].pc = "idle"

\* Who reads the token holds the lock, and nobody has read it before.
OneReader(c) ==
    \A w \in Workers : work[c][w].pc = "read" => req[c].holder = w /\ req[c].load = Unloaded

OnlyChangesStore(c) ==
    \A w \in Workers :
        /\ work[c][w].pc \in {"store", "check", "open", "add", "set"} => work[c][w].op \in Lifecycle
        /\ work[c][w].pc = "set" => work[c][w].op # "refresh" /\ ~work[c][w].late
        /\ work[c][w].pc \in {"check", "open", "add"} => w \in Detached /\ req[c].built
        /\ work[c][w].late => w \in Detached

\* On the way from the token to the store.
Storing == {"store", "check", "open", "add"}

\* While the calls that change the session are tidy:
OneChange(c) ==
    /\ \A w \in Workers : Writes(c, w) =>
            Stage(c) = "handler" \/ (Stage(c) = "delta" /\ w \in Detached)
    /\ \A v, w \in Workers : Writes(c, v) /\ Writes(c, w) => v = w

RefreshKnows(c) ==
    \A w \in Workers : work[c][w].pc \in Storing /\ work[c][w].op = "refresh" =>
        req[c].load # Unloaded /\ work[c][w].token = req[c].load

TokenIsTheCookie(c) ==
    /\ ~Setting(c) /\ req[c].load # Unloaded => req[c].load = Cookie(c)
    /\ \A w \in Workers : work[c][w].pc = "set" => Cookie(c) = Result(c, w)
    /\ \A w \in Workers : ~Setting(c) /\ work[c][w].pc = "read" => work[c][w].token = Cookie(c)

HeadersAreTheCookie(c) ==
    /\ Stage(c) \in Sent \cup {"cell", "jar"} => req[c].headers = Cookie(c)
    /\ Stage(c) = "body" => client[c] = Cookie(c)

Tidy(c) == OneChange(c) /\ RefreshKnows(c) /\ TokenIsTheCookie(c) /\ HeadersAreTheCookie(c)

SessionInv(c) ==
    /\ Untouched(c) /\ OneReader(c) /\ OnlyChangesStore(c)
    /\ req[c].tidy => Tidy(c)

-----------------------------------------------------------------------------
\* The session of another connection is none of this one's business.
LEMMA OtherSessions ==
    ASSUME NEW c \in Conns, SessionInv(c), req'[c] = req[c], work'[c] = work[c],
           client'[c] = client[c]
    PROVE  SessionInv(c)'
<1>1. Cookie(c)' = Cookie(c) /\ Setting(c)' = Setting(c) /\ Stage(c)' = Stage(c)
    BY DEF Cookie, Setting, Stage
<1>2. \A w \in Workers : Writes(c, w)' = Writes(c, w) /\ Result(c, w)' = Result(c, w)
    BY DEF Writes, Changing, Busy, Result
<1>3. (Untouched(c) /\ OneReader(c) /\ OnlyChangesStore(c))'
    BY <1>1 DEF SessionInv, Untouched, OneReader, OnlyChangesStore
<1>4. ASSUME Tidy(c) PROVE Tidy(c)'
    BY <1>1, <1>2, <1>4 DEF Tidy, OneChange, RefreshKnows, TokenIsTheCookie, HeadersAreTheCookie
<1>5. QED
    BY <1>3, <1>4 DEF SessionInv

\* A new context has no session yet.
LEMMA FreshSession ==
    ASSUME NEW c \in Conns, \A w \in Workers : work'[c][w] = Quiet,
           req'[c].stage \in {"idle", "dispatch"}, req'[c].outcome # "unmatched",
           req'[c].load = Unloaded, ~req'[c].built
    PROVE  SessionInv(c)'
<1>1. \A w \in Workers : work'[c][w].pc = "idle" /\ ~work'[c][w].late
    BY DEF Quiet
<1>2. Untouched(c)' /\ OneReader(c)' /\ OnlyChangesStore(c)'
    BY <1>1 DEF Untouched, OneReader, OnlyChangesStore, Stage
<1>3. Tidy(c)'
    BY <1>1 DEF Tidy, OneChange, Writes, Changing, Busy, RefreshKnows, Storing, TokenIsTheCookie,
                HeadersAreTheCookie, Stage, Sent
<1>4. QED
    BY <1>2, <1>3 DEF SessionInv

LEMMA NewContext ==
    ASSUME NEW t, NEW visited
    PROVE  LET r == Context(t, visited) IN
           r.stage = "dispatch" /\ r.outcome # "unmatched" /\ r.load = Unloaded /\ ~r.built
BY DEF Context

LEMMA DropSession ==
    ASSUME RequestTypes, NEW c \in Conns, Drop(c)
    PROVE  SessionInv(c)'
<1>1. req'[c] = NoRequest /\ \A w \in Workers : work'[c][w] = Quiet
    BY DEF Drop, RequestTypes
<1>2. /\ NoRequest.stage = "idle" /\ NoRequest.outcome # "unmatched"
      /\ NoRequest.load = Unloaded /\ ~NoRequest.built
    BY DEF NoRequest, Context
<1>3. QED
    BY <1>1, <1>2, FreshSession

LEMMA BeginSession ==
    ASSUME RequestTypes, NEW c \in Conns, NEW t \in Targets, Begin(c, t)
    PROVE  SessionInv(c)'
<1>1. req'[c] = Context(t, {}) /\ \A w \in Workers : work'[c][w] = Quiet
    BY DEF Begin, RequestTypes
<1>2. QED
    BY <1>1, NewContext, FreshSession

\* A step of the request that leaves its session and the cookie as they are,
\* when the headers that it writes are the cookie.
LEMMA StageSession ==
    ASSUME RequestTypes, NEW c \in Conns, SessionInv(c), NEW q \in Contexts,
           req' = [req EXCEPT ![c] = q], work' = work,
           q.load = req[c].load, q.built = req[c].built, q.jar = req[c].jar,
           q.holder = req[c].holder, q.tidy => req[c].tidy,
           q.outcome = "unmatched" => q.stage \in {"respond", "body"},
           q.stage \notin {"idle", "dispatch"}, Stage(c) # "handler",
           q.outcome = "unmatched" => req[c].outcome = "unmatched" \/ Stage(c) = "dispatch",
           q.tidy => Cookie(c)' = Cookie(c),
           q.tidy /\ q.stage \in Sent \cup {"cell", "jar"} => q.headers = Cookie(c),
           q.tidy /\ q.stage = "body" => client'[c] = Cookie(c),
           q.tidy => \A w \in Workers : ~Writes(c, w)
    PROVE  SessionInv(c)'
<1>1. req'[c] = q
    BY DEF RequestTypes
<1>2. Untouched(c)' /\ OneReader(c)' /\ OnlyChangesStore(c)'
    BY <1>1 DEF SessionInv, Untouched, OneReader, OnlyChangesStore, Stage
<1>3. ASSUME q.tidy PROVE Tidy(c)'
    <2>1. Tidy(c) /\ Cookie(c)' = Cookie(c) /\ Setting(c)' = Setting(c)
        BY <1>1, <1>3 DEF SessionInv, Setting
    <2>2. \A w \in Workers : Writes(c, w)' = Writes(c, w) /\ Result(c, w)' = Result(c, w)
        BY DEF Writes, Changing, Busy, Result
    <2>3. OneChange(c)'
        BY <1>3, <2>2 DEF OneChange
    <2>4. RefreshKnows(c)' /\ TokenIsTheCookie(c)'
        BY <1>1, <2>1, <2>2 DEF Tidy, RefreshKnows, TokenIsTheCookie
    <2>5. HeadersAreTheCookie(c)'
        BY <1>1, <1>3, <2>1 DEF HeadersAreTheCookie, Stage
    <2>6. QED
        BY <2>3, <2>4, <2>5 DEF Tidy
<1>4. QED
    BY <1>1, <1>2, <1>3 DEF SessionInv

\* The request goes on its way.
LEMMA ServeSession ==
    ASSUME RequestTypes, NEW c \in Conns, SessionInv(c), Serve(c)
    PROVE  SessionInv(c)'
<1> DEFINE r == req[c]
<1>a. r \in Contexts /\ client[c] \in Nat /\ Cookie(c) \in Nat
    BY DEF RequestTypes, Cookie, Contexts
<1>b. r.tidy => Tidy(c)
    BY DEF SessionInv
\* Outside the handler and the layer nobody writes.
<1>d. Stage(c) \notin {"handler", "delta"} /\ r.tidy => \A w \in Workers : ~Writes(c, w)
    BY <1>b DEF Tidy, OneChange
<1> DEFINE Kept(q) == /\ q.load = r.load /\ q.built = r.built /\ q.jar = r.jar
                      /\ q.holder = r.holder /\ q.tidy = r.tidy
<1>c. ASSUME NEW q \in Contexts, req' = [req EXCEPT ![c] = q], client' = client, Kept(q)
      PROVE  Cookie(c)' = Cookie(c)
    BY <1>c DEF Cookie, RequestTypes
<1>1. CASE Matched(c)
    <2> DEFINE q == [r EXCEPT !.stage = "handler"]
    <2>1. q \in Contexts
        BY <1>a DEF Contexts, Stages
    <2>2. /\ req' = [req EXCEPT ![c] = q] /\ work' = work /\ client' = client
          /\ Stage(c) = "dispatch"
        BY <1>1 DEF Matched
    <2>3. Kept(q) /\ q.stage = "handler" /\ q.outcome = r.outcome
        BY <1>a DEF Contexts
    <2>4. r.outcome # "unmatched"
        BY <2>2 DEF SessionInv, Untouched
    <2> HIDE DEF q
    <2>5. QED
        BY <1>c, <1>d, <2>1, <2>2, <2>3, <2>4, StageSession DEF Sent
<1>2. CASE Unmatched(c)
    <2> DEFINE q == [r EXCEPT !.stage = "respond", !.outcome = "unmatched", !.headers = client[c]]
    <2>1. q \in Contexts
        BY <1>a DEF Contexts, Stages, Outcomes
    <2>2. /\ req' = [req EXCEPT ![c] = q] /\ work' = work /\ client' = client
          /\ Stage(c) = "dispatch"
        BY <1>2 DEF Unmatched
    <2>3. Kept(q) /\ q.stage = "respond" /\ q.outcome = "unmatched" /\ q.headers = client[c]
        BY <1>a DEF Contexts
    <2>4. Cookie(c) = client[c]
        BY <2>2 DEF SessionInv, Untouched, Cookie
    <2> HIDE DEF q
    <2>5. QED
        BY <1>c, <1>d, <2>1, <2>2, <2>3, <2>4, StageSession
<1>3. CASE SendHead(c)
    <2> DEFINE q == [r EXCEPT !.stage = "body"]
    <2>1. q \in Contexts
        BY <1>a DEF Contexts, Stages
    <2>2. /\ req' = [req EXCEPT ![c] = q] /\ work' = work
          /\ client'[c] = r.headers /\ Stage(c) = "respond"
        BY <1>3 DEF SendHead, RequestTypes
    <2>3. Kept(q) /\ q.stage = "body" /\ q.outcome = r.outcome /\ q.headers = r.headers
        BY <1>a DEF Contexts
    <2>4. r.tidy => r.headers = Cookie(c)
        BY <1>b, <2>2 DEF Tidy, HeadersAreTheCookie, Sent
    <2>5. req'[c] = q
        BY <2>2 DEF RequestTypes
    <2>6. r.tidy => Cookie(c)' = Cookie(c)
        BY <2>2, <2>3, <2>4, <2>5 DEF Cookie
    <2> HIDE DEF q
    <2>7. r.outcome = "unmatched" => q.stage \in {"respond", "body"}
        BY <2>3
    <2>8. QED
        BY <1>d, <2>1, <2>2, <2>3, <2>4, <2>6, <2>7, StageSession
<1>4. CASE SendBody(c)
    BY <1>4, DropSession DEF SendBody
<1>5. CASE WriteDelta(c)
    <2> DEFINE tidy == r.tidy /\ \A w \in Workers : ~Changing(c, w)
               q == [r EXCEPT !.stage = "cell", !.headers = Cookie(c), !.tidy = tidy]
    <2>1. tidy \in BOOLEAN
        BY <1>a DEF Contexts
    <2>2. tidy => r.tidy /\ \A w \in Workers : ~Writes(c, w)
        BY DEF Writes
    <2>3. /\ req' = [req EXCEPT ![c] = q] /\ work' = work /\ client' = client
          /\ Stage(c) = "delta"
        BY <1>5 DEF WriteDelta
    <2> HIDE DEF tidy
    <2>4. q \in Contexts
        BY <1>a, <2>1 DEF Contexts, Stages
    <2>5. /\ q.load = r.load /\ q.built = r.built /\ q.jar = r.jar /\ q.holder = r.holder
          /\ q.stage = "cell" /\ q.outcome = r.outcome /\ q.headers = Cookie(c)
          /\ q.tidy = tidy
        BY <1>a DEF Contexts
    <2>6. r.outcome # "unmatched"
        BY <2>3 DEF SessionInv, Untouched
    <2> HIDE DEF q
    <2>7. req'[c] = q
        BY <2>3 DEF RequestTypes
    <2>8. Cookie(c)' = Cookie(c)
        BY <2>3, <2>5, <2>7 DEF Cookie
    <2>9. QED
        BY <2>2, <2>3, <2>4, <2>5, <2>6, <2>8, StageSession
<1>6. CASE SealCell(c)
    <2> DEFINE q == [r EXCEPT !.stage = "jar", !.cell = TRUE]
    <2>1. q \in Contexts
        BY <1>a DEF Contexts, Stages
    <2>2. /\ req' = [req EXCEPT ![c] = q] /\ work' = work /\ client' = client
          /\ Stage(c) = "cell"
        BY <1>6 DEF SealCell
    <2>3. Kept(q) /\ q.stage = "jar" /\ q.outcome = r.outcome /\ q.headers = r.headers
        BY <1>a DEF Contexts
    <2>4. r.outcome # "unmatched" /\ (r.tidy => r.headers = Cookie(c))
        BY <1>b, <2>2 DEF SessionInv, Untouched, Tidy, HeadersAreTheCookie, Sent
    <2> HIDE DEF q
    <2>5. QED
        BY <1>c, <1>d, <2>1, <2>2, <2>3, <2>4, StageSession
<1>7. CASE SealJar(c)
    <2> DEFINE q == [r EXCEPT !.stage = Sealed(c), !.sealed = r.sealed \/ r.built]
    <2>1. Sealed(c) \in {"follow", "respond"}
        BY DEF Sealed
    <2>2. q \in Contexts
        BY <1>a, <2>1 DEF Contexts, Stages
    <2>3. /\ req' = [req EXCEPT ![c] = q] /\ work' = work /\ client' = client
          /\ Stage(c) = "jar"
        BY <1>7 DEF SealJar
    <2>4. Kept(q) /\ q.stage = Sealed(c) /\ q.outcome = r.outcome /\ q.headers = r.headers
        BY <1>a DEF Contexts
    <2>5. r.outcome # "unmatched" /\ (r.tidy => r.headers = Cookie(c))
        BY <1>b, <2>3 DEF SessionInv, Untouched, Tidy, HeadersAreTheCookie, Sent
    <2> HIDE DEF q
    <2>6. QED
        BY <1>c, <1>d, <2>1, <2>2, <2>3, <2>4, <2>5, StageSession
<1>8. ASSUME NEW outcome \in {"response", "error", "rewrite", "panic"}, End(c, outcome)
      PROVE  SessionInv(c)'
    <2> DEFINE cut == {w \in Inner : work[c][w].pc = "set"}
    <2>1. /\ Stage(c) = "handler" /\ client' = client
          /\ req'[c].stage = IF outcome = "panic" THEN "respond" ELSE "delta"
          /\ req'[c].outcome = outcome
          /\ req'[c].load = r.load /\ req'[c].built = r.built /\ req'[c].jar = r.jar
          /\ req'[c].holder = IF r.holder \in Inner THEN Nobody ELSE r.holder
          /\ req'[c].tidy => r.tidy /\ outcome # "panic"
          /\ req'[c].tidy => cut = {}
        BY <1>8, <1>a DEF End, RequestTypes, Contexts
    <2>2. \A w \in Workers : work'[c][w] = IF w \in Inner THEN Quiet ELSE work[c][w]
        BY <1>8 DEF End, RequestTypes
    <2>3. Quiet.pc = "idle" /\ ~Quiet.late
        BY DEF Quiet
    <2>4. Untouched(c)' /\ OneReader(c)' /\ OnlyChangesStore(c)'
        BY <2>1, <2>2, <2>3 DEF SessionInv, Untouched, OneReader, OnlyChangesStore, Stage
    <2>5. ASSUME req'[c].tidy PROVE Tidy(c)'
        <3>1. Tidy(c) /\ Cookie(c)' = Cookie(c)
            BY <1>b, <2>1, <2>5 DEF Cookie
        <3>2. \A w \in Workers : Writes(c, w)' => Writes(c, w) /\ w \in Detached
            BY <2>2, <2>3, RequestsAssumption DEF Writes, Changing, Busy, Workers
        <3>3. \A w \in Detached : Result(c, w)' = Result(c, w)
            BY <2>2, RequestsAssumption DEF Result, Workers
        <3>4. Setting(c)' <=> Setting(c)
            BY <2>1, <2>2, <2>3, <2>5, RequestsAssumption DEF Setting, Workers
        <3>5. OneChange(c)'
            BY <2>1, <2>5, <3>1, <3>2 DEF Tidy, OneChange, Stage
        <3>6. RefreshKnows(c)'
            BY <2>1, <2>2, <2>3, <3>1 DEF Tidy, RefreshKnows, Storing
        <3>7. TokenIsTheCookie(c)'
            BY <2>1, <2>2, <2>3, <3>1, <3>3, <3>4 DEF Tidy, TokenIsTheCookie, Workers
        <3>8. HeadersAreTheCookie(c)'
            BY <2>1, <2>5 DEF HeadersAreTheCookie, Stage, Sent
        <3>9. QED
            BY <3>5, <3>6, <3>7, <3>8 DEF Tidy
    <2>6. QED
        BY <2>4, <2>5 DEF SessionInv
<1>9. ASSUME NEW t \in Targets, Follow(c, t)
      PROVE  SessionInv(c)'
    <2> DEFINE visited == r.visited \cup {r.target}
    <2>1. CASE t \in visited \/ Cardinality(visited) > RewriteLimit
        <3> DEFINE q == [r EXCEPT !.stage = "respond", !.visited = visited]
        <3>1. q \in Contexts
            BY <1>a DEF Contexts, Stages
        <3>2. /\ req' = [req EXCEPT ![c] = q] /\ work' = work /\ client' = client
              /\ Stage(c) = "follow"
            BY <1>9, <2>1 DEF Follow
        <3>3. Kept(q) /\ q.stage = "respond" /\ q.outcome = r.outcome /\ q.headers = r.headers
            BY <1>a DEF Contexts
        <3>4. r.outcome # "unmatched" /\ (r.tidy => r.headers = Cookie(c))
            BY <1>b, <3>2 DEF SessionInv, Untouched, Tidy, HeadersAreTheCookie, Sent
        <3> HIDE DEF q
        <3>5. QED
            BY <1>c, <1>d, <3>1, <3>2, <3>3, <3>4, StageSession
    <2>2. CASE ~(t \in visited \/ Cardinality(visited) > RewriteLimit)
        <3>1. req'[c] = Context(t, visited) /\ \A w \in Workers : work'[c][w] = Quiet
            BY <1>9, <2>2 DEF Follow, RequestTypes
        <3>2. QED
            BY <3>1, NewContext, FreshSession
    <2>3. QED
        BY <2>1, <2>2
<1>10. QED
    BY <1>1, <1>2, <1>3, <1>4, <1>5, <1>6, <1>7, <1>8, <1>9 DEF Serve

-----------------------------------------------------------------------------
(* The calls.                                                              *)

\* A call takes a step: what that does to the parts that need no tidiness.
LEMMA CallSteps ==
    ASSUME RequestTypes, NEW c \in Conns, NEW w \in Workers, SessionInv(c), NEW j \in Jobs,
           work' = [work EXCEPT ![c][w] = j],
           req'[c].stage = Stage(c), req'[c].outcome = req[c].outcome,
           Stage(c) \notin {"idle", "dispatch"}, req[c].outcome # "unmatched",
           j.pc \in {"store", "check", "open", "add", "set"} => j.op \in Lifecycle,
           j.pc = "set" => j.op # "refresh" /\ ~j.late,
           j.pc \in {"check", "open", "add"} => w \in Detached /\ req'[c].built,
           j.late => w \in Detached, req[c].built => req'[c].built,
           j.pc = "read" => req'[c].holder = w /\ req'[c].load = Unloaded,
           \A v \in Workers \ {w} : work[c][v].pc = "read" =>
                req'[c].holder = v /\ req'[c].load = Unloaded
    PROVE  Untouched(c)' /\ OneReader(c)' /\ OnlyChangesStore(c)'
<1>1. \A v \in Workers : work'[c][v] = IF v = w THEN j ELSE work[c][v]
    BY DEF RequestTypes
<1>2. QED
    BY <1>1 DEF SessionInv, Untouched, OneReader, OnlyChangesStore, Stage

\* And to those that do, apart from the token.
LEMMA TidySteps ==
    ASSUME RequestTypes, NEW c \in Conns, NEW w \in Workers, NEW j \in Jobs,
           Tidy(c), TokenIsTheCookie(c)',
           work' = [work EXCEPT ![c][w] = j], client' = client,
           req'[c].stage = Stage(c), req'[c].headers = req[c].headers,
           j.pc # "idle" /\ j.op \in Lifecycle /\ ~j.late =>
                \/ Writes(c, w)
                \/ /\ Stage(c) = "handler" \/ (Stage(c) = "delta" /\ w \in Detached)
                   /\ \A v \in Workers : ~Writes(c, v),
           j.pc \in Storing /\ j.op = "refresh" =>
                req'[c].load # Unloaded /\ j.token = req'[c].load,
           \/ req'[c].load = req[c].load
           \/ \A v \in Workers \ {w} : ~(work[c][v].pc \in Storing /\ work[c][v].op = "refresh"),
           Cookie(c)' = Cookie(c) \/ Stage(c) \in {"handler", "delta"}
    PROVE  Tidy(c)'
<1>1. \A v \in Workers : work'[c][v] = IF v = w THEN j ELSE work[c][v]
    BY DEF RequestTypes
<1>2. \A v \in Workers \ {w} : Writes(c, v)' = Writes(c, v)
    BY <1>1 DEF Writes, Changing, Busy
<1>3. Writes(c, w)' <=> j.pc # "idle" /\ j.op \in Lifecycle /\ ~j.late
    BY <1>1 DEF Writes, Changing, Busy
<1>4. OneChange(c)'
    BY <1>2, <1>3 DEF Tidy, OneChange, Stage
<1>5. RefreshKnows(c)'
    BY <1>1 DEF Tidy, RefreshKnows
<1>6. HeadersAreTheCookie(c)'
    BY DEF Tidy, HeadersAreTheCookie, Stage, Sent
<1>7. QED
    BY <1>4, <1>5, <1>6 DEF Tidy

\* A step that neither looks at the store nor changes it.
LEMMA NeutralSteps ==
    ASSUME RequestTypes, NEW c \in Conns, NEW w \in Workers, NEW j \in Jobs, TokenIsTheCookie(c),
           work' = [work EXCEPT ![c][w] = j], work[c][w].pc # "set", j.pc \notin {"set", "read"},
           req'[c].load = req[c].load, Cookie(c)' = Cookie(c)
    PROVE  TokenIsTheCookie(c)'
<1>1. \A v \in Workers : work'[c][v] = IF v = w THEN j ELSE work[c][v]
    BY DEF RequestTypes
<1>2. Setting(c)' <=> Setting(c)
    BY <1>1 DEF Setting
<1>3. \A v \in Workers \ {w} : Result(c, v)' = Result(c, v)
    BY <1>1 DEF Result
<1>4. QED
    BY <1>1, <1>2, <1>3 DEF TokenIsTheCookie

LEMMA BuiltJarFields ==
    ASSUME RequestTypes, NEW c \in Conns
    PROVE  LET b == BuiltJar(c) IN
           /\ b \in Contexts
           /\ b.stage = req[c].stage /\ b.outcome = req[c].outcome /\ b.headers = req[c].headers
           /\ b.built /\ b.jar = Cookie(c)
           /\ b.load = req[c].load /\ b.holder = req[c].holder /\ b.tidy = req[c].tidy
<1>1. req[c] \in Contexts /\ Cookie(c) \in Nat
    BY DEF RequestTypes, Contexts, Cookie
<1>2. QED
    BY <1>1 DEF BuiltJar, Contexts

\* The calls and what they do keep the session in order.
LEMMA WorkSession ==
    ASSUME RequestTypes, NEW c \in Conns, NEW w \in Workers,
           RequestInv(c), SessionInv(c), Work(c, w)
    PROVE  SessionInv(c)'
<1> DEFINE r == req[c]
           job == work[c][w]
           b == BuiltJar(c)
<1>a. job \in Jobs /\ r \in Contexts /\ client[c] \in Nat /\ Cookie(c) \in Nat
    BY DEF RequestTypes, Cookie, Contexts
<1>b. r.tidy => Tidy(c)
    BY DEF SessionInv
<1>c. Quiet \in Jobs /\ Quiet.pc = "idle" /\ ~Quiet.late
    BY QuietType DEF Quiet
<1>d. job.pc # "idle" => Stage(c) \notin {"idle", "dispatch"} /\ r.outcome # "unmatched"
    BY DEF SessionInv, Untouched
<1>e. \A v \in Workers : work[c][v].pc = "read" => r.holder = v /\ r.load = Unloaded
    BY DEF SessionInv, OneReader
<1>f. /\ job.pc \in {"store", "check", "open", "add", "set"} => job.op \in Lifecycle
      /\ job.pc = "set" => job.op # "refresh" /\ ~job.late
      /\ job.pc \in {"check", "open", "add"} => w \in Detached /\ r.built
      /\ job.late => w \in Detached
    BY DEF SessionInv, OnlyChangesStore
<1>g. b \in Contexts /\ b.stage = Stage(c) /\ b.outcome = r.outcome /\ b.headers = r.headers
      /\ b.built /\ b.jar = Cookie(c) /\ b.load = r.load /\ b.holder = r.holder
      /\ b.tidy = r.tidy
    BY BuiltJarFields DEF Stage
<1>h. job.op \in Ops
    BY <1>a DEF Jobs
<1> DEFINE Same == /\ req'[c].stage = Stage(c) /\ req'[c].outcome = r.outcome
                   /\ req'[c].headers = r.headers /\ client' = client
                   /\ req'[c].tidy => r.tidy
<1> HIDE DEF b
\* A late call finds the jar closed, and the context with nothing to write.
<1>k. \A v \in Workers : work[c][v].late =>
            /\ Stage(c) \notin {"handler", "delta"}
            /\ work[c][v].pc = "open" => r.sealed
            /\ work[c][v].pc # "add"
    BY DEF RequestInv, LateMeetsTheSeal, Sent
\* A refresh on its way to the store writes the token that the context has.
<1>l. r.tidy /\ job.pc \in Storing /\ job.op = "refresh" =>
            r.load # Unloaded /\ job.token = r.load
    BY <1>b DEF Tidy, RefreshKnows
\* A call that has begun goes on, or ends, without a look at the store.
<1>i. ASSUME NEW j \in Jobs, work' = [work EXCEPT ![c][w] = j], Same,
             job.pc # "idle", job.pc # "set", j.pc = "idle" \/ j.pc \in Storing,
             j.pc \in Storing => j.op = job.op /\ j.op \in Lifecycle /\ j.late = job.late,
             j.pc \in {"check", "open", "add"} => w \in Detached /\ req'[c].built,
             j.late => job.late, r.built => req'[c].built,
             r.tidy /\ j.pc \in Storing /\ j.op = "refresh" =>
                 r.load # Unloaded /\ j.token = r.load,
             req'[c].load = r.load, Cookie(c)' = Cookie(c),
             \/ req'[c].holder = r.holder
             \/ req'[c].holder = Nobody /\ r.holder = w
      PROVE  SessionInv(c)'
    <2>1. Untouched(c)' /\ OneReader(c)' /\ OnlyChangesStore(c)'
        BY <1>d, <1>e, <1>f, <1>i, CallSteps DEF Storing
    <2>2. ASSUME req'[c].tidy PROVE Tidy(c)'
        <3>1. Tidy(c) /\ TokenIsTheCookie(c) /\ r.tidy
            BY <1>b, <1>i, <2>2 DEF Tidy
        <3>2. j.pc \notin {"set", "read"}
            BY <1>i DEF Storing
        <3>3. TokenIsTheCookie(c)'
            BY <1>i, <3>1, <3>2, NeutralSteps
        <3>4. j.pc # "idle" /\ j.op \in Lifecycle /\ ~j.late => Writes(c, w)
            BY <1>i DEF Writes, Changing, Busy
        <3>5. QED
            BY <1>i, <3>1, <3>3, <3>4, TidySteps
    <2>3. QED
        BY <2>1, <2>2 DEF SessionInv
\* What a call does once it knows the token.
<1>j. ASSUME NEW token \in Nat, Known(c, w, token)
      PROVE  \E j \in Jobs :
                /\ work' = [work EXCEPT ![c][w] = j]
                /\ j.late => job.late
                /\ \/ j.pc = "idle"
                   \/ /\ j.pc = "store" /\ j.op = job.op /\ j.op \in Lifecycle
                      /\ j.token = token /\ j.late = job.late
    <2> DEFINE j == IF job.op = "token" \/ (job.op # "stop" /\ token = None) THEN Quiet
                    ELSE [job EXCEPT !.token = token, !.pc = "store"]
    <2>1. j \in Jobs
        BY <1>a, <1>c DEF Jobs, Places
    <2>2. work' = [work EXCEPT ![c][w] = j]
        BY <1>j DEF Known
    <2>3. /\ j.late => job.late
          /\ \/ j.pc = "idle"
             \/ /\ j.pc = "store" /\ j.op = job.op /\ j.op \in Lifecycle
                /\ j.token = token /\ j.late = job.late
        BY <1>a, <1>c, <1>h DEF Jobs, Lifecycle
    <2> HIDE DEF j
    <2>4. QED
        BY <2>1, <2>2, <2>3
<1>1. ASSUME NEW op \in Ops, Call(c, w, op)
      PROVE  SessionInv(c)'
    <2> DEFINE late == Stage(c) \in {"follow", "respond", "body"} /\ req[c].outcome # "panic"
               j == [op |-> op, pc |-> IF op = "start" THEN "store" ELSE "lock", token |-> None,
                     fresh |-> calls + 2, late |-> late]
    <2>1. /\ Same /\ req'[c].load = r.load /\ req'[c].holder = r.holder
          /\ req'[c].built = r.built /\ req'[c].jar = r.jar
          /\ req'[c].tidy /\ op \in Lifecycle => late \/ (/\ Stage(c) \in {"handler", "delta"}
                                                      /\ \A v \in Workers : ~Writes(c, v))
        <3> DEFINE tidy == op \in Lifecycle =>
                  late \/ (Stage(c) \in {"handler", "delta"} /\ \A v \in Workers : ~Changing(c, v))
        <3>1. req' = [req EXCEPT ![c].tidy = r.tidy /\ tidy]
            BY <1>1 DEF Call
        <3>2. tidy /\ op \in Lifecycle => late \/ (/\ Stage(c) \in {"handler", "delta"}
                                                  /\ \A v \in Workers : ~Writes(c, v))
            BY DEF Writes
        <3> HIDE DEF tidy
        <3>3. /\ req'[c].stage = r.stage /\ req'[c].outcome = r.outcome
              /\ req'[c].headers = r.headers /\ req'[c].load = r.load
              /\ req'[c].holder = r.holder /\ req'[c].built = r.built /\ req'[c].jar = r.jar
            BY <1>a, <3>1 DEF RequestTypes, Contexts
        <3>4. req'[c].tidy => r.tidy /\ tidy
            BY <1>a, <3>1 DEF RequestTypes, Contexts
        <3>5. QED
            BY <1>1, <3>2, <3>3, <3>4 DEF Call, Stage
    <2>2. late \in BOOLEAN /\ calls + 2 \in Nat
        BY DEF RequestTypes
    <2>3. /\ j \in Jobs /\ j.op = op /\ j.pc \in {"store", "lock"} /\ j.late = late
          /\ j.pc = "store" => j.op = "start"
        <3> HIDE DEF late
        <3>1. QED
            BY <2>2 DEF Jobs, Places, None
    <2>4. work' = [work EXCEPT ![c][w] = j]
        BY <1>1 DEF Call
    <2>5. /\ Stage(c) \notin {"idle", "dispatch"} /\ r.outcome # "unmatched"
          /\ Stage(c) = "handler" \/ w \in Detached
          /\ late => Stage(c) # "handler"
          /\ job.pc = "idle"
        BY <1>1, RequestsAssumption DEF Call, SessionInv, Untouched, Busy
    <2> HIDE DEF j, late
    <2>6. "start" \in Lifecycle
        BY DEF Lifecycle, Ops
    <2>7. Untouched(c)' /\ OneReader(c)' /\ OnlyChangesStore(c)'
        BY <1>e, <2>1, <2>3, <2>4, <2>5, <2>6, CallSteps
    <2>8. ASSUME req'[c].tidy PROVE Tidy(c)'
        <3>1. Tidy(c) /\ TokenIsTheCookie(c) /\ Cookie(c)' = Cookie(c)
            BY <1>b, <2>1, <2>8 DEF Tidy, Cookie
        <3>2. TokenIsTheCookie(c)'
            BY <2>1, <2>3, <2>4, <2>5, <3>1, NeutralSteps
        <3>3. QED
            BY <2>1, <2>3, <2>4, <2>5, <2>8, <3>1, <3>2, TidySteps DEF Storing
    <2>9. QED
        BY <2>7, <2>8 DEF SessionInv
<1>2. CASE Lock(c, w)
    <2>1. CASE r.load # Unloaded
        <3>1. /\ r.load \in Nat /\ Known(c, w, r.load) /\ job.pc = "lock"
              /\ req' = req /\ client' = client
            BY <1>2, <1>a, <2>1 DEF Lock, Contexts
        <3>2. PICK j \in Jobs :
                /\ work' = [work EXCEPT ![c][w] = j]
                /\ j.late => job.late
                /\ \/ j.pc = "idle"
                   \/ /\ j.pc = "store" /\ j.op = job.op /\ j.op \in Lifecycle
                      /\ j.token = r.load /\ j.late = job.late
            BY <1>j, <3>1
        <3>3. Same /\ Cookie(c)' = Cookie(c)
            BY <3>1 DEF Stage, Cookie
        <3>4. QED
            BY <1>i, <2>1, <3>1, <3>2, <3>3 DEF Storing
    <2>2. CASE r.load = Unloaded
        <3> DEFINE j == [job EXCEPT !.pc = "read", !.token = Cookie(c)]
        <3>1. /\ j \in Jobs /\ j.op = job.op /\ j.pc = "read" /\ j.token = Cookie(c)
              /\ j.late = job.late
            BY <1>a DEF Jobs, Places
        <3>2. /\ work' = [work EXCEPT ![c][w] = j] /\ job.pc = "lock" /\ r.holder = Nobody
              /\ client' = client
            BY <1>2, <2>2 DEF Lock
        <3>3. /\ req'[c].holder = w /\ req'[c].load = r.load
              /\ req'[c].built = r.built /\ req'[c].jar = r.jar /\ Same
            BY <1>2, <1>a, <2>2 DEF Lock, RequestTypes, Contexts, Stage
        <3> HIDE DEF j
        <3>4. \A v \in Workers : work[c][v].pc # "read"
            BY <1>e, <3>2, RequestsAssumption DEF Workers
        <3>5. Untouched(c)' /\ OneReader(c)' /\ OnlyChangesStore(c)'
            BY <1>d, <1>f, <2>2, <3>1, <3>2, <3>3, <3>4, CallSteps
        <3>6. ASSUME req'[c].tidy PROVE Tidy(c)'
            <4>1. Tidy(c) /\ TokenIsTheCookie(c) /\ Cookie(c)' = Cookie(c)
                BY <1>b, <3>2, <3>3, <3>6 DEF Tidy, Cookie
            <4>2. \A v \in Workers : work'[c][v] = IF v = w THEN j ELSE work[c][v]
                BY <3>2 DEF RequestTypes
            <4>3. \A v \in Workers \ {w} : Result(c, v)' = Result(c, v)
                BY <4>2 DEF Result
            <4>4. Setting(c)' <=> Setting(c)
                BY <3>1, <3>2, <4>2 DEF Setting
            <4>5. TokenIsTheCookie(c)'
                BY <3>1, <3>3, <4>1, <4>2, <4>3, <4>4 DEF TokenIsTheCookie
            <4>6. j.pc # "idle" /\ j.op \in Lifecycle /\ ~j.late => Writes(c, w)
                BY <3>1, <3>2 DEF Writes, Changing, Busy
            <4>7. QED
                BY <3>1, <3>2, <3>3, <4>1, <4>5, <4>6, TidySteps DEF Storing
        <3>7. QED
            BY <3>5, <3>6 DEF SessionInv
    <2>3. QED
        BY <2>1, <2>2
<1>3. CASE Read(c, w)
    <2>1. PICK token \in {job.token, Cookie(c)} :
            /\ req' = [req EXCEPT ![c] = [b EXCEPT
                            !.load = token,
                            !.sealed = r.sealed \/ r.cell,
                            !.holder = IF r.holder = w THEN Nobody ELSE r.holder]]
            /\ Known(c, w, token)
        BY <1>3 DEF Read, b
    <2>2. token \in Nat /\ token # Unloaded /\ job.pc = "read" /\ client' = client
        BY <1>3, <1>a, <2>1 DEF Jobs, Read, Unloaded
    <2>3. /\ Same /\ req'[c].load = token
          /\ req'[c].built /\ req'[c].jar = Cookie(c)
        BY <1>g, <2>1, <2>2 DEF RequestTypes, Contexts
    <2>4. PICK j \in Jobs :
            /\ work' = [work EXCEPT ![c][w] = j]
            /\ j.late => job.late
            /\ \/ j.pc = "idle"
               \/ /\ j.pc = "store" /\ j.op = job.op /\ j.op \in Lifecycle
                  /\ j.token = token /\ j.late = job.late
        BY <1>j, <2>1, <2>2
    <2>5. r.load = Unloaded /\ \A v \in Workers \ {w} : work[c][v].pc # "read"
        BY <1>e, <2>2
    <2>6. Untouched(c)' /\ OneReader(c)' /\ OnlyChangesStore(c)'
        BY <1>d, <1>f, <2>2, <2>3, <2>4, <2>5, CallSteps
    <2>7. ASSUME req'[c].tidy PROVE Tidy(c)'
        <3>1. Tidy(c) /\ TokenIsTheCookie(c) /\ Cookie(c)' = Cookie(c)
            BY <1>b, <2>3, <2>7 DEF Tidy, Cookie
        <3>2. \A v \in Workers : work'[c][v] = IF v = w THEN j ELSE work[c][v]
            BY <2>4 DEF RequestTypes
        <3>3. \A v \in Workers \ {w} : Result(c, v)' = Result(c, v)
            BY <3>2 DEF Result
        <3>4. Setting(c)' <=> Setting(c)
            BY <2>2, <2>4, <3>2 DEF Setting
        <3>5. ~Setting(c) => token = Cookie(c)
            BY <2>1, <2>2, <3>1 DEF TokenIsTheCookie
        <3>6. TokenIsTheCookie(c)'
            BY <2>3, <2>4, <2>5, <3>1, <3>2, <3>3, <3>4, <3>5 DEF TokenIsTheCookie
        <3>7. j.pc # "idle" /\ j.op \in Lifecycle /\ ~j.late => Writes(c, w)
            BY <2>2, <2>4 DEF Writes, Changing, Busy
        <3>8. \A v \in Workers \ {w} : ~(work[c][v].pc \in Storing /\ work[c][v].op = "refresh")
            BY <2>5, <3>1 DEF Tidy, RefreshKnows
        <3>9. QED
            BY <2>2, <2>3, <2>4, <3>1, <3>6, <3>7, <3>8, TidySteps DEF Storing
    <2>8. QED
        BY <2>6, <2>7 DEF SessionInv
<1>4. CASE Fail(c, w)
    <2>1. /\ req'[c].holder = IF r.holder = w THEN Nobody ELSE r.holder
          /\ req'[c].load = r.load /\ req'[c].built = r.built /\ req'[c].jar = r.jar
          /\ Same
        BY <1>4, <1>a DEF Fail, RequestTypes, Contexts, Stage
    <2>2. /\ work' = [work EXCEPT ![c][w] = Quiet] /\ job.pc \in {"read", "store"}
          /\ client' = client
        BY <1>4 DEF Fail
    <2>3. Cookie(c)' = Cookie(c)
        BY <2>1, <2>2 DEF Cookie
    <2>4. Quiet.pc \notin Storing
        BY <1>c DEF Storing
    <2>5. QED
        BY <1>c, <1>i, <2>1, <2>2, <2>3, <2>4
\* The jar takes a change.
<1>m. ASSUME Same, req'[c].load = r.load, req'[c].holder = r.holder, req'[c].built,
             req'[c].jar = Result(c, w), Stored(c, w),
             job.pc \in {"store", "add"}, ~job.late
      PROVE  SessionInv(c)'
    <2>2. Writes(c, w) /\ job.pc \in Storing
        BY <1>f, <1>m DEF Writes, Changing, Busy, Storing
    <2> DEFINE j == IF job.op = "refresh" THEN Quiet ELSE [job EXCEPT !.pc = "set"]
    <2>3. /\ j \in Jobs
          /\ job.op = "refresh" => j.pc = "idle"
          /\ ~j.late
          /\ job.op # "refresh" => /\ j.pc = "set" /\ j.op = job.op
                                   /\ j.token = job.token /\ j.fresh = job.fresh
        BY <1>a, <1>c, <1>m DEF Jobs, Places
    <2>4. work' = [work EXCEPT ![c][w] = j]
        BY <1>m DEF Stored
    <2> HIDE DEF j
    <2>5. Untouched(c)' /\ OneReader(c)' /\ OnlyChangesStore(c)'
        BY <1>d, <1>e, <1>f, <1>m, <2>2, <2>3, <2>4, CallSteps
    <2>6. ASSUME req'[c].tidy PROVE Tidy(c)'
        <3>1. Tidy(c) /\ TokenIsTheCookie(c) /\ Cookie(c)' = Result(c, w)
            BY <1>b, <1>m, <2>6 DEF Tidy, Cookie
        <3>2. \A v \in Workers : work'[c][v] = IF v = w THEN j ELSE work[c][v]
            BY <2>4 DEF RequestTypes
        <3>3. \A v \in Workers \ {w} : ~Writes(c, v)
            BY <2>2, <3>1 DEF Tidy, OneChange
        <3>4. \A v \in Workers \ {w} : work[c][v].pc # "set"
            BY <3>3 DEF SessionInv, OnlyChangesStore, Writes, Changing, Busy
        <3>5. TokenIsTheCookie(c)'
            <4>1. CASE job.op = "refresh"
                <5>1. ~Setting(c) /\ ~Setting(c)'
                    BY <1>m, <2>3, <3>2, <3>4, <4>1 DEF Setting
                <5>2. r.load # Unloaded /\ Result(c, w) = r.load
                    BY <1>l, <1>m, <2>2, <2>6, <4>1 DEF Result
                <5>3. \A v \in Workers : work'[c][v].pc # "read"
                    BY <1>e, <2>3, <3>2, <4>1, <5>2
                <5>4. QED
                    BY <1>m, <3>1, <5>1, <5>2, <5>3 DEF TokenIsTheCookie, Setting
            <4>2. CASE job.op # "refresh"
                <5>1. Setting(c)' /\ work'[c][w].pc = "set"
                    BY <2>3, <3>2, <4>2 DEF Setting
                <5>2. Result(c, w)' = Result(c, w)
                    BY <2>3, <3>2, <4>2 DEF Result
                <5>3. QED
                    BY <3>1, <3>2, <3>4, <5>1, <5>2 DEF TokenIsTheCookie
            <4>3. QED
                BY <4>1, <4>2
        <3>6. Stage(c) \in {"handler", "delta"}
            BY <2>2, <3>1 DEF Tidy, OneChange
        <3>7. QED
            BY <1>m, <2>2, <2>3, <2>4, <3>1, <3>5, <3>6, TidySteps DEF Storing
    <2>7. QED
        BY <2>5, <2>6 DEF SessionInv
<1>5. CASE Store(c, w)
    <2>1. /\ Same /\ req'[c].load = r.load /\ req'[c].holder = r.holder
          /\ req'[c].built /\ req'[c].jar = Result(c, w)
        BY <1>5, <1>g DEF Store, RequestTypes, Contexts, b
    <2>2. Stored(c, w) /\ job.pc = "store" /\ ~job.late
        BY <1>5, <1>f, RequestsAssumption DEF Store
    <2>3. QED
        BY <1>m, <2>1, <2>2
<1>6. CASE SetToken(c, w)
    <2>1. /\ Same /\ req'[c].load = Result(c, w) /\ req'[c].holder = r.holder
          /\ req'[c].built = r.built /\ req'[c].jar = r.jar
        BY <1>6, <1>a DEF SetToken, RequestTypes, Contexts, Stage
    <2>2. /\ work' = [work EXCEPT ![c][w] = Quiet] /\ job.pc = "set" /\ r.holder = Nobody
        BY <1>6 DEF SetToken
    <2>3. Writes(c, w) /\ \A v \in Workers : work[c][v].pc # "read"
        BY <1>e, <1>f, <2>2, RequestsAssumption DEF Writes, Changing, Busy, Workers
    <2>4. Untouched(c)' /\ OneReader(c)' /\ OnlyChangesStore(c)'
        BY <1>c, <1>d, <2>1, <2>2, <2>3, CallSteps
    <2>5. ASSUME req'[c].tidy PROVE Tidy(c)'
        <3>1. Tidy(c) /\ TokenIsTheCookie(c) /\ Cookie(c)' = Cookie(c)
            BY <1>b, <2>1, <2>5 DEF Tidy, Cookie
        <3>2. \A v \in Workers : work'[c][v] = IF v = w THEN Quiet ELSE work[c][v]
            BY <2>2 DEF RequestTypes
        <3>3. Stage(c) \in {"handler", "delta"} /\ \A v \in Workers \ {w} : ~Writes(c, v)
            BY <2>3, <3>1 DEF Tidy, OneChange
        <3>4. \A v \in Workers \ {w} : work[c][v].pc # "set" /\ work[c][v].pc \notin Storing
            BY <1>k, <3>3 DEF SessionInv, OnlyChangesStore, Writes, Changing, Busy, Storing
        <3>5. req'[c].load = Cookie(c)' /\ ~Setting(c)'
            BY <1>c, <2>1, <2>2, <3>1, <3>2, <3>4 DEF TokenIsTheCookie, Setting
        <3>6. TokenIsTheCookie(c)'
            BY <1>c, <2>3, <3>2, <3>5 DEF TokenIsTheCookie, Setting
        <3>7. QED
            BY <1>c, <2>1, <2>2, <3>1, <3>4, <3>6, TidySteps DEF Storing
    <2>6. QED
        BY <2>4, <2>5 DEF SessionInv
<1>8. CASE GetOrInit(c, w)
    <2> DEFINE j == [job EXCEPT !.pc = "check"]
    <2>1. /\ j \in Jobs /\ j.op = job.op /\ j.pc = "check"
          /\ j.token = job.token /\ j.late = job.late
        BY <1>a DEF Jobs, Places
    <2>2. /\ work' = [work EXCEPT ![c][w] = j] /\ job.pc = "store" /\ w \in Detached
          /\ client' = client /\ req'[c] = b
        BY <1>8 DEF GetOrInit, RequestTypes, b
    <2>3. Cookie(c)' = Cookie(c)
        BY <1>g, <2>2 DEF Cookie
    <2> HIDE DEF j
    <2>4. QED
        BY <1>f, <1>g, <1>i, <1>l, <2>1, <2>2, <2>3 DEF Storing
<1>9. CASE InheritSeal(c, w)
    <2> DEFINE j == [job EXCEPT !.pc = "open"]
    <2>1. /\ j \in Jobs /\ j.op = job.op /\ j.pc = "open"
          /\ j.token = job.token /\ j.late = job.late
        BY <1>a DEF Jobs, Places
    <2>2. work' = [work EXCEPT ![c][w] = j] /\ job.pc = "check" /\ client' = client
        BY <1>9 DEF InheritSeal
    <2>3. /\ Same /\ req'[c].load = r.load /\ req'[c].holder = r.holder
          /\ req'[c].built = r.built /\ req'[c].jar = r.jar
        BY <1>9, <1>a DEF InheritSeal, RequestTypes, Contexts, Stage
    <2>4. Cookie(c)' = Cookie(c)
        BY <2>2, <2>3 DEF Cookie
    <2> HIDE DEF j
    <2>5. QED
        BY <1>f, <1>i, <1>l, <2>1, <2>2, <2>3, <2>4 DEF Storing
<1>10. CASE AssertOpen(c, w)
    <2> DEFINE j == IF r.sealed THEN Quiet ELSE [job EXCEPT !.pc = "add"]
    <2>1. /\ j \in Jobs /\ (j.late => job.late)
          /\ \/ j.pc = "idle"
             \/ /\ j.op = job.op /\ j.pc = "add"
                /\ j.token = job.token /\ j.late = job.late
        BY <1>a, <1>c DEF Jobs, Places
    <2>2. /\ work' = [work EXCEPT ![c][w] = j] /\ job.pc = "open" /\ req' = req
          /\ client' = client
        BY <1>10 DEF AssertOpen
    <2>3. Cookie(c)' = Cookie(c)
        BY <2>2 DEF Cookie
    <2> HIDE DEF j
    <2>4. QED
        BY <1>f, <1>i, <1>l, <2>1, <2>2, <2>3 DEF Stage, Storing
<1>11. CASE Add(c, w)
    <2>1. /\ Same /\ req'[c].load = r.load /\ req'[c].holder = r.holder
          /\ req'[c].built = r.built /\ req'[c].jar = Result(c, w)
        BY <1>11, <1>a DEF Add, RequestTypes, Contexts, Stage
    <2>2. Stored(c, w) /\ job.pc = "add" /\ ~job.late /\ r.built
        BY <1>11, <1>f, <1>k DEF Add
    <2>3. QED
        BY <1>m, <2>1, <2>2
<1>12. QED
    BY <1>1, <1>2, <1>3, <1>4, <1>5, <1>6, <1>8, <1>9, <1>10, <1>11, RequestsAssumption DEF Work

-----------------------------------------------------------------------------
(* The service: the session of each of its requests.                       *)

SessionsInv == \A c \in Conns : SessionInv(c)

LEMMA InitSessions == Init => SessionsInv
<1> SUFFICES ASSUME Init, NEW c \in Conns PROVE SessionInv(c)
    BY DEF SessionsInv
<1>1. req[c] = NoRequest /\ \A w \in Workers : work[c][w].pc = "idle" /\ ~work[c][w].late
    BY DEF Init, RequestsInit, Quiet
<1>2. /\ NoRequest.stage = "idle" /\ NoRequest.outcome # "unmatched"
      /\ NoRequest.load = Unloaded /\ ~NoRequest.built
    BY DEF NoRequest, Context
<1>3. Untouched(c) /\ OneReader(c) /\ OnlyChangesStore(c)
    BY <1>1, <1>2 DEF Untouched, OneReader, OnlyChangesStore, Stage
<1>4. Tidy(c)
    BY <1>1, <1>2 DEF Tidy, OneChange, Writes, Changing, Busy, RefreshKnows, Storing,
                      TokenIsTheCookie, HeadersAreTheCookie, Stage, Sent
<1>5. QED
    BY <1>3, <1>4 DEF SessionInv

\* What the client of another connection holds is none of this request's doing.
LEMMA OneClient ==
    ASSUME RequestTypes, NEW c \in Conns,
           \/ Drop(c)
           \/ \E t \in Asked : Begin(c, t)
           \/ Serve(c)
           \/ \E w \in Workers : Work(c, w)
    PROVE  \A d \in Conns \ {c} : client'[d] = client[d]
<1> USE DEF RequestTypes
<1>1. CASE Drop(c)
    BY <1>1 DEF Drop
<1>2. CASE \E t \in Asked : Begin(c, t)
    BY <1>2 DEF Begin
<1>3. CASE Serve(c)
    <2>1. ASSUME NEW t \in Targets, Follow(c, t) PROVE client' = client
        BY <2>1 DEF Follow
    <2>2. QED
        BY <1>3, <2>1 DEF Serve, Matched, Unmatched, SendHead, SendBody, Drop, WriteDelta,
                          SealCell, SealJar, End
<1>4. ASSUME NEW w \in Workers, Work(c, w) PROVE client' = client
    BY <1>4 DEF Work, Call, Lock, Read, Fail, Store, SetToken, GetOrInit, InheritSeal,
                AssertOpen, Add
<1>5. QED
    BY <1>1, <1>2, <1>3, <1>4

LEMMA StepSessions ==
    ASSUME IInv, SessionsInv, [Next]_vars
    PROVE  SessionsInv'
<1>a. RequestTypes /\ \A c \in Conns : RequestInv(c) /\ SessionInv(c)
    BY DEF IInv, Types, SessionsInv
<1>b. ASSUME NEW c \in Conns, SessionInv(c)',
             \/ Drop(c)
             \/ \E t \in Asked : Begin(c, t)
             \/ Serve(c)
             \/ \E w \in Workers : Work(c, w)
      PROVE  SessionsInv'
    <2>1. ASSUME NEW d \in Conns \ {c} PROVE SessionInv(d)'
        BY <1>a, <1>b, OneConnection, OneClient, OtherSessions
    <2>2. QED
        BY <1>b, <2>1 DEF SessionsInv
<1>1. CASE UNCHANGED requestVars
    BY <1>a, <1>1, OtherSessions DEF requestVars, SessionsInv
<1>2. ASSUME NEW c \in Conns, Cut(c) \/ Leave(c) \/ Upgrade(c) PROVE SessionsInv'
    BY <1>a, <1>b, <1>2, DropSession DEF Cut, Leave, Upgrade
<1>3. ASSUME NEW c \in Conns, Receive(c) PROVE SessionsInv'
    <2>1. PICK t \in Asked : Begin(c, t)
        BY <1>3 DEF Receive
    <2>2. t \in Targets
        BY RequestsAssumption
    <2>3. QED
        BY <1>a, <1>b, <2>1, <2>2, BeginSession
<1>4. ASSUME NEW c \in Conns, Handle(c) PROVE SessionsInv'
    BY <1>a, <1>b, <1>4, ServeSession, WorkSession DEF Handle
<1>5. CASE AcceptFails \/ Shutdown \/ GraceEnds \/ Return
    BY <1>1, <1>5 DEF AcceptFails, Shutdown, GraceEnds, Return
<1>6. ASSUME NEW c \in Conns, Accept(c) \/ Drain(c) \/ CloseIdle(c) PROVE SessionsInv'
    BY <1>1, <1>6 DEF Accept, Drain, CloseIdle
<1>7. CASE UNCHANGED vars
    BY <1>1, <1>7 DEF vars
<1>8. QED
    BY <1>2, <1>3, <1>4, <1>5, <1>6, <1>7 DEF Next

\* Once the head is out no change is under way, so the context, the cookie and
\* the client agree.
LEMMA SessionsReach == SessionsInv => SessionReachesTheClient
<1> SUFFICES ASSUME SessionsInv, NEW c \in Conns,
                    Stage(c) = "body", req[c].tidy, req[c].load # Unloaded
             PROVE  client[c] = req[c].load
    BY DEF SessionReachesTheClient
<1>1. Tidy(c) /\ OnlyChangesStore(c)
    BY DEF SessionsInv, SessionInv
<1>2. ~Setting(c)
    <2>1. \A w \in Workers : ~Writes(c, w)
        BY <1>1 DEF Tidy, OneChange
    <2>2. QED
        BY <1>1, <2>1 DEF OnlyChangesStore, Writes, Changing, Busy, Setting
<1>3. QED
    BY <1>1, <1>2 DEF Tidy, TokenIsTheCookie, HeadersAreTheCookie

\* In every response that goes out, the token that the client is left with is the
\* one that the request takes for its session, for any number of connections,
\* joined futures and spawned tasks that read and change it, except when two
\* changes overlapped, when one was under way while write_cookies ran, and when
\* the handler panicked or was cut off between the store and the context
\* (session.rs, state.rs, jar.rs).
THEOREM SessionAlwaysReaches == Spec => []SessionReachesTheClient
<1>1. IInv /\ SessionsInv /\ [Next]_vars => SessionsInv'
    BY StepSessions
<1>2. QED
    BY <1>1, InitSessions, SessionsReach, Invariance, PTL DEF Spec

-----------------------------------------------------------------------------
(* Applications.                                                           *)

\* Every behaviour of an application is one of the service of its requests.
THEOREM ApplicationServes == AppSpec => Spec
<1>1. AppInit => Init
  BY DEF AppInit
<1>2. [AppNext]_appVars => [Next]_vars
  <2>1. ASSUME Assemble PROVE UNCHANGED vars
    BY <2>1 DEF Assemble
  <2>2. ASSUME Operate PROVE Next
    BY <2>2 DEF Operate
  <2>3. ASSUME UNCHANGED appVars PROVE UNCHANGED vars
    BY <2>3 DEF appVars
  <2> QED BY <2>1, <2>2, <2>3 DEF AppNext
<1> QED BY <1>1, <1>2, PTL DEF AppSpec, Spec

\* And so its closed jars refuse every write that begins,
THEOREM ApplicationRefuses == AppSpec => []ClosedJarRefuses
BY ApplicationServes, ClosedJarAlwaysRefuses, PTL

\* leaves the session of a client in its cookies,
THEOREM ApplicationReaches == AppSpec => []SessionReachesTheClient
BY ApplicationServes, SessionAlwaysReaches, PTL

\* and has let every task end before it returns.
THEOREM ApplicationReturns == AppSpec => []ReturnedMeansQuiet
BY ApplicationServes, ReturnAlwaysQuiet, PTL

-----------------------------------------------------------------------------
(* Arranging.                                                              *)

Orders(before, S) ==
    /\ \A i \in S : <<i, i>> \notin before
    /\ \A i, j \in S : i # j => <<i, j>> \in before \/ <<j, i>> \in before
    /\ \A i, j, k \in S : <<i, j>> \in before /\ <<j, k>> \in before => <<i, k>> \in before

\* The places in the order of `before`.
InOrder(f, S, before) ==
    /\ f \in Bijection(1..Cardinality(S), S)
    /\ \A k, l \in 1..Cardinality(S) : k < l => <<f[k], f[l]>> \in before

\* What is arranged is the entries at these places.
LEMMA ArrangedInOrder ==
  ASSUME NEW entries, NEW S, IsFiniteSet(S), NEW before, Orders(before, S)
  PROVE  \E f : /\ InOrder(f, S, before)
                /\ Arranged(entries, S, before) = [k \in 1..Cardinality(S) |-> entries[f[k]]]
<1> DEFINE A(i) == {j \in S : <<j, i>> \in before}
<1>1. PICK n \in Nat : n = Cardinality(S)
  BY FS_CardinalityType
<1>2. ASSUME NEW i \in S PROVE IsFiniteSet(A(i)) /\ Cardinality(A(i)) \in 0..(n - 1)
  <2>1. A(i) \in SUBSET S /\ i \notin A(i)
    BY DEF Orders
  <2>2. IsFiniteSet(A(i)) /\ Cardinality(A(i)) <= n /\ (n = Cardinality(A(i)) => S = A(i))
    BY <1>1, <2>1, FS_Subset
  <2>3. Cardinality(A(i)) \in Nat
    BY <2>2, FS_CardinalityType
  <2> QED BY <2>1, <2>2, <2>3
<1>3. ASSUME NEW i \in S, NEW j \in S, <<i, j>> \in before PROVE Cardinality(A(i)) < Cardinality(A(j))
  <2>1. A(i) \in SUBSET A(j) /\ i \in A(j) /\ i \notin A(i)
    BY <1>3 DEF Orders
  <2>2. Cardinality(A(i)) <= Cardinality(A(j)) /\ (Cardinality(A(j)) = Cardinality(A(i)) => A(j) = A(i))
    BY <1>2, <2>1, FS_Subset
  <2> QED BY <1>2, <2>1, <2>2
<1> HIDE DEF A
<1>4. PICK g : g = [i \in S |-> Cardinality(A(i)) + 1]
  OBVIOUS
<1>5. g \in [S -> 1..n] /\ \A i \in S : g[i] = Cardinality(A(i)) + 1
  BY <1>2, <1>4
<1>6. \A i, j \in S : i # j => g[i] # g[j]
  <2>1. SUFFICES ASSUME NEW i \in S, NEW j \in S, i # j PROVE g[i] # g[j]
    OBVIOUS
  <2>2. <<i, j>> \in before \/ <<j, i>> \in before
    BY <2>1 DEF Orders
  <2>3. Cardinality(A(i)) # Cardinality(A(j)) /\ Cardinality(A(i)) \in Nat /\ Cardinality(A(j)) \in Nat
    BY <1>2, <1>3, <2>2
  <2> QED BY <1>5, <2>3
<1>7. g \in Injection(S, 1..n)
  BY <1>5, <1>6 DEF Injection, IsInjective
<1>8. IsFiniteSet(1..n) /\ Cardinality(1..n) = n
  BY FS_Interval
<1>9. g \in Surjection(S, 1..n)
  BY <1>1, <1>7, <1>8, FS_Injection
<1>10. \A k \in 1..n : \E i \in S : g[i] = k
  BY <1>9 DEF Surjection
<1>11. PICK f : f = [k \in 1..n |-> CHOOSE i \in S : Cardinality(A(i)) = k - 1]
  OBVIOUS
<1>12. ASSUME NEW k \in 1..n PROVE f[k] \in S /\ g[f[k]] = k
  <2>1. PICK i \in S : g[i] = k
    BY <1>10
  <2>2. Cardinality(A(i)) = k - 1
    BY <1>2, <1>5, <2>1
  <2>3. f[k] \in S /\ Cardinality(A(f[k])) = k - 1
    BY <1>11, <2>2
  <2> QED BY <1>5, <2>3
<1>13. f \in [1..n -> S]
  BY <1>11, <1>12
<1>14. f \in Injection(1..n, S)
  BY <1>12, <1>13 DEF Injection, IsInjective
<1>15. f \in Surjection(1..n, S)
  <2>1. ASSUME NEW i \in S PROVE f[g[i]] = i
    BY <1>5, <1>6, <1>12
  <2> QED BY <2>1, <1>5, <1>13 DEF Surjection
<1>16. ASSUME NEW k \in 1..n, NEW l \in 1..n, k < l PROVE <<f[k], f[l]>> \in before
  <2>1. f[k] \in S /\ f[l] \in S /\ f[k] # f[l]
    BY <1>12, <1>16
  <2>2. CASE <<f[l], f[k]>> \in before
    <3>1. Cardinality(A(f[l])) < Cardinality(A(f[k]))
      BY <1>3, <2>1, <2>2
    <3>2. Cardinality(A(f[l])) + 1 = l /\ Cardinality(A(f[k])) + 1 = k
      BY <1>5, <1>12, <2>1
    <3>3. Cardinality(A(f[l])) \in Nat /\ Cardinality(A(f[k])) \in Nat
      BY <1>2, <2>1
    <3> QED BY <3>1, <3>2, <3>3, <1>16
  <2> QED BY <2>1, <2>2 DEF Orders
<1>17. InOrder(f, S, before)
  BY <1>1, <1>14, <1>15, <1>16 DEF InOrder, Bijection
<1>18. Arranged(entries, S, before) = [k \in 1..n |-> entries[CHOOSE i \in S : Cardinality(A(i)) = k - 1]]
  BY <1>1 DEF Arranged, A
<1>19. Arranged(entries, S, before) = [k \in 1..n |-> entries[f[k]]]
  BY <1>11, <1>18
<1> QED BY <1>1, <1>17, <1>19

-----------------------------------------------------------------------------
(* The length of a path.                                                   *)

\* A segment has at least its slash.
LEMMA SegmentBytes ==
  ASSUME NEW p, Valid(p), NEW i \in 1..Len(p)
  PROVE  SegmentLen(p[i]) \in Nat \ {0}
<1>1. p[i] \in Segments /\ Len(p[i].name) \in Nat
  BY DEF Valid
<1>2. p[i].kind \in {"static", "param", "all", "group"}
  BY <1>1 DEF Segments
<1> QED BY <1>1, <1>2 DEF SegmentLen

\* b counts the bytes of p's segments.
Counts(b, p) ==
    /\ b \in [0..Len(p) -> Nat]
    /\ b[0] = 0
    /\ \A n \in Nat : n < Len(p) => b[n + 1] = b[n] + SegmentLen(p[n + 1])

\* The recursive function of PathLen exists, and counts the bytes.
LEMMA PathBytes ==
  ASSUME NEW p, Valid(p)
  PROVE  \E b : Counts(b, p) /\ PathLen(p) = b[Len(p)]
<1>1. PICK N \in Nat : N = Len(p)
  BY DEF Valid
<1>2. PICK G : G = [x \in Nat \X Nat |-> x[2] + SegmentLen(p[x[1]])]
  OBVIOUS
<1> DEFINE T == (0..N) \X Nat
<1>3. \A n \in Nat, x \in Nat : G[<<n, x>>] = x + SegmentLen(p[n])
  BY <1>2
<1>4. Leads(G, N, T)
  <2>1. SUFFICES ASSUME NEW n \in Nat, NEW x, n < N, <<n, x>> \in T
                 PROVE  <<n + 1, G[<<n + 1, x>>]>> \in T
    BY DEF Leads
  <2>2. x \in Nat /\ n + 1 \in 1..Len(p)
    BY <1>1, <2>1
  <2>3. SegmentLen(p[n + 1]) \in Nat
    BY <2>2, SegmentBytes
  <2>4. G[<<n + 1, x>>] \in Nat
    BY <1>3, <2>2, <2>3
  <2> QED BY <2>1, <2>4
<1>5. PICK g : Follows(g, G, N, T, 0)
  <2>1. T \in SUBSET (Nat \X Nat) /\ <<0, 0>> \in T
    BY <1>1
  <2> HIDE DEF T
  <2> QED BY <1>1, <1>4, <2>1, Folding
<1>6. g \in [0..N -> Nat]
  BY <1>5 DEF Follows
<1>7. g = [n \in 0..Len(p) |-> IF n = 0 THEN 0 ELSE g[n - 1] + SegmentLen(p[n])]
  <2>1. \A n \in 0..N : n # 0 => G[<<n, g[n - 1]>>] = g[n - 1] + SegmentLen(p[n])
    BY <1>3, <1>6
  <2> QED BY <1>1, <1>5, <2>1 DEF Follows
<1>8. PICK b : /\ b = [n \in 0..Len(p) |-> IF n = 0 THEN 0 ELSE b[n - 1] + SegmentLen(p[n])]
               /\ PathLen(p) = b[Len(p)]
  BY <1>7 DEF PathLen
<1>9. b[0] = 0
  BY <1>1, <1>8
<1>10. ASSUME NEW n \in Nat, n < N PROVE b[n + 1] = b[n] + SegmentLen(p[n + 1])
  <2>1. n + 1 \in 0..Len(p) /\ n + 1 # 0 /\ (n + 1) - 1 = n
    BY <1>1, <1>10
  <2> QED BY <1>8, <2>1
<1> DEFINE P == {n \in Nat : n <= N => b[n] \in Nat}
<1>11. 0 \in P
  BY <1>9
<1>12. ASSUME NEW n \in Nat, n \in P PROVE n + 1 \in P
  <2>1. CASE n + 1 <= N
    <3>1. b[n] \in Nat /\ n + 1 \in 1..Len(p)
      BY <1>1, <1>12, <2>1
    <3>2. b[n + 1] = b[n] + SegmentLen(p[n + 1]) /\ SegmentLen(p[n + 1]) \in Nat
      BY <1>10, <2>1, <3>1, SegmentBytes
    <3> QED BY <3>1, <3>2
  <2> QED BY <2>1
<1>13. Nat \subseteq P
  <2> HIDE DEF P
  <2> QED BY <1>11, <1>12, NaturalsSet
<1>14. b \in [0..Len(p) -> Nat]
  BY <1>1, <1>8, <1>13
<1> QED BY <1>1, <1>8, <1>9, <1>10, <1>14 DEF Counts

\* Where two paths agree, so do their lengths, and each segment adds to it.
LEMMA PathLenGrows ==
  ASSUME NEW p, NEW q, Valid(p), Valid(q), Len(p) <= Len(q), \A i \in 1..Len(p) : p[i] = q[i]
  PROVE  /\ PathLen(p) \in Nat /\ PathLen(q) \in Nat
         /\ PathLen(p) + (Len(q) - Len(p)) <= PathLen(q)
<1>0. Len(p) \in Nat /\ Len(q) \in Nat
  BY DEF Valid
<1>1. PICK b : Counts(b, p) /\ PathLen(p) = b[Len(p)]
  BY PathBytes
<1>2. PICK c : Counts(c, q) /\ PathLen(q) = c[Len(q)]
  BY PathBytes
<1> DEFINE P == {n \in Nat : n <= Len(p) => b[n] = c[n]}
<1>3. 0 \in P
  BY <1>1, <1>2 DEF Counts
<1>4. ASSUME NEW n \in Nat, n \in P PROVE n + 1 \in P
  <2>1. CASE n + 1 <= Len(p)
    <3>1. n < Len(p) /\ n < Len(q) /\ n + 1 \in 1..Len(p) /\ b[n] = c[n]
      BY <1>0, <1>4, <2>1
    <3>2. p[n + 1] = q[n + 1]
      BY <3>1
    <3> QED BY <1>1, <1>2, <3>1, <3>2 DEF Counts
  <2> QED BY <2>1
<1>5. Nat \subseteq P
  <2> HIDE DEF P
  <2> QED BY <1>3, <1>4, NaturalsSet
<1>6. b[Len(p)] = c[Len(p)]
  BY <1>0, <1>5
<1> DEFINE Q == {n \in Nat : Len(p) + n <= Len(q) => c[Len(p)] + n <= c[Len(p) + n]}
<1>7. 0 \in Q
  BY <1>0, <1>2 DEF Counts
<1>8. ASSUME NEW n \in Nat, n \in Q PROVE n + 1 \in Q
  <2>1. CASE Len(p) + (n + 1) <= Len(q)
    <3>1. PICK m \in Nat : m = Len(p) + n
      BY <1>0
    <3>2. m < Len(q) /\ m + 1 \in 1..Len(q) /\ m + 1 = Len(p) + (n + 1)
      BY <1>0, <2>1, <3>1
    <3>3. c[m + 1] = c[m] + SegmentLen(q[m + 1]) /\ SegmentLen(q[m + 1]) \in Nat \ {0}
      BY <1>2, <3>2, SegmentBytes DEF Counts
    <3>4. c[m] \in Nat /\ c[Len(p)] \in Nat /\ c[Len(p)] + n <= c[m]
      BY <1>0, <1>2, <1>8, <3>1, <3>2 DEF Counts
    <3> QED BY <3>2, <3>3, <3>4
  <2> QED BY <2>1
<1>9. Nat \subseteq Q
  <2> HIDE DEF Q
  <2> QED BY <1>7, <1>8, NaturalsSet
<1>10. Len(q) - Len(p) \in Nat /\ Len(p) + (Len(q) - Len(p)) = Len(q)
  BY <1>0
<1>11. c[Len(p)] + (Len(q) - Len(p)) <= c[Len(q)]
  BY <1>9, <1>10
<1>12. b[Len(p)] \in Nat /\ c[Len(q)] \in Nat
  BY <1>0, <1>1, <1>2 DEF Counts
<1> QED BY <1>1, <1>2, <1>6, <1>11, <1>12

\* Prefixes, segment by segment.
LEMMA PrefixSegments ==
  ASSUME NEW S, NEW p \in Seq(S), NEW q \in Seq(S)
  PROVE  IsPrefix(p, q) <=> Len(p) <= Len(q) /\ \A i \in 1..Len(p) : p[i] = q[i]
<1>1. SubSeq(p, 1, Len(p)) = p
  OBVIOUS
<1>2. ASSUME Len(p) <= Len(q)
      PROVE  SubSeq(q, 1, Len(p)) = p <=> \A i \in 1..Len(p) : p[i] = q[i]
  <2>1. SubSeq(q, 1, Len(p)) \in Seq(S) /\ Len(SubSeq(q, 1, Len(p))) = Len(p)
    BY <1>2
  <2>2. \A i \in 1..Len(p) : SubSeq(q, 1, Len(p))[i] = q[i]
    BY <1>2
  <2>3. (\A i \in 1..Len(p) : SubSeq(q, 1, Len(p))[i] = p[i]) => SubSeq(q, 1, Len(p)) = p
    BY <2>1, SeqEqual
  <2> QED BY <2>2, <2>3
<1> QED BY <1>1, <1>2 DEF IsPrefix

\* starts_with() holds of prefixes, and of nothing else.
LEMMA StartsWithPrefix ==
  ASSUME NEW p, NEW q, Valid(p), Valid(q)
  PROVE  StartsWith(p, q) <=> IsPrefix(q, p)
<1>0. p \in Seq(Segments) /\ q \in Seq(Segments) /\ Len(p) \in Nat /\ Len(q) \in Nat
  BY DEF Valid
<1>1. IsPrefix(q, p) <=> Len(q) <= Len(p) /\ \A i \in 1..Len(q) : q[i] = p[i]
  BY <1>0, PrefixSegments
<1>2. DOMAIN p = 1..Len(p) /\ DOMAIN q = 1..Len(q)
  BY <1>0
<1>3. ASSUME IsPrefix(q, p) PROVE StartsWith(p, q)
  <2>1. PathLen(q) \in Nat /\ PathLen(p) \in Nat /\ PathLen(q) <= PathLen(p)
    BY <1>0, <1>1, <1>3, PathLenGrows
  <2> QED BY <1>1, <1>2, <1>3, <2>1 DEF StartsWith
<1>4. ASSUME StartsWith(p, q) PROVE IsPrefix(q, p)
  <2>1. CASE Len(q) <= Len(p)
    BY <1>0, <1>1, <1>2, <1>4, <2>1 DEF StartsWith
  <2>2. CASE Len(p) < Len(q)
    <3>1. \A i \in 1..Len(p) : p[i] = q[i]
      BY <1>0, <1>2, <1>4, <2>2 DEF StartsWith
    <3>2. PathLen(p) \in Nat /\ PathLen(q) \in Nat /\ PathLen(p) + (Len(q) - Len(p)) <= PathLen(q)
      BY <1>0, <2>2, <3>1, PathLenGrows
    <3>3. PathLen(p) >= PathLen(q)
      BY <1>4 DEF StartsWith
    <3> QED BY <1>0, <2>2, <3>2, <3>3
  <2> QED BY <1>0, <2>1, <2>2
<1> QED BY <1>3, <1>4

-----------------------------------------------------------------------------
(* What is left of a path once its groups are gone, and its other form.    *)

\* Names of segments and parts of URLs, the empty one with them.
NoText == ""
Texts == STRING \cup {NoText}
Parts == [kind : {"static", "param", "all", "group"}, name : Texts]

\* What SMT needs to know of the empty name.
LEMMA SlashPart == Slash \in Parts /\ Slash.kind = "static" /\ Segments \subseteq Parts
<1>1. Slash = [kind |-> "static", name |-> NoText]
  BY DEF Slash, Static, NoText
<1> QED BY <1>1 DEF Segments, Parts, Texts

\* Of no groups, and an empty segment only at the end, after another one.
Keyed(k) ==
    /\ k \in Seq(Parts)
    /\ \A i \in 1..Len(k) : k[i].kind # "group"
    /\ \A i \in 1..Len(k) : k[i] = Slash => i = Len(k) /\ i > 1

\* What a valid path leaves without its groups is a key.
LEMMA MatchitPathKeyed ==
  ASSUME NEW p, Valid(p)
  PROVE  Keyed(ToMatchitPath(p))
<1>1. p \in Seq(Segments) /\ Len(p) \in Nat /\ DOMAIN p = 1..Len(p)
  BY DEF Valid
<1>2. PICK S : S = {i \in DOMAIN p : p[i].kind # "group"}
  OBVIOUS
<1>3. PICK before : before = {ij \in S \X S : ij[1] < ij[2]}
  OBVIOUS
<1>4. S \subseteq 1..Len(p) /\ IsFiniteSet(S)
  <2>1. S \in SUBSET (1..Len(p)) /\ 1 \in Int /\ Len(p) \in Int
    BY <1>1, <1>2
  <2>2. IsFiniteSet(1..Len(p))
    BY <2>1, FS_Interval
  <2> QED BY <2>1, <2>2, FS_Subset
<1>5. \A i, j \in S : <<i, j>> \in before <=> i < j
  BY <1>3
<1>6. Orders(before, S)
  BY <1>1, <1>4, <1>5 DEF Orders
<1>7. PICK f : /\ InOrder(f, S, before)
               /\ Arranged(p, S, before) = [k \in 1..Cardinality(S) |-> p[f[k]]]
  BY <1>4, <1>6, ArrangedInOrder
<1>8. PICK n \in Nat : n = Cardinality(S)
  BY <1>4, FS_CardinalityType
<1>9. PICK s : s = Arranged(p, S, before)
  OBVIOUS
<1>10. \A k \in 1..n : f[k] \in S
  BY <1>7, <1>8 DEF InOrder, Bijection, Injection
<1>11. \A k, l \in 1..n : k < l => f[k] < f[l]
  BY <1>5, <1>7, <1>8, <1>10 DEF InOrder
<1>12. s = [k \in 1..n |-> p[f[k]]]
  BY <1>7, <1>8, <1>9
<1>13. \A k \in 1..n : p[f[k]] \in Parts
  <2>1. \A k \in 1..n : f[k] \in 1..Len(p)
    BY <1>4, <1>10
  <2>2. \A i \in 1..Len(p) : p[i] \in Segments
    BY <1>1
  <2> QED BY <2>1, <2>2, SlashPart
<1>14. s \in Seq(Parts) /\ Len(s) = n /\ \A k \in 1..n : s[k] = p[f[k]]
  BY <1>12, <1>13
<1>15. \A k \in 1..n : s[k].kind # "group"
  BY <1>2, <1>10, <1>14
<1>16. \A k \in 1..n : s[k] = Slash => k = n
  <2>1. SUFFICES ASSUME NEW k \in 1..n, s[k] = Slash, k # n PROVE FALSE
    OBVIOUS
  <2>2. f[k] = Len(p)
    BY <1>1, <1>4, <1>10, <1>14, <2>1 DEF Valid
  <2>3. n \in 1..n /\ k < n
    BY <2>1
  <2>4. f[k] < f[n] /\ f[n] \in 1..Len(p)
    BY <1>4, <1>10, <1>11, <2>3
  <2> QED BY <1>1, <2>2, <2>4
<1>17. ToMatchitPath(p) = IF s = <<Slash>> THEN <<>> ELSE s
  BY <1>2, <1>3, <1>9 DEF ToMatchitPath
<1>18. CASE s = <<Slash>>
  BY <1>17, <1>18 DEF Keyed
<1>19. CASE s # <<Slash>>
  <2>1. ASSUME s[1] = Slash, n >= 1 PROVE FALSE
    <3>1. n = 1
      BY <1>16, <2>1
    <3>2. s = <<Slash>>
      BY <1>14, <2>1, <3>1
    <3> QED BY <3>2, <1>19
  <2> QED BY <1>14, <1>15, <1>16, <1>17, <1>19, <2>1 DEF Keyed
<1> QED BY <1>18, <1>19

\* The matcher takes it.
Matchable(k) == Keyed(k) /\ ~Unmatchable(k)

\* The segments of a key that the matcher takes.
LEMMA MatchedSegments ==
  ASSUME NEW p, Matchable(p)
  PROVE  /\ p \in Seq(Parts) /\ Len(p) \in Nat /\ DOMAIN p = 1..Len(p)
         /\ \A i \in 1..Len(p) : /\ p[i] \in Parts
                                 /\ p[i].kind \in {"static", "param", "all"}
                                 /\ p[i] = Slash => i = Len(p) /\ i > 1
                                 /\ p[i].kind = "all" => i = Len(p)
<1>1. p \in Seq(Parts) /\ Len(p) \in Nat /\ DOMAIN p = 1..Len(p)
  BY DEF Matchable, Keyed
<1>2. ASSUME NEW i \in 1..Len(p)
      PROVE  /\ p[i] \in Parts
             /\ p[i].kind \in {"static", "param", "all"}
             /\ p[i] = Slash => i = Len(p) /\ i > 1
  <2>1. p[i] \in Parts
    BY <1>1
  <2> QED BY <1>1, <2>1 DEF Matchable, Keyed, Parts
<1>3. ASSUME NEW i \in 1..Len(p), p[i].kind = "all" PROVE i = Len(p)
  <2>1. i \in DOMAIN p /\ ~Unmatchable(p)
    BY <1>1 DEF Matchable
  <2>2. ~(i < Len(p))
    BY <1>3, <2>1 DEF Unmatchable
  <2>3. Len(p) \in Nat
    BY <1>1
  <2> QED BY <2>2, <2>3
<1> QED BY <1>1, <1>2, <1>3

\* Nothing but the names of parameters tells the paths apart.
SameShape(p, q) ==
    /\ Len(p) = Len(q)
    /\ \A i \in 1..Len(p) : p[i].kind = q[i].kind /\ (p[i].kind = "static" => p[i] = q[i])

\* Two paths have one shape where they look alike.
LEMMA ShapesAgree ==
  ASSUME NEW p \in Seq(Parts), NEW q \in Seq(Parts)
  PROVE  Shape(p) = Shape(q) <=> SameShape(p, q)
<1>1. DOMAIN p = 1..Len(p) /\ DOMAIN q = 1..Len(q) /\ Len(p) \in Nat /\ Len(q) \in Nat
  OBVIOUS
<1>2. \A i \in 1..Len(p) : Shape(p)[i] = IF p[i].kind = "static" THEN p[i] ELSE [p[i] EXCEPT !.name = ""]
  BY <1>1 DEF Shape
<1>3. \A i \in 1..Len(q) : Shape(q)[i] = IF q[i].kind = "static" THEN q[i] ELSE [q[i] EXCEPT !.name = ""]
  BY <1>1 DEF Shape
<1>4. DOMAIN Shape(p) = 1..Len(p) /\ DOMAIN Shape(q) = 1..Len(q)
  BY <1>1 DEF Shape
<1>5. ASSUME Shape(p) = Shape(q) PROVE SameShape(p, q)
  <2>1. Len(p) = Len(q)
    <3>1. 1..Len(p) = 1..Len(q)
      BY <1>4, <1>5
    <3>2. ASSUME Len(q) < Len(p) PROVE FALSE
      <4>1. Len(p) \in 1..Len(p) /\ Len(p) \notin 1..Len(q)
        BY <1>1, <3>2
      <4> QED BY <3>1, <4>1
    <3>3. ASSUME Len(p) < Len(q) PROVE FALSE
      <4>1. Len(q) \in 1..Len(q) /\ Len(q) \notin 1..Len(p)
        BY <1>1, <3>3
      <4> QED BY <3>1, <4>1
    <3>4. Len(p) \in Int /\ Len(q) \in Int
      BY <1>1
    <3> QED BY <3>2, <3>3, <3>4
  <2>2. ASSUME NEW i \in 1..Len(p)
        PROVE  p[i].kind = q[i].kind /\ (p[i].kind = "static" => p[i] = q[i])
    <3>1. p[i] \in Parts /\ q[i] \in Parts
      BY <2>1
    <3>2. (IF p[i].kind = "static" THEN p[i] ELSE [p[i] EXCEPT !.name = ""])
          = (IF q[i].kind = "static" THEN q[i] ELSE [q[i] EXCEPT !.name = ""])
      BY <1>2, <1>3, <1>5, <2>1
    <3>3. [p[i] EXCEPT !.name = ""].kind = p[i].kind /\ [q[i] EXCEPT !.name = ""].kind = q[i].kind
      BY <3>1 DEF Parts
    <3> QED BY <3>2, <3>3
  <2> QED BY <2>1, <2>2 DEF SameShape
<1>6. ASSUME SameShape(p, q) PROVE Shape(p) = Shape(q)
  <2>1. Len(p) = Len(q)
    BY <1>6 DEF SameShape
  <2>2. ASSUME NEW i \in 1..Len(p) PROVE Shape(p)[i] = Shape(q)[i]
    <3>1. p[i] \in Parts /\ q[i] \in Parts
      BY <2>1
    <3>2. p[i].kind = q[i].kind /\ (p[i].kind = "static" => p[i] = q[i])
      BY <1>6 DEF SameShape
    <3>3. [p[i] EXCEPT !.name = ""] = [q[i] EXCEPT !.name = ""]
      BY <3>1, <3>2 DEF Parts
    <3> QED BY <1>2, <1>3, <2>1, <3>2, <3>3
  <2>3. Shape(p) = [i \in 1..Len(p) |-> Shape(p)[i]] /\ Shape(q) = [i \in 1..Len(p) |-> Shape(q)[i]]
    BY <1>1, <2>1 DEF Shape
  <2> HIDE DEF Shape
  <2> QED BY <2>2, <2>3
<1> QED BY <1>5, <1>6

-----------------------------------------------------------------------------
(* The other form of a path.                                               *)

\* q is p without its slash, or with one.
Slashed(p, q) ==
    /\ q \in Seq(Parts)
    /\ Len(q) = Len(p) + 1
    /\ \A i \in 1..Len(p) : q[i] = p[i]
    /\ q[Len(q)] = Slash

\* p has another form, which it has with a slash, or without.
Bare(p) == p # <<>> /\ p[Len(p)] # Slash /\ p[Len(p)].kind # "all"
Ended(p) == p # <<>> /\ p[Len(p)] = Slash

\* A path and its other form differ in one empty segment, and each is the other's.
LEMMA TwinForms ==
  ASSUME NEW p, Matchable(p), NEW q, q \in Twin(p)
  PROVE  /\ Matchable(q)
         /\ q # <<>> /\ p # <<>>
         /\ Bare(p) \/ Ended(p)
         /\ Bare(p) => Ended(q) /\ Slashed(p, q)
         /\ Ended(p) => Bare(q) /\ Slashed(q, p)
         /\ Twin(q) = {p}
<1>1. p \in Seq(Parts) /\ Len(p) \in Nat /\ DOMAIN p = 1..Len(p) /\ p # <<>>
  BY DEF Matchable, Keyed, Twin
<1>2. Len(p) \in 1..Len(p) /\ p[Len(p)].kind # "all"
  BY <1>1 DEF Twin, Last
<1>3. Slash \in Parts /\ Slash.kind = "static"
  BY SlashPart
<1>4. CASE Ended(p)
  <2>1. q = SubSeq(p, 1, Len(p) - 1)
    BY <1>1, <1>2, <1>4 DEF Twin, Last, HasTrailingSlash, Front, Ended
  <2>2. Len(p) > 1
    BY <1>2, <1>4 DEF Matchable, Keyed, Ended
  <2>3. q \in Seq(Parts) /\ Len(q) = Len(p) - 1 /\ (\A i \in 1..Len(q) : q[i] = p[i]) /\ q # <<>>
    <3>0. Len(p) - 1 \in Nat /\ Len(p) - 1 >= 1
      BY <1>1, <2>2
    <3>1. PICK m \in Nat : m = Len(p) - 1 /\ m >= 1
      BY <3>0
    <3>2. q = SubSeq(p, 1, m)
      BY <2>1, <3>1
    <3>3. q \in Seq(Parts) /\ Len(q) = m /\ \A i \in 1..m : q[i] = p[i]
      BY <1>1, <3>1, <3>2
    <3> QED BY <3>1, <3>3
  <2>4. ASSUME NEW i \in 1..Len(q) PROVE i \in 1..Len(p) /\ i < Len(p) /\ q[i] = p[i]
    BY <1>1, <2>3, <2>4
  <2>5. ASSUME NEW i \in 1..Len(q) PROVE q[i] # Slash /\ q[i].kind # "all" /\ q[i].kind # "group"
    <3>1. i \in 1..Len(p) /\ i < Len(p) /\ q[i] = p[i]
      BY <2>4
    <3> QED BY <1>1, <3>1, MatchedSegments
  <2>6. DOMAIN q = 1..Len(q) /\ Len(q) \in 1..Len(q)
    BY <2>2, <2>3
  <2>7. Matchable(q) /\ Bare(q)
    BY <2>3, <2>5, <2>6 DEF Matchable, Keyed, Unmatchable, Bare
  <2>8. Slashed(q, p)
    BY <1>1, <1>4, <2>3 DEF Slashed, Ended
  <2>9. Append(q, Slash) = p
    <3>1. Append(q, Slash) \in Seq(Parts) /\ Len(Append(q, Slash)) = Len(p)
      BY <1>3, <2>3
    <3>2. \A i \in 1..Len(p) : Append(q, Slash)[i] = p[i]
      BY <1>1, <1>3, <1>4, <2>3 DEF Ended
    <3> QED BY <1>1, <3>1, <3>2, SeqEqual
  <2>10. Twin(q) = {p}
    BY <2>3, <2>7, <2>9 DEF Twin, Last, HasTrailingSlash, Bare
  <2>11. ~Bare(p)
    BY <1>4 DEF Bare, Ended
  <2> QED BY <1>1, <1>4, <2>3, <2>7, <2>8, <2>10, <2>11
<1>5. CASE ~Ended(p)
  <2>1. q = Append(p, Slash) /\ Bare(p)
    BY <1>1, <1>2, <1>5 DEF Twin, Last, HasTrailingSlash, Ended, Bare
  <2>2. /\ q \in Seq(Parts) /\ Len(q) = Len(p) + 1 /\ (\A i \in 1..Len(p) : q[i] = p[i])
        /\ q[Len(q)] = Slash /\ q # <<>> /\ DOMAIN q = 1..Len(q)
    BY <1>1, <1>3, <2>1
  <2>3. Slashed(p, q) /\ Ended(q)
    BY <2>2 DEF Slashed, Ended
  <2>4. \A i \in 1..Len(p) : p[i] # Slash /\ p[i].kind # "all" /\ p[i].kind # "group"
    <3>1. SUFFICES ASSUME NEW i \in 1..Len(p)
                   PROVE  p[i] # Slash /\ p[i].kind # "all" /\ p[i].kind # "group"
      OBVIOUS
    <3>2. /\ p[i].kind \in {"static", "param", "all"}
          /\ p[i] = Slash => i = Len(p)
          /\ p[i].kind = "all" => i = Len(p)
      BY MatchedSegments
    <3> QED BY <1>2, <2>1, <3>2 DEF Bare
  <2>5. \A i \in 1..Len(q) : IF i = Len(q) THEN q[i] = Slash ELSE i \in 1..Len(p) /\ q[i] = p[i]
    BY <1>1, <2>2
  <2>6. Len(q) > 1
    BY <1>1, <1>2, <2>2
  <2>7. Matchable(q)
    BY <1>3, <2>2, <2>4, <2>5, <2>6 DEF Matchable, Keyed, Unmatchable
  <2>8. SubSeq(q, 1, Len(q) - 1) = p
    <3>1. /\ SubSeq(q, 1, Len(q) - 1) \in Seq(Parts) /\ Len(SubSeq(q, 1, Len(q) - 1)) = Len(p)
          /\ \A i \in 1..Len(p) : SubSeq(q, 1, Len(q) - 1)[i] = q[i]
      BY <1>1, <2>2
    <3> QED BY <1>1, <2>2, <3>1, SeqEqual
  <2>9. Twin(q) = {p}
    BY <1>3, <2>2, <2>8 DEF Twin, Last, HasTrailingSlash, Front
  <2> QED BY <1>1, <1>5, <2>1, <2>2, <2>3, <2>7, <2>9
<1> QED BY <1>4, <1>5

\* All but the root and a catch-all have another form.
LEMMA TwinExists ==
  ASSUME NEW p, Matchable(p), Bare(p) \/ Ended(p)
  PROVE  \E q : Twin(p) = {q}
<1>1. p # <<>> /\ p[Len(p)].kind # "all"
  BY SlashPart DEF Bare, Ended
<1> QED BY <1>1 DEF Twin, Last

\* Forms that look alike are forms of paths that look alike.
LEMMA TwinsDiffer ==
  ASSUME NEW p, Matchable(p), NEW q, Matchable(q), NEW x, x \in Twin(p), NEW y, y \in Twin(q),
         SameShape(x, y)
  PROVE  SameShape(p, q)
<1>1. /\ p \in Seq(Parts) /\ q \in Seq(Parts) /\ x \in Seq(Parts) /\ y \in Seq(Parts)
      /\ Len(p) \in Nat /\ Len(q) \in Nat /\ Len(x) \in Nat /\ Len(y) \in Nat
      /\ p # <<>> /\ q # <<>> /\ x # <<>> /\ y # <<>>
  BY TwinForms DEF Matchable, Keyed
<1>2. Slash.kind = "static"
  BY SlashPart
<1>3. Ended(x) <=> Ended(y)
  BY <1>1, <1>2 DEF Ended, SameShape
<1>4. CASE Bare(p) /\ Bare(q)
  <2>1. Slashed(p, x) /\ Slashed(q, y)
    BY <1>4, TwinForms
  <2>2. Len(p) = Len(q)
    <3>1. Len(x) = Len(p) + 1 /\ Len(y) = Len(q) + 1 /\ Len(x) = Len(y)
      BY <2>1 DEF Slashed, SameShape
    <3>2. Len(p) \in Nat /\ Len(q) \in Nat
      BY <1>1
    <3> QED BY <3>1, <3>2
  <2>3. ASSUME NEW i \in 1..Len(p)
        PROVE  p[i].kind = q[i].kind /\ (p[i].kind = "static" => p[i] = q[i])
    <3>1. i \in 1..Len(x) /\ x[i] = p[i] /\ y[i] = q[i]
      BY <1>1, <2>1, <2>2 DEF Slashed
    <3> QED BY <3>1 DEF SameShape
  <2> QED BY <2>2, <2>3 DEF SameShape
<1>5. CASE Ended(p) /\ Ended(q)
  <2>1. Slashed(x, p) /\ Slashed(y, q)
    BY <1>5, TwinForms
  <2>2. Len(p) = Len(q) /\ \A i \in 1..Len(p) :
           IF i = Len(p) THEN p[i] = Slash /\ q[i] = Slash
           ELSE i \in 1..Len(x) /\ p[i] = x[i] /\ q[i] = y[i]
    BY <1>1, <2>1 DEF Slashed, SameShape
  <2> QED BY <2>2 DEF SameShape
<1>6. CASE Bare(p) /\ Ended(q)
  BY <1>3, <1>6, TwinForms DEF Bare, Ended
<1>7. CASE Ended(p) /\ Bare(q)
  BY <1>3, <1>7, TwinForms DEF Bare, Ended
<1> QED BY <1>4, <1>5, <1>6, <1>7, TwinForms

-----------------------------------------------------------------------------
(* Which path takes a URL.                                                 *)

RankOf(s) == CASE s.kind = "static" -> 1 [] s.kind = "param" -> 2 [] s.kind = "all" -> 3

\* p goes before q at its segment i.
BeforeAt(p, q, i) ==
    /\ i \in 1..Len(p) /\ i \in 1..Len(q)
    /\ \A j \in 1..(i - 1) : RankOf(p[j]) = RankOf(q[j])
    /\ RankOf(p[i]) < RankOf(q[i])

\* One path goes before another where it first differs from it.
LEMMA PrecedesSegments ==
  ASSUME NEW p, Matchable(p), NEW q, Matchable(q)
  PROVE  Precedes(p, q) <=> \E i \in Nat : BeforeAt(p, q, i)
<1>1. DOMAIN p = 1..Len(p) /\ DOMAIN q = 1..Len(q) /\ Len(p) \in Nat /\ Len(q) \in Nat
  BY MatchedSegments
<1>2. Precedes(p, q) <=> \E i \in DOMAIN p \cap DOMAIN q :
            /\ \A j \in 1..(i - 1) : RankOf(p[j]) = RankOf(q[j])
            /\ RankOf(p[i]) < RankOf(q[i])
  BY DEF Precedes, RankOf
<1>3. \A i : i \in DOMAIN p \cap DOMAIN q <=> i \in Nat /\ i \in 1..Len(p) /\ i \in 1..Len(q)
  BY <1>1
<1> QED BY <1>2, <1>3 DEF BeforeAt

\* A catch-all, which is the last segment.
Catching(p) == p # <<>> /\ p[Len(p)].kind = "all"

Takes(s, x) == IF s.kind = "static" THEN x = s.name ELSE x # NoText

\* Which URLs a path takes, segment by segment.
LEMMA FitsSegments ==
  ASSUME NEW p, Matchable(p), NEW url \in Seq(Texts)
  PROVE  Fits(p, url) <=>
            IF Catching(p)
            THEN /\ Len(url) >= Len(p)
                 /\ \A i \in 1..Len(p) : i < Len(p) => Takes(p[i], url[i])
                 /\ Len(url) > Len(p) \/ Takes(p[Len(p)], url[Len(p)])
            ELSE Len(url) = Len(p) /\ \A i \in 1..Len(p) : Takes(p[i], url[i])
<1>1. p \in Seq(Parts) /\ Len(p) \in Nat /\ Len(url) \in Nat
  BY MatchedSegments
<1>2. Len(p) > 0 /\ Last(p).kind = "all" <=> Catching(p)
  BY <1>1 DEF Catching, Last
<1>3. \A i : i \in 1..(Len(p) - 1) <=> i \in 1..Len(p) /\ i < Len(p)
  BY <1>1
<1>4. Fits(p, url) <=>
            IF Len(p) > 0 /\ Last(p).kind = "all"
            THEN /\ Len(url) >= Len(p)
                 /\ \A i \in 1..(Len(p) - 1) : Takes(p[i], url[i])
                 /\ Len(url) > Len(p) \/ Takes(p[Len(p)], url[Len(p)])
            ELSE Len(url) = Len(p) /\ \A i \in 1..Len(p) : Takes(p[i], url[i])
  BY DEF Fits, Takes, NoText
<1> QED BY <1>2, <1>3, <1>4

\* Two paths do not go before each other.
LEMMA PrecedesOneWay ==
  ASSUME NEW p, Matchable(p), NEW q, Matchable(q), Precedes(p, q), Precedes(q, p)
  PROVE  FALSE
<1>1. PICK i \in Nat : BeforeAt(p, q, i)
  BY PrecedesSegments
<1>2. PICK k \in Nat : BeforeAt(q, p, k)
  BY PrecedesSegments
<1>3. RankOf(p[i]) \in Int /\ RankOf(q[i]) \in Int /\ RankOf(p[k]) \in Int /\ RankOf(q[k]) \in Int
  <2>1. ASSUME NEW s, s.kind \in {"static", "param", "all"} PROVE RankOf(s) \in Int
    BY <2>1 DEF RankOf
  <2>2. i \in 1..Len(p) /\ i \in 1..Len(q) /\ k \in 1..Len(p) /\ k \in 1..Len(q)
    BY <1>1, <1>2 DEF BeforeAt
  <2>3. /\ p[i].kind \in {"static", "param", "all"} /\ q[i].kind \in {"static", "param", "all"}
        /\ p[k].kind \in {"static", "param", "all"} /\ q[k].kind \in {"static", "param", "all"}
    BY <2>2, MatchedSegments
  <2> QED BY <2>1, <2>3
<1>4. CASE i = k
  BY <1>1, <1>2, <1>3, <1>4 DEF BeforeAt
<1>5. CASE i < k
  <2>1. i \in 1..(k - 1)
    BY <1>1, <1>5 DEF BeforeAt
  <2>2. RankOf(p[i]) = RankOf(q[i])
    BY <1>2, <2>1 DEF BeforeAt
  <2> QED BY <1>1, <1>3, <2>2 DEF BeforeAt
<1>6. CASE k < i
  <2>1. k \in 1..(i - 1)
    BY <1>2, <1>6 DEF BeforeAt
  <2>2. RankOf(p[k]) = RankOf(q[k])
    BY <1>1, <2>1 DEF BeforeAt
  <2> QED BY <1>2, <1>3, <2>2 DEF BeforeAt
<1> QED BY <1>4, <1>5, <1>6

\* At most one path takes a URL.
LEMMA OneBest ==
  ASSUME NEW paths, \A p \in paths : Matchable(p), NEW url,
         NEW p \in BestFits(paths, url), NEW q \in BestFits(paths, url)
  PROVE  p = q
<1>1. p \in paths /\ q \in paths /\ Matchable(p) /\ Matchable(q)
  BY DEF BestFits
<1>2. p # q => Precedes(p, q) /\ Precedes(q, p)
  BY DEF BestFits
<1> QED BY <1>1, <1>2, PrecedesOneWay

\* Paths of one shape fit the same URLs, and go before the same paths.
LEMMA ShapeFits ==
  ASSUME NEW p, Matchable(p), NEW q, Matchable(q), SameShape(p, q), NEW url \in Seq(Texts), Fits(p, url)
  PROVE  Fits(q, url)
<1>1. Len(p) = Len(q) /\ Len(p) \in Nat /\ p \in Seq(Parts) /\ q \in Seq(Parts)
  BY MatchedSegments DEF SameShape
<1>2. ASSUME NEW i \in 1..Len(p) PROVE Takes(p[i], url[i]) <=> Takes(q[i], url[i])
  BY DEF SameShape, Takes
<1>3. Catching(p) <=> Catching(q)
  <2>1. p # <<>> <=> q # <<>>
    BY <1>1
  <2>2. ASSUME p # <<>> PROVE p[Len(p)].kind = q[Len(q)].kind
    <3>1. Len(p) \in 1..Len(p)
      BY <1>1, <2>2
    <3> QED BY <1>1, <3>1 DEF SameShape
  <2> QED BY <2>1, <2>2 DEF Catching
<1>4. Catching(p) => Len(p) \in 1..Len(p)
  BY <1>1 DEF Catching
<1>5. Fits(p, url) <=>
            IF Catching(p)
            THEN /\ Len(url) >= Len(p)
                 /\ \A i \in 1..Len(p) : i < Len(p) => Takes(p[i], url[i])
                 /\ Len(url) > Len(p) \/ Takes(p[Len(p)], url[Len(p)])
            ELSE Len(url) = Len(p) /\ \A i \in 1..Len(p) : Takes(p[i], url[i])
  BY FitsSegments
<1>6. Fits(q, url) <=>
            IF Catching(q)
            THEN /\ Len(url) >= Len(q)
                 /\ \A i \in 1..Len(q) : i < Len(q) => Takes(q[i], url[i])
                 /\ Len(url) > Len(q) \/ Takes(q[Len(q)], url[Len(q)])
            ELSE Len(url) = Len(q) /\ \A i \in 1..Len(q) : Takes(q[i], url[i])
  BY FitsSegments
<1>7. Len(q) = Len(p)
  BY <1>1
<1> HIDE DEF Takes, Catching
<1>8. CASE Catching(p)
  <2>1. Takes(p[Len(p)], url[Len(p)]) <=> Takes(q[Len(p)], url[Len(p)])
    BY <1>2, <1>4, <1>8
  <2> QED BY <1>2, <1>3, <1>5, <1>6, <1>7, <1>8, <2>1
<1>9. CASE ~Catching(p)
  BY <1>2, <1>3, <1>5, <1>6, <1>7, <1>9
<1> QED BY <1>8, <1>9

-----------------------------------------------------------------------------
(* The other form of a URL.                                                *)

\* v is u with a slash.
Lengthened(u, v) ==
    /\ u \in Seq(Texts) /\ v \in Seq(Texts)
    /\ Len(v) = Len(u) + 1
    /\ \A i \in 1..Len(u) : v[i] = u[i]
    /\ v[Len(v)] = NoText

\* The last segment of a path without a slash.
LEMMA BareSegment ==
  ASSUME NEW p, Matchable(p), Bare(p) \/ Ended(p)
  PROVE  /\ Len(p) \in 1..Len(p) /\ p[Len(p)] \in Parts /\ ~Catching(p)
         /\ Bare(p) => p[Len(p)] # Slash /\ p[Len(p)].kind \in {"static", "param"}
         /\ Ended(p) => p[Len(p)] = Slash
<1>1. p # <<>> /\ p \in Seq(Parts) /\ Len(p) \in Nat
  BY MatchedSegments DEF Bare, Ended
<1>2. Len(p) \in 1..Len(p)
  BY <1>1
<1>3. p[Len(p)] \in Parts /\ p[Len(p)].kind \in {"static", "param", "all"}
  BY <1>2, MatchedSegments
<1>4. ~Catching(p)
  BY SlashPart DEF Catching, Bare, Ended
<1> QED BY <1>2, <1>3, <1>4 DEF Bare, Ended, Catching

\* What takes the empty part, and what does not.
LEMMA EmptyPart ==
  ASSUME NEW s \in Parts, s.kind \in {"static", "param"}
  PROVE  Takes(s, NoText) <=> s = Slash
<1>1. Slash = [kind |-> "static", name |-> NoText]
  BY DEF Slash, Static, NoText
<1>2. s = [kind |-> s.kind, name |-> s.name]
  BY DEF Parts
<1>3. CASE s.kind = "static"
  <2>1. Takes(s, NoText) <=> s.name = NoText
    BY <1>3 DEF Takes
  <2>2. s.name = NoText <=> s = Slash
    BY <1>1, <1>2, <1>3
  <2> QED BY <2>1, <2>2
<1>4. CASE s.kind = "param"
  <2>1. ~Takes(s, NoText)
    BY <1>4 DEF Takes
  <2>2. s # Slash
    BY <1>4, SlashPart
  <2> QED BY <2>1, <2>2
<1> QED BY <1>3, <1>4

\* An empty segment takes an empty part.
LEMMA SlashTakes == \A x : Takes(Slash, x) <=> x = NoText
<1>1. Slash = [kind |-> "static", name |-> NoText]
  BY DEF Slash, Static, NoText
<1>2. Slash.kind = "static" /\ Slash.name = NoText
  BY <1>1
<1> QED BY <1>2 DEF Takes

\* A path with a slash fits the URLs with one that it fits without it.
LEMMA SlashedFits ==
  ASSUME NEW p, Matchable(p), Bare(p), NEW q, Matchable(q), Slashed(p, q),
         NEW u, NEW v, Lengthened(u, v)
  PROVE  /\ Fits(p, u) <=> Fits(q, v)
         /\ Fits(p, u) => Len(u) = Len(p) /\ u[Len(u)] # NoText
<1>1. Ended(q) /\ Len(p) \in Nat /\ Len(q) \in Nat /\ Len(u) \in Nat /\ Len(v) \in Nat
  <2>1. Len(p) \in Nat /\ Len(q) \in Nat /\ q \in Seq(Parts)
    BY MatchedSegments
  <2>2. Len(u) \in Nat /\ Len(v) \in Nat
    BY DEF Lengthened
  <2>3. Len(q) = Len(p) + 1 /\ q[Len(q)] = Slash
    BY DEF Slashed
  <2>4. q # <<>>
    BY <2>1, <2>3
  <2>5. Ended(q)
    BY <2>3, <2>4 DEF Ended
  <2> QED BY <2>1, <2>2, <2>5
<1>2. ~Catching(p) /\ ~Catching(q)
  BY <1>1, BareSegment
<1>3. Fits(p, u) <=> Len(u) = Len(p) /\ \A i \in 1..Len(p) : Takes(p[i], u[i])
  BY <1>2, FitsSegments DEF Lengthened
<1>4. Fits(q, v) <=> Len(v) = Len(q) /\ \A i \in 1..Len(q) : Takes(q[i], v[i])
  BY <1>2, FitsSegments DEF Lengthened
<1>5. Len(q) = Len(p) + 1 /\ Len(v) = Len(u) + 1
  BY DEF Slashed, Lengthened
<1>6. Takes(Slash, NoText)
  BY SlashPart, EmptyPart
<1>7. ASSUME Len(u) = Len(p) PROVE Fits(p, u) <=> Fits(q, v)
  <2>1. ASSUME NEW i \in 1..Len(p) PROVE i \in 1..Len(q) /\ q[i] = p[i] /\ v[i] = u[i]
    <3>1. i \in 1..Len(q) /\ i \in 1..Len(u)
      BY <1>1, <1>5, <1>7, <2>1
    <3>2. q[i] = p[i]
      BY DEF Slashed
    <3>3. v[i] = u[i]
      BY <3>1 DEF Lengthened
    <3> QED BY <3>1, <3>2, <3>3
  <2>2. q[Len(q)] = Slash /\ v[Len(q)] = NoText
    BY <1>1, <1>5, <1>7 DEF Slashed, Lengthened
  <2>3. \A i \in 1..Len(q) : i \in 1..Len(p) \/ i = Len(q)
    BY <1>1, <1>5
  <2>4. ASSUME Fits(p, u) PROVE Fits(q, v)
    <3>1. \A i \in 1..Len(p) : Takes(p[i], u[i])
      BY <1>3, <2>4
    <3>2. ASSUME NEW i \in 1..Len(q) PROVE Takes(q[i], v[i])
      <4>1. CASE i \in 1..Len(p)
        BY <2>1, <3>1, <4>1
      <4>2. CASE i = Len(q)
        BY <1>6, <2>2, <4>2
      <4> QED BY <2>3, <4>1, <4>2
    <3> QED BY <1>4, <1>5, <1>7, <3>2
  <2>5. ASSUME Fits(q, v) PROVE Fits(p, u)
    <3>1. \A i \in 1..Len(q) : Takes(q[i], v[i])
      BY <1>4, <2>5
    <3>2. ASSUME NEW i \in 1..Len(p) PROVE Takes(p[i], u[i])
      BY <2>1, <3>1
    <3> QED BY <1>3, <1>7, <3>2
  <2> QED BY <2>4, <2>5
<1>8. Fits(q, v) => Len(u) = Len(p)
  BY <1>1, <1>4, <1>5
<1>9. ASSUME Fits(p, u) PROVE u[Len(u)] # NoText
  <2>1. Len(p) \in 1..Len(p) /\ p[Len(p)] \in Parts /\ p[Len(p)] # Slash
        /\ p[Len(p)].kind \in {"static", "param"}
    BY BareSegment
  <2>2. Takes(p[Len(p)], u[Len(p)]) /\ Len(u) = Len(p)
    BY <1>3, <1>9, <2>1
  <2> QED BY <2>1, <2>2, EmptyPart
<1> QED BY <1>3, <1>7, <1>8, <1>9

\* A catch-all takes an empty part, unless that is the only one.
LEMMA CatchingFits ==
  ASSUME NEW r, Matchable(r), Catching(r), NEW u, NEW v, Lengthened(u, v), u[Len(u)] # NoText
  PROVE  /\ Fits(r, u) <=> Fits(r, v)
         /\ Fits(r, u) => Len(r) <= Len(u)
<1>1. Len(r) \in Nat /\ Len(u) \in Nat /\ Len(v) \in Nat /\ Len(v) = Len(u) + 1 /\ Len(r) \in 1..Len(r)
  <2>1. Len(u) \in Nat /\ Len(v) \in Nat /\ Len(v) = Len(u) + 1
    BY DEF Lengthened
  <2>2. Len(r) \in Nat /\ r \in Seq(Parts) /\ r # <<>>
    BY MatchedSegments DEF Catching
  <2>3. Len(r) \in 1..Len(r)
    BY <2>2
  <2> QED BY <2>1, <2>2, <2>3
<1>2. Fits(r, u) <=> /\ Len(u) >= Len(r)
                     /\ \A i \in 1..Len(r) : i < Len(r) => Takes(r[i], u[i])
                     /\ Len(u) > Len(r) \/ Takes(r[Len(r)], u[Len(r)])
  BY FitsSegments DEF Lengthened
<1>3. Fits(r, v) <=> /\ Len(v) >= Len(r)
                     /\ \A i \in 1..Len(r) : i < Len(r) => Takes(r[i], v[i])
                     /\ Len(v) > Len(r) \/ Takes(r[Len(r)], v[Len(r)])
  BY FitsSegments DEF Lengthened
<1>4. \A x : Takes(r[Len(r)], x) <=> x # NoText
  BY DEF Takes, Catching
<1>5. ASSUME Len(r) = Len(v) PROVE ~Fits(r, v)
  <2>1. v[Len(r)] = NoText
    BY <1>5 DEF Lengthened
  <2> QED BY <1>1, <1>3, <1>4, <1>5, <2>1
<1>6. ASSUME Len(r) <= Len(u) PROVE Fits(r, u) <=> Fits(r, v)
  <2>1. \A i \in 1..Len(r) : v[i] = u[i]
    <3>1. \A i \in 1..Len(r) : i \in 1..Len(u)
      BY <1>1, <1>6
    <3> QED BY <3>1 DEF Lengthened
  <2>2. Len(u) = Len(r) => Takes(r[Len(r)], u[Len(r)])
    BY <1>4
  <2>3. Len(v) > Len(r) /\ Len(v) >= Len(r) /\ (Len(u) > Len(r) \/ Len(u) = Len(r)) /\ Len(u) >= Len(r)
    <3>1. Len(r) \in Nat /\ Len(u) \in Nat /\ Len(v) = Len(u) + 1
      BY <1>1
    <3> QED BY <3>1, <1>6
  <2> QED BY <1>2, <1>3, <2>1, <2>2, <2>3
<1>7. Fits(r, u) => Len(r) <= Len(u)
  BY <1>1, <1>2
<1>8. Fits(r, v) => Len(r) <= Len(u)
  <2>1. Fits(r, v) => Len(v) >= Len(r) /\ Len(r) # Len(v)
    BY <1>3, <1>5
  <2>2. Len(r) \in Nat /\ Len(u) \in Nat /\ Len(v) = Len(u) + 1
    BY <1>1
  <2> QED BY <2>1, <2>2
<1> QED BY <1>6, <1>7, <1>8

\* Which of two paths goes first is the same for their other forms.
LEMMA BeforeSlash ==
  ASSUME NEW p, NEW q, Slashed(p, q), NEW r, NEW t, Slashed(r, t), Len(p) = Len(r), Len(p) \in Nat,
         NEW i \in Nat
  PROVE  /\ BeforeAt(p, r, i) => BeforeAt(q, t, i)
         /\ BeforeAt(q, t, i) => BeforeAt(p, r, i)
<1>1. Len(q) = Len(p) + 1 /\ Len(t) = Len(p) + 1
  BY DEF Slashed
<1>2. \A j \in 1..Len(p) : q[j] = p[j] /\ t[j] = r[j]
  BY DEF Slashed
<1>3. q[Len(q)] = Slash /\ t[Len(q)] = Slash
  BY <1>1 DEF Slashed
<1>4. RankOf(Slash) = 1
  BY SlashPart DEF RankOf
<1>5. CASE i \in 1..Len(p)
  <2>1. \A j \in 1..(i - 1) : j \in 1..Len(p)
    BY <1>5
  <2>2. i \in 1..Len(q) /\ i \in 1..Len(t)
    BY <1>1, <1>5
  <2> QED BY <1>2, <1>5, <2>1, <2>2 DEF BeforeAt
<1>6. CASE i \notin 1..Len(p)
  <2>1. ~BeforeAt(p, r, i)
    BY <1>6 DEF BeforeAt
  <2>2. ASSUME BeforeAt(q, t, i) PROVE FALSE
    <3>1. i = Len(q)
      BY <1>1, <1>6, <2>2 DEF BeforeAt
    <3> QED BY <1>3, <1>4, <2>2, <3>1 DEF BeforeAt
  <2> QED BY <2>1, <2>2
<1> QED BY <1>5, <1>6

-----------------------------------------------------------------------------
(* Which path takes the other form of a URL.                               *)

\* Paths that look different, each with one that looks like its other form.
Paired(P) ==
    /\ \A p \in P : Matchable(p)
    /\ \A p, q \in P : SameShape(p, q) => p = q
    /\ \A p \in P : \A t \in Twin(p) : \E r \in P : SameShape(r, t)

\* A URL and its other form differ in one empty part.
LEMMA OtherFormLengthens ==
  ASSUME NEW q, Matchable(q), Bare(q) \/ Ended(q), NEW url \in Seq(Texts), Fits(q, url)
  PROVE  /\ Bare(q) => Lengthened(url, OtherForm(q, url)) /\ url[Len(url)] # NoText
         /\ Ended(q) => Lengthened(OtherForm(q, url), url)
<1>1. Len(q) \in 1..Len(q) /\ ~Catching(q) /\ q[Len(q)] \in Parts
      /\ (Bare(q) => q[Len(q)] # Slash /\ q[Len(q)].kind \in {"static", "param"})
      /\ (Ended(q) => q[Len(q)] = Slash)
  BY BareSegment
<1>2. Len(url) = Len(q) /\ Takes(q[Len(q)], url[Len(q)])
  BY <1>1, FitsSegments
<1>3. HasTrailingSlash(q) <=> Ended(q)
  BY DEF HasTrailingSlash, Ended, Last
<1>4. Len(q) \in Nat /\ Len(url) \in Nat
  BY MatchedSegments
<1>5. ASSUME Bare(q) PROVE Lengthened(url, OtherForm(q, url)) /\ url[Len(url)] # NoText
  <2>1. ~Ended(q)
    BY <1>5 DEF Bare, Ended
  <2>2. OtherForm(q, url) = Append(url, NoText)
    BY <1>3, <2>1 DEF OtherForm, NoText
  <2>3. NoText \in Texts
    BY DEF Texts
  <2>4. /\ Append(url, NoText) \in Seq(Texts)
        /\ Len(Append(url, NoText)) = Len(url) + 1
        /\ \A i \in 1..Len(url) : Append(url, NoText)[i] = url[i]
        /\ Append(url, NoText)[Len(url) + 1] = NoText
    BY <2>3
  <2>5. url[Len(url)] # NoText
    BY <1>1, <1>2, <1>5, EmptyPart
  <2> QED BY <2>2, <2>4, <2>5 DEF Lengthened
<1>6. ASSUME Ended(q) PROVE Lengthened(OtherForm(q, url), url)
  <2>1. OtherForm(q, url) = SubSeq(url, 1, Len(url) - 1)
    BY <1>3, <1>6 DEF OtherForm, Front
  <2>2. Len(url) \in Nat /\ Len(url) >= 1
    BY <1>1, <1>2, <1>4
  <2>3. PICK m \in Nat : m = Len(url) - 1
    BY <2>2
  <2>4. PICK u : u = SubSeq(url, 1, m)
    OBVIOUS
  <2>5. u \in Seq(Texts) /\ Len(u) = m /\ \A i \in 1..m : u[i] = url[i]
    BY <2>2, <2>3, <2>4
  <2>6. OtherForm(q, url) = u /\ Len(url) = Len(u) + 1
    BY <2>1, <2>2, <2>3, <2>4, <2>5
  <2>7. url[Len(url)] = NoText
    BY <1>1, <1>2, <1>6, SlashTakes
  <2> QED BY <2>5, <2>6, <2>7 DEF Lengthened
<1> QED BY <1>5, <1>6

\* The path whose other form takes a URL takes the other form of the URL.
LEMMA BestAtOtherForm ==
  ASSUME NEW P, Paired(P), NEW p \in P, NEW q \in Twin(p), NEW url \in Seq(Texts),
         q \in BestFits(P, url)
  PROVE  p \in BestFits(P, OtherForm(q, url)) /\ OtherForm(q, url) \in Seq(Texts)
<1>1. q \in P /\ Matchable(p) /\ Matchable(q) /\ Fits(q, url)
      /\ \A r \in P : Fits(r, url) /\ r # q => Precedes(q, r)
  BY DEF Paired, BestFits
<1>2. /\ Bare(p) \/ Ended(p)
      /\ Bare(p) => Ended(q) /\ Slashed(p, q)
      /\ Ended(p) => Bare(q) /\ Slashed(q, p)
  BY <1>1, TwinForms
<1>3. PICK form : form = OtherForm(q, url)
  OBVIOUS
<1>4. /\ Bare(q) => Lengthened(url, form) /\ url[Len(url)] # NoText
      /\ Ended(q) => Lengthened(form, url)
  BY <1>1, <1>2, <1>3, OtherFormLengthens
<1>5. form \in Seq(Texts)
  BY <1>2, <1>4 DEF Lengthened
<1>6. Fits(p, form) /\ (Bare(p) => form[Len(form)] # NoText)
  BY <1>1, <1>2, <1>4, SlashedFits
<1>7. Len(p) \in Nat /\ Len(q) \in Nat /\ Len(p) \in 1..Len(p) /\ Len(q) \in 1..Len(q)
      /\ ~Catching(p) /\ ~Catching(q)
  BY <1>1, <1>2, MatchedSegments, BareSegment
<1>8. Len(form) = Len(p) /\ Takes(p[Len(p)], form[Len(p)]) /\ Len(url) = Len(q)
  BY <1>1, <1>5, <1>6, <1>7, FitsSegments
<1>9. ASSUME NEW r \in P, Fits(r, form), r # p, Catching(r) PROVE Precedes(p, r)
  <2>1. Matchable(r) /\ Len(r) \in Nat
    BY MatchedSegments DEF Paired
  <2>2. Fits(r, url)
    BY <1>2, <1>4, <1>6, <1>9, <2>1, CatchingFits
  <2>3. PICK i \in Nat : BeforeAt(q, r, i)
    BY <1>1, <1>7, <1>9, <2>1, <2>2, PrecedesSegments
  <2>4. i \in 1..Len(p)
    <3>1. CASE Bare(p)
      <4>1. Len(r) <= Len(form)
        BY <1>2, <1>4, <1>6, <1>9, <2>1, <3>1, CatchingFits
      <4>2. i \in 1..Len(r)
        BY <2>3 DEF BeforeAt
      <4> QED BY <1>7, <1>8, <2>1, <4>1, <4>2
    <3>2. CASE Ended(p)
      <4>1. Len(p) = Len(q) + 1
        BY <1>2, <3>2 DEF Slashed
      <4>2. i \in 1..Len(q)
        BY <2>3 DEF BeforeAt
      <4> QED BY <1>7, <4>1, <4>2
    <3> QED BY <1>2, <3>1, <3>2
  <2>5. i \in 1..Len(q) /\ i \in 1..Len(r)
    BY <2>3 DEF BeforeAt
  <2>6. \A j \in 1..i : p[j] = q[j]
    <3>1. \A j \in 1..i : j \in 1..Len(p) /\ j \in 1..Len(q)
      BY <1>7, <2>4, <2>5
    <3> QED BY <1>2, <3>1 DEF Slashed
  <2>7. \A j \in 1..(i - 1) : j \in 1..i
    OBVIOUS
  <2>8. i \in 1..i
    BY <2>4
  <2>9. BeforeAt(p, r, i)
    BY <2>3, <2>4, <2>5, <2>6, <2>7, <2>8 DEF BeforeAt
  <2> QED BY <1>1, <2>1, <2>9, PrecedesSegments
<1>10. ASSUME NEW r \in P, Fits(r, form), r # p, ~Catching(r) PROVE Precedes(p, r)
  <2>1. Matchable(r) /\ Len(r) \in Nat
    BY MatchedSegments DEF Paired
  <2>2. Len(r) = Len(p) /\ \A i \in 1..Len(r) : Takes(r[i], form[i])
    BY <1>5, <1>8, <1>10, <2>1, FitsSegments
  <2>3. r # <<>> /\ r[Len(p)] \in Parts /\ r[Len(p)].kind \in {"static", "param"}
    <3>1. r[Len(p)] \in Parts /\ r[Len(p)].kind \in {"static", "param", "all"}
      BY <1>7, <2>1, <2>2, MatchedSegments
    <3>2. r # <<>>
      BY <1>7, <2>2
    <3> QED BY <1>10, <2>2, <3>1, <3>2 DEF Catching
  <2>4. Takes(r[Len(p)], form[Len(p)])
    BY <1>7, <2>2
  <2>5. Bare(p) => Bare(r)
    <3>1. ASSUME Bare(p) PROVE r[Len(p)] # Slash
      <4>1. form[Len(p)] # NoText
        BY <1>6, <1>8, <3>1
      <4> QED BY <2>4, <4>1, SlashTakes
    <3> QED BY <2>2, <2>3, <3>1 DEF Bare
  <2>6. Ended(p) => Ended(r)
    <3>1. ASSUME Ended(p) PROVE r[Len(p)] = Slash
      <4>1. form[Len(p)] = NoText
        BY <1>2, <1>4, <1>8, <3>1 DEF Lengthened
      <4> QED BY <2>3, <2>4, <4>1, EmptyPart
    <3> QED BY <2>2, <2>3, <3>1 DEF Ended
  <2>7. PICK t : Twin(r) = {t}
    BY <1>2, <2>1, <2>5, <2>6, TwinExists
  <2>8. /\ Matchable(t)
        /\ Bare(p) => Slashed(r, t)
        /\ Ended(p) => Bare(t) /\ Slashed(t, r)
    BY <2>1, <2>5, <2>6, <2>7, TwinForms
  <2>9. Fits(t, url)
    <3>1. CASE Bare(p)
      BY <1>2, <1>4, <1>10, <2>1, <2>5, <2>8, <3>1, SlashedFits
    <3>2. CASE Ended(p)
      BY <1>2, <1>4, <1>10, <2>1, <2>8, <3>2, SlashedFits
    <3> QED BY <1>2, <3>1, <3>2
  <2>10. PICK s \in P : SameShape(s, t)
    BY <2>7 DEF Paired
  <2>11. SameShape(t, s) /\ Matchable(s)
    BY <2>10 DEF SameShape, Paired
  <2>12. Fits(s, url)
    BY <2>8, <2>9, <2>11, ShapeFits
  <2>13. s # q
    <3>1. SUFFICES ASSUME s = q PROVE FALSE
      OBVIOUS
    <3>2. SameShape(q, t) /\ t \in Twin(r)
      BY <2>7, <2>10, <3>1
    <3>3. SameShape(p, r)
      BY <1>1, <2>1, <3>2, TwinsDiffer
    <3> QED BY <1>10, <3>3 DEF Paired
  <2>14. PICK i \in Nat : BeforeAt(q, s, i)
    BY <1>1, <2>11, <2>12, <2>13, PrecedesSegments
  <2>15. BeforeAt(q, t, i)
    <3>1. Len(s) = Len(t) /\ \A j \in 1..Len(t) : s[j].kind = t[j].kind
      BY <2>10, <2>11 DEF SameShape
    <3>2. i \in 1..Len(t) /\ Len(t) \in Nat
      BY <2>8, <2>14, <3>1, MatchedSegments DEF BeforeAt
    <3>3. \A j \in 1..Len(t) : RankOf(s[j]) = RankOf(t[j])
      BY <3>1 DEF RankOf
    <3>4. \A j \in 1..(i - 1) : j \in 1..Len(t)
      BY <3>2
    <3> QED BY <2>14, <3>1, <3>2, <3>3, <3>4 DEF BeforeAt
  <2>16. BeforeAt(p, r, i)
    <3>1. CASE Bare(p)
      BY <1>2, <1>7, <2>2, <2>8, <2>15, <3>1, BeforeSlash
    <3>2. CASE Ended(p)
      <4>1. Slashed(q, p) /\ Slashed(t, r)
        BY <1>2, <2>8, <3>2
      <4>2. Len(q) = Len(t)
        <5>1. Len(p) = Len(q) + 1 /\ Len(r) = Len(t) + 1
          BY <4>1 DEF Slashed
        <5>2. Len(t) \in Nat
          BY <2>8, MatchedSegments
        <5> QED BY <1>7, <2>2, <5>1, <5>2
      <4> QED BY <1>7, <2>15, <4>1, <4>2, BeforeSlash
    <3> QED BY <1>2, <3>1, <3>2
  <2> QED BY <1>1, <2>1, <2>16, PrecedesSegments
<1>11. p \in BestFits(P, form)
  BY <1>6, <1>9, <1>10 DEF BestFits
<1> QED BY <1>3, <1>5, <1>11

-----------------------------------------------------------------------------
(* What a builder has registered.                                          *)

Once(seq) == \A i, j \in 1..Len(seq) : seq[i] = seq[j] => i = j

\* Everything that a builder holds has been declared, and pushed once.
Assembled ==
    /\ builder.routes \in Seq(RouteDecls) /\ Once(builder.routes)
    /\ builder.pages \in Seq(PageDecls) /\ Once(builder.pages)
    /\ builder.layouts \in Seq(LayoutDecls) /\ Once(builder.layouts)
    /\ builder.layers \in Seq(LayerDecls) /\ Once(builder.layers)
    /\ builder.policy \in Policies

Count == Len(builder.routes) + Len(builder.pages)

\* The declaration that registration i is about, and its layouts.
Declaration(i) ==
    IF i <= Len(builder.routes) THEN builder.routes[i] ELSE builder.pages[i - Len(builder.routes)]

WiredLayouts(i) ==
    IF i <= Len(builder.routes) THEN <<>> ELSE WithLayouts(Declaration(i)).layouts

\* What the assumptions say of each declaration.
LEMMA DeclarationFields ==
  ASSUME NEW r \in RouteDecls \cup PageDecls
  PROVE  /\ r = [id |-> r.id, any |-> r.any, methods |-> r.methods, path |-> r.path,
                 layouts |-> <<>>]
         /\ r.any \in BOOLEAN /\ r.methods \subseteq Methods /\ Valid(r.path)
BY RoutesAssumption DEF RoutesAssumption

\* Members and length of a sequence, where its length is not named.
LEMMA SequenceLength ==
  ASSUME NEW S, NEW s \in Seq(S)
  PROVE  Len(s) \in Nat /\ DOMAIN s = 1..Len(s) /\ \A i \in 1..Len(s) : s[i] \in S
OBVIOUS

\* The lengths of what is registered.
LEMMA CountIsNatural ==
  ASSUME Assembled
  PROVE  /\ Count \in Nat /\ Len(builder.routes) \in Nat /\ Len(builder.pages) \in Nat
         /\ DOMAIN builder.routes = 1..Len(builder.routes)
         /\ DOMAIN builder.pages = 1..Len(builder.pages)
<1>1. builder.routes \in Seq(RouteDecls) /\ builder.pages \in Seq(PageDecls)
  BY DEF Assembled
<1>2. Len(builder.routes) \in Nat /\ DOMAIN builder.routes = 1..Len(builder.routes)
  BY <1>1, SequenceLength
<1>3. Len(builder.pages) \in Nat /\ DOMAIN builder.pages = 1..Len(builder.pages)
  BY <1>1, SequenceLength
<1>4. PICK m \in Nat, n \in Nat : m = Len(builder.routes) /\ n = Len(builder.pages)
  BY <1>2, <1>3
<1>5. Count \in Nat
  <2>1. Count = m + n
    BY <1>4 DEF Count
  <2>2. m + n \in Nat
    OBVIOUS
  <2> QED BY <2>1, <2>2
<1> QED BY <1>2, <1>3, <1>5

\* Registration i is a route's, or the page's that comes as far behind the routes.
LEMMA DeclarationPlaces ==
  ASSUME Assembled, NEW i \in 1..Count
  PROVE  \/ /\ i <= Len(builder.routes) /\ i \in 1..Len(builder.routes)
            /\ Declaration(i) = builder.routes[i] /\ Declaration(i) \in RouteDecls
         \/ /\ ~(i <= Len(builder.routes)) /\ i - Len(builder.routes) \in 1..Len(builder.pages)
            /\ Declaration(i) = builder.pages[i - Len(builder.routes)]
            /\ Declaration(i) \in PageDecls
<1>1. PICK m \in Nat, n \in Nat : m = Len(builder.routes) /\ n = Len(builder.pages)
  BY CountIsNatural
<1>0. Count = m + n
  BY <1>1 DEF Count
<1>2. CASE i <= Len(builder.routes)
  <2>1. i \in 1..Len(builder.routes)
    <3>1. i <= m
      BY <1>1, <1>2
    <3>2. i \in 1..m
      BY <1>0, <3>1
    <3> QED BY <1>1, <3>2
  <2>2. builder.routes[i] \in RouteDecls
    BY <2>1 DEF Assembled
  <2> QED BY <1>2, <2>1, <2>2 DEF Declaration
<1>3. CASE ~(i <= Len(builder.routes))
  <2>1. i - Len(builder.routes) \in 1..Len(builder.pages)
    <3>1. ~(i <= m)
      BY <1>1, <1>3
    <3>2. i - m \in 1..n
      BY <1>0, <3>1
    <3> QED BY <1>1, <3>2
  <2>2. builder.pages[i - Len(builder.routes)] \in PageDecls
    BY <2>1 DEF Assembled
  <2> QED BY <1>3, <2>1, <2>2 DEF Declaration
<1> QED BY <1>2, <1>3

\* A registration has what its declaration says, and the layouts of a page.
LEMMA RegistrationsDeclare ==
  ASSUME Assembled
  PROVE  /\ Len(Registrations) = Count
         /\ DOMAIN Registrations = 1..Count
         /\ \A i \in 1..Count :
               /\ Declaration(i) \in RouteDecls \cup PageDecls
               /\ Registrations[i].id = Declaration(i).id
               /\ Registrations[i].any = Declaration(i).any
               /\ Registrations[i].methods = Declaration(i).methods
               /\ Registrations[i].path = Declaration(i).path
               /\ Registrations[i].layouts = WiredLayouts(i)
<1>1. Len(builder.routes) \in Nat /\ Len(builder.pages) \in Nat /\ DOMAIN builder.pages = 1..Len(builder.pages)
  BY CountIsNatural
<1>2. PICK wired : wired = [i \in DOMAIN builder.pages |-> WithLayouts(builder.pages[i])]
  OBVIOUS
<1>3. PICK U : U = RouteDecls \cup {WithLayouts(p) : p \in PageDecls}
  OBVIOUS
<1>4. builder.routes \in Seq(U)
  BY <1>3 DEF Assembled
<1>5. \A i \in 1..Len(builder.pages) : builder.pages[i] \in PageDecls
  BY DEF Assembled
<1>6. wired \in Seq(U) /\ Len(wired) = Len(builder.pages)
      /\ \A i \in 1..Len(builder.pages) : wired[i] = WithLayouts(builder.pages[i])
  <2>1. wired = [i \in 1..Len(builder.pages) |-> WithLayouts(builder.pages[i])]
    BY <1>1, <1>2
  <2>2. \A i \in 1..Len(builder.pages) : WithLayouts(builder.pages[i]) \in U
    BY <1>3, <1>5
  <2> HIDE DEF WithLayouts
  <2> QED BY <1>1, <2>1, <2>2
<1>7. Registrations = builder.routes \o wired
  BY <1>2 DEF Registrations
<1>8. Len(Registrations) = Count /\ DOMAIN Registrations = 1..Count
  <2>1. PICK a \in Seq(U), b \in Seq(U) : a = builder.routes /\ b = wired
    BY <1>4, <1>6
  <2>2. Len(a \o b) = Len(a) + Len(b) /\ DOMAIN (a \o b) = 1..(Len(a) + Len(b))
    BY <2>1
  <2>3. Count = Len(a) + Len(b)
    BY <1>6, <2>1 DEF Count
  <2> QED BY <1>7, <2>1, <2>2, <2>3
<1>9. ASSUME NEW i \in 1..Count
      PROVE  /\ Declaration(i) \in RouteDecls \cup PageDecls
             /\ Registrations[i].id = Declaration(i).id
             /\ Registrations[i].any = Declaration(i).any
             /\ Registrations[i].methods = Declaration(i).methods
             /\ Registrations[i].path = Declaration(i).path
             /\ Registrations[i].layouts = WiredLayouts(i)
  <2>1. CASE i <= Len(builder.routes)
    <3>1. Declaration(i) = builder.routes[i] /\ Declaration(i) \in RouteDecls /\ i \in 1..Len(builder.routes)
      BY <2>1, DeclarationPlaces
    <3>2. Registrations[i] = builder.routes[i]
      <4>1. PICK a \in Seq(U), b \in Seq(U) : a = builder.routes /\ b = wired
        BY <1>4, <1>6
      <4>2. i \in 1..Len(a)
        BY <3>1, <4>1
      <4>3. (a \o b)[i] = a[i]
        BY <4>2
      <4> QED BY <1>7, <4>1, <4>3
    <3>3. Declaration(i).layouts = <<>>
      BY <3>1, DeclarationFields
    <3>4. WiredLayouts(i) = <<>>
      BY <2>1 DEF WiredLayouts
    <3> QED BY <3>1, <3>2, <3>3, <3>4
  <2>2. CASE ~(i <= Len(builder.routes))
    <3>1. /\ i - Len(builder.routes) \in 1..Len(builder.pages)
          /\ Declaration(i) = builder.pages[i - Len(builder.routes)]
          /\ Declaration(i) \in PageDecls
      BY <2>2, DeclarationPlaces
    <3>2. Registrations[i] = wired[i - Len(builder.routes)]
      <4>1. PICK a \in Seq(U), b \in Seq(U) : a = builder.routes /\ b = wired
        BY <1>4, <1>6
      <4>2. i - Len(a) \in 1..Len(b)
        BY <1>6, <3>1, <4>1
      <4>3. (a \o b)[i] = b[i - Len(a)]
        BY <4>2
      <4> QED BY <1>7, <4>1, <4>3
    <3>3. Registrations[i] = WithLayouts(Declaration(i))
      BY <1>6, <3>1, <3>2
    <3>4. PICK d : d = Declaration(i)
      OBVIOUS
    <3>5. d = [id |-> d.id, any |-> d.any, methods |-> d.methods, path |-> d.path, layouts |-> <<>>]
      BY <3>1, <3>4, DeclarationFields
    <3>6. PICK w : WithLayouts(d) = [d EXCEPT !.layouts = w]
      BY DEF WithLayouts
    <3>7. /\ [d EXCEPT !.layouts = w].id = d.id
          /\ [d EXCEPT !.layouts = w].any = d.any
          /\ [d EXCEPT !.layouts = w].methods = d.methods
          /\ [d EXCEPT !.layouts = w].path = d.path
      BY <3>5
    <3>8. WiredLayouts(i) = WithLayouts(d).layouts
      BY <2>2, <3>4 DEF WiredLayouts
    <3> QED BY <3>1, <3>3, <3>4, <3>6, <3>7, <3>8
  <2> QED BY <2>1, <2>2
<1> QED BY <1>8, <1>9

\* Each declaration is registered, and once.
LEMMA DeclarationsRegistered ==
  ASSUME Assembled
  PROVE  /\ Declarations = {Declaration(i) : i \in 1..Count}
         /\ \A i, j \in 1..Count : Declaration(i) = Declaration(j) => i = j
         /\ \A i \in 1..Count : Declaration(i) \in ToSet(builder.pages) <=> ~(i <= Len(builder.routes))
<1>1. /\ Len(builder.routes) \in Nat /\ Len(builder.pages) \in Nat
      /\ DOMAIN builder.routes = 1..Len(builder.routes) /\ DOMAIN builder.pages = 1..Len(builder.pages)
  BY CountIsNatural
<1>2. PICK M \in Nat, K \in Nat : M = Len(builder.routes) /\ K = Len(builder.pages) /\ Count = M + K
  BY <1>1 DEF Count
<1>3. ASSUME NEW d \in Declarations PROVE \E i \in 1..Count : d = Declaration(i)
  <2>1. CASE d \in ToSet(builder.routes)
    <3>1. PICK i \in 1..Len(builder.routes) : d = builder.routes[i]
      BY <1>1, <2>1 DEF ToSet
    <3>2. i \in 1..Count /\ i <= Len(builder.routes)
      <4>1. i \in 1..M
        BY <1>2
      <4>2. i \in 1..(M + K) /\ i <= M
        BY <4>1
      <4> QED BY <1>2, <4>2
    <3> QED BY <3>1, <3>2 DEF Declaration
  <2>2. CASE d \in ToSet(builder.pages)
    <3>1. PICK i \in 1..Len(builder.pages) : d = builder.pages[i]
      BY <1>1, <2>2 DEF ToSet
    <3>2. M + i \in 1..Count /\ ~(M + i <= M) /\ (M + i) - M = i
      <4>1. i \in 1..K
        BY <1>2
      <4>2. M + i \in 1..(M + K) /\ ~(M + i <= M) /\ (M + i) - M = i
        BY <4>1
      <4> QED BY <1>2, <4>2
    <3> QED BY <1>2, <3>1, <3>2 DEF Declaration
  <2> QED BY <2>1, <2>2 DEF Declarations
<1>4. ASSUME NEW i \in 1..Count PROVE Declaration(i) \in Declarations
  BY <1>1, DeclarationPlaces DEF Declarations, ToSet
<1>5. ASSUME NEW i \in 1..Count, NEW j \in 1..Count, Declaration(i) = Declaration(j) PROVE i = j
  <2>1. RouteDecls \cap PageDecls = {}
    BY RoutesAssumption DEF RoutesAssumption
  <2>2. CASE i <= Len(builder.routes) /\ j <= Len(builder.routes)
    BY <1>5, <2>2, DeclarationPlaces DEF Assembled, Once
  <2>3. CASE ~(i <= Len(builder.routes)) /\ ~(j <= Len(builder.routes))
    <3>1. i - Len(builder.routes) = j - Len(builder.routes)
      BY <1>5, <2>3, DeclarationPlaces DEF Assembled, Once
    <3>2. i - M = j - M
      BY <1>2, <3>1
    <3>3. i \in Int /\ j \in Int
      BY CountIsNatural
    <3> QED BY <3>2, <3>3
  <2> QED BY <1>5, <2>1, <2>2, <2>3, DeclarationPlaces
<1>6. ASSUME NEW i \in 1..Count PROVE Declaration(i) \in ToSet(builder.pages) <=> ~(i <= Len(builder.routes))
  <2>1. RouteDecls \cap PageDecls = {}
    BY RoutesAssumption DEF RoutesAssumption
  <2>2. ToSet(builder.pages) \subseteq PageDecls
    BY <1>1 DEF ToSet, Assembled
  <2>3. ~(i <= Len(builder.routes)) => Declaration(i) \in ToSet(builder.pages)
    BY <1>1, DeclarationPlaces DEF ToSet
  <2> QED BY <2>1, <2>2, <2>3, DeclarationPlaces
<1> QED BY <1>3, <1>4, <1>5, <1>6

-----------------------------------------------------------------------------
(* Registering, one round after the other.                                 *)

AllSlots == Methods \cup {AnyMethod}

\* What registration i is for, and the route that is made of it.
Key(i) == ToMatchitPath(Declaration(i).path)
SlotsOf(i) == Slots(Declaration(i))
RouteOf(i) == [id |-> Declaration(i).id, path |-> Declaration(i).path, redirects |-> FALSE,
               layouts |-> WiredLayouts(i), layers |-> LayersForPath(Declaration(i).path)]

RedirectAt(path) == [id |-> "redirect", path |-> path, redirects |-> TRUE,
                     layouts |-> <<>>, layers |-> AlwaysLayers]

EndpointSet == [path : Seq(Parts), table : [AllSlots -> Nat]]
RouteSet == {RouteOf(i) : i \in 1..Count} \cup {RedirectAt(p) : p \in Seq(Parts)}
TableSet == [state : {"built", "panicked"}, endpoints : Seq(EndpointSet),
             routes : Seq(RouteSet), always : {AlwaysLayers}]

\* Nothing could choose between registration i and an earlier one, or it is void.
Clash(i, j) == \/ Key(i) # Key(j) /\ Shape(Key(i)) = Shape(Key(j))
               \/ Key(i) = Key(j) /\ SlotsOf(i) \cap SlotsOf(j) # {}
Bad(i) == SlotsOf(i) = {} \/ Unmatchable(Key(i)) \/ \E j \in 1..(i - 1) : Clash(i, j)

\* The key and the slots of a registration.
LEMMA RegistrationKeys ==
  ASSUME Assembled, NEW i \in 1..Count
  PROVE  /\ Keyed(Key(i)) /\ Key(i) \in Seq(Parts)
         /\ SlotsOf(i) \subseteq AllSlots
         /\ ToMatchitPath(Registrations[i].path) = Key(i)
         /\ Slots(Registrations[i]) = SlotsOf(i)
         /\ Valid(Declaration(i).path)
<1>1. PICK d : d = Declaration(i) /\ d \in RouteDecls \cup PageDecls
  BY RegistrationsDeclare
<1>2. Valid(d.path) /\ d.any \in BOOLEAN /\ d.methods \subseteq Methods
  BY <1>1, DeclarationFields
<1>3. Keyed(Key(i))
  BY <1>1, <1>2, MatchitPathKeyed DEF Key
<1>4. SlotsOf(i) \subseteq AllSlots
  BY <1>1, <1>2 DEF SlotsOf, Slots, AllSlots
<1>5. ToMatchitPath(Registrations[i].path) = Key(i)
  BY RegistrationsDeclare DEF Key
<1>6. Slots(Registrations[i]) = SlotsOf(i)
  BY RegistrationsDeclare DEF SlotsOf, Slots
<1> QED BY <1>1, <1>2, <1>3, <1>4, <1>5, <1>6 DEF Keyed

\* Route `index` takes the slots of endpoint e.
Placed(eps, e, slots, index) ==
    [eps EXCEPT ![e].table = [m \in DOMAIN @ |-> IF m \in slots THEN index ELSE @[m]]]

PlacedRight(new, eps, e, slots, index) ==
    /\ new \in Seq(EndpointSet)
    /\ Len(new) = Len(eps)
    /\ \A f \in 1..Len(eps) : new[f].path = eps[f].path
    /\ \A f \in 1..Len(eps) : \A m \in AllSlots :
          new[f].table[m] = IF f = e /\ m \in slots THEN index ELSE eps[f].table[m]

\* A route in its slots changes nothing else.
LEMMA PlacedFields ==
  ASSUME NEW eps \in Seq(EndpointSet), NEW e \in 1..Len(eps), NEW slots \in SUBSET AllSlots,
         NEW index \in Nat
  PROVE  PlacedRight(Placed(eps, e, slots, index), eps, e, slots, index)
<1>1. PICK T : T = [m \in DOMAIN eps[e].table |-> IF m \in slots THEN index ELSE eps[e].table[m]]
  OBVIOUS
<1>2. PICK x : x = [eps[e] EXCEPT !.table = T]
  OBVIOUS
<1>3. eps[e] \in EndpointSet
  OBVIOUS
<1>4. T \in [AllSlots -> Nat] /\ \A m \in AllSlots : T[m] = IF m \in slots THEN index ELSE eps[e].table[m]
  BY <1>1, <1>3 DEF EndpointSet
<1>5. x \in EndpointSet /\ x.path = eps[e].path /\ x.table = T
  BY <1>2, <1>3, <1>4 DEF EndpointSet
<1>6. Placed(eps, e, slots, index) = [eps EXCEPT ![e] = x]
  BY <1>1, <1>2 DEF Placed
<1>7. PICK y : y = [eps EXCEPT ![e] = x]
  OBVIOUS
<1>8. y \in Seq(EndpointSet) /\ Len(y) = Len(eps) /\ y[e] = x
      /\ \A f \in 1..Len(eps) : f # e => y[f] = eps[f]
  BY <1>5, <1>7
<1>9. ASSUME NEW f \in 1..Len(eps)
      PROVE  /\ y[f].path = eps[f].path
             /\ \A m \in AllSlots : y[f].table[m] = IF f = e /\ m \in slots THEN index ELSE eps[f].table[m]
  <2>1. CASE f = e
    BY <1>4, <1>5, <1>8, <2>1
  <2>2. CASE f # e
    BY <1>8, <2>2
  <2> QED BY <2>1, <2>2
<1>10. PlacedRight(y, eps, e, slots, index)
  BY <1>8, <1>9 DEF PlacedRight
<1> QED BY <1>6, <1>7, <1>10

\* The endpoints of n registrations: one for each path, with each of its routes
\* in its slots.
Wired(n, eps) ==
    /\ \A e \in 1..Len(eps) : \E i \in 1..n : eps[e].path = Key(i)
    /\ \A i \in 1..n : \E e \in 1..Len(eps) : eps[e].path = Key(i)
    /\ \A e, f \in 1..Len(eps) : Shape(eps[e].path) = Shape(eps[f].path) => e = f
    /\ \A e \in 1..Len(eps) : \A i \in 1..n :
          eps[e].path = Key(i) => \A m \in SlotsOf(i) : eps[e].table[m] = i
    /\ \A e \in 1..Len(eps) : \A m \in AllSlots : LET i == eps[e].table[m] IN
          i # 0 => i \in 1..n /\ Key(i) = eps[e].path /\ m \in SlotsOf(i)

Right(n, t) ==
    /\ \A i \in 1..n : ~Bad(i)
    /\ Len(t.routes) = n
    /\ \A i \in 1..n : t.routes[i] = RouteOf(i)
    /\ Wired(n, t.endpoints)

\* The endpoint that a registration is for.
Found(eps, key) == {e \in DOMAIN eps : eps[e].path = key}

\* A new endpoint has no routes.
LEMMA EndpointEmpty ==
  ASSUME NEW path \in Seq(Parts)
  PROVE  /\ Endpoint(path) \in EndpointSet /\ Endpoint(path).path = path
         /\ \A m \in AllSlots : Endpoint(path).table[m] = 0
BY DEF Endpoint, EndpointSet, AllSlots

\* The endpoints with that for one more registration among them.
LEMMA EndpointMade ==
  ASSUME Assembled, NEW n \in Nat, n < Count, NEW eps \in Seq(EndpointSet), Wired(n, eps),
         \A i \in 1..n : ~Bad(i), ~Bad(n + 1),
         NEW all \in Seq(EndpointSet), NEW e \in 1..Len(all),
         \/ /\ Found(eps, Key(n + 1)) = {} /\ all = Append(eps, Endpoint(Key(n + 1)))
            /\ e = Len(eps) + 1
         \/ e \in Found(eps, Key(n + 1)) /\ all = eps,
         NEW index, index = n + 1
  PROVE  /\ \A m \in SlotsOf(index) : all[e].table[m] = 0
         /\ Wired(n + 1, Placed(all, e, SlotsOf(index), index))
<1>0. index \in 1..Count /\ index \in Nat /\ Count \in Nat
  BY CountIsNatural
<1>1. Key(index) \in Seq(Parts) /\ SlotsOf(index) \in SUBSET AllSlots
  BY <1>0, RegistrationKeys
<1>2. all[e].path = Key(index)
  <2>1. CASE e \in Found(eps, Key(n + 1)) /\ all = eps
    BY <2>1 DEF Found
  <2>2. CASE all = Append(eps, Endpoint(Key(n + 1))) /\ e = Len(eps) + 1
    BY <1>1, <2>2, EndpointEmpty
  <2> QED BY <2>1, <2>2
<1>3. PICK L \in Nat : L = Len(eps) /\ DOMAIN eps = 1..L
  OBVIOUS
<1>20. \A f \in 1..L : \E i \in 1..n : eps[f].path = Key(i)
  BY <1>3 DEF Wired
<1>21. \A i \in 1..n : \E f \in 1..L : eps[f].path = Key(i)
  BY <1>3 DEF Wired
<1>22. \A f, g \in 1..L : Shape(eps[f].path) = Shape(eps[g].path) => f = g
  BY <1>3 DEF Wired
<1>23. \A f \in 1..L : \A i \in 1..n : eps[f].path = Key(i) => \A m \in SlotsOf(i) : eps[f].table[m] = i
  BY <1>3 DEF Wired
<1>24. \A f \in 1..L : \A m \in AllSlots :
          eps[f].table[m] # 0 => /\ eps[f].table[m] \in 1..n
                                 /\ Key(eps[f].table[m]) = eps[f].path
                                 /\ m \in SlotsOf(eps[f].table[m])
  BY <1>3 DEF Wired
<1>4. \A f \in 1..Len(all) : f # e => f \in 1..L /\ all[f] = eps[f]
  <2>1. CASE all = eps
    BY <1>3, <2>1
  <2>2. CASE all = Append(eps, Endpoint(Key(n + 1))) /\ e = Len(eps) + 1
    BY <1>1, <1>3, <2>2, EndpointEmpty
  <2> QED BY <2>1, <2>2
<1>5. \A f \in 1..L : f \in 1..Len(all) /\ all[f] = eps[f]
  <2>1. CASE all = eps
    BY <1>3, <2>1
  <2>2. CASE all = Append(eps, Endpoint(Key(n + 1))) /\ e = Len(eps) + 1
    BY <1>1, <1>3, <2>2, EndpointEmpty
  <2> QED BY <2>1, <2>2
<1>6. \/ e = L + 1 /\ Len(all) = L + 1 /\ (\A f \in 1..L : eps[f].path # Key(index))
                   /\ \A m \in AllSlots : all[e].table[m] = 0
      \/ e \in 1..L /\ all = eps /\ Len(all) = L
  <2>1. CASE e \in Found(eps, Key(n + 1)) /\ all = eps
    BY <1>3, <2>1 DEF Found
  <2>2. CASE Found(eps, Key(n + 1)) = {} /\ all = Append(eps, Endpoint(Key(n + 1))) /\ e = Len(eps) + 1
    <3>1. \A f \in 1..L : eps[f].path # Key(index)
      BY <1>3, <2>2 DEF Found
    <3>2. Len(all) = L + 1 /\ all[e] = Endpoint(Key(index))
      BY <1>1, <1>3, <2>2, EndpointEmpty
    <3> QED BY <1>1, <1>3, <2>2, <3>1, <3>2, EndpointEmpty
  <2> QED BY <2>1, <2>2
<1>7. \A j \in 1..n : ~Clash(index, j)
  <2>1. index - 1 = n
    BY <1>0
  <2> QED BY <2>1 DEF Bad
<1>8. ASSUME NEW m \in SlotsOf(index) PROVE all[e].table[m] = 0
  <2>1. m \in AllSlots
    BY <1>1
  <2>2. CASE e \in 1..L /\ all = eps
    <3>1. PICK i : i = eps[e].table[m]
      OBVIOUS
    <3>2. SUFFICES ASSUME i # 0 PROVE FALSE
      BY <2>2, <3>1
    <3>3. i \in 1..n /\ Key(i) = eps[e].path /\ m \in SlotsOf(i)
      BY <1>3, <2>1, <2>2, <3>1, <3>2 DEF Wired
    <3> QED BY <1>2, <1>7, <2>2, <3>3 DEF Clash
  <2> QED BY <1>6, <2>1, <2>2
<1>9. PICK new : new = Placed(all, e, SlotsOf(index), index)
  OBVIOUS
<1>10. /\ Len(new) = Len(all)
       /\ \A f \in 1..Len(all) : new[f].path = all[f].path
       /\ \A f \in 1..Len(all) : \A m \in AllSlots :
            new[f].table[m] = IF f = e /\ m \in SlotsOf(index) THEN index ELSE all[f].table[m]
  <2>1. PlacedRight(Placed(all, e, SlotsOf(index), index), all, e, SlotsOf(index), index)
    BY <1>0, <1>1, PlacedFields
  <2> QED BY <1>9, <2>1 DEF PlacedRight
<1>11. \A i : i \in 1..index <=> i \in 1..n \/ i = index
  BY <1>0
<1>12. ASSUME NEW f \in 1..Len(all) PROVE \E i \in 1..index : new[f].path = Key(i)
  <2>1. CASE f = e
    BY <1>2, <1>10, <1>11, <2>1
  <2>2. CASE f # e
    <3>1. f \in 1..L /\ new[f].path = eps[f].path
      BY <1>4, <1>10, <2>2
    <3>2. PICK i \in 1..n : eps[f].path = Key(i)
      BY <1>20, <3>1
    <3> QED BY <1>11, <3>1, <3>2
  <2> QED BY <2>1, <2>2
<1>13. ASSUME NEW i \in 1..index PROVE \E f \in 1..Len(all) : new[f].path = Key(i)
  <2>1. CASE i = index
    BY <1>2, <1>10, <2>1
  <2>2. CASE i \in 1..n
    <3>1. PICK f \in 1..L : eps[f].path = Key(i)
      BY <1>21, <2>2
    <3>2. f \in 1..Len(all) /\ new[f].path = eps[f].path
      BY <1>5, <1>10
    <3> QED BY <3>1, <3>2
  <2> QED BY <1>11, <2>1, <2>2
<1>14. ASSUME NEW f \in 1..L, Shape(eps[f].path) = Shape(Key(index)) PROVE eps[f].path = Key(index)
  <2>1. PICK i \in 1..n : eps[f].path = Key(i)
    BY <1>20
  <2> QED BY <1>7, <1>14, <2>1 DEF Clash
<1>15. ASSUME NEW f \in 1..Len(all), NEW g \in 1..Len(all), Shape(new[f].path) = Shape(new[g].path)
       PROVE  f = g
  <2>0. \A h \in 1..Len(all) : new[h].path = all[h].path
    BY <1>10
  <2>1. CASE f # e /\ g # e
    <3>1. f \in 1..L /\ g \in 1..L /\ all[f] = eps[f] /\ all[g] = eps[g]
      BY <1>4, <2>1
    <3> QED BY <1>15, <1>22, <2>0, <3>1
  <2>2. ASSUME NEW h \in 1..Len(all), h # e, Shape(all[h].path) = Shape(Key(index)) PROVE FALSE
    <3>1. h \in 1..L /\ eps[h].path = Key(index)
      BY <1>4, <1>14, <2>2
    <3>2. e \in 1..L /\ all = eps
      BY <1>6, <3>1
    <3> QED BY <1>2, <1>22, <2>2, <3>1, <3>2
  <2>3. Shape(all[f].path) = Shape(all[g].path)
    BY <1>15, <2>0
  <2>4. ASSUME f = e, g # e PROVE FALSE
    BY <1>2, <2>2, <2>3, <2>4
  <2>5. ASSUME f # e, g = e PROVE FALSE
    BY <1>2, <2>2, <2>3, <2>5
  <2> QED BY <2>1, <2>4, <2>5
<1>16. ASSUME NEW f \in 1..Len(all), NEW i \in 1..index, new[f].path = Key(i), NEW m \in SlotsOf(i)
       PROVE  new[f].table[m] = i
  <2>0. m \in AllSlots /\ new[f].path = all[f].path
    <3>1. i \in 1..Count
      BY <1>0
    <3> QED BY <1>10, <3>1, RegistrationKeys
  <2>1. CASE f = e /\ i = index
    BY <1>10, <2>0, <2>1, <1>16
  <2>2. CASE f = e /\ i # index
    <3>1. i \in 1..n /\ Key(i) = Key(index)
      BY <1>2, <1>11, <1>16, <2>0, <2>2
    <3>2. m \notin SlotsOf(index)
      BY <1>7, <1>16, <3>1 DEF Clash
    <3>3. e \in 1..L /\ all = eps
      BY <1>6, <1>21, <3>1
    <3>4. eps[f].table[m] = i
      BY <1>16, <1>23, <2>0, <2>2, <3>1, <3>3
    <3> QED BY <1>10, <2>0, <3>2, <3>3, <3>4
  <2>3. CASE f # e
    <3>1. f \in 1..L /\ all[f] = eps[f] /\ eps[f].path = Key(i)
      BY <1>4, <1>16, <2>0, <2>3
    <3>2. i # index
      <4>1. SUFFICES ASSUME i = index PROVE FALSE
        OBVIOUS
      <4>2. e \in 1..L /\ all = eps
        BY <1>6, <3>1, <4>1
      <4> QED BY <1>2, <1>22, <2>3, <3>1, <4>1, <4>2
    <3>3. eps[f].table[m] = i
      BY <1>11, <1>16, <1>23, <3>1, <3>2
    <3> QED BY <1>10, <2>0, <2>3, <3>1, <3>3
  <2> QED BY <2>1, <2>2, <2>3
<1>17. ASSUME NEW f \in 1..Len(all), NEW m \in AllSlots, NEW i, i = new[f].table[m], i # 0
       PROVE  i \in 1..index /\ Key(i) = new[f].path /\ m \in SlotsOf(i)
  <2>0. new[f].path = all[f].path
    BY <1>10
  <2>1. CASE f = e /\ m \in SlotsOf(index)
    BY <1>2, <1>10, <1>11, <1>17, <2>0, <2>1
  <2>2. CASE ~(f = e /\ m \in SlotsOf(index))
    <3>1. i = all[f].table[m]
      BY <1>10, <1>17, <2>2
    <3>2. f \in 1..L /\ all[f] = eps[f]
      BY <1>4, <1>6, <1>17, <3>1
    <3> QED BY <1>11, <1>17, <1>24, <2>0, <3>1, <3>2
  <2> QED BY <2>1, <2>2
<1>18. Wired(index, new)
  <2>1. Len(new) = Len(all)
    BY <1>10
  <2>2. \A f \in 1..Len(new) : \A i \in 1..index :
          new[f].path = Key(i) => \A m \in SlotsOf(i) : new[f].table[m] = i
    BY <1>16, <2>1
  <2>3. \A f \in 1..Len(new) : \A m \in AllSlots : LET i == new[f].table[m] IN
          i # 0 => i \in 1..index /\ Key(i) = new[f].path /\ m \in SlotsOf(i)
    BY <1>17, <2>1
  <2>4. \A f, g \in 1..Len(new) : Shape(new[f].path) = Shape(new[g].path) => f = g
    BY <1>15, <2>1
  <2>5. \A f \in 1..Len(new) : \E i \in 1..index : new[f].path = Key(i)
    BY <1>12, <2>1
  <2>6. \A i \in 1..index : \E f \in 1..Len(new) : new[f].path = Key(i)
    BY <1>13, <2>1
  <2> QED BY <2>1, <2>2, <2>3, <2>4, <2>5, <2>6, ZenonT(30) DEF Wired
<1> QED BY <1>8, <1>9, <1>18

\* The fields of tables.
LEMMA TableFields ==
  ASSUME NEW t \in TableSet
  PROVE  /\ t.state \in {"built", "panicked"} /\ t.endpoints \in Seq(EndpointSet)
         /\ t.routes \in Seq(RouteSet) /\ t.always = AlwaysLayers
         /\ Panic(t) \in TableSet /\ Panic(t).state = "panicked"
BY DEF TableSet, Panic

With(t, eps, routes) == [t EXCEPT !.endpoints = eps, !.routes = routes]

\* Tables with other endpoints and routes.
LEMMA TableChanged ==
  ASSUME NEW t \in TableSet, NEW eps \in Seq(EndpointSet), NEW routes \in Seq(RouteSet)
  PROVE  /\ With(t, eps, routes) \in TableSet /\ With(t, eps, routes).state = t.state
         /\ With(t, eps, routes).endpoints = eps /\ With(t, eps, routes).routes = routes
BY DEF TableSet, With

\* A round, with what it finds, or makes, named.
Round(t, r, key, slots, e, all) ==
    /\ \/ /\ Found(t.endpoints, key) = {} /\ all = Append(t.endpoints, Endpoint(key))
          /\ e = Len(t.endpoints) + 1
       \/ e \in Found(t.endpoints, key) /\ all = t.endpoints
    /\ Register(t, r) =
         IF \/ Found(t.endpoints, key) = {} /\ (Unmatchable(key) \/ Conflicts(t.endpoints, key))
            \/ slots = {}
            \/ \E m \in slots : all[e].table[m] # 0
         THEN Panic(t)
         ELSE [t EXCEPT !.endpoints = Placed(all, e, slots, Len(t.routes) + 1),
                        !.routes = Append(@, [id |-> r.id, path |-> r.path, redirects |-> FALSE,
                               layouts |-> r.layouts, layers |-> LayersForPath(r.path)])]

\* The round of the model is one with its endpoint named.
LEMMA RegisterRound ==
  ASSUME NEW t, t.routes \in Seq(RouteSet), NEW r, NEW key, key = ToMatchitPath(r.path),
         NEW slots, slots = Slots(r), DOMAIN t.endpoints = 1..Len(t.endpoints)
  PROVE  \E e, all : Round(t, r, key, slots, e, all)
<1> DEFINE known == Found(t.endpoints, key)
<1>1. PICK e : e = IF known # {} THEN CHOOSE k \in known : TRUE ELSE Len(t.endpoints) + 1
  OBVIOUS
<1>2. PICK all : all = IF known # {} THEN t.endpoints ELSE Append(t.endpoints, Endpoint(key))
  OBVIOUS
<1>3. \/ known = {} /\ all = Append(t.endpoints, Endpoint(key)) /\ e = Len(t.endpoints) + 1
      \/ e \in known /\ all = t.endpoints
  BY <1>1, <1>2
<1>4. known = {k \in DOMAIN t.endpoints : t.endpoints[k].path = key}
  BY DEF Found
<1> HIDE DEF known
<1>5. Register(t, r) =
                IF \/ known = {} /\ (Unmatchable(key) \/ Conflicts(t.endpoints, key))
                   \/ slots = {}
                   \/ \E m \in slots : all[e].table[m] # 0
                THEN Panic(t)
                ELSE [t EXCEPT !.endpoints = Placed(all, e, slots, Len(t.routes) + 1),
                               !.routes = Append(@, [id |-> r.id, path |-> r.path, redirects |-> FALSE,
                                      layouts |-> r.layouts, layers |-> LayersForPath(r.path)])]
  BY <1>1, <1>2, <1>4 DEF Register, Placed
<1>6. Round(t, r, key, slots, e, all)
  BY <1>3, <1>5 DEF Round, known
<1> QED BY <1>6

\* A round adds one more registration, or panics where that is bad.
LEMMA RegisterStep ==
  ASSUME Assembled, NEW n \in Nat, n < Count, NEW t \in TableSet, t.state = "built", Right(n, t)
  PROVE  LET x == Register(t, Registrations[n + 1]) IN
         /\ x \in TableSet
         /\ Bad(n + 1) => x.state = "panicked"
         /\ ~Bad(n + 1) => x.state = "built" /\ Right(n + 1, x)
<1>1. PICK k : k = n + 1
  OBVIOUS
<1>2. k \in 1..Count /\ k \in Nat /\ n = k - 1 /\ \A i : i \in 1..k <=> i \in 1..n \/ i = k
  BY <1>1, CountIsNatural
<1>3. PICK r : r = Registrations[k]
  OBVIOUS
<1>4. /\ Key(k) = ToMatchitPath(r.path) /\ SlotsOf(k) = Slots(r)
      /\ Key(k) \in Seq(Parts) /\ SlotsOf(k) \in SUBSET AllSlots
  BY <1>2, <1>3, RegistrationKeys
<1>5. RouteOf(k) = [id |-> r.id, path |-> r.path, redirects |-> FALSE,
                    layouts |-> r.layouts, layers |-> LayersForPath(r.path)]
  BY <1>2, <1>3, RegistrationsDeclare DEF RouteOf
<1>6. t.endpoints \in Seq(EndpointSet) /\ t.routes \in Seq(RouteSet)
  BY TableFields
<1>7. PICK eps \in Seq(EndpointSet) : eps = t.endpoints
  BY <1>6
<1>8. PICK L \in Nat : L = Len(eps) /\ DOMAIN eps = 1..L
  BY <1>7, SequenceLength
<1>9. Wired(n, eps) /\ (\A i \in 1..n : ~Bad(i)) /\ Len(t.routes) = n /\ \A i \in 1..n : t.routes[i] = RouteOf(i)
  BY <1>7 DEF Right
<1>10. PICK e, all :
           /\ \/ /\ Found(eps, Key(k)) = {} /\ all = Append(eps, Endpoint(Key(k)))
                 /\ e = Len(eps) + 1
              \/ e \in Found(eps, Key(k)) /\ all = eps
           /\ Register(t, r) =
                IF \/ Found(eps, Key(k)) = {} /\ (Unmatchable(Key(k)) \/ Conflicts(eps, Key(k)))
                   \/ SlotsOf(k) = {}
                   \/ \E m \in SlotsOf(k) : all[e].table[m] # 0
                THEN Panic(t)
                ELSE [t EXCEPT !.endpoints = Placed(all, e, SlotsOf(k), Len(t.routes) + 1),
                               !.routes = Append(@, RouteOf(k))]
  <2>1. DOMAIN t.endpoints = 1..Len(t.endpoints)
    BY <1>7, <1>8
  <2>2. PICK key, slots : key = Key(k) /\ slots = SlotsOf(k)
    OBVIOUS
  <2>3. PICK e, all : Round(t, r, key, slots, e, all)
    BY <1>4, <1>6, <2>1, <2>2, RegisterRound
  <2> QED BY <1>5, <1>7, <2>2, <2>3, Zenon DEF Round
<1>11. PICK x : x = Register(t, r)
  OBVIOUS
<1>12. all \in Seq(EndpointSet) /\ e \in 1..Len(all)
  <2>1. CASE Found(eps, Key(k)) = {} /\ all = Append(eps, Endpoint(Key(k))) /\ e = Len(eps) + 1
    <3>1. PICK new \in EndpointSet : new = Endpoint(Key(k))
      BY <1>4, EndpointEmpty
    <3>2. Append(eps, new) \in Seq(EndpointSet) /\ Len(Append(eps, new)) = L + 1
      BY <1>8
    <3> QED BY <1>8, <2>1, <3>1, <3>2
  <2>2. CASE e \in Found(eps, Key(k)) /\ all = eps
    BY <1>8, <2>2 DEF Found
  <2> QED BY <1>10, <2>1, <2>2
<1>20. \A f \in 1..L : \E i \in 1..n : eps[f].path = Key(i)
  BY <1>8, <1>9 DEF Wired
<1>21. \A i \in 1..n : \E f \in 1..L : eps[f].path = Key(i)
  BY <1>8, <1>9 DEF Wired
<1>22. \A f, g \in 1..L : Shape(eps[f].path) = Shape(eps[g].path) => f = g
  BY <1>8, <1>9 DEF Wired
<1>23. \A f \in 1..L : \A i \in 1..n : eps[f].path = Key(i) => \A m \in SlotsOf(i) : eps[f].table[m] = i
  BY <1>8, <1>9 DEF Wired
<1>24. \A f : f \in Found(eps, Key(k)) <=> f \in 1..L /\ eps[f].path = Key(k)
  BY <1>8 DEF Found
<1>25. Conflicts(eps, Key(k)) <=> \E f \in 1..L : Shape(eps[f].path) = Shape(Key(k))
  BY <1>8 DEF Conflicts
<1>13. ASSUME Bad(k) PROVE x = Panic(t)
  <2>1. CASE SlotsOf(k) = {}
    BY <1>10, <1>11, <2>1
  <2>2. CASE Unmatchable(Key(k))
    <3>1. ASSUME NEW f \in Found(eps, Key(k)) PROVE FALSE
      <4>1. PICK i \in 1..n : eps[f].path = Key(i)
        BY <1>20, <1>24
      <4> QED BY <1>9, <1>24, <2>2, <4>1 DEF Bad
    <3> QED BY <1>10, <1>11, <2>2, <3>1
  <2>3. ASSUME NEW j \in 1..n, Key(k) # Key(j), Shape(Key(k)) = Shape(Key(j)) PROVE x = Panic(t)
    <3>1. PICK f \in 1..L : eps[f].path = Key(j)
      BY <1>21
    <3>2. ASSUME NEW g \in Found(eps, Key(k)) PROVE FALSE
      <4>1. g \in 1..L /\ eps[g].path = Key(k) /\ g = f
        BY <1>22, <1>24, <2>3, <3>1
      <4> QED BY <2>3, <3>1, <4>1
    <3>3. Conflicts(eps, Key(k))
      BY <1>25, <2>3, <3>1
    <3> QED BY <1>10, <1>11, <3>2, <3>3
  <2>4. ASSUME NEW j \in 1..n, Key(k) = Key(j), SlotsOf(k) \cap SlotsOf(j) # {} PROVE x = Panic(t)
    <3>1. PICK f \in 1..L : eps[f].path = Key(j)
      BY <1>21
    <3>2. f \in Found(eps, Key(k))
      BY <1>24, <2>4, <3>1
    <3>3. e \in Found(eps, Key(k)) /\ all = eps
      BY <1>10, <3>2
    <3>4. PICK m : m \in SlotsOf(k) /\ m \in SlotsOf(j)
      BY <2>4
    <3>5. all[e].table[m] = j
      BY <1>23, <1>24, <2>4, <3>3, <3>4
    <3>6. j # 0
      OBVIOUS
    <3> QED BY <1>10, <1>11, <3>4, <3>5, <3>6
  <2> QED BY <1>2, <1>13, <2>1, <2>2, <2>3, <2>4 DEF Bad, Clash
<1>14. ASSUME ~Bad(k)
       PROVE  x = [t EXCEPT !.endpoints = Placed(all, e, SlotsOf(k), k), !.routes = Append(@, RouteOf(k))]
              /\ Wired(k, Placed(all, e, SlotsOf(k), k))
  <2>1. /\ \A m \in SlotsOf(k) : all[e].table[m] = 0
        /\ Wired(n + 1, Placed(all, e, SlotsOf(k), k))
    BY <1>1, <1>9, <1>10, <1>12, <1>14, EndpointMade
  <2>2. SlotsOf(k) # {} /\ ~Unmatchable(Key(k)) /\ \A j \in 1..n : ~Clash(k, j)
    BY <1>2, <1>14 DEF Bad
  <2>3. ASSUME Found(eps, Key(k)) = {}, Conflicts(eps, Key(k)) PROVE FALSE
    <3>1. PICK f \in 1..L : Shape(eps[f].path) = Shape(Key(k))
      BY <1>25, <2>3
    <3>2. PICK i \in 1..n : eps[f].path = Key(i)
      BY <1>20
    <3>3. Key(i) # Key(k)
      BY <1>24, <2>3, <3>2
    <3> QED BY <2>2, <3>1, <3>2, <3>3 DEF Clash
  <2>4. Len(t.routes) + 1 = k
    BY <1>1, <1>9
  <2> QED BY <1>1, <1>10, <1>11, <2>1, <2>2, <2>3, <2>4
<1>15. CASE Bad(k)
  <2>1. x \in TableSet /\ x.state = "panicked"
    BY <1>13, <1>15, TableFields
  <2> QED BY <1>1, <1>3, <1>11, <1>15, <2>1
<1>16. CASE ~Bad(k)
  <2>1. PICK new : new = Placed(all, e, SlotsOf(k), k)
    OBVIOUS
  <2>2. new \in Seq(EndpointSet)
    <3>1. PlacedRight(new, all, e, SlotsOf(k), k)
      BY <1>2, <1>4, <1>12, <2>1, PlacedFields
    <3> QED BY <3>1 DEF PlacedRight
  <2>3. PICK routes \in Seq(RouteSet) : routes = t.routes
    BY <1>6
  <2>4. PICK one \in RouteSet : one = RouteOf(k)
    BY <1>2 DEF RouteSet
  <2>5. /\ Append(routes, one) \in Seq(RouteSet) /\ Len(Append(routes, one)) = Len(routes) + 1
        /\ Append(routes, one)[Len(routes) + 1] = one
        /\ \A i \in 1..Len(routes) : Append(routes, one)[i] = routes[i]
    OBVIOUS
  <2>12. PICK more \in Seq(RouteSet) : more = Append(routes, one)
    BY <2>5
  <2>6. x = With(t, new, more)
    BY <1>14, <1>16, <2>1, <2>3, <2>4, <2>12 DEF With
  <2>7. x \in TableSet /\ x.state = "built" /\ x.endpoints = new /\ x.routes = Append(routes, one)
    <3>1. x \in TableSet /\ x.state = t.state /\ x.endpoints = new /\ x.routes = more
      BY <2>2, <2>6, TableChanged
    <3> QED BY <2>12, <3>1
  <2>8. Len(x.routes) = k /\ \A i \in 1..k : x.routes[i] = RouteOf(i)
    <3>1. Len(routes) = n /\ \A i \in 1..n : routes[i] = RouteOf(i)
      BY <1>9, <2>3
    <3> QED BY <1>1, <1>2, <2>4, <2>5, <2>7, <3>1
  <2>9. \A i \in 1..k : ~Bad(i)
    BY <1>2, <1>9, <1>16
  <2>10. Wired(k, x.endpoints)
    BY <1>14, <1>16, <2>1, <2>7
  <2>11. Right(k, x)
    BY <2>8, <2>9, <2>10 DEF Right
  <2> QED BY <1>1, <1>3, <1>11, <1>16, <2>7, <2>11
<1> QED BY <1>15, <1>16

RegisterAll(h, seq) == InTurn(RegisterNext, h, seq)

\* Registering in turn.
LEMMA RegisterTurns ==
  ASSUME NEW S, NEW T \in SUBSET (Nat \X S), NEW h, NEW seq, Len(seq) \in Nat,
         <<0, h>> \in T,
         \A n \in Nat : \A x \in S : n < Len(seq) /\ <<n, x>> \in T
             => <<n + 1, RegisterNext(x, seq[n + 1])>> \in T
  PROVE  <<Len(seq), RegisterAll(h, seq)>> \in T
<1>1. PICK N \in Nat : N = Len(seq)
  OBVIOUS
<1>2. PICK G : G = [p \in Nat \X S |-> RegisterNext(p[2], seq[p[1]])]
  OBVIOUS
<1>3. \A n \in Nat : \A x \in S : G[<<n, x>>] = RegisterNext(x, seq[n])
  BY <1>2
<1>4. Leads(G, N, T)
  BY <1>1, <1>3 DEF Leads
<1>5. PICK g : Follows(g, G, N, T, h)
  BY <1>1, <1>4, Folding
<1>6. \A x, y : (CHOOSE r \in {RegisterNext(now, y) : now \in {x}} : TRUE) = RegisterNext(x, y)
  OBVIOUS
<1>7. g = [n \in 0..Len(seq) |-> IF n = 0 THEN h
             ELSE CHOOSE r \in {RegisterNext(now, seq[n]) : now \in {g[n - 1]}} : TRUE]
  <2>1. ASSUME NEW n \in 0..N, n # 0
        PROVE  G[<<n, g[n - 1]>>] = CHOOSE r \in {RegisterNext(now, seq[n]) : now \in {g[n - 1]}} : TRUE
    <3>1. n - 1 \in 0..N /\ n \in Nat
      BY <2>1
    <3>2. g[n - 1] \in S
      BY <3>1, <1>5 DEF Follows
    <3> QED BY <3>1, <3>2, <1>3, <1>6
  <2> QED BY <2>1, <1>1, <1>5 DEF Follows
<1>8. PICK after : /\ after = [n \in 0..Len(seq) |-> IF n = 0 THEN h
                        ELSE CHOOSE r \in {RegisterNext(now, seq[n]) : now \in {after[n - 1]}} : TRUE]
                   /\ RegisterAll(h, seq) = after[Len(seq)]
  BY <1>7 DEF RegisterAll, InTurn
<1>9. after[0] = h
  BY <1>8
<1>10. FollowsOn(after, G, N, T)
  <2>1. SUFFICES ASSUME NEW n \in Nat, n < N, <<n, after[n]>> \in T
                 PROVE  after[n + 1] = G[<<n + 1, after[n]>>]
    BY DEF FollowsOn
  <2>2. after[n + 1] = CHOOSE r \in {RegisterNext(now, seq[n + 1]) : now \in {after[(n + 1) - 1]}} : TRUE
    BY <1>1, <1>8, <2>1
  <2>3. after[n + 1] = RegisterNext(after[n], seq[n + 1])
    BY <2>2, <1>6, (n + 1) - 1 = n
  <2>4. after[n] \in S
    BY <2>1
  <2> QED BY <2>3, <2>4, <1>3
<1> QED BY <1>1, <1>4, <1>8, <1>9, <1>10, FoldEnd

\* What n rounds have come to.
Registered(n, t) ==
    /\ t \in TableSet
    /\ \/ t.state = "panicked" /\ \E i \in 1..n : Bad(i)
       \/ t.state = "built" /\ Right(n, t)

Start == [NotBuilt EXCEPT !.state = "built", !.always = AlwaysLayers]

\* Before the first round nothing is registered.
LEMMA StartRegistered == Registered(0, Start)
<1>1. Start = [state |-> "built", endpoints |-> <<>>, routes |-> <<>>, always |-> AlwaysLayers]
  <2>1. PICK r : r = NotBuilt
    OBVIOUS
  <2>2. Start = [r EXCEPT !.state = "built", !.always = AlwaysLayers]
    BY <2>1 DEF Start
  <2>3. r = [state |-> "none", endpoints |-> <<>>, routes |-> <<>>, always |-> <<>>]
    BY <2>1 DEF NotBuilt
  <2> QED BY <2>2, <2>3
<1>2. Start \in TableSet
  BY <1>1 DEF TableSet
<1>3. Start.state = "built" /\ Start.endpoints = <<>> /\ Start.routes = <<>>
  BY <1>1
<1>4. Len(<<>>) = 0 /\ 1..0 = {}
  OBVIOUS
<1>5. Wired(0, <<>>)
  BY <1>4 DEF Wired
<1>6. Right(0, Start)
  BY <1>3, <1>4, <1>5 DEF Right
<1> QED BY <1>2, <1>3, <1>6 DEF Registered

\* After each round one more is.
LEMMA RegisteredNext ==
  ASSUME Assembled, NEW n \in Nat, n < Count, NEW t, Registered(n, t)
  PROVE  Registered(n + 1, RegisterNext(t, Registrations[n + 1]))
<1>1. \A i : i \in 1..(n + 1) <=> i \in 1..n \/ i = n + 1
  OBVIOUS
<1>2. CASE t.state = "panicked"
  <2>1. RegisterNext(t, Registrations[n + 1]) = t
    BY <1>2 DEF RegisterNext
  <2>2. \E i \in 1..n : Bad(i)
    BY <1>2 DEF Registered
  <2>3. \E i \in 1..(n + 1) : Bad(i)
    BY <1>1, <2>2
  <2> QED BY <1>2, <2>1, <2>3 DEF Registered
<1>3. CASE t.state # "panicked"
  <2>1. t \in TableSet /\ t.state = "built" /\ Right(n, t)
    BY <1>3 DEF Registered
  <2>2. PICK x : x = Register(t, Registrations[n + 1])
    OBVIOUS
  <2>3. /\ x \in TableSet
        /\ Bad(n + 1) => x.state = "panicked"
        /\ ~Bad(n + 1) => x.state = "built" /\ Right(n + 1, x)
    BY <2>1, <2>2, RegisterStep
  <2>4. RegisterNext(t, Registrations[n + 1]) = x
    BY <1>3, <2>2 DEF RegisterNext
  <2>5. Registered(n + 1, x)
    BY <1>1, <2>3 DEF Registered
  <2> QED BY <2>4, <2>5
<1> QED BY <1>2, <1>3

\* The rounds panic where there is reason to, and wire every registration where
\* there is none.
LEMMA AllRegistered ==
  ASSUME Assembled
  PROVE  Registered(Count, InTurn(RegisterNext, Start, Registrations))
<1>1. PICK N \in Nat : N = Count /\ N = Len(Registrations)
  BY CountIsNatural, RegistrationsDeclare
<1>2. PICK seq : seq = Registrations
  OBVIOUS
<1> DEFINE S == TableSet
           T == {nt \in Nat \X S : Registered(nt[1], nt[2])}
<1>3. T \in SUBSET (Nat \X S)
  OBVIOUS
<1>4. <<0, Start>> \in T
  BY StartRegistered DEF Registered
<1>5. \A n \in Nat : \A x \in S : n < Len(seq) /\ <<n, x>> \in T
             => <<n + 1, RegisterNext(x, seq[n + 1])>> \in T
  <2>1. SUFFICES ASSUME NEW n \in Nat, NEW x \in S, n < Len(seq), <<n, x>> \in T
                 PROVE  <<n + 1, RegisterNext(x, seq[n + 1])>> \in T
    OBVIOUS
  <2>2. Registered(n, x) /\ n < Count
    BY <1>1, <1>2, <2>1
  <2>3. Registered(n + 1, RegisterNext(x, seq[n + 1]))
    BY <1>2, <2>2, RegisteredNext
  <2>4. RegisterNext(x, seq[n + 1]) \in S /\ n + 1 \in Nat
    BY <2>3 DEF Registered
  <2> QED BY <2>3, <2>4
<1> HIDE DEF T, S
<1>6. <<Len(seq), RegisterAll(Start, seq)>> \in T
  <2>1. Len(seq) \in Nat
    BY <1>1, <1>2
  <2> QED BY <2>1, <1>3, <1>4, <1>5, RegisterTurns
<1>7. Registered(Len(seq), RegisterAll(Start, seq))
  BY <1>6 DEF T
<1> QED BY <1>1, <1>2, <1>7 DEF RegisterAll

-----------------------------------------------------------------------------
(* HEAD from GET.                                                          *)

Aliased(t) == [t EXCEPT !.endpoints = [e \in DOMAIN @ |-> AliasHeadToGet(@[e])]]

HeadFromGet(old, new) ==
    /\ Len(new) = Len(old)
    /\ \A e \in 1..Len(old) :
          /\ new[e].path = old[e].path
          /\ \A m \in AllSlots : new[e].table[m] =
                IF m = "HEAD" /\ old[e].table[m] = 0 THEN old[e].table["GET"] ELSE old[e].table[m]

\* HEAD gets the slot of GET where its own is empty, and nothing else changes.
LEMMA AliasedFields ==
  ASSUME NEW t \in TableSet
  PROVE  /\ Aliased(t) \in TableSet /\ Aliased(t).state = t.state /\ Aliased(t).routes = t.routes
         /\ HeadFromGet(t.endpoints, Aliased(t).endpoints)
<1>1. "HEAD" \in AllSlots /\ "GET" \in AllSlots
  BY RoutesAssumption DEF RoutesAssumption, AllSlots
<1>2. PICK eps \in Seq(EndpointSet) : eps = t.endpoints
  BY TableFields
<1>3. PICK L \in Nat : L = Len(eps) /\ DOMAIN eps = 1..L /\ \A e \in 1..L : eps[e] \in EndpointSet
  BY SequenceLength
<1>4. PICK new : new = [e \in 1..L |-> AliasHeadToGet(eps[e])]
  OBVIOUS
<1>5. ASSUME NEW p \in EndpointSet
      PROVE  /\ AliasHeadToGet(p) \in EndpointSet /\ AliasHeadToGet(p).path = p.path
             /\ \A m \in AllSlots : AliasHeadToGet(p).table[m] =
                  IF m = "HEAD" /\ p.table[m] = 0 THEN p.table["GET"] ELSE p.table[m]
  <2>1. PICK v : v = IF p.table["HEAD"] = 0 THEN p.table["GET"] ELSE p.table["HEAD"]
    OBVIOUS
  <2>2. AliasHeadToGet(p) = [p EXCEPT !.table = [p.table EXCEPT !["HEAD"] = v]]
    BY <2>1 DEF AliasHeadToGet, EndpointSet
  <2>3. PICK T : T = [p.table EXCEPT !["HEAD"] = v]
    OBVIOUS
  <2>4. p.table \in [AllSlots -> Nat]
    BY DEF EndpointSet
  <2>5. v \in Nat
    BY <1>1, <2>1, <2>4
  <2>6. T \in [AllSlots -> Nat] /\ T["HEAD"] = v /\ \A m \in AllSlots : m # "HEAD" => T[m] = p.table[m]
    BY <1>1, <2>3, <2>4, <2>5
  <2>7. AliasHeadToGet(p) \in EndpointSet /\ AliasHeadToGet(p).path = p.path /\ AliasHeadToGet(p).table = T
    BY <2>2, <2>3, <2>6 DEF EndpointSet
  <2> QED BY <2>1, <2>6, <2>7
<1>6. new \in Seq(EndpointSet) /\ Len(new) = L
  BY <1>3, <1>4, <1>5
<1>7. \A e \in 1..L : new[e] = AliasHeadToGet(eps[e])
  BY <1>4
<1>8. HeadFromGet(eps, new)
  BY <1>3, <1>5, <1>6, <1>7 DEF HeadFromGet
<1>9. Aliased(t) = [t EXCEPT !.endpoints = new]
  BY <1>2, <1>3, <1>4 DEF Aliased
<1>10. Aliased(t) \in TableSet /\ Aliased(t).state = t.state /\ Aliased(t).routes = t.routes
       /\ Aliased(t).endpoints = new
  BY <1>6, <1>9 DEF TableSet
<1> QED BY <1>2, <1>8, <1>10

-----------------------------------------------------------------------------
(* The other forms.                                                        *)

AddAll(h, seq) == InTurn(AddTwin, h, seq)

\* Adding the other forms in turn.
LEMMA AddTurns ==
  ASSUME NEW S, NEW T \in SUBSET (Nat \X S), NEW h, NEW seq, Len(seq) \in Nat,
         <<0, h>> \in T,
         \A n \in Nat : \A x \in S : n < Len(seq) /\ <<n, x>> \in T
             => <<n + 1, AddTwin(x, seq[n + 1])>> \in T
  PROVE  <<Len(seq), AddAll(h, seq)>> \in T
<1>1. PICK N \in Nat : N = Len(seq)
  OBVIOUS
<1>2. PICK G : G = [p \in Nat \X S |-> AddTwin(p[2], seq[p[1]])]
  OBVIOUS
<1>3. \A n \in Nat : \A x \in S : G[<<n, x>>] = AddTwin(x, seq[n])
  BY <1>2
<1>4. Leads(G, N, T)
  BY <1>1, <1>3 DEF Leads
<1>5. PICK g : Follows(g, G, N, T, h)
  BY <1>1, <1>4, Folding
<1>6. \A x, y : (CHOOSE r \in {AddTwin(now, y) : now \in {x}} : TRUE) = AddTwin(x, y)
  OBVIOUS
<1>7. g = [n \in 0..Len(seq) |-> IF n = 0 THEN h
             ELSE CHOOSE r \in {AddTwin(now, seq[n]) : now \in {g[n - 1]}} : TRUE]
  <2>1. ASSUME NEW n \in 0..N, n # 0
        PROVE  G[<<n, g[n - 1]>>] = CHOOSE r \in {AddTwin(now, seq[n]) : now \in {g[n - 1]}} : TRUE
    <3>1. n - 1 \in 0..N /\ n \in Nat
      BY <2>1
    <3>2. g[n - 1] \in S
      BY <3>1, <1>5 DEF Follows
    <3> QED BY <3>1, <3>2, <1>3, <1>6
  <2> QED BY <2>1, <1>1, <1>5 DEF Follows
<1>8. PICK after : /\ after = [n \in 0..Len(seq) |-> IF n = 0 THEN h
                        ELSE CHOOSE r \in {AddTwin(now, seq[n]) : now \in {after[n - 1]}} : TRUE]
                   /\ AddAll(h, seq) = after[Len(seq)]
  BY <1>7 DEF AddAll, InTurn
<1>9. after[0] = h
  BY <1>8
<1>10. FollowsOn(after, G, N, T)
  <2>1. SUFFICES ASSUME NEW n \in Nat, n < N, <<n, after[n]>> \in T
                 PROVE  after[n + 1] = G[<<n + 1, after[n]>>]
    BY DEF FollowsOn
  <2>2. after[n + 1] = CHOOSE r \in {AddTwin(now, seq[n + 1]) : now \in {after[(n + 1) - 1]}} : TRUE
    BY <1>1, <1>8, <2>1
  <2>3. after[n + 1] = AddTwin(after[n], seq[n + 1])
    BY <2>2, <1>6, (n + 1) - 1 = n
  <2>4. after[n] \in S
    BY <2>1
  <2> QED BY <2>3, <2>4, <1>3
<1> QED BY <1>1, <1>4, <1>8, <1>9, <1>10, FoldEnd


\* Endpoints that look different.
Based(b) ==
    /\ b \in TableSet /\ b.state = "built"
    /\ \A e \in 1..Len(b.endpoints) : Matchable(b.endpoints[e].path)
    /\ \A e, f \in 1..Len(b.endpoints) :
          SameShape(b.endpoints[e].path, b.endpoints[f].path) => e = f

Fresh(b, path) == \A g \in 1..Len(b.endpoints) : ~SameShape(b.endpoints[g].path, path)

\* Endpoint f is for the other form of that of e.
Formed(b, t, f, e) ==
    /\ t.endpoints[f].path \in Twin(b.endpoints[e].path)
    /\ Fresh(b, t.endpoints[f].path)
    /\ builder.policy = "serve" => t.endpoints[f].table = b.endpoints[e].table
    /\ builder.policy # "serve" =>
          /\ t.endpoints[f].table[AnyMethod] \in 1..Len(t.routes)
          /\ t.routes[t.endpoints[f].table[AnyMethod]] = RedirectAt(t.endpoints[f].path)
          /\ \A m \in Methods : t.endpoints[f].table[m] = 0

\* What the rounds for the first n endpoints of b have come to.
Twinned(n, b, t) ==
    /\ t \in TableSet /\ t.state = "built"
    /\ Len(b.endpoints) <= Len(t.endpoints)
    /\ \A e \in 1..Len(b.endpoints) : t.endpoints[e] = b.endpoints[e]
    /\ Len(b.routes) <= Len(t.routes)
    /\ \A i \in 1..Len(b.routes) : t.routes[i] = b.routes[i]
    /\ \A f \in 1..Len(t.endpoints) :
          f > Len(b.endpoints) => \E e \in 1..n : Formed(b, t, f, e)
    /\ \A e \in 1..n : \A q \in Twin(b.endpoints[e].path) :
          Fresh(b, q) => \E f \in 1..Len(t.endpoints) : t.endpoints[f].path = q

\* A round, with the form that it adds named.
ServedToo(t, e, q) == [t EXCEPT !.endpoints = Append(@, [t.endpoints[e] EXCEPT !.path = q])]
Redirected(t, q) ==
    [t EXCEPT !.endpoints = Append(@, [Endpoint(q) EXCEPT !.table[AnyMethod] = Len(t.routes) + 1]),
              !.routes = Append(@, RedirectAt(q))]

\* A round of register_twins whose form is free.
LEMMA AddRound ==
  ASSUME NEW t, NEW e, NEW q, Twin(t.endpoints[e].path) = {q}, ~Conflicts(t.endpoints, q)
  PROVE  AddTwin(t, e) = IF builder.policy = "serve" THEN ServedToo(t, e, q) ELSE Redirected(t, q)
<1>1. {path \in Twin(t.endpoints[e].path) : ~Conflicts(t.endpoints, path)} = {q}
  OBVIOUS
<1>2. (CHOOSE p \in {q} : TRUE) = q
  OBVIOUS
<1> QED BY <1>1, <1>2 DEF AddTwin, RedirectAt, ServedToo, Redirected

\* One that leaves the tables alone.
LEMMA NoRound ==
  ASSUME NEW t, NEW e, \A q \in Twin(t.endpoints[e].path) : Conflicts(t.endpoints, q)
  PROVE  AddTwin(t, e) = t
<1>1. {path \in Twin(t.endpoints[e].path) : ~Conflicts(t.endpoints, path)} = {}
  OBVIOUS
<1> QED BY <1>1 DEF AddTwin

\* A path has one other form at most.
LEMMA TwinOnce ==
  ASSUME NEW p, NEW q, q \in Twin(p)
  PROVE  Twin(p) = {q}
BY DEF Twin

\* One more member leaves the others where they are.
LEMMA Appended ==
  ASSUME NEW S, NEW s \in Seq(S), NEW x \in S
  PROVE  /\ Append(s, x) \in Seq(S) /\ Len(Append(s, x)) = Len(s) + 1
         /\ Append(s, x)[Len(s) + 1] = x
         /\ \A i \in 1..Len(s) : Append(s, x)[i] = s[i]
OBVIOUS

\* The tables with one more form.
One(t, new, routes) == [t EXCEPT !.endpoints = Append(@, new), !.routes = routes]

\* The fields of tables with one more endpoint.
LEMMA OneMore ==
  ASSUME NEW n \in Nat, NEW b, Based(b), n < Len(b.endpoints), NEW t, Twinned(n, b, t),
         NEW q \in Twin(b.endpoints[n + 1].path), Fresh(b, q),
         NEW new \in EndpointSet, new.path = q, NEW routes \in Seq(RouteSet),
         Len(t.routes) <= Len(routes), \A i \in 1..Len(t.routes) : routes[i] = t.routes[i],
         builder.policy = "serve" => new.table = b.endpoints[n + 1].table,
         builder.policy # "serve" =>
           /\ new.table[AnyMethod] \in 1..Len(routes)
           /\ routes[new.table[AnyMethod]] = RedirectAt(q)
           /\ \A m \in Methods : new.table[m] = 0
  PROVE  Twinned(n + 1, b, One(t, new, routes))
<1>1. PICK x : x = One(t, new, routes)
  OBVIOUS
<1>2. PICK eps \in Seq(EndpointSet) : eps = t.endpoints
  BY TableFields DEF Twinned
<1>3. PICK L \in Nat : L = Len(eps) /\ \A f \in 1..L : eps[f] \in EndpointSet
  BY SequenceLength
<1>4. PICK B \in Nat : B = Len(b.endpoints)
  <2>1. b.endpoints \in Seq(EndpointSet)
    BY TableFields DEF Based
  <2> QED BY <2>1, SequenceLength
<1>5. PICK more \in Seq(EndpointSet) : more = Append(eps, new)
  BY Appended
<1>6. Len(more) = L + 1 /\ more[L + 1] = new /\ \A f \in 1..L : more[f] = eps[f]
  BY <1>3, <1>5
<1>7. x = With(t, more, routes) /\ t \in TableSet
  BY <1>1, <1>2, <1>5 DEF One, With, Twinned
<1>8. x \in TableSet /\ x.state = "built" /\ x.endpoints = more /\ x.routes = routes
  BY <1>7, TableChanged DEF Twinned
<1>9. B <= L /\ \A e \in 1..B : eps[e] = b.endpoints[e]
  BY <1>2, <1>3, <1>4 DEF Twinned
<1>10. \A e \in 1..B : e \in 1..L /\ more[e] = b.endpoints[e]
  BY <1>6, <1>9
<1>11. Len(b.routes) <= Len(t.routes) /\ \A i \in 1..Len(b.routes) : t.routes[i] = b.routes[i]
  BY DEF Twinned
<1>12. PICK R \in Nat, M \in Nat, N \in Nat : R = Len(b.routes) /\ M = Len(t.routes) /\ N = Len(routes)
  <2>1. b.routes \in Seq(RouteSet) /\ t.routes \in Seq(RouteSet)
    BY TableFields DEF Based, Twinned
  <2> QED BY <2>1, SequenceLength
<1>13. R <= N /\ \A i \in 1..R : routes[i] = b.routes[i]
  <2>1. \A i \in 1..R : i \in 1..M
    BY <1>11, <1>12
  <2> QED BY <1>11, <1>12, <2>1
<1>14. ASSUME NEW f \in 1..(L + 1), f > B PROVE \E e \in 1..(n + 1) : Formed(b, x, f, e)
  <2>1. CASE f = L + 1
    <3>1. x.endpoints[f] = new
      BY <1>6, <1>8, <2>1
    <3>2. Formed(b, x, f, n + 1)
      BY <1>8, <3>1 DEF Formed
    <3>3. n + 1 \in 1..(n + 1)
      OBVIOUS
    <3> QED BY <3>2, <3>3
  <2>2. CASE f # L + 1
    <3>1. f \in 1..L
      BY <2>2
    <3>2. PICK e \in 1..n : Formed(b, t, f, e)
      BY <1>2, <1>3, <1>4, <1>14, <3>1 DEF Twinned
    <3>3. x.endpoints[f] = t.endpoints[f]
      BY <1>2, <1>6, <1>8, <3>1
    <3>4. \A i \in 1..Len(t.routes) : i \in 1..Len(routes) /\ routes[i] = t.routes[i]
      BY <1>12
    <3>5. Formed(b, x, f, e)
      BY <1>8, <3>2, <3>3, <3>4 DEF Formed
    <3>6. e \in 1..(n + 1)
      OBVIOUS
    <3> QED BY <3>5, <3>6
  <2> QED BY <2>1, <2>2
<1>15. ASSUME NEW e \in 1..(n + 1), NEW p \in Twin(b.endpoints[e].path), Fresh(b, p)
       PROVE  \E f \in 1..(L + 1) : more[f].path = p
  <2>1. CASE e = n + 1
    <3>1. p = q
      BY <2>1, TwinOnce
    <3>2. L + 1 \in 1..(L + 1)
      OBVIOUS
    <3> QED BY <1>6, <3>1, <3>2
  <2>2. CASE e # n + 1
    <3>1. e \in 1..n
      BY <2>2
    <3>2. PICK f \in 1..L : eps[f].path = p
      BY <1>2, <1>3, <1>15, <3>1 DEF Twinned
    <3>3. f \in 1..(L + 1) /\ more[f].path = p
      BY <1>6, <3>2
    <3> QED BY <3>3
  <2> QED BY <2>1, <2>2
<1>16. Len(x.endpoints) = L + 1
  BY <1>6, <1>8
<1>17. B <= L + 1
  BY <1>9
<1>18. Twinned(n + 1, b, x)
  <2>1. /\ Len(b.endpoints) <= Len(x.endpoints)
        /\ \A e \in 1..Len(b.endpoints) : x.endpoints[e] = b.endpoints[e]
    BY <1>4, <1>8, <1>10, <1>16, <1>17
  <2>2. /\ Len(b.routes) <= Len(x.routes)
        /\ \A i \in 1..Len(b.routes) : x.routes[i] = b.routes[i]
    BY <1>8, <1>12, <1>13
  <2>3. \A f \in 1..Len(x.endpoints) : f > Len(b.endpoints) => \E e \in 1..(n + 1) : Formed(b, x, f, e)
    BY <1>4, <1>14, <1>16
  <2>4. \A e \in 1..(n + 1) : \A p \in Twin(b.endpoints[e].path) :
          Fresh(b, p) => \E f \in 1..Len(x.endpoints) : x.endpoints[f].path = p
    BY <1>8, <1>15, <1>16
  <2> QED BY <1>8, <2>1, <2>2, <2>3, <2>4 DEF Twinned
<1> QED BY <1>1, <1>18

\* A round keeps what the earlier ones made, and adds its form.
LEMMA AddStep ==
  ASSUME NEW n \in Nat, NEW b, Based(b), n < Len(b.endpoints), NEW t, Twinned(n, b, t)
  PROVE  Twinned(n + 1, b, AddTwin(t, n + 1))
<1>1. PICK k : k = n + 1
  OBVIOUS
<1>2. t \in TableSet /\ b \in TableSet
  BY DEF Twinned, Based
<1>3. PICK eps \in Seq(EndpointSet) : eps = t.endpoints /\ DOMAIN eps = 1..Len(eps)
  BY <1>2, TableFields
<1>4. PICK B \in Nat : B = Len(b.endpoints)
  <2>1. b.endpoints \in Seq(EndpointSet)
    BY <1>2, TableFields
  <2> QED BY <2>1, SequenceLength
<1>5. PICK L \in Nat : L = Len(eps) /\ \A f \in 1..L : eps[f] \in EndpointSet
  BY SequenceLength
<1>6. k \in 1..B /\ B <= L /\ \A e \in 1..B : e \in 1..L /\ eps[e] = b.endpoints[e]
  BY <1>1, <1>3, <1>4, <1>5 DEF Twinned
<1>7. PICK p : p = b.endpoints[k].path /\ p = t.endpoints[k].path /\ Matchable(p)
  BY <1>3, <1>4, <1>6 DEF Based
<1>8. \A f \in 1..L : eps[f].path \in Seq(Parts)
  BY <1>5 DEF EndpointSet
<1>9. ASSUME NEW q \in Twin(p)
      PROVE  Conflicts(t.endpoints, q) <=> ~Fresh(b, q)
  <2>1. Matchable(q) /\ q \in Seq(Parts)
    BY <1>7, TwinForms, MatchedSegments
  <2>2. Conflicts(t.endpoints, q) <=> \E f \in 1..L : SameShape(eps[f].path, q)
    BY <1>3, <1>5, <1>8, <2>1, ShapesAgree DEF Conflicts
  <2>3. ASSUME NEW g \in 1..B, SameShape(b.endpoints[g].path, q) PROVE \E f \in 1..L : SameShape(eps[f].path, q)
    BY <1>6, <2>3
  <2>4. ASSUME NEW f \in 1..L, SameShape(eps[f].path, q), f > B PROVE FALSE
    <3>1. PICK e \in 1..n : Formed(b, t, f, e)
      BY <1>3, <1>4, <1>5, <2>4 DEF Twinned
    <3>2. e \in 1..B /\ e # k
      BY <1>1, <1>6
    <3>3. eps[f].path \in Twin(b.endpoints[e].path) /\ Matchable(b.endpoints[e].path)
      BY <1>3, <1>4, <3>1, <3>2 DEF Formed, Based
    <3>4. SameShape(b.endpoints[e].path, p)
      BY <1>7, <2>4, <3>3, TwinsDiffer
    <3> QED BY <1>4, <1>6, <1>7, <3>2, <3>4 DEF Based
  <2>5. ASSUME NEW f \in 1..L, SameShape(eps[f].path, q) PROVE ~Fresh(b, q)
    <3>1. f \in 1..B
      BY <2>4, <2>5
    <3> QED BY <1>4, <1>6, <2>5, <3>1 DEF Fresh
  <2> QED BY <1>4, <2>2, <2>3, <2>5 DEF Fresh
<1>10. ASSUME NEW q \in Twin(p), Fresh(b, q) PROVE Twinned(k, b, AddTwin(t, k))
  <2>1. Twin(t.endpoints[k].path) = {q} /\ ~Conflicts(t.endpoints, q) /\ q \in Twin(b.endpoints[k].path)
    BY <1>7, <1>9, <1>10, TwinOnce
  <2>2. q \in Seq(Parts)
    BY <1>7, TwinForms, MatchedSegments
  <2>3. PICK old \in EndpointSet : old = t.endpoints[k] /\ old = b.endpoints[k]
    BY <1>3, <1>4, <1>5, <1>6
  <2>4. PICK routes \in Seq(RouteSet) : routes = t.routes
    BY <1>2, TableFields
  <2>5. PICK M \in Nat : M = Len(routes)
    BY SequenceLength
  <2>6. CASE builder.policy = "serve"
    <3>1. PICK new : new = [old EXCEPT !.path = q]
      OBVIOUS
    <3>2. new \in EndpointSet /\ new.path = q /\ new.table = old.table
      BY <2>2, <3>1 DEF EndpointSet
    <3>3. AddTwin(t, k) = [t EXCEPT !.endpoints = Append(@, new)]
      <4>1. AddTwin(t, k) = ServedToo(t, k, q)
        BY <2>1, <2>6, AddRound
      <4> QED BY <2>3, <3>1, <4>1 DEF ServedToo
    <3>4. AddTwin(t, k) = One(t, new, routes)
      BY <1>2, <2>4, <3>3 DEF One, TableSet
    <3>5. Twinned(n + 1, b, One(t, new, routes))
      BY <1>1, <1>10, <2>1, <2>3, <2>4, <2>5, <2>6, <3>2, OneMore
    <3> QED BY <1>1, <3>4, <3>5
  <2>7. CASE builder.policy # "serve"
    <3>1. PICK index \in Nat : index = M + 1
      OBVIOUS
    <3>2. PICK new : new = [Endpoint(q) EXCEPT !.table[AnyMethod] = index]
      OBVIOUS
    <3>3. /\ new \in EndpointSet /\ new.path = q /\ new.table[AnyMethod] = index
          /\ \A m \in Methods : new.table[m] = 0
      <4>1. PICK ep \in EndpointSet : ep = Endpoint(q) /\ ep.path = q /\ \A m \in AllSlots : ep.table[m] = 0
        BY <2>2, EndpointEmpty
      <4>2. PICK T : T = [ep.table EXCEPT ![AnyMethod] = index]
        OBVIOUS
      <4>3. ep.table \in [AllSlots -> Nat] /\ AnyMethod \in AllSlots
        BY DEF EndpointSet, AllSlots
      <4>4. T \in [AllSlots -> Nat] /\ T[AnyMethod] = index /\ \A m \in AllSlots : m # AnyMethod => T[m] = ep.table[m]
        BY <4>2, <4>3
      <4>5. new = [ep EXCEPT !.table = T]
        BY <3>2, <4>1, <4>2
      <4>6. new \in EndpointSet /\ new.path = q /\ new.table = T
        BY <4>1, <4>4, <4>5 DEF EndpointSet
      <4>7. AnyMethod \notin Methods
        BY RoutesAssumption DEF RoutesAssumption
      <4>8. \A m \in Methods : m \in AllSlots /\ m # AnyMethod
        BY <4>7 DEF AllSlots
      <4> QED BY <4>1, <4>4, <4>6, <4>8
    <3>4. PICK one \in RouteSet : one = RedirectAt(q)
      BY <2>2 DEF RouteSet
    <3>5. PICK more \in Seq(RouteSet) : more = Append(routes, one)
      BY Appended
    <3>6. Len(more) = index /\ more[index] = one /\ \A i \in 1..M : more[i] = routes[i]
      BY <2>5, <3>1, <3>5, Appended
    <3>7. AddTwin(t, k) = [t EXCEPT !.endpoints = Append(@, new), !.routes = more]
      <4>1. AddTwin(t, k) = Redirected(t, q)
        BY <2>1, <2>7, AddRound
      <4> QED BY <2>4, <2>5, <3>1, <3>2, <3>4, <3>5, <4>1 DEF Redirected
    <3>8. AddTwin(t, k) = One(t, new, more)
      BY <3>7 DEF One
    <3>9. Len(t.routes) <= Len(more) /\ \A i \in 1..Len(t.routes) : more[i] = t.routes[i]
      BY <2>4, <2>5, <3>1, <3>6
    <3>10. new.table[AnyMethod] \in 1..Len(more) /\ more[new.table[AnyMethod]] = RedirectAt(q)
      BY <3>1, <3>3, <3>4, <3>6
    <3>11. Twinned(n + 1, b, One(t, new, more))
      BY <1>1, <1>10, <2>1, <2>7, <3>3, <3>9, <3>10, OneMore
    <3> QED BY <1>1, <3>8, <3>11
  <2> QED BY <2>6, <2>7
<1>11. ASSUME \A q \in Twin(p) : ~Fresh(b, q) PROVE Twinned(k, b, AddTwin(t, k))
  <2>1. AddTwin(t, k) = t
    BY <1>7, <1>9, <1>11, NoRound
  <2>2. \A e : e \in 1..k <=> e \in 1..n \/ e = k
    BY <1>1
  <2>3. \A f \in 1..Len(t.endpoints) : f > Len(b.endpoints) => \E e \in 1..k : Formed(b, t, f, e)
    BY <2>2 DEF Twinned
  <2>4. \A e \in 1..k : \A q \in Twin(b.endpoints[e].path) :
          Fresh(b, q) => \E f \in 1..Len(t.endpoints) : t.endpoints[f].path = q
    BY <1>7, <1>11, <2>2 DEF Twinned
  <2> QED BY <2>1, <2>3, <2>4 DEF Twinned
<1> QED BY <1>1, <1>10, <1>11

\* Before the first round no form is added.
LEMMA NoneAdded ==
  ASSUME NEW b, Based(b)
  PROVE  Twinned(0, b, b)
<1>1. b.endpoints \in Seq(EndpointSet) /\ b.routes \in Seq(RouteSet)
  BY TableFields DEF Based
<1>2. PICK B \in Nat, R \in Nat : B = Len(b.endpoints) /\ R = Len(b.routes)
  BY <1>1, SequenceLength
<1>3. B <= B /\ R <= R /\ 1..0 = {} /\ \A f \in 1..B : ~(f > B)
  OBVIOUS
<1> QED BY <1>2, <1>3 DEF Twinned, Based

\* Every endpoint gets its other form, unless that is there already.
LEMMA AllAdded ==
  ASSUME NEW b, Based(b)
  PROVE  Twinned(Len(b.endpoints), b, InTurn(AddTwin, b, [e \in DOMAIN b.endpoints |-> e]))
<1>1. b.endpoints \in Seq(EndpointSet)
  BY TableFields DEF Based
<1>2. PICK N \in Nat : N = Len(b.endpoints) /\ DOMAIN b.endpoints = 1..N
  BY <1>1, SequenceLength
<1>3. PICK seq : seq = [e \in DOMAIN b.endpoints |-> e]
  OBVIOUS
<1>4. Len(seq) = N /\ \A n \in Nat : n < N => seq[n + 1] = n + 1
  <2>1. seq = [e \in 1..N |-> e]
    BY <1>2, <1>3
  <2> QED BY <2>1
<1> DEFINE S == TableSet
           T == {nt \in Nat \X S : Twinned(nt[1], b, nt[2])}
<1>5. T \in SUBSET (Nat \X S)
  OBVIOUS
<1>6. <<0, b>> \in T
  BY NoneAdded DEF Based
<1>7. \A n \in Nat : \A x \in S : n < Len(seq) /\ <<n, x>> \in T
             => <<n + 1, AddTwin(x, seq[n + 1])>> \in T
  <2>1. SUFFICES ASSUME NEW n \in Nat, NEW x \in S, n < Len(seq), <<n, x>> \in T
                 PROVE  <<n + 1, AddTwin(x, seq[n + 1])>> \in T
    OBVIOUS
  <2>2. Twinned(n, b, x) /\ n < Len(b.endpoints) /\ seq[n + 1] = n + 1
    BY <1>2, <1>4, <2>1
  <2>3. Twinned(n + 1, b, AddTwin(x, n + 1))
    BY <2>2, AddStep
  <2>4. AddTwin(x, n + 1) \in S /\ n + 1 \in Nat
    BY <2>3 DEF Twinned
  <2> QED BY <2>2, <2>3, <2>4
<1> HIDE DEF T, S
<1>8. <<Len(seq), AddAll(b, seq)>> \in T
  <2>1. Len(seq) \in Nat
    BY <1>4
  <2> QED BY <2>1, <1>5, <1>6, <1>7, AddTurns
<1>9. Twinned(Len(seq), b, AddAll(b, seq))
  BY <1>8 DEF T
<1> QED BY <1>2, <1>3, <1>4, <1>9 DEF AddAll

-----------------------------------------------------------------------------
(* When building panics.                                                   *)

Ambiguous ==
    \/ \E r \in Declarations : Slots(r) = {} \/ Unmatchable(ToMatchitPath(r.path))
    \/ \E r, s \in Declarations :
          LET p == ToMatchitPath(r.path)
              q == ToMatchitPath(s.path)
          IN  \/ r # s /\ p = q /\ Slots(r) \cap Slots(s) # {}
              \/ p # q /\ Shape(p) = Shape(q)

Idle ==
    \E l \in ToSet(builder.layers) :
       ~l.always /\ l.path # <<>> /\ \A r \in Declarations : ~IsPrefix(l.path, r.path)

\* The two ways in which what is registered is faulty.
LEMMA FaultyParts == Faulty <=> Ambiguous \/ Idle
BY DEF Faulty, Ambiguous, Idle

\* A registration that clashes with an earlier one is one of two that clash.
LEMMA BadIsAmbiguous ==
  ASSUME Assembled
  PROVE  Ambiguous <=> \E i \in 1..Count : Bad(i)
<1>1. PICK N \in Nat : N = Count
  BY CountIsNatural
<1>2. Declarations = {Declaration(i) : i \in 1..N}
  BY <1>1, DeclarationsRegistered
<1>3. \A i, j \in 1..N : Declaration(i) = Declaration(j) => i = j
  BY <1>1, DeclarationsRegistered
<1>4. ASSUME NEW i \in 1..N, Bad(i) PROVE Ambiguous
  <2>1. Declaration(i) \in Declarations
    BY <1>2
  <2>2. CASE SlotsOf(i) = {} \/ Unmatchable(Key(i))
    BY <2>1, <2>2 DEF Ambiguous, SlotsOf, Key
  <2>3. ASSUME NEW j \in 1..(i - 1), Clash(i, j) PROVE Ambiguous
    <3>1. j \in 1..N /\ i # j
      OBVIOUS
    <3>2. Declaration(j) \in Declarations /\ Declaration(i) # Declaration(j)
      BY <1>2, <1>3, <3>1
    <3> QED BY <2>1, <2>3, <3>2 DEF Ambiguous, Clash, SlotsOf, Key
  <2> QED BY <1>4, <2>2, <2>3 DEF Bad
<1>5. ASSUME Ambiguous PROVE \E i \in 1..N : Bad(i)
  <2>1. ASSUME NEW r \in Declarations, Slots(r) = {} \/ Unmatchable(ToMatchitPath(r.path))
        PROVE  \E i \in 1..N : Bad(i)
    BY <1>2, <2>1 DEF Bad, SlotsOf, Key
  <2>2. ASSUME NEW i \in 1..N, NEW j \in 1..N, Clash(i, j), i # j PROVE \E k \in 1..N : Bad(k)
    <3>1. CASE j < i
      <4>1. j \in 1..(i - 1)
        BY <3>1
      <4> QED BY <2>2, <4>1 DEF Bad
    <3>2. CASE i < j
      <4>1. i \in 1..(j - 1)
        BY <3>2
      <4>2. Clash(j, i)
        BY <2>2 DEF Clash
      <4> QED BY <4>1, <4>2 DEF Bad
    <3> QED BY <2>2, <3>1, <3>2
  <2>3. ASSUME NEW r \in Declarations, NEW s \in Declarations,
               LET p == ToMatchitPath(r.path)
                   q == ToMatchitPath(s.path)
               IN  \/ r # s /\ p = q /\ Slots(r) \cap Slots(s) # {}
                   \/ p # q /\ Shape(p) = Shape(q)
        PROVE  \E i \in 1..N : Bad(i)
    <3>1. PICK i \in 1..N, j \in 1..N : r = Declaration(i) /\ s = Declaration(j)
      BY <1>2
    <3>2. i # j /\ Clash(i, j)
      BY <2>3, <3>1 DEF Clash, SlotsOf, Key
    <3> QED BY <2>2, <3>2
  <2> QED BY <1>5, <2>1, <2>3 DEF Ambiguous
<1> QED BY <1>1, <1>4, <1>5

\* The layers that are registered.
LEMMA LayerFields ==
  ASSUME Assembled
  PROVE  /\ Len(builder.layers) \in Nat /\ DOMAIN builder.layers = 1..Len(builder.layers)
         /\ \A i \in 1..Len(builder.layers) :
               builder.layers[i].always \in BOOLEAN /\ Valid(builder.layers[i].path)
<1>1. builder.layers \in Seq(LayerDecls)
  BY DEF Assembled
<1>2. /\ Len(builder.layers) \in Nat /\ DOMAIN builder.layers = 1..Len(builder.layers)
      /\ \A i \in 1..Len(builder.layers) : builder.layers[i] \in LayerDecls
  BY <1>1, SequenceLength
<1>3. \A l \in LayerDecls : l.always \in BOOLEAN /\ Valid(l.path)
  BY RoutesAssumption DEF RoutesAssumption
<1> QED BY <1>2, <1>3

\* The check for unused layers finds those that wrap no declaration.
LEMMA UnusedIsIdle ==
  ASSUME Assembled
  PROVE  Idle <=> \E i \in DOMAIN builder.layers : Unused(builder.layers[i])
<1>1. \A i \in DOMAIN builder.layers : Valid(builder.layers[i].path)
  BY LayerFields
<1>2. ASSUME NEW i \in DOMAIN builder.layers
      PROVE  Unused(builder.layers[i]) <=>
               /\ ~builder.layers[i].always /\ builder.layers[i].path # <<>>
               /\ \A r \in Declarations : ~IsPrefix(builder.layers[i].path, r.path)
  <2>1. PICK l : l = builder.layers[i] /\ Valid(l.path)
    BY <1>1
  <2>2. ASSUME NEW k \in 1..Count
        PROVE  StartsWith(Registrations[k].path, l.path) <=> IsPrefix(l.path, Declaration(k).path)
    <3>1. Registrations[k].path = Declaration(k).path /\ Valid(Declaration(k).path)
      BY RegistrationsDeclare, RegistrationKeys
    <3> QED BY <2>1, <3>1, StartsWithPrefix
  <2>3. DOMAIN Registrations = 1..Count /\ Declarations = {Declaration(k) : k \in 1..Count}
    BY RegistrationsDeclare, DeclarationsRegistered
  <2>4. (\A k \in DOMAIN Registrations : ~StartsWith(Registrations[k].path, l.path))
        <=> \A r \in Declarations : ~IsPrefix(l.path, r.path)
    BY <2>2, <2>3
  <2> QED BY <2>1, <2>4 DEF Unused
<1> QED BY <1>2 DEF Idle, ToSet

-----------------------------------------------------------------------------
(* What building makes.                                                    *)

\* The tables before the other forms, of endpoints that were `old` before HEAD.
ServedBy(old, b) ==
    /\ Based(b)
    /\ Len(b.routes) = Count /\ \A i \in 1..Count : b.routes[i] = RouteOf(i)
    /\ old \in Seq(EndpointSet) /\ Wired(Count, old) /\ HeadFromGet(old, b.endpoints)
    /\ \A i \in 1..Count : ~Bad(i)
    /\ builder.policy = "strict" => router = b
    /\ builder.policy # "strict" => Twinned(Len(b.endpoints), b, router)

\* The matcher takes the key of what is not bad.
LEMMA GoodKeysMatched ==
  ASSUME Assembled, NEW i \in 1..Count, ~Bad(i)
  PROVE  Matchable(Key(i))
BY RegistrationKeys DEF Matchable, Bad

\* build() panics just when something is faulty, and wires the rest.
LEMMA BuildingIsRight ==
  ASSUME Assembled, router = Tables
  PROVE  /\ router.state = "panicked" => Faulty
         /\ router.state = "built" => ~Faulty /\ \E old, b : ServedBy(old, b)
         /\ router.state # "none"
<1>1. PICK grouped : grouped = InTurn(RegisterNext, Start, Registrations) /\ Registered(Count, grouped)
  BY AllRegistered
<1>2. PICK unused : unused = \E i \in DOMAIN builder.layers : Unused(builder.layers[i])
  OBVIOUS
<1>3. PICK b : b = Aliased(grouped)
  OBVIOUS
<1>4. Tables = IF grouped.state = "panicked" \/ unused THEN Panic(NotBuilt) ELSE RegisterTwins(b)
  BY <1>1, <1>2, <1>3 DEF Tables, Start, Aliased
<1>5. unused <=> Idle
  BY <1>2, UnusedIsIdle
<1>6. grouped \in TableSet
  BY <1>1 DEF Registered
<1>7. CASE grouped.state = "panicked" \/ unused
  <2>1. Panic(NotBuilt).state = "panicked"
    BY DEF Panic, NotBuilt
  <2>2. grouped.state = "panicked" => Ambiguous
    BY <1>1, BadIsAmbiguous DEF Registered
  <2>3. Faulty
    BY <1>5, <1>7, <2>2, FaultyParts
  <2> QED BY <1>4, <1>7, <2>1, <2>3
<1>8. CASE grouped.state = "built" /\ ~unused
  <2>1. Right(Count, grouped)
    BY <1>1, <1>8 DEF Registered
  <2>2. ~Faulty
    BY <1>5, <1>8, <2>1, FaultyParts, BadIsAmbiguous DEF Right
  <2>3. PICK old \in Seq(EndpointSet) : old = grouped.endpoints
    BY <1>6, TableFields
  <2>4. b \in TableSet /\ b.state = "built" /\ b.routes = grouped.routes /\ HeadFromGet(old, b.endpoints)
    BY <1>3, <1>6, <1>8, <2>3, AliasedFields
  <2>5. Wired(Count, old) /\ \A i \in 1..Count : ~Bad(i)
    BY <2>1, <2>3 DEF Right
  <2>6. /\ Len(b.endpoints) = Len(old)
        /\ \A e \in 1..Len(old) : b.endpoints[e].path = old[e].path
    BY <2>4 DEF HeadFromGet
  <2>7. \A e \in 1..Len(old) : Matchable(old[e].path)
    BY <2>5, GoodKeysMatched DEF Wired
  <2>8. \A e, f \in 1..Len(old) : SameShape(old[e].path, old[f].path) => e = f
    <3>1. \A e \in 1..Len(old) : old[e].path \in Seq(Parts)
      BY <2>7, MatchedSegments
    <3>2. \A e, f \in 1..Len(old) : Shape(old[e].path) = Shape(old[f].path) => e = f
      BY <2>5 DEF Wired
    <3> QED BY <3>1, <3>2, ShapesAgree
  <2>9. Based(b)
    BY <2>4, <2>6, <2>7, <2>8 DEF Based
  <2>10. router = RegisterTwins(b)
    BY <1>4, <1>8
  <2>11. builder.policy = "strict" => router = b
    BY <2>10 DEF RegisterTwins
  <2>12. builder.policy # "strict" => Twinned(Len(b.endpoints), b, router)
    BY <2>9, <2>10, AllAdded DEF RegisterTwins
  <2>13. Len(b.routes) = Count /\ \A i \in 1..Count : b.routes[i] = RouteOf(i)
    BY <2>1, <2>4 DEF Right
  <2>14. ServedBy(old, b)
    BY <2>4, <2>5, <2>9, <2>11, <2>12, <2>13 DEF ServedBy
  <2>15. router.state = "built"
    BY <2>4, <2>11, <2>12 DEF Twinned
  <2> QED BY <2>2, <2>14, <2>15
<1> QED BY <1>6, <1>7, <1>8, TableFields

-----------------------------------------------------------------------------
(* The paths of the tables, and what they are for.                         *)

RouterPaths == {router.endpoints[e].path : e \in DOMAIN router.endpoints}
Forms == {f[1] : f \in OtherForms}

\* The router's endpoints begin with those that were registered.
LEMMA RouterShape ==
  ASSUME NEW old, NEW b, ServedBy(old, b)
  PROVE  /\ router \in TableSet /\ router.endpoints \in Seq(EndpointSet)
         /\ Len(router.endpoints) \in Nat /\ Len(b.endpoints) \in Nat /\ Len(old) = Len(b.endpoints)
         /\ DOMAIN router.endpoints = 1..Len(router.endpoints)
         /\ Len(b.endpoints) <= Len(router.endpoints)
         /\ \A e \in 1..Len(b.endpoints) :
               router.endpoints[e] = b.endpoints[e] /\ b.endpoints[e].path = old[e].path
         /\ \A i \in 1..Count : i \in 1..Len(router.routes) /\ router.routes[i] = RouteOf(i)
         /\ \A e \in 1..Len(b.endpoints) : Matchable(b.endpoints[e].path)
<1>1. Based(b) /\ Len(b.routes) = Count /\ HeadFromGet(old, b.endpoints) /\ b \in TableSet
  BY DEF ServedBy, Based
<1>2. b.endpoints \in Seq(EndpointSet) /\ b.routes \in Seq(RouteSet)
  BY <1>1, TableFields
<1>3. PICK B \in Nat, N \in Nat : B = Len(b.endpoints) /\ N = Len(b.routes)
  BY <1>2, SequenceLength
<1>4. /\ router \in TableSet /\ B <= Len(router.endpoints) /\ N <= Len(router.routes)
      /\ \A e \in 1..B : router.endpoints[e] = b.endpoints[e]
      /\ \A i \in 1..N : router.routes[i] = b.routes[i]
  <2>1. CASE builder.policy = "strict"
    <3>1. router = b
      BY <2>1 DEF ServedBy
    <3>2. B <= B /\ N <= N
      OBVIOUS
    <3> QED BY <1>1, <1>3, <3>1, <3>2
  <2>2. CASE builder.policy # "strict"
    <3>1. Twinned(B, b, router)
      BY <1>3, <2>2 DEF ServedBy
    <3> QED BY <1>3, <3>1 DEF Twinned
  <2> QED BY <2>1, <2>2
<1>5. router.endpoints \in Seq(EndpointSet) /\ router.routes \in Seq(RouteSet)
  BY <1>4, TableFields
<1>6. PICK L \in Nat, M \in Nat : L = Len(router.endpoints) /\ M = Len(router.routes)
                                  /\ DOMAIN router.endpoints = 1..L
  BY <1>5, SequenceLength
<1>7. Len(old) = B /\ \A e \in 1..B : b.endpoints[e].path = old[e].path
  BY <1>1, <1>3 DEF HeadFromGet
<1>8. \A i \in 1..N : i \in 1..M /\ router.routes[i] = RouteOf(i)
  <2>1. \A i \in 1..N : b.routes[i] = RouteOf(i)
    BY <1>1, <1>3 DEF ServedBy
  <2>2. N <= M
    BY <1>4, <1>6
  <2> QED BY <1>4, <2>1, <2>2
<1>9. \A e \in 1..B : Matchable(b.endpoints[e].path)
  BY <1>1, <1>3 DEF Based
<1> QED BY <1>1, <1>3, <1>4, <1>5, <1>6, <1>7, <1>8, <1>9

\* The paths of these are the declared ones.
LEMMA ServedPaths ==
  ASSUME Assembled, NEW old, NEW b, ServedBy(old, b)
  PROVE  /\ Served = {b.endpoints[e].path : e \in 1..Len(b.endpoints)}
         /\ Served = {Key(i) : i \in 1..Count}
<1>1. Served = {Key(i) : i \in 1..Count}
  BY DeclarationsRegistered DEF Served, Key
<1>2. PICK B \in Nat : B = Len(b.endpoints) /\ B = Len(old)
  BY RouterShape
<1>3. \A e \in 1..B : b.endpoints[e].path = old[e].path
  BY <1>2, RouterShape
<1>4. /\ \A e \in 1..B : \E i \in 1..Count : old[e].path = Key(i)
      /\ \A i \in 1..Count : \E e \in 1..B : old[e].path = Key(i)
  BY <1>2 DEF ServedBy, Wired
<1>5. {b.endpoints[e].path : e \in 1..B} = {Key(i) : i \in 1..Count}
  BY <1>3, <1>4
<1> QED BY <1>1, <1>2, <1>5

\* A form is free where nothing that is declared looks like it.
LEMMA FreshForms ==
  ASSUME Assembled, NEW old, NEW b, ServedBy(old, b), NEW p \in Served, NEW q \in Twin(p)
  PROVE  Fresh(b, q) <=> \A s \in Served : Shape(s) # Shape(q)
<1>1. Served = {b.endpoints[e].path : e \in 1..Len(b.endpoints)}
  BY ServedPaths
<1>2. \A s \in Served : Matchable(s)
  BY <1>1, RouterShape
<1>3. Matchable(q)
  BY <1>2, TwinForms
<1>4. q \in Seq(Parts) /\ \A s \in Served : s \in Seq(Parts)
  BY <1>2, <1>3, MatchedSegments
<1>5. \A s \in Served : Shape(s) = Shape(q) <=> SameShape(s, q)
  BY <1>4, ShapesAgree
<1>6. Fresh(b, q) <=> \A s \in Served : ~SameShape(s, q)
  BY <1>1 DEF Fresh
<1> QED BY <1>5, <1>6

\* The other forms that the code adds are those that nothing has claimed.
LEMMA OtherFormPairs ==
  ASSUME Assembled, NEW old, NEW b, ServedBy(old, b)
  PROVE  \A f : f \in OtherForms <=>
            /\ builder.policy # "strict"
            /\ \E p \in Served : \E q : f = <<q, p>> /\ q \in Twin(p) /\ Fresh(b, q)
<1>1. CASE builder.policy = "strict"
  BY <1>1 DEF OtherForms
<1>2. CASE builder.policy # "strict"
  <2>1. OtherForms = {f \in UNION {{<<q, p>> : q \in Twin(p)} : p \in Served} :
                        \A s \in Served : Shape(s) # Shape(f[1])}
    BY <1>2 DEF OtherForms
  <2>2. \A f : f \in OtherForms <=>
            \E p \in Served : \E q \in Twin(p) :
               f = <<q, p>> /\ \A s \in Served : Shape(s) # Shape(q)
    BY <2>1
  <2>3. \A p \in Served : \A q \in Twin(p) :
           Fresh(b, q) <=> \A s \in Served : Shape(s) # Shape(q)
    BY FreshForms
  <2> QED BY <1>2, <2>2, <2>3
<1> QED BY <1>1, <1>2

\* A free form is not declared.
LEMMA FreshNotServed ==
  ASSUME Assembled, NEW old, NEW b, ServedBy(old, b), NEW q, Fresh(b, q)
  PROVE  q \notin Served
<1>1. Served = {b.endpoints[e].path : e \in 1..Len(b.endpoints)}
  BY ServedPaths
<1>2. ASSUME NEW e \in 1..Len(b.endpoints), b.endpoints[e].path = q PROVE FALSE
  BY <1>2 DEF Fresh, SameShape
<1> QED BY <1>1, <1>2

\* An endpoint is the declared one of its path, or for the other form of one.
LEMMA EndpointKinds ==
  ASSUME Assembled, NEW old, NEW b, ServedBy(old, b), NEW e \in DOMAIN router.endpoints,
         NEW path, path = router.endpoints[e].path
  PROVE  \/ e \in 1..Len(b.endpoints) /\ path \in Served
         \/ /\ path \notin Served /\ builder.policy # "strict"
            /\ \E s \in 1..Len(b.endpoints) :
                  Formed(b, router, e, s) /\ <<path, b.endpoints[s].path>> \in OtherForms
<1>1. PICK B \in Nat, L \in Nat : /\ B = Len(b.endpoints) /\ L = Len(router.endpoints)
                                  /\ DOMAIN router.endpoints = 1..L /\ B <= L
  BY RouterShape
<1>2. CASE e \in 1..B
  BY <1>1, <1>2, RouterShape, ServedPaths
<1>3. CASE e \notin 1..B
  <2>1. e \in 1..L /\ e > B
    BY <1>1, <1>3
  <2>2. builder.policy # "strict"
    BY <1>1, <1>3 DEF ServedBy
  <2>3. Twinned(B, b, router)
    BY <1>1, <2>2 DEF ServedBy
  <2>4. PICK s \in 1..B : Formed(b, router, e, s)
    BY <1>1, <2>1, <2>3 DEF Twinned
  <2>5. path \in Twin(b.endpoints[s].path) /\ Fresh(b, path)
    BY <2>4 DEF Formed
  <2>6. b.endpoints[s].path \in Served
    BY <1>1, ServedPaths
  <2>7. <<path, b.endpoints[s].path>> \in OtherForms
    BY <2>2, <2>5, <2>6, OtherFormPairs
  <2> QED BY <1>1, <2>2, <2>4, <2>5, <2>7, FreshNotServed
<1> QED BY <1>2, <1>3

\* The tables have the declared paths and their other forms.
LEMMA RouterPathsServed ==
  ASSUME Assembled, NEW old, NEW b, ServedBy(old, b)
  PROVE  RouterPaths = Served \cup Forms
<1>1. PICK B \in Nat, L \in Nat : /\ B = Len(b.endpoints) /\ L = Len(router.endpoints)
                                  /\ DOMAIN router.endpoints = 1..L /\ B <= L
  BY RouterShape
<1>2. ASSUME NEW x \in RouterPaths PROVE x \in Served \cup Forms
  <2>1. PICK e \in DOMAIN router.endpoints : x = router.endpoints[e].path
    BY DEF RouterPaths
  <2>2. x \in Served \/ \E p : <<x, p>> \in OtherForms
    BY <2>1, EndpointKinds
  <2>3. \A p : <<x, p>>[1] = x
    OBVIOUS
  <2> QED BY <2>2, <2>3 DEF Forms
<1>3. ASSUME NEW x \in Served PROVE x \in RouterPaths
  <2>1. PICK e \in 1..B : x = b.endpoints[e].path
    BY <1>1, ServedPaths
  <2>2. e \in 1..L /\ router.endpoints[e].path = x
    BY <1>1, <2>1, RouterShape
  <2> QED BY <1>1, <2>2 DEF RouterPaths
<1>4. ASSUME NEW x \in Forms PROVE x \in RouterPaths
  <2>1. PICK f \in OtherForms : x = f[1]
    BY DEF Forms
  <2>2. PICK p, q : p \in Served /\ f = <<q, p>> /\ q \in Twin(p) /\ Fresh(b, q) /\ builder.policy # "strict"
    BY OtherFormPairs
  <2>3. x = q
    BY <2>1, <2>2
  <2>4. PICK s \in 1..B : p = b.endpoints[s].path
    BY <1>1, <2>2, ServedPaths
  <2>5. Twinned(B, b, router)
    BY <1>1, <2>2 DEF ServedBy
  <2>6. PICK e \in 1..L : router.endpoints[e].path = q
    BY <1>1, <2>2, <2>4, <2>5 DEF Twinned
  <2> QED BY <1>1, <2>3, <2>6 DEF RouterPaths
<1> QED BY <1>2, <1>3, <1>4

\* The matcher takes every path of the router.
LEMMA PathsMatched ==
  ASSUME Assembled, NEW old, NEW b, ServedBy(old, b), NEW p \in RouterPaths
  PROVE  Matchable(p)
<1>1. \A s \in Served : Matchable(s)
  BY ServedPaths, RouterShape
<1>2. CASE p \in Served
  BY <1>1, <1>2
<1>3. CASE p \in Forms
  <2>1. PICK f \in OtherForms : p = f[1]
    BY <1>3 DEF Forms
  <2>2. PICK s, q : s \in Served /\ f = <<q, s>> /\ q \in Twin(s)
    BY OtherFormPairs
  <2>3. p = q /\ Matchable(s)
    BY <1>1, <2>1, <2>2
  <2> QED BY <2>2, <2>3, TwinForms
<1> QED BY <1>2, <1>3, RouterPathsServed

\* Each path of the tables has its other form there, or one that looks like it.
LEMMA PathsPaired ==
  ASSUME Assembled, NEW old, NEW b, ServedBy(old, b), builder.policy # "strict"
  PROVE  Paired(RouterPaths)
<1>1. \A p \in RouterPaths : Matchable(p)
  BY PathsMatched
<1>2. RouterPaths = Served \cup Forms
  BY RouterPathsServed
<1>3. \A x \in Forms : \E p \in Served : x \in Twin(p) /\ Fresh(b, x)
  <2>1. SUFFICES ASSUME NEW x \in Forms PROVE \E p \in Served : x \in Twin(p) /\ Fresh(b, x)
    OBVIOUS
  <2>2. PICK f \in OtherForms : x = f[1]
    BY DEF Forms
  <2>3. PICK p, q : p \in Served /\ f = <<q, p>> /\ q \in Twin(p) /\ Fresh(b, q)
    BY OtherFormPairs
  <2> QED BY <2>2, <2>3
<1>4. \A p \in Served : \E e \in 1..Len(b.endpoints) : p = b.endpoints[e].path
  BY ServedPaths
<1>5. ASSUME NEW p \in Served, NEW q \in Served, SameShape(p, q) PROVE p = q
  <2>1. PICK e \in 1..Len(b.endpoints), f \in 1..Len(b.endpoints) :
          p = b.endpoints[e].path /\ q = b.endpoints[f].path
    BY <1>4
  <2> QED BY <1>5, <2>1 DEF ServedBy, Based
<1>6. ASSUME NEW p \in Served, NEW x \in Forms PROVE ~SameShape(p, x) /\ ~SameShape(x, p)
  <2>1. Fresh(b, x)
    BY <1>3
  <2>2. ~SameShape(p, x)
    BY <1>4, <2>1 DEF Fresh
  <2>3. SameShape(x, p) => SameShape(p, x)
    BY DEF SameShape
  <2> QED BY <2>2, <2>3
<1>7. ASSUME NEW x \in Forms, NEW y \in Forms, SameShape(x, y) PROVE x = y
  <2>1. PICK p \in Served : x \in Twin(p)
    BY <1>3
  <2>2. PICK q \in Served : y \in Twin(q)
    BY <1>3
  <2>3. SameShape(p, q)
    BY <1>1, <1>2, <1>7, <2>1, <2>2, TwinsDiffer
  <2>4. p = q
    BY <1>5, <2>3
  <2> QED BY <2>1, <2>2, <2>4, TwinOnce
<1>8. \A p, q \in RouterPaths : SameShape(p, q) => p = q
  BY <1>2, <1>5, <1>6, <1>7
<1>9. ASSUME NEW p \in RouterPaths, NEW t \in Twin(p) PROVE \E r \in RouterPaths : SameShape(r, t)
  <2>1. CASE p \in Served /\ Fresh(b, t)
    <3>1. <<t, p>> \in OtherForms
      BY <2>1, OtherFormPairs
    <3>2. t \in Forms
      BY <3>1 DEF Forms
    <3>3. SameShape(t, t)
      BY DEF SameShape
    <3> QED BY <1>2, <3>2, <3>3
  <2>2. CASE p \in Served /\ ~Fresh(b, t)
    <3>1. PICK e \in 1..Len(b.endpoints) : SameShape(b.endpoints[e].path, t)
      BY <2>2 DEF Fresh
    <3> QED BY <1>2, <3>1, ServedPaths
  <2>3. CASE p \in Forms
    <3>1. PICK s \in Served : p \in Twin(s)
      BY <1>3, <2>3
    <3>2. Matchable(s)
      BY <1>1, <1>2
    <3>3. t = s
      BY <3>1, <3>2, TwinForms
    <3>4. SameShape(s, t)
      BY <3>3 DEF SameShape
    <3> QED BY <1>2, <3>4
  <2> QED BY <1>2, <2>1, <2>2, <2>3
<1> QED BY <1>1, <1>8, <1>9 DEF Paired

-----------------------------------------------------------------------------
(* The declarations that a slot of an endpoint is for.                     *)

On(path, slot) == {r \in Declarations : ToMatchitPath(r.path) = path /\ slot \in Slots(r)}

\* For, by the slots that it asks for.
LEMMA ForSlots ==
  ASSUME NEW path, NEW method
  PROVE  For(path, method) =
            IF On(path, method) # {} THEN On(path, method)
            ELSE IF method = "HEAD" /\ On(path, "GET") # {} THEN On(path, "GET")
                 ELSE On(path, AnyMethod)
BY DEF For, On

\* A slot of an endpoint holds the one declaration that is on it.
LEMMA SlotOwner ==
  ASSUME Assembled, NEW old, NEW b, ServedBy(old, b), NEW e \in 1..Len(b.endpoints),
         NEW slot \in AllSlots, NEW i, i = old[e].table[slot]
  PROVE  /\ i = 0 => On(b.endpoints[e].path, slot) = {}
         /\ i # 0 => i \in 1..Count /\ On(b.endpoints[e].path, slot) = {Declaration(i)}
<1>1. PICK path : path = b.endpoints[e].path /\ path = old[e].path /\ e \in 1..Len(old)
  BY RouterShape
<1>2. Declarations = {Declaration(j) : j \in 1..Count}
  BY DeclarationsRegistered
<1>3. \A r : r \in On(path, slot) <=>
          \E j \in 1..Count : r = Declaration(j) /\ Key(j) = path /\ slot \in SlotsOf(j)
  BY <1>2 DEF On, Key, SlotsOf
<1>4. \A j \in 1..Count : Key(j) = path /\ slot \in SlotsOf(j) => i = j
  BY <1>1 DEF ServedBy, Wired
<1>5. i # 0 => i \in 1..Count /\ Key(i) = path /\ slot \in SlotsOf(i)
  BY <1>1 DEF ServedBy, Wired
<1>6. \A j \in 1..Count : j # 0
  OBVIOUS
<1>7. i = 0 => On(path, slot) = {}
  BY <1>3, <1>4, <1>6
<1>8. i # 0 => On(path, slot) = {Declaration(i)}
  BY <1>3, <1>4, <1>5
<1> QED BY <1>1, <1>5, <1>7, <1>8

\* Which route an endpoint has for a method.
IndexOf(ep, method) == IF ep.table[method] # 0 THEN ep.table[method] ELSE ep.table[AnyMethod]

\* With HEAD from GET, an endpoint has the route that a method is for.
LEMMA EndpointOwner ==
  ASSUME Assembled, NEW old, NEW b, ServedBy(old, b), NEW e \in 1..Len(b.endpoints),
         NEW method \in Methods, NEW x, x = IndexOf(b.endpoints[e], method)
  PROVE  /\ x = 0 => For(b.endpoints[e].path, method) = {}
         /\ x # 0 => x \in 1..Count /\ For(b.endpoints[e].path, method) = {Declaration(x)}
<1>1. PICK path : path = b.endpoints[e].path /\ e \in 1..Len(old)
  BY RouterShape
<1>2. method \in AllSlots /\ AnyMethod \in AllSlots /\ "GET" \in AllSlots /\ AnyMethod # "HEAD"
      /\ AnyMethod # method
  BY RoutesAssumption DEF RoutesAssumption, AllSlots
<1>3. PICK T : T = old[e].table
  OBVIOUS
<1>4. HeadFromGet(old, b.endpoints)
  BY DEF ServedBy
<1>5. \A m \in AllSlots : b.endpoints[e].table[m] = IF m = "HEAD" /\ T[m] = 0 THEN T["GET"] ELSE T[m]
  BY <1>1, <1>3, <1>4 DEF HeadFromGet
<1>6. PICK U : U = b.endpoints[e].table
  OBVIOUS
<1>7. U[AnyMethod] = T[AnyMethod] /\ U[method] = IF method = "HEAD" /\ T[method] = 0 THEN T["GET"] ELSE T[method]
  BY <1>2, <1>5, <1>6
<1>8. x = IF U[method] # 0 THEN U[method] ELSE U[AnyMethod]
  BY <1>6 DEF IndexOf
<1>9. ASSUME NEW slot \in AllSlots
      PROVE  /\ T[slot] = 0 => On(path, slot) = {}
             /\ T[slot] # 0 => T[slot] \in 1..Count /\ On(path, slot) = {Declaration(T[slot])}
  BY <1>1, <1>3, SlotOwner
<1>10. CASE T[method] # 0
  <2>1. x = T[method] /\ On(path, method) = {Declaration(x)} /\ x \in 1..Count
    BY <1>2, <1>7, <1>8, <1>9, <1>10
  <2>2. For(path, method) = {Declaration(x)}
    BY <2>1, ForSlots
  <2> QED BY <1>1, <1>7, <1>8, <1>10, <2>1, <2>2
<1>11. CASE T[method] = 0 /\ method = "HEAD" /\ T["GET"] # 0
  <2>1. x = T["GET"] /\ On(path, "GET") = {Declaration(x)} /\ x \in 1..Count /\ On(path, method) = {}
    BY <1>2, <1>7, <1>8, <1>9, <1>11
  <2>2. For(path, method) = {Declaration(x)}
    BY <1>11, <2>1, ForSlots
  <2> QED BY <1>1, <1>8, <1>7, <1>11, <2>1, <2>2
<1>12. CASE T[method] = 0 /\ ~(method = "HEAD" /\ T["GET"] # 0)
  <2>1. U[method] = 0
    BY <1>7, <1>12
  <2>2. x = T[AnyMethod]
    BY <1>7, <1>8, <2>1
  <2>3. On(path, method) = {} /\ (method = "HEAD" => On(path, "GET") = {})
    BY <1>2, <1>9, <1>12
  <2>4. For(path, method) = On(path, AnyMethod)
    BY <2>3, ForSlots
  <2> QED BY <1>1, <1>2, <1>9, <2>2, <2>4
<1> QED BY <1>10, <1>11, <1>12

-----------------------------------------------------------------------------
(* The endpoint that a URL leads to.                                       *)

\* The endpoints that a URL leads to.
LEMMA AtUrl ==
  ASSUME NEW url
  PROVE  \A e : e \in At(url) <=> /\ e \in DOMAIN router.endpoints
                                  /\ router.endpoints[e].path \in BestFits(RouterPaths, url)
BY DEF At, RouterPaths

\* It is on one path.
LEMMA AtOnePath ==
  ASSUME Assembled, NEW old, NEW b, ServedBy(old, b), NEW url,
         NEW path \in BestFits(RouterPaths, url), NEW e \in At(url)
  PROVE  router.endpoints[e].path = path
<1>1. router.endpoints[e].path \in BestFits(RouterPaths, url)
  BY AtUrl
<1>2. \A p \in RouterPaths : Matchable(p)
  BY PathsMatched
<1> QED BY <1>1, <1>2, OneBest

\* There is one if a path takes the URL.
LEMMA AtSome ==
  ASSUME NEW url
  PROVE  At(url) = {} <=> BestFits(RouterPaths, url) = {}
<1>1. ASSUME NEW p \in BestFits(RouterPaths, url) PROVE At(url) # {}
  <2>1. p \in RouterPaths
    BY DEF BestFits
  <2>2. PICK e \in DOMAIN router.endpoints : p = router.endpoints[e].path
    BY <2>1 DEF RouterPaths
  <2> QED BY <2>2, AtUrl
<1> QED BY <1>1, AtUrl

\* What a request comes to, once the route of its endpoint is known.
AnswerAt(x, url) ==
    IF x = 0 THEN [is |-> "method not allowed", layers |-> router.always]
    ELSE IF router.routes[x].redirects
         THEN [is |-> "redirect", to |-> OtherForm(router.routes[x].path, url),
               layers |-> router.routes[x].layers]
         ELSE [is |-> "route", id |-> router.routes[x].id, layers |-> router.routes[x].layers,
               layouts |-> router.routes[x].layouts]

\* The answer comes from one of these endpoints.
LEMMA DispatchAt ==
  ASSUME NEW method, NEW url, At(url) # {}
  PROVE  \E e \in At(url) : Dispatch(method, url) = AnswerAt(IndexOf(router.endpoints[e], method), url)
<1>1. PICK e : e = (CHOOSE x \in At(url) : TRUE) /\ e \in At(url)
  OBVIOUS
<1>2. PICK ep : ep = router.endpoints[e]
  OBVIOUS
<1> QED BY <1>1, <1>2 DEF Dispatch, IndexOf, AnswerAt

\* Route x is that of what the path is for, if it is for anything.
RouteFor(path, method, x) ==
    /\ x = 0 => For(path, method) = {}
    /\ x # 0 => /\ x \in 1..Count /\ For(path, method) = {Declaration(x)}
                /\ router.routes[x] = RouteOf(x) /\ ~router.routes[x].redirects

\* The route of a declared endpoint is that of its declaration.
LEMMA DeclaredAnswer ==
  ASSUME Assembled, NEW old, NEW b, ServedBy(old, b), NEW method \in Methods,
         NEW e \in 1..Len(b.endpoints), NEW ep, NEW x, x = IndexOf(ep, method),
         ep.table = b.endpoints[e].table
  PROVE  RouteFor(b.endpoints[e].path, method, x)
<1>1. x = IndexOf(b.endpoints[e], method)
  BY DEF IndexOf
<1>2. /\ x = 0 => For(b.endpoints[e].path, method) = {}
      /\ x # 0 => x \in 1..Count /\ For(b.endpoints[e].path, method) = {Declaration(x)}
  BY <1>1, EndpointOwner
<1>3. ASSUME x # 0 PROVE router.routes[x] = RouteOf(x) /\ ~router.routes[x].redirects
  <2>1. router.routes[x] = RouteOf(x)
    BY <1>2, <1>3, RouterShape
  <2>2. RouteOf(x).redirects = FALSE
    BY DEF RouteOf
  <2> QED BY <2>1, <2>2
<1> QED BY <1>2, <1>3 DEF RouteFor

-----------------------------------------------------------------------------
(* Stacks.                                                                 *)

\* The entries at `places`, each once, in the order of `before`.
LaidOut(stack, entries, places, before) ==
    /\ ToSet(stack) = {entries[i] : i \in places}
    /\ Len(stack) = Cardinality({entries[i] : i \in places})
    /\ \A k, l \in DOMAIN stack : k < l =>
          \E i, j \in places : stack[k] = entries[i] /\ stack[l] = entries[j] /\ <<i, j>> \in before

\* What is arranged has each entry once, in order.
LEMMA ArrangedOnce ==
  ASSUME NEW S, NEW entries \in Seq(S), Once(entries), NEW places \in SUBSET (1..Len(entries)),
         NEW before, Orders(before, places)
  PROVE  LaidOut(Arranged(entries, places, before), entries, places, before)
<1>1. PICK N \in Nat : N = Len(entries)
  BY SequenceLength
<1>2. IsFiniteSet(1..N)
  BY FS_Interval
<1>3. IsFiniteSet(places)
  BY <1>1, <1>2, FS_Subset
<1>4. PICK n \in Nat : n = Cardinality(places)
  BY <1>3, FS_CardinalityType
<1>5. PICK f : /\ InOrder(f, places, before)
               /\ Arranged(entries, places, before) = [k \in 1..n |-> entries[f[k]]]
  BY <1>3, <1>4, ArrangedInOrder
<1>6. PICK st : st = [k \in 1..n |-> entries[f[k]]]
  OBVIOUS
<1>7. f \in Bijection(1..n, places)
  BY <1>4, <1>5 DEF InOrder
<1>8. /\ f \in [1..n -> places]
      /\ \A k, l \in 1..n : f[k] = f[l] => k = l
      /\ \A i \in places : \E k \in 1..n : f[k] = i
  BY <1>7 DEF Bijection, Injection, IsInjective, Surjection
<1>9. \A k \in 1..n : f[k] \in places /\ f[k] \in 1..N /\ st[k] = entries[f[k]]
  BY <1>1, <1>6, <1>8
<1>10. PICK M : M = {entries[i] : i \in places}
  OBVIOUS
<1>11. \A i, j \in places : entries[i] = entries[j] => i = j
  BY DEF Once
<1>12. st \in [1..n -> M]
  BY <1>6, <1>9, <1>10
<1>13. \A x \in M : \E k \in 1..n : st[k] = x
  <2>1. SUFFICES ASSUME NEW i \in places PROVE \E k \in 1..n : st[k] = entries[i]
    BY <1>10
  <2>2. PICK k \in 1..n : f[k] = i
    BY <1>8
  <2> QED BY <1>9, <2>2
<1>14. \A k, l \in 1..n : st[k] = st[l] => k = l
  BY <1>8, <1>9, <1>11
<1>15. st \in Bijection(1..n, M)
  BY <1>12, <1>13, <1>14 DEF Bijection, Injection, IsInjective, Surjection
<1>16. Cardinality(M) = n
  BY <1>15, FS_CountingElements DEF ExistsBijection
<1>17. Len(st) = n /\ DOMAIN st = 1..n
  BY <1>6
<1>18. ToSet(st) = M
  BY <1>12, <1>13, <1>17 DEF ToSet
<1>19. ASSUME NEW k \in 1..n, NEW l \in 1..n, k < l
       PROVE  \E i, j \in places : st[k] = entries[i] /\ st[l] = entries[j] /\ <<i, j>> \in before
  <2>1. <<f[k], f[l]>> \in before
    BY <1>4, <1>5, <1>19 DEF InOrder
  <2> QED BY <2>1, <1>9
<1>20. LaidOut(st, entries, places, before)
  BY <1>10, <1>16, <1>17, <1>18, <1>19 DEF LaidOut
<1> QED BY <1>5, <1>6, <1>20

\* The shorter first; of those of one length, the ones that come first, or last.
ByLength(places, length, rising) ==
    {ij \in places \X places :
        \/ length[ij[1]] < length[ij[2]]
        \/ length[ij[1]] = length[ij[2]] /\ IF rising THEN ij[1] < ij[2] ELSE ij[1] > ij[2]}

\* A stable sort by length orders its places.
LEMMA ByLengthOrders ==
  ASSUME NEW places \in SUBSET Nat, NEW length \in [places -> Nat], NEW rising \in BOOLEAN
  PROVE  Orders(ByLength(places, length, rising), places)
<1>1. \A i \in places : i \in Nat /\ length[i] \in Nat
  OBVIOUS
<1>2. \A i, j \in places : <<i, j>> \in ByLength(places, length, rising) <=>
         \/ length[i] < length[j]
         \/ length[i] = length[j] /\ IF rising THEN i < j ELSE i > j
  BY DEF ByLength
<1> HIDE DEF ByLength
<1>3. \A i \in places : <<i, i>> \notin ByLength(places, length, rising)
  BY <1>1, <1>2
<1>4. \A i, j \in places : i # j =>
         <<i, j>> \in ByLength(places, length, rising) \/ <<j, i>> \in ByLength(places, length, rising)
  BY <1>1, <1>2
<1>5. ASSUME NEW i \in places, NEW j \in places, NEW k \in places,
             <<i, j>> \in ByLength(places, length, rising), <<j, k>> \in ByLength(places, length, rising)
      PROVE  <<i, k>> \in ByLength(places, length, rising)
  <2>1. \/ length[i] < length[j]
        \/ length[i] = length[j] /\ IF rising THEN i < j ELSE i > j
    BY <1>2, <1>5
  <2>2. \/ length[j] < length[k]
        \/ length[j] = length[k] /\ IF rising THEN j < k ELSE j > k
    BY <1>2, <1>5
  <2>3. \/ length[i] < length[k]
        \/ length[i] = length[k] /\ IF rising THEN i < k ELSE i > k
    BY <1>1, <2>1, <2>2
  <2> QED BY <1>2, <2>3
<1> QED BY <1>3, <1>4, <1>5 DEF Orders

\* A path that another one starts with is shorter.
LEMMA StrictPrefixShorter ==
  ASSUME NEW p, NEW q, Valid(p), Valid(q), IsStrictPrefix(p, q)
  PROVE  PathLen(p) \in Nat /\ PathLen(q) \in Nat /\ PathLen(p) < PathLen(q)
<1>1. PICK m \in Nat, n \in Nat : m = Len(p) /\ n = Len(q) /\ p \in Seq(Segments) /\ q \in Seq(Segments)
  BY DEF Valid
<1>2. IsPrefix(p, q) /\ p # q
  BY DEF IsStrictPrefix
<1>3. m <= n /\ \A i \in 1..m : p[i] = q[i]
  BY <1>1, <1>2, PrefixSegments
<1>4. m # n
  <2>1. SUFFICES ASSUME m = n PROVE FALSE
    OBVIOUS
  <2>2. p = q
    BY <1>1, <1>3, <2>1, SeqEqual
  <2> QED BY <1>2, <2>2
<1>5. PathLen(p) \in Nat /\ PathLen(q) \in Nat /\ PathLen(p) + (n - m) <= PathLen(q)
  BY <1>1, <1>3, PathLenGrows
<1> QED BY <1>3, <1>4, <1>5

\* The length of a path is a number.
LEMMA PathLength ==
  ASSUME NEW p, Valid(p)
  PROVE  PathLen(p) \in Nat
<1>1. Len(p) \in Nat
  BY DEF Valid
<1> QED BY <1>1, PathLenGrows

\* Only a layer without a path has no length.
LEMMA LayerLengths ==
  ASSUME NEW l, l.always \in BOOLEAN, Valid(l.path)
  PROVE  /\ PathLen(l.path) \in Nat /\ LayerLen(l) \in Nat
         /\ l.always <=> LayerLen(l) = 0
         /\ ~l.always => LayerLen(l) = PathLen(l.path) + 1
<1>2. PathLen(l.path) \in Nat
  BY PathLength
<1> QED BY <1>2 DEF LayerLen

\* What comes later among the layers comes at a larger place.
LEMMA LaterPlaces ==
  ASSUME NEW S, NEW entries \in Seq(S), Once(entries), NEW i \in 1..Len(entries), NEW j \in 1..Len(entries),
         Later(entries, entries[i], entries[j])
  PROVE  i > j
<1>1. PICK k \in 1..Len(entries), l \in 1..Len(entries) :
         k > l /\ entries[k] = entries[i] /\ entries[l] = entries[j]
  BY SequenceLength DEF Later
<1>2. k = i /\ l = j
  BY <1>1 DEF Once
<1> QED BY <1>1, <1>2

LayerOrder(places) ==
    ByLength(places, [i \in places |-> LayerLen(builder.layers[i])], FALSE)

\* What this order puts first is not inside what it puts second.
LEMMA LayerOrderRight ==
  ASSUME Assembled, NEW places \in SUBSET (1..Len(builder.layers)),
         NEW i \in places, NEW j \in places, <<i, j>> \in LayerOrder(places)
  PROVE  ~LayerOutside(builder.layers[j], builder.layers[i])
<1>1. PICK n \in Nat : n = Len(builder.layers)
  BY LayerFields
<1>2. PICK a : a = builder.layers[j] /\ a.always \in BOOLEAN /\ Valid(a.path)
  BY LayerFields
<1>3. PICK b : b = builder.layers[i] /\ b.always \in BOOLEAN /\ Valid(b.path)
  BY LayerFields
<1>4. LayerLen(b) < LayerLen(a) \/ (LayerLen(b) = LayerLen(a) /\ i > j)
  BY <1>2, <1>3 DEF LayerOrder, ByLength
<1>5. Later(builder.layers, a, b) => j > i
  BY <1>2, <1>3, LaterPlaces DEF Assembled
<1>6. i \in Nat /\ j \in Nat
  BY <1>1
<1>7. PathLen(a.path) \in Nat /\ LayerLen(a) \in Nat /\ (a.always <=> LayerLen(a) = 0)
      /\ (~a.always => LayerLen(a) = PathLen(a.path) + 1)
  BY <1>2, LayerLengths
<1>8. PathLen(b.path) \in Nat /\ LayerLen(b) \in Nat /\ (b.always <=> LayerLen(b) = 0)
      /\ (~b.always => LayerLen(b) = PathLen(b.path) + 1)
  BY <1>3, LayerLengths
<1>9. SUFFICES ASSUME LayerOutside(a, b) PROVE FALSE
  BY <1>2, <1>3
<1>10. CASE a.always \/ b.always
  <2>1. a.always /\ (b.always => Later(builder.layers, a, b))
    BY <1>9, <1>10 DEF LayerOutside
  <2>2. LayerLen(a) = 0 /\ LayerLen(b) = 0 /\ i > j
    BY <1>4, <1>7, <1>8, <2>1
  <2>3. j > i
    BY <1>5, <1>8, <2>1, <2>2
  <2> QED BY <1>6, <2>2, <2>3
<1>11. CASE ~(a.always \/ b.always)
  <2>1. IsStrictPrefix(a.path, b.path) \/ (a.path = b.path /\ Later(builder.layers, a, b))
    BY <1>9, <1>11 DEF LayerOutside
  <2>2. CASE IsStrictPrefix(a.path, b.path)
    <3>1. PathLen(a.path) < PathLen(b.path)
      BY <1>2, <1>3, <2>2, StrictPrefixShorter
    <3> QED BY <1>4, <1>7, <1>8, <1>11, <3>1
  <2>3. CASE a.path = b.path /\ Later(builder.layers, a, b)
    <3>1. LayerLen(a) = LayerLen(b)
      BY <1>7, <1>8, <1>11, <2>3
    <3> QED BY <1>4, <1>5, <1>6, <1>7, <2>3, <3>1
  <2> QED BY <2>1, <2>2, <2>3
<1> QED BY <1>10, <1>11

\* Any of the layers, in this order.
LEMMA LayersStacked ==
  ASSUME Assembled, NEW places \in SUBSET (1..Len(builder.layers)), NEW stack,
         stack = Arranged(builder.layers, places, LayerOrder(places)),
         NEW members, members = {builder.layers[i] : i \in places}
  PROVE  Stacked(stack, members, LayerOutside)
<1>1. builder.layers \in Seq(LayerDecls) /\ Once(builder.layers)
  BY DEF Assembled
<1>2. PICK n \in Nat : n = Len(builder.layers)
  BY LayerFields
<1>3. PICK length : length = [i \in places |-> LayerLen(builder.layers[i])]
  OBVIOUS
<1>4. length \in [places -> Nat] /\ places \in SUBSET Nat
  <2>1. ASSUME NEW i \in places PROVE LayerLen(builder.layers[i]) \in Nat
    <3>1. builder.layers[i].always \in BOOLEAN /\ Valid(builder.layers[i].path)
      BY LayerFields
    <3> QED BY <3>1, LayerLengths
  <2>2. places \in SUBSET Nat
    BY <1>2
  <2> QED BY <1>3, <2>1, <2>2
<1>5. Orders(LayerOrder(places), places)
  <2>1. LayerOrder(places) = ByLength(places, length, FALSE)
    BY <1>3 DEF LayerOrder
  <2> QED BY <1>4, <2>1, ByLengthOrders
<1>6. LaidOut(stack, builder.layers, places, LayerOrder(places))
  BY <1>1, <1>5, ArrangedOnce
<1>7. ToSet(stack) = members /\ Len(stack) = Cardinality(members)
  BY <1>6 DEF LaidOut
<1>8. ASSUME NEW k \in DOMAIN stack, NEW l \in DOMAIN stack, k < l
      PROVE  ~LayerOutside(stack[l], stack[k])
  <2>1. PICK i \in places, j \in places :
          stack[k] = builder.layers[i] /\ stack[l] = builder.layers[j] /\ <<i, j>> \in LayerOrder(places)
    BY <1>6, <1>8 DEF LaidOut
  <2>2. ~LayerOutside(builder.layers[j], builder.layers[i])
    BY <2>1, LayerOrderRight
  <2> QED BY <2>1, <2>2
<1> QED BY <1>7, <1>8 DEF Stacked

\* The layers that belong around every answer.
LEMMA AlwaysStacked ==
  ASSUME Assembled
  PROVE  Stacked(AlwaysLayers, Always, LayerOutside)
<1>1. PICK places : places = {i \in DOMAIN builder.layers : builder.layers[i].always}
  OBVIOUS
<1>2. PICK n \in Nat : n = Len(builder.layers) /\ DOMAIN builder.layers = 1..n
  BY LayerFields
<1>3. places \in SUBSET (1..Len(builder.layers))
  BY <1>1, <1>2
<1>4. \A i \in places : LayerLen(builder.layers[i]) = 0
  BY <1>1 DEF LayerLen
<1>5. LayerOrder(places) = {ij \in places \X places : ij[1] > ij[2]}
  BY <1>4 DEF LayerOrder, ByLength
<1>6. AlwaysLayers = Arranged(builder.layers, places, LayerOrder(places))
  BY <1>1, <1>5 DEF AlwaysLayers
<1>7. Always = {builder.layers[i] : i \in places}
  BY <1>1 DEF Always, ToSet
<1> QED BY <1>3, <1>6, <1>7, LayersStacked

\* The layers around a path.
LEMMA PathStacked ==
  ASSUME Assembled, NEW path, Valid(path)
  PROVE  Stacked(LayersForPath(path),
                 Always \cup {l \in ToSet(builder.layers) \ Always : IsPrefix(l.path, path)},
                 LayerOutside)
<1>1. PICK places : places = {i \in DOMAIN builder.layers : Wraps(builder.layers[i], path)}
  OBVIOUS
<1>2. PICK n \in Nat : n = Len(builder.layers) /\ DOMAIN builder.layers = 1..n
  BY LayerFields
<1>3. places \in SUBSET (1..Len(builder.layers))
  BY <1>1, <1>2
<1>4. LayersForPath(path) = Arranged(builder.layers, places, LayerOrder(places))
  BY <1>1 DEF LayersForPath, LayerOrder, ByLength
<1>5. ASSUME NEW i \in 1..n
      PROVE  i \in places <=> builder.layers[i].always \/ IsPrefix(builder.layers[i].path, path)
  <2>1. Valid(builder.layers[i].path)
    BY <1>2, LayerFields
  <2>2. StartsWith(path, builder.layers[i].path) <=> IsPrefix(builder.layers[i].path, path)
    BY <2>1, StartsWithPrefix
  <2> QED BY <1>1, <1>2, <2>2 DEF Wraps
<1>6. Always \cup {l \in ToSet(builder.layers) \ Always : IsPrefix(l.path, path)}
        = {builder.layers[i] : i \in places}
  <2>1. ToSet(builder.layers) = {builder.layers[i] : i \in 1..n}
    BY <1>2 DEF ToSet
  <2>2. \A l : l \in Always <=> l \in ToSet(builder.layers) /\ l.always
    BY DEF Always
  <2> QED BY <1>2, <1>3, <1>5, <2>1, <2>2
<1> QED BY <1>3, <1>4, <1>6, LayersStacked

\* The layouts that are registered.
LEMMA LayoutFields ==
  ASSUME Assembled
  PROVE  /\ Len(builder.layouts) \in Nat /\ DOMAIN builder.layouts = 1..Len(builder.layouts)
         /\ \A i \in 1..Len(builder.layouts) : Valid(builder.layouts[i].path)
<1>1. builder.layouts \in Seq(LayoutDecls)
  BY DEF Assembled
<1>2. /\ Len(builder.layouts) \in Nat /\ DOMAIN builder.layouts = 1..Len(builder.layouts)
      /\ \A i \in 1..Len(builder.layouts) : builder.layouts[i] \in LayoutDecls
  BY <1>1, SequenceLength
<1>3. \A l \in LayoutDecls : Valid(l.path)
  BY RoutesAssumption DEF RoutesAssumption
<1> QED BY <1>2, <1>3

LayoutOrder(places) ==
    ByLength(places, [i \in places |-> PathLen(builder.layouts[i].path)], TRUE)

\* What this order puts first is not inside what it puts second.
LEMMA LayoutOrderRight ==
  ASSUME Assembled, NEW places \in SUBSET (1..Len(builder.layouts)),
         NEW i \in places, NEW j \in places, <<i, j>> \in LayoutOrder(places)
  PROVE  ~LayoutOutside(builder.layouts[j], builder.layouts[i])
<1>1. PICK n \in Nat : n = Len(builder.layouts)
  BY LayoutFields
<1>2. PICK a : a = builder.layouts[j] /\ Valid(a.path)
  BY LayoutFields
<1>3. PICK b : b = builder.layouts[i] /\ Valid(b.path)
  BY LayoutFields
<1>4. PathLen(b.path) < PathLen(a.path) \/ (PathLen(b.path) = PathLen(a.path) /\ i < j)
  BY <1>2, <1>3 DEF LayoutOrder, ByLength
<1>5. Later(builder.layouts, b, a) => i > j
  BY <1>2, <1>3, LaterPlaces DEF Assembled
<1>6. i \in Nat /\ j \in Nat
  BY <1>1
<1>7. PathLen(a.path) \in Nat /\ PathLen(b.path) \in Nat
  BY <1>2, <1>3, PathLength
<1>8. SUFFICES ASSUME LayoutOutside(a, b) PROVE FALSE
  BY <1>2, <1>3
<1>9. CASE IsStrictPrefix(a.path, b.path)
  <2>1. PathLen(a.path) < PathLen(b.path)
    BY <1>2, <1>3, <1>9, StrictPrefixShorter
  <2> QED BY <1>4, <1>7, <2>1
<1>10. CASE a.path = b.path /\ Later(builder.layouts, b, a)
  <2>1. PathLen(a.path) = PathLen(b.path)
    BY <1>10
  <2> QED BY <1>4, <1>5, <1>6, <1>7, <1>10, <2>1
<1> QED BY <1>8, <1>9, <1>10 DEF LayoutOutside

\* The layouts of a registration: those around a page, and none around another route.
LEMMA LayoutsStacked ==
  ASSUME Assembled, NEW i \in 1..Count, NEW r, r = Declaration(i)
  PROVE  Stacked(WiredLayouts(i),
                 IF r \in ToSet(builder.pages)
                 THEN {l \in ToSet(builder.layouts) : IsPrefix(l.path, r.path)} ELSE {},
                 LayoutOutside)
<1>1. r \in ToSet(builder.pages) <=> ~(i <= Len(builder.routes))
  BY DeclarationsRegistered
<1>2. CASE i <= Len(builder.routes)
  <2>1. WiredLayouts(i) = <<>> /\ r \notin ToSet(builder.pages)
    BY <1>1, <1>2 DEF WiredLayouts
  <2>2. Stacked(<<>>, {}, LayoutOutside)
    <3>1. Cardinality({}) = 0
      BY FS_EmptySet
    <3>2. Len(<<>>) = 0 /\ DOMAIN <<>> = {}
      OBVIOUS
    <3> QED BY <3>1, <3>2 DEF Stacked, ToSet
  <2> QED BY <2>1, <2>2
<1>3. CASE ~(i <= Len(builder.routes))
  <2>1. r \in ToSet(builder.pages) /\ r \in PageDecls /\ WiredLayouts(i) = WithLayouts(r).layouts
    BY <1>1, <1>3, DeclarationPlaces DEF WiredLayouts
  <2>2. Valid(r.path)
    BY <2>1, DeclarationFields
  <2>3. PICK places : places = {k \in DOMAIN builder.layouts : StartsWith(r.path, builder.layouts[k].path)}
    OBVIOUS
  <2>4. PICK stack : stack = Arranged(builder.layouts, places, LayoutOrder(places))
    OBVIOUS
  <2>5. WithLayouts(r) = [r EXCEPT !.layouts = stack]
    BY <2>3, <2>4 DEF WithLayouts, LayoutOrder, ByLength
  <2>6. r = [id |-> r.id, any |-> r.any, methods |-> r.methods, path |-> r.path, layouts |-> <<>>]
    BY <2>1, DeclarationFields
  <2>7. [r EXCEPT !.layouts = stack].layouts = stack
    BY <2>6
  <2>8. WiredLayouts(i) = stack
    BY <2>1, <2>5, <2>7
  <2>9. PICK n \in Nat : n = Len(builder.layouts) /\ DOMAIN builder.layouts = 1..n
    BY LayoutFields
  <2>10. places \in SUBSET (1..Len(builder.layouts)) /\ places \in SUBSET Nat
    BY <2>3, <2>9
  <2>11. PICK length : length = [k \in places |-> PathLen(builder.layouts[k].path)]
    OBVIOUS
  <2>12. \A k \in 1..n : Valid(builder.layouts[k].path) /\ PathLen(builder.layouts[k].path) \in Nat
    <3>1. ASSUME NEW k \in 1..n PROVE Valid(builder.layouts[k].path)
      BY <2>9, LayoutFields
    <3> QED BY <3>1, PathLength
  <2>13. length \in [places -> Nat]
    BY <2>9, <2>10, <2>11, <2>12
  <2>14. Orders(LayoutOrder(places), places)
    <3>1. LayoutOrder(places) = ByLength(places, length, TRUE)
      BY <2>11 DEF LayoutOrder
    <3> QED BY <2>10, <2>13, <3>1, ByLengthOrders
  <2>15. builder.layouts \in Seq(LayoutDecls) /\ Once(builder.layouts)
    BY DEF Assembled
  <2>16. LaidOut(stack, builder.layouts, places, LayoutOrder(places))
    BY <2>4, <2>10, <2>14, <2>15, ArrangedOnce
  <2>17. \A k \in 1..n : k \in places <=> IsPrefix(builder.layouts[k].path, r.path)
    BY <2>2, <2>3, <2>9, <2>12, StartsWithPrefix
  <2>18. {builder.layouts[k] : k \in places} = {l \in ToSet(builder.layouts) : IsPrefix(l.path, r.path)}
    BY <2>9, <2>10, <2>17 DEF ToSet
  <2>19. ASSUME NEW k \in DOMAIN stack, NEW l \in DOMAIN stack, k < l
         PROVE  ~LayoutOutside(stack[l], stack[k])
    <3>1. PICK g \in places, h \in places :
            stack[k] = builder.layouts[g] /\ stack[l] = builder.layouts[h] /\ <<g, h>> \in LayoutOrder(places)
      BY <2>16, <2>19 DEF LaidOut
    <3>2. ~LayoutOutside(builder.layouts[h], builder.layouts[g])
      BY <2>10, <3>1, LayoutOrderRight
    <3> QED BY <3>1, <3>2
  <2>20. Stacked(stack, {l \in ToSet(builder.layouts) : IsPrefix(l.path, r.path)}, LayoutOutside)
    BY <2>16, <2>18, <2>19 DEF LaidOut, Stacked
  <2> QED BY <2>1, <2>8, <2>20
<1> QED BY <1>2, <1>3

-----------------------------------------------------------------------------
(* Each request has the answer that was declared for it.                   *)

\* The answer of a declared path, at either of its forms.
LEMMA OwnedAnswer ==
  ASSUME Assembled, NEW old, NEW b, ServedBy(old, b), NEW method \in Methods, NEW url,
         NEW s \in 1..Len(b.endpoints), NEW ep, ep.table = b.endpoints[s].table,
         NEW d, d = AnswerAt(IndexOf(ep, method), url),
         NEW owners, owners = For(b.endpoints[s].path, method)
  PROVE  /\ owners # {} => \E r \in owners : AnsweredBy(d, r)
         /\ owners = {} => d.is = "method not allowed" /\ Stacked(d.layers, Always, LayerOutside)
<1>1. PICK x : x = IndexOf(ep, method)
  OBVIOUS
<1>2. /\ x = 0 => owners = {}
      /\ x # 0 => /\ x \in 1..Count /\ owners = {Declaration(x)}
                  /\ router.routes[x] = RouteOf(x) /\ ~router.routes[x].redirects
  <2>1. RouteFor(b.endpoints[s].path, method, x)
    BY <1>1, DeclaredAnswer
  <2> QED BY <2>1 DEF RouteFor
<1>3. CASE x = 0
  <2>1. d = [is |-> "method not allowed", layers |-> router.always]
    BY <1>1, <1>3 DEF AnswerAt
  <2>2. router.always = AlwaysLayers
    BY RouterShape, TableFields
  <2>3. PICK L : L = AlwaysLayers
    OBVIOUS
  <2>4. d = [is |-> "method not allowed", layers |-> L]
    BY <2>1, <2>2, <2>3
  <2>5. d.is = "method not allowed" /\ d.layers = L
    BY ONLY <2>4
  <2> QED BY <1>2, <1>3, <2>3, <2>5, AlwaysStacked
<1>4. CASE x # 0
  <2>1. PICK r : r = Declaration(x) /\ owners = {r} /\ x \in 1..Count
    BY <1>2, <1>4
  <2>2. PICK route : route = router.routes[x] /\ route = RouteOf(x) /\ ~route.redirects
    BY <1>2, <1>4
  <2>3. d = [is |-> "route", id |-> route.id, layers |-> route.layers, layouts |-> route.layouts]
    BY <1>1, <1>4, <2>2 DEF AnswerAt
  <2>4. route.id = r.id /\ route.layers = LayersForPath(r.path) /\ route.layouts = WiredLayouts(x)
    BY <2>1, <2>2 DEF RouteOf
  <2>5. d.is = "route" /\ d.id = r.id /\ d.layers = LayersForPath(r.path) /\ d.layouts = WiredLayouts(x)
    BY <2>3, <2>4
  <2>6. Valid(r.path)
    BY <2>1, RegistrationKeys
  <2>7. Stacked(d.layers, Always \cup {l \in ToSet(builder.layers) \ Always : IsPrefix(l.path, r.path)},
                LayerOutside)
    BY <2>5, <2>6, PathStacked
  <2>8. Stacked(d.layouts, IF r \in ToSet(builder.pages)
                           THEN {l \in ToSet(builder.layouts) : IsPrefix(l.path, r.path)} ELSE {},
                LayoutOutside)
    BY <2>1, <2>5, LayoutsStacked
  <2>9. AnsweredBy(d, r)
    BY <2>5, <2>7, <2>8 DEF AnsweredBy
  <2> QED BY <2>1, <2>9
<1> QED BY <1>3, <1>4

Fulfils(d, best, path, owners) ==
    IF best # {} /\ owners # {} /\ (path \in Served \/ builder.policy = "serve")
    THEN \E r \in owners : AnsweredBy(d, r)
    ELSE /\ d.is = IF best = {} THEN "not found"
                   ELSE IF path \in Served \/ builder.policy = "serve" THEN "method not allowed"
                   ELSE "redirect"
         /\ Stacked(d.layers, Always, LayerOutside)

\* What is asked of the answer to a request, part by part.
Best(url) == BestFits(Served \cup Forms, url)
BestPath(best) == CHOOSE p \in best : TRUE
DeclaredAt(path) == IF path \in Served THEN path ELSE (CHOOSE f \in OtherForms : f[1] = path)[2]

\* The property of an answer is that of its parts.
LEMMA AnsweredNamed ==
  ASSUME NEW method, NEW url
  PROVE  Answered(method, url) <=>
            Fulfils(Dispatch(method, url), Best(url), BestPath(Best(url)),
                    For(DeclaredAt(BestPath(Best(url))), method))
BY Zenon DEF Answered, Forms, Fulfils, Best, BestPath, DeclaredAt

\* The other form of a declared path is that of no other one.
LEMMA OtherFormOf ==
  ASSUME Assembled, NEW old, NEW b, ServedBy(old, b), NEW p, NEW q, <<q, p>> \in OtherForms
  PROVE  (CHOOSE f \in OtherForms : f[1] = q)[2] = p
<1>1. ASSUME NEW f \in OtherForms, f[1] = q PROVE f[2] \in Served /\ f = <<q, f[2]>> /\ q \in Twin(f[2])
  <2>1. PICK s, t : s \in Served /\ f = <<t, s>> /\ t \in Twin(s)
    BY OtherFormPairs
  <2>2. f[1] = t /\ f[2] = s
    BY <2>1
  <2> QED BY <1>1, <2>1, <2>2
<1>2. ASSUME NEW s \in Served, q \in Twin(s) PROVE Twin(q) = {s}
  <2>1. s \in RouterPaths
    BY RouterPathsServed
  <2> QED BY <1>2, <2>1, PathsMatched, TwinForms
<1>3. <<q, p>>[1] = q /\ <<q, p>>[2] = p
  OBVIOUS
<1>4. Twin(q) = {p}
  BY <1>1, <1>2, <1>3
<1>5. PICK f : f = (CHOOSE x \in OtherForms : x[1] = q) /\ f \in OtherForms /\ f[1] = q
  BY <1>3
<1>6. Twin(q) = {f[2]}
  BY <1>1, <1>2, <1>5
<1> QED BY <1>4, <1>5, <1>6

\* Whatever was registered, each request is answered as declared.
LEMMA EachAnswered ==
  ASSUME Assembled, NEW old, NEW b, ServedBy(old, b), NEW method \in Methods, NEW url
  PROVE  Answered(method, url)
<1>1. PICK d : d = Dispatch(method, url)
  OBVIOUS
<1>2. PICK best : best = BestFits(RouterPaths, url) /\ best = Best(url)
  BY RouterPathsServed DEF Best
<1>3. PICK path : path = BestPath(best)
  OBVIOUS
<1>4. PICK declared : declared = DeclaredAt(path)
  OBVIOUS
<1>5. PICK owners : owners = For(declared, method)
  OBVIOUS
<1>6. router.always = AlwaysLayers /\ Stacked(AlwaysLayers, Always, LayerOutside)
  BY RouterShape, TableFields, AlwaysStacked
<1>9. SUFFICES Fulfils(d, best, path, owners)
  BY <1>1, <1>2, <1>3, <1>4, <1>5, AnsweredNamed
<1>7. CASE best = {}
  <2>1. At(url) = {}
    BY <1>2, <1>7, AtSome
  <2>2. d = [is |-> "not found", layers |-> router.always]
    BY <1>1, <2>1 DEF Dispatch
  <2>3. d.is = "not found" /\ d.layers = AlwaysLayers
    BY <1>6, <2>2
  <2> QED BY <1>6, <1>7, <2>3 DEF Fulfils
<1>8. CASE best # {}
  <2>1. path \in best /\ At(url) # {}
    BY <1>2, <1>3, <1>8, AtSome DEF BestPath
  <2>2. PICK e \in At(url) : d = AnswerAt(IndexOf(router.endpoints[e], method), url)
    BY <1>1, <2>1, DispatchAt
  <2>3. e \in DOMAIN router.endpoints /\ path = router.endpoints[e].path
    BY <1>2, <2>1, AtUrl, AtOnePath
  <2>4. CASE e \in 1..Len(b.endpoints) /\ path \in Served
    <3>1. router.endpoints[e] = b.endpoints[e]
      BY <2>4, RouterShape
    <3>2. declared = b.endpoints[e].path
      BY <1>4, <2>3, <2>4, <3>1 DEF DeclaredAt
    <3>3. /\ owners # {} => \E r \in owners : AnsweredBy(d, r)
          /\ owners = {} => d.is = "method not allowed" /\ Stacked(d.layers, Always, LayerOutside)
      BY <1>5, <2>2, <2>4, <3>1, <3>2, OwnedAnswer
    <3> QED BY <1>8, <2>4, <3>3 DEF Fulfils
  <2>5. ASSUME path \notin Served, NEW s \in 1..Len(b.endpoints), Formed(b, router, e, s),
               <<path, b.endpoints[s].path>> \in OtherForms
        PROVE  Fulfils(d, best, path, owners)
    <3>1. declared = b.endpoints[s].path
      BY <1>4, <2>5, OtherFormOf DEF DeclaredAt
    <3>2. CASE builder.policy = "serve"
      <4>1. router.endpoints[e].table = b.endpoints[s].table
        BY <2>5, <3>2 DEF Formed
      <4>2. /\ owners # {} => \E r \in owners : AnsweredBy(d, r)
            /\ owners = {} => d.is = "method not allowed" /\ Stacked(d.layers, Always, LayerOutside)
        BY <1>5, <2>2, <3>1, <4>1, OwnedAnswer
      <4> QED BY <1>8, <3>2, <4>2 DEF Fulfils
    <3>3. CASE builder.policy # "serve"
      <4>1. PICK T : T = router.endpoints[e].table
        OBVIOUS
      <4>2. T[AnyMethod] \in 1..Len(router.routes) /\ router.routes[T[AnyMethod]] = RedirectAt(path) /\ T[method] = 0
        BY <2>3, <2>5, <3>3, <4>1 DEF Formed
      <4>3. PICK x : x = T[AnyMethod] /\ x # 0 /\ router.routes[x] = RedirectAt(path)
        BY <4>2
      <4>4. IndexOf(router.endpoints[e], method) = x
        BY <4>1, <4>2, <4>3 DEF IndexOf
      <4>5. RedirectAt(path).redirects /\ RedirectAt(path).layers = AlwaysLayers
        BY DEF RedirectAt
      <4>6. d = [is |-> "redirect", to |-> OtherForm(RedirectAt(path).path, url), layers |-> AlwaysLayers]
        BY <2>2, <4>3, <4>4, <4>5 DEF AnswerAt
      <4>7. d.is = "redirect" /\ d.layers = AlwaysLayers
        BY <4>6
      <4> QED BY <1>6, <1>8, <2>5, <3>3, <4>7 DEF Fulfils
    <3> QED BY <3>2, <3>3
  <2> QED BY <2>3, <2>4, <2>5, EndpointKinds
<1> QED BY <1>7, <1>8

\* What build() makes is right.
LEMMA BuiltTablesRight ==
  ASSUME Assembled, router = Tables
  PROVE  TablesAreRight
BY BuildingIsRight, EachAnswered DEF TablesAreRight

-----------------------------------------------------------------------------
(* The other form of a URL leads to what was declared there.               *)

\* The answer on a path that is declared.
LEMMA WiderSequences ==
  ASSUME NEW S, NEW T, S \subseteq T, NEW s \in Seq(S)
  PROVE  s \in Seq(T)
OBVIOUS

\* The answer where the best path is a declared one.
LEMMA DispatchDeclared ==
  ASSUME Assembled, NEW old, NEW b, ServedBy(old, b), NEW method, NEW url,
         NEW s \in 1..Len(b.endpoints), b.endpoints[s].path \in BestFits(RouterPaths, url)
  PROVE  Dispatch(method, url) = AnswerAt(IndexOf(b.endpoints[s], method), url)
<1>1. PICK p : p = b.endpoints[s].path
  OBVIOUS
<1>2. At(url) # {}
  BY AtSome
<1>3. PICK e \in At(url) : Dispatch(method, url) = AnswerAt(IndexOf(router.endpoints[e], method), url)
  BY <1>2, DispatchAt
<1>4. e \in DOMAIN router.endpoints /\ router.endpoints[e].path = p
  BY <1>1, AtUrl, AtOnePath
<1>5. p \in Served
  BY <1>1, ServedPaths
<1>6. e \in 1..Len(b.endpoints) /\ router.endpoints[e] = b.endpoints[e]
  BY <1>4, <1>5, EndpointKinds, RouterShape
<1>7. SameShape(b.endpoints[e].path, b.endpoints[s].path)
  BY <1>1, <1>4, <1>6 DEF SameShape
<1>8. e = s
  BY <1>6, <1>7 DEF ServedBy, Based
<1> QED BY <1>3, <1>6, <1>8

\* It is a route's wherever the path is for something, on whatever URL.
AnswersFor(path, method, x, url) ==
    /\ x = 0 => AnswerAt(x, url).is = "method not allowed" /\ For(path, method) = {}
    /\ x # 0 => AnswerAt(x, url).is = "route"
    /\ \A to : AnswerAt(x, to) = AnswerAt(x, url)

\* It is the same on every URL, and a route's if there is one for the method.
LEMMA DeclaredIs ==
  ASSUME Assembled, NEW old, NEW b, ServedBy(old, b), NEW method \in Methods, NEW url,
         NEW s \in 1..Len(b.endpoints), NEW x, x = IndexOf(b.endpoints[s], method)
  PROVE  AnswersFor(b.endpoints[s].path, method, x, url)
<1>1. RouteFor(b.endpoints[s].path, method, x)
  BY DeclaredAnswer
<1>2. CASE x = 0
  <2>1. PICK L : L = router.always
    OBVIOUS
  <2>2. \A to : AnswerAt(x, to) = [is |-> "method not allowed", layers |-> L]
    BY <1>2, <2>1 DEF AnswerAt
  <2>3. [is |-> "method not allowed", layers |-> L].is = "method not allowed"
    OBVIOUS
  <2>4. For(b.endpoints[s].path, method) = {}
    BY <1>1, <1>2 DEF RouteFor
  <2> QED BY <1>2, <2>2, <2>3, <2>4 DEF AnswersFor
<1>3. CASE x # 0
  <2>1. PICK r : r = router.routes[x] /\ ~r.redirects
    BY <1>1, <1>3 DEF RouteFor
  <2>2. \A to : AnswerAt(x, to) = [is |-> "route", id |-> r.id, layers |-> r.layers, layouts |-> r.layouts]
    BY <1>3, <2>1 DEF AnswerAt
  <2>3. [is |-> "route", id |-> r.id, layers |-> r.layers, layouts |-> r.layouts].is = "route"
    OBVIOUS
  <2> QED BY <1>3, <2>2, <2>3 DEF AnswersFor
<1> QED BY <1>2, <1>3

\* A declared path answers some method.
LEMMA SomeMethod ==
  ASSUME Assembled, NEW old, NEW b, ServedBy(old, b), NEW s \in 1..Len(b.endpoints), NEW url
  PROVE  \E m \in Methods : AnswerAt(IndexOf(b.endpoints[s], m), url).is = "route"
<1>1. PICK p : p = b.endpoints[s].path
  OBVIOUS
<1>2. PICK i \in 1..Count : p = Key(i)
  <2>1. p \in Served
    BY <1>1, ServedPaths
  <2> QED BY <2>1, ServedPaths
<1>3. ~Bad(i)
  BY DEF ServedBy
<1>4. PICK slot \in SlotsOf(i) : slot \in AllSlots
  BY <1>3, RegistrationKeys DEF Bad
<1>5. Declaration(i) \in On(p, slot)
  BY <1>2, <1>4, DeclarationsRegistered DEF On, Key, SlotsOf
<1>6. \E m \in Methods : For(p, m) # {}
  <2>1. CASE slot \in Methods
    BY <1>5, <2>1, ForSlots
  <2>2. CASE slot = AnyMethod
    <3>1. "GET" \in Methods /\ "GET" # "HEAD"
      BY RoutesAssumption DEF RoutesAssumption
    <3>2. For(p, "GET") # {}
      BY <1>5, <2>2, <3>1, ForSlots
    <3> QED BY <3>1, <3>2
  <2> QED BY <1>4, <2>1, <2>2 DEF AllSlots
<1>7. PICK m \in Methods : For(p, m) # {}
  BY <1>6
<1>8. PICK x : x = IndexOf(b.endpoints[s], m)
  OBVIOUS
<1>9. AnswersFor(p, m, x, url)
  BY <1>1, <1>8, DeclaredIs
<1> QED BY <1>7, <1>8, <1>9 DEF AnswersFor

\* The other form of a URL for an endpoint that is on no declared path.
LEMMA OtherFormLeads ==
  ASSUME Assembled, NEW old, NEW b, ServedBy(old, b), NEW url \in URLs, NEW e \in At(url),
         NEW path, path = router.endpoints[e].path, path \notin Served
  PROVE  /\ builder.policy # "strict"
         /\ \E s \in 1..Len(b.endpoints) :
               /\ Formed(b, router, e, s)
               /\ \A m : Dispatch(m, OtherForm(path, url))
                           = AnswerAt(IndexOf(b.endpoints[s], m), OtherForm(path, url))
<1>1. e \in DOMAIN router.endpoints /\ path \in BestFits(RouterPaths, url)
  BY AtUrl
<1>2. /\ builder.policy # "strict"
      /\ \E s \in 1..Len(b.endpoints) :
            Formed(b, router, e, s) /\ <<path, b.endpoints[s].path>> \in OtherForms
  BY <1>1, EndpointKinds
<1>3. PICK s \in 1..Len(b.endpoints) : Formed(b, router, e, s)
  BY <1>2
<1>4. PICK p : p = b.endpoints[s].path
  OBVIOUS
<1>5. path \in Twin(p)
  BY <1>3, <1>4 DEF Formed
<1>6. p \in RouterPaths
  BY <1>4, ServedPaths, RouterPathsServed
<1>7. url \in Seq(Texts)
  <2>1. url \in Seq(STRING)
    BY RoutesAssumption DEF RoutesAssumption
  <2>2. STRING \subseteq Texts
    BY DEF Texts
  <2> QED BY <2>1, <2>2, WiderSequences
<1>8. Paired(RouterPaths)
  BY <1>2, PathsPaired
<1>9. p \in BestFits(RouterPaths, OtherForm(path, url))
  BY <1>1, <1>5, <1>6, <1>7, <1>8, BestAtOtherForm
<1>10. \A m : Dispatch(m, OtherForm(path, url)) = AnswerAt(IndexOf(b.endpoints[s], m), OtherForm(path, url))
  BY <1>4, <1>9, DispatchDeclared
<1> QED BY <1>2, <1>3, <1>10

\* A redirect leads to a route, or to one for another method.
LEMMA EachLands ==
  ASSUME Assembled, NEW old, NEW b, ServedBy(old, b), NEW method \in Methods, NEW url \in URLs
  PROVE  RedirectLands(method, url)
<1>1. PICK d : d = Dispatch(method, url)
  OBVIOUS
<1>2. SUFFICES ASSUME d.is = "redirect"
               PROVE  \/ Dispatch(method, d.to).is = "route"
                      \/ /\ Dispatch(method, d.to).is = "method not allowed"
                         /\ \E m \in Methods : Dispatch(m, d.to).is = "route"
  BY <1>1 DEF RedirectLands
<1>3. At(url) # {}
  <2>1. SUFFICES ASSUME At(url) = {} PROVE FALSE
    OBVIOUS
  <2>2. PICK L : L = router.always
    OBVIOUS
  <2>3. d = [is |-> "not found", layers |-> L]
    BY <1>1, <2>1, <2>2 DEF Dispatch
  <2>4. d.is = "not found"
    BY ONLY <2>3
  <2> QED BY <1>2, <2>4
<1>4. PICK e \in At(url) : d = AnswerAt(IndexOf(router.endpoints[e], method), url)
  BY <1>1, <1>3, DispatchAt
<1>5. PICK path : path = router.endpoints[e].path /\ e \in DOMAIN router.endpoints
  BY AtUrl
<1>6. ASSUME NEW s \in 1..Len(b.endpoints), router.endpoints[e].table = b.endpoints[s].table PROVE FALSE
  <2>1. IndexOf(router.endpoints[e], method) = IndexOf(b.endpoints[s], method)
    BY <1>6 DEF IndexOf
  <2>2. PICK x : x = IndexOf(b.endpoints[s], method) /\ d = AnswerAt(x, url)
    BY <1>4, <2>1
  <2>3. d.is = "method not allowed" \/ d.is = "route"
    <3>1. AnswersFor(b.endpoints[s].path, method, x, url)
      BY <2>2, DeclaredIs
    <3> QED BY <2>2, <3>1 DEF AnswersFor
  <2> QED BY <1>2, <2>3
<1>7. path \notin Served
  <2>1. SUFFICES ASSUME path \in Served PROVE FALSE
    OBVIOUS
  <2>2. e \in 1..Len(b.endpoints) /\ router.endpoints[e] = b.endpoints[e]
    BY <1>5, <2>1, EndpointKinds, RouterShape
  <2> QED BY <1>6, <2>2
<1>8. PICK s \in 1..Len(b.endpoints) :
         /\ Formed(b, router, e, s)
         /\ \A m : Dispatch(m, OtherForm(path, url)) = AnswerAt(IndexOf(b.endpoints[s], m), OtherForm(path, url))
  BY <1>5, <1>7, OtherFormLeads
<1>9. builder.policy # "serve"
  BY <1>6, <1>8 DEF Formed
<1>10. PICK T : T = router.endpoints[e].table
  OBVIOUS
<1>11. T[AnyMethod] \in 1..Len(router.routes) /\ router.routes[T[AnyMethod]] = RedirectAt(path) /\ T[method] = 0
  BY <1>5, <1>8, <1>9, <1>10 DEF Formed
<1>12. PICK x : x = T[AnyMethod] /\ x # 0 /\ router.routes[x] = RedirectAt(path)
  BY <1>11
<1>13. IndexOf(router.endpoints[e], method) = x
  BY <1>10, <1>11, <1>12 DEF IndexOf
<1>14. PICK R : R = RedirectAt(path) /\ R.redirects /\ R.path = path
  <2>1. RedirectAt(path).redirects /\ RedirectAt(path).path = path
    BY DEF RedirectAt
  <2> QED BY <2>1
<1>15. d = [is |-> "redirect", to |-> OtherForm(path, url), layers |-> R.layers]
  BY <1>4, <1>12, <1>13, <1>14 DEF AnswerAt
<1>16. PICK to : to = OtherForm(path, url)
  OBVIOUS
<1>17. d.to = to
  BY <1>15, <1>16
<1>18. \A m : Dispatch(m, to) = AnswerAt(IndexOf(b.endpoints[s], m), to)
  BY <1>8, <1>16
<1>19. PICK y : y = IndexOf(b.endpoints[s], method) /\ Dispatch(method, to) = AnswerAt(y, to)
  BY <1>18
<1>20. AnswerAt(y, to).is = "method not allowed" \/ AnswerAt(y, to).is = "route"
  <2>1. AnswersFor(b.endpoints[s].path, method, y, to)
    BY <1>19, DeclaredIs
  <2> QED BY <2>1 DEF AnswersFor
<1>21. \E m \in Methods : Dispatch(m, to).is = "route"
  BY <1>18, SomeMethod
<1> QED BY <1>17, <1>19, <1>20, <1>21

\* Both forms of a URL have one answer under "serve".
LEMMA EachAgrees ==
  ASSUME Assembled, NEW old, NEW b, ServedBy(old, b), NEW method \in Methods, NEW url \in URLs
  PROVE  FormsAgree(method, url)
<1>1. SUFFICES ASSUME builder.policy = "serve", NEW e \in At(url), NEW path,
                      path = router.endpoints[e].path, path \notin Served
               PROVE  Dispatch(method, OtherForm(path, url)) = Dispatch(method, url)
  BY DEF FormsAgree
<1>2. PICK s \in 1..Len(b.endpoints) :
         /\ Formed(b, router, e, s)
         /\ \A m : Dispatch(m, OtherForm(path, url)) = AnswerAt(IndexOf(b.endpoints[s], m), OtherForm(path, url))
  BY <1>1, OtherFormLeads
<1>3. PICK x : x = IndexOf(b.endpoints[s], method)
  OBVIOUS
<1>4. Dispatch(method, OtherForm(path, url)) = AnswerAt(x, url)
  <2>1. AnswersFor(b.endpoints[s].path, method, x, url)
    BY <1>3, DeclaredIs
  <2> QED BY <1>2, <1>3, <2>1 DEF AnswersFor
<1>5. PICK f \in At(url) : Dispatch(method, url) = AnswerAt(IndexOf(router.endpoints[f], method), url)
  BY <1>1, DispatchAt
<1>6. path \in BestFits(RouterPaths, url) /\ f \in DOMAIN router.endpoints /\ router.endpoints[f].path = path
  BY <1>1, <1>5, AtUrl, AtOnePath
<1>7. PICK t \in 1..Len(b.endpoints) : Formed(b, router, f, t)
  BY <1>1, <1>6, EndpointKinds
<1>8. Twin(path) = {b.endpoints[s].path} /\ Twin(path) = {b.endpoints[t].path}
  <2>1. path \in Twin(b.endpoints[s].path) /\ path \in Twin(b.endpoints[t].path)
    BY <1>1, <1>2, <1>6, <1>7 DEF Formed
  <2> QED BY <2>1, RouterShape, TwinForms
<1>9. SameShape(b.endpoints[s].path, b.endpoints[t].path)
  BY <1>8 DEF SameShape
<1>10. s = t
  BY <1>9 DEF ServedBy, Based
<1>11. router.endpoints[f].table = b.endpoints[s].table
  BY <1>1, <1>7, <1>10 DEF Formed
<1>12. IndexOf(router.endpoints[f], method) = x
  BY <1>3, <1>11 DEF IndexOf
<1> QED BY <1>4, <1>5, <1>12

\* In what build() makes, the other forms lead to what was declared.
LEMMA BuiltFormsLead ==
  ASSUME Assembled, router = Tables, router.state = "built", NEW method \in Methods, NEW url \in URLs
  PROVE  RedirectLands(method, url) /\ FormsAgree(method, url)
BY BuildingIsRight, EachLands, EachAgrees

-----------------------------------------------------------------------------
(* What the same registrations make is the same.                           *)

\* The layers depend on nothing but the builder.
LEMMA SameLayers ==
  ASSUME UNCHANGED builder
  PROVE  AlwaysLayers' = AlwaysLayers /\ \A path : LayersForPath(path)' = LayersForPath(path)
<1>1. AlwaysLayers' = AlwaysLayers
  BY DEF AlwaysLayers
<1>2. ASSUME NEW path PROVE LayersForPath(path)' = LayersForPath(path)
  BY DEF LayersForPath, Wraps, LayerLen
<1> QED BY <1>1, <1>2

\* Nor do the registrations.
LEMMA SameRegistrations ==
  ASSUME UNCHANGED builder
  PROVE  Registrations' = Registrations
<1>1. ASSUME NEW page PROVE WithLayouts(page)' = WithLayouts(page)
  BY DEF WithLayouts
<1>2. [i \in DOMAIN builder.pages |-> WithLayouts(builder.pages[i])]'
        = [i \in DOMAIN builder.pages |-> WithLayouts(builder.pages[i])]
  BY <1>1
<1> QED BY <1>2 DEF Registrations

\* Nor do the rounds of the two loops.
LEMMA SameRounds ==
  ASSUME UNCHANGED builder, NEW t, NEW r
  PROVE  RegisterNext(t, r)' = RegisterNext(t, r) /\ AddTwin(t, r)' = AddTwin(t, r)
<1>1. Register(t, r)' = Register(t, r)
  BY SameLayers DEF Register
<1>2. RegisterNext(t, r)' = RegisterNext(t, r)
  BY <1>1 DEF RegisterNext
<1>3. AddTwin(t, r)' = AddTwin(t, r)
  BY SameLayers DEF AddTwin
<1> QED BY <1>2, <1>3

\* Nor what the loops come to.
LEMMA SameTurns ==
  ASSUME UNCHANGED builder, NEW start, NEW seq
  PROVE  /\ InTurn(RegisterNext, start, seq)' = InTurn(RegisterNext, start, seq)
         /\ InTurn(AddTwin, start, seq)' = InTurn(AddTwin, start, seq)
<1>1. \A t, r : RegisterNext(t, r)' = RegisterNext(t, r) /\ AddTwin(t, r)' = AddTwin(t, r)
  BY SameRounds
<1> HIDE DEF RegisterNext, AddTwin
<1>2. ASSUME NEW g
      PROVE  [n \in 0..Len(seq) |-> IF n = 0 THEN start
                 ELSE CHOOSE x \in {RegisterNext(now, seq[n]) : now \in {g[n - 1]}} : TRUE]'
             = [n \in 0..Len(seq) |-> IF n = 0 THEN start
                 ELSE CHOOSE x \in {RegisterNext(now, seq[n]) : now \in {g[n - 1]}} : TRUE]
  BY <1>1
<1>3. InTurn(RegisterNext, start, seq)' = InTurn(RegisterNext, start, seq)
  <2>1. (CHOOSE g : g = [n \in 0..Len(seq) |-> IF n = 0 THEN start
                       ELSE CHOOSE x \in {RegisterNext(now, seq[n]) : now \in {g[n - 1]}} : TRUE])'
        = CHOOSE g : g = [n \in 0..Len(seq) |-> IF n = 0 THEN start
                       ELSE CHOOSE x \in {RegisterNext(now, seq[n]) : now \in {g[n - 1]}} : TRUE]
    BY <1>2
  <2> QED BY <2>1 DEF InTurn
<1>4. ASSUME NEW g
      PROVE  [n \in 0..Len(seq) |-> IF n = 0 THEN start
                 ELSE CHOOSE x \in {AddTwin(now, seq[n]) : now \in {g[n - 1]}} : TRUE]'
             = [n \in 0..Len(seq) |-> IF n = 0 THEN start
                 ELSE CHOOSE x \in {AddTwin(now, seq[n]) : now \in {g[n - 1]}} : TRUE]
  BY <1>1
<1>5. InTurn(AddTwin, start, seq)' = InTurn(AddTwin, start, seq)
  <2>1. (CHOOSE g : g = [n \in 0..Len(seq) |-> IF n = 0 THEN start
                       ELSE CHOOSE x \in {AddTwin(now, seq[n]) : now \in {g[n - 1]}} : TRUE])'
        = CHOOSE g : g = [n \in 0..Len(seq) |-> IF n = 0 THEN start
                       ELSE CHOOSE x \in {AddTwin(now, seq[n]) : now \in {g[n - 1]}} : TRUE]
    BY <1>4
  <2> QED BY <2>1 DEF InTurn
<1> QED BY <1>3, <1>5

\* Nor does what build() makes.
LEMMA SameTables ==
  ASSUME UNCHANGED builder
  PROVE  Tables' = Tables
<1>1. AlwaysLayers' = AlwaysLayers /\ Registrations' = Registrations
  BY SameLayers, SameRegistrations
<1>2. ASSUME NEW start, NEW seq
      PROVE  /\ InTurn(RegisterNext, start, seq)' = InTurn(RegisterNext, start, seq)
             /\ InTurn(AddTwin, start, seq)' = InTurn(AddTwin, start, seq)
  BY SameTurns
<1>3. ASSUME NEW t PROVE RegisterTwins(t)' = RegisterTwins(t)
  BY <1>2 DEF RegisterTwins
<1>4. ASSUME NEW l PROVE Unused(l)' = Unused(l)
  BY <1>1 DEF Unused
<1>5. (\E i \in DOMAIN builder.layers : Unused(builder.layers[i]))'
        = \E i \in DOMAIN builder.layers : Unused(builder.layers[i])
  BY <1>4
<1>6. InTurn(RegisterNext, [NotBuilt EXCEPT !.state = "built", !.always = AlwaysLayers], Registrations)'
        = InTurn(RegisterNext, [NotBuilt EXCEPT !.state = "built", !.always = AlwaysLayers], Registrations)
  BY <1>1, <1>2
<1> QED BY <1>3, <1>5, <1>6 DEF Tables

-----------------------------------------------------------------------------
(* What an application has registered, and what it has built.              *)

Builders == [routes : Seq(RouteDecls), pages : Seq(PageDecls), layouts : Seq(LayoutDecls),
             layers : Seq(LayerDecls), policy : Policies]

RoutesInv ==
    /\ builder \in Builders
    /\ Assembled
    /\ router = NotBuilt \/ router = Tables

\* A new builder is empty.
LEMMA RoutesStart == RoutesInit => RoutesInv
BY DEF RoutesInit, RoutesInv, Builders, Assembled, Once, Policies

\* One entry more, which is not there yet.
LEMMA PushedOnce ==
  ASSUME NEW S, NEW seq \in Seq(S), Once(seq), NEW x \in S, ~Contains(seq, x)
  PROVE  Append(seq, x) \in Seq(S) /\ Once(Append(seq, x))
<1>1. PICK n \in Nat : n = Len(seq)
  OBVIOUS
<1>2. PICK more : more = Append(seq, x)
  OBVIOUS
<1>3. more \in Seq(S) /\ Len(more) = n + 1 /\ more[n + 1] = x /\ \A i \in 1..n : more[i] = seq[i]
  BY <1>1, <1>2
<1>4. \A i \in 1..n : seq[i] # x
  BY <1>1 DEF Contains
<1>5. ASSUME NEW i \in 1..(n + 1), NEW j \in 1..(n + 1), more[i] = more[j] PROVE i = j
  <2>1. CASE i = n + 1 \/ j = n + 1
    BY <1>3, <1>4, <1>5, <2>1
  <2>2. CASE i \in 1..n /\ j \in 1..n
    BY <1>1, <1>3, <1>5, <2>2 DEF Once
  <2> QED BY <2>1, <2>2
<1> QED BY <1>2, <1>3, <1>5 DEF Once

\* Each operation of the builder keeps this.
LEMMA RoutesStep ==
  ASSUME RoutesInv, [RoutesNext]_routesVars
  PROVE  RoutesInv'
<1>1. CASE UNCHANGED routesVars
  <2>1. Tables' = Tables /\ builder' = builder /\ router' = router
    BY <1>1, SameTables DEF routesVars
  <2>2. Assembled'
    BY <2>1 DEF RoutesInv, Assembled, Once
  <2>3. NotBuilt' = NotBuilt
    BY DEF NotBuilt
  <2> QED BY <2>1, <2>2, <2>3 DEF RoutesInv, Builders
<1>2. CASE Build
  <2>1. Tables' = Tables /\ builder' = builder /\ router' = Tables
    BY <1>2, SameTables DEF Build
  <2>2. Assembled'
    BY <2>1 DEF RoutesInv, Assembled, Once
  <2> QED BY <2>1, <2>2 DEF RoutesInv, Builders
<1>3. ASSUME NEW policy \in Policies, SetTrailingSlash(policy) PROVE RoutesInv'
  <2>1. PICK b : b = builder /\ b \in Builders
    BY DEF RoutesInv
  <2>2. builder' = [b EXCEPT !.policy = policy] /\ router' = NotBuilt
    BY <1>3, <2>1 DEF SetTrailingSlash
  <2>3. /\ builder' \in Builders /\ builder'.routes = b.routes /\ builder'.pages = b.pages
        /\ builder'.layouts = b.layouts /\ builder'.layers = b.layers /\ builder'.policy = policy
    BY <2>1, <2>2 DEF Builders
  <2>4. Assembled'
    BY <2>1, <2>3 DEF RoutesInv, Assembled, Once
  <2>5. NotBuilt' = NotBuilt
    BY DEF NotBuilt
  <2> QED BY <2>2, <2>3, <2>4, <2>5 DEF RoutesInv, Builders
<1>4. ASSUME NEW r \in RouteDecls, Route(r) PROVE RoutesInv'
  <2>1. PICK b : b = builder /\ b \in Builders
    BY DEF RoutesInv
  <2>2. builder' = [b EXCEPT !.routes = Append(b.routes, r)] /\ router' = NotBuilt /\ ~Contains(b.routes, r)
    BY <1>4, <2>1 DEF Route, Push, Builders
  <2>3. Append(b.routes, r) \in Seq(RouteDecls) /\ Once(Append(b.routes, r))
    BY <2>1, <2>2, PushedOnce DEF RoutesInv, Assembled
  <2>4. /\ builder' \in Builders /\ builder'.routes = Append(b.routes, r) /\ builder'.pages = b.pages
        /\ builder'.layouts = b.layouts /\ builder'.layers = b.layers /\ builder'.policy = b.policy
    BY <2>1, <2>2, <2>3 DEF Builders
  <2>5. Assembled'
    BY <2>1, <2>3, <2>4 DEF RoutesInv, Assembled, Once
  <2>6. NotBuilt' = NotBuilt
    BY DEF NotBuilt
  <2>7. (builder \in Builders)'
    BY <2>4 DEF Builders
  <2> QED BY <2>2, <2>5, <2>6, <2>7 DEF RoutesInv
<1>5. ASSUME NEW p \in PageDecls, Page(p) PROVE RoutesInv'
  <2>1. PICK b : b = builder /\ b \in Builders
    BY DEF RoutesInv
  <2>2. builder' = [b EXCEPT !.pages = Append(b.pages, p)] /\ router' = NotBuilt /\ ~Contains(b.pages, p)
    BY <1>5, <2>1 DEF Page, Push, Builders
  <2>3. Append(b.pages, p) \in Seq(PageDecls) /\ Once(Append(b.pages, p))
    BY <2>1, <2>2, PushedOnce DEF RoutesInv, Assembled
  <2>4. /\ builder' \in Builders /\ builder'.routes = b.routes /\ builder'.pages = Append(b.pages, p)
        /\ builder'.layouts = b.layouts /\ builder'.layers = b.layers /\ builder'.policy = b.policy
    BY <2>1, <2>2, <2>3 DEF Builders
  <2>5. Assembled'
    BY <2>1, <2>3, <2>4 DEF RoutesInv, Assembled, Once
  <2>6. NotBuilt' = NotBuilt
    BY DEF NotBuilt
  <2>7. (builder \in Builders)'
    BY <2>4 DEF Builders
  <2> QED BY <2>2, <2>5, <2>6, <2>7 DEF RoutesInv
<1>6. ASSUME NEW l \in LayoutDecls, Layout(l) PROVE RoutesInv'
  <2>1. PICK b : b = builder /\ b \in Builders
    BY DEF RoutesInv
  <2>2. builder' = [b EXCEPT !.layouts = Append(b.layouts, l)] /\ router' = NotBuilt /\ ~Contains(b.layouts, l)
    BY <1>6, <2>1 DEF Layout, Push, Builders
  <2>3. Append(b.layouts, l) \in Seq(LayoutDecls) /\ Once(Append(b.layouts, l))
    BY <2>1, <2>2, PushedOnce DEF RoutesInv, Assembled
  <2>4. /\ builder' \in Builders /\ builder'.routes = b.routes /\ builder'.pages = b.pages
        /\ builder'.layouts = Append(b.layouts, l) /\ builder'.layers = b.layers /\ builder'.policy = b.policy
    BY <2>1, <2>2, <2>3 DEF Builders
  <2>5. Assembled'
    BY <2>1, <2>3, <2>4 DEF RoutesInv, Assembled, Once
  <2>6. NotBuilt' = NotBuilt
    BY DEF NotBuilt
  <2>7. (builder \in Builders)'
    BY <2>4 DEF Builders
  <2> QED BY <2>2, <2>5, <2>6, <2>7 DEF RoutesInv
<1>7. ASSUME NEW l \in LayerDecls, Layer(l) PROVE RoutesInv'
  <2>1. PICK b : b = builder /\ b \in Builders
    BY DEF RoutesInv
  <2>2. builder' = [b EXCEPT !.layers = Append(b.layers, l)] /\ router' = NotBuilt /\ ~Contains(b.layers, l)
    BY <1>7, <2>1 DEF Layer, Push, Builders
  <2>3. Append(b.layers, l) \in Seq(LayerDecls) /\ Once(Append(b.layers, l))
    BY <2>1, <2>2, PushedOnce DEF RoutesInv, Assembled
  <2>4. /\ builder' \in Builders /\ builder'.routes = b.routes /\ builder'.pages = b.pages
        /\ builder'.layouts = b.layouts /\ builder'.layers = Append(b.layers, l) /\ builder'.policy = b.policy
    BY <2>1, <2>2, <2>3 DEF Builders
  <2>5. Assembled'
    BY <2>1, <2>3, <2>4 DEF RoutesInv, Assembled, Once
  <2>6. NotBuilt' = NotBuilt
    BY DEF NotBuilt
  <2>7. (builder \in Builders)'
    BY <2>4 DEF Builders
  <2> QED BY <2>2, <2>5, <2>6, <2>7 DEF RoutesInv
<1> QED BY <1>1, <1>2, <1>3, <1>4, <1>5, <1>6, <1>7 DEF RoutesNext

\* Once it is built, the router is right.
LEMMA RoutesRight ==
  ASSUME RoutesInv
  PROVE  /\ TablesAreRight
         /\ router.state = "built" => \A m \in Methods, url \in URLs : RedirectLands(m, url) /\ FormsAgree(m, url)
<1>1. CASE router = NotBuilt
  <2>1. router.state = "none"
    BY <1>1 DEF NotBuilt
  <2> QED BY <2>1 DEF TablesAreRight
<1>2. CASE router = Tables
  BY <1>2, BuiltTablesRight, BuiltFormsLead DEF RoutesInv
<1> QED BY <1>1, <1>2 DEF RoutesInv

-----------------------------------------------------------------------------
(* The router of an application.                                           *)

LEMMA ApplicationRoutes == AppSpec => []RoutesInv
<1>1. AppInit => RoutesInv
  BY RoutesStart DEF AppInit
<1>2. RoutesInv /\ [AppNext]_appVars => RoutesInv'
  <2>1. SUFFICES ASSUME RoutesInv, [AppNext]_appVars PROVE RoutesInv'
    OBVIOUS
  <2>2. [RoutesNext]_routesVars
    BY <2>1 DEF AppNext, Assemble, Operate, appVars, routesVars
  <2> QED BY <2>1, <2>2, RoutesStep
<1> QED BY <1>1, <1>2, PTL DEF AppSpec

\* Whatever an application registers, and in whatever order: build() refuses it
\* just when nothing could choose between two declarations or one is void, and
\* its tables answer each request as was declared, within the layers and the
\* layouts around the route's path, the less specific outside (builder.rs).
THEOREM ApplicationAnswers == AppSpec => []AnswersFollowDeclarations
<1>1. RoutesInv => AnswersFollowDeclarations
  BY RoutesRight DEF AnswersFollowDeclarations
<1> QED BY <1>1, ApplicationRoutes, PTL

\* Whatever it registers, the other trailing-slash form of a URL leads to what
\* was declared there: a client that is redirected arrives, and one that is
\* served gets what the declared form gets (trailing_slash.rs).
THEOREM ApplicationFormsLead == AppSpec => []SlashFormsLead
<1>1. RoutesInv => SlashFormsLead
  BY RoutesRight DEF SlashFormsLead
<1> QED BY <1>1, ApplicationRoutes, PTL
=============================================================================
