------------------------------ MODULE Requests ------------------------------
(***************************************************************************)
(* What happens to one request inside the router, for every connection:    *)
(* the dispatches a chain of rewrites leads through, and in each dispatch  *)
(* the cookie jar and the session of its context.  The handler's own       *)
(* futures (Inner) are polled by one task, one at a time, and give way only *)
(* where they await; a task that the handler spawned with a clone of its   *)
(* context (Detached) runs beside it on another thread, and may outlive it. *)
(* A token is a number: 0 is no token at all.                              *)
(***************************************************************************)
EXTENDS Integers, FiniteSets

CONSTANTS
    Conns,          \* connections: each serves one request at a time
    Targets,        \* what a request or a rewrite can ask for: a method and a path
    Asked,          \* those that requests arrive with
    Inner,          \* the futures that a handler joins
    Detached,       \* tasks spawned by the handler
    RewriteLimit,   \* REWRITE_LIMIT
    MaxRequests,    \* bound: requests in a behaviour
    TaskOps,        \* bound: the session calls that spawned tasks make
    MaxCalls        \* bound: session calls in a behaviour

Ops == {"start", "stop", "refresh", "rotate", "token"}
Lifecycle == Ops \ {"token"}
Nobody == "nobody"

ASSUME RequestsAssumption == /\ RewriteLimit \in Nat
                             /\ Inner \cap Detached = {}
                             /\ Nobody \notin Inner \cup Detached
                             /\ Asked \subseteq Targets
                             /\ Asked # {}
                             /\ TaskOps \subseteq Ops

VARIABLES
    req,        \* the request of a connection and the context of its dispatch
    work,       \* what the futures and the tasks of the context are doing
    client,     \* the token that the client of a connection holds
    requests,   \* how many requests there were
    calls       \* how many session calls there were

requestVars == <<req, work, client, requests, calls>>

Workers == Inner \cup Detached
None == 0
Unloaded == -1

Quiet == [op |-> "token", pc |-> "idle", token |-> None, fresh |-> None, late |-> FALSE]

\* A fresh context: nothing of an earlier dispatch survives but the request.
Context(target, visited) ==
    [stage |-> "dispatch", target |-> target, visited |-> visited, outcome |-> "error",
     headers |-> None, built |-> FALSE, jar |-> None, cell |-> FALSE, sealed |-> FALSE,
     load |-> Unloaded, holder |-> Nobody, tidy |-> TRUE]

NoRequest == [Context(CHOOSE t \in Targets : TRUE, {}) EXCEPT !.stage = "idle"]

RequestsInit ==
    /\ req = [c \in Conns |-> NoRequest]
    /\ work = [c \in Conns |-> [w \in Workers |-> Quiet]]
    /\ client = [c \in Conns |-> None]
    /\ requests = 0
    /\ calls = 0

Stage(c) == req[c].stage
Busy(c, w) == work[c][w].pc # "idle"

\* `w` is in the middle of a call that may change the session.
Changing(c, w) == Busy(c, w) /\ work[c][w].op \in Lifecycle

-----------------------------------------------------------------------------
(* The router: the loop of dispatches.                                     *)

\* A request arrives on connection `c`, from a client that holds the token it was
\* given or one that it had from before.
Begin(c, t) ==
    /\ Stage(c) = "idle"
    /\ requests < MaxRequests
    /\ requests' = requests + 1
    /\ req' = [req EXCEPT ![c] = Context(t, {})]
    /\ work' = [work EXCEPT ![c] = [w \in Workers |-> Quiet]]
    /\ \E token \in {client[c], 1} : client' = [client EXCEPT ![c] = token]
    /\ UNCHANGED calls

\* A route takes the request, inside the layers of its path.
Matched(c) ==
    /\ Stage(c) = "dispatch"
    /\ req' = [req EXCEPT ![c].stage = "handler"]
    /\ UNCHANGED <<work, client, requests, calls>>

\* The identity or the origin of the request is refused, or no route takes it:
\* the cookie layer, which has a path, does not run.
Unmatched(c) ==
    /\ Stage(c) = "dispatch"
    /\ req' = [req EXCEPT ![c] = [@ EXCEPT !.stage = "respond", !.outcome = "unmatched",
                                           !.headers = client[c]]]
    /\ UNCHANGED <<work, client, requests, calls>>

\* The handler ends, whatever its futures were doing: those still there are
\* dropped.  A panic takes the context with it and is answered with a bare 500.
End(c, outcome) ==
    /\ Stage(c) = "handler"
    /\ LET cut == {w \in Inner : work[c][w].pc = "set"}
       IN  req' = [req EXCEPT ![c] = [@ EXCEPT
                !.stage = IF outcome = "panic" THEN "respond" ELSE "delta",
                !.outcome = outcome,
                !.headers = client[c],
                !.holder = IF req[c].holder \in Inner THEN Nobody ELSE req[c].holder,
                !.tidy = req[c].tidy /\ cut = {} /\ outcome # "panic"]]
    /\ work' = [work EXCEPT ![c] = [w \in Workers |-> IF w \in Inner THEN Quiet ELSE @[w]]]
    /\ UNCHANGED <<client, requests, calls>>

\* A rewrite that came out of the layers starts the next dispatch, in a fresh
\* context, or is answered with an error when it leads in a circle or too far.
\* The tasks of the old context go on with a jar that nobody will look at.
Follow(c, t) ==
    /\ Stage(c) = "follow"
    /\ LET visited == req[c].visited \cup {req[c].target}
       IN  IF t \in visited \/ Cardinality(visited) > RewriteLimit
           THEN /\ req' = [req EXCEPT ![c] = [@ EXCEPT !.stage = "respond", !.visited = visited]]
                /\ UNCHANGED work
           ELSE /\ req' = [req EXCEPT ![c] = Context(t, visited)]
                /\ work' = [work EXCEPT ![c] = [w \in Workers |-> Quiet]]
    /\ UNCHANGED <<client, requests, calls>>

\* The request is gone, with what its handler was doing: a task that it spawned
\* may go on with the context, to no effect that anyone sees.
Drop(c) ==
    /\ req' = [req EXCEPT ![c] = NoRequest]
    /\ work' = [work EXCEPT ![c] = [w \in Workers |-> Quiet]]
    /\ UNCHANGED <<client, requests, calls>>

\* The head of the response goes out, with the headers that waited for it.
SendHead(c) ==
    /\ Stage(c) = "respond"
    /\ req' = [req EXCEPT ![c].stage = "body"]
    /\ client' = [client EXCEPT ![c] = req[c].headers]
    /\ UNCHANGED <<work, requests, calls>>

SendBody(c) ==
    /\ Stage(c) = "body"
    /\ Drop(c)

-----------------------------------------------------------------------------
(* The cookie jar.  `built` is the OnceLock of the cell, `cell` and        *)
(* `sealed` are the two seals.                                             *)

\* What the jar says, or would say: the cookie that the request brought.
Cookie(c) == IF req[c].built THEN req[c].jar ELSE client[c]

\* The context with its jar built, unless it is already.
BuiltJar(c) == [req[c] EXCEPT !.built = TRUE, !.jar = Cookie(c)]

\* write_cookies, which the cookie layer runs on the handler's task: first the
\* changes are read, then the cell is closed, then the jar if there is one.
WriteDelta(c) ==
    /\ Stage(c) = "delta"
    /\ req' = [req EXCEPT ![c] = [@ EXCEPT
            !.stage = "cell",
            !.headers = Cookie(c),
            !.tidy = req[c].tidy /\ \A w \in Workers : ~Changing(c, w)]]
    /\ UNCHANGED <<work, client, requests, calls>>

Sealed(c) == IF req[c].outcome = "rewrite" THEN "follow" ELSE "respond"

SealCell(c) ==
    /\ Stage(c) = "cell"
    /\ req' = [req EXCEPT ![c] = [@ EXCEPT !.stage = "jar", !.cell = TRUE]]
    /\ UNCHANGED <<work, client, requests, calls>>

SealJar(c) ==
    /\ Stage(c) = "jar"
    /\ req' = [req EXCEPT ![c] = [@ EXCEPT !.stage = Sealed(c), !.sealed = req[c].sealed \/ req[c].built]]
    /\ UNCHANGED <<work, client, requests, calls>>

-----------------------------------------------------------------------------
(* The session: the token as the context knows it (`load`, behind a lock   *)
(* that `holder` holds) and as the token store has it (the cookie).        *)

\* A future or a task begins a session call; it is `late` when write_cookies is
\* through.  `tidy` is history, kept by End and WriteDelta as well: no two calls
\* that change the session overlapped, none was under way while write_cookies
\* ran, and the handler was not cut off between the store and the context.
Call(c, w, op) ==
    LET late == Stage(c) \in {"follow", "respond", "body"} /\ req[c].outcome # "panic"
    IN  /\ ~Busy(c, w)
        /\ calls < MaxCalls
        /\ \/ Stage(c) = "handler"
           \/ w \in Detached /\ Stage(c) \notin {"idle", "dispatch"} /\ req[c].outcome # "unmatched"
        /\ calls' = calls + 1
        /\ work' = [work EXCEPT ![c][w] =
                        [op |-> op, pc |-> IF op = "start" THEN "store" ELSE "lock",
                         token |-> None, fresh |-> calls + 2, late |-> late]]
        /\ req' = [req EXCEPT ![c].tidy = @ /\ (op \in Lifecycle =>
                late \/ (Stage(c) \in {"handler", "delta"} /\ \A v \in Workers : ~Changing(c, v)))]
        /\ UNCHANGED <<client, requests>>

\* What follows once `token` is known.
Known(c, w, token) ==
    work' = [work EXCEPT ![c][w] =
        IF @.op = "token" \/ (@.op # "stop" /\ token = None) THEN Quiet
        ELSE [@ EXCEPT !.token = token, !.pc = "store"]]

\* Mutant: the lock is only held to look: the answer arrives after it is free again.
LockToLook(c, w) ==
    /\ work[c][w].pc = "lock"
    /\ req[c].holder = Nobody
    /\ IF req[c].load # Unloaded
       THEN Known(c, w, req[c].load) /\ UNCHANGED req
       ELSE /\ UNCHANGED req
            /\ work' = [work EXCEPT ![c][w] = [@ EXCEPT !.pc = "read", !.token = Cookie(c)]]
    /\ UNCHANGED <<client, requests, calls>>

\* SessionState::token takes the lock; the token may be there already.
Lock(c, w) ==
    /\ work[c][w].pc = "lock"
    /\ req[c].holder = Nobody
    /\ IF req[c].load # Unloaded
       THEN Known(c, w, req[c].load) /\ UNCHANGED req
       ELSE /\ req' = [req EXCEPT ![c].holder = w]
            /\ work' = [work EXCEPT ![c][w] = [@ EXCEPT !.pc = "read", !.token = Cookie(c)]]
    /\ UNCHANGED <<client, requests, calls>>

\* The store answers the one read that everybody shares, under the lock, with
\* the token that it had when it was asked or with the one that it has now.
Read(c, w) ==
    /\ work[c][w].pc = "read"
    /\ \E token \in {work[c][w].token, Cookie(c)} :
        /\ req' = [req EXCEPT ![c] = [BuiltJar(c) EXCEPT
                        !.load = token,
                        !.sealed = req[c].sealed \/ req[c].cell,
                        !.holder = IF req[c].holder = w THEN Nobody ELSE req[c].holder]]
        /\ Known(c, w, token)
    /\ UNCHANGED <<client, requests, calls>>

\* The token that the call leaves behind.
Result(c, w) == CASE work[c][w].op = "stop" -> None
                  [] work[c][w].op = "refresh" -> work[c][w].token
                  [] OTHER -> work[c][w].fresh

\* The store refuses: the call returns its error and has changed nothing.
Fail(c, w) ==
    /\ work[c][w].pc \in {"read", "store"}
    /\ work' = [work EXCEPT ![c][w] = Quiet]
    /\ req' = [req EXCEPT ![c].holder = IF @ = w THEN Nobody ELSE @]
    /\ UNCHANGED <<client, requests, calls>>

\* Only a token that is not the old one is written down in the context.
Stored(c, w) ==
    work' = [work EXCEPT ![c][w] = IF @.op = "refresh" THEN Quiet ELSE [@ EXCEPT !.pc = "set"]]

\* The store changes the cookie.  On the handler's own task nothing comes
\* between: the seals are closed by the same task, later.
Store(c, w) ==
    /\ work[c][w].pc = "store"
    /\ w \in Inner
    /\ req' = [req EXCEPT ![c] = [BuiltJar(c) EXCEPT !.jar = Result(c, w)]]
    /\ Stored(c, w)
    /\ UNCHANGED <<client, requests, calls>>

\* Elsewhere it takes four steps: the jar is built unless it is, the seal of the
\* cell is looked at, then that of the jar, then the cookie is changed.
GetOrInit(c, w) ==
    /\ work[c][w].pc = "store"
    /\ w \in Detached
    /\ req' = [req EXCEPT ![c] = BuiltJar(c)]
    /\ work' = [work EXCEPT ![c][w].pc = "check"]
    /\ UNCHANGED <<client, requests, calls>>

\* Mutant: the cell's seal is not looked at again once the jar is there.
SkipSeal(c, w) ==
    /\ work[c][w].pc = "check"
    /\ work' = [work EXCEPT ![c][w].pc = "open"]
    /\ UNCHANGED <<req, client, requests, calls>>

InheritSeal(c, w) ==
    /\ work[c][w].pc = "check"
    /\ req' = [req EXCEPT ![c].sealed = @ \/ req[c].cell]
    /\ work' = [work EXCEPT ![c][w].pc = "open"]
    /\ UNCHANGED <<client, requests, calls>>

\* A closed jar makes the task panic.
AssertOpen(c, w) ==
    /\ work[c][w].pc = "open"
    /\ work' = [work EXCEPT ![c][w] = IF req[c].sealed THEN Quiet ELSE [@ EXCEPT !.pc = "add"]]
    /\ UNCHANGED <<req, client, requests, calls>>

Add(c, w) ==
    /\ work[c][w].pc = "add"
    /\ req' = [req EXCEPT ![c].jar = Result(c, w)]
    /\ Stored(c, w)
    /\ UNCHANGED <<client, requests, calls>>

\* SessionState::set.
SetToken(c, w) ==
    /\ work[c][w].pc = "set"
    /\ req[c].holder = Nobody
    /\ req' = [req EXCEPT ![c].load = Result(c, w)]
    /\ work' = [work EXCEPT ![c][w] = Quiet]
    /\ UNCHANGED <<client, requests, calls>>

-----------------------------------------------------------------------------
\* What can happen while connection `c` serves a request.
Serve(c) ==
    \/ Matched(c) \/ Unmatched(c) \/ SendHead(c) \/ SendBody(c)
    \/ WriteDelta(c) \/ SealCell(c) \/ SealJar(c)
    \/ \E outcome \in {"response", "error", "rewrite", "panic"} : End(c, outcome)
    \/ \E t \in Targets : Follow(c, t)

\* What the futures of the handler and its tasks do.
Work(c, w) ==
    \/ \E op \in IF w \in Inner THEN Ops ELSE TaskOps : Call(c, w, op)
    \/ Lock(c, w) \/ Read(c, w) \/ Fail(c, w) \/ Store(c, w) \/ SetToken(c, w)
    \/ GetOrInit(c, w) \/ InheritSeal(c, w) \/ AssertOpen(c, w) \/ Add(c, w)

-----------------------------------------------------------------------------
\* A cookie write that begins once write_cookies has closed the cell and the jar
\* panics and is not lost in silence, also when it is the one that builds the
\* jar (lib.rs CookieJarCell, jar.rs assert_open).  A write that begins while
\* write_cookies runs, after it has read the changes and before it closes the
\* jar, gets no such promise: it can pass both seals and never reach the client,
\* although jar.rs:69 and lib.rs:47 and :342 say that it panics.
ClosedJarRefuses ==
    \A c \in Conns, w \in Workers : work[c][w].pc = "add" => ~work[c][w].late

\* When the response goes out, the token that the client is left with is the
\* one that the request takes for its session, whichever futures and tasks read
\* and changed it, whatever failed or came too late (session.rs, state.rs,
\* jar.rs).  Not so when two changes overlapped, when one was under way while
\* write_cookies ran, when the handler was cut off after the store had a change
\* and before the context had, and when it panicked.
SessionReachesTheClient ==
    \A c \in Conns : Stage(c) = "body" /\ req[c].tidy /\ req[c].load # Unloaded
                        => client[c] = req[c].load

\* A chain of rewrites runs no method and path twice, and no more dispatches
\* than the limit allows (rewrite.rs).
NoTargetTwice ==
    \A c \in Conns : Stage(c) \in {"dispatch", "handler"} =>
        /\ req[c].target \notin req[c].visited
        /\ Cardinality(req[c].visited) <= RewriteLimit
=============================================================================
