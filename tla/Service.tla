------------------------------- MODULE Service -------------------------------
(***************************************************************************)
(* internal_serve: the loop that accepts connections, the task of each     *)
(* connection, and the graceful shutdown.  The three watch channels signal *)
(* by closing, so each is a condition on `server`: drain closes when the   *)
(* loop ends, cutoff when the grace period does (or at once when accept    *)
(* failed), and done when no connection task is left to hold a receiver.   *)
(***************************************************************************)
EXTENDS Requests

VARIABLES
    server,     \* where internal_serve stands
    conn        \* connections: those that are "open" or "draining" have a task

serviceVars == <<server, conn>>
vars == <<requestVars, serviceVars>>

Init ==
    /\ RequestsInit
    /\ server = "accepting"
    /\ conn = [c \in Conns |-> "away"]

Serving(c) == conn[c] \in {"open", "draining"}
NoTasks == \A c \in Conns : ~Serving(c)
DrainClosed == server # "accepting"
CutoffClosed == server \in {"cut", "returned", "failed"}

\* The loop of internal_serve.
Accept(c) ==
    /\ server = "accepting"
    /\ conn[c] = "away"
    /\ conn' = [conn EXCEPT ![c] = "open"]
    /\ UNCHANGED <<server, requestVars>>

\* An error of accept ends internal_serve, which drops all its channels.
AcceptFails ==
    /\ server = "accepting"
    /\ server' = "failed"
    /\ UNCHANGED <<conn, requestVars>>

\* The shutdown future completes: the listener and the drain channel go.
Shutdown ==
    /\ server = "accepting"
    /\ server' = "draining"
    /\ UNCHANGED <<conn, requestVars>>

\* Mutant: the server waits for its tasks, without a timeout.
GraceWaits ==
    /\ server = "draining"
    /\ NoTasks
    /\ server' = "cut"
    /\ UNCHANGED <<conn, requestVars>>

\* The grace period ends, or every task has.
GraceEnds ==
    /\ server = "draining"
    /\ server' = "cut"
    /\ UNCHANGED <<conn, requestVars>>

\* Mutant: the server returns with the grace period, whoever is still there.
ReturnAtOnce ==
    /\ server = "cut"
    /\ server' = "returned"
    /\ UNCHANGED <<conn, requestVars>>

\* done_tx.closed() answers for the second time, and the server returns.
Return ==
    /\ server = "cut"
    /\ NoTasks
    /\ server' = "returned"
    /\ UNCHANGED <<conn, requestVars>>

\* The task of a connection sees the drain channel close.
Drain(c) ==
    /\ conn[c] = "open"
    /\ DrainClosed
    /\ conn' = [conn EXCEPT ![c] = "draining"]
    /\ UNCHANGED <<server, requestVars>>

\* A draining connection takes no other request: it closes when it has none.
CloseIdle(c) ==
    /\ conn[c] = "draining"
    /\ Stage(c) = "idle"
    /\ conn' = [conn EXCEPT ![c] = "away"]
    /\ UNCHANGED <<server, requestVars>>

\* The grace period is over: the connection is dropped with its request.
Cut(c) ==
    /\ conn[c] = "draining"
    /\ CutoffClosed
    /\ conn' = [conn EXCEPT ![c] = IF Stage(c) = "idle" THEN "away" ELSE "cut"]
    /\ Drop(c)
    /\ UNCHANGED server

\* The client goes, or the connection fails.
Leave(c) ==
    /\ Serving(c)
    /\ conn' = [conn EXCEPT ![c] = "away"]
    /\ Drop(c)
    /\ UNCHANGED server

\* A response switches protocols: the task ends and the socket lives elsewhere,
\* where no shutdown reaches it.
Upgrade(c) ==
    /\ Serving(c)
    /\ Stage(c) = "body"
    /\ conn' = [conn EXCEPT ![c] = "upgraded"]
    /\ Drop(c)
    /\ UNCHANGED server

Receive(c) ==
    /\ conn[c] = "open"
    /\ \E t \in Asked : Begin(c, t)
    /\ UNCHANGED serviceVars

Handle(c) ==
    /\ Serving(c)
    /\ Serve(c) \/ \E w \in Workers : Work(c, w)
    /\ UNCHANGED serviceVars

Next ==
    \/ AcceptFails \/ Shutdown \/ GraceEnds \/ Return
    \/ \E c \in Conns :
        \/ Accept(c) \/ Drain(c) \/ CloseIdle(c) \/ Cut(c) \/ Leave(c) \/ Upgrade(c)
        \/ Receive(c) \/ Handle(c)

\* The runtime runs the server and the connection tasks, and the timer fires.
\* No handler and no body is taken to end.
Fairness ==
    /\ WF_vars(GraceEnds \/ Return)
    /\ \A c \in Conns : WF_vars(Drain(c) \/ CloseIdle(c) \/ Cut(c))

Spec == Init /\ [][Next]_vars /\ Fairness

-----------------------------------------------------------------------------
\* A request that is under way when the shutdown begins is not dropped by the
\* server before the grace period is over (service.rs, shutdown_timeout).
GraceIsGranted == \A c \in Conns : conn[c] = "cut" => server \notin {"accepting", "draining"}

\* When internal_serve has returned after a shutdown, none of its requests is
\* worked on any more, by the handler or by what it joined.
ReturnedMeansQuiet ==
    server = "returned" => \A c \in Conns :
        /\ ~Serving(c)
        /\ Stage(c) = "idle"
        /\ \A w \in Inner : ~Busy(c, w)

\* A shutdown comes to its end, however long handlers and streams would run.
ShutdownEnds == server = "draining" ~> server = "returned"

\* "Connections already being served are left running on their tasks", says the
\* doc of internal_serve of the case in which accept fails.
ServedConnectionsRunOn == \A c \in Conns : server = "failed" => conn[c] # "cut"
=============================================================================
