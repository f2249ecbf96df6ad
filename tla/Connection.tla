----------------------------- MODULE Connection -----------------------------
(***************************************************************************)
(* The browser's one WebSocket for connected renders (render/connection.ts)*)
(* with the two channels of each socket and the set of runs the server     *)
(* renders for it (layer/socket.rs, in detail in RuntimeSocket).           *)
(*                                                                         *)
(* Targets call Join, Leave, Run, Stop and Remove at any moment.  The      *)
(* browser runs one piece of JavaScript at a time: socket events and       *)
(* timers are tasks of their own, and none starts while the loop over the  *)
(* members (`opening`) or a queued microtask (`leaving`) is unfinished.    *)
(***************************************************************************)
EXTENDS Naturals, Sequences, FiniteSets

CONSTANTS
    Targets,      \* the render units that may become members
    MaxInputs,    \* bound: runs asked for over an open socket, and frames
    MaxSockets,   \* bound: sockets opened; the last one never fails
    MaxFrames,    \* bound: frames on their way to the browser on one socket
    MaxQueued     \* bound: leave() microtasks queued at one time

ASSUME BoundsAssumption ==
    /\ MaxInputs \in Nat
    /\ MaxSockets \in Nat \ {0}
    /\ MaxFrames \in Nat
    /\ MaxQueued \in Nat \ {0}

NoRun == 0
NoSocket == 0
Sockets == 1..MaxSockets

VARIABLES
    members,      \* targets that need the connection
    runIds,       \* runIds[t]: the current run of t, or NoRun
    runs,         \* run id -> target, for the runs whose output is accepted
    lastRun,      \* the most recent run id taken
    thrown,       \* the recorded runs whose request threw: they are never sent
    inputs,       \* bound counter: these runs and frames so far
    socket,       \* the socket in use, or NoSocket for null
    retry,        \* TRUE while the reconnect timer is set
    opening,      \* members whose connectionOpened() is still to be called
    leaving,      \* disconnect checks queued as microtasks by leave()
    opened,       \* the number of sockets created so far
    ready,        \* ready[s]: the WebSocket readyState of socket s
    toServer,     \* messages on their way to the server, per socket
    toClient,     \* the run ids of the frames on their way to the browser
    serving,      \* serving[s]: the runs the server renders for s
    shown         \* shown[t]: the run whose content t shows; NoRun for HTTP

client == <<members, runIds, runs, lastRun, thrown, socket, retry, opening,
            leaving, opened>>
vars == <<client, inputs, serving, ready, toServer, toClient, shown>>

StopMessage(r) == [op |-> "stop", run |-> r]
RunMessage(r) == [op |-> "run", run |-> r]

Messages == [op : {"stop", "run"}, run : Nat]
ReadyStates == {"none", "connecting", "open", "closing", "closed"}

Init ==
    /\ members = {}
    /\ runIds = [t \in Targets |-> NoRun]
    /\ runs = [r \in {} |-> NoRun]
    /\ lastRun = 0 /\ thrown = {}
    /\ inputs = 0
    /\ socket = NoSocket
    /\ retry = FALSE
    /\ opening = {}
    /\ leaving = 0
    /\ opened = 0
    /\ ready = [s \in Sockets |-> "none"]
    /\ toServer = [s \in Sockets |-> << >>]
    /\ toClient = [s \in Sockets |-> << >>]
    /\ serving = [s \in Sockets |-> {}]
    /\ shown = [t \in Targets |-> NoRun]

-----------------------------------------------------------------------------
(* Helpers of the class.  A definition marked "Mutant" is a wrong variant  *)
(* of the one below it, used only to show which property notices it.       *)

IsOpen == socket # NoSocket /\ ready[socket] = "open"

RunsKept(t) == runs                          \* Mutant: stop() keeps the run

(* The accepted runs once the current run of t is stopped. *)
RunsWithout(t) ==
    [r \in DOMAIN runs \ {runIds[t]} |-> runs[r]]

NoStopMessages(t) == << >>                   \* Mutant: stop() tells nobody

(* The stop message that stop() sends for the current run of t, if any. *)
StopMessages(t) ==
    IF runIds[t] = NoRun THEN << >> ELSE <<StopMessage(runIds[t])>>

NextRun == lastRun + 1

(* run(): stops the previous run of t, takes the next id and records it.   *)
ClaimRun(t) ==
    /\ IsOpen
    /\ lastRun' = NextRun
    /\ runIds' = [runIds EXCEPT ![t] = NextRun]
    /\ runs' = [r \in DOMAIN RunsWithout(t) \cup {NextRun} |->
                    IF r = NextRun THEN t ELSE runs[r]]

(* Then the target describes its request, which is sent. *)
SendRun(t) ==
    /\ toServer' = [toServer EXCEPT
                        ![socket] = @ \o StopMessages(t) \o <<RunMessage(NextRun)>>]
    /\ thrown' = thrown \ {runIds[t]}

(* Or rerunRequest() throws, as an expression of the page may that it       *)
(* evaluates: the run stays recorded, and the server never hears of it.    *)
RequestThrows(t) ==
    /\ toServer' = [toServer EXCEPT ![socket] = @ \o StopMessages(t)]
    /\ thrown' = (thrown \ {runIds[t]}) \cup {NextRun}

StartRun(t) == ClaimRun(t) /\ (SendRun(t) \/ RequestThrows(t))

(* stop(): forgets the run of t and, over an open socket, says so. *)
StopRun(t) ==
    /\ runIds' = [runIds EXCEPT ![t] = NoRun]
    /\ runs' = RunsWithout(t)
    /\ thrown' = thrown \ {runIds[t]}
    /\ toServer' = IF IsOpen
                   THEN [toServer EXCEPT ![socket] = @ \o StopMessages(t)]
                   ELSE toServer

(* forgetRuns() *)
ForgetRuns ==
    /\ runIds' = [t \in Targets |-> NoRun]
    /\ runs' = [r \in {} |-> NoRun]
    /\ thrown' = {}

(* connect(): creates the next socket and keeps it. *)
Connect ==
    /\ opened < MaxSockets
    /\ opened' = opened + 1
    /\ socket' = opened + 1
    /\ ready' = [ready EXCEPT ![opened + 1] = "connecting"]

(* The microtask leave() queues when it removes the last member. *)
QueueLeave(t) ==
    leaving' = IF members = {t} THEN leaving + 1 ELSE leaving

-----------------------------------------------------------------------------
(* Calls of the targets.  They come between the events of the socket.      *)

Calling == opening = {}

(* join() over an open socket: the new member runs right away. *)
JoinOpen(t) ==
    /\ Calling /\ t \notin members
    /\ inputs < MaxInputs
    /\ members' = members \cup {t}
    /\ inputs' = inputs + 1
    /\ StartRun(t)
    /\ UNCHANGED <<socket, retry, opening, leaving, opened, ready, toClient,
                   serving, shown>>

(* join() opens a socket only if none is coming anyway. *)
MayConnect == socket = NoSocket /\ ~retry

(* join() with neither a socket nor a retry: opens a socket. *)
JoinConnect(t) ==
    /\ Calling /\ t \notin members
    /\ ~IsOpen /\ MayConnect
    /\ members' = members \cup {t}
    /\ Connect
    /\ UNCHANGED <<runIds, runs, lastRun, thrown, inputs, retry, opening, leaving,
                   toServer, toClient, serving, shown>>

(* join() while a socket is opening or closing, or a retry is set. *)
JoinWait(t) ==
    /\ Calling /\ t \notin members
    /\ ~IsOpen /\ ~MayConnect
    /\ members' = members \cup {t}
    /\ UNCHANGED <<runIds, runs, lastRun, thrown, inputs, socket, retry, opening,
                   leaving, opened, ready, toServer, toClient, serving, shown>>

Join(t) == JoinOpen(t) \/ JoinConnect(t) \/ JoinWait(t)

(* leave() of a member: its run goes on. *)
Leave(t) ==
    /\ Calling /\ t \in members
    /\ leaving < MaxQueued
    /\ members' = members \ {t}
    /\ QueueLeave(t)
    /\ UNCHANGED <<runIds, runs, lastRun, thrown, inputs, socket, retry, opening,
                   opened, ready, toServer, toClient, serving, shown>>

(* run() called by a unit that refreshes; FALSE unless the socket is open. *)
Run(t) ==
    /\ Calling /\ inputs < MaxInputs
    /\ inputs' = inputs + 1
    /\ StartRun(t)
    /\ UNCHANGED <<members, socket, retry, opening, leaving, opened, ready,
                   toClient, serving, shown>>

(* stop() of a target that has a run. *)
Stop(t) ==
    /\ Calling /\ runIds[t] # NoRun
    /\ StopRun(t)
    /\ UNCHANGED <<members, lastRun, inputs, socket, retry, opening, leaving,
                   opened, ready, toClient, serving, shown>>

(* remove(): stop() and then leave(), in one call. *)
Remove(t) ==
    /\ Calling /\ (t \in members \/ runIds[t] # NoRun)
    /\ leaving < MaxQueued
    /\ StopRun(t)
    /\ members' = members \ {t}
    /\ QueueLeave(t)
    /\ UNCHANGED <<lastRun, inputs, socket, retry, opening, opened, ready,
                   toClient, serving, shown>>

(* The content of t is replaced over HTTP: by a refresh or a navigation.   *)
ReplaceOverHttp(t) ==
    /\ Calling /\ shown[t] # NoRun
    /\ shown' = [shown EXCEPT ![t] = NoRun]
    /\ UNCHANGED <<client, inputs, serving, ready, toServer, toClient>>

-----------------------------------------------------------------------------
(* The steps the browser takes on its own.                                 *)

(* disconnect(), when a queued check finds no members left. *)
Disconnect ==
    /\ retry' = FALSE
    /\ socket' = NoSocket
    /\ ForgetRuns
    /\ ready' = IF socket = NoSocket
                THEN ready ELSE [ready EXCEPT ![socket] = "closing"]

(* A microtask of leave(): disconnects unless somebody joined meanwhile. *)
CheckMembers ==
    /\ Calling /\ leaving > 0
    /\ leaving' = leaving - 1
    /\ IF members = {}
       THEN Disconnect
       ELSE UNCHANGED <<retry, socket, runIds, runs, thrown, ready>>
    /\ UNCHANGED <<members, lastRun, inputs, opening, opened, toServer,
                   toClient, serving, shown>>

(* Tasks wait for the running task and for its microtasks. *)
Idle == opening = {} /\ leaving = 0

TellNobody(s) == UNCHANGED opening           \* Mutant: members are not told

(* The "open" event of the socket in use is passed on to every member. *)
TellMembers(s) == opening' = IF socket = s THEN members ELSE opening

(* The "open" event. *)
OpenEvent(s) ==
    /\ Idle /\ ready[s] = "connecting"
    /\ ready' = [ready EXCEPT ![s] = "open"]
    /\ TellMembers(s)
    /\ UNCHANGED <<members, runIds, runs, lastRun, thrown, inputs, socket, retry,
                   leaving, opened, toServer, toClient, serving, shown>>

(* connectionOpened() of a member that still needs the connection.  If its *)
(* request throws, the loop is over, and those that are left are not told. *)
OpenedRuns(t) ==
    /\ t \in opening
    /\ ClaimRun(t)
    /\ \/ SendRun(t) /\ opening' = opening \ {t}
       \/ RequestThrows(t) /\ opening' = {}
    /\ UNCHANGED <<members, inputs, socket, retry, leaving, opened, ready,
                   toClient, serving, shown>>

(* connectionOpened() of a member that does not need it any more. *)
OpenedLeaves(t) ==
    /\ t \in opening
    /\ opening' = opening \ {t}
    /\ members' = members \ {t}
    /\ QueueLeave(t)
    /\ UNCHANGED <<runIds, runs, lastRun, thrown, inputs, socket, retry, opened,
                   ready, toServer, toClient, serving, shown>>

(* The socket begins to close without the browser having asked for it. *)
CloseBegins(s) ==
    /\ Idle /\ ready[s] = "open" /\ s < MaxSockets
    /\ ready' = [ready EXCEPT ![s] = "closing"]
    /\ UNCHANGED <<client, inputs, serving, toServer, toClient, shown>>

NoReconnect == UNCHANGED retry               \* Mutant: no timer is set

(* scheduleReconnect() *)
ScheduleReconnect == retry' = (retry \/ members # {})

(* The "close" event.  Frames that were still on their way are lost.       *)
CloseEvent(s) ==
    /\ Idle
    /\ ready[s] = "closing" \/ (ready[s] \in {"connecting", "open"} /\ s < MaxSockets)
    /\ ready' = [ready EXCEPT ![s] = "closed"]
    /\ toClient' = [toClient EXCEPT ![s] = << >>]
    /\ IF socket = s
       THEN socket' = NoSocket /\ ForgetRuns /\ ScheduleReconnect
       ELSE UNCHANGED <<socket, runIds, runs, thrown, retry>>
    /\ UNCHANGED <<members, lastRun, inputs, opening, leaving, opened,
                   toServer, serving, shown>>

(* The reconnect timer fires. *)
RetryFires ==
    /\ Idle /\ retry
    /\ retry' = FALSE
    /\ IF members # {}
       THEN Connect
       ELSE UNCHANGED <<socket, opened, ready>>
    /\ UNCHANGED <<members, runIds, runs, lastRun, thrown, inputs, opening, leaving,
                   toServer, toClient, serving, shown>>

(* receive(): a frame of a run that is not accepted any more is dropped.   *)
Apply(run) ==
    IF run \in DOMAIN runs
    THEN shown' = [shown EXCEPT ![runs[run]] = run]
    ELSE UNCHANGED shown

(* A "message" event, which the browser delivers only while s is open. *)
Receive(s) ==
    /\ Idle /\ ready[s] = "open" /\ toClient[s] # << >>
    /\ toClient' = [toClient EXCEPT ![s] = Tail(@)]
    /\ Apply(Head(toClient[s]))
    /\ UNCHANGED <<client, inputs, serving, ready, toServer>>

-----------------------------------------------------------------------------
(* The server's side of socket s.                                          *)

Reading(s) == ready[s] \in {"open", "closing"} /\ toServer[s] # << >>

(* The server starts a requested run. *)
ServeRun(s) ==
    /\ Reading(s) /\ Head(toServer[s]).op = "run"
    /\ toServer' = [toServer EXCEPT ![s] = Tail(@)]
    /\ serving' = [serving EXCEPT ![s] = @ \cup {Head(toServer[s]).run}]
    /\ UNCHANGED <<client, inputs, ready, toClient, shown>>

(* The server aborts a stopped run; a finished one is not there any more.  *)
(* The frame an aborted task may send before it yields counts as sent      *)
(* before the abort: the browser cannot tell.                              *)
ServeStop(s) ==
    /\ Reading(s) /\ Head(toServer[s]).op = "stop"
    /\ toServer' = [toServer EXCEPT ![s] = Tail(@)]
    /\ serving' = [serving EXCEPT ![s] = @ \ {Head(toServer[s]).run}]
    /\ UNCHANGED <<client, inputs, ready, toClient, shown>>

(* A render produces a frame. *)
Emit(s, r) ==
    /\ r \in serving[s] /\ Len(toClient[s]) < MaxFrames /\ inputs < MaxInputs
    /\ inputs' = inputs + 1
    /\ ready[s] \in {"open", "closing"}
    /\ toClient' = [toClient EXCEPT ![s] = Append(@, r)]
    /\ UNCHANGED <<client, ready, toServer, serving, shown>>

(* A render is over. *)
Finish(s, r) ==
    /\ r \in serving[s]
    /\ serving' = [serving EXCEPT ![s] = @ \ {r}]
    /\ UNCHANGED <<client, inputs, ready, toServer, toClient, shown>>

(* The message stream of the server ends: the browser closed the socket,   *)
(* or it was lost.  Every run of the connection is aborted.                *)
ServerEnds(s) ==
    /\ ready[s] \in {"closing", "closed"}
    /\ serving[s] # {} \/ toServer[s] # << >>
    /\ serving' = [serving EXCEPT ![s] = {}]
    /\ toServer' = [toServer EXCEPT ![s] = << >>]
    /\ UNCHANGED <<client, inputs, ready, toClient, shown>>

-----------------------------------------------------------------------------
Call(t) ==
    \/ Join(t) \/ Leave(t) \/ Run(t) \/ Stop(t) \/ Remove(t)
    \/ ReplaceOverHttp(t)

Opened(t) == OpenedRuns(t) \/ OpenedLeaves(t)

SocketEvent(s) == OpenEvent(s) \/ CloseBegins(s) \/ CloseEvent(s) \/ Receive(s)

ServerEvent(s) ==
    \/ ServeRun(s) \/ ServeStop(s) \/ ServerEnds(s)
    \/ \E r \in serving[s] : Emit(s, r) \/ Finish(s, r)

Next ==
    \/ CheckMembers
    \/ RetryFires
    \/ \E t \in Targets : Call(t) \/ Opened(t)
    \/ \E s \in Sockets : SocketEvent(s) \/ ServerEvent(s)

Spec == Init /\ [][Next]_vars

(***************************************************************************)
(* The event loop takes up queued work, the last socket is accepted, a     *)
(* closing socket gets its close event, and the server reads its messages. *)
(* Nobody has to call, a socket need not fail, and a render need not       *)
(* produce anything.                                                       *)
(***************************************************************************)
BrowserStep ==
    \/ CheckMembers
    \/ RetryFires
    \/ \E t \in Targets : Opened(t)
    \/ \E s \in Sockets : OpenEvent(s) \/ (ready[s] = "closing" /\ CloseEvent(s))

ServerStep(s) == ServeRun(s) \/ ServeStop(s) \/ ServerEnds(s)

Fairness ==
    /\ WF_vars(BrowserStep)
    /\ \A s \in Sockets : WF_vars(ServerStep(s))

FairSpec == Spec /\ Fairness

-----------------------------------------------------------------------------
(* Properties *)

(* Type correctness, with the shape of the two run maps. *)
TypeOK ==
    /\ members \in SUBSET Targets /\ opening \in SUBSET Targets
    /\ runIds \in [Targets -> 0..lastRun]
    /\ runs \in [DOMAIN runs -> Targets] /\ DOMAIN runs \in SUBSET (1..lastRun)
    /\ thrown \in SUBSET DOMAIN runs
    /\ lastRun \in Nat /\ inputs \in Nat /\ leaving \in Nat
    /\ opened \in 0..MaxSockets /\ socket \in 0..opened
    /\ retry \in BOOLEAN
    /\ ready \in [Sockets -> ReadyStates]
    /\ toServer \in [Sockets -> Seq(Messages)]
    /\ toClient \in [Sockets -> Seq(Nat)]
    /\ serving \in [Sockets -> SUBSET Nat]
    /\ shown \in [Targets -> 0..lastRun]

(* The two maps of the class describe the same runs: a frame is accepted   *)
(* exactly if it belongs to the run its target waits for.  A run left in   *)
(* `runs` alone would write over newer content; one left in `runIds` alone *)
(* could neither show nor be replaced.                                     *)
RunMapsAgree ==
    \A t \in Targets, r \in 1..lastRun :
        runIds[t] = r <=> (r \in DOMAIN runs /\ runs[r] = t)

(* Runs exist only on the socket in use, once it has been open: after a    *)
(* loss or a disconnect no run is left waiting for frames that cannot come.*)
RunsNeedTheSocket ==
    DOMAIN runs # {} => socket # NoSocket /\ ready[socket] \in {"open", "closing"}

(* The browser never keeps two sockets: whatever opens or is open is the   *)
(* socket in use, and while the reconnect timer is set there is none.      *)
OneSocket ==
    /\ \A s \in Sockets : ready[s] \in {"connecting", "open"} => s = socket
    /\ retry => socket = NoSocket

(* No member is stranded: while anybody needs the connection there is a    *)
(* socket, or a timer that will open one.                                  *)
MembersAreServed == members # {} => socket # NoSocket \/ retry

(* Without members the connection goes away: nothing is left open, nor a   *)
(* timer set, except until the microtask leave() queued has run.           *)
IdleConnectionCloses ==
    members = {} => leaving > 0 \/ (socket = NoSocket /\ ~retry)

(* The socket follows the members: one at most, one (or the timer that     *)
(* opens one) while there are members, none once the last has left.        *)
SocketFollowsMembers == OneSocket /\ MembersAreServed /\ IdleConnectionCloses

(* Each target shows the content of its latest render only: the connection *)
(* implements LatestRender.                                                *)
Latest == INSTANCE LatestRender WITH
            last <- lastRun, current <- runIds, shown <- shown
ShowsLatestRender == Latest!Spec

(* A member that finds no open socket has a run on its way to the server   *)
(* once one opens, unless it has left by then or a request threw in the    *)
(* same loop, its own or that of a member before it: retries never give up *)
(* and nothing else skips a member.  That "each successful connection lets *)
(* every member start a fresh run" (connection.ts:66) is more than this.   *)
MembersRunOnceOpen ==
    \A t \in Targets :
        (t \in members /\ ~IsOpen) ~>
            \/ t \notin members
            \/ IsOpen /\ runIds[t] # NoRun /\ runIds[t] \notin thrown
            \/ IsOpen /\ thrown # {}

(* Renders the browser has given up end on the server, whether the browser *)
(* stopped them one by one or dropped their socket.  A run that was given  *)
(* up is never accepted again, so none of them goes on for ever if there   *)
(* is always another moment without any.                                   *)
GivenUpRunsEnd ==
    []<>(\A s \in Sockets : serving[s] \subseteq DOMAIN runs)
=============================================================================
