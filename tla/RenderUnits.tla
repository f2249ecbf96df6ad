----------------------------- MODULE RenderUnits ----------------------------
(***************************************************************************)
(* The units that use the connection: the page and the shards inside it    *)
(* (render/unit.ts, page.ts, shard.ts), the HTTP renders they fall back to *)
(* (render/request.ts), and page loads and navigations that hold back      *)
(* connected renders until their response has ended (runtime.ts).          *)
(*                                                                         *)
(* Content counts only by what the units read of it: whether it asks for a *)
(* connection, and, for the page, which shards it holds.  A frame of a run *)
(* whose content a unit does not show yet is the run's snapshot; the later *)
(* ones are swaps of one region.  A swap of the page replaces a region     *)
(* that holds no shard.                                                    *)
(*                                                                         *)
(* A handler that calls the connection more than once is a chain of steps: *)
(* `task` names what is left of it and nothing else runs in the meantime.  *)
(***************************************************************************)
EXTENDS Connection

CONSTANTS
    Page,          \* the outermost unit
    Shards,        \* names for the shards the page's content may hold
    MaxRefreshes,  \* bound: renders requested by the units' watch effects
    MaxSwaps,      \* bound: swaps that change whether content needs a connection
    MaxNavigations \* bound: navigations begun

ASSUME UnitsAssumption ==
    /\ Targets = {Page} \cup Shards /\ Page \notin Shards
    /\ IsFiniteSet(Shards)
    /\ MaxRefreshes \in Nat /\ MaxSwaps \in Nat /\ MaxNavigations \in Nat

Units == {Page} \cup Shards

VARIABLES
    alive,         \* the shards the page's content holds now
    requires,      \* requires[u]: the content of u asks for a connection
    loading,       \* the document or a navigation: "no", "requested", "streaming"
    own,           \* the page still shows what that response delivered
    waiting,       \* units whose callback whenLoaded() keeps
    http,          \* http[u]: the render over HTTP: "no", "requested", "streaming"
    task,          \* "none", or what is left of the handler that runs: "document"
                   \* and then "release" while the page's content is replaced
    micro,         \* the queued microtasks, oldest first
    uncovered,     \* history: shards that a swap of the page left on their own
                   \* and that have not checked since
    skipped,       \* history: members that the last "open" event did not reach
    refreshes, swaps, navigations  \* bound counters

bounds == <<refreshes, swaps, navigations>>
history == <<uncovered, skipped>>
unitVars == <<alive, requires, loading, own, waiting, http, task, micro, history,
              bounds>>
allVars == <<vars, unitVars>>

Check == [op |-> "check", unit |-> Page]       \* leave()'s disconnect check
SyncOf(u) == [op |-> "sync", unit |-> u]       \* a shard's scheduleConnection()
Microtasks == {Check} \cup {SyncOf(u) : u \in Units}
Phases == {"no", "requested", "streaming"}

(* The checks of the units in S, in any order. *)
Checks(S) ==
    {q \in [1..Cardinality(S) -> {SyncOf(u) : u \in S}] :
        \A u \in S : \E i \in DOMAIN q : q[i] = SyncOf(u)}

UnitsInit ==
    /\ Init
    /\ alive \in SUBSET Shards
    /\ requires \in [Units -> BOOLEAN]
    /\ \A u \in Shards \ alive : ~requires[u]
    /\ loading = "streaming"
    /\ waiting = {}
    /\ http = [u \in Units |-> "no"]
    /\ task = "none"
    /\ own = TRUE
    /\ micro \in {<<SyncOf(Page)>> \o checks : checks \in Checks(alive)}
    /\ uncovered = {} /\ skipped = {}
    /\ refreshes = 0 /\ swaps = 0 /\ navigations = 0

-----------------------------------------------------------------------------
(* Whether u needs a connection of its own: its content asks for one and   *)
(* the content around it does not.                                         *)
Covered(u, needs) == u # Page /\ needs[Page]
NeedsOwn(u, needs) == needs[u] /\ ~Covered(u, needs)

Free == task = "none" /\ micro = << >> /\ opening = {}

(* leave() queues its check behind the microtasks already there. *)
QueueCheck(queue) ==
    micro' = IF leaving' > leaving THEN Append(queue, Check) ELSE queue

(* syncConnection() with the connection requests `needs`: joins, leaves, or*)
(* waits for the response that is still streaming.  `queue` is what the    *)
(* microtask queue holds by then.                                          *)
SyncConnection(u, needs, queue) ==
    \/ /\ ~NeedsOwn(u, needs) /\ u \in members
       /\ Leave(u) /\ QueueCheck(queue) /\ UNCHANGED waiting
    \/ /\ ~NeedsOwn(u, needs) /\ u \notin members
       /\ micro' = queue /\ UNCHANGED <<vars, waiting>>
    \/ /\ NeedsOwn(u, needs) /\ loading # "no"
       /\ waiting' = waiting \cup {u} /\ micro' = queue /\ UNCHANGED vars
    \/ /\ NeedsOwn(u, needs) /\ loading = "no" /\ u \in members
       /\ micro' = queue /\ UNCHANGED <<vars, waiting>>
    \/ /\ NeedsOwn(u, needs) /\ loading = "no" /\ u \notin members
       /\ Join(u) /\ micro' = queue /\ UNCHANGED waiting

KeepRequest(u) == UNCHANGED http             \* Mutant: it stays in flight

(* Cancels the render of u over HTTP: its frames do not apply any more. *)
CancelRequest(u) == http' = [http EXCEPT ![u] = "no"]

(* This step started a run whose request threw. *)
Threw == NextRun \in thrown'

-----------------------------------------------------------------------------
(* Microtasks. *)

(* The disconnect check of leave(). *)
RunCheck ==
    /\ task = "none" /\ micro # << >> /\ Head(micro) = Check
    /\ micro' = Tail(micro)
    /\ CheckMembers
    /\ UNCHANGED <<alive, requires, loading, own, waiting, http, task, history,
                   bounds>>

(* A deferred syncConnection().  The page makes this call while it applies *)
(* a swap, and a response that it throws into is not read any further.     *)
RunSync ==
    /\ task = "none" /\ micro # << >> /\ Head(micro).op = "sync"
    /\ LET u == Head(micro).unit IN
        /\ SyncConnection(u, requires, Tail(micro))
        /\ uncovered' = uncovered \ {u}
        /\ UNCHANGED http \/ (u = Page /\ Threw /\ CancelRequest(u))
    /\ skipped' = skipped \cap members'
    /\ UNCHANGED <<alive, requires, loading, own, task, bounds>>

-----------------------------------------------------------------------------
(* Replacing and swapping content.                                         *)

(* replaceContent() of a shard: its next content asks for a connection or  *)
(* not, and a microtask is to find out.                                    *)
ShardReplaced(u, need) ==
    /\ requires' = [requires EXCEPT ![u] = need]
    /\ micro' = Append(micro, SyncOf(u))
    /\ UNCHANGED <<alive, loading, own, waiting, task>>

LeaveOnly(u) == Leave(u)                     \* Mutant: the run goes on

(* The abort listener of a unit that is disposed of. *)
Abandon(u) == Remove(u)

(* replace() of the page first releases the old content, shard by shard:   *)
(* the render of each is stopped and its membership ends.                  *)
DisposeShard(u) ==
    /\ task = "release" /\ u \in alive
    /\ alive' = alive \ {u}
    /\ requires' = [requires EXCEPT ![u] = FALSE]
    /\ waiting' = waiting \ {u}
    /\ CancelRequest(u)
    /\ \/ Abandon(u) /\ QueueCheck(micro)
       \/ /\ u \notin members /\ runIds[u] = NoRun
          /\ UNCHANGED <<vars, micro>>
    /\ uncovered' = uncovered \ {u} /\ skipped' = skipped \cap members'
    /\ UNCHANGED <<loading, own, task, bounds>>

(* Then it scans the new content: new shards queue their check, and the    *)
(* page makes its own at once.  A response whose snapshot it was ends if   *)
(* that throws.                                                            *)
Hydrate ==
    /\ task = "release" /\ alive = {}
    /\ task' = "none"
    /\ \E new \in SUBSET Shards, needs \in [Units -> BOOLEAN] :
        /\ \A u \in Shards \ new : ~needs[u]
        /\ alive' = new
        /\ requires' = needs
        /\ \E checks \in Checks(new) : SyncConnection(Page, needs, micro \o checks)
    /\ IF Threw THEN CancelRequest(Page) ELSE UNCHANGED http
    /\ skipped' = skipped \cap members'
    /\ UNCHANGED <<loading, own, uncovered, bounds>>

(* replaceContent() of any unit; the page's goes on with the steps above. *)
SnapshotReplaces(u) ==
    IF u = Page
    THEN /\ task' = "release" /\ own' = FALSE
         /\ UNCHANGED <<alive, requires, loading, waiting, micro>>
    ELSE \E need \in BOOLEAN : ShardReplaced(u, need)

(* applySwap(): a region of u changes, and with it possibly whether u asks *)
(* for a connection.  The unit checks again, a shard in a microtask; the   *)
(* shards in the page do not, though they may have been covered until now. *)
Swapped(u) ==
    /\ swaps < MaxSwaps
    /\ swaps' = swaps + 1
    /\ requires' = [requires EXCEPT ![u] = ~@]
    /\ uncovered' = IF u = Page /\ requires[Page]
                    THEN uncovered \cup alive ELSE uncovered

SwapKeepsNeed(u) == UNCHANGED <<requires, uncovered, swaps>>

-----------------------------------------------------------------------------
(* Frames over the connection.                                             *)

(* The unit a frame of run r goes to, if the connection accepts it. *)
Accepted(r, u) == r \in DOMAIN runs /\ runs[r] = u

(* A frame of a run that is not accepted any more. *)
FrameDropped(s) ==
    /\ Free /\ Receive(s)
    /\ Head(toClient[s]) \notin DOMAIN runs
    /\ UNCHANGED unitVars

(* The snapshot of a connected render.  Replacing the content cancels a    *)
(* render over HTTP.                                                       *)
ConnectedSnapshot(s, u) ==
    /\ Free /\ Receive(s)
    /\ LET r == Head(toClient[s]) IN Accepted(r, u) /\ shown[u] # r
    /\ CancelRequest(u)
    /\ SnapshotReplaces(u)
    /\ UNCHANGED <<history, bounds>>

(* A swap of the connected render u shows.  The page's check follows as a  *)
(* microtask here; in the code it is the last call of the same handler.    *)
ConnectedSwap(s, u) ==
    /\ Free /\ Receive(s)
    /\ LET r == Head(toClient[s]) IN Accepted(r, u) /\ shown[u] = r
    /\ Swapped(u) \/ SwapKeepsNeed(u)
    /\ micro' = <<SyncOf(u)>>
    /\ UNCHANGED <<alive, loading, own, waiting, http, task, skipped, refreshes,
                   navigations>>

-----------------------------------------------------------------------------
(* Renders over HTTP.                                                      *)

(* refresh(): over the connection if the content needs one and the socket  *)
(* is open; the scheduling of the refresh has cancelled a render over HTTP.*)
RefreshConnected(u) ==
    /\ Free /\ u \in {Page} \cup alive
    /\ refreshes < MaxRefreshes /\ refreshes' = refreshes + 1
    /\ requires[u]
    /\ Run(u)
    /\ CancelRequest(u)
    /\ skipped' = skipped \ {u}
    /\ UNCHANGED <<alive, requires, loading, own, waiting, task, micro, uncovered,
                   swaps, navigations>>

(* refresh(): otherwise it stops the connected run and posts a request. *)
RefreshOverHttp(u) ==
    /\ Free /\ u \in {Page} \cup alive
    /\ refreshes < MaxRefreshes /\ refreshes' = refreshes + 1
    /\ ~(requires[u] /\ IsOpen)
    /\ Stop(u) \/ (runIds[u] = NoRun /\ UNCHANGED vars)
    /\ http' = [http EXCEPT ![u] = "requested"]
    /\ UNCHANGED <<alive, requires, loading, own, waiting, task, micro, history,
                   swaps, navigations>>

(* The snapshot of the response: the request carries on with its swaps. *)
HttpSnapshot(u) ==
    /\ Free /\ http[u] = "requested"
    /\ http' = [http EXCEPT ![u] = "streaming"]
    /\ ReplaceOverHttp(u) \/ (shown[u] = NoRun /\ UNCHANGED vars)
    /\ SnapshotReplaces(u)
    /\ UNCHANGED <<history, bounds>>

(* A swap of the response, applied only to content of the same render. *)
HttpSwap(u) ==
    /\ Free /\ http[u] = "streaming" /\ shown[u] = NoRun
    /\ Swapped(u)
    /\ micro' = <<SyncOf(u)>>
    /\ UNCHANGED <<vars, alive, loading, own, waiting, http, task, skipped,
                   refreshes, navigations>>

(* The response ends, or the request fails. *)
HttpEnds(u) ==
    /\ Free /\ http[u] # "no"
    /\ http' = [http EXCEPT ![u] = "no"]
    /\ UNCHANGED <<vars, alive, requires, loading, own, waiting, task, micro, history,
                   bounds>>

-----------------------------------------------------------------------------
(* The document's own response, and navigations.                           *)

(* navigate(): from now on whenLoaded() waits for this response. *)
Navigate ==
    /\ Free /\ navigations < MaxNavigations
    /\ navigations' = navigations + 1
    /\ loading' = "requested" /\ own' = FALSE
    /\ UNCHANGED <<vars, alive, requires, waiting, http, task, micro, history,
                   refreshes, swaps>>

(* commit() calls replaceDocument(), which stops the run of the old page... *)
Commit ==
    /\ Free /\ loading = "requested"
    /\ loading' = "streaming"
    /\ task' = "document"
    /\ Stop(Page) \/ (runIds[Page] = NoRun /\ UNCHANGED vars)
    /\ UNCHANGED <<alive, requires, own, waiting, http, micro, history, bounds>>

(* ... and replaces its content, with any render over HTTP. *)
ReplaceDocument ==
    /\ task = "document" /\ task' = "release" /\ own' = TRUE
    /\ CancelRequest(Page)
    /\ ReplaceOverHttp(Page) \/ (shown[Page] = NoRun /\ UNCHANGED vars)
    /\ UNCHANGED <<alive, requires, loading, waiting, micro, history, bounds>>

(* A swap of the response, applied only to the content it delivered. *)
LoadSwap ==
    /\ Free /\ loading = "streaming" /\ own
    /\ Swapped(Page)
    /\ micro' = <<SyncOf(Page)>>
    /\ UNCHANGED <<vars, alive, loading, own, waiting, http, task, skipped,
                   refreshes, navigations>>

WakeNobody == micro' = << >>                 \* Mutant: nobody checks again

(* Everyone who waited checks again. *)
WakeWaiting == micro' \in Checks(waiting)

(* The response has ended. *)
Loaded ==
    /\ Free /\ loading = "streaming"
    /\ loading' = "no" /\ own' = FALSE
    /\ waiting' = {}
    /\ WakeWaiting
    /\ UNCHANGED <<vars, alive, requires, http, task, history, bounds>>

-----------------------------------------------------------------------------
(* Events of the socket, and the loop that tells the members it opened.    *)

UnitOpened(u) ==
    \/ /\ NeedsOwn(u, requires) /\ OpenedRuns(u)
       /\ skipped' = skipped \cup ((opening \ {u}) \ opening')
       /\ UNCHANGED <<micro, uncovered>>
       /\ UNCHANGED <<alive, requires, loading, own, waiting, http, task, bounds>>
    \/ /\ ~NeedsOwn(u, requires) /\ OpenedLeaves(u) /\ QueueCheck(micro)
       /\ UNCHANGED <<alive, requires, loading, own, waiting, http, task, history,
                      bounds>>

SocketTask ==
    /\ Free
    /\ \/ RetryFires
       \/ \E s \in Sockets : OpenEvent(s) \/ CloseBegins(s) \/ CloseEvent(s)
    /\ skipped' = skipped \ opening'
    /\ UNCHANGED <<alive, requires, loading, own, waiting, http, task, micro,
                   uncovered, bounds>>

ServerTask == (\E s \in Sockets : ServerEvent(s)) /\ UNCHANGED unitVars

FrameTask ==
    \E s \in Sockets :
        FrameDropped(s) \/ \E u \in Units : ConnectedSnapshot(s, u) \/ ConnectedSwap(s, u)

UnitsNext ==
    \/ RunCheck \/ RunSync \/ Hydrate
    \/ Navigate \/ Commit \/ ReplaceDocument \/ LoadSwap \/ Loaded
    \/ \E u \in Shards : DisposeShard(u)
    \/ \E u \in Units :
        \/ RefreshConnected(u) \/ RefreshOverHttp(u)
        \/ HttpSnapshot(u) \/ HttpSwap(u) \/ HttpEnds(u)
        \/ UnitOpened(u)
    \/ FrameTask \/ SocketTask \/ ServerTask

UnitsSpec == UnitsInit /\ [][UnitsNext]_allVars

-----------------------------------------------------------------------------
(* Properties *)

UnitTypes ==
    /\ alive \in SUBSET Shards
    /\ requires \in [Units -> BOOLEAN]
    /\ loading \in Phases /\ own \in BOOLEAN
    /\ waiting \in SUBSET Units
    /\ http \in [Units -> Phases]
    /\ task \in {"none", "document", "release"}
    /\ micro \in Seq(Microtasks)
    /\ uncovered \in SUBSET Shards

(* Type correctness of the units and of the connection below them. *)
UnitsTypeOK == TypeOK /\ UnitTypes /\ skipped \in SUBSET Units

(* No JavaScript is running and no response is awaited by whenLoaded(). *)
Settled == Free /\ loading = "no"

(* A unit that needs a connection of its own is a member as soon as the    *)
(* page has loaded and its handlers are done: one that missed its turn     *)
(* would never render connected.  The exception is a shard in a page whose *)
(* content asked for a connection until a swap removed what asked: nobody  *)
(* tells the shard that it is on its own now, though a unit joins "when    *)
(* the content requests a connection and no enclosing unit's content does" *)
(* (unit.ts:23).                                                           *)
NeedyUnitsAreMembers ==
    Settled => \A u \in ({Page} \cup alive) \ uncovered :
                    NeedsOwn(u, requires) => u \in members

(* Over an open socket every member that its "open" event reached has a    *)
(* run: its content is, or is about to be, the output of a connected       *)
(* render.  A throwing request keeps the event from those behind it.       *)
MembersOfOpenSocketRun ==
    Settled /\ IsOpen => \A u \in members \ skipped : runIds[u] # NoRun

(* It has as long as no navigation has stopped the run of the page.        *)
RunUnlessNavigated == navigations = 0 => MembersOfOpenSocketRun

(* A shard that has left the document has let go of everything: it is no   *)
(* member, its run is stopped, and neither a response nor a callback is    *)
(* left that could write into markup that is gone.                         *)
GoneShardsLetGo ==
    \A u \in Shards \ alive :
        /\ u \notin members /\ runIds[u] = NoRun
        /\ http[u] = "no" /\ u \notin waiting

(* A response to an HTTP render cannot overwrite a newer connected render: *)
(* once a unit shows the run it waits for, no request is left in flight.   *)
NoStaleResponse ==
    \A u \in Units : runIds[u] # NoRun /\ shown[u] = runIds[u] => http[u] = "no"

(* The socket is given up only if nobody is about to need it: leave() says *)
(* it stays open if a member joins before the current task ends.           *)
SocketSurvivesReplacement ==
    [][RunCheck /\ socket # NoSocket /\ socket' = NoSocket =>
        ~\E i \in 1..Len(micro) :
            micro[i].op = "sync" /\ NeedsOwn(micro[i].unit, requires)
            /\ loading = "no"]_allVars
=============================================================================
