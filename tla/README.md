# Verification of Topcoat

Topcoat is a full-stack web framework: Rust renders pages on the server, a
TypeScript runtime keeps them alive in the browser. This directory holds TLA+
models of the parts of it whose behaviour depends on order and timing, the TLC
runs that check them on small instances, and proofs, checked by TLAPS, that
hold for every instance.

Paths below are relative to the repository. `RT` stands for
`crates/topcoat-runtime/browser/src`.

| Module | Models | Checked by | Proved in |
|---|---|---|---|
| `Connection` | `RT/render/connection.ts` with the two ends of its sockets | `Connection` | `UnitsProofs` |
| `LatestRender` | the abstract promise of connected rendering | implemented by `Connection`, checked by `Units` | `UnitsProofs` |
| `RenderUnits` (extends `Connection`) | `RT/render/unit.ts`, `page.ts`, `shard.ts`, `request.ts`, the load phases of `runtime.ts` | `Units`, `UnitsNavigated` | `UnitsProofs` |
| `Reactivity` | `RT/reactivity.ts`, the ownership of effects by scopes, the watch effect of a unit | `Reactivity` | `ReactivityProofs` |
| `Morph` | `crates/topcoat-core/browser/morph.ts`, `RT/dom/hydrate.ts`, `scope.ts`, `signal-registry.ts`, what `unit.ts`, `page.ts` and `shard.ts` do with new content | `Morph` | |
| `Navigation` | `RT/render/navigation.ts`, `prefetch.ts` | `Navigation` | `NavigationProofs` |
| `RuntimeSocket` | `crates/topcoat-runtime/src/layer/socket.rs` | `Socket` | `ServerProofs` |
| `Memoize` | `crates/topcoat-core/src/memoize`, `context` | `Memoize` | `MemoizeProofs` |
| `Views` | `crates/topcoat-view/src/internal/*`, `hoist.rs`, `buffer`, the response of `content/view.rs`, the swap script | `Views`, `ViewsSlot` | `ViewsProofs` |
| `Settled` (extends `Views`) | what a page comes to, for the properties of `Views` | `Views` | |
| `Requests` | one request in the router: the loop of rewrites, `topcoat-cookie`, `topcoat-session` | `Application` | `ApplicationProofs` |
| `Service` (extends `Requests`) | `crates/topcoat-router/src/service.rs` | `Application` | `ApplicationProofs` |
| `Routes` | `crates/topcoat-router/src/builder.rs`, `endpoint.rs`, `trailing_slash.rs`, what they use of `path.rs` and `layer.rs`, `Router::dispatch` | `Application` | `ApplicationProofs` |
| `Application` (extends `Service`, `Routes`) | an application that is put together and then served | `Application` | `ApplicationProofs` |
| `DevServer` | `crates/topcoat-cli/src/dev.rs`, `dev/*`, the page's script in `topcoat-cli/browser` | `DevServer` | `ServerProofs` |

`Turns` holds the fold over a sequence that `Reactivity` and `Routes` use, and
`Recursion` the facts about induction and folds that the proofs share.

`PROJECT.json` maps every definition to the lines it stands for. A definition
marked "Mutant" is a wrong variant of the one that follows; nothing uses it in
the model. It records the bug by which one of the properties was seen to fail.

## 1. The system

### Parts that are modelled

**Connection (browser).** One WebSocket serves all *connected renders* of a
document. State: the set of members, two maps between targets and run ids, the
socket in use, the reconnect timer. Operations: `join`, `leave`, `run`, `stop`,
`remove`, the socket's four events, the timer. Interacts with the units that
call it, with `socket.rs` through messages in both directions, and with itself
through microtasks: `leave` only *queues* the check that may disconnect. Hard:
frames of old runs arrive late; a close event may belong to a socket that was
given up already; members come and go in every phase of a socket; a request may
throw while it evaluates the page's expressions, with its run recorded already.
Correct if only the latest render of a target is ever shown, no member is
stranded, an idle connection goes away, and no render is leaked on the server.

**Render units (browser).** The page and the shards inside it. State of a unit:
its content, whether that asks for a connection, a render over HTTP that may be
in flight, its membership. Operations: refresh, replacement by a snapshot, swap
of a region, deferred checks of the membership, disposal. Hard: shards are
disposed of and created by the content of the page; two ways of rendering race;
the checks of shards are microtasks that interleave with those of `leave`;
units wait for the load event or a navigation and may be gone by then. Correct
if units that need a connection are members and run, units that are gone have
let go of everything, and no stale response is applied.

**Navigation and prefetch (browser).** The controller follows links and history
visits without leaving the document; a cache loads pages early. State: the
newest navigation's request and promise, the history entries, the page that is
shown, the prefetches with their requests. Hard: a navigation is a coroutine
that may be superseded at each of its waits; responses expire, fail and
redirect; the location changes *before* a history visit's page arrives; signals
and server state change under the cached pages. Correct if a superseded page
never comes back, `pending` is the newest navigation's, the location and the
page agree in the end, and what is loaded is used or aborted.

**Runtime socket (server).** Two futures in one task (receiver and forwarder)
and a spawned task per render, over one bounded channel. State: run id →
handle, the channel. Hard: run ids are reused, `abort()` takes effect later, the
channel is full, the peer vanishes. Correct if every render that goes on can be
reached by a stop, and a connection that was left ends.

**Memoize and the request context (server).** `#[memoize]` caches a result per
function and arguments, with a *variant* for each set of context bindings the
body was seen to read. State: variants and a gate per entry; a tracker per
running call. Hard: concurrent callers, nested calls whose reads belong to the
enclosing call too, bindings shadowed inside bodies, panics and dropped
futures while a gate is held, recursion. Correct if a cached result is what the
body would return in every scope it is handed to, and is computed once.

**Reactivity (browser).** Signals, effects and one scheduler. State: who
subscribes to which signal, the effects that are pending, the effect that runs,
the scope that owns each effect. Operations: reads and writes in callbacks,
creation and disposal with the content, a flush in a microtask with a cap on the
runs of one effect. A unit *watches* the signals its content was rendered with
and asks for a new render when one changes. Hard: an effect writes what an
earlier one read, throws, disposes itself or its neighbours while it runs;
content is replaced while effects are pending. Correct if no change is lost, no
disposed effect is kept alive, a flush ends, and the content keeps up with the
signals.

**Morphing and hydration (browser).** New content is not put in place of the
old: the nodes that are there are morphed into it, and then the markers in it
are scanned. State: the tree of nodes, the focus, what was typed; a scope for
the page, each live region and each shard, with the signals it owns; the
registry of signals. Operations: showing a page (render, navigation, refresh of
the development server), a render of a shard, an update of a region. Hard: a
node may become any other of its kind, also a marker that another scope holds;
nodes are looked for ahead while earlier ones are displaced and moved; updates
come for regions that are gone or belong to another render. Correct if the
document becomes what was sent, scopes and signals follow it, elements with ids
stay themselves, and the user's focus, input and signal values survive.

**Views and their response (server).** A page is a tree of views that are
*polled*: first for content that can be shown, then for swaps of regions, until
there are none. Suspense, join, loop, live bodies and error boundaries combine
the answers of their children; content is built in the buffer of the build that
polls, or sealed in one of its own. The response streams what the outermost view
answers and a script in the page puts swaps between the markers of their region.
Hard: the order in which futures end decides which way every node goes; a poll
ends at the first answer and resumes later; a fallback streams while its
replacement is on its way. Correct if no view is polled out of turn and no
content ends in a foreign build (both panic), every swap finds its region, no
wake-up is lost, and the page comes to the same end in every order.

**Service, requests, cookies and sessions (server).** The accept loop with
graceful shutdown; in each connection's task a request at a time, which the
router dispatches, perhaps several times through rewrites; in each dispatch a
cookie jar with two seals and a session with its lock. Hard: futures joined in a
handler and tasks it spawned act on the same jar and session while the response
is finished; the shutdown comes at any of these points. Correct if a write that
finds the jar closed is refused aloud, the client is left with the token the
request takes for its session, rewrites end, and a shutdown gives its grace and
ends.

**Router tables (server).** An application registers routes, pages, layouts and
layers in any order, and `build()` makes the tables that every request is looked
up in: endpoints with a slot for each method, the routes with the layers around
them, and a second endpoint for the other trailing-slash form of each path. State:
the builder, then the tables, which stay. Hard: a URL may fit several paths and an
endpoint several routes; groups tell routes and layers apart that share a URL; a
layer without a path and one at the root differ by nothing but an offset; the
slash forms are added last and must give way to what others claimed. Correct if a
request gets the answer that was declared for it, whatever the order, if what is
ambiguous does not build, and a redirect leads to where something is.

**Development server.** A watcher, a build task, the application's process and
browsers, around one loop. Hard: files change while a build runs or the watcher
is replaced; builds are cancelled and fail after a restart was asked for; pages
lose their socket, lag behind, navigate and miss events; much that fails does so
without a word (cargo metadata, the watcher, the application's message). Correct
if what runs is what the source says, a press of `r` is answered, building ends,
and the page's spinner ends.

### Parts that are not modelled

| Part | State and operations | Why it is left out |
|---|---|---|
| Text areas, select boxes, event handlers and bindings of elements | properties of nodes | what becomes of nodes and of the values of inputs is in `Morph`; effects are in `Reactivity` |
| Router: path parameters and their decoding, hrefs, `Path::matches`, module routers, discovery | conversions; names computed at compile time | functions of one path or URL; the tables and what becomes of a request are in `Routes` and `Requests` |
| Request and response content, server-sent events, WebSocket content, procedures, event handlers | conversions and adapters | values computed from one request |
| Browser expressions and surrogates | conversions between Rust and TypeScript values | pure functions |
| Abort, errors, identity | small value types | what they do to a response is in `Views` and `Requests` |
| Assets, fonts, icons, Tailwind, mail, UI registry, command line | file processing at build time | pure I/O |
| htmx, Datastar, Alpine AJAX, facade, macros, grammars, benchmarks, demos, examples | typed headers; compile-time code | no behaviour at run time to order |

## 2. The models

### Connection

One socket of the browser is `ready[s]` (its `readyState`) with the two message
queues `toServer[s]` and `toClient[s]` and the runs `serving[s]` the server
renders. `members`, `runIds`, `runs`, `socket`, `retry` are the fields of the
class. The methods are actions that targets take at any moment. JavaScript runs
to completion, so the model has two flags of control: `opening` (the members
that the loop in the open event has yet to call) and `leaving` (checks queued
by `leave`); socket events and timers (`Idle`) start only when both are empty.
`run()` records its run (`ClaimRun`) and then asks the target for the request,
which is sent (`SendRun`) or throws (`RequestThrows`): a run in `thrown` is
recorded and the server never hears of it, and if the open event's loop was what
called, the members it had yet to call are not called.
A lost socket is `CloseEvent` of an open or connecting socket: frames that were
under way are gone, the server finds out by `ServerEnds`. The queues lose
nothing while a socket lasts, as WebSocket messages do not.

`LatestRender` says what the class is for, with three variables: each target
waits for at most one render and can start to show only that one.
`ShowsLatestRender` is the refinement (`last <- lastRun, current <- runIds,
shown <- shown`).

### RenderUnits

Extends `Connection` and replaces its free callers by the page and a level of
shards. Content counts by what units read of it: does it ask for a connection,
and which shards does it hold. A handler that calls the connection several
times is a chain of steps; `task` says what is left of it and nothing else runs
meanwhile. `micro` is the microtask queue, in order. `loading` is the response
`whenLoaded()` waits for. Two variables are history, for the properties:
`uncovered`, the shards that a swap of the page left on their own and that have
not checked since, and `skipped`, the members that the open event did not reach
because a request before them threw. A request that throws while a response is
applied ends the reading of the response too.

### Navigation

`follow()` is a coroutine with two kinds of wait, `at = "head"` and `at =
"frames"`; each action `FollowHead`, `Commit`, `Update`, ... is the code
between two waits, including what `navigate()` does when it returns
(`Finish`). A request has its own life (`Network`); `history` and `place`
are the session history and `location`. What a frame says is chosen when it is
read. Leaving for another document (`load()`) ends the model's behaviour
(`left`). Between two microtasks of the same task the model lets other events
in, which the browser does not: the model has more behaviours than the code.

### RuntimeSocket

The receiver, the forwarder and each spawned task move one step at a time: a
message read, a message moved, a send that finds room. Nothing depends on what
messages say, so the channel is the number `queued`. An aborted task may
still send until it ends (`TaskEnds`), as `abort()` takes effect at the next
yield.

### Memoize

A caller (a thread or a task of the request) is a stack of frames; a frame is
one call with its tracker (`reads`, `entry`) and where it is: the lookup, the
gate, the body. A body is a parameter: `Body(e, seen)` gives the next operation
once the results of the earlier ones were seen, so it can read, shadow, call
and return depending on what it read and on nothing else. A binding id is a
place in `bound`; a scope maps types to ids. The reference for values is
`Cold`: the same body run without any cache, its nested calls too, as far as it
comes within a number of steps (`ColdSteps` in the run).

### Reactivity

JavaScript runs to completion, so `heap` is one record with everything a
callback can change, and a task (an event handler, an arriving frame, a late
region of the document) is one action that folds the steps of its callbacks over
it. A step reads, writes, branches on, throws on or copies a signal, or disposes
an effect; `Programs` gives the bindings their steps. Microtasks are actions of
their own (`StartFlush`, `RunNext`, `EndFlush`, `Refresh`) and a task starts
only when there are none left. `shows` records with which value of which signal
the content was rendered; `seen` and `wrote` are what an effect read and wrote
in its last run, for the properties only.

### Morph

What the server sends is a tree; in the document a node is a number, so that a
node that goes through a step is seen to be the same one. `Children` is
`morphChildren`: for one new node after the other `Placed` says which node
stands for it (a match among the siblings, the old element with its id, or the
new one) and what is morphed into its children. `Rehydrated` releases a scope,
folds `Marker` over the nodes in document order and deletes the signals that
are left. Each step is a whole handler: `Load`, `Show`, `Rerender`, `Swap`, and
`Type`, `Leave` and `Change` for the user. `sent` and `origin` say what the
document should be and which render each part is from, independently of the
nodes and the scopes, for the properties only.

### Views

A page is a *template*, a sequence of nodes that form a tree. A poll is a walk
over it: `poll` says which node is asked (for its first content or for a swap),
runs its own code, or has replied, and that is the call stack of the code, as a
node asks one child at a time. An action is what a node does between two calls:
`SuspenseAsked` is what `SuspenseView` does up to the poll of a child,
`ChildAnswered` what it does with the answer. There are three ways for a node to
go on: with its own code (`GoesOn`), into a child (`AsksIn`), back to its parent
(`Replies`). `asked` is a node's turn in the protocol (new, live, settled) and the
build that it is polled in; `node` the state of its own code. Content is a
sequence of tokens (a text, a region marker, a hoisted part) with the build it
belongs to; `Sealed` content has a buffer of its own. `Poll` and `Respond`
or `Stream` are the two ends of a poll by the response's task. Futures end
(`Resolve`) at any time, *between two steps of a poll too*, as other threads
complete them, and wake the task only if it has registered with them since its
last poll began. `page` is what the browser has after the swap script ran.

`Settled` says recursively, from the template and the outcomes alone, what can be
shown by now (`Ready`, `Visible`), what a page comes to (`Final`) and what is due
(`Due`).

### Requests and Service

`Requests` is one connection's request: `stage` is how far the router is
(dispatch, handler, the three steps of the cookie layer, response head, body).
Futures of the handler (`Inner`) run on its task: they give way only where they
await, so a cookie write is one step. Spawned tasks (`Detached`) run on other
threads and their write is four (`GetOrInit`, `InheritSeal`, `AssertOpen`,
`Add`), between which the response can be finished. A session call takes the
lock, reads the store, changes the store and sets the token of the context;
`late` marks a call that begins when the cell and the jar are closed. `tidy` is
history: no two changes of the session overlapped, whoever made them, none was
under way while `write_cookies` ran, and the handler was not cut off after the
store had a change and before the context had. `Service` adds the server: its three watch channels signal by closing, so
each is a condition on `server`.

### Routes and Application

In `Routes` a path is the sequence of its segments, a URL that of its parts, and an
empty last one is a trailing slash. `Push` is every registration; `Build` makes the
tables as the code does: a page gets its layouts, `Register` is a round of the
loop over the registrations, in order, then HEAD falls back on GET, then
`AddTwin` is a round of `register_twins`. `Arranged` is what each of the stable
sorts comes to: the chosen entries by the number of those that go before them. `Panic` is a build that fails. matchit
is not part of the repository: `Shape`, `Fits` and `Precedes` are what the code
relies on (paths that differ in the names of parameters conflict; static
before parameter before catch-all). `Dispatch` is the answer to a method and a URL.

The second half of the module says the same again without any order: `Faulty`,
`For`, `OtherForms`, `Stacked` speak of sets of declarations, of prefixes and of
the relation "belongs outside", never of lengths, indices or slots.
`TablesAreRight` compares the two. `Application` puts the module under the
service: once built, the tables decide which requests reach a handler (`Routed`).

### DevServer

A version of the source is a number and so is an executable: the stamp that
`last_build` compares is the version it was linked from. `watched` says what
the watcher covers: every package, some of them (a watch failed, or a manifest
gained a package), or only `./src` after cargo metadata failed (`Discover`).
The operating system tells the watcher later (`Hear`), with an error that is
dropped (`HearError`), or, outside what is watched, never; `missed` is the
history of changes that matter and went unheard since cargo last read. The loop
takes one event at a time and may be in the middle of publishing (`unsent`: the
status first, the event after it); the build task moves through compile, link
and bundle and may be cancelled between. An application that is up may fail to
say so (`"untold"`). The page has its socket with the events on their way, a
refresh and the label of the status indicator. The bus holds `Backlog` events
for it; when it lags by more, the server's side of the socket goes silent
(`"deaf"`). `navigating` is the page's own idea of it, which a navigation within
the document sets for good: while it is set no refresh begins and no lost socket
is replaced. `gaveUp` is history: an update that would have ended the label was
given up for a navigation.

## 3. What is checked

| Run | What it shows |
|---|---|
| `Connection` | two targets that join, leave, run and are replaced, with one run that is asked for over an open socket or one frame, over two sockets of which the first may fail at any point, with requests that throw and a queued check: the safety of the connection, and under fairness that members run once a socket opens and renders that were given up end. (882940 states) |
| `Units` | page and one shard, one each of a refresh, a swap that changes who needs a connection, and a navigation, over two sockets, with up to three frames or runs asked for and requests that throw; with the refinement of `LatestRender` (2267658 states) |
| `Socket` | five messages, two run ids, a channel of two places, with liveness |
| `Memoize` | two callers, three calls, five scopes, one failure, with liveness |
| `Navigation` | three pages, two values of the signals, two requests, two navigations |
| `Views` | five pages that nest every kind of view, futures that end in every way and order and at every point of a poll: no poll out of turn, no content in a foreign build, every swap finds its region, no wake-up is lost, what is ready is shown, the page settles; with liveness (51365 states) |
| `Application` | applications of up to three registrations out of 22 in every order and under each slash policy, with every method at eleven URLs; one of them then served: two connections, one request with a rewrite, two joined futures and a spawned task with two session calls, and a shutdown, with liveness (578709 states) |
| `DevServer` | two events from outside at any point of a session, a bus of two places, and what fails by itself wherever it can fail, with liveness (2279228 states) |
| `Reactivity` | three signals, three bindings in three programs, three handlers, a page that streams and renders again, with liveness |
| `Morph` | 33 pages of one to three elements and four pages with two regions, a shard and signals, one shown after the other in every way, or with up to two updates and renders of a shard in between, the stale ones included |
| `UnitsNavigated`, `ViewsSlot` | a statement of the repository that the code does not keep (section 3.3) |

### 3.1 Bounds

Every bound is a constant of its module. *Two* of each actor is what it takes
for two to cross: two sockets so that a late event of one meets its successor,
two ids so that one is reused while the other runs, two callers so that both
miss, two navigations so that one supersedes the other while two requests cover
taking a prefetch and making a request of one's own. `Connection` has two
targets, so that one can be skipped for what the other does in the loop of the
open event, and `MaxInputs = 1` frame or run between the events; frames that
follow each other and cross new runs and sockets are in `Units`, which has the
same actions and `MaxInputs = 3`. `Capacity = 2` in
`Socket` gives an empty, a half-full and a full channel; `MaxMessages = 5`
allows run, run again, stop, an invalid message and another run. In `Memoize`
the bodies were chosen so that variants differ in the *set* of what they read,
that a nested call shadows a binding, and that a call recurs. Navigation was
also checked once with three requests and three navigations of two pages.

The pages of `Views` were chosen so that each pair of kinds meets in the order
that matters: a region that never stops beside late ones (`Busy`), a boundary
around content that fails after it was shown (`Guarded`), an emission replaced
while its own parts are late (`Emitting`), boundary in boundary with a layout
between (`Nested`), three regions in any order (`Three`). In `Application` one
spawned task crosses the seals, two joined futures cross each other, and
`RewriteLimit = 1` lets a chain reach the limit and a circle. Three registrations
are what it takes for two to meet at a third: two layers at one route, two routes
and a layer between them, two paths and the form of another; the pool has
them share URLs through groups, differ in methods, names of parameters and
slashes only, and holds what must not build. One
application is served, as the tables act on the service only through what
is found (`Launched`); the properties of the tables are evaluated when they are
built and before the first connection (`Unserved`), since nothing writes them later. In `DevServer`
two events are one change that crosses what the other began; the code between
them brings its own; `Backlog = 2` stands for the 16 places of the bus, which the
theorem leaves open. In `Reactivity` the programs are a derived value written
after its reader ran, two effects that drive each other to the cap
(`MaxRuns = 2` for the 100 of the code), and effects that throw and dispose.
The pages of
`Morph` are 33 forests of one to three inputs and boxes, with and without ids,
so that elements move into, out of and past each other, and pages in which
markers of one part can become those of another; a wider set (every forest of
three elements with three ids, in every pair) was checked once. `MoreToCome` leaves out what the user does last, and one signal
has a value of the user's at a time, as signals do not act on each other.
Symmetry is used only in `Navigation`, which states no liveness.

The runs turn deadlock checking off, since all of these systems may stop: a
page at rest, a connection that has ended, callers that returned, a browser
that left, a response that is sent, a server that returned, and the bounds.

### 3.2 Fairness

* `Connection`: weak fairness of the browser's own steps (`BrowserStep`: queued
  checks, the timer, the open event, the close event of a socket that is
  closing) because the event loop takes up what is queued, and of the server's
  reading (`ServerStep`). Nobody has to call, a socket need not fail, a render
  need not produce anything. The last socket never fails: under endless
  failures nothing could be promised.
* `RuntimeSocket`: weak fairness of the forwarder and of the end of an aborted
  task; strong fairness of the error reply, because tokio's channel hands out
  its permits in the order they were asked for, so that a waiting sender is not
  overtaken for ever.
* `Memoize`: every caller gets its turns; no calls and no failures are owed.
* `Views`: a task that is woken is polled (`Turn`), and futures end
  (`Resolve`, as one: no particular future has to). `LateContentArrives` allows
  for a response that ends before.
* `Application`: the runtime runs the server and the connections' tasks and fires
  the timer of the grace period. No handler and no body is taken to end: the
  shutdown ends without.
* `DevServer`: what the dev server itself has to do is done: the watcher is
  called, the build task goes on, events are sent, and the loop takes what there
  is. Nobody has to edit or to press a key, the application need never be ready,
  and nothing is asked of a page.
* `Reactivity`: microtasks run. No handler has to be called, no frame arrive.
* `RenderUnits`, `Navigation` and `Morph` state safety only. That units waiting for a
  navigation are woken is split into two theorems, `NoWaiterIsForgotten` and
  `SupersededNavigationsEnd`: what they wait for has yet to end, and it waits for
  nothing the network owes.

### 3.3 Where the code and its documentation differ

* **UnitsNavigated.** A page that is a member navigates: its run is stopped
  (`page.ts:60`), and `join()` for the destination returns early because the
  page is a member (`connection.ts:103`). The destination gets no connected
  render, against `topcoat-runtime/src/connection.rs:16`.
* **ViewsSlot.** A live body that emits a page slot, which hoists parts with a
  later update: the update is polled while the build of the outer content is
  active (`live_view.rs:69`), becomes a block of that build (`hoist.rs:224`) and
  is stashed; it is rendered after the build has ended, which panics, against
  `buffer/handle.rs:27`.

Smaller observations, met while modelling. Their statements are in the modules
where one is named, but no run is spent on them:

* A signal changes between a render and the arrival of the frame that alone
  depends on it: `unit.ts:196` subscribes to the signal as it is by then, and
  the stale content is never rendered again, although
  `topcoat-runtime/src/signal.rs:83` says that a change re-renders.
  `ContentKeepsUp` shows that this (`missed`) is the only way to fall behind.
* A new option that is selected is moved out of the new select box before
  `morph.ts:451` reads the value of that box, which is then the value of an
  option that is left. Reading only: select boxes are not modelled.
* The comment at `morph.ts:29`, that the focused element is never removed or
  moved, is truer of intention than of code: what is left of the old siblings
  is removed (`morph.ts:191`) and elements with ids are moved (`:182`) whether
  they have the focus or not. `FocusStays` says when it is kept.
* A new element with an id may be matched with an old one without an id that
  holds the old element of that id (`isIdSetMatch`, `morph.ts:268`), which is
  then not kept. `IdsKeepTheirNodes` says when it is.
* A swap removes the page's request for a connection; the shard it covered is
  not asked to check again (`unit.ts:290`), although a unit joins "when the
  content requests a connection and no enclosing unit's content does"
  (`unit.ts:23`). `NeedyUnitsAreMembers` shows that this (`uncovered`) is the only
  way to need the connection and not be a member.
* A request that throws (`connection.ts:137`, where `shard.ts:61` evaluates the
  page's expressions) leaves its run recorded in both maps and never sent, and
  cuts off the loop at `:167`: the members behind it are not called. So not "each
  successful connection lets every member start a fresh run" (`:66`).
  `MembersRunOnceOpen` and `MembersOfOpenSocketRun` name this (`thrown`,
  `skipped`) as their only exception but for the finding above; a later run of
  the same target makes up for it.
* New content replaces the last member by another; the check of `leave` runs
  before the new shard's and closes the socket (`connection.ts:119`;
  `SocketSurvivesReplacement`).
* Two callers enter a recursion at different functions and wait for each other
  for ever (`cell.rs:168`; `NobodyWaitsInCircle`), which
  `docs/context/memoize.md:53` does not mention among what panics.
* Back, and forward again before the page there has arrived: the navigation
  under way is not stopped (`navigation.ts:381`) and its commit overwrites the
  URL of the forward entry (`TraversalKeepsEntries`). `PageMatchesLocation`
  holds even so: what goes wrong is the history.
* When accept fails, connections already being served are cut off rather than
  left running (`service.rs:136`; `ServedConnectionsRunOn`).
* The development server "rebuilds it when source files change" (`dev.rs:1`), but
  not after a save that cargo metadata cannot read: the new watcher covers
  `./src` only (`watch.rs:167`), and as it hears of no manifest, no other is made.
  Errors of the watcher are dropped (`watch.rs:59`) and a watch that failed is not
  tried again (`:149`). `LatestIsServed` names these (`missed`) as its only
  exception.
* "The script updates the page after a successful rebuild"
  (`topcoat/src/dev.rs:53`), but a page that has navigated within its document
  takes itself to be navigating from then on (`connection.ts:38` of
  `topcoat-cli/browser`; only `navigateerror` and `pageshow` end it): it ignores
  every reload (`refresh.ts:24`), replaces no lost socket (`connection.ts:102`), and
  the label "rebuilding" stays. It also stays when the application cannot connect
  or send (`topcoat/src/dev.rs:26`, `:36`), as nothing else tells a page of a
  process that has started, and when a page's receiver lags by more than the 16 places of the
  bus: the error of `recv()` is no branch of the `select!`
  (`broadcast_server.rs:180`) and nothing is forwarded any more. `SpinnerEnds`
  names the three as its only exceptions.
* A refresh of the page that "rebuilding" cancelled is not made up for when the
  build turns out to change nothing (`index.ts:24`), nor is the reload by a page
  loaded from the old process that connects for the first time after the event
  was sent (`broadcast_server.rs:148` greets it with the status alone, and
  `connection.ts:62` does not refresh).
* A part that a component hoisted late goes with another region's next update
  and is lost when that region is replaced (`ShownContentKeepsItsParts` in `Settled`).
* A spawned task's cookie write between the reading of the changes and the
  closing of the seals (`topcoat-cookie/src/lib.rs:348`, `:352`) is lost in silence.
  `lib.rs:47` promises a panic once the headers have been written and `:342`
  that "a write would go nowhere and panics instead"; `jar.rs:69`, that it panics if
  "the response has already taken this jar's changes". `ClosedJarRefuses`
  promises no more than the code keeps, from the closing on.
* A rewrite discards the pending
  cookies of the dispatch before it; a panic is answered with a bare 500
  without cookies. Two lifecycle calls of a session that overlap, or one that is
  cut off between the two, may leave store and context with different tokens
  (`session.rs:43`); `SessionReachesTheClient` leaves these requests out (`tidy`)
  and says nothing of them. An upgraded socket outlives a shutdown.
* `Path::matches` says that a path of nothing but groups and a trailing slash
  does not match `/` (`path.rs:294`), although the tables serve such a path
  there (`path.rs:170`).
* An expression that throws in its first run ends the scan of the content, so
  that the watch effect is not started; a watch effect that was pending when a
  region arrives is run by `resubscribe()` and asks for nothing.

## 4. What is proved

All theorems are proved for every value of the constants, from the named
assumptions of the modules (`BoundsAssumption`, `UnitsAssumption`,
`SocketAssumption`, `MemoizeAssumption`, `NavigationAssumption`,
`DevAssumption`, `RequestsAssumption`, `ReactivityAssumption`,
`RoutesAssumption`, `TemplatesAssumption`, `OutcomesAssumption`: bounds are natural numbers, paths are such as `Path` accepts, limits are positive where the code's are, sets of names are
what they are meant to be, programs consist of the operations there are, the
nodes of a page form a tree and a live body emits before it returns).
`MemoizeProofs` holds for *every* `Body`, `ReactivityProofs` for *every* set of
programs and handlers.

* **UnitsProofs**, the connection. `IInv` joins the invariants with
  `SocketsInOrder` (sockets that were not created are in no state). None of them
  is inductive alone: that a close event forgets the right runs needs
  `RunsNeedTheSocket` and `OneSocket`; that nobody is stranded needs that a timer
  excludes a socket. `StartKeepsMaps`, `StopKeepsMaps` and `ForgetKeepsMaps` say
  what the three helpers do to the two maps and are cited by every action. The
  refinement `ConnectionShowsLatest` follows step by step: a frame is accepted
  only through `runs`, which `RunMapsAgree` makes the inverse of `runIds`.
* **UnitsProofs**, the units. `UnitsUseConnection` shows that every step of the
  units is a step of the connection or leaves it alone, so that its theorems hold
  below the units. `UseInv` (only live units are members, have runs, wait or have
  requests) gives `GoneShardsHaveLetGo`; that a run which is new was never
  shown, and that only a snapshot shows it, gives `NoResponseIsStale`.
  `NeedyAreMembers` rests on `TurnInv`: between two tasks a unit that
  needs a connection of its own is a member, waits for the response, has a
  check in the queue of microtasks (`HasTurn`) or is a shard in `uncovered`, and a
  member that asks for
  nothing has a check with which it leaves. Within a task this does not hold,
  so the invariant speaks of its end and each phase of a task is followed to it;
  the lemmas about the queue say that a step takes no check from anyone else.
  With the connection's invariant it gives `MembersRunUnlessNavigated`, whose
  exceptions are the finding `UnitsNavigated` and the members in `skipped`.
* **ServerProofs**, the runtime socket. `Inv` adds `HandlesMatch`, every handle is kept under the
  id of its run: so the task that a stop aborts is the only one it aborts.
* **MemoizeProofs.** `Inv` adds `FramesGood`: a tracker holds only reads its
  own caller could make, the scope of a lookup is the one its tracker starts
  from, and while a body runs nothing cached in the meantime fits that scope.
  The last part is why the second lookup under the gate is enough for
  `BodyRunsOncePerBindings`. `Grown` (variants are only added, bindings never
  change) carries it over the steps of other callers.
  `CachedResultsAreRight` compares the cache with `Cold`, the results of runs
  without one. Its invariant `RightInv` says of a variant that a cold run returns
  its value from *any* values that agree with its recorded reads, and of a
  frame that a cold run from such values comes to the point where the frame is
  (`FrameRight`); a frame above another is the call that one has come to
  (`Inside`). A hit prolongs the cold run by the cached one, a return by the
  run of the body; reads of a binding that the caller put there itself are left
  out of the tracker, and there the cold run has the value from its own `With`
  (`NowOf`). That `Cold` never changes its mind, however many steps it is given,
  is what the comparison after finitely many of them rests on.
* **NavigationProofs.** `Inv` adds that `current` is the newest navigation's
  request, that cached requests are younger than the last clearing, and that
  the newest navigation ends only after its page was shown, and then the page
  and the location agree. Steps are proved in groups: those that leave the
  navigations alone (`Quiet`), those that end one (`Ends`), those that start
  one (`Starts`), and `Commit`. All properties of the run `Navigation` are
  theorems.
* **ServerProofs**, the development server. `IInv` follows the version of the
  source through the build: while no change is on its way to the loop, what
  cargo has read, then what it has linked and at last what was started is the
  source as it is, or a change of it was `missed` (`SourceGoesThrough`), because
  every change that is heard restarts the build; that gives `LatestAlwaysServed`. `PressIsKept`, that `force` outlives every
  end of a build but the restart, gives `PressAlwaysRestarts`. `BusInv` gives
  `SpinnerAlwaysEnds`: once nothing is built or started, the greeting of the
  next socket is not "rebuilding" (`GreetingIsTrue`), and of the events on their
  way to a socket the last one is not either, or else the page, which shows
  it, has been told to refresh or has given that up (`SpinnerIsAnswered`). The
  exceptions are those of `SpinnerEnds`, for one page and any `Backlog`. Both parts need that the
  loop sends what it published before it goes on (`LoopAwaitsBus`).
* **ApplicationProofs**, the service. `IInv` says of each connection that nothing
  works for it when it is idle (`QuietWhenIdle`), that the cell and a jar that was
  built are closed once the response leaves (`ClosedWhenSent`), that a late write
  meets the seal (`LateMeetsTheSeal`: it finds a jar that is closed or builds one
  that inherits the seal) and how long a chain of rewrites is (`ChainIsShort`).
  From it `GraceAlwaysGranted`, `ReturnAlwaysQuiet`, `ClosedJarAlwaysRefuses` and
  `RewritesEnd`.
* **ApplicationProofs**, sessions. `SessionAlwaysReaches`. Token and response both
  follow the cookie of the jar: the token does except while the one call that
  changes it, of the handler or of a spawned task, is between the store and the
  context (`TokenIsTheCookie`), the response does from the moment its headers are
  written (`HeadersAreTheCookie`). Both are claimed only while the request is
  `tidy`, and so is the theorem: overlapping changes, a change under way while
  `write_cookies` runs and a cut-off between store and context are excluded by
  hypothesis. What is left to show is that reads, failures, joined and spawned
  calls in sequence, and late calls, which never reach the jar, do no harm. That only one reader holds the lock
  (`OneReader`) and that nothing was asked of a fresh context (`Untouched`) hold
  always.
* **ApplicationProofs**, the application. `ApplicationServes`: an application,
  whatever it registers and in whatever order, implements `Spec` of the service
  step by step, with the fairness. The tables only keep some requests from a
  handler. `ApplicationRefuses`, `ApplicationReaches` and `ApplicationReturns`
  are what it inherits, and what the run `Application` checks.
* **ApplicationProofs**, the router. `ApplicationAnswers` and
  `ApplicationFormsLead` hold for every set of routes, pages, layouts, layers,
  methods and URLs, and every order of registration. The invariant is small
  (`RoutesInv`: nothing is registered twice, and the tables, once there, are
  `Tables`); the work is what the folds of `build()` come to.
  - *Paths.* `StartsWithPrefix`: the comparison of lengths first and then of the
    segments both have is the prefix relation, since each segment adds to the
    length (`PathLenGrows`). `OneBest`: of the paths that fit a URL at most
    one goes before all others. `TwinForms`: the other form of a path has that path
    for its own other form, and `TwinsDiffer`: other forms that look alike are
    those of paths that do.
  - *Registering.* `Registered(n, t)` follows the loop: the tables after n rounds
    have one endpoint for each path, a route in exactly the slots it was declared
    for (`Wired`), and no registration so far was bad; or the loop has panicked and
    one was. So the panic, which depends on the order, comes just when the
    registrations are `Faulty`, which does not (`BadIsAmbiguous`).
  - *Other forms.* `Twinned(n, b, t)` follows `register_twins`: what was there
    stays, each free form of the first n endpoints is there, and every endpoint
    that was added is such a form. A free form is free whatever has been added
    before it (`TwinsDiffer`), so the order matters here neither.
  - *Answers.* The router's paths are the declared ones and their free forms
    (`RouterPathsServed`), so the best path for a URL is that of the declarations;
    the route in its slot is the one declaration for the method (`EndpointOwner`).
    Stacks: what `Arranged` returns has each entry once and in order
    (`ArrangedOnce`), and an order by length, then by place, puts nothing inside
    what belongs inside it (`LayerOrderRight`, `LayoutOrderRight`), since a strict
    prefix is shorter and a layer without a path shorter than one at the root.
  - *Leading.* `BestAtOtherForm`: among paths of which each has its other form,
    or one that looks like it, the best path for a URL with the slash added or
    taken away is the other form of the best path. This is why a redirect lands on
    the path it was added for and not on a more specific one. It is false of
    paths that are not so `Paired`, and `register_twins` is what pairs them
    (`PathsPaired`).
* **ReactivityProofs.** The operators of the scheduler are folds over lists of
  effects and of a callback's operations, so each has a lemma that states what it
  does to a heap (`Tracked`, `Released`, `Enqueued`, `Begins`, `Keeps`,
  `Hydrated`, `WatchRan`, `Renewed`, `Replaced`, `Swapped`), and the lemmas are
  composed as the code composes its calls. `Sound(h, E)` is what the graph of
  subscriptions keeps, but for the effects in `E`, of which one is just being run:
  a disposed effect is neither scheduled nor subscribed (`Forgets`), a live one is
  subscribed to what it saw, and what it saw is still the value, or it is
  scheduled, or wrote the signal itself (`Hears`); a flush follows what is
  scheduled (`Queued`). This is `ReleasedAlwaysForgotten` and, once the microtasks
  have run, `QuietAlwaysConsistent`. For `ContentAlwaysKeepsUp` the watch effect
  is subscribed to everything the content reads (`Watches`); the content, the
  request that is under way and the rest of the document that is to be streamed
  each have the values of now, unless a new request is asked for or the watch
  effect is scheduled (`Current`, `Answers`, `Streams`). `AskedByThen` closes
  the gap that the cap on runs leaves: the watch effect is given up only after it
  ran, and then it has asked.
* **ViewsProofs**, turns. `PolledInTurn` is `PollsInTurn` for every page: a view
  that is polled out of turn panics or resumes a future that has completed, and
  whether it is depends on how all futures around it ended. Its invariant
  `TurnInv` is local to the edges of the tree. Off the path of the poll, a
  parent's state says which turn each child is in (`EdgesTurn`: a held
  child of a list has replied, one that is over has settled, the child of a
  suspense that is `done` is not asked again). On the path, the node that is asked is asked
  for what its parent's state promises (`EdgesAsk`); `OwnInv` and `ListInv`
  say where a live body and the scan of a list can be, `RootInv` that the task
  polls the root as its phase says. That everything but the path is left alone
  is shown once for each of the three ways to go on, so a kind of node needs
  only the lemma of what it does to its own edges.
* **ViewsProofs**, waking. `NothingIsMissed` is `NoLostWakeup`: a task left asleep
  has nothing to find. `NoLostWakeup` speaks of an idle task and of all nodes
  that are reached from the root, so it is far from inductive. `WakeInv` says,
  of every moment of a poll: the task is woken, or there is a set of nodes, those that
  have replied "pending" in this poll, that is closed under `Current`, contains
  the node that replies if that reply is "pending", and of which each is silent:
  what it waits for is not ready and is registered, or it waits for a child of
  the set. A future that becomes ready in the middle of a poll either wakes the
  task or is one that no node of the set waits for. A list is the hard case: it replies
  "pending" only after a scan, and the invariant counts the children it has passed,
  from the start of the ring (`Place`) to where it is, as settled, held or in the
  set. When the root has replied the set contains `Active` (`ActiveCovered`),
  which is an induction over the reached nodes.
* **ViewsProofs**, `TypeCorrect`.

The prover takes no induction principle that has an operator as a parameter.
`Recursion` states induction for a *set* of numbers (`NaturalsSet`), the
existence of a function that a step *function* defines (`Iteration`), and, from
these two, that what the steps of a fold keep holds at its end (`Folding`,
`FoldEnd`). What is folded (`InTurn`, `Cold` in `Memoize`, `PathLen`) is
written as a recursive function for that.

### Only model-checked

Liveness (`MembersRunOnceOpen`, `GivenUpRunsEnd`, `ConnectionWindsDown`,
`ReplyIsNotStuck`, `CallsReturn`, `LateContentArrives`, `ShutdownEnds`,
`BuildingEnds`, `FlushEnds`) is beyond the prover. So is all of `Morph`: morphing is
a recursion over trees, written with RECURSIVE operators, which rule proofs out.
So is `PageSettles`: it compares a page with what a recursion over its template says
(`Visible`, `Final`), and that is an induction over data. `SwapsFindTheirRegion` is a
statement about the order of markers in sequences that are flattened and
spliced; it was not attempted. `ContentFits` holds on the page of the run
`Views` but not on every page: a slot hoisted from below a live body breaks it
(the run `ViewsSlot`), so a theorem would need a hypothesis about the page, and
an invariant that follows every build from `home` and `outer` to the content
it ends in; it is checked by TLC only. `RunMapsAgree`, `KeptRunsGoOn`,
`SupersededAreAborted`, `WaitersAreWoken`, `GraceIsGranted` and
`ReturnedMeansQuiet` are proved, and no run is spent on them.

### What the models leave out

* `Connection`: retry delays (a timer may fire at any time); what a frame says;
  the constructor of WebSocket is taken not to throw.
* `RenderUnits`: shards inside shards; the signals behind a refresh (a refresh
  may happen at any time); error and redirect frames; a swap of the page
  replaces a region without shards; a navigation begun while the document
  itself still loads counts as one load; a page's check after a connected swap
  is the microtask that follows at once.
* `RuntimeSocket`: the handshake and the filtering of headers; messages in the
  channel are counted, not ordered.
* `Memoize`: futures joined within one body; a body that catches a panic of a
  nested call; `get()`; hash collisions.
* `Navigation`: scroll positions, focus, hover timers and viewport observation
  (a prefetch may start at any time); history entries an application adds with
  states of its own; lifetimes (a response may go stale at any time after its
  head); cross-document history.
* `Reactivity`: values are small numbers; one unit with one live region.
* `Morph`: attributes other than the id and the value, checked boxes, text
  areas and select boxes; browsers without `moveBefore` (checked once with
  `MoveBefore = FALSE`, with the same result); the effects of
  content (they are in `Reactivity`) and when it arrives (in `Connection` and
  `RenderUnits`); shards inside shards.
* `Views`: escaping, the two wire formats and headers; either, move and boxed
  views, which pass polls on; cancellation of a response by its client, which
  drops everything.
* `Requests`: one cookie, neither signed nor encrypted; HTTP/2 streams of one
  connection are not told apart; layers other than the cookie layer.
* `Routes`: the parameters that a path captures, paths with a parameter inside a
  segment, registration of the same route twice, app context.
* `DevServer`: ctrl-c, which ends it all; more than one page; the filter of paths
  (hidden and ignored files and the build's own output are taken as not heard);
  an executable that cargo links anew from a source that did not change; that a
  page's subscription to the bus and the open event of its socket are two steps.

## 5. Plan

The modules were written in the order of how much of the framework depends on
them: connection, units, socket, memoize, navigation, then views, requests with
sessions and the service, the development server, reactivity, morphing, and the
router's tables with the service. Next:

1. `SwapsFindTheirRegion` of `Views`, which needs lemmas about the last marker of
   a region in a sequence that is spliced.
2. Shards inside shards in `RenderUnits`.
3. What `href` writes is what the tables serve.
