------------------------------ MODULE DevServer ------------------------------
(***************************************************************************)
(* topcoat dev: the source watcher, the task that builds, the process of   *)
(* the application, the loop that connects them, the bus that tells the    *)
(* browsers, and one page.  A version of the source is a number, and so is *)
(* the executable that was linked from it: cargo relinks exactly when the  *)
(* source is another one, so the stamp of the executable is its version.   *)
(*                                                                         *)
(* What fails in silence is part of it: cargo metadata, after which only   *)
(* ./src is watched, the watcher's own errors, the message of an           *)
(* application that is ready, a receiver of the bus that lags, and a page  *)
(* that is told to update while it takes itself to be navigating.          *)
(***************************************************************************)
EXTENDS Integers, Sequences

CONSTANT
    MaxEvents,      \* bound: what happens from outside in a behaviour
    Backlog         \* capacity of the broadcast channel (16 in the code)

ASSUME DevAssumption == MaxEvents \in Nat /\ Backlog \in Nat \ {0}

VARIABLES
    source,     \* the version of the source files
    events,     \* how often something happened from outside
    unheard,    \* what changed since the operating system last called the watcher
    notices,    \* what the watcher holds: its channel and `pending`
    watched,    \* the packages it watches: "all", "some", or only "src"
    plan,       \* those that a new watcher is about to watch, while it is made
    missed,     \* since cargo last read, a change that matters went unheard
    loop,       \* "select"; "discover" or "install" while a new watcher is made
    build,      \* the build task
    compiled,   \* the source that cargo read, until it has linked
    linked,     \* the executable on disk
    last, force,                \* last_build and force_restart
    outcome,    \* of the last build that finished
    asked,      \* `r` was pressed and its restart has not been tried since
    app, readies,               \* the process; its messages on their way
    status, unsent,             \* of the bus; what a publisher has yet to send
    socket, queue,              \* of the page; the events on their way to it
    navigating, refresh,        \* what it takes itself to do; its request
    spinning,                   \* its status indicator says "rebuilding"
    gaveUp                      \* and an update that would have ended this was given up

world == <<source, events>>
watcher == <<unheard, notices, watched, plan, missed>>
task == <<build, compiled, linked>>
main == <<loop, last, force, outcome, asked>>
process == <<app, readies>>
bus == <<status, unsent>>
page == <<socket, queue, navigating, refresh, spinning, gaveUp>>
devVars == <<world, watcher, task, main, process, bus, page>>

Nothing == "nothing"
NoBuild == -1
Gone == [exe |-> NoBuild, state |-> "none"]

\* A page is open that an earlier server has left.  (Where none is, it is as if
\* this one never connected.)
DevInit ==
    /\ source = 0 /\ events = 0
    /\ unheard = Nothing /\ notices = Nothing
    /\ watched \in {"all", "some", "src"} /\ plan = Nothing /\ missed = FALSE
    /\ loop = "select"
    /\ build = "reading" /\ compiled = NoBuild
    /\ linked = NoBuild
    /\ last = NoBuild /\ force = FALSE /\ outcome = "none" /\ asked = FALSE
    /\ app = Gone /\ readies = 0
    /\ status = "rebuilding" /\ unsent = [p \in {"loop", "socket"} |-> Nothing]
    /\ socket = "off" /\ queue = <<>> /\ spinning \in BOOLEAN
    /\ navigating = FALSE /\ refresh = FALSE /\ gaveUp = FALSE

-----------------------------------------------------------------------------
(* What happens outside: files change, keys are pressed, processes end.    *)

FromOutside == events < MaxEvents /\ events' = events + 1

\* Of a burst, a change of a manifest is what counts.
Burst(a, b) == IF "manifest" \in {a, b} THEN "manifest"
               ELSE IF "source" \in {a, b} THEN "source" ELSE Nothing

\* Whether the watcher is called for a file: one below ./src, a manifest, or
\* one of the rest of the packages.
Watches(kind) ==
    CASE kind = "source" -> {TRUE}
      [] kind = "manifest" -> {watched # "src"}
      [] OTHER -> IF watched = "some" THEN BOOLEAN ELSE {watched = "all"}

\* A file is written, with or without an effect on the executable.  With it, a
\* manifest may gain a package that neither the watcher nor the plan knows of.
Edit(kind, matters) ==
    /\ FromOutside
    /\ source' = IF matters THEN source + 1 ELSE source
    /\ \E heard \in Watches(kind) :
          /\ unheard' = IF heard
                        THEN Burst(unheard, IF kind = "manifest" THEN kind ELSE "source")
                        ELSE unheard
          /\ missed' = (missed \/ (matters /\ ~heard))
    /\ LET Outgrown(roots) == IF kind = "manifest" /\ matters /\ roots = "all"
                              THEN {"all", "some"} ELSE {roots}
       IN  watched' \in Outgrown(watched) /\ plan' \in Outgrown(plan)
    /\ UNCHANGED <<notices, task, main, process, bus, page>>

\* The operating system calls the watcher, with the paths or, when it lost them,
\* with the request to scan again.
Hear ==
    /\ unheard # Nothing
    /\ \E change \in {unheard, "source"} : notices' = Burst(notices, change)
    /\ unheard' = Nothing
    /\ UNCHANGED <<world, watched, plan, missed, task, main, process, bus, page>>

\* Or with an error, which the callback drops.
HearError ==
    /\ unheard # Nothing
    /\ FromOutside
    /\ unheard' = Nothing
    /\ missed' = TRUE
    /\ UNCHANGED <<source, notices, watched, plan, task, main, process, bus, page>>

AppExits ==
    /\ app.state \in {"starting", "ready", "untold"}
    /\ FromOutside
    /\ app' = [app EXCEPT !.state = "dead"]
    /\ UNCHANGED <<source, watcher, task, main, readies, bus, page>>

\* The application listens, and says so to the dev server: when it cannot connect
\* or send, it serves and the dev server is not told.
AppReady ==
    /\ app.state = "starting"
    /\ \/ app' = [app EXCEPT !.state = "ready"] /\ readies' = readies + 1
       \/ app' = [app EXCEPT !.state = "untold"] /\ UNCHANGED readies
    /\ UNCHANGED <<world, watcher, task, main, bus, page>>

Serving == app.state \in {"ready", "untold"}

-----------------------------------------------------------------------------
(* The build task: cargo reads the source and links, then the assets are   *)
(* bundled.  What was linked stays on disk whatever becomes of the task.   *)

Compile ==
    /\ build = "reading"
    /\ missed' = FALSE
    /\ \/ build' = "linking" /\ compiled' = source
       \/ build' = "failed" /\ UNCHANGED compiled
    /\ UNCHANGED <<world, unheard, notices, watched, plan, linked, main, process, bus, page>>

Link ==
    /\ build = "linking"
    /\ linked' = compiled
    /\ compiled' = NoBuild
    /\ build' = "bundling"
    /\ UNCHANGED <<world, watcher, main, process, bus, page>>

\* Mutant: the output of the build counts as a change of the source.
BundleNoticed ==
    /\ build = "bundling"
    /\ build' \in {"built", "failed"}
    /\ unheard' = Burst(unheard, "source")
    /\ UNCHANGED <<world, notices, watched, plan, missed, compiled, linked, main, process, bus, page>>

Bundle ==
    /\ build = "bundling"
    /\ build' \in {"built", "failed"}
    /\ UNCHANGED <<world, watcher, compiled, linked, main, process, bus, page>>

-----------------------------------------------------------------------------
(* The loop of DevCommand::run.                                            *)

\* EventBus::publish: the status first, then the event (see Send).
Publish(p, event) ==
    /\ status' = IF event \in {"reload", "up-to-date"} THEN Nothing ELSE event
    /\ unsent' = [unsent EXCEPT ![p] = event]

Selecting == loop = "select" /\ unsent["loop"] = Nothing

\* Mutant: a build that runs goes on: its result is taken for the new source's.
Join ==
    /\ build' = IF build = "off" THEN "reading" ELSE build
    /\ UNCHANGED compiled
    /\ Publish("loop", "rebuilding")

\* The running build is cancelled, and another one starts.
Rebuild ==
    /\ build' = "reading" /\ compiled' = NoBuild
    /\ Publish("loop", "rebuilding")

Changed ==
    /\ Selecting
    /\ notices = "source"
    /\ notices' = Nothing
    /\ Rebuild
    /\ UNCHANGED <<world, unheard, watched, plan, missed, linked, main, process, page>>

ManifestChanged ==
    /\ Selecting
    /\ notices = "manifest"
    /\ notices' = Nothing
    /\ loop' = "discover"
    /\ UNCHANGED <<world, unheard, watched, plan, missed, task, last, force, outcome, asked,
                   process, bus, page>>

\* WatchPlan::discover: the packages that cargo metadata names, or ./src when it
\* fails, as it does for a manifest that cannot be read.
Discover ==
    /\ loop = "discover"
    /\ loop' = "install"
    /\ plan' \in {"all", "src"}
    /\ UNCHANGED <<world, unheard, notices, watched, missed, task, last, force, outcome, asked,
                   process, bus, page>>

\* The new watcher takes the place of the old one and of all that it had heard.
\* It may already have heard something itself, and some of its watches may have
\* failed: they are not tried again.
Discovered ==
    /\ loop = "install"
    /\ loop' = "select"
    /\ watched' \in IF plan = "all" THEN {"all", "some"} ELSE {plan}
    /\ unheard' \in IF watched' = "src" THEN {Nothing} ELSE {Nothing, unheard}
    /\ plan' = Nothing /\ notices' = Nothing
    /\ Rebuild
    /\ UNCHANGED <<world, missed, linked, last, force, outcome, asked, process, page>>

ReloadRequested ==
    /\ Selecting
    /\ FromOutside
    /\ force' = TRUE /\ asked' = TRUE
    /\ Rebuild
    /\ UNCHANGED <<source, watcher, linked, loop, last, outcome, process, page>>

\* Mutant: a build that failed forgets that a restart was asked for.
FailAndForget ==
    /\ Selecting
    /\ build = "failed"
    /\ build' = "off" /\ outcome' = "failed" /\ force' = FALSE
    /\ Publish("loop", "build-failed")
    /\ UNCHANGED <<world, watcher, compiled, linked, loop, last, asked, process, page>>

BuildFailed ==
    /\ Selecting
    /\ build = "failed"
    /\ build' = "off" /\ outcome' = "failed"
    /\ Publish("loop", "build-failed")
    /\ UNCHANGED <<world, watcher, compiled, linked, loop, last, force, asked, process, page>>

\* The stamps are those of the same executable.
Unchanged == ~force /\ app # Gone /\ last # NoBuild /\ linked = last

\* Mutant: nobody is told that nothing changed.
SameInSilence ==
    /\ Selecting
    /\ build = "built" /\ Unchanged
    /\ build' = "off" /\ outcome' = "built" /\ force' = FALSE
    /\ UNCHANGED <<world, watcher, compiled, linked, loop, last, asked, process, bus, page>>

UpToDate ==
    /\ Selecting
    /\ build = "built" /\ Unchanged
    /\ build' = "off" /\ outcome' = "built" /\ force' = FALSE
    /\ Publish("loop", "up-to-date")
    /\ UNCHANGED <<world, watcher, compiled, linked, loop, last, asked, process, page>>

\* The old process is stopped, and a new one started if that can be done; also
\* when the executable cannot be looked at and has no stamp.
Restart ==
    /\ Selecting
    /\ build = "built"
    /\ last' \in {linked, NoBuild}
    /\ Unchanged => last' = NoBuild
    /\ build' = "off" /\ outcome' = "built" /\ force' = FALSE
    /\ asked' = FALSE
    /\ \/ app' = [exe |-> linked, state |-> "starting"] /\ UNCHANGED bus
       \/ app' = Gone /\ Publish("loop", "app-exited")
    /\ UNCHANGED <<world, watcher, compiled, linked, loop, readies, page>>

Exited ==
    /\ Selecting
    /\ app.state = "dead"
    /\ app' = Gone
    /\ Publish("loop", "app-exited")
    /\ UNCHANGED <<world, watcher, task, main, readies, page>>

-----------------------------------------------------------------------------
(* The broadcast server and the page.                                      *)

\* The task of the application's socket reads that it is ready.
ReadyArrives ==
    /\ readies > 0
    /\ unsent["socket"] = Nothing
    /\ readies' = readies - 1
    /\ Publish("socket", "reload")
    /\ UNCHANGED <<world, watcher, task, main, app, page>>

\* A receiver that is more than the capacity behind gets an error, which is no
\* branch of handle_socket's select: it forwards nothing more, however long the
\* page listens.  (What it has already forwarded is taken to have arrived.)
Send(p) ==
    /\ unsent[p] # Nothing
    /\ unsent' = [unsent EXCEPT ![p] = Nothing]
    /\ \/ queue' = (IF socket = "on" THEN Append(queue, unsent[p]) ELSE queue) /\ UNCHANGED socket
       \/ socket = "on" /\ Len(queue) >= Backlog /\ socket' = "deaf" /\ queue' = <<>>
    /\ UNCHANGED <<world, watcher, task, main, process, status, navigating, refresh, spinning, gaveUp>>

\* handle_socket begins with the status.
Greeting == IF status = Nothing THEN <<>> ELSE <<status>>

\* PageRefresh.refresh: while the page navigates it is not even begun.
Refresh == refresh' = ~navigating /\ gaveUp' = (navigating /\ spinning)

\* The timer of a lost socket waits for a navigation to end.
Retry ==
    /\ socket = "off" /\ ~navigating
    /\ socket' = "again"
    /\ UNCHANGED <<world, watcher, task, main, process, bus, queue, navigating, refresh, spinning, gaveUp>>

\* A socket opens.  Only a page that had lost one asks for itself again.
Open ==
    /\ socket \in {"first", "again"}
    /\ socket' = "on" /\ queue' = Greeting
    /\ IF socket = "again" THEN Refresh ELSE UNCHANGED <<refresh, gaveUp>>
    /\ UNCHANGED <<world, watcher, task, main, process, bus, navigating, spinning>>

Drop ==
    /\ socket \in {"first", "again", "on", "deaf"}
    /\ FromOutside
    /\ socket' = "off" /\ queue' = <<>>
    /\ UNCHANGED <<source, watcher, task, main, process, bus, navigating, refresh, spinning, gaveUp>>

\* The page hears an event.
Receive ==
    /\ queue # <<>>
    /\ queue' = Tail(queue)
    /\ LET event == Head(queue)
       IN  \/ event = "reload" /\ Refresh /\ UNCHANGED spinning
          \/ /\ event # "reload" /\ gaveUp' = FALSE
             /\ refresh' = (refresh /\ event # "rebuilding")
             /\ spinning' = (event = "rebuilding")
    /\ UNCHANGED <<world, watcher, task, main, process, bus, socket, navigating>>

\* The request of a refresh ends: the document is morphed, or the answer is none
\* or an error and the indicator says so.
Refreshed ==
    /\ refresh
    /\ refresh' = FALSE /\ spinning' = FALSE /\ gaveUp' = FALSE
    /\ UNCHANGED <<world, watcher, task, main, process, bus, socket, queue, navigating>>

\* A document is loaded from the application, and connects for the first time.
Load ==
    /\ Serving
    /\ socket' = "first" /\ queue' = <<>>
    /\ navigating' = FALSE /\ refresh' = FALSE /\ spinning' = FALSE /\ gaveUp' = FALSE
    /\ UNCHANGED <<world, watcher, task, main, process, bus>>

\* Or the document cannot be morphed, or is elsewhere: the page loads anew.
Reloaded == refresh /\ Load

\* The user or a script navigates, within the document or away from it.  A browser
\* without the Navigation API says nothing of the first: the page does not take
\* itself to be navigating, but a refresh finds another location and ends.
Navigate ==
    /\ FromOutside
    /\ navigating' \in BOOLEAN /\ (navigating => navigating')
    /\ refresh' = FALSE /\ gaveUp' = (gaveUp \/ (refresh /\ spinning))
    /\ UNCHANGED <<source, watcher, task, main, process, bus, socket, queue, spinning>>

\* It fails, or the page is shown again.  One within the document ends with no
\* such event: this need never happen.
NavigationEnds ==
    /\ navigating
    /\ navigating' = FALSE
    /\ UNCHANGED <<world, watcher, task, main, process, bus, socket, queue, refresh, spinning, gaveUp>>

\* Or it leads away from the document.
Navigated == navigating /\ Load

-----------------------------------------------------------------------------
Loop == Changed \/ ManifestChanged \/ Discover \/ Discovered \/ ReloadRequested
        \/ BuildFailed \/ UpToDate \/ Restart \/ Exited
BuildTask == Compile \/ Link \/ Bundle
Bus == ReadyArrives \/ \E p \in {"loop", "socket"} : Send(p)
Page == Retry \/ Open \/ Receive \/ Refreshed \/ Reloaded
User == Drop \/ Navigate \/ NavigationEnds \/ Navigated

DevNext ==
    \/ \E kind \in {"source", "elsewhere", "manifest"}, matters \in BOOLEAN : Edit(kind, matters)
    \/ HearError \/ AppExits
    \/ Hear \/ Loop \/ BuildTask \/ AppReady \/ Bus \/ Page \/ User

\* What the dev server has to do is done; nobody has to change a file or press a
\* key, and neither the application nor a page has to be heard from.
DevFairness ==
    /\ WF_devVars(Hear) /\ WF_devVars(BuildTask) /\ WF_devVars(Bus)
    /\ WF_devVars(Loop /\ events' = events)

DevSpec == DevInit /\ [][DevNext]_devVars /\ DevFairness

-----------------------------------------------------------------------------
Settled == Selecting /\ build = "off" /\ notices = Nothing /\ unheard = Nothing

\* When nothing is to be built and the last build worked, the process that runs
\* is built from the source as it is, unless a change of it was never heard: no
\* change is lost that came while a build or a new watcher was on its way, or with
\* a build that was cancelled.  `missed` is what the code has against the promise
\* that it "rebuilds it when source files change" (dev.rs of the CLI): after cargo
\* metadata failed, only ./src is heard.
LatestIsServed == Settled /\ outcome = "built" /\ app # Gone => app.exe = source \/ missed

\* A press of `r` gets its fresh process from the first build that works, also
\* when builds in between fail or are cancelled, and the binary is the same.
PressRestarts == Selecting /\ build = "off" /\ outcome = "built" => ~asked

\* The page does not go on saying "rebuilding" when nothing is being built or
\* started any more, whatever events it missed while it had no socket.  It may in
\* three cases: the application that serves has not told so, the socket is open
\* but forwards no more, or the page gave its update up for a navigation.
SpinnerEnds ==
    spinning /\ socket = "on" /\ queue = <<>> /\ ~refresh =>
        \/ build # "off"
        \/ app.state \in {"starting", "dead", "untold"}
        \/ readies > 0
        \/ \E p \in DOMAIN unsent : unsent[p] # Nothing
        \/ gaveUp

\* Builds do not lead to builds: when files stop changing, building ends.
BuildingEnds == <>[]Settled
=============================================================================
