---------------------------- MODULE ServerProofs ----------------------------
(***************************************************************************)
(* What holds of two servers.                                              *)
(*                                                                         *)
(* Of the server's side of a socket, for every set of run ids and every    *)
(* capacity: types, and which tasks the receiver can reach.                *)
(*                                                                         *)
(* Of topcoat dev, for any number of events and any capacity of the bus, a *)
(* page whose updates fail in silence included (see SpinnerEnds).  The     *)
(* argument follows the version of the source through the build: while no  *)
(* change is on its way to the loop, what cargo has read, then what it has *)
(* linked, and at last what was started is the source as it is, because    *)
(* every change that is heard restarts the build.                          *)
(***************************************************************************)
EXTENDS RuntimeSocket, DevServer, SequenceTheorems, TLAPS

(* Every handle is kept under the id of its run: what makes the task that  *)
(* a stop or a reused id aborts the only one it aborts.                    *)
HandlesMatch == \A i \in DOMAIN runs : idOf[runs[i]] = i

Inv == TypeOK /\ NoOrphanedRun /\ KeptRunsGoOn /\ HandlesMatch

LEMMA InitInv == Init => Inv
  BY SocketAssumption DEF Init, Inv, TypeOK, NoOrphanedRun, KeptRunsGoOn, HandlesMatch, Tasks

(* A run request. *)
LEMMA ReadRunKeeps ==
  ASSUME Inv, NEW id \in Ids, ReadRun(id) PROVE Inv'
<1> DEFINE fresh == Len(idOf) + 1
           kept == {i \in DOMAIN runs : runs[i] \in live}
<1> USE SocketAssumption DEF Inv
<1>1. /\ idOf \in Seq(Ids) /\ fresh \in Nat /\ fresh \notin Tasks
      /\ idOf' = Append(idOf, id) /\ live' = live \cup {fresh}
      /\ runs' = [i \in kept \cup {id} |-> IF i = id THEN fresh ELSE runs[i]]
      /\ aborted' = aborted \cup {runs[i] : i \in kept \cap {id}}
      /\ receiver' = receiver /\ forwarder' = forwarder /\ queued' = queued
      /\ received < MaxMessages /\ received' = received + 1
  BY LenProperties DEF ReadRun, ReadMessage, AbortedWith, TypeOK, Tasks
<1>2. /\ idOf' \in Seq(Ids) /\ Len(idOf') = fresh
      /\ Tasks' = Tasks \cup {fresh}
      /\ idOf'[fresh] = id /\ \A t \in Tasks : idOf'[t] = idOf[t]
  BY <1>1, AppendProperties, LenProperties DEF Tasks
<1>3. TypeOK'
  BY <1>1, <1>2 DEF TypeOK
<1>4. \A i \in DOMAIN runs : runs[i] \in Tasks /\ runs[i] # fresh
  BY <1>1 DEF TypeOK
<1>5. HandlesMatch'
  BY <1>1, <1>2, <1>4 DEF HandlesMatch
<1>6. NoOrphanedRun'
  <2> SUFFICES ASSUME NEW t \in live', t \notin aborted'
               PROVE  idOf'[t] \in DOMAIN runs' /\ runs'[idOf'[t]] = t
    BY DEF NoOrphanedRun
  <2>1. CASE t = fresh
    BY <2>1, <1>1, <1>2
  <2>2. CASE t # fresh
    <3>1. /\ t \in live /\ t \in Tasks /\ t \notin aborted
          /\ idOf[t] \in DOMAIN runs /\ runs[idOf[t]] = t
      BY <2>2, <1>1 DEF NoOrphanedRun, TypeOK
    <3>2. idOf[t] \in kept /\ idOf[t] # id
      BY <3>1, <1>1
    <3> QED  BY <3>1, <3>2, <1>1, <1>2
  <2> QED  BY <2>1, <2>2
<1>7. KeptRunsGoOn'
  <2> SUFFICES ASSUME NEW i \in kept \cup {id}
               PROVE  runs'[i] \notin aborted'
    BY <1>1 DEF KeptRunsGoOn
  <2>1. fresh \notin aborted'
    BY <1>1, <1>4 DEF TypeOK
  <2>2. CASE i = id
    BY <2>1, <2>2, <1>1
  <2>3. CASE i # id
    BY <2>3, <1>1 DEF KeptRunsGoOn, HandlesMatch
  <2> QED  BY <2>2, <2>3
<1> QED  BY <1>3, <1>5, <1>6, <1>7

(* A stop message. *)
LEMMA ReadStopKeeps ==
  ASSUME Inv, NEW id \in Ids, ReadStop(id) PROVE Inv'
<1> USE SocketAssumption DEF Inv
<1>1. /\ runs' = [i \in DOMAIN runs \ {id} |-> runs[i]]
      /\ aborted' = aborted \cup {runs[i] : i \in DOMAIN runs \cap {id}}
      /\ received < MaxMessages /\ received' = received + 1
      /\ UNCHANGED <<idOf, live, receiver, forwarder, queued>>
  BY DEF ReadStop, ReadMessage, RunsWithout, AbortedWith
<1>2. TypeOK' /\ HandlesMatch'
  BY <1>1 DEF TypeOK, HandlesMatch, Tasks
<1>3. NoOrphanedRun'
  BY <1>1 DEF NoOrphanedRun
<1>4. KeptRunsGoOn'
  BY <1>1 DEF KeptRunsGoOn, HandlesMatch
<1> QED  BY <1>2, <1>3, <1>4

(* The end of the receiver. *)
LEMMA ReceiverEndKeeps ==
  ASSUME Inv, ReceiverEnds PROVE Inv'
<1> USE SocketAssumption DEF Inv
<1>1. /\ aborted' = aborted \cup {runs[i] : i \in DOMAIN runs}
      /\ runs' = [i \in {} |-> 0] /\ receiver' = "ended"
      /\ UNCHANGED <<idOf, live, forwarder, queued, received>>
  BY DEF ReceiverEnds, AbortedWith
<1>2. TypeOK' /\ HandlesMatch' /\ KeptRunsGoOn'
  BY <1>1 DEF TypeOK, HandlesMatch, KeptRunsGoOn, Tasks
<1>3. NoOrphanedRun'
  BY <1>1 DEF NoOrphanedRun
<1> QED  BY <1>2, <1>3

LEMMA StepInv == Inv /\ [Next]_vars => Inv'
<1> SUFFICES ASSUME Inv, [Next]_vars PROVE Inv'
  OBVIOUS
<1>a. CASE \E id \in Ids : ReadRun(id)
  BY <1>a, ReadRunKeeps
<1>b. CASE \E id \in Ids : ReadStop(id)
  BY <1>b, ReadStopKeeps
<1>c. CASE ReplyFails \/ StreamEnds
  BY <1>c, ReceiverEndKeeps DEF ReplyFails, StreamEnds
<1>d. CASE ReadInvalid \/ ReplySent \/ Forwarder \/ UNCHANGED vars
  <2>1. TypeOK'
    BY <1>d, SocketAssumption DEF Inv, TypeOK, Tasks, ReadInvalid, ReadMessage, ReplySent,
       HasRoom, Forwarder, ForwardTakes, ForwardSent, ForwardFails, ForwardEnds, vars
  <2>2. UNCHANGED <<idOf, live, aborted, runs>>
    BY <1>d DEF ReadInvalid, ReplySent, Forwarder, ForwardTakes, ForwardSent, ForwardFails,
       ForwardEnds, vars
  <2> QED  BY <2>1, <2>2 DEF Inv, NoOrphanedRun, KeptRunsGoOn, HandlesMatch
<1>e. CASE \E t \in Tasks : Task(t)
  BY <1>e, SocketAssumption DEF Inv, TypeOK, Tasks, NoOrphanedRun, KeptRunsGoOn, HandlesMatch,
     Task, TaskSends, TaskEnds, HasRoom
<1> QED
  BY <1>a, <1>b, <1>c, <1>d, <1>e DEF Next, Receiver

LEMMA SocketInvariant == Spec => []Inv
  BY InitInv, StepInv, PTL DEF Spec

(* Type correctness of the server's side of a socket. *)
THEOREM SocketTypes == Spec => []TypeOK
  BY SocketInvariant, PTL DEF Inv

(* No render goes on that no message of the browser could end.             *)
THEOREM NoRunIsOrphaned == Spec => []NoOrphanedRun
  BY SocketInvariant, PTL DEF Inv

(* The receiver never aborts a run whose handle it keeps. *)
THEOREM KeptRunsAreLeftAlone == Spec => []KeptRunsGoOn
  BY SocketInvariant, PTL DEF Inv

-----------------------------------------------------------------------------
(* topcoat dev.                                                            *)

Kinds == {Nothing, "source", "manifest"}
BuildStates == {"off", "reading", "linking", "bundling", "built", "failed"}

Types ==
    /\ source \in Nat /\ events \in Nat
    /\ unheard \in Kinds /\ notices \in Kinds
    /\ loop \in {"select", "discover", "install"}
    /\ build \in BuildStates
    /\ force \in BOOLEAN /\ asked \in BOOLEAN /\ missed \in BOOLEAN

\* Nothing is on its way to the loop that would make it build again.
NoNews == loop = "select" /\ unheard = Nothing /\ notices = Nothing

\* The process that there is was started from the build whose stamp is kept.
RunsTheLast == app # Gone /\ last # NoBuild => app.exe = last

\* The source as it is goes through the build.
SourceGoesThrough ==
    NoNews /\ ~missed =>
        /\ build = "linking" => compiled = source
        /\ build \in {"bundling", "built"} => linked = source
        /\ build = "off" /\ outcome = "built" /\ app # Gone => app.exe = source

\* A press is kept until its restart.
PressIsKept ==
    /\ asked => force
    /\ build = "off" /\ outcome = "built" => ~asked

IInv == Types /\ RunsTheLast /\ SourceGoesThrough /\ PressIsKept

\* Whatever was heard, a change that comes to it makes news.
LEMMA NewsStays ==
    ASSUME NEW a \in Kinds, NEW b \in Kinds \ {Nothing}
    PROVE  Burst(a, b) \in Kinds \ {Nothing}
BY DEF Burst, Kinds, Nothing

\* The invariant holds at the start.
LEMMA DevInitInv == DevInit => IInv
<1> SUFFICES ASSUME DevInit PROVE IInv
    OBVIOUS
<1>1. Types
    BY DEF DevInit, Types, Kinds, BuildStates
<1>2. RunsTheLast
    BY Zenon DEF DevInit, RunsTheLast
<1>3. build = "reading" /\ asked = FALSE
    BY DEF DevInit
<1>4. SourceGoesThrough /\ PressIsKept
    BY <1>3 DEF SourceGoesThrough, PressIsKept
<1>5. QED
    BY <1>1, <1>2, <1>4 DEF IInv

\* Steps outside the loop keep it.
LEMMA OutsideInv ==
    ASSUME IInv,
           \/ \E kind \in {"source", "elsewhere", "manifest"}, matters \in BOOLEAN : Edit(kind, matters)
           \/ Hear \/ HearError \/ AppExits \/ AppReady \/ BuildTask
    PROVE  IInv'
<1> USE DEF IInv, Types, RunsTheLast, SourceGoesThrough, PressIsKept, NoNews
<1>1. ASSUME NEW kind \in {"source", "elsewhere", "manifest"}, NEW matters \in BOOLEAN,
             Edit(kind, matters)
      PROVE  IInv'
    <2>1. PICK heard \in Watches(kind) :
              /\ unheard' = IF heard
                            THEN Burst(unheard, IF kind = "manifest" THEN kind ELSE "source")
                            ELSE unheard
              /\ missed' = (missed \/ (matters /\ ~heard))
        BY <1>1, Zenon DEF Edit
    <2>2. heard \in BOOLEAN
        BY DEF Watches
    <2>3. /\ unheard' \in Kinds /\ missed' \in BOOLEAN
          /\ heard => unheard' # Nothing
          /\ ~heard => unheard' = unheard /\ missed' = (missed \/ matters)
        BY <2>1, <2>2, NewsStays DEF Kinds, Nothing
    <2>4. /\ source' \in Nat /\ events' \in Nat
          /\ ~matters => source' = source
          /\ UNCHANGED <<notices, task, main, process>>
        BY <1>1 DEF Edit, FromOutside
    <2>5. UNCHANGED <<notices, build, compiled, linked, loop, last, force, outcome, asked, app>>
        BY <2>4 DEF task, main, process
    <2>6. QED
        BY <2>2, <2>3, <2>4, <2>5
<1>2. CASE Hear
    <2>1. PICK change \in {unheard, "source"} : notices' = Burst(notices, change)
        BY <1>2, Zenon DEF Hear
    <2>2. notices' \in Kinds \ {Nothing} /\ unheard' \in Kinds
        BY <1>2, <2>1, NewsStays DEF Hear, Kinds, Nothing
    <2>3. QED
        BY <1>2, <2>2 DEF Hear, world, task, main, process
<1>9. CASE HearError
    <2>1. /\ unheard' \in Kinds /\ missed' = TRUE /\ events' \in Nat
          /\ UNCHANGED <<source, notices, task, main, process>>
        BY <1>9 DEF HearError, FromOutside, Kinds
    <2>2. UNCHANGED <<source, notices, build, compiled, linked, loop, last, force, outcome, asked, app>>
        BY <2>1 DEF task, main, process
    <2>3. QED
        BY <2>1, <2>2
<1>3. CASE AppExits
    BY <1>3 DEF AppExits, FromOutside, watcher, task, main, Gone
<1>4. CASE AppReady
    <2>1. /\ app # Gone /\ app'.exe = app.exe
          /\ UNCHANGED <<world, watcher, task, main>>
        <3>1. CASE app' = [app EXCEPT !.state = "ready"]
            BY <1>4, <3>1 DEF AppReady, Gone
        <3>2. CASE app' = [app EXCEPT !.state = "untold"]
            BY <1>4, <3>2 DEF AppReady, Gone
        <3>3. QED BY <1>4, <3>1, <3>2 DEF AppReady
    <2>2. UNCHANGED <<source, events, unheard, notices, missed, build, compiled, linked, loop,
                      last, force, outcome, asked>>
        BY <2>1 DEF world, watcher, task, main
    <2>3. QED
        BY <2>1, <2>2
<1>5. CASE Compile
    <2>1. /\ missed' = FALSE /\ build' \in {"linking", "failed"}
          /\ build' = "linking" => compiled' = source
          /\ UNCHANGED <<world, unheard, notices, linked, main, process>>
        BY <1>5 DEF Compile
    <2>2. QED
        BY <2>1 DEF world, main, process, BuildStates
<1>6. CASE Link
    BY <1>6 DEF Link, world, watcher, main, process, BuildStates
<1>7. CASE Bundle
    BY <1>7 DEF Bundle, world, watcher, main, process, BuildStates
<1>8. QED
    BY <1>1, <1>2, <1>3, <1>4, <1>5, <1>6, <1>7, <1>9 DEF BuildTask

\* Steps of the loop keep it.
LEMMA LoopInv ==
    ASSUME IInv, Loop
    PROVE  IInv'
<1> USE DEF IInv, Types, RunsTheLast, SourceGoesThrough, PressIsKept, NoNews, BuildStates
<1>1. CASE Changed
    BY <1>1 DEF Changed, Rebuild, Publish, Selecting, world, main, process, Kinds, Nothing
<1>2. CASE ManifestChanged
    BY <1>2 DEF ManifestChanged, Selecting, world, task, process, Kinds
<1>10. CASE Discover
    BY <1>10 DEF Discover, world, task, process
<1>3. CASE Discovered
    <2>1. /\ unheard' \in {Nothing, unheard} /\ notices' = Nothing
          /\ build' = "reading" /\ loop' = "select"
          /\ UNCHANGED <<world, missed, linked, last, force, outcome, asked, process>>
        BY <1>3 DEF Discovered, Rebuild
    <2>2. QED
        BY <2>1 DEF world, process, Kinds
<1>4. CASE ReloadRequested
    BY <1>4 DEF ReloadRequested, Rebuild, FromOutside, Selecting, watcher, process
<1>5. CASE BuildFailed
    BY <1>5 DEF BuildFailed, Selecting, world, watcher, process
<1>6. CASE UpToDate
    BY <1>6 DEF UpToDate, Unchanged, Selecting, world, watcher, process
<1>7. CASE Restart
    <2>1. /\ UNCHANGED <<world, watcher, loop, compiled, linked>>
          /\ build' = "off" /\ outcome' = "built" /\ force' = FALSE /\ asked' = FALSE
          /\ last' \in {linked, NoBuild} /\ build = "built" /\ (app' = Gone \/ app'.exe = linked)
        BY <1>7 DEF Restart
    <2>2. QED
        BY <2>1 DEF world, watcher
<1>8. CASE Exited
    BY <1>8 DEF Exited, Selecting, world, watcher, task, main, Gone
<1>9. QED
    BY <1>1, <1>2, <1>3, <1>4, <1>5, <1>6, <1>7, <1>8, <1>10 DEF Loop

\* It speaks of these alone.
LEMMA KeepsInv ==
    ASSUME IInv, UNCHANGED <<world, watcher, task, main, process>>
    PROVE  IInv'
BY DEF IInv, Types, RunsTheLast, SourceGoesThrough, PressIsKept, NoNews,
       world, watcher, task, main, process

\* The bus and the page change nothing that it speaks of.
LEMMA ElsewhereInv ==
    ASSUME IInv, Bus \/ Page \/ User \/ UNCHANGED devVars
    PROVE  IInv'
<1>1. CASE ReadyArrives
    BY <1>1 DEF ReadyArrives, IInv, Types, RunsTheLast, SourceGoesThrough, PressIsKept, NoNews,
                world, watcher, task, main
<1>2. CASE Page \/ NavigationEnds \/ Navigated \/ \E p \in {"loop", "socket"} : Send(p)
    <2>1. UNCHANGED <<world, watcher, task, main, process>>
        BY <1>2, Zenon DEF Page, Retry, Open, Receive, Refreshed, Reloaded, Navigated, NavigationEnds,
                           Load, Send
    <2>2. QED BY <2>1, KeepsInv
<1>3. CASE Drop \/ Navigate
    BY <1>3 DEF Drop, Navigate, FromOutside, IInv, Types, RunsTheLast, SourceGoesThrough, PressIsKept, NoNews,
                watcher, task, main, process
<1>4. CASE UNCHANGED devVars
    BY <1>4, KeepsInv DEF devVars
<1>5. QED
    BY <1>1, <1>2, <1>3, <1>4 DEF Bus, User

\* It is an invariant of every behaviour.
THEOREM Invariance == DevSpec => []IInv
<1>1. IInv /\ [DevNext]_devVars => IInv'
    BY OutsideInv, LoopInv, ElsewhereInv DEF DevNext
<1>2. QED BY <1>1, DevInitInv, PTL DEF DevSpec

\* When building has settled, the process that runs is built from the source
\* as it is, however edits, builds and new watchers came between each other,
\* unless the last change was not heard at all.
THEOREM LatestAlwaysServed == DevSpec => []LatestIsServed
<1>1. IInv => LatestIsServed
    BY DEF IInv, LatestIsServed, Settled, Selecting, RunsTheLast, SourceGoesThrough, NoNews
<1>2. QED BY <1>1, Invariance, PTL

\* A press of `r` is answered by the first build that works.
THEOREM PressAlwaysRestarts == DevSpec => []PressRestarts
<1>1. IInv => PressRestarts
    BY DEF IInv, PressRestarts, PressIsKept
<1>2. QED BY <1>1, Invariance, PTL
-----------------------------------------------------------------------------
(* The indicator of the page.  What it says last is decided by the last    *)
(* event that is on its way, and an event "rebuilding" is never the last   *)
(* one once nothing is built or started: what ends the work publishes,     *)
(* unless the application that serves has not told so.                     *)

Publishers == {"loop", "socket"}
Messages == {Nothing, "rebuilding", "build-failed", "up-to-date", "app-exited", "reload"}

\* There is work that ends with an event.
Working == build # "off" \/ app.state \in {"starting", "dead", "untold"} \/ readies > 0

States == {"none", "starting", "ready", "untold", "dead"}

BusTypes ==
    /\ compiled \in Int /\ linked \in Int /\ readies \in Nat
    /\ app \in [exe : Int, state : States]
    /\ unsent \in [Publishers -> Messages]
    /\ status \in Messages /\ queue \in Seq(Messages \ {Nothing})

\* The loop does not go on before what it published was sent.
LoopAwaitsBus ==
    /\ loop # "select" => unsent["loop"] = Nothing
    /\ unsent["loop"] = "rebuilding" => build # "off"
    /\ unsent["socket"] # "rebuilding"

\* A page that connects now is not greeted with a build that is over.
GreetingIsTrue == ~Working => status # "rebuilding"

\* Whatever the page shows or is about to hear, it ends without a spinner.
SpinnerIsAnswered ==
    ~Working /\ socket = "on" /\ (\A p \in Publishers : unsent[p] = Nothing) =>
        IF queue = <<>> THEN spinning => refresh \/ gaveUp
        ELSE queue[Len(queue)] # "rebuilding"

\* A document that was just loaded has heard nothing yet.
NewPageIsSilent == socket = "first" => ~spinning /\ queue = <<>>

BusInv == BusTypes /\ LoopAwaitsBus /\ GreetingIsTrue /\ SpinnerIsAnswered /\ NewPageIsSilent

\* It holds at the start: the first build runs, and no page is connected.
LEMMA InitBus == DevInit => BusInv
<1> SUFFICES ASSUME DevInit PROVE BusInv
    OBVIOUS
<1>1. BusTypes
    BY DEF DevInit, BusTypes, Publishers, Messages, States, Gone, NoBuild, Nothing
<1>2. /\ unsent = [p \in {"loop", "socket"} |-> "nothing"] /\ loop = "select"
      /\ build = "reading" /\ socket = "off"
    BY DEF DevInit, Nothing
<1>3. QED
    BY <1>1, <1>2 DEF BusInv, LoopAwaitsBus, GreetingIsTrue, SpinnerIsAnswered, NewPageIsSilent, Working, Nothing

\* What is published is on its way: nothing is said of the page until it was sent.
LEMMA PublishWaits ==
    ASSUME BusTypes, NEW p \in Publishers, NEW event \in Messages \ {Nothing}, Publish(p, event)
    PROVE  /\ unsent' \in [Publishers -> Messages]
           /\ unsent'[p] = event
           /\ \A q \in Publishers \ {p} : unsent'[q] = unsent[q]
           /\ SpinnerIsAnswered'
           /\ status' \in Messages
           /\ event # "rebuilding" => status' # "rebuilding"
<1>1. /\ unsent' = [unsent EXCEPT ![p] = event]
      /\ status' = IF event \in {"reload", "up-to-date"} THEN Nothing ELSE event
    BY DEF Publish
<1>2. unsent \in [Publishers -> Messages]
    BY DEF BusTypes
<1>3. unsent' \in [Publishers -> Messages] /\ unsent'[p] = event
    BY <1>1, <1>2
<1>4. SpinnerIsAnswered'
    BY <1>3 DEF SpinnerIsAnswered
<1>5. status' \in Messages /\ (event # "rebuilding" => status' # "rebuilding")
    BY <1>1 DEF Nothing, Messages
<1>6. QED BY <1>1, <1>2, <1>3, <1>4, <1>5

\* A step that leaves the bus and the page alone, and ends no work.
LEMMA WorkGoesOn ==
    ASSUME BusInv, UNCHANGED <<status, unsent, queue, socket, refresh, spinning, gaveUp>>,
           BusTypes', LoopAwaitsBus', Working => Working'
    PROVE  BusInv'
BY DEF BusInv, GreetingIsTrue, SpinnerIsAnswered, NewPageIsSilent

\* Steps outside the loop end no work: a process that was started becomes one
\* whose message is on its way, or dies and is waited for.
LEMMA OutsideBus ==
    ASSUME BusInv,
           \/ \E kind \in {"source", "elsewhere", "manifest"}, matters \in BOOLEAN : Edit(kind, matters)
           \/ Hear \/ HearError \/ AppExits \/ AppReady \/ BuildTask,
           source \in Nat
    PROVE  BusInv'
<1>1. UNCHANGED <<status, unsent, queue, socket, refresh, spinning, gaveUp, loop>>
    BY Zenon DEF Edit, Hear, HearError, AppExits, AppReady, BuildTask, Compile, Link, Bundle, bus, page, main
<1>2. BusTypes /\ LoopAwaitsBus
    BY DEF BusInv
<1>3. CASE Hear \/ HearError \/ \E kind \in {"source", "elsewhere", "manifest"}, matters \in BOOLEAN : Edit(kind, matters)
    <2>1. UNCHANGED <<compiled, linked, readies, app, build>>
        BY <1>3, Zenon DEF Hear, HearError, Edit, task, process
    <2>2. QED
        BY <1>1, <1>2, <2>1, WorkGoesOn DEF BusTypes, LoopAwaitsBus, Working
<1>4. CASE AppExits
    <2>1. UNCHANGED <<compiled, linked, readies, build>> /\ app' = [app EXCEPT !.state = "dead"]
        BY <1>4 DEF AppExits, task
    <2>2. app' \in [exe : Int, state : States] /\ app'.state = "dead"
        BY <1>2, <2>1 DEF BusTypes, States
    <2>3. QED
        BY <1>1, <1>2, <2>1, <2>2, WorkGoesOn DEF BusTypes, LoopAwaitsBus, Working
<1>5. CASE AppReady
    <2>1. /\ UNCHANGED <<compiled, linked, build>>
          /\ \/ app' = [app EXCEPT !.state = "ready"] /\ readies' = readies + 1
             \/ app' = [app EXCEPT !.state = "untold"] /\ readies' = readies
        BY <1>5 DEF AppReady, task
    <2>2. /\ app' \in [exe : Int, state : States] /\ readies' \in Nat
          /\ readies' > 0 \/ app'.state = "untold"
        BY <1>2, <2>1 DEF BusTypes, States
    <2>3. QED
        BY <1>1, <1>2, <2>1, <2>2, WorkGoesOn DEF BusTypes, LoopAwaitsBus, Working
<1>6. CASE BuildTask
    <2>1. UNCHANGED <<readies, app>> /\ build' # "off" /\ compiled' \in Int /\ linked' \in Int
        BY <1>2, <1>6 DEF BusTypes, BuildTask, Compile, Link, Bundle, process, NoBuild
    <2>2. QED
        BY <1>1, <1>2, <2>1, WorkGoesOn DEF BusTypes, LoopAwaitsBus, Working
<1>7. QED BY <1>3, <1>4, <1>5, <1>6

\* Steps of the loop: each that ends a build or a process publishes how.
LEMMA LoopBus ==
    ASSUME BusInv, Loop
    PROVE  BusInv'
<1> USE DEF BusInv
<1>1. /\ UNCHANGED <<linked, readies, queue, socket, refresh, spinning, gaveUp>>
      /\ compiled' \in {compiled, NoBuild}
    BY Zenon DEF Loop, Changed, ManifestChanged, Discover, Discovered, ReloadRequested, BuildFailed,
        UpToDate, Restart, Exited, Rebuild, task, process, page
<1>2. unsent["loop"] = Nothing
    <2>1. CASE Discover \/ Discovered
        BY <2>1 DEF Discover, Discovered, LoopAwaitsBus
    <2>2. CASE ~(Discover \/ Discovered)
        BY <2>2, Zenon DEF Loop, Changed, ManifestChanged, ReloadRequested, BuildFailed, UpToDate,
            Restart, Exited, Selecting
    <2>3. QED BY <2>1, <2>2
<1>10. /\ compiled' \in Int /\ linked' \in Int /\ readies' \in Nat
       /\ queue' \in Seq(Messages \ {Nothing}) /\ NewPageIsSilent'
    BY <1>1 DEF BusTypes, NoBuild, NewPageIsSilent
<1>3. unsent["socket"] # "rebuilding" /\ unsent \in [Publishers -> Messages]
      /\ "loop" \in Publishers /\ "socket" \in Publishers \ {"loop"}
    BY DEF LoopAwaitsBus, BusTypes, Publishers
<1>4. CASE Changed \/ Discovered \/ ReloadRequested
    <2>1. build' = "reading" /\ loop' = "select" /\ app' = app /\ Publish("loop", "rebuilding")
        BY <1>4 DEF Changed, Discovered, ReloadRequested, Rebuild, Selecting, main, process
    <2>2. /\ unsent' \in [Publishers -> Messages] /\ unsent'["socket"] = unsent["socket"]
          /\ SpinnerIsAnswered' /\ status' \in Messages
        BY <1>3, <2>1, PublishWaits DEF Messages, Nothing
    <2>3. QED
        BY <1>1, <1>3, <1>10, <2>1, <2>2 DEF BusTypes, LoopAwaitsBus, GreetingIsTrue, Working
<1>5. CASE ManifestChanged \/ Discover
    <2>1. UNCHANGED <<build, app, status, unsent>>
        BY <1>5 DEF ManifestChanged, Discover, task, process, bus
    <2>2. QED
        BY <1>1, <1>2, <1>3, <1>10, <2>1, WorkGoesOn DEF BusTypes, LoopAwaitsBus, Working, Nothing
<1>6. ASSUME NEW event \in {"build-failed", "up-to-date", "app-exited"}, Publish("loop", event),
             app' \in {app, Gone}, loop' = "select"
      PROVE  BusInv'
    <2>1. /\ unsent' \in [Publishers -> Messages] /\ unsent'["socket"] = unsent["socket"]
          /\ unsent'["loop"] = event /\ SpinnerIsAnswered' /\ status' \in Messages \ {"rebuilding"}
        BY <1>3, <1>6, PublishWaits DEF Messages, Nothing
    <2>2. QED
        BY <1>1, <1>3, <1>6, <1>10, <2>1 DEF BusTypes, LoopAwaitsBus, GreetingIsTrue, Gone, NoBuild, States
<1>7. CASE BuildFailed \/ UpToDate \/ Exited
    BY <1>6, <1>7 DEF BuildFailed, UpToDate, Exited, Selecting, main, process
<1>8. CASE Restart
    <2>1. loop' = "select"
        BY <1>8 DEF Restart, Selecting
    <2>2. CASE app' = Gone /\ Publish("loop", "app-exited")
        BY <1>6, <2>1, <2>2
    <2>3. CASE app' = [exe |-> linked, state |-> "starting"] /\ UNCHANGED bus
        <3>1. Working' /\ app' \in [exe : Int, state : States]
            BY <2>3 DEF Working, BusTypes, States
        <3>2. QED
            BY <1>1, <1>2, <1>3, <1>10, <2>1, <2>3, <3>1, WorkGoesOn DEF BusTypes, LoopAwaitsBus, bus, Nothing
    <2>4. QED BY <1>8, <2>2, <2>3 DEF Restart
<1>9. QED BY <1>4, <1>5, <1>7, <1>8 DEF Loop

\* Steps of the bus: the last event that is sent after the work is no "rebuilding".
LEMMA SentBus ==
    ASSUME BusInv, Bus
    PROVE  BusInv'
<1> USE DEF BusInv
<1>1. CASE ReadyArrives
    <2>1. /\ UNCHANGED <<compiled, linked, app, build, loop, queue>>
          /\ readies > 0 /\ readies' = readies - 1 /\ Publish("socket", "reload")
          /\ UNCHANGED <<socket, spinning>>
        BY <1>1 DEF ReadyArrives, task, main, page
    <2>2. /\ unsent' \in [Publishers -> Messages] /\ unsent'["loop"] = unsent["loop"]
          /\ unsent'["socket"] = "reload" /\ SpinnerIsAnswered' /\ status' \in Messages \ {"rebuilding"}
        BY <2>1, PublishWaits DEF Messages, Nothing, Publishers
    <2>3. QED
        BY <2>1, <2>2 DEF BusTypes, LoopAwaitsBus, GreetingIsTrue, NewPageIsSilent
<1>2. ASSUME NEW p \in Publishers, Send(p)
      PROVE  BusInv'
    <2>1. /\ UNCHANGED <<compiled, linked, app, readies, build, loop, status, spinning>>
          /\ unsent[p] # Nothing /\ unsent' = [unsent EXCEPT ![p] = Nothing]
          /\ \/ /\ queue' = IF socket = "on" THEN Append(queue, unsent[p]) ELSE queue
                /\ socket' = socket
             \/ queue' = <<>> /\ socket' = "deaf"
        BY <1>2 DEF Send, task, main, process
    <2>2. unsent \in [Publishers -> Messages] /\ queue \in Seq(Messages \ {Nothing})
          /\ unsent[p] \in Messages \ {Nothing}
        BY <2>1 DEF BusTypes
    <2>3. unsent' \in [Publishers -> Messages] /\ queue' \in Seq(Messages \ {Nothing})
          /\ (unsent'["loop"] \in {unsent["loop"], Nothing})
          /\ (unsent'["socket"] \in {unsent["socket"], Nothing})
        <3>1. unsent' \in [Publishers -> Messages]
              /\ (unsent'["loop"] \in {unsent["loop"], Nothing})
              /\ (unsent'["socket"] \in {unsent["socket"], Nothing})
            BY <2>1, <2>2 DEF Messages, Publishers
        <3>2. CASE queue' = <<>>
            <4>1. <<>> \in Seq(Messages \ {Nothing})
                OBVIOUS
            <4>2. QED BY <3>1, <3>2, <4>1
        <3>3. CASE queue' # <<>>
            <4>1. queue' \in {queue, Append(queue, unsent[p])}
                BY <2>1, <3>3
            <4>2. Append(queue, unsent[p]) \in Seq(Messages \ {Nothing})
                BY <2>2
            <4>3. QED BY <2>2, <3>1, <4>1, <4>2
        <3>4. QED BY <3>2, <3>3
    <2>4. BusTypes' /\ LoopAwaitsBus' /\ GreetingIsTrue'
        BY <2>1, <2>3 DEF BusTypes, LoopAwaitsBus, GreetingIsTrue, Working, Nothing
    <2>5. ASSUME ~Working', socket' = "on"
          PROVE  queue' # <<>> /\ queue'[Len(queue')] # "rebuilding"
        <3>1. unsent[p] # "rebuilding"
            BY <1>2, <2>1, <2>5 DEF Publishers, LoopAwaitsBus, Working
        <3>2. queue' = Append(queue, unsent[p])
            BY <2>1, <2>5
        <3>3. QED BY <2>2, <3>1, <3>2
    <2>6. NewPageIsSilent'
        BY <2>1 DEF NewPageIsSilent
    <2>7. QED BY <2>4, <2>5, <2>6 DEF SpinnerIsAnswered
<1>3. QED BY <1>1, <1>2 DEF Bus, Publishers

\* Steps of the page.
LEMMA PageBus ==
    ASSUME BusInv, Page \/ User \/ UNCHANGED devVars
    PROVE  BusInv'
<1> USE DEF BusInv
<1>1. UNCHANGED <<compiled, linked, app, readies, build, loop, status, unsent>>
    BY Zenon DEF Page, User, Retry, Open, Receive, Refreshed, Reloaded, Navigated, Load, Drop, Navigate,
                 NavigationEnds, devVars, world, task, main, process, bus
<1>2. LoopAwaitsBus' /\ GreetingIsTrue' /\ (Working' <=> Working)
    BY <1>1 DEF LoopAwaitsBus, GreetingIsTrue, Working
<1>3. BusTypes' <=> queue' \in Seq(Messages \ {Nothing})
    BY <1>1 DEF BusTypes
<1>4. ASSUME queue' = Greeting, spinning' => refresh' \/ gaveUp', NewPageIsSilent'
      PROVE  BusInv'
    <2>1. status \in Messages
        BY DEF BusTypes
    <2>2. queue' \in Seq(Messages \ {Nothing})
        <3>1. CASE status = Nothing
            <4>1. queue' = <<>>
                BY <1>4, <3>1 DEF Greeting
            <4>2. QED BY <4>1
        <3>2. CASE status # Nothing
            <4>1. queue' = <<status>> /\ status \in Messages \ {Nothing}
                BY <1>4, <2>1, <3>2 DEF Greeting
            <4>2. QED BY <4>1
        <3>3. QED BY <3>1, <3>2
    <2>3. CASE status = Nothing
        BY <1>2, <1>3, <1>4, <2>2, <2>3 DEF Greeting, SpinnerIsAnswered, Nothing
    <2>4. CASE status # Nothing
        <3>1. queue' # <<>> /\ queue'[Len(queue')] = status
            BY <1>4, <2>4 DEF Greeting
        <3>2. ~Working' => status # "rebuilding"
            BY <1>2 DEF GreetingIsTrue
        <3>3. SpinnerIsAnswered'
            BY <3>1, <3>2 DEF SpinnerIsAnswered
        <3>4. QED
            BY <1>2, <1>3, <1>4, <2>2, <3>3
    <2>5. QED BY <2>3, <2>4
<1>5. CASE Open
    <2>1. CASE socket = "again"
        BY <1>4, <1>5, <2>1 DEF Open, Refresh, NewPageIsSilent
    <2>2. CASE socket = "first"
        <3>1. ~spinning /\ spinning' = spinning /\ socket' = "on" /\ queue' = Greeting
            BY <1>5, <2>2 DEF Open, NewPageIsSilent
        <3>2. NewPageIsSilent'
            BY <3>1 DEF NewPageIsSilent
        <3>3. QED BY <1>4, <3>1, <3>2
    <2>3. QED BY <1>5, <2>1, <2>2 DEF Open
<1>6. CASE Retry \/ Drop
    <2>3. queue' \in {queue, <<>>} /\ socket' \in {"again", "off"}
        BY <1>6 DEF Retry, Drop
    <2>1. queue' \in Seq(Messages \ {Nothing}) /\ socket' \in {"again", "off"}
        <3>1. <<>> \in Seq(Messages \ {Nothing})
            OBVIOUS
        <3>2. QED BY <2>3, <3>1 DEF BusTypes
    <2>2. QED BY <1>2, <1>3, <2>1 DEF SpinnerIsAnswered, NewPageIsSilent
<1>11. CASE Reloaded \/ Navigated
    <2>1. queue' = <<>> /\ socket' = "first" /\ spinning' = FALSE
        BY <1>11 DEF Reloaded, Navigated, Load
    <2>2. SpinnerIsAnswered' /\ NewPageIsSilent'
        BY <2>1 DEF SpinnerIsAnswered, NewPageIsSilent
    <2>3. queue' \in Seq(Messages \ {Nothing})
        BY <2>1
    <2>4. QED BY <1>2, <1>3, <2>2, <2>3
<1>12. CASE Navigate \/ NavigationEnds
    <2>1. /\ UNCHANGED <<queue, socket, spinning>>
          /\ \/ UNCHANGED <<refresh, gaveUp>>
             \/ gaveUp' = (gaveUp \/ (refresh /\ spinning))
        BY <1>12 DEF Navigate, NavigationEnds
    <2>2. spinning' /\ (refresh \/ gaveUp) => refresh' \/ gaveUp'
        BY <2>1
    <2>3. SpinnerIsAnswered'
        BY <1>1, <1>2, <2>1, <2>2 DEF SpinnerIsAnswered
    <2>4. NewPageIsSilent' /\ queue' \in Seq(Messages \ {Nothing})
        BY <2>1 DEF NewPageIsSilent, BusTypes
    <2>5. QED BY <1>2, <1>3, <2>3, <2>4
<1>7. CASE Receive
    <2>1. /\ queue # <<>> /\ queue' = Tail(queue) /\ socket' = socket
          /\ \/ spinning' => refresh' \/ gaveUp'
             \/ spinning' = (Head(queue) = "rebuilding")
        <3>1. CASE Head(queue) = "reload"
            <4>1. /\ queue # <<>> /\ queue' = Tail(queue) /\ socket' = socket
                  /\ spinning' = spinning /\ refresh' = ~navigating
                  /\ gaveUp' = (navigating /\ spinning)
                BY <1>7, <3>1, Zenon DEF Receive, Refresh
            <4>2. spinning' => refresh' \/ gaveUp'
                BY <4>1, Zenon
            <4>3. QED BY <4>1, <4>2
        <3>2. CASE Head(queue) # "reload"
            BY <1>7, <3>2 DEF Receive
        <3>3. QED BY <3>1, <3>2
    <2>7. NewPageIsSilent'
        BY <2>1 DEF NewPageIsSilent
    <2>2. queue \in Seq(Messages \ {Nothing})
        BY DEF BusTypes
    <2>3. queue' \in Seq(Messages \ {Nothing})
        BY <2>1, <2>2
    <2>4. CASE queue' # <<>>
        <3>1. queue'[Len(queue')] = queue[Len(queue)]
            BY <2>1, <2>2, <2>4
        <3>2. QED BY <1>1, <1>2, <1>3, <2>1, <2>3, <2>4, <2>7, <3>1 DEF SpinnerIsAnswered
    <2>5. CASE queue' = <<>>
        <3>1. Len(queue) = 1 /\ Head(queue) = queue[Len(queue)]
            <4>1. Len(queue') = 0
                BY <2>5
            <4>2. Len(Tail(queue)) = Len(queue) - 1 /\ Len(queue) \in Nat
                BY <2>1, <2>2
            <4>3. Len(queue) = 1
                BY <2>1, <4>1, <4>2
            <4>4. Head(queue) = queue[1]
                BY <2>1, <2>2
            <4>5. QED BY <4>3, <4>4
        <3>2. QED
            BY <1>1, <1>2, <1>3, <2>1, <2>3, <2>5, <2>7, <3>1 DEF SpinnerIsAnswered
    <2>6. QED BY <2>4, <2>5
<1>8. CASE Refreshed
    BY <1>1, <1>2, <1>3, <1>8 DEF Refreshed, SpinnerIsAnswered, NewPageIsSilent, BusTypes
<1>9. CASE UNCHANGED devVars
    BY <1>1, <1>2, <1>3, <1>9 DEF devVars, page, SpinnerIsAnswered, NewPageIsSilent, BusTypes
<1>10. QED BY <1>5, <1>6, <1>7, <1>8, <1>9, <1>11, <1>12 DEF Page, User

\* The page does not go on saying "rebuilding" when nothing is built or started
\* any more, with the exceptions that SpinnerEnds names: for any number of events,
\* presses, exits, navigations and lost sockets, and any capacity of the bus.
THEOREM SpinnerAlwaysEnds == DevSpec => []SpinnerEnds
<1>1. IInv /\ BusInv /\ [DevNext]_devVars => BusInv'
    BY OutsideBus, LoopBus, SentBus, PageBus DEF DevNext, IInv, Types
<1>2. BusInv => SpinnerEnds
    BY DEF BusInv, BusTypes, SpinnerIsAnswered, SpinnerEnds, Working
<1>3. QED BY <1>1, <1>2, InitBus, Invariance, PTL DEF DevSpec
=============================================================================
