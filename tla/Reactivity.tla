----------------------------- MODULE Reactivity -----------------------------
(***************************************************************************)
(* Signals and effects in the browser, and a page that watches the signals *)
(* its content was rendered with.  JavaScript runs to completion: a task   *)
(* (an event handler, an arriving frame) starts only after the microtasks  *)
(* of the one before, so one record, `heap`, holds what a callback changes *)
(* and a callback is a fold of its steps over it.                          *)
(*   Bindings are the expressions in the content; `page` ones come with a  *)
(* snapshot, `region` ones with the swap of its late region.  The effect   *)
(* Watch reads what the server read for the content and asks for a render. *)
(***************************************************************************)
EXTENDS Integers, SequencesExt, Turns

CONSTANTS
    Signals, MaxValue,      \* bound: a value is 0..MaxValue and wraps
    PageBindings, RegionBindings,   \* in document order
    Programs,       \* what the bindings do: functions to sequences of steps
    Handlers,       \* what the event handlers do: sequences of steps
    PageReads(_), RegionReads(_),   \* what the server reads, given the values
    MaxRuns         \* how often one flush runs an effect (100 in the code)

VARIABLES
    code,       \* of the bindings, one of Programs
    heap,       \* the reactive graph, the microtasks and the content
    runs,       \* how often each effect ran in this flush
    late        \* the document has yet to stream its region

vars == <<code, heap, runs, late>>

Watch == "watch"
Bindings == ToSet(PageBindings) \cup ToSet(RegionBindings)
Effects == Bindings \cup {Watch}
None == "none"
InitialValues == [s \in Signals |-> 0]
NoRequest == [values |-> InitialValues, frames |-> <<>>]

\* The steps that a callback can take; only the page disposes its watch effect.
Ops == ({"read", "unless", "throw", "copy", "bump"} \X Signals \X Signals)
           \cup ({"dispose"} \X Bindings \X Bindings)

ASSUME ReactivityAssumption ==
    /\ MaxValue \in Nat /\ MaxRuns \in Nat \ {0}
    /\ PageBindings \in Seq(Bindings) /\ RegionBindings \in Seq(Bindings)
    /\ Bindings \cap {Watch, None} = {}
    /\ Programs \subseteq [Bindings -> Seq(Ops)] /\ Handlers \subseteq Seq(Ops)
    /\ \A values \in [Signals -> 0..MaxValue] :
           PageReads(values) \subseteq Signals /\ RegionReads(values) \subseteq Signals

-----------------------------------------------------------------------------
(* Signals and effects.                                                    *)

Kept(seq, e, x) == IF x = e THEN seq ELSE Append(seq, x)
Without(seq, e) == InTurn(LAMBDA kept, x : Kept(kept, e, x), <<>>, seq)
Joined(seq, e) == IF Contains(seq, e) THEN seq ELSE Append(seq, e)

\* The signals that the server read for what is shown.
Watched(h) == {p[1] : p \in h.shows.page \cup h.shows.region}

Unsubscribe(h, e) == [h EXCEPT !.subs = [s \in Signals |-> Without(@[s], e)]]

Dispose(h, e) ==
    [Unsubscribe(h, e) EXCEPT !.disposed = @ \cup {e}, !.pending = Without(@, e)]

Schedule(h, e) ==
    IF e \in h.disposed \/ e = h.running THEN h
    ELSE [h EXCEPT !.pending = Joined(@, e),
                   !.micro = IF h.flushing THEN @ ELSE Joined(@, "flush")]

\* Mutant: a disposed effect that is still running subscribes again.
TrackAlways(h, S) ==
    IF h.running = None THEN h
    ELSE [h EXCEPT !.subs = [s \in Signals |-> IF s \in S THEN Joined(@[s], h.running) ELSE @[s]],
                   !.seen[h.running] = @ \cup {<<s, h.vals[s]>> : s \in S}]

Track(h, S) ==
    IF h.running \in h.disposed \cup {None} THEN h
    ELSE [h EXCEPT !.subs = [s \in Signals |-> IF s \in S THEN Joined(@[s], h.running) ELSE @[s]],
                   !.seen[h.running] = @ \cup {<<s, h.vals[s]>> : s \in S}]

\* A change that the content does not depend on yet is remembered in `missed`.
Assign(h, s, v) ==
    IF v = h.vals[s] THEN h
    ELSE InTurn(Schedule,
           [h EXCEPT !.vals[s] = v,
                     !.wrote = [e \in Effects |->
                                  IF e = h.running THEN @[e] \cup {s} ELSE @[e]],
                     !.missed = IF h.inserting \/ s \notin Watched(h) THEN @ \cup {s} ELSE @],
           h.subs[s])

\* RenderRequest.schedule: the request under way is out of date.
Ask(h) ==
    IF h.subscribing \/ Contains(h.micro, "refresh") THEN h
    ELSE [h EXCEPT !.request = NoRequest, !.micro = Append(@, "refresh")]

\* One step of a callback: it reads s; returns or throws unless s is zero;
\* copies s to t; counts s up without reading it; disposes an effect.
Step(h, op) ==
    LET s == op[2]
        r == Track(h, {s})
    IN  CASE h.ended -> h
          [] ~h.ended /\ op[1] = "read" -> r
          [] ~h.ended /\ op[1] = "unless" -> [r EXCEPT !.ended = r.vals[s] # 0]
          [] ~h.ended /\ op[1] = "throw" ->
               [r EXCEPT !.ended = r.vals[s] # 0, !.threw = r.vals[s] # 0]
          [] ~h.ended /\ op[1] = "copy" -> Assign(r, op[3], r.vals[s])
          [] ~h.ended /\ op[1] = "bump" -> Assign(h, s, (h.vals[s] + 1) % (MaxValue + 1))
          [] ~h.ended /\ op[1] = "dispose" -> Dispose(h, s)

Callback(h, ops) == InTurn(Step, [h EXCEPT !.ended = FALSE, !.threw = FALSE], ops)

\* Mutant: the dependencies of a region are not collected.
WatchPage(h) == Ask(Track(h, {p[1] : p \in h.shows.page}))

\* The callback of the watch effect: every dependency, and then a request.
WatchCallback(h) == Ask(Track(h, Watched(h)))

Run(h, e) ==
    IF e \in h.disposed THEN h
    ELSE LET begun == [Unsubscribe(h, e) EXCEPT
                          !.pending = Without(@, e), !.running = e,
                          !.seen[e] = {}, !.wrote[e] = {}, !.givenUp = @ \ {e}]
         IN  [(IF e = Watch THEN WatchCallback(begun) ELSE Callback(begun, code[e]))
                EXCEPT !.running = None, !.ended = FALSE]

-----------------------------------------------------------------------------
(* The content: what replaces it, and what owns its effects.               *)

\* Scope.effect: an effect whose first run throws is disposed, and the scan
\* of the content ends there.
Create(h, e) ==
    IF h.threw THEN h
    ELSE LET r == Run([h EXCEPT !.disposed = @ \ {e}], e)
         IN  IF r.threw THEN Dispose(r, e) ELSE r

Hydrate(h, bindings) ==
    [InTurn(Create, [h EXCEPT !.inserting = TRUE, !.threw = FALSE], bindings)
        EXCEPT !.inserting = FALSE]

\* A frame whose content throws ends the request.
Broken(h) == [h EXCEPT !.request = NoRequest, !.failed = TRUE]

Rendered(reads, values) == {<<s, values[s]>> : s \in reads}

\* replace() and startWatching().
Replace(h, values) ==
    LET released == InTurn(Dispose, [h EXCEPT !.shows = [page |-> {}, region |-> {}]],
                             PageBindings \o RegionBindings \o <<Watch>>)
        inserted == Hydrate(released, PageBindings)
    IN  IF inserted.threw THEN Broken(inserted)
        ELSE [Create([inserted EXCEPT !.shows.page = Rendered(PageReads(values), values),
                                      !.subscribing = TRUE], Watch)
                EXCEPT !.subscribing = FALSE]

\* applySwap() and resubscribe().
Swap(h, values) ==
    LET released == InTurn(Dispose, [h EXCEPT !.shows.region = {}], RegionBindings)
        inserted == Hydrate(released, RegionBindings)
    IN  IF inserted.threw THEN Broken(inserted)
        ELSE [Run([inserted EXCEPT !.shows.region = Rendered(RegionReads(values), values),
                                   !.subscribing = TRUE], Watch)
                EXCEPT !.subscribing = FALSE]

Blank ==
    [vals |-> InitialValues, subs |-> [s \in Signals |-> <<>>],
     pending |-> <<>>, disposed |-> {}, running |-> None, ended |-> FALSE, threw |-> FALSE,
     seen |-> [e \in Effects |-> {}], wrote |-> [e \in Effects |-> {}], givenUp |-> {},
     flushing |-> FALSE, micro |-> <<>>,
     shows |-> [page |-> {}, region |-> {}], render |-> "document",
     inserting |-> FALSE, subscribing |-> FALSE,
     request |-> NoRequest, failed |-> FALSE, missed |-> {}]

Init ==
    /\ code \in Programs
    /\ heap = Replace(Blank, InitialValues)
    /\ runs = [e \in Effects |-> 0]
    /\ late = TRUE

-----------------------------------------------------------------------------
(* Tasks: event handlers and frames that arrive.                           *)

Idle == heap.micro = <<>> /\ ~heap.flushing

Handle(ops) ==
    /\ Idle
    /\ heap' = Callback(heap, ops)
    /\ UNCHANGED <<code, runs, late>>

Frame ==
    /\ Idle /\ heap.request # NoRequest
    /\ LET r == heap.request
           rest == IF Len(r.frames) = 1 THEN NoRequest ELSE [r EXCEPT !.frames = Tail(@)]
       IN  heap' = IF Head(r.frames) = "page"
                   THEN Replace([heap EXCEPT !.request = rest, !.render = "request"], r.values)
                   ELSE Swap([heap EXCEPT !.request = rest], r.values)
    /\ UNCHANGED <<code, runs, late>>

RequestFails ==
    /\ Idle /\ heap.request # NoRequest
    /\ heap' = Broken(heap)
    /\ UNCHANGED <<code, runs, late>>

\* A region of the document is ignored once a later render replaced it.
LateRegion ==
    /\ Idle /\ late
    /\ late' = FALSE
    /\ heap' = IF heap.render = "document" THEN Swap(heap, InitialValues) ELSE heap
    /\ UNCHANGED <<code, runs>>

-----------------------------------------------------------------------------
(* Microtasks: flushes of the scheduled effects and the request.           *)

StartFlush ==
    /\ ~heap.flushing /\ heap.micro # <<>> /\ Head(heap.micro) = "flush"
    /\ heap' = [heap EXCEPT !.micro = Tail(@), !.flushing = TRUE]
    /\ runs' = [e \in Effects |-> 0]
    /\ UNCHANGED <<code, late>>

\* Mutant: the flush goes over the effects that were pending when it began.
RunListed ==
    /\ heap.flushing /\ heap.pending # <<>>
    /\ heap' = [Run(heap, Head(heap.pending)) EXCEPT !.pending = Tail(heap.pending)]
    /\ UNCHANGED <<code, runs, late>>

\* Mutant: no cap.
RunAgain ==
    /\ heap.flushing /\ heap.pending # <<>>
    /\ heap' = Run([heap EXCEPT !.pending = Tail(@)], Head(heap.pending))
    /\ UNCHANGED <<code, runs, late>>

\* An effect that throws is reported after the flush; the others run.
RunNext ==
    /\ heap.flushing /\ heap.pending # <<>>
    /\ LET e == Head(heap.pending)
           h == [heap EXCEPT !.pending = Tail(@)]
       IN  /\ runs' = [runs EXCEPT ![e] = IF @ > MaxRuns THEN @ ELSE @ + 1]
           /\ heap' = IF runs[e] >= MaxRuns THEN [h EXCEPT !.givenUp = @ \cup {e}]
                      ELSE Run(h, e)
    /\ UNCHANGED <<code, late>>

EndFlush ==
    /\ heap.flushing /\ heap.pending = <<>>
    /\ heap' = [heap EXCEPT !.flushing = FALSE]
    /\ UNCHANGED <<code, runs, late>>

\* refresh(): the request carries the values of this moment.
Refresh ==
    /\ ~heap.flushing /\ heap.micro # <<>> /\ Head(heap.micro) = "refresh"
    /\ heap' = [heap EXCEPT !.micro = Tail(@), !.failed = FALSE, !.missed = {},
                            !.request = [values |-> heap.vals, frames |-> <<"page", "region">>]]
    /\ UNCHANGED <<code, runs, late>>

Microtask == StartFlush \/ RunNext \/ EndFlush \/ Refresh

Next ==
    \/ \E ops \in Handlers : Handle(ops)
    \/ Frame \/ RequestFails \/ LateRegion
    \/ StartFlush \/ RunNext \/ EndFlush \/ Refresh

Fairness == WF_vars(Microtask)

Spec == Init /\ [][Next]_vars /\ Fairness

-----------------------------------------------------------------------------
(* Properties.                                                             *)

\* When the microtasks have run, every effect that is alive and was not given
\* up has seen the values its signals have, except those it wrote itself: the
\* scheduler loses no change, also when an effect writes what an earlier one
\* read, takes another branch, throws or is disposed during the flush.
QuietMeansConsistent ==
    Idle => \A e \in Effects \ (heap.disposed \cup heap.givenUp) :
               \A p \in heap.seen[e] : heap.vals[p[1]] = p[2] \/ p[1] \in heap.wrote[e]

\* A disposed effect is neither subscribed nor scheduled, even one that is
\* disposed while it runs and then reads on, so that replaced content is not
\* kept alive by the signals that outlive it.
ReleasedAreForgotten ==
    \A e \in heap.disposed :
        ~Contains(heap.pending, e) /\ \A s \in Signals : ~Contains(heap.subs[s], e)

\* A flush ends, also when effects change what others of them depend on.
FlushEnds == heap.flushing ~> ~heap.flushing

Settled == Idle /\ heap.request = NoRequest /\ ~heap.failed
Fresh(s, v) == heap.vals[s] = v

\* Once the requests are answered, the content was rendered with the values
\* that the signals have, except those that changed while the content that
\* was shown did not depend on them, or while a frame was inserted.
ContentKeepsUp ==
    Settled => \A p \in heap.shows.page \cup heap.shows.region :
                  Fresh(p[1], p[2]) \/ p[1] \in heap.missed
=============================================================================
