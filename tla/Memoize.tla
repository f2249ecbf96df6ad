------------------------------ MODULE Memoize -------------------------------
(***************************************************************************)
(* The per-request cache of #[memoize] (topcoat-core memoize/cell.rs,      *)
(* memoize/recursion.rs, context/tracking.rs).                             *)
(*                                                                         *)
(* An entry stands for one function with one list of arguments.  It keeps  *)
(* a variant of its result for each set of request context bindings the    *)
(* body was seen to depend on, and a gate that one computation at a time   *)
(* holds.  A caller is a thread, or a future that is polled apart from the *)
(* others; nested calls make it a stack of frames, the innermost first.    *)
(*                                                                         *)
(* Bodies are given from outside: Body says what a body does next once it  *)
(* has seen the results of what it did before, so a body may depend on     *)
(* what it reads and on nothing else.  Futures joined inside one body are  *)
(* not modelled: a body waits for a nested call before it goes on.         *)
(***************************************************************************)
EXTENDS Naturals, Sequences

CONSTANTS
    Callers,      \* threads and tasks of one request
    Nobody,       \* who holds a gate that is free
    Entries,      \* (function, arguments) pairs
    Types,        \* types looked up in the request context
    Values,       \* values registered there, and results of bodies
    NoValue,      \* what a lookup of an absent type gives
    Registered,   \* the values of the bindings the request starts with
    RootScopes,   \* the scopes that functions are called from
    Body(_, _),   \* Body(e, seen): the next operation of e's body
    MaxCalls,     \* bound: calls from outside of memoized bodies
    MaxFailures,  \* bound: panics and cancelled calls
    ColdSteps     \* bound: steps of a run without a cache, for comparison

(* A binding id is a place in `bound`; 0 stands for an absent type. *)
Scopes(n) == [Types -> 0..n]

ASSUME MemoizeAssumption ==
    /\ Nobody \notin Callers /\ NoValue \notin Values
    /\ Registered \in Seq(Values)
    /\ RootScopes \subseteq Scopes(Len(Registered))
    /\ MaxCalls \in Nat /\ MaxFailures \in Nat /\ ColdSteps \in Nat

VARIABLES
    bound,        \* the value of every binding registered so far
    variants,     \* variants[e]: what the entry keeps, in the order found
    gate,         \* gate[e]: the caller that holds the gate, or Nobody
    stack,        \* stack[c]: the frames of c
    calls, failures  \* bound counters

vars == <<bound, variants, gate, stack, calls, failures>>

(* The operations of a body. *)
ReadOp(t) == [op |-> "read", type |-> t]              \* look t up
WithOp(t, v) == [op |-> "with", type |-> t, value |-> v] \* go on with cx.with(v)
BackOp == [op |-> "back"]                             \* go on with the own cx
CallOp(e) == [op |-> "call", entry |-> e]
ReturnOp(v) == [op |-> "return", value |-> v]

(* A call of e from `scope`.  `entry` is the scope of its tracker.         *)
Frame(e, scope) ==
    [entryOf |-> e, entry |-> scope, scope |-> scope, seen |-> << >>,
     reads |-> {}, at |-> "lookup"]

Init ==
    /\ bound = Registered
    /\ variants = [e \in Entries |-> << >>]
    /\ gate = [e \in Entries |-> Nobody]
    /\ stack = [c \in Callers |-> << >>]
    /\ calls = 0 /\ failures = 0

-----------------------------------------------------------------------------
(* Reads and variants.  A definition marked "Mutant" is a wrong variant of *)
(* the one below it, used only to show which property notices it.          *)

(* Whether `scope` resolves every read to the binding that was observed. *)
Matches(reads, scope) == \A r \in reads : scope[r.type] = r.id

(* Whether i is the first variant of e that fits `scope`. *)
Fits(e, scope, i) ==
    /\ i \in 1..Len(variants[e])
    /\ Matches(variants[e][i].reads, scope)
    /\ \A j \in 1..(i - 1) : ~Matches(variants[e][j].reads, scope)

NoneFits(e, scope) == \A i \in 1..Len(variants[e]) : ~Matches(variants[e][i].reads, scope)

MergeAll(frame, reads) == frame.reads \cup reads \* Mutant: internal bindings too

(* merge(): of the reads, those the tracked call's caller can see. *)
Merge(frame, reads) ==
    frame.reads \cup {r \in reads : frame.entry[r.type] = r.id}

ReadNothing(reads) == {}                     \* Mutant: reads are not replayed

(* What a variant replays into the tracker of an enclosing call. *)
Replayed(reads) == reads

Saw(frame, value) == [frame EXCEPT !.seen = Append(@, value)]

(* The stack below a call that returns: its caller has seen the value, and *)
(* its reads.                                                              *)
Resumed(below, value, reads) ==
    IF below = << >> THEN << >>
    ELSE <<[Saw(Head(below), value) EXCEPT
                !.reads = Merge(Head(below), Replayed(reads))]>> \o Tail(below)

-----------------------------------------------------------------------------
(* get_or_init().                                                          *)

Top(c) == Head(stack[c])
TopIs(c, at) == stack[c] # << >> /\ Top(c).at = at

SetTop(c, frame) == stack' = [stack EXCEPT ![c] = <<frame>> \o Tail(@)]

(* A call from outside of every memoized body, with no tracker around it. *)
Call(c, e, scope) ==
    /\ stack[c] = << >>
    /\ calls < MaxCalls /\ calls' = calls + 1
    /\ stack' = [stack EXCEPT ![c] = <<Frame(e, scope)>>]
    /\ UNCHANGED <<bound, variants, gate, failures>>

(* The result of variant i is handed out. *)
Reuse(c, i) ==
    LET variant == variants[Top(c).entryOf][i] IN
    /\ Fits(Top(c).entryOf, Top(c).scope, i)
    /\ stack' = [stack EXCEPT ![c] = Resumed(Tail(@), variant.value, variant.reads)]
    /\ UNCHANGED <<bound, variants, gate, calls, failures>>

(* The first lookup finds a variant. *)
Hit(c, i) == TopIs(c, "lookup") /\ Reuse(c, i)

NeverRecursive(c, e) == FALSE                \* Mutant: recursion goes unnoticed

(* Whether c is inside the body of e already: only then does the guard's   *)
(* owner token name the stack, or the poll, that asks.                     *)
Recursive(c, e) ==
    \E k \in 1..Len(stack[c]) : stack[c][k].at = "body" /\ stack[c][k].entryOf = e

(* It finds none, and the caller goes to wait for the gate. *)
Miss(c) ==
    /\ TopIs(c, "lookup")
    /\ NoneFits(Top(c).entryOf, Top(c).scope)
    /\ ~Recursive(c, Top(c).entryOf)
    /\ SetTop(c, [Top(c) EXCEPT !.at = "gate"])
    /\ UNCHANGED <<bound, variants, gate, calls, failures>>

(* The gates once every frame of c is gone. *)
WithoutGates(c) == [e \in Entries |-> IF gate[e] = c THEN Nobody ELSE gate[e]]

(* A panic unwinds every frame of c; each drops its guard of the gate. *)
Unwind(c) ==
    /\ gate' = WithoutGates(c)
    /\ stack' = [stack EXCEPT ![c] = << >>]

(* assert_not_recursive() panics. *)
PanicRecursive(c) ==
    /\ TopIs(c, "lookup")
    /\ NoneFits(Top(c).entryOf, Top(c).scope)
    /\ Recursive(c, Top(c).entryOf)
    /\ Unwind(c)
    /\ UNCHANGED <<bound, variants, calls, failures>>

AtGate(c) == TopIs(c, "gate") /\ gate[Top(c).entryOf] = Nobody

(* The second lookup, with the gate held, finds a variant. *)
HitAtGate(c, i) == AtGate(c) /\ Reuse(c, i)

(* What the second lookup has to say before the body runs. *)
StillMissing(e, scope) == NoneFits(e, scope)

(* It finds none: the body starts, with a tracker of its own. *)
Enter(c) ==
    /\ AtGate(c)
    /\ StillMissing(Top(c).entryOf, Top(c).scope)
    /\ gate' = [gate EXCEPT ![Top(c).entryOf] = c]
    /\ SetTop(c, [Top(c) EXCEPT !.at = "body"])
    /\ UNCHANGED <<bound, variants, calls, failures>>

-----------------------------------------------------------------------------
(* The body of the innermost call of c.                                    *)

Does(c, op) == TopIs(c, "body") /\ Body(Top(c).entryOf, Top(c).seen) = op

ValueOf(id) == IF id = 0 THEN NoValue ELSE bound[id]

(* request_context(): the tracker records which binding was found. *)
Read(c, t) ==
    LET id == Top(c).scope[t] IN
    /\ Does(c, ReadOp(t))
    /\ SetTop(c, [Saw(Top(c), ValueOf(id)) EXCEPT
                      !.reads = Merge(Top(c), {[type |-> t, id |-> id]})])
    /\ UNCHANGED <<bound, variants, gate, calls, failures>>

(* BindingId::new(). *)
FreshId == Len(bound) + 1

(* Cx::with(): a child scope that holds a new binding. *)
With(c, t, v) ==
    /\ Does(c, WithOp(t, v))
    /\ bound' = Append(bound, v)
    /\ SetTop(c, [Saw(Top(c), NoValue) EXCEPT !.scope[t] = FreshId])
    /\ UNCHANGED <<variants, gate, calls, failures>>

(* The body goes on with the handle it was given. *)
Back(c) ==
    /\ Does(c, BackOp)
    /\ SetTop(c, [Saw(Top(c), NoValue) EXCEPT !.scope = Top(c).entry])
    /\ UNCHANGED <<bound, variants, gate, calls, failures>>

(* A memoized call inside of the body, from the scope it has by then. *)
Nested(c, e) ==
    /\ Does(c, CallOp(e))
    /\ stack' = [stack EXCEPT ![c] = <<Frame(e, Top(c).scope)>> \o @]
    /\ UNCHANGED <<bound, variants, gate, calls, failures>>

(* The body returns: insert() stores the variant with the reads of its     *)
(* tracker, hands the value out, and the gate is let go.                   *)
Return(c, v) ==
    LET e == Top(c).entryOf IN
    /\ Does(c, ReturnOp(v))
    /\ variants' = [variants EXCEPT ![e] = Append(@,
                        [value |-> v, reads |-> Top(c).reads, entry |-> Top(c).entry])]
    /\ gate' = [gate EXCEPT ![e] = Nobody]
    /\ stack' = [stack EXCEPT ![c] = Resumed(Tail(@), v, Top(c).reads)]
    /\ UNCHANGED <<bound, calls, failures>>

(* A body panics, or the caller's future is dropped. *)
Fail(c) ==
    /\ stack[c] # << >>
    /\ failures < MaxFailures /\ failures' = failures + 1
    /\ Unwind(c)
    /\ UNCHANGED <<bound, variants, calls>>

-----------------------------------------------------------------------------
BodyStep(c) ==
    \/ \E t \in Types : Read(c, t)
    \/ \E t \in Types, v \in Values : With(c, t, v)
    \/ Back(c)
    \/ \E e \in Entries : Nested(c, e)
    \/ \E v \in Values : Return(c, v)

CallerStep(c) ==
    \/ \E i \in 1..Len(variants[Top(c).entryOf]) : Hit(c, i) \/ HitAtGate(c, i)
    \/ Miss(c) \/ PanicRecursive(c) \/ Enter(c)
    \/ BodyStep(c)

Next ==
    \E c \in Callers :
        \/ \E e \in Entries, scope \in RootScopes : Call(c, e, scope)
        \/ stack[c] # << >> /\ CallerStep(c)
        \/ Fail(c)

Spec == Init /\ [][Next]_vars

(* Every thread and every task gets its turns.  Nobody has to call, and    *)
(* nothing has to fail.                                                    *)
Fairness == \A c \in Callers : WF_vars(stack[c] # << >> /\ CallerStep(c))

FairSpec == Spec /\ Fairness

-----------------------------------------------------------------------------
(* The reference: what a body returns when nothing is cached.  A cold run  *)
(* stands at the values its handle has `now`, of which it started from     *)
(* `vals`, and has `seen` what it has; every call in it is cold as well.   *)

Known == Values \cup {NoValue}
Context == [Types -> Known]
ColdRuns == [entry : Entries, vals : Context, now : Context, seen : Seq(Known)]

ColdStart(e, vals) == [entry |-> e, vals |-> vals, now |-> vals, seen |-> << >>]

GoesOnFrom(run, now, value) == [run EXCEPT !.now = now, !.seen = Append(@, value)]

(* The result of a run, if `result` is that of the runs it comes to next:  *)
(* NoValue when there is none.                                             *)
ColdStep(result, run) ==
    LET next == Body(run.entry, run.seen) IN
    CASE next \in {ReadOp(t) : t \in Types} ->
             result[GoesOnFrom(run, run.now, run.now[next.type])]
      [] next \in {WithOp(t, v) : t \in Types, v \in Values} ->
             result[GoesOnFrom(run, [run.now EXCEPT ![next.type] = next.value], NoValue)]
      [] next = BackOp -> result[GoesOnFrom(run, run.vals, NoValue)]
      [] next \in {CallOp(e) : e \in Entries} ->
             LET inner == result[ColdStart(next.entry, run.now)]
             IN  IF inner = NoValue THEN NoValue
                 ELSE result[GoesOnFrom(run, run.now, inner)]
      [] next \in {ReturnOp(v) : v \in Values} -> next.value
      [] OTHER -> NoValue

(* The result of each run that ends within n steps, and NoValue for the    *)
(* others.                                                                 *)
Cold[n \in Nat] ==
    IF n = 0 THEN [run \in ColdRuns |-> NoValue]
    ELSE [run \in ColdRuns |-> ColdStep(Cold[n - 1], run)]

-----------------------------------------------------------------------------
(* Properties *)

ReadSet == [type : Types, id : 0..Len(bound)]
Frames ==
    [entryOf : Entries, entry : Scopes(Len(bound)), scope : Scopes(Len(bound)),
     seen : Seq(Values \cup {NoValue}), reads : SUBSET ReadSet,
     at : {"lookup", "gate", "body"}]
VariantSet ==
    [value : Values, reads : SUBSET ReadSet, entry : Scopes(Len(bound))]

(* Type correctness: above all, a scope or a read never names a binding    *)
(* that was not registered.                                                *)
TypeOK ==
    /\ bound \in Seq(Values)
    /\ variants \in [Entries -> Seq(VariantSet)]
    /\ gate \in [Entries -> Callers \cup {Nobody}]
    /\ stack \in [Callers -> Seq(Frames)]
    /\ calls \in 0..MaxCalls /\ failures \in 0..MaxFailures

(* The body runs at most once for a set of observed bindings: the variants *)
(* of an entry were computed in scopes that no earlier variant fitted, and *)
(* each fits the scope it was computed in, so that the caller who paid for *)
(* it finds it again.                                                      *)
RunsOncePerBindings ==
    \A e \in Entries : \A j \in 1..Len(variants[e]) : \A i \in 1..j :
        Matches(variants[e][i].reads, variants[e][j].entry) <=> i = j

(* A cached result is what the body would return in every scope that would *)
(* be given it, also in those nobody has called from.                      *)
CachedValuesAreRight ==
    \A e \in Entries : \A i \in 1..Len(variants[e]) : \A scope \in Scopes(Len(bound)) :
        Matches(variants[e][i].reads, scope) =>
            LET vals == [t \in Types |-> ValueOf(scope[t])]
            IN  Cold[ColdSteps][ColdStart(e, vals)] \in {variants[e][i].value, NoValue}

(* One computation of an entry at a time, by the caller that holds its     *)
(* gate: concurrent callers share it instead of repeating it.              *)
OneComputation ==
    \A c \in Callers : \A k \in 1..Len(stack[c]) :
        stack[c][k].at = "body" =>
            /\ gate[stack[c][k].entryOf] = c
            /\ \A m \in 1..Len(stack[c]) :
                   stack[c][m].at = "body" /\ stack[c][m].entryOf = stack[c][k].entryOf
                       => m = k

(* Whether c waits at a gate that d holds. *)
WaitsFor(c, d) ==
    TopIs(c, "gate") /\ gate[Top(c).entryOf] = d

(* Recursion with identical arguments panics, so that it does not surface  *)
(* as a hang: no two callers wait for the gates of each other.             *)
NobodyWaitsInCircle ==
    \A c, d \in Callers : ~(WaitsFor(c, d) /\ WaitsFor(d, c))

(* Every call comes to an end, also after other calls of the same entry    *)
(* panicked or were cancelled half way.                                    *)
CallsReturn ==
    \A c \in Callers : stack[c] # << >> ~> stack[c] = << >>
=============================================================================
