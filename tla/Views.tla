-------------------------------- MODULE Views --------------------------------
(****************************************************************************)
(* A view that streams: how the nodes of a page are polled for their first  *)
(* content and for the swaps that follow, what each kind of node makes of   *)
(* the replies of its children, and what the browser makes of the stream.   *)
(*                                                                          *)
(* A page is a template: a sequence of nodes, the first one the root.       *)
(* Content is a sequence of tokens: a text, a marker of a live region, or a *)
(* hoisted part.  A poll walks the tree: a node is asked, runs its own code *)
(* and asks its children, and replies to its parent.  Futures become ready  *)
(* at any time, during a poll too.                                          *)
(****************************************************************************)
EXTENDS Integers, Sequences, SequencesExt, FiniteSets

CONSTANTS
    Templates,   \* the pages that are rendered
    Outcomes     \* how the futures that pages await can end: "ok" or an error

VARIABLES
    template,    \* the page of this request
    outcome,     \* event -> "none" until its future is ready, then how it ended
    poll,        \* where the poll is: which node it asks, runs or has a reply of
    reply,       \* that reply
    asked,       \* node -> its turn in the protocol, and its build
    node,        \* node -> the state of its own code
    kept,        \* node -> what the list around it keeps of it
    parts,       \* node -> the parts hoisted in it
    collecting,  \* the node that collects the hoisted parts
    build,       \* the build whose buffer content is added to
    misplaced,   \* content was put into a build that it does not belong to
    registered,  \* the events that wake the task
    woken,       \* the task of the response has been woken and is to poll
    phase,       \* of the response: first, body, ended, redirected, failed
    page,        \* what the browser shows
    shown        \* the texts it has shown so far (for checking only)

turnVars == <<poll, reply, asked, node, build, misplaced>>
hoistVars == <<collecting, parts>>
taskVars == <<registered, woken>>
pageVars == <<phase, page, shown>>
vars == <<template, outcome, turnVars, kept, hoistVars, taskVars, pageVars>>

Nodes == DOMAIN template
Steps(d, op) == {x \in Range(d.steps) : x.op = op}

\* A future that is pending once and ready when it is polled again.
Yield == "yield"
Awaited(d) == CASE d.kind = "live" -> {x.event : x \in Steps(d, "await")}
                [] d.kind = "then" -> {d.event}
                [] OTHER -> {}
Events == (UNION {Awaited(template[n]) : n \in Nodes}) \ {Yield}

Lists == {"join", "loop"}
KidsOf(d) ==
    CASE d.kind \in Lists -> Range(d.kids)
      [] d.kind = "live" -> {x.kid : x \in Steps(d, "emit")}
      [] d.kind \in {"suspense", "boundary"} -> {d.kid, d.fallback}
      [] d.kind \in {"then", "hoist"} -> {d.kid}
      [] d.kind = "text" -> {}
Kids(n) == KidsOf(template[n])

\* A page owns its nodes: they form a tree, numbered from the root down.
IsTree(t) ==
    /\ Len(t) \in Nat \ {0} /\ DOMAIN t = 1..Len(t)
    /\ \A n \in DOMAIN t : KidsOf(t[n]) \subseteq n + 1..Len(t)
    /\ \A m, n \in DOMAIN t : m # n => KidsOf(t[m]) \cap KidsOf(t[n]) = {}
    /\ \A n \in DOMAIN t : n # 1 => \E m \in DOMAIN t : n \in KidsOf(t[m])
\* A live body returns the token of an emission, or never.
Emits(d) == \E i \in DOMAIN d.steps :
    d.steps[i].op = "repeat" \/ (d.steps[i].op = "emit" /\ ~d.steps[i].caught)
IsNode(d) ==
    \/ d.kind \in {"text", "then", "hoist"}
    \/ d.kind \in {"suspense", "boundary"} /\ d.kid # d.fallback
    \/ d.kind \in Lists /\ d.kids \in Seq(Nat) /\ IsInjective(d.kids)
    \/ /\ d.kind = "live" /\ Emits(d)
       /\ d.steps \in Seq([op : {"emit", "await", "repeat"}, kid : Nat, caught : BOOLEAN, event : STRING])
       /\ \A i, j \in DOMAIN d.steps :
             (i # j /\ d.steps[i].op = "emit" /\ d.steps[j].op = "emit") => d.steps[i].kid # d.steps[j].kid
ASSUME TemplatesAssumption == \A t \in Templates : IsTree(t) /\ \A n \in DOMAIN t : IsNode(t[n])
ASSUME OutcomesAssumption == "none" \notin Outcomes

\* The nodes that are reached from n by `next`, which leads to later nodes.
Extended(next, n, m, before) ==
    IF \E p \in before \cup {n} : m \in next[p] THEN before \cup {m} ELSE before
Reached(next, n) ==
    LET upto[m \in 0..Len(template)] ==
            IF m = 0 THEN {} ELSE Extended(next, n, m, upto[m - 1])
    IN upto[Len(template)]
Below(n) == Reached([m \in Nodes |-> Kids(m)], n)

-----------------------------------------------------------------------------
\* Content is built in the buffer of the build it belongs to; sealed content
\* holds its own buffer and can go anywhere.

Sealed == 0
NoBuild == -1
Away == -2
Content(tokens, in) == [tokens |-> tokens, build |-> in]
NoContent == Content(<<>>, NoBuild)

\* The replies to a poll.
Reply(is, content, live, region, error) ==
    [is |-> is, content |-> content, live |-> live, region |-> region, error |-> error]
Pending == Reply("pending", NoContent, FALSE, 0, "none")
None == Reply("none", NoContent, FALSE, 0, "none")
First(c, live) == Reply("first", c, live, 0, "none")
Swap(n, c) == Reply("swap", c, FALSE, n, "none")
Failed(e) == Reply("error", NoContent, FALSE, 0, e)

\* A node before its first poll: its turn in the protocol, the build it is
\* polled in and the one that goes on when it replies;
Unasked == [turn |-> "new", home |-> Away, outer |-> Away]
\* where its own code is, and the step that has yielded; the step of a live
\* body, how far the view it emits is, what it is polled for, its first content
\* and a swap it keeps; where a scan of the children starts, how far it is and
\* whether one was pending; the node that collected parts around it;
New == [at |-> "start", yielded |-> 0,
        step |-> 1, emit |-> "first", mode |-> "first", first |-> NoContent, stash |-> <<>>,
        next |-> 0, scan |-> 0, waits |-> FALSE, around |-> Away]
\* and the content that the list around it holds, and whether it expects no more.
Empty == [held |-> <<>>, over |-> FALSE]

IsA(n, kind) == template[n].kind = kind
IsList(n) == template[n].kind \in Lists
ForFirst(n) == asked[n].turn = "new"

\* A view is polled for its first content until that comes, and for swaps after
\* that, until there are no more.  Out of turn it panics.
Asked(n) ==
    /\ poll.node = n
    /\ \/ poll.does = "first" /\ asked[n].turn = "new"
       \/ poll.does = "swap" /\ asked[n].turn = "live"
Runs(n) == poll = [does |-> "run", node |-> n]
Replied(n) == poll = [does |-> "reply", node |-> n]
Answers(k, n) == Replied(k) /\ k \in Kids(n)

\* A node goes on with its own code.
GoesOn(n, own) ==
    /\ poll' = [does |-> "run", node |-> n]
    /\ node' = [node EXCEPT ![n] = own]
    /\ UNCHANGED <<reply, asked, build, misplaced>>

\* It polls a child within the running build, or (ScopeView) with a buffer of
\* the child's own.
AsksIn(n, k, what, home, own) ==
    /\ poll' = [does |-> what, node |-> k]
    /\ node' = [node EXCEPT ![n] = own]
    /\ asked' = [asked EXCEPT ![k].home = home, ![k].outer = build]
    /\ build' = home
    /\ UNCHANGED <<reply, misplaced>>
Asks(n, k, what, own) == AsksIn(n, k, what, build, own)
AsksShared(n, k, own) == Asks(n, k, "first", own)   \* mutant: no buffer of its own
AsksSealed(n, k, own) == AsksIn(n, k, "first", k, own)

\* A block of contents is appended to the buffer of the running build, which
\* must be the one they belong to.
Fits(contents) == build # NoBuild /\ \A c \in contents : c.build \in {Sealed, build}
Block(tokens) == Content(tokens, build)
\* Mutant: content is placed without the markers of its region.
Unmarked(n, c) == Block(c.tokens)
Region(n, c) == Block(<<<<"start", n>>>> \o c.tokens \o <<<<"end", n>>>>)

TurnAfter(r, turn) ==
    CASE r.is \in {"pending", "swap"} -> turn
      [] r.is = "first" -> IF r.live THEN "live" ELSE "settled"
      [] r.is \in {"none", "error"} -> "settled"

\* A node replies.  `fits` tells whether its content was built where it belongs;
\* what was rendered with a buffer of its own is sealed with it.
Replies(n, r, fits, own) ==
    LET seals == asked[n].home = n /\ r.is = "first"
    IN /\ poll' = [does |-> "reply", node |-> n]
       /\ reply' = IF seals THEN [r EXCEPT !.content.build = Sealed] ELSE r
       /\ asked' = [asked EXCEPT ![n].turn = TurnAfter(r, @), ![n].outer = Away]
       /\ node' = [node EXCEPT ![n] = own]
       /\ build' = asked[n].outer
       /\ misplaced' = (misplaced \/ ~fits \/ (seals /\ r.content.build \notin {Sealed, n}))
Passes(n, r, own) == Replies(n, r, TRUE, own)
Builds(n, r, contents, own) == Replies(n, r, Fits(contents), own)

-----------------------------------------------------------------------------
\* The kinds of nodes.

TextAsked(n) ==
    /\ Asked(n) /\ IsA(n, "text")
    /\ Builds(n, First(Block(<<<<"text", n>>>>), FALSE), {}, node[n])
    /\ UNCHANGED <<kept, hoistVars, taskVars>>

\* A future: its outcome, and what a poll that leaves it pending does.
Await(n, e) == IF e # Yield THEN outcome[e]
               ELSE IF node[n].yielded = node[n].step THEN "ok" ELSE "none"
Left(e, own) == IF e = Yield THEN [own EXCEPT !.yielded = own.step] ELSE own
Waits(e) == IF e = Yield THEN woken' = TRUE /\ UNCHANGED registered
            ELSE registered' = registered \cup {e} /\ UNCHANGED woken

\* A component: its body hoists its part, awaits, and returns its view.
ThenAwaits(n) ==
    LET d == template[n]
        out == Await(n, d.event)
        started == [node[n] EXCEPT !.at = "await"]
    IN /\ Asked(n) /\ IsA(n, "then") /\ node[n].at # "view"
       /\ parts' = IF node[n].at = "start" /\ d.hoists
                   THEN [parts EXCEPT ![collecting] = Append(@, <<"part", n>>)] ELSE parts
       /\ \/ out = "none" /\ Passes(n, Pending, Left(d.event, started)) /\ Waits(d.event)
          \/ out = "ok" /\ Asks(n, d.kid, "first", [node[n] EXCEPT !.at = "view"]) /\ UNCHANGED taskVars
          \/ out \notin {"none", "ok"} /\ Passes(n, Failed(out), started) /\ UNCHANGED taskVars
       /\ UNCHANGED <<kept, collecting>>
ThenShows(n) ==
    /\ Asked(n) /\ IsA(n, "then") /\ node[n].at = "view"
    /\ Asks(n, template[n].kid, poll.does, node[n])
    /\ UNCHANGED <<kept, hoistVars, taskVars>>
ThenAnswered(n, k) ==
    /\ Answers(k, n) /\ IsA(n, "then")
    /\ Passes(n, reply, node[n])
    /\ UNCHANGED <<kept, hoistVars, taskVars>>

\* SuspenseView: the child is polled until it comes, and while it is pending
\* the fallback goes on; once the child has come, only the child does.
SuspenseAsked(n) ==
    /\ Asked(n) /\ IsA(n, "suspense")
    /\ \/ node[n].at = "done" /\ Passes(n, None, node[n])
       \/ node[n].at = "child" /\ Asks(n, template[n].kid, "swap", node[n])
       \/ node[n].at \in {"start", "fallback", "quiet"} /\ AsksSealed(n, template[n].kid, node[n])
    /\ UNCHANGED <<kept, hoistVars, taskVars>>
ChildAnswered(n, k) ==
    LET d == template[n]
        came == [node[n] EXCEPT !.at = IF reply.live THEN "child" ELSE "done"]
    IN /\ Answers(k, n) /\ IsA(n, "suspense") /\ k = d.kid
       /\ \/ reply.is = "first" /\ Passes(n, IF ForFirst(n) THEN reply ELSE Swap(n, reply.content), came)
          \/ reply.is = "none" /\ Passes(n, reply, [node[n] EXCEPT !.at = "done"])
          \/ reply.is \in {"swap", "error"} /\ Passes(n, reply, node[n])
          \/ /\ reply.is = "pending"
             /\ \/ ForFirst(n) /\ ~d.wait /\ Asks(n, d.fallback, "first", node[n])
                \/ node[n].at = "fallback" /\ Asks(n, d.fallback, "swap", node[n])
                \/ ((ForFirst(n) /\ d.wait) \/ node[n].at \in {"child", "quiet"}) /\ Passes(n, reply, node[n])
       /\ UNCHANGED <<kept, hoistVars, taskVars>>
FallbackAnswered(n, k) ==
    /\ Answers(k, n) /\ IsA(n, "suspense") /\ k = template[n].fallback
    /\ \/ /\ reply.is = "first"
          /\ Builds(n, First(Region(n, reply.content), TRUE), {reply.content},
                    [node[n] EXCEPT !.at = IF reply.live THEN "fallback" ELSE "quiet"])
       \/ reply.is = "none" /\ Passes(n, Pending, [node[n] EXCEPT !.at = "quiet"])
       \/ reply.is \in {"pending", "swap", "error"} /\ Passes(n, reply, node[n])
    /\ UNCHANGED <<kept, hoistVars, taskVars>>

\* JoinView and LoopView: every child is polled until all have rendered; what
\* one has rendered is held until then.
ListAsked(n) ==
    /\ Asked(n) /\ IsList(n)
    /\ GoesOn(n, [node[n] EXCEPT !.scan = 0, !.waits = FALSE])
    /\ UNCHANGED <<kept, hoistVars, taskVars>>
Seen(own) == [own EXCEPT !.scan = @ + 1]
Joined(n) ==
    LET kids == template[n].kids IN
    First(Block(FlattenSeq([i \in DOMAIN kids |-> kept[kids[i]].held[1].tokens])),
          \E k \in Kids(n) : ~kept[k].over)
ListScans(n) ==
    LET kids == template[n].kids
        k == kids[node[n].scan + 1]
    IN /\ Runs(n) /\ IsList(n) /\ ForFirst(n)
       /\ \/ /\ node[n].scan < Len(kids)
             /\ IF kept[k].held # <<>> THEN GoesOn(n, Seen(node[n])) ELSE Asks(n, k, "first", node[n])
             /\ UNCHANGED kept
          \/ /\ node[n].scan = Len(kids) /\ node[n].waits
             /\ Passes(n, Pending, node[n])
             /\ UNCHANGED kept
          \/ /\ node[n].scan = Len(kids) /\ ~node[n].waits
             /\ Builds(n, Joined(n), {kept[m].held[1] : m \in Kids(n)}, node[n])
             /\ kept' = [m \in Nodes |-> IF m \in Kids(n) THEN [kept[m] EXCEPT !.held = <<>>] ELSE kept[m]]
       /\ UNCHANGED <<hoistVars, taskVars>>

\* Mutants: the ring is not closed; the first child always comes first.
RestOfRing(n) == Len(template[n].kids) - node[n].next
SameStart(n) == 0
\* One turn around the ring, from the child after the last one that delivered.
RingLength(n) == Len(template[n].kids)
Place(n, i) == (node[n].next + i) % Len(template[n].kids)
NextStart(n) == Place(n, node[n].scan + 1)
ListTurns(n) ==
    LET k == template[n].kids[Place(n, node[n].scan) + 1]
    IN /\ Runs(n) /\ IsList(n) /\ ~ForFirst(n)
       /\ \/ /\ node[n].scan < RingLength(n)
             /\ IF kept[k].over THEN GoesOn(n, Seen(node[n])) ELSE Asks(n, k, "swap", node[n])
          \/ /\ node[n].scan >= RingLength(n)
             /\ Passes(n, IF node[n].waits THEN Pending ELSE None, node[n])
       /\ UNCHANGED <<kept, hoistVars, taskVars>>
ListAnswered(n, k) ==
    /\ Answers(k, n) /\ IsList(n)
    /\ \/ /\ reply.is = "pending"
          /\ GoesOn(n, [Seen(node[n]) EXCEPT !.waits = TRUE]) /\ UNCHANGED kept
       \/ /\ reply.is = "first"
          /\ GoesOn(n, Seen(node[n]))
          /\ kept' = [kept EXCEPT ![k] = [held |-> <<reply.content>>, over |-> ~reply.live]]
       \/ reply.is = "none" /\ GoesOn(n, Seen(node[n])) /\ kept' = [kept EXCEPT ![k].over = TRUE]
       \/ reply.is = "swap" /\ Passes(n, reply, [node[n] EXCEPT !.next = NextStart(n)]) /\ UNCHANGED kept
       \/ reply.is = "error" /\ Passes(n, reply, node[n]) /\ UNCHANGED kept
    /\ UNCHANGED <<hoistVars, taskVars>>

\* Mutant: the swap is dropped.
NoStash(r) == <<>>
Stash(r) == IF r.is = "swap" THEN <<r>> ELSE <<>>

\* LiveView: the first emission is rendered in place.  The body is polled again
\* at once to learn whether more follows, and a swap that it yields is kept.
LiveAsked(n) ==
    /\ Asked(n) /\ IsA(n, "live")
    /\ \/ node[n].stash # <<>> /\ Passes(n, node[n].stash[1], [node[n] EXCEPT !.stash = <<>>])
       \/ node[n].stash = <<>> /\ GoesOn(n, [node[n] EXCEPT !.mode = poll.does])
    /\ UNCHANGED <<kept, hoistVars, taskVars>>
Taken(own) == [own EXCEPT !.first = NoContent]
Yields(n, r, own) ==
    LET c == node[n].first IN
    IF node[n].mode # "again" THEN Passes(n, r, own)
    ELSE Builds(n, First(Region(n, c), TRUE), {c}, [Taken(own) EXCEPT !.stash = Stash(r)])

\* The body of a live region runs until it yields, waits, ends or fails.  To end
\* before it has emitted panics.
BodyRuns(n) == Runs(n) /\ IsA(n, "live")
At(n, op) == node[n].step <= Len(template[n].steps) /\ template[n].steps[node[n].step].op = op
Now(n) == template[n].steps[node[n].step]
PastStep(own) == [own EXCEPT !.step = @ + 1, !.emit = "first", !.yielded = 0]
BodyEnds(n) ==
    /\ BodyRuns(n) /\ node[n].step > Len(template[n].steps) /\ node[n].mode # "first"
    /\ IF node[n].mode = "again" THEN Passes(n, First(node[n].first, FALSE), Taken(node[n]))
       ELSE Passes(n, None, node[n])
    /\ UNCHANGED <<kept, hoistVars, taskVars>>
\* The views of the last round have been dropped.
BodyRepeats(n) ==
    LET again(f, new) == [m \in Nodes |-> IF m \in Below(n) THEN new ELSE f[m]] IN
    /\ BodyRuns(n) /\ At(n, "repeat")
    /\ node' = [again(node, New) EXCEPT ![n] = [@ EXCEPT !.step = 1, !.emit = "first", !.yielded = 0]]
    /\ asked' = again(asked, Unasked)
    /\ kept' = again(kept, Empty)
    /\ parts' = again(parts, <<>>)
    /\ UNCHANGED <<poll, reply, build, misplaced, collecting, taskVars>>
BodyAwaits(n) ==
    LET e == Now(n).event
        out == Await(n, e)
    IN /\ BodyRuns(n) /\ At(n, "await")
       /\ \/ out = "none" /\ Yields(n, Pending, Left(e, node[n])) /\ Waits(e)
          \/ out = "ok" /\ GoesOn(n, PastStep(node[n])) /\ UNCHANGED taskVars
          \/ out \notin {"none", "ok"} /\ Passes(n, Failed(out), node[n]) /\ UNCHANGED taskVars
       /\ UNCHANGED <<kept, hoistVars>>

\* EmitView: a view that comes into a region which may be shown by then.
BodyEmits(n) ==
    LET k == Now(n).kid IN
    /\ BodyRuns(n) /\ At(n, "emit")
    /\ \/ node[n].emit = "done" /\ GoesOn(n, PastStep(node[n]))
       \/ node[n].emit = "first" /\ AsksSealed(n, k, node[n])
       \/ node[n].emit = "swaps" /\ Asks(n, k, "swap", node[n])
    /\ UNCHANGED <<kept, hoistVars, taskVars>>
\* Mutant: a view that has no swaps is polled for them.
StillEmits(n) == [node[n] EXCEPT !.emit = "swaps"]
Emitted(n) == [node[n] EXCEPT !.emit = IF reply.live THEN "swaps" ELSE "done"]
BodyAnswered(n, k) ==
    LET caught == reply.is = "error" /\ Now(n).caught IN
    /\ Answers(k, n) /\ IsA(n, "live")
    /\ \/ /\ reply.is = "first" /\ node[n].mode = "first"
          /\ GoesOn(n, [Emitted(n) EXCEPT !.mode = "again", !.first = reply.content])
       \/ reply.is = "first" /\ node[n].mode # "first" /\ Yields(n, Swap(n, reply.content), Emitted(n))
       \/ (reply.is = "none" \/ caught) /\ GoesOn(n, PastStep(node[n]))
       \/ reply.is \in {"pending", "swap"} /\ Yields(n, reply, node[n])
       \/ reply.is = "error" /\ ~caught /\ Passes(n, reply, node[n])
    /\ UNCHANGED <<kept, hoistVars, taskVars>>

\* ErrorBoundaryView: a live child stands in a region, so that the fallback can
\* replace everything it has sent.
Recovers(n, own) ==
    LET f == template[n].fallback IN
    \/ ForFirst(n) /\ Asks(n, f, "first", own)
    \/ ~ForFirst(n) /\ node[n].emit = "first" /\ AsksSealed(n, f, own)
    \/ ~ForFirst(n) /\ node[n].emit = "swaps" /\ Asks(n, f, "swap", own)
    \/ ~ForFirst(n) /\ node[n].emit = "done" /\ Passes(n, None, own)
BoundaryAsked(n) ==
    /\ Asked(n) /\ IsA(n, "boundary")
    /\ \/ node[n].at = "fallback" /\ Recovers(n, node[n])
       \/ node[n].at # "fallback" /\ Asks(n, template[n].kid, poll.does, node[n])
    /\ UNCHANGED <<kept, hoistVars, taskVars>>
GuardedAnswered(n, k) ==
    LET d == template[n]
        handled == reply.is = "error" /\ reply.error \in d.handles
        region == reply.is = "first" /\ reply.live
    IN /\ Answers(k, n) /\ IsA(n, "boundary") /\ k = d.kid
       /\ \/ handled /\ Recovers(n, [node[n] EXCEPT !.at = "fallback"])
          \/ region /\ Builds(n, First(Region(n, reply.content), TRUE), {reply.content}, node[n])
          \/ ~handled /\ ~region /\ Passes(n, reply, node[n])
       /\ UNCHANGED <<kept, hoistVars, taskVars>>
RecoveryAnswered(n, k) ==
    /\ Answers(k, n) /\ IsA(n, "boundary") /\ k = template[n].fallback
    /\ \/ /\ reply.is = "first"
          /\ Passes(n, IF ForFirst(n) THEN reply ELSE Swap(n, reply.content), Emitted(n))
       \/ reply.is = "none" /\ Passes(n, reply, [node[n] EXCEPT !.emit = "done"])
       \/ reply.is \in {"pending", "swap", "error"} /\ Passes(n, reply, node[n])
    /\ UNCHANGED <<kept, hoistVars, taskVars>>

\* HoistView: the body of a page, a layout or a shard collects its own parts,
\* which come before its next content: in a block of the running build, or of a
\* buffer of its own.
HoistAsked(n) ==
    /\ Asked(n) /\ IsA(n, "hoist")
    /\ Asks(n, template[n].kid, poll.does, [node[n] EXCEPT !.around = collecting])
    /\ collecting' = n
    /\ UNCHANGED <<kept, parts, taskVars>>
HoistAnswered(n, k) ==
    LET c == reply.content
        tokens == parts[n] \o c.tokens
        adds == reply.is \in {"first", "swap"} /\ parts[n] # <<>>
    IN /\ Answers(k, n) /\ IsA(n, "hoist")
       /\ \/ ~adds /\ Passes(n, reply, node[n])
          \/ adds /\ build # NoBuild /\ Builds(n, [reply EXCEPT !.content = Block(tokens)], {c}, node[n])
          \/ adds /\ build = NoBuild /\ Replies(n, [reply EXCEPT !.content = Content(tokens, Sealed)],
                                                c.build = Sealed, node[n])
       /\ parts' = IF adds THEN [parts EXCEPT ![n] = <<>>] ELSE parts
       /\ collecting' = node[n].around
       /\ UNCHANGED <<kept, taskVars>>

-----------------------------------------------------------------------------
\* The response.

Streaming == phase \in {"first", "body"}
Idle == poll.does = "idle"

Init ==
    /\ template \in Templates
    /\ outcome = [e \in Events |-> "none"]
    /\ poll = [does |-> "idle", node |-> 1] /\ reply = Pending
    /\ asked = [n \in Nodes |-> Unasked]
    /\ node = [n \in Nodes |-> New]
    /\ kept = [n \in Nodes |-> Empty]
    /\ parts = [n \in Nodes |-> <<>>] /\ collecting = 1
    /\ build = NoBuild /\ misplaced = FALSE
    /\ registered = {} /\ woken = TRUE
    /\ phase = "first" /\ page = <<>> /\ shown = {}

\* A future becomes ready and wakes the task that waits for it since its last
\* poll.
Resolve(e) ==
    /\ Streaming /\ outcome[e] = "none"
    /\ \E out \in Outcomes : outcome' = [outcome EXCEPT ![e] = out]
    /\ woken' = (woken \/ e \in registered)
    /\ UNCHANGED <<template, turnVars, kept, hoistVars, registered, pageVars>>

\* The task polls the page: before its first content, and for swaps after it.
Poll ==
    /\ Idle /\ woken /\ Streaming
    /\ woken' = FALSE /\ registered' = {}
    /\ IF phase = "first" THEN AsksSealed(1, 1, node[1]) ELSE Asks(1, 1, "swap", node[1])
    /\ UNCHANGED <<kept, hoistVars>>

Turn == \E n \in Nodes :
    \/ TextAsked(n)
    \/ ThenAwaits(n) \/ ThenShows(n)
    \/ SuspenseAsked(n)
    \/ ListAsked(n) \/ ListScans(n) \/ ListTurns(n)
    \/ LiveAsked(n) \/ BodyEnds(n) \/ BodyRepeats(n) \/ BodyAwaits(n) \/ BodyEmits(n)
    \/ BoundaryAsked(n)
    \/ HoistAsked(n)
    \/ \E k \in Kids(n) :
        \/ ThenAnswered(n, k)
        \/ ChildAnswered(n, k) \/ FallbackAnswered(n, k)
        \/ ListAnswered(n, k)
        \/ BodyAnswered(n, k)
        \/ GuardedAnswered(n, k) \/ RecoveryAnswered(n, k)
        \/ HoistAnswered(n, k)

Texts(p) == LET t == SelectSeq(p, LAMBDA x : x[1] = "text") IN [i \in DOMAIN t |-> t[i][2]]

\* The page has replied; the task is polled again unless it is to wait.
PageAnswered ==
    /\ Replied(1)
    /\ poll' = [does |-> "idle", node |-> 1]
    /\ woken' = (reply.is # "pending" \/ woken)
    /\ UNCHANGED <<template, outcome, reply, asked, node, build, misplaced, kept, hoistVars, registered>>

Respond ==
    /\ PageAnswered /\ phase = "first"
    /\ phase' = CASE reply.is = "pending" -> "first"
                  [] reply.is = "error" -> "failed"
                  [] OTHER -> IF reply.live THEN "body" ELSE "ended"
    /\ page' = IF reply.is = "first" THEN reply.content.tokens ELSE page
    /\ shown' = shown \cup Range(Texts(page'))

\* The browser puts a swap between the last markers of its region, if there are.
Shows(p, n) == {<<"start", n>>, <<"end", n>>} \subseteq Range(p)
Splice(p, n, tokens) ==
    SubSeq(p, 1, SelectLastInSeq(p, LAMBDA x : x = <<"start", n>>)) \o tokens
    \o SubSeq(p, SelectLastInSeq(p, LAMBDA x : x = <<"end", n>>), Len(p))

Stream ==
    /\ PageAnswered /\ phase = "body"
    /\ phase' = CASE reply.is = "none" -> "ended"
                  [] reply.is = "error" -> IF reply.error = "redirect" THEN "redirected" ELSE "failed"
                  [] OTHER -> "body"
    /\ page' = IF reply.is = "swap" /\ Shows(page, reply.region)
               THEN Splice(page, reply.region, reply.content.tokens) ELSE page
    /\ shown' = shown \cup Range(Texts(page'))

Step ==
    \/ (Poll \/ Turn) /\ UNCHANGED <<template, outcome, pageVars>>
    \/ Respond
    \/ Stream
Next == Step \/ \E e \in Events : Resolve(e)

\* Futures become ready, and a task that is woken is polled.
Fairness == WF_vars(Step) /\ WF_vars(\E e \in Events : Resolve(e))
Spec == Init /\ [][Next]_vars /\ Fairness

-----------------------------------------------------------------------------
\* No view is polled out of turn, which would panic or resume a future that has
\* completed, and no live body ends before it has emitted, which panics too.
PollsInTurn ==
    /\ \A n \in Nodes : poll.does \in {"first", "swap"} /\ poll.node = n => Asked(n)
    /\ \A n \in Nodes : Runs(n) /\ IsA(n, "live") /\ node[n].mode = "first" =>
          node[n].step <= Len(template[n].steps)

\* What the outermost view returns carries its own buffer, so that it can be
\* rendered after the build has ended.
SwapsAreSelfContained ==
    (Replied(1) /\ reply.is \in {"first", "swap"}) =>
        reply.content.build = Sealed

\* No content is put into a build that it does not belong to, which panics, and
\* none is left for after its build.
ContentFits == ~misplaced /\ SwapsAreSelfContained

\* The markers of the region that a swap is for are on the page, once and in
\* order, and regions do not overlap.
SwapsFindTheirRegion ==
    /\ (phase = "body" /\ Replied(1) /\ reply.is = "swap") =>
          Shows(page, reply.region)
    /\ \A i, j \in DOMAIN page : (page[i][1] \in {"start", "end"} /\ page[i] = page[j]) => i = j
    /\ \A i, j, k \in DOMAIN page :
          (page[i][1] = "start" /\ page[j] = <<"end", page[i][2]>>) =>
              /\ i < j
              /\ (page[k][1] = "start" /\ i < k /\ k < j) =>
                    \E l \in k..j : page[l] = <<"end", page[k][2]>>

\* The children that the next poll of a node asks.
AsksNext(n, k) ==
    LET d == template[n] IN
    CASE d.kind = "then" -> node[n].at = "view"
      [] d.kind = "suspense" ->
           \/ k = d.kid /\ node[n].at # "done"
           \/ k = d.fallback /\ (node[n].at = "fallback" \/ (node[n].at = "start" /\ ~d.wait))
      [] d.kind \in Lists -> IF ForFirst(n) THEN kept[k].held = <<>> ELSE ~kept[k].over
      [] d.kind = "live" -> At(n, "emit") /\ node[n].emit # "done" /\ Now(n).kid = k
      [] d.kind = "boundary" -> IF node[n].at = "fallback" THEN k = d.fallback /\ node[n].emit # "done"
                                ELSE k = d.kid
      [] OTHER -> TRUE
Current(n) == {k \in Kids(n) : AsksNext(n, k)}
Active == {1} \cup Reached([n \in Nodes |-> Current(n)], 1)

\* The node has nothing to say for itself: its own code waits for a future that
\* is not ready, or for a child.
Waiting(n) ==
    LET waits(e) == e # Yield /\ outcome[e] = "none" IN
    /\ asked[n].turn \in {"new", "live"}
    /\ CASE IsA(n, "then") /\ node[n].at # "view" -> waits(template[n].event)
         [] IsA(n, "live") -> node[n].stash = <<>> /\ (Current(n) # {} \/ (At(n, "await") /\ waits(Now(n).event)))
         [] OTHER -> Current(n) # {}

\* A task that is left asleep has nothing to find: every node that another poll
\* would come to waits for a future that is not ready.  Otherwise a future that
\* is ready waits for another one to wake the task.
NoLostWakeup == (Idle /\ Streaming /\ ~woken) => \A n \in Active : Waiting(n)
=============================================================================
