----------------------------- MODULE Navigation -----------------------------
(***************************************************************************)
(* Runtime navigation in the browser: the controller that follows links    *)
(* and history visits (render/navigation.ts) with the pages it loads early *)
(* (render/prefetch.ts).                                                   *)
(*                                                                         *)
(* A navigation is a coroutine, follow(): it waits for the head of its     *)
(* response, then takes the frames that have arrived one by one, and asks  *)
(* after every wait whether it is still the newest.  What the page does    *)
(* with the content it is given is RenderUnits.                            *)
(***************************************************************************)
EXTENDS Naturals, Sequences, FiniteSets

CONSTANTS
    Urls,           \* document URLs, without fragments, of one origin
    Home,           \* the page the browser loaded first
    Bodies,         \* values the page's signals may have
    MaxPrefetches,  \* MAX_PREFETCHES: prefetched pages kept at one time
    MaxLoading,     \* MAX_LOADING: prefetches that load at one time
    MaxRequests,    \* bound: page requests
    MaxNavigations, \* bound: navigations
    MaxBuffer       \* bound: frames of a response that wait for a reader

ASSUME NavigationAssumption ==
    /\ Home \in Urls
    /\ MaxPrefetches \in Nat \ {0} /\ MaxLoading \in Nat
    /\ MaxRequests \in Nat /\ MaxNavigations \in Nat /\ MaxBuffer \in Nat

VARIABLES
    requests,     \* every PageRequest made
    prefetches,   \* the requests the cache keeps
    navigations,  \* every follow() started; the last one is the newest
    current,      \* the request of the newest navigation, or NoRequest
    streaming,    \* the navigation whose response is awaited, or NoNavigation
    waiting,      \* the navigation whose end whenLoaded() told a unit to await
    body,         \* the values of the page's signals
    history,      \* the URLs of this document's history entries
    place,        \* the entry the browser is at: history[place] is `location`
    documentUrl,  \* the URL of the page that is shown
    shown,        \* the navigation that showed it; NoNavigation for the load
    cleared,      \* number of requests made when the cache was last cleared
    left          \* the browser loads another document: all of this ends

vars == <<requests, prefetches, navigations, current, streaming, waiting, body,
          history, place, documentUrl, shown, cleared, left>>

NoRequest == 0
NoNavigation == 0

Modes == {"push", "replace", "traverse"}

(* A request: what was asked for, what is known of the response's head,    *)
(* whether it may still be reused, how many frames wait for a reader and   *)
(* how it ended.  What a frame says is chosen when it is read.             *)
Request(url, values) ==
    [url |-> url, body |-> values, head |-> "waiting", fresh |-> TRUE,
     buffered |-> 0, end |-> "open"]

Start(request, url, mode) ==
    [request |-> request, url |-> url, mode |-> mode, at |-> "head", committed |-> FALSE]

Init ==
    /\ requests = << >> /\ prefetches = {}
    /\ navigations = << >>
    /\ current = NoRequest /\ streaming = NoNavigation /\ waiting = NoNavigation
    /\ body \in Bodies
    /\ history = <<Home>> /\ place = 1
    /\ documentUrl = Home /\ shown = NoNavigation
    /\ cleared = 0
    /\ left = FALSE

Location == history[place]

-----------------------------------------------------------------------------
(* Requests and the cache.  A definition marked "Mutant" is a wrong variant*)
(* of the one below it, used only to show which property notices it.       *)

Open(r) == r \in 1..Len(requests) /\ requests[r].end = "open"

(* abort() of the requests in S. *)
Aborted(S) ==
    [r \in 1..Len(requests) |->
        IF r \in S /\ Open(r) THEN [requests[r] EXCEPT !.end = "failed"] ELSE requests[r]]

(* Whether request r may answer a visit to url with the signals of now. *)
Reusable(r) ==
    /\ requests[r].body = body
    /\ requests[r].end # "failed"
    /\ requests[r].fresh

Cached(url) == {r \in prefetches : requests[r].url = url}

Oldest(S) == CHOOSE r \in S : \A q \in S : r <= q

NeverFull(S) == S                            \* Mutant: nothing is dropped

(* The cache with S in it, without the oldest if that is one too many. *)
WithinLimit(S) == IF Cardinality(S) > MaxPrefetches THEN S \ {Oldest(S)} ELSE S

(* The prefetches that are left may be joined by another. *)
MayLoad(kept) == Cardinality({r \in kept : Open(r)}) < MaxLoading

(* prefetch() of a link to a page that is not matched in the cache: what   *)
(* the cache has for it is dropped, and a request starts if there is room. *)
Prefetch(url) ==
    /\ ~left /\ url # Location
    /\ \A r \in Cached(url) : ~Reusable(r)
    /\ LET kept == prefetches \ Cached(url)
           new == Len(requests) + 1
       IN  \/ /\ MayLoad(kept) /\ new <= MaxRequests
              /\ prefetches' = WithinLimit(kept \cup {new})
              /\ requests' = Append(Aborted(Cached(url) \cup (kept \ prefetches')),
                                    Request(url, body))
           \/ /\ ~MayLoad(kept)
              /\ prefetches' = kept
              /\ requests' = Aborted(Cached(url))
    /\ UNCHANGED <<navigations, current, streaming, waiting, body, history, place,
                   documentUrl, shown, cleared, left>>

(* The cache drops a prefetch when its time is over. *)
Expire(r) ==
    /\ ~left /\ r \in prefetches
    /\ prefetches' = prefetches \ {r}
    /\ requests' = Aborted({r})
    /\ UNCHANGED <<navigations, current, streaming, waiting, body, history, place,
                   documentUrl, shown, cleared, left>>

(* clear() *)
Clear ==
    /\ prefetches' = {}
    /\ requests' = Aborted(prefetches)
    /\ cleared' = Len(requests)

(* The server's state may have changed, or the browser shows the document  *)
(* again from its own cache.                                               *)
Invalidate ==
    /\ ~left /\ Clear
    /\ UNCHANGED <<navigations, current, streaming, waiting, body, history, place,
                   documentUrl, shown, left>>

-----------------------------------------------------------------------------
(* The network's side of a request.                                        *)

OfRequests == <<navigations, current, streaming, waiting, body, history, place,
                documentUrl, shown, cleared, left>>

SetRequest(r, request) == requests' = [requests EXCEPT ![r] = request]

(* The head arrives.  A response without frames is canceled.               *)
HeadArrives(r) ==
    /\ ~left /\ Open(r) /\ requests[r].head = "waiting"
    /\ \/ SetRequest(r, [requests[r] EXCEPT !.head = "frames"])
       \/ SetRequest(r, [requests[r] EXCEPT !.head = "plain", !.end = "finished"])
    /\ UNCHANGED <<prefetches, OfRequests>>

(* The time the head gave the response is over, which may be at once. *)
GoesStale(r) ==
    /\ ~left /\ r \in prefetches
    /\ requests[r].head # "waiting" /\ requests[r].fresh
    /\ SetRequest(r, [requests[r] EXCEPT !.fresh = FALSE])
    /\ UNCHANGED <<prefetches, OfRequests>>

FrameArrives(r) ==
    /\ ~left /\ Open(r) /\ requests[r].head = "frames"
    /\ requests[r].buffered < MaxBuffer
    /\ SetRequest(r, [requests[r] EXCEPT !.buffered = @ + 1])
    /\ UNCHANGED <<prefetches, OfRequests>>

ResponseEnds(r) ==
    /\ ~left /\ Open(r) /\ requests[r].head = "frames"
    /\ SetRequest(r, [requests[r] EXCEPT !.end = "finished"])
    /\ UNCHANGED <<prefetches, OfRequests>>

(* The request fails, or what it buffers without a reader grows too large. *)
(* A failed request leaves the cache.                                      *)
RequestFails(r) ==
    /\ ~left /\ Open(r)
    /\ SetRequest(r, [requests[r] EXCEPT
            !.end = "failed", !.head = IF @ = "waiting" THEN "failed" ELSE @])
    /\ prefetches' = prefetches \ {r}
    /\ UNCHANGED OfRequests

(* fetch() rejects once its request was aborted. *)
FetchRejects(r) ==
    /\ ~left /\ requests[r].end = "failed" /\ requests[r].head = "waiting"
    /\ SetRequest(r, [requests[r] EXCEPT !.head = "failed"])
    /\ UNCHANGED <<prefetches, OfRequests>>

Network(r) ==
    \/ HeadArrives(r) \/ GoesStale(r) \/ FrameArrives(r) \/ ResponseEnds(r)
    \/ RequestFails(r) \/ FetchRejects(r)

-----------------------------------------------------------------------------
(* navigate().                                                             *)

(* take(): what the cache has for url, if it answers this visit. *)
Taken(url) == {r \in Cached(url) : Reusable(r)}

(* The newest navigation gives way to its successor. *)
Superseded == {current}

(* Starts a navigation after those in `before`, with a prefetch if one     *)
(* matches; one that does not is canceled.                                 *)
StartNavigation(url, mode, before) ==
    LET begin(r) == navigations' = Append(before, Start(r, url, mode)) /\ current' = r
        new == Len(requests) + 1
    IN  /\ Len(before) < MaxNavigations
        /\ streaming' = Len(before) + 1
        /\ prefetches' = prefetches \ Cached(url)
        /\ \/ /\ Taken(url) # {} /\ requests' = Aborted(Superseded)
              /\ \E r \in Taken(url) : begin(r)
           \/ /\ Taken(url) = {} /\ new <= MaxRequests
              /\ requests' = Append(Aborted(Superseded \cup Cached(url)), Request(url, body))
              /\ begin(new)

(* A click on a link. *)
Click(url) ==
    /\ ~left
    /\ StartNavigation(url, IF url = Location THEN "replace" ELSE "push", navigations)
    /\ UNCHANGED <<waiting, body, history, place, documentUrl, shown, cleared, left>>

(* The user goes back or forward; the location has changed by the time the *)
(* popstate event asks whether the page there is the one that is shown.    *)
Traverse(k) ==
    /\ ~left /\ k \in 1..Len(history) \ {place}
    /\ place' = k
    /\ \/ /\ history[k] # documentUrl
          /\ StartNavigation(history[k], "traverse", navigations)
       \/ /\ history[k] = documentUrl
          /\ UNCHANGED <<requests, prefetches, navigations, current, streaming>>
    /\ UNCHANGED <<waiting, body, history, documentUrl, shown, cleared, left>>

(* The values of the page's signals change. *)
SignalsChange ==
    /\ ~left
    /\ body' \in Bodies \ {body}
    /\ UNCHANGED <<requests, prefetches, navigations, current, streaming, waiting,
                   history, place, documentUrl, shown, cleared, left>>

(* whenLoaded(): a unit is told to wait for the response under way. *)
WhenLoaded ==
    /\ ~left /\ streaming # NoNavigation /\ waiting = NoNavigation
    /\ waiting' = streaming
    /\ UNCHANGED <<requests, prefetches, navigations, current, streaming, body,
                   history, place, documentUrl, shown, cleared, left>>

-----------------------------------------------------------------------------
(* follow().                                                               *)

Anyone(n) == TRUE                            \* Mutant: superseded ones go on

IsCurrent(n) == n = Len(navigations)

RequestOf(n) == requests[navigations[n].request]
Over(n) == [navigations EXCEPT ![n].at = "over"]

(* What `streaming` is once navigation n has ended. *)
StreamingAfter(n) == IF streaming = n THEN NoNavigation ELSE streaming

(* The unit that waits for n asks whenLoaded() again when n ends. *)
Wake(n) == waiting' = IF waiting = n THEN streaming' ELSE waiting

(* navigate() of n returns. *)
Finish(n) ==
    /\ navigations' = Over(n)
    /\ streaming' = StreamingAfter(n)
    /\ Wake(n)

(* load(): the browser is to open the page in the usual way. *)
FallBack(n) == left' = TRUE /\ Finish(n)

Page == <<body, history, place, documentUrl, shown>>

At(n, place_) == ~left /\ n \in 1..Len(navigations) /\ navigations[n].at = place_

(* The head of the response is there, or will never be. *)
FollowHead(n) ==
    /\ At(n, "head") /\ RequestOf(n).head # "waiting"
    /\ \/ ~IsCurrent(n) /\ Finish(n) /\ UNCHANGED left
       \/ IsCurrent(n) /\ RequestOf(n).head # "frames" /\ FallBack(n)
       \/ /\ IsCurrent(n) /\ RequestOf(n).head = "frames"
          /\ navigations' = [navigations EXCEPT ![n].at = "frames"]
          /\ UNCHANGED <<streaming, waiting, left>>
    /\ UNCHANGED <<requests, prefetches, current, cleared, Page>>

(* A frame is there for n to take. *)
HasFrame(n) == At(n, "frames") /\ RequestOf(n).buffered > 0

(* The requests without the frame n takes, those in S aborted. *)
Without(n, S) == [Aborted(S) EXCEPT ![navigations[n].request].buffered = @ - 1]

(* A frame for a page nobody waits for any more. *)
SupersededFrame(n) ==
    /\ HasFrame(n) /\ ~IsCurrent(n)
    /\ requests' = Without(n, {}) /\ Finish(n)
    /\ UNCHANGED <<prefetches, current, cleared, left, Page>>

KeepEntry(url) == UNCHANGED <<history, place>> \* Mutant: for back and forward

(* The entry a traversal has come to is given the URL of the page. *)
RewriteEntry(url) == history' = [history EXCEPT ![place] = url] /\ UNCHANGED place

(* The history entry of a page that is shown. *)
Record(mode, url) ==
    IF mode = "push"
    THEN history' = Append(SubSeq(history, 1, place), url) /\ place' = place + 1
    ELSE RewriteEntry(url)

KeepPrefetches ==                            \* Mutant: the cache is kept
    prefetches' = prefetches /\ cleared' = Len(requests)

DiscardPrefetches == prefetches' = {} /\ cleared' = Len(requests)

(* commit(): the first snapshot becomes the document, at the URL the       *)
(* response has after redirects.  Prefetches are discarded; signals the    *)
(* page does not declare are gone.                                         *)
Commit(n, final) ==
    /\ HasFrame(n) /\ IsCurrent(n) /\ ~navigations[n].committed
    /\ navigations' = [navigations EXCEPT ![n].committed = TRUE]
    /\ DiscardPrefetches
    /\ requests' = Without(n, prefetches \ prefetches')
    /\ Record(navigations[n].mode, final)
    /\ documentUrl' = final /\ shown' = n
    /\ body' \in Bodies
    /\ UNCHANGED <<current, streaming, waiting, left>>

(* The first snapshot needs scripts, a doctype or a base the document does *)
(* not have.                                                               *)
CannotCommit(n) ==
    /\ HasFrame(n) /\ IsCurrent(n) /\ ~navigations[n].committed
    /\ requests' = Without(n, {navigations[n].request})
    /\ FallBack(n)
    /\ UNCHANGED <<prefetches, current, cleared, Page>>

(* A swap, or another snapshot, for the page the navigation has shown; a   *)
(* swap that comes too early is ignored.                                   *)
Update(n) ==
    /\ HasFrame(n) /\ IsCurrent(n)
    /\ requests' = Without(n, {})
    /\ shown' = IF navigations[n].committed THEN n ELSE shown
    /\ UNCHANGED <<prefetches, navigations, current, streaming, waiting, body,
                   history, place, documentUrl, cleared, left>>

(* A redirect of the render, to this origin: another navigation. *)
Redirect(n, url) ==
    /\ HasFrame(n) /\ IsCurrent(n)
    /\ LET nav == navigations[n]
           mode == IF nav.committed \/ nav.mode = "traverse" THEN "replace" ELSE nav.mode
       IN  StartNavigation(url, mode, Over(n))
    /\ Wake(n)
    /\ UNCHANGED <<cleared, left, Page>>

(* To another origin. *)
RedirectAway(n) ==
    /\ HasFrame(n) /\ IsCurrent(n)
    /\ requests' = Without(n, {navigations[n].request})
    /\ FallBack(n)
    /\ UNCHANGED <<prefetches, current, cleared, Page>>

(* The navigation comes to an end with what it has shown, if anything. *)
EndsHere(n) ==
    IF navigations[n].committed THEN Finish(n) /\ UNCHANGED left ELSE FallBack(n)

ErrorFrame(n) ==
    /\ HasFrame(n) /\ IsCurrent(n)
    /\ requests' = Without(n, {})
    /\ EndsHere(n)
    /\ UNCHANGED <<prefetches, current, cleared, Page>>

(* All frames are read and there will be no other. *)
FollowEnd(n) ==
    /\ At(n, "frames") /\ RequestOf(n).buffered = 0 /\ RequestOf(n).end # "open"
    /\ \/ IsCurrent(n) /\ EndsHere(n)
       \/ ~IsCurrent(n) /\ Finish(n) /\ UNCHANGED left
    /\ UNCHANGED <<requests, prefetches, current, cleared, Page>>

Follow(n) ==
    \/ FollowHead(n) \/ SupersededFrame(n) \/ CannotCommit(n) \/ Update(n)
    \/ RedirectAway(n) \/ ErrorFrame(n) \/ FollowEnd(n)
    \/ \E url \in Urls : Commit(n, url) \/ Redirect(n, url)

-----------------------------------------------------------------------------
Next ==
    \/ \E url \in Urls : Prefetch(url) \/ Click(url)
    \/ \E k \in 1..Len(history) : Traverse(k)
    \/ \E r \in 1..Len(requests) : Network(r) \/ Expire(r)
    \/ \E n \in 1..Len(navigations) : Follow(n)
    \/ Invalidate \/ SignalsChange \/ WhenLoaded

Spec == Init /\ [][Next]_vars

-----------------------------------------------------------------------------
(* Properties *)

RequestSet ==
    [url : Urls, body : Bodies, fresh : BOOLEAN, buffered : 0..MaxBuffer,
     head : {"waiting", "frames", "plain", "failed"},
     end : {"open", "finished", "failed"}]
NavigationSet ==
    [request : 1..Len(requests), url : Urls, mode : Modes, committed : BOOLEAN,
     at : {"head", "frames", "over"}]

(* Type correctness. *)
TypeOK ==
    /\ requests \in Seq(RequestSet) /\ Len(requests) <= MaxRequests
    /\ prefetches \in SUBSET (1..Len(requests))
    /\ navigations \in Seq(NavigationSet) /\ Len(navigations) <= MaxNavigations
    /\ current \in 0..Len(requests)
    /\ {streaming, waiting, shown} \subseteq 0..Len(navigations)
    /\ body \in Bodies
    /\ history \in Seq(Urls) /\ place \in 1..Len(history)
    /\ documentUrl \in Urls
    /\ cleared \in 0..Len(requests)
    /\ left \in BOOLEAN

(* A page that was asked for earlier never replaces or updates the page of *)
(* a later navigation.                                                     *)
LaterPageStays == [][shown' >= shown]_vars

(* pending is the promise of the newest navigation for as long as that one *)
(* is under way, and null otherwise: it decides when connected renders may *)
(* start.                                                                  *)
PendingIsNewest ==
    LET n == Len(navigations)
    IN  streaming = IF n # 0 /\ navigations[n].at # "over" THEN n ELSE NoNavigation

(* A unit waits for a navigation that has yet to end: a promise that has   *)
(* settled before it was asked for again would never wake it.              *)
WaitersAreWoken ==
    waiting # NoNavigation => navigations[waiting].at # "over"

(* No page loads for nobody: a request under way is kept in the cache, or  *)
(* is the one of the newest navigation.                                    *)
NobodyLoadsInVain ==
    \A r \in 1..Len(requests) : Open(r) => r \in prefetches \/ r = current

(* The cache keeps one page for a URL, and neither its size nor the number *)
(* of pages that load for it exceeds its limit.                            *)
CacheWithinLimits ==
    /\ Cardinality(prefetches) <= MaxPrefetches
    /\ Cardinality({r \in prefetches : Open(r)}) <= MaxLoading
    /\ \A r, q \in prefetches : requests[r].url = requests[q].url => r = q

(* A navigation starts from a page rendered with the values the signals    *)
(* have now, and not before the page that is shown was committed or the    *)
(* server's state changed.                                                 *)
PagesAreFresh ==
    [][current' # current =>
        requests'[current'].body = body /\ current' > cleared]_vars

(* Once no navigation is under way, the page that is shown is the one at   *)
(* the browser's location.                                                 *)
PageMatchesLocation ==
    ~left /\ streaming = NoNavigation => documentUrl = Location

(* Going back or forward opens an existing entry: unless the server sends  *)
(* it elsewhere, no entry changes its URL.                                 *)
TraversalKeepsEntries ==
    [][\A n \in 1..Len(navigations) :
        navigations[n].mode = "traverse" /\ Commit(n, navigations[n].url)
        => history' = history]_vars

(* A superseded navigation waits for nothing the network has yet to do:    *)
(* its request is over, so it ends, and whoever waits for it finds out     *)
(* that another one is under way.                                          *)
SupersededAreAborted ==
    \A n \in 1..Len(navigations) :
        n < Len(navigations) /\ navigations[n].at # "over" => RequestOf(n).end # "open"
=============================================================================
