-------------------------- MODULE NavigationProofs --------------------------
(***************************************************************************)
(* What holds of navigation for every set of URLs, every limit of the      *)
(* cache and any number of requests and navigations.                       *)
(***************************************************************************)
EXTENDS Navigation, FiniteSetTheorems, SequenceTheorems, WellFoundedInduction, TLAPS

Newest == Len(navigations)

(* `current` is the request of the newest navigation. *)
CurrentIsNewest ==
    current = IF Newest = 0 THEN NoRequest ELSE navigations[Newest].request

(* What the cache has was asked for after it was last cleared. *)
FreshCache == \A r \in prefetches : r > cleared

(* While the browser stays, the newest navigation ends only after it has   *)
(* shown its page; once it has, and before any began, the page that is     *)
(* shown is the one at the browser's location.                             *)
PageShown ==
    ~left => /\ Newest = 0 \/ navigations[Newest].committed => documentUrl = Location
             /\ Newest # 0 /\ navigations[Newest].at = "over" => navigations[Newest].committed

Cache == CacheWithinLimits /\ FreshCache
Loads == NobodyLoadsInVain /\ SupersededAreAborted
Promise == CurrentIsNewest /\ PendingIsNewest /\ WaitersAreWoken

Inv == TypeOK /\ Cache /\ Loads /\ Promise /\ PageShown

-----------------------------------------------------------------------------
(* Sets of requests. *)

LEMMA OldestIsOne ==
  ASSUME NEW n \in Nat, NEW S \in SUBSET (1..n), S # {}
  PROVE  Oldest(S) \in S /\ \A q \in S : Oldest(S) <= q
<1> DEFINE Below == {S \cap (1..r) : r \in S}
           Smaller == StrictSubsetOrdering(1..n)
<1>1. IsWellFoundedOn(Smaller, SUBSET (1..n))
  <2>1. IsFiniteSet(1..n)
    BY FS_Interval
  <2>2. FiniteSubsetsOf(1..n) = SUBSET (1..n)
    BY <2>1, FS_FiniteSubsetsOfFinite
  <2>3. IsWellFoundedOn(Smaller, FiniteSubsetsOf(1..n))
    BY FS_StrictSubsetOrderingWellFounded
  <2> QED  BY <2>2, <2>3
<1>2. Below \subseteq SUBSET (1..n) /\ Below # {}
  OBVIOUS
<1>3. PICK least \in Below : \A other \in Below : ~(<<other, least>> \in Smaller)
  <2> HIDE DEF Below, Smaller
  <2> QED  BY <1>1, <1>2, WFMin
<1>4. PICK r \in S : least = S \cap (1..r)
  BY <1>3
<1>5. ASSUME NEW q \in S, q < r PROVE FALSE
  <2>1. S \cap (1..q) \in Below /\ S \cap (1..q) \subseteq least
    BY <1>4, <1>5
  <2>2. r \in least /\ r \notin S \cap (1..q)
    BY <1>4, <1>5
  <2>3. <<S \cap (1..q), least>> \in Smaller
    BY <1>4, <2>1, <2>2 DEF StrictSubsetOrdering
  <2> QED  BY <1>3, <2>1, <2>3
<1>6. \A q \in S : r <= q
  BY <1>5
<1> QED  BY <1>6 DEF Oldest

LEMMA Within ==
  ASSUME NEW S, IsFiniteSet(S), NEW n \in Nat, Cardinality(S) <= n,
         NEW T \in SUBSET S
  PROVE  IsFiniteSet(T) /\ Cardinality(T) <= n /\ Cardinality(T) \in Nat
<1>1. IsFiniteSet(T) /\ Cardinality(T) <= Cardinality(S)
  BY FS_Subset
<1> QED  BY <1>1, FS_CardinalityType

LEMMA RequestsAreFinite ==
  ASSUME NEW n \in Nat, NEW S \in SUBSET (1..n)
  PROVE  IsFiniteSet(S) /\ Cardinality(S) \in Nat
<1>1. IsFiniteSet(1..n)
  BY FS_Interval
<1> QED  BY <1>1, FS_Subset, FS_CardinalityType

(* The cache after a prefetch, of which there may be one too many. *)
LEMMA LimitKept ==
  ASSUME NEW n \in Nat, NEW S \in SUBSET (1..n), NEW x, x = n + 1,
         Cardinality(S) <= MaxPrefetches
  PROVE  /\ WithinLimit(S \cup {x}) \subseteq S \cup {x}
         /\ Cardinality(WithinLimit(S \cup {x})) <= MaxPrefetches
         /\ x \in WithinLimit(S \cup {x})
<1> DEFINE T == S \cup {x}
<1>1. IsFiniteSet(S) /\ Cardinality(S) \in Nat
  BY RequestsAreFinite
<1>2. IsFiniteSet(T) /\ Cardinality(T) \in Nat /\ Cardinality(T) <= Cardinality(S) + 1
  <2>1. IsFiniteSet(T) /\ Cardinality(T) \in {Cardinality(S), Cardinality(S) + 1}
    BY <1>1, FS_AddElement
  <2> HIDE DEF T
  <2> QED  BY <1>1, <2>1
<1>3. CASE Cardinality(T) > MaxPrefetches
  <2>1. Oldest(T) \in T /\ \A q \in T : Oldest(T) <= q
    <3>1. T \in SUBSET (1..(n + 1)) /\ T # {}
      OBVIOUS
    <3>2. n + 1 \in Nat
      OBVIOUS
    <3> HIDE DEF T
    <3> QED  BY <3>1, <3>2, OldestIsOne
  <2>2. Cardinality(T \ {Oldest(T)}) = Cardinality(T) - 1
    <3> HIDE DEF T
    <3> QED  BY <1>2, <2>1, FS_RemoveElement
  <2>3. WithinLimit(T) = T \ {Oldest(T)}
    BY <1>3 DEF WithinLimit
  <2>4. Cardinality(T) - 1 <= MaxPrefetches
    <3> HIDE DEF T
    <3> QED  BY <1>1, <1>2, NavigationAssumption
  <2>5. Oldest(T) # x
    <3>1. SUFFICES ASSUME Oldest(T) = x PROVE FALSE
      OBVIOUS
    <3>2. S = {}
      BY <2>1, <3>1
    <3>3. Cardinality(T) <= 1
      BY <1>1, <1>2, <3>2, FS_EmptySet
    <3> HIDE DEF T
    <3> QED  BY <1>2, <1>3, <3>3, NavigationAssumption
  <2> QED  BY <2>2, <2>3, <2>4, <2>5
<1>4. CASE ~(Cardinality(T) > MaxPrefetches)
  BY <1>2, <1>4, NavigationAssumption DEF WithinLimit
<1> QED  BY <1>3, <1>4

-----------------------------------------------------------------------------
(* Sequences of requests. *)

(* What a step may do to the requests there are. *)
OnlyProgress(old, new) ==
    /\ new \in Seq(RequestSet) /\ Len(old) <= Len(new)
    /\ \A r \in 1..Len(old) :
        /\ new[r].url = old[r].url /\ new[r].body = old[r].body
        /\ new[r].end = "open" => old[r].end = "open"

LEMMA AbortedRequests ==
  ASSUME requests \in Seq(RequestSet), NEW S
  PROVE  /\ OnlyProgress(requests, Aborted(S)) /\ Len(Aborted(S)) = Len(requests)
         /\ \A r \in 1..Len(requests) :
                /\ Aborted(S)[r].buffered = requests[r].buffered
                /\ Aborted(S)[r].end = "open" => r \notin S
<1> DEFINE n == Len(requests)
<1>1. n \in Nat /\ DOMAIN requests = 1..n /\ \A r \in 1..n : requests[r] \in RequestSet
  BY LenProperties
<1>2. Aborted(S) \in [1..n -> RequestSet]
  BY <1>1 DEF Aborted, Open, RequestSet
<1>3. Aborted(S) \in Seq(RequestSet) /\ Len(Aborted(S)) = n
  BY <1>1, <1>2
<1>4. ASSUME NEW r \in 1..n
      PROVE  /\ Aborted(S)[r].url = requests[r].url /\ Aborted(S)[r].body = requests[r].body
             /\ Aborted(S)[r].buffered = requests[r].buffered
             /\ Aborted(S)[r].end = "open" => requests[r].end = "open" /\ r \notin S
  BY <1>1, <1>4 DEF Aborted, Open, RequestSet
<1> QED  BY <1>1, <1>3, <1>4 DEF OnlyProgress

LEMMA SetRequestKeeps ==
  ASSUME requests \in Seq(RequestSet), NEW r \in 1..Len(requests), NEW q \in RequestSet,
         q.url = requests[r].url, q.body = requests[r].body,
         q.end = "open" => requests[r].end = "open", SetRequest(r, q)
  PROVE  OnlyProgress(requests, requests') /\ Len(requests') = Len(requests)
         /\ requests'[r] = q
<1>1. /\ requests' \in Seq(RequestSet) /\ Len(requests') = Len(requests)
      /\ requests'[r] = q /\ \A p \in 1..Len(requests) : p # r => requests'[p] = requests[p]
  BY ExceptSeq, LenProperties DEF SetRequest
<1> QED  BY <1>1, LenProperties DEF OnlyProgress

LEMMA AppendKeeps ==
  ASSUME NEW old \in Seq(RequestSet), NEW s, OnlyProgress(old, s), NEW q \in RequestSet
  PROVE  /\ OnlyProgress(old, Append(s, q)) /\ Len(Append(s, q)) = Len(s) + 1
         /\ Append(s, q)[Len(s) + 1] = q
         /\ \A r \in 1..Len(s) : Append(s, q)[r] = s[r]
<1>1. s \in Seq(RequestSet) /\ Len(s) \in Nat /\ Len(old) \in Nat
  BY LenProperties DEF OnlyProgress
<1>2. /\ Append(s, q) \in Seq(RequestSet) /\ Len(Append(s, q)) = Len(s) + 1
      /\ Append(s, q)[Len(s) + 1] = q
      /\ \A r \in 1..Len(s) : Append(s, q)[r] = s[r]
  BY <1>1, AppendProperties
<1> QED  BY <1>1, <1>2 DEF OnlyProgress

LEMMA WithoutKeeps ==
  ASSUME TypeOK, NEW n \in 1..Len(navigations), NEW S, RequestOf(n).buffered > 0
  PROVE  /\ OnlyProgress(requests, Without(n, S)) /\ Len(Without(n, S)) = Len(requests)
         /\ \A r \in S \cap (1..Len(requests)) : Without(n, S)[r].end # "open"
<1> DEFINE a == Aborted(S)
           r == navigations[n].request
<1>1. /\ requests \in Seq(RequestSet) /\ Len(requests) \in Nat
      /\ r \in 1..Len(requests) /\ requests[r] \in RequestSet
  <2>1. navigations[n] \in NavigationSet
    BY ElementOfSeq DEF TypeOK
  <2>2. r \in 1..Len(requests) /\ requests \in Seq(RequestSet)
    BY <2>1 DEF TypeOK, NavigationSet
  <2> QED  BY <2>2, LenProperties, ElementOfSeq
<1>2. /\ OnlyProgress(requests, a) /\ Len(a) = Len(requests)
      /\ \A p \in 1..Len(requests) : a[p].buffered = requests[p].buffered
            /\ (a[p].end = "open" => p \notin S)
  BY <1>1, AbortedRequests
<1>3. a \in Seq(RequestSet) /\ DOMAIN a = 1..Len(requests) /\ a[r] \in RequestSet
  BY <1>1, <1>2, LenProperties, ElementOfSeq DEF OnlyProgress
<1> HIDE DEF a, r
<1>4. Without(n, S) = [a EXCEPT ![r] = [a[r] EXCEPT !.buffered = a[r].buffered - 1]]
  BY DEF Without, a, r
<1>5. a[r].buffered - 1 \in 0..MaxBuffer
  BY <1>1, <1>2, NavigationAssumption DEF RequestOf, r, RequestSet
<1>6. [a[r] EXCEPT !.buffered = a[r].buffered - 1] \in RequestSet
  BY <1>3, <1>5 DEF RequestSet
<1>7. /\ Without(n, S) \in Seq(RequestSet) /\ Len(Without(n, S)) = Len(requests)
      /\ \A p \in 1..Len(requests) :
            Without(n, S)[p] = IF p = r THEN [a[r] EXCEPT !.buffered = a[r].buffered - 1] ELSE a[p]
  BY <1>1, <1>2, <1>3, <1>4, <1>6, ExceptSeq
<1>8. \A p \in 1..Len(requests) :
        /\ Without(n, S)[p].url = a[p].url /\ Without(n, S)[p].body = a[p].body
        /\ Without(n, S)[p].end = a[p].end
  BY <1>1, <1>3, <1>7 DEF RequestSet
<1> QED  BY <1>1, <1>2, <1>7, <1>8 DEF OnlyProgress

-----------------------------------------------------------------------------
(* The parts of the invariant, for steps that share what they do to them.  *)

LEMMA Lengths ==
  ASSUME TypeOK
  PROVE  /\ Len(requests) \in Nat /\ Newest \in Nat /\ Len(history) \in Nat
         /\ \A n \in 1..Newest : navigations[n] \in NavigationSet
         /\ \A r \in 1..Len(requests) : requests[r] \in RequestSet
  BY LenProperties, ElementOfSeq DEF TypeOK, Newest

(* Nothing new is in the cache, and if it was cleared it is empty. *)
LEMMA CacheShrinks ==
  ASSUME TypeOK, Cache, OnlyProgress(requests, requests'),
         prefetches' \subseteq prefetches, cleared' = cleared \/ prefetches' = {}
  PROVE  Cache'
<1>1. Len(requests) \in Nat /\ Len(requests') \in Nat /\ prefetches \subseteq 1..Len(requests)
  BY LenProperties DEF TypeOK, OnlyProgress
<1>2. Cardinality(prefetches') <= MaxPrefetches
  BY <1>1, RequestsAreFinite, Within, NavigationAssumption DEF Cache, CacheWithinLimits
<1>3. {r \in prefetches' : Open(r)'} \subseteq {r \in prefetches : Open(r)}
  BY <1>1 DEF OnlyProgress, Open
<1>4. Cardinality({r \in prefetches' : Open(r)'}) <= MaxLoading
  <2> DEFINE loading == {r \in prefetches : Open(r)}
  <2>1. IsFiniteSet(loading) /\ Cardinality(loading) <= MaxLoading
    BY <1>1, RequestsAreFinite DEF Cache, CacheWithinLimits
  <2> HIDE DEF loading
  <2>2. {r \in prefetches' : Open(r)'} \subseteq loading
    BY <1>3 DEF loading
  <2> QED  BY <2>1, <2>2, Within, NavigationAssumption
<1>5. \A r, q \in prefetches' : requests'[r].url = requests'[q].url => r = q
  BY <1>1 DEF OnlyProgress, Cache, CacheWithinLimits
<1>6. FreshCache'
  BY DEF Cache, FreshCache
<1> QED  BY <1>2, <1>4, <1>5, <1>6 DEF Cache, CacheWithinLimits

(* A request that loads is in the cache, or was not there before. *)
Tidy ==
    /\ OnlyProgress(requests, requests') /\ Len(requests') <= MaxRequests
    /\ prefetches' \subseteq 1..Len(requests')
    /\ \A r \in 1..Len(requests') :
        requests'[r].end = "open" =>
            r \in prefetches' \/ (r <= Len(requests) /\ r \notin prefetches)

(* The navigations there are, some of them further. *)
Further(old, new) ==
    /\ Len(new) = Len(old)
    /\ \A n \in 1..Len(old) :
        /\ new[n].request = old[n].request
        /\ new[n].at # "over" => old[n].at # "over"

LEMMA LoadsStay ==
  ASSUME TypeOK, Loads, Tidy, Further(navigations, navigations'), current' = current
  PROVE  Loads'
<1>1. Len(requests) \in Nat /\ Len(requests') \in Nat /\ Newest \in Nat
      /\ \A n \in 1..Newest : navigations[n].request \in 1..Len(requests)
  BY Lengths, LenProperties DEF Tidy, OnlyProgress, NavigationSet
<1>2. NobodyLoadsInVain'
  BY <1>1 DEF Tidy, OnlyProgress, Loads, NobodyLoadsInVain, Open
<1>3. SupersededAreAborted'
  <2> SUFFICES ASSUME NEW n \in 1..Newest, n < Newest, navigations'[n].at # "over"
               PROVE  requests'[navigations'[n].request].end # "open"
    BY DEF SupersededAreAborted, RequestOf, Further, Newest
  <2>1. requests[navigations[n].request].end # "open"
    BY DEF Loads, SupersededAreAborted, RequestOf, Further, Newest
  <2> QED  BY <1>1, <2>1 DEF Tidy, OnlyProgress, Further, Newest
<1> QED  BY <1>2, <1>3 DEF Loads

LEMMA TypedNavigations ==
  ASSUME Len(requests) \in Nat, Len(requests') \in Nat, Len(requests) <= Len(requests')
  PROVE  NavigationSet \subseteq NavigationSet'
  BY DEF NavigationSet

(* Steps that leave the navigations alone. *)
LEMMA Quiet ==
  ASSUME Inv, Tidy, Cache', UNCHANGED <<navigations, current, streaming, history, documentUrl, left>>,
         waiting' \in {waiting, streaming}, body' \in Bodies, shown' \in 0..Newest,
         cleared' \in 0..Len(requests'), place' \in 1..Len(history),
         place' = place \/ history[place'] = documentUrl
  PROVE  Inv'
<1> USE DEF Inv
<1>1. Len(requests) \in Nat /\ Len(requests') \in Nat /\ Len(requests) <= Len(requests')
  BY LenProperties DEF TypeOK, Tidy, OnlyProgress
<1>2. TypeOK'
  <2>1. navigations \in Seq(NavigationSet')
    BY <1>1, TypedNavigations, SeqMonotonic DEF TypeOK
  <2> QED  BY <1>1, <2>1 DEF TypeOK, Tidy, OnlyProgress, Newest
<1>3. Loads'
  BY LoadsStay DEF Further
<1>4. Promise'
  BY Lengths DEF Promise, CurrentIsNewest, PendingIsNewest, WaitersAreWoken, Newest,
     NoNavigation, TypeOK
<1>5. PageShown'
  BY DEF PageShown, Newest, Location
<1> QED  BY <1>2, <1>3, <1>4, <1>5

(* A navigation that ends has shown its page, or has given way, or leaves. *)
LEMMA EndKeepsPromise ==
  ASSUME Inv, NEW n \in 1..Newest, navigations[n].at # "over", Finish(n), current' = current
  PROVE  /\ Promise' /\ Further(navigations, navigations')
         /\ navigations' \in Seq(NavigationSet)
         /\ {streaming', waiting'} \subseteq 0..Newest
         /\ \A m \in 1..Newest :
                /\ navigations'[m].committed = navigations[m].committed
                /\ m # n => navigations'[m] = navigations[m]
         /\ navigations'[n].at = "over"
<1> DEFINE end == [navigations[n] EXCEPT !.at = "over"]
<1>1. /\ Newest \in Nat /\ navigations \in Seq(NavigationSet)
      /\ \A m \in 1..Newest : navigations[m] \in NavigationSet
      /\ streaming \in 0..Newest /\ waiting \in 0..Newest
  BY Lengths DEF Inv, TypeOK, Newest
<1>2. end \in NavigationSet /\ end.at = "over"
      /\ end.request = navigations[n].request /\ end.committed = navigations[n].committed
  BY <1>1 DEF NavigationSet
<1>3. navigations' = [navigations EXCEPT ![n] = end]
  BY DEF Finish, Over
<1> HIDE DEF end
<1>4. /\ navigations' \in Seq(NavigationSet) /\ Len(navigations') = Newest
      /\ \A m \in 1..Newest : navigations'[m] = IF m = n THEN end ELSE navigations[m]
  BY <1>1, <1>2, <1>3, ExceptSeq, SMTT(30) DEF Newest
<1>5. Further(navigations, navigations')
  BY <1>2, <1>4 DEF Further, Newest
<1>6. CurrentIsNewest'
  BY <1>1, <1>2, <1>4 DEF Inv, Promise, CurrentIsNewest, Newest
<1>7. streaming' = IF streaming = n THEN NoNavigation ELSE streaming
  BY DEF Finish, StreamingAfter
<1>8. waiting' = IF waiting = n THEN streaming' ELSE waiting
  BY DEF Finish, Wake
<1>9. PendingIsNewest'
  BY <1>1, <1>2, <1>4, <1>7 DEF Inv, Promise, PendingIsNewest, Newest, NoNavigation
<1>10. WaitersAreWoken'
  BY <1>1, <1>2, <1>4, <1>7, <1>8
     DEF Inv, Promise, PendingIsNewest, WaitersAreWoken, Newest, NoNavigation
<1>11. {streaming', waiting'} \subseteq 0..Newest
  BY <1>1, <1>7, <1>8 DEF NoNavigation
<1> QED  BY <1>2, <1>4, <1>5, <1>6, <1>9, <1>10, <1>11 DEF Promise

LEMMA Ends ==
  ASSUME Inv, NEW n \in 1..Newest, navigations[n].at # "over", Finish(n),
         OnlyProgress(requests, requests'), Len(requests') = Len(requests),
         UNCHANGED <<prefetches, current, cleared, Page>>,
         left' = TRUE \/ (left' = left /\ (n = Newest => navigations[n].committed))
  PROVE  Inv'
<1>1. /\ Len(requests) \in Nat /\ Newest \in Nat
      /\ prefetches \subseteq 1..Len(requests) /\ Len(requests) <= MaxRequests
  BY Lengths DEF Inv, TypeOK
<1>2. Tidy
  BY <1>1 DEF Tidy
<1>3. /\ Promise' /\ Further(navigations, navigations')
      /\ navigations' \in Seq(NavigationSet)
      /\ {streaming', waiting'} \subseteq 0..Newest
      /\ \A m \in 1..Newest :
             /\ navigations'[m].committed = navigations[m].committed
             /\ m # n => navigations'[m] = navigations[m]
      /\ navigations'[n].at = "over"
  BY EndKeepsPromise
<1>4. TypeOK'
  BY <1>1, <1>3 DEF Inv, TypeOK, Page, NavigationSet, OnlyProgress, Further, Newest
<1>5. Cache'
  BY CacheShrinks DEF Inv
<1>6. Loads'
  BY <1>2, <1>3, LoadsStay DEF Inv
<1>7. PageShown'
  BY <1>1, <1>3 DEF Inv, PageShown, Page, Newest, Further, Location
<1> QED  BY <1>3, <1>4, <1>5, <1>6, <1>7 DEF Inv

(* A new navigation, whether the cache had its page or not. *)
LEMMA StartGives ==
  ASSUME Inv, NEW url \in Urls, NEW mode \in Modes, NEW before \in Seq(NavigationSet),
         Further(navigations, before), StartNavigation(url, mode, before)
  PROVE  /\ OnlyProgress(requests, requests') /\ Len(requests') <= MaxRequests
         /\ prefetches' \subseteq prefetches
         /\ current' \in 1..Len(requests')
         /\ navigations' = Append(before, Start(current', url, mode))
         /\ streaming' = Newest + 1 /\ Newest < MaxNavigations
         /\ requests'[current'].body = body /\ current' > cleared
         /\ current # NoRequest => requests'[current].end # "open"
         /\ NobodyLoadsInVain'
<1> DEFINE new == Len(requests) + 1
<1>1. /\ requests \in Seq(RequestSet) /\ Len(requests) \in Nat /\ Newest \in Nat
      /\ prefetches \subseteq 1..Len(requests) /\ current \in 0..Len(requests)
      /\ Len(requests) <= MaxRequests /\ body \in Bodies /\ cleared \in 0..Len(requests)
  BY Lengths DEF Inv, TypeOK
<1>2. /\ prefetches' = prefetches \ Cached(url)
      /\ streaming' = Newest + 1 /\ Newest < MaxNavigations
  BY DEF StartNavigation, Further, Newest
<1>3. CASE Taken(url) # {}
  <2>1. PICK r \in Taken(url) :
            /\ requests' = Aborted(Superseded)
            /\ navigations' = Append(before, Start(r, url, mode)) /\ current' = r
    BY <1>1, <1>3 DEF StartNavigation
  <2>2. /\ r \in prefetches /\ r \in 1..Len(requests) /\ requests[r].url = url
        /\ requests[r].body = body /\ r > cleared
    BY <1>1 DEF Taken, Cached, Reusable, Inv, Cache, FreshCache
  <2>3. /\ OnlyProgress(requests, requests') /\ Len(requests') = Len(requests)
        /\ \A q \in 1..Len(requests) : requests'[q].end = "open" => q # current
    BY <1>1, <2>1, AbortedRequests DEF Superseded
  <2>4. NobodyLoadsInVain'
    <3> SUFFICES ASSUME NEW q \in 1..Len(requests), requests'[q].end = "open"
                 PROVE  q \in prefetches' \/ q = r
      BY <2>1, <2>3 DEF NobodyLoadsInVain, Open
    <3>1. q \in prefetches
      BY <2>3 DEF OnlyProgress, Inv, Loads, NobodyLoadsInVain, Open
    <3>2. q \in Cached(url) => q = r
      BY <2>2 DEF Cached, Inv, Cache, CacheWithinLimits
    <3> QED  BY <1>2, <3>1, <3>2
  <2> QED  BY <1>1, <1>2, <2>1, <2>2, <2>3, <2>4 DEF OnlyProgress, NoRequest
<1>4. CASE Taken(url) = {}
  <2> DEFINE old == Aborted(Superseded \cup Cached(url))
             asked == Request(url, body)
  <2>1. /\ new <= MaxRequests /\ requests' = Append(old, asked)
        /\ navigations' = Append(before, Start(new, url, mode)) /\ current' = new
    BY <1>4 DEF StartNavigation
  <2>2. /\ OnlyProgress(requests, old) /\ Len(old) = Len(requests)
        /\ \A q \in 1..Len(requests) :
              old[q].end = "open" => q # current /\ q \notin Cached(url)
    BY <1>1, AbortedRequests DEF Superseded
  <2>3. asked \in RequestSet /\ asked.body = body
    BY <1>1, NavigationAssumption DEF Request, RequestSet
  <2> HIDE DEF old, asked
  <2>4. /\ OnlyProgress(requests, requests') /\ Len(requests') = new
        /\ requests'[new] = asked
        /\ \A q \in 1..Len(requests) : requests'[q] = old[q]
    BY <1>1, <2>1, <2>2, <2>3, AppendKeeps
  <2>5. NobodyLoadsInVain'
    <3> SUFFICES ASSUME NEW q \in 1..Len(requests), requests'[q].end = "open"
                 PROVE  q \in prefetches'
      BY <1>1, <2>1, <2>4 DEF NobodyLoadsInVain, Open
    <3>1. q # current /\ q \notin Cached(url) /\ requests[q].end = "open"
      BY <2>2, <2>4 DEF OnlyProgress
    <3> QED  BY <1>2, <3>1 DEF Inv, Loads, NobodyLoadsInVain, Open
  <2> QED  BY <1>1, <1>2, <2>1, <2>2, <2>3, <2>4, <2>5 DEF NoRequest
<1> QED  BY <1>3, <1>4

LEMMA Starts ==
  ASSUME Inv, NEW url \in Urls, NEW mode \in Modes, NEW before \in Seq(NavigationSet),
         Further(navigations, before), StartNavigation(url, mode, before),
         waiting' = streaming'
            \/ (waiting' = waiting /\ (waiting # NoNavigation => before[waiting].at # "over")),
         UNCHANGED <<body, history, documentUrl, shown, cleared, left>>,
         place' \in 1..Len(history)
  PROVE  Inv'
<1> DEFINE begun == Start(current', url, mode)
<1>1. /\ OnlyProgress(requests, requests') /\ Len(requests') <= MaxRequests
      /\ prefetches' \subseteq prefetches
      /\ current' \in 1..Len(requests')
      /\ navigations' = Append(before, begun)
      /\ streaming' = Newest + 1 /\ Newest < MaxNavigations
      /\ current # NoRequest => requests'[current].end # "open"
      /\ NobodyLoadsInVain'
  BY StartGives
<1>2. /\ Len(requests) \in Nat /\ Len(requests') \in Nat /\ Len(requests) <= Len(requests')
      /\ Newest \in Nat /\ prefetches \subseteq 1..Len(requests)
  BY <1>1, Lengths, LenProperties DEF OnlyProgress, Inv, TypeOK
<1>3. before \in Seq(NavigationSet')
  BY <1>2, TypedNavigations, SeqMonotonic
<1>4. /\ begun \in NavigationSet' /\ begun.request = current' /\ begun.at = "head"
      /\ begun.committed = FALSE
  BY <1>1 DEF Start, NavigationSet
<1> HIDE DEF begun
<1>5. /\ navigations' \in Seq(NavigationSet') /\ Len(navigations') = Newest + 1
      /\ navigations'[Newest + 1] = begun
      /\ \A n \in 1..Newest : navigations'[n] = before[n]
  <2>1. Len(before) = Newest
    BY DEF Further, Newest
  <2> QED  BY <1>1, <1>2, <1>3, <1>4, <2>1, AppendProperties
<1>6. TypeOK'
  <2>1. {streaming', waiting', shown'} \subseteq 0..Len(navigations')
    BY <1>1, <1>2, <1>5 DEF Inv, TypeOK, Newest
  <2>2. Len(navigations') <= MaxNavigations
    BY <1>1, <1>2, <1>5, NavigationAssumption
  <2>3. prefetches' \in SUBSET (1..Len(requests')) /\ cleared' \in 0..Len(requests')
    BY <1>1, <1>2 DEF Inv, TypeOK
  <2> QED  BY <1>1, <1>5, <2>1, <2>2, <2>3 DEF Inv, TypeOK, OnlyProgress
<1>7. Cache'
  BY <1>1, CacheShrinks DEF Inv
<1>8. Promise'
  <2>1. CurrentIsNewest'
    BY <1>2, <1>4, <1>5 DEF CurrentIsNewest, Newest
  <2>2. PendingIsNewest'
    BY <1>1, <1>2, <1>4, <1>5 DEF PendingIsNewest, Newest
  <2>3. WaitersAreWoken'
    <3>1. waiting \in 0..Newest
      BY DEF Inv, TypeOK, Newest
    <3> QED  BY <1>1, <1>2, <1>4, <1>5, <3>1 DEF WaitersAreWoken, NoNavigation
  <2> QED  BY <2>1, <2>2, <2>3 DEF Promise
<1>9. SupersededAreAborted'
  <2> SUFFICES ASSUME NEW n \in 1..Newest, before[n].at # "over"
               PROVE  requests'[before[n].request].end # "open"
    BY <1>2, <1>5 DEF SupersededAreAborted, RequestOf
  <2>1. /\ before[n].request = navigations[n].request /\ navigations[n].at # "over"
        /\ navigations[n].request \in 1..Len(requests)
    BY Lengths DEF Further, Newest, NavigationSet, Inv
  <2>2. CASE n = Newest
    BY <1>1, <2>1, <2>2, <1>2 DEF Inv, Promise, CurrentIsNewest, NoRequest
  <2>3. CASE n # Newest
    <3>1. requests[navigations[n].request].end # "open"
      BY <1>2, <2>1, <2>3 DEF Inv, Loads, SupersededAreAborted, RequestOf, Newest
    <3> QED  BY <1>1, <2>1, <3>1 DEF OnlyProgress
  <2> QED  BY <2>2, <2>3
<1>10. PageShown'
  BY <1>2, <1>4, <1>5 DEF PageShown, Newest
<1> QED  BY <1>1, <1>6, <1>7, <1>8, <1>9, <1>10 DEF Inv, Loads

-----------------------------------------------------------------------------
(* The actions. *)

LEMMA PrefetchKeeps ==
  ASSUME Inv, NEW url \in Urls, Prefetch(url)
  PROVE  Inv'
<1> DEFINE kept == prefetches \ Cached(url)
           new == Len(requests) + 1
           loading == {r \in kept : Open(r)}
<1>1. /\ requests \in Seq(RequestSet) /\ Len(requests) \in Nat /\ Newest \in Nat
      /\ prefetches \subseteq 1..Len(requests) /\ kept \subseteq prefetches
      /\ Len(requests) <= MaxRequests /\ body \in Bodies /\ cleared \in 0..Len(requests)
  BY Lengths DEF Inv, TypeOK
<1>2. UNCHANGED <<navigations, current, streaming, waiting, body, history, place,
                  documentUrl, shown, cleared, left>>
  BY DEF Prefetch
<1>3. CASE /\ MayLoad(kept) /\ new <= MaxRequests
           /\ prefetches' = WithinLimit(kept \cup {new})
           /\ requests' = Append(Aborted(Cached(url) \cup (kept \ prefetches')),
                                 Request(url, body))
  <2> DEFINE old == Aborted(Cached(url) \cup (kept \ prefetches'))
             asked == Request(url, body)
  <2>1. /\ OnlyProgress(requests, old) /\ Len(old) = Len(requests)
        /\ \A q \in 1..Len(requests) :
              old[q].end = "open" => q \notin Cached(url) /\ q \notin kept \ prefetches'
    BY <1>1, AbortedRequests
  <2>2. asked \in RequestSet /\ asked.url = url
    BY <1>1, NavigationAssumption DEF Request, RequestSet
  <2>3. requests' = Append(old, asked)
    BY <1>3
  <2> HIDE DEF old, asked
  <2>4. /\ OnlyProgress(requests, requests') /\ Len(requests') = new
        /\ requests'[new] = asked
        /\ \A q \in 1..Len(requests) : requests'[q] = old[q]
    BY <1>1, <2>1, <2>2, <2>3, AppendKeeps
  <2>5. /\ prefetches' \subseteq kept \cup {new} /\ new \in prefetches'
        /\ Cardinality(prefetches') <= MaxPrefetches
    <3>1. kept \in SUBSET (1..Len(requests)) /\ Cardinality(kept) <= MaxPrefetches
      BY <1>1, RequestsAreFinite, Within, NavigationAssumption DEF Inv, Cache, CacheWithinLimits
    <3> HIDE DEF kept
    <3> QED  BY <1>1, <1>3, <3>1, LimitKept
  <2>6. Tidy
    <3>1. prefetches' \subseteq 1..Len(requests')
      BY <1>1, <2>4, <2>5
    <3>2. ASSUME NEW q \in 1..Len(requests'), requests'[q].end = "open"
          PROVE  q \in prefetches' \/ (q <= Len(requests) /\ q \notin prefetches)
      BY <1>1, <2>1, <2>4, <2>5, <3>2
    <3> QED  BY <1>3, <2>4, <3>1, <3>2 DEF Tidy
  <2>7. Cardinality({r \in prefetches' : Open(r)'}) <= MaxLoading
    <3>1. loading \in SUBSET (1..Len(requests)) /\ Cardinality(loading) < MaxLoading
      BY <1>1, <1>3 DEF MayLoad
    <3>2. {r \in prefetches' : Open(r)'} \subseteq loading \cup {new}
      BY <1>1, <2>4, <2>5 DEF Open, OnlyProgress
    <3> HIDE DEF loading
    <3>3. IsFiniteSet(loading) /\ Cardinality(loading) \in Nat
      BY <1>1, <3>1, RequestsAreFinite
    <3>4. IsFiniteSet(loading \cup {new}) /\ Cardinality(loading \cup {new}) <= MaxLoading
      <4>1. /\ IsFiniteSet(loading \cup {new})
            /\ Cardinality(loading \cup {new}) \in {Cardinality(loading), Cardinality(loading) + 1}
        BY <3>3, FS_AddElement
      <4> QED  BY <3>1, <3>3, <4>1, NavigationAssumption
    <3> QED  BY <3>2, <3>4, Within, NavigationAssumption
  <2>8. \A r, q \in prefetches' : requests'[r].url = requests'[q].url => r = q
    <3>1. \A r \in kept : requests'[r].url = requests[r].url /\ requests[r].url # url
      BY <1>1, <2>4 DEF OnlyProgress, Cached
    <3>2. \A r, q \in kept : requests[r].url = requests[q].url => r = q
      BY DEF Inv, Cache, CacheWithinLimits
    <3> HIDE DEF kept
    <3> QED  BY <2>2, <2>4, <2>5, <3>1, <3>2
  <2>9. Cache'
    BY <1>1, <1>2, <2>5, <2>7, <2>8 DEF Inv, Cache, CacheWithinLimits, FreshCache
  <2> QED  BY <1>1, <1>2, <2>4, <2>6, <2>9, Quiet DEF Inv, TypeOK, Newest
<1>4. CASE prefetches' = kept /\ requests' = Aborted(Cached(url))
  <2>1. /\ OnlyProgress(requests, requests') /\ Len(requests') = Len(requests)
        /\ \A q \in 1..Len(requests) : requests'[q].end = "open" => q \notin Cached(url)
    BY <1>1, <1>4, AbortedRequests
  <2>2. Tidy
    <3>1. \A q \in 1..Len(requests) :
            requests'[q].end = "open" => q \in prefetches' \/ q \notin prefetches
      BY <1>4, <2>1
    <3>2. prefetches' \subseteq 1..Len(requests)
      BY <1>1, <1>4
    <3> QED  BY <1>1, <2>1, <3>1, <3>2 DEF Tidy
  <2>3. Cache'
    BY <1>2, <1>4, <2>1, CacheShrinks DEF Inv
  <2> QED  BY <1>1, <1>2, <2>1, <2>2, <2>3, Quiet DEF Inv, TypeOK, Newest
<1> QED  BY <1>3, <1>4 DEF Prefetch

(* What the cache gives up by itself or because it is told to. *)
LEMMA DroppedKeeps ==
  ASSUME Inv, NEW S \in SUBSET prefetches, prefetches' = prefetches \ S,
         requests' = Aborted(S),
         cleared' = cleared \/ (cleared' = Len(requests) /\ prefetches' = {}),
         UNCHANGED <<navigations, current, streaming, waiting, body, history, place,
                     documentUrl, shown, left>>
  PROVE  Inv'
<1>1. /\ requests \in Seq(RequestSet) /\ Len(requests) \in Nat /\ Newest \in Nat
      /\ prefetches \subseteq 1..Len(requests) /\ Len(requests) <= MaxRequests
  BY Lengths DEF Inv, TypeOK
<1>2. /\ OnlyProgress(requests, requests') /\ Len(requests') = Len(requests)
      /\ \A q \in 1..Len(requests) : requests'[q].end = "open" => q \notin S
  BY <1>1, AbortedRequests
<1>3. Tidy
  <2>1. \A q \in 1..Len(requests) :
          requests'[q].end = "open" => q \in prefetches' \/ q \notin prefetches
    BY <1>2
  <2> QED  BY <1>1, <1>2, <2>1 DEF Tidy
<1>4. Cache'
  BY <1>2, CacheShrinks DEF Inv
<1> QED  BY <1>1, <1>2, <1>3, <1>4, Quiet DEF Inv, TypeOK, Newest

LEMMA NetworkKeeps ==
  ASSUME Inv, NEW r \in 1..Len(requests), Network(r)
  PROVE  Inv'
<1>1. /\ requests \in Seq(RequestSet) /\ Len(requests) \in Nat /\ Newest \in Nat
      /\ prefetches \subseteq 1..Len(requests) /\ Len(requests) <= MaxRequests
      /\ requests[r] \in RequestSet
  BY Lengths DEF Inv, TypeOK
<1> DEFINE Changes(q) ==
        /\ q \in RequestSet
        /\ q.url = requests[r].url /\ q.body = requests[r].body
        /\ q.end = "open" => requests[r].end = "open"
        /\ SetRequest(r, q)
        /\ prefetches' = prefetches \/ (prefetches' = prefetches \ {r} /\ q.end # "open")
<1>2. \E q : Changes(q)
  <2>1. CASE HeadArrives(r)
    <3>1. CASE SetRequest(r, [requests[r] EXCEPT !.head = "frames"])
      <4>1. Changes([requests[r] EXCEPT !.head = "frames"])
        BY <1>1, <2>1, <3>1 DEF HeadArrives, RequestSet
      <4> QED  BY <4>1
    <3>2. CASE SetRequest(r, [requests[r] EXCEPT !.head = "plain", !.end = "finished"])
      <4>1. Changes([requests[r] EXCEPT !.head = "plain", !.end = "finished"])
        BY <1>1, <2>1, <3>2 DEF HeadArrives, RequestSet
      <4> QED  BY <4>1
    <3> QED  BY <2>1, <3>1, <3>2 DEF HeadArrives
  <2>2. CASE GoesStale(r)
    <3>1. Changes([requests[r] EXCEPT !.fresh = FALSE])
      BY <1>1, <2>2 DEF GoesStale, RequestSet
    <3> QED  BY <3>1
  <2>3. CASE FrameArrives(r)
    <3>1. Changes([requests[r] EXCEPT !.buffered = requests[r].buffered + 1])
      <4>1. requests[r].buffered + 1 \in 0..MaxBuffer
        BY <1>1, <2>3, NavigationAssumption DEF FrameArrives, RequestSet
      <4> QED  BY <1>1, <2>3, <4>1 DEF FrameArrives, RequestSet
    <3> QED  BY <3>1
  <2>4. CASE ResponseEnds(r)
    <3>1. Changes([requests[r] EXCEPT !.end = "finished"])
      BY <1>1, <2>4 DEF ResponseEnds, RequestSet
    <3> QED  BY <3>1
  <2>5. CASE RequestFails(r)
    <3> DEFINE head == IF requests[r].head = "waiting" THEN "failed" ELSE requests[r].head
    <3>1. Changes([requests[r] EXCEPT !.end = "failed", !.head = head])
      BY <1>1, <2>5 DEF RequestFails, RequestSet
    <3> HIDE DEF Changes, head
    <3> QED  BY <3>1
  <2>6. CASE FetchRejects(r)
    <3>1. Changes([requests[r] EXCEPT !.head = "failed"])
      BY <1>1, <2>6 DEF FetchRejects, RequestSet
    <3> QED  BY <3>1
  <2> QED  BY <2>1, <2>2, <2>3, <2>4, <2>5, <2>6 DEF Network
<1>3. UNCHANGED OfRequests
  BY DEF Network, HeadArrives, GoesStale, FrameArrives, ResponseEnds, RequestFails, FetchRejects
<1>4. PICK q : Changes(q)
  BY <1>2
<1>5. /\ OnlyProgress(requests, requests') /\ Len(requests') = Len(requests)
      /\ requests'[r] = q
  BY <1>1, <1>4, SetRequestKeeps
<1>6. Tidy
  <2>1. \A p \in 1..Len(requests) :
          requests'[p].end = "open" => p \in prefetches' \/ p \notin prefetches
    BY <1>4, <1>5
  <2>2. prefetches' \subseteq 1..Len(requests)
    BY <1>1, <1>4
  <2> QED  BY <1>1, <1>5, <2>1, <2>2 DEF Tidy
<1>7. Cache'
  BY <1>3, <1>4, <1>5, CacheShrinks DEF Inv, OfRequests
<1> QED  BY <1>1, <1>3, <1>5, <1>6, <1>7, Quiet DEF Inv, TypeOK, Newest, OfRequests

LEMMA ClickKeeps ==
  ASSUME Inv, NEW url \in Urls, Click(url)
  PROVE  Inv'
<1>1. PICK mode \in Modes : StartNavigation(url, mode, navigations)
  BY DEF Click, Modes
<1>2. Further(navigations, navigations) /\ navigations \in Seq(NavigationSet)
  BY DEF Further, Inv, TypeOK
<1>3. waiting # NoNavigation => navigations[waiting].at # "over"
  BY DEF Inv, Promise, WaitersAreWoken
<1>4. UNCHANGED <<waiting, body, history, place, documentUrl, shown, cleared, left>>
  BY DEF Click
<1>5. place' \in 1..Len(history)
  BY <1>4 DEF Inv, TypeOK
<1> QED  BY <1>1, <1>2, <1>3, <1>4, <1>5, Starts

LEMMA TraverseKeeps ==
  ASSUME Inv, NEW k \in 1..Len(history), Traverse(k)
  PROVE  Inv'
<1>1. /\ place' = k /\ UNCHANGED <<waiting, body, history, documentUrl, shown, cleared, left>>
      /\ history[k] \in Urls
  BY ElementOfSeq DEF Traverse, Inv, TypeOK
<1>2. CASE StartNavigation(history[k], "traverse", navigations)
  <2>1. Further(navigations, navigations) /\ navigations \in Seq(NavigationSet)
    BY DEF Further, Inv, TypeOK
  <2>2. waiting # NoNavigation => navigations[waiting].at # "over"
    BY DEF Inv, Promise, WaitersAreWoken
  <2>3. "traverse" \in Modes
    BY DEF Modes
  <2> QED  BY <1>1, <1>2, <2>1, <2>2, <2>3, Starts
<1>3. CASE /\ history[k] = documentUrl
           /\ UNCHANGED <<requests, prefetches, navigations, current, streaming>>
  <2>1. Tidy
    BY <1>3, Lengths DEF Tidy, OnlyProgress, Inv, TypeOK
  <2>2. Cache'
    BY <1>1, <1>3, <2>1, CacheShrinks DEF Inv, Tidy
  <2>3. shown' \in 0..Newest /\ cleared' \in 0..Len(requests') /\ body' \in Bodies
    BY <1>1, <1>3 DEF Inv, TypeOK, Newest
  <2> QED  BY <1>1, <1>3, <2>1, <2>2, <2>3, Quiet
<1> QED  BY <1>2, <1>3 DEF Traverse

(* Steps of the page that only set `body` or `waiting`. *)
LEMMA PageKeeps ==
  ASSUME Inv, SignalsChange \/ WhenLoaded
  PROVE  Inv'
<1>1. /\ UNCHANGED <<requests, prefetches, navigations, current, streaming, history, place,
                     documentUrl, shown, cleared, left>>
      /\ body' \in Bodies /\ waiting' \in {waiting, streaming}
  BY DEF SignalsChange, WhenLoaded, Inv, TypeOK
<1>2. Tidy
  BY <1>1, Lengths DEF Tidy, OnlyProgress, Inv, TypeOK
<1>3. Cache'
  BY <1>1, <1>2, CacheShrinks DEF Inv, Tidy
<1>4. shown' \in 0..Newest /\ cleared' \in 0..Len(requests') /\ place' \in 1..Len(history)
  BY <1>1 DEF Inv, TypeOK, Newest
<1> QED  BY <1>1, <1>2, <1>3, <1>4, Quiet

LEMMA UpdateKeeps ==
  ASSUME Inv, NEW n \in 1..Newest, Update(n)
  PROVE  Inv'
<1>1. /\ requests' = Without(n, {}) /\ RequestOf(n).buffered > 0
      /\ UNCHANGED <<prefetches, navigations, current, streaming, waiting, body, history,
                     place, documentUrl, cleared, left>>
      /\ shown' \in {n, shown}
  BY DEF Update, HasFrame
<1>2. OnlyProgress(requests, requests') /\ Len(requests') = Len(requests)
  BY <1>1, WithoutKeeps DEF Inv, Newest
<1>3. /\ Len(requests) \in Nat /\ prefetches \subseteq 1..Len(requests)
      /\ Len(requests) <= MaxRequests
  BY Lengths DEF Inv, TypeOK
<1>4. Tidy
  BY <1>1, <1>2, <1>3 DEF Tidy
<1>5. Cache'
  BY <1>1, <1>2, CacheShrinks DEF Inv
<1>6. /\ shown' \in 0..Newest /\ cleared' \in 0..Len(requests') /\ place' \in 1..Len(history)
      /\ body' \in Bodies
  BY <1>1, <1>2, Lengths DEF Inv, TypeOK, Newest
<1> QED  BY <1>1, <1>4, <1>5, <1>6, Quiet

(* The head lets the newest navigation go on to its frames. *)
LEMMA FramesBegin ==
  ASSUME Inv, NEW n \in 1..Newest, navigations[n].at = "head",
         navigations' = [navigations EXCEPT ![n].at = "frames"],
         UNCHANGED <<requests, prefetches, current, streaming, waiting, cleared, left, Page>>
  PROVE  Inv'
<1> DEFINE next == [navigations[n] EXCEPT !.at = "frames"]
<1>1. /\ Newest \in Nat /\ navigations \in Seq(NavigationSet)
      /\ \A m \in 1..Newest : navigations[m] \in NavigationSet
      /\ streaming \in 0..Newest /\ waiting \in 0..Newest
  BY Lengths DEF Inv, TypeOK, Newest
<1>2. next \in NavigationSet /\ next.at = "frames"
      /\ next.request = navigations[n].request /\ next.committed = navigations[n].committed
  BY <1>1 DEF NavigationSet
<1>3. navigations' = [navigations EXCEPT ![n] = next]
  OBVIOUS
<1> HIDE DEF next
<1>4. /\ navigations' \in Seq(NavigationSet) /\ Len(navigations') = Newest
      /\ \A m \in 1..Newest : navigations'[m] = IF m = n THEN next ELSE navigations[m]
  BY <1>1, <1>2, <1>3, ExceptSeq, SMTT(30) DEF Newest
<1>5. Further(navigations, navigations')
  BY <1>2, <1>4 DEF Further, Newest
<1>6. Tidy
  BY Lengths DEF Tidy, OnlyProgress, Inv, TypeOK
<1>7. TypeOK'
  BY <1>1, <1>4 DEF Inv, TypeOK, Page, NavigationSet, Newest
<1>8. Cache' /\ Loads'
  BY <1>5, <1>6, CacheShrinks, LoadsStay DEF Inv, Tidy
<1>9. Promise'
  BY <1>1, <1>2, <1>4
     DEF Inv, Promise, CurrentIsNewest, PendingIsNewest, WaitersAreWoken, Newest, NoNavigation
<1>10. PageShown'
  BY <1>1, <1>2, <1>4 DEF Inv, PageShown, Page, Newest, Location
<1> QED  BY <1>7, <1>8, <1>9, <1>10 DEF Inv

(* The first snapshot of the newest navigation becomes the document. *)
LEMMA CommitKeeps ==
  ASSUME Inv, NEW n \in 1..Newest, NEW final \in Urls, Commit(n, final)
  PROVE  Inv'
<1> DEFINE next == [navigations[n] EXCEPT !.committed = TRUE]
<1>1. /\ Newest \in Nat /\ navigations \in Seq(NavigationSet)
      /\ \A m \in 1..Newest : navigations[m] \in NavigationSet
      /\ streaming \in 0..Newest /\ waiting \in 0..Newest
      /\ Len(requests) \in Nat /\ Len(requests) <= MaxRequests
      /\ requests \in Seq(RequestSet) /\ prefetches \subseteq 1..Len(requests)
  BY Lengths DEF Inv, TypeOK, Newest
<1>2. /\ n = Newest /\ RequestOf(n).buffered > 0
      /\ navigations' = [navigations EXCEPT ![n] = next]
      /\ prefetches' = {} /\ cleared' = Len(requests)
      /\ requests' = Without(n, prefetches)
      /\ Record(navigations[n].mode, final)
      /\ documentUrl' = final /\ shown' = n /\ body' \in Bodies
      /\ UNCHANGED <<current, streaming, waiting, left>>
  BY DEF Commit, HasFrame, IsCurrent, DiscardPrefetches, Newest
<1>3. next \in NavigationSet /\ next.committed
      /\ next.request = navigations[n].request /\ next.at = navigations[n].at
      /\ next.at = "frames"
  BY <1>1 DEF NavigationSet, Commit, HasFrame, At
<1> HIDE DEF next
<1>4. /\ navigations' \in Seq(NavigationSet) /\ Len(navigations') = Newest
      /\ \A m \in 1..Newest : navigations'[m] = IF m = n THEN next ELSE navigations[m]
  BY <1>1, <1>2, <1>3, ExceptSeq, SMTT(30) DEF Newest
<1>5. Further(navigations, navigations')
  BY <1>3, <1>4 DEF Further, Newest
<1>6. /\ OnlyProgress(requests, requests') /\ Len(requests') = Len(requests)
      /\ \A r \in prefetches : requests'[r].end # "open"
  BY <1>1, <1>2, WithoutKeeps DEF Inv, Newest
<1>7. Tidy
  BY <1>1, <1>2, <1>6 DEF Tidy
<1>8. /\ history' \in Seq(Urls) /\ place' \in 1..Len(history') /\ history'[place'] = final
  <2>1. history \in Seq(Urls) /\ Len(history) \in Nat /\ place \in 1..Len(history)
    BY Lengths DEF Inv, TypeOK
  <2>2. CASE navigations[n].mode = "push"
    <3>1. SubSeq(history, 1, place) \in Seq(Urls) /\ Len(SubSeq(history, 1, place)) = place
      BY <2>1, SubSeqProperties
    <3>2. history' = Append(SubSeq(history, 1, place), final) /\ place' = place + 1
      BY <1>2, <2>2 DEF Record
    <3> QED  BY <2>1, <3>1, <3>2, AppendProperties
  <2>3. CASE navigations[n].mode # "push"
    <3>1. history' = [history EXCEPT ![place] = final] /\ place' = place
      BY <1>2, <2>3 DEF Record, RewriteEntry
    <3> QED  BY <2>1, <3>1, ExceptSeq
  <2> QED  BY <2>2, <2>3
<1>9. TypeOK'
  <2>1. navigations' \in Seq(NavigationSet')
    BY <1>4, <1>6 DEF NavigationSet
  <2> QED  BY <1>1, <1>2, <1>4, <1>6, <1>8, <2>1 DEF Inv, TypeOK, OnlyProgress, Newest
<1>10. Cache' /\ Loads'
  BY <1>2, <1>5, <1>6, <1>7, CacheShrinks, LoadsStay DEF Inv
<1>11. Promise'
  BY <1>1, <1>2, <1>3, <1>4
     DEF Inv, Promise, CurrentIsNewest, PendingIsNewest, WaitersAreWoken, Newest, NoNavigation
<1>12. PageShown'
  BY <1>1, <1>2, <1>3, <1>4, <1>8 DEF PageShown, Newest, Location
<1> QED  BY <1>9, <1>10, <1>11, <1>12 DEF Inv

(* A redirect ends one navigation and starts another. *)
LEMMA RedirectStarts ==
  ASSUME Inv, NEW n \in 1..Newest, NEW url \in Urls, Redirect(n, url)
  PROVE  /\ \E mode \in Modes : StartNavigation(url, mode, Over(n))
         /\ Over(n) \in Seq(NavigationSet) /\ Further(navigations, Over(n))
         /\ \A m \in 1..Newest : m # n => Over(n)[m] = navigations[m]
<1> DEFINE end == [navigations[n] EXCEPT !.at = "over"]
           mode == IF navigations[n].committed \/ navigations[n].mode = "traverse"
                   THEN "replace" ELSE navigations[n].mode
<1>1. /\ Newest \in Nat /\ navigations \in Seq(NavigationSet)
      /\ navigations[n] \in NavigationSet
  BY Lengths DEF Inv, TypeOK
<1>2. mode \in Modes /\ StartNavigation(url, mode, Over(n))
  BY <1>1 DEF Redirect, NavigationSet, Modes
<1>3. end \in NavigationSet /\ end.request = navigations[n].request /\ end.at = "over"
  BY <1>1 DEF NavigationSet
<1>4. Over(n) = [navigations EXCEPT ![n] = end]
  BY DEF Over
<1> HIDE DEF end, mode
<1>5. /\ Over(n) \in Seq(NavigationSet) /\ Len(Over(n)) = Newest
      /\ \A m \in 1..Newest : Over(n)[m] = IF m = n THEN end ELSE navigations[m]
  BY <1>1, <1>3, <1>4, ExceptSeq, SMTT(30) DEF Newest
<1>6. Further(navigations, Over(n))
  BY <1>3, <1>5 DEF Further, Newest
<1> QED  BY <1>2, <1>5, <1>6

LEMMA RedirectKeeps ==
  ASSUME Inv, NEW n \in 1..Newest, NEW url \in Urls, Redirect(n, url)
  PROVE  Inv'
<1>1. PICK mode \in Modes : StartNavigation(url, mode, Over(n))
  BY RedirectStarts
<1>2. /\ Over(n) \in Seq(NavigationSet) /\ Further(navigations, Over(n))
      /\ \A m \in 1..Newest : m # n => Over(n)[m] = navigations[m]
  BY RedirectStarts
<1>3. /\ waiting' = IF waiting = n THEN streaming' ELSE waiting
      /\ UNCHANGED <<body, history, documentUrl, shown, cleared, left>>
      /\ place' = place
  BY DEF Redirect, Wake, Page
<1>4. waiting # NoNavigation /\ waiting # n => Over(n)[waiting].at # "over"
  BY <1>2 DEF Inv, TypeOK, Newest, Promise, WaitersAreWoken, NoNavigation
<1>5. place' \in 1..Len(history)
  BY <1>3 DEF Inv, TypeOK
<1> QED  BY <1>1, <1>2, <1>3, <1>4, <1>5, Starts

(* The other steps of follow() end the navigation. *)
LEMMA FollowKeeps ==
  ASSUME Inv, NEW n \in 1..Newest, Follow(n)
  PROVE  Inv'
<1> DEFINE Leaves == \/ left' = TRUE
                     \/ left' = left /\ (n = Newest => navigations[n].committed)
<1>1. CASE FollowHead(n)
  <2>1. /\ navigations[n].at = "head"
        /\ UNCHANGED <<requests, prefetches, current, cleared, Page>>
        /\ Len(requests) \in Nat /\ requests \in Seq(RequestSet)
    BY <1>1, Lengths DEF FollowHead, At, Inv, TypeOK
  <2>2. OnlyProgress(requests, requests')
    BY <2>1 DEF OnlyProgress
  <2>3. CASE Finish(n) /\ Leaves
    BY <2>1, <2>2, <2>3, Ends
  <2>4. CASE /\ navigations' = [navigations EXCEPT ![n].at = "frames"]
             /\ UNCHANGED <<streaming, waiting, left>>
    BY <2>1, <2>4, FramesBegin
  <2> QED  BY <1>1, <2>3, <2>4 DEF FollowHead, FallBack, IsCurrent, Newest
<1>2. CASE SupersededFrame(n) \/ CannotCommit(n) \/ RedirectAway(n) \/ ErrorFrame(n)
  <2>1. PICK S : requests' = Without(n, S)
    BY <1>2 DEF SupersededFrame, CannotCommit, RedirectAway, ErrorFrame
  <2>2. /\ navigations[n].at = "frames" /\ RequestOf(n).buffered > 0
        /\ UNCHANGED <<prefetches, current, cleared, Page>>
    BY <1>2 DEF SupersededFrame, CannotCommit, RedirectAway, ErrorFrame, HasFrame, At
  <2>3. OnlyProgress(requests, requests') /\ Len(requests') = Len(requests)
    BY <2>1, <2>2, WithoutKeeps DEF Inv, Newest
  <2>4. Finish(n) /\ Leaves
    BY <1>2 DEF SupersededFrame, CannotCommit, RedirectAway, ErrorFrame, EndsHere, FallBack,
       IsCurrent, Newest
  <2> QED  BY <2>2, <2>3, <2>4, Ends
<1>3. CASE FollowEnd(n)
  <2>1. /\ navigations[n].at = "frames"
        /\ UNCHANGED <<requests, prefetches, current, cleared, Page>>
        /\ Len(requests) \in Nat /\ requests \in Seq(RequestSet)
    BY <1>3, Lengths DEF FollowEnd, At, Inv, TypeOK
  <2>2. OnlyProgress(requests, requests')
    BY <2>1 DEF OnlyProgress
  <2>3. Finish(n) /\ Leaves
    BY <1>3 DEF FollowEnd, EndsHere, FallBack, IsCurrent, Newest
  <2> QED  BY <2>1, <2>2, <2>3, Ends
<1>4. CASE Update(n)
  BY <1>4, UpdateKeeps
<1>5. CASE \E url \in Urls : Commit(n, url) \/ Redirect(n, url)
  BY <1>5, CommitKeeps, RedirectKeeps
<1> QED  BY <1>1, <1>2, <1>3, <1>4, <1>5 DEF Follow

-----------------------------------------------------------------------------
(* The invariant. *)

LEMMA InitInv == Init => Inv
<1> SUFFICES ASSUME Init PROVE Inv
  OBVIOUS
<1>1. TypeOK
  <2>1. requests \in Seq(RequestSet) /\ Len(requests) = 0
        /\ navigations \in Seq(NavigationSet) /\ Len(navigations) = 0
    BY EmptySeq DEF Init
  <2>2. history \in Seq(Urls) /\ place \in 1..Len(history) /\ documentUrl \in Urls
    BY NavigationAssumption DEF Init
  <2>3. /\ prefetches = {} /\ current = 0 /\ {streaming, waiting, shown} = {0} /\ cleared = 0
        /\ body \in Bodies /\ left \in BOOLEAN
    BY DEF Init, NoRequest, NoNavigation
  <2>4. 0 <= MaxRequests /\ 0 <= MaxNavigations /\ 0 \in 0..0
    BY NavigationAssumption
  <2> QED  BY <2>1, <2>2, <2>3, <2>4 DEF TypeOK
<1>2. Cache
  <2>1. Cardinality({}) = 0
    BY FS_EmptySet
  <2>2. {r \in prefetches : Open(r)} = {}
    BY DEF Init
  <2> QED  BY <2>1, <2>2, NavigationAssumption DEF Init, Cache, CacheWithinLimits, FreshCache
<1>3. Loads /\ Promise
  BY DEF Init, Loads, NobodyLoadsInVain, Open, SupersededAreAborted, Promise, CurrentIsNewest,
     PendingIsNewest, WaitersAreWoken, Newest, NoRequest, NoNavigation
<1>4. PageShown
  BY DEF Init, PageShown, Newest, Location
<1> QED  BY <1>1, <1>2, <1>3, <1>4 DEF Inv

LEMMA StepInv == Inv /\ [Next]_vars => Inv'
<1> SUFFICES ASSUME Inv, [Next]_vars PROVE Inv'
  OBVIOUS
<1>1. CASE \E url \in Urls : Prefetch(url) \/ Click(url)
  BY <1>1, PrefetchKeeps, ClickKeeps
<1>2. CASE \E k \in 1..Len(history) : Traverse(k)
  BY <1>2, TraverseKeeps
<1>3. CASE \E r \in 1..Len(requests) : Network(r)
  BY <1>3, NetworkKeeps
<1>4. CASE \E r \in 1..Len(requests) : Expire(r)
  <2>1. PICK r \in prefetches :
            /\ prefetches' = prefetches \ {r} /\ requests' = Aborted({r})
            /\ UNCHANGED <<navigations, current, streaming, waiting, body, history, place,
                           documentUrl, shown, cleared, left>>
    BY <1>4 DEF Expire
  <2>2. {r} \in SUBSET prefetches
    OBVIOUS
  <2> QED  BY <2>1, <2>2, DroppedKeeps
<1>5. CASE \E n \in 1..Len(navigations) : Follow(n)
  BY <1>5, FollowKeeps DEF Newest
<1>6. CASE Invalidate
  BY <1>6, DroppedKeeps DEF Invalidate, Clear
<1>7. CASE SignalsChange \/ WhenLoaded
  BY <1>7, PageKeeps
<1>8. CASE UNCHANGED vars
  <2>1. Newest' = Newest /\ Location' = Location
    BY <1>8 DEF vars, Newest, Location
  <2> QED  BY <1>8, <2>1 DEF vars, Inv, TypeOK, NavigationSet, Cache, CacheWithinLimits, FreshCache,
     Loads, NobodyLoadsInVain, SupersededAreAborted, Open, RequestOf, Promise, CurrentIsNewest,
     PendingIsNewest, WaitersAreWoken, PageShown
<1> QED  BY <1>1, <1>2, <1>3, <1>4, <1>5, <1>6, <1>7, <1>8 DEF Next

LEMMA NavigationInvariant == Spec => []Inv
  BY InitInv, StepInv, PTL DEF Spec

(* Type correctness, for every set of URLs and every bound. *)
THEOREM NavigationTypes == Spec => []TypeOK
  BY NavigationInvariant, PTL DEF Inv

(* `pending` is the newest navigation's for as long as it is under way,    *)
(* whatever older navigations do when they end.                            *)
THEOREM PendingStaysNewest == Spec => []PendingIsNewest
<1>1. Inv => PendingIsNewest
  BY DEF Inv, Promise
<1> QED  BY <1>1, NavigationInvariant, PTL

(* A unit never waits for a promise that has settled. *)
THEOREM NoWaiterIsForgotten == Spec => []WaitersAreWoken
<1>1. Inv => WaitersAreWoken
  BY DEF Inv, Promise
<1> QED  BY <1>1, NavigationInvariant, PTL

(* A page that loads is in the cache or is the newest navigation's: every  *)
(* other request was aborted where it was given up.                        *)
THEOREM NothingLoadsInVain == Spec => []NobodyLoadsInVain
<1>1. Inv => NobodyLoadsInVain
  BY DEF Inv, Loads
<1> QED  BY <1>1, NavigationInvariant, PTL

(* A superseded navigation never waits for the network. *)
THEOREM SupersededNavigationsEnd == Spec => []SupersededAreAborted
<1>1. Inv => SupersededAreAborted
  BY DEF Inv, Loads
<1> QED  BY <1>1, NavigationInvariant, PTL

(* The cache stays within both of its limits, with one page for a URL. *)
THEOREM CacheIsBounded == Spec => []CacheWithinLimits
<1>1. Inv => CacheWithinLimits
  BY DEF Inv, Cache
<1> QED  BY <1>1, NavigationInvariant, PTL

(* When no navigation is under way, the page that is shown is the one at   *)
(* the browser's location, whichever way navigations crossed before.       *)
THEOREM LocationShowsItsPage == Spec => []PageMatchesLocation
<1>1. Inv => PageMatchesLocation
  <2> SUFFICES ASSUME Inv, ~left, streaming = NoNavigation PROVE documentUrl = Location
    BY DEF PageMatchesLocation
  <2>1. Newest # 0 => navigations[Newest].at = "over"
    BY DEF Inv, Promise, PendingIsNewest, Newest, NoNavigation
  <2> QED  BY <2>1 DEF Inv, PageShown
<1> QED  BY <1>1, NavigationInvariant, PTL

(* No step of a superseded navigation changes what a later one has shown. *)
THEOREM LaterPagesStay == Spec => LaterPageStays
<1>1. Inv /\ [Next]_vars => [shown' >= shown]_vars
  <2> SUFFICES ASSUME Inv, Next PROVE shown' >= shown
    BY DEF vars
  <2>1. shown \in 0..Newest /\ Newest \in Nat
    BY Lengths DEF Inv, TypeOK, Newest
  <2>2. shown' = shown \/ shown' = Newest
    BY DEF Next, Prefetch, Click, Traverse, Network, HeadArrives, GoesStale, FrameArrives,
       ResponseEnds, RequestFails, FetchRejects, OfRequests, Expire, Invalidate, SignalsChange,
       WhenLoaded, Follow, FollowHead, SupersededFrame, Commit, CannotCommit, Update, Redirect,
       RedirectAway, ErrorFrame, FollowEnd, Page, IsCurrent, Newest
  <2> QED  BY <2>1, <2>2
<1> QED  BY <1>1, NavigationInvariant, PTL DEF Spec, LaterPageStays

(* Every navigation starts from a page that was asked for with the signals *)
(* of now and after the cache was last cleared.                            *)
THEOREM NavigationsStartFresh == Spec => PagesAreFresh
<1>1. Inv /\ [Next]_vars =>
        [current' # current => requests'[current'].body = body /\ current' > cleared]_vars
  <2> SUFFICES ASSUME Inv, Next, current' # current
               PROVE  requests'[current'].body = body /\ current' > cleared
    BY DEF vars
  <2>1. \/ \E url \in Urls : Click(url)
        \/ \E k \in 1..Len(history) : Traverse(k)
        \/ \E n \in 1..Newest, url \in Urls : Redirect(n, url)
    BY DEF Next, Prefetch, Network, HeadArrives, GoesStale, FrameArrives, ResponseEnds,
       RequestFails, FetchRejects, OfRequests, Expire, Invalidate, SignalsChange, WhenLoaded,
       Follow, FollowHead, SupersededFrame, Commit, CannotCommit, Update, RedirectAway,
       ErrorFrame, FollowEnd, Newest
  <2>2. Further(navigations, navigations) /\ navigations \in Seq(NavigationSet)
    BY DEF Further, Inv, TypeOK
  <2>3. ASSUME NEW url \in Urls, Click(url)
        PROVE  requests'[current'].body = body /\ current' > cleared
    <3>1. PICK mode \in Modes : StartNavigation(url, mode, navigations)
      BY <2>3 DEF Click, Modes
    <3> QED  BY <2>2, <3>1, StartGives
  <2>4. ASSUME NEW k \in 1..Len(history), Traverse(k)
        PROVE  requests'[current'].body = body /\ current' > cleared
    <3>1. history[k] \in Urls /\ "traverse" \in Modes
      BY ElementOfSeq DEF Inv, TypeOK, Modes
    <3>2. StartNavigation(history[k], "traverse", navigations)
      BY <2>4 DEF Traverse
    <3> QED  BY <2>2, <3>1, <3>2, StartGives
  <2>5. ASSUME NEW n \in 1..Newest, NEW url \in Urls, Redirect(n, url)
        PROVE  requests'[current'].body = body /\ current' > cleared
    <3>1. PICK mode \in Modes : StartNavigation(url, mode, Over(n))
      BY <2>5, RedirectStarts
    <3> QED  BY <2>5, <3>1, RedirectStarts, StartGives
  <2> QED  BY <2>1, <2>3, <2>4, <2>5
<1> QED  BY <1>1, NavigationInvariant, PTL DEF Spec, PagesAreFresh
=============================================================================
