---------------------------- MODULE ViewsProofs -----------------------------
(****************************************************************************)
(* What holds of every page, for every way its futures end: that views are  *)
(* polled in turn, and that no future that is ready waits for another one   *)
(* to wake the task.                                                        *)
(*                                                                          *)
(* TurnInv says where the poll is in the tree, and what each node believes  *)
(* of the turns of its children; the proof goes through the three ways for  *)
(* a node to go on (GoesOn, AsksIn, Replies), and then through the actions. *)
(* WakeInv adds the set of nodes that the poll has left pending so far, all *)
(* of which wait for a future that wakes the task.                          *)
(****************************************************************************)
EXTENDS Views, Recursion, SequenceTheorems, TLAPS

-----------------------------------------------------------------------------
(* What is reached from a node.                                             *)

\* x holds the nodes up to m that are reached from n.
IsStage(next, n, N, m, x) ==
    /\ x \subseteq 1..m
    /\ \A j \in x : \E q \in x \cup {n} : j \in next[q]
    /\ \A q \in x \cup {n} : \A j \in next[q] : j <= m /\ q < j => j \in x
    /\ \A A \in SUBSET (1..N) : (\A q \in A \cup {n} : next[q] \subseteq A) => x \subseteq A
Stage(next, n, N) == {p \in Nat \X SUBSET (1..N) : IsStage(next, n, N, p[1], p[2])}

LEMMA StageMember ==
  ASSUME NEW next, NEW n, NEW N, NEW m, NEW x
  PROVE  <<m, x>> \in Stage(next, n, N) <=>
            m \in Nat /\ x \in SUBSET (1..N) /\ IsStage(next, n, N, m, x)
BY DEF Stage

LEMMA ReachedStage ==
  ASSUME NEW N \in Nat, N = Len(template), NEW next \in [1..N -> SUBSET (1..N)], NEW n \in 1..N
  PROVE  <<N, Reached(next, n)>> \in Stage(next, n, N)
<1> DEFINE T == Stage(next, n, N)
           S == SUBSET (1..N)
<1>1. PICK G : G = [p \in Nat \X S |-> Extended(next, n, p[1], p[2])]
  OBVIOUS
<1>2. \A m \in Nat : \A x \in S : G[<<m, x>>] = Extended(next, n, m, x)
  BY <1>1
<1>3. T \in SUBSET (Nat \X S) /\ <<0, {}>> \in T
  <2>1. <<0, {}>> \in T
    BY StageMember DEF IsStage
  <2> QED BY <2>1 DEF Stage
<1>4. Leads(G, N, T)
  <2>1. SUFFICES ASSUME NEW m \in Nat, NEW x, m < N, <<m, x>> \in T
                 PROVE  <<m + 1, G[<<m + 1, x>>]>> \in T
    BY DEF Leads
  <2>2. /\ x \in S /\ x \subseteq 1..m /\ m + 1 \in 1..N
        /\ \A j \in x : \E q \in x \cup {n} : j \in next[q]
        /\ \A q \in x \cup {n} : \A j \in next[q] : j <= m /\ q < j => j \in x
        /\ \A A \in S : (\A q \in A \cup {n} : next[q] \subseteq A) => x \subseteq A
    <3>1. x \in S /\ IsStage(next, n, N, m, x)
      BY <2>1, StageMember
    <3>2. m + 1 \in 1..N
      BY <2>1
    <3> QED BY <3>1, <3>2, Zenon DEF IsStage
  <2>3. PICK y : y = Extended(next, n, m + 1, x)
    OBVIOUS
  <2>4. CASE \E p \in x \cup {n} : m + 1 \in next[p]
    <3>1. y = x \cup {m + 1}
      BY <2>3, <2>4 DEF Extended
    <3>2. PICK p \in x \cup {n} : m + 1 \in next[p]
      BY <2>4
    <3>3. y \in S /\ y \subseteq 1..(m + 1)
      BY <2>2, <3>1
    <3>4. \A j \in y : \E q \in y \cup {n} : j \in next[q]
      BY <2>2, <3>1, <3>2
    <3>5. \A q \in y \cup {n} : \A j \in next[q] : j <= m + 1 /\ q < j => j \in y
      <4>1. ASSUME NEW q \in y \cup {n}, NEW j \in next[q], j <= m + 1, q < j PROVE j \in y
        <5>1. q \in 1..N /\ j \in 1..N
          BY <3>3, <4>1
        <5>2. CASE j = m + 1
          BY <5>2, <3>1
        <5>3. CASE j # m + 1
          BY <5>1, <5>3, <4>1, <3>1, <2>2
        <5> QED BY <5>2, <5>3
      <4> QED BY <4>1
    <3>6. ASSUME NEW A \in S, \A q \in A \cup {n} : next[q] \subseteq A PROVE y \subseteq A
      BY <2>2, <3>1, <3>2, <3>6
    <3>7. IsStage(next, n, N, m + 1, y)
      BY <3>3, <3>4, <3>5, <3>6 DEF IsStage
    <3>8. G[<<m + 1, x>>] = y
      BY <2>2, <2>3, <1>2
    <3>9. m + 1 \in Nat /\ y \in SUBSET (1..N)
      BY <3>3
    <3>10. <<m + 1, y>> \in T
      BY <3>7, <3>9, StageMember
    <3> QED BY <3>8, <3>10
  <2>5. CASE ~\E p \in x \cup {n} : m + 1 \in next[p]
    <3>1. y = x
      BY <2>3, <2>5 DEF Extended
    <3>2. \A q \in y \cup {n} : \A j \in next[q] : j <= m + 1 /\ q < j => j \in y
      <4>1. ASSUME NEW q \in y \cup {n}, NEW j \in next[q], j <= m + 1, q < j PROVE j \in y
        <5>1. j # m + 1 /\ j \in 1..N
          BY <4>1, <2>5, <3>1, <2>2
        <5> QED BY <5>1, <4>1, <3>1, <2>2
      <4> QED BY <4>1
    <3>3. IsStage(next, n, N, m + 1, y)
      BY <3>1, <3>2, <2>2 DEF IsStage
    <3>4. G[<<m + 1, x>>] = y
      BY <2>2, <2>3, <1>2
    <3>5. m + 1 \in Nat /\ y \in SUBSET (1..N)
      BY <3>1, <2>2
    <3>6. <<m + 1, y>> \in T
      BY <3>3, <3>5, StageMember
    <3> QED BY <3>4, <3>6
  <2> QED BY <2>4, <2>5
<1>5. PICK g : Follows(g, G, N, T, {})
  <2> HIDE DEF T, S
  <2> QED BY <1>3, <1>4, Folding
<1>6. g = [m \in 0..N |-> IF m = 0 THEN {} ELSE Extended(next, n, m, g[m - 1])]
  <2>1. ASSUME NEW m \in 0..N, m # 0
        PROVE  G[<<m, g[m - 1]>>] = Extended(next, n, m, g[m - 1])
    <3>1. m - 1 \in 0..N /\ m \in Nat
      BY <2>1
    <3>2. <<m - 1, g[m - 1]>> \in T
      BY <3>1, <1>5 DEF Follows
    <3>3. g[m - 1] \in S
      BY <3>2, <1>3
    <3> QED BY <3>1, <3>3, <1>2
  <2> QED BY <2>1, <1>5 DEF Follows
<1>7. PICK upto : /\ upto = [m \in 0..N |-> IF m = 0 THEN {} ELSE Extended(next, n, m, upto[m - 1])]
                  /\ Reached(next, n) = upto[N]
  BY <1>6 DEF Reached
<1>8. upto[0] = {}
  BY <1>7
<1>9. FollowsOn(upto, G, N, T)
  <2>1. SUFFICES ASSUME NEW m \in Nat, m < N, <<m, upto[m]>> \in T
                 PROVE  upto[m + 1] = G[<<m + 1, upto[m]>>]
    BY DEF FollowsOn
  <2>2. upto[m + 1] = Extended(next, n, m + 1, upto[(m + 1) - 1])
    <3>1. m + 1 \in 0..N /\ m + 1 # 0
      BY <2>1
    <3> QED BY <3>1, <1>7
  <2>3. upto[m + 1] = Extended(next, n, m + 1, upto[m])
    BY <2>2, (m + 1) - 1 = m
  <2>4. upto[m] \in S
    BY <2>1, <1>3
  <2> QED BY <2>3, <2>4, <1>2
<1> HIDE DEF T, S
<1> QED BY <1>3, <1>4, <1>7, <1>8, <1>9, FoldEnd DEF T

\* `next` leads to later nodes.
Onward(next) ==
    /\ Len(template) \in Nat
    /\ next \in [1..Len(template) -> SUBSET (1..Len(template))]
    /\ \A p \in 1..Len(template) : \A m \in next[p] : p < m

LEMMA ReachedNodes ==
  ASSUME NEW next, Onward(next), NEW n \in 1..Len(template)
  PROVE  /\ Reached(next, n) \subseteq 1..Len(template)
         /\ next[n] \subseteq Reached(next, n)
         /\ \A p \in Reached(next, n) : next[p] \subseteq Reached(next, n)
         /\ \A m \in Reached(next, n) : \E p \in Reached(next, n) \cup {n} : m \in next[p]
         /\ \A S \in SUBSET (1..Len(template)) :
               (\A p \in S \cup {n} : next[p] \subseteq S) => Reached(next, n) \subseteq S
<1>1. PICK N \in Nat : N = Len(template)
  BY DEF Onward
<1>2. PICK R : R = Reached(next, n)
  OBVIOUS
<1>3. <<N, R>> \in Stage(next, n, N)
  BY <1>1, <1>2, ReachedStage DEF Onward
<1>4. /\ R \in SUBSET (1..N)
      /\ \A m \in R : \E q \in R \cup {n} : m \in next[q]
      /\ \A q \in R \cup {n} : \A m \in next[q] : m <= N /\ q < m => m \in R
      /\ \A S \in SUBSET (1..N) : (\A q \in S \cup {n} : next[q] \subseteq S) => R \subseteq S
  BY <1>3, StageMember DEF IsStage
<1>5. ASSUME NEW q \in R \cup {n} PROVE next[q] \subseteq R
  <2>1. q \in 1..N /\ \A m \in next[q] : m \in 1..N /\ q < m
    BY <1>1, <1>4 DEF Onward
  <2> QED BY <2>1, <1>4
<1> QED BY <1>1, <1>2, <1>4, <1>5

-----------------------------------------------------------------------------
(* A page is a tree.                                                        *)

LEMMA Tree ==
  ASSUME template \in Templates
  PROVE  /\ Len(template) \in Nat \ {0} /\ Nodes = 1..Len(template) /\ 1 \in Nodes
         /\ \A n \in Nodes : Kids(n) \subseteq Nodes /\ \A k \in Kids(n) : n < k
         /\ \A m, n \in Nodes : \A k \in Kids(m) : k \in Kids(n) => m = n
         /\ \A n \in Nodes : IsNode(template[n])
         /\ \A n \in Nodes : \A k \in Kids(n) : k # 1
         /\ \A n \in Nodes : n # 1 => \E p \in Nodes : n \in Kids(p)
<1>1. IsTree(template) /\ \A n \in DOMAIN template : IsNode(template[n])
  BY TemplatesAssumption
<1>2. Len(template) \in Nat \ {0} /\ Nodes = 1..Len(template)
  BY <1>1 DEF IsTree, Nodes
<1>3. \A n \in Nodes : Kids(n) \subseteq n + 1..Len(template)
  BY <1>1 DEF IsTree, Nodes, Kids
<1>4. \A m, n \in Nodes : \A k \in Kids(m) : k \in Kids(n) => m = n
  BY <1>1 DEF IsTree, Nodes, Kids
<1>5. \A n \in Nodes : n # 1 => \E p \in Nodes : n \in Kids(p)
  BY <1>1 DEF IsTree, Nodes, Kids
<1> QED BY <1>1, <1>2, <1>3, <1>4, <1>5 DEF Nodes

LEMMA KidsOfKind ==
  ASSUME template \in Templates, NEW n \in Nodes
  PROVE  /\ template[n].kind \in {"text", "then", "hoist", "suspense", "boundary", "join", "loop", "live"}
         /\ IsA(n, "text") => Kids(n) = {}
         /\ IsA(n, "then") \/ IsA(n, "hoist") => Kids(n) = {template[n].kid}
         /\ IsA(n, "suspense") \/ IsA(n, "boundary") =>
               Kids(n) = {template[n].kid, template[n].fallback} /\ template[n].kid # template[n].fallback
         /\ IsList(n) =>
               /\ template[n].kids \in Seq(Nat)
               /\ \A i \in 1..Len(template[n].kids) : template[n].kids[i] \in Kids(n)
               /\ \A k \in Kids(n) : \E i \in 1..Len(template[n].kids) : template[n].kids[i] = k
               /\ \A i, j \in 1..Len(template[n].kids) :
                     template[n].kids[i] = template[n].kids[j] => i = j
         /\ IsA(n, "live") =>
               /\ template[n].steps \in Seq([op : {"emit", "await", "repeat"}, kid : Nat,
                                              caught : BOOLEAN, event : STRING])
               /\ \A i \in 1..Len(template[n].steps) :
                     template[n].steps[i].op = "emit" => template[n].steps[i].kid \in Kids(n)
               /\ \A k \in Kids(n) : \E i \in 1..Len(template[n].steps) :
                     template[n].steps[i].op = "emit" /\ template[n].steps[i].kid = k
               /\ \A i, j \in 1..Len(template[n].steps) :
                     (template[n].steps[i].op = "emit" /\ template[n].steps[j].op = "emit"
                      /\ template[n].steps[i].kid = template[n].steps[j].kid) => i = j
               /\ \E i \in 1..Len(template[n].steps) :
                     template[n].steps[i].op = "repeat"
                     \/ (template[n].steps[i].op = "emit" /\ ~template[n].steps[i].caught)
<1>1. PICK d : d = template[n]
  OBVIOUS
<1>2. IsNode(d)
  BY <1>1, Tree
<1>3. d.kind \in {"text", "then", "hoist", "suspense", "boundary", "join", "loop", "live"}
  BY <1>2 DEF IsNode, Lists
<1>4. IsA(n, "text") => Kids(n) = {}
  BY <1>1 DEF IsA, Kids, KidsOf, Lists
<1>5. IsA(n, "then") \/ IsA(n, "hoist") => Kids(n) = {d.kid}
  BY <1>1 DEF IsA, Kids, KidsOf, Lists
<1>6. IsA(n, "suspense") \/ IsA(n, "boundary") => Kids(n) = {d.kid, d.fallback} /\ d.kid # d.fallback
  BY <1>1, <1>2 DEF IsA, Kids, KidsOf, Lists, IsNode
<1>7. ASSUME IsList(n)
      PROVE  /\ d.kids \in Seq(Nat)
             /\ \A i \in 1..Len(d.kids) : d.kids[i] \in Kids(n)
             /\ \A k \in Kids(n) : \E i \in 1..Len(d.kids) : d.kids[i] = k
             /\ \A i, j \in 1..Len(d.kids) : d.kids[i] = d.kids[j] => i = j
  <2>1. d.kids \in Seq(Nat) /\ IsInjective(d.kids)
    BY <1>1, <1>2, <1>7 DEF IsNode, IsList, Lists
  <2>2. Kids(n) = {d.kids[i] : i \in DOMAIN d.kids}
    BY <1>1, <1>7 DEF Kids, KidsOf, IsList, Lists, Range
  <2>3. DOMAIN d.kids = 1..Len(d.kids)
    BY <2>1
  <2> QED BY <2>1, <2>2, <2>3 DEF IsInjective
<1>8. ASSUME IsA(n, "live")
      PROVE  /\ d.steps \in Seq([op : {"emit", "await", "repeat"}, kid : Nat, caught : BOOLEAN, event : STRING])
             /\ \A i \in 1..Len(d.steps) : d.steps[i].op = "emit" => d.steps[i].kid \in Kids(n)
             /\ \A k \in Kids(n) : \E i \in 1..Len(d.steps) : d.steps[i].op = "emit" /\ d.steps[i].kid = k
             /\ \A i, j \in 1..Len(d.steps) :
                   (d.steps[i].op = "emit" /\ d.steps[j].op = "emit"
                    /\ d.steps[i].kid = d.steps[j].kid) => i = j
             /\ \E i \in 1..Len(d.steps) :
                   d.steps[i].op = "repeat" \/ (d.steps[i].op = "emit" /\ ~d.steps[i].caught)
  <2>1. /\ d.steps \in Seq([op : {"emit", "await", "repeat"}, kid : Nat, caught : BOOLEAN, event : STRING])
        /\ Emits(d)
        /\ \A i, j \in DOMAIN d.steps :
             (i # j /\ d.steps[i].op = "emit" /\ d.steps[j].op = "emit") => d.steps[i].kid # d.steps[j].kid
    BY <1>1, <1>2, <1>8 DEF IsNode, IsA, Lists
  <2>2. DOMAIN d.steps = 1..Len(d.steps)
    BY <2>1
  <2>3. Kids(n) = {x.kid : x \in {y \in {d.steps[i] : i \in DOMAIN d.steps} : y.op = "emit"}}
    BY <1>1, <1>8 DEF Kids, KidsOf, IsA, Lists, Steps, Range
  <2>4. \A i \in 1..Len(d.steps) : d.steps[i].op = "emit" => d.steps[i].kid \in Kids(n)
    BY <2>2, <2>3
  <2>5. \A k \in Kids(n) : \E i \in 1..Len(d.steps) : d.steps[i].op = "emit" /\ d.steps[i].kid = k
    BY <2>2, <2>3
  <2> QED BY <2>1, <2>2, <2>4, <2>5 DEF Emits
<1> QED BY <1>1, <1>3, <1>4, <1>5, <1>6, <1>7, <1>8

LEMMA BelowNodes ==
  ASSUME template \in Templates, NEW n \in Nodes
  PROVE  /\ Below(n) \subseteq Nodes /\ n \notin Below(n)
         /\ \A p \in Below(n) \cup {n} : Kids(p) \subseteq Below(n)
         /\ \A p \in Nodes : \A k \in Kids(p) : k \in Below(n) => p \in Below(n) \cup {n}
         /\ \A m \in Below(n) : n < m
<1>1. PICK next : next = [m \in Nodes |-> Kids(m)]
  OBVIOUS
<1>2. Onward(next) /\ n \in 1..Len(template) /\ Below(n) = Reached(next, n)
  BY <1>1, Tree DEF Onward, Below
<1>3. \A p \in Nodes : next[p] = Kids(p)
  BY <1>1
<1>4. /\ Below(n) \subseteq Nodes
      /\ \A p \in Below(n) \cup {n} : Kids(p) \subseteq Below(n)
      /\ \A m \in Below(n) : \E p \in Below(n) \cup {n} : m \in Kids(p)
  <2>1. Nodes = 1..Len(template)
    BY Tree
  <2> QED BY <2>1, <1>2, <1>3, ReachedNodes
<1>5. ASSUME NEW p \in Nodes, NEW k \in Kids(p), k \in Below(n) PROVE p \in Below(n) \cup {n}
  <2>1. PICK q \in Below(n) \cup {n} : k \in Kids(q)
    BY <1>4, <1>5
  <2> QED BY <2>1, <1>4, <1>5, Tree
<1>6. \A m \in Below(n) : n < m
  <2>1. PICK S : S = {m \in Nodes : n < m}
    OBVIOUS
  <2>2. \A p \in S \cup {n} : Kids(p) \subseteq S
    BY <2>1, Tree
  <2>3. \A p \in S \cup {n} : next[p] \subseteq S
    BY <2>1, <2>2, <1>3
  <2>4. S \in SUBSET (1..Len(template))
    BY <2>1, Tree
  <2>5. Reached(next, n) \subseteq S
    BY <2>3, <2>4, <1>2, ReachedNodes
  <2> QED BY <2>1, <2>5, <1>2
<1>7. n \notin Below(n)
  BY <1>6, Tree
<1> QED BY <1>4, <1>5, <1>6, <1>7

-----------------------------------------------------------------------------
(* Types.                                                                   *)

Token == {"start", "end", "text", "part"} \X Nat
ContentType == [tokens : Seq(Token), build : Int]
ReplyType == [is : {"pending", "none", "first", "swap", "error"}, content : ContentType,
              live : BOOLEAN, region : Int, error : {"none"} \cup Outcomes]
AskedType == [turn : {"new", "live", "settled"}, home : Int, outer : Int]
OwnType == [at : {"start", "await", "view", "fallback", "quiet", "child", "done"},
            yielded : Nat, step : Nat \ {0}, emit : {"first", "swaps", "done"},
            mode : {"first", "swap", "again"}, first : ContentType, stash : Seq(ReplyType),
            next : Nat, scan : Nat, waits : BOOLEAN, around : Int]
KeptType == [held : Seq(ContentType), over : BOOLEAN]

TurnTypes ==
    /\ poll \in [does : {"idle", "first", "swap", "run", "reply"}, node : Nodes]
    /\ reply \in ReplyType
    /\ asked \in [Nodes -> AskedType]
    /\ node \in [Nodes -> OwnType]
    /\ build \in Int /\ misplaced \in BOOLEAN
OtherTypes ==
    /\ template \in Templates
    /\ outcome \in [Events -> {"none"} \cup Outcomes]
    /\ kept \in [Nodes -> KeptType]
    /\ parts \in [Nodes -> Seq(Token)] /\ collecting \in Int
    /\ registered \subseteq Events /\ woken \in BOOLEAN
    /\ phase \in {"first", "body", "ended", "redirected", "failed"}
    /\ page \in Seq(Token)
TypeOK == TurnTypes /\ OtherTypes

-----------------------------------------------------------------------------
(* Where the poll is.                                                       *)

\* The nodes that have been asked and have not replied.
OnPath(n) == asked[n].outer # Away
Fresh(n) == poll.node = n /\ poll.does \in {"first", "swap"}

\* They lead from the root to the node that runs: each one has been asked by
\* its parent, which has asked no other.
PathInv ==
    /\ build # Away
    /\ \A p \in Nodes : \A k \in Kids(p) : OnPath(k) \/ Replied(k) => OnPath(p)
    /\ \A p \in Nodes : \A j, k \in Kids(p) : OnPath(j) /\ (OnPath(k) \/ Replied(k)) => j = k
    /\ Idle => poll.node = 1
    /\ Idle \/ Replied(1) => ~OnPath(1)
    /\ poll.does \in {"first", "swap", "run"} =>
          OnPath(poll.node) /\ \A k \in Kids(poll.node) : ~OnPath(k)
    /\ \A n \in Nodes : Replied(n) => ~OnPath(n)
    /\ poll.does = "first" => asked[poll.node].turn = "new"
    /\ poll.does = "swap" => asked[poll.node].turn = "live"
    /\ poll.does = "run" => IsList(poll.node) \/ IsA(poll.node, "live")
    /\ \A n \in Nodes : OnPath(n) => asked[n].turn \in {"new", "live"}

\* What the own state of p says of the turn of its child k: "any" when it will
\* not ask it again.
Owed(p, k) ==
    LET d == template[p]
        own == node[p]
        turn == asked[p].turn
    IN IF turn = "settled" THEN "any"
       ELSE CASE d.kind = "then" -> IF own.at = "view" THEN turn ELSE "new"
         [] d.kind = "suspense" ->
              IF k = d.kid THEN (CASE own.at = "child" -> "live" [] own.at = "done" -> "any" [] OTHER -> "new")
              ELSE (CASE own.at = "start" -> "new" [] own.at = "fallback" -> "live" [] OTHER -> "any")
         [] d.kind \in Lists -> IF turn = "new" /\ kept[k].held = <<>> THEN "new"
                                ELSE IF kept[k].over THEN "any" ELSE "live"
         [] d.kind = "live" ->
              IF \E i \in 1..Len(d.steps) : d.steps[i].op = "emit" /\ d.steps[i].kid = k /\ own.step < i
              THEN "new"
              ELSE IF At(p, "emit") /\ Now(p).kid = k /\ own.emit = "first" THEN "new"
              ELSE IF At(p, "emit") /\ Now(p).kid = k /\ own.emit = "swaps" THEN "live"
              ELSE "any"
         [] d.kind = "boundary" ->
              IF k = d.kid THEN (IF own.at = "fallback" THEN "any" ELSE turn)
              ELSE IF own.at # "fallback" \/ own.emit = "first" THEN "new"
              ELSE IF own.emit = "swaps" THEN "live" ELSE "any"
         [] d.kind = "hoist" -> turn
         [] d.kind = "text" -> "any"

\* A node that has been asked has a parent that waits for it.
Asking(p, k) ==
    LET d == template[p]
        own == node[p]
    IN /\ Owed(p, k) \in {"new", "live"}
       /\ d.kind = "then" => own.at = "view"
       /\ d.kind = "boundary" /\ k = d.fallback => own.at = "fallback"
       /\ d.kind \in Lists =>
             /\ own.scan < Len(d.kids)
             /\ ForFirst(p) => k = d.kids[own.scan + 1] /\ kept[k].held = <<>>
             /\ ~ForFirst(p) => k = d.kids[Place(p, own.scan) + 1]
       /\ d.kind = "live" => At(p, "emit") /\ Now(p).kid = k
EdgesAsk == \A p \in Nodes : \A k \in Kids(p) : OnPath(k) \/ Replied(k) => Asking(p, k)

\* A poll in turn has one of these replies, and moves the turn on.
InTurn(r, turn) ==
    /\ turn = "new" => r.is \in {"pending", "first", "error"}
    /\ turn = "live" => r.is \in {"pending", "swap", "none", "error"}
EdgeTurn(p, k) ==
    IF Replied(k) THEN InTurn(reply, Owed(p, k)) /\ asked[k].turn = TurnAfter(reply, Owed(p, k))
    ELSE Owed(p, k) = "any" \/ asked[k].turn = Owed(p, k)
EdgesTurn == \A p \in Nodes : \A k \in Kids(p) : EdgeTurn(p, k)

\* The response knows the turn of the root.
RootOwed == IF phase = "first" THEN "new" ELSE IF phase = "body" THEN "live" ELSE "any"
RootInv ==
    /\ ~Idle => RootOwed \in {"new", "live"}
    /\ IF Replied(1) THEN InTurn(reply, RootOwed) /\ asked[1].turn = TurnAfter(reply, RootOwed)
       ELSE RootOwed = "any" \/ asked[1].turn = RootOwed

\* The own state of each node fits its turn.
OwnFits(n) ==
    LET d == template[n]
        own == node[n]
        turn == asked[n].turn
    IN /\ d.kind = "text" => turn # "live"
       /\ d.kind = "then" => own.at \in {"start", "await", "view"} /\ (turn = "live" => own.at = "view")
       /\ d.kind = "suspense" =>
             /\ own.at \in {"start", "fallback", "quiet", "child", "done"}
             /\ turn = "new" => own.at = "start"
             /\ turn = "live" => own.at # "start"
       /\ d.kind = "boundary" =>
             /\ own.at \in {"start", "fallback"}
             /\ own.at = "start" => own.emit = "first"
             /\ turn = "new" => own.emit = "first"
       /\ d.kind = "live" =>
             /\ turn = "new" => own.stash = <<>> /\ own.mode \in {"first", "again"}
             /\ turn = "new" /\ own.mode = "first" =>
                   own.emit = "first" /\ \A i \in 1..Len(d.steps) :
                       d.steps[i].op = "emit" /\ i < own.step => d.steps[i].caught
             /\ \A i \in 1..Len(d.steps) : d.steps[i].op = "repeat" => own.step <= i
             /\ own.stash = <<>> \/ own.stash[1].is = "swap"
             /\ turn = "new" /\ own.mode = "again" => OnPath(n) /\ ~Fresh(n)
             /\ turn = "live" /\ OnPath(n) /\ ~Fresh(n) => own.mode = "swap" /\ own.stash = <<>>
OwnInv == \A n \in Nodes : OwnFits(n)

\* A list knows whether one of the children it has asked was pending.
ListFits(p) ==
    IsList(p) /\ OnPath(p) /\ ~Fresh(p) =>
        /\ node[p].scan <= Len(template[p].kids)
        /\ ForFirst(p) => \A i \in 1..node[p].scan :
              kept[template[p].kids[i]].held = <<>> => node[p].waits
ListInv == \A p \in Nodes : ListFits(p)

TurnInv == TypeOK /\ PathInv /\ EdgesAsk /\ EdgesTurn /\ RootInv /\ OwnInv /\ ListInv

-----------------------------------------------------------------------------
(* The three ways for a node to go on.                                      *)

LEMMA TurnTree ==
  ASSUME TurnInv
  PROVE  /\ 1 \in Nodes /\ Nodes = 1..Len(template) /\ Len(template) \in Nat /\ TurnTypes /\ OtherTypes
         /\ template \in Templates
         /\ \A p \in Nodes : \A k \in Kids(p) : k \in Nodes /\ k # p /\ k # 1
         /\ \A p, q \in Nodes : \A k \in Kids(p) : k \in Kids(q) => p = q
BY Tree DEF TurnInv, TypeOK, OtherTypes

LEMMA PathFacts ==
  ASSUME TurnInv
  PROVE  /\ build # Away
         /\ \A p \in Nodes : \A k \in Kids(p) : OnPath(k) \/ Replied(k) => OnPath(p)
         /\ \A p \in Nodes : \A j, k \in Kids(p) : OnPath(j) /\ (OnPath(k) \/ Replied(k)) => j = k
         /\ \A n \in Nodes : OnPath(n) => asked[n].turn \in {"new", "live"}
         /\ \A n \in Nodes : Replied(n) => ~OnPath(n)
BY DEF TurnInv, PathInv

\* The node that is to take the next step.
Acts(n) ==
    \/ poll.node = n /\ poll.does \in {"first", "swap", "run"}
    \/ \E k \in Kids(n) : Replied(k)

LEMMA ActsOnPath ==
  ASSUME TurnInv, NEW n \in Nodes, Acts(n)
  PROVE  /\ OnPath(n) /\ asked[n].turn \in {"new", "live"} /\ ~Idle /\ ~Replied(1)
         /\ \A k \in Kids(n) : ~OnPath(k)
         /\ \A p \in Nodes : \A k \in Kids(p) : p # n => ~Replied(k)
         /\ \A m \in Nodes : m # n => ~Fresh(m)
         /\ \A k \in Kids(n) : k # n /\ k \in Nodes
         /\ RootOwed \in {"new", "live"} /\ asked[1].turn = RootOwed
<1> USE DEF TurnInv, TypeOK, OtherTypes
<1>1. CASE poll.node = n /\ poll.does \in {"first", "swap", "run"}
  BY <1>1, Tree DEF PathInv, Replied, Fresh, RootInv, Idle, TurnTypes
<1>2. CASE \E k \in Kids(n) : Replied(k)
  <2>1. PICK k \in Kids(n) : Replied(k)
    BY <1>2
  <2>2. OnPath(n) /\ poll.does = "reply" /\ poll.node = k /\ k \in Nodes /\ k # 1 /\ k # n
    BY <2>1, Tree DEF PathInv, Replied
  <2>3. \A j \in Kids(n) : ~OnPath(j)
    BY <2>1, <2>2 DEF PathInv
  <2>4. \A p \in Nodes : \A j \in Kids(p) : p # n => ~Replied(j)
    BY <2>1, <2>2, Tree DEF Replied
  <2> QED BY <2>1, <2>2, <2>3, <2>4, Tree DEF PathInv, Replied, Fresh, RootInv, Idle
<1> QED BY <1>1, <1>2 DEF Acts

\* What a step of n leaves alone: the rest of the page.
Stays(n) ==
    /\ UNCHANGED <<template, phase>>
    /\ \A m \in Nodes : m \notin Kids(n) => kept'[m] = kept[m]
    /\ OtherTypes'

LEMMA StaysTree ==
  ASSUME TurnInv, NEW n \in Nodes, Stays(n)
  PROVE  /\ template' = template /\ Nodes' = Nodes
         /\ \A m \in Nodes : Kids(m)' = Kids(m) /\ (IsList(m)' <=> IsList(m))
         /\ \A m \in Nodes : \A kind : IsA(m, kind)' <=> IsA(m, kind)
BY DEF Stays, Nodes, Kids, IsList, IsA

LEMMA OwedStays ==
  ASSUME TurnInv, NEW n \in Nodes, Stays(n), NEW p \in Nodes, p # n, NEW k \in Kids(p),
         node'[p] = node[p], asked'[p].turn = asked[p].turn
  PROVE  Owed(p, k)' = Owed(p, k) /\ Asking(p, k)' = Asking(p, k)
<1>1. kept'[k] = kept[k] /\ template' = template
  BY Tree DEF Stays, TurnInv, TypeOK, OtherTypes
<1>2. Owed(p, k)' = Owed(p, k)
  BY <1>1 DEF Owed, At, Now
<1> QED BY <1>1, <1>2 DEF Asking, At, Now, Place, ForFirst

LEMMA ListStays ==
  ASSUME TurnInv, NEW n \in Nodes, Acts(n), Stays(n), NEW m \in Nodes, m # n,
         node'[m] = node[m], asked'[m].turn = asked[m].turn, OnPath(m)' /\ ~Fresh(m)' => OnPath(m)
  PROVE  ListFits(m)'
<1>1. ListFits(m) /\ ~Fresh(m) /\ node[m] \in OwnType
  BY ActsOnPath DEF TurnInv, ListInv, TypeOK, TurnTypes
<1>2. SUFFICES ASSUME IsList(m), OnPath(m)
               PROVE  /\ node[m].scan <= Len(template[m].kids)
                      /\ ForFirst(m) => \A i \in 1..node[m].scan :
                            kept'[template[m].kids[i]].held = <<>> => node[m].waits
  BY StaysTree DEF ListFits, ForFirst, Stays
<1>3. /\ node[m].scan <= Len(template[m].kids) /\ node[m].scan \in Nat
      /\ ForFirst(m) => \A i \in 1..node[m].scan : kept[template[m].kids[i]].held = <<>> => node[m].waits
  BY <1>1, <1>2 DEF ListFits, OwnType
<1>4. ASSUME NEW i \in 1..node[m].scan PROVE kept'[template[m].kids[i]] = kept[template[m].kids[i]]
  <2>1. template[m].kids[i] \in Kids(m)
    BY <1>2, <1>3, KidsOfKind, TurnTree
  <2> QED BY <2>1, TurnTree DEF Stays
<1> QED BY <1>3, <1>4

\* What is left to show of a step of n: what it owes its children.
Settles(n) ==
    /\ OwnFits(n)' /\ ListFits(n)'
    /\ \A k \in Kids(n) : Owed(n, k)' = "any" \/ Owed(n, k)' = asked[k].turn

LEMMA GoesOnKeeps ==
  ASSUME TurnInv, NEW n \in Nodes, Acts(n), Stays(n), NEW own \in OwnType,
         GoesOn(n, own), IsList(n) \/ IsA(n, "live"), Settles(n)
  PROVE  TurnInv'
<1> USE DEF GoesOn
<1>1. TurnTypes
  BY DEF TurnInv, TypeOK
<1>2. /\ asked' = asked /\ poll' = [does |-> "run", node |-> n] /\ reply' = reply
      /\ \A m \in Nodes : m # n => node'[m] = node[m]
  BY <1>1 DEF TurnTypes
<1>3. TypeOK'
  BY <1>1, StaysTree DEF TurnTypes, TypeOK, Stays
<1>4. /\ Nodes' = Nodes /\ \A m \in Nodes : Kids(m)' = Kids(m) /\ (OnPath(m)' <=> OnPath(m))
      /\ \A m : ~Replied(m)' /\ (Fresh(m)' <=> FALSE)
      /\ ~Idle' /\ RootOwed' = RootOwed
  BY <1>2, StaysTree DEF OnPath, Replied, Fresh, Idle, RootOwed, Stays
<1>5. PathInv'
  <2>1. build' # Away /\ \A m \in Nodes : OnPath(m)' => asked'[m].turn \in {"new", "live"}
    BY <1>2, <1>4, PathFacts
  <2>2. \A p \in Nodes : \A k \in Kids(p) : OnPath(k)' => OnPath(p)'
    BY <1>4, PathFacts, TurnTree
  <2>3. \A p \in Nodes : \A j, k \in Kids(p) : OnPath(j)' /\ OnPath(k)' => j = k
    BY <1>4, PathFacts, TurnTree
  <2>4. OnPath(n)' /\ \A k \in Kids(n) : ~OnPath(k)'
    BY <1>4, ActsOnPath, TurnTree
  <2> QED BY <2>1, <2>2, <2>3, <2>4, <1>2, <1>4, StaysTree DEF PathInv
<1>6. EdgesAsk'
  <2>1. SUFFICES ASSUME NEW p \in Nodes, NEW k \in Kids(p), OnPath(k) PROVE Asking(p, k)'
    BY <1>4, TurnTree DEF EdgesAsk
  <2>2. p # n
    BY <2>1, ActsOnPath
  <2>3. Asking(p, k)
    BY <2>1 DEF TurnInv, EdgesAsk
  <2> QED BY <2>2, <2>3, <1>2, OwedStays
<1>7. EdgesTurn'
  <2>1. SUFFICES ASSUME NEW p \in Nodes, NEW k \in Kids(p)
                 PROVE  Owed(p, k)' = "any" \/ asked[k].turn = Owed(p, k)'
    BY <1>2, <1>4 DEF EdgesTurn, EdgeTurn
  <2>2. CASE p = n
    BY <2>2 DEF Settles
  <2>3. CASE p # n
    <3>1. ~Replied(k) /\ Owed(p, k)' = Owed(p, k)
      BY <2>3, <1>2, ActsOnPath, OwedStays
    <3> QED BY <3>1 DEF TurnInv, EdgesTurn, EdgeTurn
  <2> QED BY <2>2, <2>3
<1>8. RootInv'
  BY <1>2, <1>4, ActsOnPath DEF RootInv
<1>9. OwnInv'
  <2>1. SUFFICES ASSUME NEW m \in Nodes, m # n PROVE OwnFits(m)'
    BY <1>4 DEF OwnInv, Settles
  <2>2. OwnFits(m) /\ ~Fresh(m)
    BY <2>1, ActsOnPath DEF TurnInv, OwnInv
  <2> QED BY <2>1, <2>2, <1>2, <1>4 DEF OwnFits, Stays
<1>10. ListInv'
  <2>1. SUFFICES ASSUME NEW m \in Nodes, m # n PROVE ListFits(m)'
    BY <1>4 DEF ListInv, Settles
  <2> QED BY <2>1, <1>2, <1>4, ListStays
<1> QED BY <1>3, <1>5, <1>6, <1>7, <1>8, <1>9, <1>10 DEF TurnInv

LEMMA AsksKeeps ==
  ASSUME TurnInv, NEW n \in Nodes, Acts(n), Stays(n), NEW own \in OwnType,
         NEW k \in Kids(n), NEW what \in {"first", "swap"}, NEW home \in Int, home # Away,
         AsksIn(n, k, what, home, own),
         asked[k].turn = IF what = "first" THEN "new" ELSE "live",
         Asking(n, k)', Settles(n)
  PROVE  TurnInv'
<1> USE DEF AsksIn
<1>1. TurnTypes /\ k \in Nodes /\ k # n /\ k # 1
  BY ActsOnPath, Tree DEF TurnInv, TypeOK, OtherTypes
<1>2. /\ poll' = [does |-> what, node |-> k] /\ reply' = reply
      /\ \A m \in Nodes : m # n => node'[m] = node[m]
      /\ \A m \in Nodes : asked'[m].turn = asked[m].turn
      /\ \A m \in Nodes : m # k => asked'[m] = asked[m]
      /\ asked'[k].outer = build
  BY <1>1 DEF TurnTypes, AskedType
<1>3. TypeOK'
  BY <1>1, StaysTree DEF TurnTypes, TypeOK, Stays, AskedType
<1>4. /\ Nodes' = Nodes /\ \A m \in Nodes : Kids(m)' = Kids(m) /\ (OnPath(m)' <=> OnPath(m) \/ m = k)
      /\ \A m : ~Replied(m)' /\ (Fresh(m)' <=> m = k)
      /\ ~Idle' /\ RootOwed' = RootOwed /\ build' # Away
  <2>1. Nodes' = Nodes /\ (\A m \in Nodes : Kids(m)' = Kids(m)) /\ RootOwed' = RootOwed
    BY StaysTree DEF RootOwed, Stays
  <2>2. \A m \in Nodes : OnPath(m)' <=> OnPath(m) \/ m = k
    BY <1>1, <1>2, PathFacts DEF OnPath
  <2>3. (\A m : ~Replied(m)' /\ (Fresh(m)' <=> m = k)) /\ ~Idle' /\ build' # Away
    BY <1>2 DEF Replied, Fresh, Idle
  <2> QED BY <2>1, <2>2, <2>3
<1>5. PathInv'
  <2>1. \A p \in Nodes : \A j \in Kids(p) : OnPath(j)' => OnPath(p)'
    BY <1>1, <1>4, ActsOnPath, PathFacts, TurnTree
  <2>2. \A p \in Nodes : \A i, j \in Kids(p) : OnPath(i)' /\ OnPath(j)' => i = j
    BY <1>1, <1>4, ActsOnPath, PathFacts, TurnTree
  <2>3. OnPath(k)' /\ \A j \in Kids(k) : ~OnPath(j)'
    BY <1>1, <1>4, ActsOnPath, PathFacts, TurnTree
  <2>4. \A m \in Nodes : OnPath(m)' => asked'[m].turn \in {"new", "live"}
    BY <1>1, <1>2, <1>4, PathFacts
  <2>5. poll'.node = k /\ poll'.does = what
    BY <1>2
  <2>6. what = "first" => asked'[k].turn = "new"
    BY <1>1, <1>2
  <2>7. what = "swap" => asked'[k].turn = "live"
    BY <1>1, <1>2
  <2>8. ~OnPath(1)' => ~Idle' /\ ~Replied(1)'
    BY <1>4
  <2> HIDE DEF AsksIn
  <2> QED BY <2>1, <2>2, <2>3, <2>4, <2>5, <2>6, <2>7, <2>8, <1>1, <1>4 DEF PathInv
<1>6. EdgesAsk'
  <2>1. SUFFICES ASSUME NEW p \in Nodes, NEW j \in Kids(p), OnPath(j) \/ j = k PROVE Asking(p, j)'
    BY <1>4, Tree DEF EdgesAsk, TurnInv, TypeOK, OtherTypes
  <2>2. CASE p = n
    BY <2>1, <2>2, ActsOnPath
  <2>3. CASE p # n
    <3>1. OnPath(j)
      BY <2>1, <2>3, Tree DEF TurnInv, TypeOK, OtherTypes
    <3>2. Asking(p, j)
      BY <3>1 DEF TurnInv, EdgesAsk
    <3> QED BY <2>3, <3>2, <1>2, OwedStays
  <2> QED BY <2>2, <2>3
<1>7. EdgesTurn'
  <2>1. SUFFICES ASSUME NEW p \in Nodes, NEW j \in Kids(p)
                 PROVE  Owed(p, j)' = "any" \/ asked[j].turn = Owed(p, j)'
    <3>1. ASSUME NEW p \in Nodes, NEW j \in Kids(p) PROVE EdgeTurn(p, j)'
      <4>1. asked'[j].turn = asked[j].turn /\ ~Replied(j)'
        BY <1>2, <1>4, TurnTree
      <4> QED BY <4>1, <2>1 DEF EdgeTurn
    <3> QED BY <3>1, <1>4 DEF EdgesTurn
  <2>2. CASE p = n
    BY <2>2 DEF Settles
  <2>3. CASE p # n
    <3>1. ~Replied(j) /\ Owed(p, j)' = Owed(p, j)
      BY <2>3, <1>2, ActsOnPath, OwedStays
    <3> QED BY <3>1 DEF TurnInv, EdgesTurn, EdgeTurn
  <2> QED BY <2>2, <2>3
<1>8. RootInv'
  <2>1. asked'[1].turn = asked[1].turn /\ ~Replied(1)'
    BY <1>2, <1>4, TurnTree
  <2> QED BY <2>1, <1>4, ActsOnPath DEF RootInv
<1>9. OwnInv'
  <2>1. SUFFICES ASSUME NEW m \in Nodes, m # n PROVE OwnFits(m)'
    BY <1>4 DEF OwnInv, Settles
  <2>2. OwnFits(m) /\ ~Fresh(m)
    BY <2>1, ActsOnPath DEF TurnInv, OwnInv
  <2>3. CASE m = k
    <3>1. ~OnPath(m)
      BY <2>3, ActsOnPath
    <3> QED BY <2>1, <2>2, <2>3, <3>1, <1>2, <1>4 DEF OwnFits, Stays
  <2>4. CASE m # k
    BY <2>1, <2>2, <2>4, <1>2, <1>4 DEF OwnFits, Stays
  <2> QED BY <2>3, <2>4
<1>10. ListInv'
  <2>1. SUFFICES ASSUME NEW m \in Nodes, m # n PROVE ListFits(m)'
    BY <1>4 DEF ListInv, Settles
  <2> QED BY <2>1, <1>2, <1>4, ListStays
<1> QED BY <1>3, <1>5, <1>6, <1>7, <1>8, <1>9, <1>10 DEF TurnInv

LEMMA RepliesKeeps ==
  ASSUME TurnInv, NEW n \in Nodes, Acts(n), Stays(n), NEW own \in OwnType,
         NEW r \in ReplyType, NEW fits \in BOOLEAN, Replies(n, r, fits, own),
         InTurn(r, asked[n].turn), Settles(n)
  PROVE  TurnInv'
<1> USE DEF Replies
<1>1. TurnTypes
  BY DEF TurnInv, TypeOK
<1>2. /\ poll' = [does |-> "reply", node |-> n]
      /\ reply' \in ReplyType /\ reply'.is = r.is /\ reply'.live = r.live
      /\ \A m \in Nodes : m # n => node'[m] = node[m] /\ asked'[m] = asked[m]
      /\ asked'[n].outer = Away /\ asked'[n].turn = TurnAfter(r, asked[n].turn)
      /\ build' = asked[n].outer
  <2>1. reply' \in ReplyType /\ reply'.is = r.is /\ reply'.live = r.live
    <3>1. CASE reply' = r
      BY <3>1
    <3>2. CASE reply' = [r EXCEPT !.content.build = Sealed]
      BY <3>2 DEF ReplyType, ContentType, Sealed
    <3> QED BY <3>1, <3>2
  <2>2. \A m \in Nodes : m # n => node'[m] = node[m] /\ asked'[m] = asked[m]
    BY <1>1 DEF TurnTypes
  <2>3. asked'[n].outer = Away /\ asked'[n].turn = TurnAfter(r, asked[n].turn)
    BY <1>1 DEF TurnTypes, AskedType
  <2> QED BY <2>1, <2>2, <2>3
<1>3. TypeOK'
  <2>1. TurnAfter(r, asked[n].turn) \in {"new", "live", "settled"}
    BY <1>1 DEF TurnTypes, AskedType, ReplyType, TurnAfter
  <2>2. asked' \in [Nodes -> AskedType]
    <3>1. asked[n] \in AskedType /\ Away \in Int
      BY <1>1 DEF TurnTypes, Away
    <3>2. [turn |-> TurnAfter(r, asked[n].turn), home |-> asked[n].home, outer |-> Away] \in AskedType
      BY <2>1, <3>1 DEF AskedType
    <3>3. asked'[n] = [turn |-> TurnAfter(r, asked[n].turn), home |-> asked[n].home, outer |-> Away]
      BY <1>1, <3>1 DEF TurnTypes, AskedType
    <3>4. asked' \in [Nodes -> AskedType]
      BY <3>1, <3>2, <3>3, <1>1 DEF TurnTypes
    <3> QED BY <3>4
  <2>3. node' \in [Nodes -> OwnType] /\ build' \in Int /\ misplaced' \in BOOLEAN
    BY <1>1 DEF TurnTypes, AskedType
  <2>4. poll' \in [does : {"idle", "first", "swap", "run", "reply"}, node : Nodes]
    BY <1>2
  <2>5. Nodes' = Nodes
    BY StaysTree
  <2> QED BY <1>2, <2>2, <2>3, <2>4, <2>5 DEF TypeOK, TurnTypes, Stays
<1>4. /\ Nodes' = Nodes /\ \A m \in Nodes : Kids(m)' = Kids(m) /\ (OnPath(m)' <=> OnPath(m) /\ m # n)
      /\ \A m : (Replied(m)' <=> m = n) /\ (Fresh(m)' <=> FALSE)
      /\ ~Idle' /\ RootOwed' = RootOwed /\ build' # Away
  <2>1. Nodes' = Nodes /\ (\A m \in Nodes : Kids(m)' = Kids(m)) /\ RootOwed' = RootOwed
    BY StaysTree DEF RootOwed, Stays
  <2>2. \A m \in Nodes : OnPath(m)' <=> OnPath(m) /\ m # n
    BY <1>1, <1>2, PathFacts DEF OnPath
  <2>3. (\A m : (Replied(m)' <=> m = n) /\ (Fresh(m)' <=> FALSE)) /\ ~Idle'
    BY <1>2 DEF Replied, Fresh, Idle
  <2>4. build' # Away
    BY <1>2, ActsOnPath DEF OnPath
  <2> QED BY <2>1, <2>2, <2>3, <2>4
<1>5. PathInv'
  <2>1. \A p \in Nodes : \A j \in Kids(p) : OnPath(j)' \/ Replied(j)' => OnPath(p)'
    BY <1>4, ActsOnPath, PathFacts, TurnTree
  <2>2. \A p \in Nodes : \A i, j \in Kids(p) : OnPath(i)' /\ (OnPath(j)' \/ Replied(j)') => i = j
    BY <1>4, ActsOnPath, PathFacts, TurnTree
  <2>3. (Replied(1)' => ~OnPath(1)') /\ \A m \in Nodes : Replied(m)' => ~OnPath(m)'
    BY <1>4, TurnTree
  <2>4. \A m \in Nodes : OnPath(m)' => asked'[m].turn \in {"new", "live"}
    BY <1>2, <1>4, PathFacts
  <2>5. poll'.does = "reply"
    BY <1>2
  <2> HIDE DEF Replies
  <2> QED BY <2>1, <2>2, <2>3, <2>4, <2>5, <1>4 DEF PathInv
<1>6. TurnAfter(reply', asked[n].turn) = TurnAfter(r, asked[n].turn)
  BY <1>2 DEF TurnAfter
<1>7. ASSUME NEW p \in Nodes, n \in Kids(p)
      PROVE  p # n /\ Asking(p, n)' /\ Owed(p, n)' = asked[n].turn
  <2>1. p # n /\ OnPath(n) /\ ~Replied(n)
    BY <1>7, ActsOnPath, Tree DEF TurnInv, TypeOK, OtherTypes, PathInv
  <2>2. Asking(p, n) /\ asked[n].turn = Owed(p, n)
    BY <2>1, <1>7 DEF TurnInv, EdgesAsk, EdgesTurn, EdgeTurn, Asking
  <2> QED BY <2>1, <2>2, <1>2, <1>7, OwedStays
<1>8. EdgesAsk'
  <2>1. SUFFICES ASSUME NEW p \in Nodes, NEW k \in Kids(p), (OnPath(k) /\ k # n) \/ k = n
                 PROVE  Asking(p, k)'
    BY <1>4, Tree DEF EdgesAsk, TurnInv, TypeOK, OtherTypes
  <2>2. CASE k = n
    BY <2>1, <2>2, <1>7
  <2>3. CASE k # n
    <3>1. p # n
      BY <2>1, <2>3, ActsOnPath
    <3>2. Asking(p, k)
      BY <2>1, <2>3 DEF TurnInv, EdgesAsk
    <3> QED BY <3>1, <3>2, <1>2, OwedStays
  <2> QED BY <2>2, <2>3
<1>9. EdgesTurn'
  <2>1. SUFFICES ASSUME NEW p \in Nodes, NEW k \in Kids(p) PROVE EdgeTurn(p, k)'
    BY <1>4 DEF EdgesTurn
  <2>2. k \in Nodes
    BY Tree DEF TurnInv, TypeOK, OtherTypes
  <2>3. CASE k = n
    BY <2>1, <2>3, <1>2, <1>4, <1>6, <1>7 DEF EdgeTurn, InTurn
  <2>4. CASE k # n /\ p = n
    BY <2>2, <2>4, <1>2, <1>4 DEF EdgeTurn, Settles
  <2>5. CASE k # n /\ p # n
    <3>1. ~Replied(k) /\ Owed(p, k)' = Owed(p, k)
      BY <2>5, <1>2, ActsOnPath, OwedStays
    <3> QED BY <2>2, <2>5, <3>1, <1>2, <1>4 DEF TurnInv, EdgesTurn, EdgeTurn
  <2> QED BY <2>3, <2>4, <2>5
<1>10. RootInv'
  <2>1. CASE n = 1
    BY <2>1, <1>2, <1>4, <1>6, ActsOnPath DEF RootInv, InTurn
  <2>2. CASE n # 1
    BY <2>2, <1>2, <1>4, ActsOnPath, Tree DEF RootInv, TurnInv, TypeOK, OtherTypes
  <2> QED BY <2>1, <2>2
<1>11. OwnInv'
  <2>1. SUFFICES ASSUME NEW m \in Nodes, m # n PROVE OwnFits(m)'
    BY <1>4 DEF OwnInv, Settles
  <2>2. OwnFits(m) /\ ~Fresh(m)
    BY <2>1, ActsOnPath DEF TurnInv, OwnInv
  <2> QED BY <2>1, <2>2, <1>2, <1>4 DEF OwnFits, Stays
<1>12. ListInv'
  <2>1. SUFFICES ASSUME NEW m \in Nodes, m # n PROVE ListFits(m)'
    BY <1>4 DEF ListInv, Settles
  <2> QED BY <2>1, <1>2, <1>4, ListStays
<1> QED BY <1>3, <1>5, <1>8, <1>9, <1>10, <1>11, <1>12 DEF TurnInv

-----------------------------------------------------------------------------
(* The replies and the frames of the actions.                               *)

LEMMA ReplyTypes ==
         /\ Pending \in ReplyType /\ None \in ReplyType /\ NoContent \in ContentType
         /\ \A c \in ContentType, live \in BOOLEAN : First(c, live) \in ReplyType
         /\ \A c \in ContentType, n \in Int : Swap(n, c) \in ReplyType
         /\ \A e \in Outcomes : Failed(e) \in ReplyType
         /\ Pending.is = "pending" /\ None.is = "none"
         /\ \A c, live : First(c, live).is = "first" /\ First(c, live).live = live /\ First(c, live).content = c
         /\ \A c, n : Swap(n, c).is = "swap" /\ Swap(n, c).content = c
         /\ \A e : Failed(e).is = "error"
<1>1. NoContent \in ContentType
  BY EmptySeq DEF NoContent, Content, ContentType, NoBuild
<1> QED BY <1>1 DEF Pending, None, First, Swap, Failed, Reply, ReplyType

LEMMA ContentTypes ==
  ASSUME build \in Int, NEW c \in ContentType, NEW n \in Nat
  PROVE  /\ Region(n, c) \in ContentType /\ Region(n, c).build = build
         /\ \A tokens \in Seq(Token), in \in Int : Content(tokens, in) \in ContentType
<1>1. \A tokens \in Seq(Token), in \in Int : Content(tokens, in) \in ContentType
  BY DEF Content, ContentType
<1>2. <<"start", n>> \in Token /\ <<"end", n>> \in Token
  BY DEF Token
<1>3. <<<<"start", n>>>> \in Seq(Token) /\ <<<<"end", n>>>> \in Seq(Token) /\ c.tokens \in Seq(Token)
  BY <1>2 DEF ContentType
<1>4. <<<<"start", n>>>> \o c.tokens \o <<<<"end", n>>>> \in Seq(Token)
  BY <1>3
<1> QED BY <1>1, <1>4 DEF Region, Block, Content

Calm == UNCHANGED <<template, outcome, pageVars>>

LEMMA CalmStays ==
  ASSUME TurnInv, NEW n \in Nodes, Calm, UNCHANGED <<kept, hoistVars, taskVars>>
  PROVE  Stays(n)
BY DEF TurnInv, TypeOK, OtherTypes, Calm, Stays, hoistVars, taskVars, pageVars, Events, Nodes

LEMMA AskedActs ==
  ASSUME NEW n \in Nodes, Asked(n)
  PROVE  /\ Acts(n)
         /\ poll.does \in {"first", "swap"} /\ (poll.does = "first" <=> asked[n].turn = "new")
         /\ (poll.does = "swap" <=> asked[n].turn = "live")
         /\ \A k : ~Replied(k)
BY DEF Asked, Acts, Replied

LEMMA AnswersActs ==
  ASSUME NEW n \in Nodes, NEW k \in Kids(n), Answers(k, n)
  PROVE  Acts(n) /\ Replied(k) /\ \A j : j # k => ~Replied(j)
BY DEF Answers, Acts, Replied

\* A child that has not replied is where it was, while it is owed the same.
LEMMA SameOwed ==
  ASSUME TurnInv, NEW n \in Nodes, NEW k \in Kids(n), ~Replied(k), NEW w, w = Owed(n, k)
  PROVE  w = "any" \/ w = asked[k].turn
BY DEF TurnInv, EdgesTurn, EdgeTurn

LEMMA TextAskedKeeps ==
  ASSUME TurnInv, NEW n \in Nodes, TextAsked(n), Calm
  PROVE  TurnInv'
<1>1. Acts(n) /\ Stays(n) /\ node[n] \in OwnType /\ build \in Int /\ n \in Nat /\ Kids(n) = {}
  BY AskedActs, CalmStays, TurnTree, KidsOfKind DEF TextAsked, TurnTypes
<1>2. PICK r : r = First(Block(<<<<"text", n>>>>), FALSE)
  OBVIOUS
<1>3. r \in ReplyType /\ r.is = "first" /\ r.live = FALSE
  <2>1. <<<<"text", n>>>> \in Seq(Token)
    BY <1>1 DEF Token
  <2>2. PICK c : c = Content(<<<<"text", n>>>>, build)
    OBVIOUS
  <2>3. c \in ContentType
    BY <2>1, <2>2, <1>1 DEF Content, ContentType
  <2>4. r = First(c, FALSE)
    BY <1>2, <2>2 DEF Block
  <2> QED BY <2>3, <2>4, ReplyTypes
<1>4. PICK fits \in BOOLEAN : Replies(n, r, fits, node[n])
  BY <1>2 DEF TextAsked, Builds, Fits
<1>5. asked[n].turn = "new"
  <2>1. OwnFits(n)
    BY DEF TurnInv, OwnInv
  <2>2. template[n].kind = "text"
    BY DEF TextAsked, IsA
  <2>3. asked[n].turn \in {"new", "live"}
    BY ActsOnPath, <1>1
  <2> QED BY <2>1, <2>2, <2>3 DEF OwnFits
<1>6. InTurn(r, asked[n].turn)
  BY <1>3, <1>5 DEF InTurn
<1>7. Settles(n)
  <2>1. OwnFits(n)'
    <3>1. asked'[n].turn = "settled"
      BY <1>1, <1>3, <1>4, TurnTree DEF Replies, TurnAfter, TurnTypes, AskedType
    <3> QED BY <3>1, <1>1 DEF OwnFits, TextAsked, IsA, Stays
  <2>2. ListFits(n)'
    BY <1>1 DEF ListFits, IsList, Lists, TextAsked, IsA, Stays
  <2> QED BY <1>1, <2>1, <2>2 DEF Settles
<1> QED BY <1>1, <1>3, <1>4, <1>6, <1>7, RepliesKeeps

LEMMA AwaitTypes ==
  ASSUME TurnInv, NEW n \in Nodes, NEW e \in Awaited(template[n])
  PROVE  /\ Await(n, e) \in {"none", "ok"} \cup Outcomes
         /\ e = Yield \/ e \in Events
<1>1. e # Yield => e \in Events
  BY DEF Events
<1>2. e # Yield => outcome[e] \in {"none"} \cup Outcomes
  BY <1>1, TurnTree DEF OtherTypes
<1> QED BY <1>1, <1>2 DEF Await

LEMMA WaitsTypes ==
  ASSUME TurnInv, NEW e, e = Yield \/ e \in Events, Waits(e) \/ UNCHANGED taskVars
  PROVE  registered' \subseteq Events /\ woken' \in BOOLEAN
BY TurnTree DEF OtherTypes, Waits, taskVars

LEMMA WaitingStays ==
  ASSUME TurnInv, NEW n \in Nodes, Calm, UNCHANGED <<kept, collecting>>,
         registered' \subseteq Events, woken' \in BOOLEAN, parts' \in [Nodes -> Seq(Token)]
  PROVE  Stays(n)
BY DEF TurnInv, TypeOK, OtherTypes, Calm, Stays, pageVars, Events, Nodes

LEMMA PartTypes ==
  ASSUME TurnInv, NEW n \in Nodes, NEW m
  PROVE  [parts EXCEPT ![m] = Append(@, <<"part", n>>)] \in [Nodes -> Seq(Token)]
<1>1. <<"part", n>> \in Token /\ parts \in [Nodes -> Seq(Token)]
  BY TurnTree DEF Token, OtherTypes
<1>2. \A m1 \in Nodes : Append(parts[m1], <<"part", n>>) \in Seq(Token)
  BY <1>1
<1> QED BY <1>1, <1>2

LEMMA ThenAwaitsKeeps ==
  ASSUME TurnInv, NEW n \in Nodes, ThenAwaits(n), Calm
  PROVE  TurnInv'
<1>0. PICK kid : kid = template[n].kid
  OBVIOUS
<1> DEFINE d == template[n]
           out == Await(n, d.event)
           started == [node[n] EXCEPT !.at = "await"]
<1>1. /\ Acts(n) /\ node[n] \in OwnType /\ build \in Int /\ build # Away
      /\ d.kind = "then" /\ IsA(n, "then") /\ Kids(n) = {kid} /\ kid \in Kids(n)
      /\ node[n].at # "view" /\ asked[n].turn = "new" /\ ~IsList(n)
  <2>1. Acts(n) /\ node[n] \in OwnType /\ build \in Int /\ build # Away
    BY AskedActs, TurnTree, PathFacts DEF ThenAwaits, TurnTypes
  <2>2. d.kind = "then" /\ Kids(n) = {kid} /\ node[n].at # "view" /\ ~IsList(n)
    BY <1>0, KidsOfKind, TurnTree DEF ThenAwaits, IsA, IsList, Lists
  <2>3. asked[n].turn # "live"
    BY <2>2 DEF TurnInv, OwnInv, OwnFits
  <2> QED BY <2>1, <2>2, <2>3, ActsOnPath DEF IsA
<1>2. Awaited(d) = {d.event}
  BY <1>1 DEF Awaited
<1>3. out \in {"none", "ok"} \cup Outcomes /\ (d.event = Yield \/ d.event \in Events)
  BY <1>2, AwaitTypes
<1>4. Stays(n)
  <2>1. parts' \in [Nodes -> Seq(Token)]
    BY PartTypes, TurnTree DEF ThenAwaits, OtherTypes
  <2>2. registered' \subseteq Events /\ woken' \in BOOLEAN
    BY <1>3, WaitsTypes DEF ThenAwaits
  <2> QED BY <2>1, <2>2, WaitingStays DEF ThenAwaits
<1>5. asked[kid].turn = "new" /\ ~Replied(kid)
  <2>1. Owed(n, kid) = "new"
    BY <1>1 DEF Owed, Lists
  <2>2. ~Replied(kid)
    BY AskedActs DEF ThenAwaits
  <2> QED BY <2>1, <2>2, <1>1, SameOwed
<1>6. started \in OwnType /\ started.at = "await" /\ Left(d.event, started) \in OwnType
      /\ Left(d.event, started).at = "await"
  BY <1>1 DEF OwnType, Left
<1>7. ASSUME NEW own \in OwnType, own.at = "await", node'[n] = own,
             asked'[n].turn \in {"new", "settled"}
      PROVE  Settles(n)
  <2>1. OwnFits(n)' /\ ListFits(n)'
    BY <1>1, <1>4, <1>7, StaysTree DEF OwnFits, ListFits, Stays
  <2>2. Owed(n, kid)' \in {"any", "new"}
    BY <1>1, <1>4, <1>7 DEF Owed, Lists, Stays
  <2> QED BY <2>1, <2>2, <1>1, <1>5 DEF Settles
<1>8. ASSUME NEW r \in ReplyType, NEW own \in OwnType, own.at = "await", Passes(n, r, own),
             r.is \in {"pending", "error"}
      PROVE  TurnInv'
  <2>1. Replies(n, r, TRUE, own)
    BY <1>8 DEF Passes
  <2>2. node'[n] = own /\ asked'[n].turn = TurnAfter(r, asked[n].turn)
    BY <2>1, TurnTree DEF Replies, TurnTypes, AskedType
  <2>3. asked'[n].turn \in {"new", "settled"}
    BY <2>2, <1>1, <1>8 DEF TurnAfter
  <2> QED BY <2>1, <2>2, <2>3, <1>1, <1>4, <1>7, <1>8, RepliesKeeps DEF InTurn
<1>9. CASE out = "none"
  <2>1. Passes(n, Pending, Left(d.event, started))
    BY <1>9 DEF ThenAwaits
  <2> QED BY <2>1, <1>6, <1>8, ReplyTypes
<1>10. CASE out = "ok"
  <2>1. PICK own : own = [node[n] EXCEPT !.at = "view"]
    OBVIOUS
  <2>2. AsksIn(n, kid, "first", build, own)
    BY <1>0, <1>10, <2>1 DEF ThenAwaits, Asks
  <2>3. own \in OwnType /\ own.at = "view"
    BY <2>1, <1>1 DEF OwnType
  <2>4. node'[n] = own /\ asked'[n].turn = asked[n].turn
    BY <2>2, TurnTree, <1>1 DEF AsksIn, TurnTypes, AskedType
  <2>5. Owed(n, kid)' = "new"
    BY <2>3, <2>4, <1>1, <1>4 DEF Owed, Lists, Stays
  <2>6. Asking(n, kid)'
    BY <2>3, <2>4, <2>5, <1>1, <1>4 DEF Asking, Stays, Lists
  <2>7. OwnFits(n)' /\ ListFits(n)'
    BY <2>3, <2>4, <1>1, <1>4, StaysTree DEF OwnFits, ListFits, Stays
  <2> QED BY <2>2, <2>3, <2>5, <2>6, <2>7, <1>1, <1>4, <1>5, AsksKeeps DEF Settles
<1>11. CASE out \notin {"none", "ok"}
  <2>1. Passes(n, Failed(out), started)
    BY <1>11 DEF ThenAwaits
  <2> QED BY <2>1, <1>3, <1>6, <1>8, <1>11, ReplyTypes
<1> QED BY <1>9, <1>10, <1>11

\* A node whose only child has its own turn.
LEMMA OwnChild ==
  ASSUME TurnInv, NEW n \in Nodes, asked[n].turn \in {"new", "live"},
         (IsA(n, "then") /\ node[n].at = "view") \/ IsA(n, "hoist")
  PROVE  /\ template[n].kind \in {"then", "hoist"} /\ ~IsList(n) /\ Kids(n) = {template[n].kid}
         /\ template[n].kid \in Kids(n) /\ Owed(n, template[n].kid) = asked[n].turn
         /\ ~Replied(template[n].kid) => asked[template[n].kid].turn = asked[n].turn
         /\ Replied(template[n].kid) =>
               /\ InTurn(reply, asked[n].turn)
               /\ asked[template[n].kid].turn = TurnAfter(reply, asked[n].turn)
<1> DEFINE k == template[n].kid
<1>1. template[n].kind \in {"then", "hoist"} /\ ~IsList(n) /\ Kids(n) = {k}
  BY KidsOfKind, TurnTree DEF IsA, IsList, Lists
<1>2. Owed(n, k) = asked[n].turn
  BY <1>1 DEF Owed, Lists, IsA
<1>3. EdgeTurn(n, k)
  BY <1>1 DEF TurnInv, EdgesTurn
<1> QED BY <1>1, <1>2, <1>3 DEF EdgeTurn

LEMMA OwnChildAsked ==
  ASSUME TurnInv, NEW n \in Nodes, Acts(n), Stays(n), NEW own \in OwnType, own.at = node[n].at,
         (IsA(n, "then") /\ node[n].at = "view") \/ IsA(n, "hoist"),
         ~Replied(template[n].kid), Asked(n), Asks(n, template[n].kid, poll.does, own)
  PROVE  TurnInv'
<1>0. PICK k : k = template[n].kid
  OBVIOUS
<1>1. /\ template[n].kind \in {"then", "hoist"} /\ ~IsList(n) /\ Kids(n) = {k} /\ k \in Kids(n)
      /\ asked[k].turn = asked[n].turn /\ asked[n].turn \in {"new", "live"}
      /\ (poll.does = "first" /\ asked[k].turn = "new") \/ (poll.does = "swap" /\ asked[k].turn = "live")
      /\ OwnFits(n)
  BY <1>0, OwnChild, ActsOnPath DEF Asked, TurnInv, OwnInv
<1>2. AsksIn(n, k, poll.does, build, own) /\ build \in Int /\ build # Away
  BY <1>0, TurnTree, PathFacts DEF Asks, TurnTypes
<1>3. node'[n] = own /\ asked'[n].turn = asked[n].turn
  BY <1>1, <1>2, TurnTree DEF AsksIn, TurnTypes, AskedType
<1>4. Owed(n, k)' = asked[k].turn
  BY <1>1, <1>3 DEF Owed, Lists, Stays, IsA
<1>5. Asking(n, k)'
  BY <1>1, <1>3, <1>4 DEF Asking, Stays, Lists, IsA
<1>6. OwnFits(n)' /\ ListFits(n)'
  BY <1>1, <1>3, StaysTree DEF OwnFits, ListFits, Stays
<1>7. Settles(n)
  BY <1>1, <1>4, <1>6 DEF Settles
<1> QED BY <1>1, <1>2, <1>5, <1>7, AsksKeeps

LEMMA OwnChildAnswered ==
  ASSUME TurnInv, NEW n \in Nodes, NEW k \in Kids(n), Answers(k, n), Stays(n),
         IsA(n, "then") \/ IsA(n, "hoist"), NEW r \in ReplyType, r.is = reply.is, r.live = reply.live,
         NEW fits \in BOOLEAN, Replies(n, r, fits, node[n])
  PROVE  TurnInv'
<1>1. Acts(n) /\ Replied(k) /\ asked[n].turn \in {"new", "live"} /\ node[n] \in OwnType
  BY AnswersActs, ActsOnPath, TurnTree DEF TurnTypes
<1>2. IsA(n, "then") => node[n].at = "view"
  BY <1>1 DEF TurnInv, EdgesAsk, Asking, IsA
<1>3. /\ template[n].kind \in {"then", "hoist"} /\ ~IsList(n) /\ Kids(n) = {k} /\ k = template[n].kid
      /\ InTurn(reply, asked[n].turn)
      /\ asked[k].turn = TurnAfter(reply, asked[n].turn)
      /\ OwnFits(n)
  BY <1>1, <1>2, OwnChild DEF TurnInv, OwnInv
<1>4. node'[n] = node[n] /\ asked'[n].turn = TurnAfter(r, asked[n].turn) /\ asked'[n].turn = asked[k].turn
  <2>1. node'[n] = node[n] /\ asked'[n].turn = TurnAfter(r, asked[n].turn)
    BY TurnTree DEF Replies, TurnTypes, AskedType
  <2>2. TurnAfter(r, asked[n].turn) = TurnAfter(reply, asked[n].turn)
    BY DEF TurnAfter
  <2> QED BY <2>1, <2>2, <1>3
<1>5. Owed(n, k)' \in {"any", asked[k].turn}
  BY <1>1, <1>2, <1>3, <1>4 DEF Owed, Lists, Stays, IsA
<1>6. OwnFits(n)' /\ ListFits(n)'
  BY <1>2, <1>3, <1>4, StaysTree DEF OwnFits, ListFits, Stays, IsA
<1>7. Settles(n)
  BY <1>3, <1>5, <1>6 DEF Settles
<1>8. InTurn(r, asked[n].turn)
  BY <1>3 DEF InTurn
<1> QED BY <1>1, <1>7, <1>8, RepliesKeeps

LEMMA ThenShowsKeeps ==
  ASSUME TurnInv, NEW n \in Nodes, ThenShows(n), Calm
  PROVE  TurnInv'
<1>1. Acts(n) /\ Stays(n) /\ node[n] \in OwnType /\ ~Replied(template[n].kid)
  BY AskedActs, CalmStays, TurnTree DEF ThenShows, TurnTypes
<1> QED BY <1>1, OwnChildAsked DEF ThenShows

LEMMA ThenAnsweredKeeps ==
  ASSUME TurnInv, NEW n \in Nodes, NEW k \in Kids(n), ThenAnswered(n, k), Calm
  PROVE  TurnInv'
<1>1. Stays(n) /\ reply \in ReplyType /\ Replies(n, reply, TRUE, node[n])
  BY CalmStays, TurnTree DEF ThenAnswered, TurnTypes, Passes
<1> QED BY <1>1, OwnChildAnswered DEF ThenAnswered

LEMMA HoistAskedKeeps ==
  ASSUME TurnInv, NEW n \in Nodes, HoistAsked(n), Calm
  PROVE  TurnInv'
<1>1. PICK own : own = [node[n] EXCEPT !.around = collecting]
  OBVIOUS
<1>2. own \in OwnType /\ own.at = node[n].at
  <2>1. node[n] \in OwnType /\ collecting \in Int
    BY TurnTree DEF TurnTypes, OtherTypes
  <2> QED BY <1>1, <2>1 DEF OwnType
<1>3. Stays(n)
  BY TurnTree DEF HoistAsked, Stays, OtherTypes, taskVars, Calm, pageVars, Events, Nodes
<1>4. Acts(n) /\ ~Replied(template[n].kid)
  BY AskedActs DEF HoistAsked
<1> QED BY <1>1, <1>2, <1>3, <1>4, OwnChildAsked DEF HoistAsked

LEMMA HoistAnsweredKeeps ==
  ASSUME TurnInv, NEW n \in Nodes, NEW k \in Kids(n), HoistAnswered(n, k), Calm
  PROVE  TurnInv'
<1>1. /\ reply \in ReplyType /\ reply.content \in ContentType /\ build \in Int /\ node[n] \in OwnType
      /\ parts \in [Nodes -> Seq(Token)] /\ parts[n] \in Seq(Token) /\ Sealed \in Int
  BY TurnTree DEF TurnTypes, OtherTypes, ReplyType, Sealed
<1>2. Stays(n)
  <2>1. parts' \in [Nodes -> Seq(Token)]
    BY <1>1, EmptySeq DEF HoistAnswered
  <2>2. collecting' \in Int
    BY <1>1 DEF HoistAnswered, OwnType
  <2> QED BY <2>1, <2>2, TurnTree DEF HoistAnswered, Stays, OtherTypes, taskVars, Calm, pageVars, Events, Nodes
<1>3. parts[n] \o reply.content.tokens \in Seq(Token)
  BY <1>1 DEF ContentType
<1>4. \A in \in Int : [reply EXCEPT !.content = Content(parts[n] \o reply.content.tokens, in)] \in ReplyType
  BY <1>1, <1>3, ContentTypes DEF ReplyType
<1>5. PICK r \in ReplyType, fits \in BOOLEAN :
         r.is = reply.is /\ r.live = reply.live /\ Replies(n, r, fits, node[n])
  <2>1. CASE Passes(n, reply, node[n])
    BY <2>1, <1>1 DEF Passes
  <2>2. ASSUME NEW in \in Int, NEW fits,
               Replies(n, [reply EXCEPT !.content = Content(parts[n] \o reply.content.tokens, in)],
                       fits, node[n]), fits \in BOOLEAN
        PROVE  \E r \in ReplyType, fit \in BOOLEAN :
                  r.is = reply.is /\ r.live = reply.live /\ Replies(n, r, fit, node[n])
    <3>1. PICK r : r = [reply EXCEPT !.content = Content(parts[n] \o reply.content.tokens, in)]
      OBVIOUS
    <3>2. r \in ReplyType /\ r.is = reply.is /\ r.live = reply.live
      BY <3>1, <1>1, <1>4 DEF ReplyType
    <3> QED BY <3>1, <3>2, <2>2
  <2> QED BY <2>1, <2>2, <1>1 DEF HoistAnswered, Builds, Block, Fits
<1> QED BY <1>2, <1>5, OwnChildAnswered DEF HoistAnswered

\* A node whose own state and turn stay goes on owing what it owed.
LEMMA SameOwn ==
  ASSUME TurnInv, NEW n \in Nodes, Stays(n), kept' = kept,
         node'[n] = node[n], asked'[n].turn = asked[n].turn
  PROVE  \A k \in Kids(n) : Owed(n, k)' = Owed(n, k) /\ Asking(n, k)' = Asking(n, k)
<1>1. template' = template
  BY DEF Stays
<1>2. \A k \in Kids(n) : Owed(n, k)' = Owed(n, k)
  BY <1>1 DEF Owed, At, Now
<1> QED BY <1>1, <1>2 DEF Asking, At, Now, Place, ForFirst

\* What a child is owed after a reply that leaves the turn as it was.
LEMMA StillOwed ==
  ASSUME TurnInv, NEW n \in Nodes, NEW k \in Kids(n), Replied(k) => reply.is \in {"pending", "swap"}
  PROVE  Owed(n, k) = "any" \/ asked[k].turn = Owed(n, k)
<1>1. EdgeTurn(n, k)
  BY DEF TurnInv, EdgesTurn
<1> QED BY <1>1 DEF EdgeTurn, TurnAfter

LEMMA AsksAlso ==
  ASSUME TurnInv, NEW n \in Nodes, Acts(n), Stays(n), kept' = kept,
         NEW k \in Kids(n), NEW what \in {"first", "swap"}, NEW home \in Int, home # Away,
         AsksIn(n, k, what, home, node[n]), Asking(n, k), Owed(n, k) = IF what = "first" THEN "new" ELSE "live",
         \A j \in Kids(n) : Replied(j) => reply.is \in {"pending", "swap"},
         Fresh(n) => ~IsA(n, "live") /\ ~IsList(n)
  PROVE  TurnInv'
<1>1. /\ node[n] \in OwnType /\ OwnFits(n) /\ ListFits(n) /\ OnPath(n)
      /\ asked[k].turn = IF what = "first" THEN "new" ELSE "live"
  BY ActsOnPath, TurnTree, StillOwed DEF TurnTypes, TurnInv, OwnInv, ListInv
<1>2. node'[n] = node[n] /\ asked'[n].turn = asked[n].turn /\ ~Fresh(n)' /\ OnPath(n)'
  <2>1. k # n
    BY TurnTree
  <2>2. asked'[n] = asked[n]
    BY <2>1, TurnTree DEF AsksIn, TurnTypes
  <2> QED BY <2>1, <2>2, <1>1, TurnTree DEF AsksIn, TurnTypes, Fresh, OnPath
<1>3. \A j \in Kids(n) : Owed(n, j)' = Owed(n, j) /\ Asking(n, j)' = Asking(n, j)
  BY <1>2, SameOwn
<1>4. OwnFits(n)'
  BY <1>1, <1>2, StaysTree DEF OwnFits, Stays, IsA
<1>5. ListFits(n)'
  BY <1>1, <1>2, StaysTree DEF ListFits, Stays, ForFirst
<1>6. Settles(n)
  BY <1>3, <1>4, <1>5, StillOwed DEF Settles
<1> QED BY <1>1, <1>3, <1>6, AsksKeeps

LEMMA PassesAlso ==
  ASSUME TurnInv, NEW n \in Nodes, Acts(n), Stays(n), kept' = kept,
         NEW r \in ReplyType, Passes(n, r, node[n]), InTurn(r, asked[n].turn),
         r.is \in {"pending", "swap", "none", "error"},
         r.is \in {"pending", "swap"} =>
            /\ \A j \in Kids(n) : Replied(j) => reply.is \in {"pending", "swap"}
            /\ IsA(n, "live") => node[n].mode # "again"
  PROVE  TurnInv'
<1>1. node[n] \in OwnType /\ OwnFits(n) /\ OnPath(n) /\ Replies(n, r, TRUE, node[n])
  BY ActsOnPath, TurnTree DEF TurnTypes, TurnInv, OwnInv, Passes
<1>2. node'[n] = node[n] /\ asked'[n].turn = TurnAfter(r, asked[n].turn) /\ ~OnPath(n)'
  BY <1>1, TurnTree DEF Replies, TurnTypes, AskedType, OnPath
<1>3. ListFits(n)'
  BY <1>2 DEF ListFits
<1>4. CASE r.is \in {"pending", "swap"}
  <2>1. asked'[n].turn = asked[n].turn
    BY <1>2, <1>4 DEF TurnAfter
  <2>2. \A j \in Kids(n) : Owed(n, j)' = Owed(n, j)
    BY <1>2, <2>1, SameOwn
  <2>3. OwnFits(n)'
    BY <1>1, <1>2, <2>1, <1>4, StaysTree DEF OwnFits, Stays, IsA
  <2>4. Settles(n)
    BY <1>3, <1>4, <2>2, <2>3, StillOwed DEF Settles
  <2> QED BY <1>1, <2>4, RepliesKeeps
<1>5. CASE r.is \in {"none", "error"}
  <2>1. asked'[n].turn = "settled"
    BY <1>2, <1>5 DEF TurnAfter
  <2>2. \A j \in Kids(n) : Owed(n, j)' = "any"
    BY <2>1 DEF Owed
  <2>3. OwnFits(n)'
    BY <1>1, <1>2, <2>1, StaysTree DEF OwnFits, Stays, IsA
  <2>4. Settles(n)
    BY <1>3, <2>2, <2>3 DEF Settles
  <2> QED BY <1>1, <2>4, RepliesKeeps
<1> QED BY <1>4, <1>5

\* The two children of a suspense and of a boundary.
LEMMA TwoKids ==
  ASSUME TurnInv, NEW n \in Nodes, IsA(n, "suspense") \/ IsA(n, "boundary")
  PROVE  /\ template[n].kid \in Kids(n) /\ template[n].fallback \in Kids(n)
         /\ template[n].kid # template[n].fallback /\ \A k \in Kids(n) : k \in {template[n].kid, template[n].fallback}
         /\ ~IsList(n) /\ ~IsA(n, "live") /\ OwnFits(n)
         /\ template[n].kid \in Int
BY KidsOfKind, TurnTree DEF IsA, IsList, Lists, TurnInv, OwnInv

LEMMA SuspenseOwed ==
  ASSUME TurnInv, NEW n \in Nodes, IsA(n, "suspense"), asked[n].turn \in {"new", "live"}
  PROVE  /\ Owed(n, template[n].kid) =
               (CASE node[n].at = "child" -> "live" [] node[n].at = "done" -> "any" [] OTHER -> "new")
         /\ Owed(n, template[n].fallback) =
               (CASE node[n].at = "start" -> "new" [] node[n].at = "fallback" -> "live" [] OTHER -> "any")
         /\ \A k \in Kids(n) : Asking(n, k) <=> Owed(n, k) \in {"new", "live"}
BY TwoKids DEF Owed, Asking, IsA, Lists

LEMMA SuspenseAskedKeeps ==
  ASSUME TurnInv, NEW n \in Nodes, SuspenseAsked(n), Calm
  PROVE  TurnInv'
<1>0. PICK k : k = template[n].kid
  OBVIOUS
<1>1. /\ Acts(n) /\ Stays(n) /\ IsA(n, "suspense") /\ asked[n].turn \in {"new", "live"}
      /\ (\A j : ~Replied(j)) /\ kept' = kept /\ k \in Kids(n) /\ k \in Int /\ k # Away /\ OwnFits(n)
      /\ build \in Int /\ build # Away /\ ~IsList(n) /\ ~IsA(n, "live")
  <2>1. k \in Nat
    BY <1>0, TwoKids, TurnTree DEF SuspenseAsked
  <2> QED BY <1>0, <2>1, AskedActs, CalmStays, TwoKids, PathFacts, ActsOnPath, TurnTree
          DEF SuspenseAsked, TurnTypes, Away
<1>2. /\ Owed(n, k) = (CASE node[n].at = "child" -> "live" [] node[n].at = "done" -> "any" [] OTHER -> "new")
      /\ Asking(n, k) <=> Owed(n, k) \in {"new", "live"}
  BY <1>0, <1>1, SuspenseOwed
<1>3. CASE node[n].at = "done" /\ Passes(n, None, node[n])
  <2>1. InTurn(None, asked[n].turn)
    BY <1>1, <1>3, ReplyTypes DEF OwnFits, IsA, InTurn
  <2> QED BY <2>1, <1>1, <1>3, ReplyTypes, PassesAlso
<1>4. CASE node[n].at = "child" /\ Asks(n, k, "swap", node[n])
  <2>1. AsksIn(n, k, "swap", build, node[n]) /\ Owed(n, k) = "live" /\ Asking(n, k)
    BY <1>2, <1>4 DEF Asks
  <2> QED BY <2>1, <1>1, AsksAlso
<1>5. CASE node[n].at \in {"start", "fallback", "quiet"} /\ AsksSealed(n, k, node[n])
  <2>1. AsksIn(n, k, "first", k, node[n]) /\ Owed(n, k) = "new" /\ Asking(n, k)
    BY <1>2, <1>5 DEF AsksSealed
  <2> QED BY <2>1, <1>1, AsksAlso
<1> QED BY <1>0, <1>3, <1>4, <1>5 DEF SuspenseAsked

\* What the reply of a child is, by what it was owed.
LEMMA ReplyOwed ==
  ASSUME TurnInv, NEW n \in Nodes, NEW k \in Kids(n), Answers(k, n)
  PROVE  /\ Acts(n) /\ Replied(k) /\ \A j : j # k => ~Replied(j)
         /\ asked[n].turn \in {"new", "live"} /\ OnPath(n) /\ ~Fresh(n)
         /\ Asking(n, k) /\ Owed(n, k) \in {"new", "live"}
         /\ InTurn(reply, Owed(n, k)) /\ asked[k].turn = TurnAfter(reply, Owed(n, k))
         /\ reply \in ReplyType /\ reply.content \in ContentType /\ node[n] \in OwnType
         /\ reply.is \in {"pending", "none", "first", "swap", "error"} /\ reply.live \in BOOLEAN
<1>1. Acts(n) /\ Replied(k) /\ \A j : j # k => ~Replied(j)
  BY AnswersActs
<1>2. Asking(n, k) /\ EdgeTurn(n, k)
  BY <1>1 DEF TurnInv, EdgesAsk, EdgesTurn
<1>3. /\ reply \in ReplyType /\ reply.content \in ContentType /\ node[n] \in OwnType
      /\ reply.is \in {"pending", "none", "first", "swap", "error"} /\ reply.live \in BOOLEAN
  BY TurnTree DEF TurnTypes, ReplyType
<1>4. ~Fresh(n)
  BY <1>1 DEF Fresh, Replied
<1> QED BY <1>1, <1>2, <1>3, <1>4, ActsOnPath DEF Asking, EdgeTurn

LEMMA ChildAnsweredKeeps ==
  ASSUME TurnInv, NEW n \in Nodes, NEW k \in Kids(n), ChildAnswered(n, k), Calm
  PROVE  TurnInv'
<1>0. PICK f : f = template[n].fallback
  OBVIOUS
<1> DEFINE came == [node[n] EXCEPT !.at = IF reply.live THEN "child" ELSE "done"]
<1>1. /\ Acts(n) /\ Stays(n) /\ IsA(n, "suspense") /\ Answers(k, n) /\ kept' = kept
      /\ k = template[n].kid /\ f \in Kids(n) /\ f # k /\ \A j \in Kids(n) : j \in {k, f}
      /\ ~IsList(n) /\ ~IsA(n, "live") /\ OwnFits(n) /\ build \in Int /\ build # Away /\ n \in Int
  BY <1>0, CalmStays, AnswersActs, TwoKids, PathFacts, TurnTree DEF ChildAnswered, TurnTypes
<1>2. /\ asked[n].turn \in {"new", "live"} /\ Asking(n, k) /\ Owed(n, k) \in {"new", "live"}
      /\ InTurn(reply, Owed(n, k)) /\ asked[k].turn = TurnAfter(reply, Owed(n, k))
      /\ reply \in ReplyType /\ reply.content \in ContentType /\ node[n] \in OwnType
      /\ reply.live \in BOOLEAN /\ ~Fresh(n) /\ \A j : j # k => ~Replied(j)
  BY <1>1, ReplyOwed
<1>3. /\ Owed(n, k) = (CASE node[n].at = "child" -> "live" [] node[n].at = "done" -> "any" [] OTHER -> "new")
      /\ Owed(n, f) = (CASE node[n].at = "start" -> "new" [] node[n].at = "fallback" -> "live" [] OTHER -> "any")
      /\ Asking(n, f) <=> Owed(n, f) \in {"new", "live"}
  BY <1>0, <1>1, <1>2, SuspenseOwed
<1>4. /\ asked[n].turn = "new" <=> node[n].at = "start"
      /\ node[n].at \in {"start", "fallback", "quiet", "child", "done"}
  BY <1>1, <1>2 DEF OwnFits, IsA
<1>5. ASSUME NEW at \in {"child", "done"}, NEW r \in ReplyType, InTurn(r, asked[n].turn),
             Passes(n, r, [node[n] EXCEPT !.at = at]),
             TurnAfter(r, asked[n].turn) = "settled" \/ (TurnAfter(r, asked[n].turn) = "live"
                /\ (at = "child" => asked[k].turn = "live"))
      PROVE  TurnInv'
  <2>1. PICK own : own = [node[n] EXCEPT !.at = at]
    OBVIOUS
  <2>2. own \in OwnType /\ own.at = at /\ Replies(n, r, TRUE, own)
    BY <2>1, <1>2, <1>5 DEF OwnType, Passes
  <2>3. node'[n] = own /\ asked'[n].turn = TurnAfter(r, asked[n].turn)
    BY <2>2, TurnTree DEF Replies, TurnTypes, AskedType
  <2>4. \A j \in Kids(n) : Owed(n, j)' = "any" \/ Owed(n, j)' = asked[j].turn
    BY <2>2, <2>3, <1>0, <1>1, <1>5, StaysTree DEF Owed, Lists, Stays, IsA
  <2>5. OwnFits(n)' /\ ListFits(n)'
    BY <2>2, <2>3, <1>1, <1>5, StaysTree DEF OwnFits, ListFits, Stays, IsA
  <2> QED BY <2>2, <2>4, <2>5, <1>1, <1>5, RepliesKeeps DEF Settles
<1>6. CASE reply.is = "first" /\ Passes(n, IF ForFirst(n) THEN reply ELSE Swap(n, reply.content), came)
  <2>1. Owed(n, k) = "new" /\ asked[k].turn = (IF reply.live THEN "live" ELSE "settled")
    BY <1>2, <1>6 DEF InTurn, TurnAfter
  <2>2. PICK at \in {"child", "done"} : at = IF reply.live THEN "child" ELSE "done"
    OBVIOUS
  <2>3. PICK r : r = IF ForFirst(n) THEN reply ELSE Swap(n, reply.content)
    OBVIOUS
  <2>4. r \in ReplyType /\ r.is = (IF asked[n].turn = "new" THEN "first" ELSE "swap")
    BY <2>3, <1>1, <1>2, <1>6, ReplyTypes DEF ForFirst
  <2>5. /\ InTurn(r, asked[n].turn)
        /\ \/ TurnAfter(r, asked[n].turn) = "settled"
           \/ TurnAfter(r, asked[n].turn) = "live" /\ (at = "child" => asked[k].turn = "live")
    BY <2>1, <2>2, <2>3, <2>4, <1>2 DEF InTurn, TurnAfter, ForFirst
  <2> QED BY <2>2, <2>3, <2>4, <2>5, <1>5, <1>6
<1>7. CASE reply.is = "none" /\ Passes(n, reply, [node[n] EXCEPT !.at = "done"])
  <2>1. Owed(n, k) = "live" /\ asked[n].turn = "live"
    BY <1>2, <1>3, <1>4, <1>7 DEF InTurn
  <2> QED BY <2>1, <1>2, <1>5, <1>7 DEF InTurn, TurnAfter
<1>8. CASE reply.is \in {"swap", "error"} /\ Passes(n, reply, node[n])
  <2>1. InTurn(reply, asked[n].turn)
    BY <1>2, <1>3, <1>4, <1>8 DEF InTurn
  <2>2. reply.is = "swap" => \A j \in Kids(n) : Replied(j) => reply.is \in {"pending", "swap"}
    OBVIOUS
  <2> QED BY <2>1, <2>2, <1>1, <1>2, <1>8, PassesAlso
<1>9. ASSUME reply.is = "pending" PROVE InTurn(reply, asked[n].turn)
  BY <1>9 DEF InTurn
<1>10. CASE reply.is = "pending" /\ ForFirst(n) /\ Asks(n, f, "first", node[n])
  <2>1. AsksIn(n, f, "first", build, node[n]) /\ Owed(n, f) = "new" /\ Asking(n, f)
    BY <1>3, <1>4, <1>10 DEF Asks, ForFirst
  <2> QED BY <2>1, <1>1, <1>10, AsksAlso
<1>11. CASE reply.is = "pending" /\ node[n].at = "fallback" /\ Asks(n, f, "swap", node[n])
  <2>1. AsksIn(n, f, "swap", build, node[n]) /\ Owed(n, f) = "live" /\ Asking(n, f)
    BY <1>3, <1>4, <1>11 DEF Asks
  <2> QED BY <2>1, <1>1, <1>11, AsksAlso
<1>12. CASE reply.is = "pending" /\ Passes(n, reply, node[n])
  BY <1>9, <1>1, <1>2, <1>12, PassesAlso
<1> QED BY <1>0, <1>6, <1>7, <1>8, <1>10, <1>11, <1>12 DEF ChildAnswered

LEMMA FallbackAnsweredKeeps ==
  ASSUME TurnInv, NEW n \in Nodes, NEW k \in Kids(n), FallbackAnswered(n, k), Calm
  PROVE  TurnInv'
<1>0. PICK c : c = template[n].kid
  OBVIOUS
<1>1. /\ Acts(n) /\ Stays(n) /\ IsA(n, "suspense") /\ Answers(k, n) /\ kept' = kept
      /\ k = template[n].fallback /\ c \in Kids(n) /\ c # k /\ \A j \in Kids(n) : j \in {k, c}
      /\ ~IsList(n) /\ ~IsA(n, "live") /\ OwnFits(n) /\ build \in Int /\ n \in Nat
  BY <1>0, CalmStays, AnswersActs, TwoKids, PathFacts, TurnTree DEF FallbackAnswered, TurnTypes
<1>2. /\ asked[n].turn \in {"new", "live"} /\ Asking(n, k) /\ Owed(n, k) \in {"new", "live"}
      /\ InTurn(reply, Owed(n, k)) /\ asked[k].turn = TurnAfter(reply, Owed(n, k))
      /\ reply \in ReplyType /\ reply.content \in ContentType /\ node[n] \in OwnType
      /\ reply.live \in BOOLEAN /\ ~Fresh(n) /\ \A j : j # k => ~Replied(j)
  BY <1>1, ReplyOwed
<1>3. /\ Owed(n, c) = (CASE node[n].at = "child" -> "live" [] node[n].at = "done" -> "any" [] OTHER -> "new")
      /\ Owed(n, k) = (CASE node[n].at = "start" -> "new" [] node[n].at = "fallback" -> "live" [] OTHER -> "any")
      /\ Owed(n, c) = "any" \/ asked[c].turn = Owed(n, c)
  BY <1>0, <1>1, <1>2, SuspenseOwed, SameOwed
<1>4. asked[n].turn = "new" <=> node[n].at = "start"
  BY <1>1, <1>2 DEF OwnFits, IsA
<1>5. ASSUME NEW at \in {"fallback", "quiet"}, NEW r \in ReplyType, NEW fits \in BOOLEAN,
             Replies(n, r, fits, [node[n] EXCEPT !.at = at]), InTurn(r, asked[n].turn),
             TurnAfter(r, asked[n].turn) = "live", at = "fallback" => asked[k].turn = "live",
             node[n].at \in {"start", "fallback", "quiet"}
      PROVE  TurnInv'
  <2>1. PICK own : own = [node[n] EXCEPT !.at = at]
    OBVIOUS
  <2>2. own \in OwnType /\ own.at = at /\ Replies(n, r, fits, own)
    BY <2>1, <1>2, <1>5 DEF OwnType
  <2>3. node'[n] = own /\ asked'[n].turn = "live"
    BY <2>2, <1>5, TurnTree DEF Replies, TurnTypes, AskedType
  <2>4. \A j \in Kids(n) : Owed(n, j)' = "any" \/ Owed(n, j)' = asked[j].turn
    BY <2>2, <2>3, <1>0, <1>1, <1>3, <1>5, StaysTree DEF Owed, Lists, Stays, IsA
  <2>5. OwnFits(n)' /\ ListFits(n)'
    BY <2>2, <2>3, <1>1, <1>5, StaysTree DEF OwnFits, ListFits, Stays, IsA
  <2> QED BY <2>2, <2>4, <2>5, <1>1, <1>5, RepliesKeeps DEF Settles
<1>6. CASE /\ reply.is = "first"
           /\ Builds(n, First(Region(n, reply.content), TRUE), {reply.content},
                     [node[n] EXCEPT !.at = IF reply.live THEN "fallback" ELSE "quiet"])
  <2>1. node[n].at = "start" /\ asked[n].turn = "new" /\ asked[k].turn = (IF reply.live THEN "live" ELSE "settled")
    BY <1>2, <1>3, <1>4, <1>6 DEF InTurn, TurnAfter
  <2>2. PICK at \in {"fallback", "quiet"} : at = IF reply.live THEN "fallback" ELSE "quiet"
    OBVIOUS
  <2>3. PICK r : r = First(Region(n, reply.content), TRUE)
    OBVIOUS
  <2>4. r \in ReplyType /\ r.is = "first" /\ r.live = TRUE
    <3>1. Region(n, reply.content) \in ContentType
      BY <1>1, <1>2, ContentTypes
    <3> QED BY <3>1, <2>3, ReplyTypes
  <2>5. InTurn(r, asked[n].turn) /\ TurnAfter(r, asked[n].turn) = "live"
    BY <2>1, <2>4 DEF InTurn, TurnAfter
  <2>6. PICK fits \in BOOLEAN : Replies(n, r, fits, [node[n] EXCEPT !.at = at])
    BY <2>2, <2>3, <1>6 DEF Builds, Fits
  <2> QED BY <2>1, <2>2, <2>4, <2>5, <2>6, <1>2, <1>5
<1>7. CASE reply.is = "none" /\ Passes(n, Pending, [node[n] EXCEPT !.at = "quiet"])
  <2>1. node[n].at = "fallback" /\ asked[n].turn = "live"
    BY <1>2, <1>3, <1>4, <1>7 DEF InTurn
  <2>2. Replies(n, Pending, TRUE, [node[n] EXCEPT !.at = "quiet"])
    BY <1>7 DEF Passes
  <2>3. InTurn(Pending, asked[n].turn) /\ TurnAfter(Pending, asked[n].turn) = "live"
    BY <2>1, ReplyTypes DEF InTurn, TurnAfter
  <2> QED BY <2>1, <2>2, <2>3, <1>5, ReplyTypes
<1>8. CASE reply.is \in {"pending", "swap", "error"} /\ Passes(n, reply, node[n])
  <2>1. InTurn(reply, asked[n].turn)
    BY <1>2, <1>3, <1>4, <1>8 DEF InTurn
  <2> QED BY <2>1, <1>1, <1>2, <1>8, PassesAlso
<1> QED BY <1>6, <1>7, <1>8 DEF FallbackAnswered

LEMMA BoundaryOwed ==
  ASSUME TurnInv, NEW n \in Nodes, IsA(n, "boundary"), asked[n].turn \in {"new", "live"}
  PROVE  /\ Owed(n, template[n].kid) = (IF node[n].at = "fallback" THEN "any" ELSE asked[n].turn)
         /\ Owed(n, template[n].fallback) =
               (IF node[n].at # "fallback" \/ node[n].emit = "first" THEN "new"
                ELSE IF node[n].emit = "swaps" THEN "live" ELSE "any")
         /\ Asking(n, template[n].kid) <=> node[n].at # "fallback"
         /\ Asking(n, template[n].fallback) <=> node[n].at = "fallback" /\ node[n].emit \in {"first", "swaps"}
         /\ node[n].at \in {"start", "fallback"} /\ node[n].emit \in {"first", "swaps", "done"}
         /\ (node[n].at = "start" => node[n].emit = "first")
         /\ (asked[n].turn = "new" => node[n].emit = "first")
<1>1. node[n].emit \in {"first", "swaps", "done"}
  BY TurnTree DEF TurnTypes, OwnType
<1> QED BY <1>1, TwoKids DEF Owed, Asking, IsA, Lists, OwnFits

LEMMA RecoversKeeps ==
  ASSUME TurnInv, NEW n \in Nodes, Acts(n), Stays(n), kept' = kept, IsA(n, "boundary"),
         ~Replied(template[n].fallback), NEW own \in OwnType, own.at = "fallback", own.emit = node[n].emit,
         Recovers(n, own)
  PROVE  TurnInv'
<1>0. PICK c, f : c = template[n].kid /\ f = template[n].fallback
  OBVIOUS
<1>1. /\ asked[n].turn \in {"new", "live"} /\ build \in Int /\ build # Away
      /\ c \in Kids(n) /\ f \in Kids(n) /\ f # c /\ \A j \in Kids(n) : j \in {c, f}
      /\ ~IsList(n) /\ ~IsA(n, "live") /\ f # n /\ f \in Int /\ f # Away
  BY <1>0, ActsOnPath, TwoKids, PathFacts, TurnTree DEF TurnTypes, Away
<1>2. /\ Owed(n, f) = (IF node[n].at # "fallback" \/ node[n].emit = "first" THEN "new"
                       ELSE IF node[n].emit = "swaps" THEN "live" ELSE "any")
      /\ node[n].at \in {"start", "fallback"} /\ node[n].emit \in {"first", "swaps", "done"}
      /\ node[n].at = "start" => node[n].emit = "first"
      /\ asked[n].turn = "new" => node[n].emit = "first"
      /\ Owed(n, f) = "any" \/ asked[f].turn = Owed(n, f)
  BY <1>0, <1>1, BoundaryOwed, SameOwed
<1>3. ASSUME NEW what \in {"first", "swap"}, NEW home \in Int, home # Away, AsksIn(n, f, what, home, own),
             node[n].emit = IF what = "first" THEN "first" ELSE "swaps"
      PROVE  TurnInv'
  <2>1. node'[n] = own /\ asked'[n].turn = asked[n].turn
    BY <1>1, <1>3, TurnTree DEF AsksIn, TurnTypes
  <2>2. /\ Owed(n, f)' = IF what = "first" THEN "new" ELSE "live"
        /\ Owed(n, c)' = "any"
    BY <2>1, <1>0, <1>1, <1>3, StaysTree DEF Owed, Lists, Stays, IsA
  <2>3. Asking(n, f)'
    BY <2>1, <2>2, <1>0, <1>1, <1>3, StaysTree DEF Asking, Lists, Stays, IsA
  <2>4. OwnFits(n)' /\ ListFits(n)'
    BY <2>1, <1>1, <1>2, StaysTree DEF OwnFits, ListFits, Stays, IsA
  <2>5. asked[f].turn = IF what = "first" THEN "new" ELSE "live"
    BY <1>2, <1>3
  <2>6. Settles(n)
    BY <2>2, <2>4, <2>5, <1>1 DEF Settles
  <2> QED BY <2>3, <2>5, <2>6, <1>1, <1>3, AsksKeeps
<1>4. CASE ForFirst(n) /\ Asks(n, f, "first", own)
  BY <1>1, <1>2, <1>3, <1>4 DEF Asks, ForFirst
<1>5. CASE node[n].emit = "first" /\ AsksSealed(n, f, own)
  BY <1>1, <1>2, <1>3, <1>5 DEF AsksSealed
<1>6. CASE node[n].emit = "swaps" /\ Asks(n, f, "swap", own)
  BY <1>1, <1>2, <1>3, <1>6 DEF Asks
<1>7. CASE node[n].emit = "done" /\ Passes(n, None, own)
  <2>1. InTurn(None, asked[n].turn) /\ TurnAfter(None, asked[n].turn) = "settled" /\ Replies(n, None, TRUE, own)
    BY <1>1, <1>2, <1>7, ReplyTypes DEF InTurn, TurnAfter, Passes
  <2>2. node'[n] = own /\ asked'[n].turn = "settled"
    BY <2>1, TurnTree DEF Replies, TurnTypes, AskedType
  <2>3. \A j \in Kids(n) : Owed(n, j)' = "any"
    BY <2>2 DEF Owed
  <2>4. OwnFits(n)' /\ ListFits(n)'
    BY <2>2, <1>1, StaysTree DEF OwnFits, ListFits, Stays, IsA
  <2> QED BY <2>1, <2>3, <2>4, ReplyTypes, RepliesKeeps DEF Settles
<1> QED BY <1>0, <1>4, <1>5, <1>6, <1>7 DEF Recovers

LEMMA BoundaryAskedKeeps ==
  ASSUME TurnInv, NEW n \in Nodes, BoundaryAsked(n), Calm
  PROVE  TurnInv'
<1>0. PICK c : c = template[n].kid
  OBVIOUS
<1>1. /\ Acts(n) /\ Stays(n) /\ IsA(n, "boundary") /\ kept' = kept /\ \A j : ~Replied(j)
      /\ poll.does \in {"first", "swap"} /\ (poll.does = "first" <=> asked[n].turn = "new")
      /\ asked[n].turn \in {"new", "live"} /\ node[n] \in OwnType /\ build \in Int /\ build # Away
      /\ c \in Kids(n) /\ ~IsList(n) /\ ~IsA(n, "live")
  BY <1>0, AskedActs, CalmStays, TwoKids, PathFacts, ActsOnPath, TurnTree DEF BoundaryAsked, TurnTypes
<1>2. /\ Owed(n, c) = (IF node[n].at = "fallback" THEN "any" ELSE asked[n].turn)
      /\ Asking(n, c) <=> node[n].at # "fallback"
  BY <1>0, <1>1, BoundaryOwed
<1>3. CASE node[n].at = "fallback" /\ Recovers(n, node[n])
  BY <1>1, <1>3, RecoversKeeps
<1>4. CASE node[n].at # "fallback" /\ Asks(n, c, poll.does, node[n])
  <2>1. AsksIn(n, c, poll.does, build, node[n])
    BY <1>4 DEF Asks
  <2>2. Asking(n, c) /\ Owed(n, c) = IF poll.does = "first" THEN "new" ELSE "live"
    BY <1>1, <1>2, <1>4
  <2> QED BY <2>1, <2>2, <1>1, AsksAlso
<1> QED BY <1>0, <1>3, <1>4 DEF BoundaryAsked

LEMMA GuardedAnsweredKeeps ==
  ASSUME TurnInv, NEW n \in Nodes, NEW k \in Kids(n), GuardedAnswered(n, k), Calm
  PROVE  TurnInv'
<1>0. PICK f : f = template[n].fallback
  OBVIOUS
<1>1. /\ Acts(n) /\ Stays(n) /\ IsA(n, "boundary") /\ Answers(k, n) /\ kept' = kept
      /\ k = template[n].kid /\ f \in Kids(n) /\ f # k /\ \A j \in Kids(n) : j \in {k, f}
      /\ ~IsList(n) /\ ~IsA(n, "live") /\ OwnFits(n) /\ build \in Int /\ n \in Nat
  BY <1>0, CalmStays, AnswersActs, TwoKids, TurnTree DEF GuardedAnswered, TurnTypes
<1>2. /\ asked[n].turn \in {"new", "live"} /\ Asking(n, k) /\ ~Fresh(n) /\ \A j : j # k => ~Replied(j)
      /\ InTurn(reply, Owed(n, k)) /\ asked[k].turn = TurnAfter(reply, Owed(n, k))
      /\ reply \in ReplyType /\ reply.content \in ContentType /\ node[n] \in OwnType
      /\ reply.live \in BOOLEAN /\ reply.is \in {"pending", "none", "first", "swap", "error"}
  BY <1>1, ReplyOwed
<1>3. /\ node[n].at = "start" /\ node[n].emit = "first" /\ Owed(n, k) = asked[n].turn /\ Owed(n, f) = "new"
      /\ asked[f].turn = "new"
  BY <1>0, <1>1, <1>2, BoundaryOwed, SameOwed
<1>4. ASSUME NEW r \in ReplyType, NEW fits \in BOOLEAN, Replies(n, r, fits, node[n]),
             r.is = reply.is, r.live = reply.live
      PROVE  TurnInv'
  <2>1. node'[n] = node[n] /\ asked'[n].turn = TurnAfter(r, asked[n].turn)
    BY <1>4, TurnTree DEF Replies, TurnTypes, AskedType
  <2>2. asked'[n].turn = asked[k].turn
    BY <2>1, <1>2, <1>3, <1>4 DEF TurnAfter
  <2>3. Owed(n, k)' \in {"any", asked[k].turn} /\ Owed(n, f)' \in {"any", "new"}
    BY <2>1, <2>2, <1>0, <1>1, <1>3, StaysTree DEF Owed, Lists, Stays, IsA
  <2>4. OwnFits(n)' /\ ListFits(n)'
    BY <2>1, <1>1, <1>3, StaysTree DEF OwnFits, ListFits, Stays, IsA
  <2>5. Settles(n)
    BY <2>3, <2>4, <1>1, <1>3 DEF Settles
  <2>6. InTurn(r, asked[n].turn)
    BY <1>2, <1>3, <1>4 DEF InTurn
  <2> QED BY <2>5, <2>6, <1>1, <1>2, <1>4, RepliesKeeps
<1>5. CASE Recovers(n, [node[n] EXCEPT !.at = "fallback"])
  <2>1. PICK own : own = [node[n] EXCEPT !.at = "fallback"]
    OBVIOUS
  <2>2. own \in OwnType /\ own.at = "fallback" /\ own.emit = node[n].emit
    BY <2>1, <1>2 DEF OwnType
  <2> QED BY <2>1, <2>2, <1>0, <1>1, <1>2, <1>5, RecoversKeeps
<1>6. CASE /\ reply.is = "first" /\ reply.live
           /\ Builds(n, First(Region(n, reply.content), TRUE), {reply.content}, node[n])
  <2>1. PICK r : r = First(Region(n, reply.content), TRUE)
    OBVIOUS
  <2>2. Region(n, reply.content) \in ContentType
    BY <1>1, <1>2, ContentTypes
  <2>3. r \in ReplyType /\ r.is = "first" /\ r.live = TRUE
    BY <2>1, <2>2, ReplyTypes
  <2>4. PICK fits \in BOOLEAN : Replies(n, r, fits, node[n])
    BY <2>1, <1>6 DEF Builds, Fits
  <2> QED BY <2>3, <2>4, <1>4, <1>6, <1>2
<1>7. CASE Passes(n, reply, node[n])
  BY <1>2, <1>4, <1>7 DEF Passes
<1> QED BY <1>5, <1>6, <1>7 DEF GuardedAnswered

LEMMA RecoveryAnsweredKeeps ==
  ASSUME TurnInv, NEW n \in Nodes, NEW k \in Kids(n), RecoveryAnswered(n, k), Calm
  PROVE  TurnInv'
<1>0. PICK c : c = template[n].kid
  OBVIOUS
<1>1. /\ Acts(n) /\ Stays(n) /\ IsA(n, "boundary") /\ Answers(k, n) /\ kept' = kept
      /\ k = template[n].fallback /\ c \in Kids(n) /\ c # k /\ \A j \in Kids(n) : j \in {k, c}
      /\ ~IsList(n) /\ ~IsA(n, "live") /\ OwnFits(n) /\ n \in Int
  BY <1>0, CalmStays, AnswersActs, TwoKids, TurnTree DEF RecoveryAnswered
<1>2. /\ asked[n].turn \in {"new", "live"} /\ Asking(n, k) /\ ~Fresh(n) /\ \A j : j # k => ~Replied(j)
      /\ InTurn(reply, Owed(n, k)) /\ asked[k].turn = TurnAfter(reply, Owed(n, k))
      /\ reply \in ReplyType /\ reply.content \in ContentType /\ node[n] \in OwnType
      /\ reply.live \in BOOLEAN /\ reply.is \in {"pending", "none", "first", "swap", "error"}
  BY <1>1, ReplyOwed
<1>3. /\ node[n].at = "fallback" /\ node[n].emit \in {"first", "swaps"}
      /\ Owed(n, k) = (IF node[n].emit = "first" THEN "new" ELSE "live")
      /\ asked[n].turn = "new" => node[n].emit = "first"
  BY <1>0, <1>1, <1>2, BoundaryOwed
<1>4. ASSUME NEW emit \in {"swaps", "done"}, NEW r \in ReplyType, Passes(n, r, [node[n] EXCEPT !.emit = emit]),
             InTurn(r, asked[n].turn),
             TurnAfter(r, asked[n].turn) = "settled" \/ (TurnAfter(r, asked[n].turn) = "live"
                /\ (emit = "swaps" => asked[k].turn = "live"))
      PROVE  TurnInv'
  <2>1. PICK own : own = [node[n] EXCEPT !.emit = emit]
    OBVIOUS
  <2>2. own \in OwnType /\ own.at = "fallback" /\ own.emit = emit /\ Replies(n, r, TRUE, own)
    BY <2>1, <1>2, <1>3, <1>4 DEF OwnType, Passes
  <2>3. node'[n] = own /\ asked'[n].turn = TurnAfter(r, asked[n].turn)
    BY <2>2, TurnTree DEF Replies, TurnTypes, AskedType
  <2>4. \A j \in Kids(n) : Owed(n, j)' = "any" \/ Owed(n, j)' = asked[j].turn
    BY <2>2, <2>3, <1>0, <1>1, <1>4, StaysTree DEF Owed, Lists, Stays, IsA
  <2>5. OwnFits(n)' /\ ListFits(n)'
    BY <2>2, <2>3, <1>1, <1>4, StaysTree DEF OwnFits, ListFits, Stays, IsA
  <2> QED BY <2>2, <2>4, <2>5, <1>1, <1>4, RepliesKeeps DEF Settles
<1>5. CASE /\ reply.is = "first"
           /\ Passes(n, IF ForFirst(n) THEN reply ELSE Swap(n, reply.content), Emitted(n))
  <2>1. Owed(n, k) = "new" /\ asked[k].turn = (IF reply.live THEN "live" ELSE "settled")
    BY <1>2, <1>3, <1>5 DEF InTurn, TurnAfter
  <2>2. PICK emit \in {"swaps", "done"} : emit = IF reply.live THEN "swaps" ELSE "done"
    OBVIOUS
  <2>3. PICK r : r = IF ForFirst(n) THEN reply ELSE Swap(n, reply.content)
    OBVIOUS
  <2>4. r \in ReplyType /\ r.is = (IF asked[n].turn = "new" THEN "first" ELSE "swap")
    BY <2>3, <1>1, <1>2, <1>5, ReplyTypes DEF ForFirst
  <2>5. /\ InTurn(r, asked[n].turn)
        /\ \/ TurnAfter(r, asked[n].turn) = "settled"
           \/ TurnAfter(r, asked[n].turn) = "live" /\ (emit = "swaps" => asked[k].turn = "live")
    BY <2>1, <2>2, <2>3, <2>4, <1>2 DEF InTurn, TurnAfter, ForFirst
  <2>6. Passes(n, r, [node[n] EXCEPT !.emit = emit])
    BY <2>2, <2>3, <1>5 DEF Emitted
  <2> QED BY <2>2, <2>4, <2>5, <2>6, <1>4
<1>6. CASE reply.is = "none" /\ Passes(n, reply, [node[n] EXCEPT !.emit = "done"])
  <2>1. asked[n].turn = "live"
    BY <1>2, <1>3, <1>6 DEF InTurn
  <2> QED BY <2>1, <1>2, <1>4, <1>6 DEF InTurn, TurnAfter
<1>7. CASE reply.is \in {"pending", "swap", "error"} /\ Passes(n, reply, node[n])
  <2>1. InTurn(reply, asked[n].turn)
    BY <1>2, <1>3, <1>7 DEF InTurn
  <2> QED BY <2>1, <1>1, <1>2, <1>7, PassesAlso
<1> QED BY <1>5, <1>6, <1>7 DEF RecoveryAnswered

-----------------------------------------------------------------------------
(* Lists.                                                                   *)

\* The concatenation of sequences over S is one.
LEMMA FlattenTypes ==
  ASSUME NEW S, NEW N \in Nat, NEW seqs \in [1..N -> Seq(S)]
  PROVE  FlattenSeq(seqs) \in Seq(S)
<1>1. seqs \in Seq(Seq(S)) /\ Len(seqs) = N
  <2>1. seqs \in Seq(Seq(S))
    BY SeqDef
  <2> QED BY <2>1, LenProperties
<1>2. CASE N = 0
  <2>1. seqs = <<>>
    BY <1>1, <1>2
  <2>2. FlattenSeq(seqs) = seqs
    BY <1>1, <1>2 DEF FlattenSeq
  <2> QED BY <2>1, <2>2, EmptySeq
<1>3. CASE N # 0
  <2>1. PICK M \in Nat : N = M + 1
    BY <1>3
  <2>2. PICK G : G = [p \in Nat \X Seq(S) |-> p[2] \o seqs[p[1] + 1]]
    OBVIOUS
  <2>3. PICK T : T = (0..M) \X Seq(S)
    OBVIOUS
  <2>4. \A m \in Nat : \A x \in Seq(S) : G[<<m, x>>] = x \o seqs[m + 1]
    BY <2>2
  <2>5. T \in SUBSET (Nat \X Seq(S)) /\ \A m : \A x : <<m, x>> \in T <=> m \in 0..M /\ x \in Seq(S)
    BY <2>3
  <2>6. Leads(G, M, T)
    <3>1. SUFFICES ASSUME NEW m \in Nat, NEW x, m < M, <<m, x>> \in T PROVE <<m + 1, G[<<m + 1, x>>]>> \in T
      BY DEF Leads
    <3>2. x \in Seq(S) /\ seqs[(m + 1) + 1] \in Seq(S) /\ m + 1 \in 0..M
      BY <3>1, <2>1, <2>5
    <3>3. m + 1 \in Nat
      OBVIOUS
    <3>4. G[<<m + 1, x>>] = x \o seqs[(m + 1) + 1]
      BY <3>2, <3>3, <2>4, Zenon
    <3>5. x \o seqs[(m + 1) + 1] \in Seq(S)
      BY <3>2
    <3> QED BY <3>2, <3>4, <3>5, <2>5, Zenon
  <2>7. seqs[1] \in Seq(S) /\ <<0, seqs[1]>> \in T
    BY <2>1, <2>5
  <2>8. PICK g : Follows(g, G, M, T, seqs[1])
    BY <2>5, <2>6, <2>7, Folding
  <2>9. PICK f : f = [i \in 1..N |-> g[i - 1]]
    OBVIOUS
  <2>10. f = [i \in 1..N |-> IF i = 1 THEN seqs[i] ELSE f[i - 1] \o seqs[i]]
    <3>1. ASSUME NEW i \in 1..N PROVE f[i] = IF i = 1 THEN seqs[i] ELSE f[i - 1] \o seqs[i]
      <4>1. CASE i = 1
        <5>1. g[0] = seqs[1] /\ f[1] = g[1 - 1] /\ 1 - 1 = 0
          BY <2>1, <2>8, <2>9 DEF Follows
        <5> QED BY <4>1, <5>1
      <4>2. CASE i # 1
        <5>1. PICK m \in Nat : m = i - 2 /\ i - 1 = m + 1 /\ i = (m + 1) + 1 /\ (i - 1) - 1 = m
                               /\ m + 1 \in 0..M /\ m \in 0..M /\ m + 1 # 0 /\ (m + 1) - 1 = m
          BY <4>2, <2>1
        <5>2. g[m + 1] = G[<<m + 1, g[(m + 1) - 1]>>] /\ <<m, g[m]>> \in T
          BY <5>1, <2>8 DEF Follows
        <5>3. g[m] \in Seq(S)
          BY <5>2, <2>5
        <5>4. g[m + 1] = g[m] \o seqs[(m + 1) + 1]
          <6>1. m + 1 \in Nat /\ G[<<m + 1, g[m]>>] = g[m] \o seqs[(m + 1) + 1]
            BY <5>3, <2>4, m + 1 \in Nat, Zenon
          <6> QED BY <6>1, <5>1, <5>2
        <5>5. f[i] = g[i - 1] /\ f[i - 1] = g[(i - 1) - 1]
          BY <2>1, <2>9, <4>2
        <5> QED BY <5>1, <5>4, <5>5, <4>2
      <4> QED BY <4>1, <4>2
    <3> QED BY <3>1, <2>9
  <2>11. PICK flatten : /\ flatten = [i \in 1..N |-> IF i = 1 THEN seqs[i] ELSE flatten[i - 1] \o seqs[i]]
                        /\ FlattenSeq(seqs) = flatten[N]
    BY <2>10, <1>1, <1>3 DEF FlattenSeq
  <2>12. PICK after : after = [m \in 0..M |-> flatten[m + 1]]
    OBVIOUS
  <2>13. after[0] = seqs[1] /\ after[M] = FlattenSeq(seqs)
    <3>1. after[0] = flatten[0 + 1] /\ after[M] = flatten[M + 1]
      BY <2>12
    <3>2. flatten[1] = seqs[1]
      BY <2>1, <2>11
    <3> QED BY <3>1, <3>2, <2>1, <2>11
  <2>14. FollowsOn(after, G, M, T)
    <3>1. SUFFICES ASSUME NEW m \in Nat, m < M, <<m, after[m]>> \in T
                   PROVE  after[m + 1] = G[<<m + 1, after[m]>>]
      BY DEF FollowsOn
    <3>2. after[m] = flatten[m + 1] /\ after[m + 1] = flatten[(m + 1) + 1] /\ after[m] \in Seq(S)
      BY <3>1, <2>5, <2>12
    <3>3. (m + 1) + 1 \in 1..N /\ (m + 1) + 1 # 1 /\ ((m + 1) + 1) - 1 = m + 1
      BY <3>1, <2>1
    <3>4. flatten[(m + 1) + 1] = flatten[((m + 1) + 1) - 1] \o seqs[(m + 1) + 1]
      BY <3>3, <2>11
    <3>5. G[<<m + 1, after[m]>>] = after[m] \o seqs[(m + 1) + 1]
      BY <3>2, <2>4, m + 1 \in Nat, Zenon
    <3>6. flatten[(m + 1) + 1] = flatten[m + 1] \o seqs[(m + 1) + 1]
      BY <3>3, <3>4
    <3> QED BY <3>2, <3>5, <3>6
  <2>15. <<M, after[M]>> \in T
    BY <2>6, <2>7, <2>13, <2>14, FoldEnd
  <2> QED BY <2>5, <2>13, <2>15
<1> QED BY <1>2, <1>3

LEMMA Modulo == \A a \in Nat, b \in Nat \ {0} : a % b \in 0..b - 1
OBVIOUS

\* What a list knows of its children, and which one its scan has come to.
LEMMA ListFacts ==
  ASSUME TurnInv, NEW n \in Nodes, IsList(n), asked[n].turn \in {"new", "live"}
  PROVE  /\ template[n].kids \in Seq(Nat) /\ Len(template[n].kids) \in Nat
         /\ \A i \in 1..Len(template[n].kids) : template[n].kids[i] \in Kids(n)
         /\ \A k \in Kids(n) : \E i \in 1..Len(template[n].kids) : template[n].kids[i] = k
         /\ \A i, j \in 1..Len(template[n].kids) : template[n].kids[i] = template[n].kids[j] => i = j
         /\ \A i \in Nat : i < Len(template[n].kids) => Place(n, i) + 1 \in 1..Len(template[n].kids)
         /\ \A k \in Kids(n) : Owed(n, k) = (IF ForFirst(n) /\ kept[k].held = <<>> THEN "new"
                                            ELSE IF kept[k].over THEN "any" ELSE "live")
         /\ \A k \in Kids(n) : Asking(n, k) <=>
               /\ Owed(n, k) \in {"new", "live"} /\ node[n].scan < Len(template[n].kids)
               /\ ForFirst(n) => k = template[n].kids[node[n].scan + 1] /\ kept[k].held = <<>>
               /\ ~ForFirst(n) => k = template[n].kids[Place(n, node[n].scan) + 1]
         /\ node[n] \in OwnType /\ node[n].scan \in Nat /\ node[n].next \in Nat
         /\ ~IsA(n, "live") /\ OwnFits(n) /\ ListFits(n)
<1>1. node[n] \in OwnType /\ node[n].scan \in Nat /\ node[n].next \in Nat /\ OwnFits(n) /\ ListFits(n)
  BY TurnTree DEF TurnTypes, OwnType, TurnInv, OwnInv, ListInv
<1>2. template[n].kind \in Lists /\ template[n].kind \notin {"then", "suspense", "live", "boundary", "hoist", "text"}
  BY DEF IsList, Lists
<1>3. Len(template[n].kids) \in Nat
  BY KidsOfKind, TurnTree
<1>4. \A i \in Nat : i < Len(template[n].kids) => Place(n, i) + 1 \in 1..Len(template[n].kids)
  <2>1. SUFFICES ASSUME NEW i \in Nat, i < Len(template[n].kids) PROVE Place(n, i) + 1 \in 1..Len(template[n].kids)
    OBVIOUS
  <2>2. node[n].next + i \in Nat /\ Len(template[n].kids) \in Nat \ {0}
    BY <1>1, <1>3, <2>1
  <2>3. Place(n, i) \in 0..Len(template[n].kids) - 1
    BY <2>2, Modulo DEF Place
  <2> QED BY <1>3, <2>3
<1>5. \A k \in Kids(n) : Owed(n, k) = (IF ForFirst(n) /\ kept[k].held = <<>> THEN "new"
                                      ELSE IF kept[k].over THEN "any" ELSE "live")
  BY <1>2 DEF Owed, ForFirst
<1>6. \A k \in Kids(n) : Asking(n, k) <=>
               /\ Owed(n, k) \in {"new", "live"} /\ node[n].scan < Len(template[n].kids)
               /\ ForFirst(n) => k = template[n].kids[node[n].scan + 1] /\ kept[k].held = <<>>
               /\ ~ForFirst(n) => k = template[n].kids[Place(n, node[n].scan) + 1]
  BY <1>2 DEF Asking
<1> QED BY <1>1, <1>2, <1>3, <1>4, <1>5, <1>6, KidsOfKind, TurnTree DEF IsA

\* The scan of a list goes on.
LEMMA ScanGoesOn ==
  ASSUME TurnInv, NEW n \in Nodes, Acts(n), Stays(n), IsList(n), NEW own \in OwnType, GoesOn(n, own),
         own.scan <= Len(template[n].kids),
         ForFirst(n) => \A i \in 1..own.scan : kept'[template[n].kids[i]].held = <<>> => own.waits,
         \A k \in Kids(n) : Owed(n, k)' = "any" \/ Owed(n, k)' = asked[k].turn
  PROVE  TurnInv'
<1>1. node'[n] = own /\ asked' = asked /\ ~IsA(n, "live")
  BY TurnTree DEF GoesOn, TurnTypes, IsList, IsA, Lists
<1>2. OwnFits(n)'
  BY <1>1, StaysTree DEF OwnFits, Stays, IsList, Lists
<1>3. ListFits(n)'
  BY <1>1, StaysTree DEF ListFits, Stays, ForFirst
<1> QED BY <1>2, <1>3, GoesOnKeeps DEF Settles

\* What the list owes does not depend on its scan.
LEMMA SameListOwed ==
  ASSUME TurnInv, NEW n \in Nodes, Stays(n), IsList(n), kept' = kept, asked'[n].turn = asked[n].turn,
         \A k \in Kids(n) : Replied(k) => reply.is \in {"pending", "swap"}
  PROVE  \A k \in Kids(n) : Owed(n, k)' = "any" \/ Owed(n, k)' = asked[k].turn
<1>1. \A k \in Kids(n) : Owed(n, k)' = Owed(n, k)
  BY DEF Owed, IsList, Lists, Stays
<1> QED BY <1>1, StillOwed

LEMMA ListAskedKeeps ==
  ASSUME TurnInv, NEW n \in Nodes, ListAsked(n), Calm
  PROVE  TurnInv'
<1>1. PICK own : own = [node[n] EXCEPT !.scan = 0, !.waits = FALSE]
  OBVIOUS
<1>2. /\ Acts(n) /\ Stays(n) /\ IsList(n) /\ kept' = kept /\ \A j : ~Replied(j)
      /\ node[n] \in OwnType /\ GoesOn(n, own) /\ asked[n].turn \in {"new", "live"}
      /\ Len(template[n].kids) \in Nat
  BY <1>1, AskedActs, CalmStays, ActsOnPath, ListFacts, TurnTree DEF ListAsked, TurnTypes
<1>3. own \in OwnType /\ own.scan = 0
  BY <1>1, <1>2 DEF OwnType
<1>4. \A k \in Kids(n) : Owed(n, k)' = "any" \/ Owed(n, k)' = asked[k].turn
  <2>1. asked' = asked
    BY <1>2 DEF GoesOn
  <2> QED BY <2>1, <1>2, SameListOwed
<1> QED BY <1>2, <1>3, <1>4, ScanGoesOn

LEMMA RunsActs ==
  ASSUME TurnInv, NEW n \in Nodes, Runs(n)
  PROVE  Acts(n) /\ ~Fresh(n) /\ (\A j : ~Replied(j)) /\ OnPath(n) /\ asked[n].turn \in {"new", "live"}
<1>1. Acts(n) /\ ~Fresh(n) /\ \A j : ~Replied(j)
  BY DEF Runs, Acts, Fresh, Replied
<1> QED BY <1>1, ActsOnPath

LEMMA JoinedTypes ==
  ASSUME TurnInv, NEW n \in Nodes, IsList(n), \A k \in Kids(n) : kept[k].held # <<>>
  PROVE  Joined(n) \in ReplyType /\ Joined(n).is = "first" /\ (Joined(n).live <=> \E k \in Kids(n) : ~kept[k].over)
<1>1. PICK kids : kids = template[n].kids
  OBVIOUS
<1>2. PICK N \in Nat : N = Len(kids) /\ DOMAIN kids = 1..N /\ \A i \in 1..N : kids[i] \in Kids(n)
  BY <1>1, KidsOfKind, TurnTree, LenProperties
<1>3. ASSUME NEW i \in 1..N PROVE kept[kids[i]].held[1].tokens \in Seq(Token)
  <2>1. kids[i] \in Nodes /\ kids[i] \in Kids(n)
    BY <1>2, TurnTree
  <2>2. PICK held : held = kept[kids[i]].held
    OBVIOUS
  <2>3. held \in Seq(ContentType) /\ held # <<>>
    BY <2>1, <2>2, TurnTree DEF OtherTypes, KeptType
  <2>4. held[1] \in ContentType
    BY <2>3
  <2> QED BY <2>2, <2>4 DEF ContentType
<1>4. PICK seqs : seqs = [i \in DOMAIN kids |-> kept[kids[i]].held[1].tokens]
  OBVIOUS
<1>5. seqs \in [1..N -> Seq(Token)]
  BY <1>2, <1>3, <1>4
<1>6. FlattenSeq(seqs) \in Seq(Token)
  BY <1>5, FlattenTypes
<1>7. Block(FlattenSeq(seqs)) \in ContentType
  BY <1>6, TurnTree DEF Block, Content, ContentType, TurnTypes
<1>8. PICK live \in BOOLEAN : live = \E k \in Kids(n) : ~kept[k].over
  OBVIOUS
<1>9. Joined(n) = First(Block(FlattenSeq(seqs)), live)
  BY <1>1, <1>4, <1>8 DEF Joined
<1>10. First(Block(FlattenSeq(seqs)), live).live = live
  BY ReplyTypes
<1>11. Joined(n) \in ReplyType /\ Joined(n).is = "first"
  BY <1>7, <1>9, ReplyTypes
<1> QED BY <1>8, <1>9, <1>10, <1>11

LEMMA ListScansKeeps ==
  ASSUME TurnInv, NEW n \in Nodes, ListScans(n), Calm
  PROVE  TurnInv'
<1>0. PICK kids, k : kids = template[n].kids /\ k = kids[node[n].scan + 1]
  OBVIOUS
<1>1. /\ Acts(n) /\ IsList(n) /\ ForFirst(n) /\ asked[n].turn = "new" /\ ~Fresh(n) /\ OnPath(n)
      /\ \A j : ~Replied(j)
      /\ build \in Int /\ build # Away
  BY RunsActs, PathFacts, TurnTree DEF ListScans, ForFirst, TurnTypes
<1>2. /\ Len(kids) \in Nat /\ node[n] \in OwnType /\ node[n].scan \in Nat /\ node[n].scan <= Len(kids)
      /\ \A i \in 1..Len(kids) : kids[i] \in Kids(n)
      /\ \A j \in Kids(n) : \E i \in 1..Len(kids) : kids[i] = j
      /\ \A i \in 1..node[n].scan : kept[kids[i]].held = <<>> => node[n].waits
      /\ \A j \in Kids(n) : Owed(n, j) = (IF kept[j].held = <<>> THEN "new"
                                          ELSE IF kept[j].over THEN "any" ELSE "live")
      /\ \A j \in Kids(n) : Asking(n, j) <=>
            /\ Owed(n, j) \in {"new", "live"} /\ node[n].scan < Len(kids)
            /\ j = kids[node[n].scan + 1] /\ kept[j].held = <<>>
      /\ ~IsA(n, "live")
  BY <1>0, <1>1, ListFacts DEF ListFits
<1>3. ASSUME kept' = kept,
             \/ node[n].scan < Len(kids) /\ kept[k].held # <<>> /\ GoesOn(n, Seen(node[n]))
             \/ node[n].scan < Len(kids) /\ kept[k].held = <<>> /\ Asks(n, k, "first", node[n])
             \/ Passes(n, Pending, node[n])
      PROVE  TurnInv'
  <2>1. Stays(n)
    BY <1>3, CalmStays DEF ListScans
  <2>2. CASE node[n].scan < Len(kids) /\ kept[k].held # <<>> /\ GoesOn(n, Seen(node[n]))
    <3>1. PICK own : own = Seen(node[n])
      OBVIOUS
    <3>2. own \in OwnType /\ own.scan = node[n].scan + 1 /\ own.waits = node[n].waits
      <4>1. node[n] \in OwnType
        BY <1>2
      <4> QED BY <3>1, <4>1 DEF OwnType, Seen
    <3>3. \A j \in Kids(n) : Owed(n, j)' = "any" \/ Owed(n, j)' = asked[j].turn
      BY <1>1, <1>3, <2>1, <2>2, SameListOwed DEF GoesOn
    <3>4. \A i \in 1..own.scan : kept'[kids[i]].held = <<>> => own.waits
      <4>1. ASSUME NEW i \in 1..own.scan, kept[kids[i]].held = <<>> PROVE own.waits
        <5>1. i # node[n].scan + 1
          BY <4>1, <2>2, <1>0
        <5>2. i \in 1..node[n].scan
          BY <4>1, <5>1, <3>2, <1>2
        <5> QED BY <5>2, <4>1, <3>2, <1>2
      <4> QED BY <4>1, <1>3
    <3>5. own.scan <= Len(kids)
      BY <1>2, <2>2, <3>2
    <3> QED BY <1>0, <1>1, <2>1, <2>2, <3>1, <3>2, <3>3, <3>4, <3>5, ScanGoesOn
  <2>3. CASE node[n].scan < Len(kids) /\ kept[k].held = <<>> /\ Asks(n, k, "first", node[n])
    <3>1. k \in Kids(n)
      BY <1>0, <1>2, <2>3
    <3>2. Owed(n, k) = "new" /\ Asking(n, k)
      BY <1>2, <2>3, <3>1, <1>0
    <3>3. AsksIn(n, k, "first", build, node[n])
      BY <2>3 DEF Asks
    <3> QED BY <1>1, <1>3, <2>1, <3>1, <3>2, <3>3, AsksAlso
  <2>4. CASE Passes(n, Pending, node[n])
    <3>1. InTurn(Pending, asked[n].turn)
      BY ReplyTypes DEF InTurn
    <3> QED BY <1>1, <1>2, <1>3, <2>1, <2>4, <3>1, ReplyTypes, PassesAlso
  <2> QED BY <1>3, <2>2, <2>3, <2>4
<1>4. CASE /\ node[n].scan = Len(kids) /\ ~node[n].waits
           /\ Builds(n, Joined(n), {kept[m].held[1] : m \in Kids(n)}, node[n])
           /\ kept' = [m \in Nodes |-> IF m \in Kids(n) THEN [kept[m] EXCEPT !.held = <<>>] ELSE kept[m]]
  <2>1. ASSUME NEW j \in Kids(n) PROVE kept[j].held # <<>> /\ j \in Nodes /\ kept[j] \in KeptType
    <3>1. PICK i \in 1..Len(kids) : kids[i] = j
      BY <1>2
    <3> QED BY <3>1, <1>2, <1>4, TurnTree DEF OtherTypes
  <2>2. PICK r : r = Joined(n)
    OBVIOUS
  <2>3. r \in ReplyType /\ r.is = "first" /\ (r.live <=> \E j \in Kids(n) : ~kept[j].over)
    BY <2>1, <2>2, <1>1, JoinedTypes
  <2>4. PICK fits \in BOOLEAN : Replies(n, r, fits, node[n])
    BY <2>2, <1>4 DEF Builds, Fits
  <2>5. \A j \in Kids(n) : kept'[j] \in KeptType /\ kept'[j].over = kept[j].over
    BY <2>1, <1>4, EmptySeq DEF KeptType
  <2>6. Stays(n)
    <3>1. \A m \in Nodes : m \notin Kids(n) => kept'[m] = kept[m]
      BY <1>4
    <3>2. kept' \in [Nodes -> KeptType]
      <4>1. \A m \in Nodes : kept'[m] \in KeptType
        BY <3>1, <2>5, TurnTree DEF OtherTypes
      <4> QED BY <4>1, <1>4
    <3> QED BY <3>1, <3>2, TurnTree DEF ListScans, Stays, OtherTypes, Calm, hoistVars, taskVars, pageVars, Events, Nodes
  <2>7. node'[n] = node[n] /\ asked'[n].outer = Away /\ asked'[n].turn = (IF r.live THEN "live" ELSE "settled")
    BY <2>3, <2>4, TurnTree DEF Replies, TurnTypes, AskedType, TurnAfter
  <2>8. OwnFits(n)' /\ ListFits(n)'
    BY <2>7, <1>1, <2>6, StaysTree DEF OwnFits, ListFits, Stays, OnPath, IsList, Lists
  <2>9. \A j \in Kids(n) : Owed(n, j)' = "any" \/ Owed(n, j)' = asked[j].turn
    <3>1. SUFFICES ASSUME NEW j \in Kids(n), ~kept[j].over PROVE Owed(n, j)' \in {"any", "live"} /\ asked[j].turn = "live"
      <4>1. SUFFICES ASSUME NEW j \in Kids(n), kept[j].over PROVE Owed(n, j)' = "any"
        OBVIOUS
      <4>2. template'[n] = template[n] /\ template[n].kind \in Lists
        BY <2>6, <1>1 DEF Stays, IsList
      <4> QED BY <4>1, <4>2, <2>5, <2>7 DEF Owed, Lists
    <3>2. asked[j].turn = "live"
      BY <3>1, <2>1, <1>1, <1>2, SameOwed
    <3>3. template'[n] = template[n] /\ template[n].kind \in Lists
      BY <2>6, <1>1 DEF Stays, IsList
    <3>4. Owed(n, j)' \in {"any", "live"}
      BY <3>1, <3>3, <2>5, <2>7 DEF Owed, Lists
    <3> QED BY <3>2, <3>4
  <2>10. InTurn(r, asked[n].turn)
    BY <2>3, <1>1 DEF InTurn
  <2>11. Settles(n)
    BY <2>8, <2>9 DEF Settles
  <2> QED BY <2>3, <2>4, <2>6, <2>10, <2>11, <1>1, <1>2, RepliesKeeps
<1> QED BY <1>0, <1>3, <1>4 DEF ListScans

LEMMA ListTurnsKeeps ==
  ASSUME TurnInv, NEW n \in Nodes, ListTurns(n), Calm
  PROVE  TurnInv'
<1>0. PICK kids, k : kids = template[n].kids /\ k = kids[Place(n, node[n].scan) + 1]
  OBVIOUS
<1>1. /\ Acts(n) /\ IsList(n) /\ ~ForFirst(n) /\ asked[n].turn = "live" /\ ~Fresh(n) /\ OnPath(n)
      /\ (\A j : ~Replied(j)) /\ kept' = kept /\ Stays(n)
      /\ build \in Int /\ build # Away
  BY RunsActs, PathFacts, TurnTree, CalmStays DEF ListTurns, ForFirst, TurnTypes
<1>2. /\ Len(kids) \in Nat /\ node[n] \in OwnType /\ node[n].scan \in Nat
      /\ node[n].scan < Len(kids) => Place(n, node[n].scan) + 1 \in 1..Len(kids)
      /\ \A i \in 1..Len(kids) : kids[i] \in Kids(n)
      /\ \A j \in Kids(n) : Owed(n, j) = (IF kept[j].over THEN "any" ELSE "live")
      /\ \A j \in Kids(n) : Asking(n, j) <=>
            Owed(n, j) \in {"new", "live"} /\ node[n].scan < Len(kids) /\ j = kids[Place(n, node[n].scan) + 1]
      /\ ~IsA(n, "live")
  BY <1>0, <1>1, ListFacts
<1>3. CASE node[n].scan < Len(kids) /\ GoesOn(n, Seen(node[n]))
  <2>1. PICK own : own = Seen(node[n])
    OBVIOUS
  <2>2. own \in OwnType /\ own.scan = node[n].scan + 1
    BY <2>1, <1>2 DEF OwnType, Seen
  <2>3. \A j \in Kids(n) : Owed(n, j)' = "any" \/ Owed(n, j)' = asked[j].turn
    BY <1>1, <1>3, SameListOwed DEF GoesOn
  <2>4. own.scan <= Len(kids)
    BY <1>2, <1>3, <2>2
  <2> QED BY <1>0, <1>1, <1>3, <2>1, <2>2, <2>3, <2>4, ScanGoesOn
<1>4. CASE node[n].scan < Len(kids) /\ ~kept[k].over /\ Asks(n, k, "swap", node[n])
  <2>1. k \in Kids(n)
    BY <1>0, <1>2, <1>4
  <2>2. Owed(n, k) = "live" /\ Asking(n, k)
    BY <1>0, <1>2, <1>4, <2>1
  <2>3. AsksIn(n, k, "swap", build, node[n])
    BY <1>4 DEF Asks
  <2> QED BY <1>1, <2>1, <2>2, <2>3, AsksAlso
<1>5. CASE Passes(n, IF node[n].waits THEN Pending ELSE None, node[n])
  <2>1. PICK r : r = IF node[n].waits THEN Pending ELSE None
    OBVIOUS
  <2>2. r \in ReplyType /\ r.is \in {"pending", "none"} /\ InTurn(r, asked[n].turn) /\ Passes(n, r, node[n])
    BY <2>1, <1>1, <1>5, ReplyTypes DEF InTurn
  <2> QED BY <1>1, <1>2, <2>2, PassesAlso
<1> QED BY <1>0, <1>3, <1>4, <1>5 DEF ListTurns, RingLength

LEMMA ListAnsweredKeeps ==
  ASSUME TurnInv, NEW n \in Nodes, NEW k \in Kids(n), ListAnswered(n, k), Calm
  PROVE  TurnInv'
<1>0. PICK kids : kids = template[n].kids
  OBVIOUS
<1>1. /\ Acts(n) /\ IsList(n) /\ Answers(k, n) /\ ~Fresh(n) /\ OnPath(n) /\ Replied(k) /\ \A j : j # k => ~Replied(j)
      /\ asked[n].turn \in {"new", "live"} /\ (ForFirst(n) <=> asked[n].turn = "new")
      /\ InTurn(reply, Owed(n, k)) /\ asked[k].turn = TurnAfter(reply, Owed(n, k))
      /\ reply \in ReplyType /\ reply.content \in ContentType /\ node[n] \in OwnType
      /\ reply.live \in BOOLEAN /\ reply.is \in {"pending", "none", "first", "swap", "error"}
      /\ Asking(n, k)
  BY ReplyOwed DEF ListAnswered, ForFirst
<1>2. /\ Len(kids) \in Nat /\ node[n].scan \in Nat /\ node[n].next \in Nat
      /\ \A i \in 1..Len(kids) : kids[i] \in Kids(n)
      /\ ForFirst(n) => \A i \in 1..node[n].scan : kept[kids[i]].held = <<>> => node[n].waits
      /\ \A j \in Kids(n) : Owed(n, j) = (IF ForFirst(n) /\ kept[j].held = <<>> THEN "new"
                                          ELSE IF kept[j].over THEN "any" ELSE "live")
      /\ node[n].scan < Len(kids)
      /\ ForFirst(n) => k = kids[node[n].scan + 1] /\ kept[k].held = <<>>
      /\ ~IsA(n, "live") /\ template[n].kind \in Lists /\ Owed(n, k) \in {"new", "live"}
  BY <1>0, <1>1, ListFacts DEF ListFits, IsList
<1>3. ForFirst(n) <=> Owed(n, k) = "new"
  BY <1>2
<1>4. ASSUME kept' = kept PROVE Stays(n)
  BY <1>4, CalmStays DEF ListAnswered
<1>5. PICK own : own = Seen(node[n])
  OBVIOUS
<1>6. /\ own \in OwnType /\ own.scan = node[n].scan + 1 /\ own.waits = node[n].waits
      /\ own.scan <= Len(kids) /\ \A i \in 1..own.scan : i # own.scan => i \in 1..node[n].scan
  <2>1. own \in OwnType /\ own.scan = node[n].scan + 1 /\ own.waits = node[n].waits
    BY <1>1, <1>5 DEF OwnType, Seen
  <2> QED BY <1>2, <2>1
<1>7. CASE reply.is = "pending" /\ GoesOn(n, [own EXCEPT !.waits = TRUE]) /\ kept' = kept
  <2>1. PICK ow : ow = [own EXCEPT !.waits = TRUE]
    OBVIOUS
  <2>2. ow \in OwnType /\ ow.scan = own.scan /\ ow.waits = TRUE
    BY <1>6, <2>1 DEF OwnType
  <2>3. Stays(n)
    BY <1>4, <1>7
  <2>4. \A j \in Kids(n) : Owed(n, j)' = "any" \/ Owed(n, j)' = asked[j].turn
    BY <1>1, <1>7, <2>3, SameListOwed DEF GoesOn
  <2> QED BY <1>0, <1>1, <1>6, <1>7, <2>1, <2>2, <2>3, <2>4, ScanGoesOn
<1>8. ASSUME NEW held, NEW over, GoesOn(n, own), kept' \in [Nodes -> KeptType],
             kept'[k].held = held, kept'[k].over = over, \A m \in Nodes : m # k => kept'[m] = kept[m],
             ForFirst(n) => held # <<>>, over \/ asked[k].turn = "live"
      PROVE  TurnInv'
  <2>2. kept'[k].held = held /\ kept'[k].over = over /\ \A m \in Nodes : m # k => kept'[m] = kept[m]
    BY <1>8
  <2>3. Stays(n)
    <3>1. kept' \in [Nodes -> KeptType]
      BY <1>8
    <3> QED BY <2>2, <3>1, TurnTree DEF ListAnswered, Stays, OtherTypes, Calm, hoistVars, taskVars, pageVars, Events, Nodes
  <2>4. template' = template /\ asked' = asked
    BY <2>3, <1>8 DEF Stays, GoesOn
  <2>5. \A j \in Kids(n) : Owed(n, j)' = "any" \/ Owed(n, j)' = asked[j].turn
    <3>1. Owed(n, k)' \in {"any", asked[k].turn}
      <4>1. kept'[k].held = held /\ kept'[k].over = over /\ template'[n].kind \in {"join", "loop"}
            /\ asked'[n].turn = asked[n].turn /\ asked[n].turn \in {"new", "live"}
        BY <2>2, <2>4, <1>1, <1>2 DEF Lists
      <4>2. ~(asked[n].turn = "new" /\ held = <<>>)
        BY <1>1, <1>8
      <4>3. Owed(n, k)' = IF over THEN "any" ELSE "live"
        BY <4>1, <4>2 DEF Owed, Lists
      <4> QED BY <4>3, <1>8
    <3>2. ASSUME NEW j \in Kids(n), j # k PROVE Owed(n, j)' = Owed(n, j)
      BY <2>2, <2>4, <1>2, <3>2, TurnTree DEF Owed, Lists
    <3> QED BY <3>1, <3>2, <1>1, SameOwed
  <2>6. ForFirst(n) => \A i \in 1..own.scan : kept'[kids[i]].held = <<>> => own.waits
    <3>1. SUFFICES ASSUME ForFirst(n), NEW i \in 1..own.scan, kept'[kids[i]].held = <<>> PROVE own.waits
      OBVIOUS
    <3>2. kids[i] \in Nodes
      BY <3>1, <1>2, <1>6, TurnTree
    <3>3. kids[i] # k
      BY <3>1, <1>8, <2>2
    <3>4. i \in 1..node[n].scan
      BY <3>1, <3>3, <1>2, <1>6
    <3> QED BY <3>1, <3>2, <3>3, <3>4, <2>2, <1>2, <1>6
  <2> QED BY <1>0, <1>1, <1>6, <1>8, <2>3, <2>5, <2>6, ScanGoesOn
<1>9. CASE /\ reply.is = "first" /\ GoesOn(n, own)
           /\ kept' = [kept EXCEPT ![k] = [held |-> <<reply.content>>, over |-> ~reply.live]]
  <2>1. <<reply.content>> \in Seq(ContentType) /\ <<reply.content>> # <<>> /\ k \in Nodes
        /\ kept \in [Nodes -> KeptType]
    BY <1>1, TurnTree DEF OtherTypes
  <2>2. [held |-> <<reply.content>>, over |-> ~reply.live] \in KeptType
    BY <2>1 DEF KeptType
  <2>3. /\ kept' \in [Nodes -> KeptType] /\ \A m \in Nodes : m # k => kept'[m] = kept[m]
        /\ kept'[k] = [held |-> <<reply.content>>, over |-> ~reply.live]
    BY <2>1, <2>2, <1>9
  <2>4. ~reply.live \/ asked[k].turn = "live"
    BY <1>1, <1>9 DEF TurnAfter
  <2> QED BY <2>1, <2>3, <2>4, <1>8, <1>9
<1>10. CASE reply.is = "none" /\ GoesOn(n, own) /\ kept' = [kept EXCEPT ![k].over = TRUE]
  <2>1. kept[k] \in KeptType /\ kept \in [Nodes -> KeptType] /\ k \in Nodes
    BY TurnTree DEF OtherTypes
  <2>2. /\ kept' \in [Nodes -> KeptType] /\ \A m \in Nodes : m # k => kept'[m] = kept[m]
        /\ kept'[k].over = TRUE
    BY <2>1, <1>10 DEF KeptType
  <2>3. ~ForFirst(n)
    BY <1>1, <1>3, <1>10 DEF InTurn
  <2> QED BY <2>2, <2>3, <1>8, <1>10
<1>11. CASE reply.is = "swap" /\ Passes(n, reply, [node[n] EXCEPT !.next = NextStart(n)]) /\ kept' = kept
  <2>1. PICK ow : ow = [node[n] EXCEPT !.next = NextStart(n)]
    OBVIOUS
  <2>2. NextStart(n) \in Nat
    <3>1. node[n].next + (node[n].scan + 1) \in Nat /\ Len(kids) \in Nat \ {0}
      BY <1>2
    <3>2. (node[n].next + (node[n].scan + 1)) % Len(kids) \in 0..Len(kids) - 1
      BY <3>1, Modulo
    <3> QED BY <3>2, <1>0, <1>2 DEF NextStart, Place
  <2>3. ow \in OwnType
    BY <2>1, <2>2, <1>1 DEF OwnType
  <2>4. InTurn(reply, asked[n].turn) /\ asked[n].turn = "live"
    BY <1>1, <1>3, <1>11 DEF InTurn
  <2>5. Replies(n, reply, TRUE, ow) /\ Stays(n)
    BY <2>1, <1>4, <1>11 DEF Passes
  <2>6. asked'[n].turn = asked[n].turn /\ asked'[n].outer = Away
    BY <2>4, <2>5, <1>11, TurnTree DEF Replies, TurnTypes, AskedType, TurnAfter
  <2>7. \A j \in Kids(n) : Owed(n, j)' = "any" \/ Owed(n, j)' = asked[j].turn
    BY <1>1, <1>11, <2>5, <2>6, SameListOwed
  <2>8. OwnFits(n)' /\ ListFits(n)'
    BY <2>5, <2>6, <1>1, StaysTree DEF OwnFits, ListFits, Stays, OnPath, IsList, Lists
  <2> QED BY <2>3, <2>4, <2>5, <2>7, <2>8, <1>1, RepliesKeeps DEF Settles
<1>12. CASE reply.is = "error" /\ Passes(n, reply, node[n]) /\ kept' = kept
  <2>1. InTurn(reply, asked[n].turn)
    BY <1>12 DEF InTurn
  <2> QED BY <2>1, <1>1, <1>4, <1>12, PassesAlso
<1> QED BY <1>5, <1>7, <1>9, <1>10, <1>11, <1>12 DEF ListAnswered

-----------------------------------------------------------------------------
(* Live bodies.                                                             *)

\* What a body in the state `own` owes the view k that one of its steps emits.
BodyOwes(n, own, k) ==
    LET steps == template[n].steps IN
    IF \E i \in 1..Len(steps) : steps[i].op = "emit" /\ steps[i].kid = k /\ own.step < i THEN "new"
    ELSE IF own.step <= Len(steps) /\ steps[own.step].op = "emit" /\ steps[own.step].kid = k
    THEN (IF own.emit = "first" THEN "new" ELSE IF own.emit = "swaps" THEN "live" ELSE "any")
    ELSE "any"
BodyFits(n, own, turn) ==
    LET steps == template[n].steps IN
    /\ turn = "new" => own.stash = <<>> /\ own.mode \in {"first", "again"}
    /\ turn = "new" /\ own.mode = "first" =>
          own.emit = "first" /\ \A i \in 1..Len(steps) : steps[i].op = "emit" /\ i < own.step => steps[i].caught
    /\ \A i \in 1..Len(steps) : steps[i].op = "repeat" => own.step <= i
    /\ own.stash = <<>> \/ own.stash[1].is = "swap"

LEMMA BodyOwed ==
  ASSUME TurnInv, NEW n \in Nodes, IsA(n, "live"), asked[n].turn \in {"new", "live"}
  PROVE  /\ \A k \in Kids(n) : Owed(n, k) = BodyOwes(n, node[n], k)
         /\ \A k \in Kids(n) : Asking(n, k) <=>
               Owed(n, k) \in {"new", "live"} /\ At(n, "emit") /\ Now(n).kid = k
         /\ BodyFits(n, node[n], asked[n].turn) /\ node[n] \in OwnType /\ ~IsList(n)
         /\ asked[n].turn = "new" /\ node[n].mode = "again" => OnPath(n) /\ ~Fresh(n)
         /\ asked[n].turn = "live" /\ OnPath(n) /\ ~Fresh(n) => node[n].mode = "swap" /\ node[n].stash = <<>>
<1>1. template[n].kind = "live" /\ OwnFits(n) /\ node[n] \in OwnType
  BY TurnTree DEF IsA, TurnTypes, TurnInv, OwnInv
<1>2. \A k \in Kids(n) : Owed(n, k) = BodyOwes(n, node[n], k)
  BY <1>1 DEF Owed, BodyOwes, Lists, At, Now
<1>3. \A k \in Kids(n) : Asking(n, k) <=>
               Owed(n, k) \in {"new", "live"} /\ At(n, "emit") /\ Now(n).kid = k
  BY <1>1 DEF Asking, Lists
<1>4. BodyFits(n, node[n], asked[n].turn)
  BY <1>1 DEF OwnFits, BodyFits
<1>5. ~IsList(n)
  BY <1>1 DEF IsList, Lists
<1> QED BY <1>1, <1>2, <1>3, <1>4, <1>5 DEF OwnFits

LEMMA BodyGoesOn ==
  ASSUME TurnInv, NEW n \in Nodes, Acts(n), Stays(n), IsA(n, "live"), NEW own \in OwnType, GoesOn(n, own),
         BodyFits(n, own, asked[n].turn),
         asked[n].turn = "live" => own.mode = "swap" /\ own.stash = <<>>,
         \A k \in Kids(n) : BodyOwes(n, own, k) \in {"any", asked[k].turn}
  PROVE  TurnInv'
<1>1. /\ node'[n] = own /\ asked' = asked /\ ~Fresh(n)' /\ OnPath(n)' /\ ~IsList(n)
      /\ template' = template /\ template[n].kind = "live"
  BY ActsOnPath, TurnTree DEF GoesOn, TurnTypes, IsList, IsA, Lists, Fresh, OnPath, Stays
<1>2. OwnFits(n)'
  BY <1>1 DEF OwnFits, BodyFits
<1>3. ListFits(n)'
  BY <1>1, StaysTree DEF ListFits
<1>4. \A k \in Kids(n) : Owed(n, k)' = BodyOwes(n, own, k) \/ Owed(n, k)' = "any"
  BY <1>1 DEF Owed, BodyOwes, Lists, At, Now
<1>5. Settles(n)
  BY <1>2, <1>3, <1>4 DEF Settles
<1> QED BY <1>5, GoesOnKeeps

LEMMA BodyReplies ==
  ASSUME TurnInv, NEW n \in Nodes, Acts(n), Stays(n), IsA(n, "live"), NEW own \in OwnType,
         NEW r \in ReplyType, NEW fits \in BOOLEAN, Replies(n, r, fits, own), InTurn(r, asked[n].turn),
         NEW turn, turn = TurnAfter(r, asked[n].turn), BodyFits(n, own, turn),
         turn = "new" => own.mode = "first",
         turn # "settled" => \A k \in Kids(n) : BodyOwes(n, own, k) \in {"any", asked[k].turn}
  PROVE  TurnInv'
<1>1. /\ node'[n] = own /\ asked'[n].turn = turn /\ ~OnPath(n)' /\ template' = template
      /\ template[n].kind = "live" /\ ~IsList(n)
  BY ActsOnPath, TurnTree DEF Replies, TurnTypes, AskedType, IsList, IsA, Lists, OnPath, Stays
<1>2. OwnFits(n)'
  BY <1>1 DEF OwnFits, BodyFits
<1>3. ListFits(n)'
  BY <1>1, StaysTree DEF ListFits
<1>4. \A k \in Kids(n) : Owed(n, k)' = "any" \/ (turn # "settled" /\ Owed(n, k)' = BodyOwes(n, own, k))
  BY <1>1 DEF Owed, BodyOwes, Lists, At, Now
<1>5. Settles(n)
  BY <1>2, <1>3, <1>4 DEF Settles
<1> QED BY <1>5, RepliesKeeps

LEMMA BodySteps ==
  ASSUME TurnInv, NEW n \in Nodes, IsA(n, "live")
  PROVE  /\ Len(template[n].steps) \in Nat /\ node[n] \in OwnType /\ node[n].step \in Nat \ {0}
         /\ \A i \in 1..Len(template[n].steps) :
               /\ template[n].steps[i].op \in {"emit", "await", "repeat"}
               /\ template[n].steps[i].caught \in BOOLEAN
               /\ template[n].steps[i].op = "emit" => template[n].steps[i].kid \in Kids(n)
               /\ template[n].steps[i].op = "await" => template[n].steps[i].event \in Awaited(template[n])
         /\ \A i, j \in 1..Len(template[n].steps) :
               (template[n].steps[i].op = "emit" /\ template[n].steps[j].op = "emit"
                /\ template[n].steps[i].kid = template[n].steps[j].kid) => i = j
         /\ \A op : At(n, op) =>
               /\ node[n].step \in 1..Len(template[n].steps) /\ Now(n) = template[n].steps[node[n].step]
               /\ Now(n).op = op /\ Now(n).caught \in BOOLEAN
               /\ op = "emit" => Now(n).kid \in Kids(n)
               /\ op = "await" => Now(n).event \in Awaited(template[n])
<1>1. PICK steps : steps = template[n].steps
  OBVIOUS
<1>2. PICK N \in Nat : N = Len(steps) /\ DOMAIN steps = 1..N
  BY <1>1, KidsOfKind, TurnTree, LenProperties
<1>3. node[n] \in OwnType /\ node[n].step \in Nat \ {0}
  BY TurnTree DEF TurnTypes, OwnType
<1>4. \A i \in 1..N : /\ steps[i].op \in {"emit", "await", "repeat"}
                      /\ steps[i].caught \in BOOLEAN
                      /\ steps[i].op = "emit" => steps[i].kid \in Kids(n)
  <2>1. steps \in Seq([op : {"emit", "await", "repeat"}, kid : Nat, caught : BOOLEAN, event : STRING])
    BY <1>1, KidsOfKind, TurnTree
  <2>2. \A i \in 1..N : steps[i] \in [op : {"emit", "await", "repeat"}, kid : Nat, caught : BOOLEAN, event : STRING]
    BY <2>1, <1>2, ElementOfSeq
  <2> QED BY <2>2, <1>1, <1>2, KidsOfKind, TurnTree
<1>5. ASSUME NEW i \in 1..N, steps[i].op = "await" PROVE steps[i].event \in Awaited(template[n])
  <2>1. Awaited(template[n]) = {x.event : x \in Steps(template[n], "await")}
    BY DEF Awaited, IsA
  <2>2. steps[i] \in Range(steps)
    BY <1>2 DEF Range
  <2>3. steps[i] \in Steps(template[n], "await")
    BY <1>1, <1>5, <2>2 DEF Steps
  <2> QED BY <2>1, <2>3
<1>6. \A i, j \in 1..N : (steps[i].op = "emit" /\ steps[j].op = "emit" /\ steps[i].kid = steps[j].kid) => i = j
  BY <1>1, <1>2, KidsOfKind, TurnTree
<1>7. ASSUME NEW op, At(n, op)
      PROVE  /\ node[n].step \in 1..N /\ Now(n) = steps[node[n].step] /\ Now(n).op = op
  BY <1>1, <1>2, <1>3, <1>7 DEF At, Now
<1> QED BY <1>1, <1>2, <1>3, <1>4, <1>5, <1>6, <1>7

\* The body goes on to its next step.
LEMMA PastStepKeeps ==
  ASSUME TurnInv, NEW n \in Nodes, Acts(n), Stays(n), IsA(n, "live"), ~Fresh(n),
         GoesOn(n, PastStep(node[n])),
         At(n, "emit") \/ At(n, "await"),
         At(n, "emit") => Now(n).caught \/ node[n].emit # "first"
  PROVE  TurnInv'
<1>1. PICK steps : steps = template[n].steps
  OBVIOUS
<1>8. PICK own : own = PastStep(node[n])
  OBVIOUS
<1>2. PICK s \in 1..Len(steps) :
         /\ s = node[n].step /\ Len(steps) \in Nat /\ node[n] \in OwnType
         /\ steps[s].op # "repeat" /\ (steps[s].op = "emit" => steps[s].caught \/ node[n].emit # "first")
         /\ \A i \in 1..Len(steps) : steps[i].op = "emit" => steps[i].kid \in Kids(n)
         /\ \A i, j \in 1..Len(steps) :
               (steps[i].op = "emit" /\ steps[j].op = "emit" /\ steps[i].kid = steps[j].kid) => i = j
  BY <1>1, BodySteps
<1>3. own \in OwnType /\ own.step = node[n].step + 1 /\ own.emit = "first"
      /\ own.mode = node[n].mode /\ own.stash = node[n].stash
  <2>1. node[n] \in OwnType
    BY <1>2
  <2>2. own = [[[node[n] EXCEPT !.step = @ + 1] EXCEPT !.emit = "first"] EXCEPT !.yielded = 0]
    BY <2>1, <1>8 DEF PastStep
  <2>3. [node[n] EXCEPT !.step = @ + 1] \in OwnType
    BY <2>1 DEF OwnType
  <2> QED BY <2>1, <2>2, <2>3 DEF OwnType
<1>4. own.step = s + 1 /\ own.emit = "first" /\ own.mode = node[n].mode /\ own.stash = node[n].stash
  BY <1>2, <1>3
<1>5. /\ \A k \in Kids(n) : Owed(n, k) = BodyOwes(n, node[n], k)
      /\ BodyFits(n, node[n], asked[n].turn)
      /\ asked[n].turn = "live" => node[n].mode = "swap" /\ node[n].stash = <<>>
      /\ asked[n].turn \in {"new", "live"}
      /\ \A k \in Kids(n) : Replied(k) => steps[s].op = "emit" /\ steps[s].kid = k
  <2>1. OnPath(n) /\ asked[n].turn \in {"new", "live"}
    BY ActsOnPath
  <2>2. \A k \in Kids(n) : Replied(k) => Asking(n, k)
    BY DEF TurnInv, EdgesAsk
  <2>3. \A k \in Kids(n) : Replied(k) => At(n, "emit") /\ Now(n).kid = k
    BY <2>1, <2>2, BodyOwed
  <2> QED BY <2>1, <2>3, <1>1, <1>2, BodyOwed, BodySteps
<1>6. BodyFits(n, own, asked[n].turn)
  BY <1>1, <1>2, <1>4, <1>5 DEF BodyFits
<1>7. ASSUME NEW k \in Kids(n) PROVE BodyOwes(n, own, k) \in {"any", asked[k].turn}
  <2>1. CASE \E i \in 1..Len(steps) : steps[i].op = "emit" /\ steps[i].kid = k /\ s < i
    <3>1. ~Replied(k)
      BY <2>1, <1>2, <1>5
    <3>2. BodyOwes(n, node[n], k) = "new"
      BY <2>1, <1>1, <1>2 DEF BodyOwes
    <3>3. asked[k].turn = "new"
      BY <3>1, <3>2, <1>5, SameOwed
    <3>4. BodyOwes(n, own, k) \in {"new", "any"}
      BY <1>1, <1>4 DEF BodyOwes
    <3> QED BY <3>3, <3>4
  <2>2. CASE ~\E i \in 1..Len(steps) : steps[i].op = "emit" /\ steps[i].kid = k /\ s < i
    <3>1. ~\E i \in 1..Len(steps) : steps[i].op = "emit" /\ steps[i].kid = k /\ s + 1 < i
      BY <2>2, <1>2
    <3>2. ~(s + 1 <= Len(steps) /\ steps[s + 1].op = "emit" /\ steps[s + 1].kid = k)
      BY <2>2, <1>2
    <3> QED BY <3>1, <3>2, <1>1, <1>4 DEF BodyOwes
  <2> QED BY <2>1, <2>2
<1> QED BY <1>3, <1>4, <1>5, <1>6, <1>7, <1>8, BodyGoesOn

\* What the body yields: a reply, or its first content when that is still due.
LEMMA YieldsKeeps ==
  ASSUME TurnInv, NEW n \in Nodes, Acts(n), Stays(n), IsA(n, "live"), ~Fresh(n),
         NEW r \in ReplyType, r.is \in {"pending", "swap"}, InTurn(r, asked[n].turn) \/ node[n].mode = "again",
         NEW own \in OwnType, own.step = node[n].step, own.mode = node[n].mode, own.stash = node[n].stash,
         node[n].mode = "first" => own.emit = node[n].emit,
         \A k \in Kids(n) : BodyOwes(n, own, k) \in {"any", asked[k].turn},
         Yields(n, r, own)
  PROVE  TurnInv'
<1>1. /\ BodyFits(n, node[n], asked[n].turn) /\ node[n] \in OwnType /\ node[n].mode \in {"first", "swap", "again"}
      /\ asked[n].turn \in {"new", "live"} /\ build \in Int /\ n \in Nat
      /\ asked[n].turn = "live" => node[n].mode = "swap" /\ node[n].stash = <<>>
  <2>1. asked[n].turn \in {"new", "live"} /\ OnPath(n) /\ build \in Int /\ n \in Nat
    BY ActsOnPath, TurnTree DEF TurnTypes
  <2>2. node[n] \in OwnType /\ BodyFits(n, node[n], asked[n].turn)
        /\ (asked[n].turn = "live" => node[n].mode = "swap" /\ node[n].stash = <<>>)
    BY <2>1, BodyOwed
  <2> QED BY <2>1, <2>2 DEF OwnType
<1>2. BodyFits(n, own, asked[n].turn)
  BY <1>1 DEF BodyFits
<1>3. CASE node[n].mode # "again"
  <2>1. Replies(n, r, TRUE, own)
    BY <1>3 DEF Yields, Passes
  <2>2. TurnAfter(r, asked[n].turn) = asked[n].turn
    BY DEF TurnAfter
  <2>3. asked[n].turn = "new" => own.mode = "first"
    BY <1>1, <1>3 DEF BodyFits
  <2> QED BY <1>2, <1>3, <2>1, <2>2, <2>3, BodyReplies
<1>4. CASE node[n].mode = "again"
  <2>1. asked[n].turn = "new"
    BY <1>1, <1>4
  <2>2. PICK f : f = First(Region(n, node[n].first), TRUE)
    OBVIOUS
  <2>10. PICK ow : ow = [Taken(own) EXCEPT !.stash = Stash(r)]
    OBVIOUS
  <2>3. f \in ReplyType /\ f.is = "first" /\ f.live = TRUE
    <3>1. Region(n, node[n].first) \in ContentType
      BY <1>1, ContentTypes DEF OwnType
    <3>2. f \in ReplyType
      BY <3>1, <2>2, ReplyTypes
    <3>3. f.is = "first" /\ f.live = TRUE
      BY <2>2 DEF First, Reply
    <3> QED BY <3>2, <3>3
  <2>4. Stash(r) \in Seq(ReplyType) /\ (Stash(r) = <<>> \/ Stash(r)[1].is = "swap")
    BY EmptySeq DEF Stash
  <2>5. ow \in OwnType /\ ow.step = own.step /\ ow.emit = own.emit /\ ow.stash = Stash(r) /\ ow.mode = own.mode
    BY <2>10, <2>4, ReplyTypes DEF Taken, OwnType
  <2>6. PICK fits \in BOOLEAN : Replies(n, f, fits, ow)
    BY <2>2, <2>10, <1>4 DEF Yields, Builds, Fits
  <2>7. TurnAfter(f, asked[n].turn) = "live" /\ InTurn(f, asked[n].turn)
    BY <2>1, <2>3 DEF TurnAfter, InTurn
  <2>8. BodyFits(n, ow, "live")
    BY <1>2, <2>4, <2>5 DEF BodyFits
  <2>9. \A k \in Kids(n) : BodyOwes(n, ow, k) = BodyOwes(n, own, k)
    BY <2>5 DEF BodyOwes
  <2> QED BY <2>3, <2>5, <2>6, <2>7, <2>8, <2>9, BodyReplies
<1> QED BY <1>3, <1>4

\* A body whose own step and emission stay goes on owing what it owed.
LEMMA BodyStillOwed ==
  ASSUME TurnInv, NEW n \in Nodes, IsA(n, "live"), asked[n].turn \in {"new", "live"},
         \A k \in Kids(n) : Replied(k) => reply.is \in {"pending", "swap"},
         NEW own, own.step = node[n].step, own.emit = node[n].emit
  PROVE  \A k \in Kids(n) : BodyOwes(n, own, k) \in {"any", asked[k].turn}
<1>1. \A k \in Kids(n) : BodyOwes(n, own, k) = BodyOwes(n, node[n], k)
  BY DEF BodyOwes
<1> QED BY <1>1, BodyOwed, StillOwed

LEMMA LiveAskedKeeps ==
  ASSUME TurnInv, NEW n \in Nodes, LiveAsked(n), Calm
  PROVE  TurnInv'
<1>1. /\ Acts(n) /\ Stays(n) /\ IsA(n, "live") /\ (\A j : ~Replied(j)) /\ Fresh(n)
      /\ poll.does \in {"first", "swap"} /\ (poll.does = "first" <=> asked[n].turn = "new")
      /\ asked[n].turn \in {"new", "live"} /\ OnPath(n)
  BY AskedActs, CalmStays, ActsOnPath DEF LiveAsked, Asked, Fresh
<1>2. /\ BodyFits(n, node[n], asked[n].turn) /\ node[n] \in OwnType
      /\ asked[n].turn = "new" /\ node[n].mode = "again" => ~Fresh(n)
  BY <1>1, BodyOwed
<1>3. CASE node[n].stash # <<>> /\ Passes(n, node[n].stash[1], [node[n] EXCEPT !.stash = <<>>])
  <2>1. PICK own, r : own = [node[n] EXCEPT !.stash = <<>>] /\ r = node[n].stash[1]
    OBVIOUS
  <2>2. own \in OwnType /\ own.stash = <<>> /\ own.step = node[n].step /\ own.emit = node[n].emit /\ own.mode = node[n].mode
    BY <1>2, <2>1, EmptySeq DEF OwnType
  <2>3. r \in ReplyType /\ r.is = "swap" /\ asked[n].turn = "live"
    BY <1>1, <1>2, <1>3, <2>1 DEF BodyFits, OwnType
  <2>4. Replies(n, r, TRUE, own) /\ InTurn(r, asked[n].turn) /\ TurnAfter(r, asked[n].turn) = "live"
    BY <2>1, <2>3, <1>3 DEF Passes, InTurn, TurnAfter
  <2>5. BodyFits(n, own, "live")
    BY <2>2, <2>3, <1>2 DEF BodyFits
  <2>6. \A k \in Kids(n) : BodyOwes(n, own, k) \in {"any", asked[k].turn}
    BY <2>2, <1>1, BodyStillOwed
  <2> QED BY <1>1, <2>2, <2>3, <2>4, <2>5, <2>6, BodyReplies
<1>4. CASE node[n].stash = <<>> /\ GoesOn(n, [node[n] EXCEPT !.mode = poll.does])
  <2>1. PICK own : own = [node[n] EXCEPT !.mode = poll.does]
    OBVIOUS
  <2>2. own \in OwnType /\ own.stash = <<>> /\ own.step = node[n].step /\ own.emit = node[n].emit
        /\ own.mode = poll.does
    BY <1>1, <1>2, <1>4, <2>1 DEF OwnType
  <2>3. BodyFits(n, own, asked[n].turn)
    BY <2>2, <1>1, <1>2 DEF BodyFits
  <2>4. \A k \in Kids(n) : BodyOwes(n, own, k) \in {"any", asked[k].turn}
    BY <2>2, <1>1, BodyStillOwed
  <2> QED BY <1>1, <1>4, <2>1, <2>2, <2>3, <2>4, BodyGoesOn
<1> QED BY <1>3, <1>4 DEF LiveAsked

\* What a body that runs is.
LEMMA BodyFacts ==
  ASSUME TurnInv, NEW n \in Nodes, BodyRuns(n)
  PROVE  /\ Acts(n) /\ IsA(n, "live") /\ (\A j : ~Replied(j)) /\ ~Fresh(n) /\ OnPath(n)
         /\ asked[n].turn \in {"new", "live"} /\ BodyFits(n, node[n], asked[n].turn)
         /\ node[n] \in OwnType /\ node[n].first \in ContentType /\ node[n].mode \in {"first", "swap", "again"}
         /\ asked[n].turn = "new" <=> node[n].mode \in {"first", "again"}
BY RunsActs, BodyOwed DEF BodyRuns, BodyFits, OwnType

LEMMA BodyEndsKeeps ==
  ASSUME TurnInv, NEW n \in Nodes, BodyEnds(n), Calm
  PROVE  TurnInv'
<1>1. /\ Acts(n) /\ Stays(n) /\ IsA(n, "live") /\ kept' = kept /\ \A j : ~Replied(j)
      /\ BodyFits(n, node[n], asked[n].turn) /\ node[n] \in OwnType /\ node[n].first \in ContentType
      /\ node[n].mode \in {"swap", "again"} /\ (asked[n].turn = "new" <=> node[n].mode = "again")
      /\ asked[n].turn \in {"new", "live"}
  BY BodyFacts, CalmStays DEF BodyEnds
<1>2. CASE node[n].mode = "again" /\ Passes(n, First(node[n].first, FALSE), Taken(node[n]))
  <2>1. PICK own : own = Taken(node[n])
    OBVIOUS
  <2>6. PICK r : r = First(node[n].first, FALSE)
    OBVIOUS
  <2>2. own \in OwnType /\ own.step = node[n].step /\ own.stash = node[n].stash
    BY <1>1, <2>1, ReplyTypes DEF Taken, OwnType
  <2>3. r \in ReplyType /\ r.is = "first" /\ r.live = FALSE
    <3>1. r \in ReplyType
      BY <1>1, <2>6, ReplyTypes
    <3>2. r.is = "first" /\ r.live = FALSE
      BY <2>6, ReplyTypes
    <3> QED BY <3>1, <3>2
  <2>4. Replies(n, r, TRUE, own) /\ InTurn(r, asked[n].turn) /\ TurnAfter(r, asked[n].turn) = "settled"
    BY <1>1, <1>2, <2>1, <2>6, <2>3 DEF Passes, InTurn, TurnAfter
  <2>5. BodyFits(n, own, "settled")
    BY <1>1, <2>2 DEF BodyFits
  <2> QED BY <1>1, <2>2, <2>3, <2>4, <2>5, BodyReplies
<1>3. CASE node[n].mode # "again" /\ Passes(n, None, node[n])
  <2>1. InTurn(None, asked[n].turn)
    BY <1>1, <1>3, ReplyTypes DEF InTurn
  <2> QED BY <1>1, <1>3, <2>1, ReplyTypes, PassesAlso
<1> QED BY <1>2, <1>3 DEF BodyEnds

LEMMA BodyAwaitsKeeps ==
  ASSUME TurnInv, NEW n \in Nodes, BodyAwaits(n), Calm
  PROVE  TurnInv'
<1>0. PICK e : e = Now(n).event
  OBVIOUS
<1> DEFINE out == Await(n, e)
<1>1. /\ Acts(n) /\ IsA(n, "live") /\ kept' = kept /\ (\A j : ~Replied(j)) /\ ~Fresh(n)
      /\ asked[n].turn \in {"new", "live"} /\ node[n] \in OwnType /\ At(n, "await")
      /\ e \in Awaited(template[n])
  BY <1>0, BodyFacts, BodySteps DEF BodyAwaits
<1>2. out \in {"none", "ok"} \cup Outcomes /\ (e = Yield \/ e \in Events)
  BY <1>1, AwaitTypes
<1>3. Stays(n)
  <2>1. registered' \subseteq Events /\ woken' \in BOOLEAN
    BY <1>0, <1>2, WaitsTypes DEF BodyAwaits
  <2>2. parts' \in [Nodes -> Seq(Token)] /\ collecting' = collecting
    BY TurnTree DEF BodyAwaits, hoistVars, OtherTypes
  <2> QED BY <1>1, <2>1, <2>2, WaitingStays
<1>4. CASE out = "none" /\ Yields(n, Pending, Left(e, node[n]))
  <2>1. PICK own : own = Left(e, node[n])
    OBVIOUS
  <2>2. /\ own \in OwnType /\ own.step = node[n].step /\ own.mode = node[n].mode /\ own.stash = node[n].stash
        /\ own.emit = node[n].emit
    BY <1>1, <2>1 DEF Left, OwnType
  <2>3. InTurn(Pending, asked[n].turn)
    BY ReplyTypes DEF InTurn
  <2>4. \A k \in Kids(n) : BodyOwes(n, own, k) \in {"any", asked[k].turn}
    BY <1>1, <2>2, BodyStillOwed
  <2> QED BY <1>1, <1>3, <1>4, <2>1, <2>2, <2>3, <2>4, ReplyTypes, YieldsKeeps
<1>5. CASE out = "ok" /\ GoesOn(n, PastStep(node[n]))
  <2>1. ~At(n, "emit")
    BY <1>1 DEF At
  <2> QED BY <1>1, <1>3, <1>5, <2>1, PastStepKeeps
<1>6. CASE out \notin {"none", "ok"} /\ Passes(n, Failed(out), node[n])
  <2>1. PICK r : r = Failed(out)
    OBVIOUS
  <2>2. r \in ReplyType /\ r.is = "error" /\ InTurn(r, asked[n].turn)
    BY <1>2, <1>6, <2>1, ReplyTypes DEF InTurn
  <2> QED BY <1>1, <1>3, <1>6, <2>1, <2>2, PassesAlso
<1> QED BY <1>0, <1>4, <1>5, <1>6 DEF BodyAwaits

LEMMA BodyEmitsKeeps ==
  ASSUME TurnInv, NEW n \in Nodes, BodyEmits(n), Calm
  PROVE  TurnInv'
<1>0. PICK k : k = Now(n).kid
  OBVIOUS
<1>1. /\ Acts(n) /\ Stays(n) /\ IsA(n, "live") /\ kept' = kept /\ (\A j : ~Replied(j)) /\ ~Fresh(n)
      /\ asked[n].turn \in {"new", "live"} /\ node[n] \in OwnType /\ At(n, "emit")
      /\ k \in Kids(n) /\ build \in Int /\ build # Away
  BY <1>0, BodyFacts, BodySteps, CalmStays, PathFacts, TurnTree DEF BodyEmits, TurnTypes
<1>2. k \in Int /\ k # Away
  BY <1>1, TurnTree DEF Away
<1>3. /\ Owed(n, k) = (IF node[n].emit = "first" THEN "new" ELSE IF node[n].emit = "swaps" THEN "live" ELSE "any")
      /\ Asking(n, k) <=> Owed(n, k) \in {"new", "live"}
  <2>1. PICK steps : steps = template[n].steps
    OBVIOUS
  <2>2. /\ node[n].step \in 1..Len(steps) /\ k = steps[node[n].step].kid /\ steps[node[n].step].op = "emit"
        /\ Len(steps) \in Nat
        /\ \A i, j \in 1..Len(steps) :
               (steps[i].op = "emit" /\ steps[j].op = "emit" /\ steps[i].kid = steps[j].kid) => i = j
    BY <1>0, <1>1, <2>1, BodySteps
  <2>3. ~\E i \in 1..Len(steps) : steps[i].op = "emit" /\ steps[i].kid = k /\ node[n].step < i
    BY <2>2
  <2>4. BodyOwes(n, node[n], k) = (IF node[n].emit = "first" THEN "new"
                                  ELSE IF node[n].emit = "swaps" THEN "live" ELSE "any")
    BY <2>1, <2>2, <2>3 DEF BodyOwes
  <2> QED BY <1>0, <1>1, <2>4, BodyOwed
<1>4. CASE node[n].emit = "done" /\ GoesOn(n, PastStep(node[n]))
  BY <1>1, <1>4, PastStepKeeps
<1>5. CASE node[n].emit = "first" /\ AsksSealed(n, k, node[n])
  <2>1. AsksIn(n, k, "first", k, node[n]) /\ Owed(n, k) = "new" /\ Asking(n, k)
    BY <1>3, <1>5 DEF AsksSealed
  <2> QED BY <2>1, <1>1, <1>2, AsksAlso
<1>6. CASE node[n].emit = "swaps" /\ Asks(n, k, "swap", node[n])
  <2>1. AsksIn(n, k, "swap", build, node[n]) /\ Owed(n, k) = "live" /\ Asking(n, k)
    BY <1>3, <1>6 DEF Asks
  <2> QED BY <2>1, <1>1, AsksAlso
<1> QED BY <1>0, <1>4, <1>5, <1>6 DEF BodyEmits

LEMMA BodyAnsweredKeeps ==
  ASSUME TurnInv, NEW n \in Nodes, NEW k \in Kids(n), BodyAnswered(n, k), Calm
  PROVE  TurnInv'
<1>1. /\ Acts(n) /\ Stays(n) /\ IsA(n, "live") /\ Answers(k, n) /\ kept' = kept /\ ~Fresh(n) /\ OnPath(n)
      /\ Replied(k) /\ \A j : j # k => ~Replied(j)
      /\ asked[n].turn \in {"new", "live"} /\ Asking(n, k)
      /\ InTurn(reply, Owed(n, k)) /\ asked[k].turn = TurnAfter(reply, Owed(n, k))
      /\ reply \in ReplyType /\ reply.content \in ContentType /\ node[n] \in OwnType /\ n \in Int
      /\ reply.live \in BOOLEAN /\ reply.is \in {"pending", "none", "first", "swap", "error"}
  BY ReplyOwed, CalmStays, TurnTree DEF BodyAnswered
<1>2. /\ BodyFits(n, node[n], asked[n].turn) /\ At(n, "emit") /\ Now(n).kid = k
      /\ asked[n].turn = "live" => node[n].mode = "swap" /\ node[n].stash = <<>>
      /\ node[n].mode \in {"first", "swap", "again"}
      /\ \A j \in Kids(n) : Owed(n, j) = BodyOwes(n, node[n], j)
  BY <1>1, BodyOwed DEF OwnType
<1>3. PICK steps : steps = template[n].steps
  OBVIOUS
<1>4. /\ node[n].step \in 1..Len(steps) /\ k = steps[node[n].step].kid /\ steps[node[n].step].op = "emit"
      /\ Now(n).caught \in BOOLEAN /\ Now(n) = steps[node[n].step]
      /\ ~\E i \in 1..Len(steps) : steps[i].op = "emit" /\ steps[i].kid = k /\ node[n].step < i
  <2>1. /\ Len(steps) \in Nat
        /\ \A i, j \in 1..Len(steps) :
               (steps[i].op = "emit" /\ steps[j].op = "emit" /\ steps[i].kid = steps[j].kid) => i = j
    BY <1>1, <1>3, BodySteps
  <2>2. /\ node[n].step \in 1..Len(steps) /\ k = steps[node[n].step].kid /\ steps[node[n].step].op = "emit"
        /\ Now(n).caught \in BOOLEAN /\ Now(n) = steps[node[n].step]
    BY <1>1, <1>2, <1>3, BodySteps
  <2> QED BY <2>1, <2>2
<1>5. \A own : own.step = node[n].step =>
         BodyOwes(n, own, k) = (IF own.emit = "first" THEN "new" ELSE IF own.emit = "swaps" THEN "live" ELSE "any")
  BY <1>3, <1>4 DEF BodyOwes
<1>6. /\ node[n].emit = "first" => Owed(n, k) = "new"
      /\ Owed(n, k) = "new" => node[n].emit = "first"
      /\ Owed(n, k) \in {"new", "live"}
  <2>1. node[n].emit \in {"first", "swaps", "done"}
    BY <1>1 DEF OwnType
  <2> QED BY <1>1, <1>2, <1>5, <2>1 DEF Asking
<1>7. ASSUME NEW own, own.step = node[n].step, own.emit = "done" \/ (own.emit = "swaps" /\ asked[k].turn = "live")
      PROVE  \A j \in Kids(n) : BodyOwes(n, own, j) \in {"any", asked[j].turn}
  <2>1. ASSUME NEW j \in Kids(n), j # k PROVE BodyOwes(n, own, j) = BodyOwes(n, node[n], j)
    BY <1>3, <1>4, <1>7, <2>1 DEF BodyOwes
  <2>2. ASSUME NEW j \in Kids(n), j # k PROVE Owed(n, j) \in {"any", asked[j].turn}
    BY <1>1, <2>2, SameOwed
  <2>3. BodyOwes(n, own, k) \in {"any", asked[k].turn}
    BY <1>5, <1>7
  <2> QED BY <2>1, <2>2, <2>3, <1>2
<1>8. ASSUME reply.is = "first"
      PROVE  asked[k].turn = (IF reply.live THEN "live" ELSE "settled")
  BY <1>1, <1>6, <1>8 DEF InTurn, TurnAfter
<1>9. /\ Emitted(n) \in OwnType /\ Emitted(n).step = node[n].step /\ Emitted(n).mode = node[n].mode
      /\ Emitted(n).stash = node[n].stash
      /\ Emitted(n).emit = (IF reply.live THEN "swaps" ELSE "done")
  BY <1>1 DEF Emitted, OwnType
<1>10. CASE /\ reply.is = "first" /\ node[n].mode = "first"
            /\ GoesOn(n, [Emitted(n) EXCEPT !.mode = "again", !.first = reply.content])
  <2>1. PICK own : own = [Emitted(n) EXCEPT !.mode = "again", !.first = reply.content]
    OBVIOUS
  <2>2. /\ own \in OwnType /\ own.step = node[n].step /\ own.mode = "again" /\ own.stash = node[n].stash
        /\ own.emit = (IF reply.live THEN "swaps" ELSE "done")
    BY <2>1, <1>1, <1>9 DEF OwnType
  <2>3. asked[n].turn = "new"
    BY <1>1, <1>2, <1>10
  <2>4. BodyFits(n, own, asked[n].turn)
    BY <2>2, <2>3, <1>2 DEF BodyFits
  <2>5. \A j \in Kids(n) : BodyOwes(n, own, j) \in {"any", asked[j].turn}
    BY <2>2, <1>7, <1>8, <1>10
  <2> QED BY <2>1, <2>2, <2>3, <2>4, <2>5, <1>1, <1>10, BodyGoesOn
<1>11. CASE reply.is = "first" /\ node[n].mode # "first" /\ Yields(n, Swap(n, reply.content), Emitted(n))
  <2>1. PICK own, r : own = Emitted(n) /\ r = Swap(n, reply.content)
    OBVIOUS
  <2>2. r \in ReplyType /\ r.is = "swap"
    BY <2>1, <1>1, ReplyTypes
  <2>3. InTurn(r, asked[n].turn) \/ node[n].mode = "again"
    BY <2>2, <1>1, <1>2, <1>11 DEF InTurn, BodyFits
  <2>4. \A j \in Kids(n) : BodyOwes(n, own, j) \in {"any", asked[j].turn}
    BY <2>1, <1>7, <1>8, <1>9, <1>11
  <2> QED BY <2>1, <2>2, <2>3, <2>4, <1>1, <1>9, <1>11, YieldsKeeps
<1>12. CASE /\ reply.is = "none" \/ (reply.is = "error" /\ Now(n).caught)
            /\ GoesOn(n, PastStep(node[n]))
  <2>1. Now(n).caught \/ node[n].emit # "first"
    BY <1>1, <1>6, <1>12 DEF InTurn
  <2> QED BY <2>1, <1>1, <1>2, <1>12, PastStepKeeps
<1>13. CASE reply.is \in {"pending", "swap"} /\ Yields(n, reply, node[n])
  <2>1. InTurn(reply, asked[n].turn) \/ node[n].mode = "again"
    BY <1>1, <1>2, <1>6, <1>13 DEF InTurn, BodyFits
  <2>2. \A j \in Kids(n) : BodyOwes(n, node[n], j) \in {"any", asked[j].turn}
    BY <1>1, <1>13, BodyStillOwed
  <2> QED BY <2>1, <2>2, <1>1, <1>13, YieldsKeeps
<1>14. CASE reply.is = "error" /\ Passes(n, reply, node[n])
  <2>1. InTurn(reply, asked[n].turn)
    BY <1>14 DEF InTurn
  <2> QED BY <2>1, <1>1, <1>14, PassesAlso
<1> QED BY <1>10, <1>11, <1>12, <1>13, <1>14 DEF BodyAnswered

\* What a node owes its children before its first poll.
LEMMA BodyOwesFirst ==
  ASSUME template \in Templates, NEW p \in Nodes, IsA(p, "live"), NEW k \in Kids(p),
         NEW own, own.step = 1, own.emit = "first"
  PROVE  BodyOwes(p, own, k) = "new"
<1>1. PICK steps : steps = template[p].steps
  OBVIOUS
<1>2. PICK i \in 1..Len(steps) : steps[i].op = "emit" /\ steps[i].kid = k /\ Len(steps) \in Nat
  <2>1. Len(steps) \in Nat
    BY <1>1, KidsOfKind, LenProperties
  <2> QED BY <1>1, <2>1, KidsOfKind
<1>3. CASE i = 1
  BY <1>1, <1>2, <1>3 DEF BodyOwes
<1>4. CASE i # 1
  <2>1. 1 < i
    BY <1>2, <1>4
  <2> QED BY <1>1, <1>2, <2>1 DEF BodyOwes
<1> QED BY <1>3, <1>4

LEMMA FreshOwed ==
  ASSUME template \in Templates, NEW p \in Nodes, NEW k \in Kids(p)
  PROVE  /\ asked[p] = Unasked /\ node[p] = New /\ kept[k] = Empty => Owed(p, k) = "new"
         /\ template' = template /\ asked'[p] = Unasked /\ node'[p] = New /\ kept'[k] = Empty => Owed(p, k)' = "new"
<1>1. template[p].kind \in {"then", "hoist", "suspense", "boundary", "join", "loop", "live"}
  BY KidsOfKind DEF IsA
<1>2. New.at = "start" /\ New.emit = "first" /\ New.step = 1 /\ Empty.held = <<>> /\ Unasked.turn = "new"
  BY DEF New, Empty, Unasked
<1>3. template[p].kind \in {"suspense", "boundary"} => k = template[p].kid \/ k = template[p].fallback
  BY KidsOfKind DEF IsA
<1>4. CASE template[p].kind = "live"
  <2>1. BodyOwes(p, New, k) = "new"
    BY <1>2, <1>4, BodyOwesFirst DEF IsA
  <2>2. asked[p] = Unasked /\ node[p] = New => Owed(p, k) = BodyOwes(p, New, k)
    BY <1>2, <1>4 DEF Owed, BodyOwes, Lists, At, Now
  <2>3. template' = template /\ asked'[p] = Unasked /\ node'[p] = New => Owed(p, k)' = BodyOwes(p, New, k)
    BY <1>2, <1>4 DEF Owed, BodyOwes, Lists, At, Now
  <2> QED BY <2>1, <2>2, <2>3
<1>5. CASE template[p].kind # "live"
  <2>1. asked[p] = Unasked /\ node[p] = New /\ kept[k] = Empty => Owed(p, k) = "new"
    BY <1>1, <1>2, <1>3, <1>5 DEF Owed, Lists
  <2>2. template' = template /\ asked'[p] = Unasked /\ node'[p] = New /\ kept'[k] = Empty => Owed(p, k)' = "new"
    BY <1>1, <1>2, <1>3, <1>5 DEF Owed, Lists
  <2> QED BY <2>1, <2>2
<1> QED BY <1>4, <1>5

LEMMA FreshFits ==
  ASSUME template \in Templates, NEW p \in Nodes
  PROVE  /\ asked[p] = Unasked /\ node[p] = New => OwnFits(p) /\ ~OnPath(p)
         /\ template' = template /\ asked'[p] = Unasked /\ node'[p] = New => OwnFits(p)' /\ ~OnPath(p)'
<1>1. /\ New.at = "start" /\ New.emit = "first" /\ New.step = 1 /\ New.mode = "first" /\ New.stash = <<>>
      /\ Unasked.turn = "new" /\ Unasked.outer = Away
  BY DEF New, Unasked
<1>2. \A i \in 1..Len(template[p].steps) : 1 <= i /\ ~(i < 1)
  OBVIOUS
<1>3. asked[p] = Unasked /\ node[p] = New => OwnFits(p) /\ ~OnPath(p)
  BY <1>1, <1>2 DEF OwnFits, OnPath
<1>4. template' = template /\ asked'[p] = Unasked /\ node'[p] = New => OwnFits(p)' /\ ~OnPath(p)'
  BY <1>1, <1>2 DEF OwnFits, OnPath
<1> QED BY <1>3, <1>4

LEMMA FreshTypes == Unasked \in AskedType /\ New \in OwnType /\ Empty \in KeptType
BY ReplyTypes, EmptySeq DEF Unasked, New, Empty, AskedType, OwnType, KeptType, Away

\* The views of the last round are as new.
LEMMA BodyRepeatsKeeps ==
  ASSUME TurnInv, NEW n \in Nodes, BodyRepeats(n), Calm
  PROVE  TurnInv'
<1>0. PICK B : B = Below(n)
  OBVIOUS
<1>1. /\ B \subseteq Nodes /\ n \notin B /\ Kids(n) \subseteq B /\ 1 \notin B
      /\ \A p \in B : Kids(p) \subseteq B
      /\ \A p \in Nodes : \A k \in Kids(p) : k \in B => p \in B \cup {n}
  <2>1. 1 \notin B
    <3>1. n \in Nat /\ 1 <= n /\ \A m \in B : n < m
      BY <1>0, TurnTree, BelowNodes
    <3> QED BY <3>1
  <2> QED BY <1>0, <2>1, TurnTree, BelowNodes
<1>2. PICK own : own = [node[n] EXCEPT !.step = 1, !.emit = "first", !.yielded = 0]
  OBVIOUS
<1>3. /\ Acts(n) /\ IsA(n, "live") /\ (\A j : ~Replied(j)) /\ ~Fresh(n) /\ OnPath(n)
      /\ asked[n].turn \in {"new", "live"} /\ BodyFits(n, node[n], asked[n].turn)
      /\ node[n] \in OwnType /\ poll.does = "run" /\ poll.node = n
      /\ asked[n].turn = "live" => node[n].mode = "swap" /\ node[n].stash = <<>>
  BY BodyFacts, BodyOwed DEF BodyRepeats, BodyRuns, Runs
<1>4. own \in OwnType /\ own.step = 1 /\ own.emit = "first" /\ own.mode = node[n].mode /\ own.stash = node[n].stash
  <2>1. own = [[[node[n] EXCEPT !.step = 1] EXCEPT !.emit = "first"] EXCEPT !.yielded = 0]
    BY <1>2, <1>3
  <2>2. [node[n] EXCEPT !.step = 1] \in OwnType /\ [node[n] EXCEPT !.step = 1].step = 1
    BY <1>3 DEF OwnType
  <2>3. own \in OwnType
    BY <2>1, <2>2 DEF OwnType
  <2> QED BY <2>3, <1>2, <1>3 DEF OwnType
<1>5. /\ template' = template /\ poll' = poll /\ reply' = reply /\ build' = build /\ misplaced' = misplaced
      /\ phase' = phase /\ page' = page /\ outcome' = outcome /\ collecting' = collecting
      /\ registered' = registered /\ woken' = woken
  BY DEF BodyRepeats, Calm, taskVars, pageVars
<1>6. /\ node'[n] = own /\ asked'[n] = asked[n]
      /\ \A m \in B : node'[m] = New /\ asked'[m] = Unasked /\ kept'[m] = Empty /\ parts'[m] = <<>>
      /\ \A m \in Nodes : m \notin B => asked'[m] = asked[m] /\ kept'[m] = kept[m] /\ parts'[m] = parts[m]
      /\ \A m \in Nodes : m \notin B /\ m # n => node'[m] = node[m]
      /\ DOMAIN node' = Nodes /\ DOMAIN asked' = Nodes /\ DOMAIN kept' = Nodes /\ DOMAIN parts' = Nodes
      /\ node' = [m \in Nodes |-> node'[m]]
  BY <1>0, <1>1, <1>2 DEF BodyRepeats
<1>7. /\ asked' \in [Nodes -> AskedType] /\ node' \in [Nodes -> OwnType]
      /\ kept' \in [Nodes -> KeptType] /\ parts' \in [Nodes -> Seq(Token)]
  <2>1. \A m \in Nodes : asked'[m] \in AskedType /\ kept'[m] \in KeptType /\ parts'[m] \in Seq(Token)
    <3>1. \A m \in Nodes : asked[m] \in AskedType /\ kept[m] \in KeptType /\ parts[m] \in Seq(Token)
      BY TurnTree DEF TurnTypes, OtherTypes
    <3>2. <<>> \in Seq(Token)
      BY EmptySeq
    <3> QED BY <1>6, <3>1, <3>2, FreshTypes
  <2>2. \A m \in Nodes : node'[m] \in OwnType
    BY <1>4, <1>6, FreshTypes, TurnTree DEF TurnTypes
  <2>3. /\ asked' = [m \in Nodes |-> asked'[m]] /\ kept' = [m \in Nodes |-> kept'[m]]
        /\ parts' = [m \in Nodes |-> parts'[m]]
    BY DEF BodyRepeats
  <2> QED BY <2>1, <2>2, <2>3, <1>6
<1>8. TypeOK'
  BY <1>5, <1>7, TurnTree DEF TypeOK, TurnTypes, OtherTypes, Events, Nodes
<1>9. /\ Nodes' = Nodes /\ \A m \in Nodes : Kids(m)' = Kids(m)
      /\ \A m : (Replied(m)' <=> FALSE) /\ (Fresh(m)' <=> Fresh(m)) /\ ~Idle'
      /\ \A m : \A kind : (IsA(m, kind)' <=> IsA(m, kind)) /\ (IsList(m)' <=> IsList(m))
      /\ \A m \in Nodes : OnPath(m)' <=> OnPath(m) /\ m \notin B
      /\ RootOwed' = RootOwed
  BY <1>3, <1>5, <1>6, FreshFits, TurnTree
     DEF Nodes, Kids, Replied, Fresh, Idle, IsA, IsList, OnPath, RootOwed, Unasked
<1>10. PathInv'
  <2>1. \A p \in Nodes : \A k \in Kids(p) : OnPath(k)' => OnPath(p)'
    BY <1>1, <1>9, PathFacts, TurnTree
  <2>2. \A p \in Nodes : \A j, k \in Kids(p) : OnPath(j)' /\ OnPath(k)' => j = k
    BY <1>9, PathFacts, TurnTree
  <2>3. OnPath(n)' /\ \A k \in Kids(n) : ~OnPath(k)'
    BY <1>1, <1>3, <1>9, TurnTree
  <2>4. \A m \in Nodes : OnPath(m)' => asked'[m].turn \in {"new", "live"}
    BY <1>6, <1>9, PathFacts
  <2>5. build' # Away /\ poll'.does = "run" /\ poll'.node = n
    BY <1>3, <1>5, PathFacts
  <2> QED BY <2>1, <2>2, <2>3, <2>4, <2>5, <1>3, <1>9 DEF PathInv
<1>11. ASSUME NEW p \in Nodes, NEW k \in Kids(p), p \notin B, p # n
       PROVE  Owed(p, k)' = Owed(p, k) /\ Asking(p, k)' = Asking(p, k)
  <2>1. /\ kept'[k] = kept[k] /\ node'[p] = node[p] /\ asked'[p] = asked[p] /\ k \notin B
    BY <1>1, <1>6, <1>11, TurnTree
  <2>2. Owed(p, k)' = Owed(p, k)
    BY <1>5, <2>1 DEF Owed, At, Now
  <2> QED BY <1>5, <2>1, <2>2 DEF Asking, At, Now, Place, ForFirst
<1>12. EdgesAsk'
  <2>1. SUFFICES ASSUME NEW p \in Nodes, NEW k \in Kids(p), OnPath(k)' PROVE Asking(p, k)'
    BY <1>9, TurnTree DEF EdgesAsk
  <2>2. OnPath(k) /\ p \notin B /\ p # n
    BY <2>1, <1>1, <1>9, TurnTree
  <2>3. Asking(p, k)
    BY <2>2 DEF TurnInv, EdgesAsk
  <2> QED BY <2>2, <2>3, <1>11
<1>13. EdgesTurn'
  <2>1. SUFFICES ASSUME NEW p \in Nodes, NEW k \in Kids(p)
                 PROVE  Owed(p, k)' = "any" \/ asked'[k].turn = Owed(p, k)'
    BY <1>9 DEF EdgesTurn, EdgeTurn
  <2>2. k \in B => asked'[k].turn = "new"
    BY <1>6 DEF Unasked
  <2>3. CASE p \in B
    <3>1. k \in B
      BY <1>1, <2>3
    <3>2. Owed(p, k)' = "new"
      BY <1>5, <1>6, <2>3, <3>1, FreshOwed, TurnTree
    <3> QED BY <2>2, <3>1, <3>2
  <2>4. CASE p = n
    <3>1. BodyOwes(n, own, k) = "new" /\ k \in B
      BY <1>1, <1>3, <1>4, <2>4, BodyOwesFirst, TurnTree
    <3>2. Owed(n, k)' = BodyOwes(n, own, k)
      BY <1>3, <1>5, <1>6, <2>4 DEF Owed, BodyOwes, Lists, At, Now, IsA
    <3> QED BY <2>2, <2>4, <3>1, <3>2
  <2>5. CASE p \notin B /\ p # n
    <3>1. k \notin B /\ k \in Nodes /\ ~Replied(k)
      BY <1>1, <1>3, <2>5, TurnTree
    <3>2. Owed(p, k) = "any" \/ asked[k].turn = Owed(p, k)
      BY <3>1, SameOwed
    <3> QED BY <3>1, <3>2, <2>5, <1>6, <1>11
  <2> QED BY <2>3, <2>4, <2>5
<1>14. RootInv'
  <2>1. asked'[1] = asked[1] /\ ~Replied(1)' /\ RootOwed \in {"new", "live"} /\ asked[1].turn = RootOwed
    BY <1>1, <1>3, <1>6, <1>9, ActsOnPath, TurnTree
  <2> QED BY <2>1, <1>9 DEF RootInv
<1>15. OwnInv'
  <2>1. SUFFICES ASSUME NEW m \in Nodes PROVE OwnFits(m)'
    BY <1>9 DEF OwnInv
  <2>2. CASE m \in B
    BY <2>2, <1>5, <1>6, FreshFits, TurnTree
  <2>3. CASE m = n
    <3>1. BodyFits(n, own, asked[n].turn)
      <4>1. \A i \in 1..Len(template[n].steps) : 1 <= i /\ ~(i < 1)
        OBVIOUS
      <4> QED BY <4>1, <1>3, <1>4 DEF BodyFits
    <3>2. template'[n].kind = "live" /\ OnPath(n)' /\ ~Fresh(n)' /\ node'[n] = own /\ asked'[n] = asked[n]
      BY <1>1, <1>3, <1>5, <1>6, <1>9 DEF IsA
    <3> QED BY <2>3, <3>1, <3>2, <1>3, <1>4, <1>5 DEF OwnFits, BodyFits
  <2>4. CASE m \notin B /\ m # n
    <3>1. OwnFits(m) /\ node'[m] = node[m] /\ asked'[m] = asked[m] /\ (OnPath(m)' <=> OnPath(m))
      BY <2>4, <1>6, <1>9 DEF TurnInv, OwnInv
    <3> QED BY <3>1, <1>5, <1>9 DEF OwnFits
  <2> QED BY <2>2, <2>3, <2>4
<1>16. ListInv'
  <2>1. SUFFICES ASSUME NEW m \in Nodes, IsList(m), OnPath(m)', ~Fresh(m) PROVE ListFits(m)'
    BY <1>9 DEF ListInv, ListFits
  <2>2. m \notin B /\ m # n /\ OnPath(m) /\ ListFits(m) /\ node[m].scan \in Nat
    BY <2>1, <1>3, <1>9, TurnTree DEF TurnInv, ListInv, IsList, IsA, Lists, TurnTypes, OwnType
  <2>3. node'[m] = node[m] /\ asked'[m] = asked[m]
    BY <2>2, <1>6
  <2>4. ASSUME NEW i \in 1..node[m].scan PROVE kept'[template[m].kids[i]] = kept[template[m].kids[i]]
    <3>1. template[m].kids[i] \in Kids(m)
      BY <2>1, <2>2, KidsOfKind, TurnTree DEF ListFits
    <3>2. template[m].kids[i] \in Nodes /\ template[m].kids[i] \notin B
      BY <3>1, <2>2, <1>1, TurnTree
    <3> QED BY <3>2, <1>6
  <2>5. /\ node[m].scan <= Len(template[m].kids)
        /\ ForFirst(m) => \A i \in 1..node[m].scan : kept[template[m].kids[i]].held = <<>> => node[m].waits
    BY <2>1, <2>2 DEF ListFits
  <2> QED BY <2>3, <2>4, <2>5, <1>5 DEF ListFits, ForFirst
<1> QED BY <1>8, <1>10, <1>12, <1>13, <1>14, <1>15, <1>16 DEF TurnInv

-----------------------------------------------------------------------------
(* The response.                                                            *)

\* The task polls the root, which no poll has been in.
LEMMA PollKeeps ==
  ASSUME TurnInv, Poll, Calm
  PROVE  TurnInv'
<1>1. /\ Idle /\ Streaming /\ ~OnPath(1) /\ poll.node = 1 /\ (\A j : ~Replied(j)) /\ (\A j : ~Fresh(j))
      /\ asked[1].turn = RootOwed /\ RootOwed \in {"new", "live"} /\ 1 \in Nodes
      /\ \A k \in Kids(1) : ~OnPath(k)
  BY TurnTree, PathFacts DEF Poll, Idle, Replied, Fresh, Streaming, TurnInv, PathInv, RootInv, RootOwed
<1>2. PICK what \in {"first", "swap"}, home \in Int :
         /\ home # Away /\ AsksIn(1, 1, what, home, node[1])
         /\ asked[1].turn = IF what = "first" THEN "new" ELSE "live"
  <2>1. CASE phase = "first"
    <3>1. AsksIn(1, 1, "first", 1, node[1]) /\ asked[1].turn = "new" /\ 1 # Away
      BY <1>1, <2>1 DEF Poll, AsksSealed, RootOwed, Away
    <3> QED BY <3>1
  <2>2. CASE phase # "first"
    <3>1. AsksIn(1, 1, "swap", build, node[1]) /\ asked[1].turn = "live"
      BY <1>1, <2>2 DEF Poll, Asks, RootOwed, Streaming
    <3> QED BY <3>1, TurnTree, PathFacts DEF TurnTypes
  <2> QED BY <2>1, <2>2
<1>3. /\ template' = template /\ kept' = kept /\ phase' = phase /\ reply' = reply /\ misplaced' = misplaced
      /\ node' = node /\ poll' = [does |-> what, node |-> 1] /\ build' = home
      /\ \A m \in Nodes : asked'[m].turn = asked[m].turn
      /\ \A m \in Nodes : m # 1 => asked'[m] = asked[m]
      /\ asked'[1].outer = build
  <2>1. [node EXCEPT ![1] = node[1]] = node
    BY <1>1, TurnTree DEF TurnTypes
  <2> QED BY <2>1, <1>1, <1>2, TurnTree DEF AsksIn, Poll, Calm, pageVars, TurnTypes, AskedType
<1>4. TypeOK'
  <2>1. asked' \in [Nodes -> AskedType]
    BY <1>1, <1>2, TurnTree DEF AsksIn, TurnTypes, AskedType
  <2>2. poll' \in [does : {"idle", "first", "swap", "run", "reply"}, node : Nodes]
    BY <1>1, <1>3
  <2>3. TurnTypes'
    BY <2>1, <2>2, <1>2, <1>3, TurnTree DEF TurnTypes, Nodes
  <2>4. registered' = {} /\ woken' = FALSE /\ UNCHANGED <<outcome, parts, collecting, page>>
    BY DEF Poll, Calm, hoistVars, pageVars
  <2>5. Events' = Events /\ Nodes' = Nodes
    BY <1>3 DEF Events, Nodes
  <2>6. OtherTypes'
    BY <2>4, <2>5, <1>3, TurnTree DEF OtherTypes
  <2> QED BY <2>3, <2>6 DEF TypeOK
<1>5. /\ Nodes' = Nodes /\ \A m \in Nodes : Kids(m)' = Kids(m)
      /\ \A m : ~Replied(m)' /\ (Fresh(m)' <=> m = 1) /\ ~Idle'
      /\ \A m \in Nodes : OnPath(m)' <=> OnPath(m) \/ m = 1
      /\ RootOwed' = RootOwed
  BY <1>1, <1>3, PathFacts DEF Nodes, Kids, Replied, Fresh, Idle, OnPath, RootOwed
<1>6. PathInv'
  <2>1. \A p \in Nodes : \A k \in Kids(p) : OnPath(k)' => OnPath(p)'
    BY <1>5, PathFacts, TurnTree
  <2>2. \A p \in Nodes : \A j, k \in Kids(p) : OnPath(j)' /\ OnPath(k)' => j = k
    BY <1>5, PathFacts, TurnTree
  <2>3. OnPath(1)' /\ \A k \in Kids(1) : ~OnPath(k)'
    BY <1>1, <1>5, TurnTree
  <2>4. \A m \in Nodes : OnPath(m)' => asked'[m].turn \in {"new", "live"}
    BY <1>1, <1>3, <1>5, PathFacts
  <2>5. /\ build' # Away /\ poll'.does = what /\ poll'.node = 1
        /\ asked'[1].turn = IF what = "first" THEN "new" ELSE "live"
    BY <1>1, <1>2, <1>3
  <2>6. what \in {"first", "swap"} /\ poll'.does \notin {"idle", "run", "reply"}
    BY <2>5
  <2>7. \A m : ~Replied(m)'
    BY <1>5
  <2>8. ~Idle' /\ Nodes' = Nodes /\ \A m \in Nodes : Kids(m)' = Kids(m)
    BY <1>5
  <2>9. /\ poll'.does = "first" => asked'[poll'.node].turn = "new"
        /\ poll'.does = "swap" => asked'[poll'.node].turn = "live"
    BY <2>5, <2>6
  <2>10. OnPath(poll.node)' /\ \A k \in Kids(poll.node)' : ~OnPath(k)'
    <3>1. OnPath(poll.node)' <=> OnPath(1)'
      BY <2>5 DEF OnPath
    <3>2. Kids(poll.node)' = Kids(1)'
      BY <2>5 DEF Kids
    <3> QED BY <3>1, <3>2, <2>3, <2>8, <1>1
  <2> HIDE DEF AsksIn
  <2> QED BY <2>1, <2>2, <2>4, <2>5, <2>6, <2>7, <2>8, <2>9, <2>10 DEF PathInv
<1>7. ASSUME NEW p \in Nodes, NEW k \in Kids(p) PROVE Owed(p, k)' = Owed(p, k) /\ Asking(p, k)' = Asking(p, k)
  <2>1. /\ asked'[p].turn = asked[p].turn /\ node'[p] = node[p] /\ template' = template
        /\ kept'[k] = kept[k]
    BY <1>3
  <2>2. Owed(p, k)' = Owed(p, k)
    BY <2>1 DEF Owed, At, Now
  <2> QED BY <2>1, <2>2 DEF Asking, At, Now, Place, ForFirst
<1>8. EdgesAsk' /\ EdgesTurn'
  <2>1. \A p \in Nodes : \A k \in Kids(p) : k \in Nodes /\ k # 1
    BY TurnTree
  <2>2. \A p \in Nodes : \A k \in Kids(p) : OnPath(k) => Asking(p, k)
    BY DEF TurnInv, EdgesAsk
  <2>3. \A p \in Nodes : \A k \in Kids(p) : Owed(p, k) = "any" \/ asked[k].turn = Owed(p, k)
    BY <1>1, SameOwed
  <2> QED BY <2>1, <2>2, <2>3, <1>3, <1>5, <1>7 DEF EdgesAsk, EdgesTurn, EdgeTurn
<1>9. RootInv'
  BY <1>1, <1>3, <1>5 DEF RootInv
<1>10. OwnInv'
  <2>1. SUFFICES ASSUME NEW m \in Nodes PROVE OwnFits(m)'
    BY <1>5 DEF OwnInv
  <2>2. OwnFits(m) /\ (OnPath(m)' /\ ~Fresh(m)' <=> OnPath(m)) /\ ~Fresh(m)
    BY <1>1, <1>5 DEF TurnInv, OwnInv
  <2> QED BY <2>2, <1>3 DEF OwnFits
<1>11. ListInv'
  <2>1. SUFFICES ASSUME NEW m \in Nodes PROVE ListFits(m)'
    BY <1>5 DEF ListInv
  <2>2. ListFits(m) /\ (OnPath(m)' /\ ~Fresh(m)' <=> OnPath(m)) /\ ~Fresh(m)
    BY <1>1, <1>5 DEF TurnInv, ListInv
  <2> QED BY <2>2, <1>3 DEF ListFits, ForFirst, IsList
<1> QED BY <1>4, <1>6, <1>8, <1>9, <1>10, <1>11 DEF TurnInv

\* The response takes the reply of the root.
LEMMA AnswerKeeps ==
  ASSUME TurnInv, PageAnswered, page' \in Seq(Token), phase' \in {"first", "body", "ended", "redirected", "failed"},
         phase' = "first" => asked[1].turn = "new", phase' = "body" => asked[1].turn = "live"
  PROVE  TurnInv'
<1>1. /\ template' = template /\ kept' = kept /\ reply' = reply /\ misplaced' = misplaced /\ build' = build
      /\ node' = node /\ asked' = asked /\ poll' = [does |-> "idle", node |-> 1] /\ Replied(1)
      /\ \A m : m # 1 => ~Replied(m)
  BY DEF PageAnswered, Replied
<1>2. TypeOK'
  <2>1. TurnTypes'
    BY <1>1, TurnTree DEF TurnTypes, Nodes
  <2>2. woken' \in BOOLEAN
    BY TurnTree DEF PageAnswered, OtherTypes
  <2> QED BY <2>1, <2>2, <1>1, TurnTree DEF TypeOK, OtherTypes, PageAnswered, hoistVars, Nodes, Events
<1>3. /\ Nodes' = Nodes /\ \A m \in Nodes : Kids(m)' = Kids(m)
      /\ \A m : ~Replied(m)' /\ ~Fresh(m)' /\ ~Fresh(m) /\ Idle'
      /\ \A m \in Nodes : (OnPath(m)' <=> OnPath(m)) /\ (m = 1 => ~OnPath(m))
  BY <1>1, PathFacts DEF Nodes, Kids, Replied, Fresh, Idle, OnPath
<1>4. PathInv'
  BY <1>1, <1>3, PathFacts, TurnTree DEF PathInv, Idle
<1>5. ASSUME NEW p \in Nodes, NEW k \in Kids(p) PROVE Owed(p, k)' = Owed(p, k) /\ Asking(p, k)' = Asking(p, k)
  <2>1. Owed(p, k)' = Owed(p, k)
    BY <1>1 DEF Owed, At, Now
  <2> QED BY <2>1, <1>1 DEF Asking, At, Now, Place, ForFirst
<1>6. EdgesAsk' /\ EdgesTurn'
  <2>1. \A p \in Nodes : \A k \in Kids(p) : k \in Nodes /\ k # 1
    BY TurnTree
  <2>2. \A p \in Nodes : \A k \in Kids(p) : OnPath(k) => Asking(p, k)
    BY DEF TurnInv, EdgesAsk
  <2>3. \A p \in Nodes : \A k \in Kids(p) : Owed(p, k) = "any" \/ asked[k].turn = Owed(p, k)
    BY <1>1, <2>1, SameOwed
  <2> QED BY <2>1, <2>2, <2>3, <1>1, <1>3, <1>5 DEF EdgesAsk, EdgesTurn, EdgeTurn
<1>7. RootInv'
  BY <1>1, <1>3 DEF RootInv, RootOwed
<1>8. OwnInv'
  <2>1. SUFFICES ASSUME NEW m \in Nodes PROVE OwnFits(m)'
    BY <1>3 DEF OwnInv
  <2>2. OwnFits(m) /\ (OnPath(m)' <=> OnPath(m)) /\ ~Fresh(m) /\ ~Fresh(m)'
    BY <1>3 DEF TurnInv, OwnInv
  <2> QED BY <2>2, <1>1 DEF OwnFits
<1>9. ListInv'
  <2>1. SUFFICES ASSUME NEW m \in Nodes PROVE ListFits(m)'
    BY <1>3 DEF ListInv
  <2>2. ListFits(m) /\ (OnPath(m)' <=> OnPath(m)) /\ ~Fresh(m) /\ ~Fresh(m)'
    BY <1>3 DEF TurnInv, ListInv
  <2> QED BY <2>2, <1>1 DEF ListFits, ForFirst, IsList
<1> QED BY <1>2, <1>4, <1>6, <1>7, <1>8, <1>9 DEF TurnInv

\* A set of numbers up to N that is not empty has a largest one.
LEMMA Largest ==
  ASSUME NEW N \in Nat, NEW I \in SUBSET (1..N), I # {}
  PROVE  \E i \in I : \A j \in I : j <= i
<1>1. PICK S : S = {m \in Nat : (\E i \in I : i <= m) => \E i \in I : \A j \in I : j <= m => j <= i}
  OBVIOUS
<1>2. 0 \in S
  BY <1>1
<1>3. ASSUME NEW m \in Nat, m \in S PROVE m + 1 \in S
  <2>1. CASE m + 1 \in I
    <3>1. \A j \in I : j <= m + 1 => j <= m + 1
      OBVIOUS
    <3> QED BY <3>1, <1>1, <2>1
  <2>2. CASE m + 1 \notin I
    <3>1. \A j \in I : j <= m + 1 => j <= m
      BY <2>2
    <3>2. (\E i \in I : i <= m) => \E i \in I : \A j \in I : j <= m => j <= i
      BY <1>1, <1>3
    <3>3. (\E i \in I : i <= m + 1) => \E i \in I : \A j \in I : j <= m + 1 => j <= i
      BY <3>1, <3>2
    <3> QED BY <3>3, <1>1
  <2> QED BY <2>1, <2>2
<1>4. N \in S
  BY <1>2, <1>3, NaturalsSet
<1>5. \A j \in I : j <= N
  OBVIOUS
<1>6. (\E i \in I : i <= N) => \E i \in I : \A j \in I : j <= N => j <= i
  BY <1>1, <1>4
<1> QED BY <1>5, <1>6

\* The last place of a token on the page.
LEMMA LastPlace ==
  ASSUME NEW p \in Seq(Token), NEW t, \E i \in 1..Len(p) : p[i] = t
  PROVE  \E i \in 1..Len(p) : /\ Max({j \in 1..Len(p) : p[j] = t}) = i
                               /\ p[i] = t /\ \A j \in 1..Len(p) : p[j] = t => j <= i
<1>1. PICK N \in Nat : N = Len(p)
  OBVIOUS
<1>2. PICK I : I = {i \in 1..N : p[i] = t}
  OBVIOUS
<1>3. I \in SUBSET (1..N) /\ I # {}
  BY <1>1, <1>2
<1>4. PICK i \in I : \A j \in I : j <= i
  BY <1>3, Largest
<1>5. Max(I) = i
  <2>1. \A x \in I : (\A y \in I : x >= y) => x = i
    BY <1>3, <1>4
  <2>2. \A y \in I : i >= y
    BY <1>3, <1>4
  <2> QED BY <2>1, <2>2, <1>4 DEF Max
<1>6. I = {j \in 1..Len(p) : p[j] = t}
  BY <1>1, <1>2
<1> QED BY <1>1, <1>2, <1>4, <1>5, <1>6

\* The page is a sequence of tokens.
LEMMA SpliceTypes ==
  ASSUME NEW p \in Seq(Token), NEW n, NEW tokens \in Seq(Token), Shows(p, n)
  PROVE  Splice(p, n, tokens) \in Seq(Token)
<1>1. (\E m \in 1..Len(p) : p[m] = <<"start", n>>) /\ (\E m \in 1..Len(p) : p[m] = <<"end", n>>)
  <2>1. DOMAIN p = 1..Len(p)
    OBVIOUS
  <2> QED BY <2>1 DEF Shows, Range
<1>2. PICK i \in 1..Len(p) : Max({m \in 1..Len(p) : p[m] = <<"start", n>>}) = i
  BY <1>1, LastPlace
<1>3. PICK j \in 1..Len(p) : Max({m \in 1..Len(p) : p[m] = <<"end", n>>}) = j
  BY <1>1, LastPlace
<1>4. SelectLastInSeq(p, LAMBDA x : x = <<"start", n>>) = i
  BY <1>1, <1>2 DEF SelectLastInSeq
<1>5. SelectLastInSeq(p, LAMBDA x : x = <<"end", n>>) = j
  BY <1>1, <1>3 DEF SelectLastInSeq
<1>6. Splice(p, n, tokens) = SubSeq(p, 1, i) \o tokens \o SubSeq(p, j, Len(p))
  BY <1>4, <1>5 DEF Splice
<1>7. SubSeq(p, 1, i) \in Seq(Token) /\ SubSeq(p, j, Len(p)) \in Seq(Token)
  BY SubSeqProperties
<1> QED BY <1>6, <1>7
LEMMA RespondKeeps ==
  ASSUME TurnInv, Respond
  PROVE  TurnInv'
<1>1. PageAnswered /\ Replied(1) /\ phase = "first"
  BY DEF Respond, PageAnswered
<1>2. /\ InTurn(reply, "new") /\ asked[1].turn = TurnAfter(reply, "new")
      /\ reply \in ReplyType
  BY <1>1, TurnTree DEF TurnInv, RootInv, RootOwed, TurnTypes
<1>3. reply.is \in {"pending", "first", "error"} /\ reply.content.tokens \in Seq(Token)
  BY <1>2 DEF InTurn, ReplyType, ContentType
<1>4. page' \in Seq(Token)
  BY <1>3, TurnTree DEF Respond, OtherTypes
<1>5. /\ phase' \in {"first", "body", "ended", "redirected", "failed"}
      /\ phase' = "first" => reply.is = "pending"
      /\ phase' = "body" => reply.is = "first" /\ reply.live
  BY <1>3 DEF Respond
<1>6. (phase' = "first" => asked[1].turn = "new") /\ (phase' = "body" => asked[1].turn = "live")
  BY <1>2, <1>5 DEF TurnAfter
<1> QED BY <1>1, <1>4, <1>5, <1>6, AnswerKeeps

LEMMA StreamKeeps ==
  ASSUME TurnInv, Stream
  PROVE  TurnInv'
<1>1. PageAnswered /\ Replied(1) /\ phase = "body"
  BY DEF Stream, PageAnswered
<1>2. /\ InTurn(reply, "live") /\ asked[1].turn = TurnAfter(reply, "live")
      /\ reply \in ReplyType
  BY <1>1, TurnTree DEF TurnInv, RootInv, RootOwed, TurnTypes
<1>3. reply.is \in {"pending", "swap", "none", "error"} /\ reply.content.tokens \in Seq(Token)
  BY <1>2 DEF InTurn, ReplyType, ContentType
<1>4. page' \in Seq(Token)
  BY <1>3, TurnTree, SpliceTypes DEF Stream, OtherTypes
<1>5. /\ phase' \in {"first", "body", "ended", "redirected", "failed"} /\ phase' # "first"
      /\ phase' = "body" => reply.is \in {"pending", "swap"}
  BY <1>3 DEF Stream
<1>6. phase' = "body" => asked[1].turn = "live"
  BY <1>2, <1>5 DEF TurnAfter
<1> QED BY <1>1, <1>4, <1>5, <1>6, AnswerKeeps

\* Nothing of the poll depends on the futures or on what wakes the task.
LEMMA OtherwiseKeeps ==
  ASSUME TurnInv, UNCHANGED <<template, turnVars, kept, parts, collecting, phase, page, registered>>,
         outcome' \in [Events -> {"none"} \cup Outcomes], woken' \in BOOLEAN
  PROVE  TurnInv'
<1>1. /\ template' = template /\ poll' = poll /\ reply' = reply /\ asked' = asked /\ node' = node
      /\ build' = build /\ misplaced' = misplaced /\ kept' = kept /\ phase' = phase
      /\ parts' = parts /\ collecting' = collecting /\ page' = page /\ registered' = registered
  BY DEF turnVars
<1>2. Nodes' = Nodes /\ Events' = Events /\ \A m \in Nodes : Kids(m)' = Kids(m)
  BY <1>1 DEF Nodes, Events, Kids
<1>3. TypeOK'
  BY <1>1, <1>2 DEF TurnInv, TypeOK, TurnTypes, OtherTypes
<1>4. PathInv'
  <2>1. PathInv /\ \A m : (OnPath(m)' <=> OnPath(m)) /\ (Replied(m)' <=> Replied(m)) /\ (IsList(m)' <=> IsList(m))
    BY <1>1 DEF TurnInv, OnPath, Replied, IsList
  <2>2. (OnPath(poll.node)' <=> OnPath(poll.node)) /\ Kids(poll.node)' = Kids(poll.node)
    BY <1>1 DEF OnPath, Kids
  <2>3. (Idle' <=> Idle) /\ (IsList(poll.node)' <=> IsList(poll.node)) /\ (IsA(poll.node, "live")' <=> IsA(poll.node, "live"))
    BY <1>1 DEF Idle, IsList, IsA
  <2> QED BY <2>1, <2>2, <2>3, <1>1, <1>2 DEF PathInv
<1>5. ASSUME NEW p \in Nodes, NEW k \in Kids(p) PROVE Owed(p, k)' = Owed(p, k) /\ Asking(p, k)' = Asking(p, k)
  <2>1. Owed(p, k)' = Owed(p, k)
    BY <1>1 DEF Owed, At, Now
  <2> QED BY <2>1, <1>1 DEF Asking, At, Now, Place, ForFirst
<1>6. EdgesAsk' /\ EdgesTurn'
  BY <1>1, <1>2, <1>5 DEF TurnInv, EdgesAsk, EdgesTurn, EdgeTurn, OnPath, Replied
<1>7. RootInv'
  BY <1>1 DEF TurnInv, RootInv, RootOwed, Idle, Replied
<1>8. OwnInv' /\ ListInv'
  BY <1>1, <1>2 DEF TurnInv, OwnInv, ListInv, OwnFits, ListFits, OnPath, Fresh, ForFirst, IsList
<1> QED BY <1>3, <1>4, <1>6, <1>7, <1>8 DEF TurnInv

LEMMA ResolveKeeps ==
  ASSUME TurnInv, NEW e \in Events, Resolve(e)
  PROVE  TurnInv'
<1>1. outcome' \in [Events -> {"none"} \cup Outcomes]
  BY TurnTree DEF Resolve, OtherTypes
<1>2. woken' \in BOOLEAN
  BY TurnTree DEF Resolve, OtherTypes
<1>3. UNCHANGED <<template, turnVars, kept, parts, collecting, phase, page, registered>>
  BY DEF Resolve, hoistVars, pageVars
<1> QED BY <1>1, <1>2, <1>3, OtherwiseKeeps

LEMMA StutterKeeps ==
  ASSUME TurnInv, UNCHANGED vars
  PROVE  TurnInv'
<1>1. UNCHANGED <<template, turnVars, kept, parts, collecting, phase, page, registered>> /\ outcome' = outcome /\ woken' = woken
  BY DEF vars, hoistVars, pageVars, taskVars
<1> QED BY <1>1, TurnTree, OtherwiseKeeps DEF OtherTypes

LEMMA InitKeeps ==
  ASSUME Init
  PROVE  TurnInv
<1>1. /\ template \in Templates /\ outcome = [e \in Events |-> "none"]
      /\ poll = [does |-> "idle", node |-> 1] /\ reply = Pending
      /\ asked = [n \in Nodes |-> Unasked] /\ node = [n \in Nodes |-> New]
      /\ kept = [n \in Nodes |-> Empty] /\ parts = [n \in Nodes |-> <<>>] /\ collecting = 1
      /\ build = NoBuild /\ misplaced = FALSE /\ registered = {} /\ woken = TRUE
      /\ phase = "first" /\ page = <<>>
  BY DEF Init
<1>2. /\ 1 \in Nodes /\ Nodes = 1..Len(template) /\ Len(template) \in Nat
      /\ \A p \in Nodes : \A k \in Kids(p) : k \in Nodes
  BY <1>1, Tree
<1>3. TypeOK
  <2>1. TurnTypes
    <3>1. asked \in [Nodes -> AskedType] /\ node \in [Nodes -> OwnType]
      BY <1>1, FreshTypes
    <3>2. reply \in ReplyType
      BY <1>1, ReplyTypes
    <3>3. poll \in [does : {"idle", "first", "swap", "run", "reply"}, node : Nodes]
      BY <1>1, <1>2
    <3>4. build \in Int
      BY <1>1 DEF NoBuild
    <3>5. misplaced \in BOOLEAN
      BY <1>1
    <3> QED BY <3>1, <3>2, <3>3, <3>4, <3>5 DEF TurnTypes
  <2>2. OtherTypes
    BY <1>1, <1>2, FreshTypes, EmptySeq DEF OtherTypes
  <2> QED BY <2>1, <2>2 DEF TypeOK
<1>4. /\ \A m : ~Replied(m) /\ ~Fresh(m) /\ Idle
      /\ \A m \in Nodes : ~OnPath(m) /\ OwnFits(m) /\ asked[m] = Unasked /\ node[m] = New /\ kept[m] = Empty
  <2>1. \A m \in Nodes : asked[m] = Unasked /\ node[m] = New /\ kept[m] = Empty
    BY <1>1
  <2> QED BY <1>1, <2>1, FreshFits DEF Replied, Fresh, Idle
<1>5. PathInv
  BY <1>1, <1>2, <1>4 DEF PathInv, Idle, NoBuild, Away
<1>6. EdgesAsk /\ EdgesTurn
  <2>1. SUFFICES ASSUME NEW p \in Nodes, NEW k \in Kids(p) PROVE Owed(p, k) = asked[k].turn
    BY <1>2, <1>4 DEF EdgesAsk, EdgesTurn, EdgeTurn
  <2>2. Owed(p, k) = "new"
    BY <1>1, <1>2, <1>4, FreshOwed
  <2> QED BY <2>2, <1>2, <1>4 DEF Unasked
<1>7. RootInv
  BY <1>1, <1>2, <1>4 DEF RootInv, RootOwed, Unasked
<1>8. OwnInv /\ ListInv
  BY <1>4 DEF OwnInv, ListInv, ListFits
<1> QED BY <1>3, <1>5, <1>6, <1>7, <1>8 DEF TurnInv

\* Every node's step keeps the turns.
LEMMA TurnKeeps ==
  ASSUME TurnInv, Turn, Calm
  PROVE  TurnInv'
<1>1. PICK n \in Nodes :
    \/ TextAsked(n)
    \/ ThenAwaits(n) \/ ThenShows(n)
    \/ SuspenseAsked(n)
    \/ ListAsked(n) \/ ListScans(n) \/ ListTurns(n)
    \/ LiveAsked(n) \/ BodyEnds(n) \/ BodyRepeats(n) \/ BodyAwaits(n) \/ BodyEmits(n)
    \/ BoundaryAsked(n)
    \/ HoistAsked(n)
    \/ \E k \in Kids(n) :
        \/ ThenAnswered(n, k)
        \/ ChildAnswered(n, k) \/ FallbackAnswered(n, k)
        \/ ListAnswered(n, k)
        \/ BodyAnswered(n, k)
        \/ GuardedAnswered(n, k) \/ RecoveryAnswered(n, k)
        \/ HoistAnswered(n, k)
  BY DEF Turn
<1>2. CASE TextAsked(n) \/ ThenAwaits(n) \/ ThenShows(n) \/ SuspenseAsked(n) \/ ListAsked(n) \/ ListScans(n) \/ ListTurns(n)
  BY <1>2, TextAskedKeeps, ThenAwaitsKeeps, ThenShowsKeeps, SuspenseAskedKeeps, ListAskedKeeps, ListScansKeeps,
     ListTurnsKeeps
<1>3. CASE LiveAsked(n) \/ BodyEnds(n) \/ BodyRepeats(n) \/ BodyAwaits(n) \/ BodyEmits(n) \/ BoundaryAsked(n) \/ HoistAsked(n)
  BY <1>3, LiveAskedKeeps, BodyEndsKeeps, BodyRepeatsKeeps, BodyAwaitsKeeps, BodyEmitsKeeps, BoundaryAskedKeeps,
     HoistAskedKeeps
<1>4. CASE \E k \in Kids(n) : ThenAnswered(n, k) \/ ChildAnswered(n, k) \/ FallbackAnswered(n, k) \/ ListAnswered(n, k)
  BY <1>4, ThenAnsweredKeeps, ChildAnsweredKeeps, FallbackAnsweredKeeps, ListAnsweredKeeps
<1>5. CASE \E k \in Kids(n) : BodyAnswered(n, k) \/ GuardedAnswered(n, k) \/ RecoveryAnswered(n, k) \/ HoistAnswered(n, k)
  BY <1>5, BodyAnsweredKeeps, GuardedAnsweredKeeps, RecoveryAnsweredKeeps, HoistAnsweredKeeps
<1> QED BY <1>1, <1>2, <1>3, <1>4, <1>5

LEMMA NextKeeps ==
  ASSUME TurnInv, [Next]_vars
  PROVE  TurnInv'
<1>1. CASE Poll /\ UNCHANGED <<template, outcome, pageVars>>
  BY <1>1, PollKeeps DEF Calm
<1>2. CASE Turn /\ UNCHANGED <<template, outcome, pageVars>>
  BY <1>2, TurnKeeps DEF Calm
<1>3. CASE Respond
  BY <1>3, RespondKeeps
<1>4. CASE Stream
  BY <1>4, StreamKeeps
<1>5. CASE \E e \in Events : Resolve(e)
  BY <1>5, ResolveKeeps
<1>6. CASE UNCHANGED vars
  BY <1>6, StutterKeeps
<1> QED BY <1>1, <1>2, <1>3, <1>4, <1>5, <1>6 DEF Next, Step

\* The poll is in turn everywhere on the page: the invariant of the protocol.
THEOREM TurnsKept == Spec => []TurnInv
<1>1. Init => TurnInv
  BY InitKeeps
<1>2. TurnInv /\ [Next]_vars => TurnInv'
  BY NextKeeps
<1> QED BY <1>1, <1>2, PTL DEF Spec

\* Every variable of the page keeps its type.
THEOREM TypeCorrect == Spec => []TypeOK
<1>1. TurnInv => TypeOK
  BY DEF TurnInv
<1> QED BY <1>1, TurnsKept, PTL

\* No view is polled out of turn, and no live body ends before it has emitted.
THEOREM PolledInTurn == Spec => []PollsInTurn
<1>1. ASSUME TurnInv PROVE PollsInTurn
  <2>1. \A n \in Nodes : poll.does \in {"first", "swap"} /\ poll.node = n => Asked(n)
    BY <1>1 DEF TurnInv, PathInv, Asked
  <2>2. ASSUME NEW n \in Nodes, Runs(n), IsA(n, "live"), node[n].mode = "first"
        PROVE  node[n].step <= Len(template[n].steps)
    <3>1. /\ OnPath(n) /\ ~Fresh(n) /\ OwnFits(n) /\ asked[n].turn \in {"new", "live"} /\ node[n].step \in Nat
          /\ Len(template[n].steps) \in Nat
      BY <1>1, <2>2, TurnTree, PathFacts, KidsOfKind DEF TurnInv, PathInv, OwnInv, Runs, Fresh, TurnTypes, OwnType
    <3>2. asked[n].turn = "new"
      BY <2>2, <3>1 DEF OwnFits, IsA
    <3>3. PICK i \in 1..Len(template[n].steps) :
             template[n].steps[i].op = "repeat" \/ (template[n].steps[i].op = "emit" /\ ~template[n].steps[i].caught)
      BY <1>1, <2>2, TurnTree, KidsOfKind
    <3>4. node[n].step <= i
      BY <2>2, <3>1, <3>2, <3>3 DEF OwnFits, IsA
    <3> QED BY <3>1, <3>3, <3>4
  <2> QED BY <2>1, <2>2 DEF PollsInTurn
<1> QED BY <1>1, TurnsKept, PTL

-----------------------------------------------------------------------------
(* No wakeup is lost.                                                       *)

\* Nobody but a future that is not ready can wake the node.
Silent(m) ==
    /\ ~OnPath(m) /\ Waiting(m)
    /\ IsA(m, "then") /\ node[m].at # "view" => template[m].event \in registered
    /\ IsA(m, "live") /\ Current(m) = {} => Now(m).event \in registered

\* The children that the scan of a list has passed.
Scanned(p, i) == template[p].kids[(IF ForFirst(p) THEN i ELSE Place(p, i)) + 1]
ScanFits(p, Q) == IsList(p) /\ ~Fresh(p) =>
    /\ \A i \in Nat : i < node[p].scan =>
          (Scanned(p, i) \in Current(p) => Scanned(p, i) \in Q /\ node[p].waits)
    /\ node[p].waits => \E i \in Nat : i < node[p].scan /\ Scanned(p, i) \in Current(p)
\* The fallback is asked when the child has had its turn.
BesideFits(p, Q) ==
    LET f == template[p].fallback IN
    IsA(p, "suspense") /\ (OnPath(f) \/ Replied(f)) => template[p].kid \in Q

\* Q holds the nodes that this poll has left pending, and what is below them.
Covered(Q) ==
    /\ \A m \in Q : Silent(m) /\ Current(m) \subseteq Q
    /\ \A k \in Nodes : Replied(k) /\ reply.is = "pending" => k \in Q
    /\ \A p \in Nodes : OnPath(p) => BesideFits(p, Q) /\ ScanFits(p, Q)
    /\ Idle /\ Streaming => 1 \in Q
WakeInv == woken \/ \E Q \in SUBSET Nodes : Covered(Q)

\* A node that no step touches has the same children to ask.
LEMMA SameNode ==
  ASSUME TurnInv, NEW m \in Nodes, template' = template, node'[m] = node[m], asked'[m].turn = asked[m].turn,
         \A k \in Kids(m) : kept'[k] = kept[k]
  PROVE  /\ Current(m)' = Current(m) /\ \A i : Scanned(m, i)' = Scanned(m, i)
         /\ (ForFirst(m)' <=> ForFirst(m)) /\ (IsList(m)' <=> IsList(m)) /\ Now(m)' = Now(m)
         /\ Silent(m) /\ ~OnPath(m)' /\ (\A e \in registered : e \in registered')
              /\ (\A e \in registered : outcome'[e] = outcome[e]) => Silent(m)'
<1>1. (\A op : At(m, op)' <=> At(m, op)) /\ Now(m)' = Now(m) /\ (ForFirst(m)' <=> ForFirst(m)) /\ Kids(m)' = Kids(m)
  BY DEF At, Now, ForFirst, Kids
<1>2. ASSUME NEW k \in Kids(m) PROVE AsksNext(m, k)' <=> AsksNext(m, k)
  <2>1. kept'[k] = kept[k]
    OBVIOUS
  <2> QED BY <1>1, <2>1 DEF AsksNext
<1>3. Current(m)' = Current(m)
  BY <1>1, <1>2 DEF Current
<1>4. \A i : Scanned(m, i)' = Scanned(m, i)
  BY <1>1 DEF Scanned, Place
<1>5. ASSUME Silent(m), ~OnPath(m)', \A e \in registered : e \in registered' /\ outcome'[e] = outcome[e]
      PROVE  Silent(m)'
  <2>1. \A kind : IsA(m, kind)' <=> IsA(m, kind)
    BY DEF IsA
  <2>2. CASE IsA(m, "then") /\ node[m].at # "view"
    <3>1. outcome'[template[m].event] = outcome[template[m].event] /\ template[m].event \in registered'
      BY <1>5, <2>2 DEF Silent
    <3> QED BY <1>5, <2>1, <2>2, <3>1 DEF Silent, Waiting, IsA
  <2>3. CASE IsA(m, "live")
    <3>1. Current(m) = {} => outcome'[Now(m).event] = outcome[Now(m).event] /\ Now(m).event \in registered'
      BY <1>5, <2>3 DEF Silent
    <3>2. template'[m].kind = "live" /\ template[m].kind = "live"
      BY <2>3 DEF IsA
    <3> QED BY <1>1, <1>3, <1>5, <2>1, <2>3, <3>1, <3>2 DEF Silent, Waiting, IsA
  <2>4. CASE ~IsA(m, "live") /\ ~(IsA(m, "then") /\ node[m].at # "view")
    BY <1>3, <1>5, <2>1, <2>4 DEF Silent, Waiting
  <2> QED BY <2>2, <2>3, <2>4
<1> QED BY <1>1, <1>3, <1>4, <1>5 DEF IsList

LEMMA CoverStep ==
  ASSUME TurnInv, TurnInv', NEW n \in Nodes, Acts(n), NEW Q \in SUBSET Nodes, Covered(Q),
         NEW gone \in SUBSET Nodes, n \notin gone,
         \A p \in Nodes : \A k \in Kids(p) : k \in gone => p = n \/ p \in gone,
         UNCHANGED <<template, outcome, phase>>, registered \subseteq registered',
         \A m \in Nodes : m \notin gone /\ m # n =>
             node'[m] = node[m] /\ asked'[m].turn = asked[m].turn /\ (OnPath(m)' => OnPath(m)),
         \A m \in Nodes : m \notin gone /\ m \notin Kids(n) => kept'[m] = kept[m],
         \A m \in gone : OnPath(m)' => Fresh(m)',
         ~Idle', \A k : Replied(k)' => k = n,
         Replied(n)' /\ reply'.is = "pending" => Silent(n)' /\ Current(n)' \subseteq Q \ gone,
         OnPath(n)' => BesideFits(n, Q \ gone)' /\ ScanFits(n, Q \ gone)'
  PROVE  WakeInv'
<1>1. PICK R \in SUBSET Nodes :
         R = (Q \ gone) \cup (IF Replied(n)' /\ reply'.is = "pending" THEN {n} ELSE {})
  OBVIOUS
<1>2. /\ OnPath(n) /\ n \notin Q /\ \A m \in Nodes : m # n => ~Fresh(m)
      /\ Nodes' = Nodes /\ \A m \in Nodes : Kids(m)' = Kids(m) /\ Kids(m) \subseteq Nodes
  BY ActsOnPath, TurnTree DEF Covered, Silent, Nodes, Kids
<1>3. ASSUME NEW m \in Nodes, m \notin gone, m # n
      PROVE  /\ node'[m] = node[m] /\ asked'[m].turn = asked[m].turn
             /\ \A k \in Kids(m) : kept'[k] = kept[k] /\ k \notin gone
  <2>1. \A k \in Kids(m) : k \in Nodes /\ k \notin Kids(n) /\ k \notin gone
    BY <1>3, TurnTree
  <2> QED BY <1>3, <2>1
<1>4. \A e \in registered : e \in registered' /\ outcome'[e] = outcome[e]
  OBVIOUS
<1>5. ASSUME NEW m \in R PROVE Silent(m)' /\ Current(m)' \subseteq R
  <2>1. CASE m = n /\ Replied(n)' /\ reply'.is = "pending"
    BY <1>1, <2>1
  <2>2. CASE m \in Q \ gone
    <3>1. m \in Nodes /\ m # n /\ Silent(m) /\ Current(m) \subseteq Q /\ ~OnPath(m)'
      BY <1>2, <2>2 DEF Covered, Silent
    <3>2. Current(m)' = Current(m) /\ Silent(m)'
      BY <1>3, <1>4, <2>2, <3>1, SameNode
    <3>3. Current(m) \subseteq Kids(m)
      BY DEF Current
    <3>4. Current(m) \cap gone = {}
      BY <1>3, <2>2, <3>1, <3>3
    <3> QED BY <1>1, <3>1, <3>2, <3>4
  <2> QED BY <1>1, <2>1, <2>2
<1>6. \A k \in Nodes : Replied(k)' /\ reply'.is = "pending" => k \in R
  BY <1>1
<1>7. ASSUME NEW p \in Nodes, OnPath(p)' PROVE BesideFits(p, R)' /\ ScanFits(p, R)'
  <2>1. CASE p = n
    BY <1>1, <1>7, <2>1 DEF BesideFits, ScanFits
  <2>2. CASE p \in gone
    <3>1. Fresh(p)'
      BY <1>7, <2>2
    <3>2. \A k \in Kids(p) : ~OnPath(k)' /\ ~Replied(k)'
      BY <3>1, <1>2 DEF Fresh, TurnInv, PathInv, Replied
    <3>3. IsA(p, "suspense")' => template'[p].fallback \in Kids(p)
      BY KidsOfKind, TurnTree DEF IsA
    <3> QED BY <3>1, <3>2, <3>3 DEF BesideFits, ScanFits
  <2>3. CASE p # n /\ p \notin gone
    <3>1. OnPath(p) /\ ~Fresh(p) /\ BesideFits(p, Q) /\ ScanFits(p, Q)
      BY <1>2, <1>7, <2>3 DEF Covered
    <3>2. /\ Current(p)' = Current(p) /\ \A i : Scanned(p, i)' = Scanned(p, i)
          /\ IsList(p)' <=> IsList(p)
      BY <1>3, <2>3, SameNode
    <3>3. node'[p] = node[p] /\ \A k \in Kids(p) : k \notin gone
      BY <1>3, <2>3
    <3>4. \A k \in Current(p) : k \in Q => k \in R
      BY <1>1, <3>3 DEF Current
    <3>5. ScanFits(p, R)'
      BY <3>1, <3>2, <3>3, <3>4 DEF ScanFits
    <3>6. ASSUME IsA(p, "suspense")', OnPath(template[p].fallback)' \/ Replied(template[p].fallback)'
          PROVE  template[p].kid \in R
      <4>1. template[p].fallback \in Kids(p) /\ template[p].kid \in Kids(p) /\ IsA(p, "suspense")
        BY <3>6, KidsOfKind, TurnTree DEF IsA
      <4>2. template[p].fallback \in Nodes /\ template[p].fallback \notin gone
        BY <4>1, <3>3, TurnTree
      <4>3. OnPath(template[p].fallback)
        BY <3>6, <4>2, <1>2
      <4> QED BY <1>1, <4>1, <4>3, <3>1, <3>3 DEF BesideFits
    <3>7. BesideFits(p, R)'
      BY <3>6 DEF BesideFits
    <3> QED BY <3>5, <3>7
  <2> QED BY <2>1, <2>2, <2>3
<1>8. Covered(R)'
  BY <1>2, <1>5, <1>6, <1>7 DEF Covered
<1> QED BY <1>1, <1>2, <1>8 DEF WakeInv

\* What a step leaves alone, but for the poll and what the task waits for.
Resting(n) ==
    /\ UNCHANGED <<template, outcome, phase>> /\ registered \subseteq registered'
    /\ \A m \in Nodes : m \notin Kids(n) => kept'[m] = kept[m]

LEMMA CoverGoesOn ==
  ASSUME TurnInv, TurnInv', NEW n \in Nodes, Acts(n), NEW Q \in SUBSET Nodes, Covered(Q), Resting(n),
         NEW own, GoesOn(n, own), IsList(n) => ScanFits(n, Q)', ~IsA(n, "suspense")
  PROVE  WakeInv'
<1>1. /\ poll' = [does |-> "run", node |-> n] /\ asked' = asked /\ \A m \in Nodes : m # n => node'[m] = node[m]
  BY TurnTree DEF GoesOn, TurnTypes
<1>2. ~Idle' /\ \A k : ~Replied(k)'
  BY <1>1 DEF Idle, Replied
<1>3. BesideFits(n, Q)' /\ ScanFits(n, Q)'
  BY DEF Resting, BesideFits, ScanFits, IsA, IsList
<1>4. \A m \in Nodes : OnPath(m)' => OnPath(m)
  BY <1>1 DEF OnPath
<1>5. PICK gone \in SUBSET Nodes : gone = {}
  OBVIOUS
<1>6. /\ ~Replied(n)' /\ ~Idle' /\ (\A k : Replied(k)' => k = n)
      /\ BesideFits(n, Q \ gone)' /\ ScanFits(n, Q \ gone)'
      /\ \A m \in Nodes : m \notin gone /\ m # n =>
            node'[m] = node[m] /\ asked'[m].turn = asked[m].turn /\ (OnPath(m)' => OnPath(m))
  BY <1>1, <1>2, <1>3, <1>4, <1>5
<1>7. /\ UNCHANGED <<template, outcome, phase>> /\ registered \subseteq registered'
      /\ \A m \in Nodes : m \notin gone /\ m \notin Kids(n) => kept'[m] = kept[m]
      /\ n \notin gone /\ (\A p \in Nodes : \A j \in Kids(p) : j \in gone => p = n \/ p \in gone)
      /\ \A m \in gone : OnPath(m)' => Fresh(m)'
  BY <1>5 DEF Resting
<1> HIDE DEF GoesOn
<1> QED BY <1>6, <1>7, CoverStep

LEMMA CoverAsks ==
  ASSUME TurnInv, TurnInv', NEW n \in Nodes, Acts(n), NEW Q \in SUBSET Nodes, Covered(Q), Resting(n),
         NEW k \in Kids(n), NEW what \in {"first", "swap"}, NEW home, NEW own, AsksIn(n, k, what, home, own),
         IsA(n, "suspense") => BesideFits(n, Q \ {k})', IsList(n) => ScanFits(n, Q \ {k})'
  PROVE  WakeInv'
<1>1. /\ poll' = [does |-> what, node |-> k] /\ k # n /\ k \in Nodes
      /\ \A m \in Nodes : m # n => node'[m] = node[m]
      /\ \A m \in Nodes : m # k => asked'[m] = asked[m]
  BY TurnTree DEF AsksIn, TurnTypes
<1>2. ~Idle' /\ (\A j : ~Replied(j)') /\ Fresh(k)'
  BY <1>1 DEF Idle, Replied, Fresh
<1>3. BesideFits(n, Q \ {k})' /\ ScanFits(n, Q \ {k})'
  BY DEF Resting, BesideFits, ScanFits, IsA, IsList
<1>4. (\A p \in Nodes : \A j \in Kids(p) : j \in {k} => p = n) /\ \A m \in Nodes : m # k => (OnPath(m)' => OnPath(m))
  BY <1>1, TurnTree DEF OnPath
<1>5. PICK gone \in SUBSET Nodes : gone = {k}
  BY <1>1
<1>6. /\ n \notin gone /\ \A p \in Nodes : \A j \in Kids(p) : j \in gone => p = n \/ p \in gone
      /\ \A m \in Nodes : m \notin gone /\ m # n =>
            node'[m] = node[m] /\ asked'[m].turn = asked[m].turn /\ (OnPath(m)' => OnPath(m))
      /\ \A m \in gone : OnPath(m)' => Fresh(m)'
      /\ OnPath(n)' => BesideFits(n, Q \ gone)' /\ ScanFits(n, Q \ gone)'
  BY <1>1, <1>2, <1>3, <1>4, <1>5
<1>7. /\ UNCHANGED <<template, outcome, phase>> /\ registered \subseteq registered'
      /\ \A m \in Nodes : m \notin gone /\ m \notin Kids(n) => kept'[m] = kept[m]
      /\ ~Idle' /\ (\A j : Replied(j)' => j = n) /\ ~Replied(n)'
  BY <1>2 DEF Resting
<1> HIDE DEF AsksIn
<1> QED BY <1>6, <1>7, CoverStep

LEMMA CoverReplies ==
  ASSUME TurnInv, TurnInv', NEW n \in Nodes, Acts(n), NEW Q \in SUBSET Nodes, Covered(Q), Resting(n),
         NEW r, "is" \in DOMAIN r, NEW fits, NEW own, Replies(n, r, fits, own),
         r.is = "pending" => Waiting(n)' /\ Current(n)' \subseteq Q,
         r.is = "pending" /\ IsA(n, "then") /\ own.at # "view" => template[n].event \in registered',
         r.is = "pending" /\ IsA(n, "live") /\ Current(n)' = {} => Now(n).event' \in registered'
  PROVE  WakeInv'
<1>1. /\ poll' = [does |-> "reply", node |-> n] /\ node'[n] = own
      /\ \A m \in Nodes : m # n => node'[m] = node[m] /\ asked'[m] = asked[m]
      /\ asked'[n].outer = Away
  BY TurnTree DEF Replies, TurnTypes, AskedType
<1>2. reply'.is = r.is
  BY DEF Replies
<1>3. ~Idle' /\ (\A k : Replied(k)' => k = n) /\ ~OnPath(n)'
  BY <1>1 DEF Idle, Replied, OnPath
<1>4. /\ Q \ {} = Q /\ \A m \in Nodes : m # n => (OnPath(m)' => OnPath(m))
      /\ \A kind : IsA(n, kind)' <=> IsA(n, kind)
  BY <1>1 DEF OnPath, IsA, Resting
<1>5. ASSUME r.is = "pending" PROVE Silent(n)'
  BY <1>1, <1>3, <1>4, <1>5 DEF Silent, Resting
<1>6. PICK gone \in SUBSET Nodes : gone = {}
  OBVIOUS
<1>7. /\ Replied(n)' /\ reply'.is = "pending" => Silent(n)' /\ Current(n)' \subseteq Q \ gone
      /\ OnPath(n)' => BesideFits(n, Q \ gone)' /\ ScanFits(n, Q \ gone)'
      /\ \A m \in Nodes : m \notin gone /\ m # n =>
            node'[m] = node[m] /\ asked'[m].turn = asked[m].turn /\ (OnPath(m)' => OnPath(m))
  BY <1>1, <1>2, <1>3, <1>4, <1>5, <1>6
<1>8. /\ UNCHANGED <<template, outcome, phase>> /\ registered \subseteq registered'
      /\ \A m \in Nodes : m \notin gone /\ m \notin Kids(n) => kept'[m] = kept[m]
      /\ n \notin gone /\ (\A p \in Nodes : \A j \in Kids(p) : j \in gone => p = n \/ p \in gone)
      /\ \A m \in gone : OnPath(m)' => Fresh(m)'
  BY <1>6 DEF Resting
<1> HIDE DEF Replies
<1> QED BY <1>3, <1>7, <1>8, CoverStep

\* The reply does not leave the node pending.
LEMMA CoverAnswers ==
  ASSUME TurnInv, TurnInv', NEW n \in Nodes, Acts(n), WakeInv, ~woken, Resting(n),
         NEW r, "is" \in DOMAIN r, r.is # "pending", NEW fits, NEW own, Replies(n, r, fits, own)
  PROVE  WakeInv'
<1>1. PICK Q \in SUBSET Nodes : Covered(Q)
  BY DEF WakeInv
<1> QED BY <1>1, CoverReplies

LEMMA ReplyDomains ==
         /\ \A r \in ReplyType : "is" \in DOMAIN r
         /\ "is" \in DOMAIN Pending /\ "is" \in DOMAIN None
         /\ \A c, live : "is" \in DOMAIN First(c, live)
         /\ \A c, n : "is" \in DOMAIN Swap(n, c)
         /\ \A e : "is" \in DOMAIN Failed(e)
         /\ \A r \in ReplyType : \A c : "is" \in DOMAIN [r EXCEPT !.content = c] /\ [r EXCEPT !.content = c].is = r.is
BY DEF ReplyType, Pending, None, First, Swap, Failed, Reply

\* Turning around a ring of L comes to every place once.
LEMMA Division ==
  ASSUME NEW a \in Nat, NEW L \in Nat \ {0}
  PROVE  \E q \in Int : a = L * q + (a % L) /\ a % L \in 0..(L - 1)
<1>1. a = L * (a \div L) + (a % L) /\ a % L \in 0..(L - 1) /\ a \div L \in Int
  OBVIOUS
<1> QED BY <1>1

LEMMA Multiple ==
  ASSUME NEW L \in Nat \ {0}, NEW d \in Int, d >= 1
  PROVE  L * d >= L
OBVIOUS

LEMMA OneRemainder ==
  ASSUME NEW L \in Nat \ {0}, NEW p \in Int, NEW q \in Int, NEW r \in 0..(L - 1), NEW t \in 0..(L - 1),
         L * p + r = L * q + t
  PROVE  r = t /\ p = q
<1>1. L * (p - q) = t - r /\ L * (q - p) = r - t
  OBVIOUS
<1>2. ~(p - q >= 1)
  BY <1>1, Multiple
<1>3. ~(q - p >= 1)
  BY <1>1, Multiple
<1>4. p = q
  BY <1>2, <1>3
<1> QED BY <1>1, <1>4

LEMMA Turning ==
  ASSUME NEW L \in Nat \ {0}, NEW x \in Nat
  PROVE  /\ \A i, j \in 0..(L - 1) : (x + i) % L = (x + j) % L => i = j
         /\ \A t \in 0..(L - 1) : \E i \in 0..(L - 1) : (x + i) % L = t
<1>0. ASSUME NEW a \in Nat PROVE \E q \in Int : a = L * q + (a % L) /\ a % L \in 0..(L - 1)
  BY Division
<1>1. ASSUME NEW i \in 0..(L - 1), NEW j \in 0..(L - 1), (x + i) % L = (x + j) % L, i < j PROVE FALSE
  <2>1. PICK a \in Nat : a = x + i
    OBVIOUS
  <2>2. PICK b \in Nat : b = x + j
    OBVIOUS
  <2>3. PICK r : r = a % L
    OBVIOUS
  <2>4. r = b % L
    BY <1>1, <2>1, <2>2, <2>3
  <2>5. PICK p \in Int : a = L * p + r /\ r \in 0..(L - 1)
    BY <2>3, <1>0
  <2>6. PICK q \in Int : b = L * q + r
    BY <2>4, <1>0
  <2>7. L * (q - p) = j - i
    BY <2>1, <2>2, <2>5, <2>6
  <2>8. ~(q - p >= 1)
    BY <2>7, Multiple
  <2>9. q - p <= 0 => L * (q - p) <= 0
    OBVIOUS
  <2> QED BY <1>1, <2>7, <2>8, <2>9
<1>2. ASSUME NEW t \in 0..(L - 1) PROVE \E i \in 0..(L - 1) : (x + i) % L = t
  <2>1. PICK r : r = x % L
    OBVIOUS
  <2>2. PICK q \in Int : x = L * q + r /\ r \in 0..(L - 1)
    BY <2>1, <1>0
  <2>3. \E i \in 0..(L - 1) : \E w \in Int : x + i = L * w + t
    <3>1. CASE r <= t
      <4>1. t - r \in 0..(L - 1) /\ x + (t - r) = L * q + t
        BY <2>2, <3>1
      <4> QED BY <4>1
    <3>2. CASE r > t
      <4>1. (t - r) + L \in 0..(L - 1) /\ x + ((t - r) + L) = L * q + L + t
        BY <2>2, <3>2
      <4>2. q + 1 \in Int /\ L * q + L = L * (q + 1)
        OBVIOUS
      <4>3. x + ((t - r) + L) = L * (q + 1) + t
        BY <4>1, <4>2
      <4> QED BY <4>1, <4>2, <4>3
    <3> QED BY <2>2, <3>1, <3>2
  <2>4. PICK i \in 0..(L - 1) : \E w \in Int : x + i = L * w + t
    BY <2>3
  <2>5. PICK w \in Int : x + i = L * w + t
    BY <2>4
  <2>6. PICK a \in Nat : a = x + i
    OBVIOUS
  <2>7. PICK s : s = a % L
    OBVIOUS
  <2>8. PICK v \in Int : a = L * v + s /\ s \in 0..(L - 1)
    BY <2>7, <1>0
  <2>9. L * v + s = L * w + t
    BY <2>5, <2>6, <2>8
  <2>10. s = t
    BY <2>8, <2>9, OneRemainder
  <2> QED BY <2>6, <2>7, <2>10
<1>3. ASSUME NEW i \in 0..(L - 1), NEW j \in 0..(L - 1), (x + i) % L = (x + j) % L PROVE i = j
  <2>1. ~(i < j) /\ ~(j < i)
    BY <1>1, <1>3
  <2> QED BY <2>1
<1> QED BY <1>2, <1>3

LEMMA CalmRests ==
  ASSUME NEW n \in Nodes, Calm, UNCHANGED <<kept, taskVars>>
  PROVE  Resting(n) /\ woken' = woken
BY DEF Calm, Resting, taskVars, pageVars

\* A step after which the task is to poll loses no wakeup.
LEMMA WokenKeeps == woken' => WakeInv'
BY DEF WakeInv

\* What a node that passes the poll on to one child is left with.
LEMMA OneChild ==
  ASSUME TurnInv, NEW n \in Nodes, template[n].kind \in {"then", "hoist", "boundary"},
         NEW k \in Kids(n), Current(n)' = {k}, asked'[n].turn \in {"new", "live"}, UNCHANGED template,
         IsA(n, "then") => node'[n].at = "view"
  PROVE  Waiting(n)'
BY DEF Waiting, IsA

LEMMA TextAskedWakes ==
  ASSUME TurnInv, TurnInv', WakeInv, NEW n \in Nodes, TextAsked(n), Calm, ~woken
  PROVE  WakeInv'
<1>1. Acts(n) /\ Resting(n)
  BY AskedActs, CalmRests DEF TextAsked
<1>2. PICK c : Builds(n, First(c, FALSE), {}, node[n])
  BY DEF TextAsked
<1>3. First(c, FALSE).is # "pending" /\ "is" \in DOMAIN First(c, FALSE)
  BY ReplyDomains DEF First, Reply
<1> QED BY <1>1, <1>2, <1>3, CoverAnswers DEF Builds

LEMMA ThenAwaitsWakes ==
  ASSUME TurnInv, TurnInv', WakeInv, NEW n \in Nodes, ThenAwaits(n), Calm, ~woken
  PROVE  WakeInv'
<1>1. PICK e : e = template[n].event
  OBVIOUS
<1>2. PICK started : started = [node[n] EXCEPT !.at = "await"]
  OBVIOUS
<1>3. /\ Acts(n) /\ IsA(n, "then") /\ node[n].at # "view" /\ asked[n].turn \in {"new", "live"}
      /\ node[n] \in OwnType
  BY AskedActs, ActsOnPath, TurnTree DEF ThenAwaits, TurnTypes
<1>4. PICK Q \in SUBSET Nodes : Covered(Q)
  BY DEF WakeInv
<1>5. CASE Await(n, e) = "none" /\ Passes(n, Pending, Left(e, started)) /\ Waits(e)
  <2>1. CASE e = Yield
    BY <1>5, <2>1, WokenKeeps DEF Waits
  <2>2. CASE e # Yield
    <3>1. outcome[e] = "none" /\ registered' = registered \cup {e} /\ Passes(n, Pending, started)
      BY <1>5, <2>2 DEF Await, Waits, Left
    <3>2. started.at = "await"
      BY <1>2, <1>3 DEF OwnType
    <3>3. node'[n] = started /\ asked'[n].turn = asked[n].turn
      BY <3>1, <1>3, TurnTree DEF Passes, Replies, TurnTypes, AskedType, TurnAfter, Pending, Reply
    <3>4. Resting(n)
      BY <3>1 DEF ThenAwaits, Calm, Resting, pageVars
    <3>5. Waiting(n)'
      BY <1>1, <1>3, <2>2, <3>1, <3>2, <3>3, <3>4 DEF Waiting, IsA, Resting
    <3>6. Current(n)' = {}
      <4>1. template'[n].kind = "then" /\ node'[n].at = "await"
        BY <1>3, <3>2, <3>3, <3>4 DEF IsA, Resting
      <4>2. \A k : ~AsksNext(n, k)'
        BY <4>1 DEF AsksNext, Lists
      <4> QED BY <4>2 DEF Current
    <3>7. "is" \in DOMAIN Pending /\ e \in registered'
      BY <3>1, ReplyDomains
    <3> QED BY <1>1, <1>3, <1>4, <3>1, <3>4, <3>5, <3>6, <3>7, CoverReplies DEF Passes, IsA
  <2> QED BY <2>1, <2>2
<1>6. CASE UNCHANGED taskVars /\ Asks(n, template[n].kid, "first", [node[n] EXCEPT !.at = "view"])
  <2>1. template[n].kid \in Kids(n) /\ ~IsA(n, "suspense") /\ ~IsList(n)
    BY <1>3, KidsOfKind, TurnTree DEF IsA, IsList, Lists
  <2>2. Resting(n)
    BY <1>6, CalmRests DEF ThenAwaits
  <2> QED BY <1>3, <1>4, <1>6, <2>1, <2>2, CoverAsks DEF Asks
<1>7. CASE UNCHANGED taskVars /\ Passes(n, Failed(Await(n, e)), started)
  <2>1. Resting(n)
    BY <1>7, CalmRests DEF ThenAwaits
  <2>2. "is" \in DOMAIN Failed(Await(n, e)) /\ Failed(Await(n, e)).is # "pending"
    BY ReplyDomains DEF Failed, Reply
  <2> QED BY <1>3, <1>7, <2>1, <2>2, CoverAnswers DEF Passes
<1> QED BY <1>1, <1>2, <1>5, <1>6, <1>7 DEF ThenAwaits

\* A node that passes polls and replies on.
LEMMA OwnChildWakes ==
  ASSUME TurnInv, TurnInv', WakeInv, NEW n \in Nodes, Acts(n), Resting(n), ~woken,
         template[n].kind \in {"then", "hoist", "boundary"}, NEW k \in Kids(n),
         NEW what \in {"first", "swap"}, NEW home, NEW own, AsksIn(n, k, what, home, own)
  PROVE  WakeInv'
<1>1. PICK Q \in SUBSET Nodes : Covered(Q)
  BY DEF WakeInv
<1>2. ~IsA(n, "suspense") /\ ~IsList(n)
  BY DEF IsA, IsList, Lists
<1> QED BY <1>1, <1>2, CoverAsks

LEMMA OwnReplyWakes ==
  ASSUME TurnInv, TurnInv', WakeInv, NEW n \in Nodes, Acts(n), Resting(n), ~woken, NEW k \in Kids(n), Replied(k),
         template[n].kind \in {"then", "hoist", "boundary"},
         NEW r, "is" \in DOMAIN r, r.is = "pending" => reply.is = "pending", NEW fits, Replies(n, r, fits, node[n]),
         Current(n) = {k}, IsA(n, "then") => node[n].at = "view"
  PROVE  WakeInv'
<1>1. PICK Q \in SUBSET Nodes : Covered(Q)
  BY DEF WakeInv
<1>2. asked[n].turn \in {"new", "live"} /\ k \in Nodes
  BY ActsOnPath
<1>3. ASSUME r.is = "pending" PROVE Waiting(n)' /\ Current(n)' \subseteq Q
  <2>1. asked'[n].turn = asked[n].turn /\ node'[n] = node[n]
    BY <1>3, TurnTree DEF Replies, TurnTypes, AskedType, TurnAfter
  <2>2. template' = template
    BY DEF Resting
  <2>3. Current(n)' = Current(n)
    <3>1. template[n].kind \notin Lists
      BY DEF Lists
    <3>2. (\A op : At(n, op)' <=> At(n, op)) /\ Now(n)' = Now(n)
      BY <2>1, <2>2 DEF At, Now
    <3> QED BY <2>1, <2>2, <3>1, <3>2 DEF Current, AsksNext, Kids
  <2>4. k \in Q
    BY <1>1, <1>2, <1>3 DEF Covered
  <2>5. Waiting(n)'
    BY <2>1, <2>2, <2>3, <1>2, OneChild
  <2> QED BY <2>3, <2>4, <2>5
<1>4. ~IsA(n, "live") /\ ~(IsA(n, "then") /\ node[n].at # "view")
  BY DEF IsA
<1> QED BY <1>1, <1>3, <1>4, CoverReplies

LEMMA ThenShowsWakes ==
  ASSUME TurnInv, TurnInv', WakeInv, NEW n \in Nodes, ThenShows(n), Calm, ~woken
  PROVE  WakeInv'
<1>1. /\ Acts(n) /\ Resting(n) /\ template[n].kind = "then" /\ template[n].kid \in Kids(n)
      /\ poll.does \in {"first", "swap"} /\ AsksIn(n, template[n].kid, poll.does, build, node[n])
  BY AskedActs, CalmRests, KidsOfKind, TurnTree DEF ThenShows, IsA, Asks
<1> QED BY <1>1, OwnChildWakes

LEMMA HoistAskedWakes ==
  ASSUME TurnInv, TurnInv', WakeInv, NEW n \in Nodes, HoistAsked(n), Calm, ~woken
  PROVE  WakeInv'
<1>1. /\ Acts(n) /\ Resting(n) /\ template[n].kind = "hoist" /\ template[n].kid \in Kids(n)
      /\ poll.does \in {"first", "swap"}
      /\ AsksIn(n, template[n].kid, poll.does, build, [node[n] EXCEPT !.around = collecting])
  BY AskedActs, CalmRests, KidsOfKind, TurnTree DEF HoistAsked, IsA, Asks
<1> QED BY <1>1, OwnChildWakes

LEMMA ThenAnsweredWakes ==
  ASSUME TurnInv, TurnInv', WakeInv, NEW n \in Nodes, NEW k \in Kids(n), ThenAnswered(n, k), Calm, ~woken
  PROVE  WakeInv'
<1>1. /\ Acts(n) /\ Resting(n) /\ template[n].kind = "then" /\ Kids(n) = {k} /\ Replied(k)
      /\ Replies(n, reply, TRUE, node[n]) /\ "is" \in DOMAIN reply /\ Asking(n, k)
  <2>1. Answers(k, n) /\ template[n].kind = "then" /\ Replies(n, reply, TRUE, node[n]) /\ Resting(n)
    BY CalmRests DEF ThenAnswered, IsA, Passes
  <2>2. Acts(n) /\ Replied(k) /\ Kids(n) = {k}
    BY <2>1, AnswersActs, KidsOfKind, TurnTree DEF IsA
  <2>3. "is" \in DOMAIN reply /\ Asking(n, k)
    BY <2>2, TurnTree, ReplyDomains DEF TurnTypes, TurnInv, EdgesAsk
  <2> QED BY <2>1, <2>2, <2>3
<1>2. node[n].at = "view"
  BY <1>1 DEF Asking
<1>3. Current(n) = {k}
  BY <1>1, <1>2 DEF Current, AsksNext, Lists
<1> QED BY <1>1, <1>2, <1>3, OwnReplyWakes

LEMMA HoistAnsweredWakes ==
  ASSUME TurnInv, TurnInv', WakeInv, NEW n \in Nodes, NEW k \in Kids(n), HoistAnswered(n, k), Calm, ~woken
  PROVE  WakeInv'
<1>1. /\ Acts(n) /\ Resting(n) /\ template[n].kind = "hoist" /\ Kids(n) = {k} /\ Replied(k)
      /\ reply \in ReplyType /\ ~IsA(n, "then")
  BY AnswersActs, CalmRests, KidsOfKind, TurnTree DEF HoistAnswered, IsA, TurnTypes
<1>2. PICK r, fits : "is" \in DOMAIN r /\ r.is = reply.is /\ Replies(n, r, fits, node[n])
  <2>1. "is" \in DOMAIN reply /\ \A c : "is" \in DOMAIN [reply EXCEPT !.content = c] /\ [reply EXCEPT !.content = c].is = reply.is
    BY <1>1, ReplyDomains
  <2> QED BY <2>1 DEF HoistAnswered, Passes, Builds
<1>3. Current(n) = {k}
  BY <1>1 DEF Current, AsksNext, Lists
<1> QED BY <1>1, <1>2, <1>3, OwnReplyWakes

\* What a boundary asks next.
LEMMA BoundaryAsks ==
  ASSUME TurnInv, NEW n \in Nodes, IsA(n, "boundary"), NEW k \in Kids(n), Replied(k)
  PROVE  Current(n) = {k}
<1>1. /\ Asking(n, k) /\ template[n].kind = "boundary" /\ template[n].kid # template[n].fallback
      /\ Kids(n) = {template[n].kid, template[n].fallback}
      /\ asked[n].turn \in {"new", "live"}
  BY KidsOfKind, TurnTree, PathFacts DEF TurnInv, EdgesAsk, IsA
<1>2. IF k = template[n].kid THEN node[n].at # "fallback" ELSE node[n].at = "fallback" /\ node[n].emit # "done"
  BY <1>1 DEF Asking, Owed, Lists
<1>3. \A j \in Kids(n) : AsksNext(n, j) <=> j = k
  BY <1>1, <1>2 DEF AsksNext, Lists
<1> QED BY <1>3 DEF Current

LEMMA RecoversWakes ==
  ASSUME TurnInv, TurnInv', WakeInv, NEW n \in Nodes, Acts(n), Resting(n), ~woken, IsA(n, "boundary"),
         NEW own, Recovers(n, own)
  PROVE  WakeInv'
<1>1. template[n].fallback \in Kids(n) /\ template[n].kind = "boundary"
  BY KidsOfKind, TurnTree DEF IsA
<1>2. CASE \E what \in {"first", "swap"} : \E home : AsksIn(n, template[n].fallback, what, home, own)
  BY <1>1, <1>2, OwnChildWakes
<1>3. CASE Passes(n, None, own)
  <2>1. "is" \in DOMAIN None /\ None.is # "pending"
    BY ReplyDomains DEF None, Reply
  <2> QED BY <2>1, <1>3, CoverAnswers DEF Passes
<1> QED BY <1>2, <1>3 DEF Recovers, Asks, AsksSealed

LEMMA BoundaryAskedWakes ==
  ASSUME TurnInv, TurnInv', WakeInv, NEW n \in Nodes, BoundaryAsked(n), Calm, ~woken
  PROVE  WakeInv'
<1>1. /\ Acts(n) /\ Resting(n) /\ IsA(n, "boundary") /\ template[n].kind = "boundary" /\ template[n].kid \in Kids(n)
      /\ poll.does \in {"first", "swap"}
  BY AskedActs, CalmRests, KidsOfKind, TurnTree DEF BoundaryAsked, IsA
<1> QED BY <1>1, RecoversWakes, OwnChildWakes DEF BoundaryAsked, Asks

LEMMA GuardedAnsweredWakes ==
  ASSUME TurnInv, TurnInv', WakeInv, NEW n \in Nodes, NEW k \in Kids(n), GuardedAnswered(n, k), Calm, ~woken
  PROVE  WakeInv'
<1>1. /\ Acts(n) /\ Resting(n) /\ IsA(n, "boundary") /\ template[n].kind = "boundary" /\ Replied(k)
      /\ "is" \in DOMAIN reply /\ ~IsA(n, "then")
  BY AnswersActs, CalmRests, TurnTree, ReplyDomains DEF GuardedAnswered, IsA, TurnTypes
<1>2. CASE \E own : Recovers(n, own)
  BY <1>1, <1>2, RecoversWakes
<1>3. CASE Builds(n, First(Region(n, reply.content), TRUE), {reply.content}, node[n])
  <2>1. PICK r : r = First(Region(n, reply.content), TRUE)
    OBVIOUS
  <2>2. "is" \in DOMAIN r /\ r.is # "pending"
    BY <2>1, ReplyDomains DEF First, Reply
  <2> QED BY <2>1, <2>2, <1>1, <1>3, CoverAnswers DEF Builds
<1>4. CASE Passes(n, reply, node[n])
  BY <1>1, <1>4, BoundaryAsks, OwnReplyWakes DEF Passes
<1> QED BY <1>2, <1>3, <1>4 DEF GuardedAnswered

LEMMA RecoveryAnsweredWakes ==
  ASSUME TurnInv, TurnInv', WakeInv, NEW n \in Nodes, NEW k \in Kids(n), RecoveryAnswered(n, k), Calm, ~woken
  PROVE  WakeInv'
<1>1. /\ Acts(n) /\ Resting(n) /\ IsA(n, "boundary") /\ template[n].kind = "boundary" /\ Replied(k)
      /\ "is" \in DOMAIN reply /\ ~IsA(n, "then")
  BY AnswersActs, CalmRests, TurnTree, ReplyDomains DEF RecoveryAnswered, IsA, TurnTypes
<1>2. CASE \E r, own : "is" \in DOMAIN r /\ r.is # "pending" /\ Passes(n, r, own)
  BY <1>1, <1>2, CoverAnswers DEF Passes
<1>3. CASE Passes(n, reply, node[n])
  BY <1>1, <1>3, BoundaryAsks, OwnReplyWakes DEF Passes
<1>4. \A c : "is" \in DOMAIN Swap(n, c) /\ Swap(n, c).is # "pending"
  BY ReplyDomains DEF Swap, Reply
<1> QED BY <1>1, <1>2, <1>3, <1>4 DEF RecoveryAnswered

\* A suspense that stays pending waits for its child.
LEMMA SuspensePends ==
  ASSUME TurnInv, TurnInv', NEW n \in Nodes, Acts(n), Resting(n), IsA(n, "suspense"),
         NEW Q \in SUBSET Nodes, Covered(Q), NEW r, "is" \in DOMAIN r, r.is = "pending", NEW own,
         Replies(n, r, TRUE, own), template[n].kid \in Q, own.at # "done",
         template[n].fallback \in Q \/ own.at \notin {"start", "fallback"} \/ (own.at = "start" /\ template[n].wait)
  PROVE  WakeInv'
<1>1. /\ node'[n] = own /\ asked'[n].turn = asked[n].turn /\ asked[n].turn \in {"new", "live"}
  BY TurnTree, ActsOnPath DEF Replies, TurnTypes, AskedType, TurnAfter
<1>2. /\ template' = template /\ template[n].kind = "suspense" /\ Kids(n)' = {template[n].kid, template[n].fallback}
      /\ template[n].kid # template[n].fallback
  BY KidsOfKind, TurnTree DEF Resting, IsA, Kids
<1>3. ASSUME NEW k \in Kids(n)', AsksNext(n, k)' PROVE k \in Q
  BY <1>1, <1>2, <1>3 DEF AsksNext, Lists
<1>4. AsksNext(n, template[n].kid)'
  BY <1>1, <1>2 DEF AsksNext, Lists
<1>5. Current(n)' \subseteq Q /\ Current(n)' # {}
  BY <1>2, <1>3, <1>4 DEF Current
<1>6. Waiting(n)' /\ ~IsA(n, "then") /\ ~IsA(n, "live")
  BY <1>1, <1>2, <1>5 DEF Waiting, IsA
<1> QED BY <1>5, <1>6, CoverReplies

LEMMA SuspenseAskedWakes ==
  ASSUME TurnInv, TurnInv', WakeInv, NEW n \in Nodes, SuspenseAsked(n), Calm, ~woken
  PROVE  WakeInv'
<1>1. /\ Acts(n) /\ Resting(n) /\ IsA(n, "suspense") /\ ~IsList(n) /\ template' = template
      /\ template[n].kid \in Kids(n) /\ template[n].fallback \in Kids(n) /\ template[n].kid # template[n].fallback
  BY AskedActs, CalmRests, TwoKids DEF SuspenseAsked, Resting
<1>2. PICK Q \in SUBSET Nodes : Covered(Q)
  BY DEF WakeInv
<1>3. ASSUME NEW what \in {"first", "swap"}, NEW home, AsksIn(n, template[n].kid, what, home, node[n])
      PROVE  WakeInv'
  <2>1. ~Replied(template[n].fallback)' /\ ~OnPath(template[n].fallback)'
    BY <1>1, <1>3, ActsOnPath, TurnTree DEF AsksIn, Replied, OnPath, TurnTypes
  <2>2. BesideFits(n, Q \ {template[n].kid})'
    BY <1>1, <2>1 DEF BesideFits
  <2> QED BY <1>1, <1>2, <1>3, <2>2, CoverAsks
<1>4. CASE Passes(n, None, node[n])
  <2>1. "is" \in DOMAIN None /\ None.is # "pending"
    BY ReplyDomains DEF None, Reply
  <2> QED BY <2>1, <1>1, <1>4, CoverAnswers DEF Passes
<1> QED BY <1>3, <1>4 DEF SuspenseAsked, Asks, AsksSealed

LEMMA ChildAnsweredWakes ==
  ASSUME TurnInv, TurnInv', WakeInv, NEW n \in Nodes, NEW k \in Kids(n), ChildAnswered(n, k), Calm, ~woken
  PROVE  WakeInv'
<1>1. PICK f : f = template[n].fallback
  OBVIOUS
<1>2. /\ Acts(n) /\ Resting(n) /\ IsA(n, "suspense") /\ ~IsList(n) /\ template' = template /\ Replied(k)
      /\ k = template[n].kid /\ f \in Kids(n) /\ f # k /\ OwnFits(n) /\ Answers(k, n)
      /\ "is" \in DOMAIN reply /\ asked[n].turn \in {"new", "live"} /\ Owed(n, k) \in {"new", "live"}
  BY <1>1, ReplyOwed, CalmRests, TwoKids, ReplyDomains DEF ChildAnswered, Resting
<1>3. PICK Q \in SUBSET Nodes : Covered(Q)
  BY DEF WakeInv
<1>4. (asked[n].turn = "new" <=> node[n].at = "start") /\ node[n].at # "done"
  BY <1>2, SuspenseOwed DEF OwnFits, IsA
<1>5. CASE \E r, own : "is" \in DOMAIN r /\ r.is # "pending" /\ Passes(n, r, own)
  BY <1>2, <1>5, CoverAnswers DEF Passes
<1>6. ASSUME reply.is = "pending", NEW what \in {"first", "swap"}, NEW home, AsksIn(n, f, what, home, node[n])
      PROVE  WakeInv'
  <2>1. k \in Q /\ k \in Q \ {f}
    BY <1>2, <1>3, <1>6, TurnTree DEF Covered
  <2>2. BesideFits(n, Q \ {f})'
    BY <1>2, <2>1 DEF BesideFits
  <2> QED BY <1>2, <1>3, <1>6, <2>2, CoverAsks
<1>7. CASE /\ reply.is = "pending" /\ Passes(n, reply, node[n])
           /\ (ForFirst(n) /\ template[n].wait) \/ node[n].at \in {"child", "quiet"}
  <2>1. k \in Q
    BY <1>2, <1>3, <1>7, TurnTree DEF Covered
  <2> QED BY <1>2, <1>3, <1>4, <1>7, <2>1, SuspensePends DEF Passes, ForFirst
<1>8. \A c : "is" \in DOMAIN Swap(n, c) /\ Swap(n, c).is # "pending"
  BY ReplyDomains DEF Swap, Reply
<1> QED BY <1>1, <1>2, <1>5, <1>6, <1>7, <1>8 DEF ChildAnswered, Asks

LEMMA FallbackAnsweredWakes ==
  ASSUME TurnInv, TurnInv', WakeInv, NEW n \in Nodes, NEW k \in Kids(n), FallbackAnswered(n, k), Calm, ~woken
  PROVE  WakeInv'
<1>1. /\ Acts(n) /\ Resting(n) /\ IsA(n, "suspense") /\ template' = template /\ Replied(k) /\ OnPath(n)
      /\ k = template[n].fallback /\ Answers(k, n) /\ node[n] \in OwnType
      /\ "is" \in DOMAIN reply /\ asked[n].turn \in {"new", "live"} /\ Owed(n, k) \in {"new", "live"}
  BY ReplyOwed, CalmRests, ReplyDomains DEF FallbackAnswered, Resting
<1>2. PICK Q \in SUBSET Nodes : Covered(Q)
  BY DEF WakeInv
<1>3. template[n].kid \in Q
  BY <1>1, <1>2 DEF Covered, BesideFits
<1>4. node[n].at \in {"start", "fallback"}
  BY <1>1, SuspenseOwed
<1>5. CASE \E c, own, cs : Builds(n, First(c, TRUE), cs, own)
  <2>1. PICK c, own, cs : Builds(n, First(c, TRUE), cs, own)
    BY <1>5
  <2>2. First(c, TRUE).is # "pending" /\ "is" \in DOMAIN First(c, TRUE)
    BY ReplyDomains DEF First, Reply
  <2> QED BY <2>1, <2>2, <1>1, CoverAnswers DEF Builds
<1>6. CASE Passes(n, Pending, [node[n] EXCEPT !.at = "quiet"])
  <2>1. PICK own : own = [node[n] EXCEPT !.at = "quiet"]
    OBVIOUS
  <2>2. own.at = "quiet" /\ "is" \in DOMAIN Pending /\ Pending.is = "pending"
    BY <2>1, <1>1, ReplyDomains, ReplyTypes DEF OwnType
  <2> QED BY <2>1, <2>2, <1>1, <1>2, <1>3, <1>6, SuspensePends DEF Passes
<1>7. CASE reply.is # "pending" /\ Passes(n, reply, node[n])
  BY <1>1, <1>7, CoverAnswers DEF Passes
<1>8. CASE reply.is = "pending" /\ Passes(n, reply, node[n])
  <2>1. k \in Q
    BY <1>1, <1>2, <1>8, TurnTree DEF Covered
  <2> QED BY <2>1, <1>1, <1>2, <1>3, <1>4, <1>8, SuspensePends DEF Passes
<1> QED BY <1>5, <1>6, <1>7, <1>8 DEF FallbackAnswered

\* A scan of a list comes to each of its children once.
LEMMA ScannedFacts ==
  ASSUME TurnInv, NEW n \in Nodes, IsList(n), asked[n].turn \in {"new", "live"}
  PROVE  /\ Len(template[n].kids) \in Nat /\ node[n].scan \in Nat /\ node[n] \in OwnType
         /\ \A i \in Nat : i < Len(template[n].kids) => Scanned(n, i) \in Kids(n)
         /\ \A i, j \in Nat : i < Len(template[n].kids) /\ j < Len(template[n].kids)
                              /\ Scanned(n, i) = Scanned(n, j) => i = j
         /\ \A k \in Kids(n) : \E i \in Nat : i < Len(template[n].kids) /\ Scanned(n, i) = k
         /\ \A k \in Kids(n) : k \in Current(n) <=> IF ForFirst(n) THEN kept[k].held = <<>> ELSE ~kept[k].over
         /\ \A k \in Kids(n) : Asking(n, k) =>
               node[n].scan < Len(template[n].kids) /\ k = Scanned(n, node[n].scan) /\ k \in Current(n)
         /\ ~IsA(n, "live") /\ ~IsA(n, "suspense") /\ ~IsA(n, "then")
<1>1. PICK kids : kids = template[n].kids
  OBVIOUS
<1>2. PICK L \in Nat : L = Len(kids)
  BY <1>1, ListFacts
<1>3. /\ \A i \in 1..L : kids[i] \in Kids(n)
      /\ \A k \in Kids(n) : \E i \in 1..L : kids[i] = k
      /\ \A i, j \in 1..L : kids[i] = kids[j] => i = j
      /\ \A i \in Nat : i < L => Place(n, i) + 1 \in 1..L
      /\ node[n] \in OwnType /\ node[n].scan \in Nat /\ node[n].next \in Nat
  BY <1>1, <1>2, ListFacts
<1>4. PICK at : at = [i \in 0..(L - 1) |-> IF ForFirst(n) THEN i ELSE Place(n, i)]
  OBVIOUS
<1>5. \A i \in 0..(L - 1) : at[i] \in 0..(L - 1) /\ Scanned(n, i) = kids[at[i] + 1]
  <2>1. SUFFICES ASSUME NEW i \in 0..(L - 1) PROVE at[i] \in 0..(L - 1) /\ Scanned(n, i) = kids[at[i] + 1]
    OBVIOUS
  <2>2. CASE ForFirst(n)
    BY <2>2, <1>1, <1>4 DEF Scanned
  <2>3. CASE ~ForFirst(n)
    <3>1. Place(n, i) \in 0..(L - 1)
      <4>1. node[n].next + i \in Nat /\ L \in Nat \ {0}
        BY <1>3
      <4> QED BY <4>1, <1>1, <1>2, Modulo DEF Place
    <3> QED BY <3>1, <2>3, <1>1, <1>4 DEF Scanned
  <2> QED BY <2>2, <2>3
<1>6. /\ \A i, j \in 0..(L - 1) : at[i] = at[j] => i = j
      /\ \A t \in 0..(L - 1) : \E i \in 0..(L - 1) : at[i] = t
  <2>1. CASE ForFirst(n)
    BY <2>1, <1>4
  <2>2. CASE ~ForFirst(n) /\ L # 0
    <3>1. \A i \in 0..(L - 1) : at[i] = (node[n].next + i) % L
      BY <2>2, <1>1, <1>2, <1>4 DEF Place
    <3>2. PICK x \in Nat : x = node[n].next
      BY <1>3
    <3>3. /\ \A i, j \in 0..(L - 1) : (x + i) % L = (x + j) % L => i = j
          /\ \A t \in 0..(L - 1) : \E i \in 0..(L - 1) : (x + i) % L = t
      BY <2>2, Turning
    <3>4. \A i \in 0..(L - 1) : at[i] = (x + i) % L
      BY <3>1, <3>2
    <3> QED BY <3>3, <3>4
  <2>3. CASE L = 0
    BY <2>3
  <2> QED BY <2>1, <2>2, <2>3
<1>7. \A i \in Nat : i < L => i \in 0..(L - 1)
  OBVIOUS
<1>8. \A i \in Nat : i < L => Scanned(n, i) \in Kids(n)
  <2>1. \A i \in 0..(L - 1) : at[i] + 1 \in 1..L
    BY <1>5
  <2> QED BY <2>1, <1>3, <1>5, <1>7
<1>9. ASSUME NEW i \in Nat, NEW j \in Nat, i < L, j < L, Scanned(n, i) = Scanned(n, j) PROVE i = j
  <2>1. at[i] + 1 \in 1..L /\ at[j] + 1 \in 1..L /\ kids[at[i] + 1] = kids[at[j] + 1]
    BY <1>5, <1>7, <1>9
  <2>2. at[i] + 1 = at[j] + 1
    BY <2>1, <1>3
  <2>3. at[i] = at[j]
    BY <2>2, <1>5, <1>7, <1>9
  <2> QED BY <2>3, <1>6, <1>7, <1>9
<1>10. ASSUME NEW k \in Kids(n) PROVE \E i \in Nat : i < L /\ Scanned(n, i) = k
  <2>1. PICK t \in 1..L : kids[t] = k
    BY <1>3
  <2>2. t - 1 \in 0..(L - 1)
    OBVIOUS
  <2>3. PICK i \in 0..(L - 1) : at[i] = t - 1
    BY <2>2, <1>6
  <2>4. Scanned(n, i) = kids[(t - 1) + 1]
    BY <2>3, <1>5
  <2> QED BY <2>1, <2>4
<1>11. template[n].kind \in Lists /\ template[n].kind \notin {"then", "suspense", "live", "boundary", "hoist", "text"}
  BY DEF IsList, Lists
<1>12. \A k \in Kids(n) : k \in Current(n) <=> IF ForFirst(n) THEN kept[k].held = <<>> ELSE ~kept[k].over
  BY <1>11 DEF Current, AsksNext
<1>13. ASSUME NEW k \in Kids(n), Asking(n, k)
       PROVE  node[n].scan < L /\ k = Scanned(n, node[n].scan) /\ k \in Current(n)
  <2>1. /\ Owed(n, k) \in {"new", "live"} /\ node[n].scan < L
        /\ ForFirst(n) => k = kids[node[n].scan + 1] /\ kept[k].held = <<>>
        /\ ~ForFirst(n) => k = kids[Place(n, node[n].scan) + 1]
        /\ Owed(n, k) = (IF ForFirst(n) /\ kept[k].held = <<>> THEN "new" ELSE IF kept[k].over THEN "any" ELSE "live")
    BY <1>1, <1>2, <1>13, ListFacts
  <2> QED BY <2>1, <1>1, <1>12 DEF Scanned
<1> QED BY <1>1, <1>2, <1>3, <1>8, <1>9, <1>10, <1>11, <1>12, <1>13 DEF IsA

\* A scan goes on past a child that it need not ask, or that was asked.
LEMMA ScanWakes ==
  ASSUME TurnInv, TurnInv', NEW n \in Nodes, Acts(n), Resting(n), IsList(n), ~Fresh(n),
         NEW Q \in SUBSET Nodes, Covered(Q), node[n].scan < Len(template[n].kids),
         NEW s, s = Scanned(n, node[n].scan), \A j \in Kids(n) : j # s => kept'[j] = kept[j],
         NEW own, own.scan = node[n].scan + 1, own.next = node[n].next, GoesOn(n, own),
         s \in Current(n)' => s \in Q /\ own.waits,
         node[n].waits => own.waits, own.waits => node[n].waits \/ s \in Current(n)'
  PROVE  WakeInv'
<1>1. /\ node'[n] = own /\ asked' = asked /\ template' = template /\ Kids(n)' = Kids(n)
      /\ (ForFirst(n)' <=> ForFirst(n)) /\ OnPath(n) /\ asked[n].turn \in {"new", "live"}
  BY TurnTree, ActsOnPath DEF GoesOn, TurnTypes, Resting, Kids, ForFirst
<1>2. PICK L : L = Len(template[n].kids)
  OBVIOUS
<1>3. /\ L \in Nat /\ node[n].scan \in Nat /\ ~IsA(n, "suspense")
      /\ \A i \in Nat : i < L => Scanned(n, i) \in Kids(n)
      /\ \A i, j \in Nat : i < L /\ j < L /\ Scanned(n, i) = Scanned(n, j) => i = j
  BY <1>1, <1>2, ScannedFacts
<1>4. \A i : Scanned(n, i)' = Scanned(n, i)
  BY <1>1 DEF Scanned, Place
<1>5. ScanFits(n, Q)
  BY <1>1 DEF Covered
<1>6. ASSUME NEW i \in Nat, i < node[n].scan
      PROVE  Scanned(n, i) \in Kids(n) /\ Scanned(n, i) # s /\ (Scanned(n, i) \in Current(n)' <=> Scanned(n, i) \in Current(n))
  <2>1. PICK j : j = Scanned(n, i)
    OBVIOUS
  <2>2. j \in Kids(n) /\ j # s
    BY <2>1, <1>2, <1>3, <1>6
  <2>3. kept'[j] = kept[j]
    BY <2>2
  <2>4. AsksNext(n, j)' <=> AsksNext(n, j)
    <3>1. template[n].kind \in Lists /\ template[n].kind \notin {"then", "suspense", "live", "boundary"}
      BY DEF IsList, Lists
    <3>2. template'[n].kind \in Lists /\ template'[n].kind \notin {"then", "suspense", "live", "boundary"}
      BY <3>1, <1>1
    <3>3. AsksNext(n, j) <=> (IF ForFirst(n) THEN kept[j].held = <<>> ELSE ~kept[j].over)
      BY <3>1 DEF AsksNext
    <3>4. AsksNext(n, j)' <=> (IF ForFirst(n)' THEN kept'[j].held = <<>> ELSE ~kept'[j].over)
      BY <3>2 DEF AsksNext
    <3> QED BY <3>3, <3>4, <2>3, <1>1
  <2>5. j \in Current(n)' <=> j \in Current(n)
    BY <2>2, <2>4, <1>1 DEF Current
  <2> QED BY <2>1, <2>2, <2>5
<1>7. ASSUME NEW i \in Nat, i < own.scan, Scanned(n, i) \in Current(n)'
      PROVE  Scanned(n, i) \in Q /\ own.waits
  <2>1. CASE i < node[n].scan
    BY <2>1, <1>5, <1>6, <1>7 DEF ScanFits
  <2>2. CASE i = node[n].scan
    BY <2>2, <1>7
  <2> QED BY <2>1, <2>2, <1>3, <1>7
<1>8. ASSUME own.waits PROVE \E i \in Nat : i < own.scan /\ Scanned(n, i) \in Current(n)'
  <2>1. CASE node[n].waits
    <3>1. PICK i \in Nat : i < node[n].scan /\ Scanned(n, i) \in Current(n)
      BY <2>1, <1>5 DEF ScanFits
    <3>2. i < own.scan
      BY <3>1, <1>3
    <3> QED BY <3>1, <3>2, <1>6
  <2>2. CASE s \in Current(n)'
    <3>1. node[n].scan \in Nat /\ node[n].scan < own.scan
      BY <1>3
    <3> QED BY <3>1, <2>2
  <2> QED BY <2>1, <2>2, <1>8
<1>9. ScanFits(n, Q)'
  BY <1>1, <1>4, <1>7, <1>8 DEF ScanFits
<1> HIDE DEF GoesOn
<1> QED BY <1>3, <1>9, CoverGoesOn

LEMMA ListAskedWakes ==
  ASSUME TurnInv, TurnInv', WakeInv, NEW n \in Nodes, ListAsked(n), Calm, ~woken
  PROVE  WakeInv'
<1>1. PICK own : own = [node[n] EXCEPT !.scan = 0, !.waits = FALSE]
  OBVIOUS
<1>2. /\ Acts(n) /\ Resting(n) /\ IsList(n) /\ GoesOn(n, own) /\ asked[n].turn \in {"new", "live"}
  BY <1>1, AskedActs, ActsOnPath, CalmRests DEF ListAsked
<1>3. PICK Q \in SUBSET Nodes : Covered(Q)
  BY DEF WakeInv
<1>4. own.scan = 0 /\ own.waits = FALSE /\ ~IsA(n, "suspense")
  BY <1>1, <1>2, ScannedFacts DEF OwnType
<1>5. node'[n] = own
  BY <1>2, TurnTree DEF GoesOn, TurnTypes
<1>6. ScanFits(n, Q)'
  BY <1>4, <1>5 DEF ScanFits
<1> QED BY <1>2, <1>3, <1>4, <1>6, CoverGoesOn

\* The scan asks the child it has come to.
LEMMA ScanAsksWakes ==
  ASSUME TurnInv, TurnInv', NEW n \in Nodes, Acts(n), Resting(n), IsList(n), ~Fresh(n), kept' = kept,
         NEW Q \in SUBSET Nodes, Covered(Q), node[n].scan < Len(template[n].kids),
         NEW k, k = Scanned(n, node[n].scan), NEW what \in {"first", "swap"}, NEW home,
         AsksIn(n, k, what, home, node[n])
  PROVE  WakeInv'
<1>1. OnPath(n) /\ asked[n].turn \in {"new", "live"} /\ template' = template
  BY ActsOnPath DEF Resting
<1>2. PICK L : L = Len(template[n].kids)
  OBVIOUS
<1>3. /\ L \in Nat /\ node[n].scan \in Nat /\ ~IsA(n, "suspense")
      /\ \A i \in Nat : i < L => Scanned(n, i) \in Kids(n)
      /\ \A i, j \in Nat : i < L /\ j < L /\ Scanned(n, i) = Scanned(n, j) => i = j
  BY <1>1, <1>2, ScannedFacts
<1>4. k \in Kids(n) /\ k # n
  BY <1>2, <1>3, TurnTree
<1>5. node'[n] = node[n] /\ asked'[n].turn = asked[n].turn
  BY <1>4, TurnTree DEF AsksIn, TurnTypes
<1>6. Current(n)' = Current(n) /\ \A i : Scanned(n, i)' = Scanned(n, i)
  BY <1>1, <1>5, SameNode
<1>7. ScanFits(n, Q)
  BY <1>1 DEF Covered
<1>8. \A i \in Nat : i < node[n].scan => Scanned(n, i) # k
  BY <1>2, <1>3
<1>9. ScanFits(n, Q \ {k})'
  BY <1>5, <1>6, <1>7, <1>8 DEF ScanFits
<1> QED BY <1>3, <1>4, <1>9, CoverAsks

\* A list that was passed all the way and has pending children stays pending.
LEMMA ListPends ==
  ASSUME TurnInv, TurnInv', NEW n \in Nodes, Acts(n), Resting(n), IsList(n), ~Fresh(n), kept' = kept,
         NEW Q \in SUBSET Nodes, Covered(Q), node[n].scan >= Len(template[n].kids), node[n].waits,
         Passes(n, Pending, node[n])
  PROVE  WakeInv'
<1>1. OnPath(n) /\ asked[n].turn \in {"new", "live"} /\ template' = template
  BY ActsOnPath DEF Resting
<1>2. PICK L : L = Len(template[n].kids)
  OBVIOUS
<1>3. /\ L \in Nat /\ node[n].scan \in Nat /\ ~IsA(n, "live") /\ ~IsA(n, "then")
      /\ \A k \in Kids(n) : \E i \in Nat : i < L /\ Scanned(n, i) = k
  BY <1>1, <1>2, ScannedFacts
<1>4. ScanFits(n, Q)
  BY <1>1 DEF Covered
<1>5. ASSUME NEW k \in Current(n) PROVE k \in Q
  <2>1. PICK i \in Nat : i < L /\ Scanned(n, i) = k
    BY <1>3 DEF Current
  <2>2. i < node[n].scan
    BY <1>2, <1>3, <2>1
  <2> QED BY <2>1, <2>2, <1>4, <1>5 DEF ScanFits
<1>6. Current(n) # {}
  BY <1>4 DEF ScanFits
<1>7. Pending.is = "pending" /\ "is" \in DOMAIN Pending
  BY ReplyDomains, ReplyTypes
<1>8. node'[n] = node[n] /\ asked'[n].turn = asked[n].turn
  BY <1>7, TurnTree DEF Passes, Replies, TurnTypes, AskedType, TurnAfter
<1>9. Current(n)' = Current(n)
  BY <1>1, <1>8, SameNode
<1>10. Waiting(n)' /\ Current(n)' \subseteq Q
  BY <1>1, <1>3, <1>5, <1>6, <1>8, <1>9 DEF Waiting, IsA
<1> QED BY <1>3, <1>7, <1>10, CoverReplies DEF Passes

LEMMA ListScansWakes ==
  ASSUME TurnInv, TurnInv', WakeInv, NEW n \in Nodes, ListScans(n), Calm, ~woken
  PROVE  WakeInv'
<1>1. PICK k : k = template[n].kids[node[n].scan + 1]
  OBVIOUS
<1>2. /\ Acts(n) /\ IsList(n) /\ ~Fresh(n) /\ ForFirst(n) /\ OnPath(n) /\ asked[n].turn \in {"new", "live"}
      /\ UNCHANGED <<hoistVars, taskVars>>
  BY RunsActs DEF ListScans
<1>3. PICK Q \in SUBSET Nodes : Covered(Q)
  BY DEF WakeInv
<1>4. k = Scanned(n, node[n].scan) /\ node[n] \in OwnType /\ node[n].scan \in Nat /\ Len(template[n].kids) \in Nat
  BY <1>1, <1>2, ScannedFacts DEF Scanned
<1>5. CASE node[n].scan < Len(template[n].kids) /\ kept[k].held # <<>> /\ GoesOn(n, Seen(node[n])) /\ kept' = kept
  <2>1. PICK own : own = Seen(node[n])
    OBVIOUS
  <2>2. own.scan = node[n].scan + 1 /\ own.next = node[n].next /\ own.waits = node[n].waits
    BY <2>1, <1>4 DEF Seen, OwnType
  <2>3. Resting(n)
    BY <1>2, <1>5, CalmRests
  <2>4. k \notin Current(n)'
    <3>1. k \in Kids(n)
      BY <1>2, <1>4, <1>5, ScannedFacts
    <3>2. k \notin Current(n)
      BY <3>1, <1>2, <1>5, ScannedFacts
    <3>3. template' = template /\ asked' = asked /\ IsList(n)' /\ ForFirst(n)' /\ k \in Kids(n)'
      BY <2>3, <3>1, <1>2, <1>5 DEF GoesOn, Resting, ForFirst, IsList, Kids
    <3>4. template'[n].kind \in Lists /\ template'[n].kind \notin {"then", "suspense", "live", "boundary"}
      BY <3>3 DEF IsList, Lists
    <3>5. ~AsksNext(n, k)'
      BY <3>3, <3>4, <1>5 DEF AsksNext
    <3> QED BY <3>5 DEF Current
  <2> QED BY <1>2, <1>3, <1>4, <1>5, <2>1, <2>2, <2>3, <2>4, ScanWakes
<1>6. CASE node[n].scan < Len(template[n].kids) /\ Asks(n, k, "first", node[n]) /\ kept' = kept
  <2>1. Resting(n)
    BY <1>2, <1>6, CalmRests
  <2> QED BY <2>1, <1>2, <1>3, <1>4, <1>6, ScanAsksWakes DEF Asks
<1>7. CASE node[n].scan = Len(template[n].kids) /\ node[n].waits /\ Passes(n, Pending, node[n]) /\ kept' = kept
  <2>1. Resting(n) /\ node[n].scan >= Len(template[n].kids)
    BY <1>2, <1>4, <1>7, CalmRests
  <2> QED BY <2>1, <1>2, <1>3, <1>7, ListPends
<1>8. CASE /\ Builds(n, Joined(n), {kept[m].held[1] : m \in Kids(n)}, node[n])
           /\ kept' = [m \in Nodes |-> IF m \in Kids(n) THEN [kept[m] EXCEPT !.held = <<>>] ELSE kept[m]]
  <2>1. Resting(n)
    BY <1>2, <1>8 DEF Resting, Calm, taskVars, pageVars
  <2>2. "is" \in DOMAIN Joined(n) /\ Joined(n).is # "pending"
    BY DEF Joined, First, Reply
  <2> QED BY <2>1, <2>2, <1>2, <1>8, CoverAnswers DEF Builds
<1> QED BY <1>1, <1>5, <1>6, <1>7, <1>8 DEF ListScans

LEMMA ListTurnsWakes ==
  ASSUME TurnInv, TurnInv', WakeInv, NEW n \in Nodes, ListTurns(n), Calm, ~woken
  PROVE  WakeInv'
<1>1. PICK k : k = template[n].kids[Place(n, node[n].scan) + 1]
  OBVIOUS
<1>2. /\ Acts(n) /\ IsList(n) /\ ~Fresh(n) /\ ~ForFirst(n) /\ OnPath(n) /\ asked[n].turn \in {"new", "live"}
      /\ kept' = kept /\ Resting(n)
  BY RunsActs, CalmRests DEF ListTurns
<1>3. PICK Q \in SUBSET Nodes : Covered(Q)
  BY DEF WakeInv
<1>4. k = Scanned(n, node[n].scan) /\ node[n] \in OwnType /\ node[n].scan \in Nat /\ Len(template[n].kids) \in Nat
  BY <1>1, <1>2, ScannedFacts DEF Scanned
<1>5. CASE node[n].scan < Len(template[n].kids) /\ kept[k].over /\ GoesOn(n, Seen(node[n]))
  <2>1. PICK own : own = Seen(node[n])
    OBVIOUS
  <2>2. own.scan = node[n].scan + 1 /\ own.next = node[n].next /\ own.waits = node[n].waits
    BY <2>1, <1>4 DEF Seen, OwnType
  <2>4. k \notin Current(n)'
    <3>1. template' = template /\ asked' = asked /\ ~ForFirst(n)'
      BY <1>2, <1>5 DEF GoesOn, Resting, ForFirst
    <3>2. template'[n].kind \in Lists /\ template'[n].kind \notin {"then", "suspense", "live", "boundary"}
      BY <3>1, <1>2 DEF IsList, Lists
    <3>3. ~AsksNext(n, k)'
      BY <3>1, <3>2, <1>2, <1>5 DEF AsksNext
    <3> QED BY <3>3 DEF Current
  <2> QED BY <1>2, <1>3, <1>4, <1>5, <2>1, <2>2, <2>4, ScanWakes
<1>6. CASE node[n].scan < Len(template[n].kids) /\ Asks(n, k, "swap", node[n])
  BY <1>2, <1>3, <1>4, <1>6, ScanAsksWakes DEF Asks
<1>7. CASE node[n].scan >= Len(template[n].kids) /\ node[n].waits /\ Passes(n, Pending, node[n])
  BY <1>2, <1>3, <1>7, ListPends
<1>8. CASE Passes(n, None, node[n])
  <2>1. "is" \in DOMAIN None /\ None.is # "pending"
    BY ReplyDomains DEF None, Reply
  <2> QED BY <2>1, <1>2, <1>8, CoverAnswers DEF Passes
<1> QED BY <1>1, <1>5, <1>6, <1>7, <1>8 DEF ListTurns, RingLength

LEMMA ListAnsweredWakes ==
  ASSUME TurnInv, TurnInv', WakeInv, NEW n \in Nodes, NEW k \in Kids(n), ListAnswered(n, k), Calm, ~woken
  PROVE  WakeInv'
<1>1. /\ Acts(n) /\ IsList(n) /\ ~Fresh(n) /\ OnPath(n) /\ asked[n].turn \in {"new", "live"} /\ Replied(k)
      /\ UNCHANGED <<hoistVars, taskVars>> /\ Asking(n, k) /\ reply \in ReplyType /\ k \in Nodes
      /\ InTurn(reply, Owed(n, k)) /\ Answers(k, n) /\ Owed(n, k) \in {"new", "live"}
  BY ReplyOwed, TurnTree DEF ListAnswered
<1>2. PICK Q \in SUBSET Nodes : Covered(Q)
  BY DEF WakeInv
<1>3. /\ node[n] \in OwnType /\ node[n].scan \in Nat /\ Len(template[n].kids) \in Nat
      /\ node[n].scan < Len(template[n].kids) /\ k = Scanned(n, node[n].scan) /\ k \in Current(n)
      /\ Owed(n, k) = (IF ForFirst(n) /\ kept[k].held = <<>> THEN "new" ELSE IF kept[k].over THEN "any" ELSE "live")
      /\ ForFirst(n) => kept[k].held = <<>>
  BY <1>1, ScannedFacts, ListFacts
<1>4. template'[n].kind \in Lists /\ template'[n].kind \notin {"then", "suspense", "live", "boundary"} /\ template' = template
  BY <1>1 DEF Calm, IsList, Lists
<1>5. PICK own : own = Seen(node[n])
  OBVIOUS
<1>6. own.scan = node[n].scan + 1 /\ own.next = node[n].next /\ own.waits = node[n].waits
  BY <1>3, <1>5 DEF Seen, OwnType
<1>7. CASE reply.is = "pending" /\ GoesOn(n, [Seen(node[n]) EXCEPT !.waits = TRUE]) /\ kept' = kept
  <2>1. PICK w : w = [Seen(node[n]) EXCEPT !.waits = TRUE]
    OBVIOUS
  <2>2. w.scan = node[n].scan + 1 /\ w.next = node[n].next /\ w.waits = TRUE
    BY <2>1, <1>3 DEF Seen, OwnType
  <2>3. Resting(n) /\ k \in Q
    BY <1>1, <1>2, <1>7, CalmRests DEF Covered
  <2>4. k \in Current(n)'
    <3>1. asked' = asked
      BY <1>7 DEF GoesOn
    <3>2. AsksNext(n, k)' <=> (IF ForFirst(n) THEN kept[k].held = <<>> ELSE ~kept[k].over)
      BY <3>1, <1>4, <1>7 DEF AsksNext, ForFirst
    <3>3. AsksNext(n, k)' /\ k \in Kids(n)'
      BY <3>2, <1>1, <1>3, <1>4, ScannedFacts DEF Kids
    <3> QED BY <3>3 DEF Current
  <2>5. GoesOn(n, w) /\ \A j \in Kids(n) : j # k => kept'[j] = kept[j]
    BY <2>1, <1>7
  <2> QED BY <2>2, <2>3, <2>4, <2>5, <1>1, <1>2, <1>3, ScanWakes
<1>8. ASSUME GoesOn(n, Seen(node[n])), \A j \in Nodes : j # k => kept'[j] = kept[j],
             IF ForFirst(n) THEN kept'[k].held # <<>> ELSE kept'[k].over
      PROVE  WakeInv'
  <2>1. Resting(n)
    BY <1>1, <1>8 DEF Resting, Calm, taskVars, pageVars
  <2>2. k \notin Current(n)'
    <3>1. ForFirst(n)' <=> ForFirst(n)
      BY <1>8 DEF GoesOn, ForFirst
    <3>2. ~AsksNext(n, k)'
      BY <3>1, <1>4, <1>8 DEF AsksNext
    <3> QED BY <3>2 DEF Current
  <2>3. \A j \in Kids(n) : j # k => kept'[j] = kept[j]
    BY <1>8, TurnTree
  <2> QED BY <2>1, <2>2, <2>3, <1>1, <1>2, <1>3, <1>5, <1>6, <1>8, ScanWakes
<1>9. CASE /\ reply.is = "first" /\ GoesOn(n, Seen(node[n]))
           /\ kept' = [kept EXCEPT ![k] = [held |-> <<reply.content>>, over |-> ~reply.live]]
  <2>1. Owed(n, k) = "new" /\ ForFirst(n)
    BY <1>1, <1>3, <1>9 DEF InTurn
  <2>2. kept'[k].held = <<reply.content>> /\ \A j \in Nodes : j # k => kept'[j] = kept[j]
    BY <1>1, <1>9, TurnTree DEF OtherTypes
  <2>3. kept'[k].held # <<>>
    BY <2>2
  <2> QED BY <2>1, <2>2, <2>3, <1>8, <1>9
<1>10. CASE reply.is = "none" /\ GoesOn(n, Seen(node[n])) /\ kept' = [kept EXCEPT ![k].over = TRUE]
  <2>1. ~ForFirst(n)
    BY <1>1, <1>3, <1>10 DEF InTurn
  <2>2. kept'[k].over = TRUE /\ \A j \in Nodes : j # k => kept'[j] = kept[j]
    BY <1>1, <1>10, TurnTree DEF OtherTypes, KeptType
  <2> QED BY <2>1, <2>2, <1>8, <1>10
<1>11. CASE reply.is \in {"swap", "error"} /\ kept' = kept /\ \E w : Passes(n, reply, w)
  <2>1. "is" \in DOMAIN reply /\ reply.is # "pending" /\ Resting(n)
    BY <1>1, <1>11, ReplyDomains, CalmRests
  <2> QED BY <2>1, <1>1, <1>11, CoverAnswers DEF Passes
<1> QED BY <1>7, <1>9, <1>10, <1>11 DEF ListAnswered

\* A live body that yields gives its region a first content, or passes on what it has yielded.
LEMMA YieldsWakes ==
  ASSUME TurnInv, TurnInv', WakeInv, NEW n \in Nodes, Acts(n), Resting(n), ~woken,
         NEW r, "is" \in DOMAIN r, r.is # "pending" \/ node[n].mode = "again", NEW own, Yields(n, r, own)
  PROVE  WakeInv'
<1>1. CASE node[n].mode # "again"
  BY <1>1, CoverAnswers DEF Yields, Passes
<1>2. CASE node[n].mode = "again"
  <2>1. PICK c : c = First(Region(n, node[n].first), TRUE)
    OBVIOUS
  <2>2. "is" \in DOMAIN c /\ c.is # "pending"
    BY <2>1, ReplyDomains DEF First, Reply
  <2> QED BY <2>1, <2>2, <1>2, CoverAnswers DEF Yields, Builds
<1> QED BY <1>1, <1>2

LEMMA BodyGoesWakes ==
  ASSUME TurnInv, TurnInv', WakeInv, NEW n \in Nodes, Acts(n), Resting(n), ~woken, IsA(n, "live"),
         NEW own, GoesOn(n, own)
  PROVE  WakeInv'
<1>1. PICK Q \in SUBSET Nodes : Covered(Q)
  BY DEF WakeInv
<1>2. ~IsList(n) /\ ~IsA(n, "suspense")
  BY DEF IsList, IsA, Lists
<1> QED BY <1>1, <1>2, CoverGoesOn

LEMMA BodyAsksWakes ==
  ASSUME TurnInv, TurnInv', WakeInv, NEW n \in Nodes, Acts(n), Resting(n), ~woken, IsA(n, "live"),
         NEW k \in Kids(n), NEW what \in {"first", "swap"}, NEW home, NEW own, AsksIn(n, k, what, home, own)
  PROVE  WakeInv'
<1>1. PICK Q \in SUBSET Nodes : Covered(Q)
  BY DEF WakeInv
<1>2. ~IsList(n) /\ ~IsA(n, "suspense")
  BY DEF IsList, IsA, Lists
<1> QED BY <1>1, <1>2, CoverAsks

\* A live body that passes on that it is pending.
LEMMA BodyPends ==
  ASSUME TurnInv, TurnInv', NEW n \in Nodes, Acts(n), Resting(n), IsA(n, "live"), ~Fresh(n),
         NEW Q \in SUBSET Nodes, Covered(Q), NEW r, "is" \in DOMAIN r, r.is = "pending", NEW own,
         Replies(n, r, TRUE, own), own.step = node[n].step, own.emit = node[n].emit, own.stash = node[n].stash,
         Current(n) \subseteq Q,
         Current(n) # {} \/ (At(n, "await") /\ Now(n).event # Yield /\ outcome[Now(n).event] = "none"
                             /\ Now(n).event \in registered')
  PROVE  WakeInv'
<1>1. /\ OnPath(n) /\ asked[n].turn \in {"new", "live"} /\ OwnFits(n) /\ template[n].kind = "live"
      /\ template' = template /\ outcome' = outcome
  BY ActsOnPath DEF TurnInv, OwnInv, IsA, Resting
<1>2. node[n].stash = <<>>
  BY <1>1 DEF OwnFits
<1>3. node'[n] = own /\ asked'[n].turn = asked[n].turn
  BY TurnTree DEF Replies, TurnTypes, AskedType, TurnAfter
<1>4. (\A op : At(n, op)' <=> At(n, op)) /\ Now(n)' = Now(n)
  BY <1>1, <1>3 DEF At, Now
<1>5. \A k : AsksNext(n, k)' <=> AsksNext(n, k)
  <2>1. \A k : AsksNext(n, k) <=> At(n, "emit") /\ node[n].emit # "done" /\ Now(n).kid = k
    BY <1>1 DEF AsksNext, Lists
  <2>2. \A k : AsksNext(n, k)' <=> At(n, "emit")' /\ node'[n].emit # "done" /\ Now(n)'.kid = k
    BY <1>1 DEF AsksNext, Lists
  <2> QED BY <2>1, <2>2, <1>3, <1>4
<1>6. Current(n)' = Current(n)
  BY <1>1, <1>5 DEF Current, Kids
<1>7. Waiting(n)' /\ ~IsA(n, "then")
  BY <1>1, <1>2, <1>3, <1>4, <1>6 DEF Waiting, IsA
<1>8. Current(n)' = {} => Now(n).event' \in registered'
  BY <1>4, <1>6
<1> QED BY <1>6, <1>7, <1>8, CoverReplies

LEMMA LiveAskedWakes ==
  ASSUME TurnInv, TurnInv', WakeInv, NEW n \in Nodes, LiveAsked(n), Calm, ~woken
  PROVE  WakeInv'
<1>1. Acts(n) /\ Resting(n) /\ IsA(n, "live") /\ OwnFits(n) /\ node[n].stash \in Seq(ReplyType)
  BY AskedActs, CalmRests, TurnTree DEF LiveAsked, TurnInv, OwnInv, TurnTypes, OwnType
<1>2. CASE node[n].stash # <<>> /\ \E own : Passes(n, node[n].stash[1], own)
  <2>1. node[n].stash[1] \in ReplyType
    BY <1>1, <1>2
  <2>2. node[n].stash[1].is = "swap"
    BY <1>1, <1>2 DEF OwnFits, IsA
  <2>3. PICK r : r = node[n].stash[1]
    OBVIOUS
  <2>4. "is" \in DOMAIN r /\ r.is # "pending"
    BY <2>1, <2>2, <2>3, ReplyDomains
  <2> QED BY <2>3, <2>4, <1>1, <1>2, CoverAnswers DEF Passes
<1>3. CASE \E own : GoesOn(n, own)
  BY <1>1, <1>3, BodyGoesWakes
<1> QED BY <1>2, <1>3 DEF LiveAsked

LEMMA BodyEndsWakes ==
  ASSUME TurnInv, TurnInv', WakeInv, NEW n \in Nodes, BodyEnds(n), Calm, ~woken
  PROVE  WakeInv'
<1>1. Acts(n) /\ Resting(n)
  BY RunsActs, CalmRests DEF BodyEnds, BodyRuns
<1>2. /\ None.is # "pending" /\ "is" \in DOMAIN None
      /\ \A c : First(c, FALSE).is # "pending" /\ "is" \in DOMAIN First(c, FALSE)
  BY ReplyDomains DEF First, None, Reply
<1> QED BY <1>1, <1>2, CoverAnswers DEF BodyEnds, Passes

LEMMA BodyEmitsWakes ==
  ASSUME TurnInv, TurnInv', WakeInv, NEW n \in Nodes, BodyEmits(n), Calm, ~woken
  PROVE  WakeInv'
<1>1. /\ Acts(n) /\ Resting(n) /\ IsA(n, "live") /\ At(n, "emit")
      /\ node[n].step \in Nat \ {0} /\ Len(template[n].steps) \in Nat
  <2>1. BodyRuns(n) /\ At(n, "emit") /\ Resting(n)
    BY CalmRests DEF BodyEmits
  <2> QED BY <2>1, RunsActs, TurnTree, KidsOfKind DEF BodyRuns, TurnTypes, OwnType
<1>2. Now(n).kid \in Kids(n)
  BY <1>1, KidsOfKind, TurnTree DEF At, Now
<1> QED BY <1>1, <1>2, BodyGoesWakes, BodyAsksWakes DEF BodyEmits, Asks, AsksSealed

LEMMA BodyAwaitsWakes ==
  ASSUME TurnInv, TurnInv', WakeInv, NEW n \in Nodes, BodyAwaits(n), Calm, ~woken
  PROVE  WakeInv'
<1>1. PICK e : e = Now(n).event
  OBVIOUS
<1>2. Acts(n) /\ IsA(n, "live") /\ At(n, "await") /\ ~Fresh(n) /\ node[n] \in OwnType /\ UNCHANGED <<kept, hoistVars>>
  BY RunsActs, TurnTree DEF BodyAwaits, BodyRuns, TurnTypes
<1>3. CASE Await(n, e) = "none" /\ Yields(n, Pending, Left(e, node[n])) /\ Waits(e)
  <2>1. CASE e = Yield
    BY <1>3, <2>1, WokenKeeps DEF Waits
  <2>2. CASE e # Yield
    <3>1. outcome[e] = "none" /\ registered' = registered \cup {e} /\ Yields(n, Pending, node[n])
      BY <1>3, <2>2 DEF Await, Waits, Left
    <3>2. Resting(n) /\ e \in registered'
      BY <3>1, <1>2 DEF Calm, Resting, pageVars
    <3>3. "is" \in DOMAIN Pending /\ Pending.is = "pending"
      BY ReplyDomains, ReplyTypes
    <3>4. CASE node[n].mode = "again"
      BY <3>1, <3>2, <3>3, <3>4, <1>2, YieldsWakes
    <3>5. CASE node[n].mode # "again"
      <4>1. Replies(n, Pending, TRUE, node[n])
        BY <3>1, <3>5 DEF Yields, Passes
      <4>2. PICK Q \in SUBSET Nodes : Covered(Q)
        BY DEF WakeInv
      <4>3. Current(n) = {}
        <5>1. ~At(n, "emit")
          BY <1>2 DEF At
        <5> QED BY <5>1, <1>2 DEF Current, AsksNext, IsA, Lists
      <4> QED BY <1>1, <1>2, <2>2, <3>1, <3>2, <3>3, <4>1, <4>2, <4>3, BodyPends
    <3> QED BY <3>4, <3>5
  <2> QED BY <2>1, <2>2
<1>4. CASE UNCHANGED taskVars /\ \E own : GoesOn(n, own)
  BY <1>2, <1>4, CalmRests, BodyGoesWakes
<1>5. CASE UNCHANGED taskVars /\ Passes(n, Failed(Await(n, e)), node[n])
  <2>1. "is" \in DOMAIN Failed(Await(n, e)) /\ Failed(Await(n, e)).is # "pending"
    BY ReplyDomains DEF Failed, Reply
  <2>2. Resting(n)
    BY <1>2, <1>5, CalmRests
  <2> QED BY <2>1, <2>2, <1>2, <1>5, CoverAnswers DEF Passes
<1> QED BY <1>1, <1>3, <1>4, <1>5 DEF BodyAwaits

LEMMA BodyAnsweredWakes ==
  ASSUME TurnInv, TurnInv', WakeInv, NEW n \in Nodes, NEW k \in Kids(n), BodyAnswered(n, k), Calm, ~woken
  PROVE  WakeInv'
<1>1. /\ Acts(n) /\ Resting(n) /\ IsA(n, "live") /\ ~Fresh(n) /\ Replied(k) /\ Asking(n, k)
      /\ reply \in ReplyType /\ "is" \in DOMAIN reply /\ asked[n].turn \in {"new", "live"} /\ Answers(k, n)
      /\ k \in Nodes /\ Owed(n, k) \in {"new", "live"}
  BY ReplyOwed, CalmRests, ReplyDomains, TurnTree DEF BodyAnswered
<1>2. CASE \E own : GoesOn(n, own)
  BY <1>1, <1>2, BodyGoesWakes
<1>3. CASE \E own : Yields(n, Swap(n, reply.content), own)
  <2>1. PICK r : r = Swap(n, reply.content)
    OBVIOUS
  <2>2. "is" \in DOMAIN r /\ r.is # "pending"
    BY <2>1, ReplyDomains DEF Swap, Reply
  <2> QED BY <2>1, <2>2, <1>1, <1>3, YieldsWakes
<1>4. CASE Passes(n, reply, node[n]) /\ reply.is = "error"
  BY <1>1, <1>4, CoverAnswers DEF Passes
<1>5. CASE Yields(n, reply, node[n]) /\ (reply.is # "pending" \/ node[n].mode = "again")
  BY <1>1, <1>5, YieldsWakes
<1>6. CASE Yields(n, reply, node[n]) /\ reply.is = "pending" /\ node[n].mode # "again"
  <2>1. PICK Q \in SUBSET Nodes : Covered(Q)
    BY DEF WakeInv
  <2>2. k \in Q
    BY <1>1, <1>6, <2>1 DEF Covered
  <2>3. Current(n) = {k}
    <3>1. At(n, "emit") /\ Now(n).kid = k /\ template[n].kind = "live" /\ node[n].emit # "done"
      <4>1. At(n, "emit") /\ Now(n).kid = k /\ Owed(n, k) = BodyOwes(n, node[n], k)
        BY <1>1, BodyOwed
      <4>2. node[n].step \in Nat \ {0}
        BY TurnTree DEF TurnTypes, OwnType
      <4>3. template[n].steps \in Seq([op : {"emit", "await", "repeat"}, kid : Nat, caught : BOOLEAN, event : STRING])
        BY <1>1, KidsOfKind, TurnTree
      <4>4. Len(template[n].steps) \in Nat
        BY <4>3
      <4>5. node[n].step \in 1..Len(template[n].steps)
        BY <4>1, <4>2, <4>4 DEF At
      <4>6. template[n].steps[node[n].step].op = "emit" /\ template[n].steps[node[n].step].kid = k
        BY <4>1 DEF At, Now
      <4>7. \A i \in 1..Len(template[n].steps) :
               template[n].steps[i].op = "emit" /\ template[n].steps[i].kid = k => i = node[n].step
        <5>1. \A i, j \in 1..Len(template[n].steps) :
                 (template[n].steps[i].op = "emit" /\ template[n].steps[j].op = "emit"
                  /\ template[n].steps[i].kid = template[n].steps[j].kid) => i = j
          BY <1>1, KidsOfKind, TurnTree
        <5> QED BY <4>5, <4>6, <5>1
      <4>8. ~\E i \in 1..Len(template[n].steps) :
               template[n].steps[i].op = "emit" /\ template[n].steps[i].kid = k /\ node[n].step < i
        BY <4>2, <4>7
      <4>9. node[n].emit # "done"
        BY <4>1, <4>8, <1>1 DEF BodyOwes
      <4> QED BY <4>1, <4>9, <1>1 DEF IsA
    <3>2. \A j : AsksNext(n, j) <=> j = k
      BY <3>1 DEF AsksNext, Lists
    <3> QED BY <3>2 DEF Current
  <2>4. Replies(n, reply, TRUE, node[n])
    BY <1>6 DEF Yields, Passes
  <2> QED BY <2>1, <2>2, <2>3, <2>4, <1>1, <1>6, BodyPends
<1> QED BY <1>2, <1>3, <1>4, <1>5, <1>6 DEF BodyAnswered

LEMMA BodyRepeatsWakes ==
  ASSUME TurnInv, TurnInv', WakeInv, NEW n \in Nodes, BodyRepeats(n), Calm, ~woken
  PROVE  WakeInv'
<1>1. PICK gone \in SUBSET Nodes : gone = Below(n)
  BY BelowNodes, TurnTree
<1>2. /\ n \notin gone /\ Kids(n) \subseteq gone
      /\ \A p \in Nodes : \A k \in Kids(p) : k \in gone => p = n \/ p \in gone
  BY <1>1, BelowNodes, TurnTree
<1>3. Acts(n) /\ IsA(n, "live") /\ poll.does = "run" /\ poll.node = n
  BY BodyFacts DEF BodyRepeats, BodyRuns, Runs
<1>4. /\ UNCHANGED <<template, outcome, phase>> /\ registered \subseteq registered' /\ poll' = poll
  BY DEF BodyRepeats, Calm, taskVars, pageVars
<1>5. /\ \A m \in gone : asked'[m] = Unasked
      /\ \A m \in Nodes : m \notin gone => asked'[m] = asked[m] /\ kept'[m] = kept[m]
      /\ \A m \in Nodes : m \notin gone /\ m # n => node'[m] = node[m]
  BY <1>1, <1>2 DEF BodyRepeats
<1>6. /\ \A m \in gone : ~OnPath(m)'
      /\ \A m \in Nodes : m \notin gone /\ m # n =>
             node'[m] = node[m] /\ asked'[m].turn = asked[m].turn /\ (OnPath(m)' => OnPath(m))
  BY <1>5 DEF OnPath, Unasked
<1>7. ~Idle' /\ \A k : ~Replied(k)'
  BY <1>3, <1>4 DEF Idle, Replied
<1>8. PICK Q \in SUBSET Nodes : Covered(Q)
  BY DEF WakeInv
<1>9. \A R : BesideFits(n, R)' /\ ScanFits(n, R)'
  BY <1>3, <1>4 DEF BesideFits, ScanFits, IsA, IsList, Lists
<1>10. \A m \in Nodes : m \notin gone /\ m \notin Kids(n) => kept'[m] = kept[m]
  BY <1>5
<1>11. OnPath(n)' => BesideFits(n, Q \ gone)' /\ ScanFits(n, Q \ gone)'
  BY <1>9
<1> HIDE DEF BodyRepeats
<1> QED BY <1>2, <1>3, <1>4, <1>6, <1>7, <1>8, <1>10, <1>11, CoverStep

LEMMA TurnWakes ==
  ASSUME TurnInv, TurnInv', WakeInv, Turn, Calm
  PROVE  WakeInv'
<1>1. PICK n \in Nodes :
    \/ TextAsked(n)
    \/ ThenAwaits(n) \/ ThenShows(n)
    \/ SuspenseAsked(n)
    \/ ListAsked(n) \/ ListScans(n) \/ ListTurns(n)
    \/ LiveAsked(n) \/ BodyEnds(n) \/ BodyRepeats(n) \/ BodyAwaits(n) \/ BodyEmits(n)
    \/ BoundaryAsked(n)
    \/ HoistAsked(n)
    \/ \E k \in Kids(n) :
        \/ ThenAnswered(n, k)
        \/ ChildAnswered(n, k) \/ FallbackAnswered(n, k)
        \/ ListAnswered(n, k)
        \/ BodyAnswered(n, k)
        \/ GuardedAnswered(n, k) \/ RecoveryAnswered(n, k)
        \/ HoistAnswered(n, k)
  BY DEF Turn
<1>2. CASE woken
  <2>1. woken' = woken \/ woken' = TRUE
    BY <1>1 DEF TextAsked, ThenAwaits, ThenShows, SuspenseAsked, ListAsked, ListScans, ListTurns, LiveAsked, BodyEnds,
         BodyRepeats, BodyAwaits, BodyEmits, BoundaryAsked, HoistAsked, ThenAnswered, ChildAnswered, FallbackAnswered,
         ListAnswered, BodyAnswered, GuardedAnswered, RecoveryAnswered, HoistAnswered, Waits, taskVars
  <2> QED BY <1>2, <2>1, WokenKeeps
<1>3. CASE ~woken
  <2>1. CASE TextAsked(n) \/ ThenAwaits(n) \/ ThenShows(n) \/ SuspenseAsked(n) \/ ListAsked(n) \/ ListScans(n) \/ ListTurns(n)
    BY <1>3, <2>1, TextAskedWakes, ThenAwaitsWakes, ThenShowsWakes, SuspenseAskedWakes, ListAskedWakes, ListScansWakes,
       ListTurnsWakes
  <2>2. CASE LiveAsked(n) \/ BodyEnds(n) \/ BodyRepeats(n) \/ BodyAwaits(n) \/ BodyEmits(n) \/ BoundaryAsked(n) \/ HoistAsked(n)
    BY <1>3, <2>2, LiveAskedWakes, BodyEndsWakes, BodyRepeatsWakes, BodyAwaitsWakes, BodyEmitsWakes, BoundaryAskedWakes,
       HoistAskedWakes
  <2>3. CASE \E k \in Kids(n) : ThenAnswered(n, k) \/ ChildAnswered(n, k) \/ FallbackAnswered(n, k) \/ ListAnswered(n, k)
    BY <1>3, <2>3, ThenAnsweredWakes, ChildAnsweredWakes, FallbackAnsweredWakes, ListAnsweredWakes
  <2>4. CASE \E k \in Kids(n) : BodyAnswered(n, k) \/ GuardedAnswered(n, k) \/ RecoveryAnswered(n, k) \/ HoistAnswered(n, k)
    BY <1>3, <2>4, BodyAnsweredWakes, GuardedAnsweredWakes, RecoveryAnsweredWakes, HoistAnsweredWakes
  <2> QED BY <1>1, <2>1, <2>2, <2>3, <2>4
<1> QED BY <1>2, <1>3

\* When the root has not been asked, nobody has.
LEMMA NobodyAsked ==
  ASSUME TurnInv, ~OnPath(1)
  PROVE  \A m \in Nodes : ~OnPath(m)
<1>1. SUFFICES ASSUME NEW m \in Nodes, OnPath(m) PROVE FALSE
  OBVIOUS
<1>2. PICK N \in Nat : N = Len(template) /\ Nodes = 1..N
  BY TurnTree
<1>3. PICK I \in SUBSET (1..N) : I = {i \in 1..N : OnPath(N + 1 - i)}
  OBVIOUS
<1>4. N + 1 - m \in I
  <2>1. N + 1 - m \in 1..N /\ N + 1 - (N + 1 - m) = m
    BY <1>1, <1>2
  <2> QED BY <2>1, <1>1, <1>3
<1>5. PICK i \in I : \A j \in I : j <= i
  BY <1>2, <1>3, <1>4, Largest
<1>6. PICK q : q = N + 1 - i
  OBVIOUS
<1>7. q \in Nodes /\ OnPath(q) /\ q # 1
  BY <1>2, <1>3, <1>5, <1>6
<1>8. PICK p \in Nodes : q \in Kids(p) /\ OnPath(p) /\ p < q
  BY <1>7, Tree, TurnTree, PathFacts
<1>9. N + 1 - p \in I
  <2>1. N + 1 - p \in 1..N /\ N + 1 - (N + 1 - p) = p
    BY <1>2, <1>8
  <2> QED BY <2>1, <1>3, <1>8
<1> QED BY <1>2, <1>5, <1>6, <1>7, <1>8, <1>9

LEMMA PollWakes ==
  ASSUME TurnInv, TurnInv', Poll, Calm
  PROVE  WakeInv'
<1>1. /\ ~OnPath(1) /\ 1 \in Nodes /\ template' = template /\ poll'.node = 1 /\ poll'.does \in {"first", "swap"}
      /\ \A m \in Nodes : m # 1 => asked'[m] = asked[m]
  BY TurnTree DEF TurnInv, PathInv, Poll, Calm, AsksSealed, Asks, AsksIn, TurnTypes
<1>2. /\ Fresh(1)' /\ ~Idle' /\ (\A j : ~Replied(j)') /\ Nodes' = Nodes
      /\ \A m \in Nodes : OnPath(m)' => m = 1
  BY <1>1, NobodyAsked DEF Fresh, Idle, Replied, Nodes, OnPath
<1>3. IsA(1, "suspense")' => template'[1].fallback \in Nodes /\ template'[1].fallback # 1
  BY <1>1, KidsOfKind, TurnTree DEF IsA
<1>4. \A R : BesideFits(1, R)' /\ ScanFits(1, R)'
  BY <1>1, <1>2, <1>3 DEF BesideFits, ScanFits
<1>5. PICK Q \in SUBSET Nodes : Q = {}
  OBVIOUS
<1>6. Covered(Q)'
  BY <1>2, <1>4, <1>5 DEF Covered
<1> QED BY <1>2, <1>6 DEF WakeInv

LEMMA PageWakes ==
  ASSUME TurnInv, WakeInv, PageAnswered
  PROVE  WakeInv'
<1>1. /\ Replied(1) /\ ~OnPath(1) /\ 1 \in Nodes /\ woken' = (reply.is # "pending" \/ woken)
      /\ UNCHANGED <<template, outcome, asked, node, kept, registered>> /\ poll' = [does |-> "idle", node |-> 1]
  BY TurnTree, PathFacts DEF PageAnswered
<1>2. CASE woken'
  BY <1>2, WokenKeeps
<1>3. CASE ~woken'
  <2>1. PICK Q \in SUBSET Nodes : Covered(Q)
    BY <1>1, <1>3 DEF WakeInv
  <2>2. 1 \in Q
    BY <1>1, <1>3, <2>1 DEF Covered
  <2>3. (\A j : ~Replied(j)') /\ Nodes' = Nodes /\ \A m \in Nodes : ~OnPath(m)'
    BY <1>1, NobodyAsked DEF Replied, Nodes, OnPath
  <2>4. ASSUME NEW m \in Q PROVE Silent(m)' /\ Current(m)' = Current(m)
    <3>1. Silent(m) /\ m \in Nodes
      BY <2>1 DEF Covered
    <3>2. \A e \in registered : e \in registered' /\ outcome'[e] = outcome[e]
      BY <1>1
    <3> QED BY <1>1, <2>3, <3>1, <3>2, SameNode
  <2>5. Covered(Q)'
    BY <2>1, <2>2, <2>3, <2>4 DEF Covered
  <2> QED BY <2>3, <2>5 DEF WakeInv
<1> QED BY <1>2, <1>3

LEMMA ResolveWakes ==
  ASSUME TurnInv, WakeInv, UNCHANGED <<template, turnVars, kept, registered, phase>>,
         woken => woken', ~woken' => \A e \in registered : outcome'[e] = outcome[e]
  PROVE  WakeInv'
<1>1. CASE woken'
  BY <1>1, WokenKeeps
<1>2. CASE ~woken'
  <2>1. PICK Q \in SUBSET Nodes : Covered(Q)
    BY <1>2 DEF WakeInv
  <2>2. /\ template' = template /\ node' = node /\ asked' = asked /\ kept' = kept /\ poll' = poll /\ reply' = reply
        /\ \A e \in registered : e \in registered' /\ outcome'[e] = outcome[e]
    BY <1>2 DEF turnVars
  <2>3. /\ Nodes' = Nodes /\ (\A m : (OnPath(m)' <=> OnPath(m)) /\ (Fresh(m)' <=> Fresh(m)) /\ (Replied(m)' <=> Replied(m)))
        /\ (Idle' <=> Idle) /\ (Streaming' <=> Streaming)
    BY <2>2 DEF Nodes, OnPath, Fresh, Replied, Idle, Streaming
  <2>4. \A m \in Nodes : /\ Current(m)' = Current(m) /\ (\A i : Scanned(m, i)' = Scanned(m, i)) /\ (IsList(m)' <=> IsList(m))
                         /\ (Silent(m) => Silent(m)')
    <3>1. ASSUME NEW m \in Nodes
          PROVE  /\ Current(m)' = Current(m) /\ (\A i : Scanned(m, i)' = Scanned(m, i)) /\ (IsList(m)' <=> IsList(m))
                 /\ (Silent(m) => Silent(m)')
      <4>1. Silent(m) => ~OnPath(m)'
        BY <2>3 DEF Silent
      <4> QED BY <2>2, <4>1, SameNode
    <3> QED BY <3>1
  <2>5. ASSUME NEW p \in Nodes, OnPath(p) PROVE BesideFits(p, Q)' /\ ScanFits(p, Q)'
    <3>1. BesideFits(p, Q) /\ ScanFits(p, Q)
      BY <2>1, <2>5 DEF Covered
    <3>2. BesideFits(p, Q)'
      BY <2>2, <2>3, <3>1 DEF BesideFits, IsA
    <3>3. ScanFits(p, Q)'
      BY <2>2, <2>3, <2>4, <3>1 DEF ScanFits
    <3> QED BY <3>2, <3>3
  <2>6. Covered(Q)'
    BY <2>1, <2>2, <2>3, <2>4, <2>5 DEF Covered
  <2> QED BY <2>3, <2>6 DEF WakeInv
<1> QED BY <1>1, <1>2

LEMMA NextWakes ==
  ASSUME TurnInv, TurnInv', WakeInv, [Next]_vars
  PROVE  WakeInv'
<1>1. CASE Poll /\ UNCHANGED <<template, outcome, pageVars>>
  BY <1>1, PollWakes DEF Calm
<1>2. CASE Turn /\ UNCHANGED <<template, outcome, pageVars>>
  BY <1>2, TurnWakes DEF Calm
<1>3. CASE Respond \/ Stream
  BY <1>3, PageWakes DEF Respond, Stream
<1>4. CASE \E e \in Events : Resolve(e)
  <2>1. PICK e \in Events : Resolve(e)
    BY <1>4
  <2>2. UNCHANGED <<template, turnVars, kept, registered, phase>> /\ woken' = (woken \/ e \in registered)
    BY <2>1 DEF Resolve, pageVars
  <2>3. \A d \in registered : d # e => outcome'[d] = outcome[d]
    BY <2>1, TurnTree DEF Resolve, OtherTypes
  <2> QED BY <2>2, <2>3, ResolveWakes
<1>5. CASE UNCHANGED vars
  BY <1>5, ResolveWakes DEF vars, taskVars, pageVars
<1> QED BY <1>1, <1>2, <1>3, <1>4, <1>5 DEF Next, Step

\* What another poll would come to.
LEMMA ActiveCovered ==
  ASSUME TurnInv, NEW Q \in SUBSET Nodes, 1 \in Q, \A m \in Q : Current(m) \subseteq Q
  PROVE  Active \subseteq Q
<1>1. PICK next : next = [n \in Nodes |-> Current(n)]
  OBVIOUS
<1>2. \A n \in Nodes : next[n] = Current(n) /\ Current(n) \subseteq Kids(n)
  BY <1>1 DEF Current
<1>3. Onward(next) /\ 1 \in 1..Len(template)
  BY <1>1, <1>2, TurnTree, Tree DEF Onward
<1>4. Q \in SUBSET (1..Len(template)) /\ \A p \in Q \cup {1} : next[p] \subseteq Q
  BY <1>2, TurnTree
<1>5. Reached(next, 1) \subseteq Q
  BY <1>3, <1>4, ReachedNodes
<1> QED BY <1>1, <1>5 DEF Active

\* A task that is left asleep has nothing to find: every node that another
\* poll would come to waits for a future that is not ready.
THEOREM NothingIsMissed == Spec => []NoLostWakeup
<1>1. Init => WakeInv
  BY DEF Init, WakeInv
<1>2. TurnInv /\ TurnInv' /\ WakeInv /\ [Next]_vars => WakeInv'
  BY NextWakes
<1>3. ASSUME TurnInv, WakeInv PROVE NoLostWakeup
  <2>1. SUFFICES ASSUME Idle, Streaming, ~woken PROVE \A n \in Active : Waiting(n)
    BY DEF NoLostWakeup
  <2>2. PICK Q \in SUBSET Nodes : Covered(Q)
    BY <1>3, <2>1 DEF WakeInv
  <2>3. Active \subseteq Q
    BY <1>3, <2>1, <2>2, ActiveCovered DEF Covered
  <2> QED BY <2>2, <2>3 DEF Covered, Silent
<1> QED BY <1>1, <1>2, <1>3, TurnsKept, PTL DEF Spec
=============================================================================
