----------------------------- MODULE Recursion ------------------------------
(***************************************************************************)
(* Induction over the natural numbers and the existence of what recursion  *)
(* over them defines, for the proofs about folds and runs.  The facts take *)
(* sets and functions where the library's take operators, so that every    *)
(* prover can use them.                                                    *)
(***************************************************************************)
EXTENDS Naturals, WellFoundedInduction, TLAPS

\* A set that holds zero and the successor of each of its numbers has them all.
LEMMA NaturalsSet ==
  ASSUME NEW S, 0 \in S, \A n \in Nat : n \in S => n + 1 \in S
  PROVE  Nat \subseteq S
<1>1. SUFFICES ASSUME Nat \ S # {} PROVE FALSE
  OBVIOUS
<1>2. IsWellFoundedOn(OpToRel(<, Nat), Nat)
  BY NatLessThanWellFounded
<1>3. \E x \in Nat \ S : \A y \in Nat \ S : ~(<<y, x>> \in OpToRel(<, Nat))
  BY <1>1, <1>2, WFMin
<1>4. PICK x \in Nat \ S : \A y \in Nat \ S : ~(y < x)
  BY <1>3 DEF OpToRel
<1>5. x # 0 /\ x - 1 \in Nat
  OBVIOUS
<1>6. x - 1 \in S
  BY <1>4, <1>5
<1> QED BY <1>4, <1>5, <1>6

\* g is what the recursion defines, as far as N.
Starts(G, s0, N, g) == g[0] = s0 /\ \A k \in Nat : k < N => g[k + 1] = G[<<k + 1, g[k]>>]

Closed(G, S) == G \in [Nat \X S -> S]

\* f starts with s0 and each of its values comes from the one before.
Iterates(f, G, S, s0) ==
    f \in [Nat -> S] /\ f[0] = s0 /\ \A n \in Nat : f[n + 1] = G[<<n + 1, f[n]>>]

\* Recursion within a set defines a function.
LEMMA Iteration ==
  ASSUME NEW S, NEW s0 \in S, NEW G, Closed(G, S)
  PROVE  \E f : Iterates(f, G, S, s0)
<1> USE DEF Closed
<1> DEFINE P == {n \in Nat : \E g \in [Nat -> S] : Starts(G, s0, n, g)}
<1>1. Nat \subseteq P
  <2>1. 0 \in P
    <3>1. [n \in Nat |-> s0] \in [Nat -> S] /\ Starts(G, s0, 0, [n \in Nat |-> s0])
      BY DEF Starts
    <3> QED BY <3>1
  <2>2. ASSUME NEW n \in Nat, n \in P PROVE n + 1 \in P
    <3>1. PICK g \in [Nat -> S] : Starts(G, s0, n, g)
      BY <2>2
    <3>2. PICK x : x = G[<<n + 1, g[n]>>]
      OBVIOUS
    <3>3. x \in S
      BY <3>2
    <3>4. PICK h : h = [g EXCEPT ![n + 1] = x]
      OBVIOUS
    <3>5. h \in [Nat -> S] /\ h[n + 1] = x /\ \A k \in Nat : k # n + 1 => h[k] = g[k]
      BY <3>3, <3>4
    <3>6. Starts(G, s0, n + 1, h)
      <4>1. h[0] = s0
        BY <3>1, <3>5 DEF Starts
      <4>2. ASSUME NEW k \in Nat, k < n + 1 PROVE h[k + 1] = G[<<k + 1, h[k]>>]
        <5>1. h[k] = g[k]
          BY <3>5, <4>2
        <5>2. CASE k = n
          BY <5>1, <5>2, <3>2, <3>5
        <5>3. CASE k # n
          <6>1. k < n /\ k + 1 # n + 1
            BY <5>3, <4>2
          <6> QED BY <6>1, <5>1, <3>1, <3>5 DEF Starts
        <5> QED BY <5>2, <5>3
      <4> QED BY <4>1, <4>2 DEF Starts
    <3> QED BY <3>5, <3>6
  <2> HIDE DEF P
  <2> QED BY <2>1, <2>2, NaturalsSet
<1>2. ASSUME NEW m \in Nat, NEW n \in Nat, m <= n, NEW g, NEW h,
             Starts(G, s0, m, g), Starts(G, s0, n, h)
      PROVE  g[m] = h[m]
  <2> DEFINE Q == {k \in Nat : k <= m => g[k] = h[k]}
  <2>1. 0 \in Q
    BY <1>2 DEF Starts
  <2>2. ASSUME NEW k \in Nat, k \in Q PROVE k + 1 \in Q
    <3>1. CASE k + 1 <= m
      <4>1. k < m /\ k < n /\ g[k] = h[k]
        BY <1>2, <2>2, <3>1
      <4>2. g[k + 1] = G[<<k + 1, g[k]>>] /\ h[k + 1] = G[<<k + 1, h[k]>>]
        BY <4>1, <1>2 DEF Starts
      <4> QED BY <4>1, <4>2
    <3> QED BY <3>1
  <2>3. Nat \subseteq Q
    <3> HIDE DEF Q
    <3> QED BY <2>1, <2>2, NaturalsSet
  <2> QED BY <2>3
<1> DEFINE F(n) == CHOOSE g : g \in [Nat -> S] /\ Starts(G, s0, n, g)
<1>3. \A n \in Nat : F(n) \in [Nat -> S] /\ Starts(G, s0, n, F(n))
  BY <1>1
<1> HIDE DEF F
<1>4. PICK f : f = [n \in Nat |-> F(n)[n]]
  OBVIOUS
<1>5. f \in [Nat -> S] /\ \A n \in Nat : f[n] = F(n)[n]
  BY <1>3, <1>4
<1>6. f[0] = s0
  BY <1>3, <1>5 DEF Starts
<1>7. ASSUME NEW n \in Nat PROVE f[n + 1] = G[<<n + 1, f[n]>>]
  <2>1. PICK m \in Nat : m = n + 1 /\ n < m
    OBVIOUS
  <2>2. F(m)[n + 1] = G[<<n + 1, F(m)[n]>>]
    BY <1>3, <2>1 DEF Starts
  <2>3. F(n)[n] = F(m)[n]
    BY <1>2, <1>3, <2>1, n <= m
  <2> QED BY <2>1, <2>2, <2>3, <1>5
<1> QED BY <1>5, <1>6, <1>7 DEF Iterates

-----------------------------------------------------------------------------
(* Folds of N steps: T holds of <<n, x>> when x is a possible result of n. *)

\* T is kept by the steps.
Leads(G, N, T) ==
    \A n \in Nat : \A x : n < N /\ <<n, x>> \in T => <<n + 1, G[<<n + 1, x>>]>> \in T

\* g is the N results of the fold, and T holds of each of them.
Follows(g, G, N, T, h) ==
    /\ g = [n \in 0..N |-> IF n = 0 THEN h ELSE G[<<n, g[n - 1]>>]]
    /\ \A n \in 0..N : <<n, g[n]>> \in T

\* Such a fold exists.
LEMMA Folding ==
  ASSUME NEW S, NEW T \in SUBSET (Nat \X S), NEW N \in Nat, NEW G, NEW h,
         <<0, h>> \in T, Leads(G, N, T)
  PROVE  \E g : Follows(g, G, N, T, h)
<1>1. PICK F : F = [p \in Nat \X S |-> IF p[1] > 0 /\ p[1] <= N /\ <<p[1] - 1, p[2]>> \in T
                                       THEN G[p] ELSE p[2]]
  OBVIOUS
<1>2. ASSUME NEW n \in Nat, NEW x \in S, n < N, <<n, x>> \in T
      PROVE  F[<<n + 1, x>>] = G[<<n + 1, x>>] /\ <<n + 1, F[<<n + 1, x>>]>> \in T
  <2>1. F[<<n + 1, x>>] = G[<<n + 1, x>>]
    BY <1>1, <1>2
  <2> QED BY <2>1, <1>2 DEF Leads
<1>3. ASSUME NEW p \in Nat \X S PROVE F[p] \in S
  <2>1. CASE p[1] > 0 /\ p[1] <= N /\ <<p[1] - 1, p[2]>> \in T
    <3>1. PICK n \in Nat, x \in S : p = <<n + 1, x>> /\ n < N /\ <<n, x>> \in T
      <4>1. p[1] - 1 \in Nat /\ p[2] \in S /\ p = <<(p[1] - 1) + 1, p[2]>> /\ p[1] - 1 < N
        BY <2>1
      <4> QED BY <4>1, <2>1
    <3> QED BY <3>1, <1>2
  <2>2. CASE ~(p[1] > 0 /\ p[1] <= N /\ <<p[1] - 1, p[2]>> \in T)
    BY <1>1, <2>2
  <2> QED BY <2>1, <2>2
<1>4. Closed(F, S) /\ h \in S
  BY <1>1, <1>3 DEF Closed
<1>5. PICK g : Iterates(g, F, S, h)
  BY <1>4, Iteration
<1> DEFINE P == {n \in Nat : n <= N => <<n, g[n]>> \in T}
<1>6. 0 \in P
  BY <1>5 DEF Iterates
<1>7. ASSUME NEW n \in Nat, n \in P PROVE n + 1 \in P
  <2>1. CASE n + 1 <= N
    <3>1. g[n] \in S /\ g[n + 1] = F[<<n + 1, g[n]>>] /\ <<n, g[n]>> \in T /\ n < N
      BY <1>5, <1>7, <2>1 DEF Iterates
    <3> QED BY <3>1, <1>2
  <2> QED BY <2>1
<1>8. Nat \subseteq P
  <2> HIDE DEF P
  <2> QED BY <1>6, <1>7, NaturalsSet
<1>9. ASSUME NEW n \in Nat, n < N PROVE g[n + 1] = G[<<n + 1, g[n]>>]
  <2>1. <<n, g[n]>> \in T /\ g[n] \in S /\ g[n + 1] = F[<<n + 1, g[n]>>]
    BY <1>5, <1>8, <1>9 DEF Iterates
  <2> QED BY <2>1, <1>2, <1>9
<1>10. PICK f : f = [n \in 0..N |-> g[n]]
  OBVIOUS
<1>11. \A n \in 0..N : f[n] = g[n] /\ <<n, f[n]>> \in T
  BY <1>8, <1>10
<1>12. ASSUME NEW n \in 0..N, n # 0 PROVE f[n] = G[<<n, f[n - 1]>>]
  <2>1. PICK m \in Nat : m = n - 1 /\ m + 1 = n /\ m < N /\ m \in 0..N
    BY <1>12
  <2>2. f[n] = g[m + 1] /\ f[m] = g[m] /\ g[m + 1] = G[<<m + 1, g[m]>>]
    BY <2>1, <1>9, <1>11
  <2> QED BY <2>1, <2>2
<1>13. f[0] = h
  <2>1. g[0] = h
    BY <1>5 DEF Iterates
  <2> QED BY <2>1, <1>11, 0 \in 0..N
<1> QED BY <1>10, <1>11, <1>12, <1>13 DEF Follows

\* T holds at the end of whatever agrees with the fold as long as T holds.
FollowsOn(after, G, N, T) == \A n \in Nat :
    n < N /\ <<n, after[n]>> \in T => after[n + 1] = G[<<n + 1, after[n]>>]

LEMMA FoldEnd ==
  ASSUME NEW T, NEW N \in Nat, NEW G, NEW after, <<0, after[0]>> \in T,
         Leads(G, N, T), FollowsOn(after, G, N, T)
  PROVE  <<N, after[N]>> \in T
<1> DEFINE P == {n \in Nat : n <= N => <<n, after[n]>> \in T}
<1>1. 0 \in P
  OBVIOUS
<1>2. ASSUME NEW n \in Nat, n \in P PROVE n + 1 \in P
  <2>1. CASE n + 1 <= N
    <3>1. n < N /\ <<n, after[n]>> \in T
      BY <1>2, <2>1
    <3>2. after[n + 1] = G[<<n + 1, after[n]>>]
      BY <3>1 DEF FollowsOn
    <3>3. <<n + 1, G[<<n + 1, after[n]>>]>> \in T
      BY <3>1 DEF Leads
    <3> QED BY <3>2, <3>3
  <2> QED BY <2>1
<1>3. Nat \subseteq P
  <2> HIDE DEF P
  <2> QED BY <1>1, <1>2, NaturalsSet
<1>4. N \in P
  BY <1>3
<1> QED BY <1>4
=============================================================================
