-------------------------- MODULE ReactivityProofs ---------------------------
(***************************************************************************)
(* The invariants of Reactivity, for every set of signals, every content,  *)
(* every program of its bindings and every event handler.  A callback is a *)
(* fold of steps over the heap, so the proof goes from what a fold keeps   *)
(* to what each step of a callback keeps (Sound, Watches, Later), to runs, *)
(* to the replacement of content, and to the actions, whose invariant is   *)
(* Inv at the end.                                                         *)
(***************************************************************************)
EXTENDS Reactivity, Recursion

-----------------------------------------------------------------------------
(* Each of the folds of the model keeps what its step keeps.               *)

KeptAll(h, e, seq) == InTurn(LAMBDA kept, x : Kept(kept, e, x), h, seq)

\* Copying a sequence member by member.
LEMMA KeptTurns ==
  ASSUME NEW S, NEW T \in SUBSET (Nat \X S), NEW h, NEW e, NEW seq, Len(seq) \in Nat,
         <<0, h>> \in T,
         \A n \in Nat : \A x \in S : n < Len(seq) /\ <<n, x>> \in T
             => <<n + 1, Kept(x, e, seq[n + 1])>> \in T
  PROVE  <<Len(seq), KeptAll(h, e, seq)>> \in T
<1>1. PICK N \in Nat : N = Len(seq)
  OBVIOUS
<1>2. PICK G : G = [p \in Nat \X S |-> Kept(p[2], e, seq[p[1]])]
  OBVIOUS
<1>3. \A n \in Nat : \A x \in S : G[<<n, x>>] = Kept(x, e, seq[n])
  BY <1>2
<1>4. Leads(G, N, T)
  BY <1>1, <1>3 DEF Leads
<1>5. PICK g : Follows(g, G, N, T, h)
  BY <1>1, <1>4, Folding
<1>6. \A x, y : (CHOOSE r \in {Kept(now, e, y) : now \in {x}} : TRUE) = Kept(x, e, y)
  OBVIOUS
<1>7. g = [n \in 0..Len(seq) |-> IF n = 0 THEN h
             ELSE CHOOSE r \in {Kept(now, e, seq[n]) : now \in {g[n - 1]}} : TRUE]
  <2>1. ASSUME NEW n \in 0..N, n # 0
        PROVE  G[<<n, g[n - 1]>>] = CHOOSE r \in {Kept(now, e, seq[n]) : now \in {g[n - 1]}} : TRUE
    <3>1. n - 1 \in 0..N /\ n \in Nat
      BY <2>1
    <3>2. g[n - 1] \in S
      BY <3>1, <1>5 DEF Follows
    <3> QED BY <3>1, <3>2, <1>3, <1>6
  <2> QED BY <2>1, <1>1, <1>5 DEF Follows
<1>8. PICK after : /\ after = [n \in 0..Len(seq) |-> IF n = 0 THEN h
                        ELSE CHOOSE r \in {Kept(now, e, seq[n]) : now \in {after[n - 1]}} : TRUE]
                   /\ KeptAll(h, e, seq) = after[Len(seq)]
  BY <1>7 DEF KeptAll, InTurn
<1>9. after[0] = h
  BY <1>8
<1>10. FollowsOn(after, G, N, T)
  <2>1. SUFFICES ASSUME NEW n \in Nat, n < N, <<n, after[n]>> \in T
                 PROVE  after[n + 1] = G[<<n + 1, after[n]>>]
    BY DEF FollowsOn
  <2>2. after[n + 1] = CHOOSE r \in {Kept(now, e, seq[n + 1]) : now \in {after[(n + 1) - 1]}} : TRUE
    BY <1>1, <1>8, <2>1
  <2>3. after[n + 1] = Kept(after[n], e, seq[n + 1])
    BY <2>2, <1>6, (n + 1) - 1 = n
  <2>4. after[n] \in S
    BY <2>1
  <2> QED BY <2>3, <2>4, <1>3
<1> QED BY <1>1, <1>4, <1>8, <1>9, <1>10, FoldEnd

DisposeAll(h, seq) == InTurn(Dispose, h, seq)

\* Disposing effects in turn.
LEMMA DisposeTurns ==
  ASSUME NEW S, NEW T \in SUBSET (Nat \X S), NEW h, NEW seq, Len(seq) \in Nat,
         <<0, h>> \in T,
         \A n \in Nat : \A x \in S : n < Len(seq) /\ <<n, x>> \in T
             => <<n + 1, Dispose(x, seq[n + 1])>> \in T
  PROVE  <<Len(seq), DisposeAll(h, seq)>> \in T
<1>1. PICK N \in Nat : N = Len(seq)
  OBVIOUS
<1>2. PICK G : G = [p \in Nat \X S |-> Dispose(p[2], seq[p[1]])]
  OBVIOUS
<1>3. \A n \in Nat : \A x \in S : G[<<n, x>>] = Dispose(x, seq[n])
  BY <1>2
<1>4. Leads(G, N, T)
  BY <1>1, <1>3 DEF Leads
<1>5. PICK g : Follows(g, G, N, T, h)
  BY <1>1, <1>4, Folding
<1>6. \A x, y : (CHOOSE r \in {Dispose(now, y) : now \in {x}} : TRUE) = Dispose(x, y)
  OBVIOUS
<1>7. g = [n \in 0..Len(seq) |-> IF n = 0 THEN h
             ELSE CHOOSE r \in {Dispose(now, seq[n]) : now \in {g[n - 1]}} : TRUE]
  <2>1. ASSUME NEW n \in 0..N, n # 0
        PROVE  G[<<n, g[n - 1]>>] = CHOOSE r \in {Dispose(now, seq[n]) : now \in {g[n - 1]}} : TRUE
    <3>1. n - 1 \in 0..N /\ n \in Nat
      BY <2>1
    <3>2. g[n - 1] \in S
      BY <3>1, <1>5 DEF Follows
    <3> QED BY <3>1, <3>2, <1>3, <1>6
  <2> QED BY <2>1, <1>1, <1>5 DEF Follows
<1>8. PICK after : /\ after = [n \in 0..Len(seq) |-> IF n = 0 THEN h
                        ELSE CHOOSE r \in {Dispose(now, seq[n]) : now \in {after[n - 1]}} : TRUE]
                   /\ DisposeAll(h, seq) = after[Len(seq)]
  BY <1>7 DEF DisposeAll, InTurn
<1>9. after[0] = h
  BY <1>8
<1>10. FollowsOn(after, G, N, T)
  <2>1. SUFFICES ASSUME NEW n \in Nat, n < N, <<n, after[n]>> \in T
                 PROVE  after[n + 1] = G[<<n + 1, after[n]>>]
    BY DEF FollowsOn
  <2>2. after[n + 1] = CHOOSE r \in {Dispose(now, seq[n + 1]) : now \in {after[(n + 1) - 1]}} : TRUE
    BY <1>1, <1>8, <2>1
  <2>3. after[n + 1] = Dispose(after[n], seq[n + 1])
    BY <2>2, <1>6, (n + 1) - 1 = n
  <2>4. after[n] \in S
    BY <2>1
  <2> QED BY <2>3, <2>4, <1>3
<1> QED BY <1>1, <1>4, <1>8, <1>9, <1>10, FoldEnd

ScheduleAll(h, seq) == InTurn(Schedule, h, seq)

\* Scheduling effects in turn.
LEMMA ScheduleTurns ==
  ASSUME NEW S, NEW T \in SUBSET (Nat \X S), NEW h, NEW seq, Len(seq) \in Nat,
         <<0, h>> \in T,
         \A n \in Nat : \A x \in S : n < Len(seq) /\ <<n, x>> \in T
             => <<n + 1, Schedule(x, seq[n + 1])>> \in T
  PROVE  <<Len(seq), ScheduleAll(h, seq)>> \in T
<1>1. PICK N \in Nat : N = Len(seq)
  OBVIOUS
<1>2. PICK G : G = [p \in Nat \X S |-> Schedule(p[2], seq[p[1]])]
  OBVIOUS
<1>3. \A n \in Nat : \A x \in S : G[<<n, x>>] = Schedule(x, seq[n])
  BY <1>2
<1>4. Leads(G, N, T)
  BY <1>1, <1>3 DEF Leads
<1>5. PICK g : Follows(g, G, N, T, h)
  BY <1>1, <1>4, Folding
<1>6. \A x, y : (CHOOSE r \in {Schedule(now, y) : now \in {x}} : TRUE) = Schedule(x, y)
  OBVIOUS
<1>7. g = [n \in 0..Len(seq) |-> IF n = 0 THEN h
             ELSE CHOOSE r \in {Schedule(now, seq[n]) : now \in {g[n - 1]}} : TRUE]
  <2>1. ASSUME NEW n \in 0..N, n # 0
        PROVE  G[<<n, g[n - 1]>>] = CHOOSE r \in {Schedule(now, seq[n]) : now \in {g[n - 1]}} : TRUE
    <3>1. n - 1 \in 0..N /\ n \in Nat
      BY <2>1
    <3>2. g[n - 1] \in S
      BY <3>1, <1>5 DEF Follows
    <3> QED BY <3>1, <3>2, <1>3, <1>6
  <2> QED BY <2>1, <1>1, <1>5 DEF Follows
<1>8. PICK after : /\ after = [n \in 0..Len(seq) |-> IF n = 0 THEN h
                        ELSE CHOOSE r \in {Schedule(now, seq[n]) : now \in {after[n - 1]}} : TRUE]
                   /\ ScheduleAll(h, seq) = after[Len(seq)]
  BY <1>7 DEF ScheduleAll, InTurn
<1>9. after[0] = h
  BY <1>8
<1>10. FollowsOn(after, G, N, T)
  <2>1. SUFFICES ASSUME NEW n \in Nat, n < N, <<n, after[n]>> \in T
                 PROVE  after[n + 1] = G[<<n + 1, after[n]>>]
    BY DEF FollowsOn
  <2>2. after[n + 1] = CHOOSE r \in {Schedule(now, seq[n + 1]) : now \in {after[(n + 1) - 1]}} : TRUE
    BY <1>1, <1>8, <2>1
  <2>3. after[n + 1] = Schedule(after[n], seq[n + 1])
    BY <2>2, <1>6, (n + 1) - 1 = n
  <2>4. after[n] \in S
    BY <2>1
  <2> QED BY <2>3, <2>4, <1>3
<1> QED BY <1>1, <1>4, <1>8, <1>9, <1>10, FoldEnd

StepAll(h, seq) == InTurn(Step, h, seq)

\* Taking steps in turn.
LEMMA StepTurns ==
  ASSUME NEW S, NEW T \in SUBSET (Nat \X S), NEW h, NEW seq, Len(seq) \in Nat,
         <<0, h>> \in T,
         \A n \in Nat : \A x \in S : n < Len(seq) /\ <<n, x>> \in T
             => <<n + 1, Step(x, seq[n + 1])>> \in T
  PROVE  <<Len(seq), StepAll(h, seq)>> \in T
<1>1. PICK N \in Nat : N = Len(seq)
  OBVIOUS
<1>2. PICK G : G = [p \in Nat \X S |-> Step(p[2], seq[p[1]])]
  OBVIOUS
<1>3. \A n \in Nat : \A x \in S : G[<<n, x>>] = Step(x, seq[n])
  BY <1>2
<1>4. Leads(G, N, T)
  BY <1>1, <1>3 DEF Leads
<1>5. PICK g : Follows(g, G, N, T, h)
  BY <1>1, <1>4, Folding
<1>6. \A x, y : (CHOOSE r \in {Step(now, y) : now \in {x}} : TRUE) = Step(x, y)
  OBVIOUS
<1>7. g = [n \in 0..Len(seq) |-> IF n = 0 THEN h
             ELSE CHOOSE r \in {Step(now, seq[n]) : now \in {g[n - 1]}} : TRUE]
  <2>1. ASSUME NEW n \in 0..N, n # 0
        PROVE  G[<<n, g[n - 1]>>] = CHOOSE r \in {Step(now, seq[n]) : now \in {g[n - 1]}} : TRUE
    <3>1. n - 1 \in 0..N /\ n \in Nat
      BY <2>1
    <3>2. g[n - 1] \in S
      BY <3>1, <1>5 DEF Follows
    <3> QED BY <3>1, <3>2, <1>3, <1>6
  <2> QED BY <2>1, <1>1, <1>5 DEF Follows
<1>8. PICK after : /\ after = [n \in 0..Len(seq) |-> IF n = 0 THEN h
                        ELSE CHOOSE r \in {Step(now, seq[n]) : now \in {after[n - 1]}} : TRUE]
                   /\ StepAll(h, seq) = after[Len(seq)]
  BY <1>7 DEF StepAll, InTurn
<1>9. after[0] = h
  BY <1>8
<1>10. FollowsOn(after, G, N, T)
  <2>1. SUFFICES ASSUME NEW n \in Nat, n < N, <<n, after[n]>> \in T
                 PROVE  after[n + 1] = G[<<n + 1, after[n]>>]
    BY DEF FollowsOn
  <2>2. after[n + 1] = CHOOSE r \in {Step(now, seq[n + 1]) : now \in {after[(n + 1) - 1]}} : TRUE
    BY <1>1, <1>8, <2>1
  <2>3. after[n + 1] = Step(after[n], seq[n + 1])
    BY <2>2, <1>6, (n + 1) - 1 = n
  <2>4. after[n] \in S
    BY <2>1
  <2> QED BY <2>3, <2>4, <1>3
<1> QED BY <1>1, <1>4, <1>8, <1>9, <1>10, FoldEnd

CreateAll(h, seq) == InTurn(Create, h, seq)

\* Creating effects in turn.
LEMMA CreateTurns ==
  ASSUME NEW S, NEW T \in SUBSET (Nat \X S), NEW h, NEW seq, Len(seq) \in Nat,
         <<0, h>> \in T,
         \A n \in Nat : \A x \in S : n < Len(seq) /\ <<n, x>> \in T
             => <<n + 1, Create(x, seq[n + 1])>> \in T
  PROVE  <<Len(seq), CreateAll(h, seq)>> \in T
<1>1. PICK N \in Nat : N = Len(seq)
  OBVIOUS
<1>2. PICK G : G = [p \in Nat \X S |-> Create(p[2], seq[p[1]])]
  OBVIOUS
<1>3. \A n \in Nat : \A x \in S : G[<<n, x>>] = Create(x, seq[n])
  BY <1>2
<1>4. Leads(G, N, T)
  BY <1>1, <1>3 DEF Leads
<1>5. PICK g : Follows(g, G, N, T, h)
  BY <1>1, <1>4, Folding
<1>6. \A x, y : (CHOOSE r \in {Create(now, y) : now \in {x}} : TRUE) = Create(x, y)
  OBVIOUS
<1>7. g = [n \in 0..Len(seq) |-> IF n = 0 THEN h
             ELSE CHOOSE r \in {Create(now, seq[n]) : now \in {g[n - 1]}} : TRUE]
  <2>1. ASSUME NEW n \in 0..N, n # 0
        PROVE  G[<<n, g[n - 1]>>] = CHOOSE r \in {Create(now, seq[n]) : now \in {g[n - 1]}} : TRUE
    <3>1. n - 1 \in 0..N /\ n \in Nat
      BY <2>1
    <3>2. g[n - 1] \in S
      BY <3>1, <1>5 DEF Follows
    <3> QED BY <3>1, <3>2, <1>3, <1>6
  <2> QED BY <2>1, <1>1, <1>5 DEF Follows
<1>8. PICK after : /\ after = [n \in 0..Len(seq) |-> IF n = 0 THEN h
                        ELSE CHOOSE r \in {Create(now, seq[n]) : now \in {after[n - 1]}} : TRUE]
                   /\ CreateAll(h, seq) = after[Len(seq)]
  BY <1>7 DEF CreateAll, InTurn
<1>9. after[0] = h
  BY <1>8
<1>10. FollowsOn(after, G, N, T)
  <2>1. SUFFICES ASSUME NEW n \in Nat, n < N, <<n, after[n]>> \in T
                 PROVE  after[n + 1] = G[<<n + 1, after[n]>>]
    BY DEF FollowsOn
  <2>2. after[n + 1] = CHOOSE r \in {Create(now, seq[n + 1]) : now \in {after[(n + 1) - 1]}} : TRUE
    BY <1>1, <1>8, <2>1
  <2>3. after[n + 1] = Create(after[n], seq[n + 1])
    BY <2>2, <1>6, (n + 1) - 1 = n
  <2>4. after[n] \in S
    BY <2>1
  <2> QED BY <2>3, <2>4, <1>3
<1> QED BY <1>1, <1>4, <1>8, <1>9, <1>10, FoldEnd

-----------------------------------------------------------------------------
(* Sequences.                                                              *)

\* What a sequence holds after an append.
LEMMA Appended ==
  ASSUME NEW A, NEW seq \in Seq(A), NEW e \in A
  PROVE  /\ Append(seq, e) \in Seq(A)
         /\ \A x : Contains(Append(seq, e), x) <=> Contains(seq, x) \/ x = e
<1>1. /\ Append(seq, e) \in Seq(A) /\ Len(Append(seq, e)) = Len(seq) + 1
      /\ Append(seq, e)[Len(seq) + 1] = e
      /\ \A i \in 1..Len(seq) : Append(seq, e)[i] = seq[i]
  OBVIOUS
<1>2. Len(seq) \in Nat
  OBVIOUS
<1>3. ASSUME NEW x, Contains(Append(seq, e), x) PROVE Contains(seq, x) \/ x = e
  <2>1. PICK i \in 1..(Len(seq) + 1) : Append(seq, e)[i] = x
    BY <1>1, <1>3 DEF Contains
  <2>2. CASE i = Len(seq) + 1
    BY <2>1, <2>2, <1>1
  <2>3. CASE i # Len(seq) + 1
    <3>1. i \in 1..Len(seq)
      BY <2>3, <1>2
    <3> QED BY <3>1, <2>1, <1>1 DEF Contains
  <2> QED BY <2>2, <2>3
<1>4. ASSUME NEW x, Contains(seq, x) PROVE Contains(Append(seq, e), x)
  <2>1. PICK i \in 1..Len(seq) : seq[i] = x
    BY <1>4 DEF Contains
  <2>2. i \in 1..Len(Append(seq, e)) /\ Append(seq, e)[i] = x
    BY <2>1, <1>1, <1>2
  <2> QED BY <2>2 DEF Contains
<1>5. Contains(Append(seq, e), e)
  <2>1. Len(seq) + 1 \in 1..Len(Append(seq, e))
    BY <1>1, <1>2
  <2> QED BY <2>1, <1>1 DEF Contains
<1> QED BY <1>1, <1>3, <1>4, <1>5

\* What a sequence without duplicates holds after a join.
LEMMA JoinedHas ==
  ASSUME NEW A, NEW seq \in Seq(A), NEW e \in A
  PROVE  /\ Joined(seq, e) \in Seq(A)
         /\ \A x : Contains(Joined(seq, e), x) <=> Contains(seq, x) \/ x = e
BY Appended DEF Joined

\* Nothing is in the empty sequence.
LEMMA EmptyHas == \A x : ~Contains(<<>>, x)
BY DEF Contains

\* The head and the tail hold what the sequence does.
LEMMA TailHas ==
  ASSUME NEW A, NEW seq \in Seq(A), seq # <<>>
  PROVE  /\ Tail(seq) \in Seq(A) /\ Head(seq) \in A /\ Contains(seq, Head(seq))
         /\ \A x : Contains(seq, x) <=> x = Head(seq) \/ Contains(Tail(seq), x)
<1>1. /\ Tail(seq) \in Seq(A) /\ Head(seq) \in A /\ Head(seq) = seq[1] /\ Len(seq) \in Nat
      /\ Len(seq) >= 1 /\ Len(Tail(seq)) = Len(seq) - 1
      /\ \A i \in 1..(Len(seq) - 1) : Tail(seq)[i] = seq[i + 1]
  OBVIOUS
<1>2. Contains(seq, Head(seq))
  BY <1>1 DEF Contains
<1>3. ASSUME NEW x, Contains(seq, x) PROVE x = Head(seq) \/ Contains(Tail(seq), x)
  <2>1. PICK i \in 1..Len(seq) : seq[i] = x
    BY <1>3 DEF Contains
  <2>2. CASE i # 1
    <3>1. i - 1 \in 1..Len(Tail(seq)) /\ Tail(seq)[i - 1] = seq[(i - 1) + 1] /\ (i - 1) + 1 = i
      BY <2>1, <2>2, <1>1
    <3> QED BY <3>1, <2>1 DEF Contains
  <2> QED BY <2>1, <2>2, <1>1
<1>4. ASSUME NEW x, Contains(Tail(seq), x) PROVE Contains(seq, x)
  <2>1. PICK i \in 1..Len(Tail(seq)) : Tail(seq)[i] = x
    BY <1>4 DEF Contains
  <2>2. i + 1 \in 1..Len(seq) /\ seq[i + 1] = x
    BY <2>1, <1>1
  <2> QED BY <2>2 DEF Contains
<1> QED BY <1>1, <1>2, <1>3, <1>4

\* A member is taken out, and nothing else.
LEMMA WithoutHas ==
  ASSUME NEW A, NEW seq \in Seq(A), NEW e
  PROVE  /\ Without(seq, e) \in Seq(A)
         /\ \A x : Contains(Without(seq, e), x) <=> Contains(seq, x) /\ x # e
<1> DEFINE Has(n, x) == \E i \in 1..n : seq[i] = x
<1>1. PICK T : T = {p \in Nat \X Seq(A) : \A x : Contains(p[2], x) <=> Has(p[1], x) /\ x # e}
  OBVIOUS
<1>2. PICK S : S = Seq(A)
  OBVIOUS
<1>3. T \in SUBSET (Nat \X S)
  BY <1>1, <1>2
<1>4. \A n \in Nat, kept \in Seq(A) :
        <<n, kept>> \in T <=> \A x : Contains(kept, x) <=> Has(n, x) /\ x # e
  BY <1>1
<1>5. <<0, <<>>>> \in T
  <2>1. \A x : ~Has(0, x)
    OBVIOUS
  <2> HIDE DEF Has
  <2> QED BY <2>1, <1>4, EmptyHas, <<>> \in Seq(A)
<1>6. Len(seq) \in Nat /\ \A i \in 1..Len(seq) : seq[i] \in A
  OBVIOUS
<1>7. ASSUME NEW n \in Nat, NEW kept \in S, n < Len(seq), <<n, kept>> \in T
      PROVE  <<n + 1, Kept(kept, e, seq[n + 1])>> \in T
  <2>1. kept \in Seq(A) /\ seq[n + 1] \in A
    BY <1>2, <1>6, <1>7
  <2>2. \A x : Has(n + 1, x) <=> Has(n, x) \/ x = seq[n + 1]
    OBVIOUS
  <2>3. \A x : Contains(kept, x) <=> Has(n, x) /\ x # e
    BY <1>4, <1>7, <2>1
  <2> HIDE DEF Has
  <2>4. /\ Kept(kept, e, seq[n + 1]) \in Seq(A)
        /\ \A x : Contains(Kept(kept, e, seq[n + 1]), x) <=> Has(n + 1, x) /\ x # e
    BY <2>1, <2>2, <2>3, Appended DEF Kept
  <2> QED BY <2>4, <1>4
<1>8. <<Len(seq), KeptAll(<<>>, e, seq)>> \in T
  <2> HIDE DEF Has
  <2> QED BY <1>3, <1>5, <1>6, <1>7, KeptTurns
<1>9. Without(seq, e) = KeptAll(<<>>, e, seq)
  BY DEF Without, KeptAll
<1>10. Without(seq, e) \in Seq(A) /\ \A x : Contains(Without(seq, e), x) <=> Has(Len(seq), x) /\ x # e
  <2>1. Without(seq, e) \in S
    BY <1>3, <1>8, <1>9
  <2> QED BY <2>1, <1>2, <1>4, <1>6, <1>8, <1>9
<1> QED BY <1>10 DEF Contains

-----------------------------------------------------------------------------
(* The heap, and what holds of it between any two steps of a callback.     *)

Values == 0..MaxValue
Pairs == Signals \X Values

Heaps ==
    [vals : [Signals -> Values], subs : [Signals -> Seq(Effects)],
     pending : Seq(Effects), disposed : SUBSET Effects, running : Effects \cup {None},
     ended : BOOLEAN, threw : BOOLEAN,
     seen : [Effects -> SUBSET Pairs], wrote : [Effects -> SUBSET Signals],
     givenUp : SUBSET Effects, flushing : BOOLEAN, micro : Seq({"flush", "refresh"}),
     shows : [page : SUBSET Pairs, region : SUBSET Pairs], render : {"document", "request"},
     inserting : BOOLEAN, subscribing : BOOLEAN,
     request : [values : [Signals -> Values], frames : Seq({"page", "region"})],
     failed : BOOLEAN, missed : SUBSET Signals]

\* A disposed effect is neither scheduled nor subscribed.
Forgets(h) == \A e \in h.disposed :
    ~Contains(h.pending, e) /\ \A s \in Signals : ~Contains(h.subs[s], e)

\* An effect, unless it is one of E, hears of changes of what it has seen, and
\* of the changes so far it is the author, or it is scheduled.
Hears(h, E) == \A e \in Effects \ (h.disposed \cup h.givenUp \cup E) : \A p \in h.seen[e] :
    /\ Contains(h.subs[p[1]], e)
    /\ h.vals[p[1]] = p[2] \/ p[1] \in h.wrote[e] \/ Contains(h.pending, e)

\* A flush is under way or to come for the scheduled effects.
Queued(h) == \A e \in Effects :
    Contains(h.pending, e) => h.flushing \/ Contains(h.micro, "flush")

Sound(h, E) == Forgets(h) /\ Hears(h, E) /\ Queued(h)

\* The watch effect is subscribed to what the content depends on.
Watches(h) == Watch \notin h.disposed => \A s \in Watched(h) : Contains(h.subs[s], Watch)

Content(h) == <<h.flushing, h.shows, h.render, h.inserting, h.subscribing, h.request, h.failed>>
Asks(h) == Contains(h.micro, "refresh")

\* Between h and a later x, neither a change nor the wish for a render is lost.
Later(h, x) ==
    /\ Content(x) = Content(h)
    /\ Watch \in x.disposed <=> Watch \in h.disposed
    /\ h.missed \subseteq x.missed
    /\ Asks(x) <=> Asks(h)
    /\ Contains(h.pending, Watch) => Contains(x.pending, Watch)
    /\ \A s \in Signals :
          \/ x.vals[s] = h.vals[s] \/ s \in x.missed
          \/ ~h.inserting /\ (Watch \in h.disposed \/ Contains(x.pending, Watch))

\* Later is transitive.
LEMMA LaterLater ==
  ASSUME NEW h \in Heaps, NEW x \in Heaps, NEW y \in Heaps, Later(h, x), Later(x, y)
  PROVE  Later(h, y)
BY DEF Later, Content

\* Later is reflexive.
LEMMA LaterSame == ASSUME NEW h \in Heaps PROVE Later(h, h)
BY DEF Later

Names == Watch # None /\ Watch \in Effects /\ Bindings \subseteq Effects /\ None \notin Effects
\* The watch effect is no binding, and neither is the absence of one.
LEMMA NamesDiffer == Names
BY ReactivityAssumption DEF Names, Watch, None, Effects

Graph(h) == <<h.vals, h.subs, h.disposed, h.running, h.ended, h.threw, h.seen, h.wrote,
              h.givenUp, h.missed>>

\* x is h after the first n effects of seq were scheduled.
Enqueued(h, x, seq, n) ==
    /\ x \in Heaps /\ Content(x) = Content(h) /\ Graph(x) = Graph(h)
    /\ \A e : Contains(h.pending, e) => Contains(x.pending, e)
    /\ \A e : Contains(x.pending, e) => Contains(h.pending, e) \/ e \notin h.disposed
    /\ \A i \in 1..n : seq[i] \in h.disposed \/ seq[i] = h.running \/ Contains(x.pending, seq[i])
    /\ Asks(x) <=> Asks(h)
    /\ Queued(h) => Queued(x)

\* The next effect of a sequence is scheduled.
LEMMA ScheduleEnqueues ==
  ASSUME NEW h \in Heaps, NEW seq \in Seq(Effects), NEW n \in Nat, NEW x \in Heaps,
         n < Len(seq), Enqueued(h, x, seq, n)
  PROVE  Enqueued(h, Schedule(x, seq[n + 1]), seq, n + 1)
<1>1. PICK e \in Effects : e = seq[n + 1]
  OBVIOUS
<1>2. PICK r : r = Schedule(x, e)
  OBVIOUS
<1>3. CASE e \in x.disposed \/ e = x.running
  <2>1. r = x
    BY <1>2, <1>3 DEF Schedule
  <2>2. e \in h.disposed \/ e = h.running
    BY <1>3 DEF Enqueued, Graph
  <2>3. \A i \in 1..(n + 1) : i \in 1..n \/ i = n + 1
    OBVIOUS
  <2> QED BY <1>1, <1>2, <2>1, <2>2, <2>3 DEF Enqueued
<1>4. CASE ~(e \in x.disposed \/ e = x.running)
  <2>1. PICK p : p = Joined(x.pending, e)
    OBVIOUS
  <2>2. p \in Seq(Effects) /\ \A y : Contains(p, y) <=> Contains(x.pending, y) \/ y = e
    <3>1. x.pending \in Seq(Effects)
      BY DEF Heaps
    <3> QED BY <3>1, <2>1, JoinedHas
  <2>3. PICK m : m = IF x.flushing THEN x.micro ELSE Joined(x.micro, "flush")
    OBVIOUS
  <2>4. /\ m \in Seq({"flush", "refresh"}) /\ (Contains(m, "refresh") <=> Contains(x.micro, "refresh"))
        /\ x.flushing \/ Contains(m, "flush")
    <3>1. x.micro \in Seq({"flush", "refresh"}) /\ "flush" \in {"flush", "refresh"}
      BY DEF Heaps
    <3>2. PICK A : A = {"flush", "refresh"}
      OBVIOUS
    <3>3. Joined(x.micro, "flush") \in Seq(A) /\ \A y : Contains(Joined(x.micro, "flush"), y) <=> Contains(x.micro, y) \/ y = "flush"
      BY <3>1, <3>2, JoinedHas
    <3> QED BY <3>1, <3>2, <3>3, <2>3
  <2>5. r = [x EXCEPT !.pending = p, !.micro = m]
    BY <1>2, <1>4, <2>1, <2>3 DEF Schedule
  <2>6. r \in Heaps /\ r.pending = p /\ r.micro = m /\ Content(r) = Content(x) /\ Graph(r) = Graph(x)
    BY <2>2, <2>4, <2>5 DEF Heaps, Content, Graph
  <2>7. Queued(r) /\ (Asks(r) <=> Asks(x))
    BY <2>4, <2>6 DEF Queued, Asks, Content
  <2>8. e \notin h.disposed
    BY <1>4 DEF Enqueued, Graph
  <2>9. \A i \in 1..(n + 1) : i \in 1..n \/ i = n + 1
    OBVIOUS
  <2> QED BY <1>1, <1>2, <2>2, <2>6, <2>7, <2>8, <2>9 DEF Enqueued
<1> QED BY <1>3, <1>4

\* All effects of a sequence are scheduled.
LEMMA ScheduleAllEnqueues ==
  ASSUME NEW h \in Heaps, NEW seq \in Seq(Effects)
  PROVE  Enqueued(h, ScheduleAll(h, seq), seq, Len(seq))
<1>1. PICK T : T = {p \in Nat \X Heaps : Enqueued(h, p[2], seq, p[1])}
  OBVIOUS
<1>2. \A n \in Nat, x \in Heaps : <<n, x>> \in T <=> Enqueued(h, x, seq, n)
  BY <1>1
<1>3. T \in SUBSET (Nat \X Heaps) /\ Len(seq) \in Nat
  BY <1>1
<1>4. <<0, h>> \in T
  BY <1>2 DEF Enqueued
<1>5. ASSUME NEW n \in Nat, NEW x \in Heaps, n < Len(seq), <<n, x>> \in T
      PROVE  <<n + 1, Schedule(x, seq[n + 1])>> \in T
  <2>1. Enqueued(h, Schedule(x, seq[n + 1]), seq, n + 1)
    BY <1>2, <1>5, ScheduleEnqueues
  <2> QED BY <2>1, <1>2 DEF Enqueued
<1>6. <<Len(seq), ScheduleAll(h, seq)>> \in T
  BY <1>3, <1>4, <1>5, ScheduleTurns
<1> QED BY <1>1, <1>6

-----------------------------------------------------------------------------
(* What the steps of a callback do.                                        *)

\* The subscribers of a signal are a sequence of effects.
LEMMA SubsSeq == ASSUME NEW h \in Heaps, NEW s \in Signals PROVE h.subs[s] \in Seq(Effects)
BY DEF Heaps

\* Tracking adds the subscriptions of the running effect and changes nothing else.
Tracked(h, S, r) ==
    /\ r \in Heaps /\ Content(r) = Content(h)
    /\ r.vals = h.vals /\ r.disposed = h.disposed /\ r.running = h.running
    /\ r.pending = h.pending /\ r.micro = h.micro /\ r.missed = h.missed
    /\ r.threw = h.threw /\ r.ended = h.ended /\ r.givenUp = h.givenUp
    /\ \A s \in Signals, e \in Effects : Contains(h.subs[s], e) => Contains(r.subs[s], e)
    /\ h.running \notin h.disposed \cup {None} => \A s \in S : Contains(r.subs[s], h.running)

\* Tracking keeps the graph sound.
LEMMA TrackTracks ==
  ASSUME NEW h \in Heaps, NEW S \in SUBSET Signals, NEW E, Forgets(h), Hears(h, E)
  PROVE  Tracked(h, S, Track(h, S)) /\ Forgets(Track(h, S)) /\ Hears(Track(h, S), E)
<1>1. CASE h.running \in h.disposed \cup {None}
  BY <1>1 DEF Track, Tracked
<1>2. CASE ~(h.running \in h.disposed \cup {None})
  <2>1. PICK e \in Effects : e = h.running /\ e \notin h.disposed
    BY <1>2 DEF Heaps
  <2>2. PICK u : u = [s \in Signals |-> IF s \in S THEN Joined(h.subs[s], e) ELSE h.subs[s]]
    OBVIOUS
  <2>3. \A s \in Signals : /\ u[s] \in Seq(Effects)
                           /\ \A y : Contains(u[s], y) <=> Contains(h.subs[s], y) \/ (s \in S /\ y = e)
    <3>1. ASSUME NEW s \in Signals
          PROVE /\ u[s] \in Seq(Effects)
                /\ \A y : Contains(u[s], y) <=> Contains(h.subs[s], y) \/ (s \in S /\ y = e)
      <4>1. h.subs[s] \in Seq(Effects) /\ u[s] = IF s \in S THEN Joined(h.subs[s], e) ELSE h.subs[s]
        BY <2>2, SubsSeq
      <4> QED BY <4>1, JoinedHas
    <3> QED BY <3>1
  <2>4. PICK news : news = {<<s, h.vals[s]>> : s \in S}
    OBVIOUS
  <2>5. news \in SUBSET Pairs /\ \A p \in news : p[1] \in S /\ p[2] = h.vals[p[1]]
    BY <2>4 DEF Heaps, Pairs
  <2>6. PICK n : n = [h.seen EXCEPT ![e] = @ \cup news]
    OBVIOUS
  <2>7. /\ n \in [Effects -> SUBSET Pairs] /\ n[e] = h.seen[e] \cup news
        /\ \A y \in Effects : y # e => n[y] = h.seen[y]
    BY <2>5, <2>6 DEF Heaps
  <2>8. PICK r : r = Track(h, S)
    OBVIOUS
  <2>9. r = [h EXCEPT !.subs = u, !.seen = n]
    BY <1>2, <2>1, <2>2, <2>4, <2>6, <2>8 DEF Track, Heaps
  <2>10. u \in [Signals -> Seq(Effects)]
    BY <2>2, <2>3
  <2>11. /\ r \in Heaps /\ Content(r) = Content(h) /\ r.subs = u /\ r.seen = n
         /\ r.vals = h.vals /\ r.disposed = h.disposed /\ r.running = h.running
         /\ r.pending = h.pending /\ r.micro = h.micro /\ r.missed = h.missed
         /\ r.threw = h.threw /\ r.ended = h.ended /\ r.givenUp = h.givenUp /\ r.wrote = h.wrote
    BY <2>7, <2>9, <2>10 DEF Heaps, Content
  <2>12. Tracked(h, S, r)
    BY <2>1, <2>3, <2>11 DEF Tracked
  <2>13. Forgets(r)
    BY <2>1, <2>3, <2>11 DEF Forgets
  <2>14. Hears(r, E)
    <3>1. SUFFICES ASSUME NEW y \in Effects \ (r.disposed \cup r.givenUp \cup E), NEW p \in r.seen[y]
                   PROVE  /\ Contains(r.subs[p[1]], y)
                          /\ r.vals[p[1]] = p[2] \/ p[1] \in r.wrote[y] \/ Contains(r.pending, y)
      BY DEF Hears
    <3>2. CASE p \in h.seen[y]
      <4>1. p[1] \in Signals
        BY <3>2 DEF Heaps, Pairs
      <4> QED BY <3>2, <4>1, <2>3, <2>11 DEF Hears
    <3>3. CASE y = e /\ p \in news
      BY <3>3, <2>3, <2>5, <2>11
    <3> QED BY <3>1, <3>2, <3>3, <2>7, <2>11
  <2> QED BY <2>8, <2>12, <2>13, <2>14
<1> QED BY <1>1, <1>2

\* Disposing takes an effect out of the graph and changes nothing else.
Released(h, e, r) ==
    /\ r \in Heaps /\ Content(r) = Content(h)
    /\ r.vals = h.vals /\ r.disposed = h.disposed \cup {e} /\ r.running = h.running
    /\ r.micro = h.micro /\ r.missed = h.missed
    /\ r.threw = h.threw /\ r.ended = h.ended /\ r.givenUp = h.givenUp
    /\ \A y : Contains(r.pending, y) <=> Contains(h.pending, y) /\ y # e
    /\ \A s \in Signals : \A y : Contains(r.subs[s], y) <=> Contains(h.subs[s], y) /\ y # e

\* Disposing keeps the graph sound.
LEMMA DisposeReleases ==
  ASSUME NEW h \in Heaps, NEW e \in Effects, NEW E, Forgets(h), Hears(h, E)
  PROVE  /\ Released(h, e, Dispose(h, e))
         /\ Forgets(Dispose(h, e)) /\ Hears(Dispose(h, e), E \ {e})
<1>1. PICK u : u = [s \in Signals |-> Without(h.subs[s], e)]
  OBVIOUS
<1>2. \A s \in Signals : /\ u[s] \in Seq(Effects)
                         /\ \A y : Contains(u[s], y) <=> Contains(h.subs[s], y) /\ y # e
  BY <1>1, SubsSeq, WithoutHas
<1>3. PICK p : p = Without(h.pending, e)
  OBVIOUS
<1>4. p \in Seq(Effects) /\ \A y : Contains(p, y) <=> Contains(h.pending, y) /\ y # e
  <2>1. h.pending \in Seq(Effects)
    BY DEF Heaps
  <2> QED BY <2>1, <1>3, WithoutHas
<1>5. PICK r : r = Dispose(h, e)
  OBVIOUS
<1>6. r = [h EXCEPT !.subs = u, !.disposed = @ \cup {e}, !.pending = p]
  BY <1>1, <1>3, <1>5 DEF Dispose, Unsubscribe, Heaps
<1>7. u \in [Signals -> Seq(Effects)]
  BY <1>1, <1>2
<1>8. /\ r \in Heaps /\ Content(r) = Content(h) /\ r.subs = u /\ r.seen = h.seen
      /\ r.vals = h.vals /\ r.disposed = h.disposed \cup {e} /\ r.running = h.running
      /\ r.pending = p /\ r.micro = h.micro /\ r.missed = h.missed
      /\ r.threw = h.threw /\ r.ended = h.ended /\ r.givenUp = h.givenUp /\ r.wrote = h.wrote
  BY <1>4, <1>6, <1>7 DEF Heaps, Content
<1>9. Released(h, e, r)
  BY <1>2, <1>4, <1>8 DEF Released
<1>10. Forgets(r)
  BY <1>2, <1>4, <1>8 DEF Forgets
<1>11. Hears(r, E \ {e})
  <2>1. SUFFICES ASSUME NEW y \in Effects \ (r.disposed \cup r.givenUp \cup (E \ {e})), NEW q \in r.seen[y]
                 PROVE  /\ Contains(r.subs[q[1]], y)
                        /\ r.vals[q[1]] = q[2] \/ q[1] \in r.wrote[y] \/ Contains(r.pending, y)
    BY DEF Hears
  <2>2. y \in Effects \ (h.disposed \cup h.givenUp \cup E) /\ y # e /\ q \in h.seen[y] /\ q[1] \in Signals
    BY <2>1, <1>8 DEF Heaps, Pairs
  <2> QED BY <2>2, <1>2, <1>4, <1>8 DEF Hears
<1> QED BY <1>5, <1>9, <1>10, <1>11

\* A change reaches the subscribers, and the watch effect or `missed`.
LEMMA AssignKeeps ==
  ASSUME NEW h \in Heaps, NEW s \in Signals, NEW v \in Values, NEW E,
         Sound(h, E), Watches(h), h.running # Watch
  PROVE  LET r == Assign(h, s, v)
         IN  /\ r \in Heaps /\ r.running = h.running
             /\ Sound(r, E) /\ Watches(r) /\ Later(h, r)
<1>1. CASE v = h.vals[s]
  BY <1>1, LaterSame DEF Assign
<1>2. CASE v # h.vals[s]
  <2>1. PICK w : w = [e \in Effects |-> IF e = h.running THEN h.wrote[e] \cup {s} ELSE h.wrote[e]]
    OBVIOUS
  <2>2. w \in [Effects -> SUBSET Signals]
    BY <2>1 DEF Heaps
  <2>3. PICK m : m = IF h.inserting \/ s \notin Watched(h) THEN h.missed \cup {s} ELSE h.missed
    OBVIOUS
  <2>4. m \in SUBSET Signals /\ h.missed \subseteq m
    BY <2>3 DEF Heaps
  <2>5. PICK vs : vs = [h.vals EXCEPT ![s] = v]
    OBVIOUS
  <2>6. vs \in [Signals -> Values] /\ vs[s] = v /\ \A t \in Signals : t # s => vs[t] = h.vals[t]
    BY <2>5 DEF Heaps
  <2>7. PICK g : g = [h EXCEPT !.vals = vs, !.wrote = w, !.missed = m]
    OBVIOUS
  <2>8. /\ g \in Heaps /\ Content(g) = Content(h) /\ g.vals = vs /\ g.wrote = w /\ g.missed = m
        /\ g.subs = h.subs /\ g.disposed = h.disposed /\ g.running = h.running
        /\ g.seen = h.seen /\ g.givenUp = h.givenUp /\ g.pending = h.pending /\ g.micro = h.micro
    BY <2>2, <2>4, <2>6, <2>7 DEF Heaps, Content
  <2>9. h.subs[s] \in Seq(Effects)
    BY SubsSeq
  <2>10. PICK r : r = Assign(h, s, v)
    OBVIOUS
  <2>11. r = ScheduleAll(g, h.subs[s])
    BY <1>2, <2>1, <2>3, <2>5, <2>7, <2>10 DEF Assign, ScheduleAll, Heaps
  <2>12. PICK seq \in Seq(Effects) : seq = h.subs[s]
    BY <2>9
  <2>13. Enqueued(g, r, seq, Len(seq))
    BY <2>8, <2>11, <2>12, ScheduleAllEnqueues
  <2>14. /\ r \in Heaps /\ Content(r) = Content(h) /\ r.vals = vs /\ r.wrote = w /\ r.missed = m
         /\ r.subs = h.subs /\ r.disposed = h.disposed /\ r.running = h.running
         /\ r.seen = h.seen /\ r.givenUp = h.givenUp
         /\ \A e : Contains(h.pending, e) => Contains(r.pending, e)
         /\ \A e : Contains(r.pending, e) => Contains(h.pending, e) \/ e \notin h.disposed
         /\ Asks(r) <=> Asks(h)
    BY <2>8, <2>13 DEF Enqueued, Graph, Asks
  <2>15. \A e : Contains(h.subs[s], e) => e \in h.disposed \/ e = h.running \/ Contains(r.pending, e)
    <3>1. \A i \in 1..Len(seq) : seq[i] \in h.disposed \/ seq[i] = h.running \/ Contains(r.pending, seq[i])
      BY <2>8, <2>13 DEF Enqueued
    <3> QED BY <3>1, <2>12 DEF Contains
  <2>16. Forgets(r)
    BY <2>14 DEF Sound, Forgets
  <2>17. Queued(r)
    <3>1. Queued(g)
      BY <2>8 DEF Sound, Queued, Content
    <3> QED BY <3>1, <2>13 DEF Enqueued
  <2>18. Hears(r, E)
    <3>1. SUFFICES ASSUME NEW e \in Effects \ (r.disposed \cup r.givenUp \cup E), NEW p \in r.seen[e]
                   PROVE  /\ Contains(r.subs[p[1]], e)
                          /\ r.vals[p[1]] = p[2] \/ p[1] \in r.wrote[e] \/ Contains(r.pending, e)
      BY DEF Hears
    <3>2. e \in Effects \ (h.disposed \cup h.givenUp \cup E) /\ p \in h.seen[e] /\ p[1] \in Signals
      BY <3>1, <2>14 DEF Heaps, Pairs
    <3>3. /\ Contains(h.subs[p[1]], e)
          /\ h.vals[p[1]] = p[2] \/ p[1] \in h.wrote[e] \/ Contains(h.pending, e)
      BY <3>2 DEF Sound, Hears
    <3>4. h.wrote[e] \subseteq w[e] /\ (e = h.running => s \in w[e])
      BY <3>2, <2>1
    <3>5. CASE p[1] = s
      BY <3>2, <3>3, <3>4, <3>5, <2>14, <2>15
    <3>6. CASE p[1] # s
      BY <3>2, <3>3, <3>4, <3>6, <2>6, <2>14
    <3> QED BY <3>5, <3>6
  <2>19. Watched(r) = Watched(h)
    BY <2>14 DEF Watched, Content
  <2>20. Watches(r)
    BY <2>14, <2>19 DEF Watches
  <2>21. Later(h, r)
    <3>1. s \in m \/ (~h.inserting /\ (Watch \in h.disposed \/ Contains(r.pending, Watch)))
      <4>1. CASE h.inserting \/ s \notin Watched(h)
        BY <4>1, <2>3
      <4>2. CASE ~h.inserting /\ s \in Watched(h) /\ Watch \notin h.disposed
        <5>1. Contains(h.subs[s], Watch)
          BY <4>2 DEF Watches
        <5> QED BY <5>1, <4>2, <2>15
      <4> QED BY <4>1, <4>2
    <3> QED BY <3>1, <2>4, <2>6, <2>14 DEF Later
  <2> QED BY <2>10, <2>14, <2>16, <2>17, <2>18, <2>20, <2>21 DEF Sound
<1> QED BY <1>1, <1>2

\* What E, and only E, need not satisfy may be more.
LEMMA HearsMore ==
  ASSUME NEW h, NEW E, NEW F, E \subseteq F, Hears(h, E)
  PROVE  Hears(h, F)
BY DEF Hears

\* The flags of a callback do not matter.
Alike(x, y) ==
    /\ y \in Heaps /\ Content(y) = Content(x)
    /\ y.vals = x.vals /\ y.subs = x.subs /\ y.pending = x.pending /\ y.disposed = x.disposed
    /\ y.seen = x.seen /\ y.wrote = x.wrote /\ y.givenUp = x.givenUp
    /\ y.micro = x.micro /\ y.missed = x.missed

\* What holds of a heap holds of one that is alike.
LEMMA AlikeKeeps ==
  ASSUME NEW x \in Heaps, NEW y, Alike(x, y), NEW E, NEW h \in Heaps
  PROVE  /\ Sound(x, E) => Sound(y, E)
         /\ Watches(x) => Watches(y)
         /\ Later(h, x) => Later(h, y)
<1>1. Forgets(x) => Forgets(y)
  BY DEF Alike, Forgets
<1>2. Hears(x, E) => Hears(y, E)
  BY DEF Alike, Hears
<1>3. Queued(x) => Queued(y)
  BY DEF Alike, Queued, Content
<1>4. Watched(x) = Watched(y)
  BY DEF Alike, Watched, Content
<1>5. Watches(x) => Watches(y)
  BY <1>4 DEF Alike, Watches
<1>6. Later(h, x) => Later(h, y)
  BY DEF Alike, Later, Asks
<1> QED BY <1>1, <1>2, <1>3, <1>5, <1>6 DEF Sound

\* r is h after steps of the running callback.
Keeps(h, r, E) ==
    /\ r \in Heaps /\ r.running = h.running
    /\ Sound(r, E) /\ Watches(r) /\ Later(h, r)

\* One step after the other.
LEMMA KeepsKeeps ==
  ASSUME NEW h \in Heaps, NEW x \in Heaps, NEW y \in Heaps, NEW E, Keeps(h, x, E), Keeps(x, y, E)
  PROVE  Keeps(h, y, E)
BY LaterLater DEF Keeps

\* And the flags between them.
LEMMA KeepsAlike ==
  ASSUME NEW h \in Heaps, NEW x \in Heaps, NEW y, NEW E, Keeps(h, x, E), Alike(x, y), y.running = x.running
  PROVE  Keeps(h, y, E)
<1>1. y \in Heaps
  BY DEF Alike
<1> QED BY <1>1, AlikeKeeps DEF Keeps

\* A read is a step that keeps.
LEMMA TrackKeeps ==
  ASSUME NEW h \in Heaps, NEW S \in SUBSET Signals, NEW E, Sound(h, E), Watches(h)
  PROVE  Keeps(h, Track(h, S), E) /\ Track(h, S).vals = h.vals
<1>1. PICK r : r = Track(h, S)
  OBVIOUS
<1>2. Tracked(h, S, r) /\ Forgets(r) /\ Hears(r, E)
  BY <1>1, TrackTracks DEF Sound
<1>3. Queued(r)
  BY <1>2 DEF Sound, Queued, Tracked, Content
<1>4. Watched(r) = Watched(h)
  BY <1>2 DEF Watched, Tracked, Content
<1>5. Watched(h) \subseteq Signals
  BY DEF Watched, Heaps, Pairs
<1>6. Watches(r)
  BY <1>2, <1>4, <1>5, NamesDiffer DEF Watches, Tracked, Names
<1>7. Later(h, r)
  BY <1>2 DEF Later, Tracked, Asks
<1> QED BY <1>1, <1>2, <1>3, <1>6, <1>7 DEF Keeps, Sound, Tracked

\* So is disposing a binding.
LEMMA DisposeKeeps ==
  ASSUME NEW h \in Heaps, NEW e \in Bindings, NEW E, Sound(h, E), Watches(h)
  PROVE  Keeps(h, Dispose(h, e), E) /\ Dispose(h, e).vals = h.vals
<1>1. e \in Effects /\ e # Watch
  BY ReactivityAssumption DEF Effects
<1>2. PICK r : r = Dispose(h, e)
  OBVIOUS
<1>3. Released(h, e, r) /\ Forgets(r) /\ Hears(r, E \ {e})
  BY <1>1, <1>2, DisposeReleases DEF Sound
<1>4. Hears(r, E)
  BY <1>3, HearsMore, E \ {e} \subseteq E
<1>5. Queued(r)
  BY <1>3 DEF Sound, Queued, Released, Content
<1>6. Watched(r) = Watched(h) /\ Watched(h) \subseteq Signals
  BY <1>3 DEF Watched, Released, Content, Heaps, Pairs
<1>7. Watches(r)
  BY <1>1, <1>3, <1>6 DEF Watches, Released
<1>8. Later(h, r)
  BY <1>1, <1>3 DEF Later, Released, Asks
<1> QED BY <1>2, <1>3, <1>4, <1>5, <1>7, <1>8 DEF Keeps, Sound, Released

\* So is every step.
LEMMA StepKeeps ==
  ASSUME NEW h \in Heaps, NEW op \in Ops, NEW E, Sound(h, E), Watches(h), h.running # Watch
  PROVE  Keeps(h, Step(h, op), E)
<1>1. PICK s : s = op[2]
  OBVIOUS
<1>2. CASE h.ended
  <2>1. Step(h, op) = h
    BY <1>2 DEF Step
  <2> QED BY <2>1, LaterSame DEF Keeps
<1>3. CASE ~h.ended /\ op[1] = "dispose"
  <2>1. s \in Bindings /\ Step(h, op) = Dispose(h, s)
    BY <1>1, <1>3 DEF Ops, Step
  <2> QED BY <2>1, DisposeKeeps
<1>4. CASE ~h.ended /\ op[1] # "dispose"
  <2>1. /\ s \in Signals /\ op[3] \in Signals
        /\ op[1] \in {"read", "unless", "throw", "copy", "bump"}
    BY <1>1, <1>4 DEF Ops
  <2>2. PICK r : r = Track(h, {s})
    OBVIOUS
  <2>3. Keeps(h, r, E) /\ r.vals = h.vals
    BY <2>1, <2>2, TrackKeeps
  <2>4. r \in Heaps /\ r.running # Watch /\ Sound(r, E) /\ Watches(r)
    BY <2>3 DEF Keeps
  <2>5. CASE op[1] = "read"
    <3>1. Step(h, op) = r
      BY <1>1, <1>4, <2>2, <2>5 DEF Step
    <3> QED BY <3>1, <2>3
  <2>6. CASE op[1] = "unless"
    <3>1. PICK y : y = [r EXCEPT !.ended = r.vals[s] # 0]
      OBVIOUS
    <3>2. Step(h, op) = y
      BY <1>1, <1>4, <2>2, <2>6, <3>1 DEF Step
    <3>3. Alike(r, y) /\ y.running = r.running
      BY <2>4, <3>1 DEF Alike, Heaps, Content
    <3> QED BY <3>2, <3>3, <2>3, <2>4, KeepsAlike
  <2>7. CASE op[1] = "throw"
    <3>1. PICK y : y = [r EXCEPT !.ended = r.vals[s] # 0, !.threw = r.vals[s] # 0]
      OBVIOUS
    <3>2. Step(h, op) = y
      BY <1>1, <1>4, <2>2, <2>7, <3>1 DEF Step
    <3>3. Alike(r, y) /\ y.running = r.running
      BY <2>4, <3>1 DEF Alike, Heaps, Content
    <3> QED BY <3>2, <3>3, <2>3, <2>4, KeepsAlike
  <2>8. CASE op[1] = "copy"
    <3>1. Step(h, op) = Assign(r, op[3], r.vals[s])
      BY <1>1, <1>4, <2>2, <2>8 DEF Step
    <3>2. r.vals[s] \in Values
      BY <2>1, <2>4 DEF Heaps
    <3>3. Keeps(r, Step(h, op), E)
      BY <2>1, <2>4, <3>1, <3>2, AssignKeeps DEF Keeps
    <3>4. Step(h, op) \in Heaps
      BY <3>3 DEF Keeps
    <3> QED BY <3>3, <3>4, <2>3, <2>4, KeepsKeeps
  <2>9. CASE op[1] = "bump"
    <3>1. PICK v : v = (h.vals[s] + 1) % (MaxValue + 1)
      OBVIOUS
    <3>2. Step(h, op) = Assign(h, s, v)
      BY <1>1, <1>4, <2>9, <3>1 DEF Step
    <3>3. v \in Values
      <4>1. h.vals[s] \in Values /\ MaxValue \in Nat
        BY <2>1, ReactivityAssumption DEF Heaps
      <4>2. PICK a \in Nat, b \in Nat : a = h.vals[s] + 1 /\ b = MaxValue + 1 /\ b > 0
        BY <4>1 DEF Values
      <4>3. a % b \in 0..(b - 1)
        BY <4>2
      <4> QED BY <3>1, <4>1, <4>2, <4>3 DEF Values
    <3> QED BY <2>1, <3>2, <3>3, AssignKeeps DEF Keeps
  <2> QED BY <2>1, <2>5, <2>6, <2>7, <2>8, <2>9
<1> QED BY <1>2, <1>3, <1>4

\* And so is a callback.
LEMMA CallbackKeeps ==
  ASSUME NEW h \in Heaps, NEW ops \in Seq(Ops), NEW E, Sound(h, E), Watches(h), h.running # Watch
  PROVE  Keeps(h, Callback(h, ops), E)
<1>1. PICK g : g = [h EXCEPT !.ended = FALSE, !.threw = FALSE]
  OBVIOUS
<1>2. Alike(h, g) /\ g.running = h.running
  BY <1>1 DEF Alike, Heaps, Content
<1>3. Keeps(h, g, E)
  <2>1. Keeps(h, h, E)
    BY LaterSame DEF Keeps
  <2> QED BY <2>1, <1>2, KeepsAlike
<1>4. Callback(h, ops) = StepAll(g, ops)
  BY <1>1 DEF Callback, StepAll
<1>5. PICK T : T = {p \in Nat \X Heaps : Keeps(h, p[2], E)}
  OBVIOUS
<1>6. \A n \in Nat, x \in Heaps : <<n, x>> \in T <=> Keeps(h, x, E)
  BY <1>5
<1>7. T \in SUBSET (Nat \X Heaps) /\ Len(ops) \in Nat
  BY <1>5
<1>8. <<0, g>> \in T
  BY <1>2, <1>3, <1>6 DEF Alike
<1>9. ASSUME NEW n \in Nat, NEW x \in Heaps, n < Len(ops), <<n, x>> \in T
      PROVE  <<n + 1, Step(x, ops[n + 1])>> \in T
  <2>1. PICK op \in Ops : op = ops[n + 1]
    BY <1>9
  <2>2. Keeps(h, x, E)
    BY <1>6, <1>9
  <2>3. Keeps(x, Step(x, op), E)
    BY <2>2, StepKeeps DEF Keeps
  <2>4. Keeps(h, Step(x, op), E) /\ Step(x, op) \in Heaps
    <3>1. Step(x, op) \in Heaps
      BY <2>3 DEF Keeps
    <3> QED BY <3>1, <2>2, <2>3, KeepsKeeps
  <2> QED BY <2>1, <2>4, <1>6
<1>10. <<Len(ops), StepAll(g, ops)>> \in T
  BY <1>7, <1>8, <1>9, StepTurns
<1>11. StepAll(g, ops) \in Heaps
  BY <1>7, <1>10
<1> QED BY <1>4, <1>6, <1>7, <1>10, <1>11

-----------------------------------------------------------------------------
(* Runs of effects.                                                        *)

\* An effect as its run begins.
Begun(h, e) ==
    [Unsubscribe(h, e) EXCEPT !.pending = Without(@, e), !.running = e,
        !.seen[e] = {}, !.wrote[e] = {}, !.givenUp = @ \ {e}]

Begins(h, e, b) ==
    /\ b \in Heaps /\ Content(b) = Content(h) /\ b.running = e
    /\ b.vals = h.vals /\ b.disposed = h.disposed /\ b.micro = h.micro /\ b.missed = h.missed
    /\ b.threw = h.threw
    /\ \A y : Contains(b.pending, y) <=> Contains(h.pending, y) /\ y # e
    /\ \A s \in Signals : \A y : Contains(b.subs[s], y) <=> Contains(h.subs[s], y) /\ y # e

\* The run of an effect begins without what it knew.
LEMMA BegunBegins ==
  ASSUME NEW h \in Heaps, NEW e \in Effects, Sound(h, {e})
  PROVE  Begins(h, e, Begun(h, e)) /\ Sound(Begun(h, e), {})
<1>1. PICK u : u = [s \in Signals |-> Without(h.subs[s], e)]
  OBVIOUS
<1>2. \A s \in Signals : /\ u[s] \in Seq(Effects)
                         /\ \A y : Contains(u[s], y) <=> Contains(h.subs[s], y) /\ y # e
  BY <1>1, SubsSeq, WithoutHas
<1>3. PICK p : p = Without(h.pending, e)
  OBVIOUS
<1>4. p \in Seq(Effects) /\ \A y : Contains(p, y) <=> Contains(h.pending, y) /\ y # e
  <2>1. h.pending \in Seq(Effects)
    BY DEF Heaps
  <2> QED BY <2>1, <1>3, WithoutHas
<1>5. PICK n : n = [h.seen EXCEPT ![e] = {}]
  OBVIOUS
<1>6. PICK w : w = [h.wrote EXCEPT ![e] = {}]
  OBVIOUS
<1>7. /\ n \in [Effects -> SUBSET Pairs] /\ w \in [Effects -> SUBSET Signals] /\ n[e] = {}
      /\ \A y \in Effects : y # e => n[y] = h.seen[y] /\ w[y] = h.wrote[y]
  BY <1>5, <1>6 DEF Heaps
<1>8. PICK b : b = Begun(h, e)
  OBVIOUS
<1>9. b = [h EXCEPT !.subs = u, !.pending = p, !.running = e, !.seen = n, !.wrote = w,
                    !.givenUp = @ \ {e}]
  BY <1>1, <1>3, <1>5, <1>6, <1>8 DEF Begun, Unsubscribe, Heaps
<1>10. u \in [Signals -> Seq(Effects)]
  BY <1>1, <1>2
<1>11. /\ b \in Heaps /\ Content(b) = Content(h) /\ b.subs = u /\ b.seen = n
       /\ b.vals = h.vals /\ b.disposed = h.disposed /\ b.running = e
       /\ b.pending = p /\ b.micro = h.micro /\ b.missed = h.missed
       /\ b.threw = h.threw /\ b.givenUp = h.givenUp \ {e} /\ b.wrote = w
  BY <1>4, <1>7, <1>9, <1>10 DEF Heaps, Content
<1>12. Begins(h, e, b)
  BY <1>2, <1>4, <1>11 DEF Begins
<1>13. Forgets(b)
  BY <1>2, <1>4, <1>11 DEF Sound, Forgets
<1>14. Queued(b)
  BY <1>4, <1>11 DEF Sound, Queued, Content
<1>15. Hears(b, {})
  <2>1. SUFFICES ASSUME NEW y \in Effects \ (b.disposed \cup b.givenUp), NEW q \in b.seen[y]
                 PROVE  /\ Contains(b.subs[q[1]], y)
                        /\ b.vals[q[1]] = q[2] \/ q[1] \in b.wrote[y] \/ Contains(b.pending, y)
    BY DEF Hears
  <2>2. y # e
    BY <2>1, <1>7, <1>11
  <2>3. y \in Effects \ (h.disposed \cup h.givenUp \cup {e}) /\ q \in h.seen[y] /\ q[1] \in Signals
    BY <2>1, <2>2, <1>7, <1>11 DEF Heaps, Pairs
  <2> QED BY <2>2, <2>3, <1>2, <1>4, <1>7, <1>11 DEF Sound, Hears
<1> QED BY <1>8, <1>12, <1>13, <1>14, <1>15 DEF Sound

\* A disposed effect need not hear of anything.
LEMMA HearsLess ==
  ASSUME NEW h, NEW e \in h.disposed, NEW E, Sound(h, E)
  PROVE  Sound(h, E \ {e})
BY DEF Sound, Hears

\* A run of a binding keeps, disposed or not.
LEMMA RunKeeps ==
  ASSUME NEW h \in Heaps, NEW e \in Bindings, code \in Programs,
         Sound(h, {e}), Watches(h), h.running = None
  PROVE  Keeps(h, Run(h, e), {})
<1>1. e \in Effects /\ e # Watch /\ code[e] \in Seq(Ops)
  BY ReactivityAssumption DEF Effects
<1>2. CASE e \in h.disposed
  <2>1. Run(h, e) = h /\ Sound(h, {})
    BY <1>2, HearsLess, {e} \ {e} = {} DEF Run
  <2> QED BY <2>1, LaterSame DEF Keeps
<1>3. CASE e \notin h.disposed
  <2>1. PICK b : b = Begun(h, e)
    OBVIOUS
  <2>2. Begins(h, e, b) /\ Sound(b, {})
    BY <1>1, <2>1, BegunBegins
  <2>3. b \in Heaps /\ b.running = e
    BY <2>2 DEF Begins
  <2>4. Watched(b) = Watched(h) /\ Watched(h) \subseteq Signals
    BY <2>2 DEF Watched, Begins, Content, Heaps, Pairs
  <2>5. Watches(b)
    BY <1>1, <2>2, <2>4 DEF Watches, Begins
  <2>6. Later(h, b)
    BY <1>1, <2>2 DEF Later, Begins, Asks
  <2>7. PICK ops \in Seq(Ops) : ops = code[e]
    BY <1>1
  <2>8. PICK x : x = Callback(b, ops)
    OBVIOUS
  <2>9. Keeps(b, x, {})
    BY <1>1, <2>2, <2>3, <2>5, <2>8, CallbackKeeps
  <2>10. x \in Heaps /\ Sound(x, {}) /\ Watches(x) /\ Later(h, x)
    BY <2>3, <2>6, <2>9, LaterLater DEF Keeps
  <2>11. PICK r : r = [x EXCEPT !.running = None, !.ended = FALSE]
    OBVIOUS
  <2>12. Alike(x, r) /\ r.running = None
    BY <2>10, <2>11 DEF Alike, Heaps, Content
  <2>13. Run(h, e) = r
    BY <1>1, <1>3, <2>1, <2>7, <2>8, <2>11 DEF Run, Begun
  <2>14. Sound(r, {}) /\ Watches(r) /\ Later(h, r) /\ r \in Heaps
    BY <2>10, <2>12, AlikeKeeps DEF Alike
  <2> QED BY <2>12, <2>13, <2>14 DEF Keeps
<1> QED BY <1>2, <1>3

\* So does its creation, also when its first run throws.
LEMMA CreateKeeps ==
  ASSUME NEW h \in Heaps, NEW e \in Bindings, code \in Programs,
         Sound(h, {}), Watches(h), h.running = None
  PROVE  Keeps(h, Create(h, e), {})
<1>1. e \in Effects /\ e # Watch
  BY ReactivityAssumption DEF Effects
<1>2. CASE h.threw
  BY <1>2, LaterSame DEF Create, Keeps
<1>3. CASE ~h.threw
  <2>1. PICK g : g = [h EXCEPT !.disposed = @ \ {e}]
    OBVIOUS
  <2>2. /\ g \in Heaps /\ Content(g) = Content(h) /\ g.disposed = h.disposed \ {e}
        /\ g.vals = h.vals /\ g.subs = h.subs /\ g.pending = h.pending /\ g.running = h.running
        /\ g.seen = h.seen /\ g.wrote = h.wrote /\ g.givenUp = h.givenUp
        /\ g.micro = h.micro /\ g.missed = h.missed
    BY <2>1 DEF Heaps, Content
  <2>3. Sound(g, {e})
    <3>1. Forgets(g)
      BY <2>2 DEF Sound, Forgets
    <3>2. Hears(g, {e})
      BY <2>2 DEF Sound, Hears
    <3>3. Queued(g)
      BY <2>2 DEF Sound, Queued, Content
    <3> QED BY <3>1, <3>2, <3>3 DEF Sound
  <2>4. Watched(g) = Watched(h)
    BY <2>2 DEF Watched, Content
  <2>5. Watches(g)
    BY <1>1, <2>2, <2>4 DEF Watches
  <2>6. Later(h, g)
    BY <1>1, <2>2 DEF Later, Asks
  <2>7. PICK r : r = Run(g, e)
    OBVIOUS
  <2>8. Keeps(g, r, {})
    BY <2>2, <2>3, <2>5, <2>7, RunKeeps
  <2>9. Keeps(h, r, {}) /\ r \in Heaps
    BY <2>2, <2>6, <2>8, LaterLater DEF Keeps
  <2>10. Create(h, e) = IF r.threw THEN Dispose(r, e) ELSE r
    BY <1>3, <2>1, <2>7 DEF Create
  <2>11. Keeps(r, Dispose(r, e), {})
    BY <2>9, DisposeKeeps DEF Keeps
  <2>12. Keeps(h, Dispose(r, e), {})
    <3>1. Dispose(r, e) \in Heaps
      BY <2>11 DEF Keeps
    <3> QED BY <3>1, <2>9, <2>11, KeepsKeeps
  <2> QED BY <2>9, <2>10, <2>12
<1> QED BY <1>2, <1>3

\* Hydration remembers in `missed` what it changes.
Hydrated(h, r) ==
    /\ r \in Heaps /\ r.running = None /\ Sound(r, {}) /\ Watches(r)
    /\ ~r.inserting
    /\ <<r.flushing, r.shows, r.render, r.subscribing, r.request, r.failed>>
         = <<h.flushing, h.shows, h.render, h.subscribing, h.request, h.failed>>
    /\ Watch \in r.disposed <=> Watch \in h.disposed
    /\ h.missed \subseteq r.missed
    /\ Asks(r) <=> Asks(h)
    /\ \A s \in Signals : r.vals[s] = h.vals[s] \/ s \in r.missed

\* And so does the hydration of content.
LEMMA HydrateHydrates ==
  ASSUME NEW h \in Heaps, NEW bindings \in Seq(Bindings), code \in Programs,
         Sound(h, {}), Watches(h), h.running = None
  PROVE  Hydrated(h, Hydrate(h, bindings))
<1>1. PICK g : g = [h EXCEPT !.inserting = TRUE, !.threw = FALSE]
  OBVIOUS
<1>2. /\ g \in Heaps /\ g.inserting = TRUE /\ g.running = None
      /\ <<g.flushing, g.shows, g.render, g.subscribing, g.request, g.failed>>
           = <<h.flushing, h.shows, h.render, h.subscribing, h.request, h.failed>>
      /\ g.vals = h.vals /\ g.subs = h.subs /\ g.pending = h.pending /\ g.disposed = h.disposed
      /\ g.seen = h.seen /\ g.wrote = h.wrote /\ g.givenUp = h.givenUp
      /\ g.micro = h.micro /\ g.missed = h.missed
  BY <1>1 DEF Heaps
<1>3. Sound(g, {})
  <2>1. Forgets(g)
    BY <1>2 DEF Sound, Forgets
  <2>2. Hears(g, {})
    BY <1>2 DEF Sound, Hears
  <2>3. Queued(g)
    BY <1>2 DEF Sound, Queued
  <2> QED BY <2>1, <2>2, <2>3 DEF Sound
<1>4. Watched(g) = Watched(h)
  BY <1>2 DEF Watched
<1>5. Watches(g)
  BY <1>2, <1>4 DEF Watches
<1>6. PICK T : T = {p \in Nat \X Heaps : Keeps(g, p[2], {})}
  OBVIOUS
<1>7. \A n \in Nat, x \in Heaps : <<n, x>> \in T <=> Keeps(g, x, {})
  BY <1>6
<1>8. T \in SUBSET (Nat \X Heaps) /\ Len(bindings) \in Nat
  BY <1>6
<1>9. <<0, g>> \in T
  BY <1>2, <1>3, <1>5, <1>7, LaterSame DEF Keeps
<1>10. ASSUME NEW n \in Nat, NEW x \in Heaps, n < Len(bindings), <<n, x>> \in T
       PROVE  <<n + 1, Create(x, bindings[n + 1])>> \in T
  <2>1. PICK e \in Bindings : e = bindings[n + 1]
    BY <1>10
  <2>2. Keeps(g, x, {})
    BY <1>7, <1>10
  <2>3. Keeps(x, Create(x, e), {})
    BY <1>2, <2>2, CreateKeeps DEF Keeps
  <2>4. Keeps(g, Create(x, e), {}) /\ Create(x, e) \in Heaps
    <3>1. Create(x, e) \in Heaps
      BY <2>3 DEF Keeps
    <3> QED BY <3>1, <1>2, <2>2, <2>3, KeepsKeeps
  <2> QED BY <2>1, <2>4, <1>7
<1>11. PICK x : x = CreateAll(g, bindings)
  OBVIOUS
<1>12. <<Len(bindings), x>> \in T
  BY <1>8, <1>9, <1>10, <1>11, CreateTurns
<1>13. x \in Heaps /\ Keeps(g, x, {})
  BY <1>7, <1>8, <1>12
<1>14. PICK r : r = [x EXCEPT !.inserting = FALSE]
  OBVIOUS
<1>15. Hydrate(h, bindings) = r
  BY <1>1, <1>11, <1>14 DEF Hydrate, CreateAll
<1>16. /\ r \in Heaps /\ r.inserting = FALSE /\ r.running = x.running
       /\ <<r.flushing, r.shows, r.render, r.subscribing, r.request, r.failed>>
            = <<x.flushing, x.shows, x.render, x.subscribing, x.request, x.failed>>
       /\ r.vals = x.vals /\ r.subs = x.subs /\ r.pending = x.pending /\ r.disposed = x.disposed
       /\ r.seen = x.seen /\ r.wrote = x.wrote /\ r.givenUp = x.givenUp
       /\ r.micro = x.micro /\ r.missed = x.missed
  BY <1>13, <1>14 DEF Heaps
<1>17. Sound(r, {})
  <2>0. Sound(x, {})
    BY <1>13 DEF Keeps
  <2>1. Forgets(r)
    BY <2>0, <1>16 DEF Sound, Forgets
  <2>2. Hears(r, {})
    BY <2>0, <1>16 DEF Sound, Hears
  <2>3. Queued(r)
    BY <2>0, <1>16 DEF Sound, Queued
  <2> QED BY <2>1, <2>2, <2>3 DEF Sound
<1>18. Watched(r) = Watched(x)
  BY <1>16 DEF Watched
<1>19. Watches(r)
  BY <1>13, <1>16, <1>18 DEF Watches, Keeps
<1>20. Later(g, x) /\ x.running = None
  BY <1>2, <1>13 DEF Keeps
<1>21. \A s \in Signals : r.vals[s] = h.vals[s] \/ s \in r.missed
  BY <1>2, <1>16, <1>20 DEF Later
<1>22. /\ Watch \in r.disposed <=> Watch \in h.disposed
       /\ h.missed \subseteq r.missed
       /\ Asks(r) <=> Asks(h)
  BY <1>2, <1>16, <1>20 DEF Later, Asks
<1>23. <<r.flushing, r.shows, r.render, r.subscribing, r.request, r.failed>>
            = <<h.flushing, h.shows, h.render, h.subscribing, h.request, h.failed>>
  BY <1>2, <1>16, <1>20 DEF Later, Content
<1> QED BY <1>15, <1>16, <1>17, <1>19, <1>20, <1>21, <1>22, <1>23 DEF Hydrated

\* The watch effect asks for a render, unless it only subscribes.
WatchRan(h, r) ==
    /\ r \in Heaps /\ r.running = None /\ Sound(r, {}) /\ Watches(r)
    /\ r.vals = h.vals /\ r.missed = h.missed /\ r.disposed = h.disposed /\ r.threw = h.threw
    /\ <<r.flushing, r.shows, r.render, r.inserting, r.subscribing, r.failed>>
         = <<h.flushing, h.shows, h.render, h.inserting, h.subscribing, h.failed>>
    /\ h.subscribing => r.request = h.request /\ r.micro = h.micro
    /\ ~h.subscribing => Asks(r) /\ r.request \in {h.request, NoRequest}

\* A run of the watch effect.
LEMMA WatchRuns ==
  ASSUME NEW h \in Heaps, Sound(h, {Watch}), Watch \notin h.disposed, h.running = None
  PROVE  WatchRan(h, Run(h, Watch))
<1>1. Watch \in Effects /\ Watch # None
  BY NamesDiffer DEF Names
<1>2. PICK b : b = Begun(h, Watch)
  OBVIOUS
<1>3. Begins(h, Watch, b) /\ Sound(b, {})
  BY <1>1, <1>2, BegunBegins
<1>4. b \in Heaps /\ b.running = Watch /\ b.disposed = h.disposed
  BY <1>3 DEF Begins
<1>5. Watched(b) = Watched(h) /\ Watched(h) \in SUBSET Signals
  BY <1>3 DEF Watched, Begins, Content, Heaps, Pairs
<1>6. PICK t : t = Track(b, Watched(b))
  OBVIOUS
<1>7. Tracked(b, Watched(b), t) /\ Forgets(t) /\ Hears(t, {})
  BY <1>3, <1>4, <1>5, <1>6, TrackTracks DEF Sound
<1>8. t \in Heaps /\ Content(t) = Content(h) /\ t.vals = h.vals /\ t.disposed = h.disposed
      /\ t.micro = h.micro /\ t.missed = h.missed /\ t.threw = h.threw
      /\ \A s \in Watched(h) : Contains(t.subs[s], Watch)
  BY <1>1, <1>3, <1>4, <1>5, <1>7 DEF Tracked, Begins
<1>9. Queued(t)
  BY <1>3, <1>7 DEF Sound, Queued, Tracked, Content
<1>10. PICK m : m = IF t.subscribing \/ Contains(t.micro, "refresh") THEN t.micro
                    ELSE Append(t.micro, "refresh")
  OBVIOUS
<1>11. PICK q : q = IF t.subscribing \/ Contains(t.micro, "refresh") THEN t.request ELSE NoRequest
  OBVIOUS
<1>12. /\ m \in Seq({"flush", "refresh"})
       /\ Contains(t.micro, "flush") => Contains(m, "flush")
       /\ ~t.subscribing => Contains(m, "refresh")
       /\ t.subscribing => m = t.micro /\ q = t.request
  <2>1. PICK A : A = {"flush", "refresh"}
    OBVIOUS
  <2>2. t.micro \in Seq(A) /\ "refresh" \in A
    BY <1>8, <2>1 DEF Heaps
  <2>3. /\ Append(t.micro, "refresh") \in Seq(A)
        /\ \A y : Contains(Append(t.micro, "refresh"), y) <=> Contains(t.micro, y) \/ y = "refresh"
    BY <2>2, Appended
  <2> QED BY <2>1, <2>2, <2>3, <1>10, <1>11
<1>13. NoRequest \in [values : [Signals -> Values], frames : Seq({"page", "region"})]
  <2>1. InitialValues \in [Signals -> Values]
    BY ReactivityAssumption DEF InitialValues, Values
  <2>2. <<>> \in Seq({"page", "region"})
    OBVIOUS
  <2> QED BY <2>1, <2>2 DEF NoRequest
<1>14. PICK r : r = [t EXCEPT !.request = q, !.micro = m, !.running = None, !.ended = FALSE]
  OBVIOUS
<1>15. /\ r \in Heaps /\ r.request = q /\ r.micro = m /\ r.running = None
       /\ r.vals = t.vals /\ r.subs = t.subs /\ r.pending = t.pending /\ r.disposed = t.disposed
       /\ r.seen = t.seen /\ r.wrote = t.wrote /\ r.givenUp = t.givenUp /\ r.missed = t.missed
       /\ r.threw = t.threw
       /\ <<r.flushing, r.shows, r.render, r.inserting, r.subscribing, r.failed>>
            = <<t.flushing, t.shows, t.render, t.inserting, t.subscribing, t.failed>>
  <2>1. q \in [values : [Signals -> Values], frames : Seq({"page", "region"})]
    BY <1>8, <1>11, <1>13 DEF Heaps
  <2> QED BY <2>1, <1>8, <1>12, <1>14 DEF Heaps
<1>16. Run(h, Watch) = r
  <2>1. Run(h, Watch) = [Ask(t) EXCEPT !.running = None, !.ended = FALSE]
    BY <1>2, <1>6 DEF Run, Begun, WatchCallback
  <2>2. CASE t.subscribing \/ Contains(t.micro, "refresh")
    <3>1. Ask(t) = t /\ q = t.request /\ m = t.micro
      BY <2>2, <1>10, <1>11 DEF Ask
    <3>2. PICK f : f = [t EXCEPT !.running = None, !.ended = FALSE]
      OBVIOUS
    <3>3. f \in Heaps /\ f.request = q /\ f.micro = m
      BY <3>1, <3>2, <1>8 DEF Heaps
    <3>4. r = [f EXCEPT !.request = q, !.micro = m]
      BY <3>2, <1>8, <1>14 DEF Heaps
    <3>5. r = f
      BY <3>3, <3>4 DEF Heaps
    <3> QED BY <3>1, <3>2, <3>5, <2>1
  <2>3. CASE ~(t.subscribing \/ Contains(t.micro, "refresh"))
    BY <2>1, <2>3, <1>8, <1>10, <1>11, <1>14 DEF Ask, Heaps
  <2> QED BY <2>2, <2>3
<1>17. Sound(r, {})
  <2>1. Forgets(r)
    BY <1>7, <1>15 DEF Forgets
  <2>2. Hears(r, {})
    BY <1>7, <1>15 DEF Hears
  <2>3. Queued(r)
    BY <1>9, <1>12, <1>15 DEF Queued
  <2> QED BY <2>1, <2>2, <2>3 DEF Sound
<1>18. Watched(r) = Watched(h)
  BY <1>8, <1>15 DEF Watched, Content
<1>19. Watches(r)
  BY <1>8, <1>15, <1>18 DEF Watches
<1>20. /\ h.subscribing => r.request = h.request /\ r.micro = h.micro
       /\ ~h.subscribing => Asks(r) /\ r.request \in {h.request, NoRequest}
  BY <1>8, <1>11, <1>12, <1>15 DEF Content, Asks
<1>21. <<r.flushing, r.shows, r.render, r.inserting, r.subscribing, r.failed>>
         = <<h.flushing, h.shows, h.render, h.inserting, h.subscribing, h.failed>>
  BY <1>8, <1>15 DEF Content
<1> QED BY <1>8, <1>15, <1>16, <1>17, <1>19, <1>20, <1>21 DEF WatchRan

-----------------------------------------------------------------------------
(* What replaces the content.                                              *)

\* A heap between two tasks or microtasks.
Rests(h) ==
    /\ h \in Heaps /\ h.running = None /\ ~h.inserting /\ ~h.subscribing
    /\ Sound(h, {}) /\ Watches(h)

\* r is h with new content: what changed on the way is in `missed`.
Renewed(h, r) ==
    /\ Rests(r)
    /\ r.flushing = h.flushing /\ r.render = h.render
    /\ h.missed \subseteq r.missed
    /\ Asks(r) <=> Asks(h)
    /\ \A s \in Signals : r.vals[s] = h.vals[s] \/ s \in r.missed

Replaced(h, values, r) ==
    /\ Renewed(h, r)
    /\ \/ r.failed /\ r.request = NoRequest
       \/ /\ Watch \notin r.disposed /\ r.request = h.request
          /\ r.shows.page = Rendered(PageReads(values), values) /\ r.shows.region = {}

Swapped(h, values, r) ==
    /\ Renewed(h, r) /\ (Watch \in r.disposed <=> Watch \in h.disposed)
    /\ r.shows.page = h.shows.page
    /\ \/ r.failed /\ r.request = NoRequest
       \/ /\ r.request = h.request /\ r.failed = h.failed
          /\ r.shows.region = Rendered(RegionReads(values), values)

NoContent == [page |-> {}, region |-> {}]

\* The absence of a request has the type of one.
LEMMA NoRequestType == NoRequest \in [values : [Signals -> Values], frames : Seq({"page", "region"})]
<1>1. InitialValues \in [Signals -> Values]
  BY ReactivityAssumption DEF InitialValues, Values
<1>2. <<>> \in Seq({"page", "region"})
  OBVIOUS
<1> QED BY <1>1, <1>2 DEF NoRequest

\* A request that ends leaves a sound graph.
LEMMA BrokenRests ==
  ASSUME NEW h, Rests(h)
  PROVE  /\ Rests(Broken(h)) /\ Broken(h).failed /\ Broken(h).request = NoRequest
         /\ <<Broken(h).flushing, Broken(h).render, Broken(h).missed, Broken(h).vals,
              Broken(h).disposed, Broken(h).shows, Broken(h).micro, Broken(h).pending>>
              = <<h.flushing, h.render, h.missed, h.vals, h.disposed, h.shows, h.micro, h.pending>>
<1>1. PICK r : r = Broken(h)
  OBVIOUS
<1>2. h \in Heaps
  BY DEF Rests
<1>3. /\ r \in Heaps /\ r.request = NoRequest /\ r.failed
      /\ r.vals = h.vals /\ r.subs = h.subs /\ r.pending = h.pending /\ r.disposed = h.disposed
      /\ r.running = h.running /\ r.seen = h.seen /\ r.wrote = h.wrote /\ r.givenUp = h.givenUp
      /\ r.micro = h.micro /\ r.missed = h.missed
      /\ <<r.flushing, r.shows, r.render, r.inserting, r.subscribing>>
           = <<h.flushing, h.shows, h.render, h.inserting, h.subscribing>>
  BY <1>1, <1>2, NoRequestType DEF Broken, Heaps
<1>4. Sound(r, {})
  <2>1. Forgets(r)
    BY <1>3 DEF Rests, Sound, Forgets
  <2>2. Hears(r, {})
    BY <1>3 DEF Rests, Sound, Hears
  <2>3. Queued(r)
    BY <1>3 DEF Rests, Sound, Queued
  <2> QED BY <2>1, <2>2, <2>3 DEF Sound
<1>5. Watched(r) = Watched(h)
  BY <1>3 DEF Watched
<1>6. Watches(r)
  BY <1>3, <1>5 DEF Rests, Watches
<1> QED BY <1>1, <1>3, <1>4, <1>6 DEF Rests

\* A page frame, and the document at the start.
LEMMA ReplaceReplaces ==
  ASSUME NEW h, h \in Heaps, h.running = None, ~h.subscribing, Sound(h, {}), code \in Programs,
         NEW values \in [Signals -> Values]
  PROVE  Replaced(h, values, Replace(h, values))
<1>1. PICK g : g = [h EXCEPT !.shows = NoContent]
  OBVIOUS
<1>2. /\ g \in Heaps /\ g.shows = NoContent
      /\ g.vals = h.vals /\ g.subs = h.subs /\ g.pending = h.pending /\ g.disposed = h.disposed
      /\ g.running = None /\ g.seen = h.seen /\ g.wrote = h.wrote /\ g.givenUp = h.givenUp
      /\ g.micro = h.micro /\ g.missed = h.missed
      /\ <<g.flushing, g.render, g.inserting, g.subscribing, g.request, g.failed>>
           = <<h.flushing, h.render, h.inserting, h.subscribing, h.request, h.failed>>
  BY <1>1 DEF Heaps, NoContent
<1>3. Sound(g, {})
  <2>1. Forgets(g)
    BY <1>2 DEF Sound, Forgets
  <2>2. Hears(g, {})
    BY <1>2 DEF Sound, Hears
  <2>3. Queued(g)
    BY <1>2 DEF Sound, Queued
  <2> QED BY <2>1, <2>2, <2>3 DEF Sound
<1>4. PICK all : all = PageBindings \o RegionBindings \o <<Watch>>
  OBVIOUS
<1>5. all \in Seq(Effects) /\ Len(all) \in Nat /\ Len(all) >= 1 /\ all[Len(all)] = Watch
  <2>1. PageBindings \in Seq(Effects) /\ RegionBindings \in Seq(Effects) /\ Watch \in Effects
    <3>1. Bindings \subseteq Effects /\ Watch \in Effects
      BY NamesDiffer DEF Names
    <3> QED BY <3>1, ReactivityAssumption
  <2>2. PICK both \in Seq(Effects) : both = PageBindings \o RegionBindings
    <3>1. PICK p \in Seq(Effects), q \in Seq(Effects) : p = PageBindings /\ q = RegionBindings
      BY <2>1
    <3>2. p \o q \in Seq(Effects)
      OBVIOUS
    <3> QED BY <3>1, <3>2
  <2>3. all = Append(both, Watch)
    BY <2>1, <2>2, <1>4
  <2> QED BY <2>1, <2>2, <2>3
<1> DEFINE Holds(n, x) ==
        /\ Content(x) = Content(g) /\ x.vals = h.vals /\ x.missed = h.missed
        /\ x.micro = h.micro /\ x.running = None /\ Sound(x, {})
        /\ n = Len(all) => Watch \in x.disposed
<1>6. PICK T : T = {p \in Nat \X Heaps : Holds(p[1], p[2])}
  OBVIOUS
<1>7. \A n \in Nat, x \in Heaps : <<n, x>> \in T <=> Holds(n, x)
  BY <1>6
<1>8. T \in SUBSET (Nat \X Heaps)
  BY <1>6
<1>9. <<0, g>> \in T
  BY <1>2, <1>3, <1>5, <1>7
<1>10. ASSUME NEW n \in Nat, NEW x \in Heaps, n < Len(all), <<n, x>> \in T
       PROVE  <<n + 1, Dispose(x, all[n + 1])>> \in T
  <2>1. PICK e \in Effects : e = all[n + 1]
    BY <1>5, <1>10
  <2>2. Holds(n, x)
    BY <1>7, <1>10
  <2>3. PICK y : y = Dispose(x, e)
    OBVIOUS
  <2>4. Released(x, e, y) /\ Forgets(y) /\ Hears(y, {} \ {e})
    BY <2>2, <2>3, DisposeReleases DEF Sound
  <2>5. Hears(y, {})
    BY <2>4, {} \ {e} = {}
  <2>6. Queued(y)
    BY <2>2, <2>4 DEF Sound, Queued, Released, Content
  <2>7. n + 1 = Len(all) => Watch \in y.disposed
    BY <1>5, <2>1, <2>4 DEF Released
  <2>8. Holds(n + 1, y) /\ y \in Heaps
    BY <2>2, <2>4, <2>5, <2>6, <2>7 DEF Released, Sound
  <2> HIDE DEF Holds
  <2> QED BY <2>1, <2>3, <2>8, <1>7
<1>11. PICK x : x = DisposeAll(g, all)
  OBVIOUS
<1>12. <<Len(all), x>> \in T
  <2> HIDE DEF Holds
  <2> QED BY <1>5, <1>8, <1>9, <1>10, <1>11, DisposeTurns
<1>13. x \in Heaps /\ Holds(Len(all), x)
  BY <1>5, <1>7, <1>8, <1>12
<1>14. Watches(x)
  BY <1>13 DEF Watches
<1>15. PICK i : i = Hydrate(x, PageBindings)
  OBVIOUS
<1>16. Hydrated(x, i)
  BY <1>13, <1>14, <1>15, ReactivityAssumption, HydrateHydrates
<1>17. /\ i \in Heaps /\ Rests(i) /\ Watch \in i.disposed
       /\ <<i.flushing, i.render, i.request>> = <<h.flushing, h.render, h.request>>
       /\ i.shows = NoContent
       /\ h.missed \subseteq i.missed /\ (Asks(i) <=> Asks(h))
       /\ \A s \in Signals : i.vals[s] = h.vals[s] \/ s \in i.missed
  BY <1>2, <1>13, <1>16 DEF Hydrated, Rests, Content, Asks
<1>18. CASE i.threw
  <2>1. Replace(h, values) = Broken(i)
    BY <1>1, <1>4, <1>11, <1>15, <1>18 DEF Replace, DisposeAll, NoContent
  <2> QED BY <2>1, <1>17, BrokenRests DEF Replaced, Renewed, Asks
<1>19. CASE ~i.threw
  <2>1. PICK w : w = [i EXCEPT !.shows = [page |-> Rendered(PageReads(values), values), region |-> {}],
                               !.subscribing = TRUE, !.disposed = @ \ {Watch}]
    OBVIOUS
  <2>2. Rendered(PageReads(values), values) \in SUBSET Pairs
    BY ReactivityAssumption DEF Rendered, Pairs, Values
  <2>3. /\ w \in Heaps /\ w.shows = [page |-> Rendered(PageReads(values), values), region |-> {}]
        /\ w.subscribing = TRUE /\ w.disposed = i.disposed \ {Watch} /\ w.threw = FALSE
        /\ w.vals = i.vals /\ w.subs = i.subs /\ w.pending = i.pending
        /\ w.running = i.running /\ w.seen = i.seen /\ w.wrote = i.wrote /\ w.givenUp = i.givenUp
        /\ w.micro = i.micro /\ w.missed = i.missed
        /\ <<w.flushing, w.render, w.inserting, w.request, w.failed>>
             = <<i.flushing, i.render, i.inserting, i.request, i.failed>>
    BY <2>1, <2>2, <1>17, <1>19 DEF Heaps
  <2>4. Sound(w, {Watch})
    <3>1. Forgets(w)
      BY <2>3, <1>17 DEF Rests, Sound, Forgets
    <3>2. Hears(w, {Watch})
      BY <2>3, <1>17 DEF Rests, Sound, Hears
    <3>3. Queued(w)
      BY <2>3, <1>17 DEF Rests, Sound, Queued
    <3> QED BY <3>1, <3>2, <3>3 DEF Sound
  <2>5. PICK y : y = Run(w, Watch)
    OBVIOUS
  <2>6. WatchRan(w, y)
    BY <2>3, <2>4, <2>5, <1>17, WatchRuns DEF Rests
  <2>7. PICK r : r = [y EXCEPT !.subscribing = FALSE]
    OBVIOUS
  <2>8. Replace(h, values) = r
    <3>1. PICK v : v = [i EXCEPT !.shows.page = Rendered(PageReads(values), values), !.subscribing = TRUE]
      OBVIOUS
    <3>2. Replace(h, values) = [Create(v, Watch) EXCEPT !.subscribing = FALSE]
      BY <3>1, <1>1, <1>4, <1>11, <1>15, <1>19 DEF Replace, DisposeAll, NoContent
    <3>3. ~v.threw /\ w = [v EXCEPT !.disposed = @ \ {Watch}]
      <4>1. PICK z : z = [page |-> Rendered(PageReads(values), values), region |-> {}]
        OBVIOUS
      <4>2. [i.shows EXCEPT !.page = Rendered(PageReads(values), values)] = z
        BY <4>1, <1>17 DEF NoContent
      <4>3. v = [i EXCEPT !.shows = z, !.subscribing = TRUE]
        BY <3>1, <4>2, <1>17 DEF Heaps
      <4>4. w = [i EXCEPT !.shows = z, !.subscribing = TRUE, !.disposed = @ \ {Watch}]
        BY <2>1, <4>1
      <4> QED BY <4>3, <4>4, <1>17, <1>19 DEF Heaps
    <3>4. Create(v, Watch) = y
      BY <3>3, <2>3, <2>5, <2>6 DEF Create, WatchRan
    <3> QED BY <3>2, <3>4, <2>7
  <2>9. /\ r \in Heaps /\ r.subscribing = FALSE
        /\ r.vals = y.vals /\ r.subs = y.subs /\ r.pending = y.pending /\ r.disposed = y.disposed
        /\ r.running = y.running /\ r.seen = y.seen /\ r.wrote = y.wrote /\ r.givenUp = y.givenUp
        /\ r.micro = y.micro /\ r.missed = y.missed
        /\ <<r.flushing, r.shows, r.render, r.inserting, r.request, r.failed>>
             = <<y.flushing, y.shows, y.render, y.inserting, y.request, y.failed>>
    BY <2>6, <2>7 DEF Heaps, WatchRan
  <2>10. Sound(r, {})
    <3>1. Forgets(r)
      BY <2>6, <2>9 DEF WatchRan, Sound, Forgets
    <3>2. Hears(r, {})
      BY <2>6, <2>9 DEF WatchRan, Sound, Hears
    <3>3. Queued(r)
      BY <2>6, <2>9 DEF WatchRan, Sound, Queued
    <3> QED BY <3>1, <3>2, <3>3 DEF Sound
  <2>11. Watched(r) = Watched(y)
    BY <2>9 DEF Watched
  <2>12. Watches(r)
    BY <2>6, <2>9, <2>11 DEF WatchRan, Watches
  <2>13. Rests(r)
    BY <2>3, <2>6, <2>9, <2>10, <2>12, <1>17 DEF Rests, WatchRan
  <2>14. Renewed(h, r)
    BY <2>3, <2>6, <2>9, <2>13, <1>17 DEF Renewed, WatchRan, Asks
  <2>15. /\ Watch \notin r.disposed /\ r.request = h.request
         /\ r.shows.page = Rendered(PageReads(values), values) /\ r.shows.region = {}
    BY <2>3, <2>6, <2>9, <1>17 DEF WatchRan
  <2> QED BY <2>8, <2>14, <2>15 DEF Replaced
<1> QED BY <1>18, <1>19

\* A region frame, and a late region of the document.
LEMMA SwapSwaps ==
  ASSUME NEW h, Rests(h), code \in Programs, NEW values \in [Signals -> Values]
  PROVE  Swapped(h, values, Swap(h, values))
<1>0. h \in Heaps
  BY DEF Rests
<1>1. PICK g : g = [h EXCEPT !.shows.region = {}]
  OBVIOUS
<1>2. /\ g \in Heaps /\ g.shows.page = h.shows.page /\ g.shows.region = {}
      /\ g.vals = h.vals /\ g.subs = h.subs /\ g.pending = h.pending /\ g.disposed = h.disposed
      /\ g.running = None /\ g.seen = h.seen /\ g.wrote = h.wrote /\ g.givenUp = h.givenUp
      /\ g.micro = h.micro /\ g.missed = h.missed
      /\ <<g.flushing, g.render, g.inserting, g.subscribing, g.request, g.failed>>
           = <<h.flushing, h.render, h.inserting, h.subscribing, h.request, h.failed>>
  BY <1>0, <1>1 DEF Heaps, Rests
<1>3. Sound(g, {})
  <2>1. Forgets(g)
    BY <1>2 DEF Rests, Sound, Forgets
  <2>2. Hears(g, {})
    BY <1>2 DEF Rests, Sound, Hears
  <2>3. Queued(g)
    BY <1>2 DEF Rests, Sound, Queued
  <2> QED BY <2>1, <2>2, <2>3 DEF Sound
<1>4. Watched(g) \subseteq Watched(h)
  BY <1>2 DEF Watched
<1>5. Watches(g)
  BY <1>2, <1>4 DEF Rests, Watches
<1>6. PICK T : T = {p \in Nat \X Heaps : Keeps(g, p[2], {}) /\ p[2].vals = h.vals}
  OBVIOUS
<1>7. \A n \in Nat, x \in Heaps : <<n, x>> \in T <=> Keeps(g, x, {}) /\ x.vals = h.vals
  BY <1>6
<1>8. PICK all \in Seq(Bindings) : all = RegionBindings
  BY ReactivityAssumption
<1>9. T \in SUBSET (Nat \X Heaps) /\ Len(all) \in Nat
  BY <1>6
<1>10. <<0, g>> \in T
  BY <1>2, <1>3, <1>5, <1>7, LaterSame DEF Keeps
<1>11. ASSUME NEW n \in Nat, NEW x \in Heaps, n < Len(all), <<n, x>> \in T
       PROVE  <<n + 1, Dispose(x, all[n + 1])>> \in T
  <2>1. PICK e \in Bindings : e = all[n + 1]
    BY <1>11
  <2>2. Keeps(g, x, {}) /\ x.vals = h.vals
    BY <1>7, <1>11
  <2>3. Keeps(x, Dispose(x, e), {}) /\ Dispose(x, e).vals = x.vals
    BY <2>2, DisposeKeeps DEF Keeps
  <2>4. Keeps(g, Dispose(x, e), {}) /\ Dispose(x, e) \in Heaps
    <3>1. Dispose(x, e) \in Heaps
      BY <2>3 DEF Keeps
    <3> QED BY <3>1, <1>2, <2>2, <2>3, KeepsKeeps
  <2> QED BY <2>1, <2>2, <2>3, <2>4, <1>7
<1>12. PICK x : x = DisposeAll(g, all)
  OBVIOUS
<1>13. <<Len(all), x>> \in T
  BY <1>9, <1>10, <1>11, <1>12, DisposeTurns
<1>14. x \in Heaps /\ Keeps(g, x, {}) /\ x.running = None /\ x.vals = h.vals
  <2>1. x \in Heaps /\ Keeps(g, x, {}) /\ x.vals = h.vals
    BY <1>7, <1>9, <1>13
  <2> QED BY <2>1, <1>2 DEF Keeps
<1>15. PICK i : i = Hydrate(x, all)
  OBVIOUS
<1>16. Hydrated(x, i)
  BY <1>14, <1>15, HydrateHydrates DEF Keeps
<1>17. /\ i \in Heaps /\ Rests(i) /\ (Watch \in i.disposed <=> Watch \in h.disposed)
       /\ <<i.flushing, i.render, i.request, i.failed>> = <<h.flushing, h.render, h.request, h.failed>>
       /\ i.shows = g.shows
       /\ h.missed \subseteq i.missed /\ (Asks(i) <=> Asks(h))
  BY <1>2, <1>14, <1>16 DEF Hydrated, Rests, Content, Keeps, Later, Asks
<1>18. \A s \in Signals : i.vals[s] = h.vals[s] \/ s \in i.missed
  BY <1>14, <1>16 DEF Hydrated
<1>19. CASE i.threw
  <2>1. Swap(h, values) = Broken(i)
    BY <1>1, <1>8, <1>12, <1>15, <1>19 DEF Swap, DisposeAll
  <2> QED BY <2>1, <1>2, <1>17, <1>18, BrokenRests DEF Swapped, Renewed, Asks
<1>20. CASE ~i.threw
  <2>1. PICK w : w = [i EXCEPT !.shows.region = Rendered(RegionReads(values), values), !.subscribing = TRUE]
    OBVIOUS
  <2>2. Rendered(RegionReads(values), values) \in SUBSET Pairs
    <3>1. RegionReads(values) \subseteq Signals
      BY ReactivityAssumption DEF Values
    <3> QED BY <3>1 DEF Rendered, Pairs
  <2>3. /\ w \in Heaps /\ w.shows.page = h.shows.page
        /\ w.shows.region = Rendered(RegionReads(values), values)
        /\ w.subscribing = TRUE /\ w.disposed = i.disposed
        /\ w.vals = i.vals /\ w.subs = i.subs /\ w.pending = i.pending
        /\ w.running = None /\ w.seen = i.seen /\ w.wrote = i.wrote /\ w.givenUp = i.givenUp
        /\ w.micro = i.micro /\ w.missed = i.missed
        /\ <<w.flushing, w.render, w.inserting, w.request, w.failed>>
             = <<i.flushing, i.render, i.inserting, i.request, i.failed>>
    BY <2>1, <2>2, <1>2, <1>17 DEF Heaps, Rests
  <2>4. Sound(w, {})
    <3>1. Forgets(w)
      BY <2>3, <1>17 DEF Rests, Sound, Forgets
    <3>2. Hears(w, {})
      BY <2>3, <1>17 DEF Rests, Sound, Hears
    <3>3. Queued(w)
      BY <2>3, <1>17 DEF Rests, Sound, Queued
    <3> QED BY <3>1, <3>2, <3>3 DEF Sound
  <2>5. PICK y : y = Run(w, Watch)
    OBVIOUS
  <2>6. /\ y \in Heaps /\ y.running = None /\ Sound(y, {}) /\ Watches(y)
        /\ y.vals = w.vals /\ y.missed = w.missed /\ y.disposed = w.disposed
        /\ <<y.flushing, y.shows, y.render, y.inserting, y.failed>>
             = <<w.flushing, w.shows, w.render, w.inserting, w.failed>>
        /\ y.request = w.request /\ y.micro = w.micro
    <3>1. CASE Watch \in w.disposed
      BY <3>1, <2>3, <2>4, <2>5 DEF Run, Watches
    <3>2. CASE Watch \notin w.disposed
      <4>1. Sound(w, {Watch})
        BY <2>4, HearsMore, {} \subseteq {Watch} DEF Sound
      <4>2. WatchRan(w, y)
        BY <3>2, <4>1, <2>3, <2>5, WatchRuns
      <4> QED BY <4>2, <2>3 DEF WatchRan
    <3> QED BY <3>1, <3>2
  <2>7. PICK r : r = [y EXCEPT !.subscribing = FALSE]
    OBVIOUS
  <2>8. Swap(h, values) = r
    BY <1>1, <1>8, <1>12, <1>15, <1>20, <2>1, <2>5, <2>7 DEF Swap, DisposeAll
  <2>9. /\ r \in Heaps /\ r.subscribing = FALSE
        /\ r.vals = y.vals /\ r.subs = y.subs /\ r.pending = y.pending /\ r.disposed = y.disposed
        /\ r.running = y.running /\ r.seen = y.seen /\ r.wrote = y.wrote /\ r.givenUp = y.givenUp
        /\ r.micro = y.micro /\ r.missed = y.missed
        /\ <<r.flushing, r.shows, r.render, r.inserting, r.request, r.failed>>
             = <<y.flushing, y.shows, y.render, y.inserting, y.request, y.failed>>
    BY <2>6, <2>7 DEF Heaps
  <2>10. Sound(r, {})
    <3>1. Forgets(r)
      BY <2>6, <2>9 DEF Sound, Forgets
    <3>2. Hears(r, {})
      BY <2>6, <2>9 DEF Sound, Hears
    <3>3. Queued(r)
      BY <2>6, <2>9 DEF Sound, Queued
    <3> QED BY <3>1, <3>2, <3>3 DEF Sound
  <2>11. Watched(r) = Watched(y)
    BY <2>9 DEF Watched
  <2>12. Watches(r)
    BY <2>6, <2>9, <2>11 DEF Watches
  <2>13. Rests(r)
    BY <2>3, <2>6, <2>9, <2>10, <2>12, <1>17 DEF Rests
  <2>14. Renewed(h, r)
    BY <2>3, <2>6, <2>9, <2>13, <1>17, <1>18 DEF Renewed, Asks
  <2>15. /\ r.shows.page = h.shows.page /\ r.request = h.request /\ r.failed = h.failed
         /\ r.shows.region = Rendered(RegionReads(values), values)
         /\ Watch \in r.disposed <=> Watch \in h.disposed
    BY <2>3, <2>6, <2>9, <1>17
  <2> QED BY <2>8, <2>14, <2>15 DEF Swapped
<1> QED BY <1>19, <1>20

-----------------------------------------------------------------------------
(* The invariant.                                                          *)

Coming(h) == Asks(h) \/ Contains(h.pending, Watch) \/ h.request # NoRequest \/ h.failed

\* A page without its watch effect is one whose content broke.
Owned(h) == Watch \in h.disposed => h.failed /\ h.request = NoRequest /\ ~Asks(h)

\* What is shown was rendered with the values of now, or else it is known why not.
Current(h) == \A p \in h.shows.page \cup h.shows.region :
    h.vals[p[1]] = p[2] \/ p[1] \in h.missed \/ Coming(h)

\* So will be what is under way.
Answers(h) ==
    /\ h.request # NoRequest =>
          /\ h.request.frames \in {<<"page", "region">>, <<"region">>}
          /\ \A s \in Signals : \/ h.request.values[s] = h.vals[s] \/ s \in h.missed
                                \/ Asks(h) \/ Contains(h.pending, Watch)
    /\ h.request.frames = <<"region">> =>
          /\ h.render = "request"
          /\ \A p \in h.shows.page : p[2] = h.request.values[p[1]]

\* And what the document has yet to stream.
Streams(h) == h.render = "document" =>
    \A s \in Signals : h.vals[s] = InitialValues[s] \/ s \in h.missed \/ Coming(h)

Promises(h) == Owned(h) /\ Current(h) /\ Answers(h) /\ Streams(h)

\* An effect is given up only after it ran: the watch effect has asked by then.
AskedByThen == heap.flushing /\ runs[Watch] >= 1 => Asks(heap)

Inv == /\ code \in Programs /\ runs \in [Effects -> Nat] /\ late \in BOOLEAN
       /\ Rests(heap) /\ Promises(heap) /\ AskedByThen

\* Steps of a callback keep the promises.
LEMMA LaterPromises ==
  ASSUME NEW h \in Heaps, NEW r \in Heaps, Promises(h), Later(h, r)
  PROVE  Promises(r)
<1>1. Coming(h) => Coming(r)
  BY DEF Coming, Later, Content
<1>2. \A s \in Signals : r.vals[s] = h.vals[s] \/ s \in r.missed \/ Contains(r.pending, Watch) \/ Watch \in h.disposed
  BY DEF Later
<1>3. Watch \in h.disposed => h.failed /\ h.request = NoRequest
  BY DEF Promises, Owned
<1>4. <<r.flushing, r.shows, r.render, r.request, r.failed>> = <<h.flushing, h.shows, h.render, h.request, h.failed>>
      /\ h.missed \subseteq r.missed /\ (Asks(r) <=> Asks(h))
      /\ (Contains(h.pending, Watch) => Contains(r.pending, Watch))
      /\ (Watch \in r.disposed <=> Watch \in h.disposed)
  BY DEF Later, Content
<1>5. Owned(r)
  BY <1>4 DEF Promises, Owned
<1>6. Current(r)
  <2>1. SUFFICES ASSUME NEW p \in r.shows.page \cup r.shows.region
                 PROVE  r.vals[p[1]] = p[2] \/ p[1] \in r.missed \/ Coming(r)
    BY DEF Current
  <2>2. p[1] \in Signals
    BY DEF Heaps, Pairs
  <2>3. h.vals[p[1]] = p[2] \/ p[1] \in h.missed \/ Coming(h)
    BY <2>1, <1>4 DEF Promises, Current
  <2>4. Contains(r.pending, Watch) \/ Watch \in h.disposed => Coming(r)
    BY <1>3, <1>4 DEF Coming
  <2> QED BY <2>2, <2>3, <2>4, <1>1, <1>2, <1>4
<1>7. Answers(r)
  BY <1>2, <1>3, <1>4 DEF Promises, Answers
<1>8. Streams(r)
  <2>1. Contains(r.pending, Watch) \/ Watch \in h.disposed => Coming(r)
    BY <1>3, <1>4 DEF Coming
  <2> QED BY <2>1, <1>1, <1>2, <1>4 DEF Promises, Streams
<1> QED BY <1>5, <1>6, <1>7, <1>8 DEF Promises

\* Nothing is to come of an idle page but the answer of its request.
LEMMA IdleQuiet ==
  ASSUME NEW h \in Heaps, Queued(h), h.micro = <<>>, ~h.flushing
  PROVE  ~Asks(h) /\ \A e \in Effects : ~Contains(h.pending, e)
BY EmptyHas DEF Queued, Asks

\* The document as it is hydrated.
LEMMA InitInv == Init => Inv
<1> SUFFICES ASSUME Init PROVE Inv
  OBVIOUS
<1>1. Blank \in Heaps /\ InitialValues \in [Signals -> Values]
  <2>1. InitialValues \in [Signals -> Values]
    BY ReactivityAssumption DEF InitialValues, Values
  <2>2. /\ [s \in Signals |-> <<>>] \in [Signals -> Seq(Effects)]
        /\ <<>> \in Seq(Effects) /\ <<>> \in Seq({"flush", "refresh"})
        /\ [e \in Effects |-> {}] \in [Effects -> SUBSET Pairs]
        /\ [e \in Effects |-> {}] \in [Effects -> SUBSET Signals]
    OBVIOUS
  <2> QED BY <2>1, <2>2, NoRequestType DEF Blank, Heaps
<1>2. Sound(Blank, {})
  BY EmptyHas DEF Sound, Forgets, Hears, Queued, Blank
<1>3. /\ Blank.running = None /\ ~Blank.subscribing /\ Blank.vals = InitialValues /\ ~Blank.flushing
      /\ Blank.render = "document" /\ ~Asks(Blank) /\ Blank.request = NoRequest
  BY EmptyHas DEF Blank, Asks
<1>4. Replaced(Blank, InitialValues, heap)
  BY <1>1, <1>2, <1>3, ReplaceReplaces DEF Init
<1>5. Rests(heap) /\ heap \in Heaps /\ ~heap.flushing /\ heap.request = NoRequest /\ ~Asks(heap)
      /\ \A s \in Signals : heap.vals[s] = InitialValues[s] \/ s \in heap.missed
  BY <1>3, <1>4 DEF Replaced, Renewed, Rests
<1>6. Owned(heap)
  BY <1>4, <1>5 DEF Owned, Replaced
<1>7. Current(heap)
  <2>1. CASE heap.failed
    BY <2>1 DEF Current, Coming
  <2>2. CASE ~heap.failed
    <3>1. heap.shows.page = Rendered(PageReads(InitialValues), InitialValues) /\ heap.shows.region = {}
      BY <2>2, <1>4 DEF Replaced
    <3>2. PageReads(InitialValues) \subseteq Signals
      BY <1>1, ReactivityAssumption DEF Values
    <3> QED BY <3>1, <3>2, <1>5 DEF Current, Rendered
  <2> QED BY <2>1, <2>2
<1>8. NoRequest.frames = <<>> /\ <<>> # <<"region">>
  BY DEF NoRequest
<1>9. Answers(heap)
  BY <1>5, <1>8 DEF Answers
<1>10. Streams(heap)
  BY <1>5 DEF Streams
<1> QED BY <1>5, <1>6, <1>7, <1>9, <1>10 DEF Init, Inv, Promises, AskedByThen

\* An event handler.
LEMMA HandleInv ==
  ASSUME Inv, NEW ops \in Handlers, Handle(ops)
  PROVE  Inv'
<1>1. ops \in Seq(Ops)
  BY ReactivityAssumption
<1>2. PICK h \in Heaps : h = heap /\ h.running # Watch /\ h.running = None /\ Sound(h, {}) /\ Watches(h) /\ ~h.inserting
  BY NamesDiffer DEF Inv, Rests, Names
<1>3. PICK r : r = Callback(h, ops)
  OBVIOUS
<1>4. Keeps(h, r, {})
  BY <1>1, <1>2, <1>3, CallbackKeeps
<1>5. heap' = r /\ code' = code /\ runs' = runs /\ late' = late
  BY <1>2, <1>3 DEF Handle
<1>6. Promises(r)
  BY <1>2, <1>4, LaterPromises DEF Inv, Keeps
<1>7. Rests(r) /\ r.flushing = h.flushing /\ (Asks(r) <=> Asks(h))
  BY <1>2, <1>4 DEF Inv, Rests, Keeps, Later, Content
<1> QED BY <1>2, <1>5, <1>6, <1>7 DEF Inv, AskedByThen

\* A frame arrives: the page first, then the region that ends the request.
LEMMA FrameInv == ASSUME Inv, Frame PROVE Inv'
<1>1. PICK h \in Heaps : h = heap /\ Rests(h) /\ Promises(h) /\ ~h.flushing /\ h.request # NoRequest
                         /\ ~Asks(h) /\ ~Contains(h.pending, Watch)
  <2>1. heap \in Heaps /\ Rests(heap) /\ Promises(heap) /\ heap.micro = <<>> /\ ~heap.flushing
        /\ heap.request # NoRequest
    BY DEF Frame, Idle, Inv, Rests
  <2>2. ~Asks(heap) /\ ~Contains(heap.pending, Watch)
    BY <2>1, IdleQuiet, NamesDiffer DEF Rests, Sound, Names
  <2> QED BY <2>1, <2>2
<1>2. PICK values \in [Signals -> Values] : values = h.request.values
  BY DEF Heaps
<1>3. \A s \in Signals : values[s] = h.vals[s] \/ s \in h.missed
  BY <1>1, <1>2 DEF Promises, Answers
<1>4. PICK rest : rest = IF Len(h.request.frames) = 1 THEN NoRequest ELSE [h.request EXCEPT !.frames = Tail(@)]
  OBVIOUS
<1>5. code' = code /\ runs' = runs /\ late' = late /\ code \in Programs /\ runs \in [Effects -> Nat] /\ late \in BOOLEAN
  BY DEF Frame, Inv
<1>6. NoRequest.frames = <<>> /\ <<>> # <<"region">>
  BY DEF NoRequest
<1>7. CASE h.request.frames = <<"page", "region">>
  <2>1. rest = [values |-> values, frames |-> <<"region">>] /\ rest # NoRequest
    <3>1. Len(h.request.frames) = 2 /\ Tail(h.request.frames) = <<"region">>
      BY <1>7
    <3>2. rest = [h.request EXCEPT !.frames = <<"region">>]
      <4>1. rest = [h.request EXCEPT !.frames = Tail(h.request.frames)]
        BY <3>1, <1>4
      <4> QED BY <4>1, <3>1
    <3>3. rest = [values |-> values, frames |-> <<"region">>]
      BY <3>2, <1>2 DEF Heaps
    <3> QED BY <3>3, <1>6
  <2>2. PICK g : g = [h EXCEPT !.request = rest, !.render = "request"]
    OBVIOUS
  <2>3. <<"region">> \in Seq({"page", "region"})
    OBVIOUS
  <2>4. /\ g \in Heaps /\ g.request = rest /\ g.render = "request"
        /\ g.vals = h.vals /\ g.subs = h.subs /\ g.pending = h.pending /\ g.disposed = h.disposed
        /\ g.running = h.running /\ g.seen = h.seen /\ g.wrote = h.wrote /\ g.givenUp = h.givenUp
        /\ g.micro = h.micro /\ g.missed = h.missed
        /\ <<g.flushing, g.inserting, g.subscribing>> = <<h.flushing, h.inserting, h.subscribing>>
    BY <2>1, <2>2, <2>3 DEF Heaps
  <2>5. Sound(g, {})
    <3>1. Forgets(g)
      BY <2>4, <1>1 DEF Rests, Sound, Forgets
    <3>2. Hears(g, {})
      BY <2>4, <1>1 DEF Rests, Sound, Hears
    <3>3. Queued(g)
      BY <2>4, <1>1 DEF Rests, Sound, Queued
    <3> QED BY <3>1, <3>2, <3>3 DEF Sound
  <2>6. PICK r : r = Replace(g, values)
    OBVIOUS
  <2>7. Replaced(g, values, r)
    BY <1>1, <1>5, <2>4, <2>5, <2>6, ReplaceReplaces DEF Rests
  <2>8. heap' = r
    <3>1. Head(h.request.frames) = "page"
      BY <1>7
    <3> QED BY <3>1, <1>1, <1>2, <1>4, <2>2, <2>6 DEF Frame
  <2>9. /\ Rests(r) /\ ~r.flushing /\ r.render = "request" /\ ~Asks(r)
        /\ h.missed \subseteq r.missed /\ \A s \in Signals : r.vals[s] = h.vals[s] \/ s \in r.missed
    BY <1>1, <2>4, <2>7 DEF Replaced, Renewed, Asks
  <2>10. Owned(r)
    BY <2>7, <2>9 DEF Owned, Replaced
  <2>11. Current(r) /\ Streams(r)
    BY <2>1, <2>4, <2>7, <2>9 DEF Current, Streams, Coming, Replaced
  <2>12. Answers(r)
    <3>1. CASE r.request = NoRequest
      BY <3>1, <1>6 DEF Answers
    <3>2. CASE r.request # NoRequest
      <4>1. r.request.values = values /\ r.request.frames = <<"region">>
            /\ r.shows.page = Rendered(PageReads(values), values)
        BY <3>2, <2>1, <2>4, <2>7 DEF Replaced
      <4>2. \A p \in r.shows.page : p[2] = values[p[1]]
        BY <4>1 DEF Rendered
      <4>3. \A s \in Signals : values[s] = r.vals[s] \/ s \in r.missed
        BY <1>3, <2>9
      <4> QED BY <4>1, <4>2, <4>3, <2>9 DEF Answers
    <3> QED BY <3>1, <3>2
  <2> QED BY <1>5, <2>8, <2>9, <2>10, <2>11, <2>12 DEF Inv, Promises, AskedByThen
<1>8. CASE h.request.frames = <<"region">>
  <2>1. rest = NoRequest /\ h.render = "request" /\ \A p \in h.shows.page : p[2] = values[p[1]]
    <3>1. Len(h.request.frames) = 1
      BY <1>8
    <3> QED BY <3>1, <1>1, <1>2, <1>4, <1>8 DEF Promises, Answers
  <2>2. PICK g : g = [h EXCEPT !.request = NoRequest]
    OBVIOUS
  <2>3. /\ g \in Heaps /\ g.request = NoRequest /\ g.shows = h.shows
        /\ g.vals = h.vals /\ g.subs = h.subs /\ g.pending = h.pending /\ g.disposed = h.disposed
        /\ g.running = h.running /\ g.seen = h.seen /\ g.wrote = h.wrote /\ g.givenUp = h.givenUp
        /\ g.micro = h.micro /\ g.missed = h.missed
        /\ <<g.flushing, g.render, g.inserting, g.subscribing>> = <<h.flushing, h.render, h.inserting, h.subscribing>>
    BY <2>2, NoRequestType DEF Heaps
  <2>4. Sound(g, {})
    <3>1. Forgets(g)
      BY <2>3, <1>1 DEF Rests, Sound, Forgets
    <3>2. Hears(g, {})
      BY <2>3, <1>1 DEF Rests, Sound, Hears
    <3>3. Queued(g)
      BY <2>3, <1>1 DEF Rests, Sound, Queued
    <3> QED BY <3>1, <3>2, <3>3 DEF Sound
  <2>5. Watched(g) = Watched(h)
    BY <2>3 DEF Watched
  <2>6. Rests(g)
    BY <1>1, <2>3, <2>4, <2>5 DEF Rests, Watches
  <2>7. PICK r : r = Swap(g, values)
    OBVIOUS
  <2>8. Swapped(g, values, r)
    BY <1>5, <2>6, <2>7, SwapSwaps
  <2>9. heap' = r
    <3>1. Head(h.request.frames) = "region"
      BY <1>8
    <3> QED BY <3>1, <1>1, <1>2, <1>4, <2>1, <2>2, <2>7 DEF Frame
  <2>10. /\ Rests(r) /\ r \in Heaps /\ ~r.flushing /\ r.render = "request" /\ ~Asks(r)
         /\ h.missed \subseteq r.missed /\ r.request = NoRequest /\ r.shows.page = h.shows.page
         /\ (Watch \in r.disposed <=> Watch \in h.disposed)
    BY <1>1, <2>1, <2>3, <2>8 DEF Swapped, Renewed, Asks, Rests
  <2>11. \A s \in Signals : values[s] = r.vals[s] \/ s \in r.missed
    BY <1>3, <2>3, <2>8, <2>10 DEF Swapped, Renewed
  <2>12. Owned(r)
    BY <1>1, <2>10 DEF Owned, Promises
  <2>13. Current(r)
    <3>1. CASE r.failed
      BY <3>1 DEF Current, Coming
    <3>2. CASE ~r.failed
      <4>1. r.shows.region = Rendered(RegionReads(values), values)
        BY <3>2, <2>8 DEF Swapped
      <4>2. \A p \in r.shows.page \cup r.shows.region : p[2] = values[p[1]] /\ p[1] \in Signals
        BY <4>1, <2>1, <2>10 DEF Rendered, Heaps, Pairs
      <4> QED BY <4>2, <2>11 DEF Current
    <3> QED BY <3>1, <3>2
  <2>14. Answers(r) /\ Streams(r)
    BY <2>10, <1>6 DEF Answers, Streams
  <2> QED BY <1>5, <2>9, <2>10, <2>12, <2>13, <2>14 DEF Inv, Promises, AskedByThen
<1> QED BY <1>1, <1>7, <1>8 DEF Promises, Answers

\* A request fails.
LEMMA RequestFailsInv == ASSUME Inv, RequestFails PROVE Inv'
<1>1. PICK h \in Heaps : h = heap /\ Rests(h) /\ Promises(h) /\ ~h.flushing /\ ~Asks(h)
  <2>1. heap \in Heaps /\ Rests(heap) /\ Promises(heap) /\ heap.micro = <<>> /\ ~heap.flushing
    BY DEF RequestFails, Idle, Inv, Rests
  <2>2. ~Asks(heap)
    BY <2>1, IdleQuiet DEF Rests, Sound
  <2> QED BY <2>1, <2>2
<1>2. PICK r : r = Broken(h)
  OBVIOUS
<1>3. /\ Rests(r) /\ r.failed /\ r.request = NoRequest
      /\ <<r.flushing, r.render, r.missed, r.vals, r.disposed, r.shows, r.micro, r.pending>>
              = <<h.flushing, h.render, h.missed, h.vals, h.disposed, h.shows, h.micro, h.pending>>
  BY <1>1, <1>2, BrokenRests
<1>4. heap' = r /\ code' = code /\ runs' = runs /\ late' = late
  BY <1>1, <1>2 DEF RequestFails
<1>5. NoRequest.frames = <<>> /\ <<>> # <<"region">>
  BY DEF NoRequest
<1>6. ~Asks(r) /\ Owned(r) /\ Current(r) /\ Answers(r) /\ Streams(r)
  BY <1>1, <1>3, <1>5 DEF Asks, Owned, Current, Answers, Streams, Coming
<1> QED BY <1>1, <1>3, <1>4, <1>6 DEF Inv, Promises, AskedByThen

\* A region of the document arrives.
LEMMA LateRegionInv == ASSUME Inv, LateRegion PROVE Inv'
<1>1. PICK h \in Heaps : h = heap /\ Rests(h) /\ Promises(h) /\ ~h.flushing
                         /\ ~Asks(h) /\ ~Contains(h.pending, Watch)
  <2>1. heap \in Heaps /\ Rests(heap) /\ Promises(heap) /\ heap.micro = <<>> /\ ~heap.flushing
    BY DEF LateRegion, Idle, Inv, Rests
  <2>2. ~Asks(heap) /\ ~Contains(heap.pending, Watch)
    BY <2>1, IdleQuiet, NamesDiffer DEF Rests, Sound, Names
  <2> QED BY <2>1, <2>2
<1>2. code' = code /\ runs' = runs /\ late' = FALSE /\ code \in Programs /\ runs \in [Effects -> Nat]
  BY DEF LateRegion, Inv
<1>3. CASE h.render # "document"
  <2>1. heap' = heap
    BY <1>1, <1>3 DEF LateRegion
  <2> QED BY <1>1, <1>2, <2>1 DEF Inv, AskedByThen
<1>4. CASE h.render = "document"
  <2>1. InitialValues \in [Signals -> Values]
    BY ReactivityAssumption DEF InitialValues, Values
  <2>2. PICK r : r = Swap(h, InitialValues)
    OBVIOUS
  <2>3. heap' = r
    BY <1>1, <1>4, <2>2 DEF LateRegion
  <2>4. Swapped(h, InitialValues, r)
    BY <1>1, <1>2, <2>1, <2>2, SwapSwaps
  <2>5. /\ Rests(r) /\ r \in Heaps /\ ~r.flushing /\ r.render = "document" /\ ~Asks(r)
        /\ h.missed \subseteq r.missed /\ r.shows.page = h.shows.page
        /\ (Watch \in r.disposed <=> Watch \in h.disposed)
        /\ \A s \in Signals : r.vals[s] = h.vals[s] \/ s \in r.missed
    BY <1>1, <1>4, <2>4 DEF Swapped, Renewed, Rests
  <2>6. NoRequest.frames = <<>> /\ <<>> # <<"region">>
    BY DEF NoRequest
  <2>7. CASE r.failed /\ r.request = NoRequest
    <3>1. Owned(r) /\ Current(r) /\ Answers(r) /\ Streams(r)
      BY <2>5, <2>6, <2>7 DEF Owned, Current, Answers, Streams, Coming
    <3> QED BY <1>2, <2>3, <2>5, <3>1 DEF Inv, Promises, AskedByThen
  <2>8. CASE /\ r.request = h.request /\ r.failed = h.failed
             /\ r.shows.region = Rendered(RegionReads(InitialValues), InitialValues)
    <3>1. Owned(r)
      BY <1>1, <2>5, <2>8 DEF Owned, Promises
    <3>2. Coming(h) => Coming(r)
      BY <1>1, <2>8 DEF Coming
    <3>3. Streams(r)
      <4>1. \A s \in Signals : h.vals[s] = InitialValues[s] \/ s \in h.missed \/ Coming(h)
        BY <1>1, <1>4 DEF Streams, Promises
      <4> QED BY <4>1, <2>5, <3>2 DEF Streams
    <3>4. RegionReads(InitialValues) \subseteq Signals
      BY <2>1, ReactivityAssumption DEF Values
    <3>5. Current(r)
      <4>1. SUFFICES ASSUME NEW p \in r.shows.page \cup r.shows.region
                     PROVE  r.vals[p[1]] = p[2] \/ p[1] \in r.missed \/ Coming(r)
        BY DEF Current
      <4>2. p[1] \in Signals
        BY <2>5 DEF Heaps, Pairs
      <4>3. CASE p \in h.shows.page
        <5>1. h.vals[p[1]] = p[2] \/ p[1] \in h.missed \/ Coming(h)
          BY <1>1, <4>3 DEF Promises, Current
        <5> QED BY <5>1, <4>2, <3>2, <2>5
      <4>4. CASE p \in r.shows.region
        <5>1. p[2] = InitialValues[p[1]]
          BY <4>4, <2>8, <3>4 DEF Rendered
        <5>2. h.vals[p[1]] = InitialValues[p[1]] \/ p[1] \in h.missed \/ Coming(h)
          BY <1>1, <1>4, <4>2 DEF Promises, Streams
        <5> QED BY <5>1, <5>2, <4>2, <3>2, <2>5
      <4> QED BY <4>1, <4>3, <4>4, <2>5
    <3>6. Answers(r)
      <4>1. h.request.frames # <<"region">>
        BY <1>1, <1>4 DEF Promises, Answers
      <4>2. h.request # NoRequest => \A s \in Signals : h.request.values[s] = h.vals[s] \/ s \in h.missed
        BY <1>1 DEF Promises, Answers
      <4>3. h.request # NoRequest => h.request.frames \in {<<"page", "region">>, <<"region">>}
        BY <1>1 DEF Promises, Answers
      <4> QED BY <4>1, <4>2, <4>3, <2>5, <2>8 DEF Answers
    <3> QED BY <1>2, <2>3, <2>5, <3>1, <3>3, <3>5, <3>6 DEF Inv, Promises, AskedByThen
  <2> QED BY <2>4, <2>7, <2>8 DEF Swapped
<1> QED BY <1>3, <1>4

\* A flush starts.
LEMMA StartFlushInv == ASSUME Inv, StartFlush PROVE Inv'
<1>1. PICK h \in Heaps : h = heap /\ Rests(h) /\ Promises(h)
                         /\ h.micro # <<>> /\ Head(h.micro) = "flush"
  BY DEF StartFlush, Inv, Rests
<1>2. PICK A : A = {"flush", "refresh"}
  OBVIOUS
<1>3. PICK m : m = Tail(h.micro)
  OBVIOUS
<1>4. m \in Seq(A) /\ (Contains(m, "refresh") <=> Contains(h.micro, "refresh"))
  <2>1. h.micro \in Seq(A)
    BY <1>2 DEF Heaps
  <2> QED BY <2>1, <1>1, <1>3, TailHas
<1>5. PICK r : r = [h EXCEPT !.micro = m, !.flushing = TRUE]
  OBVIOUS
<1>6. /\ r \in Heaps /\ r.flushing /\ (Asks(r) <=> Asks(h))
      /\ r.vals = h.vals /\ r.subs = h.subs /\ r.pending = h.pending /\ r.disposed = h.disposed
      /\ r.running = h.running /\ r.seen = h.seen /\ r.wrote = h.wrote /\ r.givenUp = h.givenUp
      /\ r.missed = h.missed
      /\ <<r.shows, r.render, r.inserting, r.subscribing, r.request, r.failed>>
           = <<h.shows, h.render, h.inserting, h.subscribing, h.request, h.failed>>
  BY <1>2, <1>4, <1>5 DEF Heaps, Asks
<1>7. Sound(r, {})
  <2>1. Forgets(r)
    BY <1>1, <1>6 DEF Rests, Sound, Forgets
  <2>2. Hears(r, {})
    BY <1>1, <1>6 DEF Rests, Sound, Hears
  <2>3. Queued(r)
    BY <1>6 DEF Queued
  <2> QED BY <2>1, <2>2, <2>3 DEF Sound
<1>8. Watched(r) = Watched(h)
  BY <1>6 DEF Watched
<1>9. Rests(r)
  BY <1>1, <1>6, <1>7, <1>8 DEF Rests, Watches
<1>10. Coming(r) <=> Coming(h)
  BY <1>6 DEF Coming
<1>11. Promises(r)
  BY <1>1, <1>6, <1>10 DEF Promises, Owned, Current, Answers, Streams
<1>12. heap' = r /\ code' = code /\ late' = late /\ runs' = [e \in Effects |-> 0]
  BY <1>1, <1>3, <1>5 DEF StartFlush
<1>13. runs'[Watch] = 0
  BY <1>12, NamesDiffer DEF Names
<1> QED BY <1>9, <1>11, <1>12, <1>13 DEF Inv, AskedByThen

\* A flush runs an effect or gives it up.
LEMMA RunNextInv == ASSUME Inv, RunNext PROVE Inv'
<1>1. PICK h \in Heaps : h = heap /\ Rests(h) /\ Promises(h) /\ h.flushing /\ h.pending # <<>>
  BY DEF RunNext, Inv, Rests
<1>2. PICK e \in Effects : e = Head(h.pending) /\ Contains(h.pending, e)
  <2>1. h.pending \in Seq(Effects)
    BY DEF Heaps
  <2> QED BY <2>1, <1>1, TailHas
<1>3. PICK p : p = Tail(h.pending)
  OBVIOUS
<1>4. p \in Seq(Effects) /\ \A y : Contains(h.pending, y) <=> y = e \/ Contains(p, y)
  <2>1. h.pending \in Seq(Effects)
    BY DEF Heaps
  <2> QED BY <2>1, <1>1, <1>2, <1>3, TailHas
<1>5. PICK g : g = [h EXCEPT !.pending = p]
  OBVIOUS
<1>6. /\ g \in Heaps /\ g.pending = p /\ g.micro = h.micro /\ (Asks(g) <=> Asks(h))
      /\ g.vals = h.vals /\ g.subs = h.subs /\ g.disposed = h.disposed
      /\ g.running = h.running /\ g.seen = h.seen /\ g.wrote = h.wrote /\ g.givenUp = h.givenUp
      /\ g.missed = h.missed /\ Content(g) = Content(h)
  BY <1>4, <1>5 DEF Heaps, Content, Asks
<1>7. e \notin h.disposed
  BY <1>1, <1>2 DEF Rests, Sound, Forgets
<1>8. Sound(g, {e})
  <2>1. Forgets(g)
    BY <1>1, <1>4, <1>6 DEF Rests, Sound, Forgets
  <2>2. Hears(g, {e})
    BY <1>1, <1>4, <1>6 DEF Rests, Sound, Hears
  <2>3. Queued(g)
    BY <1>1, <1>6 DEF Queued, Content
  <2> QED BY <2>1, <2>2, <2>3 DEF Sound
<1>9. Watched(g) = Watched(h)
  BY <1>6 DEF Watched, Content
<1>10. Watches(g) /\ g.running = None /\ ~g.inserting /\ ~g.subscribing /\ g.flushing
  BY <1>1, <1>6, <1>9 DEF Rests, Watches, Content
<1>11. <<g.shows, g.render, g.request, g.failed>> = <<h.shows, h.render, h.request, h.failed>>
  BY <1>6 DEF Content
<1>12. Asks(h) \/ e # Watch => Promises(g)
  <2>1. SUFFICES ASSUME Asks(h) \/ e # Watch PROVE Promises(g)
    OBVIOUS
  <2>2. Coming(g) <=> Coming(h)
    BY <2>1, <1>4, <1>6, <1>11 DEF Coming
  <2>3. Asks(g) \/ Contains(g.pending, Watch) <=> Asks(h) \/ Contains(h.pending, Watch)
    BY <2>1, <1>4, <1>6
  <2> QED BY <2>2, <2>3, <1>1, <1>6, <1>11 DEF Promises, Owned, Current, Answers, Streams
<1>13. PICK n : n = [runs EXCEPT ![e] = IF @ > MaxRuns THEN @ ELSE @ + 1]
  OBVIOUS
<1>14. /\ runs' = n /\ n \in [Effects -> Nat] /\ code' = code /\ late' = late
       /\ e # Watch => n[Watch] = runs[Watch]
       /\ code \in Programs /\ late \in BOOLEAN /\ runs \in [Effects -> Nat]
  <2>1. /\ runs' = n /\ code' = code /\ late' = late
        /\ code \in Programs /\ late \in BOOLEAN /\ runs \in [Effects -> Nat]
    BY <1>1, <1>2, <1>13 DEF RunNext, Inv
  <2>2. runs[e] \in Nat
    BY <2>1
  <2> QED BY <2>1, <2>2, <1>13, NamesDiffer DEF Names
<1>15. CASE runs[e] >= MaxRuns
  <2>1. PICK r : r = [g EXCEPT !.givenUp = @ \cup {e}]
    OBVIOUS
  <2>2. heap' = r
    BY <1>1, <1>2, <1>3, <1>5, <1>15, <2>1 DEF RunNext
  <2>3. /\ r \in Heaps /\ r.pending = g.pending /\ r.micro = g.micro /\ r.givenUp = g.givenUp \cup {e}
        /\ r.vals = g.vals /\ r.subs = g.subs /\ r.disposed = g.disposed
        /\ r.running = g.running /\ r.seen = g.seen /\ r.wrote = g.wrote
        /\ r.missed = g.missed /\ Content(r) = Content(g)
    BY <1>6, <2>1 DEF Heaps, Content
  <2>4. Sound(r, {})
    <3>1. Forgets(r)
      BY <1>8, <2>3 DEF Sound, Forgets
    <3>2. Hears(r, {})
      BY <1>8, <2>3 DEF Sound, Hears
    <3>3. Queued(r)
      BY <1>8, <2>3 DEF Sound, Queued, Content
    <3> QED BY <3>1, <3>2, <3>3 DEF Sound
  <2>5. Watched(r) = Watched(g)
    BY <2>3 DEF Watched, Content
  <2>6. Rests(r)
    BY <1>10, <2>3, <2>4, <2>5 DEF Rests, Watches, Content
  <2>7. e = Watch => Asks(h)
    <3>1. MaxRuns >= 1 /\ MaxRuns \in Nat
      BY ReactivityAssumption
    <3>2. e = Watch => runs[Watch] >= 1
      BY <3>1, <1>14, <1>15
    <3> QED BY <3>2, <1>1 DEF Inv, AskedByThen
  <2>8. Promises(g)
    BY <2>7, <1>12
  <2>9. Later(g, r)
    BY <2>3 DEF Later, Asks
  <2>10. Promises(r)
    BY <2>3, <2>8, <2>9, <1>6, LaterPromises
  <2>11. Asks(r) <=> Asks(h)
    BY <2>3, <1>6 DEF Asks
  <2>12. n[Watch] >= 1 => Asks(r)
    BY <2>7, <2>11, <1>1, <1>14 DEF Inv, AskedByThen
  <2> QED BY <1>14, <2>2, <2>6, <2>10, <2>12 DEF Inv, AskedByThen
<1>16. CASE ~(runs[e] >= MaxRuns)
  <2>1. PICK r : r = Run(g, e)
    OBVIOUS
  <2>2. heap' = r
    BY <1>1, <1>2, <1>3, <1>5, <1>16, <2>1 DEF RunNext
  <2>3. CASE e # Watch
    <3>1. e \in Bindings
      BY <2>3 DEF Effects
    <3>2. Keeps(g, r, {})
      BY <3>1, <2>1, <1>6, <1>8, <1>10, <1>14, RunKeeps
    <3>3. Rests(r) /\ r \in Heaps /\ Later(g, r)
      BY <3>2, <1>10 DEF Rests, Keeps, Later, Content
    <3>4. Promises(r)
      BY <3>3, <2>3, <1>6, <1>12, LaterPromises
    <3>5. Asks(r) <=> Asks(h)
      BY <3>3, <1>6 DEF Later
    <3>6. n[Watch] >= 1 => Asks(r)
      BY <3>5, <2>3, <1>1, <1>14 DEF Inv, AskedByThen
    <3> QED BY <1>14, <2>2, <3>3, <3>4, <3>6 DEF Inv, AskedByThen
  <2>4. CASE e = Watch
    <3>1. WatchRan(g, r)
      BY <2>1, <2>4, <1>6, <1>7, <1>8, <1>10, WatchRuns
    <3>2. /\ Rests(r) /\ Asks(r) /\ r.request \in {h.request, NoRequest}
          /\ <<r.shows, r.render, r.failed>> = <<h.shows, h.render, h.failed>>
          /\ r.vals = h.vals /\ r.missed = h.missed /\ Watch \notin r.disposed
      BY <3>1, <2>4, <1>6, <1>7, <1>10, <1>11 DEF WatchRan, Rests
    <3>3. Owned(r) /\ Current(r) /\ Streams(r)
      BY <3>2 DEF Owned, Current, Streams, Coming
    <3>4. Answers(r)
      <4>1. CASE r.request = NoRequest
        <5>1. NoRequest.frames = <<>> /\ <<>> # <<"region">>
          BY DEF NoRequest
        <5> QED BY <4>1, <5>1 DEF Answers
      <4>2. CASE r.request = h.request
        BY <4>2, <3>2, <1>1 DEF Promises, Answers
      <4> QED BY <4>1, <4>2, <3>2
    <3> QED BY <1>14, <2>2, <3>2, <3>3, <3>4 DEF Inv, Promises, AskedByThen
  <2> QED BY <2>3, <2>4
<1> QED BY <1>15, <1>16

\* A flush ends.
LEMMA EndFlushInv == ASSUME Inv, EndFlush PROVE Inv'
<1>1. PICK h \in Heaps : h = heap /\ Rests(h) /\ Promises(h) /\ h.pending = <<>>
  BY DEF EndFlush, Inv, Rests
<1>2. PICK r : r = [h EXCEPT !.flushing = FALSE]
  OBVIOUS
<1>3. /\ r \in Heaps /\ ~r.flushing /\ r.micro = h.micro
      /\ r.vals = h.vals /\ r.subs = h.subs /\ r.pending = h.pending /\ r.disposed = h.disposed
      /\ r.running = h.running /\ r.seen = h.seen /\ r.wrote = h.wrote /\ r.givenUp = h.givenUp
      /\ r.missed = h.missed
      /\ <<r.shows, r.render, r.inserting, r.subscribing, r.request, r.failed>>
           = <<h.shows, h.render, h.inserting, h.subscribing, h.request, h.failed>>
  BY <1>2 DEF Heaps
<1>4. Sound(r, {})
  <2>1. Forgets(r)
    BY <1>1, <1>3 DEF Rests, Sound, Forgets
  <2>2. Hears(r, {})
    BY <1>1, <1>3 DEF Rests, Sound, Hears
  <2>3. Queued(r)
    BY <1>1, <1>3, EmptyHas DEF Queued
  <2> QED BY <2>1, <2>2, <2>3 DEF Sound
<1>5. Watched(r) = Watched(h)
  BY <1>3 DEF Watched
<1>6. Rests(r)
  BY <1>1, <1>3, <1>4, <1>5 DEF Rests, Watches
<1>7. (Asks(r) <=> Asks(h)) /\ (Coming(r) <=> Coming(h))
  BY <1>3 DEF Asks, Coming
<1>8. Promises(r)
  BY <1>1, <1>3, <1>7 DEF Promises, Owned, Current, Answers, Streams
<1>9. heap' = r /\ code' = code /\ late' = late /\ runs' = runs
  BY <1>1, <1>2 DEF EndFlush
<1> QED BY <1>3, <1>6, <1>8, <1>9 DEF Inv, AskedByThen

\* A request is sent.
LEMMA RefreshInv == ASSUME Inv, Refresh PROVE Inv'
<1>1. PICK h \in Heaps : h = heap /\ Rests(h) /\ Promises(h) /\ ~h.flushing
                         /\ h.micro # <<>> /\ Head(h.micro) = "refresh"
  BY DEF Refresh, Inv, Rests
<1>2. PICK A : A = {"flush", "refresh"}
  OBVIOUS
<1>3. PICK m : m = Tail(h.micro)
  OBVIOUS
<1>4. m \in Seq(A) /\ (Contains(h.micro, "flush") => Contains(m, "flush")) /\ Asks(h)
  <2>1. h.micro \in Seq(A)
    BY <1>2 DEF Heaps
  <2> QED BY <2>1, <1>1, <1>3, TailHas DEF Asks
<1>5. PICK q : q = [values |-> h.vals, frames |-> <<"page", "region">>]
  OBVIOUS
<1>6. /\ q \in [values : [Signals -> Values], frames : Seq({"page", "region"})]
      /\ q # NoRequest /\ q.values = h.vals /\ q.frames = <<"page", "region">>
  <2>1. <<"page", "region">> \in Seq({"page", "region"}) /\ <<"page", "region">> # <<>>
    OBVIOUS
  <2>2. NoRequest.frames = <<>>
    BY DEF NoRequest
  <2>3. h.vals \in [Signals -> Values]
    BY DEF Heaps
  <2>4. q.values = h.vals /\ q.frames = <<"page", "region">>
    BY <1>5
  <2>5. q \in [values : [Signals -> Values], frames : Seq({"page", "region"})]
    BY <2>1, <2>3, <1>5
  <2> QED BY <2>1, <2>2, <2>4, <2>5
<1>7. PICK r : r = [h EXCEPT !.micro = m, !.failed = FALSE, !.missed = {}, !.request = q]
  OBVIOUS
<1>8. /\ r \in Heaps /\ r.micro = m /\ r.missed = {} /\ r.request = q /\ ~r.failed
      /\ r.vals = h.vals /\ r.subs = h.subs /\ r.pending = h.pending /\ r.disposed = h.disposed
      /\ r.running = h.running /\ r.seen = h.seen /\ r.wrote = h.wrote /\ r.givenUp = h.givenUp
      /\ <<r.shows, r.render, r.inserting, r.subscribing, r.flushing>>
           = <<h.shows, h.render, h.inserting, h.subscribing, h.flushing>>
  BY <1>2, <1>4, <1>6, <1>7 DEF Heaps
<1>9. Sound(r, {})
  <2>1. Forgets(r)
    BY <1>1, <1>8 DEF Rests, Sound, Forgets
  <2>2. Hears(r, {})
    BY <1>1, <1>8 DEF Rests, Sound, Hears
  <2>3. Queued(r)
    BY <1>1, <1>4, <1>8 DEF Rests, Sound, Queued
  <2> QED BY <2>1, <2>2, <2>3 DEF Sound
<1>10. Watched(r) = Watched(h)
  BY <1>8 DEF Watched
<1>11. Rests(r)
  BY <1>1, <1>8, <1>9, <1>10 DEF Rests, Watches
<1>12. Watch \notin h.disposed
  BY <1>1, <1>4 DEF Promises, Owned
<1>13. Owned(r)
  BY <1>8, <1>12 DEF Owned
<1>14. Current(r) /\ Streams(r)
  BY <1>6, <1>8 DEF Current, Streams, Coming
<1>15. Answers(r)
  <2>1. <<"page", "region">> # <<"region">>
    OBVIOUS
  <2> QED BY <2>1, <1>6, <1>8 DEF Answers
<1>16. heap' = r /\ code' = code /\ late' = late /\ runs' = runs
  BY <1>1, <1>3, <1>5, <1>7 DEF Refresh
<1> QED BY <1>1, <1>8, <1>11, <1>13, <1>14, <1>15, <1>16 DEF Inv, Promises, AskedByThen

\* The invariant is inductive.
LEMMA NextInv == Inv /\ [Next]_vars => Inv'
<1> SUFFICES ASSUME Inv, [Next]_vars PROVE Inv'
  OBVIOUS
<1>1. ASSUME NEW ops \in Handlers, Handle(ops) PROVE Inv'
  BY <1>1, HandleInv
<1>2. CASE Frame
  BY <1>2, FrameInv
<1>3. CASE RequestFails
  BY <1>3, RequestFailsInv
<1>4. CASE LateRegion
  BY <1>4, LateRegionInv
<1>5. CASE StartFlush
  BY <1>5, StartFlushInv
<1>6. CASE RunNext
  BY <1>6, RunNextInv
<1>7. CASE EndFlush
  BY <1>7, EndFlushInv
<1>8. CASE Refresh
  BY <1>8, RefreshInv
<1>9. CASE UNCHANGED vars
  BY <1>9 DEF vars, Inv, AskedByThen
<1> QED BY <1>1, <1>2, <1>3, <1>4, <1>5, <1>6, <1>7, <1>8, <1>9 DEF Next

\* And so it always holds.
LEMMA AlwaysInv == Spec => []Inv
<1>1. Init => Inv
  BY InitInv
<1>2. Inv /\ [Next]_vars => Inv'
  BY NextInv
<1> QED BY <1>1, <1>2, PTL DEF Spec

-----------------------------------------------------------------------------
(* The theorems, for all programs and handlers.                            *)

\* Replaced content is not kept alive by the signals that outlive it.
THEOREM ReleasedAlwaysForgotten == Spec => []ReleasedAreForgotten
<1>1. Inv => ReleasedAreForgotten
  BY DEF Inv, Rests, Sound, Forgets, ReleasedAreForgotten
<1> QED BY <1>1, AlwaysInv, PTL

\* The scheduler loses no change, whatever the effects do.
THEOREM QuietAlwaysConsistent == Spec => []QuietMeansConsistent
<1>1. Inv => QuietMeansConsistent
  <2>1. SUFFICES ASSUME Inv, Idle, NEW e \in Effects \ (heap.disposed \cup heap.givenUp),
                        NEW p \in heap.seen[e]
                 PROVE  heap.vals[p[1]] = p[2] \/ p[1] \in heap.wrote[e]
    BY DEF QuietMeansConsistent
  <2>2. PICK h \in Heaps : h = heap /\ Sound(h, {}) /\ h.micro = <<>> /\ ~h.flushing
    BY <2>1 DEF Inv, Rests, Idle
  <2>3. ~Contains(h.pending, e)
    BY <2>2, IdleQuiet DEF Sound
  <2> QED BY <2>1, <2>2, <2>3 DEF Sound, Hears
<1> QED BY <1>1, AlwaysInv, PTL

\* The content keeps up with the signals, whatever the page does.
THEOREM ContentAlwaysKeepsUp == Spec => []ContentKeepsUp
<1>1. Inv => ContentKeepsUp
  <2>1. SUFFICES ASSUME Inv, Settled, NEW p \in heap.shows.page \cup heap.shows.region
                 PROVE  Fresh(p[1], p[2]) \/ p[1] \in heap.missed
    BY DEF ContentKeepsUp
  <2>2. PICK h \in Heaps : /\ h = heap /\ Queued(h) /\ h.micro = <<>> /\ ~h.flushing
                           /\ h.request = NoRequest /\ ~h.failed /\ Current(h)
    BY <2>1 DEF Inv, Rests, Sound, Promises, Settled, Idle
  <2>3. ~Coming(h)
    BY <2>2, IdleQuiet, NamesDiffer DEF Coming, Names
  <2> QED BY <2>1, <2>2, <2>3 DEF Current, Fresh
<1> QED BY <1>1, AlwaysInv, PTL
=============================================================================
