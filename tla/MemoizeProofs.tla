---------------------------- MODULE MemoizeProofs ---------------------------
(***************************************************************************)
(* What holds of the memoize cache for every set of callers and entries    *)
(* and all bodies: types, one computation of an entry at a time, and one   *)
(* for each set of observed bindings, whose result is the right one.       *)
(***************************************************************************)
EXTENDS Memoize, Recursion, SequenceTheorems, TLAPS

(* What a frame of a stack is, besides well typed.  Its tracker holds only *)
(* reads its own caller can see; the scope it looks up with is the one its *)
(* tracker starts from; and while its body runs, nothing that was cached   *)
(* in the meantime fits that scope, for which the gate is held.            *)
FrameGood(f) ==
    /\ Matches(f.reads, f.entry)
    /\ f.at # "body" => f.scope = f.entry
    /\ f.at = "body" => NoneFits(f.entryOf, f.entry)

FramesGood == \A c \in Callers : \A k \in 1..Len(stack[c]) : FrameGood(stack[c][k])

Inv == TypeOK /\ OneComputation /\ RunsOncePerBindings /\ FramesGood

-----------------------------------------------------------------------------
(* Sequences that are changed at their first place. *)

LEMMA ReplacedHead ==
  ASSUME NEW S, NEW s \in Seq(S), s # << >>, NEW x \in S
  PROVE  /\ <<x>> \o Tail(s) \in Seq(S)
         /\ Len(<<x>> \o Tail(s)) = Len(s)
         /\ (<<x>> \o Tail(s))[1] = x
         /\ \A k \in 2..Len(s) : (<<x>> \o Tail(s))[k] = s[k]
<1>1. Tail(s) \in Seq(S) /\ Len(Tail(s)) = Len(s) - 1 /\ Len(s) \in Nat /\ Len(s) # 0
      /\ \A k \in 1..(Len(s) - 1) : Tail(s)[k] = s[k + 1]
  BY HeadTailProperties, EmptySeq, LenProperties
<1>2. <<x>> \in Seq(S) /\ Len(<<x>>) = 1 /\ <<x>>[1] = x
  OBVIOUS
<1> QED  BY <1>1, <1>2, ConcatProperties

LEMMA Pushed ==
  ASSUME NEW S, NEW s \in Seq(S), NEW x \in S
  PROVE  /\ <<x>> \o s \in Seq(S)
         /\ Len(<<x>> \o s) = Len(s) + 1
         /\ (<<x>> \o s)[1] = x
         /\ \A k \in 1..Len(s) : (<<x>> \o s)[k + 1] = s[k]
<1>1. <<x>> \in Seq(S) /\ Len(<<x>>) = 1 /\ <<x>>[1] = x /\ Len(s) \in Nat
  BY LenProperties
<1> QED  BY <1>1, ConcatProperties

(* The scopes and reads that exist do so still when a binding is added. *)
LEMMA FramesGrow ==
  ASSUME NEW m \in Nat, NEW n \in Nat, m <= n
  PROVE  Scopes(m) \subseteq Scopes(n)
  BY DEF Scopes

(* Frame f is what is left of frame g once a nested call has returned. *)
GoesOn(f, g) ==
    /\ f.at = g.at /\ f.entryOf = g.entryOf /\ f.entry = g.entry /\ f.scope = g.scope
    /\ Matches(g.reads, g.entry) => Matches(f.reads, f.entry)

LEMMA ResumedFrame ==
  ASSUME NEW f \in Frames, NEW v \in Values \cup {NoValue}, NEW reads \in SUBSET ReadSet,
         NEW g, g = [Saw(f, v) EXCEPT !.reads = Merge(f, Replayed(reads))]
  PROVE  g \in Frames /\ GoesOn(g, f)
<1>1. /\ Saw(f, v) = [f EXCEPT !.seen = Append(f.seen, v)]
      /\ Append(f.seen, v) \in Seq(Values \cup {NoValue})
  BY AppendProperties DEF Saw, Frames
<1>2. Merge(f, Replayed(reads)) \in SUBSET ReadSet
  BY DEF Merge, Replayed, Frames
<1>3. /\ g \in Frames /\ g.reads = Merge(f, Replayed(reads))
      /\ g.at = f.at /\ g.entryOf = f.entryOf /\ g.entry = f.entry /\ g.scope = f.scope
  BY <1>1, <1>2 DEF Frames
<1> QED  BY <1>3 DEF GoesOn, Matches, Merge

(* The stack of a caller whose innermost call has returned. *)
LEMMA ResumedStack ==
  ASSUME NEW s \in Seq(Frames), s # << >>,
         NEW v \in Values \cup {NoValue}, NEW reads \in SUBSET ReadSet,
         NEW t, t = Resumed(Tail(s), v, reads)
  PROVE  /\ t \in Seq(Frames) /\ Len(t) = Len(s) - 1
         /\ \A k \in 1..Len(t) : GoesOn(t[k], s[k + 1])
<1>1. PICK below : below = Tail(s)
  OBVIOUS
<1>2. below \in Seq(Frames) /\ Len(below) = Len(s) - 1 /\ Len(s) \in Nat /\ Len(s) # 0
      /\ \A k \in 1..Len(below) : below[k] = s[k + 1]
  BY <1>1, HeadTailProperties, EmptySeq, LenProperties
<1>3. CASE below = << >>
  <2>1. t = << >>
    BY <1>1, <1>3 DEF Resumed
  <2>2. t \in Seq(Frames) /\ Len(t) = 0 /\ Len(below) = 0
    BY <2>1, <1>3, EmptySeq
  <2>3. Len(s) = 1
    BY <2>2, <1>2
  <2> QED  BY <2>2, <2>3
<1>4. CASE below # << >>
  <2>1. PICK f : f = Head(below)
    OBVIOUS
  <2>2. PICK g : g = [Saw(f, v) EXCEPT !.reads = Merge(f, Replayed(reads))]
    OBVIOUS
  <2>3. f \in Frames /\ f = s[2] /\ Len(below) # 0
    BY <1>2, <1>4, <2>1, HeadTailProperties, EmptySeq
  <2>4. g \in Frames /\ GoesOn(g, f)
    BY <2>2, <2>3, ResumedFrame
  <2>5. t = <<g>> \o Tail(below)
    BY <1>1, <1>4, <2>1, <2>2 DEF Resumed
  <2>6. /\ t \in Seq(Frames) /\ Len(t) = Len(below) /\ t[1] = g
        /\ \A k \in 2..Len(below) : t[k] = below[k]
    <3>1. below \in Seq(Frames) /\ below # << >> /\ g \in Frames
      BY <2>4, <1>2, <1>4
    <3>2. /\ <<g>> \o Tail(below) \in Seq(Frames)
          /\ Len(<<g>> \o Tail(below)) = Len(below)
          /\ (<<g>> \o Tail(below))[1] = g
          /\ \A k \in 2..Len(below) : (<<g>> \o Tail(below))[k] = below[k]
      BY <3>1, ReplacedHead
    <3> QED  BY <3>2, <2>5
  <2>7. ASSUME NEW k \in 1..Len(t)
        PROVE  GoesOn(t[k], s[k + 1])
    <3>1. CASE k = 1
      BY <3>1, <2>3, <2>4, <2>6
    <3>2. CASE k # 1
      BY <3>2, <2>6, <1>2 DEF GoesOn
    <3> QED  BY <3>1, <3>2
  <2> QED  BY <2>6, <2>7, <1>2
<1> QED  BY <1>3, <1>4

LEMMA WiderSeq ==
  ASSUME NEW S, NEW T, S \subseteq T, NEW s \in Seq(S)
  PROVE  s \in Seq(T)
<1>1. Len(s) \in Nat /\ s \in [1..Len(s) -> S]
  BY LenProperties
<1> QED  BY <1>1, SeqDef

LEMMA Stacks ==
  ASSUME TypeOK, NEW c \in Callers
  PROVE  /\ stack[c] \in Seq(Frames) /\ Len(stack[c]) \in Nat
         /\ \A k \in 1..Len(stack[c]) : stack[c][k] \in Frames
         /\ stack[c] # << >> =>
                /\ Top(c) = stack[c][1] /\ Top(c) \in Frames /\ Len(stack[c]) \in Nat \ {0}
<1>1. stack[c] \in Seq(Frames)
  BY DEF TypeOK
<1>2. /\ Len(stack[c]) \in Nat /\ \A k \in 1..Len(stack[c]) : stack[c][k] \in Frames
  BY <1>1, LenProperties, ElementOfSeq
<1>3. stack[c] # << >> => Top(c) = stack[c][1] /\ Top(c) \in Frames /\ Len(stack[c]) \in Nat \ {0}
  BY <1>1, HeadTailProperties, EmptySeq DEF Top
<1> QED  BY <1>1, <1>2, <1>3

-----------------------------------------------------------------------------
(* A step of c changes c's stack and, of the entries, at most those whose  *)
(* gate c holds.  It keeps the invariant if the new stack is good and if   *)
(* what it caches is computed for the first time.                          *)
LEMMA Step ==
  ASSUME Inv, NEW c \in Callers, NEW t \in Seq(Frames'),
         stack' = [stack EXCEPT ![c] = t],
         Frames \subseteq Frames',
         bound' \in Seq(Values), variants' \in [Entries -> Seq(VariantSet')],
         gate' \in [Entries -> Callers \cup {Nobody}],
         calls' \in 0..MaxCalls, failures' \in 0..MaxFailures,
         RunsOncePerBindings',
         \A e \in Entries : gate[e] # c => variants'[e] = variants[e],
         \A e \in Entries : gate[e] \in Callers \ {c} => gate'[e] = gate[e],
         \A k \in 1..Len(t) : FrameGood(t[k])',
         \A k \in 1..Len(t) : t[k].at = "body" =>
            /\ gate'[t[k].entryOf] = c
            /\ \A m \in 1..Len(t) : t[m].at = "body" /\ t[m].entryOf = t[k].entryOf => m = k
  PROVE  Inv'
<1> USE DEF Inv
<1>1. /\ stack \in [Callers -> Seq(Frames)] /\ stack'[c] = t
      /\ \A d \in Callers \ {c} : stack'[d] = stack[d]
  BY DEF TypeOK
<1>2. TypeOK'
  <2>1. \A d \in Callers : stack'[d] \in Seq(Frames')
    BY <1>1, WiderSeq
  <2>2. stack' \in [Callers -> Seq(Frames')]
    BY <1>1, <2>1
  <2> QED  BY <2>2 DEF TypeOK
<1>3. OneComputation'
  <2> SUFFICES ASSUME NEW d \in Callers, NEW k \in 1..Len(stack'[d]), stack'[d][k].at = "body"
               PROVE  /\ gate'[stack'[d][k].entryOf] = d
                      /\ \A m \in 1..Len(stack'[d]) :
                            stack'[d][m].at = "body"
                            /\ stack'[d][m].entryOf = stack'[d][k].entryOf => m = k
    BY DEF OneComputation
  <2>1. CASE d = c
    BY <2>1, <1>1
  <2>2. CASE d # c
    <3>1. stack'[d] = stack[d] /\ stack[d][k] \in Frames
      BY <2>2, <1>1, Stacks
    <3>2. stack[d][k].entryOf \in Entries
      BY <3>1 DEF Frames
    <3>3. /\ gate[stack[d][k].entryOf] = d
          /\ \A m \in 1..Len(stack[d]) :
                stack[d][m].at = "body" /\ stack[d][m].entryOf = stack[d][k].entryOf => m = k
      BY <3>1 DEF OneComputation
    <3>4. gate'[stack[d][k].entryOf] = d
      BY <3>2, <3>3, <2>2
    <3> QED  BY <3>1, <3>3, <3>4
  <2> QED  BY <2>1, <2>2
<1>4. FramesGood'
  <2> SUFFICES ASSUME NEW d \in Callers, NEW k \in 1..Len(stack'[d])
               PROVE  /\ Matches(stack'[d][k].reads, stack'[d][k].entry)
                      /\ stack'[d][k].at # "body" => stack'[d][k].scope = stack'[d][k].entry
                      /\ stack'[d][k].at = "body" =>
                            \A i \in 1..Len(variants'[stack'[d][k].entryOf]) :
                               ~Matches(variants'[stack'[d][k].entryOf][i].reads,
                                        stack'[d][k].entry)
    BY DEF FramesGood, FrameGood, NoneFits
  <2>1. CASE d = c
    BY <2>1, <1>1 DEF FrameGood, NoneFits
  <2>2. CASE d # c
    <3>1. /\ stack'[d] = stack[d] /\ stack[d][k] \in Frames
          /\ stack[d][k].entryOf \in Entries
      BY <2>2, <1>1, Stacks DEF Frames
    <3>2. FrameGood(stack[d][k])
      BY <3>1 DEF FramesGood
    <3>3. ASSUME stack[d][k].at = "body"
          PROVE  variants'[stack[d][k].entryOf] = variants[stack[d][k].entryOf]
      <4>1. gate[stack[d][k].entryOf] = d
        BY <3>1, <3>3 DEF OneComputation
      <4> QED  BY <4>1, <3>1, <2>2
    <3> QED  BY <3>1, <3>2, <3>3 DEF FrameGood, NoneFits
  <2> QED  BY <2>1, <2>2
<1> QED  BY <1>2, <1>3, <1>4

(* The same for a step that caches and registers nothing. *)
LEMMA QuietStep ==
  ASSUME Inv, NEW c \in Callers, NEW t \in Seq(Frames),
         stack' = [stack EXCEPT ![c] = t],
         UNCHANGED <<bound, variants>>,
         gate' \in [Entries -> Callers \cup {Nobody}],
         calls' \in 0..MaxCalls, failures' \in 0..MaxFailures,
         \A e \in Entries : gate[e] \in Callers \ {c} => gate'[e] = gate[e],
         \A k \in 1..Len(t) : FrameGood(t[k]),
         \A k \in 1..Len(t) : t[k].at = "body" =>
            /\ gate'[t[k].entryOf] = c
            /\ \A m \in 1..Len(t) : t[m].at = "body" /\ t[m].entryOf = t[k].entryOf => m = k
  PROVE  Inv'
<1>1. Frames' = Frames /\ VariantSet' = VariantSet
  BY DEF Frames, VariantSet, ReadSet, Scopes
<1>2. bound' \in Seq(Values) /\ variants' \in [Entries -> Seq(VariantSet')]
  BY <1>1 DEF Inv, TypeOK
<1>3. RunsOncePerBindings'
  BY DEF Inv, RunsOncePerBindings
<1>4. \A k \in 1..Len(t) : FrameGood(t[k])'
  BY DEF FrameGood, NoneFits, Matches
<1> QED  BY <1>1, <1>2, <1>3, <1>4, Step

-----------------------------------------------------------------------------
(* One lemma for each action. *)

LEMMA InitInv == Init => Inv
<1> SUFFICES ASSUME Init PROVE Inv
  OBVIOUS
<1>1. TypeOK
  BY MemoizeAssumption, EmptySeq DEF Init, TypeOK
<1>2. OneComputation /\ RunsOncePerBindings /\ FramesGood
  BY DEF Init, OneComputation, RunsOncePerBindings, FramesGood
<1> QED  BY <1>1, <1>2 DEF Inv

LEMMA NewFrame ==
  ASSUME NEW e \in Entries, NEW scope \in Scopes(Len(bound))
  PROVE  Frame(e, scope) \in Frames /\ FrameGood(Frame(e, scope)) /\ Frame(e, scope).at = "lookup"
  BY DEF Frame, Frames, FrameGood, Matches

(* The bindings of the request stay. *)
LEMMA CallKeeps ==
  ASSUME Inv, NEW c \in Callers, NEW e \in Entries, NEW scope \in Scopes(Len(bound)),
         Call(c, e, scope)
  PROVE  Inv'
<1> DEFINE f == Frame(e, scope)
           t == <<f>>
<1>1. f \in Frames /\ FrameGood(f) /\ f.at = "lookup"
  BY NewFrame
<1> HIDE DEF f
<1>2. t \in Seq(Frames) /\ Len(t) = 1 /\ \A k \in 1..Len(t) : t[k] = f
  BY <1>1
<1>3. /\ stack' = [stack EXCEPT ![c] = t] /\ UNCHANGED <<bound, variants, gate, failures>>
      /\ calls < MaxCalls /\ calls' = calls + 1
  BY DEF Call, f
<1>4. calls' \in 0..MaxCalls /\ failures' \in 0..MaxFailures
      /\ gate' \in [Entries -> Callers \cup {Nobody}]
  BY <1>3, MemoizeAssumption DEF Inv, TypeOK
<1> HIDE DEF t
<1> QED  BY <1>1, <1>2, <1>3, <1>4, QuietStep

(* A call returns what was cached: its caller goes on. *)
LEMMA ReuseKeeps ==
  ASSUME Inv, NEW c \in Callers, NEW i, stack[c] # << >>, Reuse(c, i)
  PROVE  Inv'
<1>1. PICK s : s = stack[c]
  OBVIOUS
<1>2. /\ s \in Seq(Frames) /\ s # << >> /\ Len(s) \in Nat \ {0}
      /\ \A k \in 1..Len(s) : s[k] \in Frames /\ FrameGood(s[k])
      /\ Top(c) \in Frames
  BY <1>1, Stacks DEF Inv, FramesGood
<1>3. PICK variant : variant = variants[Top(c).entryOf][i]
  OBVIOUS
<1>4. variant \in VariantSet
  <2>1. Top(c).entryOf \in Entries /\ i \in 1..Len(variants[Top(c).entryOf])
    BY <1>2 DEF Reuse, Fits, Frames
  <2>2. variants[Top(c).entryOf] \in Seq(VariantSet)
    BY <2>1 DEF Inv, TypeOK
  <2> QED  BY <1>3, <2>1, <2>2, ElementOfSeq
<1>5. PICK t : t = Resumed(Tail(s), variant.value, variant.reads)
  OBVIOUS
<1>6. /\ t \in Seq(Frames) /\ Len(t) = Len(s) - 1
      /\ \A k \in 1..Len(t) : GoesOn(t[k], s[k + 1])
  BY <1>2, <1>4, <1>5, ResumedStack DEF VariantSet
<1>7. stack' = [stack EXCEPT ![c] = t] /\ UNCHANGED <<bound, variants, gate, calls, failures>>
  BY <1>1, <1>3, <1>5 DEF Reuse
<1>8. \A k \in 1..Len(t) : FrameGood(t[k])
  BY <1>2, <1>6 DEF FrameGood, GoesOn
<1>9. ASSUME NEW k \in 1..Len(t), t[k].at = "body"
      PROVE  /\ gate[t[k].entryOf] = c
             /\ \A m \in 1..Len(t) : t[m].at = "body" /\ t[m].entryOf = t[k].entryOf => m = k
  <2>1. k + 1 \in 1..Len(s) /\ s[k + 1].at = "body" /\ s[k + 1].entryOf = t[k].entryOf
    BY <1>2, <1>6, <1>9 DEF GoesOn
  <2>2. /\ gate[s[k + 1].entryOf] = c
        /\ \A m \in 1..Len(s) : s[m].at = "body" /\ s[m].entryOf = s[k + 1].entryOf => m = k + 1
    BY <2>1, <1>1 DEF Inv, OneComputation
  <2>3. ASSUME NEW m \in 1..Len(t), t[m].at = "body", t[m].entryOf = t[k].entryOf
        PROVE  m = k
    <3>1. m + 1 \in 1..Len(s) /\ s[m + 1].at = "body" /\ s[m + 1].entryOf = t[k].entryOf
      BY <1>2, <1>6, <2>3 DEF GoesOn
    <3> QED  BY <3>1, <2>1, <2>2
  <2> QED  BY <2>1, <2>2, <2>3
<1>10. /\ gate' \in [Entries -> Callers \cup {Nobody}]
       /\ calls' \in 0..MaxCalls /\ failures' \in 0..MaxFailures
  BY <1>7 DEF Inv, TypeOK
<1> QED  BY <1>6, <1>7, <1>8, <1>9, <1>10, QuietStep

(* A panic, or a cancelled call, leaves nothing of c behind. *)
LEMMA UnwindKeeps ==
  ASSUME Inv, NEW c \in Callers, Unwind(c), UNCHANGED <<bound, variants, calls>>,
         failures' \in 0..MaxFailures
  PROVE  Inv'
<1>1. PICK t : t = << >>
  OBVIOUS
<1>2. t \in Seq(Frames) /\ Len(t) = 0 /\ stack' = [stack EXCEPT ![c] = t]
  BY <1>1, EmptySeq DEF Unwind
<1>3. /\ gate' \in [Entries -> Callers \cup {Nobody}]
      /\ \A e \in Entries : gate[e] \in Callers \ {c} => gate'[e] = gate[e]
      /\ calls' \in 0..MaxCalls
  BY DEF Unwind, WithoutGates, Inv, TypeOK
<1>4. 1..Len(t) = {}
  BY <1>2
<1> QED  BY <1>2, <1>3, <1>4, QuietStep

(* A step that changes the innermost frame of c into x, and of the gates   *)
(* at most one that nobody held.                                           *)
LEMMA TopSet ==
  ASSUME Inv, NEW c \in Callers, stack[c] # << >>,
         NEW x \in Frames', SetTop(c, x), x.entryOf = Top(c).entryOf, FrameGood(x),
         Frames \subseteq Frames', VariantSet \subseteq VariantSet',
         bound' \in Seq(Values), variants' = variants,
         gate' \in [Entries -> Callers \cup {Nobody}],
         calls' \in 0..MaxCalls, failures' \in 0..MaxFailures,
         \A e \in Entries : gate[e] \in Callers => gate'[e] = gate[e],
         x.at = "body" => /\ gate'[x.entryOf] = c
                          /\ Top(c).at = "body" \/ gate[x.entryOf] = Nobody
  PROVE  Inv'
<1>1. PICK s : s = stack[c]
  OBVIOUS
<1>2. /\ s \in Seq(Frames) /\ s # << >> /\ Len(s) \in Nat \ {0}
      /\ \A k \in 1..Len(s) : s[k] \in Frames /\ FrameGood(s[k])
      /\ Top(c) = s[1]
  BY <1>1, Stacks DEF Inv, FramesGood
<1>3. PICK t : t = <<x>> \o Tail(s)
  OBVIOUS
<1>4. /\ t \in Seq(Frames') /\ Len(t) = Len(s) /\ t[1] = x
      /\ \A k \in 2..Len(s) : t[k] = s[k]
  <2>1. s \in Seq(Frames')
    BY <1>2, WiderSeq
  <2> QED  BY <2>1, <1>2, <1>3, ReplacedHead
<1>5. stack' = [stack EXCEPT ![c] = t]
  BY <1>1, <1>3 DEF SetTop
<1>6. \A k \in 1..Len(t) : FrameGood(t[k])
  BY <1>2, <1>4
<1>7. \A k \in 1..Len(t) : FrameGood(t[k])'
  BY <1>6 DEF FrameGood, NoneFits, Matches
<1>8. ASSUME NEW k \in 2..Len(t), t[k].at = "body"
      PROVE  /\ gate[t[k].entryOf] = c /\ gate'[t[k].entryOf] = c
             /\ \A m \in 1..Len(s) : s[m].at = "body" /\ s[m].entryOf = t[k].entryOf => m = k
  <2>1. k \in 1..Len(s) /\ t[k] = s[k] /\ s[k] \in Frames
    BY <1>2, <1>4
  <2>2. s[k].entryOf \in Entries
    BY <2>1 DEF Frames
  <2>3. /\ gate[s[k].entryOf] = c
        /\ \A m \in 1..Len(s) : s[m].at = "body" /\ s[m].entryOf = s[k].entryOf => m = k
    BY <2>1, <1>8, <1>1 DEF Inv, OneComputation
  <2> QED  BY <2>1, <2>2, <2>3
<1>9. ASSUME NEW k \in 1..Len(t), t[k].at = "body"
      PROVE  /\ gate'[t[k].entryOf] = c
             /\ \A m \in 1..Len(t) : t[m].at = "body" /\ t[m].entryOf = t[k].entryOf => m = k
  <2>1. ASSUME NEW m \in 2..Len(t), t[m].at = "body", x.at = "body", t[m].entryOf = x.entryOf
        PROVE  FALSE
    BY <2>1, <1>2, <1>4, <1>8, MemoizeAssumption
  <2>2. CASE k = 1
    BY <2>1, <2>2, <1>4, <1>9
  <2>3. CASE k # 1
    <3>1. k \in 2..Len(t)
      BY <2>3, <1>2, <1>4
    <3> QED  BY <3>1, <2>1, <1>2, <1>4, <1>8, <1>9
  <2> QED  BY <2>2, <2>3
<1>10. variants' \in [Entries -> Seq(VariantSet')]
  <2>1. \A e \in Entries : variants[e] \in Seq(VariantSet')
    BY WiderSeq DEF Inv, TypeOK
  <2> QED  BY <2>1 DEF Inv, TypeOK
<1>11. RunsOncePerBindings'
  BY DEF Inv, RunsOncePerBindings
<1> QED  BY <1>4, <1>5, <1>7, <1>9, <1>10, <1>11, Step

(* A lookup that finds nothing. *)
LEMMA MissKeeps ==
  ASSUME Inv, NEW c \in Callers, Miss(c)
  PROVE  Inv'
<1>1. PICK x : x = [Top(c) EXCEPT !.at = "gate"]
  OBVIOUS
<1>2. stack[c] # << >> /\ Top(c) = stack[c][1] /\ Top(c) \in Frames /\ 1 \in 1..Len(stack[c])
  BY Stacks DEF Inv, Miss, TopIs
<1>3. FrameGood(Top(c)) /\ Top(c).at = "lookup"
  BY <1>2 DEF Inv, FramesGood, Miss, TopIs
<1>4. x \in Frames /\ x.entryOf = Top(c).entryOf /\ FrameGood(x) /\ x.at = "gate"
  BY <1>1, <1>2, <1>3 DEF Frames, FrameGood
<1>5. /\ SetTop(c, x) /\ UNCHANGED <<bound, variants, gate, calls, failures>>
  BY <1>1 DEF Miss
<1>6. Frames' = Frames /\ VariantSet' = VariantSet
  BY <1>5 DEF Frames, VariantSet, ReadSet
<1>7. /\ bound' \in Seq(Values) /\ gate' \in [Entries -> Callers \cup {Nobody}]
      /\ calls' \in 0..MaxCalls /\ failures' \in 0..MaxFailures
  BY <1>5 DEF Inv, TypeOK
<1> QED  BY <1>2, <1>4, <1>5, <1>6, <1>7, TopSet

(* The gate is taken, and the body starts. *)
LEMMA EnterKeeps ==
  ASSUME Inv, NEW c \in Callers, Enter(c)
  PROVE  Inv'
<1>1. PICK x : x = [Top(c) EXCEPT !.at = "body"]
  OBVIOUS
<1>2. stack[c] # << >> /\ Top(c) = stack[c][1] /\ Top(c) \in Frames /\ 1 \in 1..Len(stack[c])
  BY Stacks DEF Inv, Enter, AtGate, TopIs
<1>3. FrameGood(Top(c)) /\ Top(c).at = "gate"
  BY <1>2 DEF Inv, FramesGood, Enter, AtGate, TopIs
<1>4. x \in Frames /\ x.entryOf = Top(c).entryOf /\ x.at = "body" /\ x.entryOf \in Entries
  BY <1>1, <1>2 DEF Frames
<1>5. FrameGood(x)
  BY <1>1, <1>2, <1>3 DEF Frames, FrameGood, Enter, StillMissing
<1>6. /\ SetTop(c, x) /\ UNCHANGED <<bound, variants, calls, failures>>
      /\ gate' = [gate EXCEPT ![x.entryOf] = c] /\ gate[x.entryOf] = Nobody
  BY <1>1, <1>4 DEF Enter, AtGate
<1>7. Frames' = Frames /\ VariantSet' = VariantSet
  BY <1>6 DEF Frames, VariantSet, ReadSet
<1>8. /\ bound' \in Seq(Values) /\ gate' \in [Entries -> Callers \cup {Nobody}]
      /\ calls' \in 0..MaxCalls /\ failures' \in 0..MaxFailures
      /\ \A e \in Entries : gate[e] \in Callers => gate'[e] = gate[e]
      /\ gate'[x.entryOf] = c
  BY <1>4, <1>6, MemoizeAssumption DEF Inv, TypeOK
<1> QED  BY <1>2, <1>4, <1>5, <1>6, <1>7, <1>8, TopSet

(* What the frame of a body that goes on may change. *)
LEMMA BodyGoesOn ==
  ASSUME Inv, NEW c \in Callers, TopIs(c, "body"),
         NEW x \in Frames', SetTop(c, x),
         x.entryOf = Top(c).entryOf, x.entry = Top(c).entry, x.at = "body",
         Matches(x.reads, x.entry),
         Frames \subseteq Frames', VariantSet \subseteq VariantSet',
         bound' \in Seq(Values), UNCHANGED <<variants, gate, calls, failures>>
  PROVE  Inv'
<1>1. stack[c] # << >> /\ Top(c) = stack[c][1] /\ Top(c) \in Frames /\ 1 \in 1..Len(stack[c])
  BY Stacks DEF Inv, TopIs
<1>2. FrameGood(Top(c)) /\ Top(c).at = "body" /\ gate[Top(c).entryOf] = c
  BY <1>1 DEF Inv, FramesGood, TopIs, OneComputation
<1>3. FrameGood(x)
  BY <1>2 DEF FrameGood
<1>4. /\ gate' \in [Entries -> Callers \cup {Nobody}]
      /\ calls' \in 0..MaxCalls /\ failures' \in 0..MaxFailures
  BY DEF Inv, TypeOK
<1> QED  BY <1>1, <1>2, <1>3, <1>4, TopSet

(* A lookup in the request context. *)
LEMMA ReadKeeps ==
  ASSUME Inv, NEW c \in Callers, NEW t \in Types, Read(c, t)
  PROVE  Inv'
<1>1. PICK f : f = Top(c)
  OBVIOUS
<1>2. TopIs(c, "body") /\ f \in Frames /\ f.at = "body" /\ FrameGood(f)
  <2>1. TopIs(c, "body") /\ f = stack[c][1] /\ f \in Frames /\ 1 \in 1..Len(stack[c])
    BY <1>1, Stacks DEF Inv, Read, Does, TopIs
  <2> QED  BY <2>1, <1>1 DEF Inv, FramesGood, TopIs
<1>3. f.scope \in Scopes(Len(bound)) /\ Len(bound) \in Nat
  BY <1>2, LenProperties DEF Frames, Inv, TypeOK
<1>4. PICK id : id = f.scope[t]
  OBVIOUS
<1>5. id \in 0..Len(bound)
  BY <1>3, <1>4 DEF Scopes
<1>6. ValueOf(id) \in Values \cup {NoValue}
  BY <1>3, <1>5, ElementOfSeq DEF ValueOf, Inv, TypeOK
<1>7. PICK new : new = Merge(f, {[type |-> t, id |-> id]})
  OBVIOUS
<1>8. new \in SUBSET ReadSet /\ Matches(new, f.entry)
  BY <1>2, <1>5, <1>7 DEF Merge, Frames, ReadSet, Matches, FrameGood
<1>9. PICK x : x = [Saw(f, ValueOf(id)) EXCEPT !.reads = new]
  OBVIOUS
<1>10. Append(f.seen, ValueOf(id)) \in Seq(Values \cup {NoValue})
  BY <1>2, <1>6, AppendProperties DEF Frames
<1>11. /\ x \in Frames /\ x.entryOf = f.entryOf /\ x.entry = f.entry /\ x.at = "body"
       /\ x.reads = new
  BY <1>2, <1>8, <1>9, <1>10 DEF Frames, Saw
<1>12. SetTop(c, x) /\ UNCHANGED <<bound, variants, gate, calls, failures>>
  BY <1>1, <1>4, <1>7, <1>9 DEF Read
<1>13. Frames' = Frames /\ VariantSet' = VariantSet
  BY <1>12 DEF Frames, VariantSet, ReadSet
<1>14. bound' \in Seq(Values)
  BY <1>12 DEF Inv, TypeOK
<1> QED  BY <1>1, <1>2, <1>8, <1>11, <1>12, <1>13, <1>14, BodyGoesOn

(* The body goes on with its own handle. *)
LEMMA BackKeeps ==
  ASSUME Inv, NEW c \in Callers, Back(c)
  PROVE  Inv'
<1>1. PICK f : f = Top(c)
  OBVIOUS
<1>2. TopIs(c, "body") /\ f \in Frames /\ f.at = "body" /\ FrameGood(f)
  <2>1. TopIs(c, "body") /\ f = stack[c][1] /\ f \in Frames /\ 1 \in 1..Len(stack[c])
    BY <1>1, Stacks DEF Inv, Back, Does, TopIs
  <2> QED  BY <2>1, <1>1 DEF Inv, FramesGood, TopIs
<1>3. PICK x : x = [Saw(f, NoValue) EXCEPT !.scope = f.entry]
  OBVIOUS
<1>4. Append(f.seen, NoValue) \in Seq(Values \cup {NoValue})
  BY <1>2, AppendProperties DEF Frames
<1>5. /\ x \in Frames /\ x.entryOf = f.entryOf /\ x.entry = f.entry /\ x.at = "body"
      /\ x.reads = f.reads
  BY <1>2, <1>3, <1>4 DEF Frames, Saw
<1>6. SetTop(c, x) /\ UNCHANGED <<bound, variants, gate, calls, failures>>
  BY <1>1, <1>3 DEF Back
<1>7. Frames' = Frames /\ VariantSet' = VariantSet /\ bound' \in Seq(Values)
  BY <1>6 DEF Frames, VariantSet, ReadSet, Inv, TypeOK
<1> QED  BY <1>1, <1>2, <1>5, <1>6, <1>7, BodyGoesOn DEF FrameGood

(* A child scope with a binding of its own. *)
LEMMA WithKeeps ==
  ASSUME Inv, NEW c \in Callers, NEW t \in Types, NEW v \in Values, With(c, t, v)
  PROVE  Inv'
<1>1. PICK f : f = Top(c)
  OBVIOUS
<1>2. TopIs(c, "body") /\ f \in Frames /\ f.at = "body" /\ FrameGood(f)
  <2>1. TopIs(c, "body") /\ f = stack[c][1] /\ f \in Frames /\ 1 \in 1..Len(stack[c])
    BY <1>1, Stacks DEF Inv, With, Does, TopIs
  <2> QED  BY <2>1, <1>1 DEF Inv, FramesGood, TopIs
<1>3. /\ bound \in Seq(Values) /\ Len(bound) \in Nat /\ FreshId = Len(bound) + 1
      /\ bound' \in Seq(Values) /\ Len(bound') = Len(bound) + 1
  BY LenProperties, AppendProperties DEF Inv, TypeOK, With, FreshId
<1>4. Frames \subseteq Frames' /\ VariantSet \subseteq VariantSet'
  <2>1. Scopes(Len(bound)) \subseteq Scopes(Len(bound'))
    BY <1>3, FramesGrow
  <2>2. ReadSet \subseteq ReadSet'
    BY <1>3 DEF ReadSet
  <2> QED  BY <2>1, <2>2 DEF Frames, VariantSet
<1>5. PICK scope : scope = [f.scope EXCEPT ![t] = FreshId]
  OBVIOUS
<1>6. scope \in Scopes(Len(bound'))
  BY <1>2, <1>3, <1>5 DEF Frames, Scopes
<1>7. PICK x : x = [Saw(f, NoValue) EXCEPT !.scope = scope]
  OBVIOUS
<1>8. Append(f.seen, NoValue) \in Seq(Values \cup {NoValue})
  BY <1>2, AppendProperties DEF Frames
<1>9. /\ x.entryOf = f.entryOf /\ x.entry = f.entry /\ x.at = "body" /\ x.reads = f.reads
      /\ x \in Frames'
  <2>1. f \in Frames'
    BY <1>2, <1>4
  <2> QED  BY <2>1, <1>2, <1>6, <1>7, <1>8 DEF Frames, Saw
<1>10. SetTop(c, x) /\ UNCHANGED <<variants, gate, calls, failures>>
  <2>1. [Saw(f, NoValue) EXCEPT !.scope[t] = FreshId] = x
    BY <1>2, <1>5, <1>7 DEF Frames, Saw
  <2> QED  BY <2>1, <1>1 DEF With
<1> QED  BY <1>1, <1>2, <1>3, <1>4, <1>9, <1>10, BodyGoesOn DEF FrameGood

(* A memoized call inside of a body. *)
LEMMA NestedKeeps ==
  ASSUME Inv, NEW c \in Callers, NEW e \in Entries, Nested(c, e)
  PROVE  Inv'
<1>1. PICK s : s = stack[c]
  OBVIOUS
<1>2. /\ s \in Seq(Frames) /\ s # << >> /\ Len(s) \in Nat \ {0} /\ Top(c) \in Frames
      /\ \A k \in 1..Len(s) : s[k] \in Frames /\ FrameGood(s[k])
  BY <1>1, Stacks DEF Inv, FramesGood, Nested, Does, TopIs
<1>3. PICK f : f = Frame(e, Top(c).scope)
  OBVIOUS
<1>4. f \in Frames /\ FrameGood(f) /\ f.at = "lookup"
  BY <1>2, <1>3, NewFrame DEF Frames
<1>5. PICK t : t = <<f>> \o s
  OBVIOUS
<1>6. /\ t \in Seq(Frames) /\ Len(t) = Len(s) + 1 /\ t[1] = f
      /\ \A k \in 1..Len(s) : t[k + 1] = s[k]
  BY <1>2, <1>4, <1>5, Pushed
<1>7. /\ stack' = [stack EXCEPT ![c] = t] /\ UNCHANGED <<bound, variants, gate, calls, failures>>
  BY <1>1, <1>3, <1>5 DEF Nested
<1>8. ASSUME NEW k \in 1..Len(t)
      PROVE  k = 1 \/ (k - 1 \in 1..Len(s) /\ t[k] = s[k - 1])
  BY <1>2, <1>6
<1>9. \A k \in 1..Len(t) : FrameGood(t[k])
  BY <1>2, <1>4, <1>6, <1>8
<1>10. ASSUME NEW k \in 1..Len(t), t[k].at = "body"
       PROVE  /\ gate[t[k].entryOf] = c
              /\ \A m \in 1..Len(t) : t[m].at = "body" /\ t[m].entryOf = t[k].entryOf => m = k
  <2>1. k - 1 \in 1..Len(s) /\ t[k] = s[k - 1]
    BY <1>4, <1>6, <1>8, <1>10
  <2>2. /\ gate[t[k].entryOf] = c
        /\ \A m \in 1..Len(s) : s[m].at = "body" /\ s[m].entryOf = t[k].entryOf => m = k - 1
    BY <2>1, <1>1, <1>10 DEF Inv, OneComputation
  <2>3. ASSUME NEW m \in 1..Len(t), t[m].at = "body", t[m].entryOf = t[k].entryOf
        PROVE  m = k
    <3>1. m - 1 \in 1..Len(s) /\ t[m] = s[m - 1]
      BY <1>4, <1>6, <1>8, <2>3
    <3> QED  BY <3>1, <2>2, <2>3
  <2> QED  BY <2>2, <2>3
<1>11. /\ gate' \in [Entries -> Callers \cup {Nobody}]
       /\ calls' \in 0..MaxCalls /\ failures' \in 0..MaxFailures
  BY <1>7 DEF Inv, TypeOK
<1> QED  BY <1>6, <1>7, <1>9, <1>10, <1>11, QuietStep

(* The body returns, and what it computed is cached.  The new variant is   *)
(* the first that fits its scope; no other body of the entry runs for it   *)
(* to contradict.                                                          *)
LEMMA ReturnKeeps ==
  ASSUME Inv, NEW c \in Callers, NEW v \in Values, Return(c, v)
  PROVE  Inv'
<1>1. PICK s : s = stack[c]
  OBVIOUS
<1>2. PICK f : f = Top(c)
  OBVIOUS
<1>3. PICK e : e = f.entryOf
  OBVIOUS
<1>4. /\ s \in Seq(Frames) /\ s # << >> /\ Len(s) \in Nat \ {0} /\ f = s[1]
      /\ \A k \in 1..Len(s) : s[k] \in Frames /\ FrameGood(s[k])
      /\ f \in Frames /\ f.at = "body" /\ FrameGood(f)
  BY <1>1, <1>2, Stacks DEF Inv, FramesGood, Return, Does, TopIs
<1>5. /\ e \in Entries /\ gate[e] = c
      /\ \A m \in 1..Len(s) : s[m].at = "body" /\ s[m].entryOf = e => m = 1
  BY <1>1, <1>3, <1>4 DEF Inv, OneComputation, Frames
<1>6. PICK new : new = [value |-> v, reads |-> f.reads, entry |-> f.entry]
  OBVIOUS
<1>7. /\ new \in VariantSet /\ new.reads = f.reads /\ new.entry = f.entry
  BY <1>4, <1>6 DEF VariantSet, Frames
<1>8. /\ variants' = [variants EXCEPT ![e] = Append(@, new)]
      /\ gate' = [gate EXCEPT ![e] = Nobody]
      /\ stack' = [stack EXCEPT ![c] = Resumed(Tail(s), v, f.reads)]
      /\ UNCHANGED <<bound, calls, failures>>
  BY <1>1, <1>2, <1>3, <1>6 DEF Return
<1>9. Frames' = Frames /\ VariantSet' = VariantSet
  BY <1>8 DEF Frames, VariantSet, ReadSet
<1>10. PICK old : old = variants[e]
  OBVIOUS
<1>11. /\ old \in Seq(VariantSet) /\ Len(old) \in Nat
       /\ variants' \in [Entries -> Seq(VariantSet)]
       /\ variants'[e] = Append(old, new)
       /\ \A d \in Entries \ {e} : variants'[d] = variants[d]
  BY <1>5, <1>7, <1>8, <1>10, AppendProperties, LenProperties DEF Inv, TypeOK
<1>12. /\ Len(Append(old, new)) = Len(old) + 1 /\ Append(old, new)[Len(old) + 1] = new
       /\ \A k \in 1..Len(old) : Append(old, new)[k] = old[k]
  BY <1>7, <1>11, AppendProperties
<1>13. RunsOncePerBindings'
  <2> SUFFICES ASSUME NEW d \in Entries, NEW j \in 1..Len(variants'[d]), NEW i \in 1..j
               PROVE  Matches(variants'[d][i].reads, variants'[d][j].entry) <=> i = j
    BY DEF RunsOncePerBindings, Matches
  <2>1. CASE d # e
    BY <2>1, <1>11 DEF Inv, RunsOncePerBindings
  <2>2. CASE d = e /\ j # Len(old) + 1
    <3>1. /\ j \in 1..Len(old) /\ i \in 1..Len(old)
          /\ variants'[d][i] = old[i] /\ variants'[d][j] = old[j]
      BY <2>2, <1>11, <1>12
    <3> QED  BY <3>1, <1>5, <1>10 DEF Inv, RunsOncePerBindings
  <2>3. CASE d = e /\ j = Len(old) + 1
    <3>1. variants'[d][j].entry = f.entry
      BY <2>3, <1>7, <1>11, <1>12
    <3>2. CASE i = j
      BY <2>3, <3>1, <3>2, <1>4, <1>7, <1>11, <1>12 DEF FrameGood
    <3>3. CASE i # j
      <4>1. i \in 1..Len(old) /\ variants'[d][i] = old[i]
        BY <2>3, <3>3, <1>11, <1>12
      <4>2. ~Matches(old[i].reads, f.entry)
        BY <4>1, <1>3, <1>4, <1>10 DEF FrameGood, NoneFits
      <4> QED  BY <3>1, <3>3, <4>1, <4>2
    <3> QED  BY <3>2, <3>3
  <2> QED  BY <2>1, <2>2, <2>3
<1>14. PICK t : t = Resumed(Tail(s), v, f.reads)
  OBVIOUS
<1>15. /\ t \in Seq(Frames) /\ Len(t) = Len(s) - 1
       /\ \A k \in 1..Len(t) : GoesOn(t[k], s[k + 1])
  <2>1. f.reads \in SUBSET ReadSet /\ v \in Values \cup {NoValue}
    BY <1>4 DEF Frames
  <2> QED  BY <2>1, <1>4, <1>14, ResumedStack
<1>16. ASSUME NEW k \in 1..Len(t), t[k].at = "body"
       PROVE  /\ t[k].entryOf \in Entries \ {e} /\ gate[t[k].entryOf] = c
              /\ \A m \in 1..Len(t) : t[m].at = "body" /\ t[m].entryOf = t[k].entryOf => m = k
  <2>1. k + 1 \in 1..Len(s) /\ s[k + 1].at = "body" /\ s[k + 1].entryOf = t[k].entryOf
    BY <1>4, <1>15, <1>16 DEF GoesOn
  <2>2. t[k].entryOf \in Entries \ {e}
    <3>1. s[k + 1] \in Frames /\ k + 1 # 1
      BY <2>1, <1>4
    <3>2. t[k].entryOf # e
      BY <2>1, <3>1, <1>5
    <3> QED  BY <2>1, <3>1, <3>2 DEF Frames
  <2>3. /\ gate[s[k + 1].entryOf] = c
        /\ \A m \in 1..Len(s) : s[m].at = "body" /\ s[m].entryOf = s[k + 1].entryOf => m = k + 1
    BY <2>1, <1>1 DEF Inv, OneComputation
  <2>4. ASSUME NEW m \in 1..Len(t), t[m].at = "body", t[m].entryOf = t[k].entryOf
        PROVE  m = k
    <3>1. m + 1 \in 1..Len(s) /\ s[m + 1].at = "body" /\ s[m + 1].entryOf = t[k].entryOf
      BY <1>4, <1>15, <2>4 DEF GoesOn
    <3> QED  BY <3>1, <2>1, <2>3
  <2> QED  BY <2>1, <2>2, <2>3, <2>4
<1>17. ASSUME NEW k \in 1..Len(t)
       PROVE  FrameGood(t[k])'
  <2>1. FrameGood(t[k])
    <3>1. k + 1 \in 1..Len(s)
      BY <1>4, <1>15
    <3> QED  BY <3>1, <1>4, <1>15 DEF FrameGood, GoesOn
  <2>2. t[k].at = "body" => variants'[t[k].entryOf] = variants[t[k].entryOf]
    BY <1>11, <1>16
  <2> QED  BY <2>1, <2>2 DEF FrameGood, NoneFits, Matches
<1>18. ASSUME NEW k \in 1..Len(t), t[k].at = "body"
       PROVE  gate'[t[k].entryOf] = c
  BY <1>8, <1>16, <1>18 DEF Inv, TypeOK
<1>19. /\ gate' \in [Entries -> Callers \cup {Nobody}]
       /\ \A d \in Entries : gate[d] \in Callers \ {c} => gate'[d] = gate[d]
       /\ \A d \in Entries : gate[d] # c => variants'[d] = variants[d]
       /\ bound' \in Seq(Values)
       /\ calls' \in 0..MaxCalls /\ failures' \in 0..MaxFailures
  BY <1>5, <1>8, <1>11 DEF Inv, TypeOK
<1>20. stack' = [stack EXCEPT ![c] = t]
  BY <1>8, <1>14
<1> QED  BY <1>9, <1>11, <1>13, <1>15, <1>16, <1>17, <1>18, <1>19, <1>20, Step

-----------------------------------------------------------------------------
(* The invariant, and what follows from it. *)

(* The bindings the request starts with stay registered, so that the       *)
(* scopes functions are called from stay scopes.                           *)
Grown == bound \in Seq(Values) /\ Len(Registered) <= Len(bound)

LEMMA StepInv ==
  ASSUME Inv, Grown, Next
  PROVE  Inv'
<1>1. PICK c \in Callers :
         \/ \E e \in Entries, scope \in RootScopes : Call(c, e, scope)
         \/ stack[c] # << >> /\ CallerStep(c)
         \/ Fail(c)
  BY DEF Next
<1>2. CASE \E e \in Entries, scope \in RootScopes : Call(c, e, scope)
  <2>1. RootScopes \subseteq Scopes(Len(bound))
    <3>1. Len(Registered) \in Nat /\ Len(bound) \in Nat
      BY MemoizeAssumption, LenProperties DEF Grown
    <3>2. Scopes(Len(Registered)) \subseteq Scopes(Len(bound))
      BY <3>1, FramesGrow DEF Grown
    <3> QED  BY <3>2, MemoizeAssumption
  <2> QED  BY <1>2, <2>1, CallKeeps
<1>3. CASE stack[c] # << >> /\ CallerStep(c)
  <2>1. CASE \E i \in 1..Len(variants[Top(c).entryOf]) : Hit(c, i) \/ HitAtGate(c, i)
    BY <1>3, <2>1, ReuseKeeps DEF Hit, HitAtGate
  <2>2. CASE Miss(c)
    BY <2>2, MissKeeps
  <2>3. CASE PanicRecursive(c)
    <3>1. failures' \in 0..MaxFailures
      BY <2>3 DEF PanicRecursive, Inv, TypeOK
    <3> QED  BY <2>3, <3>1, UnwindKeeps DEF PanicRecursive
  <2>4. CASE Enter(c)
    BY <2>4, EnterKeeps
  <2>5. CASE BodyStep(c)
    BY <2>5, ReadKeeps, WithKeeps, BackKeeps, NestedKeeps, ReturnKeeps DEF BodyStep
  <2> QED  BY <1>3, <2>1, <2>2, <2>3, <2>4, <2>5 DEF CallerStep
<1>4. CASE Fail(c)
  <2>1. failures' \in 0..MaxFailures
    BY <1>4, MemoizeAssumption DEF Fail, Inv, TypeOK
  <2> QED  BY <1>4, <2>1, UnwindKeeps DEF Fail
<1> QED  BY <1>1, <1>2, <1>3, <1>4

LEMMA GrownStep ==
  ASSUME Inv, Grown, Next
  PROVE  Grown'
<1>1. UNCHANGED bound \/ \E v \in Values : bound' = Append(bound, v)
  BY DEF Next, Call, CallerStep, Hit, HitAtGate, Reuse, Miss, PanicRecursive, Enter, BodyStep,
         Read, With, Back, Nested, Return, Fail
<1>2. CASE UNCHANGED bound
  BY <1>2 DEF Grown
<1>3. CASE \E v \in Values : bound' = Append(bound, v)
  BY <1>3, AppendProperties, LenProperties, MemoizeAssumption DEF Grown
<1> QED  BY <1>1, <1>2, <1>3

LEMMA StutterInv ==
  ASSUME Inv, Grown, UNCHANGED vars
  PROVE  Inv' /\ Grown'
<1>1. TypeOK'
  BY DEF vars, Inv, TypeOK, Frames, VariantSet, ReadSet, Scopes
<1>2. OneComputation' /\ RunsOncePerBindings'
  BY DEF vars, Inv, OneComputation, RunsOncePerBindings, Matches
<1>3. FramesGood'
  BY DEF vars, Inv, FramesGood, FrameGood, NoneFits, Matches
<1> QED  BY <1>1, <1>2, <1>3 DEF Inv, Grown, vars

LEMMA MemoizeInvariant == Spec => [](Inv /\ Grown)
<1>1. Init => Inv /\ Grown
  BY InitInv, MemoizeAssumption, LenProperties DEF Init, Grown
<1>2. Inv /\ Grown /\ [Next]_vars => (Inv /\ Grown)'
  BY StepInv, GrownStep, StutterInv
<1> QED  BY <1>1, <1>2, PTL DEF Spec

(* Whatever the bodies do, a scope or a recorded read never names a        *)
(* binding that was not registered (BindingId::new, Cx::with).             *)
THEOREM MemoizeTypes == Spec => []TypeOK
<1>1. Inv => TypeOK
  BY DEF Inv
<1> QED  BY <1>1, MemoizeInvariant, PTL

(* get_or_init() computes at most one result for a set of observed         *)
(* bindings, and a variant fits the scope it was computed in.              *)
THEOREM BodyRunsOncePerBindings == Spec => []RunsOncePerBindings
<1>1. Inv => RunsOncePerBindings
  BY DEF Inv
<1> QED  BY <1>1, MemoizeInvariant, PTL

(* The gate lets one computation of an entry run at a time, also after     *)
(* panics and cancelled calls.                                             *)
THEOREM OneComputationAtATime == Spec => []OneComputation
<1>1. Inv => OneComputation
  BY DEF Inv
<1> QED  BY <1>1, MemoizeInvariant, PTL

-----------------------------------------------------------------------------
(* The reference. *)

Results == [ColdRuns -> Known]

LEMMA Operations ==
  /\ \A t \in Types : ReadOp(t).op = "read" /\ ReadOp(t).type = t
  /\ \A t \in Types, v \in Values :
        WithOp(t, v).op = "with" /\ WithOp(t, v).type = t /\ WithOp(t, v).value = v
  /\ BackOp.op = "back"
  /\ \A e \in Entries : CallOp(e).op = "call" /\ CallOp(e).entry = e
  /\ \A v \in Values : ReturnOp(v).op = "return" /\ ReturnOp(v).value = v
  BY DEF ReadOp, WithOp, BackOp, CallOp, ReturnOp

LEMMA NextRun ==
  ASSUME NEW run \in ColdRuns, NEW now \in Context, NEW v \in Known
  PROVE  GoesOnFrom(run, now, v) \in ColdRuns
<1>1. Append(run.seen, v) \in Seq(Known)
  BY AppendProperties DEF ColdRuns
<1> QED BY <1>1 DEF GoesOnFrom, ColdRuns

LEMMA FirstRun ==
  ASSUME NEW e \in Entries, NEW vals \in Context
  PROVE  ColdStart(e, vals) \in ColdRuns
  BY EmptySeq DEF ColdStart, ColdRuns

(* What a step of a run comes to, for each operation. *)
LEMMA StepRead ==
  ASSUME NEW run, NEW r, NEW t \in Types, Body(run.entry, run.seen) = ReadOp(t)
  PROVE  ColdStep(r, run) = r[GoesOnFrom(run, run.now, run.now[t])]
  BY Operations DEF ColdStep

LEMMA StepWith ==
  ASSUME NEW run, NEW r, NEW t \in Types, NEW v \in Values,
         Body(run.entry, run.seen) = WithOp(t, v)
  PROVE  ColdStep(r, run) = r[GoesOnFrom(run, [run.now EXCEPT ![t] = v], NoValue)]
  BY Operations DEF ColdStep

LEMMA StepBack ==
  ASSUME NEW run, NEW r, Body(run.entry, run.seen) = BackOp
  PROVE  ColdStep(r, run) = r[GoesOnFrom(run, run.vals, NoValue)]
  BY Operations DEF ColdStep

LEMMA StepCall ==
  ASSUME NEW run, NEW r, NEW e \in Entries, Body(run.entry, run.seen) = CallOp(e)
  PROVE  ColdStep(r, run) =
            IF r[ColdStart(e, run.now)] = NoValue THEN NoValue
            ELSE r[GoesOnFrom(run, run.now, r[ColdStart(e, run.now)])]
  BY Operations DEF ColdStep

LEMMA StepReturn ==
  ASSUME NEW run, NEW r, NEW v \in Values, Body(run.entry, run.seen) = ReturnOp(v)
  PROVE  ColdStep(r, run) = v
  BY Operations DEF ColdStep

LEMMA StepOther ==
  ASSUME NEW run, NEW r
  PROVE  \/ \E t \in Types : Body(run.entry, run.seen) = ReadOp(t)
         \/ \E t \in Types, v \in Values : Body(run.entry, run.seen) = WithOp(t, v)
         \/ Body(run.entry, run.seen) = BackOp
         \/ \E e \in Entries : Body(run.entry, run.seen) = CallOp(e)
         \/ \E v \in Values : Body(run.entry, run.seen) = ReturnOp(v)
         \/ ColdStep(r, run) = NoValue
  BY DEF ColdStep

(* A step from known results gives one. *)
LEMMA StepKnown ==
  ASSUME NEW run \in ColdRuns, NEW r \in Results
  PROVE  ColdStep(r, run) \in Known
<1>1. PICK next : next = Body(run.entry, run.seen)
  OBVIOUS
<1>2. run.now \in Context /\ run.vals \in Context /\ NoValue \in Known /\ Values \subseteq Known
  BY DEF ColdRuns, Known
<1>3. \A now \in Context, v \in Known : r[GoesOnFrom(run, now, v)] \in Known
  BY NextRun DEF Results
<1>4. CASE \E t \in Types : next = ReadOp(t)
  BY <1>1, <1>2, <1>3, <1>4, StepRead DEF Context
<1>5. CASE \E t \in Types, v \in Values : next = WithOp(t, v)
  <2>1. PICK t \in Types, v \in Values : next = WithOp(t, v)
    BY <1>5
  <2>2. [run.now EXCEPT ![t] = v] \in Context
    BY <1>2 DEF Context
  <2> QED BY <1>1, <1>2, <1>3, <2>1, <2>2, StepWith
<1>6. CASE next = BackOp
  BY <1>1, <1>2, <1>3, <1>6, StepBack
<1>7. CASE \E e \in Entries : next = CallOp(e)
  <2>1. PICK e \in Entries : next = CallOp(e)
    BY <1>7
  <2>2. PICK inner : inner = r[ColdStart(e, run.now)]
    OBVIOUS
  <2>3. inner \in Known
    BY <1>2, <2>2, FirstRun DEF Results
  <2> QED BY <1>1, <1>2, <1>3, <2>1, <2>2, <2>3, StepCall
<1>8. CASE \E v \in Values : next = ReturnOp(v)
  BY <1>1, <1>2, <1>8, StepReturn
<1> QED BY <1>1, <1>2, <1>4, <1>5, <1>6, <1>7, <1>8, StepOther

(* The recursion that defines Cold has a solution. *)
LEMMA ColdDefined ==
  /\ Cold \in [Nat -> Results]
  /\ Cold[0] = [run \in ColdRuns |-> NoValue]
  /\ \A n \in Nat : Cold[n + 1] = [run \in ColdRuns |-> ColdStep(Cold[n], run)]
<1>1. PICK zero : zero = [run \in ColdRuns |-> NoValue]
  OBVIOUS
<1>2. PICK G : G = [p \in Nat \X Results |-> [run \in ColdRuns |-> ColdStep(p[2], run)]]
  OBVIOUS
<1>3. zero \in Results
  BY <1>1 DEF Results, Known
<1>4. \A n \in Nat, r \in Results : G[<<n, r>>] = [run \in ColdRuns |-> ColdStep(r, run)]
  BY <1>2
<1>5. Closed(G, Results)
  BY <1>2, StepKnown DEF Results, Closed
<1>6. PICK f : Iterates(f, G, Results, zero)
  BY <1>3, <1>5, Iteration
<1>7. f = [n \in Nat |-> IF n = 0 THEN [run \in ColdRuns |-> NoValue]
                         ELSE [run \in ColdRuns |-> ColdStep(f[n - 1], run)]]
  <2>1. ASSUME NEW n \in Nat, n # 0
        PROVE  f[n] = [run \in ColdRuns |-> ColdStep(f[n - 1], run)]
    <3>1. PICK m \in Nat : m = n - 1 /\ m + 1 = n
      BY <2>1, n - 1 \in Nat
    <3>2. f[n] = G[<<n, f[m]>>] /\ f[m] \in Results
      BY <3>1, <1>6 DEF Iterates
    <3> QED BY <3>1, <3>2, <1>4
  <2> QED BY <1>1, <1>6, <2>1 DEF Iterates
<1>8. Cold = [n \in Nat |-> IF n = 0 THEN [run \in ColdRuns |-> NoValue]
                            ELSE [run \in ColdRuns |-> ColdStep(Cold[n - 1], run)]]
  BY <1>7 DEF Cold
<1>9. \A n \in Nat : n + 1 \in Nat /\ n + 1 # 0 /\ (n + 1) - 1 = n
  OBVIOUS
<1>10. \A n \in Nat : Cold[n + 1] = [run \in ColdRuns |-> ColdStep(Cold[n], run)]
  BY <1>8, <1>9
<1>11. Cold[0] = [run \in ColdRuns |-> NoValue]
  BY <1>8
<1>12. Cold \in [Nat -> Results]
  <2> DEFINE P == {n \in Nat : Cold[n] \in Results}
  <2>1. 0 \in P
    BY <1>1, <1>3, <1>11
  <2>2. ASSUME NEW n \in Nat, n \in P PROVE n + 1 \in P
    <3>1. PICK r \in Results : r = Cold[n]
      BY <2>2
    <3>2. Cold[n + 1] = [run \in ColdRuns |-> ColdStep(r, run)]
      BY <3>1, <1>10
    <3> QED BY <3>2, StepKnown DEF Results
  <2>3. Nat \subseteq P
    <3> HIDE DEF P
    <3> QED BY <2>1, <2>2, NaturalsSet
  <2>4. \A n \in Nat : Cold[n] \in Results
    BY <2>3
  <2>5. Cold = [n \in Nat |-> Cold[n]]
    <3> HIDE DEF P
    <3> QED BY <1>8
  <2> QED BY <2>4, <2>5
<1> QED BY <1>10, <1>11, <1>12

LEMMA ColdNext ==
  ASSUME NEW n \in Nat, NEW run \in ColdRuns
  PROVE  Cold[0][run] = NoValue /\ Cold[n] \in Results /\ Cold[n + 1][run] = ColdStep(Cold[n], run)
<1>1. Cold[n + 1] = [r \in ColdRuns |-> ColdStep(Cold[n], r)]
  BY ColdDefined
<1>2. Cold[n + 1][run] = ColdStep(Cold[n], run)
  BY <1>1
<1>3. Cold[0][run] = NoValue /\ Cold[n] \in Results
  BY ColdDefined
<1> QED BY <1>2, <1>3

(* More steps change no result there is. *)
LEMMA ColdGrows ==
  ASSUME NEW m \in Nat, NEW n \in Nat, m <= n, NEW run \in ColdRuns, Cold[m][run] # NoValue
  PROVE  Cold[n][run] = Cold[m][run]
<1> DEFINE P == {k \in Nat : \A r \in ColdRuns :
                    Cold[k][r] # NoValue => Cold[k + 1][r] = Cold[k][r]}
<1>1. Nat \subseteq P
  <2>1. 0 \in P
    BY ColdDefined
  <2>2. ASSUME NEW k \in Nat, k \in P PROVE k + 1 \in P
    <3> SUFFICES ASSUME NEW r \in ColdRuns, Cold[k + 1][r] # NoValue
                 PROVE  Cold[(k + 1) + 1][r] = Cold[k + 1][r]
      OBVIOUS
    <3>1. PICK a \in Results, b \in Results : a = Cold[k] /\ b = Cold[k + 1]
      BY ColdDefined
    <3>2. /\ Cold[k + 1][r] = ColdStep(a, r) /\ Cold[(k + 1) + 1][r] = ColdStep(b, r)
          /\ ColdStep(a, r) # NoValue
      BY <3>1, k + 1 \in Nat, ColdNext
    <3>3. \A q \in ColdRuns : a[q] # NoValue => b[q] = a[q]
      BY <2>2, <3>1
    <3>4. PICK next : next = Body(r.entry, r.seen)
      OBVIOUS
    <3>5. r.now \in Context /\ r.vals \in Context /\ NoValue \in Known /\ Values \subseteq Known
      BY DEF ColdRuns, Known
    <3>6. \A now \in Context, v \in Known : GoesOnFrom(r, now, v) \in ColdRuns
      BY NextRun
    <3>7. CASE \E t \in Types : next = ReadOp(t)
      <4>1. PICK t \in Types : next = ReadOp(t)
        BY <3>7
      <4>2. r.now[t] \in Known
        BY <3>5 DEF Context
      <4>3. PICK q \in ColdRuns : q = GoesOnFrom(r, r.now, r.now[t])
        BY <4>2, <3>5, <3>6
      <4>4. ColdStep(a, r) = a[q] /\ ColdStep(b, r) = b[q]
        BY <4>1, <4>3, <3>4, StepRead
      <4> QED BY <4>4, <3>2, <3>3
    <3>8. CASE \E t \in Types, v \in Values : next = WithOp(t, v)
      <4>1. PICK t \in Types, v \in Values : next = WithOp(t, v)
        BY <3>8
      <4>2. [r.now EXCEPT ![t] = v] \in Context
        BY <3>5 DEF Context
      <4>3. PICK q \in ColdRuns : q = GoesOnFrom(r, [r.now EXCEPT ![t] = v], NoValue)
        BY <4>2, <3>5, <3>6
      <4>4. ColdStep(a, r) = a[q] /\ ColdStep(b, r) = b[q]
        BY <4>1, <4>3, <3>4, StepWith
      <4> QED BY <4>4, <3>2, <3>3
    <3>9. CASE next = BackOp
      BY <3>9, <3>2, <3>3, <3>4, <3>5, <3>6, StepBack
    <3>10. CASE \E e \in Entries : next = CallOp(e)
      <4>1. PICK e \in Entries : next = CallOp(e)
        BY <3>10
      <4>2. PICK start : start = ColdStart(e, r.now)
        OBVIOUS
      <4>3. start \in ColdRuns /\ a[start] \in Known
        BY <4>2, <3>5, FirstRun DEF Results
      <4>4. /\ ColdStep(a, r) = IF a[start] = NoValue THEN NoValue
                                ELSE a[GoesOnFrom(r, r.now, a[start])]
            /\ ColdStep(b, r) = IF b[start] = NoValue THEN NoValue
                                ELSE b[GoesOnFrom(r, r.now, b[start])]
        BY <4>1, <4>2, <3>4, StepCall
      <4>5. a[start] # NoValue /\ b[start] = a[start]
        BY <4>3, <4>4, <3>2, <3>3
      <4>6. ColdStep(a, r) = a[GoesOnFrom(r, r.now, a[start])]
            /\ ColdStep(b, r) = b[GoesOnFrom(r, r.now, a[start])]
        BY <4>4, <4>5
      <4>7. GoesOnFrom(r, r.now, a[start]) \in ColdRuns
        BY <4>3, <3>5, <3>6
      <4> QED BY <4>6, <4>7, <3>2, <3>3
    <3>11. CASE \E v \in Values : next = ReturnOp(v)
      BY <3>11, <3>2, <3>4, StepReturn
    <3> QED BY <3>2, <3>4, <3>7, <3>8, <3>9, <3>10, <3>11, StepOther
  <2> HIDE DEF P
  <2> QED BY <2>1, <2>2, NaturalsSet
<1> DEFINE Q == {k \in Nat : k >= m => Cold[k][run] = Cold[m][run]}
<1>2. Nat \subseteq Q
  <2>1. 0 \in Q
    BY m = 0 \/ ~(0 >= m)
  <2>2. ASSUME NEW k \in Nat, k \in Q PROVE k + 1 \in Q
    <3>1. CASE k + 1 = m
      BY <3>1
    <3>2. CASE k >= m
      BY <3>2, <1>1, <2>2
    <3> QED BY <3>1, <3>2
  <2> HIDE DEF Q
  <2> QED BY <2>1, <2>2, NaturalsSet
<1> QED BY <1>2

(* A cold run that ends with a value. *)
Ends(run, v) == \E n \in Nat : Cold[n][run] = v

LEMMA EndsOnce ==
  ASSUME NEW run \in ColdRuns, NEW v \in Values, Ends(run, v), NEW n \in Nat
  PROVE  Cold[n][run] \in {v, NoValue}
<1>1. PICK k \in Nat : Cold[k][run] = v
  BY DEF Ends
<1>2. v # NoValue
  BY MemoizeAssumption
<1>3. CASE k <= n
  BY <1>1, <1>2, <1>3, ColdGrows
<1>4. CASE n <= k
  BY <1>1, <1>4, ColdGrows
<1> QED BY <1>3, <1>4

(* A run ends with what it ends with after one more of its operations. *)
LEMMA EndsRead ==
  ASSUME NEW run \in ColdRuns, NEW t \in Types, Body(run.entry, run.seen) = ReadOp(t),
         NEW v, Ends(GoesOnFrom(run, run.now, run.now[t]), v)
  PROVE  Ends(run, v)
<1>1. PICK n \in Nat : Cold[n][GoesOnFrom(run, run.now, run.now[t])] = v
  BY DEF Ends
<1>2. Cold[n + 1][run] = v
  BY <1>1, StepRead, ColdNext
<1> QED BY <1>2 DEF Ends

LEMMA EndsWith ==
  ASSUME NEW run \in ColdRuns, NEW t \in Types, NEW w \in Values,
         Body(run.entry, run.seen) = WithOp(t, w),
         NEW v, Ends(GoesOnFrom(run, [run.now EXCEPT ![t] = w], NoValue), v)
  PROVE  Ends(run, v)
<1>1. PICK n \in Nat : Cold[n][GoesOnFrom(run, [run.now EXCEPT ![t] = w], NoValue)] = v
  BY DEF Ends
<1>2. Cold[n + 1][run] = v
  BY <1>1, StepWith, ColdNext
<1> QED BY <1>2 DEF Ends

LEMMA EndsBack ==
  ASSUME NEW run \in ColdRuns, Body(run.entry, run.seen) = BackOp,
         NEW v, Ends(GoesOnFrom(run, run.vals, NoValue), v)
  PROVE  Ends(run, v)
<1>1. PICK n \in Nat : Cold[n][GoesOnFrom(run, run.vals, NoValue)] = v
  BY DEF Ends
<1>2. Cold[n + 1][run] = v
  BY <1>1, StepBack, ColdNext
<1> QED BY <1>2 DEF Ends

(* The nested run and the rest of this one both end within the longer time. *)
LEMMA EndsCall ==
  ASSUME NEW run \in ColdRuns, NEW e \in Entries, Body(run.entry, run.seen) = CallOp(e),
         NEW w \in Values, Ends(ColdStart(e, run.now), w),
         NEW v \in Values, Ends(GoesOnFrom(run, run.now, w), v)
  PROVE  Ends(run, v)
<1>1. PICK i \in Nat, j \in Nat :
         Cold[i][ColdStart(e, run.now)] = w /\ Cold[j][GoesOnFrom(run, run.now, w)] = v
  BY DEF Ends
<1>2. ColdStart(e, run.now) \in ColdRuns /\ GoesOnFrom(run, run.now, w) \in ColdRuns
  <2>1. run.now \in Context /\ w \in Known
    BY DEF ColdRuns, Known
  <2> QED BY <2>1, FirstRun, NextRun
<1>3. PICK n \in Nat : i <= n /\ j <= n
  BY i + j \in Nat /\ i <= i + j /\ j <= i + j
<1>4. v # NoValue /\ w # NoValue
  BY MemoizeAssumption
<1>5. Cold[n][ColdStart(e, run.now)] = w /\ Cold[n][GoesOnFrom(run, run.now, w)] = v
  BY <1>1, <1>2, <1>3, <1>4, ColdGrows
<1>6. Cold[n + 1][run] = v
  BY <1>4, <1>5, StepCall, ColdNext
<1> QED BY <1>6 DEF Ends

LEMMA EndsReturn ==
  ASSUME NEW run \in ColdRuns, NEW v \in Values, Body(run.entry, run.seen) = ReturnOp(v)
  PROVE  Ends(run, v)
<1>1. Cold[0 + 1][run] = v
  BY StepReturn, ColdNext
<1> QED BY <1>1 DEF Ends

-----------------------------------------------------------------------------
(* Cached values, and what is true of them while `b` is bound. *)

ValueIn(b, id) == IF id = 0 THEN NoValue ELSE b[id]

Agrees(b, reads, vals) == \A r \in reads : vals[r.type] = ValueIn(b, r.id)

(* v is the result of e wherever the reads find the same values. *)
RightFor(b, e, reads, v) ==
    \A vals \in Context : Agrees(b, reads, vals) => Ends(ColdStart(e, vals), v)

VariantsRight(b, kept) ==
    \A e \in Entries : \A i \in 1..Len(kept[e]) :
        RightFor(b, e, kept[e][i].reads, kept[e][i].value)

(* The cold run that has come as far as frame f: bindings that f replaced  *)
(* have its values, and the others those the run started from.             *)
NowOf(b, f, vals) ==
    [t \in Types |-> IF f.scope[t] = f.entry[t] THEN vals[t] ELSE ValueIn(b, f.scope[t])]

RunOf(b, f, vals) ==
    [entry |-> f.entryOf, vals |-> vals, now |-> NowOf(b, f, vals), seen |-> f.seen]

(* Wherever its reads find the same values, a cold run comes as far as f.  *)
FrameRight(b, f) ==
    \A vals \in Context : Agrees(b, f.reads, vals) =>
        \A v \in Values : Ends(RunOf(b, f, vals), v) => Ends(ColdStart(f.entryOf, vals), v)

(* f is the call that g has come to. *)
Inside(f, g) ==
    /\ g.at = "body"
    /\ Body(g.entryOf, g.seen) = CallOp(f.entryOf)
    /\ f.entry = g.scope

StackRight(b, s) ==
    /\ \A k \in 1..Len(s) : FrameRight(b, s[k])
    /\ \A k \in 1..Len(s) : k + 1 \in 1..Len(s) => Inside(s[k], s[k + 1])

RightInv == VariantsRight(bound, variants) /\ \A c \in Callers : StackRight(bound, stack[c])

LEMMA KnownValues ==
  ASSUME TypeOK
  PROVE  \A id \in 0..Len(bound) : ValueIn(bound, id) \in Known
  BY ElementOfSeq DEF ValueIn, TypeOK, Known

(* Bindings keep their values. *)
Bindings == UNCHANGED bound \/ \E v \in Values : bound' = Append(bound, v)

LEMMA SameValues ==
  ASSUME TypeOK, Bindings
  PROVE  \A id \in 0..Len(bound) : ValueIn(bound', id) = ValueIn(bound, id)
<1>1. bound \in Seq(Values) /\ Len(bound) \in Nat
  BY LenProperties DEF TypeOK
<1>2. CASE UNCHANGED bound
  BY <1>2
<1>3. CASE \E v \in Values : bound' = Append(bound, v)
  BY <1>1, <1>3, AppendProperties DEF ValueIn
<1> QED BY <1>2, <1>3 DEF Bindings

LEMMA SameAgrees ==
  ASSUME TypeOK, Bindings, NEW reads \in SUBSET ReadSet, NEW vals
  PROVE  Agrees(bound', reads, vals) <=> Agrees(bound, reads, vals)
<1>1. \A r \in reads : r.id \in 0..Len(bound)
  BY DEF ReadSet
<1> QED BY <1>1, SameValues DEF Agrees

LEMMA SameRun ==
  ASSUME TypeOK, Bindings, NEW f \in Frames, NEW vals
  PROVE  /\ NowOf(bound', f, vals) = NowOf(bound, f, vals)
         /\ RunOf(bound', f, vals) = RunOf(bound, f, vals)
<1>1. \A t \in Types : f.scope[t] \in 0..Len(bound)
  BY DEF Frames, Scopes
<1>2. \A t \in Types : ValueIn(bound', f.scope[t]) = ValueIn(bound, f.scope[t])
  BY <1>1, SameValues
<1>3. NowOf(bound', f, vals) = NowOf(bound, f, vals)
  BY <1>2 DEF NowOf
<1> QED BY <1>3 DEF RunOf

LEMMA SameFrame ==
  ASSUME TypeOK, Bindings, NEW f \in Frames, FrameRight(bound, f)
  PROVE  FrameRight(bound', f)
<1>1. f.reads \in SUBSET ReadSet
  BY DEF Frames
<1> QED BY <1>1, SameAgrees, SameRun DEF FrameRight

LEMMA SameStack ==
  ASSUME TypeOK, Bindings, NEW s \in Seq(Frames), StackRight(bound, s)
  PROVE  StackRight(bound', s)
<1>1. \A k \in 1..Len(s) : s[k] \in Frames
  BY ElementOfSeq
<1> QED BY <1>1, SameFrame DEF StackRight

LEMMA SameVariants ==
  ASSUME TypeOK, Bindings, VariantsRight(bound, variants)
  PROVE  VariantsRight(bound', variants)
<1> SUFFICES ASSUME NEW e \in Entries, NEW i \in 1..Len(variants[e])
             PROVE  RightFor(bound', e, variants[e][i].reads, variants[e][i].value)
  BY DEF VariantsRight
<1>1. variants[e][i] \in VariantSet
  BY ElementOfSeq DEF TypeOK
<1>2. variants[e][i].reads \in SUBSET ReadSet
  BY <1>1 DEF VariantSet
<1>3. RightFor(bound, e, variants[e][i].reads, variants[e][i].value)
  BY DEF VariantsRight
<1> QED BY <1>2, <1>3, SameAgrees DEF RightFor

LEMMA LaterRun ==
  ASSUME NEW run \in ColdRuns, NEW now, NEW v
  PROVE  GoesOnFrom(run, now, v) =
            [entry |-> run.entry, vals |-> run.vals, now |-> now, seen |-> Append(run.seen, v)]
<1>1. run = [entry |-> run.entry, vals |-> run.vals, now |-> run.now, seen |-> run.seen]
  BY DEF ColdRuns
<1>2. [run EXCEPT !.now = now] =
         [entry |-> run.entry, vals |-> run.vals, now |-> now, seen |-> run.seen]
  BY <1>1
<1>3. GoesOnFrom(run, now, v) = [[run EXCEPT !.now = now] EXCEPT !.seen = Append(run.seen, v)]
  BY <1>1, <1>2 DEF GoesOnFrom
<1> QED BY <1>2, <1>3

LEMMA RunTyped ==
  ASSUME TypeOK, NEW f \in Frames, NEW vals \in Context
  PROVE  NowOf(bound, f, vals) \in Context /\ RunOf(bound, f, vals) \in ColdRuns
<1>1. \A t \in Types : ValueIn(bound, f.scope[t]) \in Known
  BY KnownValues DEF Frames, Scopes
<1>2. NowOf(bound, f, vals) \in Context
  BY <1>1 DEF NowOf, Context
<1> QED BY <1>2 DEF RunOf, ColdRuns, Frames, Known

(* A call that has not begun. *)
LEMMA FreshRight ==
  ASSUME NEW e, NEW scope
  PROVE  FrameRight(bound, Frame(e, scope))
<1> DEFINE f == Frame(e, scope)
<1>1. SUFFICES ASSUME NEW vals \in Context PROVE RunOf(bound, f, vals) = ColdStart(f.entryOf, vals)
  BY DEF FrameRight
<1>2. NowOf(bound, f, vals) = vals
  BY DEF NowOf, Frame, Context
<1> QED BY <1>2 DEF RunOf, ColdStart, Frame

(* What the caller of a call sees its reads as. *)
LEMMA CallerAgrees ==
  ASSUME TypeOK, NEW g \in Frames, NEW reads \in SUBSET ReadSet, NEW vals \in Context,
         Matches(reads, g.scope), Agrees(bound, Merge(g, reads), vals)
  PROVE  Agrees(bound, g.reads, vals) /\ Agrees(bound, reads, NowOf(bound, g, vals))
<1>1. Agrees(bound, g.reads, vals)
  BY DEF Agrees, Merge
<1>2. ASSUME NEW r \in reads PROVE NowOf(bound, g, vals)[r.type] = ValueIn(bound, r.id)
  <2>1. r.type \in Types /\ g.scope[r.type] = r.id
    BY DEF ReadSet, Matches
  <2>2. CASE g.scope[r.type] = g.entry[r.type]
    <3>1. r \in Merge(g, reads)
      BY <2>1, <2>2 DEF Merge
    <3> QED BY <2>1, <2>2, <3>1 DEF Agrees, NowOf
  <2>3. CASE g.scope[r.type] # g.entry[r.type]
    BY <2>1, <2>3 DEF NowOf
  <2> QED BY <2>2, <2>3
<1> QED BY <1>1, <1>2 DEF Agrees

(* A call returns a right result to its caller. *)
LEMMA CallerRight ==
  ASSUME TypeOK, NEW f \in Frames, NEW g \in Frames, Inside(f, g), FrameRight(bound, g),
         NEW v \in Values, NEW reads \in SUBSET ReadSet, Matches(reads, f.entry),
         RightFor(bound, f.entryOf, reads, v),
         NEW h, h = [Saw(g, v) EXCEPT !.reads = Merge(g, Replayed(reads))]
  PROVE  FrameRight(bound, h)
<1>1. /\ Append(g.seen, v) \in Seq(Values \cup {NoValue})
      /\ Merge(g, Replayed(reads)) \in SUBSET ReadSet
  BY AppendProperties DEF Frames, Merge, Replayed
<1>2. /\ h.entryOf = g.entryOf /\ h.entry = g.entry /\ h.scope = g.scope
      /\ h.seen = Append(g.seen, v) /\ h.reads = Merge(g, reads)
  BY <1>1 DEF Saw, Frames, Replayed
<1>3. SUFFICES ASSUME NEW vals \in Context, Agrees(bound, Merge(g, reads), vals),
                     NEW w \in Values, Ends(RunOf(bound, h, vals), w)
              PROVE  Ends(ColdStart(g.entryOf, vals), w)
  BY <1>2 DEF FrameRight
<1>4. PICK now : now = NowOf(bound, g, vals)
  OBVIOUS
<1>5. PICK run : run = RunOf(bound, g, vals)
  OBVIOUS
<1>6. now \in Context /\ run \in ColdRuns /\ run.now = now
  BY <1>4, <1>5, RunTyped DEF RunOf
<1>7. Agrees(bound, g.reads, vals) /\ Agrees(bound, reads, now)
  BY <1>3, <1>4, CallerAgrees DEF Inside
<1>8. Ends(ColdStart(f.entryOf, now), v)
  BY <1>6, <1>7 DEF RightFor
<1>9. RunOf(bound, h, vals) = GoesOnFrom(run, now, v)
  <2>1. NowOf(bound, h, vals) = now
    BY <1>2, <1>4 DEF NowOf
  <2>2. RunOf(bound, h, vals) = [entry |-> g.entryOf, vals |-> vals, now |-> now, seen |-> Append(g.seen, v)]
    BY <1>2, <2>1 DEF RunOf
  <2>3. run.entry = g.entryOf /\ run.vals = vals /\ run.seen = g.seen
    BY <1>5 DEF RunOf
  <2> QED BY <1>6, <2>2, <2>3, LaterRun
<1>10. f.entryOf \in Entries /\ Body(run.entry, run.seen) = CallOp(f.entryOf)
  BY <1>5 DEF RunOf, Inside, Frames
<1>11. Ends(run, w)
  BY <1>3, <1>6, <1>8, <1>9, <1>10, EndsCall
<1> QED BY <1>3, <1>5, <1>7, <1>11 DEF FrameRight

LEMMA ResumedRight ==
  ASSUME TypeOK, NEW s \in Seq(Frames), s # << >>, StackRight(bound, s),
         NEW v \in Values, NEW reads \in SUBSET ReadSet,
         Matches(reads, s[1].entry), RightFor(bound, s[1].entryOf, reads, v),
         NEW t, t = Resumed(Tail(s), v, reads)
  PROVE  StackRight(bound, t)
<1>1. PICK below : below = Tail(s)
  OBVIOUS
<1>2. /\ below \in Seq(Frames) /\ Len(below) = Len(s) - 1 /\ Len(s) \in Nat /\ Len(s) # 0
      /\ \A k \in 1..Len(below) : below[k] = s[k + 1]
      /\ \A k \in 1..Len(s) : s[k] \in Frames
  BY <1>1, HeadTailProperties, EmptySeq, LenProperties, ElementOfSeq
<1>3. CASE below = << >>
  <2>1. t = << >>
    BY <1>1, <1>3 DEF Resumed
  <2>2. Len(t) = 0
    BY <2>1
  <2>3. 1..Len(t) = {}
    BY <2>2
  <2> QED BY <2>3 DEF StackRight
<1>4. CASE below # << >>
  <2>1. PICK g : g = s[2]
    OBVIOUS
  <2>2. Len(below) \in Nat \ {0} /\ 1 \in 1..Len(s) /\ 2 \in 1..Len(s) /\ g \in Frames
        /\ Head(below) = g
    BY <1>2, <1>4, <2>1, EmptySeq, HeadTailProperties
  <2>3. PICK h : h = [Saw(g, v) EXCEPT !.reads = Merge(g, Replayed(reads))]
    OBVIOUS
  <2>4. FrameRight(bound, h)
    <3>1. Inside(s[1], g) /\ FrameRight(bound, g) /\ s[1] \in Frames
      BY <1>2, <2>1, <2>2 DEF StackRight
    <3> QED BY <3>1, <2>2, <2>3, CallerRight
  <2>5. h \in Frames /\ GoesOn(h, g)
    BY <2>2, <2>3, ResumedFrame
  <2>6. t = <<h>> \o Tail(below)
    BY <1>1, <1>4, <2>2, <2>3 DEF Resumed
  <2>7. /\ Len(t) = Len(below) /\ t[1] = h
        /\ \A k \in 2..Len(below) : t[k] = below[k]
    BY <2>5, <2>6, <1>2, <1>4, ReplacedHead
  <2>8. ASSUME NEW k \in 1..Len(t) PROVE FrameRight(bound, t[k])
    <3>1. CASE k = 1
      BY <3>1, <2>4, <2>7
    <3>2. CASE k # 1
      <4>1. k + 1 \in 1..Len(s) /\ t[k] = s[k + 1]
        BY <3>2, <1>2, <2>7
      <4> QED BY <4>1 DEF StackRight
    <3> QED BY <3>1, <3>2
  <2>9. ASSUME NEW k \in 1..Len(t), k + 1 \in 1..Len(t) PROVE Inside(t[k], t[k + 1])
    <3>1. k + 1 \in 1..Len(s) /\ (k + 1) + 1 \in 1..Len(s)
      BY <2>9, <1>2, <2>7
    <3>2. Inside(s[k + 1], s[(k + 1) + 1])
      BY <3>1 DEF StackRight
    <3>3. t[k + 1] = s[(k + 1) + 1]
      BY <2>9, <1>2, <2>7
    <3>4. CASE k = 1
      <4>1. t[k].entryOf = s[k + 1].entryOf /\ t[k].entry = s[k + 1].entry
        BY <3>4, <2>1, <2>5, <2>7 DEF GoesOn
      <4> QED BY <3>2, <3>3, <4>1 DEF Inside
    <3>5. CASE k # 1
      <4>1. t[k] = s[k + 1]
        BY <3>5, <1>2, <2>7
      <4> QED BY <3>2, <3>3, <4>1
    <3> QED BY <3>4, <3>5
  <2> QED BY <2>8, <2>9 DEF StackRight
<1> QED BY <1>3, <1>4

LEMMA RightStep ==
  ASSUME TypeOK, RightInv, Bindings, NEW c \in Callers, NEW t,
         stack' = [stack EXCEPT ![c] = t], VariantsRight(bound', variants'), StackRight(bound', t)
  PROVE  RightInv'
<1>1. ASSUME NEW d \in Callers PROVE StackRight(bound', stack'[d])
  <2>1. CASE d = c
    BY <2>1 DEF TypeOK
  <2>2. CASE d # c
    <3>1. stack'[d] = stack[d] /\ stack[d] \in Seq(Frames) /\ StackRight(bound, stack[d])
      BY <2>2 DEF TypeOK, RightInv
    <3> QED BY <3>1, SameStack
  <2> QED BY <2>1, <2>2
<1> QED BY <1>1 DEF RightInv

(* A step that registers and caches nothing. *)
LEMMA QuietRight ==
  ASSUME TypeOK, RightInv, UNCHANGED <<bound, variants>>, NEW c \in Callers, NEW t,
         stack' = [stack EXCEPT ![c] = t], StackRight(bound, t)
  PROVE  RightInv'
<1>1. bound' = bound /\ variants' = variants /\ Bindings
  BY DEF Bindings
<1> QED BY <1>1, RightStep DEF RightInv

LEMMA InitRight == Init => RightInv
<1> SUFFICES ASSUME Init PROVE RightInv
  OBVIOUS
<1>1. \A e \in Entries : Len(variants[e]) = 0
  BY DEF Init
<1>2. \A c \in Callers : Len(stack[c]) = 0
  BY DEF Init
<1>3. 1..0 = {}
  OBVIOUS
<1> QED BY <1>1, <1>2, <1>3 DEF RightInv, VariantsRight, StackRight

LEMMA CallRight ==
  ASSUME Inv, RightInv, NEW c \in Callers, NEW e, NEW scope, Call(c, e, scope)
  PROVE  RightInv'
<1>1. PICK f : f = Frame(e, scope)
  OBVIOUS
<1>2. PICK t : t = <<f>>
  OBVIOUS
<1>3. FrameRight(bound, f)
  BY <1>1, FreshRight
<1>4. Len(t) = 1 /\ t[1] = f
  BY <1>2
<1>5. StackRight(bound, t)
  BY <1>3, <1>4 DEF StackRight
<1>6. stack' = [stack EXCEPT ![c] = t] /\ UNCHANGED <<bound, variants>>
  BY <1>1, <1>2 DEF Call
<1> QED BY <1>5, <1>6, QuietRight DEF Inv

LEMMA UnwindRight ==
  ASSUME Inv, RightInv, NEW c \in Callers, Unwind(c), UNCHANGED <<bound, variants>>
  PROVE  RightInv'
<1>1. PICK t : t = << >>
  OBVIOUS
<1>2. Len(t) = 0
  BY <1>1
<1>3. StackRight(bound, t)
  BY <1>2 DEF StackRight
<1>4. stack' = [stack EXCEPT ![c] = t]
  BY <1>1 DEF Unwind
<1> QED BY <1>3, <1>4, QuietRight DEF Inv

(* A result that was cached is handed to a call that looks it up. *)
LEMMA ReuseRight ==
  ASSUME Inv, RightInv, NEW c \in Callers, NEW i, stack[c] # << >>, Top(c).at # "body",
         Reuse(c, i)
  PROVE  RightInv'
<1>1. PICK s : s = stack[c]
  OBVIOUS
<1>2. PICK f : f = Top(c)
  OBVIOUS
<1>3. /\ s \in Seq(Frames) /\ s # << >> /\ f = s[1] /\ f \in Frames /\ 1 \in 1..Len(s)
      /\ StackRight(bound, s) /\ f.at # "body"
  BY <1>1, <1>2, Stacks DEF Inv, RightInv
<1>4. FrameGood(f) /\ f.entryOf \in Entries
  BY <1>1, <1>3 DEF Inv, FramesGood, Frames
<1>5. PICK variant : variant = variants[f.entryOf][i]
  OBVIOUS
<1>6. i \in 1..Len(variants[f.entryOf]) /\ Matches(variant.reads, f.scope)
  BY <1>2, <1>5 DEF Reuse, Fits
<1>7. variant \in VariantSet
  BY <1>4, <1>5, <1>6, ElementOfSeq DEF Inv, TypeOK
<1>8. /\ variant.reads \in SUBSET ReadSet /\ variant.value \in Values
      /\ Matches(variant.reads, f.entry)
  BY <1>3, <1>4, <1>6, <1>7 DEF VariantSet, FrameGood
<1>9. RightFor(bound, f.entryOf, variant.reads, variant.value)
  BY <1>4, <1>5, <1>6 DEF RightInv, VariantsRight
<1>10. PICK t : t = Resumed(Tail(s), variant.value, variant.reads)
  OBVIOUS
<1>11. StackRight(bound, t)
  BY <1>3, <1>8, <1>9, <1>10, ResumedRight DEF Inv
<1>12. stack' = [stack EXCEPT ![c] = t] /\ UNCHANGED <<bound, variants>>
  BY <1>1, <1>2, <1>5, <1>10 DEF Reuse
<1> QED BY <1>11, <1>12, QuietRight DEF Inv

(* The innermost frame is replaced by another of the same call. *)
LEMMA TopRight ==
  ASSUME TypeOK, RightInv, Bindings, UNCHANGED variants, NEW c \in Callers, stack[c] # << >>,
         NEW x \in Frames', SetTop(c, x), x.entryOf = Top(c).entryOf, x.entry = Top(c).entry,
         FrameRight(bound', x)
  PROVE  RightInv'
<1>1. PICK s : s = stack[c]
  OBVIOUS
<1>2. /\ s \in Seq(Frames) /\ s # << >> /\ Len(s) \in Nat /\ Top(c) = s[1]
      /\ StackRight(bound, s)
  BY <1>1, Stacks DEF RightInv
<1>3. Frames \subseteq Frames'
  <2>1. bound \in Seq(Values) /\ Len(bound) \in Nat
    BY LenProperties DEF TypeOK
  <2>2. Len(bound') \in Nat /\ Len(bound) <= Len(bound')
    BY <2>1, AppendProperties, LenProperties DEF Bindings
  <2>3. Scopes(Len(bound)) \subseteq Scopes(Len(bound'))
    BY <2>1, <2>2, FramesGrow
  <2>4. ReadSet \subseteq ReadSet'
    BY <2>1, <2>2 DEF ReadSet
  <2> QED BY <2>3, <2>4 DEF Frames
<1>4. PICK t : t = <<x>> \o Tail(s)
  OBVIOUS
<1>5. Len(t) = Len(s) /\ t[1] = x /\ \A k \in 2..Len(s) : t[k] = s[k]
  <2>1. s \in Seq(Frames')
    BY <1>2, <1>3, WiderSeq
  <2> QED BY <2>1, <1>2, <1>4, ReplacedHead
<1>6. StackRight(bound', s)
  BY <1>2, SameStack
<1>7. ASSUME NEW k \in 1..Len(t) PROVE FrameRight(bound', t[k])
  <2>1. CASE k = 1
    BY <2>1, <1>5
  <2>2. CASE k # 1
    <3>1. k \in 1..Len(s) /\ t[k] = s[k]
      BY <2>2, <1>2, <1>5
    <3> QED BY <3>1, <1>6 DEF StackRight
  <2> QED BY <2>1, <2>2
<1>8. ASSUME NEW k \in 1..Len(t), k + 1 \in 1..Len(t) PROVE Inside(t[k], t[k + 1])
  <2>1. t[k + 1] = s[k + 1] /\ Inside(s[k], s[k + 1])
    BY <1>2, <1>5, <1>8 DEF StackRight
  <2>2. t[k].entryOf = s[k].entryOf /\ t[k].entry = s[k].entry
    BY <1>2, <1>5
  <2> QED BY <2>1, <2>2 DEF Inside
<1>9. StackRight(bound', t)
  BY <1>7, <1>8 DEF StackRight
<1>10. VariantsRight(bound', variants')
  BY SameVariants DEF RightInv
<1>11. stack' = [stack EXCEPT ![c] = t]
  BY <1>1, <1>2, <1>4 DEF SetTop, TypeOK
<1> QED BY <1>9, <1>10, <1>11, RightStep

(* What c works on, when it does something at its innermost frame. *)
LEMMA TopOf ==
  ASSUME Inv, RightInv, NEW c \in Callers, stack[c] # << >>
  PROVE  /\ Top(c) \in Frames /\ FrameGood(Top(c)) /\ FrameRight(bound, Top(c))
         /\ bound \in Seq(Values) /\ Len(bound) \in Nat /\ TypeOK
<1>1. stack[c] \in Seq(Frames) /\ Top(c) = stack[c][1] /\ Top(c) \in Frames
      /\ 1 \in 1..Len(stack[c]) /\ bound \in Seq(Values)
  BY Stacks DEF Inv, TypeOK
<1>2. FrameGood(Top(c)) /\ FrameRight(bound, Top(c))
  BY <1>1 DEF Inv, FramesGood, RightInv, StackRight
<1> QED BY <1>1, <1>2, LenProperties DEF Inv

(* The call goes on to the gate, or with the gate to its body. *)
LEMMA PhaseRight ==
  ASSUME Inv, RightInv, NEW c \in Callers, stack[c] # << >>, UNCHANGED <<bound, variants>>,
         NEW at \in {"gate", "body"}, SetTop(c, [Top(c) EXCEPT !.at = at])
  PROVE  RightInv'
<1>1. PICK f : f = Top(c)
  OBVIOUS
<1>2. PICK x : x = [f EXCEPT !.at = at]
  OBVIOUS
<1>3. f \in Frames /\ FrameRight(bound, f) /\ TypeOK
  BY <1>1, TopOf
<1>4. /\ x \in Frames /\ x.entryOf = f.entryOf /\ x.entry = f.entry /\ x.scope = f.scope
      /\ x.seen = f.seen /\ x.reads = f.reads
  BY <1>2, <1>3 DEF Frames
<1>5. FrameRight(bound, x)
  BY <1>3, <1>4 DEF FrameRight, RunOf, NowOf
<1>6. x \in Frames' /\ bound' = bound /\ Bindings /\ SetTop(c, x)
  BY <1>1, <1>2, <1>4 DEF Frames, ReadSet, Scopes, Bindings
<1> QED BY <1>1, <1>3, <1>4, <1>5, <1>6, TopRight

(* A frame that has seen one thing more. *)
LEMMA LaterFrame ==
  ASSUME TypeOK, NEW f \in Frames, NEW vals \in Context, NEW b, NEW x, NEW v,
         x.entryOf = f.entryOf, x.seen = Append(f.seen, v)
  PROVE  RunOf(b, x, vals) = GoesOnFrom(RunOf(bound, f, vals), NowOf(b, x, vals), v)
<1>1. RunOf(bound, f, vals) \in ColdRuns
  BY RunTyped
<1>2. PICK run : run = RunOf(bound, f, vals)
  OBVIOUS
<1>3. run \in ColdRuns /\ run.entry = f.entryOf /\ run.vals = vals /\ run.seen = f.seen
  BY <1>1, <1>2 DEF RunOf
<1>4. GoesOnFrom(run, NowOf(b, x, vals), v) =
         [entry |-> f.entryOf, vals |-> vals, now |-> NowOf(b, x, vals),
          seen |-> Append(f.seen, v)]
  BY <1>3, LaterRun
<1> QED BY <1>2, <1>4 DEF RunOf

LEMMA ReadRight ==
  ASSUME Inv, RightInv, NEW c \in Callers, NEW t \in Types, Read(c, t)
  PROVE  RightInv'
<1>1. PICK f : f = Top(c)
  OBVIOUS
<1>2. PICK id : id = f.scope[t]
  OBVIOUS
<1>3. PICK reads : reads = Merge(f, {[type |-> t, id |-> id]})
  OBVIOUS
<1>4. PICK v : v = ValueIn(bound, id)
  OBVIOUS
<1>5. PICK x : x = [Saw(f, v) EXCEPT !.reads = reads]
  OBVIOUS
<1>6. /\ f \in Frames /\ FrameRight(bound, f) /\ TypeOK /\ stack[c] # << >>
      /\ Body(f.entryOf, f.seen) = ReadOp(t) /\ SetTop(c, x)
      /\ bound' = bound /\ UNCHANGED variants
  BY <1>1, <1>2, <1>3, <1>4, <1>5, TopOf DEF Read, Does, TopIs, ValueOf, ValueIn
<1>7. id \in 0..Len(bound) /\ v \in Known
  <2>1. id \in 0..Len(bound)
    BY <1>2, <1>6 DEF Frames, Scopes
  <2> QED BY <2>1, <1>4, <1>6, KnownValues
<1>8. reads \in SUBSET ReadSet /\ Append(f.seen, v) \in Seq(Values \cup {NoValue})
  BY <1>3, <1>6, <1>7, AppendProperties DEF Merge, Frames, ReadSet, Known
<1>9. /\ x \in Frames /\ x.entryOf = f.entryOf /\ x.entry = f.entry /\ x.scope = f.scope
      /\ x.seen = Append(f.seen, v) /\ x.reads = reads
  BY <1>5, <1>6, <1>8 DEF Saw, Frames
<1>10. ASSUME NEW vals \in Context, Agrees(bound, reads, vals), NEW w \in Values,
              Ends(RunOf(bound, x, vals), w)
       PROVE  Ends(ColdStart(f.entryOf, vals), w)
  <2>1. PICK run : run = RunOf(bound, f, vals)
    OBVIOUS
  <2>2. run \in ColdRuns /\ run.now = NowOf(bound, f, vals)
    BY <2>1, <1>6, RunTyped DEF RunOf
  <2>3. run.now[t] = v
    <3>1. CASE id = f.entry[t]
      <4>1. [type |-> t, id |-> id] \in reads
        BY <3>1, <1>3 DEF Merge
      <4> QED BY <4>1, <3>1, <2>2, <1>2, <1>4, <1>10 DEF NowOf, Agrees
    <3>2. CASE id # f.entry[t]
      BY <3>2, <2>2, <1>2, <1>4 DEF NowOf
    <3> QED BY <3>1, <3>2
  <2>4. RunOf(bound, x, vals) = GoesOnFrom(run, run.now, run.now[t])
    <3>1. NowOf(bound, x, vals) = run.now
      BY <1>9, <2>2 DEF NowOf
    <3> QED BY <3>1, <2>1, <2>3, <1>6, <1>9, LaterFrame
  <2>5. Body(run.entry, run.seen) = ReadOp(t)
    BY <2>1, <1>6 DEF RunOf
  <2>6. Ends(run, w)
    BY <2>2, <2>4, <2>5, <1>10, EndsRead
  <2>7. Agrees(bound, f.reads, vals)
    BY <1>3, <1>10 DEF Agrees, Merge
  <2> QED BY <2>1, <2>6, <2>7, <1>6, <1>10 DEF FrameRight
<1>11. FrameRight(bound, x)
  BY <1>9, <1>10 DEF FrameRight
<1>12. x \in Frames' /\ Bindings
  BY <1>6, <1>9 DEF Frames, ReadSet, Scopes, Bindings
<1> QED BY <1>1, <1>6, <1>9, <1>11, <1>12, TopRight

LEMMA BackRight ==
  ASSUME Inv, RightInv, NEW c \in Callers, Back(c)
  PROVE  RightInv'
<1>1. PICK f : f = Top(c)
  OBVIOUS
<1>2. PICK x : x = [Saw(f, NoValue) EXCEPT !.scope = f.entry]
  OBVIOUS
<1>3. /\ f \in Frames /\ FrameRight(bound, f) /\ TypeOK /\ stack[c] # << >>
      /\ Body(f.entryOf, f.seen) = BackOp /\ SetTop(c, x)
      /\ bound' = bound /\ UNCHANGED variants
  BY <1>1, <1>2, TopOf DEF Back, Does, TopIs
<1>4. Append(f.seen, NoValue) \in Seq(Values \cup {NoValue})
  BY <1>3, AppendProperties DEF Frames
<1>5. /\ x \in Frames /\ x.entryOf = f.entryOf /\ x.entry = f.entry /\ x.scope = f.entry
      /\ x.seen = Append(f.seen, NoValue) /\ x.reads = f.reads
  BY <1>2, <1>3, <1>4 DEF Saw, Frames
<1>6. ASSUME NEW vals \in Context, Agrees(bound, f.reads, vals), NEW w \in Values,
             Ends(RunOf(bound, x, vals), w)
      PROVE  Ends(ColdStart(f.entryOf, vals), w)
  <2>1. PICK run : run = RunOf(bound, f, vals)
    OBVIOUS
  <2>2. run \in ColdRuns /\ run.vals = vals /\ Body(run.entry, run.seen) = BackOp
    BY <2>1, <1>3, RunTyped DEF RunOf
  <2>3. NowOf(bound, x, vals) = vals
    BY <1>5 DEF NowOf, Context
  <2>4. RunOf(bound, x, vals) = GoesOnFrom(run, run.vals, NoValue)
    BY <2>1, <2>2, <2>3, <1>3, <1>5, LaterFrame
  <2>5. Ends(run, w)
    BY <2>2, <2>4, <1>6, EndsBack
  <2> QED BY <2>1, <2>5, <1>3, <1>6 DEF FrameRight
<1>7. FrameRight(bound, x)
  BY <1>5, <1>6 DEF FrameRight
<1>8. x \in Frames' /\ Bindings
  BY <1>3, <1>5 DEF Frames, ReadSet, Scopes, Bindings
<1> QED BY <1>1, <1>3, <1>5, <1>7, <1>8, TopRight

LEMMA WithRight ==
  ASSUME Inv, RightInv, NEW c \in Callers, NEW t \in Types, NEW v \in Values, With(c, t, v)
  PROVE  RightInv'
<1>1. PICK f : f = Top(c)
  OBVIOUS
<1>2. PICK scope : scope = [f.scope EXCEPT ![t] = FreshId]
  OBVIOUS
<1>3. PICK x : x = [Saw(f, NoValue) EXCEPT !.scope = scope]
  OBVIOUS
<1>4. /\ f \in Frames /\ FrameRight(bound, f) /\ TypeOK /\ stack[c] # << >>
      /\ Body(f.entryOf, f.seen) = WithOp(t, v)
      /\ bound \in Seq(Values) /\ Len(bound) \in Nat
      /\ bound' = Append(bound, v) /\ UNCHANGED variants
  BY <1>1, TopOf DEF With, Does, TopIs
<1>5. SetTop(c, x)
  <2>1. [Saw(f, NoValue) EXCEPT !.scope[t] = FreshId] = x
    BY <1>2, <1>3, <1>4 DEF Frames, Saw
  <2> QED BY <2>1, <1>1 DEF With
<1>6. Bindings /\ bound' \in Seq(Values) /\ Len(bound') = Len(bound) + 1
      /\ FreshId = Len(bound) + 1 /\ bound'[FreshId] = v /\ FreshId \in Nat \ {0}
  BY <1>4, AppendProperties DEF Bindings, FreshId
<1>7. scope \in Scopes(Len(bound')) /\ scope[t] = FreshId
      /\ \A u \in Types \ {t} : scope[u] = f.scope[u]
  BY <1>2, <1>4, <1>6 DEF Frames, Scopes
<1>8. Append(f.seen, NoValue) \in Seq(Values \cup {NoValue})
  BY <1>4, AppendProperties DEF Frames
<1>9. f \in Frames'
  <2>1. Scopes(Len(bound)) \subseteq Scopes(Len(bound'))
    BY <1>4, <1>6, FramesGrow
  <2>2. ReadSet \subseteq ReadSet'
    BY <1>4, <1>6 DEF ReadSet
  <2> QED BY <2>1, <2>2, <1>4 DEF Frames
<1>10. /\ x \in Frames' /\ x.entryOf = f.entryOf /\ x.entry = f.entry /\ x.scope = scope
       /\ x.seen = Append(f.seen, NoValue) /\ x.reads = f.reads
  BY <1>3, <1>7, <1>8, <1>9 DEF Saw, Frames
<1>11. ASSUME NEW vals \in Context, Agrees(bound', f.reads, vals), NEW w \in Values,
              Ends(RunOf(bound', x, vals), w)
       PROVE  Ends(ColdStart(f.entryOf, vals), w)
  <2>1. PICK run : run = RunOf(bound, f, vals)
    OBVIOUS
  <2>2. run \in ColdRuns /\ Body(run.entry, run.seen) = WithOp(t, v)
        /\ run.now = NowOf(bound, f, vals) /\ run.now \in Context
    BY <2>1, <1>4, RunTyped DEF RunOf
  <2>3. NowOf(bound', x, vals) = [run.now EXCEPT ![t] = v]
    <3>1. NowOf(bound', x, vals)[t] = v
      <4>1. f.entry[t] \in 0..Len(bound)
        BY <1>4 DEF Frames, Scopes
      <4> QED BY <4>1, <1>6, <1>7, <1>10 DEF NowOf, ValueIn, FreshId
    <3>2. ASSUME NEW u \in Types \ {t} PROVE NowOf(bound', x, vals)[u] = run.now[u]
      <4>1. f.scope[u] \in 0..Len(bound)
        BY <1>4 DEF Frames, Scopes
      <4>2. ValueIn(bound', f.scope[u]) = ValueIn(bound, f.scope[u])
        BY <4>1, <1>4, <1>6, SameValues
      <4> QED BY <4>2, <1>7, <1>10, <2>2 DEF NowOf
    <3> QED BY <3>1, <3>2, <2>2 DEF NowOf, Context
  <2>4. RunOf(bound', x, vals) = GoesOnFrom(run, [run.now EXCEPT ![t] = v], NoValue)
    BY <2>1, <2>3, <1>4, <1>10, LaterFrame
  <2>5. Ends(run, w)
    BY <2>2, <2>4, <1>11, EndsWith
  <2>6. Agrees(bound, f.reads, vals)
    <3>1. f.reads \in SUBSET ReadSet
      BY <1>4 DEF Frames
    <3> QED BY <3>1, <1>4, <1>6, <1>11, SameAgrees
  <2> QED BY <2>1, <2>5, <2>6, <1>4, <1>11 DEF FrameRight
<1>12. FrameRight(bound', x)
  BY <1>10, <1>11 DEF FrameRight
<1> QED BY <1>1, <1>4, <1>5, <1>6, <1>10, <1>12, TopRight

LEMMA NestedRight ==
  ASSUME Inv, RightInv, NEW c \in Callers, NEW e \in Entries, Nested(c, e)
  PROVE  RightInv'
<1>1. PICK s : s = stack[c]
  OBVIOUS
<1>2. PICK g : g = Top(c)
  OBVIOUS
<1>3. PICK f : f = Frame(e, g.scope)
  OBVIOUS
<1>4. PICK t : t = <<f>> \o s
  OBVIOUS
<1>5. /\ s \in Seq(Frames) /\ s # << >> /\ Len(s) \in Nat \ {0} /\ g = s[1] /\ g \in Frames
      /\ StackRight(bound, s) /\ g.at = "body" /\ Body(g.entryOf, g.seen) = CallOp(e)
  BY <1>1, <1>2, Stacks DEF Inv, RightInv, Nested, Does, TopIs
<1>6. f \in Frames /\ FrameRight(bound, f)
  BY <1>3, <1>5, NewFrame, FreshRight DEF Frames
<1>7. Inside(f, g)
  BY <1>3, <1>5 DEF Inside, Frame
<1>8. Len(t) = Len(s) + 1 /\ t[1] = f /\ \A k \in 1..Len(s) : t[k + 1] = s[k]
  BY <1>4, <1>5, <1>6, Pushed
<1>9. ASSUME NEW k \in 1..Len(t), k # 1 PROVE k - 1 \in 1..Len(s) /\ t[k] = s[k - 1]
  BY <1>5, <1>8, <1>9
<1>10. ASSUME NEW k \in 1..Len(t) PROVE FrameRight(bound, t[k])
  BY <1>5, <1>6, <1>8, <1>9 DEF StackRight
<1>11. ASSUME NEW k \in 1..Len(t), k + 1 \in 1..Len(t) PROVE Inside(t[k], t[k + 1])
  <2>1. CASE k = 1
    BY <2>1, <1>5, <1>7, <1>8
  <2>2. CASE k # 1
    <3>1. PICK m : m = k - 1
      OBVIOUS
    <3>2. m \in 1..Len(s) /\ m + 1 \in 1..Len(s) /\ t[k] = s[m] /\ t[k + 1] = s[m + 1]
      BY <2>2, <3>1, <1>5, <1>8, <1>9, <1>11
    <3> QED BY <3>2, <1>5 DEF StackRight
  <2> QED BY <2>1, <2>2
<1>12. StackRight(bound, t)
  BY <1>10, <1>11 DEF StackRight
<1>13. stack' = [stack EXCEPT ![c] = t] /\ UNCHANGED <<bound, variants>>
  BY <1>1, <1>2, <1>3, <1>4 DEF Nested
<1> QED BY <1>12, <1>13, QuietRight DEF Inv

(* What is cached is right, and so is what the caller of the call goes on  *)
(* with.                                                                   *)
LEMMA ReturnRight ==
  ASSUME Inv, RightInv, NEW c \in Callers, NEW v \in Values, Return(c, v)
  PROVE  RightInv'
<1>1. PICK s : s = stack[c]
  OBVIOUS
<1>2. PICK f : f = Top(c)
  OBVIOUS
<1>3. PICK e : e = f.entryOf
  OBVIOUS
<1>4. /\ s \in Seq(Frames) /\ s # << >> /\ f = s[1] /\ f \in Frames /\ 1 \in 1..Len(s)
      /\ StackRight(bound, s) /\ FrameRight(bound, f) /\ FrameGood(f) /\ TypeOK
      /\ stack[c] # << >> /\ Body(e, f.seen) = ReturnOp(v)
  BY <1>1, <1>2, <1>3, Stacks, TopOf DEF RightInv, Return, Does, TopIs
<1>5. e \in Entries /\ f.reads \in SUBSET ReadSet /\ Matches(f.reads, f.entry)
  BY <1>3, <1>4 DEF Frames, FrameGood
<1>6. RightFor(bound, e, f.reads, v)
  <2> SUFFICES ASSUME NEW vals \in Context, Agrees(bound, f.reads, vals)
               PROVE  Ends(ColdStart(e, vals), v)
    BY DEF RightFor
  <2>1. PICK run : run = RunOf(bound, f, vals)
    OBVIOUS
  <2>2. run \in ColdRuns /\ Body(run.entry, run.seen) = ReturnOp(v)
    BY <2>1, <1>3, <1>4, RunTyped DEF RunOf
  <2>3. Ends(run, v)
    BY <2>2, EndsReturn
  <2> QED BY <2>1, <2>3, <1>3, <1>4 DEF FrameRight
<1>7. PICK t : t = Resumed(Tail(s), v, f.reads)
  OBVIOUS
<1>8. StackRight(bound, t)
  BY <1>3, <1>4, <1>5, <1>6, <1>7, ResumedRight
<1>9. PICK new : new = [value |-> v, reads |-> f.reads, entry |-> f.entry]
  OBVIOUS
<1>10. /\ variants' = [variants EXCEPT ![e] = Append(@, new)]
       /\ stack' = [stack EXCEPT ![c] = t] /\ bound' = bound
  BY <1>1, <1>2, <1>3, <1>7, <1>9 DEF Return
<1>11. new \in VariantSet /\ new.value = v /\ new.reads = f.reads
  BY <1>4, <1>9 DEF VariantSet, Frames
<1>12. /\ variants[e] \in Seq(VariantSet) /\ variants'[e] = Append(variants[e], new)
       /\ \A d \in Entries \ {e} : variants'[d] = variants[d]
  BY <1>4, <1>5, <1>10 DEF TypeOK
<1>13. VariantsRight(bound', variants')
  <2> SUFFICES ASSUME NEW d \in Entries, NEW i \in 1..Len(variants'[d])
               PROVE  RightFor(bound, d, variants'[d][i].reads, variants'[d][i].value)
    BY <1>10 DEF VariantsRight
  <2>1. CASE d # e
    BY <2>1, <1>12 DEF RightInv, VariantsRight
  <2>2. CASE d = e
    <3>1. /\ Len(variants'[e]) = Len(variants[e]) + 1 /\ Len(variants[e]) \in Nat
          /\ variants'[e][Len(variants[e]) + 1] = new
          /\ \A k \in 1..Len(variants[e]) : variants'[e][k] = variants[e][k]
      BY <1>11, <1>12, AppendProperties, LenProperties
    <3>2. CASE i \in 1..Len(variants[e])
      BY <2>2, <3>1, <3>2, <1>5 DEF RightInv, VariantsRight
    <3>3. CASE i = Len(variants[e]) + 1
      BY <2>2, <3>1, <3>3, <1>6, <1>11
    <3> QED BY <2>2, <3>1, <3>2, <3>3
  <2> QED BY <2>1, <2>2
<1>14. Bindings /\ StackRight(bound', t)
  BY <1>8, <1>10 DEF Bindings
<1> QED BY <1>4, <1>10, <1>13, <1>14, RightStep

LEMMA StepRight ==
  ASSUME Inv, RightInv, [Next]_vars
  PROVE  RightInv'
<1>1. CASE UNCHANGED vars
  BY <1>1 DEF vars, RightInv
<1>2. CASE Next
  <2>1. PICK c \in Callers :
           \/ \E e \in Entries, scope \in RootScopes : Call(c, e, scope)
           \/ stack[c] # << >> /\ CallerStep(c)
           \/ Fail(c)
    BY <1>2 DEF Next
  <2>2. CASE \E e \in Entries, scope \in RootScopes : Call(c, e, scope)
    BY <2>2, CallRight
  <2>3. CASE stack[c] # << >> /\ CallerStep(c)
    <3>1. CASE \E i \in 1..Len(variants[Top(c).entryOf]) : Hit(c, i) \/ HitAtGate(c, i)
      BY <2>3, <3>1, ReuseRight DEF Hit, HitAtGate, AtGate, TopIs
    <3>2. CASE Miss(c)
      BY <2>3, <3>2, PhaseRight DEF Miss
    <3>3. CASE PanicRecursive(c)
      BY <3>3, UnwindRight DEF PanicRecursive
    <3>4. CASE Enter(c)
      BY <2>3, <3>4, PhaseRight DEF Enter
    <3>5. CASE BodyStep(c)
      BY <3>5, ReadRight, WithRight, BackRight, NestedRight, ReturnRight DEF BodyStep
    <3> QED BY <2>3, <3>1, <3>2, <3>3, <3>4, <3>5 DEF CallerStep
  <2>4. CASE Fail(c)
    BY <2>4, UnwindRight DEF Fail
  <2> QED BY <2>1, <2>2, <2>3, <2>4
<1> QED BY <1>1, <1>2

LEMMA RightHolds == Spec => [](TypeOK /\ RightInv)
<1>1. Init => RightInv
  BY InitRight
<1>2. Inv /\ RightInv /\ [Next]_vars => RightInv'
  BY StepRight
<1>3. Inv => TypeOK
  BY DEF Inv
<1> QED BY <1>1, <1>2, <1>3, MemoizeInvariant, PTL DEF Spec

(* What a caller can be handed from the cache is the result that the body  *)
(* would have computed for it, if it is let run for as long as it takes.   *)
CachedValuesAreComputed ==
    \A e \in Entries : \A i \in 1..Len(variants[e]) : \A scope \in Scopes(Len(bound)) :
        Matches(variants[e][i].reads, scope) =>
            Ends(ColdStart(e, [t \in Types |-> ValueOf(scope[t])]), variants[e][i].value)

LEMMA RightComputed ==
  ASSUME TypeOK, RightInv
  PROVE  CachedValuesAreComputed
<1> SUFFICES ASSUME NEW e \in Entries, NEW i \in 1..Len(variants[e]),
                    NEW scope \in Scopes(Len(bound)), Matches(variants[e][i].reads, scope)
             PROVE  Ends(ColdStart(e, [t \in Types |-> ValueOf(scope[t])]), variants[e][i].value)
  BY DEF CachedValuesAreComputed
<1>1. PICK vals : vals = [t \in Types |-> ValueOf(scope[t])]
  OBVIOUS
<1>2. \A t \in Types : ValueOf(scope[t]) = ValueIn(bound, scope[t])
                       /\ ValueIn(bound, scope[t]) \in Known
  BY KnownValues DEF ValueOf, ValueIn, Scopes
<1>3. vals \in Context
  BY <1>1, <1>2 DEF Context
<1>4. variants[e][i] \in VariantSet
  BY ElementOfSeq DEF TypeOK
<1>5. Agrees(bound, variants[e][i].reads, vals)
  BY <1>1, <1>2, <1>4 DEF Agrees, Matches, VariantSet, ReadSet
<1>6. RightFor(bound, e, variants[e][i].reads, variants[e][i].value)
  BY DEF RightInv, VariantsRight
<1> QED BY <1>1, <1>3, <1>5, <1>6 DEF RightFor

(* However calls, computations and failures interleave, the variants that  *)
(* get_or_init() keeps hold the results that the bodies have in every      *)
(* scope they are found from, with nothing cached (memoize/cell.rs).       *)
THEOREM CachedResultsAreComputed == Spec => []CachedValuesAreComputed
<1> QED BY RightHolds, RightComputed, PTL

(* And so no length of cold run tells them apart.                          *)
THEOREM CachedResultsAreRight == Spec => []CachedValuesAreRight
<1>1. ASSUME TypeOK, RightInv PROVE CachedValuesAreRight
  <2> SUFFICES ASSUME NEW e \in Entries, NEW i \in 1..Len(variants[e]),
                      NEW scope \in Scopes(Len(bound)), Matches(variants[e][i].reads, scope)
               PROVE  Cold[ColdSteps][ColdStart(e, [t \in Types |-> ValueOf(scope[t])])]
                         \in {variants[e][i].value, NoValue}
    BY DEF CachedValuesAreRight
  <2>1. PICK vals : vals = [t \in Types |-> ValueOf(scope[t])]
    OBVIOUS
  <2>2. Ends(ColdStart(e, vals), variants[e][i].value)
    BY <1>1, <2>1, RightComputed DEF CachedValuesAreComputed
  <2>3. vals \in Context
    BY <1>1, <2>1, KnownValues DEF Context, ValueOf, ValueIn, Scopes
  <2>4. variants[e][i].value \in Values
    <3>1. variants[e][i] \in VariantSet
      BY <1>1, ElementOfSeq DEF TypeOK
    <3> QED BY <3>1 DEF VariantSet
  <2> QED BY <2>1, <2>2, <2>3, <2>4, FirstRun, EndsOnce, MemoizeAssumption
<1> QED BY <1>1, RightHolds, PTL

=============================================================================
