----------------------------- MODULE FlowProofs -----------------------------
(***************************************************************************)
(* Proofs about OwnershipFlow, for any bindings and for texts of any       *)
(* length and depth: what the checker accepts of a straight text is safe   *)
(* on every path, and releases there all that it allocates.                *)
(***************************************************************************)
EXTENDS OwnershipFlow, InductionLemmas, SequenceTheorems

(* The theorems are about texts that keep to the rules of MayRebind.        *)
StraightText == ~style.retakes /\ ~style.revives /\ ~style.rehandles

Stores == [value : [Bindings -> Nat], target : [Bindings -> Bindings \cup {Nobody}],
           gone : SUBSET Bindings, made : SUBSET Nat, released : SUBSET Nat]
Envs == [Bindings -> {"own", "view", "borrow", "none"}]

Borrowed(e, q, f) == {b \in Bindings : e[b] = "borrow"} \ (q \cup f.moved)
Holders(e, f) == Owners(e) \ f.moved

Shaped(e, f) ==
  /\ e \in Envs /\ f \in FlowStates
  /\ f.moved \subseteq Visible(e)
  /\ \A n \in Bindings : f.views[n] # Nobody <=> e[n] \in {"view", "borrow"}
  /\ \A n \in Bindings : f.views[n] \in Visible(e) \cup {Nobody}

Protected(e, q, f) ==
  \A b \in Borrowed(e, q, f) :
    Root(f, b) \in f.loans[b] \ f.moved /\ f.views[Root(f, b)] = Nobody

Faithful(L, e, q, f, s) ==
  /\ s \in Stores
  /\ s.target = f.views
  /\ s.gone \subseteq f.moved /\ Owners(e) \cap f.moved \subseteq s.gone
  /\ s.made \subseteq 1 .. L /\ s.released \subseteq s.made
  /\ s.made \ s.released = {s.value[n] : n \in Holders(e, f)}
  /\ \A n, m \in Holders(e, f) : s.value[n] = s.value[m] => n = m
  /\ \A b \in Borrowed(e, q, f) : s.value[b] = s.value[Root(f, b)]

Sound(L, e, q, f, S) == Shaped(e, f) /\ Protected(e, q, f) /\ \A s \in S : Faithful(L, e, q, f, s)

Since(fr, f, S) ==
  fr.kind = "while" =>
    /\ fr.flow.moved \subseteq f.moved
    /\ \A s \in S : \E t \in fr.stores : s.gone \cap fr.flow.moved = t.gone \cap fr.flow.moved

Around(fr, e, q) ==
  /\ \A n \in Visible(fr.env) : e[n] = fr.env[n]
  /\ q \cap Visible(fr.env) = fr.quiet

Outer(F, k) == IF k = 0 THEN {} ELSE Visible(F[k].env)

FrameOK(L, F, i) ==
  LET fr == F[i] IN
  /\ fr.quiet \subseteq Visible(fr.env)
  /\ fr.locals = Visible(fr.env) \ Outer(F, i - 1)
  /\ Sound(L, fr.env, fr.quiet, fr.flow, fr.stores)
  /\ \A j \in 1 .. i - 1 : Around(F[j], fr.env, fr.quiet) /\ Since(F[j], fr.flow, fr.stores)
  /\ \A x \in fr.exits : /\ Sound(L, fr.env, fr.quiet, x.flow, x.stores)
                         /\ \A j \in 1 .. i : Since(F[j], x.flow, x.stores)

Nested(L, F, e, q, D) ==
  /\ q \subseteq Visible(e)
  /\ D = Visible(e) \ Outer(F, Len(F))
  /\ \A i \in 1 .. Len(F) : FrameOK(L, F, i) /\ Around(F[i], e, q)

Current(L, F, e, q, f, S) == Sound(L, e, q, f, S) /\ \A j \in 1 .. Len(F) : Since(F[j], f, S)

Exits == [flow : FlowStates, stores : SUBSET Stores]
Frames == [kind : {"if", "else", "while"}, env : Envs, locals : SUBSET Bindings, quiet : SUBSET Bindings,
           flow : FlowStates, stores : SUBSET Stores, exits : SUBSET Exits]

FlowIndInv ==
  /\ FlowTypeOK /\ stores \subseteq Stores /\ frames \in Seq(Frames)
  /\ faults = {} /\ \A s \in finished : s.made = s.released
  /\ Nested(length, frames, env, quiet, locals)
  /\ open => Current(length, frames, env, quiet, flow, stores)

-----------------------------------------------------------------------------
(* The way from a binding to the owner it stands for                        *)

Size == Cardinality(Bindings)
Viewing == [Bindings -> Bindings \cup {Nobody}]

LEMMA SizeTyped == Size \in Nat /\ (Bindings # {} => Size >= 1)
BY OwnershipFlowAssumption, FS_CardinalityType, FS_EmptySet DEF Size

Onward(f, n) == IF f.views[n] = Nobody THEN n ELSE f.views[n]

(* Chain is the function that its recursive definition describes.           *)
LEMMA ChainDefined ==
  ASSUME NEW f, f.views \in Viewing, NEW n \in Bindings
  PROVE  /\ Chain(f, n) \in [0 .. Size -> Bindings]
         /\ Chain(f, n)[0] = n
         /\ \A i \in 1 .. Size : Chain(f, n)[i] = Onward(f, Chain(f, n)[i - 1])
<1> DEFINE Way(g) == [i \in 0 .. Size |-> IF i = 0 THEN n ELSE IF f.views[g[i - 1]] = Nobody THEN g[i - 1] ELSE f.views[g[i - 1]]]
<1> DEFINE step == [i \in 1 .. Size |-> [m \in Bindings |-> Onward(f, m)]]
<1>1. Size \in Nat
  BY SizeTyped
<1>2. step \in [1 .. Size -> [Bindings -> Bindings]]
  BY DEF Viewing, Onward
<1>3. PICK g : Follows(g, Size, Bindings, n, step)
  <2> HIDE DEF step
  <2>1. QED
    BY <1>1, <1>2, RecursionExists
<1>4. g \in [0 .. Size -> Bindings] /\ g[0] = n
  BY <1>3 DEF Follows
<1>5. ASSUME NEW i \in 1 .. Size PROVE g[i] = Onward(f, g[i - 1])
  <2>1. g[i] = step[i][g[i - 1]] /\ i - 1 \in 0 .. Size
    BY <1>1, <1>3 DEF Follows
  <2>2. g[i - 1] \in Bindings
    BY <1>4, <2>1
  <2>3. QED
    BY <2>1, <2>2
<1>6. g = Way(g)
  <2>1. ASSUME NEW i \in 0 .. Size PROVE g[i] = Way(g)[i]
    <3>1. CASE i = 0
      BY <1>4, <3>1
    <3>2. CASE i \in 1 .. Size
      <4>1. i # 0 /\ g[i] = Onward(f, g[i - 1])
        BY <1>1, <1>5, <3>2
      <4>2. Way(g)[i] = Onward(f, g[i - 1])
        BY <4>1 DEF Onward
      <4>3. QED
        BY <4>1, <4>2
    <3>3. QED
      BY <1>1, <3>1, <3>2
  <2>2. QED
    BY <1>4, <2>1
<1> DEFINE c == CHOOSE h : h = Way(h)
<1>7. c = Way(c) /\ Chain(f, n) = c
  <2>1. c = Way(c)
    BY <1>6, Zenon
  <2>2. Chain(f, n) = c
    BY DEF Chain, Size
  <2>3. QED
    BY <2>1, <2>2
<1> HIDE DEF c
<1>8. c[0] = n
  BY <1>1, <1>7
<1>9. ASSUME NEW i \in 1 .. Size PROVE c[i] = Onward(f, c[i - 1])
  <2>1. i \in 0 .. Size /\ i # 0
    BY <1>1
  <2>2. QED
    BY <1>7, <2>1 DEF Onward
<1>10. ASSUME NEW i \in 0 .. Size PROVE c[i] \in Bindings
  <2> DEFINE S == {j \in Nat : j <= Size => c[j] \in Bindings}
  <2>1. 0 \in S
    BY <1>8
  <2>2. ASSUME NEW j \in Nat, j \in S PROVE j + 1 \in S
    <3>1. j + 1 <= Size => j + 1 \in 1 .. Size /\ (j + 1) - 1 = j /\ c[j] \in Bindings
      BY <1>1, <2>2
    <3>2. QED
      BY <1>9, <3>1 DEF Onward, Viewing
  <2>3. i \in S
    <3> HIDE DEF S
    <3>1. QED
      BY <1>1, <2>1, <2>2, SetInduction
  <2>4. QED
    BY <1>1, <2>3
<1>11. c \in [0 .. Size -> Bindings]
  <2>1. DOMAIN c = 0 .. Size /\ c = [i \in 0 .. Size |-> c[i]]
    BY <1>7
  <2>2. QED
    BY <1>10, <2>1
<1>12. QED
  BY <1>7, <1>8, <1>9, <1>11

LEMMA RootTyped ==
  ASSUME NEW f, f.views \in Viewing, NEW n \in Bindings
  PROVE  Root(f, n) \in Through(f, n) /\ n \in Through(f, n) /\ Through(f, n) \subseteq Bindings
<1>1. Size \in Nat
  BY SizeTyped
<1>2. QED
  BY <1>1, ChainDefined DEF Root, Through, Size

(* A set that no view of a member leads out of.                             *)
LEMMA ChainStays ==
  ASSUME NEW f, f.views \in Viewing, NEW V \in SUBSET Bindings, NEW n \in V,
         \A m \in V : f.views[m] \in V \cup {Nobody}
  PROVE  Through(f, n) \subseteq V
<1> DEFINE S == {j \in Nat : j <= Size => Chain(f, n)[j] \in V}
<1>1. Size \in Nat /\ Chain(f, n)[0] = n /\ \A i \in 1 .. Size : Chain(f, n)[i] = Onward(f, Chain(f, n)[i - 1])
  BY SizeTyped, ChainDefined
<1>2. 0 \in S
  BY <1>1
<1>3. ASSUME NEW j \in Nat, j \in S PROVE j + 1 \in S
  <2>1. j + 1 <= Size => j + 1 \in 1 .. Size /\ (j + 1) - 1 = j /\ Chain(f, n)[j] \in V
    BY <1>1, <1>3
  <2>2. QED
    BY <1>1, <2>1 DEF Onward
<1>4. ASSUME NEW i \in 0 .. Size PROVE Chain(f, n)[i] \in V
  <2>1. i \in S
    <3> HIDE DEF S
    <3>1. QED
      BY <1>1, <1>2, <1>3, SetInduction
  <2>2. QED
    BY <1>1, <2>1
<1>5. QED
  BY <1>4 DEF Through, Size

(* What views elsewhere are of makes no difference.                         *)
LEMMA ChainSame ==
  ASSUME NEW f, NEW g, f.views \in Viewing, g.views \in Viewing, NEW n \in Bindings,
         \A m \in Through(f, n) : g.views[m] = f.views[m]
  PROVE  Through(g, n) = Through(f, n) /\ Root(g, n) = Root(f, n)
<1> DEFINE S == {j \in Nat : j <= Size => Chain(g, n)[j] = Chain(f, n)[j]}
<1>1. Size \in Nat /\ Chain(f, n)[0] = n /\ \A i \in 1 .. Size : Chain(f, n)[i] = Onward(f, Chain(f, n)[i - 1])
  BY SizeTyped, ChainDefined
<1>2. Chain(g, n)[0] = n /\ \A i \in 1 .. Size : Chain(g, n)[i] = Onward(g, Chain(g, n)[i - 1])
  BY ChainDefined
<1>3. \A i \in 0 .. Size : g.views[Chain(f, n)[i]] = f.views[Chain(f, n)[i]]
  BY DEF Through, Size
<1>4. 0 \in S
  BY <1>1, <1>2
<1>5. ASSUME NEW j \in Nat, j \in S PROVE j + 1 \in S
  <2>1. j + 1 <= Size => j + 1 \in 1 .. Size /\ j \in 0 .. Size /\ (j + 1) - 1 = j /\ Chain(g, n)[j] = Chain(f, n)[j]
    BY <1>1, <1>5
  <2>2. QED
    BY <1>1, <1>2, <1>3, <2>1 DEF Onward
<1>6. ASSUME NEW i \in 0 .. Size PROVE Chain(g, n)[i] = Chain(f, n)[i]
  <2>1. i \in S
    <3> HIDE DEF S
    <3>1. QED
      BY <1>1, <1>4, <1>5, SetInduction
  <2>2. QED
    BY <1>1, <2>1
<1>7. QED
  BY <1>1, <1>6 DEF Root, Through, Size

LEMMA ChainShift ==
  ASSUME NEW f, NEW g, f.views \in Viewing, g.views \in Viewing, NEW n \in Bindings, NEW v \in Bindings,
         g.views[n] = v, \A m \in Through(f, v) : g.views[m] = f.views[m],
         g.views[Root(g, n)] = Nobody
  PROVE  Root(g, n) = Root(f, v) /\ Through(f, v) \subseteq Through(g, n)
<1> DEFINE S == {j \in Nat : j + 1 <= Size => Chain(g, n)[j + 1] = Chain(f, v)[j]}
<1>1. Size \in Nat /\ Chain(f, v)[0] = v /\ \A i \in 1 .. Size : Chain(f, v)[i] = Onward(f, Chain(f, v)[i - 1])
  BY SizeTyped, ChainDefined
<1>2. Chain(g, n)[0] = n /\ \A i \in 1 .. Size : Chain(g, n)[i] = Onward(g, Chain(g, n)[i - 1])
  BY ChainDefined
<1>3. \A i \in 0 .. Size : g.views[Chain(f, v)[i]] = f.views[Chain(f, v)[i]]
  BY DEF Through, Size
<1>4. v # Nobody /\ Size >= 1
  BY SizeTyped, OwnershipFlowAssumption
<1>5. 0 \in S
  <2>1. 1 \in 1 .. Size /\ 1 - 1 = 0 /\ 0 + 1 = 1
    BY <1>1, <1>4
  <2>2. Chain(g, n)[1] = v
    BY <1>2, <1>4, <2>1 DEF Onward
  <2>3. QED
    BY <1>1, <2>1, <2>2
<1>6. ASSUME NEW j \in Nat, j \in S PROVE j + 1 \in S
  <2> SUFFICES ASSUME (j + 1) + 1 <= Size PROVE Chain(g, n)[(j + 1) + 1] = Chain(f, v)[j + 1]
    OBVIOUS
  <2>1. /\ (j + 1) + 1 \in 1 .. Size /\ ((j + 1) + 1) - 1 = j + 1
        /\ j + 1 \in 1 .. Size /\ (j + 1) - 1 = j /\ j \in 0 .. Size
    BY <1>1
  <2>2. Chain(g, n)[j + 1] = Chain(f, v)[j]
    BY <1>6, <2>1
  <2>3. QED
    BY <1>1, <1>2, <1>3, <2>1, <2>2 DEF Onward
<1>7. ASSUME NEW i \in 0 .. Size - 1 PROVE Chain(g, n)[i + 1] = Chain(f, v)[i]
  <2>1. i \in S
    <3> HIDE DEF S
    <3>1. QED
      BY <1>1, <1>5, <1>6, SetInduction
  <2>2. QED
    BY <1>1, <2>1
<1>8. /\ Size - 1 \in 0 .. Size - 1 /\ (Size - 1) + 1 = Size /\ Size \in 1 .. Size /\ Size - 1 \in 0 .. Size
      /\ Size \in 0 .. Size
  BY <1>1, <1>4
<1>9. Root(g, n) = Chain(f, v)[Size - 1]
  BY <1>7, <1>8 DEF Root, Size
<1>10. Chain(f, v)[Size] = Chain(f, v)[Size - 1]
  BY <1>1, <1>3, <1>8, <1>9 DEF Onward
<1>11. ASSUME NEW i \in 0 .. Size PROVE Chain(f, v)[i] \in Through(g, n)
  <2>1. CASE i = Size
    BY <1>8, <1>9, <1>10, <2>1 DEF Root, Through, Size
  <2>2. CASE i # Size
    <3>1. i \in 0 .. Size - 1 /\ i + 1 \in 0 .. Size
      BY <1>1, <2>2
    <3>2. QED
      BY <1>7, <3>1 DEF Through, Size
  <2>3. QED
    BY <2>1, <2>2
<1>12. QED
  BY <1>9, <1>10, <1>11 DEF Root, Through, Size

-----------------------------------------------------------------------------
(* What a step leaves alone                                                 *)

LEMMA BorrowStays ==
  ASSUME NEW f, NEW g, f.views \in Viewing, g.views \in Viewing, NEW b \in Bindings,
         Root(f, b) \in f.loans[b] \ f.moved, f.views[Root(f, b)] = Nobody,
         f.loans[b] \subseteq g.loans[b], g.moved \cap f.loans[b] \subseteq f.moved,
         \A m \in Through(f, b) : g.views[m] = f.views[m]
  PROVE  /\ Root(g, b) = Root(f, b) /\ Root(f, b) \in Through(f, b)
         /\ Root(g, b) \in g.loans[b] \ g.moved /\ g.views[Root(g, b)] = Nobody
<1>1. Root(g, b) = Root(f, b) /\ Root(f, b) \in Bindings /\ Root(f, b) \in Through(f, b)
  BY ChainSame, RootTyped
<1>2. QED
  BY <1>1

\* The owner of an owner is itself.
LEMMA OwnRoot ==
  ASSUME NEW f, f.views \in Viewing, NEW n \in Bindings, f.views[n] = Nobody
  PROVE  Root(f, n) = n /\ Through(f, n) = {n}
<1>1. Through(f, n) \subseteq {n}
  <2>1. {n} \in SUBSET Bindings /\ n \in {n} /\ \A m \in {n} : f.views[m] \in {n} \cup {Nobody}
    OBVIOUS
  <2>2. QED
    BY <2>1, ChainStays
<1>2. QED
  BY <1>1, RootTyped

LEMMA ShapedViews ==
  ASSUME NEW e, NEW f, Shaped(e, f)
  PROVE  /\ f.views \in Viewing
         /\ \A n \in Visible(e) : Through(f, n) \subseteq Visible(e)
<1>1. f.views \in Viewing
  BY DEF Shaped, FlowStates, Viewing
<1>2. \A m \in Visible(e) : f.views[m] \in Visible(e) \cup {Nobody}
  BY DEF Shaped, Visible
<1>3. Visible(e) \in SUBSET Bindings
  BY DEF Visible
<1>4. QED
  BY <1>1, <1>2, <1>3, ChainStays

\* What may be read is an owner's, and it was not moved.
LEMMA ReadableRoot ==
  ASSUME NEW e, NEW f, Shaped(e, f), NEW n \in Visible(e), Readable(f, n)
  PROVE  Root(f, n) \in Holders(e, f) /\ n \notin f.moved /\ n \in Bindings
<1>1. n \in Bindings
  BY DEF Visible
<1>2. Root(f, n) \in Visible(e) /\ Root(f, n) \notin f.moved /\ n \notin f.moved
  BY <1>1, ShapedViews, RootTyped DEF Readable
<1>3. e[Root(f, n)] = "own"
  <2>1. f.views[Root(f, n)] = Nobody /\ Root(f, n) \in Bindings
    BY <1>2 DEF Readable, Visible
  <2>2. QED
    BY <1>2, <2>1 DEF Shaped, Visible, Envs
<1>4. QED
  BY <1>1, <1>2, <1>3 DEF Holders, Owners, Visible

LEMMA FaithfulLater ==
  ASSUME NEW L \in Nat, NEW e, NEW q, NEW f, NEW s, Faithful(L, e, q, f, s)
  PROVE  Faithful(L + 1, e, q, f, s)
BY DEF Faithful

LEMMA SoundLater ==
  ASSUME NEW L \in Nat, NEW e, NEW q, NEW f, NEW S, Sound(L, e, q, f, S)
  PROVE  Sound(L + 1, e, q, f, S)
BY FaithfulLater DEF Sound
\* A frame of the body stays what it was while the text goes on.
LEMMA NestedLater ==
  ASSUME NEW L \in Nat, NEW F, NEW e, NEW q, NEW D, Nested(L, F, e, q, D)
  PROVE  Nested(L + 1, F, e, q, D)
BY SoundLater DEF Nested, FrameOK

LEMMA OuterVisible ==
  ASSUME NEW L, NEW F \in Seq(Frames), NEW e \in Envs, NEW q, NEW D, Nested(L, F, e, q, D)
  PROVE  /\ Outer(F, Len(F)) \subseteq Visible(e)
         /\ \A j \in 1 .. Len(F) : Visible(F[j].env) \subseteq Outer(F, Len(F))
<1>1. CASE Len(F) = 0
  BY <1>1 DEF Outer
<1>2. CASE Len(F) # 0
  <2>1. Len(F) \in 1 .. Len(F) /\ Len(F) \in Nat
    BY <1>2
  <2>2. Outer(F, Len(F)) \subseteq Visible(e)
    BY <1>2, <2>1 DEF Outer, Nested, Around, Visible
  <2>3. ASSUME NEW j \in 1 .. Len(F) PROVE Visible(F[j].env) \subseteq Visible(F[Len(F)].env)
    <3>1. CASE j = Len(F)
      BY <3>1
    <3>2. CASE j # Len(F)
      <4>1. j \in 1 .. Len(F) - 1
        BY <3>2, <2>1
      <4>2. Around(F[j], F[Len(F)].env, F[Len(F)].quiet)
        BY <2>1, <4>1 DEF Nested, FrameOK
      <4>3. QED
        BY <4>2 DEF Around, Visible
    <3>3. QED
      BY <3>1, <3>2
  <2>4. QED
    BY <1>2, <2>2, <2>3 DEF Outer
<1>3. QED
  BY <1>1, <1>2

Ownerships == {"own", "view", "borrow"}

LEMMA BindNest ==
  ASSUME NEW L \in Nat, NEW F \in Seq(Frames), NEW e \in Envs, NEW q, NEW D, Nested(L, F, e, q, D),
         NEW n \in Bindings \ q, NEW o \in Ownerships, e[n] = "none" \/ n \in D \/ e[n] = o
  PROVE  LET e2 == [e EXCEPT ![n] = o] IN
         /\ e2 \in Envs /\ Visible(e2) = Visible(e) \cup {n}
         /\ Nested(L, F, e2, q, IF e[n] = "none" THEN D \cup {n} ELSE D)
<1> DEFINE e2 == [e EXCEPT ![n] = o]
<1>1. e2 \in Envs /\ e2[n] = o /\ \A m \in Bindings \ {n} : e2[m] = e[m]
  BY DEF Envs, Ownerships
<1> HIDE DEF e2
<1>2. Visible(e2) = Visible(e) \cup {n}
  BY <1>1 DEF Visible, Ownerships
<1>3. /\ Outer(F, Len(F)) \subseteq Visible(e)
      /\ \A j \in 1 .. Len(F) : Visible(F[j].env) \subseteq Outer(F, Len(F))
  BY OuterVisible
<1>4. D = Visible(e) \ Outer(F, Len(F)) /\ q \subseteq Visible(e)
  BY DEF Nested
<1>5. Visible(e2) \ Outer(F, Len(F)) = IF e[n] = "none" THEN D \cup {n} ELSE D
  BY <1>2, <1>3, <1>4 DEF Visible
<1>6. ASSUME NEW j \in 1 .. Len(F) PROVE FrameOK(L, F, j) /\ Around(F[j], e2, q)
  <2>1. FrameOK(L, F, j) /\ Around(F[j], e, q)
    BY DEF Nested
  <2>2. ASSUME NEW m \in Visible(F[j].env) PROVE e2[m] = F[j].env[m]
    <3>1. m \in Bindings /\ e[m] = F[j].env[m] /\ e[m] # "none" /\ m \notin D
      BY <1>3, <1>4, <2>1 DEF Around, Visible
    <3>2. QED
      BY <1>1, <3>1
  <2>3. QED
    BY <2>1, <2>2 DEF Around
<1>7. Nested(L, F, e2, q, IF e[n] = "none" THEN D \cup {n} ELSE D)
  BY <1>2, <1>4, <1>5, <1>6 DEF Nested
<1>8. QED
  BY <1>1, <1>2, <1>7 DEF e2

\* Other names are borrows of what they were when n is bound.
LEMMA BindBorrows ==
  ASSUME NEW e, NEW q, NEW f, Shaped(e, f), Protected(e, q, f), NEW n \in Bindings, NEW o,
         NEW g, g.views \in Viewing,
         \A m \in Bindings \ {n} : g.views[m] = f.views[m] /\ g.loans[m] = f.loans[m],
         f.moved \ {n} \subseteq g.moved, \A x \in g.moved \ f.moved : Unlent(f, x),
         e[n] = "none" \/ \A b \in Bindings \ {n} : f.loans[b] # {} => n \notin Through(f, b)
  PROVE  \A b \in Borrowed([e EXCEPT ![n] = o], q, g) \ {n} :
           /\ b \in Borrowed(e, q, f)
           /\ Root(g, b) = Root(f, b) /\ Root(f, b) # n
           /\ Root(g, b) \in g.loans[b] \ g.moved /\ g.views[Root(g, b)] = Nobody
<1> SUFFICES ASSUME NEW b \in Borrowed([e EXCEPT ![n] = o], q, g) \ {n}
             PROVE /\ b \in Borrowed(e, q, f)
                   /\ Root(g, b) = Root(f, b) /\ Root(f, b) # n
                   /\ Root(g, b) \in g.loans[b] \ g.moved /\ g.views[Root(g, b)] = Nobody
  OBVIOUS
<1>1. b \in Borrowed(e, q, f) /\ b \in Visible(e) /\ b \in Bindings
  BY DEF Borrowed, Visible, Shaped, Envs
<1>2. Root(f, b) \in f.loans[b] \ f.moved /\ f.views[Root(f, b)] = Nobody
  BY <1>1 DEF Protected
<1>3. n \notin Through(f, b)
  <2>1. CASE e[n] = "none"
    BY <1>1, <2>1, ShapedViews DEF Visible
  <2>2. QED
    BY <1>1, <1>2, <2>1
<1>4. f.views \in Viewing /\ Through(f, b) \subseteq Bindings
  BY <1>1, ShapedViews, RootTyped
<1>5. \A m \in Through(f, b) : g.views[m] = f.views[m]
  BY <1>3, <1>4
<1>6. g.loans[b] = f.loans[b] /\ g.moved \cap f.loans[b] \subseteq f.moved
  BY <1>1 DEF Unlent
<1>7. QED
  BY <1>1, <1>2, <1>3, <1>4, <1>5, <1>6, BorrowStays

LEMMA SinceStep ==
  ASSUME NEW fr, NEW f, NEW S, NEW g, NEW T, Since(fr, f, S), fr.flow.moved \subseteq g.moved,
         \A t \in T : \E s \in S : t.gone \cap fr.flow.moved = s.gone \cap fr.flow.moved
  PROVE  Since(fr, g, T)
BY DEF Since
-----------------------------------------------------------------------------
(* Bindings                                                                 *)


\* What a straight text may bind again.
LEMMA RebindFacts ==
  ASSUME FlowIndInv, StraightText, open, NEW n \in Bindings, NEW o, NEW f, MayRebind(f, n, o),
         f.views = flow.views, f.loans = flow.loans, f.moved \subseteq Bindings
  PROVE  /\ env[n] = "none" \/ n \in locals \/ env[n] = o
         /\ env[n] = "none" \/ (n \in f.moved /\ Unlent(flow, n))
         /\ env[n] = "none" \/ \A b \in Bindings \ {n} : flow.loans[b] # {} => n \notin Through(flow, b)
         /\ \A j \in 1 .. Len(frames) : frames[j].kind = "while" => n \notin frames[j].flow.moved
<1>1. Shaped(env, flow) /\ flow.views \in Viewing
  BY ShapedViews DEF FlowIndInv, Current, Sound
<1>2. CASE env[n] = "none"
  <2>1. ASSUME NEW j \in 1 .. Len(frames) PROVE n \notin frames[j].flow.moved
    <3>1. frames[j].flow.moved \subseteq Visible(frames[j].env)
      BY DEF FlowIndInv, Nested, FrameOK, Sound, Shaped
    <3>2. Visible(frames[j].env) \subseteq Visible(env)
      BY OuterVisible, <1>1 DEF FlowIndInv, Shaped
    <3>3. QED
      BY <1>2, <3>1, <3>2 DEF Visible
  <2>2. QED
    BY <1>2, <2>1
<1>3. CASE env[n] # "none"
  <2>1. ASSUME NEW b \in Bindings PROVE Through(f, b) = Through(flow, b)
    BY <1>1, ChainSame
  <2>2. QED
    BY <1>3, <2>1 DEF MayRebind, StraightText, Unlent, Loops
<1>4. QED
  BY <1>2, <1>3

\* A sentence that binds n.
LEMMA BindStep ==
  ASSUME FlowIndInv, StraightText, Speaks, NEW n \in Bindings \ quiet, NEW o \in Ownerships,
         env[n] = "none" \/ n \in locals \/ env[n] = o,
         \A j \in 1 .. Len(frames) : frames[j].kind = "while" => n \notin frames[j].flow.moved,
         Bind(n, o), UNCHANGED <<style, quiet, open, frames, finished, faults>>,
         flow.moved \ {n} \subseteq flow'.moved,
         Shaped(env', flow'), Protected(env', quiet, flow'),
         \A t \in stores' : /\ Faithful(length', env', quiet, flow', t)
                            /\ \E s \in stores : \A x \in flow.moved \ {n} : x \in t.gone <=> x \in s.gone
  PROVE  FlowIndInv'
<1>1. /\ length \in Nat /\ length' = length + 1 /\ length' \in 0 .. MaxLength /\ open
      /\ env \in Envs /\ frames \in Seq(Frames) /\ Nested(length, frames, env, quiet, locals)
      /\ Current(length, frames, env, quiet, flow, stores)
  BY OwnershipFlowAssumption DEF FlowIndInv, FlowTypeOK, Speaks, Envs
<1>2. env' = [env EXCEPT ![n] = o] /\ locals' = IF env[n] = "none" THEN locals \cup {n} ELSE locals
  BY DEF Bind
<1>3. env' \in Envs /\ Nested(length, frames, env', quiet, locals')
  BY <1>1, <1>2, BindNest
<1>4. Nested(length', frames', env', quiet', locals')
  BY <1>1, <1>3, NestedLater
<1>5. ASSUME NEW j \in 1 .. Len(frames) PROVE Since(frames[j], flow', stores')
  <2>1. CASE frames[j].kind # "while"
    BY <2>1 DEF Since
  <2>2. CASE frames[j].kind = "while"
    <3>1. Since(frames[j], flow, stores) /\ frames[j].flow.moved \subseteq flow.moved /\ n \notin frames[j].flow.moved
      BY <1>1, <2>2 DEF Current, Since
    <3>2. QED
      BY <3>1, SinceStep
  <2>3. QED
    BY <2>1, <2>2
<1>6. Current(length', frames', env', quiet', flow', stores')
  BY <1>5 DEF Current, Sound
<1>7. FlowTypeOK' /\ stores' \subseteq Stores /\ frames' \in Seq(Frames)
  <2>1. env' \in [Bindings -> {"own", "view", "borrow", "none"}] /\ flow' \in FlowStates /\ stores' \subseteq Stores
    BY DEF Shaped, Envs, Faithful
  <2>2. locals' \subseteq Visible(env')
    BY <1>4 DEF Nested
  <2>3. QED
    BY <1>1, <2>1, <2>2 DEF FlowTypeOK, FlowIndInv
<1>8. QED
  BY <1>4, <1>6, <1>7 DEF FlowIndInv

LEMMA NewOwnerStep ==
  ASSUME FlowIndInv, StraightText, NEW n \in Bindings, NewOwner(n)
  PROVE  FlowIndInv'
<1>1. /\ Speaks /\ n \in Bindings \ quiet /\ MayRebind(flow, n, "own") /\ Bind(n, "own") /\ flow' = Replaced(flow, n)
      /\ UNCHANGED <<style, quiet, open, frames, finished, faults>>
      /\ length' = length + 1 /\ open /\ length \in Nat /\ "own" \in Ownerships
      /\ env' = [env EXCEPT ![n] = "own"]
  <2>1. length \in Nat
    BY OwnershipFlowAssumption DEF FlowIndInv, FlowTypeOK
  <2>2. QED
    BY <2>1 DEF NewOwner, Speaks, Ownerships, Bind
<1>2. /\ Shaped(env, flow) /\ Protected(env, quiet, flow) /\ env \in Envs /\ flow \in FlowStates
      /\ \A s \in stores : Faithful(length, env, quiet, flow, s)
  BY <1>1 DEF FlowIndInv, Current, Sound, Shaped
<1>3. /\ env[n] = "none" \/ n \in locals \/ env[n] = "own"
      /\ env[n] = "none" \/ (n \in flow.moved /\ Unlent(flow, n))
      /\ env[n] = "none" \/ \A b \in Bindings \ {n} : flow.loans[b] # {} => n \notin Through(flow, b)
      /\ \A j \in 1 .. Len(frames) : frames[j].kind = "while" => n \notin frames[j].flow.moved
  <2>1. flow.moved \subseteq Bindings
    BY <1>2 DEF FlowStates
  <2>2. QED
    BY <1>1, <2>1, RebindFacts
<1>4. /\ flow' \in FlowStates /\ flow'.moved = flow.moved \ {n}
      /\ flow'.views = [flow.views EXCEPT ![n] = Nobody] /\ flow'.loans = [flow.loans EXCEPT ![n] = {}]
  BY <1>1, <1>2 DEF FlowStates, Replaced, WithoutLoans, WithoutViews
<1>5. Shaped(env', flow')
  <2>1. env' \in Envs /\ env'[n] = "own" /\ \A m \in Bindings \ {n} : env'[m] = env[m]
    BY <1>1, <1>2 DEF Envs
  <2>2. flow'.views[n] = Nobody /\ \A m \in Bindings \ {n} : flow'.views[m] = flow.views[m]
    BY <1>2, <1>4 DEF FlowStates
  <2>3. Visible(env') = Visible(env) \cup {n}
    BY <2>1 DEF Visible
  <2>4. QED
    BY <1>2, <1>4, <2>1, <2>2, <2>3 DEF Shaped
<1>6. \A b \in Borrowed(env', quiet, flow') \ {n} :
           /\ b \in Borrowed(env, quiet, flow)
           /\ Root(flow', b) = Root(flow, b) /\ Root(flow, b) # n
           /\ Root(flow', b) \in flow'.loans[b] \ flow'.moved /\ flow'.views[Root(flow', b)] = Nobody
  <2>1. flow'.views \in Viewing
    BY <1>4 DEF FlowStates, Viewing
  <2>2. /\ \A m \in Bindings \ {n} : flow'.views[m] = flow.views[m] /\ flow'.loans[m] = flow.loans[m]
        /\ flow.moved \ {n} \subseteq flow'.moved /\ flow'.moved \ flow.moved = {}
    BY <1>2, <1>4 DEF FlowStates
  <2> DEFINE g == flow'
  <2>3. /\ Shaped(env, flow) /\ Protected(env, quiet, flow) /\ n \in Bindings /\ g.views \in Viewing
        /\ \A m \in Bindings \ {n} : g.views[m] = flow.views[m] /\ g.loans[m] = flow.loans[m]
        /\ flow.moved \ {n} \subseteq g.moved /\ \A x \in g.moved \ flow.moved : Unlent(flow, x)
        /\ env[n] = "none" \/ \A b \in Bindings \ {n} : flow.loans[b] # {} => n \notin Through(flow, b)
    BY <1>2, <1>3, <2>1, <2>2
  <2> HIDE DEF g
  <2>4. \A b \in Borrowed([env EXCEPT ![n] = "own"], quiet, g) \ {n} :
           /\ b \in Borrowed(env, quiet, flow)
           /\ Root(g, b) = Root(flow, b) /\ Root(flow, b) # n
           /\ Root(g, b) \in g.loans[b] \ g.moved /\ g.views[Root(g, b)] = Nobody
    BY <2>3, BindBorrows
  <2>5. QED
    BY <1>1, <2>4 DEF g
<1>7. n \notin Borrowed(env', quiet, flow')
  BY <1>1, <1>2 DEF Borrowed, Envs
<1>8. Protected(env', quiet, flow')
  BY <1>6, <1>7 DEF Protected
<1>9. Holders(env', flow') = Holders(env, flow) \cup {n} /\ n \notin Holders(env, flow)
  BY <1>1, <1>2, <1>3, <1>4 DEF Holders, Owners, Envs
<1>10. ASSUME NEW t \in stores'
       PROVE  /\ Faithful(length', env', quiet, flow', t)
              /\ \E s \in stores : \A x \in flow.moved \ {n} : x \in t.gone <=> x \in s.gone
  <2>1. PICK s \in stores : t = [s EXCEPT !.value[n] = length', !.target[n] = Nobody, !.gone = @ \ {n},
                                         !.made = @ \cup {length'}]
    BY DEF NewOwner
  <2>2. Faithful(length, env, quiet, flow, s) /\ s \in Stores
    BY <1>2 DEF Faithful
  <2>3. /\ t.value = [s.value EXCEPT ![n] = length + 1] /\ t.target = [s.target EXCEPT ![n] = Nobody]
        /\ t.gone = s.gone \ {n} /\ t.made = s.made \cup {length + 1} /\ t.released = s.released
        /\ t \in Stores
    <3>1. /\ s.value \in [Bindings -> Nat] /\ s.target \in [Bindings -> Bindings \cup {Nobody}]
          /\ s.gone \in SUBSET Bindings /\ s.made \in SUBSET Nat /\ s.released \in SUBSET Nat
          /\ s = [value |-> s.value, target |-> s.target, gone |-> s.gone, made |-> s.made, released |-> s.released]
      BY <2>2 DEF Stores
    <3>2. t = [value |-> [s.value EXCEPT ![n] = length + 1], target |-> [s.target EXCEPT ![n] = Nobody],
               gone |-> s.gone \ {n}, made |-> s.made \cup {length + 1}, released |-> s.released]
      BY <1>1, <2>1, <3>1
    <3>3. [s.value EXCEPT ![n] = length + 1] \in [Bindings -> Nat]
      BY <1>1, <3>1
    <3>4. QED
      BY <1>1, <3>1, <3>2, <3>3 DEF Stores
  <2>4. t.target = flow'.views /\ t.gone \subseteq flow'.moved /\ Owners(env') \cap flow'.moved \subseteq t.gone
    BY <1>1, <1>2, <1>4, <2>2, <2>3 DEF Faithful, Owners, Envs
  <2>5. t.made \subseteq 1 .. length' /\ t.released \subseteq t.made
    BY <1>1, <2>2, <2>3 DEF Faithful
  <2>6. t.value[n] = length + 1 /\ \A m \in Bindings \ {n} : t.value[m] = s.value[m]
    BY <2>2, <2>3 DEF Stores
  <2>7. /\ \A m \in Holders(env, flow) : m \in Bindings \ {n} /\ s.value[m] \in s.made \ s.released
        /\ length + 1 \notin s.made /\ length + 1 \notin s.released
    BY <1>1, <1>9, <2>2 DEF Faithful, Holders, Owners
  <2>8. t.made \ t.released = {t.value[m] : m \in Holders(env', flow')}
    <3>1. {t.value[m] : m \in Holders(env', flow')} = {s.value[m] : m \in Holders(env, flow)} \cup {length + 1}
      BY <1>9, <2>6, <2>7
    <3>2. t.made \ t.released = (s.made \ s.released) \cup {length + 1}
      BY <2>3, <2>7
    <3>3. QED
      BY <2>2, <3>1, <3>2 DEF Faithful
  <2>9. \A a, m \in Holders(env', flow') : t.value[a] = t.value[m] => a = m
    BY <1>9, <2>2, <2>6, <2>7 DEF Faithful
  <2>10. \A b \in Borrowed(env', quiet, flow') : t.value[b] = t.value[Root(flow', b)]
    <3> SUFFICES ASSUME NEW b \in Borrowed(env', quiet, flow') PROVE t.value[b] = t.value[Root(flow', b)]
      OBVIOUS
    <3>1. b \in Borrowed(env, quiet, flow) /\ b # n /\ Root(flow', b) = Root(flow, b) /\ Root(flow, b) # n
      BY <1>6, <1>7
    <3>2. s.value[b] = s.value[Root(flow, b)] /\ b \in Bindings /\ Root(flow, b) \in Bindings
      BY <1>2, <2>2, <3>1, ShapedViews, RootTyped DEF Faithful, Borrowed
    <3>3. QED
      BY <2>6, <3>1, <3>2
  <2>11. QED
    BY <2>3, <2>4, <2>5, <2>8, <2>9, <2>10 DEF Faithful
<1>11. QED
  BY <1>1, <1>3, <1>4, <1>5, <1>8, <1>10, BindStep
\* A way that comes to an owner stays there.
LEMMA ChainStops ==
  ASSUME NEW f, f.views \in Viewing, NEW n \in Bindings, NEW j \in 0 .. Size,
         f.views[Chain(f, n)[j]] = Nobody, NEW k \in j .. Size
  PROVE  Chain(f, n)[k] = Chain(f, n)[j]
<1> DEFINE S == {i \in Nat : i >= j /\ i <= Size => Chain(f, n)[i] = Chain(f, n)[j]}
<1>1. Size \in Nat /\ \A i \in 1 .. Size : Chain(f, n)[i] = Onward(f, Chain(f, n)[i - 1])
  BY SizeTyped, ChainDefined
<1>2. 0 \in S
  BY <1>1
<1>3. ASSUME NEW i \in Nat, i \in S PROVE i + 1 \in S
  <2> SUFFICES ASSUME i + 1 >= j, i + 1 <= Size PROVE Chain(f, n)[i + 1] = Chain(f, n)[j]
    OBVIOUS
  <2>1. CASE i + 1 = j
    BY <2>1
  <2>2. CASE i >= j
    <3>1. i + 1 \in 1 .. Size /\ (i + 1) - 1 = i /\ Chain(f, n)[i] = Chain(f, n)[j]
      BY <1>1, <1>3, <2>2
    <3>2. QED
      BY <1>1, <3>1 DEF Onward
  <2>3. QED
    BY <1>1, <2>1, <2>2
<1>4. k \in S
  <2> HIDE DEF S
  <2>1. k \in Nat
    BY <1>1
  <2>2. QED
    BY <1>2, <1>3, <2>1, SetInduction
<1>5. QED
  BY <1>1, <1>4

\* A way that comes to an owner does not come back.
LEMMA ChainEnds ==
  ASSUME NEW f, f.views \in Viewing, NEW n \in Bindings, NEW v \in Bindings, f.views[n] = v,
         f.views[Root(f, n)] = Nobody
  PROVE  n \notin Through(f, v)
<1> SUFFICES ASSUME n \in Through(f, v) PROVE FALSE
  OBVIOUS
<1>1. Size \in Nat /\ Chain(f, v)[0] = v /\ \A i \in 1 .. Size : Chain(f, v)[i] = Onward(f, Chain(f, v)[i - 1])
  BY SizeTyped, ChainDefined
<1>2. PICK i \in 0 .. Size : Chain(f, v)[i] = n
  BY DEF Through, Size
<1> DEFINE P == {Chain(f, v)[j] : j \in 0 .. i}
<1>3. P \in SUBSET Bindings /\ n \in P /\ v \in P
  BY <1>1, <1>2, ChainDefined
<1>4. ASSUME NEW m \in P PROVE f.views[m] \in P \cup {Nobody}
  <2>1. PICK j \in 0 .. i : m = Chain(f, v)[j]
    OBVIOUS
  <2>2. CASE j = i
    BY <1>2, <1>3, <2>1, <2>2
  <2>3. CASE j # i
    <3>1. j + 1 \in 1 .. Size /\ j + 1 \in 0 .. i /\ (j + 1) - 1 = j
      BY <1>1, <2>3
    <3>2. Chain(f, v)[j + 1] = Onward(f, m)
      BY <1>1, <2>1, <3>1
    <3>3. QED
      BY <3>1, <3>2 DEF Onward
  <2>4. QED
    BY <2>2, <2>3
<1>5. Root(f, n) \in P
  <2> HIDE DEF P
  <2>1. QED
    BY <1>3, <1>4, ChainStays, RootTyped
<1>6. PICK j \in 0 .. i : Root(f, n) = Chain(f, v)[j]
  BY <1>5
<1>7. n = Root(f, n)
  <2>1. j \in 0 .. Size /\ i \in j .. Size /\ f.views[Chain(f, v)[j]] = Nobody
    BY <1>1, <1>6
  <2>2. QED
    BY <1>2, <1>6, <2>1, ChainStops
<1>8. QED
  BY <1>7, OwnershipFlowAssumption

(* A sentence that makes n a view or a borrow of v; M is what it moves.      *)
Rebound(n, o, M) ==
  /\ Speaks /\ Bind(n, o) /\ UNCHANGED <<style, quiet, open, frames, finished, faults>>
  /\ n \in Bindings \ quiet
  /\ M \subseteq Visible(env) /\ M \cap flow.moved = {} /\ \A x \in M : Unlent(flow, x)
  /\ env[n] = "none" \/ n \in locals \/ env[n] = o
  /\ env[n] = "none" \/ n \in flow.moved \cup M
  /\ env[n] = "none" \/ \A b \in Bindings \ {n} : flow.loans[b] # {} => n \notin Through(flow, b)
  /\ \A j \in 1 .. Len(frames) : frames[j].kind = "while" => n \notin frames[j].flow.moved

LentFlow(n, o, M, v, r) ==
  [moved |-> (flow.moved \cup M) \ {n},
   loans |-> [flow.loans EXCEPT ![n] = IF o = "borrow" THEN {r} ELSE {}],
   views |-> [flow.views EXCEPT ![n] = v]]

LentIn(s, n, M, v, r) == [s EXCEPT !.value[n] = s.value[r], !.target[n] = v, !.gone = (@ \cup M) \ {n}]

LEMMA ReboundFacts ==
  ASSUME FlowIndInv, NEW n, NEW o \in Ownerships, NEW M, Rebound(n, o, M)
  PROVE  /\ length' = length + 1 /\ open /\ length \in Nat /\ env' = [env EXCEPT ![n] = o]
         /\ n \in Bindings \ quiet /\ M \subseteq Bindings
         /\ env' \in Envs /\ env'[n] = o /\ \A m \in Bindings \ {n} : env'[m] = env[m]
         /\ Visible(env') = Visible(env) \cup {n}
         /\ Shaped(env, flow) /\ Protected(env, quiet, flow) /\ env \in Envs /\ flow \in FlowStates
         /\ \A s \in stores : Faithful(length, env, quiet, flow, s) /\ s \in Stores
<1>1. length \in Nat
  BY OwnershipFlowAssumption DEF FlowIndInv, FlowTypeOK
<1>2. /\ length' = length + 1 /\ open /\ env' = [env EXCEPT ![n] = o] /\ n \in Bindings \ quiet /\ M \subseteq Bindings
  BY DEF Rebound, Speaks, Bind, Visible
<1>3. /\ Shaped(env, flow) /\ Protected(env, quiet, flow) /\ env \in Envs /\ flow \in FlowStates
      /\ \A s \in stores : Faithful(length, env, quiet, flow, s) /\ s \in Stores
  BY <1>2 DEF FlowIndInv, Current, Sound, Shaped, Faithful
<1>4. env' \in Envs /\ env'[n] = o /\ \A m \in Bindings \ {n} : env'[m] = env[m]
  BY <1>2, <1>3 DEF Envs, Ownerships
<1>5. Visible(env') = Visible(env) \cup {n}
  BY <1>2, <1>4 DEF Visible, Ownerships
<1>6. QED
  BY <1>1, <1>2, <1>3, <1>4, <1>5

Lending(n, o, M, v, r, g, e) ==
  /\ Rebound(n, o, M) /\ \A x \in M : env[x] # "own"
  /\ v \in Visible(env) /\ r = Root(g, n) /\ r \in Bindings /\ Readable(g, n)
  /\ g = flow' /\ e = env' /\ g = LentFlow(n, o, M, v, r)
  /\ \A t \in stores' : \E s \in stores : t = LentIn(s, n, M, v, r)

LEMMA LentStep ==
  ASSUME FlowIndInv, StraightText, NEW n, NEW o \in {"view", "borrow"}, NEW M, NEW v, NEW r, NEW g, NEW e,
         Lending(n, o, M, v, r, g, e)
  PROVE  FlowIndInv'
<1>1. /\ length' = length + 1 /\ open /\ length \in Nat /\ o \in Ownerships /\ e = [env EXCEPT ![n] = o]
      /\ n \in Bindings \ quiet /\ n \in Bindings
  BY ReboundFacts DEF Ownerships, Lending
<1>2. /\ Shaped(env, flow) /\ Protected(env, quiet, flow) /\ env \in Envs /\ flow \in FlowStates
      /\ \A s \in stores : Faithful(length, env, quiet, flow, s) /\ s \in Stores
  BY <1>1, ReboundFacts DEF Lending
<1>3. /\ g.moved = (flow.moved \cup M) \ {n}
      /\ g.loans = [flow.loans EXCEPT ![n] = IF o = "borrow" THEN {r} ELSE {}]
      /\ g.views = [flow.views EXCEPT ![n] = v]
  <2>1. g = LentFlow(n, o, M, v, r)
    BY DEF Lending
  <2>2. QED
    BY <2>1 DEF LentFlow
<1>4. r \in Bindings /\ v \in Bindings /\ v # Nobody /\ M \subseteq Bindings
  BY <1>1, ReboundFacts, OwnershipFlowAssumption DEF Visible, Lending
<1>5. g \in FlowStates /\ g.views \in Viewing
  <2>1. g.moved \in SUBSET Bindings
    BY <1>2, <1>3, <1>4 DEF FlowStates
  <2>2. g.loans \in [Bindings -> SUBSET Bindings]
    BY <1>1, <1>2, <1>3, <1>4 DEF FlowStates
  <2>3. g.views \in Viewing
    BY <1>1, <1>2, <1>3, <1>4 DEF FlowStates, Viewing
  <2>4. g = [moved |-> g.moved, loans |-> g.loans, views |-> g.views]
    <3>1. g = LentFlow(n, o, M, v, r)
      BY DEF Lending
    <3>2. QED
      BY <3>1 DEF LentFlow
  <2>5. QED
    BY <2>1, <2>2, <2>3, <2>4 DEF FlowStates, Viewing
<1>6. /\ g.views[n] = v /\ \A m \in Bindings \ {n} : g.views[m] = flow.views[m]
      /\ g.loans[n] = (IF o = "borrow" THEN {r} ELSE {}) /\ \A m \in Bindings \ {n} : g.loans[m] = flow.loans[m]
  BY <1>1, <1>2, <1>3 DEF FlowStates
<1>7. e \in Envs /\ e[n] = o /\ \A m \in Bindings \ {n} : e[m] = env[m]
  BY <1>1, ReboundFacts DEF Lending
<1>8. r = Root(g, n) /\ g.views[r] = Nobody /\ r \notin g.moved /\ r # n
  <2>1. r = Root(g, n) /\ g.views[r] = Nobody /\ r \notin g.moved
    BY <1>1, <1>5, RootTyped DEF Readable, Lending
  <2>2. QED
    BY <1>4, <1>6, <2>1
<1>9. Visible(e) = Visible(env) \cup {n}
  BY <1>1, ReboundFacts DEF Lending
<1>10. Shaped(e, g)
  <2>1. M \subseteq Visible(env) /\ v \in Visible(e)
    BY <1>9 DEF Rebound, Lending
  <2>2. QED
    BY <1>2, <1>3, <1>4, <1>5, <1>6, <1>7, <1>9, <2>1 DEF Shaped
<1>11. \A b \in Borrowed(e, quiet, g) \ {n} :
           /\ b \in Borrowed(env, quiet, flow)
           /\ Root(g, b) = Root(flow, b) /\ Root(flow, b) # n
           /\ Root(g, b) \in g.loans[b] \ g.moved /\ g.views[Root(g, b)] = Nobody
  <2>1. flow.moved \ {n} \subseteq g.moved /\ \A x \in g.moved \ flow.moved : Unlent(flow, x)
    BY <1>3 DEF Rebound, Lending
  <2>2. env[n] = "none" \/ \A b \in Bindings \ {n} : flow.loans[b] # {} => n \notin Through(flow, b)
    BY DEF Rebound, Lending
  <2>3. QED
    <3>1. \A b \in Borrowed([env EXCEPT ![n] = o], quiet, g) \ {n} :
            /\ b \in Borrowed(env, quiet, flow)
            /\ Root(g, b) = Root(flow, b) /\ Root(flow, b) # n
            /\ Root(g, b) \in g.loans[b] \ g.moved /\ g.views[Root(g, b)] = Nobody
      <4>1. /\ Shaped(env, flow) /\ Protected(env, quiet, flow) /\ n \in Bindings /\ g.views \in Viewing
            /\ \A m \in Bindings \ {n} : g.views[m] = flow.views[m] /\ g.loans[m] = flow.loans[m]
            /\ flow.moved \ {n} \subseteq g.moved /\ \A x \in g.moved \ flow.moved : Unlent(flow, x)
            /\ env[n] = "none" \/ \A b \in Bindings \ {n} : flow.loans[b] # {} => n \notin Through(flow, b)
        BY <1>1, <1>2, <1>5, <1>6, <2>1, <2>2
      <4>2. QED
        BY <4>1, BindBorrows
    <3>2. QED
      BY <1>1, <3>1
<1>12. Protected(e, quiet, g)
  <2> SUFFICES ASSUME NEW b \in Borrowed(e, quiet, g)
               PROVE Root(g, b) \in g.loans[b] \ g.moved /\ g.views[Root(g, b)] = Nobody
    BY DEF Protected
  <2>1. CASE b = n
    <3>1. o = "borrow"
      BY <1>7, <2>1 DEF Borrowed
    <3>2. QED
      BY <1>6, <1>8, <2>1, <3>1
  <2>2. QED
    BY <1>11, <2>1
<1>13. Holders(e, g) = Holders(env, flow) /\ Owners(e) \ {n} = Owners(env) \ {n} /\ n \notin Owners(e)
       /\ n \notin Holders(env, flow)
  BY <1>2, <1>3, <1>7 DEF Holders, Owners, Envs, Rebound, Lending
<1>14. ASSUME NEW t \in stores'
       PROVE  /\ Faithful(length', e, quiet, g, t)
              /\ \E s \in stores : \A x \in flow.moved \ {n} : x \in t.gone <=> x \in s.gone
  <2>1. PICK s \in stores : t = LentIn(s, n, M, v, r)
    BY DEF Lending
  <2>2. Faithful(length, env, quiet, flow, s) /\ s \in Stores
    BY <1>2
  <2>3. /\ t.value = [s.value EXCEPT ![n] = s.value[r]] /\ t.target = [s.target EXCEPT ![n] = v]
        /\ t.gone = (s.gone \cup M) \ {n} /\ t.made = s.made /\ t.released = s.released
        /\ t \in Stores
    <3>1. /\ s.value \in [Bindings -> Nat] /\ s.target \in [Bindings -> Bindings \cup {Nobody}]
          /\ s.gone \in SUBSET Bindings /\ s.made \in SUBSET Nat /\ s.released \in SUBSET Nat
          /\ s = [value |-> s.value, target |-> s.target, gone |-> s.gone, made |-> s.made, released |-> s.released]
      BY <2>2 DEF Stores
    <3>2. t = [value |-> [s.value EXCEPT ![n] = s.value[r]], target |-> [s.target EXCEPT ![n] = v],
               gone |-> (s.gone \cup M) \ {n}, made |-> s.made, released |-> s.released]
      BY <2>1, <3>1 DEF LentIn
    <3>3. [s.value EXCEPT ![n] = s.value[r]] \in [Bindings -> Nat]
          /\ [s.target EXCEPT ![n] = v] \in [Bindings -> Bindings \cup {Nobody}]
      BY <1>1, <1>4, <3>1
    <3>4. QED
      BY <1>4, <3>1, <3>2, <3>3 DEF Stores
  <2>4. t.target = g.views /\ t.gone \subseteq g.moved
    BY <1>3, <2>2, <2>3 DEF Faithful
  <2>5. Owners(e) \cap g.moved \subseteq t.gone
    <3>1. \A x \in Owners(e) \cap g.moved : x \in Owners(env) /\ x \in flow.moved /\ x # n
      BY <1>3, <1>13 DEF Owners, Lending
    <3>2. QED
      BY <2>2, <2>3, <3>1 DEF Faithful
  <2>6. t.made \subseteq 1 .. length' /\ t.released \subseteq t.made
    <3>1. 1 .. length \subseteq 1 .. length' /\ s.made \subseteq 1 .. length /\ s.released \subseteq s.made
      BY <1>1, <2>2 DEF Faithful
    <3>2. QED
      BY <2>3, <3>1
  <2>7. t.value[n] = s.value[r] /\ \A m \in Bindings \ {n} : t.value[m] = s.value[m]
    BY <1>1, <2>2, <2>3 DEF Stores
  <2>8. \A m \in Holders(env, flow) : t.value[m] = s.value[m]
    BY <1>13, <2>7 DEF Holders, Owners
  <2>9. /\ t.made \ t.released = {t.value[m] : m \in Holders(e, g)}
        /\ \A a, m \in Holders(e, g) : t.value[a] = t.value[m] => a = m
    <3>1. {t.value[m] : m \in Holders(e, g)} = {s.value[m] : m \in Holders(env, flow)}
      BY <1>13, <2>8
    <3>2. QED
      BY <1>13, <2>2, <2>3, <2>8, <3>1 DEF Faithful
  <2>10. \A b \in Borrowed(e, quiet, g) : t.value[b] = t.value[Root(g, b)]
    <3> SUFFICES ASSUME NEW b \in Borrowed(e, quiet, g) PROVE t.value[b] = t.value[Root(g, b)]
      OBVIOUS
    <3>1. CASE b = n
      BY <1>4, <1>8, <2>7, <3>1
    <3>2. CASE b # n
      <4>1. b \in Borrowed(env, quiet, flow) /\ Root(g, b) = Root(flow, b) /\ Root(flow, b) # n
        BY <1>11, <3>2
      <4>2. s.value[b] = s.value[Root(flow, b)] /\ b \in Bindings /\ Root(flow, b) \in Bindings
        BY <1>2, <2>2, <4>1, ShapedViews, RootTyped DEF Faithful, Borrowed
      <4>3. QED
        BY <2>7, <3>2, <4>1, <4>2
    <3>3. QED
      BY <3>1, <3>2
  <2>11. Faithful(length', e, quiet, g, t)
    BY <2>3, <2>4, <2>5, <2>6, <2>9, <2>10 DEF Faithful
  <2>12. \A x \in flow.moved \ {n} : x \in t.gone <=> x \in s.gone
    BY <2>3 DEF Rebound, Lending
  <2>13. QED
    BY <2>11, <2>12
<1>15. QED
  <2>1. flow.moved \ {n} \subseteq flow'.moved /\ g = flow' /\ e = env'
    BY <1>3 DEF Lending
  <2>2. /\ Speaks /\ Bind(n, o) /\ UNCHANGED <<style, quiet, open, frames, finished, faults>>
        /\ env[n] = "none" \/ n \in locals \/ env[n] = o
        /\ \A j \in 1 .. Len(frames) : frames[j].kind = "while" => n \notin frames[j].flow.moved
    BY DEF Rebound, Lending
  <2>3. /\ Shaped(env', flow') /\ Protected(env', quiet, flow')
        /\ \A t \in stores' : /\ Faithful(length', env', quiet, flow', t)
                             /\ \E s \in stores : \A x \in flow.moved \ {n} : x \in t.gone <=> x \in s.gone
    BY <1>10, <1>12, <1>14, <2>1
  <2>4. QED
    BY <1>1, <2>1, <2>2, <2>3, BindStep
\* A name that may be bound again is on no way that may be followed.
LEMMA NameIsFree ==
  ASSUME NEW e, NEW f, Shaped(e, f), NEW m \in Visible(e), Readable(f, m), NEW n,
         e[n] = "none" \/ n \in f.moved
  PROVE  n \notin Through(f, m)
<1>1. CASE e[n] = "none"
  BY <1>1, ShapedViews DEF Visible
<1>2. CASE n \in f.moved
  BY <1>2 DEF Readable
<1>3. QED
  BY <1>1, <1>2

LEMMA ReplacedFlow ==
  ASSUME NEW f \in FlowStates, NEW n \in Bindings
  PROVE  LET g == Replaced(f, n) IN
         /\ g \in FlowStates /\ g.views \in Viewing /\ g.moved = f.moved \ {n}
         /\ g.views = [f.views EXCEPT ![n] = Nobody] /\ g.loans = [f.loans EXCEPT ![n] = {}]
BY DEF FlowStates, Viewing, Replaced, WithoutLoans, WithoutViews

LEMMA LentRecord ==
  ASSUME NEW f \in FlowStates, NEW n \in Bindings, NEW v \in Bindings, NEW o, NEW g, g = Lent(f, n, v, o)
  PROVE  /\ g = [moved |-> g.moved, loans |-> g.loans, views |-> g.views]
         /\ g.moved = f.moved /\ g.views = [f.views EXCEPT ![n] = v] /\ g.views \in Viewing
         /\ g.loans = [f.loans EXCEPT ![n] = IF o = "borrow" THEN {Root(f, v)} ELSE f.loans[n]]
<1> DEFINE r == Root(f, v)
<1>1. g = [f EXCEPT !.views[n] = v, !.loans[n] = IF o = "borrow" THEN {r} ELSE f.loans[n]]
  BY DEF Lent
<1> HIDE DEF r
<1>2. f = [moved |-> f.moved, loans |-> f.loans, views |-> f.views] /\ f.views \in Viewing
  BY DEF FlowStates, Viewing
<1>3. g = [moved |-> f.moved, loans |-> [f.loans EXCEPT ![n] = IF o = "borrow" THEN {r} ELSE f.loans[n]],
           views |-> [f.views EXCEPT ![n] = v]]
  BY <1>1, <1>2
<1>4. [f.views EXCEPT ![n] = v] \in Viewing
  BY <1>2 DEF Viewing
<1>5. QED
  BY <1>3, <1>4 DEF r

\* The views of a flow in which n was lent v.
LEMMA LentRoot ==
  ASSUME NEW f, f.views \in Viewing, NEW n \in Bindings, NEW v \in Bindings, n \notin Through(f, v),
         NEW h, h.views \in Viewing, \A m \in Bindings \ {n} : h.views[m] = f.views[m],
         NEW g, g.views \in Viewing, \A m \in Bindings \ {n} : g.views[m] = f.views[m],
         g.views[n] = v, g.views[Root(g, n)] = Nobody
  PROVE  Root(g, n) = Root(f, v) /\ Root(h, v) = Root(f, v)
<1>1. \A m \in Through(f, v) : g.views[m] = f.views[m]
  BY RootTyped
<1>2. \A m \in Through(f, v) : h.views[m] = f.views[m]
  BY RootTyped
<1>3. Root(g, n) = Root(f, v)
  BY <1>1, ChainShift
<1>4. Root(h, v) = Root(f, v)
  BY <1>2, ChainSame
<1>5. QED
  BY <1>3, <1>4

LEMMA LendAction ==
  ASSUME FlowIndInv, StraightText, NEW n \in Bindings, NEW m \in Bindings, NEW o \in {"view", "borrow"},
         Lend(n, m, o)
  PROVE  FlowIndInv'
<1> DEFINE h == Replaced(flow, n)
<1> DEFINE g == Lent(h, n, m, o)
<1> DEFINE r == Root(g, n)
<1>1. /\ Speaks /\ n \in Bindings \ quiet /\ m \in Visible(env) /\ Readable(flow, m)
      /\ MayRebind(flow, n, o) /\ MayLend(h, n, m, o) /\ Bind(n, o) /\ flow' = g /\ open
      /\ UNCHANGED <<style, quiet, open, frames, finished, faults>>
  BY DEF Lend, Speaks
<1>2. Shaped(env, flow) /\ env \in Envs /\ flow \in FlowStates /\ flow.moved \subseteq Bindings /\ flow.views \in Viewing
  BY <1>1, ShapedViews DEF FlowIndInv, Current, Sound, Shaped, FlowStates
<1>3. /\ env[n] = "none" \/ n \in locals \/ env[n] = o
      /\ env[n] = "none" \/ n \in flow.moved
      /\ env[n] = "none" \/ \A b \in Bindings \ {n} : flow.loans[b] # {} => n \notin Through(flow, b)
      /\ \A j \in 1 .. Len(frames) : frames[j].kind = "while" => n \notin frames[j].flow.moved
  BY <1>1, <1>2, RebindFacts
<1>4. n \notin Through(flow, m)
  BY <1>1, <1>2, <1>3, NameIsFree
<1>5. /\ h \in FlowStates /\ h.views \in Viewing /\ h.moved = flow.moved \ {n}
      /\ h.views = [flow.views EXCEPT ![n] = Nobody] /\ h.loans = [flow.loans EXCEPT ![n] = {}]
  BY <1>2, ReplacedFlow
<1>6. Readable(g, n)
  BY <1>1 DEF MayLend
<1> HIDE DEF h
<1>7. /\ g = [moved |-> g.moved, loans |-> g.loans, views |-> g.views]
      /\ g.moved = h.moved /\ g.views = [h.views EXCEPT ![n] = m] /\ g.views \in Viewing
      /\ g.loans = [h.loans EXCEPT ![n] = IF o = "borrow" THEN {Root(h, m)} ELSE h.loans[n]]
  <2>1. g = Lent(h, n, m, o)
    OBVIOUS
  <2> HIDE DEF g
  <2>2. QED
    BY <1>5, <2>1, LentRecord
<1> HIDE DEF g
<1>8. g.views = [flow.views EXCEPT ![n] = m]
  BY <1>2, <1>5, <1>7 DEF Viewing
<1>9. Root(g, n) = Root(flow, m) /\ Root(h, m) = Root(flow, m)
  <2>1. \A x \in Bindings \ {n} : h.views[x] = flow.views[x]
    BY <1>2, <1>5 DEF Viewing
  <2>2. g.views[n] = m /\ \A x \in Bindings \ {n} : g.views[x] = flow.views[x]
    BY <1>2, <1>8 DEF Viewing
  <2>3. g.views[Root(g, n)] = Nobody
    BY <1>6 DEF Readable
  <2>4. flow.views \in Viewing /\ h.views \in Viewing /\ g.views \in Viewing
    BY <1>2, <1>5, <1>7
  <2>5. QED
    BY <1>4, <2>1, <2>2, <2>3, <2>4, LentRoot
<1>10. r \in Bindings
  BY <1>7, RootTyped
<1>11. g = LentFlow(n, o, {}, m, r)
  <2>1. g.loans = [flow.loans EXCEPT ![n] = IF o = "borrow" THEN {r} ELSE {}]
    BY <1>2, <1>5, <1>7, <1>9 DEF FlowStates
  <2>2. g.moved = (flow.moved \cup {}) \ {n}
    BY <1>5, <1>7
  <2> HIDE DEF r
  <2>3. QED
    BY <1>7, <1>8, <2>1, <2>2 DEF LentFlow
<1>12. ASSUME NEW t \in stores' PROVE \E s \in stores : t = LentIn(s, n, {}, m, r)
  <2>1. PICK s \in stores : t = [s EXCEPT !.value[n] = s.value[Root(flow, m)], !.target[n] = m, !.gone = @ \ {n}]
    BY DEF Lend
  <2>2. s \in Stores
    BY DEF FlowIndInv
  <2>3. t = LentIn(s, n, {}, m, r)
    <3>1. s.gone \ {n} = (s.gone \cup {}) \ {n}
      OBVIOUS
    <3>2. QED
      BY <1>9, <2>1, <2>2, <3>1 DEF LentIn, Stores
  <2>4. QED
    BY <2>3
<1>13. Rebound(n, o, {})
  BY <1>1, <1>3 DEF Rebound
<1>14. Lending(n, o, {}, m, r, flow', env')
  BY <1>1, <1>6, <1>10, <1>11, <1>12, <1>13 DEF Lending
<1>15. QED
  BY <1>14, LentStep
LEMMA MoveFacts ==
  ASSUME FlowIndInv, StraightText, NEW n \in Bindings, NEW m \in Bindings, NEW o,
         Speaks, {n, m} \cap quiet = {}, m \in Visible(env), MayMove(flow, m), MayRebind(Consumed(flow, m), n, o),
         Bind(n, o), UNCHANGED <<style, quiet, open, frames, finished, faults>>
  PROVE  /\ m \in Holders(env, flow) \/ env[m] # "own"
         /\ Rebound(n, o, {m})
         /\ n # m => n \notin Through(flow, m)
         /\ Shaped(env, flow) /\ env \in Envs /\ flow \in FlowStates /\ flow.views \in Viewing /\ m \notin flow.moved
<1>1. open
  BY DEF Speaks
<1>2. Shaped(env, flow) /\ env \in Envs /\ flow \in FlowStates /\ flow.moved \subseteq Bindings /\ flow.views \in Viewing
  BY <1>1, ShapedViews DEF FlowIndInv, Current, Sound, Shaped, FlowStates
<1> DEFINE f == Consumed(flow, m)
<1>3. f.views = flow.views /\ f.loans = flow.loans /\ f.moved = flow.moved \cup {m}
  BY <1>2 DEF Consumed, FlowStates
<1>4. Readable(flow, m) /\ Unlent(flow, m)
  BY DEF MayMove
<1>5. m \notin flow.moved
  BY <1>2, <1>4, ReadableRoot
<1> HIDE DEF f
<1>6. /\ env[n] = "none" \/ n \in locals \/ env[n] = o
      /\ env[n] = "none" \/ n \in f.moved
      /\ env[n] = "none" \/ \A b \in Bindings \ {n} : flow.loans[b] # {} => n \notin Through(flow, b)
      /\ \A j \in 1 .. Len(frames) : frames[j].kind = "while" => n \notin frames[j].flow.moved
  <2>1. MayRebind(f, n, o) /\ f.moved \subseteq Bindings
    BY <1>2, <1>3 DEF f
  <2>2. QED
    BY <1>1, <1>3, <2>1, RebindFacts
<1>7. Rebound(n, o, {m})
  BY <1>3, <1>4, <1>5, <1>6 DEF Rebound
<1>8. n # m => n \notin Through(flow, m)
  BY <1>2, <1>3, <1>4, <1>6, NameIsFree
<1>9. env[m] = "own" => m \in Holders(env, flow)
  BY <1>5 DEF Holders, Owners
<1>10. QED
  BY <1>2, <1>5, <1>7, <1>8, <1>9

\* The handle of a view is moved.
LEMMA MoveView ==
  ASSUME FlowIndInv, StraightText, NEW n \in Bindings, NEW m \in Bindings, MoveTo(n, m), flow.views[m] # Nobody
  PROVE  FlowIndInv'
<1> DEFINE v == flow.views[m]
<1> DEFINE o == env[m]
<1> DEFINE f == Consumed(flow, m)
<1> DEFINE h == Replaced(f, n)
<1> DEFINE g == Lent(h, n, v, o)
<1> DEFINE r == Root(g, n)
<1>1. open /\ Shaped(env, flow)
  BY DEF MoveTo, Speaks, FlowIndInv, Current, Sound
<1>2. m \in Visible(env) /\ MayMove(flow, m)
  BY DEF MoveTo
<1>3. o \in {"view", "borrow"} /\ v \in Visible(env) /\ v \in Bindings
  BY <1>1 DEF Shaped, Visible
<1>4. /\ Speaks /\ {n, m} \cap quiet = {} /\ MayRebind(f, n, o) /\ Bind(n, o)
      /\ MayLend(h, n, v, o) /\ flow' = g /\ UNCHANGED <<style, quiet, open, frames, finished, faults>>
  BY <1>3 DEF MoveTo
<1>5. /\ Rebound(n, o, {m}) /\ (n # m => n \notin Through(flow, m))
      /\ env \in Envs /\ flow \in FlowStates /\ flow.views \in Viewing /\ m \notin flow.moved
  BY <1>2, <1>4, MoveFacts
<1>6. f \in FlowStates /\ f.views = flow.views /\ f.loans = flow.loans /\ f.moved = flow.moved \cup {m}
  BY <1>5 DEF Consumed, FlowStates
<1>7. Readable(g, n)
  BY <1>4 DEF MayLend
<1>8. Root(flow, m) = Root(flow, v) /\ n \notin Through(flow, v)
  <2>1. flow.views[Root(flow, m)] = Nobody
    BY <1>2 DEF MayMove, Readable
  <2>2. Root(flow, m) = Root(flow, v) /\ Through(flow, v) \subseteq Through(flow, m)
    BY <1>3, <1>5, <2>1, ChainShift
  <2>3. m \notin Through(flow, v)
    BY <1>3, <1>5, <2>1, ChainEnds
  <2>4. QED
    BY <1>5, <2>2, <2>3
<1> HIDE DEF f
<1>9. /\ h \in FlowStates /\ h.views \in Viewing /\ h.moved = f.moved \ {n}
      /\ h.views = [f.views EXCEPT ![n] = Nobody] /\ h.loans = [f.loans EXCEPT ![n] = {}]
  BY <1>6, ReplacedFlow
<1> HIDE DEF h
<1>10. /\ g = [moved |-> g.moved, loans |-> g.loans, views |-> g.views]
      /\ g.moved = h.moved /\ g.views = [h.views EXCEPT ![n] = v] /\ g.views \in Viewing
      /\ g.loans = [h.loans EXCEPT ![n] = IF o = "borrow" THEN {Root(h, v)} ELSE h.loans[n]]
  <2>1. g = Lent(h, n, v, o) /\ h \in FlowStates /\ v \in Bindings
    BY <1>3, <1>9
  <2> HIDE DEF g, v, o, r
  <2>2. QED
    BY <2>1, LentRecord
<1> HIDE DEF g, v, o
<1>11. g.views = [flow.views EXCEPT ![n] = v]
  BY <1>5, <1>6, <1>9, <1>10 DEF Viewing
<1>12. Root(g, n) = Root(flow, m) /\ Root(h, v) = Root(flow, m)
  <2>1. \A x \in Bindings \ {n} : h.views[x] = flow.views[x]
    BY <1>5, <1>6, <1>9 DEF Viewing
  <2>2. g.views[n] = v /\ \A x \in Bindings \ {n} : g.views[x] = flow.views[x]
    BY <1>5, <1>11 DEF Viewing
  <2>3. g.views[Root(g, n)] = Nobody
    BY <1>7 DEF Readable
  <2>4. flow.views \in Viewing /\ h.views \in Viewing /\ g.views \in Viewing
    BY <1>5, <1>9, <1>10
  <2>5. Root(g, n) = Root(flow, v) /\ Root(h, v) = Root(flow, v)
    BY <1>3, <1>8, <2>1, <2>2, <2>3, <2>4, LentRoot
  <2>6. QED
    BY <1>8, <2>5
<1>13. r \in Bindings
  BY <1>10, RootTyped
<1>14. g = LentFlow(n, o, {m}, v, r)
  <2>1. g.loans = [flow.loans EXCEPT ![n] = IF o = "borrow" THEN {r} ELSE {}]
    <3>1. flow.loans \in [Bindings -> SUBSET Bindings] /\ h.loans = [flow.loans EXCEPT ![n] = {}]
      BY <1>5, <1>6, <1>9 DEF FlowStates
    <3>2. g.loans = [h.loans EXCEPT ![n] = IF o = "borrow" THEN {r} ELSE h.loans[n]]
      BY <1>10, <1>12
    <3> HIDE DEF r
    <3>3. QED
      BY <3>1, <3>2
  <2>2. g.moved = (flow.moved \cup {m}) \ {n}
    BY <1>6, <1>9, <1>10
  <2> HIDE DEF r
  <2>3. QED
    BY <1>10, <1>11, <2>1, <2>2 DEF LentFlow
<1>15. ASSUME NEW t \in stores' PROVE \E s \in stores : t = LentIn(s, n, {m}, v, r)
  <2>1. PICK s \in stores : t = [s EXCEPT !.value[n] = s.value[Root(flow, m)], !.target[n] = v,
                                         !.gone = (@ \cup {m}) \ {n}]
    BY <1>3 DEF MoveTo, v, o
  <2>2. t = LentIn(s, n, {m}, v, r)
    BY <1>12, <2>1 DEF LentIn
  <2>3. QED
    BY <2>2
<1>16. \A x \in {m} : env[x] # "own"
  BY <1>3 DEF o
<1>17. Lending(n, o, {m}, v, r, flow', env')
  BY <1>3, <1>4, <1>5, <1>7, <1>13, <1>14, <1>15, <1>16 DEF Lending
<1>18. QED
  BY <1>3, <1>17, LentStep

\* What a move of storage leaves of the flow.
LEMMA HandedFlow ==
  ASSUME NEW f \in FlowStates, NEW n \in Bindings, NEW m \in Bindings
  PROVE  LET g == Replaced(Consumed(f, m), n) IN
         /\ g \in FlowStates /\ g.views \in Viewing /\ g.moved = (f.moved \cup {m}) \ {n}
         /\ g.views[n] = Nobody /\ g.loans[n] = {}
         /\ \A x \in Bindings \ {n} : g.views[x] = f.views[x] /\ g.loans[x] = f.loans[x]
<1> DEFINE h == Consumed(f, m)
<1>1. h \in FlowStates /\ h.moved = f.moved \cup {m} /\ h.views = f.views /\ h.loans = f.loans
  BY DEF Consumed, FlowStates
<1> HIDE DEF h
<1> DEFINE g == Replaced(h, n)
<1>2. /\ g \in FlowStates /\ g.views \in Viewing /\ g.moved = h.moved \ {n}
      /\ g.views = [h.views EXCEPT ![n] = Nobody] /\ g.loans = [h.loans EXCEPT ![n] = {}]
  BY <1>1, ReplacedFlow
<1> HIDE DEF g
<1>3. f.views \in [Bindings -> Bindings \cup {Nobody}] /\ f.loans \in [Bindings -> SUBSET Bindings]
  BY DEF FlowStates
<1>4. /\ g.views[n] = Nobody /\ g.loans[n] = {}
      /\ \A x \in Bindings \ {n} : g.views[x] = f.views[x] /\ g.loans[x] = f.loans[x]
  BY <1>1, <1>2, <1>3
<1>5. g \in FlowStates /\ g.views \in Viewing /\ g.moved = (f.moved \cup {m}) \ {n}
  BY <1>1, <1>2
<1>6. QED
  BY <1>4, <1>5 DEF g, h

\* The storage of an owner is moved.
Handing(n, m, g, e) ==
  /\ Rebound(n, "own", {m}) /\ m \in Holders(env, flow)
  /\ g = flow' /\ e = env'
  /\ g \in FlowStates /\ g.views \in Viewing /\ g.moved = (flow.moved \cup {m}) \ {n}
  /\ g.views[n] = Nobody /\ g.loans[n] = {}
  /\ \A x \in Bindings \ {n} : g.views[x] = flow.views[x] /\ g.loans[x] = flow.loans[x]
  /\ \A t \in stores' : \E s \in stores :
       t = [s EXCEPT !.value[n] = s.value[m], !.target[n] = Nobody, !.gone = (@ \cup {m}) \ {n}]

LEMMA HandingStep ==
  ASSUME FlowIndInv, StraightText, NEW n, NEW m, NEW g, NEW e, Handing(n, m, g, e)
  PROVE  FlowIndInv'
<1>1. /\ length' = length + 1 /\ open /\ length \in Nat /\ "own" \in Ownerships /\ e = [env EXCEPT ![n] = "own"]
      /\ n \in Bindings \ quiet /\ n \in Bindings /\ m \in Bindings
  BY ReboundFacts DEF Ownerships, Handing
<1>2. /\ Shaped(env, flow) /\ Protected(env, quiet, flow) /\ env \in Envs /\ flow \in FlowStates
      /\ \A s \in stores : Faithful(length, env, quiet, flow, s) /\ s \in Stores
  BY <1>1, ReboundFacts DEF Handing
<1>3. /\ g \in FlowStates /\ g.views \in Viewing /\ g.moved = (flow.moved \cup {m}) \ {n}
      /\ g.views[n] = Nobody /\ g.loans[n] = {}
      /\ \A x \in Bindings \ {n} : g.views[x] = flow.views[x] /\ g.loans[x] = flow.loans[x]
  BY DEF Handing
<1>4. e \in Envs /\ e[n] = "own" /\ \A x \in Bindings \ {n} : e[x] = env[x]
  <2>1. Rebound(n, "own", {m}) /\ e = env'
    BY DEF Handing
  <2>2. QED
    BY <1>1, <2>1, ReboundFacts
<1>5. Visible(e) = Visible(env) \cup {n} /\ m \in Visible(env)
  <2>1. Rebound(n, "own", {m}) /\ e = env' /\ m \in Visible(env)
    BY DEF Handing, Holders, Owners, Visible
  <2>2. QED
    BY <1>1, <2>1, ReboundFacts
<1>6. Shaped(e, g)
  BY <1>1, <1>2, <1>3, <1>4, <1>5 DEF Shaped
<1>7. \A b \in Borrowed(e, quiet, g) \ {n} :
           /\ b \in Borrowed(env, quiet, flow)
           /\ Root(g, b) = Root(flow, b) /\ Root(flow, b) # n
           /\ Root(g, b) \in g.loans[b] \ g.moved /\ g.views[Root(g, b)] = Nobody
  <2>1. flow.moved \ {n} \subseteq g.moved /\ \A x \in g.moved \ flow.moved : Unlent(flow, x)
    BY <1>3 DEF Rebound, Handing
  <2>2. env[n] = "none" \/ \A b \in Bindings \ {n} : flow.loans[b] # {} => n \notin Through(flow, b)
    BY DEF Rebound, Handing
  <2>3. \A b \in Borrowed([env EXCEPT ![n] = "own"], quiet, g) \ {n} :
            /\ b \in Borrowed(env, quiet, flow)
            /\ Root(g, b) = Root(flow, b) /\ Root(flow, b) # n
            /\ Root(g, b) \in g.loans[b] \ g.moved /\ g.views[Root(g, b)] = Nobody
    <3>1. /\ Shaped(env, flow) /\ Protected(env, quiet, flow) /\ n \in Bindings /\ g.views \in Viewing
          /\ \A x \in Bindings \ {n} : g.views[x] = flow.views[x] /\ g.loans[x] = flow.loans[x]
          /\ flow.moved \ {n} \subseteq g.moved /\ \A x \in g.moved \ flow.moved : Unlent(flow, x)
          /\ env[n] = "none" \/ \A b \in Bindings \ {n} : flow.loans[b] # {} => n \notin Through(flow, b)
      BY <1>1, <1>2, <1>3, <2>1, <2>2
    <3>2. QED
      BY <3>1, BindBorrows
  <2>4. QED
    BY <1>1, <2>3
<1>8. n \notin Borrowed(e, quiet, g)
  BY <1>4 DEF Borrowed
<1>9. Protected(e, quiet, g)
  BY <1>7, <1>8 DEF Protected
<1>10. /\ Holders(e, g) = (Holders(env, flow) \ {m}) \cup {n} /\ m \in Holders(env, flow)
       /\ n # m => n \notin Holders(env, flow)
  <2>1. m \in Holders(env, flow) /\ (env[n] = "none" \/ n \in flow.moved \cup {m})
    BY DEF Handing, Rebound
  <2>2. QED
    BY <1>1, <1>3, <1>4, <2>1 DEF Holders, Owners
<1>11. ASSUME NEW t \in stores'
       PROVE  /\ Faithful(length', e, quiet, g, t)
              /\ \E s \in stores : \A x \in flow.moved \ {n} : x \in t.gone <=> x \in s.gone
  <2>1. PICK s \in stores : t = [s EXCEPT !.value[n] = s.value[m], !.target[n] = Nobody, !.gone = (@ \cup {m}) \ {n}]
    BY DEF Handing
  <2>2. Faithful(length, env, quiet, flow, s) /\ s \in Stores
    BY <1>2
  <2>3. /\ t.value = [s.value EXCEPT ![n] = s.value[m]] /\ t.target = [s.target EXCEPT ![n] = Nobody]
        /\ t.gone = (s.gone \cup {m}) \ {n} /\ t.made = s.made /\ t.released = s.released
        /\ t \in Stores
    <3>1. /\ s.value \in [Bindings -> Nat] /\ s.target \in [Bindings -> Bindings \cup {Nobody}]
          /\ s.gone \in SUBSET Bindings /\ s.made \in SUBSET Nat /\ s.released \in SUBSET Nat
          /\ s = [value |-> s.value, target |-> s.target, gone |-> s.gone, made |-> s.made, released |-> s.released]
      BY <2>2 DEF Stores
    <3>2. t = [value |-> [s.value EXCEPT ![n] = s.value[m]], target |-> [s.target EXCEPT ![n] = Nobody],
               gone |-> (s.gone \cup {m}) \ {n}, made |-> s.made, released |-> s.released]
      BY <2>1, <3>1
    <3>3. [s.value EXCEPT ![n] = s.value[m]] \in [Bindings -> Nat]
          /\ [s.target EXCEPT ![n] = Nobody] \in [Bindings -> Bindings \cup {Nobody}]
      BY <1>1, <3>1
    <3>4. QED
      BY <1>1, <3>1, <3>2, <3>3 DEF Stores
  <2>4. t.target = g.views /\ t.gone \subseteq g.moved
    <3>1. s.target = flow.views /\ s.gone \subseteq flow.moved /\ flow.views \in Viewing
      BY <1>2, <2>2 DEF Faithful, FlowStates, Viewing
    <3>2. g.views = [flow.views EXCEPT ![n] = Nobody]
      BY <1>1, <1>3, <3>1 DEF Viewing
    <3>3. QED
      BY <1>3, <2>3, <3>1, <3>2
  <2>5. Owners(e) \cap g.moved \subseteq t.gone
    <3>1. \A x \in Owners(e) \cap g.moved : x \in Owners(env) /\ x \in flow.moved \cup {m} /\ x # n
      BY <1>3, <1>4 DEF Owners
    <3>2. Owners(env) \cap flow.moved \subseteq s.gone
      BY <2>2 DEF Faithful
    <3>3. QED
      BY <2>3, <3>1, <3>2
  <2>6. t.made \subseteq 1 .. length' /\ t.released \subseteq t.made
    <3>1. 1 .. length \subseteq 1 .. length' /\ s.made \subseteq 1 .. length /\ s.released \subseteq s.made
      BY <1>1, <2>2 DEF Faithful
    <3>2. QED
      BY <2>3, <3>1
  <2>7. t.value[n] = s.value[m] /\ \A x \in Bindings \ {n} : t.value[x] = s.value[x]
    BY <1>1, <2>2, <2>3 DEF Stores
  <2>8. Holders(env, flow) \subseteq Bindings
    BY DEF Holders, Owners
  <2>9. /\ t.made \ t.released = {t.value[x] : x \in Holders(e, g)}
        /\ \A a, x \in Holders(e, g) : t.value[a] = t.value[x] => a = x
    <3>1. \A x \in Holders(env, flow) \ {m} : t.value[x] = s.value[x] /\ x # n
      BY <1>10, <2>7, <2>8
    <3>2. {t.value[x] : x \in Holders(e, g)} = {s.value[x] : x \in Holders(env, flow)}
      BY <1>10, <2>7, <3>1
    <3>3. /\ s.made \ s.released = {s.value[x] : x \in Holders(env, flow)}
          /\ \A a, x \in Holders(env, flow) : s.value[a] = s.value[x] => a = x
      BY <2>2 DEF Faithful
    <3>4. \A a, x \in Holders(e, g) : t.value[a] = t.value[x] => a = x
      BY <1>10, <2>7, <3>1, <3>3
    <3>5. QED
      BY <2>3, <3>2, <3>3, <3>4
  <2>10. \A b \in Borrowed(e, quiet, g) : t.value[b] = t.value[Root(g, b)]
    <3> SUFFICES ASSUME NEW b \in Borrowed(e, quiet, g) PROVE t.value[b] = t.value[Root(g, b)]
      OBVIOUS
    <3>1. b # n /\ b \in Borrowed(env, quiet, flow) /\ Root(g, b) = Root(flow, b) /\ Root(flow, b) # n
      BY <1>7, <1>8
    <3>2. s.value[b] = s.value[Root(flow, b)] /\ b \in Bindings /\ Root(flow, b) \in Bindings
      BY <1>2, <2>2, <3>1, ShapedViews, RootTyped DEF Faithful, Borrowed
    <3>3. QED
      BY <2>7, <3>1, <3>2
  <2>11. Faithful(length', e, quiet, g, t)
    BY <2>3, <2>4, <2>5, <2>6, <2>9, <2>10 DEF Faithful
  <2>12. \A x \in flow.moved \ {n} : x \in t.gone <=> x \in s.gone
    BY <2>3 DEF Rebound, Handing
  <2>13. QED
    BY <2>11, <2>12
<1>12. QED
  <2>1. flow.moved \ {n} \subseteq flow'.moved /\ g = flow' /\ e = env'
    BY <1>3 DEF Handing
  <2>2. /\ Speaks /\ Bind(n, "own") /\ UNCHANGED <<style, quiet, open, frames, finished, faults>>
        /\ env[n] = "none" \/ n \in locals \/ env[n] = "own"
        /\ \A j \in 1 .. Len(frames) : frames[j].kind = "while" => n \notin frames[j].flow.moved
    BY DEF Rebound, Handing
  <2>3. /\ Shaped(env', flow') /\ Protected(env', quiet, flow')
        /\ \A t \in stores' : /\ Faithful(length', env', quiet, flow', t)
                             /\ \E s \in stores : \A x \in flow.moved \ {n} : x \in t.gone <=> x \in s.gone
    BY <1>6, <1>9, <1>11, <2>1
  <2>4. QED
    BY <1>1, <2>1, <2>2, <2>3, BindStep

LEMMA MoveOwn ==
  ASSUME FlowIndInv, StraightText, NEW n \in Bindings, NEW m \in Bindings, MoveTo(n, m), flow.views[m] = Nobody
  PROVE  FlowIndInv'
<1>1. open /\ Shaped(env, flow)
  BY DEF MoveTo, Speaks, FlowIndInv, Current, Sound
<1>2. m \in Visible(env) /\ MayMove(flow, m)
  BY DEF MoveTo
<1>3. env[m] = "own"
  BY <1>1, <1>2 DEF Shaped, Visible, Envs
<1>4. /\ Speaks /\ {n, m} \cap quiet = {} /\ MayRebind(Consumed(flow, m), n, "own") /\ Bind(n, "own")
      /\ flow' = Replaced(Consumed(flow, m), n) /\ UNCHANGED <<style, quiet, open, frames, finished, faults>>
  BY DEF MoveTo
<1>5. Rebound(n, "own", {m}) /\ m \in Holders(env, flow) /\ flow \in FlowStates /\ flow.views \in Viewing
  BY <1>2, <1>3, <1>4, MoveFacts
<1>6. /\ flow' \in FlowStates /\ flow'.views \in Viewing /\ flow'.moved = (flow.moved \cup {m}) \ {n}
      /\ flow'.views[n] = Nobody /\ flow'.loans[n] = {}
      /\ \A x \in Bindings \ {n} : flow'.views[x] = flow.views[x] /\ flow'.loans[x] = flow.loans[x]
  <2> DEFINE g == Replaced(Consumed(flow, m), n)
  <2>1. /\ g \in FlowStates /\ g.views \in Viewing /\ g.moved = (flow.moved \cup {m}) \ {n}
        /\ g.views[n] = Nobody /\ g.loans[n] = {}
        /\ \A x \in Bindings \ {n} : g.views[x] = flow.views[x] /\ g.loans[x] = flow.loans[x]
    BY <1>5, HandedFlow
  <2> HIDE DEF g
  <2>2. flow' = g
    BY <1>4 DEF g
  <2>3. QED
    BY <2>1, <2>2
<1>7. Root(flow, m) = m
  BY <1>5, OwnRoot
<1>8. \A t \in stores' : \E s \in stores :
        t = [s EXCEPT !.value[n] = s.value[m], !.target[n] = Nobody, !.gone = (@ \cup {m}) \ {n}]
  BY <1>7 DEF MoveTo
<1>9. Handing(n, m, flow', env')
  BY <1>5, <1>6, <1>8 DEF Handing
<1>10. QED
  BY <1>9, HandingStep

LEMMA MoveAction ==
  ASSUME FlowIndInv, StraightText, NEW n \in Bindings, NEW m \in Bindings, MoveTo(n, m)
  PROVE  FlowIndInv'
BY MoveView, MoveOwn

-----------------------------------------------------------------------------
(* Releases                                                                 *)

LEMMA CleanedFlow ==
  ASSUME NEW e \in Envs, NEW f \in FlowStates, NEW D \in SUBSET Bindings,
         NEW P, P = Pending(f, e, D), NEW c, c = Cleaned(f, e, D)
  PROVE  /\ P \subseteq D \cap Holders(e, f)
         /\ c \in FlowStates /\ c.moved = f.moved \cup P
         /\ \A n \in Bindings : /\ c.views[n] = IF n \in P THEN Nobody ELSE f.views[n]
                                /\ n \notin P /\ (n \in D => e[n] \notin {"view", "borrow"}) => c.loans[n] = f.loans[n]
<1> DEFINE V == {x \in D : e[x] \in {"view", "borrow"}}
<1> DEFINE u == Unlend(f, e, D)
<1> DEFINE w == [u EXCEPT !.moved = @ \cup P]
<1> DEFINE y == WithoutLoans(w, P)
<1>1. P \subseteq D \cap Holders(e, f) /\ P \subseteq Bindings
  BY DEF Pending, Holders, Owners
<1>2. /\ f.moved \in SUBSET Bindings /\ f.loans \in [Bindings -> SUBSET Bindings]
      /\ f.views \in [Bindings -> Bindings \cup {Nobody}]
      /\ f = [moved |-> f.moved, loans |-> f.loans, views |-> f.views]
  BY DEF FlowStates
<1>3. u \in FlowStates /\ u.moved = f.moved /\ u.views = f.views
      /\ u.loans = [n \in Bindings |-> IF n \in V THEN {} ELSE f.loans[n]]
  BY <1>2 DEF Unlend, WithoutLoans, FlowStates
<1> HIDE DEF u
<1>4. w \in FlowStates /\ w.moved = f.moved \cup P /\ w.views = f.views /\ w.loans = u.loans
  BY <1>1, <1>3 DEF FlowStates
<1>5. y \in FlowStates /\ y.moved = w.moved /\ y.views = w.views
      /\ y.loans = [n \in Bindings |-> IF n \in P THEN {} ELSE w.loans[n]]
  BY <1>4 DEF WithoutLoans, FlowStates
<1> HIDE DEF w
<1>6. c = WithoutViews(y, P)
  BY DEF w, u, Cleaned, Dropped
<1> HIDE DEF y
<1>7. c \in FlowStates /\ c.moved = y.moved /\ c.loans = y.loans
      /\ c.views = [n \in Bindings |-> IF n \in P THEN Nobody ELSE y.views[n]]
  BY <1>5, <1>6 DEF WithoutViews, FlowStates
<1>8. \A n \in Bindings : /\ c.views[n] = IF n \in P THEN Nobody ELSE f.views[n]
                          /\ n \notin P /\ (n \in D => e[n] \notin {"view", "borrow"}) => c.loans[n] = f.loans[n]
  BY <1>3, <1>4, <1>5, <1>7
<1>9. c.moved = f.moved \cup P
  BY <1>4, <1>5, <1>7
<1>10. QED
  BY <1>1, <1>7, <1>8, <1>9

LEMMA ClosedFlow ==
  ASSUME NEW f \in FlowStates, NEW live
  PROVE  LET c == Closed(f, live) IN
         /\ c \in FlowStates /\ c.moved = f.moved \cap live
         /\ \A n \in Bindings : c.views[n] = IF n \in live THEN f.views[n] ELSE Nobody
         /\ \A n \in Bindings \cap live : c.loans[n] = f.loans[n]
<1> DEFINE w == [f EXCEPT !.moved = @ \cap live]
<1> DEFINE y == WithoutLoans(w, Bindings \ live)
<1> DEFINE c == WithoutViews(y, Bindings \ live)
<1>1. w \in FlowStates /\ w.moved = f.moved \cap live /\ w.views = f.views /\ w.loans = f.loans
  BY DEF FlowStates
<1> HIDE DEF w
<1>2. y \in FlowStates /\ y.moved = w.moved /\ y.views = w.views
      /\ y.loans = [n \in Bindings |-> IF n \in Bindings \ live THEN {} ELSE w.loans[n]]
  BY <1>1 DEF WithoutLoans, FlowStates
<1> HIDE DEF y
<1>3. c \in FlowStates /\ c.moved = y.moved /\ c.loans = y.loans
      /\ c.views = [n \in Bindings |-> IF n \in Bindings \ live THEN Nobody ELSE y.views[n]]
  BY <1>2 DEF WithoutViews, FlowStates
<1> HIDE DEF c
<1>4. c = Closed(f, live)
  BY DEF c, y, w, Closed
<1>5. /\ \A n \in Bindings : c.views[n] = IF n \in live THEN f.views[n] ELSE Nobody
      /\ \A n \in Bindings \cap live : c.loans[n] = f.loans[n]
  BY <1>1, <1>2, <1>3
<1>6. QED
  BY <1>1, <1>2, <1>3, <1>4, <1>5

\* Owners that are not moved hold storage of their own.
LEMMA FreedOnce ==
  ASSUME NEW L \in Nat, NEW e, NEW q, NEW f, NEW s, Shaped(e, f), Faithful(L, e, q, f, s),
         NEW P \in SUBSET Holders(e, f)
  PROVE  /\ ~FreesTwice(s, f, P) /\ FreedBy(s, f, P) = {s.value[n] : n \in P}
<1> DEFINE T == {s.value[n] : n \in P}
<1> DEFINE held == [n \in P |-> s.value[n]]
<1>1. \A n \in P : n \in Bindings /\ Root(f, n) = n
  <2> SUFFICES ASSUME NEW n \in P PROVE n \in Bindings /\ Root(f, n) = n
    OBVIOUS
  <2>1. n \in Bindings /\ e[n] = "own"
    BY DEF Holders, Owners
  <2>2. f.views[n] = Nobody
    BY <2>1 DEF Shaped
  <2>3. QED
    BY <2>1, <2>2, ShapedViews, OwnRoot
<1>2. FreedBy(s, f, P) = T
  BY <1>1 DEF FreedBy
<1>3. T \cap (s.released \cup {0}) = {}
  BY DEF Faithful
<1>4. ~(Cardinality(T) < Cardinality(P))
  <2>1. IsFiniteSet(P)
    BY <1>1, FS_Subset, OwnershipFlowAssumption
  <2>2. held \in Surjection(P, T) /\ held \in [P -> T]
    BY DEF Surjection
  <2>3. IsFiniteSet(T)
    BY <2>1, <2>2, FS_Surjection
  <2>4. \A a, b \in P : held[a] = held[b] => a = b
    BY DEF Faithful
  <2> HIDE DEF held, T
  <2>5. QED
    BY <2>1, <2>2, <2>3, <2>4, FS_PigeonHole
<1>5. QED
  BY <1>2, <1>3, <1>4 DEF FreesTwice

(* From the scope of e to that of e2, with the owners in P released.         *)
Releases(e, q, f, e2, q2, g, P) ==
  /\ e2 \in Envs /\ Visible(e2) \subseteq Visible(e) /\ \A n \in Visible(e2) : e2[n] = e[n]
  /\ q2 = q \cap Visible(e2)
  /\ P \subseteq Holders(e, f) /\ Holders(e, f) \ P \subseteq Visible(e2)
  /\ g \in FlowStates /\ g.moved = (f.moved \cup P) \cap Visible(e2)
  /\ \A n \in Visible(e2) : f.views[n] \in Visible(e2) \cup {Nobody}
  /\ \A n \in Bindings : g.views[n] = IF n \in Visible(e2) THEN f.views[n] ELSE Nobody
  /\ \A n \in Visible(e2) : e[n] = "borrow" => g.loans[n] = f.loans[n] /\ f.loans[n] \cap P = {}

Released(s, e2, g, P, t) ==
  /\ t \in Stores /\ t.target = g.views /\ t.gone = (s.gone \cup P) \cap Visible(e2)
  /\ t.made = s.made /\ t.released = s.released \cup {s.value[n] : n \in P}
  /\ \A n \in Visible(e2) : t.value[n] = s.value[n]

AllReleased(S, e2, g, P, T) == \A t \in T : \E s \in S : Released(s, e2, g, P, t)

LEMMA ReleaseSound ==
  ASSUME NEW L \in Nat, NEW e, NEW q, NEW f, NEW S, Sound(L, e, q, f, S),
         NEW e2, NEW q2, NEW g, NEW P, Releases(e, q, f, e2, q2, g, P),
         NEW T, AllReleased(S, e2, g, P, T)
  PROVE  Sound(L, e2, q2, g, T)
<1>1. /\ Shaped(e, f) /\ Protected(e, q, f) /\ e \in Envs /\ f \in FlowStates /\ f.views \in Viewing
      /\ Visible(e2) \subseteq Bindings
  BY ShapedViews DEF Sound, Shaped, Visible
<1>2. /\ e2 \in Envs /\ Visible(e2) \subseteq Visible(e) /\ \A n \in Visible(e2) : e2[n] = e[n]
      /\ P \subseteq Holders(e, f) /\ Holders(e, f) \ P \subseteq Visible(e2) /\ q2 = q \cap Visible(e2)
      /\ g \in FlowStates /\ g.views \in Viewing /\ g.moved = (f.moved \cup P) \cap Visible(e2)
      /\ \A n \in Visible(e2) : f.views[n] \in Visible(e2) \cup {Nobody}
      /\ \A n \in Bindings : g.views[n] = IF n \in Visible(e2) THEN f.views[n] ELSE Nobody
      /\ \A n \in Visible(e2) : e[n] = "borrow" => g.loans[n] = f.loans[n] /\ f.loans[n] \cap P = {}
  BY DEF Releases, FlowStates, Viewing
<1>3. Shaped(e2, g)
  <2>1. ASSUME NEW n \in Bindings PROVE g.views[n] # Nobody <=> e2[n] \in {"view", "borrow"}
    BY <1>1, <1>2 DEF Shaped, Visible
  <2>2. ASSUME NEW n \in Bindings PROVE g.views[n] \in Visible(e2) \cup {Nobody}
    BY <1>2
  <2>3. QED
    BY <1>2, <2>1, <2>2 DEF Shaped
<1>4. Holders(e2, g) = Holders(e, f) \ P
  BY <1>1, <1>2 DEF Holders, Owners, Visible
<1>5. ASSUME NEW b \in Borrowed(e2, q2, g)
      PROVE  /\ b \in Borrowed(e, q, f) /\ b \in Visible(e2) /\ e[b] = "borrow"
             /\ Root(g, b) = Root(f, b) /\ Root(f, b) \in Visible(e2)
  <2>1. b \in Bindings /\ b \in Visible(e2) /\ e[b] = "borrow" /\ b \notin q2 /\ b \notin g.moved
    BY <1>2 DEF Borrowed, Visible
  <2>2. b \in Borrowed(e, q, f)
    BY <1>2, <2>1 DEF Borrowed
  <2>3. Through(f, b) \subseteq Visible(e2)
    <3>1. Visible(e2) \in SUBSET Bindings
      BY <1>1
    <3>2. QED
      BY <1>1, <1>2, <2>1, <3>1, ChainStays
  <2>4. Root(f, b) \in Visible(e2)
    BY <1>1, <2>1, <2>3, RootTyped
  <2>5. \A x \in Through(f, b) : g.views[x] = f.views[x]
    BY <1>1, <1>2, <2>3
  <2>6. Root(g, b) = Root(f, b)
    BY <1>1, <1>2, <2>1, <2>5, ChainSame
  <2>7. QED
    BY <2>1, <2>2, <2>4, <2>6
<1>6. Protected(e2, q2, g)
  <2> SUFFICES ASSUME NEW b \in Borrowed(e2, q2, g)
               PROVE Root(g, b) \in g.loans[b] \ g.moved /\ g.views[Root(g, b)] = Nobody
    BY DEF Protected
  <2>1. Root(f, b) \in f.loans[b] \ f.moved /\ f.views[Root(f, b)] = Nobody
    BY <1>1, <1>5 DEF Protected
  <2>2. g.loans[b] = f.loans[b] /\ f.loans[b] \cap P = {}
    BY <1>2, <1>5
  <2>3. QED
    BY <1>1, <1>2, <1>5, <2>1, <2>2
<1>7. ASSUME NEW t \in T PROVE Faithful(L, e2, q2, g, t)
  <2>1. PICK s \in S : Released(s, e2, g, P, t)
    BY DEF AllReleased
  <2>2. Faithful(L, e, q, f, s)
    BY DEF Sound
  <2>3. /\ t \in Stores /\ t.target = g.views /\ t.gone = (s.gone \cup P) \cap Visible(e2)
        /\ t.made = s.made /\ t.released = s.released \cup {s.value[n] : n \in P}
        /\ \A n \in Visible(e2) : t.value[n] = s.value[n]
    BY <2>1 DEF Released
  <2>4. t.gone \subseteq g.moved
    BY <1>2, <2>2, <2>3 DEF Faithful
  <2>5. Owners(e2) \cap g.moved \subseteq t.gone
    <3>1. Owners(e2) \subseteq Owners(e) \cap Visible(e2)
      BY <1>2 DEF Owners, Visible
    <3>2. QED
      BY <1>2, <2>2, <2>3, <3>1 DEF Faithful
  <2>6. /\ s.made \ s.released = {s.value[n] : n \in Holders(e, f)}
        /\ \A n, m \in Holders(e, f) : s.value[n] = s.value[m] => n = m
        /\ s.made \subseteq 1 .. L /\ s.released \subseteq s.made
    BY <2>2 DEF Faithful
  <2>7. \A n \in Holders(e2, g) : t.value[n] = s.value[n]
    BY <1>2, <1>4, <2>3
  <2>8. t.made \subseteq 1 .. L /\ t.released \subseteq t.made
    BY <1>2, <2>3, <2>6
  <2>9. t.made \ t.released = {t.value[n] : n \in Holders(e2, g)}
    <3>1. t.made \ t.released = {s.value[n] : n \in Holders(e, f) \ P}
      BY <1>2, <2>3, <2>6
    <3>2. QED
      BY <1>4, <2>7, <3>1
  <2>10. \A n, m \in Holders(e2, g) : t.value[n] = t.value[m] => n = m
    BY <1>4, <2>6, <2>7
  <2>11. \A b \in Borrowed(e2, q2, g) : t.value[b] = t.value[Root(g, b)]
    BY <1>5, <2>2, <2>3 DEF Faithful
  <2>12. QED
    BY <2>3, <2>4, <2>5, <2>8, <2>9, <2>10, <2>11 DEF Faithful
<1>8. QED
  BY <1>3, <1>6, <1>7 DEF Sound

\* An outer loop sees no difference.
LEMMA ReleaseSince ==
  ASSUME NEW e, NEW q, NEW f, NEW S, NEW e2, NEW q2, NEW g, NEW P, Releases(e, q, f, e2, q2, g, P),
         NEW T, AllReleased(S, e2, g, P, T),
         NEW fr, Since(fr, f, S), fr.flow.moved \subseteq Visible(e2)
  PROVE  Since(fr, g, T)
<1> SUFFICES ASSUME fr.kind = "while" PROVE Since(fr, g, T)
  BY DEF Since
<1>1. fr.flow.moved \subseteq f.moved /\ P \cap f.moved = {} /\ g.moved = (f.moved \cup P) \cap Visible(e2)
  BY DEF Since, Releases, Holders
<1>2. ASSUME NEW t \in T PROVE \E s \in S : t.gone \cap fr.flow.moved = s.gone \cap fr.flow.moved
  <2>1. PICK s \in S : Released(s, e2, g, P, t)
    BY DEF AllReleased
  <2>2. t.gone = (s.gone \cup P) \cap Visible(e2)
    BY <2>1 DEF Released
  <2>3. QED
    BY <1>1, <2>2
<1>3. QED
  BY <1>1, <1>2, SinceStep

\* The record that a release makes.
LEMMA ReleaseRecord ==
  ASSUME NEW L \in Nat, NEW e, NEW q, NEW f, NEW s, Shaped(e, f), Faithful(L, e, q, f, s),
         NEW P \in SUBSET Holders(e, f), NEW t, t = ReleaseIn(s, f, P)
  PROVE  /\ t \in Stores /\ t.value = s.value /\ t.target = f.views /\ t.gone = s.gone \cup P
         /\ t.made = s.made /\ t.released = s.released \cup {s.value[n] : n \in P}
<1> DEFINE V == {s.value[n] : n \in P}
<1>1. P \subseteq Bindings
  BY DEF Holders, Owners
<1>2. /\ s.value \in [Bindings -> Nat] /\ s.target \in [Bindings -> Bindings \cup {Nobody}]
      /\ s.gone \in SUBSET Bindings /\ s.made \in SUBSET Nat /\ s.released \in SUBSET Nat
      /\ s = [value |-> s.value, target |-> s.target, gone |-> s.gone, made |-> s.made, released |-> s.released]
      /\ s.target = f.views
  BY DEF Faithful, Stores
<1>3. V \in SUBSET Nat
  BY <1>1, <1>2
<1>4. FreedBy(s, f, P) = V
  BY FreedOnce
<1> HIDE DEF V
<1>5. t = [value |-> s.value, target |-> s.target, gone |-> s.gone \cup P, made |-> s.made,
           released |-> s.released \cup V]
  BY <1>2, <1>4 DEF ReleaseIn
<1>6. t \in Stores
  BY <1>1, <1>2, <1>3, <1>5 DEF Stores
<1>7. QED
  BY <1>2, <1>5, <1>6 DEF V

LEMMA ReleaseHere ==
  ASSUME NEW L \in Nat, NEW e, NEW q, NEW f, NEW s, Shaped(e, f), Faithful(L, e, q, f, s),
         NEW P \in SUBSET Holders(e, f), NEW g, g.views = f.views
  PROVE  Released(s, e, g, P, ReleaseIn(s, f, P))
<1> DEFINE t == ReleaseIn(s, f, P)
<1>1. /\ t \in Stores /\ t.value = s.value /\ t.target = f.views /\ t.gone = s.gone \cup P
      /\ t.made = s.made /\ t.released = s.released \cup {s.value[n] : n \in P}
  BY ReleaseRecord
<1>2. s.gone \cup P \subseteq Visible(e)
  BY DEF Faithful, Shaped, Holders, Owners, Visible
<1> HIDE DEF t
<1>3. t.gone = (s.gone \cup P) \cap Visible(e)
  BY <1>1, <1>2
<1>4. Released(s, e, g, P, t)
  BY <1>1, <1>3 DEF Released
<1>5. QED
  BY <1>4 DEF t

LEMMA ReleaseAndForget ==
  ASSUME NEW L \in Nat, NEW e, NEW q, NEW f, NEW s, Shaped(e, f), Faithful(L, e, q, f, s),
         NEW P \in SUBSET Holders(e, f), NEW e2, NEW g, g.views \in Viewing,
         \A n \in Bindings : g.views[n] = IF n \in Visible(e2) THEN f.views[n] ELSE Nobody
  PROVE  Released(s, e2, g, P, ForgetIn(ReleaseIn(s, f, P), Visible(e2)))
<1> DEFINE live == Visible(e2)
<1> DEFINE u == ReleaseIn(s, f, P)
<1> DEFINE t == ForgetIn(u, live)
<1>1. /\ u \in Stores /\ u.value = s.value /\ u.target = f.views /\ u.gone = s.gone \cup P
      /\ u.made = s.made /\ u.released = s.released \cup {s.value[n] : n \in P}
  BY ReleaseRecord
<1>2. live \subseteq Bindings
  BY DEF Visible
<1> HIDE DEF u, live
<1>3. /\ u.value \in [Bindings -> Nat] /\ u.target \in [Bindings -> Bindings \cup {Nobody}]
      /\ u.gone \in SUBSET Bindings /\ u.made \in SUBSET Nat /\ u.released \in SUBSET Nat
      /\ u = [value |-> u.value, target |-> u.target, gone |-> u.gone, made |-> u.made, released |-> u.released]
  BY <1>1 DEF Stores
<1>4. t = [value |-> [n \in Bindings |-> IF n \in live THEN u.value[n] ELSE 0],
           target |-> [n \in Bindings |-> IF n \in live THEN u.target[n] ELSE Nobody],
           gone |-> u.gone \cap live, made |-> u.made, released |-> u.released]
  <2> DEFINE value == [n \in Bindings |-> IF n \in live THEN u.value[n] ELSE 0]
  <2> DEFINE target == [n \in Bindings |-> IF n \in live THEN u.target[n] ELSE Nobody]
  <2>1. t = [u EXCEPT !.value = value, !.target = target, !.gone = u.gone \cap live]
    BY DEF ForgetIn
  <2> HIDE DEF value, target, t
  <2>2. t = [value |-> value, target |-> target, gone |-> u.gone \cap live, made |-> u.made, released |-> u.released]
    BY <1>3, <2>1
  <2>3. QED
    BY <2>2 DEF value, target
<1> HIDE DEF t
<1>5. t \in Stores
  BY <1>3, <1>4 DEF Stores
<1>6. t.target = g.views
  <2>1. t.target = [n \in Bindings |-> IF n \in live THEN f.views[n] ELSE Nobody]
    BY <1>1, <1>4
  <2>2. \A n \in Bindings : g.views[n] = IF n \in live THEN f.views[n] ELSE Nobody
    BY DEF live
  <2>3. QED
    BY <2>1, <2>2 DEF Viewing
<1>7. /\ t.gone = (s.gone \cup P) \cap live /\ t.made = s.made
      /\ t.released = s.released \cup {s.value[n] : n \in P}
      /\ \A n \in live : t.value[n] = s.value[n]
  BY <1>1, <1>2, <1>4
<1>8. QED
  BY <1>5, <1>6, <1>7 DEF Released, t, u, live

-----------------------------------------------------------------------------
(* The end of a scope                                                       *)

\* The bindings of blocks around are visible in those within.
LEMMA FrameInside ==
  ASSUME NEW L, NEW F \in Seq(Frames), NEW e, NEW q, NEW D, Nested(L, F, e, q, D),
         NEW i \in 1 .. Len(F), NEW j \in 1 .. i
  PROVE  F[j].flow.moved \subseteq Visible(F[i].env)
<1>1. FrameOK(L, F, i) /\ FrameOK(L, F, j)
  BY DEF Nested
<1>2. F[j].flow.moved \subseteq Visible(F[j].env)
  BY <1>1 DEF FrameOK, Sound, Shaped
<1>3. CASE j = i
  BY <1>2, <1>3
<1>4. CASE j # i
  <2>1. j \in 1 .. i - 1
    BY <1>4
  <2>2. Around(F[j], F[i].env, F[i].quiet)
    BY <1>1, <2>1 DEF FrameOK
  <2>3. QED
    BY <1>2, <2>2 DEF Around, Visible
<1>5. QED
  BY <1>3, <1>4

\* Every block from the innermost out to the i-th is over.
LEMMA LeaveReleases ==
  ASSUME FlowIndInv, open, NEW i \in 1 .. Len(frames), NEW D, D = Visible(env) \ Visible(frames[i].env),
         MayLeave(D, Visible(frames[i].env))
  PROVE  Releases(env, quiet, flow, frames[i].env, frames[i].quiet, Leaving(D, Visible(frames[i].env)),
                  Pending(flow, env, D))
<1> DEFINE e2 == frames[i].env
<1> DEFINE live == Visible(e2)
<1> DEFINE P == Pending(flow, env, D)
<1> DEFINE c == Cleaned(flow, env, D)
<1> DEFINE g == Closed(c, live)
<1>1. Shaped(env, flow) /\ env \in Envs /\ flow \in FlowStates
  BY DEF FlowIndInv, Current, Sound, Shaped
<1>2. FrameOK(length, frames, i) /\ Around(frames[i], env, quiet)
  BY DEF FlowIndInv, Nested
<1>3. /\ e2 \in Envs /\ live \subseteq Visible(env) /\ \A n \in live : e2[n] = env[n]
      /\ frames[i].quiet = quiet \cap live
  BY <1>2 DEF FrameOK, Sound, Shaped, Around, Visible
<1>4. D \in SUBSET Bindings
  BY DEF Visible
<1>5. /\ P \subseteq D \cap Holders(env, flow)
      /\ c \in FlowStates /\ c.moved = flow.moved \cup P
      /\ \A n \in Bindings : /\ c.views[n] = IF n \in P THEN Nobody ELSE flow.views[n]
                             /\ n \notin P /\ (n \in D => env[n] \notin {"view", "borrow"}) => c.loans[n] = flow.loans[n]
  <2> HIDE DEF c, P
  <2>1. P = Pending(flow, env, D) /\ c = Cleaned(flow, env, D)
    BY DEF P, c
  <2>2. QED
    BY <1>1, <1>4, <2>1, CleanedFlow
<1>6. Holders(env, flow) \ P \subseteq live
  BY DEF Holders, Owners, Pending, Visible
<1>7. \A n \in live : flow.views[n] \in live \cup {Nobody}
  <2>1. \A n \in live : c.views[n] \in live \cup {Nobody}
    BY DEF MayLeave, MayClose
  <2>2. \A n \in live : n \notin P /\ n \in Bindings
    BY <1>5 DEF Visible
  <2> HIDE DEF c, P
  <2>3. QED
    BY <1>5, <2>1, <2>2
<1>8. \A n \in P : \A b \in live : env[b] = "borrow" => n \notin flow.loans[b]
  <2> SUFFICES ASSUME NEW n \in P, NEW b \in live PROVE n \notin flow.loans[b]
    OBVIOUS
  <2>1. Unlent(Unlend(flow, env, D), n)
    BY DEF MayLeave, MayClean, MayMove
  <2>2. b \in Bindings /\ b \notin {x \in D : env[x] \in {"view", "borrow"}}
    BY DEF Visible
  <2>3. Unlend(flow, env, D).loans[b] = flow.loans[b]
    BY <1>1, <2>2 DEF Unlend, WithoutLoans, FlowStates
  <2>4. QED
    BY <2>1, <2>2, <2>3 DEF Unlent
<1> HIDE DEF c, P
<1>9. /\ g \in FlowStates /\ g.moved = c.moved \cap live
      /\ \A n \in Bindings : g.views[n] = IF n \in live THEN c.views[n] ELSE Nobody
      /\ \A n \in Bindings \cap live : g.loans[n] = c.loans[n]
  BY <1>5, ClosedFlow
<1> HIDE DEF g
<1>10. \A n \in live : n \in Bindings /\ n \notin D /\ n \notin P
  BY <1>5 DEF Visible
<1>11. \A n \in Bindings : g.views[n] = IF n \in live THEN flow.views[n] ELSE Nobody
  BY <1>5, <1>9, <1>10
<1>12. \A n \in live : g.loans[n] = flow.loans[n]
  BY <1>5, <1>9, <1>10
<1>13. \A n \in live : env[n] = "borrow" => g.loans[n] = flow.loans[n] /\ flow.loans[n] \cap P = {}
  BY <1>8, <1>12
<1>14. /\ P \subseteq Holders(env, flow) /\ g \in FlowStates /\ g.moved = (flow.moved \cup P) \cap live
  BY <1>5, <1>9
<1>15. Releases(env, quiet, flow, e2, frames[i].quiet, g, P)
  BY <1>3, <1>6, <1>7, <1>11, <1>13, <1>14 DEF Releases
<1>16. QED
  BY <1>15 DEF g, c, P, Leaving

LEMMA LeaveFacts ==
  ASSUME FlowIndInv, open, NEW i \in 1 .. Len(frames), NEW D, D = Visible(env) \ Visible(frames[i].env),
         MayLeave(D, Visible(frames[i].env)),
         NEW g, g = Leaving(D, Visible(frames[i].env)), NEW T, T = LeavingStores(D, Visible(frames[i].env))
  PROVE  /\ g \in FlowStates /\ T \subseteq Stores
         /\ Sound(length, frames[i].env, frames[i].quiet, g, T)
         /\ \A j \in 1 .. i : Since(frames[j], g, T)
         /\ LeavingFaults(D) = {}
<1> DEFINE e2 == frames[i].env
<1> DEFINE P == Pending(flow, env, D)
<1>1. Releases(env, quiet, flow, e2, frames[i].quiet, g, P)
  BY LeaveReleases
<1>2. /\ Sound(length, env, quiet, flow, stores) /\ \A j \in 1 .. Len(frames) : Since(frames[j], flow, stores)
      /\ length \in Nat
  BY OwnershipFlowAssumption DEF FlowIndInv, Current, FlowTypeOK
<1>3. Shaped(env, flow) /\ \A s \in stores : Faithful(length, env, quiet, flow, s)
  BY <1>2 DEF Sound
<1>4. T = {ForgetIn(ReleaseIn(s, flow, P), Visible(e2)) : s \in stores}
  BY DEF LeavingStores, Swept
<1> HIDE DEF P
<1>5. /\ P \in SUBSET Holders(env, flow) /\ g.views \in Viewing /\ g \in FlowStates
      /\ \A n \in Bindings : g.views[n] = IF n \in Visible(e2) THEN flow.views[n] ELSE Nobody
  BY <1>1 DEF Releases, FlowStates, Viewing
<1>6. AllReleased(stores, e2, g, P, T)
  <2> SUFFICES ASSUME NEW t \in T PROVE \E s \in stores : Released(s, e2, g, P, t)
    BY DEF AllReleased
  <2>1. PICK s \in stores : t = ForgetIn(ReleaseIn(s, flow, P), Visible(e2))
    BY <1>4
  <2>2. Released(s, e2, g, P, ForgetIn(ReleaseIn(s, flow, P), Visible(e2)))
    BY <1>2, <1>3, <1>5, ReleaseAndForget
  <2>3. QED
    BY <2>1, <2>2
<1>7. T \subseteq Stores
  BY <1>6 DEF AllReleased, Released
<1>8. Sound(length, e2, frames[i].quiet, g, T)
  BY <1>1, <1>2, <1>6, ReleaseSound
<1>9. ASSUME NEW j \in 1 .. i PROVE Since(frames[j], g, T)
  <2>1. j \in 1 .. Len(frames)
    OBVIOUS
  <2>2. frames[j].flow.moved \subseteq Visible(e2)
    BY FrameInside DEF FlowIndInv
  <2>3. Since(frames[j], flow, stores)
    BY <1>2, <2>1
  <2>4. QED
    <3> DEFINE fr == frames[j]
    <3> DEFINE q2 == frames[i].quiet
    <3>1. /\ Releases(env, quiet, flow, e2, q2, g, P) /\ Since(fr, flow, stores) /\ fr.flow.moved \subseteq Visible(e2)
          /\ AllReleased(stores, e2, g, P, T)
      BY <1>1, <1>6, <2>2, <2>3
    <3> HIDE DEF fr, e2, q2
    <3>2. Since(fr, g, T)
      BY <3>1, ReleaseSince
    <3>3. QED
      BY <3>2 DEF fr
<1>10. LeavingFaults(D) = {}
  <2>1. \A s \in stores : ~FreesTwice(s, flow, P)
    BY <1>2, <1>3, <1>5, FreedOnce
  <2>2. QED
    BY <2>1 DEF LeavingFaults, Twice, P
<1>11. QED
  BY <1>5, <1>7, <1>8, <1>9, <1>10

-----------------------------------------------------------------------------
(* Sentences that bind nothing                                              *)

\* What holds of a text holds of a longer one.
LEMMA TextGrows ==
  ASSUME FlowIndInv, Speaks \/ UNCHANGED length
  PROVE  /\ length \in Nat /\ length' \in 0 .. MaxLength /\ length' \in Nat
         /\ Nested(length', frames, env, quiet, locals)
         /\ \A e, q, f, S : Sound(length, e, q, f, S) => Sound(length', e, q, f, S)
<1>1. length \in 0 .. MaxLength /\ MaxLength \in Nat /\ Nested(length, frames, env, quiet, locals)
  BY OwnershipFlowAssumption DEF FlowIndInv, FlowTypeOK
<1>2. length' \in {length, length + 1} /\ length' \in 0 .. MaxLength /\ length \in Nat
  BY <1>1 DEF Speaks
<1>3. CASE length' = length
  BY <1>1, <1>2, <1>3
<1>4. CASE length' = length + 1
  BY <1>1, <1>2, <1>4, NestedLater, SoundLater
<1>5. QED
  BY <1>2, <1>3, <1>4

\* Nothing that a read may find is wrong.
LEMMA ReadAction ==
  ASSUME FlowIndInv, NEW n \in Bindings, ReadName(n)
  PROVE  FlowIndInv'
<1>1. /\ Speaks /\ open /\ n \in Visible(env) \ quiet /\ Readable(flow, n)
      /\ UNCHANGED <<style, env, locals, quiet, flow, open, stores, frames, finished>>
      /\ faults' = faults \cup UNION {WrongIn(s, n) : s \in stores}
  BY DEF ReadName, Speaks
<1>2. /\ Sound(length, env, quiet, flow, stores) /\ Shaped(env, flow) /\ flow.views \in Viewing
      /\ length \in Nat
  BY <1>1, TextGrows, ShapedViews DEF FlowIndInv, Current, Sound
<1>3. Root(flow, n) \in Holders(env, flow) /\ n \notin flow.moved
  BY <1>1, <1>2, ReadableRoot
<1>4. ASSUME NEW s \in stores PROVE WrongIn(s, n) = {}
  <2>1. Faithful(length, env, quiet, flow, s)
    BY <1>2 DEF Sound
  <2>2. Root(flow, n) \notin s.gone /\ n \notin s.gone
    BY <1>3, <2>1 DEF Faithful, Holders
  <2>3. s.value[Root(flow, n)] \notin s.released \cup {0}
    <3>1. s.value[Root(flow, n)] \in s.made \ s.released /\ s.made \subseteq 1 .. length
      BY <1>3, <2>1 DEF Faithful
    <3>2. QED
      BY <1>2, <3>1
  <2>4. Meant(s, n) = Root(flow, n)
    <3> DEFINE g == [views |-> s.target]
    <3>1. g.views = flow.views
      BY <2>1 DEF Faithful
    <3> HIDE DEF g
    <3>2. g.views \in Viewing /\ \A m \in Through(flow, n) : g.views[m] = flow.views[m]
      BY <1>2, <3>1
    <3>3. Root(g, n) = Root(flow, n)
      BY <1>2, <3>2, ChainSame
    <3>4. QED
      BY <3>3 DEF Meant, g
  <2>5. env[n] = "borrow" => s.value[n] = s.value[Root(flow, n)]
    BY <1>1, <1>3, <2>1 DEF Faithful, Borrowed
  <2>6. QED
    BY <2>2, <2>3, <2>4, <2>5 DEF WrongIn
<1>5. faults' = {}
  BY <1>1, <1>4 DEF FlowIndInv
<1>6. /\ length' \in 0 .. MaxLength /\ Nested(length', frames, env, quiet, locals)
      /\ Sound(length', env, quiet, flow, stores)
  BY <1>1, <1>2, TextGrows
<1>7. Current(length', frames', env', quiet', flow', stores')
  BY <1>1, <1>6 DEF FlowIndInv, Current
<1>8. Nested(length', frames', env', quiet', locals')
  BY <1>1, <1>6
<1>9. QED
  BY <1>1, <1>5, <1>6, <1>7, <1>8 DEF FlowIndInv, FlowTypeOK

LEMMA ViewsEnd ==
  ASSUME NEW f \in FlowStates, NEW D, NEW g, g = WithoutViews(f, D)
  PROVE  /\ g \in FlowStates /\ g.moved = f.moved /\ g.loans = f.loans
         /\ g.views = [n \in Bindings |-> IF n \in D THEN Nobody ELSE f.views[n]]
BY DEF WithoutViews, FlowStates

LEMMA DroppedFlow ==
  ASSUME NEW f \in FlowStates, NEW n \in Bindings, f.views[n] = Nobody, NEW g, g = Dropped(f, {n})
  PROVE  /\ g \in FlowStates /\ g.moved = f.moved \cup {n} /\ g.views = f.views
         /\ \A m \in Bindings \ {n} : g.loans[m] = f.loans[m]
<1> DEFINE w == [f EXCEPT !.moved = @ \cup {n}]
<1> DEFINE y == WithoutLoans(w, {n})
<1>1. w \in FlowStates /\ w.moved = f.moved \cup {n} /\ w.views = f.views /\ w.loans = f.loans
  BY DEF FlowStates
<1>2. g = WithoutViews(y, {n})
  BY DEF Dropped
<1> HIDE DEF w
<1>3. y \in FlowStates /\ y.moved = w.moved /\ y.views = w.views
      /\ y.loans = [m \in Bindings |-> IF m \in {n} THEN {} ELSE w.loans[m]]
  BY <1>1 DEF WithoutLoans, FlowStates
<1> HIDE DEF y
<1>4. g \in FlowStates /\ g.moved = y.moved /\ g.loans = y.loans
      /\ g.views = [m \in Bindings |-> IF m \in {n} THEN Nobody ELSE y.views[m]]
  BY <1>2, <1>3, ViewsEnd
<1>5. g.views = f.views
  <2>1. f.views \in [Bindings -> Bindings \cup {Nobody}]
    BY DEF FlowStates
  <2>2. QED
    BY <1>1, <1>3, <1>4, <2>1
<1>6. QED
  BY <1>1, <1>3, <1>4, <1>5

LEMMA DropAction ==
  ASSUME FlowIndInv, NEW n \in Bindings, DropName(n)
  PROVE  FlowIndInv'
<1> DEFINE g == Dropped(flow, {n})
<1>1. /\ Speaks /\ open /\ n \in Owners(env) \ quiet /\ MayMove(flow, n)
      /\ UNCHANGED <<style, env, locals, quiet, open, frames, finished>>
      /\ flow' = g /\ stores' = {ReleaseIn(s, flow, {n}) : s \in stores}
      /\ faults' = faults \cup Twice(stores, flow, {n})
  BY DEF DropName, Speaks
<1>2. /\ Sound(length, env, quiet, flow, stores) /\ Shaped(env, flow) /\ length \in Nat
      /\ flow \in FlowStates /\ env \in Envs
      /\ \A s \in stores : Faithful(length, env, quiet, flow, s)
      /\ \A j \in 1 .. Len(frames) : Since(frames[j], flow, stores)
  BY <1>1, TextGrows DEF FlowIndInv, Current, Sound, Shaped
<1>3. n \in Visible(env) /\ {n} \in SUBSET Holders(env, flow) /\ flow.views[n] = Nobody
  <2>1. n \in Visible(env) /\ env[n] = "own"
    BY <1>1 DEF Owners, Visible
  <2>2. n \notin flow.moved
    BY <1>1, <1>2, <2>1, ReadableRoot DEF MayMove
  <2>3. QED
    BY <1>1, <1>2, <2>1, <2>2 DEF Holders, Shaped
<1>4. /\ g \in FlowStates /\ g.moved = flow.moved \cup {n} /\ g.views = flow.views
      /\ \A m \in Bindings \ {n} : g.loans[m] = flow.loans[m]
  <2> HIDE DEF g
  <2>1. g = Dropped(flow, {n})
    BY DEF g
  <2>2. QED
    BY <1>2, <1>3, <2>1, DroppedFlow
<1> HIDE DEF g
<1>5. Releases(env, quiet, flow, env, quiet, g, {n})
  <2>1. quiet = quiet \cap Visible(env)
    BY DEF FlowIndInv, Nested
  <2>2. g.moved = (flow.moved \cup {n}) \cap Visible(env)
    BY <1>2, <1>3, <1>4 DEF Shaped
  <2>3. \A m \in Bindings : g.views[m] = IF m \in Visible(env) THEN flow.views[m] ELSE Nobody
    BY <1>2, <1>4 DEF Shaped, Visible
  <2>4. \A m \in Visible(env) : env[m] = "borrow" => g.loans[m] = flow.loans[m] /\ flow.loans[m] \cap {n} = {}
    BY <1>1, <1>4 DEF MayMove, Unlent, Owners, Visible
  <2>5. \A m \in Visible(env) : flow.views[m] \in Visible(env) \cup {Nobody}
    BY <1>2 DEF Shaped, Visible
  <2>6. Holders(env, flow) \ {n} \subseteq Visible(env)
    BY DEF Holders, Owners, Visible
  <2>7. QED
    BY <1>2, <1>3, <1>4, <2>1, <2>2, <2>3, <2>4, <2>5, <2>6 DEF Releases
<1>6. AllReleased(stores, env, g, {n}, stores')
  <2> SUFFICES ASSUME NEW t \in stores' PROVE \E s \in stores : Released(s, env, g, {n}, t)
    BY DEF AllReleased
  <2>1. PICK s \in stores : t = ReleaseIn(s, flow, {n})
    BY <1>1
  <2>2. Released(s, env, g, {n}, ReleaseIn(s, flow, {n}))
    BY <1>2, <1>3, <1>4, ReleaseHere
  <2>3. QED
    BY <2>1, <2>2
<1>7. Sound(length, env, quiet, g, stores')
  BY <1>2, <1>5, <1>6, ReleaseSound
<1>8. ASSUME NEW j \in 1 .. Len(frames) PROVE Since(frames[j], g, stores')
  <2> DEFINE fr == frames[j]
  <2>1. fr.flow.moved \subseteq Visible(env) /\ Since(fr, flow, stores)
    <3>1. FrameOK(length, frames, j) /\ Around(frames[j], env, quiet)
      BY DEF FlowIndInv, Nested
    <3>2. QED
      BY <1>2, <3>1 DEF FrameOK, Sound, Shaped, Around, Visible
  <2> HIDE DEF fr
  <2>2. Since(fr, g, stores')
    BY <1>5, <1>6, <2>1, ReleaseSince
  <2>3. QED
    BY <2>2 DEF fr
<1>9. faults' = {}
  <2>1. \A s \in stores : ~FreesTwice(s, flow, {n})
    BY <1>2, <1>3, FreedOnce
  <2>2. QED
    BY <1>1, <2>1 DEF Twice, FlowIndInv
<1>10. stores' \subseteq Stores
  BY <1>6 DEF AllReleased, Released
<1>11. /\ length' \in 0 .. MaxLength /\ Nested(length', frames, env, quiet, locals)
       /\ Sound(length', env, quiet, g, stores')
  BY <1>1, <1>7, TextGrows
<1>12. Current(length', frames', env', quiet', flow', stores')
  BY <1>1, <1>8, <1>11 DEF Current
<1>13. Nested(length', frames', env', quiet', locals')
  BY <1>1, <1>11
<1>14. QED
  BY <1>1, <1>4, <1>9, <1>10, <1>11, <1>12, <1>13 DEF FlowIndInv, FlowTypeOK

\* A borrow that is over is no longer one that protects.
LEMMA LastMentionAction ==
  ASSUME FlowIndInv, NEW n \in Bindings, LastMention(n)
  PROVE  FlowIndInv'
<1> DEFINE g == WithoutLoans(flow, {n})
<1> DEFINE q == quiet \cup {n}
<1>1. /\ open /\ n \in locals \ quiet /\ env[n] = "borrow" /\ quiet' = q /\ flow' = g
      /\ UNCHANGED <<style, length, env, locals, open, stores, frames, finished, faults>>
  BY DEF LastMention
<1>2. /\ Sound(length, env, quiet, flow, stores) /\ Shaped(env, flow) /\ Protected(env, quiet, flow)
      /\ flow \in FlowStates /\ env \in Envs /\ Nested(length, frames, env, quiet, locals)
      /\ \A s \in stores : Faithful(length, env, quiet, flow, s)
      /\ \A j \in 1 .. Len(frames) : Since(frames[j], flow, stores)
  BY <1>1 DEF FlowIndInv, Current, Sound, Shaped
<1>3. /\ g \in FlowStates /\ g.moved = flow.moved /\ g.views = flow.views
      /\ \A m \in Bindings \ {n} : g.loans[m] = flow.loans[m]
  BY <1>2 DEF WithoutLoans, FlowStates
<1> HIDE DEF g
<1>4. Borrowed(env, q, g) = Borrowed(env, quiet, flow) \ {n} /\ Holders(env, g) = Holders(env, flow)
  BY <1>3 DEF Borrowed, Holders
<1>5. \A b \in Bindings : Root(g, b) = Root(flow, b)
  BY <1>3 DEF Root, Chain
<1>6. Shaped(env, g)
  BY <1>2, <1>3 DEF Shaped
<1>7. Protected(env, q, g)
  <2> SUFFICES ASSUME NEW b \in Borrowed(env, q, g)
               PROVE Root(g, b) \in g.loans[b] \ g.moved /\ g.views[Root(g, b)] = Nobody
    BY DEF Protected
  <2>1. b \in Borrowed(env, quiet, flow) /\ b \in Bindings \ {n}
    BY <1>4 DEF Borrowed
  <2>2. QED
    BY <1>2, <1>3, <1>5, <2>1 DEF Protected
<1>8. ASSUME NEW s \in stores PROVE Faithful(length, env, q, g, s)
  <2>1. \A b \in Borrowed(env, q, g) : b \in Bindings /\ b \in Borrowed(env, quiet, flow)
    BY <1>4 DEF Borrowed
  <2>2. Faithful(length, env, quiet, flow, s)
    BY <1>2
  <2>3. \A b \in Borrowed(env, q, g) : s.value[b] = s.value[Root(g, b)]
    BY <1>5, <2>1, <2>2 DEF Faithful
  <2>4. QED
    BY <1>3, <1>4, <2>2, <2>3 DEF Faithful
<1>9. ASSUME NEW j \in 1 .. Len(frames) PROVE Since(frames[j], g, stores)
  BY <1>2, <1>3 DEF Since
<1>10. Nested(length, frames, env, q, locals)
  <2>1. /\ Outer(frames, Len(frames)) \subseteq Visible(env)
        /\ \A j \in 1 .. Len(frames) : Visible(frames[j].env) \subseteq Outer(frames, Len(frames))
    BY <1>2, OuterVisible DEF FlowIndInv
  <2>2. /\ quiet \subseteq Visible(env) /\ locals = Visible(env) \ Outer(frames, Len(frames))
        /\ \A j \in 1 .. Len(frames) : FrameOK(length, frames, j) /\ Around(frames[j], env, quiet)
    BY <1>2 DEF Nested
  <2>3. n \in Visible(env) /\ n \notin Outer(frames, Len(frames))
    BY <1>1, <2>2
  <2>4. ASSUME NEW j \in 1 .. Len(frames) PROVE Around(frames[j], env, q)
    BY <2>1, <2>2, <2>3 DEF Around
  <2>5. QED
    BY <2>2, <2>3, <2>4 DEF Nested
<1>11. Current(length', frames', env', quiet', flow', stores')
  BY <1>1, <1>6, <1>7, <1>8, <1>9 DEF Current, Sound
<1>12. Nested(length', frames', env', quiet', locals')
  BY <1>1, <1>10
<1>13. QED
  BY <1>1, <1>3, <1>11, <1>12 DEF FlowIndInv, FlowTypeOK

LEMMA ReturnAction ==
  ASSUME FlowIndInv, ReturnHere
  PROVE  FlowIndInv'
<1> DEFINE D == Visible(env)
<1> DEFINE P == Pending(flow, env, D)
<1>1. /\ Speaks /\ open /\ open' = FALSE /\ stores' = {} /\ UNCHANGED <<style, env, locals, quiet, frames>>
      /\ flow' = Cleaned(flow, env, D)
      /\ finished' = finished \cup Swept(stores, flow, env, D, {})
      /\ faults' = faults \cup Twice(stores, flow, P)
  BY DEF ReturnHere, Speaks
<1>2. /\ Sound(length, env, quiet, flow, stores) /\ Shaped(env, flow) /\ length \in Nat
      /\ flow \in FlowStates /\ env \in Envs
      /\ \A s \in stores : Faithful(length, env, quiet, flow, s)
  BY <1>1, TextGrows DEF FlowIndInv, Current, Sound, Shaped
<1>3. P = Holders(env, flow) /\ P \in SUBSET Holders(env, flow)
  BY DEF Pending, Holders, Owners, Visible
<1> HIDE DEF P
<1>4. ASSUME NEW t \in Swept(stores, flow, env, D, {}) PROVE t.made = t.released
  <2>1. PICK s \in stores : t = ForgetIn(ReleaseIn(s, flow, P), {})
    BY DEF Swept, P
  <2> DEFINE u == ReleaseIn(s, flow, P)
  <2>2. u \in Stores /\ u.made = s.made /\ u.released = s.released \cup {s.value[n] : n \in P}
    BY <1>2, <1>3, ReleaseRecord
  <2> HIDE DEF u
  <2>3. t.made = u.made /\ t.released = u.released
    BY <2>1, <2>2 DEF ForgetIn, Stores, u
  <2>4. s.made \ s.released = {s.value[n] : n \in P} /\ s.released \subseteq s.made
    BY <1>2, <1>3 DEF Faithful
  <2>5. QED
    BY <2>2, <2>3, <2>4
<1>5. \A t \in finished' : t.made = t.released
  BY <1>1, <1>4 DEF FlowIndInv
<1>6. faults' = {}
  <2>1. \A s \in stores : ~FreesTwice(s, flow, P)
    BY <1>2, <1>3, FreedOnce
  <2>2. QED
    BY <1>1, <2>1 DEF Twice, FlowIndInv
<1>7. flow' \in FlowStates
  <2>1. D \in SUBSET Bindings
    BY DEF Visible
  <2>2. QED
    BY <1>1, <1>2, <2>1, CleanedFlow
<1>8. length' \in 0 .. MaxLength /\ Nested(length', frames, env, quiet, locals)
  BY <1>1, TextGrows
<1>9. Nested(length', frames', env', quiet', locals')
  BY <1>1, <1>8
<1>10. QED
  BY <1>1, <1>5, <1>6, <1>7, <1>8, <1>9 DEF FlowIndInv, FlowTypeOK

-----------------------------------------------------------------------------
(* Blocks                                                                   *)

\* Blocks that are nested look the same when more is nested in them.
LEMMA FrameKept ==
  ASSUME NEW L, NEW F, NEW G, NEW i \in Nat, FrameOK(L, F, i), \A j \in 1 .. i : G[j] = F[j], i >= 1
  PROVE  FrameOK(L, G, i)
<1>1. i \in 1 .. i /\ \A j \in 1 .. i - 1 : j \in 1 .. i
  OBVIOUS
<1>2. Outer(G, i - 1) = Outer(F, i - 1)
  BY <1>1 DEF Outer
<1>3. QED
  BY <1>1, <1>2 DEF FrameOK

\* A block that begins.
LEMMA BeginAction ==
  ASSUME FlowIndInv, NEW kind \in {"if", "while"}, Begin(kind)
  PROVE  FlowIndInv'
<1> DEFINE fr == [kind |-> kind, env |-> env, locals |-> locals, quiet |-> quiet,
                  flow |-> flow, stores |-> stores, exits |-> {}]
<1> DEFINE K == Len(frames)
<1> DEFINE F == Append(frames, fr)
<1>1. /\ Speaks /\ open /\ K < MaxDepth /\ frames' = F /\ locals' = {}
      /\ UNCHANGED <<style, env, quiet, flow, open, stores, finished, faults>>
  BY DEF Begin, Speaks
<1>2. /\ Sound(length, env, quiet, flow, stores) /\ env \in Envs /\ flow \in FlowStates
      /\ \A j \in 1 .. K : Since(frames[j], flow, stores)
      /\ frames \in Seq(Frames) /\ stores \subseteq Stores /\ locals \subseteq Bindings /\ K \in Nat
      /\ quiet \subseteq Bindings
  BY <1>1 DEF FlowIndInv, FlowTypeOK, Current, Sound, Shaped, Visible
<1>3. /\ length' \in 0 .. MaxLength /\ Nested(length', frames, env, quiet, locals)
      /\ Sound(length', env, quiet, flow, stores)
  BY <1>1, <1>2, TextGrows
<1>4. fr \in Frames
  BY <1>2 DEF Frames
<1>5. /\ fr.kind = kind /\ fr.env = env /\ fr.locals = locals /\ fr.quiet = quiet /\ fr.flow = flow
      /\ fr.stores = stores /\ fr.exits = {}
  OBVIOUS
<1> HIDE DEF fr
<1>6. F \in Seq(Frames) /\ Len(F) = K + 1 /\ F[K + 1] = fr /\ \A j \in 1 .. K : F[j] = frames[j]
  BY <1>2, <1>4
<1> HIDE DEF F
<1>7. ASSUME NEW j \in 1 .. K PROVE FrameOK(length', F, j) /\ Around(F[j], env, quiet)
  <2>1. FrameOK(length', frames, j) /\ Around(frames[j], env, quiet)
    BY <1>3 DEF Nested
  <2>2. \A x \in 1 .. j : F[x] = frames[x]
    BY <1>2, <1>6
  <2>3. QED
    BY <2>1, <2>2, FrameKept
<1>8. FrameOK(length', F, K + 1)
  <2>1. quiet \subseteq Visible(env) /\ locals = Visible(env) \ Outer(frames, K)
    BY <1>3 DEF Nested
  <2>2. Outer(F, (K + 1) - 1) = Outer(frames, K)
    BY <1>2, <1>6 DEF Outer
  <2>3. \A j \in 1 .. (K + 1) - 1 : Around(F[j], env, quiet) /\ Since(F[j], flow, stores)
    BY <1>2, <1>6, <1>7
  <2>4. QED
    BY <1>3, <1>5, <1>6, <2>1, <2>2, <2>3 DEF FrameOK
<1>9. Around(F[K + 1], env, quiet) /\ Outer(F, Len(F)) = Visible(env) /\ Since(F[K + 1], flow, stores)
  <2>1. quiet \cap Visible(env) = quiet
    BY <1>3 DEF Nested
  <2>2. QED
    BY <1>2, <1>5, <1>6, <2>1 DEF Around, Outer, Since
<1>10. Nested(length', F, env, quiet, {})
  <2>1. \A j \in 1 .. Len(F) : FrameOK(length', F, j) /\ Around(F[j], env, quiet)
    BY <1>2, <1>6, <1>7, <1>8, <1>9
  <2>2. quiet \subseteq Visible(env) /\ {} = Visible(env) \ Outer(F, Len(F))
    BY <1>3, <1>9 DEF Nested
  <2>3. QED
    BY <2>1, <2>2 DEF Nested
<1>11. Current(length', F, env, quiet, flow, stores)
  <2>1. \A j \in 1 .. Len(F) : Since(F[j], flow, stores)
    BY <1>2, <1>6, <1>9
  <2>2. QED
    BY <1>3, <2>1 DEF Current
<1>12. Len(F) \in 0 .. MaxDepth
  BY <1>1, <1>2, <1>6, OwnershipFlowAssumption
<1>13. QED
  BY <1>1, <1>3, <1>6, <1>10, <1>11, <1>12 DEF FlowIndInv, FlowTypeOK

\* The exit of the branch that ends.
ExitOK(L, F, x) ==
  /\ x \in Exits
  /\ Sound(L, F[Len(F)].env, F[Len(F)].quiet, x.flow, x.stores)
  /\ \A j \in 1 .. Len(F) : Since(F[j], x.flow, x.stores)

LEMMA BranchFacts ==
  ASSUME FlowIndInv, frames # <<>>, MayLeave(BlockLocals, Visible(Top.env))
  PROVE  /\ \A x \in BranchExits(Visible(Top.env)) : ExitOK(length, frames, x)
         /\ LeavingFaults(BlockLocals) = {}
<1> DEFINE K == Len(frames)
<1>1. K \in 1 .. K /\ frames \in Seq(Frames)
  BY DEF FlowIndInv
<1>2. CASE open
  <2> DEFINE D == Visible(env) \ Visible(frames[K].env)
  <2> DEFINE g == Leaving(D, Visible(frames[K].env))
  <2> DEFINE T == LeavingStores(D, Visible(frames[K].env))
  <2>1. BlockLocals = D
    BY <1>1, <1>2 DEF BlockLocals, FlowIndInv, Nested, Outer
  <2>2. MayLeave(D, Visible(frames[K].env)) /\ BranchExits(Visible(Top.env)) = {Exit(g, T)}
    BY <1>2, <2>1 DEF Top, BranchExits
  <2>3. /\ g \in FlowStates /\ T \subseteq Stores
        /\ Sound(length, frames[K].env, frames[K].quiet, g, T)
        /\ \A j \in 1 .. K : Since(frames[j], g, T)
        /\ LeavingFaults(D) = {}
    <3> HIDE DEF D
    <3>1. D = Visible(env) \ Visible(frames[K].env)
      BY DEF D
    <3> HIDE DEF g, T
    <3>2. g = Leaving(D, Visible(frames[K].env)) /\ T = LeavingStores(D, Visible(frames[K].env))
      BY DEF g, T
    <3>3. QED
      BY <1>1, <1>2, <2>2, <3>1, <3>2, LeaveFacts
  <2> HIDE DEF D, g, T
  <2>4. Exit(g, T) \in Exits /\ Exit(g, T).flow = g /\ Exit(g, T).stores = T
    BY <2>3 DEF Exit, Exits
  <2>5. QED
    BY <2>1, <2>2, <2>3, <2>4 DEF ExitOK
<1>3. CASE ~open
  <2>1. stores = {}
    BY <1>3 DEF FlowIndInv, FlowTypeOK
  <2>2. QED
    BY <1>3, <2>1 DEF BranchExits, LeavingFaults, Twice
<1>4. QED
  BY <1>2, <1>3

\* The other branch begins with what the first began with.
LEMMA BeginElseAction ==
  ASSUME FlowIndInv, BeginElse
  PROVE  FlowIndInv'
<1> DEFINE K == Len(frames)
<1> DEFINE E == BranchExits(Visible(Top.env))
<1>1. /\ frames # <<>> /\ Top.kind = "if" /\ MayLeave(BlockLocals, Visible(Top.env))
      /\ frames' = [frames EXCEPT ![K].kind = "else", ![K].exits = E]
      /\ env' = Top.env /\ locals' = {} /\ quiet' = Top.quiet
      /\ flow' = Top.flow /\ stores' = Top.stores /\ open' = TRUE
      /\ faults' = faults \cup LeavingFaults(BlockLocals)
      /\ UNCHANGED <<style, length, finished>>
  BY DEF BeginElse
<1>2. /\ \A x \in E : ExitOK(length, frames, x)
      /\ faults' = {}
  BY <1>1, BranchFacts DEF FlowIndInv
<1> HIDE DEF E
<1>3. /\ K \in Nat /\ K \in 1 .. K /\ frames \in Seq(Frames) /\ Top = frames[K] /\ Top \in Frames
      /\ Nested(length, frames, env, quiet, locals) /\ FrameOK(length, frames, K)
  BY <1>1 DEF FlowIndInv, Top, Nested
<1> DEFINE fr == [Top EXCEPT !.kind = "else", !.exits = E]
<1>4. /\ fr \in Frames /\ fr.kind = "else" /\ fr.env = Top.env /\ fr.locals = Top.locals /\ fr.quiet = Top.quiet
      /\ fr.flow = Top.flow /\ fr.stores = Top.stores /\ fr.exits = E
  BY <1>2, <1>3 DEF Frames, ExitOK
<1>5. frames' = [frames EXCEPT ![K] = fr]
  BY <1>1, <1>3
<1> HIDE DEF fr
<1> DEFINE F == [frames EXCEPT ![K] = fr]
<1>6. F \in Seq(Frames) /\ Len(F) = K /\ F[K] = fr /\ \A j \in 1 .. K - 1 : F[j] = frames[j]
  <2>1. K \in Nat /\ K \in 1 .. Len(frames) /\ frames \in Seq(Frames) /\ fr \in Frames
    BY <1>3, <1>4
  <2> HIDE DEF K
  <2>2. F \in Seq(Frames) /\ Len(F) = Len(frames) /\ F[K] = fr /\ \A j \in 1 .. K - 1 : F[j] = frames[j]
    BY <2>1
  <2>3. QED
    BY <2>2 DEF K
<1> HIDE DEF F
<1>7. ASSUME NEW j \in 1 .. K - 1 PROVE FrameOK(length, F, j) /\ Around(F[j], fr.env, fr.quiet)
  <2>1. FrameOK(length, frames, j) /\ Around(frames[j], fr.env, fr.quiet)
    BY <1>3, <1>4 DEF Nested, FrameOK
  <2>2. \A x \in 1 .. j : F[x] = frames[x]
    BY <1>3, <1>6
  <2>3. QED
    BY <1>3, <1>6, <2>1, <2>2, FrameKept
<1>8. /\ fr.quiet \subseteq Visible(fr.env) /\ fr.locals = Visible(fr.env) \ Outer(frames, K - 1)
      /\ Sound(length, fr.env, fr.quiet, fr.flow, fr.stores)
      /\ \A j \in 1 .. K - 1 : Since(frames[j], fr.flow, fr.stores)
  BY <1>3, <1>4 DEF FrameOK
<1>9. Outer(F, K - 1) = Outer(frames, K - 1)
  BY <1>3, <1>6 DEF Outer
<1>10. \A x \in E : /\ Sound(length, fr.env, fr.quiet, x.flow, x.stores)
                    /\ \A j \in 1 .. K : Since(F[j], x.flow, x.stores)
  <2> SUFFICES ASSUME NEW x \in E
               PROVE  /\ Sound(length, fr.env, fr.quiet, x.flow, x.stores)
                      /\ \A j \in 1 .. K : Since(F[j], x.flow, x.stores)
    OBVIOUS
  <2>1. ExitOK(length, frames, x)
    BY <1>2
  <2>2. Since(F[K], x.flow, x.stores)
    BY <1>4, <1>6 DEF Since
  <2>3. QED
    BY <1>3, <1>4, <1>6, <2>1, <2>2 DEF ExitOK
<1>11. FrameOK(length, F, K)
  BY <1>3, <1>4, <1>6, <1>7, <1>8, <1>9, <1>10 DEF FrameOK
<1>12. Around(F[K], fr.env, fr.quiet) /\ Outer(F, K) = Visible(fr.env) /\ Since(F[K], fr.flow, fr.stores)
  BY <1>3, <1>4, <1>6, <1>8 DEF Around, Outer, Since
<1>13. Nested(length, F, fr.env, fr.quiet, {})
  <2>1. \A j \in 1 .. Len(F) : FrameOK(length, F, j) /\ Around(F[j], fr.env, fr.quiet)
    BY <1>3, <1>6, <1>7, <1>11, <1>12
  <2>2. QED
    BY <1>6, <1>8, <1>12, <2>1 DEF Nested
<1>14. Current(length, F, fr.env, fr.quiet, fr.flow, fr.stores)
  <2>1. \A j \in 1 .. Len(F) : Since(F[j], fr.flow, fr.stores)
    BY <1>3, <1>6, <1>8, <1>12
  <2>2. QED
    BY <1>8, <2>1 DEF Current
<1>15. /\ frames' = F /\ env' = fr.env /\ quiet' = fr.quiet /\ flow' = fr.flow /\ stores' = fr.stores
  BY <1>1, <1>4, <1>5 DEF F
<1>16. /\ env' \in [Bindings -> {"own", "view", "borrow", "none"}] /\ quiet' \subseteq Bindings /\ flow' \in FlowStates
       /\ stores' \subseteq Stores
  BY <1>4, <1>15 DEF Frames, Envs
<1>17. QED
  BY <1>1, <1>2, <1>6, <1>13, <1>14, <1>15, <1>16 DEF FlowIndInv, FlowTypeOK

-----------------------------------------------------------------------------
(* Joins                                                                    *)

\* An exit after the owners in P are released on it.
KeepsSince(e, f, S, g, T) == \A fr : Since(fr, f, S) /\ fr.flow.moved \subseteq Visible(e) => Since(fr, g, T)
ReleasedStores(f, e, P, S) == {ReleaseIn(s, f, Pending(f, e, P)) : s \in S}

Reconcilable(L, e, q, f, S, P) ==
  /\ L \in Nat /\ e \in Envs /\ q \subseteq Visible(e) /\ f \in FlowStates /\ P \subseteq Owners(e)
  /\ Sound(L, e, q, f, S) /\ MayClean(f, e, P)

LEMMA ReconcileFacts ==
  ASSUME NEW L, NEW e, NEW q, NEW f, NEW S, NEW P, Reconcilable(L, e, q, f, S, P),
         NEW g, g = Cleaned(f, e, P), NEW T, T = ReleasedStores(f, e, P, S)
  PROVE  /\ g \in FlowStates /\ g.views = f.views /\ g.moved = f.moved \cup P
         /\ Sound(L, e, q, g, T) /\ Twice(S, f, Pending(f, e, P)) = {}
         /\ KeepsSince(e, f, S, g, T)
<1> DEFINE R == Pending(f, e, P)
<1> USE DEF Reconcilable
<1>1. Shaped(e, f) /\ \A s \in S : Faithful(L, e, q, f, s)
  BY DEF Sound
<1>2. P \in SUBSET Bindings /\ \A n \in P : e[n] = "own"
  BY DEF Owners
<1>3. R = P \ f.moved
  BY DEF Pending
<1>4. /\ R \subseteq P \cap Holders(e, f) /\ g \in FlowStates /\ g.moved = f.moved \cup R
      /\ \A n \in Bindings : /\ g.views[n] = IF n \in R THEN Nobody ELSE f.views[n]
                             /\ n \notin R /\ (n \in P => e[n] \notin {"view", "borrow"}) => g.loans[n] = f.loans[n]
  <2> HIDE DEF R
  <2>1. R = Pending(f, e, P)
    BY DEF R
  <2>2. QED
    BY <1>2, <2>1, CleanedFlow
<1>5. \A n \in R : n \in Bindings /\ f.views[n] = Nobody /\ e[n] = "own"
  BY <1>1, <1>2, <1>4 DEF Shaped
<1>6. g.views = f.views
  <2>1. \A n \in Bindings : g.views[n] = f.views[n]
    BY <1>4, <1>5
  <2>2. f.views \in Viewing /\ g.views \in Viewing
    BY <1>4 DEF FlowStates, Viewing
  <2>3. QED
    BY <2>1, <2>2 DEF Viewing
<1>7. \A n \in R : \A b \in Visible(e) : e[b] = "borrow" => n \notin f.loans[b]
  <2> SUFFICES ASSUME NEW n \in R, NEW b \in Visible(e), e[b] = "borrow" PROVE n \notin f.loans[b]
    OBVIOUS
  <2>1. Unlent(Unlend(f, e, P), n)
    BY DEF MayClean, MayMove
  <2>2. b \in Bindings /\ b \notin {x \in P : e[x] \in {"view", "borrow"}}
    BY <1>2 DEF Visible
  <2>3. Unlend(f, e, P).loans[b] = f.loans[b]
    BY <2>2 DEF Unlend, WithoutLoans, FlowStates
  <2>4. QED
    BY <2>1, <2>2, <2>3 DEF Unlent
<1> HIDE DEF R
<1>8. Releases(e, q, f, e, q, g, R)
  <2>1. q = q \cap Visible(e)
    OBVIOUS
  <2>2. g.moved = (f.moved \cup R) \cap Visible(e)
    BY <1>1, <1>4 DEF Shaped, Holders, Owners, Visible
  <2>3. \A m \in Bindings : g.views[m] = IF m \in Visible(e) THEN f.views[m] ELSE Nobody
    BY <1>1, <1>6 DEF Shaped, Visible
  <2>4. \A m \in Visible(e) : e[m] = "borrow" => g.loans[m] = f.loans[m] /\ f.loans[m] \cap R = {}
    BY <1>2, <1>4, <1>7 DEF Visible
  <2>5. \A m \in Visible(e) : f.views[m] \in Visible(e) \cup {Nobody}
    BY <1>1 DEF Shaped, Visible
  <2>6. Holders(e, f) \ R \subseteq Visible(e)
    BY DEF Holders, Owners, Visible
  <2>7. QED
    BY <1>4, <2>1, <2>2, <2>3, <2>4, <2>5, <2>6 DEF Releases
<1>9. AllReleased(S, e, g, R, T)
  <2> SUFFICES ASSUME NEW t \in T PROVE \E s \in S : Released(s, e, g, R, t)
    BY DEF AllReleased
  <2>1. PICK s \in S : t = ReleaseIn(s, f, R)
    BY DEF R, ReleasedStores
  <2>2. Released(s, e, g, R, ReleaseIn(s, f, R))
    BY <1>1, <1>4, <1>6, ReleaseHere
  <2>3. QED
    BY <2>1, <2>2
<1>10. Sound(L, e, q, g, T)
  BY <1>8, <1>9, ReleaseSound
<1>11. ASSUME NEW fr, Since(fr, f, S), fr.flow.moved \subseteq Visible(e) PROVE Since(fr, g, T)
  BY <1>8, <1>9, <1>11, ReleaseSince
<1>12. Twice(S, f, R) = {}
  <2>1. \A s \in S : ~FreesTwice(s, f, R)
    BY <1>1, <1>4, FreedOnce
  <2>2. QED
    BY <2>1 DEF Twice
<1>13. g.moved = f.moved \cup P
  BY <1>3, <1>4 DEF R
<1>14. KeepsSince(e, f, S, g, T)
  BY <1>11 DEF KeepsSince
<1>15. QED
  BY <1>4, <1>6, <1>10, <1>12, <1>13, <1>14 DEF R

\* Exits on which the same owners are moved, and a set C that misses only what is moved on all.
Joinable(L, e, q, C, Y) ==
  /\ e \in Envs /\ Y # {}
  /\ \A y \in Y : y.flow \in FlowStates /\ Sound(L, e, q, y.flow, y.stores)
  /\ MayJoin({y.flow : y \in Y})
  /\ \A x, y \in Y : Owners(e) \cap x.flow.moved = Owners(e) \cap y.flow.moved
  /\ \A y \in Y : Bindings \ C \subseteq y.flow.moved

JoinedExits(Y) == JoinedFlow({y.flow : y \in Y})

LEMMA JoinFlow ==
  ASSUME NEW L, NEW e, NEW q, NEW C, NEW Y, Joinable(L, e, q, C, Y),
         NEW g, g = JoinedExits(Y)
  PROVE  /\ g \in FlowStates
         /\ \A y \in Y : /\ g.views = y.flow.views /\ y.flow.moved \subseteq g.moved
                         /\ Owners(e) \cap g.moved = Owners(e) \cap y.flow.moved
                         /\ \A n \in Bindings : y.flow.loans[n] \subseteq g.loans[n]
         /\ Shaped(e, g) /\ Protected(e, q, g)
<1> DEFINE F == {y.flow : y \in Y}
<1>1. /\ e \in Envs /\ F # {} /\ F \subseteq FlowStates /\ MayJoin(F)
      /\ \A y \in Y : y.flow \in F /\ Shaped(e, y.flow) /\ Protected(e, q, y.flow)
      /\ \A x, y \in Y : Owners(e) \cap x.flow.moved = Owners(e) \cap y.flow.moved
  BY DEF Joinable, Sound
<1>2. \A f \in F : \E y \in Y : f = y.flow
  OBVIOUS
<1> HIDE DEF F
<1>3. (CHOOSE f \in F : TRUE) \in F
  BY <1>1
<1>4. /\ g.moved = UNION {f.moved : f \in F} /\ g.loans = [n \in Bindings |-> UNION {f.loans[n] : f \in F}]
      /\ g.views = (CHOOSE f \in F : TRUE).views
      /\ g = [moved |-> g.moved, loans |-> g.loans, views |-> g.views]
  BY DEF JoinedExits, JoinedFlow, F
<1>5. \A f \in F : g.views = f.views
  BY <1>1, <1>3, <1>4 DEF MayJoin
<1>6. g \in FlowStates
  <2>1. g.moved \in SUBSET Bindings
    <3>1. \A f \in F : f.moved \subseteq Bindings
      BY <1>1 DEF FlowStates
    <3>2. g.moved = UNION {f.moved : f \in F}
      BY <1>4
    <3>3. QED
      BY <3>1, <3>2
  <2>2. g.loans \in [Bindings -> SUBSET Bindings]
    <3>1. \A n \in Bindings : UNION {f.loans[n] : f \in F} \in SUBSET Bindings
      BY <1>1 DEF FlowStates
    <3>2. QED
      BY <1>4, <3>1
  <2>3. g.views \in [Bindings -> Bindings \cup {Nobody}]
    BY <1>1, <1>3, <1>4 DEF FlowStates
  <2>4. QED
    BY <1>4, <2>1, <2>2, <2>3 DEF FlowStates
<1>7. ASSUME NEW y \in Y
      PROVE  /\ g.views = y.flow.views /\ y.flow.moved \subseteq g.moved
             /\ Owners(e) \cap g.moved = Owners(e) \cap y.flow.moved
             /\ \A n \in Bindings : y.flow.loans[n] \subseteq g.loans[n]
  <2>1. y.flow.moved \subseteq g.moved
    BY <1>1, <1>4
  <2>2. Owners(e) \cap g.moved \subseteq y.flow.moved
    <3> SUFFICES ASSUME NEW n \in Owners(e) \cap g.moved PROVE n \in y.flow.moved
      OBVIOUS
    <3>1. PICK f \in F : n \in f.moved
      BY <1>4
    <3>2. PICK x \in Y : f = x.flow
      BY <1>2
    <3>3. QED
      BY <1>1, <3>1, <3>2
  <2>3. ASSUME NEW n \in Bindings PROVE y.flow.loans[n] \subseteq g.loans[n]
    <3>1. g.loans[n] = UNION {f.loans[n] : f \in F}
      BY <1>4
    <3>2. y.flow \in F
      BY <1>1
    <3>3. QED
      BY <3>1, <3>2
  <2>4. QED
    BY <1>1, <1>5, <2>1, <2>2, <2>3
<1>8. Shaped(e, g)
  <2>1. PICK y \in Y : TRUE
    BY <1>1, <1>2
  <2>2. g.moved \subseteq Visible(e)
    <3>1. \A f \in F : f.moved \subseteq Visible(e)
      BY <1>1, <1>2 DEF Shaped
    <3>2. QED
      BY <1>4, <3>1
  <2>3. QED
    BY <1>1, <1>6, <1>7, <2>1, <2>2 DEF Shaped
<1>9. Protected(e, q, g)
  <2> SUFFICES ASSUME NEW b \in Borrowed(e, q, g)
               PROVE Root(g, b) \in g.loans[b] \ g.moved /\ g.views[Root(g, b)] = Nobody
    BY DEF Protected
  <2>1. PICK y \in Y : TRUE
    BY <1>1, <1>2
  <2> DEFINE f == y.flow
  <2>2. /\ g.views = f.views /\ f.moved \subseteq g.moved /\ Shaped(e, f) /\ Protected(e, q, f) /\ f.views \in Viewing
        /\ Owners(e) \cap g.moved = Owners(e) \cap f.moved /\ \A n \in Bindings : f.loans[n] \subseteq g.loans[n]
    BY <1>1, <1>7, <2>1, ShapedViews
  <2> HIDE DEF f
  <2>3. b \in Borrowed(e, q, f) /\ b \in Bindings /\ b \in Visible(e)
    BY <2>2 DEF Borrowed, Visible
  <2>4. Root(f, b) \in f.loans[b] \ f.moved /\ f.views[Root(f, b)] = Nobody
    BY <2>2, <2>3 DEF Protected
  <2>5. Root(g, b) = Root(f, b) /\ Root(f, b) \in Visible(e)
    BY <2>2, <2>3, ChainSame, ShapedViews, RootTyped
  <2>6. Root(f, b) \in Owners(e)
    <3>1. Root(f, b) \in Bindings /\ e[Root(f, b)] # "none"
      BY <2>5 DEF Visible
    <3>2. e[Root(f, b)] \in {"own", "view", "borrow", "none"}
      BY <1>1, <3>1 DEF Envs
    <3>3. QED
      BY <2>2, <2>4, <3>1, <3>2 DEF Shaped, Owners
  <2>7. QED
    BY <2>2, <2>3, <2>4, <2>5, <2>6
<1>10. QED
  BY <1>6, <1>7, <1>8, <1>9

LEMMA JoinSound ==
  ASSUME NEW L, NEW e, NEW q, NEW C, NEW Y, Joinable(L, e, q, C, Y),
         NEW g, g = JoinedExits(Y),
         NEW T, T = CarriedStores(Y, e, C)
  PROVE  /\ g \in FlowStates /\ T \subseteq Stores /\ Sound(L, e, q, g, T)
         /\ \A fr : (\A y \in Y : Since(fr, y.flow, y.stores)) => Since(fr, g, T)
<1>1. /\ g \in FlowStates
      /\ \A y \in Y : /\ g.views = y.flow.views /\ y.flow.moved \subseteq g.moved
                      /\ Owners(e) \cap g.moved = Owners(e) \cap y.flow.moved
      /\ Shaped(e, g) /\ Protected(e, q, g)
  BY JoinFlow
<1>2. /\ Y # {} /\ \A y \in Y : /\ \A s \in y.stores : Faithful(L, e, q, y.flow, s)
                                /\ Bindings \ C \subseteq y.flow.moved
  BY DEF Joinable, Sound
<1>3. ASSUME NEW t \in T PROVE \E y \in Y : \E s \in y.stores : t = Carried(s, e, C)
  BY DEF CarriedStores
<1>4. ASSUME NEW y \in Y, NEW s \in y.stores, NEW t, t = Carried(s, e, C)
      PROVE  Faithful(L, e, q, g, t) /\ t.gone = s.gone
  <2> DEFINE f == y.flow
  <2>1. /\ Faithful(L, e, q, f, s) /\ Bindings \ C \subseteq f.moved
        /\ g.views = f.views /\ f.moved \subseteq g.moved /\ Owners(e) \cap g.moved = Owners(e) \cap f.moved
    BY <1>1, <1>2
  <2> HIDE DEF f
  <2>2. /\ s.value \in [Bindings -> Nat] /\ s.target \in [Bindings -> Bindings \cup {Nobody}]
        /\ s.gone \in SUBSET Bindings /\ s.made \in SUBSET Nat /\ s.released \in SUBSET Nat
        /\ s = [value |-> s.value, target |-> s.target, gone |-> s.gone, made |-> s.made, released |-> s.released]
    BY <2>1 DEF Faithful, Stores
  <2> DEFINE value == [n \in Bindings |-> IF n \in C \/ e[n] = "none" \/ n \in s.gone THEN s.value[n] ELSE 0]
  <2>3. value \in [Bindings -> Nat]
    BY <2>2
  <2>4. t = [s EXCEPT !.value = value]
    BY <1>4 DEF Carried
  <2>5. \A n \in Bindings \ g.moved : value[n] = s.value[n]
    BY <2>1
  <2> HIDE DEF value
  <2>6. /\ t \in Stores /\ t.value = value /\ t.target = s.target /\ t.gone = s.gone /\ t.made = s.made
        /\ t.released = s.released
    BY <2>2, <2>3, <2>4 DEF Stores
  <2>7. Holders(e, g) = Holders(e, f) /\ \A n \in Holders(e, g) : value[n] = s.value[n]
    BY <2>1, <2>5 DEF Holders, Owners
  <2>8. ASSUME NEW b \in Borrowed(e, q, g) PROVE t.value[b] = t.value[Root(g, b)]
    <3>1. b \in Bindings \ g.moved /\ b \in Borrowed(e, q, f)
      BY <2>1 DEF Borrowed
    <3>2. Root(g, b) = Root(f, b) /\ Root(g, b) \in Bindings \ g.moved
      <4>1. Root(g, b) \notin g.moved
        BY <1>1 DEF Protected
      <4>2. g.views \in Viewing
        BY <1>1 DEF FlowStates, Viewing
      <4>3. QED
        BY <2>1, <3>1, <4>1, <4>2, ChainSame, RootTyped
    <3>3. s.value[b] = s.value[Root(f, b)]
      BY <2>1, <3>1 DEF Faithful
    <3>4. QED
      BY <2>5, <2>6, <3>1, <3>2, <3>3
  <2>9. /\ t.target = g.views /\ t.gone \subseteq g.moved /\ Owners(e) \cap g.moved \subseteq t.gone
        /\ t.made \subseteq 1 .. L /\ t.released \subseteq t.made
    BY <2>1, <2>6 DEF Faithful
  <2>10. /\ t.made \ t.released = {t.value[n] : n \in Holders(e, g)}
         /\ \A n, m \in Holders(e, g) : t.value[n] = t.value[m] => n = m
    <3>1. /\ s.made \ s.released = {s.value[n] : n \in Holders(e, f)}
          /\ \A n, m \in Holders(e, f) : s.value[n] = s.value[m] => n = m
      BY <2>1 DEF Faithful
    <3>2. Holders(e, g) = Holders(e, f) /\ \A n \in Holders(e, g) : t.value[n] = s.value[n]
      BY <2>6, <2>7
    <3>3. t.made \ t.released = s.made \ s.released
      BY <2>6
    <3>4. {t.value[n] : n \in Holders(e, g)} = {s.value[n] : n \in Holders(e, f)}
      BY <3>2
    <3>5. QED
      BY <3>1, <3>2, <3>3, <3>4
  <2>11. QED
    BY <2>6, <2>8, <2>9, <2>10 DEF Faithful
<1>5. \A t \in T : Faithful(L, e, q, g, t)
  BY <1>3, <1>4
<1>6. T \subseteq Stores
  BY <1>5 DEF Faithful
<1>7. ASSUME NEW fr, \A y \in Y : Since(fr, y.flow, y.stores) PROVE Since(fr, g, T)
  <2> SUFFICES ASSUME fr.kind = "while" PROVE Since(fr, g, T)
    BY DEF Since
  <2>1. fr.flow.moved \subseteq g.moved
    BY <1>1, <1>2, <1>7 DEF Since
  <2>2. ASSUME NEW t \in T PROVE \E u \in fr.stores : t.gone \cap fr.flow.moved = u.gone \cap fr.flow.moved
    <3>1. PICK y \in Y : \E s \in y.stores : t = Carried(s, e, C)
      BY <1>3
    <3>2. PICK s \in y.stores : t = Carried(s, e, C)
      BY <3>1
    <3>3. t.gone = s.gone
      BY <1>4, <3>2
    <3>4. QED
      BY <1>7, <3>3 DEF Since
  <2>3. QED
    BY <2>1, <2>2 DEF Since
<1>8. QED
  BY <1>1, <1>5, <1>6, <1>7 DEF Sound

Cleared(x, e, P) == Exit(Cleaned(x.flow, e, P), ReleasedStores(x.flow, e, P, x.stores))

\* Such an exit.
Settled(L, e, q, f, S, P, g, T) ==
  /\ g \in FlowStates /\ g.moved = f.moved \cup P
  /\ Sound(L, e, q, g, T) /\ Twice(S, f, Pending(f, e, P)) = {}
  /\ KeepsSince(e, f, S, g, T)

LEMMA ExitReconciled ==
  ASSUME NEW L, NEW e, NEW q, NEW f, NEW S, NEW P, Reconcilable(L, e, q, f, S, P)
  PROVE  Settled(L, e, q, f, S, P, Cleaned(f, e, P), ReleasedStores(f, e, P, S))
BY ReconcileFacts DEF Settled

LEMMA OneReconciled ==
  ASSUME NEW L \in Nat, NEW F, NEW x, ExitOK(L, F, x), NEW e \in Envs, NEW q, q \subseteq Visible(e),
         F[Len(F)].env = e, F[Len(F)].quiet = q, NEW P \in SUBSET Owners(e), MayClean(x.flow, e, P)
  PROVE  Settled(L, e, q, x.flow, x.stores, P, Cleared(x, e, P).flow, Cleared(x, e, P).stores)
<1>1. /\ x.flow \in FlowStates /\ Sound(L, e, q, x.flow, x.stores)
  BY DEF ExitOK, Exits
<1>2. Reconcilable(L, e, q, x.flow, x.stores, P)
  BY <1>1 DEF Reconcilable
<1>3. /\ Cleared(x, e, P).flow = Cleaned(x.flow, e, P)
      /\ Cleared(x, e, P).stores = ReleasedStores(x.flow, e, P, x.stores)
  BY DEF Cleared, Exit
<1>4. Settled(L, e, q, x.flow, x.stores, P, Cleaned(x.flow, e, P), ReleasedStores(x.flow, e, P, x.stores))
  BY <1>2, ExitReconciled
<1>5. QED
  BY <1>3, <1>4

\* What of two exits that are reconciled may be joined.
Joins(L, F, E, fr, C, P, Y) ==
  /\ L \in Nat /\ F \in Seq(Frames) /\ F # <<>> /\ \A x \in E : ExitOK(L, F, x)
  /\ fr = F[Len(F)] /\ fr.env \in Envs /\ fr.quiet \subseteq Visible(fr.env)
  /\ C = Bindings \/ (fr.kind = "while" /\ C = Bindings \ fr.flow.moved)
  /\ P = Partial(E, fr.env) \cap C /\ \A x \in E : MayClean(x.flow, fr.env, P)
  /\ Y = ReconciledExits(E, fr.env, P) /\ Y # {} /\ MayJoin({y.flow : y \in Y})

Joined(L, F, E, fr, C, P, Y) ==
  /\ Joinable(L, fr.env, fr.quiet, C, Y)
  /\ \A x \in E : Twice(x.stores, x.flow, Pending(x.flow, fr.env, P)) = {}
  /\ \A j \in 1 .. Len(F) : F[j].flow.moved \subseteq Visible(fr.env) =>
       \A y \in Y : Since(F[j], y.flow, y.stores)

LEMMA ReconciledJoin ==
  ASSUME NEW L, NEW F, NEW E, NEW fr, NEW C, NEW P, NEW Y, Joins(L, F, E, fr, C, P, Y)
  PROVE  Joined(L, F, E, fr, C, P, Y)
<1> USE DEF Joins
<1> DEFINE e == fr.env
<1> DEFINE q == fr.quiet
<1>1. P \in SUBSET Owners(e)
  BY DEF Partial
<1>2. \A y \in Y : \E x \in E : y = Cleared(x, e, P)
  BY DEF ReconciledExits, Cleared, ReleasedStores
<1>2a. ASSUME NEW x \in E
      PROVE  Settled(L, e, q, x.flow, x.stores, P, Cleared(x, e, P).flow, Cleared(x, e, P).stores)
  <2>1. /\ ExitOK(L, F, x) /\ e \in Envs /\ q \subseteq Visible(e) /\ F[Len(F)].env = e /\ F[Len(F)].quiet = q
        /\ P \in SUBSET Owners(e) /\ MayClean(x.flow, e, P)
    BY <1>1
  <2> HIDE DEF e, q
  <2>2. QED
    BY <2>1, OneReconciled
<1>3. ASSUME NEW x \in E
      PROVE  /\ Cleared(x, e, P).flow \in FlowStates /\ Cleared(x, e, P).flow.moved = x.flow.moved \cup P
             /\ Sound(L, e, q, Cleared(x, e, P).flow, Cleared(x, e, P).stores)
             /\ Twice(x.stores, x.flow, Pending(x.flow, e, P)) = {}
             /\ \A j \in 1 .. Len(F) : F[j].flow.moved \subseteq Visible(e) =>
                  Since(F[j], Cleared(x, e, P).flow, Cleared(x, e, P).stores)
  <2>1. \A j \in 1 .. Len(F) : Since(F[j], x.flow, x.stores)
    BY DEF ExitOK
  <2>2. QED
    BY <1>2a, <2>1 DEF Settled, KeepsSince
<1>4. ASSUME NEW x \in E PROVE Bindings \ C \subseteq x.flow.moved
  <2>1. Since(fr, x.flow, x.stores)
    <3>1. Len(F) \in 1 .. Len(F)
      OBVIOUS
    <3>2. QED
      BY <3>1 DEF ExitOK
  <2>2. QED
    BY <2>1 DEF Since
<1>5. ASSUME NEW x \in E, NEW y \in E, NEW n \in Owners(e), n \in x.flow.moved PROVE n \in y.flow.moved \cup P
  <2>1. CASE n \in C
    BY <1>5, <2>1 DEF Partial
  <2>2. CASE n \notin C
    BY <1>4, <2>2 DEF Owners
  <2>3. QED
    BY <2>1, <2>2
<1>6. \A y \in Y : y.flow \in FlowStates /\ Sound(L, e, q, y.flow, y.stores)
  BY <1>2, <1>3
<1>7. ASSUME NEW x \in Y, NEW y \in Y, NEW n \in Owners(e), n \in x.flow.moved PROVE n \in y.flow.moved
  <2>1. PICK a \in E : x = Cleared(a, e, P)
    BY <1>2
  <2>2. PICK b \in E : y = Cleared(b, e, P)
    BY <1>2
  <2>3. x.flow.moved = a.flow.moved \cup P /\ y.flow.moved = b.flow.moved \cup P
    BY <1>3, <2>1, <2>2
  <2>4. QED
    BY <1>5, <1>7, <2>3
<1>8. ASSUME NEW y \in Y PROVE Bindings \ C \subseteq y.flow.moved
  <2>1. PICK b \in E : y = Cleared(b, e, P)
    BY <1>2
  <2>2. y.flow.moved = b.flow.moved \cup P
    BY <1>3, <2>1
  <2>3. QED
    BY <1>4, <2>2
<1>9. Joinable(L, e, q, C, Y)
  BY <1>6, <1>7, <1>8 DEF Joinable
<1>10. \A j \in 1 .. Len(F) : F[j].flow.moved \subseteq Visible(e) => \A y \in Y : Since(F[j], y.flow, y.stores)
  BY <1>2, <1>3
<1>11. QED
  BY <1>3, <1>9, <1>10 DEF Joined

\* The block around goes on where this one ends.
LEMMA GoOnStep ==
  ASSUME FlowIndInv, frames # <<>>, NEW E, \A x \in E : ExitOK(length, frames, x),
         NEW C, C = Bindings \/ (Top.kind = "while" /\ C = Bindings \ Top.flow.moved),
         GoOn(E, C, {}), UNCHANGED <<style, length, finished>>
  PROVE  FlowIndInv'
<1> DEFINE K == Len(frames)
<1> DEFINE F == SubSeq(frames, 1, K - 1)
<1> DEFINE e == Top.env
<1> DEFINE q == Top.quiet
<1>1. /\ frames \in Seq(Frames) /\ K \in Nat /\ K \in 1 .. K /\ Top = frames[K] /\ Top \in Frames
      /\ Nested(length, frames, env, quiet, locals) /\ FrameOK(length, frames, K) /\ length \in Nat
      /\ K <= MaxDepth
  BY OwnershipFlowAssumption DEF FlowIndInv, FlowTypeOK, Top, Nested
<1>2. env' = e /\ locals' = Top.locals /\ quiet' = q /\ frames' = F
  BY DEF GoOn
<1>3. F \in Seq(Frames) /\ Len(F) = K - 1 /\ \A j \in 1 .. K - 1 : F[j] = frames[j]
  <2>1. K - 1 \in 0 .. Len(frames) /\ 1 - 1 = 0 /\ \A j \in 1 .. K - 1 : 1 + j - 1 = j
    BY <1>1
  <2>2. frames \in Seq(Frames) /\ \A j \in 1 .. K - 1 : frames[j] \in Frames
    BY <1>1
  <2>3. 1 \in Int /\ K - 1 \in Int
    BY <1>1
  <2> HIDE DEF K
  <2>4. /\ F \in Seq(Frames) /\ Len(F) = IF 1 <= K - 1 THEN (K - 1) - 1 + 1 ELSE 0
        /\ \A j \in 1 .. (K - 1) - 1 + 1 : F[j] = frames[1 + j - 1]
    BY <2>2, <2>3, SubSeqProperties
  <2>5. QED
    BY <1>1, <2>1, <2>4
<1> HIDE DEF F
<1>4. Nested(length, F, e, q, Top.locals)
  <2>1. q \subseteq Visible(e) /\ Top.locals = Visible(e) \ Outer(frames, K - 1)
    BY <1>1 DEF FrameOK
  <2>2. Outer(F, Len(F)) = Outer(frames, K - 1)
    BY <1>1, <1>3 DEF Outer
  <2>3. ASSUME NEW j \in 1 .. Len(F) PROVE FrameOK(length, F, j) /\ Around(F[j], e, q)
    <3>1. FrameOK(length, frames, j) /\ Around(frames[j], e, q)
      BY <1>1, <1>3 DEF Nested, FrameOK
    <3>2. \A x \in 1 .. j : F[x] = frames[x]
      BY <1>1, <1>3
    <3>3. QED
      BY <1>1, <1>3, <3>1, <3>2, FrameKept
  <2>4. QED
    BY <2>1, <2>2, <2>3 DEF Nested
<1>5. e \in Envs /\ q \subseteq Bindings /\ Top.locals \subseteq Visible(e) /\ q \subseteq Visible(e)
  BY <1>1, <1>4 DEF Frames, Nested
<1>6. Len(F) \in 0 .. MaxDepth
  BY <1>1, <1>3, OwnershipFlowAssumption
<1>7. flow' \in FlowStates /\ stores' \subseteq Stores /\ open' \in BOOLEAN /\ (~open' => stores' = {})
      /\ faults' = {} /\ (open' => Current(length, F, e, q, flow', stores'))
  <2>1. CASE E = {}
    <3>1. open' = FALSE /\ stores' = {} /\ faults' = faults \cup {} /\ UNCHANGED flow
      BY <2>1 DEF GoOn
    <3>2. QED
      BY <3>1 DEF FlowIndInv, FlowTypeOK
  <2>2. CASE E # {}
    <3> DEFINE P == Partial(E, e) \cap C
    <3> DEFINE Y == ReconciledExits(E, e, P)
    <3>1. /\ \A x \in E : MayClean(x.flow, e, P) /\ MayJoin({y.flow : y \in Y})
          /\ open' = TRUE /\ flow' = JoinedFlow({y.flow : y \in Y})
          /\ faults' = faults \cup {} \cup UNION {Twice(x.stores, x.flow, Pending(x.flow, e, P)) : x \in E}
      BY <2>2 DEF GoOn
    <3>2. stores' = CarriedStores(Y, e, C)
      BY <2>2 DEF GoOn
    <3>3. Y # {}
      <4>1. PICK x \in E : TRUE
        BY <2>2
      <4>2. Cleared(x, e, P) \in Y
        BY DEF ReconciledExits, Cleared, ReleasedStores
      <4>3. QED
        BY <4>2
    <3>4. /\ Joinable(length, e, q, C, Y)
          /\ \A x \in E : Twice(x.stores, x.flow, Pending(x.flow, e, P)) = {}
          /\ \A j \in 1 .. K : frames[j].flow.moved \subseteq Visible(e) =>
               \A y \in Y : Since(frames[j], y.flow, y.stores)
      <4> DEFINE fr == Top
      <4>1. /\ frames \in Seq(Frames) /\ frames # <<>> /\ length \in Nat /\ fr = frames[Len(frames)]
            /\ fr.env \in Envs /\ fr.quiet \subseteq Visible(fr.env)
            /\ C = Bindings \/ (fr.kind = "while" /\ C = Bindings \ fr.flow.moved)
        BY <1>1, <1>5
      <4>2. P = Partial(E, fr.env) \cap C /\ Y = ReconciledExits(E, fr.env, P)
        OBVIOUS
      <4>3. /\ \A x \in E : MayClean(x.flow, fr.env, P)
            /\ MayJoin({y.flow : y \in Y}) /\ Y # {}
        BY <2>2, <3>1, <3>3
      <4> HIDE DEF fr, P, Y
      <4>4. Joins(length, frames, E, fr, C, P, Y)
        BY <4>1, <4>2, <4>3 DEF Joins
      <4>5. Joined(length, frames, E, fr, C, P, Y)
        BY <4>4, ReconciledJoin
      <4>6. QED
        BY <4>5 DEF fr, Joined
    <3> HIDE DEF P, Y
    <3>5. /\ flow' \in FlowStates /\ stores' \subseteq Stores /\ Sound(length, e, q, flow', stores')
          /\ \A fr : (\A y \in Y : Since(fr, y.flow, y.stores)) => Since(fr, flow', stores')
      <4> DEFINE g == JoinedExits(Y)
      <4> DEFINE T == CarriedStores(Y, e, C)
      <4>1. g = JoinedExits(Y) /\ T = CarriedStores(Y, e, C)
        OBVIOUS
      <4>2. flow' = g /\ stores' = T
        BY <3>1, <3>2 DEF JoinedExits
      <4> HIDE DEF g, T, e, q
      <4>3. /\ g \in FlowStates /\ T \subseteq Stores /\ Sound(length, e, q, g, T)
            /\ \A fr : (\A y \in Y : Since(fr, y.flow, y.stores)) => Since(fr, g, T)
        BY <3>4, <4>1, JoinSound
      <4>4. QED
        BY <4>2, <4>3
    <3>6. ASSUME NEW j \in 1 .. Len(F) PROVE Since(F[j], flow', stores')
      <4>1. j \in 1 .. K /\ F[j] = frames[j]
        BY <1>1, <1>3
      <4>2. frames[j].flow.moved \subseteq Visible(e)
        BY <1>1, <4>1, FrameInside
      <4>3. QED
        BY <3>4, <3>5, <4>1, <4>2
    <3>7. Current(length, F, e, q, flow', stores')
      BY <3>5, <3>6 DEF Current
    <3>8. faults' = {}
      BY <3>1, <3>4 DEF FlowIndInv
    <3>9. QED
      BY <3>1, <3>5, <3>7, <3>8
  <2>3. QED
    BY <2>1, <2>2
<1>8. QED
  <2>1. env' \in [Bindings -> {"own", "view", "borrow", "none"}] /\ length' = length
    BY <1>2, <1>5 DEF Envs
  <2>2. Nested(length', frames', env', quiet', locals')
    BY <1>2, <1>4, <2>1
  <2>3. open' => Current(length', frames', env', quiet', flow', stores')
    BY <1>2, <1>7, <2>1
  <2>4. QED
    BY <1>2, <1>3, <1>5, <1>6, <1>7, <2>1, <2>2, <2>3 DEF FlowIndInv, FlowTypeOK

LEMMA EndIfAction ==
  ASSUME FlowIndInv, EndIf
  PROVE  FlowIndInv'
<1> DEFINE E == BranchExits(Visible(Top.env)) \cup
                  (IF Top.kind = "if" THEN {Exit(Top.flow, Top.stores)} ELSE Top.exits)
<1>1. /\ frames # <<>> /\ Top.kind \in {"if", "else"} /\ MayLeave(BlockLocals, Visible(Top.env))
      /\ GoOn(E, Bindings, LeavingFaults(BlockLocals)) /\ UNCHANGED <<style, length, finished>>
  BY DEF EndIf
<1>2. /\ \A x \in BranchExits(Visible(Top.env)) : ExitOK(length, frames, x)
      /\ LeavingFaults(BlockLocals) = {}
  BY <1>1, BranchFacts
<1>3. /\ Top = frames[Len(frames)] /\ Top \in Frames /\ FrameOK(length, frames, Len(frames))
      /\ Len(frames) \in 1 .. Len(frames)
  BY <1>1 DEF FlowIndInv, Top, Nested
<1>4. \A j \in 1 .. Len(frames) : Since(frames[j], Top.flow, Top.stores)
  <2> SUFFICES ASSUME NEW j \in 1 .. Len(frames) PROVE Since(frames[j], Top.flow, Top.stores)
    OBVIOUS
  <2>1. CASE j = Len(frames)
    BY <1>3, <2>1 DEF Since
  <2>2. CASE j # Len(frames)
    <3>1. j \in 1 .. Len(frames) - 1
      BY <2>2
    <3>2. QED
      BY <1>3, <3>1 DEF FrameOK
  <2>3. QED
    BY <2>1, <2>2
<1>5. ExitOK(length, frames, Exit(Top.flow, Top.stores))
  BY <1>3, <1>4 DEF ExitOK, Exit, Exits, Frames, FrameOK
<1>6. \A x \in Top.exits : ExitOK(length, frames, x)
  BY <1>3 DEF ExitOK, FrameOK, Frames
<1>7. \A x \in E : ExitOK(length, frames, x)
  BY <1>2, <1>5, <1>6
<1> HIDE DEF E
<1>8. GoOn(E, Bindings, {})
  BY <1>1, <1>2
<1>9. QED
  BY <1>1, <1>7, <1>8, GoOnStep

LEMMA EndWhileAction ==
  ASSUME FlowIndInv, EndWhile
  PROVE  FlowIndInv'
<1>1. PICK condition \in BOOLEAN :
        GoOn(Top.exits \cup (IF condition THEN {Exit(Top.flow, Top.stores)} ELSE {}), Bindings \ Top.flow.moved, {})
  BY DEF EndWhile
<1> DEFINE E == Top.exits \cup (IF condition THEN {Exit(Top.flow, Top.stores)} ELSE {})
<1>2. frames # <<>> /\ Top.kind = "while" /\ UNCHANGED <<style, length, finished>>
  BY DEF EndWhile
<1>3. /\ Top = frames[Len(frames)] /\ Top \in Frames /\ FrameOK(length, frames, Len(frames))
      /\ Len(frames) \in 1 .. Len(frames)
  BY <1>2 DEF FlowIndInv, Top, Nested
<1>4. \A j \in 1 .. Len(frames) : Since(frames[j], Top.flow, Top.stores)
  <2> SUFFICES ASSUME NEW j \in 1 .. Len(frames) PROVE Since(frames[j], Top.flow, Top.stores)
    OBVIOUS
  <2>1. CASE j = Len(frames)
    BY <1>3, <2>1 DEF Since
  <2>2. CASE j # Len(frames)
    <3>1. j \in 1 .. Len(frames) - 1
      BY <2>2
    <3>2. QED
      BY <1>3, <3>1 DEF FrameOK
  <2>3. QED
    BY <2>1, <2>2
<1>5. ExitOK(length, frames, Exit(Top.flow, Top.stores))
  BY <1>3, <1>4 DEF ExitOK, Exit, Exits, Frames, FrameOK
<1>6. \A x \in E : ExitOK(length, frames, x)
  BY <1>3, <1>5 DEF ExitOK, FrameOK, Frames
<1> HIDE DEF E
<1>7. GoOn(E, Bindings \ Top.flow.moved, {})
  BY <1>1 DEF E
<1>8. QED
  BY <1>2, <1>6, <1>7, GoOnStep

-----------------------------------------------------------------------------
(* Jumps                                                                    *)

LEMMA LastOf ==
  ASSUME NEW N \in Nat, NEW I \in SUBSET (1 .. N), I # {}
  PROVE  \E i \in I : \A j \in I : j <= i
<1> DEFINE Has(J) == \E i \in J : \A j \in J : j <= i
<1> DEFINE S == {k \in Nat : \A J \in SUBSET (1 .. k) : J # {} => Has(J)}
<1>1. 0 \in S
  <2>1. 1 .. 0 = {}
    OBVIOUS
  <2>2. QED
    BY <2>1
<1>2. ASSUME NEW k \in Nat, k \in S PROVE k + 1 \in S
  <2> SUFFICES ASSUME NEW J \in SUBSET (1 .. k + 1), J # {} PROVE Has(J)
    OBVIOUS
  <2>1. CASE k + 1 \in J
    BY <2>1
  <2>2. CASE k + 1 \notin J
    <3>1. J \in SUBSET (1 .. k)
      BY <2>2
    <3>2. QED
      BY <1>2, <3>1
  <2>3. QED
    BY <2>1, <2>2
<1>3. N \in S
  <2> HIDE DEF S
  <2>1. QED
    BY <1>1, <1>2, SetInduction
<1>4. QED
  BY <1>3

LEMMA InnermostLoop ==
  ASSUME frames \in Seq(Frames), Loops # {}
  PROVE  Innermost \in 1 .. Len(frames) /\ frames[Innermost].kind = "while"
<1>1. Len(frames) \in Nat /\ Loops \in SUBSET (1 .. Len(frames))
  BY DEF Loops
<1>2. \E i \in Loops : \A j \in Loops : j <= i
  BY <1>1, LastOf
<1>3. Innermost \in Loops
  BY <1>2 DEF Innermost
<1>4. QED
  BY <1>3 DEF Loops

\* One more exit of a loop.
WithExit(F, i, x) == [F EXCEPT ![i].exits = @ \cup {x}]
MayExit(L, F, i, x) ==
  /\ F \in Seq(Frames) /\ i \in 1 .. Len(F) /\ x \in Exits
  /\ Sound(L, F[i].env, F[i].quiet, x.flow, x.stores)
  /\ \A j \in 1 .. i : Since(F[j], x.flow, x.stores)

LEMMA ExitAdded ==
  ASSUME NEW L, NEW F, NEW i, NEW x, MayExit(L, F, i, x), NEW e, NEW q, NEW D, Nested(L, F, e, q, D)
  PROVE  /\ WithExit(F, i, x) \in Seq(Frames) /\ Len(WithExit(F, i, x)) = Len(F)
         /\ Nested(L, WithExit(F, i, x), e, q, D)
<1> DEFINE G == WithExit(F, i, x)
<1>0. /\ F \in Seq(Frames) /\ i \in 1 .. Len(F) /\ x \in Exits
      /\ Sound(L, F[i].env, F[i].quiet, x.flow, x.stores)
      /\ \A j \in 1 .. i : Since(F[j], x.flow, x.stores)
  BY DEF MayExit
<1> DEFINE fr == [F[i] EXCEPT !.exits = @ \cup {x}]
<1>1. F[i] \in Frames /\ Len(F) \in Nat /\ F \in Seq(Frames)
  BY <1>0
<1>2. /\ fr \in Frames /\ fr.kind = F[i].kind /\ fr.env = F[i].env /\ fr.locals = F[i].locals
      /\ fr.quiet = F[i].quiet /\ fr.flow = F[i].flow /\ fr.stores = F[i].stores /\ fr.exits = F[i].exits \cup {x}
  BY <1>0, <1>1 DEF Frames
<1>3. G = [F EXCEPT ![i] = fr]
  BY DEF WithExit
<1> HIDE DEF fr, G
<1>4. G \in Seq(Frames) /\ Len(G) = Len(F) /\ \A j \in 1 .. Len(F) : G[j] = IF j = i THEN fr ELSE F[j]
  <2> DEFINE H == [F EXCEPT ![i] = fr]
  <2>1. H \in Seq(Frames) /\ Len(H) = Len(F) /\ \A j \in 1 .. Len(F) : H[j] = IF j = i THEN fr ELSE F[j]
    BY <1>0, <1>2
  <2>2. G = H
    BY <1>3
  <2> HIDE DEF H
  <2>3. QED
    BY <2>1, <2>2
<1>5. ASSUME NEW j \in 1 .. Len(F)
      PROVE  /\ G[j].kind = F[j].kind /\ G[j].env = F[j].env /\ G[j].locals = F[j].locals
             /\ G[j].quiet = F[j].quiet /\ G[j].flow = F[j].flow /\ G[j].stores = F[j].stores
             /\ \A y \in G[j].exits : y \in F[j].exits \/ (j = i /\ y = x)
  BY <1>2, <1>4
<1>6. ASSUME NEW j \in 1 .. Len(F)
      PROVE  /\ \A e2, q2 : Around(F[j], e2, q2) => Around(G[j], e2, q2)
             /\ \A f, S : Since(F[j], f, S) => Since(G[j], f, S)
  BY <1>5 DEF Around, Since
<1>7. \A k \in 0 .. Len(F) : Outer(G, k) = Outer(F, k)
  BY <1>1, <1>5 DEF Outer
<1>8. ASSUME NEW j \in 1 .. Len(F) PROVE FrameOK(L, G, j)
  <2>1. FrameOK(L, F, j)
    BY DEF Nested
  <2>2. j - 1 \in 0 .. Len(F) /\ (\A k \in 1 .. j - 1 : k \in 1 .. Len(F)) /\ (\A k \in 1 .. j : k \in 1 .. Len(F))
    BY <1>1
  <2>3. G[j].quiet \subseteq Visible(G[j].env) /\ G[j].locals = Visible(G[j].env) \ Outer(G, j - 1)
    BY <1>5, <1>7, <2>1, <2>2 DEF FrameOK
  <2>4. Sound(L, G[j].env, G[j].quiet, G[j].flow, G[j].stores)
    BY <1>5, <2>1 DEF FrameOK
  <2>5. \A k \in 1 .. j - 1 : Around(G[k], G[j].env, G[j].quiet) /\ Since(G[k], G[j].flow, G[j].stores)
    BY <1>5, <1>6, <2>1, <2>2 DEF FrameOK
  <2>6. ASSUME NEW y \in G[j].exits
        PROVE  /\ Sound(L, G[j].env, G[j].quiet, y.flow, y.stores)
               /\ \A k \in 1 .. j : Since(G[k], y.flow, y.stores)
    <3>1. Sound(L, F[j].env, F[j].quiet, y.flow, y.stores) /\ \A k \in 1 .. j : Since(F[k], y.flow, y.stores)
      <4>1. CASE y \in F[j].exits
        BY <2>1, <4>1 DEF FrameOK
      <4>2. CASE j = i /\ y = x
        BY <1>0, <4>2
      <4>3. QED
        BY <1>5, <4>1, <4>2
    <3>2. QED
      BY <1>5, <1>6, <2>2, <3>1
  <2>7. QED
    BY <2>3, <2>4, <2>5, <2>6 DEF FrameOK
<1>9. Nested(L, G, e, q, D)
  <2>1. q \subseteq Visible(e) /\ D = Visible(e) \ Outer(F, Len(F)) /\ \A j \in 1 .. Len(F) : Around(F[j], e, q)
    BY DEF Nested
  <2>2. Len(F) \in 0 .. Len(F)
    BY <1>1
  <2>3. QED
    BY <1>4, <1>6, <1>7, <1>8, <2>1, <2>2 DEF Nested
<1>10. QED
  BY <1>4, <1>9 DEF G

\* What a path that goes back to the beginning of a loop can tell.
LEMMA SameAppearance ==
  ASSUME NEW L, NEW e, NEW q, NEW q2, NEW f, NEW g, NEW s, NEW t,
         Faithful(L, e, q, f, s), Faithful(L, e, q2, g, t),
         f.moved = g.moved, f.views = g.views, s.gone \cap g.moved = t.gone \cap g.moved
  PROVE  Appearance(s, e) = Appearance(t, e)
<1>1. s.gone = t.gone /\ s.target = t.target
  BY DEF Faithful
<1>2. s.made \ s.released = {s.value[n] : n \in Holders(e, f)} /\ t.made \ t.released = {t.value[n] : n \in Holders(e, g)}
  BY DEF Faithful
<1>3. {m \in Owners(e) : m \notin s.gone} = Holders(e, f) /\ {m \in Owners(e) : m \notin t.gone} = Holders(e, g)
  BY DEF Faithful, Holders
<1>4. s.made \ s.released = Kept(s, e) /\ t.made \ t.released = Kept(t, e)
  BY <1>2, <1>3 DEF Kept
<1>5. QED
  BY <1>1, <1>4 DEF Appearance

LEMMA NothingUnlike ==
  ASSUME NEW L, NEW loop, NEW g, NEW T, loop.kind = "while",
         Sound(L, loop.env, loop.quiet, loop.flow, loop.stores), Sound(L, loop.env, loop.quiet, g, T),
         Since(loop, g, T), g.views = loop.flow.views,
         g.moved \cap Visible(loop.env) = loop.flow.moved \cap Visible(loop.env)
  PROVE  Unlike(T, loop.stores, loop.env) = {}
<1> DEFINE e == loop.env
<1> DEFINE f == loop.flow
<1>1. g.moved = f.moved /\ \A s \in T : Faithful(L, e, loop.quiet, g, s)
  BY DEF Sound, Shaped
<1>2. \A t \in loop.stores : Faithful(L, e, loop.quiet, f, t)
  BY DEF Sound
<1>3. ASSUME NEW s \in T PROVE \E t \in loop.stores : Appearance(s, e) = Appearance(t, e)
  <2>1. PICK t \in loop.stores : s.gone \cap f.moved = t.gone \cap f.moved
    BY DEF Since
  <2>2. Faithful(L, e, loop.quiet, g, s) /\ Faithful(L, e, loop.quiet, f, t) /\ g.moved = f.moved /\ g.views = f.views
    BY <1>1, <1>2
  <2> HIDE DEF e, f
  <2>3. Appearance(s, e) = Appearance(t, e)
    BY <2>1, <2>2, SameAppearance
  <2>4. QED
    BY <2>3
<1>4. QED
  BY <1>3 DEF Unlike

LEMMA JumpStep ==
  ASSUME FlowIndInv, NEW leaves \in BOOLEAN, Jump(leaves), Speaks \/ UNCHANGED length
  PROVE  FlowIndInv'
<1> DEFINE i == Innermost
<1> DEFINE loop == frames[i]
<1> DEFINE D == Visible(env) \ Visible(loop.env)
<1> DEFINE g == Leaving(D, Visible(loop.env))
<1> DEFINE T == LeavingStores(D, Visible(loop.env))
<1>1. /\ open /\ Loops # {} /\ MayLeave(D, Visible(loop.env)) /\ Agrees(g, loop.flow, leaves)
      /\ frames' = IF leaves THEN [frames EXCEPT ![i].exits = @ \cup {Exit(g, T)}] ELSE frames
      /\ faults' = faults \cup LeavingFaults(D) \cup (IF leaves THEN {} ELSE Unlike(T, loop.stores, loop.env))
      /\ flow' = g /\ open' = FALSE /\ stores' = {}
      /\ UNCHANGED <<style, env, locals, quiet, finished>>
  BY DEF Jump, JumpLocals, Outside
<1>2. i \in 1 .. Len(frames) /\ loop.kind = "while" /\ frames \in Seq(Frames)
  BY <1>1, InnermostLoop DEF FlowIndInv
<1>3. /\ g \in FlowStates /\ T \subseteq Stores
      /\ Sound(length, loop.env, loop.quiet, g, T)
      /\ \A j \in 1 .. i : Since(frames[j], g, T)
      /\ LeavingFaults(D) = {}
  <2> DEFINE k == i
  <2>1. k \in 1 .. Len(frames) /\ D = Visible(env) \ Visible(frames[k].env) /\ MayLeave(D, Visible(frames[k].env))
    BY <1>1, <1>2
  <2>2. g = Leaving(D, Visible(frames[k].env)) /\ T = LeavingStores(D, Visible(frames[k].env))
    OBVIOUS
  <2> HIDE DEF k, D, g, T, i
  <2>3. /\ g \in FlowStates /\ T \subseteq Stores
        /\ Sound(length, frames[k].env, frames[k].quiet, g, T)
        /\ \A j \in 1 .. k : Since(frames[j], g, T)
        /\ LeavingFaults(D) = {}
    BY <1>1, <2>1, <2>2, LeaveFacts
  <2>4. QED
    BY <2>3 DEF k
<1>4. ASSUME ~leaves PROVE Unlike(T, loop.stores, loop.env) = {}
  <2>1. FrameOK(length, frames, i)
    BY <1>2 DEF FlowIndInv, Nested
  <2>2. Sound(length, loop.env, loop.quiet, loop.flow, loop.stores)
    BY <2>1 DEF FrameOK
  <2>3. Since(loop, g, T)
    <3>1. i \in 1 .. i
      BY <1>2
    <3> HIDE DEF g, T
    <3>2. QED
      BY <1>3, <3>1
  <2>4. g.views = loop.flow.views /\ g.moved \cap Visible(loop.env) = loop.flow.moved \cap Visible(loop.env)
    BY <1>1, <1>4 DEF Agrees, Outside
  <2> HIDE DEF loop, g, T
  <2>5. QED
    BY <1>2, <1>3, <2>2, <2>3, <2>4, NothingUnlike
<1> HIDE DEF D, g, T
<1>5. faults' = {}
  BY <1>1, <1>3, <1>4 DEF FlowIndInv
<1>6. /\ length' \in 0 .. MaxLength /\ Nested(length', frames, env, quiet, locals)
      /\ Sound(length', loop.env, loop.quiet, g, T)
  BY <1>3, TextGrows
<1>7. frames' \in Seq(Frames) /\ Len(frames') = Len(frames) /\ Nested(length', frames', env, quiet, locals)
  <2>1. CASE ~leaves
    BY <1>1, <1>2, <1>6, <2>1
  <2>2. CASE leaves
    <3> DEFINE x == Exit(g, T)
    <3>1. x \in Exits /\ x.flow = g /\ x.stores = T
      BY <1>3 DEF Exit, Exits
    <3>2. frames' = WithExit(frames, i, x)
      BY <1>1, <2>2 DEF WithExit
    <3> HIDE DEF x
    <3>3. MayExit(length', frames, i, x)
      BY <1>2, <1>3, <1>6, <3>1 DEF MayExit
    <3> HIDE DEF i
    <3>4. QED
      BY <1>6, <3>2, <3>3, ExitAdded
  <2>3. QED
    BY <2>1, <2>2
<1>8. Nested(length', frames', env', quiet', locals')
  BY <1>1, <1>7
<1>9. /\ style' \in Styles /\ env' \in [Bindings -> {"own", "view", "borrow", "none"}]
      /\ locals' \subseteq Visible(env') /\ quiet' \subseteq Bindings /\ Len(frames') \in 0 .. MaxDepth
      /\ \A s \in finished' : s.made = s.released
  BY <1>1, <1>7 DEF FlowIndInv, FlowTypeOK
<1>10. QED
  BY <1>1, <1>3, <1>5, <1>6, <1>7, <1>8, <1>9 DEF FlowIndInv, FlowTypeOK

-----------------------------------------------------------------------------
(* The theorems                                                             *)

LEMMA FlowStep ==
  ASSUME FlowIndInv, StraightText, [FlowNext]_flowVars
  PROVE  FlowIndInv' /\ StraightText'
<1>1. ASSUME NEW n \in Bindings, NewOwner(n) \/ ReadName(n) \/ DropName(n) \/ LastMention(n)
      PROVE  FlowIndInv' /\ StraightText'
  <2>1. CASE NewOwner(n)
    BY <2>1, NewOwnerStep DEF NewOwner, StraightText
  <2>2. CASE ReadName(n)
    BY <2>2, ReadAction DEF ReadName, StraightText
  <2>3. CASE DropName(n)
    BY <2>3, DropAction DEF DropName, StraightText
  <2>4. CASE LastMention(n)
    BY <2>4, LastMentionAction DEF LastMention, StraightText
  <2>5. QED
    BY <1>1, <2>1, <2>2, <2>3, <2>4
<1>2. ASSUME NEW n \in Bindings, NEW m \in Bindings, MoveTo(n, m) PROVE FlowIndInv' /\ StraightText'
  BY <1>2, MoveAction DEF MoveTo, StraightText
<1>3. ASSUME NEW n \in Bindings, NEW m \in Bindings, NEW o \in {"view", "borrow"}, Lend(n, m, o)
      PROVE  FlowIndInv' /\ StraightText'
  BY <1>3, LendAction DEF Lend, StraightText
<1>4. ASSUME NEW kind \in {"if", "while"}, Begin(kind) PROVE FlowIndInv' /\ StraightText'
  BY <1>4, BeginAction DEF Begin, StraightText
<1>5. CASE BeginElse
  BY <1>5, BeginElseAction DEF BeginElse, StraightText
<1>6. CASE EndIf
  BY <1>6, EndIfAction DEF EndIf, StraightText
<1>7. CASE Break
  BY <1>7, JumpStep DEF Break, Jump, StraightText
<1>8. CASE Continue
  BY <1>8, JumpStep DEF Continue, Jump, StraightText
<1>9. CASE EndBody
  BY <1>9, JumpStep DEF EndBody, Jump, StraightText
<1>10. CASE EndWhile
  BY <1>10, EndWhileAction DEF EndWhile, StraightText
<1>11. CASE ReturnHere
  BY <1>11, ReturnAction DEF ReturnHere, StraightText
<1>12. CASE UNCHANGED flowVars
  BY <1>12 DEF flowVars, FlowIndInv, FlowTypeOK, Nested, Current, StraightText
<1>13. CASE FlowNext
  BY <1>1, <1>2, <1>3, <1>4, <1>5, <1>6, <1>7, <1>8, <1>9, <1>10, <1>11, <1>13 DEF FlowNext
<1>14. QED
  BY <1>12, <1>13

LEMMA StyleKept == [FlowNext]_flowVars => style' = style
<1> SUFFICES ASSUME [FlowNext]_flowVars PROVE style' = style
  OBVIOUS
<1>1. ASSUME NEW n \in Bindings, NewOwner(n) \/ ReadName(n) \/ DropName(n) \/ LastMention(n) PROVE style' = style
  BY <1>1 DEF NewOwner, ReadName, DropName, LastMention
<1>2. ASSUME NEW n \in Bindings, NEW m \in Bindings, MoveTo(n, m) \/ \E o \in {"view", "borrow"} : Lend(n, m, o)
      PROVE  style' = style
  BY <1>2 DEF MoveTo, Lend
<1>3. CASE Begin("if") \/ Begin("while") \/ BeginElse \/ EndIf \/ EndWhile \/ ReturnHere
  BY <1>3 DEF Begin, BeginElse, EndIf, EndWhile, ReturnHere
<1>4. CASE Break \/ Continue \/ EndBody
  BY <1>4 DEF Break, Continue, EndBody, Jump
<1>5. CASE UNCHANGED flowVars
  BY <1>5 DEF flowVars
<1>6. QED
  BY <1>1, <1>2, <1>3, <1>4, <1>5 DEF FlowNext

\* Before the first sentence nothing is visible.
LEMMA FlowStarts == FlowInit => FlowIndInv
<1> SUFFICES ASSUME FlowInit PROVE FlowIndInv
  OBVIOUS
<1>1. /\ style \in Styles /\ length = 0 /\ env = [n \in Bindings |-> "none"] /\ locals = {} /\ quiet = {}
      /\ flow = FlowStart /\ open = TRUE /\ stores = {EmptyStore} /\ frames = <<>> /\ finished = {} /\ faults = {}
  BY DEF FlowInit
<1>2. /\ Visible(env) = {} /\ Owners(env) = {} /\ env \in Envs /\ \A n \in Bindings : env[n] = "none"
  BY <1>1 DEF Visible, Owners, Envs
<1>3. flow \in FlowStates /\ flow.moved = {} /\ \A n \in Bindings : flow.views[n] = Nobody
  BY <1>1 DEF FlowStart, FlowStates
<1>4. /\ EmptyStore \in Stores /\ EmptyStore.target = flow.views /\ EmptyStore.gone = {}
      /\ EmptyStore.made = {} /\ EmptyStore.released = {}
  BY <1>1 DEF EmptyStore, Stores, FlowStart
<1>5. Holders(env, flow) = {} /\ Borrowed(env, quiet, flow) = {}
  BY <1>2 DEF Holders, Borrowed
<1>6. Shaped(env, flow)
  BY <1>2, <1>3 DEF Shaped
<1>7. Faithful(length, env, quiet, flow, EmptyStore)
  BY <1>2, <1>3, <1>4, <1>5 DEF Faithful
<1>8. Sound(length, env, quiet, flow, stores)
  BY <1>1, <1>5, <1>6, <1>7 DEF Sound, Protected
<1>9. Len(frames) = 0 /\ frames \in Seq(Frames) /\ \A j \in 1 .. 0 : FALSE
  BY <1>1
<1>10. Nested(length, frames, env, quiet, locals) /\ Current(length, frames, env, quiet, flow, stores)
  BY <1>1, <1>2, <1>8, <1>9 DEF Nested, Current, Outer
<1>11. FlowTypeOK
  BY <1>1, <1>2, <1>3, <1>9, OwnershipFlowAssumption DEF FlowTypeOK, Envs
<1>12. QED
  BY <1>1, <1>4, <1>9, <1>10, <1>11 DEF FlowIndInv

(* For any bindings and any texts, of any length and depth, that keep to    *)
(* the straight style: what the checker knows of moved bindings, views and  *)
(* loans (flow.py) is what the memory of every path shows, in the body, in  *)
(* the blocks around it and at the exits that wait for a join.              *)
THEOREM FlowInvariance == FlowSpec => [](StraightText => FlowIndInv)
<1>1. FlowInit => (StraightText => FlowIndInv)
  BY FlowStarts
<1>2. (StraightText => FlowIndInv) /\ [FlowNext]_flowVars => (StraightText => FlowIndInv)'
  BY FlowStep, StyleKept DEF StraightText
<1>3. QED
  BY <1>1, <1>2, PTL DEF FlowSpec

(* The state of the checker stays well typed.                               *)
THEOREM FlowTypeCorrect == FlowSpec => [](StraightText => FlowTypeOK)
<1>1. (StraightText => FlowIndInv) => (StraightText => FlowTypeOK)
  BY DEF FlowIndInv
<1>2. QED
  BY <1>1, FlowInvariance, PTL

(* A text in the straight style that is accepted reads, on no path, what    *)
(* was moved or freed, frees nothing twice, and reads through a view or a   *)
(* borrow the very binding it was made of (FlowState.resolve, loan,         *)
(* transfer; Loop.jump of while.py).                                        *)
THEOREM CheckedIsSafe == FlowSpec => [](StraightText => AcceptedFlowIsSafe)
<1>1. (StraightText => FlowIndInv) => (StraightText => AcceptedFlowIsSafe)
  BY DEF FlowIndInv, AcceptedFlowIsSafe
<1>2. QED
  BY <1>1, FlowInvariance, PTL

(* All that such a text allocates is released where a path returns          *)
(* (cleanup_memory, reconcile_owners).                                      *)
THEOREM PathsRelease == FlowSpec => [](StraightText => ReleasedOnEveryPath)
<1>1. (StraightText => FlowIndInv) => (StraightText => ReleasedOnEveryPath)
  BY DEF FlowIndInv, ReleasedOnEveryPath
<1>2. QED
  BY <1>1, FlowInvariance, PTL
=============================================================================
