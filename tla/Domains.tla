------------------------------- MODULE Domains -------------------------------
(***************************************************************************)
(* The inputs of a campaign: campaigns.py gives each parameter of the      *)
(* tested function the domain of its type, narrows it by the guards of the *)
(* function (constrain), draws or varies arguments within the bounds,      *)
(* makes those equal that a guard wants equal, and keeps what satisfies    *)
(* the guards; captured arguments are checked instead.                     *)
(*                                                                         *)
(* Numbers are counted in units, of which One make an integer; a float     *)
(* type has the values of its grid, denser near zero, and rounds others to *)
(* the nearest.  A parameter is a scalar or a list of scalars.  A guard is *)
(* a conjunction in the order of its text; a chain is the conjunction of   *)
(* its comparisons, an item stands for all of its list.                    *)
(***************************************************************************)
EXTENDS Integers, Sequences, FiniteSets, SequencesExt

CONSTANTS
  One,             \* units in an integer
  Integral,        \* Integral[t] = [lower, upper], for a type without float-bits
  Grid,            \* Grid[t], for a type with float-bits: its finite values
  Width,           \* float-bits
  Signatures,      \* sequences of parameters [type, list]
  Guards,          \* Guards[s]: the conjunctions that a guard of this signature may be
  MaxComparisons,  \* bound on the comparisons of all guards
  MaxDrawn,        \* MaxDrawn[s]: bound on them when arguments are drawn
  MaxItems,        \* bound on the length of a list
  Unlimited        \* above every number: no upper bound, or a float that overflows

FloatTypes == DOMAIN Grid

ASSUME DomainsAssumption ==
  /\ One \in Nat \ {0}
  /\ \A t \in FloatTypes : /\ Grid[t] \subseteq Int /\ IsFiniteSet(Grid[t]) /\ 0 \in Grid[t]
                           /\ Width[t] \in Nat
                           /\ \A u \in FloatTypes : Width[t] <= Width[u] => Grid[t] \subseteq Grid[u]
  /\ \A t \in DOMAIN Integral : /\ Integral[t] \in [lower : Int, upper : Int]
                               /\ Integral[t].lower % One = 0 /\ Integral[t].upper % One = 0
                               /\ Integral[t].lower <= Integral[t].upper
  /\ "length" \notin FloatTypes \cup DOMAIN Integral
  /\ \A s \in Signatures : /\ Len(s) \in Nat /\ DOMAIN s = 1 .. Len(s)
                           /\ \A q \in DOMAIN s : /\ s[q].type \in FloatTypes \cup DOMAIN Integral
                                                 /\ s[q].list \in BOOLEAN
  /\ MaxComparisons \in Nat /\ MaxItems \in Nat /\ MaxDrawn \in [Signatures -> Nat]
  /\ Unlimited \in Nat /\ Unlimited % One = 0 /\ MaxItems * One < Unlimited
  /\ \A t \in FloatTypes : \A g \in Grid[t] : -Unlimited < g /\ g < Unlimited
  /\ \A t \in DOMAIN Integral : -Unlimited < Integral[t].lower /\ Integral[t].upper < Unlimited

VARIABLES
  shape,       \* the parameters
  stage,       \* "guard", "empty", "cyclic", "sampled", "varied", "rejected", "unequal" or "accepted"
  predicates,  \* the guards so far
  domains,     \* domains[p] = [lower, upper]
  arguments

domainsVars == <<shape, stage, predicates, domains, arguments>>

(* What has bounds: a scalar, the length of a list, and its items.          *)
Scalar(q) == <<q, "value">>
Length(q) == <<q, "length">>
Item(q) == <<q, "item">>
Parameters == DOMAIN shape
Scalars == {q \in Parameters : ~shape[q].list}
PlacesOf(s) == {p \in (DOMAIN s) \X {"value", "length", "item"} : s[p[1]].list <=> p[2] # "value"}
Places == PlacesOf(shape)
Tops == {p \in Places : p[2] # "item"}
TypeAt(p) == IF p[2] = "length" THEN "length" ELSE shape[p[1]].type
IsFloat(t) == t \in FloatTypes

Domain(p) ==
  LET t == TypeAt(p)
  IN  CASE t = "length" -> [lower |-> 0, upper |-> Unlimited]
        [] IsFloat(t)   -> [lower |-> Min(Grid[t]), upper |-> Max(Grid[t])]
        [] OTHER        -> Integral[t]

NoArguments == <<>>

DomainsInit ==
  /\ shape \in Signatures
  /\ stage = "guard"
  /\ predicates = <<>>
  /\ domains = [p \in Places |-> Domain(p)]
  /\ arguments = NoArguments

-----------------------------------------------------------------------------
Larger(a, b) == IF a > b THEN a ELSE b
Smaller(a, b) == IF a < b THEN a ELSE b
Floor(v) == (v \div One) * One
Ceil(v) == -((-v) \div One) * One
Distance(a, b) == Larger(a - b, b - a)

\* A float that is not an integer is so small that the integers next to it
\* are floats.
ASSUME GridAssumption ==
  \A t \in FloatTypes : \A g \in Grid[t] : Floor(g) \in Grid[t] /\ Ceil(g) \in Grid[t]

\* The rank of the encoding, which is even when the last bit of the mantissa is.
Encoded(g, t) == Cardinality({h \in Grid[t] : 0 <= h /\ h < Larger(g, -g)})

\* The nearest, and of two that are as near the even one.
RoundedFloat(v, t) ==
  LET below == Max({g \in Grid[t] : g <= v})
      above == Min({g \in Grid[t] : g >= v})
  IN  CASE v > Max(Grid[t]) -> Unlimited
        [] v < Min(Grid[t]) -> -Unlimited
        [] OTHER -> IF \/ Distance(v, below) < Distance(v, above)
                       \/ Distance(v, below) = Distance(v, above) /\ Encoded(below, t) % 2 = 0
                    THEN below ELSE above

AdjacentFloat(v, t, upward) ==
  IF upward THEN Min({g \in Grid[t] : g > v} \cup {Unlimited})
            ELSE Max({g \in Grid[t] : g < v} \cup {-Unlimited})

\* The values that t has are the integers, or the floats of its grid.
IntegerBound(v, lower, strict) ==
  CASE lower /\ strict   -> Floor(v) + One
    [] lower /\ ~strict  -> Ceil(v)
    [] ~lower /\ strict  -> Ceil(v) - One
    [] ~lower /\ ~strict -> Floor(v)

FloatBound(v, t, lower, strict) ==
  LET rounded == RoundedFloat(v, t)
      outside == IF lower THEN rounded < v ELSE rounded > v
  IN  IF outside \/ (strict /\ rounded = v) THEN AdjacentFloat(rounded, t, lower) ELSE rounded

ComparisonBound(v, t, lower, strict) ==
  IF v \in {Unlimited, -Unlimited} THEN v
  ELSE IF IsFloat(t) THEN FloatBound(v, t, lower, strict)
  ELSE IntegerBound(v, lower, strict)

-----------------------------------------------------------------------------
(* A term is [place |-> p] or [constant |-> n].  A conjunct is a comparison *)
(* [left, op, right, over], where over is the list whose items it is about  *)
(* or None, or it is [either |-> comparisons], which narrows nothing.       *)
None == 0
IsPlace(term) == "place" \in DOMAIN term
IsEither(conjunct) == "either" \in DOMAIN conjunct

\* An item is of the list that its comparison is about.
TermOf(s, c, term) ==
  IF IsPlace(term) THEN term.place \in PlacesOf(s) /\ (term.place[2] = "item" => c.over = term.place[1])
                   ELSE term.constant \in Int

ComparisonOf(s, c) ==
  /\ IsPlace(c.left) \/ IsPlace(c.right)
  /\ TermOf(s, c, c.left) /\ TermOf(s, c, c.right)
  /\ c.op \in {"<", "<=", "==", "!=", ">", ">="}
  /\ c.over = None \/ (c.over \in DOMAIN s /\ s[c.over].list)

ASSUME GuardsAssumption ==
  \A s \in Signatures : \A g \in Guards[s] :
    /\ Len(g) \in Nat /\ DOMAIN g = 1 .. Len(g)
    /\ \A k \in 1 .. Len(g) : IsEither(g[k]) \/ ComparisonOf(s, g[k])

Flipped(op) == CASE op = ">" -> "<" [] op = ">=" -> "<=" [] op = "<" -> ">" [] op = "<=" -> ">=" [] OTHER -> op

(* The bounds that a comparison moves, in their order: of one place, by     *)
(* another or by a constant.                                                *)
Move(of, side, by, op) == [of |-> of, side |-> side, by |-> by, strict |-> op \in {"<", ">"}]

\* low < high, low <= high or low == high: each bounds the other.
Order(low, op, high) ==
  LET lower(p, q) == Move(p.place, "lower", q, op)
      upper(p, q) == Move(p.place, "upper", q, op)
      both == <<lower(high, low), upper(low, high)>>
  IN  CASE op \in {"<", "<="} -> both
        [] op = "=="          -> both \o <<lower(low, high), upper(high, low)>>
        [] OTHER              -> <<>>

Limit(p, op, constant) ==
  (IF op \in {">", ">=", "=="} THEN <<Move(p, "lower", constant, op)>> ELSE <<>>)
  \o (IF op \in {"<", "<=", "=="} THEN <<Move(p, "upper", constant, op)>> ELSE <<>>)

Moves(c) ==
  CASE IsEither(c) -> <<>>
    [] ~IsEither(c) /\ IsPlace(c.left) /\ IsPlace(c.right) ->
         IF c.op \in {">", ">="} THEN Order(c.right, Flipped(c.op), c.left) ELSE Order(c.left, c.op, c.right)
    [] ~IsEither(c) /\ IsPlace(c.left) /\ ~IsPlace(c.right) -> Limit(c.left.place, c.op, c.right)
    [] OTHER -> Limit(c.right.place, Flipped(c.op), c.left)

\* A constant is one of the type that it is compared with.
OfType(n, t) == IF IsFloat(t) THEN RoundedFloat(n, t) ELSE n

Moved(d, p, side, bound) ==
  IF side = "lower" THEN [d EXCEPT ![p].lower = Larger(@, bound)] ELSE [d EXCEPT ![p].upper = Smaller(@, bound)]

NarrowBy(d, move) ==
  LET t == TypeAt(move.of)
  IN  Moved(d, move.of, move.side,
            ComparisonBound(IF IsPlace(move.by) THEN d[move.by.place][move.side] ELSE OfType(move.by.constant, t),
                            t, move.side = "lower", move.strict))

Empty(d, p) == d[p].lower > d[p].upper

\* Only a comparison with a constant looks at the bounds that it has made.
EmptiedBy(d, c) ==
  /\ ~IsEither(c)
  /\ \E x, y \in {c.left, c.right} : IsPlace(x) /\ ~IsPlace(y) /\ Empty(d, x.place)

\* All moves of a comparison, in their order.
Narrowed(d, moves) ==
  LET after[k \in 0 .. Len(moves)] == IF k = 0 THEN d ELSE NarrowBy(after[k - 1], moves[k])
  IN  after[Len(moves)]

Open(d) == [domains |-> d, end |-> "open"]
VisitComparison(r, c) ==
  LET d == Narrowed(r.domains, Moves(c))
  IN  IF r.end = "empty" THEN r ELSE [domains |-> d, end |-> IF EmptiedBy(d, c) THEN "empty" ELSE "open"]

Visit(guard, d) ==
  LET after[k \in 0 .. Len(guard)] == IF k = 0 THEN Open(d) ELSE VisitComparison(after[k - 1], guard[k])
  IN  after[Len(guard)]

\* Rounds that are as many as the parameters.
Rounds_bug == Cardinality(Parameters)
Rounds == Cardinality(Parameters) + 2

\* A round that found nothing empty is the last if it changed nothing.
Settle(before, next) ==
  IF next.end = "empty" \/ (\E p \in Tops : Empty(next.domains, p)) THEN [next EXCEPT !.end = "empty"]
  ELSE IF \A p \in Tops : next.domains[p] = before[p]               THEN [next EXCEPT !.end = "settled"]
  ELSE next

Round(r, guard) == IF r.end = "open" THEN Settle(r.domains, Visit(guard, r.domains)) ELSE r

\* "settled", "empty", or "open" after all rounds: strict bounds in a circle.
Constrain(guard) ==
  LET after[k \in 0 .. Rounds] == IF k = 0 THEN Open(domains) ELSE Round(after[k - 1], guard)
  IN  after[Rounds]

Comparisons == FoldLeft(LAMBDA n, g : n + Len(g), 0, predicates)

\* campaign.py calls it for one guard after another.
AddGuard ==
  /\ stage = "guard"
  /\ \E g \in Guards[shape] :
       /\ Comparisons + Len(g) <= MaxComparisons
       /\ predicates' = Append(predicates, g)
       /\ \E r \in {Constrain(g)} :
            /\ domains' = r.domains
            /\ stage' = CASE r.end = "settled" -> "guard" [] r.end = "empty" -> "empty" [] r.end = "open" -> "cyclic"
  /\ UNCHANGED <<shape, arguments>>

-----------------------------------------------------------------------------
(* satisfies_constraints.  An item is compared for every item of its list,  *)
(* without the rounding that a parameter gives to a constant.               *)
ValueOf(args, term, other, i) ==
  IF ~IsPlace(term)
  THEN IF IsPlace(other) /\ other.place[2] = "value" THEN OfType(term.constant, TypeAt(other.place)) ELSE term.constant
  ELSE CASE term.place[2] = "value"  -> args[term.place[1]]
         [] term.place[2] = "length" -> Len(args[term.place[1]]) * One
         [] OTHER                    -> args[term.place[1]][i]

Compares(op, a, b) ==
  CASE op = "<" -> a < b [] op = "<=" -> a <= b [] op = "==" -> a = b
    [] op = "!=" -> a # b [] op = ">" -> a > b [] op = ">=" -> a >= b

Holds(args, c) ==
  \A i \in IF c.over = None THEN {None} ELSE DOMAIN args[c.over] :
    Compares(c.op, ValueOf(args, c.left, c.right, i), ValueOf(args, c.right, c.left, i))

Satisfies(args, guards) ==
  \A k \in DOMAIN guards : \A j \in DOMAIN guards[k] :
    LET c == guards[k][j]
    IN  IF IsEither(c) THEN \E x \in c.either : Holds(args, x) ELSE Holds(args, c)

-----------------------------------------------------------------------------
(* The values of a place between two bounds; MaxItems bounds a length.      *)
Within(p, lower, upper) ==
  LET t == TypeAt(p)
      last == IF t = "length" THEN Smaller(upper, MaxItems * One) ELSE upper
  IN  IF IsFloat(t) THEN {g \in Grid[t] : lower <= g /\ g <= upper}
      ELSE {n * One : n \in (Ceil(lower) \div One) .. (Floor(last) \div One)}

InBounds(p) == Within(p, domains[p].lower, domains[p].upper)

Rounded(p, n) == IF IsFloat(TypeAt(p)) THEN RoundedFloat(n, TypeAt(p)) ELSE n
Clamped(p, n) == Larger(domains[p].lower, Smaller(domains[p].upper, n))

\* One of each set.
Tuples(sets) ==
  LET of[k \in 0 .. Len(sets)] == IF k = 0 THEN {<<>>} ELSE {Append(t, x) : t \in of[k - 1], x \in sets[k]}
  IN  of[Len(sets)]

\* value, of a list of n: items that are no larger than the list is long.
ItemsFor(q, length) ==
  LET reach == Larger(One, length)
      lower == Larger(domains[Item(q)].lower, -reach)
      upper == Larger(lower, Smaller(domains[Item(q)].upper, reach))
  IN  {Clamped(Item(q), Rounded(Item(q), n)) : n \in Within(Item(q), lower, upper) \cup {lower, upper}}

ListsOf(q, n) == [1 .. n \div One -> ItemsFor(q, n)]

Drawn(q) == IF shape[q].list THEN UNION {ListsOf(q, n) : n \in InBounds(Length(q))} ELSE InBounds(Scalar(q))

\* magnitudes: the powers of two between the bounds, and the upper bound.
Magnitudes(p) ==
  LET lo == domains[p].lower
      hi == domains[p].upper
      last == Smaller(hi, MaxItems * One + lo)
  IN  IF hi < One THEN {hi}
      ELSE {n \in {One * 2^k : k \in 0 .. MaxItems} : lo <= n /\ n <= last} \cup ({hi} \ {Unlimited})

Varied(q) ==
  IF shape[q].list
  THEN UNION {ListsOf(q, n) : n \in (Magnitudes(Length(q)) \cup {domains[Length(q)].lower}) \cap InBounds(Length(q))}
  ELSE {Clamped(Scalar(q), Rounded(Scalar(q), n)) : n \in Magnitudes(Scalar(q)) \cup {domains[Scalar(q)].lower}}

-----------------------------------------------------------------------------
(* equal_parameter_groups: what a conjunct wants equal, never one arm of an *)
(* or, nor what is said of every item of a list.                            *)
Equates(c) ==
  /\ ~IsEither(c) /\ c.over = None /\ c.op = "=="
  /\ \A x \in {c.left, c.right} : IsPlace(x) /\ x.place[2] = "value"

Merge(label, c) ==
  IF Equates(c)
  THEN [q \in Scalars |-> IF label[q] = label[c.right.place[1]] THEN label[c.left.place[1]] ELSE label[q]]
  ELSE label

Merged(label, guard) ==
  LET after[k \in 0 .. Len(guard)] == IF k = 0 THEN label ELSE Merge(after[k - 1], guard[k])
  IN  after[Len(guard)]

Labels ==
  LET after[k \in 0 .. Len(predicates)] ==
        IF k = 0 THEN [q \in Scalars |-> q] ELSE Merged(after[k - 1], predicates[k])
  IN  after[Len(predicates)]

EqualGroups ==
  LET labels == Labels
  IN  {G \in {{q \in Scalars : labels[q] = r} : r \in Scalars} : Cardinality(G) > 1}

\* The narrowest float, else the first parameter, and the bounds that all share.
CommonType_bug(G) == shape[Min(G)].type
CommonType(G) ==
  LET floats == {q \in G : IsFloat(shape[q].type)}
  IN  IF floats = {} THEN shape[Min(G)].type
      ELSE shape[CHOOSE q \in floats : \A r \in floats : Width[shape[q].type] <= Width[shape[r].type]].type

Common(G) ==
  LET integral == \E q \in G : ~IsFloat(shape[q].type)
      lower == Max({domains[Scalar(q)].lower : q \in G})
      upper == Min({domains[Scalar(q)].upper : q \in G})
      t == CommonType(G)
  IN  [type |-> t, integral |-> integral,
       lower |-> ComparisonBound(IF integral THEN Ceil(lower) ELSE lower, t, TRUE, FALSE),
       upper |-> ComparisonBound(IF integral THEN Floor(upper) ELSE upper, t, FALSE, FALSE)]

Truncated(v) == IF v >= 0 THEN Floor(v) ELSE Ceil(v)

\* The value that all of them can have, for a sample.
Shared(sample, common) ==
  IF common.integral THEN Truncated(OfType(sample, common.type)) ELSE OfType(sample, common.type)

Samples(sample, G, common) ==
  CASE common.lower > common.upper -> {}
    [] common.lower <= sample /\ sample <= common.upper -> {sample}
    [] OTHER -> Within(Scalar(CHOOSE q \in G : shape[q].type = common.type), common.lower, common.upper)

\* The arguments that may come of args, with one value chosen for each group;
\* none when a group has no common value.
Couple(args, preferred) ==
  LET groups == EqualGroups
      common == [G \in groups |-> Common(G)]
      samples == [G \in groups |-> Samples(args[IF preferred \in G THEN preferred ELSE Min(G)], G, common[G])]
      groupOf(q) == CHOOSE G \in groups : q \in G
      chosen == {f \in [groups -> UNION {samples[G] : G \in groups}] : \A G \in groups : f[G] \in samples[G]}
  IN  {[q \in Parameters |-> IF q \in UNION groups
                             THEN Rounded(Scalar(q), Shared(f[groupOf(q)], common[groupOf(q)]))
                             ELSE args[q]] : f \in chosen}

-----------------------------------------------------------------------------
(* inputs, in its modes.                                                    *)
MayDraw == stage \in {"guard", "accepted"} /\ Comparisons <= MaxDrawn[shape]

Sample(coupled) ==
  \/ coupled = {} /\ stage' = "unequal" /\ arguments' = NoArguments
  \/ stage' = "sampled" /\ arguments' \in coupled

Draw ==
  /\ MayDraw /\ stage = "guard"
  /\ \E args \in Tuples([q \in Parameters |-> Drawn(q)]) : Sample(Couple(args, None))
  /\ UNCHANGED <<shape, predicates, domains>>

\* A kept input with one argument, or one item, drawn again.
Mutate ==
  /\ stage = "accepted"
  /\ \E q \in Parameters :
       IF ~shape[q].list THEN \E v \in InBounds(Scalar(q)) : Sample(Couple([arguments EXCEPT ![q] = v], q))
       ELSE \E i \in DOMAIN arguments[q], v \in InBounds(Item(q)) : Sample(Couple([arguments EXCEPT ![q][i] = v], q))
  /\ UNCHANGED <<shape, predicates, domains>>

\* The mode profile: each argument at one of its magnitudes or at its lower
\* bound, in more combinations than the code goes through.
Vary ==
  /\ MayDraw /\ stage = "guard"
  /\ arguments' \in Tuples([q \in Parameters |-> Varied(q)])
  /\ stage' = "varied"
  /\ UNCHANGED <<shape, predicates, domains>>

\* Another attempt is made, on an input that is not accepted.
Accept ==
  /\ stage \in {"sampled", "varied"}
  /\ stage' = IF Satisfies(arguments, predicates) THEN "accepted" ELSE "rejected"
  /\ UNCHANGED <<shape, predicates, domains, arguments>>

ReductionCandidates(q) ==
  LET original == arguments[q]
      zero == Clamped(Scalar(q), 0)
  IN  IF shape[q].list
      THEN {SubSeq(original, 1, k) : k \in {n \in 0 .. Len(original) - 1 :
                                               /\ n * One >= domains[Length(q)].lower
                                               /\ \E j \in 1 .. MaxItems : n = Len(original) \div 2^j}}
           \cup {[original EXCEPT ![i] = 0] : i \in {j \in DOMAIN original : original[j] # 0 /\ 0 \in InBounds(Item(q))}}
      ELSE IF original # 0 THEN {zero} ELSE {}

TryReduction ==
  /\ stage = "accepted"
  /\ \E q \in Parameters : \E v \in ReductionCandidates(q) :
       /\ arguments' = [arguments EXCEPT ![q] = v]
       /\ Satisfies(arguments', predicates)
  /\ UNCHANGED <<shape, stage, predicates, domains>>

(* validate_cases: what the text of a replay may hold for a parameter is    *)
(* checked against its bounds, and then rounded.                            *)
Written(p) ==
  LET t == TypeAt(p)
  IN  {n \in Domain(p).lower .. Domain(p).upper :
         domains[p].lower <= n /\ n <= domains[p].upper /\ (IsFloat(t) \/ n % One = 0)}

Captured(q) ==
  IF shape[q].list
  THEN UNION {[1 .. n \div One -> {Rounded(Item(q), v) : v \in Written(Item(q))}] : n \in InBounds(Length(q))}
  ELSE {Rounded(Scalar(q), v) : v \in Written(Scalar(q))}

Replay ==
  /\ MayDraw /\ stage = "guard"
  /\ arguments' \in Tuples([q \in Parameters |-> Captured(q)])
  /\ Satisfies(arguments', predicates)
  /\ stage' = "accepted"
  /\ UNCHANGED <<shape, predicates, domains>>

DomainsNext == AddGuard \/ Draw \/ Mutate \/ Vary \/ Accept \/ TryReduction \/ Replay

DomainsSpec == DomainsInit /\ [][DomainsNext]_domainsVars

-----------------------------------------------------------------------------
(* Every input of the types, with lists that have items.                    *)
ValuesOf(t) == IF IsFloat(t) THEN Grid[t] ELSE {n * One : n \in (Integral[t].lower \div One) .. (Integral[t].upper \div One)}

EveryInput ==
  [s \in Signatures |->
    Tuples([q \in DOMAIN s |-> IF s[q].list THEN UNION {[1 .. n -> ValuesOf(s[q].type)] : n \in 1 .. MaxItems}
                                            ELSE ValuesOf(s[q].type)])]

Fits(args) ==
  \A q \in Parameters :
    IF shape[q].list THEN /\ Len(args[q]) * One \in InBounds(Length(q))
                          /\ \A i \in DOMAIN args[q] : args[q][i] \in InBounds(Item(q))
                     ELSE args[q] \in InBounds(Scalar(q))

DomainsTypeOK ==
  /\ shape \in Signatures
  /\ stage \in {"guard", "empty", "cyclic", "sampled", "varied", "rejected", "unequal", "accepted"}
  /\ DOMAIN domains = Places
  /\ \A p \in Places : domains[p].lower \in Int /\ domains[p].upper \in Int
  /\ stage \in {"sampled", "varied", "accepted", "rejected"} => DOMAIN arguments = Parameters

(* No input that satisfies the guards is lost when they narrow the bounds,  *)
(* however the types round and whatever bounds what; and a function is      *)
(* refused for an empty domain, or while its guards are three comparisons   *)
(* for strict bounds in a circle, only when no input satisfies them.  (A    *)
(* list without items satisfies what is said of all of them, and constrain  *)
(* does not think of it; a constant that the items' type does not have is   *)
(* rounded for the bounds; nor are Rounds enough for every longer guard.)   *)
NarrowingLosesNothing ==
  predicates # <<>> /\ (stage \in {"guard", "empty"} \/ (stage = "cyclic" /\ Comparisons <= 3)) =>
    \A args \in EveryInput[shape] : Satisfies(args, predicates) => stage = "guard" /\ Fits(args)

(* Whatever is drawn, mutated, varied, reduced or replayed lies within the  *)
(* narrowed bounds of its types; parameters that a guard wants equal are    *)
(* equal in every sample, although their types round differently; and it is *)
(* given up for want of a common value only when no input satisfies.        *)
SamplesFit ==
  /\ stage \in {"sampled", "varied", "accepted"} => Fits(arguments)
  /\ stage = "sampled" => \A G \in EqualGroups : \A q, r \in G : arguments[q] = arguments[r]
  /\ stage = "unequal" => \A args \in EveryInput[shape] : ~Satisfies(args, predicates)
=============================================================================
