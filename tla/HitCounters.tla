---------------------------- MODULE HitCounters -----------------------------
(***************************************************************************)
(* The coverage counters of an instrumented program: RUNTIME and read_hits *)
(* of packaging/coverage.py.  The threads of the program count hits in an  *)
(* open-addressed table without locks; the table is a file mapped shared,  *)
(* so that what was counted survives a program that is killed at any       *)
(* moment.  The runner removes the file before the program starts and      *)
(* reads it once the program has ended.                                    *)
(*                                                                         *)
(* An identity is a hash; only its remainder by the number of slots        *)
(* matters.  Counts do not wrap.                                           *)
(***************************************************************************)
EXTENDS Naturals

CONSTANTS
  SlotCount,    \* SEV_COVERAGE_SLOTS
  Hitters,      \* threads of the program
  Identities,   \* of source points; 0 may be one
  MaxHits       \* bound on the hits of a behaviour

ASSUME HitCountersAssumption ==
  /\ SlotCount \in Nat /\ SlotCount > 1
  /\ Identities \subseteq Nat
  /\ MaxHits \in Nat

VARIABLES
  file,       \* "absent", "empty", "blank", "partial", "marked" or "ready"
  identity,   \* identity[i] and tally[i]: a struct counter
  tally,
  hit,        \* hit[h]: the call of __sev_coverage_hit that h is in, or NoHit
  begun,      \* number of calls
  counted,    \* history: counted[v] calls for v have added to a tally
  fate        \* "running", "ended", or exits 91, 92 and 93: "unopened", "unmapped", "full"

countersVars == <<file, identity, tally, hit, begun, counted, fate>>

TableSlots == 0 .. SlotCount - 1
NoHit == [value |-> 0, slot |-> 0, probes |-> 0, found |-> FALSE]
Hit(v, i, n, f) == [value |-> v, slot |-> i, probes |-> n, found |-> f]

CountersInit ==
  /\ file = "absent"
  /\ identity = [i \in TableSlots |-> 0]
  /\ tally = [i \in TableSlots |-> 0]
  /\ hit = [h \in Hitters |-> NoHit]
  /\ begun = 0
  /\ counted = [v \in Identities |-> 0]
  /\ fate = "running"

-----------------------------------------------------------------------------
Counting(h) == fate = "running" /\ hit[h] # NoHit

\* Slot zero is reserved for identity zero.
HomeSlot(v) == IF v = 0 THEN 0 ELSE 1 + (v % (SlotCount - 1))

CallHit(h, v) ==
  /\ fate = "running" /\ hit[h] = NoHit /\ begun < MaxHits
  /\ hit' = [hit EXCEPT ![h] = Hit(v, HomeSlot(v), 1, v = 0)]
  /\ begun' = begun + 1
  /\ UNCHANGED <<file, identity, tally, counted, fate>>

\* The file after each call of initialize(), and after the magic and the slots.
Following ==
  CASE file = "absent" -> "empty"
    [] file = "empty" -> "blank"
    [] file = "blank" -> "partial"
    [] file = "partial" -> "marked"
    [] file = "marked" -> "ready"

\* pthread_once: the first caller initializes while the others wait.
Initialize ==
  /\ \E h \in Hitters : Counting(h)
  /\ file # "ready"
  /\ file' = Following
  /\ UNCHANGED <<identity, tally, hit, begun, counted, fate>>

\* open or ftruncate fails, or mmap does.
InitializeFails ==
  /\ \E h \in Hitters : Counting(h)
  /\ \/ file \in {"absent", "empty"} /\ fate' = "unopened"
     \/ file = "blank" /\ fate' = "unmapped"
  /\ UNCHANGED <<file, identity, tally, hit, begun, counted>>

NextSlot(i) == IF i + 1 = SlotCount THEN 1 ELSE i + 1

\* Only an empty slot is taken: two threads that meet at a new identity give it two.
Owns_bug(v, i) == identity[i] = 0

\* The compare and exchange succeeds, or found the identity there already.
Owns(v, i) == identity[i] \in {0, v}

LastProbe(n) == n + 1 >= SlotCount

Probe(h) ==
  LET c == hit[h] IN
  /\ Counting(h) /\ file = "ready" /\ ~c.found
  /\ IF Owns(c.value, c.slot)
     THEN /\ identity' = [identity EXCEPT ![c.slot] = c.value]
          /\ hit' = [hit EXCEPT ![h].found = TRUE]
          /\ UNCHANGED fate
     ELSE /\ hit' = [hit EXCEPT ![h].slot = NextSlot(@), ![h].probes = @ + 1]
          /\ fate' = IF LastProbe(c.probes) THEN "full" ELSE fate
          /\ UNCHANGED identity
  /\ UNCHANGED <<file, tally, begun, counted>>

Add(h) ==
  LET c == hit[h] IN
  /\ Counting(h) /\ file = "ready" /\ c.found
  /\ tally' = [tally EXCEPT ![c.slot] = @ + 1]
  /\ counted' = [counted EXCEPT ![c.value] = @ + 1]
  /\ hit' = [hit EXCEPT ![h] = NoHit]
  /\ UNCHANGED <<file, identity, begun, fate>>

\* The program exits, crashes, or is killed at its deadline.
ProgramEnds ==
  /\ fate = "running"
  /\ fate' = "ended"
  /\ UNCHANGED <<file, identity, tally, hit, begun, counted>>

CountersNext ==
  \/ \E h \in Hitters : Probe(h) \/ Add(h) \/ \E v \in Identities : CallHit(h, v)
  \/ Initialize \/ InitializeFails \/ ProgramEnds

CountersSpec == CountersInit /\ [][CountersNext]_countersVars

-----------------------------------------------------------------------------
(* read_hits: a file without the whole magic is read as a list of           *)
(* identities, and that of a table that has just been created is zeros.     *)

Words == 2 + 2 * SlotCount
LastOf(S) == CHOOSE i \in S : \A j \in S : j <= i

\* Of two entries with one identity the dictionary keeps the last.
SlotsOf(v) == {i \in TableSlots : identity[i] = v /\ tally[i] > 0}

ReadHits(v) ==
  CASE file = "ready" -> IF SlotsOf(v) = {} THEN 0 ELSE tally[LastOf(SlotsOf(v))]
    [] file = "blank" /\ v = 0 -> Words
    [] file = "partial" /\ v = 0 -> Words - 1
    [] OTHER -> 0

CountersTypeOK ==
  /\ file \in {"absent", "empty", "blank", "partial", "marked", "ready"}
  /\ identity \in [TableSlots -> Identities \cup {0}]
  /\ tally \in [TableSlots -> Nat]
  /\ hit \in [Hitters -> [value : Identities \cup {0}, slot : TableSlots, probes : 0 .. SlotCount, found : BOOLEAN]]
  /\ begun \in 0 .. MaxHits
  /\ counted \in [Identities -> Nat]
  /\ fate \in {"running", "ended", "unopened", "unmapped", "full"}

(* However the program ends, what is read for a point is the number of its  *)
(* hits that were counted: threads that meet at a new identity, or in       *)
(* probing past each other, neither lose a hit nor give it to another       *)
(* point.  And it is stopped for want of a slot only when every slot holds  *)
(* another identity.                                                        *)
ReadIsExact == file = "ready" => \A v \in Identities : ReadHits(v) = counted[v]

StopsOnlyFull ==
  fate = "full" => \E h \in Hitters : /\ ~hit[h].found /\ hit[h] # NoHit
                                  /\ \A i \in TableSlots \ {0} : identity[i] \notin {0, hit[h].value}

CountsAreExact == ReadIsExact /\ StopsOnlyFull

(* "Interrupted counter initialization does not invent hits"                *)
(* (test_interrupted_counter_initialization_does_not_invent_hits,           *)
(* coverage.py:319).  The code reads the zeros that ftruncate has made as   *)
(* hits of identity zero when the magic is not there yet.                   *)
NothingInvented == fate # "running" => \A v \in Identities : ReadHits(v) <= counted[v]
=============================================================================
