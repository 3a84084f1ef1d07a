------------------------- MODULE CorrelationRanges -------------------------
(***************************************************************************)
(* Which request ids a CEX2 session has taken (Impl::AdmitCorrelation in   *)
(* Cex2Host.cpp): an ordered map from the first to the last id of each     *)
(* range, at most MaxRanges of them.  Cex2Host abstracts this map to the   *)
(* set of admitted ids.                                                    *)
(***************************************************************************)
EXTENDS Integers, FiniteSets

CONSTANTS
  MaxId,     \* the largest std::uint32_t
  MaxRanges  \* 4096

ASSUME ConstantsAssumption == MaxId \in Nat \ {0} /\ MaxRanges \in Nat

VARIABLES
  ranges,    \* admittedRanges
  admitted,  \* the ids that AdmitCorrelation returned true for
  open       \* the session is open; a refused id reaps it

vars == <<ranges, admitted, open>>

\* Submit refuses the id 0 before.
Ids == 1..MaxId

Init ==
  /\ ranges = <<>>
  /\ admitted = {}
  /\ open = TRUE

-----------------------------------------------------------------------------
\* The iterators around upper_bound(c)

IsPrevious(p, c) ==
  /\ p \in DOMAIN ranges /\ p <= c
  /\ \A d \in DOMAIN ranges : d <= c => d <= p

IsNext(n, c) ==
  /\ n \in DOMAIN ranges /\ n > c
  /\ \A d \in DOMAIN ranges : d > c => n <= d

\* The mutant takes the end of a range for free.
MutantRepeatedStrict(c) == \E p \in DOMAIN ranges : IsPrevious(p, c) /\ ranges[p] > c

Repeated(c) == \E p \in DOMAIN ranges : IsPrevious(p, c) /\ ranges[p] >= c

JoinsPrevious(p, c) == IsPrevious(p, c) /\ ranges[p] # MaxId /\ ranges[p] + 1 = c

JoinsNext(n, c) == IsNext(n, c) /\ c # MaxId /\ c + 1 = n

Apart(c) == \A d \in DOMAIN ranges : ~JoinsPrevious(d, c) /\ ~JoinsNext(d, c)

Refused(c) == Repeated(c) \/ (Apart(c) /\ Cardinality(DOMAIN ranges) >= MaxRanges)

-----------------------------------------------------------------------------
Admit(c) ==
  /\ open
  /\ ~Repeated(c)
  /\ admitted' = admitted \cup {c}
  /\ UNCHANGED open

\* The range before c ends just below it.
Extend(c) ==
  /\ Admit(c)
  /\ \A n \in DOMAIN ranges : ~JoinsNext(n, c)
  /\ \E p \in DOMAIN ranges : JoinsPrevious(p, c) /\ ranges' = [ranges EXCEPT ![p] = c]

\* The range that follows is left in the map.
MutantBridgeKeepsNext(c) ==
  /\ Admit(c)
  /\ \E p, n \in DOMAIN ranges :
       /\ JoinsPrevious(p, c) /\ JoinsNext(n, c)
       /\ ranges' = [ranges EXCEPT ![p] = ranges[n]]

\* c fills the gap between two ranges, which become one.
Bridge(c) ==
  /\ Admit(c)
  /\ \E p, n \in DOMAIN ranges :
       /\ JoinsPrevious(p, c) /\ JoinsNext(n, c)
       /\ ranges' = [d \in DOMAIN ranges \ {n} |-> IF d = p THEN ranges[n] ELSE ranges[d]]

\* The key of a map element cannot change, so the element is replaced; the
\* mutant forgets its end.
MutantPrependForgetsEnd(c) ==
  /\ Admit(c)
  /\ \A p \in DOMAIN ranges : ~JoinsPrevious(p, c)
  /\ \E n \in DOMAIN ranges :
       /\ JoinsNext(n, c)
       /\ ranges' = [d \in (DOMAIN ranges \ {n}) \cup {c} |-> IF d = c THEN n ELSE ranges[d]]

Prepend(c) ==
  /\ Admit(c)
  /\ \A p \in DOMAIN ranges : ~JoinsPrevious(p, c)
  /\ \E n \in DOMAIN ranges :
       /\ JoinsNext(n, c)
       /\ ranges' = [d \in (DOMAIN ranges \ {n}) \cup {c} |-> IF d = c THEN ranges[n] ELSE ranges[d]]

Insert(c) ==
  /\ Admit(c)
  /\ Apart(c)
  /\ Cardinality(DOMAIN ranges) < MaxRanges
  /\ ranges' = [d \in DOMAIN ranges \cup {c} |-> IF d = c THEN c ELSE ranges[d]]

\* Submit erases the session.
Reap(c) ==
  /\ open
  /\ Refused(c)
  /\ open' = FALSE
  /\ UNCHANGED <<ranges, admitted>>

Next == \E c \in Ids : Extend(c) \/ Bridge(c) \/ Prepend(c) \/ Insert(c) \/ Reap(c)

Spec == Init /\ [][Next]_vars

-----------------------------------------------------------------------------
\* The map has one element per maximal run of ids, within bounds.
TypeOK ==
  /\ open \in BOOLEAN
  /\ admitted \subseteq Ids
  /\ DOMAIN ranges \subseteq Ids
  /\ ranges = [d \in DOMAIN ranges |-> ranges[d]]
  /\ \A d \in DOMAIN ranges : ranges[d] \in d..MaxId

\* The elements neither overlap nor touch: sequential ids occupy one range, so a
\* well-behaved guest never comes near the limit (Cex2Host.cpp:241).
Separated == \A d, e \in DOMAIN ranges : d < e => ranges[d] + 1 < e

\* The compact history stands for exactly the ids that were admitted: none is
\* forgotten and none is blocked that was not used, at the largest id as well.
HistoryExact == \A i \in Ids : i \in admitted <=> \E d \in DOMAIN ranges : i \in d..ranges[d]

\* The reference definition: an id is refused if and only if it was used before,
\* or it touches no used id while MaxRanges runs of used ids exist.
Runs == {i \in admitted : i - 1 \notin admitted}

RefusalExact ==
  \A c \in Ids :
    Refused(c) <=>
      \/ c \in admitted
      \/ /\ c - 1 \notin admitted /\ c + 1 \notin admitted
         /\ Cardinality(Runs) >= MaxRanges
=============================================================================
