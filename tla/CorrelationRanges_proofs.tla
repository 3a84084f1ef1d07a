---------------------- MODULE CorrelationRanges_proofs ----------------------
(***************************************************************************)
(* Proofs about CorrelationRanges for every largest id and every limit.    *)
(*                                                                         *)
(* The inductive invariant is TypeOK, Separated and HistoryExact together: *)
(* an id next to a range is not in the history only because the ranges do  *)
(* not touch, and the range around upper_bound(c) is the only one that can *)
(* hold c or touch it for the same reason.                                 *)
(***************************************************************************)
EXTENDS CorrelationRanges, TLAPS

IInv == TypeOK /\ Separated /\ HistoryExact

\* The range at or before c is the only one that can hold c: an id is refused
\* as repeated if and only if the history holds it.
LEMMA RepeatedExact ==
  ASSUME IInv, NEW c \in Ids
  PROVE  Repeated(c) <=> c \in admitted
<1>1. ASSUME NEW p \in DOMAIN ranges, IsPrevious(p, c), ranges[p] >= c
      PROVE  c \in p..ranges[p]
  BY <1>1 DEF IInv, TypeOK, Ids, IsPrevious
<1>2. ASSUME NEW d \in DOMAIN ranges, c \in d..ranges[d]
      PROVE  IsPrevious(d, c) /\ ranges[d] >= c
  BY <1>2, ConstantsAssumption DEF IInv, TypeOK, Ids, Separated, IsPrevious
<1> QED
  BY <1>1, <1>2 DEF IInv, HistoryExact, Repeated

\* A free id joins the range before it if and only if its predecessor is used.
LEMMA JoinsPreviousExact ==
  ASSUME IInv, NEW c \in Ids, c \notin admitted
  PROVE  (\E p \in DOMAIN ranges : JoinsPrevious(p, c)) <=> c - 1 \in admitted
<1>1. ASSUME NEW p \in DOMAIN ranges, JoinsPrevious(p, c)
      PROVE  c - 1 \in Ids /\ c - 1 \in p..ranges[p]
  BY <1>1, ConstantsAssumption DEF IInv, TypeOK, Ids, JoinsPrevious
<1>2. ASSUME NEW d \in DOMAIN ranges, c - 1 \in d..ranges[d]
      PROVE  JoinsPrevious(d, c)
  <2>1. c \notin d..ranges[d]
    BY DEF IInv, HistoryExact
  <2>2. ranges[d] + 1 = c
    BY <1>2, <2>1, ConstantsAssumption DEF IInv, TypeOK, Ids
  <2> QED
    BY <2>2, ConstantsAssumption DEF IInv, TypeOK, Ids, Separated, JoinsPrevious, IsPrevious
<1>3. c - 1 \in admitted => c - 1 \in Ids
  BY DEF IInv, TypeOK
<1> QED
  BY <1>1, <1>2, <1>3 DEF IInv, HistoryExact

\* A free id joins the range after it if and only if its successor is used.
LEMMA JoinsNextExact ==
  ASSUME IInv, NEW c \in Ids, c \notin admitted
  PROVE  (\E n \in DOMAIN ranges : JoinsNext(n, c)) <=> c + 1 \in admitted
<1>1. ASSUME NEW n \in DOMAIN ranges, JoinsNext(n, c)
      PROVE  c + 1 \in Ids /\ c + 1 \in n..ranges[n]
  BY <1>1, ConstantsAssumption DEF IInv, TypeOK, Ids, JoinsNext
<1>2. ASSUME NEW d \in DOMAIN ranges, c + 1 \in d..ranges[d]
      PROVE  JoinsNext(d, c)
  <2>1. c \notin d..ranges[d]
    BY DEF IInv, HistoryExact
  <2>2. c + 1 = d /\ c # MaxId
    BY <1>2, <2>1, ConstantsAssumption DEF IInv, TypeOK, Ids
  <2> QED
    BY <2>2, ConstantsAssumption DEF IInv, TypeOK, Ids, JoinsNext, IsNext
<1>3. c + 1 \in admitted => c + 1 \in Ids
  BY DEF IInv, TypeOK
<1> QED
  BY <1>1, <1>2, <1>3 DEF IInv, HistoryExact

\* The map has one element for each maximal run of used ids.
LEMMA RangesAreRuns ==
  ASSUME IInv
  PROVE  DOMAIN ranges = Runs
<1>1. ASSUME NEW d \in DOMAIN ranges
      PROVE  d \in Runs
  <2>1. d \in Ids /\ d \in d..ranges[d]
    BY ConstantsAssumption DEF IInv, TypeOK, Ids
  <2>2. d \in admitted
    BY <2>1 DEF IInv, HistoryExact
  <2>3. ASSUME NEW e \in DOMAIN ranges
        PROVE  d - 1 \notin e..ranges[e]
    BY ConstantsAssumption DEF IInv, TypeOK, Ids, Separated
  <2>4. d - 1 \notin admitted
    BY <2>3 DEF IInv, TypeOK, HistoryExact
  <2> QED
    BY <2>2, <2>4 DEF Runs
<1>2. ASSUME NEW i \in admitted, i - 1 \notin admitted
      PROVE  i \in DOMAIN ranges
  <2>1. i \in Ids
    BY DEF IInv, TypeOK
  <2>2. PICK d \in DOMAIN ranges : i \in d..ranges[d]
    BY <2>1 DEF IInv, HistoryExact
  <2>3. CASE i = d
    BY <2>3
  <2>4. CASE i # d
    <3>1. i - 1 \in Ids /\ i - 1 \in d..ranges[d]
      BY <2>1, <2>2, <2>4, ConstantsAssumption DEF IInv, TypeOK, Ids
    <3> QED
      BY <3>1, <1>2 DEF IInv, HistoryExact
  <2> QED
    BY <2>3, <2>4
<1> QED
  BY <1>1, <1>2 DEF Runs

-----------------------------------------------------------------------------
LEMMA InitInvariant == Init => IInv
  BY ConstantsAssumption DEF Init, IInv, TypeOK, Separated, HistoryExact, Ids

LEMMA ExtendInvariant ==
  ASSUME IInv, NEW c \in Ids, Extend(c)
  PROVE  IInv'
<1>1. PICK p \in DOMAIN ranges : JoinsPrevious(p, c) /\ ranges' = [ranges EXCEPT ![p] = c]
  BY DEF Extend
<1>2. DOMAIN ranges' = DOMAIN ranges
  BY <1>1
<1>3. \A d \in DOMAIN ranges : ranges'[d] = IF d = p THEN c ELSE ranges[d]
  BY <1>1
<1>4. ranges[p] + 1 = c /\ p \in Ids /\ c \in Ids
  BY <1>1 DEF JoinsPrevious, IInv, TypeOK
<1>5. \A n \in DOMAIN ranges : n # c + 1
  <2>1. ASSUME NEW n \in DOMAIN ranges, n = c + 1
        PROVE  JoinsNext(n, c)
    BY <2>1, ConstantsAssumption DEF IInv, TypeOK, Ids, JoinsNext, IsNext
  <2> QED
    BY <2>1 DEF Extend
<1>6. TypeOK'
  <2>1. ranges' = [d \in DOMAIN ranges' |-> ranges'[d]]
    BY <1>1
  <2>2. \A d \in DOMAIN ranges' : ranges'[d] \in d..MaxId
    BY <1>2, <1>3, <1>4, ConstantsAssumption DEF IInv, TypeOK, Ids
  <2> QED
    BY <1>2, <2>1, <2>2 DEF IInv, TypeOK, Extend, Admit
<1>7. Separated'
  BY <1>2, <1>3, <1>4, <1>5, ConstantsAssumption DEF IInv, TypeOK, Separated, Ids
<1>8. HistoryExact'
  BY <1>2, <1>3, <1>4, ConstantsAssumption DEF IInv, TypeOK, HistoryExact, Extend, Admit, Ids
<1> QED
  BY <1>6, <1>7, <1>8 DEF IInv

LEMMA BridgeInvariant ==
  ASSUME IInv, NEW c \in Ids, Bridge(c)
  PROVE  IInv'
<1>1. PICK p, n \in DOMAIN ranges :
        /\ JoinsPrevious(p, c) /\ JoinsNext(n, c)
        /\ ranges' = [d \in DOMAIN ranges \ {n} |-> IF d = p THEN ranges[n] ELSE ranges[d]]
  BY DEF Bridge
<1>2. DOMAIN ranges' = DOMAIN ranges \ {n}
  BY <1>1
<1>3. \A d \in DOMAIN ranges' : ranges'[d] = IF d = p THEN ranges[n] ELSE ranges[d]
  BY <1>1
<1>4. /\ ranges[p] + 1 = c /\ c + 1 = n
      /\ p \in Ids /\ n \in Ids /\ p \in DOMAIN ranges' /\ p < c
      /\ ranges[p] \in p..MaxId /\ ranges[n] \in n..MaxId
  BY <1>1, <1>2, ConstantsAssumption DEF JoinsPrevious, JoinsNext, IsPrevious, IInv, TypeOK, Ids
<1>5. TypeOK'
  BY <1>1, <1>2, <1>3, <1>4, ConstantsAssumption DEF IInv, TypeOK, Bridge, Admit, Ids
<1>6. Separated'
  BY <1>2, <1>3, <1>4, ConstantsAssumption DEF IInv, TypeOK, Separated, Ids
<1>7. HistoryExact'
  BY <1>2, <1>3, <1>4, ConstantsAssumption DEF IInv, TypeOK, HistoryExact, Bridge, Admit, Ids
<1> QED
  BY <1>5, <1>6, <1>7 DEF IInv

LEMMA PrependInvariant ==
  ASSUME IInv, NEW c \in Ids, Prepend(c)
  PROVE  IInv'
<1>1. PICK n \in DOMAIN ranges :
        /\ JoinsNext(n, c)
        /\ ranges' = [d \in (DOMAIN ranges \ {n}) \cup {c} |-> IF d = c THEN ranges[n] ELSE ranges[d]]
  BY DEF Prepend
<1>2. DOMAIN ranges' = (DOMAIN ranges \ {n}) \cup {c}
  BY <1>1
<1>3. \A d \in DOMAIN ranges' : ranges'[d] = IF d = c THEN ranges[n] ELSE ranges[d]
  BY <1>1
<1>4. c \notin admitted
  BY RepeatedExact DEF Prepend, Admit
<1>5. /\ c + 1 = n /\ n \in Ids /\ ranges[n] \in n..MaxId
      /\ c - 1 \notin admitted
  BY <1>1, <1>4, JoinsPreviousExact, ConstantsAssumption DEF Prepend, JoinsNext, IInv, TypeOK, Ids
<1>6. \A d \in DOMAIN ranges : c \notin d..ranges[d] /\ c - 1 \notin d..ranges[d]
  <2>1. ASSUME NEW d \in DOMAIN ranges, c - 1 \in d..ranges[d]
        PROVE  c - 1 \in admitted
    BY <2>1, ConstantsAssumption DEF IInv, TypeOK, HistoryExact, Ids
  <2> QED
    BY <2>1, <1>4, <1>5 DEF IInv, HistoryExact
<1>7. TypeOK'
  BY <1>1, <1>2, <1>3, <1>5, ConstantsAssumption DEF IInv, TypeOK, Prepend, Admit, Ids
<1>8. Separated'
  BY <1>2, <1>3, <1>5, <1>6, ConstantsAssumption DEF IInv, TypeOK, Separated, Ids
<1>9. HistoryExact'
  <2>1. admitted' = admitted \cup {c}
    BY DEF Prepend, Admit
  <2>2. ASSUME NEW i \in Ids, i \in admitted'
        PROVE  \E d \in DOMAIN ranges' : i \in d..ranges'[d]
    <3>1. CASE i = c
      BY <3>1, <1>2, <1>3, <1>5, ConstantsAssumption DEF Ids
    <3>2. CASE i # c
      <4>1. PICK d \in DOMAIN ranges : i \in d..ranges[d]
        BY <2>1, <2>2, <3>2 DEF IInv, HistoryExact
      <4>2. CASE d = n
        BY <4>1, <4>2, <1>2, <1>3, <1>5, ConstantsAssumption DEF Ids
      <4>3. CASE d # n
        <5>1. d # c
          BY <1>6, ConstantsAssumption DEF IInv, TypeOK, Ids
        <5> QED
          BY <4>1, <4>3, <5>1, <1>2, <1>3
      <4> QED
        BY <4>2, <4>3
    <3> QED
      BY <3>1, <3>2
  <2>3. ASSUME NEW i \in Ids, NEW d \in DOMAIN ranges', i \in d..ranges'[d]
        PROVE  i \in admitted'
    <3>1. CASE d = c
      <4>1. i = c \/ i \in n..ranges[n]
        BY <2>3, <3>1, <1>3, <1>5, ConstantsAssumption DEF Ids
      <4> QED
        BY <4>1, <2>1, <1>1 DEF IInv, HistoryExact
    <3>2. CASE d # c
      BY <2>1, <2>3, <3>2, <1>2, <1>3 DEF IInv, HistoryExact
    <3> QED
      BY <3>1, <3>2
  <2> QED
    BY <2>2, <2>3 DEF HistoryExact, Ids
<1> QED
  BY <1>7, <1>8, <1>9 DEF IInv

LEMMA InsertInvariant ==
  ASSUME IInv, NEW c \in Ids, Insert(c)
  PROVE  IInv'
<1>1. DOMAIN ranges' = DOMAIN ranges \cup {c}
  BY DEF Insert
<1>2. \A d \in DOMAIN ranges' : ranges'[d] = IF d = c THEN c ELSE ranges[d]
  BY DEF Insert
<1>3. c \notin admitted
  BY RepeatedExact DEF Insert, Admit
<1>4. c - 1 \notin admitted /\ c + 1 \notin admitted
  BY <1>3, JoinsPreviousExact, JoinsNextExact DEF Insert, Apart
<1>5. \A d \in DOMAIN ranges : \A i \in {c - 1, c, c + 1} : i \notin d..ranges[d]
  <2>1. ASSUME NEW d \in DOMAIN ranges, NEW i \in {c - 1, c, c + 1}, i \in d..ranges[d]
        PROVE  i \in admitted
    BY <2>1, ConstantsAssumption DEF IInv, TypeOK, HistoryExact, Ids
  <2> QED
    BY <2>1, <1>3, <1>4
<1>6. TypeOK'
  BY <1>1, <1>2, ConstantsAssumption DEF IInv, TypeOK, Insert, Admit, Ids
<1>7. Separated'
  BY <1>1, <1>2, <1>5, ConstantsAssumption DEF IInv, TypeOK, Separated, Ids
<1>8. HistoryExact'
  <2>1. admitted' = admitted \cup {c}
    BY DEF Insert, Admit
  <2>2. c \notin DOMAIN ranges
    BY <1>5, ConstantsAssumption DEF IInv, TypeOK, Ids
  <2>3. ASSUME NEW i \in Ids
        PROVE  (\E d \in DOMAIN ranges' : i \in d..ranges'[d])
                 <=> i = c \/ \E d \in DOMAIN ranges : i \in d..ranges[d]
    BY <1>1, <1>2, <2>2 DEF Ids
  <2> QED
    BY <2>1, <2>3 DEF IInv, HistoryExact, Ids
<1> QED
  BY <1>6, <1>7, <1>8 DEF IInv

\* The inductive invariant.
THEOREM Invariant == Spec => []IInv
<1>1. ASSUME IInv, [Next]_vars
      PROVE  IInv'
  <2>1. ASSUME NEW c \in Ids, Reap(c)
        PROVE  IInv'
    BY <1>1, <2>1 DEF Reap, IInv, TypeOK, Separated, HistoryExact, Ids
  <2>2. CASE UNCHANGED vars
    BY <1>1, <2>2 DEF vars, IInv, TypeOK, Separated, HistoryExact, Ids
  <2> QED
    BY <1>1, <2>1, <2>2, ExtendInvariant, BridgeInvariant, PrependInvariant,
       InsertInvariant DEF Next
<1> QED
  BY <1>1, InitInvariant, PTL DEF Spec

\* The map always is one of ranges of ids (the map in Session).
THEOREM TypeCorrect == Spec => []TypeOK
  BY Invariant, PTL DEF IInv

\* Sequential ids share a range: ranges neither overlap nor touch.
THEOREM RangesSeparated == Spec => []Separated
  BY Invariant, PTL DEF IInv

\* The ranges hold exactly the ids that AdmitCorrelation has accepted.
THEOREM HistoryCorrect == Spec => []HistoryExact
  BY Invariant, PTL DEF IInv

\* AdmitCorrelation refuses exactly the ids its reference definition refuses,
\* for every width of the id and every limit.
THEOREM RefusalCorrect == Spec => []RefusalExact
<1>1. ASSUME IInv
      PROVE  RefusalExact
  <2>1. ASSUME NEW c \in Ids, c \notin admitted
        PROVE  Apart(c) <=> (c - 1 \notin admitted /\ c + 1 \notin admitted)
    BY <1>1, <2>1, JoinsPreviousExact, JoinsNextExact DEF Apart
  <2>2. Cardinality(DOMAIN ranges) = Cardinality(Runs)
    BY <1>1, RangesAreRuns
  <2> QED
    BY <1>1, <2>1, <2>2, RepeatedExact DEF RefusalExact, Refused
<1> QED
  BY <1>1, Invariant, PTL
=============================================================================
