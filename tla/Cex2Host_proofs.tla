--------------------------- MODULE Cex2Host_proofs ---------------------------
(***************************************************************************)
(* Proofs about Cex2Host for any owners, correlation ids and bounds.       *)
(*                                                                         *)
(* What the host keeps in one session is well formed by itself: Sound is a *)
(* predicate of a session record that every operation on one preserves, so *)
(* the first part of the module is about session records as values, and a  *)
(* step of the host is sound when what it writes is.  The second part,     *)
(* Stage and after, shows that the host implements Cex2Contract, the third *)
(* KindOf and after, that a capture which waits has its request pending.   *)
(***************************************************************************)
EXTENDS Cex2Host, FiniteSetTheorems, SequenceTheorems, TLAPS

Captures == [handle : Correlations \cup {NoCorrelation}, pending : BOOLEAN]

\* Events, and only events, answer no request.
Labelled(x) ==
  \A i \in DOMAIN x.responses :
    x.responses[i].kind = "event" <=> x.responses[i].correlation = NoCorrelation

\* What QueueBounded says of one session.
Bounded(x) ==
  /\ x.reserved = Cardinality(DOMAIN x.pending)
  /\ Len(x.responses) + x.reserved <= MaxQueue

\* What ExactlyOnce says of one session.
Placed(x) ==
  /\ x.admitted = DOMAIN x.pending \cup Answered(x) \cup x.delivered
  /\ DOMAIN x.pending \cap Answered(x) = {}
  /\ x.delivered \cap (DOMAIN x.pending \cup Answered(x)) = {}
  /\ \A i, j \in DOMAIN x.responses :
       x.responses[i].correlation = x.responses[j].correlation =>
         i = j \/ x.responses[i].kind = "event"

\* The clipboard flag is set exactly while one request is pending.
Flagged(x) ==
  /\ \A c, d \in DOMAIN x.pending :
       x.pending[c].kind = "clipboard" /\ x.pending[d].kind = "clipboard" => c = d
  /\ x.clipboardPending <=> \E c \in DOMAIN x.pending : x.pending[c].kind = "clipboard"

Sound(x) == x \in SessionRecords /\ Labelled(x) /\ Bounded(x) /\ Placed(x) /\ Flagged(x)

-----------------------------------------------------------------------------
\* Sequences without repetition

\* The requests q of a table can be answered in this order.
Answerable(x, q) ==
  /\ q \in Seq(DOMAIN x.pending)
  /\ \A i, j \in DOMAIN q : q[i] = q[j] => i = j

LEMMA CountDistinct ==
  ASSUME NEW D, IsFiniteSet(D), NEW q \in Seq(D), \A i, j \in DOMAIN q : q[i] = q[j] => i = j
  PROVE  /\ Elements(q) \subseteq D
         /\ Cardinality(Elements(q)) = Len(q)
         /\ Cardinality(D \ Elements(q)) = Cardinality(D) - Len(q)
         /\ Len(q) <= Cardinality(D)
<1>1. q \in [1..Len(q) -> D] /\ Len(q) \in Nat /\ DOMAIN q = 1..Len(q)
  BY LenProperties
<1>2. Elements(q) \subseteq D
  BY <1>1 DEF Elements
<1>3. q \in Bijection(1..Len(q), Elements(q))
  <2>1. q \in [1..Len(q) -> Elements(q)] /\ \A e \in Elements(q) : \E i \in 1..Len(q) : q[i] = e
    BY <1>1 DEF Elements
  <2>2. IsInjective(q)
    BY <1>1 DEF IsInjective
  <2> QED
    BY <2>1, <2>2 DEF Bijection, Injection, Surjection
<1>4. Cardinality(Elements(q)) = Len(q)
  BY <1>1, <1>3, FS_CountingElements DEF ExistsBijection
<1>5. D \cap Elements(q) = Elements(q)
  BY <1>2
<1>6. Cardinality(D \ Elements(q)) = Cardinality(D) - Len(q)
  <2>1. Cardinality(D \ Elements(q)) = Cardinality(D) - Cardinality(D \cap Elements(q))
    BY FS_Difference
  <2> QED
    BY <2>1, <1>4, <1>5
<1>7. Len(q) <= Cardinality(D)
  BY <1>2, <1>4, FS_Subset
<1> QED
  BY <1>2, <1>4, <1>6, <1>7

\* An order of a finite set is a sequence of all its elements, each once.
LEMMA OrderOfSet ==
  ASSUME NEW S, IsFiniteSet(S), NEW q \in Orders(S)
  PROVE  /\ q \in Seq(S)
         /\ \A i, j \in DOMAIN q : q[i] = q[j] => i = j
         /\ Elements(q) = S
<1>1. Cardinality(S) \in Nat
  BY FS_CardinalityType
<1>2. q \in [1..Cardinality(S) -> S] /\ \A i, j \in DOMAIN q : q[i] = q[j] => i = j
  BY DEF Orders
<1>3. q \in Seq(S) /\ Len(q) = Cardinality(S)
  BY <1>1, <1>2
<1>4. Elements(q) \in SUBSET S /\ Cardinality(Elements(q)) = Cardinality(S)
  BY <1>2, <1>3, CountDistinct
<1>5. Elements(q) = S
  BY <1>4, FS_Subset
<1> QED
  BY <1>2, <1>3, <1>5

\* InOrder enumerates a set of positions: each once, none left out.
LEMMA InOrderEnumerates ==
  ASSUME NEW n \in Nat, NEW K \in SUBSET (1..n)
  PROVE  /\ IsFiniteSet(K) /\ Cardinality(K) \in Nat /\ Cardinality(K) <= n
         /\ InOrder(K) \in [1..Cardinality(K) -> K]
         /\ \A m, l \in 1..Cardinality(K) : InOrder(K)[m] = InOrder(K)[l] => m = l
         /\ \A i \in K : \E m \in 1..Cardinality(K) : InOrder(K)[m] = i
<1> DEFINE below(i) == {j \in K : j <= i}
           rank == [i \in K |-> Cardinality(below(i))]
           size == Cardinality(K)
<1>1. IsFiniteSet(1..n) /\ Cardinality(1..n) = n
  BY FS_Interval
<1>2. IsFiniteSet(K) /\ size \in Nat /\ size <= n
  BY <1>1, FS_Subset, FS_CardinalityType
<1>3. \A i \in K : IsFiniteSet(below(i)) /\ below(i) \in SUBSET K /\ Cardinality(below(i)) \in 1..size
  <2> TAKE i \in K
  <2>1. below(i) \in SUBSET K /\ i \in below(i)
    OBVIOUS
  <2>2. IsFiniteSet(below(i)) /\ Cardinality(below(i)) <= size /\ Cardinality(below(i)) \in Nat
    BY <1>2, <2>1, FS_Subset, FS_CardinalityType
  <2>3. Cardinality(below(i)) # 0
    BY <2>1, <2>2, FS_EmptySet
  <2> QED
    BY <2>1, <2>2, <2>3, <1>2
<1>4. ASSUME NEW i \in K, NEW j \in K, i < j
      PROVE  rank[i] # rank[j]
  <2>1. below(i) \in SUBSET below(j) /\ j \in below(j) /\ j \notin below(i)
    <3>1. \A k \in K : k \in Int
      OBVIOUS
    <3>2. \A k \in K : k <= i => k <= j
      BY <3>1, <1>4
    <3>3. ~(j <= i) /\ j <= j
      BY <3>1, <1>4
    <3>4. below(i) \subseteq below(j)
      BY <3>2
    <3> QED
      BY <3>3, <3>4
  <2>2. Cardinality(below(i)) # Cardinality(below(j))
    BY <2>1, <1>3, FS_Subset
  <2> QED
    BY <2>2
<1>5. \A i, j \in K : rank[i] = rank[j] => i = j
  BY <1>4
<1>6. rank \in Injection(K, 1..size)
  <2>1. rank \in [K -> 1..size]
    BY <1>3
  <2>2. IsInjective(rank)
    BY <1>5 DEF IsInjective
  <2> QED
    BY <2>1, <2>2 DEF Injection
<1>7. rank \in Surjection(K, 1..size)
  <2>1. IsFiniteSet(1..size) /\ Cardinality(1..size) = size
    BY <1>2, FS_Interval
  <2> QED
    BY <1>6, <2>1, FS_Injection
<1>8. \A m \in 1..size : \E i \in K : Cardinality(below(i)) = m
  BY <1>7 DEF Surjection
<1>9. \A m \in 1..size : InOrder(K)[m] \in K /\ rank[InOrder(K)[m]] = m
  <2> TAKE m \in 1..size
  <2>1. InOrder(K)[m] = CHOOSE i \in K : Cardinality(below(i)) = m
    BY DEF InOrder
  <2>2. \E i \in K : Cardinality(below(i)) = m
    BY <1>8
  <2>3. InOrder(K)[m] \in K /\ Cardinality(below(InOrder(K)[m])) = m
    BY <2>1, <2>2
  <2> QED
    BY <2>3
<1>10. \A i \in K : rank[i] \in 1..size /\ InOrder(K)[rank[i]] = i
  BY <1>3, <1>5, <1>9
<1>11. InOrder(K) \in [1..size -> K]
  <2>1. InOrder(K) = [m \in 1..size |-> CHOOSE i \in K : Cardinality(below(i)) = m]
    BY DEF InOrder
  <2>2. \A m \in 1..size : (CHOOSE i \in K : Cardinality(below(i)) = m) \in K
    BY <1>8
  <2> QED
    BY <2>1, <2>2
<1> QED
  BY <1>2, <1>9, <1>10, <1>11
-----------------------------------------------------------------------------
\* Session records as values

Requested == [kind : AllKinds, expired : BOOLEAN]

LEMMA Fields ==
  ASSUME NEW x \in SessionRecords
  PROVE  /\ x.owner \in Owners /\ x.responses \in Seq(Responses) /\ x.reserved \in Nat
         /\ DOMAIN x.pending \in SUBSET Correlations /\ IsFiniteSet(DOMAIN x.pending)
         /\ x.pending = [d \in DOMAIN x.pending |-> x.pending[d]]
         /\ \A d \in DOMAIN x.pending :
              /\ x.pending[d] \in Requested
              /\ x.pending[d].kind \in AllKinds /\ x.pending[d].expired \in BOOLEAN
         /\ x.admitted \in SUBSET Correlations /\ x.delivered \in SUBSET Correlations
         /\ x.subscribed \in BOOLEAN /\ x.clipboardPending \in BOOLEAN
         /\ x.capture \in Captures
<1>1. /\ x.owner \in Owners /\ x.responses \in Seq(Responses) /\ x.reserved \in Nat
      /\ x.pending \in PendingTables
      /\ x.admitted \in SUBSET Correlations /\ x.delivered \in SUBSET Correlations
      /\ x.subscribed \in BOOLEAN /\ x.clipboardPending \in BOOLEAN
      /\ x.capture \in Captures
  BY DEF SessionRecords, Captures
<1>2. PICK S \in SUBSET Correlations : x.pending \in [S -> Requested]
  BY <1>1 DEF PendingTables, Requested
<1>3. IsFiniteSet(S)
  BY ConstantsAssumption, FS_Subset
<1>4. DOMAIN x.pending = S /\ x.pending = [d \in S |-> x.pending[d]] /\ \A d \in S : x.pending[d] \in Requested
  BY <1>2
<1>5. \A r \in Requested : r.kind \in AllKinds /\ r.expired \in BOOLEAN
  BY DEF Requested
<1> QED
  BY <1>1, <1>3, <1>4, <1>5

LEMMA Table ==
  ASSUME NEW S \in SUBSET Correlations, NEW f \in [S -> Requested]
  PROVE  f \in PendingTables
  BY DEF PendingTables, Requested

LEMMA ResponseFields ==
  ASSUME NEW c \in Correlations \cup {NoCorrelation}, NEW kind \in AllKinds \cup {"event"},
         NEW status \in Statuses
  PROVE  /\ Response(c, kind, status) \in Responses
         /\ Response(c, kind, status).correlation = c
         /\ Response(c, kind, status).kind = kind
         /\ Response(c, kind, status).status = status
  BY DEF Response, Responses

\* What Settle leaves of the other fields.
LEMMA SettleFields ==
  ASSUME NEW x \in SessionRecords, NEW q, NEW status, NEW capture
  PROVE  LET y == Settle(x, q, status, capture) IN
         /\ y.reserved = x.reserved - Len(q)
         /\ y.clipboardPending = (x.clipboardPending /\ \A c \in Elements(q) : x.pending[c].kind # "clipboard")
         /\ y.capture = capture
         /\ y.owner = x.owner /\ y.admitted = x.admitted /\ y.delivered = x.delivered
         /\ y.subscribed = x.subscribed
  BY DEF Settle, SessionRecords

\* A session of which every field is typed is typed.
LEMMA SettleRecord ==
  ASSUME NEW x \in SessionRecords, NEW q, NEW status, NEW capture \in Captures,
         Settle(x, q, status, capture).responses \in Seq(Responses),
         Settle(x, q, status, capture).pending \in PendingTables,
         Settle(x, q, status, capture).reserved \in Nat,
         Settle(x, q, status, capture).clipboardPending \in BOOLEAN
  PROVE  Settle(x, q, status, capture) \in SessionRecords
<1> DEFINE y == Settle(x, q, status, capture)
<1>1. y = [x EXCEPT !.responses = y.responses, !.pending = y.pending,
                    !.reserved = y.reserved, !.clipboardPending = y.clipboardPending,
                    !.capture = capture]
  BY DEF Settle, SessionRecords
<1> HIDE DEF y
<1>2. /\ y.responses \in Seq(Responses) /\ y.pending \in PendingTables /\ y.reserved \in Nat
      /\ y.clipboardPending \in BOOLEAN
  BY DEF y
<1>3. y \in SessionRecords
  BY <1>1, <1>2 DEF SessionRecords, Captures
<1> QED
  BY <1>3 DEF y

\* The queue that Settle leaves: the old one, then one response per request of q.
LEMMA SettleResponses ==
  ASSUME NEW x \in SessionRecords, NEW q, Answerable(x, q), NEW status \in Statuses, NEW capture
  PROVE  LET old == x.responses
             new == Settle(x, q, status, capture).responses IN
         /\ new \in Seq(Responses) /\ Len(new) = Len(old) + Len(q)
         /\ Len(q) \in Nat /\ DOMAIN q = 1..Len(q) /\ Len(old) \in Nat /\ DOMAIN old = 1..Len(old)
         /\ DOMAIN new = 1..(Len(old) + Len(q))
         /\ \A i \in DOMAIN old : new[i] = old[i]
         /\ \A i \in DOMAIN q :
              /\ q[i] \in DOMAIN x.pending /\ q[i] \in Correlations
              /\ new[Len(old) + i] = Response(q[i], x.pending[q[i]].kind, status)
         /\ \A i \in DOMAIN new :
              i \in DOMAIN old \/ \E j \in DOMAIN q : i = Len(old) + j
<1> DEFINE old == x.responses
           r == [i \in DOMAIN q |-> Response(q[i], x.pending[q[i]].kind, status)]
           new == Settle(x, q, status, capture).responses
<1>1. /\ Len(q) \in Nat /\ DOMAIN q = 1..Len(q) /\ \A i \in DOMAIN q : q[i] \in DOMAIN x.pending
  BY DEF Answerable
<1>2. \A i \in DOMAIN q : q[i] \in Correlations /\ x.pending[q[i]].kind \in AllKinds
  BY <1>1, Fields
<1>3. \A i \in DOMAIN q : r[i] = Response(q[i], x.pending[q[i]].kind, status) /\ r[i] \in Responses
  BY <1>2, ResponseFields
<1>4. r \in Seq(Responses) /\ Len(r) = Len(q) /\ DOMAIN r = DOMAIN q
  BY <1>1, <1>3
<1>5. old \in Seq(Responses) /\ Len(old) \in Nat /\ DOMAIN old = 1..Len(old)
  <2>1. old \in Seq(Responses)
    BY Fields
  <2> QED
    BY <2>1, LenProperties
<1>6. new = old \o r
  BY DEF Settle, SessionRecords
<1> HIDE DEF r, new
<1>7. /\ new \in Seq(Responses) /\ Len(new) = Len(old) + Len(q)
      /\ \A i \in 1..(Len(old) + Len(q)) : new[i] = IF i <= Len(old) THEN old[i] ELSE r[i - Len(old)]
  <2>1. /\ old \o r \in Seq(Responses) /\ Len(old \o r) = Len(old) + Len(r)
        /\ \A i \in 1..(Len(old) + Len(r)) : (old \o r)[i] = IF i <= Len(old) THEN old[i] ELSE r[i - Len(old)]
    <3> HIDE DEF old
    <3> QED
      BY <1>4, <1>5, ConcatProperties, Zenon
  <2> QED
    BY <2>1, <1>4, <1>6
<1>8. DOMAIN new = 1..(Len(old) + Len(q))
  BY <1>7
<1>9. ASSUME NEW i \in DOMAIN q
      PROVE  new[Len(old) + i] = r[i]
  <2>1. Len(old) + i \in 1..(Len(old) + Len(q)) /\ ~(Len(old) + i <= Len(old)) /\ (Len(old) + i) - Len(old) = i
    BY <1>1, <1>5
  <2> QED
    BY <2>1, <1>7
<1>10. \A i \in DOMAIN old : i \in 1..(Len(old) + Len(q)) /\ i <= Len(old)
  BY <1>1, <1>5
<1>11. ASSUME NEW i \in DOMAIN new
       PROVE  i \in DOMAIN old \/ \E j \in DOMAIN q : i = Len(old) + j
  <2>1. i \in DOMAIN old \/ (i - Len(old) \in DOMAIN q /\ i = Len(old) + (i - Len(old)))
    BY <1>1, <1>5, <1>8
  <2> QED
    BY <2>1
<1> QED
  BY <1>1, <1>2, <1>3, <1>5, <1>7, <1>8, <1>9, <1>10, <1>11 DEF new

LEMMA SettleTyped ==
  ASSUME NEW x, Sound(x), NEW q, Answerable(x, q), NEW status \in Statuses, NEW capture \in Captures
  PROVE  LET y == Settle(x, q, status, capture) IN
         /\ y \in SessionRecords /\ Bounded(y)
         /\ DOMAIN y.pending = DOMAIN x.pending \ Elements(q)
         /\ Elements(q) \in SUBSET DOMAIN x.pending
         /\ \A d \in DOMAIN y.pending : y.pending[d] = x.pending[d]
<1> DEFINE y == Settle(x, q, status, capture)
<1>1. x \in SessionRecords /\ Bounded(x)
  BY DEF Sound
<1>2. IsFiniteSet(DOMAIN x.pending) /\ DOMAIN x.pending \in SUBSET Correlations
      /\ \A d \in DOMAIN x.pending : x.pending[d] \in Requested
  BY <1>1, Fields
<1>3. /\ Elements(q) \in SUBSET DOMAIN x.pending
      /\ Cardinality(DOMAIN x.pending \ Elements(q)) = Cardinality(DOMAIN x.pending) - Len(q)
      /\ Len(q) <= Cardinality(DOMAIN x.pending)
  BY <1>2, CountDistinct DEF Answerable
<1>4. y.pending = [d \in DOMAIN x.pending \ Elements(q) |-> x.pending[d]]
  BY <1>1 DEF Settle, SessionRecords
<1>5. y.pending \in PendingTables
  BY <1>2, <1>4, Table
<1>6. /\ y.reserved = x.reserved - Len(q) /\ x.reserved = Cardinality(DOMAIN x.pending)
      /\ x.reserved \in Nat /\ Len(q) \in Nat
  <2>1. y.reserved = x.reserved - Len(q)
    BY <1>1, SettleFields
  <2>2. Len(q) \in Nat
    BY DEF Answerable
  <2>3. x.reserved \in Nat
    BY <1>1, Fields
  <2> QED
    BY <1>1, <2>1, <2>2, <2>3 DEF Bounded
<1>7. y.reserved \in Nat /\ y.reserved = Cardinality(DOMAIN y.pending)
  BY <1>3, <1>4, <1>6
<1>8. y.responses \in Seq(Responses) /\ Len(y.responses) = Len(x.responses) + Len(q)
      /\ Len(x.responses) \in Nat
  BY <1>1, SettleResponses
<1>9. y.clipboardPending \in BOOLEAN
  BY <1>1 DEF Settle, SessionRecords
<1>10. y \in SessionRecords
  BY <1>1, <1>5, <1>7, <1>8, <1>9, SettleRecord
<1>11. Len(y.responses) + y.reserved = Len(x.responses) + x.reserved
  BY <1>6, <1>8
<1>12. Bounded(y)
  BY <1>1, <1>7, <1>11 DEF Bounded
<1> QED
  BY <1>3, <1>4, <1>10, <1>12
\* Requests that are answered leave the table for the queue.
LEMMA SettlePlaced ==
  ASSUME NEW x, Sound(x), NEW q, Answerable(x, q), NEW status \in Statuses, NEW capture \in Captures
  PROVE  LET y == Settle(x, q, status, capture) IN
         /\ Answered(y) = Answered(x) \cup Elements(q)
         /\ Labelled(y) /\ Placed(y)
<1> DEFINE y == Settle(x, q, status, capture)
           old == x.responses
           new == y.responses
<1>1. x \in SessionRecords /\ Labelled(x) /\ Placed(x)
  BY DEF Sound
<1>2. /\ y.admitted = x.admitted /\ y.delivered = x.delivered
      /\ DOMAIN y.pending = DOMAIN x.pending \ Elements(q)
      /\ Elements(q) \in SUBSET DOMAIN x.pending
  BY <1>1, SettleFields, SettleTyped
<1>3. /\ Len(q) \in Nat /\ DOMAIN q = 1..Len(q) /\ Len(old) \in Nat /\ DOMAIN old = 1..Len(old)
      /\ DOMAIN new = 1..(Len(old) + Len(q))
      /\ \A i \in DOMAIN old : new[i] = old[i]
      /\ \A i \in DOMAIN new : i \in DOMAIN old \/ \E j \in DOMAIN q : i = Len(old) + j
  BY <1>1, SettleResponses
<1>4. \A i \in DOMAIN q :
        /\ q[i] \in Correlations
        /\ new[Len(old) + i].correlation = q[i] /\ new[Len(old) + i].kind # "event"
  <2> TAKE i \in DOMAIN q
  <2>1. /\ q[i] \in DOMAIN x.pending /\ q[i] \in Correlations
        /\ new[Len(old) + i] = Response(q[i], x.pending[q[i]].kind, status)
    BY <1>1, SettleResponses
  <2>2. x.pending[q[i]].kind \in AllKinds /\ "event" \notin AllKinds
    BY <1>1, <2>1, Fields DEF AllKinds
  <2> QED
    BY <2>1, <2>2, ResponseFields
<1>5. NoCorrelation \notin Correlations
  BY ConstantsAssumption
<1> HIDE DEF y
<1>6. \A i \in DOMAIN q : Len(old) + i \in DOMAIN new
  BY <1>3
<1>7. \A c : c \in Answered(y) <=> c \in Answered(x) \cup Elements(q)
  <2> TAKE c
  <2>1. ASSUME c \in Answered(y) PROVE c \in Answered(x) \cup Elements(q)
    <3>1. PICK i \in DOMAIN new : new[i].correlation = c
      BY <2>1 DEF Answered
    <3>2. c # NoCorrelation
      BY <2>1 DEF Answered
    <3>3. CASE i \in DOMAIN old
      BY <3>1, <3>2, <3>3, <1>3 DEF Answered
    <3>4. CASE \E j \in DOMAIN q : i = Len(old) + j
      BY <3>1, <3>4, <1>4 DEF Elements
    <3> QED
      BY <3>3, <3>4, <1>3
  <2>2. ASSUME c \in Answered(x) PROVE c \in Answered(y)
    <3>1. PICK i \in DOMAIN old : old[i].correlation = c
      BY <2>2 DEF Answered
    <3>2. i \in DOMAIN new /\ new[i] = old[i]
      BY <3>1, <1>3
    <3> QED
      BY <2>2, <3>1, <3>2 DEF Answered
  <2>3. ASSUME c \in Elements(q) PROVE c \in Answered(y)
    BY <2>3, <1>4, <1>5, <1>6 DEF Answered, Elements
  <2> QED
    BY <2>1, <2>2, <2>3
<1>8. Answered(y) = Answered(x) \cup Elements(q)
  BY <1>7
<1>9. Labelled(y)
  <2>1. \A i \in DOMAIN old : new[i].kind = "event" <=> new[i].correlation = NoCorrelation
    BY <1>1, <1>3 DEF Labelled
  <2> QED
    BY <2>1, <1>3, <1>4, <1>5 DEF Labelled
<1>10. ASSUME NEW i \in DOMAIN new, NEW j \in DOMAIN new, new[i].correlation = new[j].correlation
       PROVE  i = j \/ new[i].kind = "event"
  <2>1. CASE i \in DOMAIN old /\ j \in DOMAIN old
    BY <1>1, <1>3, <1>10, <2>1 DEF Placed
  <2>2. \A k \in DOMAIN old, l \in DOMAIN q : new[k].correlation # q[l]
    <3> TAKE k \in DOMAIN old, l \in DOMAIN q
    <3>1. q[l] \in DOMAIN x.pending /\ q[l] # NoCorrelation
      BY <1>2, <1>4, <1>5 DEF Elements
    <3>2. q[l] \notin Answered(x)
      BY <1>1, <3>1 DEF Placed
    <3> QED
      BY <3>1, <3>2, <1>3 DEF Answered
  <2>3. CASE \E k \in DOMAIN q, l \in DOMAIN q : i = Len(old) + k /\ j = Len(old) + l
    BY <1>4, <1>10, <2>3 DEF Answerable
  <2> QED
    BY <1>3, <1>4, <1>10, <2>1, <2>2, <2>3
<1>11. Placed(y)
  BY <1>1, <1>2, <1>8, <1>10 DEF Placed
<1> QED
  BY <1>8, <1>9, <1>11 DEF y

LEMMA SettleSound ==
  ASSUME NEW x, Sound(x), NEW q, Answerable(x, q), NEW status \in Statuses, NEW capture \in Captures
  PROVE  Sound(Settle(x, q, status, capture))
<1> DEFINE y == Settle(x, q, status, capture)
<1>1. /\ y \in SessionRecords /\ Bounded(y) /\ Labelled(y) /\ Placed(y)
      /\ DOMAIN y.pending = DOMAIN x.pending \ Elements(q)
      /\ Elements(q) \in SUBSET DOMAIN x.pending
      /\ \A d \in DOMAIN y.pending : y.pending[d] = x.pending[d]
  BY SettleTyped, SettlePlaced
<1>2. y.clipboardPending <=> (x.clipboardPending /\ \A c \in Elements(q) : x.pending[c].kind # "clipboard")
  BY SettleFields DEF Sound
<1>3. Flagged(x)
  BY DEF Sound
<1> HIDE DEF y
<1>4. Flagged(y)
  BY <1>1, <1>2, <1>3 DEF Flagged
<1>5. Sound(y)
  BY <1>1, <1>4 DEF Sound
<1> QED
  BY <1>5 DEF y

LEMMA AbortSound ==
  ASSUME NEW x, Sound(x), NEW q, Answerable(x, q), NEW status \in Statuses
  PROVE  Sound(Abort(x, q, status))
<1>1. x.capture \in Captures
  BY Fields DEF Sound
<1>2. NoCapture \in Captures
  BY DEF NoCapture, Captures
<1> QED
  BY <1>1, <1>2, SettleSound DEF Abort

LEMMA OneAnswerable ==
  ASSUME NEW x, NEW c \in DOMAIN x.pending
  PROVE  Answerable(x, <<c>>) /\ Elements(<<c>>) = {c}
<1>1. <<c>> \in Seq(DOMAIN x.pending) /\ Len(<<c>>) = 1 /\ <<c>>[1] = c
  <2>1. \A D : c \in D => <<c>> \in Seq(D)
    OBVIOUS
  <2> QED
    BY <2>1
<1>2. DOMAIN <<c>> = {1}
  BY <1>1
<1> QED
  BY <1>1, <1>2 DEF Answerable, Elements

LEMMA CompleteSound ==
  ASSUME NEW x, Sound(x), NEW c \in DOMAIN x.pending, NEW status \in Statuses
  PROVE  Sound(Complete(x, c, status))
<1>1. x.capture \in Captures
  BY Fields DEF Sound
<1>2. "PermissionDenied" \in Statuses
  BY DEF Statuses
<1> QED
  BY <1>1, <1>2, OneAnswerable, AbortSound, SettleSound DEF Complete
\* The other things that happen to a session

LEMMA NewSound ==
  ASSUME NEW o \in Owners
  PROVE  Sound(NewSession(o))
<1> DEFINE x == NewSession(o)
<1>1. /\ x.owner = o /\ x.responses = <<>> /\ x.reserved = 0 /\ x.pending = <<>>
      /\ x.admitted = {} /\ x.delivered = {} /\ x.subscribed = FALSE
      /\ x.clipboardPending = FALSE /\ x.capture = NoCapture
  BY DEF NewSession
<1>2. DOMAIN <<>> = {} /\ Len(<<>>) = 0 /\ <<>> \in Seq(Responses) /\ <<>> \in [{} -> Requested]
  OBVIOUS
<1>3. <<>> \in PendingTables
  BY <1>2, Table
<1>4. NoCapture \in Captures
  BY DEF NoCapture, Captures
<1>5. x \in SessionRecords
  BY <1>2, <1>3, <1>4 DEF NewSession, SessionRecords, Captures
<1>6. Bounded(x)
  BY <1>1, <1>2, FS_EmptySet, ConstantsAssumption DEF Bounded
<1>7. Labelled(x) /\ Placed(x) /\ Flagged(x)
  BY <1>1, <1>2 DEF Labelled, Placed, Flagged, Answered
<1> QED
  BY <1>5, <1>6, <1>7 DEF Sound

\* The fields Sound says nothing of but their types.
LEMMA OtherFieldsSound ==
  ASSUME NEW x, Sound(x), NEW b \in BOOLEAN, NEW capture \in Captures
  PROVE  /\ Sound([x EXCEPT !.subscribed = b])
         /\ Sound([x EXCEPT !.capture = capture])
         /\ Sound([x EXCEPT !.subscribed = b, !.capture = capture])
<1> DEFINE Same(y) == /\ y.responses = x.responses /\ y.reserved = x.reserved
                      /\ y.pending = x.pending /\ y.admitted = x.admitted
                      /\ y.delivered = x.delivered /\ y.clipboardPending = x.clipboardPending
<1>1. x \in SessionRecords
  BY DEF Sound
<1>2. ASSUME NEW y \in SessionRecords, Same(y)
      PROVE  Sound(y)
  BY <1>2 DEF Sound, Labelled, Bounded, Placed, Flagged, Answered
<1>3. [x EXCEPT !.subscribed = b] \in SessionRecords /\ Same([x EXCEPT !.subscribed = b])
  BY <1>1 DEF SessionRecords
<1>4. [x EXCEPT !.capture = capture] \in SessionRecords /\ Same([x EXCEPT !.capture = capture])
  BY <1>1 DEF SessionRecords, Captures
<1>5. /\ [x EXCEPT !.subscribed = b, !.capture = capture] \in SessionRecords
      /\ Same([x EXCEPT !.subscribed = b, !.capture = capture])
  BY <1>1 DEF SessionRecords, Captures
<1> QED
  BY <1>2, <1>3, <1>4, <1>5

\* One more response in a queue.
LEMMA Pushed ==
  ASSUME NEW x \in SessionRecords, NEW r \in Responses
  PROVE  LET y == Push(x, r) IN
         /\ y \in SessionRecords
         /\ y.owner = x.owner /\ y.reserved = x.reserved /\ y.pending = x.pending
         /\ y.admitted = x.admitted /\ y.delivered = x.delivered
         /\ y.subscribed = x.subscribed /\ y.clipboardPending = x.clipboardPending
         /\ y.capture = x.capture
         /\ Len(x.responses) \in Nat /\ Len(y.responses) = Len(x.responses) + 1
         /\ DOMAIN y.responses = DOMAIN x.responses \cup {Len(x.responses) + 1}
         /\ Len(x.responses) + 1 \notin DOMAIN x.responses
         /\ \A i \in DOMAIN x.responses : y.responses[i] = x.responses[i]
         /\ y.responses[Len(x.responses) + 1] = r
<1> DEFINE y == Push(x, r)
           s == x.responses
<1>1. s \in Seq(Responses)
  BY Fields
<1>2. y.responses = Append(s, r)
  BY DEF Push, SessionRecords
<1>3. /\ Append(s, r) \in Seq(Responses) /\ Len(Append(s, r)) = Len(s) + 1 /\ Len(s) \in Nat
      /\ DOMAIN s = 1..Len(s)
      /\ \A i \in DOMAIN s : Append(s, r)[i] = s[i]
      /\ Append(s, r)[Len(s) + 1] = r
  <2> HIDE DEF s
  <2> QED
    BY <1>1
<1>4. DOMAIN Append(s, r) = DOMAIN s \cup {Len(s) + 1} /\ Len(s) + 1 \notin DOMAIN s
  <2>1. DOMAIN Append(s, r) = 1..(Len(s) + 1)
    BY <1>3, LenProperties
  <2> QED
    BY <2>1, <1>3
<1>5. y \in SessionRecords
  BY <1>3 DEF Push, SessionRecords
<1>6. /\ y.owner = x.owner /\ y.reserved = x.reserved /\ y.pending = x.pending
      /\ y.admitted = x.admitted /\ y.delivered = x.delivered
      /\ y.subscribed = x.subscribed /\ y.clipboardPending = x.clipboardPending
      /\ y.capture = x.capture
  BY DEF Push, SessionRecords
<1> QED
  BY <1>2, <1>3, <1>4, <1>5, <1>6
LEMMA EventSound ==
  ASSUME NEW x, Sound(x), ~Full(x)
  PROVE  Sound(Push(x, Event))
<1> DEFINE y == Push(x, Event)
           n == Len(x.responses) + 1
<1>1. x \in SessionRecords /\ Labelled(x) /\ Bounded(x) /\ Placed(x) /\ Flagged(x)
  BY DEF Sound
<1>2. Event \in Responses /\ Event.correlation = NoCorrelation /\ Event.kind = "event"
  BY ResponseFields DEF Event, Statuses
<1>3. /\ y \in SessionRecords
      /\ y.reserved = x.reserved /\ y.pending = x.pending
      /\ y.admitted = x.admitted /\ y.delivered = x.delivered
      /\ y.clipboardPending = x.clipboardPending
      /\ Len(x.responses) \in Nat /\ Len(y.responses) = n
      /\ DOMAIN y.responses = DOMAIN x.responses \cup {n} /\ n \notin DOMAIN x.responses
      /\ \A i \in DOMAIN x.responses : y.responses[i] = x.responses[i]
      /\ y.responses[n] = Event
  BY <1>1, <1>2, Pushed
<1>4. x.reserved \in Nat
  BY <1>1, Fields
<1> HIDE DEF y
<1>5. Bounded(y)
  BY <1>1, <1>3, <1>4, ConstantsAssumption DEF Bounded, Full
<1> HIDE DEF n
<1>6. Answered(y) = Answered(x)
  BY <1>2, <1>3 DEF Answered
<1>7. Labelled(y)
  BY <1>1, <1>2, <1>3 DEF Labelled
<1>8. Placed(y)
  <2>1. \A i, j \in DOMAIN y.responses :
          y.responses[i].correlation = y.responses[j].correlation =>
            i = j \/ y.responses[i].kind = "event"
    BY <1>1, <1>2, <1>3, <1>7 DEF Placed, Labelled
  <2> QED
    BY <1>1, <1>3, <1>6, <2>1 DEF Placed
<1>9. Flagged(y)
  BY <1>1, <1>3 DEF Flagged
<1>10. Sound(y)
  BY <1>3, <1>5, <1>7, <1>8, <1>9 DEF Sound
<1> QED
  BY <1>10 DEF y

LEMMA EmitSound ==
  ASSUME NEW x, Sound(x)
  PROVE  Sound(Emit(x))
  BY EventSound DEF Emit

\* A request that is answered at once takes a free place in the queue.
LEMMA AnswerSound ==
  ASSUME NEW x, Sound(x), ~Full(x), NEW c \in Correlations \ x.admitted,
         NEW kind \in AllKinds, NEW status \in Statuses
  PROVE  /\ Sound(Answer(x, c, kind, status))
         /\ Answer(x, c, kind, status).owner = x.owner
         /\ Answer(x, c, kind, status).capture = x.capture
         /\ Answer(x, c, kind, status).subscribed = x.subscribed
<1> DEFINE a == Admit(x, c)
           r == Response(c, kind, status)
           y == Push(a, r)
           n == Len(x.responses) + 1
<1>1. x \in SessionRecords /\ Labelled(x) /\ Bounded(x) /\ Placed(x) /\ Flagged(x)
  BY DEF Sound
<1>2. /\ a \in SessionRecords /\ a.admitted = x.admitted \cup {c}
      /\ a.owner = x.owner /\ a.responses = x.responses /\ a.reserved = x.reserved
      /\ a.pending = x.pending /\ a.delivered = x.delivered
      /\ a.subscribed = x.subscribed /\ a.clipboardPending = x.clipboardPending
      /\ a.capture = x.capture
  BY <1>1 DEF Admit, SessionRecords
<1>3. r \in Responses /\ r.correlation = c /\ r.kind = kind
  BY ResponseFields
<1>4. c # NoCorrelation /\ kind # "event"
  BY ConstantsAssumption DEF AllKinds
<1> HIDE DEF a, r
<1>5. /\ y \in SessionRecords
      /\ y.owner = x.owner /\ y.reserved = x.reserved /\ y.pending = x.pending
      /\ y.admitted = x.admitted \cup {c} /\ y.delivered = x.delivered
      /\ y.subscribed = x.subscribed /\ y.clipboardPending = x.clipboardPending
      /\ y.capture = x.capture
      /\ Len(x.responses) \in Nat /\ Len(y.responses) = n
      /\ DOMAIN y.responses = DOMAIN x.responses \cup {n} /\ n \notin DOMAIN x.responses
      /\ \A i \in DOMAIN x.responses : y.responses[i] = x.responses[i]
      /\ y.responses[n] = r
  BY <1>2, <1>3, Pushed
<1>6. x.reserved \in Nat
  BY <1>1, Fields
<1> HIDE DEF y
<1>7. Bounded(y)
  BY <1>1, <1>5, <1>6, ConstantsAssumption DEF Bounded, Full
<1> HIDE DEF n
<1>8. Answered(y) = Answered(x) \cup {c}
  <2>1. \A d : d \in Answered(y) <=> d \in Answered(x) \cup {c}
    BY <1>3, <1>4, <1>5 DEF Answered
  <2> QED
    BY <2>1
<1>9. Labelled(y)
  BY <1>1, <1>3, <1>4, <1>5 DEF Labelled
<1>10. c \notin Answered(x) /\ c \notin DOMAIN x.pending /\ c \notin x.delivered
  BY <1>1 DEF Placed
<1>11. Placed(y)
  <2>1. \A i \in DOMAIN x.responses : x.responses[i].correlation # c
    BY <1>4, <1>10 DEF Answered
  <2>2. \A i, j \in DOMAIN y.responses :
          y.responses[i].correlation = y.responses[j].correlation =>
            i = j \/ y.responses[i].kind = "event"
    BY <1>1, <1>3, <1>5, <2>1 DEF Placed
  <2> QED
    BY <1>1, <1>5, <1>8, <1>10, <2>2 DEF Placed
<1>12. Flagged(y)
  BY <1>1, <1>5 DEF Flagged
<1>13. Sound(y)
  BY <1>5, <1>7, <1>9, <1>11, <1>12 DEF Sound
<1>14. Answer(x, c, kind, status) = y
  BY DEF Answer, y, a, r
<1> QED
  BY <1>5, <1>13, <1>14
\* The event an injected input emits and the response to it both find room.
Injected(x, c) ==
  LET held == [Admit(x, c) EXCEPT !.reserved = @ + 1]
      emitted == [Emit(held) EXCEPT !.reserved = @ - 1]
  IN  Push(emitted, Response(c, "inject", "Ok"))

LEMMA InjectedIs ==
  ASSUME NEW x \in SessionRecords, NEW c
  PROVE  \/ Injected(x, c) = Answer(x, c, "inject", "Ok")
         \/ /\ Len(x.responses) + x.reserved + 1 < MaxQueue
            /\ Allowed(x.owner, "event")
            /\ Injected(x, c) = Answer(Push(x, Event), c, "inject", "Ok")
<1> DEFINE held == [Admit(x, c) EXCEPT !.reserved = @ + 1]
           r == Response(c, "inject", "Ok")
<1> HIDE DEF r
<1>1. x.reserved \in Nat /\ x.responses \in Seq(Responses)
  BY Fields
<1>2. (x.reserved + 1) - 1 = x.reserved
  BY <1>1
<1>3. CASE Emit(held) = held
  <2>1. [held EXCEPT !.reserved = @ - 1] = Admit(x, c)
    BY <1>2 DEF Admit, SessionRecords
  <2> QED
    BY <1>3, <2>1 DEF Injected, Answer
<1>4. CASE Emit(held) = Push(held, Event) /\ ~Full(held) /\ Allowed(held.owner, "event")
  <2>1. [Push(held, Event) EXCEPT !.reserved = @ - 1] = Admit(Push(x, Event), c)
    BY <1>2 DEF Push, Admit, SessionRecords
  <2>2. held.responses = x.responses /\ held.reserved = x.reserved + 1 /\ held.owner = x.owner
    BY DEF Admit, SessionRecords
  <2>3. Len(x.responses) + x.reserved + 1 < MaxQueue
    BY <1>1, <1>4, <2>2, ConstantsAssumption DEF Full
  <2> QED
    BY <1>4, <2>1, <2>2, <2>3 DEF Injected, Answer
<1> QED
  BY <1>3, <1>4 DEF Emit

LEMMA InjectedSound ==
  ASSUME NEW x, Sound(x), ~Full(x), NEW c \in Correlations \ x.admitted
  PROVE  Sound(Injected(x, c))
<1>1. x \in SessionRecords /\ "inject" \in AllKinds /\ "Ok" \in Statuses
  BY DEF Sound, AllKinds, Statuses
<1>2. CASE Injected(x, c) = Answer(x, c, "inject", "Ok")
  BY <1>1, <1>2, AnswerSound
<1>3. CASE /\ Len(x.responses) + x.reserved + 1 < MaxQueue
           /\ Injected(x, c) = Answer(Push(x, Event), c, "inject", "Ok")
  <2> DEFINE y == Push(x, Event)
  <2>1. Event \in Responses
    BY ResponseFields DEF Event, Statuses
  <2>2. /\ y.reserved = x.reserved /\ y.admitted = x.admitted
        /\ Len(y.responses) = Len(x.responses) + 1 /\ Len(x.responses) \in Nat
    BY <1>1, <2>1, Pushed
  <2>3. x.reserved \in Nat
    BY <1>1, Fields
  <2>4. Sound(y)
    BY EventSound
  <2> HIDE DEF y
  <2>5. ~Full(y)
    BY <1>3, <2>2, <2>3, ConstantsAssumption DEF Full
  <2>6. Sound(Answer(y, c, "inject", "Ok"))
    BY <1>1, <2>2, <2>4, <2>5, AnswerSound
  <2> QED
    BY <1>3, <2>6 DEF y
<1> QED
  BY <1>1, <1>2, <1>3, InjectedIs

\* A request that is left pending takes a free place in the queue too.
LEMMA ReserveSound ==
  ASSUME NEW x, Sound(x), ~Full(x), NEW c \in Correlations \ x.admitted, NEW kind \in AllKinds,
         NEW y \in SessionRecords, NEW z, z = Reserve(Admit(x, c), c, kind),
         y.responses = x.responses, y.reserved = z.reserved, y.pending = z.pending,
         y.admitted = z.admitted, y.delivered = x.delivered,
         IF kind = "clipboard" THEN ~x.clipboardPending /\ y.clipboardPending
         ELSE y.clipboardPending = x.clipboardPending
  PROVE  Sound(y)
<1>1. x \in SessionRecords /\ Labelled(x) /\ Bounded(x) /\ Placed(x) /\ Flagged(x)
  BY DEF Sound
<1> DEFINE D == DOMAIN x.pending \cup {c}
<1>2. /\ z.reserved = x.reserved + 1 /\ z.admitted = x.admitted \cup {c}
      /\ z.pending = [d \in D |-> IF d = c THEN [kind |-> kind, expired |-> FALSE] ELSE x.pending[d]]
  BY <1>1 DEF Reserve, Admit, SessionRecords
<1>3. /\ DOMAIN y.pending = D /\ y.pending[c].kind = kind
      /\ \A d \in DOMAIN x.pending : d # c => y.pending[d] = x.pending[d]
  BY <1>2
<1>4. c \notin DOMAIN x.pending /\ c \notin Answered(x) /\ c \notin x.delivered
  BY <1>1 DEF Placed
<1>5. Cardinality(D) = Cardinality(DOMAIN x.pending) + 1
  <2>1. IsFiniteSet(DOMAIN x.pending)
    BY <1>1, Fields
  <2> QED BY <1>4, <2>1, FS_AddElement
<1>6. Bounded(y)
  <2>1. x.reserved \in Nat /\ Len(x.responses) \in Nat
    <3>1. x.responses \in Seq(Responses)
      BY <1>1, Fields
    <3> QED
      BY <1>1, <3>1, Fields, LenProperties
  <2> QED
    BY <1>1, <1>2, <1>3, <1>5, <2>1, ConstantsAssumption DEF Bounded, Full
<1>7. Answered(y) = Answered(x)
  BY DEF Answered
<1>8. Labelled(y)
  BY <1>1 DEF Labelled
<1>9. Placed(y)
  BY <1>1, <1>2, <1>3, <1>4, <1>7 DEF Placed
<1>10. Flagged(y)
  BY <1>1, <1>3, <1>4 DEF Flagged
<1> QED
  BY <1>6, <1>8, <1>9, <1>10 DEF Sound
LEMMA DeliverSound ==
  ASSUME NEW x, Sound(x), x.responses # <<>>
  PROVE  Sound(Deliver(x))
<1> DEFINE y == Deliver(x)
           c == Head(x.responses).correlation
<1>1. x \in SessionRecords /\ Labelled(x) /\ Bounded(x) /\ Placed(x) /\ Flagged(x)
  BY DEF Sound
<1>2. x.responses \in Seq(Responses) /\ x.delivered \in SUBSET Correlations /\ x.reserved \in Nat
  BY <1>1, Fields
<1>3. /\ y.responses = Tail(x.responses) /\ y.delivered = x.delivered \cup ({c} \ {NoCorrelation})
      /\ y.reserved = x.reserved /\ y.pending = x.pending /\ y.admitted = x.admitted
      /\ y.clipboardPending = x.clipboardPending
  BY <1>1 DEF Deliver, SessionRecords
<1>4. /\ Tail(x.responses) \in Seq(Responses)
      /\ DOMAIN x.responses = 1..Len(x.responses) /\ Len(x.responses) \in Nat \ {0}
      /\ DOMAIN Tail(x.responses) = 1..(Len(x.responses) - 1)
      /\ Len(Tail(x.responses)) = Len(x.responses) - 1
      /\ \A i \in DOMAIN Tail(x.responses) : Tail(x.responses)[i] = x.responses[i + 1]
      /\ Head(x.responses) = x.responses[1]
  BY <1>2
<1>5. c \in Correlations \cup {NoCorrelation}
  <2>1. Head(x.responses) \in Responses
    BY <1>2
  <2> QED
    BY <2>1 DEF Responses
<1>6. y \in SessionRecords
  BY <1>1, <1>4, <1>5 DEF Deliver, SessionRecords
<1> HIDE DEF y
<1>7. /\ DOMAIN y.responses = 1..(Len(x.responses) - 1)
      /\ \A i \in DOMAIN y.responses : y.responses[i] = x.responses[i + 1] /\ i + 1 \in DOMAIN x.responses
      /\ \A i \in DOMAIN x.responses : i = 1 \/ (i - 1 \in DOMAIN y.responses /\ (i - 1) + 1 = i)
      /\ 1 \in DOMAIN x.responses /\ x.responses[1].correlation = c
      /\ \A i \in DOMAIN y.responses : i + 1 # 1
      /\ \A i, j \in DOMAIN y.responses : i + 1 = j + 1 => i = j
  BY <1>3, <1>4
<1>8. Bounded(y)
  BY <1>1, <1>2, <1>3, <1>4, ConstantsAssumption DEF Bounded
<1>9. Labelled(y)
  BY <1>1, <1>7 DEF Labelled
<1>10. \A i \in DOMAIN x.responses : x.responses[i].correlation = c => i = 1 \/ c = NoCorrelation
  BY <1>1, <1>7 DEF Placed, Labelled
<1> HIDE DEF c
<1>11. Answered(y) = Answered(x) \ {c}
  <2>1. \A d : d \in Answered(y) <=> d \in Answered(x) \ {c}
    <3> TAKE d
    <3>1. ASSUME d \in Answered(y) PROVE d \in Answered(x) \ {c}
      BY <3>1, <1>7, <1>10 DEF Answered
    <3>2. ASSUME d \in Answered(x) \ {c} PROVE d \in Answered(y)
      <4>1. PICK i \in DOMAIN x.responses : x.responses[i].correlation = d
        BY <3>2 DEF Answered
      <4>2. i - 1 \in DOMAIN y.responses /\ y.responses[i - 1] = x.responses[i]
        BY <3>2, <4>1, <1>7
      <4> QED
        BY <3>2, <4>1, <4>2 DEF Answered
    <3> QED
      BY <3>1, <3>2
  <2> QED
    BY <2>1
<1>12. c \in Answered(x) \/ c = NoCorrelation
  BY <1>7 DEF Answered
<1>13. NoCorrelation \notin Answered(x)
  BY DEF Answered
<1>14. Placed(y)
  <2>1. \A i, j \in DOMAIN y.responses :
          y.responses[i].correlation = y.responses[j].correlation =>
            i = j \/ y.responses[i].kind = "event"
    BY <1>1, <1>7 DEF Placed
  <2> QED
    BY <1>1, <1>3, <1>11, <1>12, <1>13, <2>1 DEF Placed
<1>15. Flagged(y)
  BY <1>1, <1>3 DEF Flagged
<1>16. Sound(y)
  BY <1>6, <1>8, <1>9, <1>14, <1>15 DEF Sound
<1> QED
  BY <1>16 DEF y

\* Only the status of one response changes.
LEMMA CancelSound ==
  ASSUME NEW x, Sound(x), NEW i \in DOMAIN x.responses
  PROVE  Sound([x EXCEPT !.responses[i].status = "Cancelled"])
<1> DEFINE y == [x EXCEPT !.responses[i].status = "Cancelled"]
           s == x.responses
           r == [s[i] EXCEPT !.status = "Cancelled"]
           t == [s EXCEPT ![i] = r]
<1>1. x \in SessionRecords /\ Labelled(x) /\ Bounded(x) /\ Placed(x) /\ Flagged(x)
  BY DEF Sound
<1>2. s \in Seq(Responses) /\ i \in 1..Len(s)
  <2>1. s \in Seq(Responses)
    BY <1>1, Fields
  <2> QED
    BY <2>1, LenProperties
<1>3. s[i] \in Responses
  BY <1>2
<1>4. r \in Responses /\ r.correlation = s[i].correlation /\ r.kind = s[i].kind
  BY <1>3 DEF Responses, Statuses
<1>5. /\ t \in Seq(Responses) /\ Len(t) = Len(s) /\ DOMAIN t = DOMAIN s
      /\ \A j \in DOMAIN s : t[j].correlation = s[j].correlation /\ t[j].kind = s[j].kind
  <2> HIDE DEF s, r
  <2>1. t \in Seq(Responses) /\ Len(t) = Len(s) /\ DOMAIN t = DOMAIN s
    BY <1>2, <1>4, ExceptSeq
  <2>2. \A j \in DOMAIN s : t[j] = IF j = i THEN r ELSE s[j]
    OBVIOUS
  <2> QED
    BY <2>1, <2>2, <1>4
<1>6. /\ y.responses = t /\ y.reserved = x.reserved /\ y.pending = x.pending
      /\ y.admitted = x.admitted /\ y.delivered = x.delivered
      /\ y.clipboardPending = x.clipboardPending
  BY <1>1 DEF SessionRecords
<1>7. y = [x EXCEPT !.responses = t]
  BY <1>1 DEF SessionRecords
<1>8. y \in SessionRecords
  <2> HIDE DEF t
  <2> QED
    BY <1>1, <1>5, <1>7 DEF SessionRecords
<1> HIDE DEF y, t
<1>9. Answered(y) = Answered(x)
  <2>1. \A d : d \in Answered(y) <=> d \in Answered(x)
    BY <1>5, <1>6 DEF Answered
  <2> QED
    BY <2>1
<1>10. Labelled(y) /\ Bounded(y) /\ Flagged(y)
  BY <1>1, <1>5, <1>6 DEF Labelled, Bounded, Flagged
<1>11. Placed(y)
  BY <1>1, <1>5, <1>6, <1>9 DEF Placed
<1>12. Sound(y)
  BY <1>8, <1>10, <1>11 DEF Sound
<1> QED
  BY <1>12 DEF y

\* Only the deadline of one request changes.
LEMMA ExpireSound ==
  ASSUME NEW x, Sound(x), NEW c \in DOMAIN x.pending
  PROVE  Sound([x EXCEPT !.pending[c].expired = TRUE])
<1> DEFINE y == [x EXCEPT !.pending[c].expired = TRUE]
           p == x.pending
           r == [p[c] EXCEPT !.expired = TRUE]
           t == [p EXCEPT ![c] = r]
<1>1. x \in SessionRecords /\ Labelled(x) /\ Bounded(x) /\ Placed(x) /\ Flagged(x)
  BY DEF Sound
<1>2. DOMAIN p \in SUBSET Correlations /\ \A d \in DOMAIN p : p[d] \in Requested
  BY <1>1, Fields
<1>3. r \in Requested /\ r.kind = p[c].kind
  BY <1>2 DEF Requested
<1>4. DOMAIN t = DOMAIN p /\ \A d \in DOMAIN p : t[d].kind = p[d].kind
  BY <1>3
<1>5. t \in [DOMAIN p -> Requested]
  <2>1. p \in [DOMAIN p -> Requested]
    BY <1>1, <1>2, Fields
  <2> HIDE DEF p, r
  <2> QED
    BY <2>1, <1>3
<1>6. t \in PendingTables
  BY <1>2, <1>5, Table
<1>7. /\ y.pending = t /\ y.responses = x.responses /\ y.reserved = x.reserved
      /\ y.admitted = x.admitted /\ y.delivered = x.delivered
      /\ y.clipboardPending = x.clipboardPending
  BY <1>1 DEF SessionRecords
<1>8. y = [x EXCEPT !.pending = t]
  BY <1>1 DEF SessionRecords
<1>9. y \in SessionRecords
  <2> HIDE DEF t
  <2> QED
    BY <1>1, <1>6, <1>8 DEF SessionRecords
<1> HIDE DEF y, t
<1>10. Answered(y) = Answered(x)
  BY <1>7 DEF Answered
<1>11. Labelled(y) /\ Bounded(y) /\ Flagged(y)
  BY <1>1, <1>4, <1>7 DEF Labelled, Bounded, Flagged
<1>12. Placed(y)
  BY <1>1, <1>4, <1>7, <1>10 DEF Placed
<1>13. Sound(y)
  BY <1>9, <1>11, <1>12 DEF Sound
<1> QED
  BY <1>13 DEF y
-----------------------------------------------------------------------------
\* Revocation

\* Revoke before the pending requests are aborted.
Withdrawn(x, P) ==
  [x EXCEPT
     !.subscribed = @ /\ May("event", P),
     !.responses = Censored(@, P),
     !.capture = IF May("captureOpen", P) THEN @ ELSE NoCapture]

LEMMA SequenceIs ==
  ASSUME NEW n \in Nat, NEW T, NEW t, t = [m \in 1..n |-> t[m]], \A m \in 1..n : t[m] \in T
  PROVE  t \in Seq(T) /\ Len(t) = n
  OBVIOUS

\* A censored queue has the results in their order, each once, and those events
\* that are permitted.
LEMMA CensoredQueue ==
  ASSUME NEW s \in Seq(Responses), NEW P
  PROVE  LET t == Censored(s, P) IN
         /\ t \in Seq(Responses) /\ Len(t) <= Len(s)
         /\ \E f \in [DOMAIN t -> DOMAIN s] :
              /\ \A m \in DOMAIN t :
                   /\ t[m].correlation = s[f[m]].correlation /\ t[m].kind = s[f[m]].kind
                   /\ t[m] = s[f[m]] \/ t[m].status = "PermissionDenied"
                   /\ ~May(t[m].kind, P) => t[m].status = "PermissionDenied"
              /\ \A m, l \in DOMAIN t : f[m] = f[l] => m = l
              /\ \A i \in DOMAIN s : s[i].kind # "event" => \E m \in DOMAIN t : f[m] = i
<1> DEFINE K == {i \in DOMAIN s : s[i].kind = "event" => May("event", P)}
           f == InOrder(K)
           censor(r) == IF May(r.kind, P) THEN r ELSE [r EXCEPT !.status = "PermissionDenied"]
           t == [m \in DOMAIN f |-> censor(s[f[m]])]
           n == Cardinality(K)
<1>1. DOMAIN s = 1..Len(s) /\ Len(s) \in Nat /\ K \in SUBSET (1..Len(s))
  OBVIOUS
<1>2. /\ n \in Nat /\ n <= Len(s) /\ f \in [1..n -> K]
      /\ DOMAIN f = 1..n /\ \A m \in 1..n : f[m] \in K
      /\ \A m, l \in 1..n : f[m] = f[l] => m = l
      /\ \A i \in K : \E m \in 1..n : f[m] = i
  <2> DEFINE N == Len(s)
  <2>1. N \in Nat /\ K \in SUBSET (1..N)
    BY <1>1
  <2> HIDE DEF K, N
  <2>2. /\ Cardinality(K) \in Nat /\ Cardinality(K) <= N
        /\ InOrder(K) \in [1..Cardinality(K) -> K]
        /\ \A m, l \in 1..Cardinality(K) : InOrder(K)[m] = InOrder(K)[l] => m = l
        /\ \A i \in K : \E m \in 1..Cardinality(K) : InOrder(K)[m] = i
    BY <2>1, InOrderEnumerates
  <2> QED BY <2>2 DEF N
<1>3. K \subseteq DOMAIN s
  OBVIOUS
<1>4. Censored(s, P) = t
  BY DEF Censored
<1> HIDE DEF f, n
<1>5. \A m \in 1..n :
        /\ s[f[m]] \in Responses /\ t[m] = censor(s[f[m]])
        /\ f[m] \in DOMAIN s
  BY <1>1, <1>2
<1>6. \A r \in Responses :
        /\ censor(r) \in Responses
        /\ censor(r).correlation = r.correlation /\ censor(r).kind = r.kind
        /\ censor(r) = r \/ censor(r).status = "PermissionDenied"
        /\ ~May(r.kind, P) => censor(r).status = "PermissionDenied"
  BY DEF Responses, Statuses
<1> HIDE DEF censor
<1>7. DOMAIN t = 1..n /\ \A m \in 1..n : t[m] \in Responses
  BY <1>2, <1>5, <1>6
<1>8. t \in Seq(Responses) /\ Len(t) = n
  <2>1. t = [m \in 1..n |-> t[m]]
    BY <1>2
  <2>2. n \in Nat
    BY <1>2
  <2> HIDE DEF t
  <2> QED
    BY <2>1, <2>2, <1>7, SequenceIs
<1>9. f \in [DOMAIN t -> DOMAIN s]
  BY <1>2, <1>3, <1>7
<1>10. \A i \in DOMAIN s : s[i].kind # "event" => i \in K
  OBVIOUS
<1> HIDE DEF t, K
<1>11. \A m \in DOMAIN t :
         /\ t[m].correlation = s[f[m]].correlation /\ t[m].kind = s[f[m]].kind
         /\ t[m] = s[f[m]] \/ t[m].status = "PermissionDenied"
         /\ ~May(t[m].kind, P) => t[m].status = "PermissionDenied"
  BY <1>5, <1>6, <1>7
<1>12. /\ \A m, l \in DOMAIN t : f[m] = f[l] => m = l
       /\ \A i \in DOMAIN s : s[i].kind # "event" => \E m \in DOMAIN t : f[m] = i
  BY <1>2, <1>7, <1>10
<1>13. t \in Seq(Responses) /\ Len(t) <= Len(s)
  BY <1>2, <1>8
<1> QED
  BY <1>4, <1>9, <1>11, <1>12, <1>13

LEMMA WithdrawnSound ==
  ASSUME NEW x, Sound(x), NEW P
  PROVE  /\ Sound(Withdrawn(x, P))
         /\ Withdrawn(x, P).owner = x.owner
         /\ Withdrawn(x, P).responses = Censored(x.responses, P)
         /\ Withdrawn(x, P).pending = x.pending
         /\ Withdrawn(x, P).subscribed <=> (x.subscribed /\ May("event", P))
         /\ Withdrawn(x, P).capture = IF May("captureOpen", P) THEN x.capture ELSE NoCapture
<1> DEFINE y == Withdrawn(x, P)
           s == x.responses
           t == Censored(s, P)
<1>1. x \in SessionRecords /\ Labelled(x) /\ Bounded(x) /\ Placed(x) /\ Flagged(x)
  BY DEF Sound
<1>2. s \in Seq(Responses) /\ Len(s) \in Nat /\ x.reserved \in Nat /\ x.capture \in Captures
  <2>1. s \in Seq(Responses)
    BY <1>1, Fields
  <2> QED
    BY <1>1, <2>1, Fields, LenProperties
<1>3. t \in Seq(Responses) /\ Len(t) <= Len(s)
  <2>1. s \in Seq(Responses)
    BY <1>2
  <2> HIDE DEF s
  <2> QED
    BY <2>1, CensoredQueue
<1>4. PICK f \in [DOMAIN t -> DOMAIN s] :
        /\ \A m \in DOMAIN t : t[m].correlation = s[f[m]].correlation /\ t[m].kind = s[f[m]].kind
        /\ \A m, l \in DOMAIN t : f[m] = f[l] => m = l
        /\ \A i \in DOMAIN s : s[i].kind # "event" => \E m \in DOMAIN t : f[m] = i
  <2>1. s \in Seq(Responses)
    BY <1>2
  <2> HIDE DEF s
  <2> QED
    BY <2>1, CensoredQueue
<1>5. NoCapture \in Captures
  BY DEF NoCapture, Captures
<1>6. /\ y.responses = t /\ y.reserved = x.reserved /\ y.pending = x.pending
      /\ y.admitted = x.admitted /\ y.delivered = x.delivered
      /\ y.clipboardPending = x.clipboardPending /\ y.owner = x.owner
      /\ y.subscribed <=> (x.subscribed /\ May("event", P))
      /\ y.capture = IF May("captureOpen", P) THEN x.capture ELSE NoCapture
  BY <1>1 DEF Withdrawn, SessionRecords
<1>7. y \in SessionRecords
  BY <1>1, <1>2, <1>3, <1>5 DEF Withdrawn, SessionRecords, Captures
<1> HIDE DEF y, t
<1>8. Len(t) \in Nat
  BY <1>3, LenProperties
<1>9. Bounded(y)
  BY <1>1, <1>2, <1>3, <1>6, <1>8, ConstantsAssumption DEF Bounded
<1>10. Labelled(y)
  BY <1>1, <1>4, <1>6 DEF Labelled
<1>11. Answered(y) = Answered(x)
  <2>1. \A d : d \in Answered(y) <=> d \in Answered(x)
    <3> TAKE d
    <3>1. ASSUME d \in Answered(y) PROVE d \in Answered(x)
      BY <3>1, <1>4, <1>6 DEF Answered
    <3>2. ASSUME d \in Answered(x) PROVE d \in Answered(y)
      <4>1. PICK i \in DOMAIN s : s[i].correlation = d /\ d # NoCorrelation
        BY <3>2 DEF Answered
      <4>2. s[i].kind # "event"
        BY <1>1, <4>1 DEF Labelled
      <4>3. PICK m \in DOMAIN t : f[m] = i
        BY <1>4, <4>2
      <4> QED
        BY <1>4, <1>6, <4>1, <4>3 DEF Answered
    <3> QED
      BY <3>1, <3>2
  <2> QED
    BY <2>1
<1>12. Placed(y)
  <2>1. \A i, j \in DOMAIN y.responses :
          y.responses[i].correlation = y.responses[j].correlation =>
            i = j \/ y.responses[i].kind = "event"
    BY <1>1, <1>4, <1>6 DEF Placed
  <2> QED
    BY <1>1, <1>6, <1>11, <2>1 DEF Placed
<1>13. Flagged(y)
  BY <1>1, <1>6 DEF Flagged
<1>14. Sound(y)
  BY <1>7, <1>9, <1>10, <1>12, <1>13 DEF Sound
<1> QED
  BY <1>6, <1>14 DEF y, t

LEMMA RevokeSound ==
  ASSUME NEW x, Sound(x), NEW P, NEW q, Answerable(x, q)
  PROVE  /\ Revoke(x, q, P) = Abort(Withdrawn(x, P), q, "PermissionDenied")
         /\ Sound(Revoke(x, q, P))
<1>1. Revoke(x, q, P) = Abort(Withdrawn(x, P), q, "PermissionDenied")
  BY DEF Revoke, Withdrawn
<1>2. Answerable(Withdrawn(x, P), q)
  BY WithdrawnSound DEF Answerable
<1> QED
  BY <1>1, <1>2, WithdrawnSound, AbortSound DEF Statuses
-----------------------------------------------------------------------------
\* What RevocationComplete says of one session when P is permitted.
Lawful(x, P) ==
  /\ \A i \in DOMAIN x.responses : x.responses[i].status = "Ok" => May(x.responses[i].kind, P)
  /\ \A c \in DOMAIN x.pending : May(x.pending[c].kind, P)
  /\ x.subscribed => May("event", P)
  /\ x.capture # NoCapture => May("captureOpen", P)

LEMMA SettleLawful ==
  ASSUME NEW x, Sound(x), NEW q, Answerable(x, q), NEW status \in Statuses,
         NEW capture \in Captures, capture = x.capture \/ capture = NoCapture,
         NEW P, Lawful(x, P)
  PROVE  Lawful(Settle(x, q, status, capture), P)
<1> DEFINE y == Settle(x, q, status, capture)
           old == x.responses
           new == y.responses
<1>1. x \in SessionRecords
  BY DEF Sound
<1>2. /\ y.subscribed = x.subscribed /\ y.capture = capture
      /\ DOMAIN y.pending = DOMAIN x.pending \ Elements(q)
      /\ \A d \in DOMAIN y.pending : y.pending[d] = x.pending[d]
  BY <1>1, SettleFields, SettleTyped
<1>3. /\ \A i \in DOMAIN old : new[i] = old[i]
      /\ \A i \in DOMAIN new : i \in DOMAIN old \/ \E j \in DOMAIN q : i = Len(old) + j
  BY <1>1, SettleResponses
<1>4. \A i \in DOMAIN q :
        q[i] \in DOMAIN x.pending /\ new[Len(old) + i].kind = x.pending[q[i]].kind
  <2> TAKE i \in DOMAIN q
  <2>1. /\ q[i] \in DOMAIN x.pending /\ q[i] \in Correlations
        /\ new[Len(old) + i] = Response(q[i], x.pending[q[i]].kind, status)
    BY <1>1, SettleResponses
  <2>2. x.pending[q[i]].kind \in AllKinds
    BY <1>1, <2>1, Fields
  <2> QED
    BY <2>1, <2>2, ResponseFields
<1> HIDE DEF y
<1>5. Lawful(y, P)
  BY <1>2, <1>3, <1>4 DEF Lawful
<1> QED
  BY <1>5 DEF y

LEMMA AbortLawful ==
  ASSUME NEW x, Sound(x), NEW q, Answerable(x, q), NEW status \in Statuses, NEW P, Lawful(x, P)
  PROVE  Lawful(Abort(x, q, status), P)
<1>1. x.capture \in Captures
  BY Fields DEF Sound
<1>2. NoCapture \in Captures
  BY DEF NoCapture, Captures
<1> QED
  BY <1>1, <1>2, SettleLawful DEF Abort

LEMMA CompleteLawful ==
  ASSUME NEW x, Sound(x), NEW c \in DOMAIN x.pending, NEW status \in Statuses, NEW P, Lawful(x, P)
  PROVE  Lawful(Complete(x, c, status), P)
<1>1. x.capture \in Captures
  BY Fields DEF Sound
<1> QED
  BY <1>1, OneAnswerable, AbortLawful, SettleLawful DEF Complete, Statuses

LEMMA PushLawful ==
  ASSUME NEW x \in SessionRecords, NEW r \in Responses, NEW P, Lawful(x, P),
         r.status = "Ok" => May(r.kind, P)
  PROVE  Lawful(Push(x, r), P)
<1> DEFINE y == Push(x, r)  n == Len(x.responses) + 1
<1>1. /\ y.pending = x.pending /\ y.subscribed = x.subscribed /\ y.capture = x.capture
      /\ DOMAIN y.responses = DOMAIN x.responses \cup {n}
      /\ \A i \in DOMAIN x.responses : y.responses[i] = x.responses[i]
      /\ y.responses[n] = r
  BY Pushed
<1> HIDE DEF y, n
<1>2. \A i \in DOMAIN y.responses : y.responses[i].status = "Ok" => May(y.responses[i].kind, P)
  BY <1>1 DEF Lawful
<1>3. Lawful(y, P)
  BY <1>1, <1>2 DEF Lawful
<1> QED BY <1>3 DEF y

LEMMA AnswerLawful ==
  ASSUME NEW x \in SessionRecords, NEW c \in Correlations, NEW kind \in AllKinds,
         NEW status \in Statuses, NEW P, Lawful(x, P), status = "Ok" => May(kind, P)
  PROVE  Lawful(Answer(x, c, kind, status), P)
<1> DEFINE a == Admit(x, c)
           r == Response(c, kind, status)
<1>1. r \in Responses /\ r.kind = kind /\ r.status = status
  BY ResponseFields
<1>2. /\ a \in SessionRecords /\ a.responses = x.responses /\ a.pending = x.pending
      /\ a.subscribed = x.subscribed /\ a.capture = x.capture
  BY DEF Admit, SessionRecords
<1> HIDE DEF a, r
<1>3. Lawful(a, P)
  BY <1>2 DEF Lawful
<1>4. Lawful(Push(a, r), P)
  BY <1>1, <1>2, <1>3, PushLawful
<1> QED
  BY <1>4 DEF Answer, a, r

\* Whatever it was before, a revoked session holds nothing that is not permitted.
LEMMA RevokeLawful ==
  ASSUME NEW x, Sound(x), NEW P, NEW q, Answerable(x, q),
         Elements(q) = {c \in DOMAIN x.pending : ~May(x.pending[c].kind, P)}
  PROVE  Lawful(Revoke(x, q, P), P)
<1> DEFINE w == Withdrawn(x, P)
           capture == IF \E c \in Elements(q) : w.pending[c].kind = "captureOpen" THEN NoCapture ELSE w.capture
           y == Settle(w, q, "PermissionDenied", capture)
           old == w.responses
           new == y.responses
<1>1. /\ Sound(w) /\ w.responses = Censored(x.responses, P) /\ w.pending = x.pending
      /\ w.subscribed => May("event", P)
      /\ w.capture = IF May("captureOpen", P) THEN x.capture ELSE NoCapture
  BY WithdrawnSound
<1>2. w \in SessionRecords /\ Answerable(w, q) /\ "PermissionDenied" \in Statuses
  BY <1>1 DEF Sound, Answerable, Statuses
<1>3. Revoke(x, q, P) = y
  BY RevokeSound DEF Abort
<1>4. \A i \in DOMAIN old : old[i].status = "Ok" => May(old[i].kind, P)
  <2>1. x.responses \in Seq(Responses)
    BY Fields DEF Sound
  <2>2. \A i \in DOMAIN old : ~May(old[i].kind, P) => old[i].status = "PermissionDenied"
    BY <1>1, <2>1, CensoredQueue
  <2> QED
    BY <2>2
<1>5. NoCapture \in Captures /\ w.capture \in Captures
  BY <1>2, Fields DEF NoCapture, Captures
<1>6. capture \in Captures
  BY <1>5
<1>7. capture # NoCapture => May("captureOpen", P)
  BY <1>1
<1> HIDE DEF w, capture
<1>8. /\ y.subscribed = w.subscribed /\ y.capture = capture
      /\ DOMAIN y.pending = DOMAIN w.pending \ Elements(q)
      /\ \A d \in DOMAIN y.pending : y.pending[d] = w.pending[d]
  BY <1>1, <1>2, <1>6, SettleFields, SettleTyped
<1>9. /\ \A i \in DOMAIN old : new[i] = old[i]
      /\ \A i \in DOMAIN new : i \in DOMAIN old \/ \E j \in DOMAIN q : i = Len(old) + j
  BY <1>2, SettleResponses
<1>10. \A i \in DOMAIN q : new[Len(old) + i].status # "Ok"
  <2> TAKE i \in DOMAIN q
  <2>1. /\ q[i] \in DOMAIN w.pending /\ q[i] \in Correlations
        /\ new[Len(old) + i] = Response(q[i], w.pending[q[i]].kind, "PermissionDenied")
    BY <1>2, SettleResponses
  <2>2. w.pending[q[i]].kind \in AllKinds
    BY <1>2, <2>1, Fields
  <2> QED
    BY <1>2, <2>1, <2>2, ResponseFields
<1> HIDE DEF y
<1>11. Lawful(y, P)
  BY <1>1, <1>4, <1>7, <1>8, <1>9, <1>10 DEF Lawful
<1> QED
  BY <1>3, <1>11
-----------------------------------------------------------------------------
\* What the operations write

Now(o) == granted[o] \cap services[o]

\* A session x may become y in a step that changes no grant.
Keeps(x, y) ==
  /\ Sound(y)
  /\ y.owner = x.owner
  /\ Lawful(x, Now(x.owner)) => Lawful(y, Now(x.owner))

LEMMA AbortKeeps ==
  ASSUME NEW x, Sound(x), NEW q, Answerable(x, q), NEW status \in Statuses
  PROVE  Keeps(x, Abort(x, q, status))
<1>1. Abort(x, q, status).owner = x.owner
  BY SettleFields DEF Abort, Sound
<1> QED
  BY <1>1, AbortSound, AbortLawful DEF Keeps

LEMMA CompleteKeeps ==
  ASSUME NEW x, Sound(x), NEW c \in DOMAIN x.pending, NEW status \in Statuses
  PROVE  Keeps(x, Complete(x, c, status))
<1>1. Complete(x, c, status).owner = x.owner
  BY SettleFields DEF Complete, Abort, Sound
<1> QED
  BY <1>1, CompleteSound, CompleteLawful DEF Keeps

LEMMA AnswerKeeps ==
  ASSUME NEW x, Sound(x), ~Full(x), NEW c \in Correlations \ x.admitted,
         NEW kind \in AllKinds, NEW status \in Statuses, status = "Ok" => Allowed(x.owner, kind)
  PROVE  Keeps(x, Answer(x, c, kind, status))
<1>1. status = "Ok" => May(kind, Now(x.owner))
  BY DEF Allowed, May, Now
<1>2. x \in SessionRecords
  BY DEF Sound
<1> QED
  BY <1>1, <1>2, AnswerSound, AnswerLawful DEF Keeps

LEMMA KeepsTransitive ==
  ASSUME NEW x, NEW y, NEW z, Keeps(x, y), Keeps(y, z)
  PROVE  Keeps(x, z)
  BY DEF Keeps

\* A change of the fields that only revocation looks at.
LEMMA OtherFieldsKeep ==
  ASSUME NEW x, Sound(x), NEW b \in BOOLEAN, NEW capture \in Captures,
         b => x.subscribed \/ Allowed(x.owner, "event"),
         capture # NoCapture => x.capture # NoCapture \/ Allowed(x.owner, "captureOpen")
  PROVE  /\ Keeps(x, [x EXCEPT !.subscribed = b])
         /\ Keeps(x, [x EXCEPT !.capture = capture])
<1> DEFINE P == Now(x.owner)
           Same(y) == y.responses = x.responses /\ y.pending = x.pending /\ y.owner = x.owner
<1>1. x \in SessionRecords
  BY DEF Sound
<1>2. /\ b => x.subscribed \/ May("event", P)
      /\ capture # NoCapture => x.capture # NoCapture \/ May("captureOpen", P)
  BY DEF Allowed, May, Now
<1> HIDE DEF P
<1>3. /\ Same([x EXCEPT !.subscribed = b]) /\ [x EXCEPT !.subscribed = b].subscribed = b
      /\ [x EXCEPT !.subscribed = b].capture = x.capture
      /\ Same([x EXCEPT !.capture = capture]) /\ [x EXCEPT !.capture = capture].capture = capture
      /\ [x EXCEPT !.capture = capture].subscribed = x.subscribed
  BY <1>1 DEF SessionRecords
<1>4. ASSUME NEW y, Same(y), y.subscribed => x.subscribed \/ May("event", P),
             y.capture # NoCapture => x.capture # NoCapture \/ May("captureOpen", P),
             Lawful(x, P)
      PROVE  Lawful(y, P)
  BY <1>4 DEF Lawful
<1> QED
  BY <1>2, <1>3, <1>4, OtherFieldsSound DEF Keeps, P

\* The capture as Dispatch sees it.
LEMMA CaptureNowKeeps ==
  ASSUME NEW x, Sound(x), NEW capture \in CaptureNow(x), NEW z, z = [x EXCEPT !.capture = capture]
  PROVE  /\ Keeps(x, z) /\ capture \in Captures
         /\ z.admitted = x.admitted /\ z.responses = x.responses /\ z.reserved = x.reserved
         /\ z.clipboardPending = x.clipboardPending /\ z.capture = capture
<1>1. x \in SessionRecords
  BY DEF Sound
<1>2. capture = x.capture \/ capture = NoCapture
  BY DEF CaptureNow
<1>3. capture \in Captures
  <2>1. x.capture \in Captures /\ NoCapture \in Captures
    BY <1>1, Fields DEF NoCapture, Captures
  <2> QED
    BY <2>1, <1>2
<1>4. Keeps(x, z)
  BY <1>2, <1>3, OtherFieldsKeep
<1> QED
  BY <1>1, <1>3, <1>4 DEF SessionRecords

LEMMA InjectKeeps ==
  ASSUME NEW x, Sound(x), ~Full(x), NEW c \in Correlations \ x.admitted, Allowed(x.owner, "inject")
  PROVE  Keeps(x, Injected(x, c))
<1> DEFINE P == Now(x.owner)
<1>1. x \in SessionRecords /\ "inject" \in AllKinds /\ "Ok" \in Statuses
  BY DEF Sound, AllKinds, Statuses
<1>2. CASE Injected(x, c) = Answer(x, c, "inject", "Ok")
  BY <1>1, <1>2, AnswerKeeps
<1>3. CASE /\ Allowed(x.owner, "event")
           /\ Injected(x, c) = Answer(Push(x, Event), c, "inject", "Ok")
  <2> DEFINE y == Push(x, Event)
  <2>1. Event \in Responses /\ Event.kind = "event"
    BY ResponseFields DEF Event, Statuses
  <2>2. y \in SessionRecords /\ y.owner = x.owner
    BY <1>1, <2>1, Pushed
  <2>3. May("event", P) /\ May("inject", P)
    BY <1>3 DEF Allowed, May, Now
  <2>4. Lawful(x, P) => Lawful(y, P)
    BY <1>1, <2>1, <2>3, PushLawful
  <2>5. Lawful(y, P) => Lawful(Answer(y, c, "inject", "Ok"), P)
    BY <1>1, <2>2, <2>3, AnswerLawful
  <2>6. Answer(y, c, "inject", "Ok").owner = x.owner
    <3> DEFINE a == Admit(y, c)
               r == Response(c, "inject", "Ok")
    <3>1. a \in SessionRecords /\ a.owner = x.owner
      BY <2>2 DEF Admit, SessionRecords
    <3>2. r \in Responses
      BY <1>1, ResponseFields
    <3> HIDE DEF a, r
    <3>3. Push(a, r).owner = x.owner
      BY <3>1, <3>2, Pushed
    <3> QED
      BY <3>3 DEF Answer, a, r
  <2>7. Sound(Injected(x, c))
    BY InjectedSound
  <2> QED
    BY <1>3, <2>4, <2>5, <2>6, <2>7 DEF Keeps
<1> QED
  BY <1>1, <1>2, <1>3, InjectedIs

\* A request left pending, with what its kind sets besides.
LEMMA ReserveKeeps ==
  ASSUME NEW x, Sound(x), ~Full(x), NEW c \in Correlations \ x.admitted, NEW kind \in AllKinds,
         Allowed(x.owner, kind)
  PROVE  LET z == Reserve(Admit(x, c), c, kind) IN
         /\ kind # "clipboard" => Keeps(x, z)
         /\ kind = "clipboard" /\ ~x.clipboardPending => Keeps(x, [z EXCEPT !.clipboardPending = TRUE])
         /\ kind = "captureOpen" => Keeps(x, [z EXCEPT !.capture.pending = TRUE])
<1> DEFINE z == Reserve(Admit(x, c), c, kind)
           u == [z EXCEPT !.clipboardPending = TRUE]
           v == [z EXCEPT !.capture.pending = TRUE]
           P == Now(x.owner)
           D == DOMAIN x.pending \cup {c}
           t == [d \in D |-> IF d = c THEN [kind |-> kind, expired |-> FALSE] ELSE x.pending[d]]
<1>1. x \in SessionRecords
  BY DEF Sound
<1>2. t \in PendingTables
  <2>1. [kind |-> kind, expired |-> FALSE] \in Requested
    BY DEF Requested
  <2>2. D \in SUBSET Correlations /\ \A d \in DOMAIN x.pending : x.pending[d] \in Requested
    BY <1>1, Fields
  <2>3. t \in [D -> Requested]
    BY <2>1, <2>2
  <2> QED
    BY <2>2, <2>3, Table
<1>3. z = [x EXCEPT !.admitted = @ \cup {c}, !.reserved = @ + 1, !.pending = t]
  BY <1>1 DEF Reserve, Admit, SessionRecords
<1>4. DOMAIN t = D /\ t[c].kind = kind /\ \A d \in DOMAIN x.pending : d # c => t[d] = x.pending[d]
  OBVIOUS
<1>5. May(kind, P)
  BY DEF Allowed, May, Now
<1> HIDE DEF t, P
<1>6. /\ z \in SessionRecords
      /\ z.responses = x.responses /\ z.pending = t /\ z.delivered = x.delivered
      /\ z.subscribed = x.subscribed /\ z.clipboardPending = x.clipboardPending
      /\ z.capture = x.capture /\ z.owner = x.owner
  <2>1. x.admitted \cup {c} \in SUBSET Correlations /\ x.reserved + 1 \in Nat
    <3>1. x.admitted \in SUBSET Correlations /\ x.reserved \in Nat
      BY <1>1, Fields
    <3>2. c \in Correlations
      OBVIOUS
    <3>3. x.admitted \cup {c} \subseteq Correlations
      BY <3>1, <3>2
    <3> QED
      BY <3>1, <3>3
  <2> HIDE DEF z
  <2> QED
    BY <2>1, <1>1, <1>2, <1>3 DEF SessionRecords
<1> DEFINE Like(y) ==
  /\ y \in SessionRecords
  /\ y.responses = z.responses /\ y.pending = z.pending /\ y.delivered = z.delivered
  /\ y.admitted = z.admitted /\ y.reserved = z.reserved
  /\ y.subscribed = z.subscribed /\ y.owner = z.owner
<1>7. Like(z)
  BY <1>6
<1>8. Like(u) /\ u.clipboardPending /\ u.capture = z.capture
  <2> HIDE DEF z
  <2> QED
    BY <1>6 DEF SessionRecords
<1>9. Like(v) /\ v.clipboardPending = z.clipboardPending
  <2> HIDE DEF z
  <2> QED
    BY <1>6 DEF SessionRecords
<1>10. ASSUME NEW y, Like(y), y.capture # NoCapture => x.capture # NoCapture \/ May("captureOpen", P),
              Lawful(x, P)
       PROVE  Lawful(y, P)
  <2> HIDE DEF z
  <2>1. \A d \in DOMAIN t : May(t[d].kind, P)
    BY <1>4, <1>5, <1>10 DEF Lawful
  <2> QED
    BY <2>1, <1>6, <1>10 DEF Lawful
<1>11. ASSUME NEW y, Like(y), IF kind = "clipboard" THEN ~x.clipboardPending /\ y.clipboardPending
                              ELSE y.clipboardPending = x.clipboardPending
       PROVE  Sound(y)
  <2>1. z = Reserve(Admit(x, c), c, kind)
    OBVIOUS
  <2> HIDE DEF z
  <2> QED
    BY <2>1, <1>6, <1>11, ReserveSound
<1> HIDE DEF z, u, v
<1>12. kind # "clipboard" => Keeps(x, z)
  BY <1>6, <1>7, <1>10, <1>11 DEF Keeps, P
<1>13. kind = "clipboard" /\ ~x.clipboardPending => Keeps(x, u)
  BY <1>6, <1>8, <1>10, <1>11 DEF Keeps, P
<1>14. kind = "captureOpen" => Keeps(x, v)
  BY <1>5, <1>6, <1>9, <1>10, <1>11 DEF Keeps, P
<1> QED
  BY <1>12, <1>13, <1>14 DEF z, u, v
\* A step that changes session s alone, and soundly.
Wrote(s) == s \in DOMAIN sessions /\ \E y : Update(s, y) /\ Keeps(sessions[s], y)

AllSound == \A s \in DOMAIN sessions : Sound(sessions[s])

LEMMA SubmitWrites ==
  ASSUME AllSound, NEW o \in Owners, NEW s \in DOMAIN sessions, Submit(o, s)
  PROVE  Erase({s}) \/ Wrote(s)
<1> DEFINE x == sessions[s]
<1>1. Sound(x) /\ x \in SessionRecords
  BY DEF AllSound, Sound
<1>2. \A k \in Kinds : k \in AllKinds
  BY ConstantsAssumption
<1>3. "Ok" \in Statuses /\ "PermissionDenied" \in Statuses /\ "InvalidArgument" \in Statuses
      /\ "Busy" \in Statuses /\ "NotFound" \in Statuses
  BY DEF Statuses
<1>4. CASE SubmitProtocolError(o, s)
  BY <1>4 DEF SubmitProtocolError
<1>5. ASSUME NEW c \in Correlations, SubmitNew(o, s, c)
      PROVE  x.owner = o /\ ~Full(x) /\ c \in Correlations \ x.admitted
  BY <1>5 DEF SubmitNew, CanSubmit, Owns
<1>6. ASSUME NEW c \in Correlations, NEW kind \in Kinds,
             SubmitDenied(o, s, c, kind) \/ SubmitInvalid(o, s, c, kind)
      PROVE  Wrote(s)
  <2>1. SubmitNew(o, s, c)
    BY <1>6 DEF SubmitDenied, SubmitInvalid
  <2>2. PICK status \in {"PermissionDenied", "InvalidArgument"} : Update(s, Answer(x, c, kind, status))
    BY <1>6 DEF SubmitDenied, SubmitInvalid
  <2>3. Keeps(x, Answer(x, c, kind, status))
    BY <1>1, <1>2, <1>3, <1>5, <2>1, AnswerKeeps
  <2> QED
    BY <2>2, <2>3 DEF Wrote
<1>7. ASSUME NEW c \in Correlations, SubmitCore(o, s, c)
      PROVE  Wrote(s)
  <2>1. SubmitNew(o, s, c) /\ Update(s, Answer(x, c, "core", "Ok"))
    BY <1>7 DEF SubmitCore
  <2>2. Allowed(x.owner, "core") /\ "core" \in AllKinds
    BY DEF Allowed, PermissionOf, AllKinds
  <2>3. Keeps(x, Answer(x, c, "core", "Ok"))
    BY <1>1, <1>3, <1>5, <2>1, <2>2, AnswerKeeps
  <2> QED
    BY <2>1, <2>3 DEF Wrote
<1>8. ASSUME NEW c \in Correlations, SubmitInject(o, s, c)
      PROVE  Wrote(s)
  <2>1. SubmitNew(o, s, c) /\ Allowed(o, "inject") /\ Update(s, Injected(x, c))
    BY <1>8 DEF SubmitInject, Injected
  <2>2. Keeps(x, Injected(x, c))
    BY <1>1, <1>5, <2>1, InjectKeeps
  <2> QED
    BY <2>1, <2>2 DEF Wrote
<1>9. ASSUME NEW c \in Correlations, SubmitStorage(o, s, c)
      PROVE  Wrote(s)
  <2>1. /\ SubmitNew(o, s, c) /\ Allowed(o, "storage") /\ "storage" \in AllKinds
        /\ Update(s, Reserve(Admit(x, c), c, "storage"))
    BY <1>9 DEF SubmitStorage, AllKinds
  <2>2. Keeps(x, Reserve(Admit(x, c), c, "storage"))
    BY <1>1, <1>5, <2>1, ReserveKeeps
  <2> QED
    BY <2>1, <2>2 DEF Wrote
<1>10. ASSUME NEW c \in Correlations, SubmitClipboard(o, s, c)
       PROVE  Wrote(s)
  <2>1. SubmitNew(o, s, c) /\ Allowed(o, "clipboard") /\ "clipboard" \in AllKinds
    BY <1>10 DEF SubmitClipboard, AllKinds
  <2>2. CASE x.clipboardPending
    <3>1. Update(s, Answer(x, c, "clipboard", "Busy"))
      BY <1>10, <2>2 DEF SubmitClipboard
    <3>2. Keeps(x, Answer(x, c, "clipboard", "Busy"))
      BY <1>1, <1>3, <1>5, <2>1, AnswerKeeps
    <3> QED
      BY <3>1, <3>2 DEF Wrote
  <2>3. CASE ~x.clipboardPending
    <3>1. Update(s, [Reserve(Admit(x, c), c, "clipboard") EXCEPT !.clipboardPending = TRUE])
      BY <1>10, <2>3 DEF SubmitClipboard
    <3>2. Keeps(x, [Reserve(Admit(x, c), c, "clipboard") EXCEPT !.clipboardPending = TRUE])
      BY <1>1, <1>5, <2>1, <2>3, ReserveKeeps
    <3> QED
      BY <3>1, <3>2 DEF Wrote
  <2> QED
    BY <2>2, <2>3
<1>11. ASSUME NEW c \in Correlations, SubmitCapture(o, s, c)
       PROVE  Wrote(s)
  <2>1. SubmitNew(o, s, c) /\ Allowed(o, "captureOpen") /\ "captureOpen" \in AllKinds
    BY <1>11 DEF SubmitCapture, AllKinds
  <2>2. PICK capture \in CaptureNow(x) :
          LET z == [x EXCEPT !.capture = capture] IN
            IF capture # NoCapture
            THEN Update(s, Answer(z, c, "captureOpen", "Busy"))
            ELSE Update(s, [Reserve(Admit(z, c), c, "captureOpen") EXCEPT !.capture.pending = TRUE])
    BY <1>11 DEF SubmitCapture
  <2> DEFINE z == [x EXCEPT !.capture = capture]
  <2>3. /\ Keeps(x, z) /\ z.admitted = x.admitted /\ z.responses = x.responses
        /\ z.reserved = x.reserved
    BY <1>1, CaptureNowKeeps
  <2>4. \/ Update(s, Answer(z, c, "captureOpen", "Busy"))
        \/ Update(s, [Reserve(Admit(z, c), c, "captureOpen") EXCEPT !.capture.pending = TRUE])
    BY <2>2
  <2> HIDE DEF z
  <2>5. Sound(z) /\ ~Full(z) /\ z.owner = o /\ c \in Correlations \ z.admitted
    BY <1>5, <2>1, <2>3 DEF Keeps, Full
  <2>6. /\ Keeps(z, Answer(z, c, "captureOpen", "Busy"))
        /\ Keeps(z, [Reserve(Admit(z, c), c, "captureOpen") EXCEPT !.capture.pending = TRUE])
    BY <1>3, <2>1, <2>5, AnswerKeeps, ReserveKeeps
  <2> QED
    BY <2>3, <2>4, <2>6, KeepsTransitive DEF Wrote
<1>12. ASSUME NEW c \in Correlations, NEW kind \in {"subscribe", "unsubscribe"},
              SubmitSubscription(o, s, c, kind)
       PROVE  Wrote(s)
  <2>1. SubmitNew(o, s, c) /\ kind \in AllKinds
    BY <1>12 DEF SubmitSubscription, AllKinds
  <2>2. CASE Allowed(o, "event")
    <3> DEFINE y == Answer(x, c, kind, "Ok")
    <3>1. Update(s, [y EXCEPT !.subscribed = kind = "subscribe"])
      BY <1>12, <2>2 DEF SubmitSubscription
    <3>2. Allowed(x.owner, kind)
      BY DEF Allowed, PermissionOf
    <3>3. Keeps(x, y)
      BY <1>1, <1>3, <1>5, <2>1, <3>2, AnswerKeeps
    <3> HIDE DEF y
    <3>4. Sound(y) /\ y.owner = o /\ y.capture \in Captures
      BY <1>5, <2>1, <3>3, Fields DEF Keeps, Sound
    <3>5. Keeps(y, [y EXCEPT !.subscribed = kind = "subscribe"])
      BY <2>2, <3>4, OtherFieldsKeep
    <3> QED
      BY <3>1, <3>3, <3>5, KeepsTransitive DEF Wrote
  <2>3. CASE ~Allowed(o, "event")
    <3>1. Update(s, Answer(x, c, kind, "PermissionDenied"))
      BY <1>12, <2>3 DEF SubmitSubscription
    <3>2. Keeps(x, Answer(x, c, kind, "PermissionDenied"))
      BY <1>1, <1>3, <1>5, <2>1, AnswerKeeps
    <3> QED
      BY <3>1, <3>2 DEF Wrote
  <2> QED
    BY <2>2, <2>3
<1>13. ASSUME NEW c \in Correlations, NEW h \in Correlations, SubmitCaptureClose(o, s, c, h)
       PROVE  Wrote(s)
  <2>1. SubmitNew(o, s, c) /\ Allowed(o, "captureClose") /\ "captureClose" \in AllKinds
    BY <1>13 DEF SubmitCaptureClose, AllKinds
  <2>2. PICK capture \in CaptureNow(x) :
          LET z == [x EXCEPT !.capture = capture] IN
            Update(s, IF capture.handle = h
                      THEN [Answer(z, c, "captureClose", "Ok") EXCEPT !.capture = NoCapture]
                      ELSE Answer(z, c, "captureClose", "NotFound"))
    BY <1>13 DEF SubmitCaptureClose
  <2> DEFINE z == [x EXCEPT !.capture = capture]
             y == Answer(z, c, "captureClose", "Ok")
  <2>3. /\ Keeps(x, z) /\ z.admitted = x.admitted /\ z.responses = x.responses
        /\ z.reserved = x.reserved
    BY <1>1, CaptureNowKeeps
  <2>4. \/ Update(s, [y EXCEPT !.capture = NoCapture])
        \/ Update(s, Answer(z, c, "captureClose", "NotFound"))
    BY <2>2
  <2> HIDE DEF z
  <2>5. Sound(z) /\ ~Full(z) /\ z.owner = o /\ c \in Correlations \ z.admitted
    BY <1>5, <2>1, <2>3 DEF Keeps, Full
  <2>6. Keeps(z, y) /\ Keeps(z, Answer(z, c, "captureClose", "NotFound"))
    BY <1>3, <2>1, <2>5, AnswerKeeps
  <2> HIDE DEF y
  <2>7. NoCapture \in Captures
    BY DEF NoCapture, Captures
  <2>8. Keeps(y, [y EXCEPT !.capture = NoCapture])
    BY <2>6, <2>7, OtherFieldsKeep DEF Keeps
  <2> QED
    BY <2>3, <2>4, <2>6, <2>8, KeepsTransitive DEF Wrote
<1> QED
  BY <1>4, <1>6, <1>7, <1>8, <1>9, <1>10, <1>11, <1>12, <1>13 DEF Submit
LEMMA PollWrites ==
  ASSUME AllSound, NEW o \in Owners, NEW s \in DOMAIN sessions, Poll(o, s) \/ PollTooSmall(o, s)
  PROVE  Wrote(s)
<1> DEFINE x == sessions[s]
<1>1. Sound(x) /\ IsFiniteSet(DOMAIN x.pending)
  BY Fields DEF AllSound, Sound
<1>2. PICK q \in Orders(Expired(x)) :
        LET y == Abort(x, q, "TimedOut") IN
          y.responses # <<>> /\ (Update(s, Deliver(y)) \/ Update(s, y))
  BY DEF Poll, PollTooSmall, PollWith
<1> DEFINE y == Abort(x, q, "TimedOut")
<1>3. Answerable(x, q)
  <2>1. Expired(x) \in SUBSET DOMAIN x.pending
    BY DEF Expired
  <2>2. IsFiniteSet(Expired(x))
    BY <1>1, <2>1, FS_Subset
  <2>3. q \in Seq(Expired(x)) /\ \A i, j \in DOMAIN q : q[i] = q[j] => i = j
    BY <2>2, OrderOfSet
  <2> QED
    BY <2>1, <2>3, SeqMonotonic DEF Answerable
<1>4. Keeps(x, y)
  BY <1>1, <1>3, AbortKeeps DEF Statuses
<1>5. y.responses # <<>> /\ (Update(s, Deliver(y)) \/ Update(s, y))
  BY <1>2
<1> HIDE DEF y
<1>6. Keeps(y, Deliver(y))
  <2>1. Sound(y) /\ y \in SessionRecords
    BY <1>4 DEF Keeps, Sound
  <2>2. Sound(Deliver(y))
    BY <1>5, <2>1, DeliverSound
  <2>3. /\ Deliver(y).owner = y.owner /\ Deliver(y).responses = Tail(y.responses)
        /\ Deliver(y).pending = y.pending /\ Deliver(y).subscribed = y.subscribed
        /\ Deliver(y).capture = y.capture
    BY <2>1 DEF Deliver, SessionRecords
  <2>4. y.responses \in Seq(Responses)
    BY <2>1, Fields
  <2>5. \A i \in DOMAIN Tail(y.responses) :
          i + 1 \in DOMAIN y.responses /\ Tail(y.responses)[i] = y.responses[i + 1]
    <3> DEFINE r == y.responses
    <3>1. r \in Seq(Responses) /\ r # <<>>
      BY <1>5, <2>4
    <3> HIDE DEF r
    <3>2. \A i \in DOMAIN Tail(r) : i + 1 \in DOMAIN r /\ Tail(r)[i] = r[i + 1]
      BY <3>1
    <3> QED
      BY <3>2 DEF r
  <2>6. \A P : Lawful(y, P) => Lawful(Deliver(y), P)
    BY <2>3, <2>5 DEF Lawful
  <2> QED
    BY <2>2, <2>3, <2>6 DEF Keeps
<1> QED
  BY <1>4, <1>5, <1>6, KeepsTransitive DEF Wrote

LEMMA CancelWrites ==
  ASSUME AllSound, NEW o \in Owners, NEW s \in DOMAIN sessions, NEW c \in Correlations,
         CancelPending(o, s, c) \/ CancelAnswered(o, s, c)
  PROVE  Wrote(s)
<1> DEFINE x == sessions[s]
<1>1. Sound(x) /\ x \in SessionRecords
  BY DEF AllSound, Sound
<1>2. CASE CancelPending(o, s, c)
  <2>1. c \in DOMAIN x.pending /\ Update(s, Abort(x, <<c>>, "Cancelled"))
    BY <1>2 DEF CancelPending
  <2>2. Keeps(x, Abort(x, <<c>>, "Cancelled"))
    BY <1>1, <2>1, OneAnswerable, AbortKeeps DEF Statuses
  <2> QED
    BY <2>1, <2>2 DEF Wrote
<1>3. CASE CancelAnswered(o, s, c)
  <2>1. PICK i \in DOMAIN x.responses : Update(s, [x EXCEPT !.responses[i].status = "Cancelled"])
    BY <1>3 DEF CancelAnswered
  <2> DEFINE y == [x EXCEPT !.responses[i].status = "Cancelled"]
  <2>2. Sound(y)
    BY <1>1, CancelSound
  <2>3. x.responses \in Seq(Responses)
    BY <1>1, Fields
  <2>4. x.responses[i] \in Responses
    BY <2>3
  <2>5. /\ y.owner = x.owner /\ y.pending = x.pending /\ y.subscribed = x.subscribed
        /\ y.capture = x.capture
        /\ y.responses = [x.responses EXCEPT ![i] = [x.responses[i] EXCEPT !.status = "Cancelled"]]
    BY <1>1 DEF SessionRecords
  <2>6. /\ DOMAIN y.responses = DOMAIN x.responses /\ y.responses[i].status = "Cancelled"
        /\ \A j \in DOMAIN x.responses : j # i => y.responses[j] = x.responses[j]
    BY <2>4, <2>5 DEF Responses
  <2> HIDE DEF y
  <2>7. \A P : Lawful(x, P) => Lawful(y, P)
    BY <2>5, <2>6 DEF Lawful
  <2>8. Keeps(x, y)
    BY <2>2, <2>5, <2>7 DEF Keeps
  <2> QED
    BY <2>1, <2>8 DEF Wrote, y
<1> QED
  BY <1>2, <1>3

LEMMA ExpireWrites ==
  ASSUME AllSound, NEW s, NEW c, Expire(s, c)
  PROVE  Wrote(s)
<1> DEFINE x == sessions[s]
           y == [x EXCEPT !.pending[c].expired = TRUE]
<1>1. s \in DOMAIN sessions /\ c \in DOMAIN x.pending /\ Update(s, y)
  BY DEF Expire, Waits
<1>2. Sound(x) /\ x \in SessionRecords
  BY <1>1 DEF AllSound, Sound
<1>3. Sound(y)
  BY <1>1, <1>2, ExpireSound
<1>4. x.pending[c] \in Requested
  BY <1>1, <1>2, Fields
<1>5. /\ y.owner = x.owner /\ y.responses = x.responses /\ y.subscribed = x.subscribed
      /\ y.capture = x.capture
      /\ y.pending = [x.pending EXCEPT ![c] = [x.pending[c] EXCEPT !.expired = TRUE]]
  BY <1>2 DEF SessionRecords
<1>6. DOMAIN y.pending = DOMAIN x.pending /\ \A d \in DOMAIN x.pending : y.pending[d].kind = x.pending[d].kind
  BY <1>4, <1>5 DEF Requested
<1> HIDE DEF y
<1>7. \A P : Lawful(x, P) => Lawful(y, P)
  BY <1>5, <1>6 DEF Lawful
<1>8. Keeps(x, y)
  BY <1>3, <1>5, <1>7 DEF Keeps
<1> QED
  BY <1>1, <1>8 DEF Wrote

LEMMA WorkerWrites ==
  ASSUME AllSound, NEW w \in Workers, Worker(w)
  PROVE  UNCHANGED sessions \/ \E s : Wrote(s)
<1> DEFINE s == running[w].task.session
           c == running[w].task.correlation
           x == sessions[s]
<1>1. Waits(s, c) => s \in DOMAIN sessions /\ c \in DOMAIN x.pending /\ Sound(x)
  BY DEF Waits, AllSound
<1>2. \A status \in {"TimedOut", "PermissionDenied"} : Waits(s, c) => Keeps(x, Abort(x, <<c>>, status))
  BY <1>1, OneAnswerable, AbortKeeps DEF Statuses
<1>3. \A status \in {"Ok", "IoError"} : Waits(s, c) => Keeps(x, Complete(x, c, status))
  BY <1>1, CompleteKeeps DEF Statuses
<1>4. CASE TakeTask(w)
  BY <1>4 DEF TakeTask
<1>5. CASE StartStorage(w)
  <2>1. \/ UNCHANGED sessions
        \/ Waits(s, c) /\ \E status \in {"TimedOut", "PermissionDenied"} : Update(s, Abort(x, <<c>>, status))
    BY <1>5 DEF StartStorage
  <2> QED
    BY <1>1, <1>2, <2>1 DEF Wrote
<1>6. CASE FinishStorage(w)
  <2>1. \/ UNCHANGED sessions
        \/ Waits(s, c) /\ \E status \in {"Ok", "IoError"} : Update(s, Complete(x, c, status))
    BY <1>6 DEF FinishStorage
  <2> QED
    BY <1>1, <1>3, <2>1 DEF Wrote
<1> QED
  BY <1>4, <1>5, <1>6 DEF Worker

LEMMA HostCallbackWrites ==
  ASSUME AllSound, external \subseteq Tasks, HostCallback
  PROVE  UNCHANGED sessions \/ \E s : Wrote(s)
<1>1. PICK t \in external : ClipboardReturns(t) \/ CaptureRefused(t) \/ CaptureStored(t) \/ CaptureReported(t)
  BY DEF HostCallback
<1> DEFINE s == t.session
           c == t.correlation
           x == sessions[s]
<1>2. c \in Correlations
  BY DEF Tasks
<1>3. Waits(s, c) => s \in DOMAIN sessions /\ c \in DOMAIN x.pending /\ Sound(x) /\ x \in SessionRecords
  BY DEF Waits, AllSound, Sound
<1>4. ASSUME NEW status \in Statuses, CallbackArrives(t, status)
      PROVE  UNCHANGED sessions \/ Wrote(s)
  <2>1. UNCHANGED sessions \/ (Waits(s, c) /\ Update(s, Complete(x, c, status)))
    BY <1>4 DEF CallbackArrives
  <2>2. Waits(s, c) => Keeps(x, Complete(x, c, status))
    BY <1>3, CompleteKeeps
  <2> QED
    BY <1>3, <2>1, <2>2 DEF Wrote
<1>5. CASE ClipboardReturns(t) \/ CaptureRefused(t) \/ CaptureReported(t)
  <2>1. \E status \in Statuses : CallbackArrives(t, status)
    BY <1>5 DEF ClipboardReturns, CaptureRefused, CaptureReported, Statuses
  <2> QED
    BY <1>4, <2>1
<1>6. CASE CaptureStored(t)
  <2> DEFINE capture == [handle |-> c, pending |-> FALSE]
  <2>1. \/ UNCHANGED sessions
        \/ Waits(s, c) /\ x.capture.pending /\ Update(s, [x EXCEPT !.capture = capture])
    BY <1>6 DEF CaptureStored
  <2>2. CASE Waits(s, c) /\ x.capture.pending /\ Update(s, [x EXCEPT !.capture = capture])
    <3>1. x.capture # NoCapture
      BY <2>2 DEF NoCapture
    <3>2. capture \in Captures
      BY <1>2 DEF Captures
    <3>3. Keeps(x, [x EXCEPT !.capture = capture])
      BY <1>3, <2>2, <3>1, <3>2, OtherFieldsKeep
    <3> QED
      BY <1>3, <2>2, <3>3 DEF Wrote
  <2> QED
    BY <2>1, <2>2
<1> QED
  BY <1>1, <1>5, <1>6
-----------------------------------------------------------------------------
\* The sessions together

\* Ids are handed out in order; an owner that runs has one session; a session
\* without a grant change under way holds nothing that is not permitted.
SessionsOK ==
  /\ nextSession \in 1..(LastSession + 1)
  /\ \A s \in DOMAIN sessions : s \in 1..(nextSession - 1)
  /\ AllSound
  /\ opening \in [Owners -> 0..MaxOpens]
  /\ OneSessionPerOwner
  /\ \A s \in DOMAIN sessions :
       sessions[s].owner \notin settling => Lawful(sessions[s], Now(sessions[s].owner))

GrantsTyped ==
  /\ granted \in [Owners -> SUBSET Permissions]
  /\ services \in [Owners -> SUBSET Permissions]
  /\ settling \subseteq Owners
  /\ life \in [Owners -> {"live", "stopped"}]

TasksTyped ==
  /\ work \in Seq(Tasks)
  /\ running \in [Workers -> [task : Tasks \cup {NoTask}, started : BOOLEAN]]
  /\ external \subseteq Tasks

IInv == SessionsOK /\ GrantsTyped /\ TasksTyped

LEMMA SessionsFinite ==
  ASSUME SessionsOK, NEW p
  PROVE  IsFiniteSet(SessionsOf(p)) /\ Cardinality(SessionsOf(p)) \in Nat
<1>1. nextSession \in Nat /\ SessionsOf(p) \subseteq 1..(nextSession - 1)
  BY ConstantsAssumption DEF SessionsOK, SessionsOf
<1>2. nextSession - 1 \in Int /\ 1 \in Int
  BY <1>1
<1>3. IsFiniteSet(1..(nextSession - 1))
  BY <1>2, FS_Interval
<1>4. IsFiniteSet(SessionsOf(p))
  BY <1>1, <1>3, FS_Subset
<1> QED
  BY <1>4, FS_CardinalityType

\* A step that opens no session and lets none of the calls in Open begin.
LEMMA FewerCount ==
  ASSUME SessionsOK, opening' \in [Owners -> 0..MaxOpens],
         \A p \in Owners : SessionsOf(p)' \subseteq SessionsOf(p),
         \A p \in Owners : opening'[p] <= opening[p],
         \A p \in Owners : life'[p] = "live" => life[p] = "live"
  PROVE  OneSessionPerOwner'
<1> SUFFICES ASSUME NEW p \in Owners
             PROVE  /\ life'[p] = "live" => Cardinality(SessionsOf(p)') <= 1
                    /\ Cardinality(SessionsOf(p)') + opening'[p] <= MaxOpens + 1
  BY DEF OneSessionPerOwner
<1>1. IsFiniteSet(SessionsOf(p))
  BY SessionsFinite
<1>2. /\ Cardinality(SessionsOf(p)) \in Nat /\ Cardinality(SessionsOf(p)') \in Nat
      /\ Cardinality(SessionsOf(p)') <= Cardinality(SessionsOf(p))
  BY <1>1, FS_Subset, FS_CardinalityType
<1>3. opening[p] \in Nat /\ opening'[p] \in Nat /\ opening'[p] <= opening[p] /\ MaxOpens \in Nat
  BY ConstantsAssumption DEF SessionsOK
<1>4. /\ life[p] = "live" => Cardinality(SessionsOf(p)) <= 1
      /\ Cardinality(SessionsOf(p)) + opening[p] <= MaxOpens + 1
  BY DEF SessionsOK, OneSessionPerOwner
<1>5. life'[p] = "live" => Cardinality(SessionsOf(p)') <= 1
  BY <1>2, <1>4
<1>6. Cardinality(SessionsOf(p)') + opening'[p] <= MaxOpens + 1
  BY <1>2, <1>3, <1>4
<1> QED
  BY <1>5, <1>6

LEMMA SameCount ==
  ASSUME SessionsOK, OwnersUnchanged, \A p \in Owners : SessionsOf(p)' \subseteq SessionsOf(p)
  PROVE  OneSessionPerOwner' /\ opening' \in [Owners -> 0..MaxOpens]
<1>1. life' = life /\ opening' = opening /\ opening \in [Owners -> 0..MaxOpens]
  BY DEF OwnersUnchanged, SessionsOK
<1>2. \A p \in Owners : opening'[p] <= opening[p]
  BY <1>1
<1> QED
  BY <1>1, <1>2, FewerCount

LEMMA WroteSessions ==
  ASSUME SessionsOK, NEW s, Wrote(s), UNCHANGED nextSession, OwnersUnchanged
  PROVE  SessionsOK'
<1>1. PICK y : Update(s, y) /\ Keeps(sessions[s], y)
  BY DEF Wrote
<1>2. s \in DOMAIN sessions /\ Sound(y) /\ y.owner = sessions[s].owner
      /\ (Lawful(sessions[s], Now(sessions[s].owner)) => Lawful(y, Now(sessions[s].owner)))
  BY <1>1 DEF Wrote, Keeps
<1>3. /\ DOMAIN sessions' = DOMAIN sessions /\ sessions'[s] = y
      /\ \A r \in DOMAIN sessions : r # s => sessions'[r] = sessions[r]
  BY <1>1, <1>2 DEF Update
<1>4. \A r \in DOMAIN sessions : sessions'[r].owner = sessions[r].owner
  BY <1>2, <1>3
<1>5. granted' = granted /\ services' = services /\ settling' = settling /\ life' = life
  BY DEF OwnersUnchanged
<1>6. AllSound'
  BY <1>2, <1>3 DEF SessionsOK, AllSound
<1>7. OneSessionPerOwner' /\ opening' \in [Owners -> 0..MaxOpens]
  BY <1>3, <1>4, SameCount DEF SessionsOf
<1>8. ASSUME NEW r \in DOMAIN sessions, (sessions[r].owner \notin settling)'
      PROVE  Lawful(sessions[r], Now(sessions[r].owner))'
  <2>1. Now(sessions[r].owner)' = Now(sessions[r].owner)
    BY <1>4, <1>5 DEF Now
  <2>2. Lawful(sessions[r], Now(sessions[r].owner))
    BY <1>4, <1>5, <1>8 DEF SessionsOK
  <2> QED
    BY <2>1, <2>2, <1>2, <1>3
<1> QED
  BY <1>3, <1>5, <1>6, <1>7, <1>8 DEF SessionsOK

LEMMA ErasedSessions ==
  ASSUME SessionsOK, NEW S, Erase(S), UNCHANGED nextSession, OwnersUnchanged
  PROVE  SessionsOK'
<1>1. /\ DOMAIN sessions' = DOMAIN sessions \ S
      /\ \A r \in DOMAIN sessions' : sessions'[r] = sessions[r]
  BY DEF Erase
<1>2. granted' = granted /\ services' = services /\ settling' = settling /\ life' = life
  BY DEF OwnersUnchanged
<1>3. AllSound'
  BY <1>1, <1>2 DEF SessionsOK, AllSound
<1>4. OneSessionPerOwner' /\ opening' \in [Owners -> 0..MaxOpens]
  BY <1>1, SameCount DEF SessionsOf
<1> QED
  BY <1>1, <1>2, <1>3, <1>4 DEF SessionsOK, Now

\* A call that inserts its session leaves Open, and the owner had none if it runs.
LEMMA OpenedCount ==
  ASSUME SessionsOK, NEW o \in Owners, NEW n, n \notin DOMAIN sessions,
         \A s \in DOMAIN sessions : sessions[s].owner = o => life[o] # "live",
         DOMAIN sessions' = DOMAIN sessions \cup {n}, sessions'[n].owner = o,
         \A r \in DOMAIN sessions : sessions'[r] = sessions[r],
         life' = life, opening[o] > 0, opening' = [opening EXCEPT ![o] = @ - 1]
  PROVE  OneSessionPerOwner' /\ opening' \in [Owners -> 0..MaxOpens]
<1>1. opening \in [Owners -> 0..MaxOpens] /\ MaxOpens \in Nat
  BY ConstantsAssumption DEF SessionsOK
<1>2. opening[o] \in 1..MaxOpens
  BY <1>1
<1>3. opening' \in [Owners -> 0..MaxOpens]
  BY <1>1, <1>2
<1>4. ASSUME NEW p \in Owners
      PROVE  /\ life'[p] = "live" => Cardinality(SessionsOf(p)') <= 1
             /\ Cardinality(SessionsOf(p)') + opening'[p] <= MaxOpens + 1
  <2>1. /\ life[p] = "live" => Cardinality(SessionsOf(p)) <= 1
        /\ Cardinality(SessionsOf(p)) + opening[p] <= MaxOpens + 1
    BY DEF SessionsOK, OneSessionPerOwner
  <2>2. CASE p # o
    <3>1. SessionsOf(p)' = SessionsOf(p)
      BY <2>2 DEF SessionsOf
    <3>2. opening'[p] = opening[p]
      BY <1>1, <2>2
    <3> QED
      BY <2>1, <3>1, <3>2
  <2>3. CASE p = o
    <3>1. SessionsOf(o)' = SessionsOf(o) \cup {n} /\ n \notin SessionsOf(o)
      BY DEF SessionsOf
    <3>2. IsFiniteSet(SessionsOf(o))
      BY SessionsFinite
    <3>3. Cardinality(SessionsOf(o)') = Cardinality(SessionsOf(o)) + 1 /\ Cardinality(SessionsOf(o)) \in Nat
      BY <3>1, <3>2, FS_AddElement, FS_CardinalityType
    <3>4. life[o] = "live" => Cardinality(SessionsOf(o)) = 0
      <4>1. life[o] = "live" => SessionsOf(o) = {}
        BY DEF SessionsOf
      <4> QED
        BY <4>1, FS_EmptySet
    <3>5. opening'[o] = opening[o] - 1
      BY <1>1
    <3>6. Cardinality(SessionsOf(o)') + opening'[o] <= MaxOpens + 1
      BY <1>1, <1>2, <2>1, <2>3, <3>3, <3>5
    <3>7. life'[o] = "live" => Cardinality(SessionsOf(o)') <= 1
      BY <3>3, <3>4
    <3> QED
      BY <2>3, <3>6, <3>7
  <2> QED
    BY <2>2, <2>3
<1> QED
  BY <1>3, <1>4 DEF OneSessionPerOwner

\* A call enters Open; an owner that runs has at most one session.
LEMMA BeginOpenSessions ==
  ASSUME SessionsOK, NEW o \in Owners, BeginOpen(o)
  PROVE  SessionsOK'
<1>1. /\ life[o] = "live" /\ opening[o] < MaxOpens /\ opening' = [opening EXCEPT ![o] = @ + 1]
      /\ sessions' = sessions /\ nextSession' = nextSession /\ granted' = granted
      /\ services' = services /\ settling' = settling /\ life' = life
  BY DEF BeginOpen
<1>2. opening \in [Owners -> 0..MaxOpens] /\ MaxOpens \in Nat
  BY ConstantsAssumption DEF SessionsOK
<1>3. opening[o] \in 0..(MaxOpens - 1) /\ opening'[o] = opening[o] + 1
  BY <1>1, <1>2
<1>4. opening' \in [Owners -> 0..MaxOpens]
  BY <1>1, <1>2, <1>3
<1>5. ASSUME NEW p \in Owners
      PROVE  /\ life'[p] = "live" => Cardinality(SessionsOf(p)') <= 1
             /\ Cardinality(SessionsOf(p)') + opening'[p] <= MaxOpens + 1
  <2>1. /\ life[p] = "live" => Cardinality(SessionsOf(p)) <= 1
        /\ Cardinality(SessionsOf(p)) + opening[p] <= MaxOpens + 1
    BY DEF SessionsOK, OneSessionPerOwner
  <2>2. SessionsOf(p)' = SessionsOf(p)
    BY <1>1 DEF SessionsOf
  <2>3. CASE p # o
    <3>1. opening'[p] = opening[p]
      BY <1>1, <1>2, <2>3
    <3> QED
      BY <1>1, <2>1, <2>2, <3>1
  <2>4. CASE p = o
    <3>1. Cardinality(SessionsOf(o)) <= 1
      BY <1>1, <2>1, <2>4
    <3>2. Cardinality(SessionsOf(o)) \in Nat
      BY SessionsFinite
    <3>3. Cardinality(SessionsOf(o)) + opening'[o] <= MaxOpens + 1
      BY <1>2, <1>3, <3>1, <3>2
    <3> QED
      BY <1>1, <2>1, <2>2, <2>4, <3>3
  <2> QED
    BY <2>3, <2>4
<1>6. OneSessionPerOwner'
  BY <1>5 DEF OneSessionPerOwner
<1>7. AllSound'
  BY <1>1 DEF SessionsOK, AllSound
<1> QED
  BY <1>1, <1>4, <1>6, <1>7 DEF SessionsOK, Now

LEMMA RefuseOpenSessions ==
  ASSUME SessionsOK, NEW o \in Owners, RefuseOpen(o)
  PROVE  SessionsOK'
<1>1. /\ opening[o] > 0 /\ opening' = [opening EXCEPT ![o] = @ - 1]
      /\ sessions' = sessions /\ nextSession' = nextSession /\ granted' = granted
      /\ services' = services /\ settling' = settling /\ life' = life
  BY DEF RefuseOpen, EndOpen
<1>2. opening \in [Owners -> 0..MaxOpens] /\ MaxOpens \in Nat
  BY ConstantsAssumption DEF SessionsOK
<1>3. opening[o] \in 1..MaxOpens
  BY <1>1, <1>2
<1>4. opening' \in [Owners -> 0..MaxOpens]
  BY <1>1, <1>2, <1>3
<1>5. \A p \in Owners : opening'[p] <= opening[p]
  BY <1>1, <1>2, <1>3
<1>6. \A p \in Owners : SessionsOf(p)' \subseteq SessionsOf(p)
  BY <1>1 DEF SessionsOf
<1>7. OneSessionPerOwner'
  BY <1>1, <1>4, <1>5, <1>6, FewerCount
<1>8. AllSound'
  BY <1>1 DEF SessionsOK, AllSound
<1> QED
  BY <1>1, <1>4, <1>7, <1>8 DEF SessionsOK, Now

LEMMA OpenSessions ==
  ASSUME SessionsOK, NEW o \in Owners, Open(o)
  PROVE  SessionsOK'
<1> DEFINE n == nextSession
           x == NewSession(o)
<1>1. /\ n \in 1..LastSession /\ n' = n + 1
      /\ \A s \in DOMAIN sessions : sessions[s].owner = o => life[o] # "live"
      /\ DOMAIN sessions' = DOMAIN sessions \cup {n} /\ n \notin DOMAIN sessions
      /\ sessions'[n] = x /\ \A r \in DOMAIN sessions : sessions'[r] = sessions[r]
  BY ConstantsAssumption DEF Open, SessionsOK, Owns
<1>2. /\ granted' = granted /\ services' = services /\ settling' = settling /\ life' = life
      /\ opening[o] > 0 /\ opening' = [opening EXCEPT ![o] = @ - 1]
  BY DEF Open, EndOpen
<1>3. Sound(x)
  BY NewSound
<1>4. x.owner = o /\ Lawful(x, Now(o))
  BY DEF NewSession, Lawful
<1> HIDE DEF x
<1>5. AllSound'
  BY <1>1, <1>3 DEF SessionsOK, AllSound
<1>6. OneSessionPerOwner' /\ opening' \in [Owners -> 0..MaxOpens]
  BY <1>1, <1>2, <1>4, OpenedCount
<1>7. n' \in 1..(LastSession + 1) /\ \A s \in DOMAIN sessions' : s \in 1..(n' - 1)
  BY <1>1, ConstantsAssumption DEF SessionsOK
<1>8. ASSUME NEW r \in DOMAIN sessions', (sessions[r].owner \notin settling)'
      PROVE  Lawful(sessions[r], Now(sessions[r].owner))'
  <2>1. r \in DOMAIN sessions => Now(sessions[r].owner)' = Now(sessions[r].owner)
    BY <1>1, <1>2 DEF Now
  <2>2. CASE r = n
    <3>1. Now(o)' = Now(o)
      BY <1>2 DEF Now
    <3> QED
      BY <2>2, <3>1, <1>1, <1>4
  <2>3. CASE r # n
    BY <2>1, <2>3, <1>1, <1>2, <1>8 DEF SessionsOK
  <2> QED
    BY <2>2, <2>3
<1> QED
  BY <1>2, <1>5, <1>6, <1>7, <1>8 DEF SessionsOK

LEMMA InputSessions ==
  ASSUME SessionsOK, InputEvent
  PROVE  SessionsOK'
<1>1. /\ DOMAIN sessions' = DOMAIN sessions
      /\ \A s \in DOMAIN sessions : sessions'[s] = Emit(sessions[s])
  BY DEF InputEvent
<1>2. granted' = granted /\ services' = services /\ settling' = settling /\ life' = life
      /\ nextSession' = nextSession
  BY DEF InputEvent, OwnersUnchanged
<1>3. ASSUME NEW s \in DOMAIN sessions
      PROVE  Keeps(sessions[s], sessions'[s])
  <2> DEFINE x == sessions[s]
  <2>1. Sound(x) /\ x \in SessionRecords
    BY DEF SessionsOK, AllSound, Sound
  <2>2. CASE Emit(x) = x
    BY <1>1, <2>1, <2>2 DEF Keeps
  <2>3. CASE Emit(x) # x
    <3>1. Emit(x) = Push(x, Event) /\ Allowed(x.owner, "event")
      BY <2>3 DEF Emit
    <3>2. Event \in Responses /\ Event.kind = "event"
      BY ResponseFields DEF Event, Statuses
    <3>3. May("event", Now(x.owner))
      BY <3>1 DEF Allowed, May, Now
    <3>4. Push(x, Event).owner = x.owner
      BY <2>1, <3>2, Pushed
    <3>5. Lawful(x, Now(x.owner)) => Lawful(Push(x, Event), Now(x.owner))
      BY <2>1, <3>2, <3>3, PushLawful
    <3> QED
      BY <1>1, <2>1, <3>1, <3>4, <3>5, EmitSound DEF Keeps
  <2> QED
    BY <2>2, <2>3
<1>4. \A s \in DOMAIN sessions : sessions'[s].owner = sessions[s].owner
  BY <1>3 DEF Keeps
<1>5. AllSound'
  BY <1>1, <1>2, <1>3, <1>4 DEF SessionsOK, AllSound, Keeps
<1>7. OneSessionPerOwner' /\ opening' \in [Owners -> 0..MaxOpens]
  BY <1>1, <1>4, SameCount DEF SessionsOf, InputEvent
<1>6. ASSUME NEW r \in DOMAIN sessions, (sessions[r].owner \notin settling)'
      PROVE  Lawful(sessions[r], Now(sessions[r].owner))'
  <2>1. Now(sessions[r].owner)' = Now(sessions[r].owner)
    BY <1>2, <1>4 DEF Now
  <2>2. Lawful(sessions[r], Now(sessions[r].owner))
    BY <1>2, <1>4, <1>6 DEF SessionsOK
  <2> QED
    BY <2>1, <2>2, <1>3 DEF Keeps
<1> QED
  BY <1>1, <1>2, <1>5, <1>6, <1>7 DEF SessionsOK

LEMMA PermissionsSessions ==
  ASSUME SessionsOK, GrantsTyped, NEW o \in Owners, NEW P \in SUBSET Permissions, PermissionsChanged(o, P)
  PROVE  SessionsOK'
<1> DEFINE now == P \cap services[o]
           Denied(x) == {c \in DOMAIN x.pending : ~May(x.pending[c].kind, now)}
<1>1. PICK order :
        /\ \A s \in SessionsOf(o) : order[s] \in Orders(Denied(sessions[s]))
        /\ sessions' = [s \in DOMAIN sessions |->
                          IF s \in SessionsOf(o)
                          THEN Revoke(sessions[s], order[s], now)
                          ELSE sessions[s]]
  BY DEF PermissionsChanged
<1>2. /\ settling' = settling \ {o} /\ granted' = [granted EXCEPT ![o] = P]
      /\ nextSession' = nextSession /\ services' = services /\ life' = life /\ opening' = opening
  BY DEF PermissionsChanged
<1>3. ASSUME NEW s \in SessionsOf(o)
      PROVE  /\ s \in DOMAIN sessions /\ sessions[s].owner = o
             /\ sessions'[s].owner = o /\ Sound(sessions'[s]) /\ Lawful(sessions'[s], now)
  <2> DEFINE x == sessions[s]
             q == order[s]
  <2>1. s \in DOMAIN sessions /\ x.owner = o
    BY DEF SessionsOf
  <2>2. sessions'[s] = Revoke(x, q, now)
    BY <1>1, <2>1
  <2>3. Sound(x)
    BY <2>1 DEF SessionsOK, AllSound
  <2>4. IsFiniteSet(DOMAIN x.pending)
    BY <2>3, Fields DEF Sound
  <2>5. Denied(x) \in SUBSET DOMAIN x.pending /\ IsFiniteSet(Denied(x))
    BY <2>4, FS_Subset
  <2>6. q \in Seq(Denied(x)) /\ (\A i, j \in DOMAIN q : q[i] = q[j] => i = j) /\ Elements(q) = Denied(x)
    BY <1>1, <2>5, OrderOfSet
  <2>7. Answerable(x, q)
    BY <2>5, <2>6, SeqMonotonic DEF Answerable
  <2>8. Sound(Revoke(x, q, now)) /\ Lawful(Revoke(x, q, now), now)
    BY <2>3, <2>6, <2>7, RevokeSound, RevokeLawful
  <2>9. Revoke(x, q, now).owner = x.owner
    <3>1. Withdrawn(x, now).owner = x.owner /\ Withdrawn(x, now) \in SessionRecords
      BY <2>3, WithdrawnSound DEF Sound
    <3> QED
      BY <2>3, <2>7, <3>1, RevokeSound, SettleFields DEF Abort
  <2> QED
    BY <2>1, <2>2, <2>8, <2>9
<1>4. \A s \in DOMAIN sessions : s \notin SessionsOf(o) => sessions'[s] = sessions[s] /\ sessions[s].owner # o
  BY <1>1 DEF SessionsOf
<1>5. DOMAIN sessions' = DOMAIN sessions
  BY <1>1
<1>6. \A s \in DOMAIN sessions : sessions'[s].owner = sessions[s].owner
  BY <1>3, <1>4
<1>7. AllSound'
  BY <1>3, <1>4, <1>5 DEF SessionsOK, AllSound
<1>8. OneSessionPerOwner' /\ opening' \in [Owners -> 0..MaxOpens]
  <2>1. \A p \in Owners : SessionsOf(p)' \subseteq SessionsOf(p)
    BY <1>5, <1>6 DEF SessionsOf
  <2>2. \A p \in Owners : opening'[p] <= opening[p]
    BY <1>2 DEF SessionsOK
  <2>3. opening' \in [Owners -> 0..MaxOpens]
    BY <1>2 DEF SessionsOK
  <2> QED
    BY <1>2, <2>1, <2>2, <2>3, FewerCount
<1>9. ASSUME NEW r \in DOMAIN sessions, (sessions[r].owner \notin settling)'
       PROVE  Lawful(sessions[r], Now(sessions[r].owner))'
  <2>1. CASE r \in SessionsOf(o)
    <3>1. sessions'[r].owner = o /\ Lawful(sessions'[r], now)
      BY <2>1, <1>3
    <3> QED
      BY <3>1, <1>2 DEF Now, GrantsTyped
  <2>2. CASE r \notin SessionsOf(o)
    <3>1. sessions'[r] = sessions[r] /\ sessions[r].owner # o
      BY <2>2, <1>4
    <3>2. Now(sessions[r].owner)' = Now(sessions[r].owner)
      BY <3>1, <1>2 DEF Now, GrantsTyped
    <3> QED
      BY <3>1, <3>2, <1>2, <1>9 DEF SessionsOK
  <2> QED
    BY <2>1, <2>2
<1> QED
  BY <1>2, <1>5, <1>7, <1>8, <1>9 DEF SessionsOK
-----------------------------------------------------------------------------
\* The grants and the tasks

LEMMA GrantsStep ==
  ASSUME GrantsTyped, [Next]_vars
  PROVE  GrantsTyped'
<1>1. CASE OwnersUnchanged
  BY <1>1 DEF OwnersUnchanged, GrantsTyped
<1>2. ASSUME NEW o \in Owners, GuestCall(o)
      PROVE  GrantsTyped'
  <2>1. BeginOpen(o) \/ RefuseOpen(o) \/ Open(o) => GrantsTyped'
    BY DEF BeginOpen, RefuseOpen, Open, EndOpen, GrantsTyped
  <2>2. ASSUME NEW s \in DOMAIN sessions, Submit(o, s)
        PROVE  OwnersUnchanged
    BY <2>2 DEF Submit, SubmitProtocolError, SubmitDenied, SubmitInvalid, SubmitCore, SubmitInject,
         SubmitStorage, SubmitClipboard, SubmitCapture, SubmitSubscription, SubmitCaptureClose
  <2>3. \A s \in DOMAIN sessions :
          Poll(o, s) \/ PollTooSmall(o, s) \/ Close(o, s)
          \/ (\E c \in Correlations : CancelPending(o, s, c) \/ CancelAnswered(o, s, c)) => OwnersUnchanged
    BY DEF Poll, PollTooSmall, PollWith, Close, CancelPending, CancelAnswered
  <2> QED
    BY <1>1, <1>2, <2>1, <2>2, <2>3 DEF GuestCall
<1>3. ASSUME NEW o \in Owners, StopOwner(o) \/ CloseOwner(o) \/ GrantChange(o)
      PROVE  GrantsTyped'
  <2>1. CASE StopOwner(o)
    BY <2>1 DEF StopOwner, GrantsTyped
  <2>2. CASE CloseOwner(o)
    BY <1>1, <2>2 DEF CloseOwner
  <2>3. ASSUME NEW P \in SUBSET Permissions, SetServices(o, P)
        PROVE  GrantsTyped'
    BY <2>3 DEF SetServices, GrantsTyped
  <2>4. ASSUME NEW P \in SUBSET Permissions, PermissionsChanged(o, P)
        PROVE  GrantsTyped'
    BY <2>4 DEF PermissionsChanged, GrantsTyped
  <2> QED
    BY <1>3, <2>1, <2>2, <2>3, <2>4 DEF GrantChange
<1>4. (\E w \in Workers : Worker(w)) => OwnersUnchanged
  BY DEF Worker, TakeTask, StartStorage, FinishStorage
<1>5. HostCallback => OwnersUnchanged
  BY DEF HostCallback, ClipboardReturns, CaptureRefused, CaptureStored, CaptureReported, CallbackArrives
<1>6. InputEvent \/ CloseAll \/ (\E s \in DOMAIN sessions, c \in Correlations : Expire(s, c)) => OwnersUnchanged
  BY DEF InputEvent, CloseAll, Expire
<1>7. UNCHANGED vars => OwnersUnchanged
  BY DEF vars, OwnersUnchanged
<1> QED
  BY <1>1, <1>2, <1>3, <1>4, <1>5, <1>6, <1>7 DEF Next

\* What is asked of the workers and of the host's services comes from a session.
LEMMA TasksStep ==
  ASSUME TasksTyped, SessionsOK, [Next]_vars
  PROVE  TasksTyped'
<1>1. CASE AsyncUnchanged
  BY <1>1 DEF AsyncUnchanged, TasksTyped
<1>2. \A s \in DOMAIN sessions, c \in Correlations :
        \A kind \in {"storage", "clipboard", "captureOpen"} : Task(s, c, kind) \in Tasks
  BY DEF Task, Tasks, SessionsOK
<1>3. ASSUME NEW o \in Owners, GuestCall(o)
      PROVE  TasksTyped'
  <2>1. ASSUME NEW s \in DOMAIN sessions, NEW c \in Correlations, SubmitStorage(o, s, c)
        PROVE  TasksTyped'
    <3>1. work' = Append(work, Task(s, c, "storage")) /\ UNCHANGED <<running, external>>
      BY <2>1 DEF SubmitStorage
    <3>2. Task(s, c, "storage") \in Tasks
      BY <1>2
    <3> QED
      BY <3>1, <3>2 DEF TasksTyped
  <2>2. ASSUME NEW s \in DOMAIN sessions, NEW c \in Correlations, SubmitClipboard(o, s, c) \/ SubmitCapture(o, s, c)
        PROVE  TasksTyped'
    <3>1. /\ UNCHANGED <<work, running>>
          /\ external' \subseteq external \cup {Task(s, c, "clipboard"), Task(s, c, "captureOpen")}
      BY <2>2 DEF SubmitClipboard, SubmitCapture
    <3>2. Task(s, c, "clipboard") \in Tasks /\ Task(s, c, "captureOpen") \in Tasks
      BY <1>2
    <3> QED
      BY <3>1, <3>2 DEF TasksTyped
  <2>3. ASSUME NEW s \in DOMAIN sessions, Submit(o, s)
        PROVE  TasksTyped'
    BY <1>1, <2>1, <2>2, <2>3 DEF Submit, SubmitProtocolError, SubmitDenied, SubmitInvalid, SubmitCore,
         SubmitInject, SubmitSubscription, SubmitCaptureClose
  <2>4. BeginOpen(o) \/ RefuseOpen(o) \/ Open(o) => AsyncUnchanged
    BY DEF BeginOpen, RefuseOpen, Open, EndOpen
  <2>5. \A s \in DOMAIN sessions :
          Poll(o, s) \/ PollTooSmall(o, s) \/ Close(o, s)
          \/ (\E c \in Correlations : CancelPending(o, s, c) \/ CancelAnswered(o, s, c)) => AsyncUnchanged
    BY DEF Poll, PollTooSmall, PollWith, Close, CancelPending, CancelAnswered
  <2> QED
    BY <1>1, <1>3, <2>3, <2>4, <2>5 DEF GuestCall
<1>4. ASSUME NEW o \in Owners, StopOwner(o) \/ CloseOwner(o) \/ GrantChange(o)
      PROVE  AsyncUnchanged
  BY <1>4 DEF StopOwner, CloseOwner, GrantChange, SetServices, PermissionsChanged
<1>5. ASSUME NEW w \in Workers, Worker(w)
      PROVE  TasksTyped'
  <2>1. CASE TakeTask(w)
    <3>1. Head(work) \in Tasks /\ Tail(work) \in Seq(Tasks)
      BY <2>1 DEF TakeTask, TasksTyped
    <3> QED
      BY <2>1, <3>1 DEF TakeTask, TasksTyped
  <2>2. CASE StartStorage(w) \/ FinishStorage(w)
    <3>1. /\ UNCHANGED <<work, external>>
          /\ running' = [running EXCEPT ![w] = Idle] \/ running' = [running EXCEPT ![w].started = TRUE]
      BY <2>2 DEF StartStorage, FinishStorage, Finish
    <3>2. Idle \in [task : Tasks \cup {NoTask}, started : BOOLEAN]
      BY DEF Idle
    <3> QED
      BY <3>1, <3>2 DEF TasksTyped
  <2> QED
    BY <1>5, <2>1, <2>2 DEF Worker
<1>6. CASE HostCallback
  <2>1. PICK t \in external : ClipboardReturns(t) \/ CaptureRefused(t) \/ CaptureStored(t) \/ CaptureReported(t)
    BY <1>6 DEF HostCallback
  <2>2. /\ UNCHANGED <<work, running>>
        /\ external' \subseteq external \cup {[t EXCEPT !.kind = "captureStored"], [t EXCEPT !.kind = "captureFailed"]}
    BY <2>1 DEF ClipboardReturns, CaptureRefused, CaptureStored, CaptureReported, CallbackArrives
  <2>3. t \in Tasks
    BY DEF TasksTyped
  <2>4. [t EXCEPT !.kind = "captureStored"] \in Tasks /\ [t EXCEPT !.kind = "captureFailed"] \in Tasks
    BY <2>3 DEF Tasks
  <2> QED
    BY <2>2, <2>4 DEF TasksTyped
<1>7. InputEvent \/ CloseAll \/ (\E s \in DOMAIN sessions, c \in Correlations : Expire(s, c)) => AsyncUnchanged
  BY DEF InputEvent, CloseAll, Expire
<1>8. UNCHANGED vars => AsyncUnchanged
  BY DEF vars, AsyncUnchanged
<1> QED
  BY <1>1, <1>3, <1>4, <1>5, <1>6, <1>7, <1>8 DEF Next

LEMMA SessionsStep ==
  ASSUME IInv, [Next]_vars
  PROVE  SessionsOK'
<1>1. SessionsOK /\ AllSound /\ GrantsTyped /\ external \subseteq Tasks
  BY DEF IInv, SessionsOK, TasksTyped
<1>2. ASSUME NEW o \in Owners, GuestCall(o)
      PROVE  SessionsOK'
  <2>1. CASE BeginOpen(o) \/ RefuseOpen(o) \/ Open(o)
    BY <1>1, <2>1, BeginOpenSessions, RefuseOpenSessions, OpenSessions
  <2>2. ASSUME NEW s \in DOMAIN sessions, Submit(o, s)
        PROVE  SessionsOK'
    <3>1. UNCHANGED nextSession /\ OwnersUnchanged
      BY <2>2 DEF Submit, SubmitProtocolError, SubmitDenied, SubmitInvalid, SubmitCore, SubmitInject,
           SubmitStorage, SubmitClipboard, SubmitCapture, SubmitSubscription, SubmitCaptureClose
    <3> QED
      BY <1>1, <2>2, <3>1, SubmitWrites, WroteSessions, ErasedSessions
  <2>3. ASSUME NEW s \in DOMAIN sessions, Poll(o, s) \/ PollTooSmall(o, s)
        PROVE  SessionsOK'
    <3>1. UNCHANGED nextSession /\ OwnersUnchanged
      BY <2>3 DEF Poll, PollTooSmall, PollWith
    <3> QED
      BY <1>1, <2>3, <3>1, PollWrites, WroteSessions
  <2>4. ASSUME NEW s \in DOMAIN sessions, Close(o, s)
        PROVE  SessionsOK'
    BY <1>1, <2>4, ErasedSessions DEF Close
  <2>5. ASSUME NEW s \in DOMAIN sessions, NEW c \in Correlations, CancelPending(o, s, c) \/ CancelAnswered(o, s, c)
        PROVE  SessionsOK'
    <3>1. UNCHANGED nextSession /\ OwnersUnchanged
      BY <2>5 DEF CancelPending, CancelAnswered
    <3> QED
      BY <1>1, <2>5, <3>1, CancelWrites, WroteSessions
  <2> QED
    BY <1>2, <2>1, <2>2, <2>3, <2>4, <2>5 DEF GuestCall
<1>3. ASSUME NEW o \in Owners, StopOwner(o)
      PROVE  SessionsOK'
  <2>1. /\ life' = [life EXCEPT ![o] = "stopped"]
        /\ UNCHANGED <<sessions, nextSession, granted, services, settling, opening>>
    BY <1>3 DEF StopOwner
  <2>2. \A p \in Owners : life'[p] = "live" => life[p] = "live"
    BY <2>1, <1>1 DEF GrantsTyped
  <2>3. opening' \in [Owners -> 0..MaxOpens] /\ \A p \in Owners : opening'[p] <= opening[p]
    BY <1>1, <2>1 DEF SessionsOK
  <2>4. OneSessionPerOwner'
    <3>1. \A p \in Owners : SessionsOf(p)' \subseteq SessionsOf(p)
      BY <2>1 DEF SessionsOf
    <3> QED
      BY <1>1, <2>2, <2>3, <3>1, FewerCount
  <2>5. AllSound'
    BY <1>1, <2>1 DEF AllSound
  <2> QED
    BY <1>1, <2>1, <2>3, <2>4, <2>5 DEF SessionsOK, Now
<1>4. ASSUME NEW o \in Owners, CloseOwner(o)
      PROVE  SessionsOK'
  BY <1>1, <1>4, ErasedSessions DEF CloseOwner
<1>5. ASSUME NEW o \in Owners, NEW P \in SUBSET Permissions, SetServices(o, P)
      PROVE  SessionsOK'
  <2>1. /\ settling' = settling \cup {o} /\ services' = [services EXCEPT ![o] = P]
        /\ UNCHANGED <<sessions, nextSession, granted, life, opening>>
    BY <1>5 DEF SetServices
  <2>2. \A p : p \notin settling' => p \notin settling /\ Now(p)' = Now(p)
    BY <2>1, <1>1 DEF Now, GrantsTyped
  <2>3. AllSound' /\ OneSessionPerOwner'
    BY <1>1, <2>1 DEF SessionsOK, AllSound, OneSessionPerOwner, SessionsOf
  <2>4. \A s \in DOMAIN sessions :
          (sessions[s].owner \notin settling => Lawful(sessions[s], Now(sessions[s].owner)))'
    <3> TAKE s \in DOMAIN sessions
    <3>1. sessions' = sessions
      BY <2>1
    <3> QED
      BY <1>1, <2>2, <3>1 DEF SessionsOK
  <2> QED
    BY <1>1, <2>1, <2>3, <2>4 DEF SessionsOK
<1>6. ASSUME NEW o \in Owners, GrantChange(o)
      PROVE  SessionsOK'
  BY <1>1, <1>5, <1>6, PermissionsSessions DEF GrantChange
<1>7. ASSUME NEW w \in Workers, Worker(w)
      PROVE  SessionsOK'
  <2>1. UNCHANGED nextSession /\ OwnersUnchanged
    BY <1>7 DEF Worker, TakeTask, StartStorage, FinishStorage
  <2>2. CASE UNCHANGED sessions
    BY <1>1, <2>1, <2>2 DEF SessionsOK, AllSound, OneSessionPerOwner, SessionsOf, OwnersUnchanged, Now
  <2> QED
    BY <1>1, <1>7, <2>1, <2>2, WorkerWrites, WroteSessions
<1>8. CASE HostCallback
  <2>1. UNCHANGED nextSession /\ OwnersUnchanged
    BY <1>8 DEF HostCallback, ClipboardReturns, CaptureRefused, CaptureStored, CaptureReported, CallbackArrives
  <2>2. CASE UNCHANGED sessions
    BY <1>1, <2>1, <2>2 DEF SessionsOK, AllSound, OneSessionPerOwner, SessionsOf, OwnersUnchanged, Now
  <2> QED
    BY <1>1, <1>8, <2>1, <2>2, HostCallbackWrites, WroteSessions
<1>9. ASSUME NEW s \in DOMAIN sessions, NEW c \in Correlations, Expire(s, c)
      PROVE  SessionsOK'
  <2>1. UNCHANGED nextSession /\ OwnersUnchanged
    BY <1>9 DEF Expire
  <2> QED
    BY <1>1, <1>9, <2>1, ExpireWrites, WroteSessions
<1>10. CASE InputEvent
  BY <1>1, <1>10, InputSessions
<1>11. CASE CloseAll
  BY <1>1, <1>11, ErasedSessions DEF CloseAll
<1>12. CASE UNCHANGED vars
  BY <1>1, <1>12 DEF vars, SessionsOK, AllSound, OneSessionPerOwner, SessionsOf, Now
<1> QED
  BY <1>2, <1>3, <1>4, <1>6, <1>7, <1>8, <1>9, <1>10, <1>11, <1>12 DEF Next
-----------------------------------------------------------------------------
\* The theorems

LEMMA InitInvariant == Init => IInv
<1> SUFFICES ASSUME Init PROVE IInv
  OBVIOUS
<1>1. DOMAIN sessions = {}
  BY DEF Init
<1>2. SessionsOK
  <2>1. OneSessionPerOwner
    <3>1. \A o \in Owners : Cardinality(SessionsOf(o)) = 0
      BY <1>1, FS_EmptySet DEF SessionsOf
    <3>2. \A o \in Owners : opening[o] = 0
      BY DEF Init
    <3> QED
      BY <3>1, <3>2, ConstantsAssumption DEF OneSessionPerOwner
  <2> QED
    BY <1>1, <2>1, ConstantsAssumption DEF Init, SessionsOK, AllSound
<1>3. GrantsTyped
  BY DEF Init, GrantsTyped
<1>4. TasksTyped
  BY DEF Init, TasksTyped, Idle
<1> QED
  BY <1>2, <1>3, <1>4 DEF IInv

\* The inductive invariant: every session is sound, and lawful once its owner's
\* grant change is complete, and the tasks come from sessions.
THEOREM Invariant == Spec => []IInv
<1>1. IInv /\ [Next]_vars => IInv'
  <2> SUFFICES ASSUME IInv, [Next]_vars PROVE IInv'
    OBVIOUS
  <2>1. SessionsOK'
    BY SessionsStep
  <2>2. GrantsTyped'
    BY GrantsStep DEF IInv
  <2>3. TasksTyped'
    BY TasksStep DEF IInv
  <2> QED
    BY <2>1, <2>2, <2>3 DEF IInv
<1> QED
  BY InitInvariant, <1>1, PTL DEF Spec

\* Sessions, grants and tasks are well formed in every reachable state: a
\* session's records stay inside the types of Cex2Host.cpp's structures.
THEOREM TypeCorrect == Spec => []TypeOK
<1>1. IInv => TypeOK
  <2> SUFFICES ASSUME IInv PROVE TypeOK
    OBVIOUS
  <2>1. \A s \in DOMAIN sessions : sessions[s] \in SessionRecords
    BY DEF IInv, SessionsOK, AllSound, Sound
  <2>2. nextSession \in 1..(LastSession + 1) /\ DOMAIN sessions \subseteq 1..LastSession
    <3>1. nextSession \in 1..(LastSession + 1) /\ \A s \in DOMAIN sessions : s \in 1..(nextSession - 1)
      BY DEF IInv, SessionsOK
    <3> QED
      BY <3>1, ConstantsAssumption
  <2> QED
    BY <2>1, <2>2 DEF IInv, SessionsOK, GrantsTyped, TasksTyped, TypeOK
<1> QED
  BY Invariant, <1>1, PTL

\* Whatever a session's requests do, its queue and its reservations stay within
\* kMaximumResponseQueue, so every completion finds room for its response.
THEOREM Bound == Spec => []QueueBounded
<1>1. IInv => QueueBounded
  BY DEF IInv, SessionsOK, AllSound, Sound, Bounded, QueueBounded
<1> QED
  BY Invariant, <1>1, PTL

\* No order of completions, timeouts, cancellations, revocations and polls
\* answers an admitted request twice or loses it.
THEOREM AnsweredOnce == Spec => []ExactlyOnce
<1>1. IInv => ExactlyOnce
  BY DEF IInv, SessionsOK, AllSound, Sound, Placed, ExactlyOnce
<1> QED
  BY Invariant, <1>1, PTL

\* Whatever opens race with the end of an owner, it has at most one session
\* while it runs, and when stopped at most those that the calls under way insert
\* beside it: with any number of guest cores, ids and open sessions.
THEOREM OneEach == Spec => []OneSessionPerOwner
<1>1. IInv => OneSessionPerOwner
  BY DEF IInv, SessionsOK
<1> QED
  BY Invariant, <1>1, PTL

\* Once a grant change is complete nothing of a revoked permission is left in
\* any session of the owner, whatever raced with it.
THEOREM Revoked == Spec => []RevocationComplete
<1>1. IInv => RevocationComplete
  BY DEF IInv, SessionsOK, Lawful, Now, May, Allowed, RevocationComplete
<1> QED
  BY Invariant, <1>1, PTL

\* The clipboard is refused as busy exactly while a request for it is pending.
THEOREM ClipboardFlagExact == Spec => []ClipboardFlag
<1>1. IInv => ClipboardFlag
  <2> SUFFICES ASSUME IInv, NEW s \in DOMAIN sessions,
                      NEW asked, asked = {c \in DOMAIN sessions[s].pending :
                                            sessions[s].pending[c].kind = "clipboard"}
               PROVE  Cardinality(asked) <= 1 /\ (sessions[s].clipboardPending <=> asked # {})
    BY DEF ClipboardFlag
  <2>1. Flagged(sessions[s])
    BY DEF IInv, SessionsOK, AllSound, Sound
  <2>2. asked # {} => \E c : asked = {c}
    BY <2>1 DEF Flagged
  <2>3. Cardinality(asked) <= 1
    BY <2>2, FS_EmptySet, FS_Singleton
  <2>4. sessions[s].clipboardPending <=> asked # {}
    BY <2>1 DEF Flagged
  <2> QED
    BY <2>3, <2>4
<1> QED
  BY Invariant, <1>1, PTL

-----------------------------------------------------------------------------
(***************************************************************************)
(* The CEX2 host implements Cex2Contract, for any owners, requests and     *)
(* bounds: proof of the safety of ContractSpec.                            *)
(*                                                                         *)
(* The contract sees three fields of a session.  The first part says what  *)
(* each operation does to them, the second that this is a step of the      *)
(* contract.                                                               *)
(***************************************************************************)

\* How far request c of the session x got.
Stage(x, c) ==
  IF c \notin x.admitted THEN "new"
  ELSE IF c \in DOMAIN x.pending THEN "accepted"
  ELSE IF c \in x.delivered THEN "delivered"
  ELSE "answered"

\* Request c comes in.
Accepts(x, y, c) ==
  /\ c \in Correlations \ x.admitted
  /\ y.admitted = x.admitted \cup {c} /\ y.delivered = x.delivered
  /\ DOMAIN y.pending = DOMAIN x.pending \/ DOMAIN y.pending = DOMAIN x.pending \cup {c}

\* Requests are answered, and at most one is delivered.
Moves(x, y) ==
  /\ y.admitted = x.admitted /\ DOMAIN y.pending \subseteq DOMAIN x.pending
  /\ \E c : y.delivered = x.delivered \cup ({c} \ {NoCorrelation})

Advances(x, y) == Moves(x, y) \/ \E c : Accepts(x, y, c)

\* One session advances.
Advanced(s) == s \in DOMAIN sessions /\ \E y : Update(s, y) /\ Advances(sessions[s], y)

-----------------------------------------------------------------------------
\* What the operations do to the three fields

LEMMA SameMoves ==
  ASSUME NEW x \in SessionRecords, NEW y, y.admitted = x.admitted,
         DOMAIN y.pending = DOMAIN x.pending, y.delivered = x.delivered
  PROVE  Moves(x, y)
<1>1. x.delivered = x.delivered \cup ({NoCorrelation} \ {NoCorrelation})
  OBVIOUS
<1> QED
  BY <1>1 DEF Moves

LEMMA AbortMoves ==
  ASSUME NEW x \in SessionRecords, NEW q, NEW status
  PROVE  /\ Moves(x, Abort(x, q, status)) /\ Abort(x, q, status).delivered = x.delivered
         /\ \A capture : Moves(x, Settle(x, q, status, capture))
<1>1. ASSUME NEW capture
      PROVE  LET y == Settle(x, q, status, capture) IN Moves(x, y) /\ y.delivered = x.delivered
  <2> DEFINE y == Settle(x, q, status, capture)
  <2>1. y.admitted = x.admitted /\ y.delivered = x.delivered
    BY SettleFields
  <2>2. y.pending = [d \in DOMAIN x.pending \ Elements(q) |-> x.pending[d]]
    BY DEF Settle, SessionRecords
  <2>3. DOMAIN y.pending \subseteq DOMAIN x.pending
    BY <2>2
  <2> HIDE DEF y
  <2>4. x.delivered = x.delivered \cup ({NoCorrelation} \ {NoCorrelation})
    OBVIOUS
  <2> QED
    BY <2>1, <2>3, <2>4 DEF Moves, y
<1> QED
  BY <1>1 DEF Abort

LEMMA CompleteMoves ==
  ASSUME NEW x \in SessionRecords, NEW c, NEW status
  PROVE  Moves(x, Complete(x, c, status))
  BY AbortMoves DEF Complete

LEMMA AnswerAccepts ==
  ASSUME NEW x \in SessionRecords, NEW c \in Correlations \ x.admitted, NEW kind, NEW status
  PROVE  /\ Accepts(x, Answer(x, c, kind, status), c)
         /\ \A b : Accepts(x, [Answer(x, c, kind, status) EXCEPT !.subscribed = b], c)
         /\ \A p : Accepts(x, [Answer(x, c, kind, status) EXCEPT !.capture = p], c)
  BY DEF Accepts, Answer, Push, Admit, SessionRecords

LEMMA ReserveAccepts ==
  ASSUME NEW x \in SessionRecords, NEW c \in Correlations \ x.admitted, NEW kind
  PROVE  /\ Accepts(x, Reserve(Admit(x, c), c, kind), c)
         /\ Accepts(x, [Reserve(Admit(x, c), c, kind) EXCEPT !.clipboardPending = TRUE], c)
         /\ Accepts(x, [Reserve(Admit(x, c), c, kind) EXCEPT !.capture.pending = TRUE], c)
<1> DEFINE y == Reserve(Admit(x, c), c, kind)
<1>1. /\ y.admitted = x.admitted \cup {c} /\ y.delivered = x.delivered
      /\ y.pending = [d \in DOMAIN x.pending \cup {c} |->
                        IF d = c THEN [kind |-> kind, expired |-> FALSE] ELSE x.pending[d]]
  BY DEF Reserve, Admit, SessionRecords
<1>2. /\ [y EXCEPT !.clipboardPending = TRUE].admitted = y.admitted
      /\ [y EXCEPT !.clipboardPending = TRUE].delivered = y.delivered
      /\ [y EXCEPT !.clipboardPending = TRUE].pending = y.pending
      /\ [y EXCEPT !.capture.pending = TRUE].admitted = y.admitted
      /\ [y EXCEPT !.capture.pending = TRUE].delivered = y.delivered
      /\ [y EXCEPT !.capture.pending = TRUE].pending = y.pending
  BY DEF Reserve, Admit, SessionRecords
<1>3. DOMAIN y.pending = DOMAIN x.pending \cup {c}
  BY <1>1
<1> HIDE DEF y
<1>4. Accepts(x, y, c) /\ Accepts(x, [y EXCEPT !.clipboardPending = TRUE], c)
      /\ Accepts(x, [y EXCEPT !.capture.pending = TRUE], c)
  BY <1>1, <1>2, <1>3 DEF Accepts
<1> QED
  BY <1>4 DEF y

LEMMA InjectAccepts ==
  ASSUME NEW x \in SessionRecords, NEW c \in Correlations \ x.admitted
  PROVE  Accepts(x, Injected(x, c), c)
<1>1. CASE Injected(x, c) = Answer(x, c, "inject", "Ok")
  BY <1>1, AnswerAccepts
<1>2. CASE Injected(x, c) = Answer(Push(x, Event), c, "inject", "Ok")
  <2>1. /\ Answer(Push(x, Event), c, "inject", "Ok").admitted = x.admitted \cup {c}
        /\ Answer(Push(x, Event), c, "inject", "Ok").delivered = x.delivered
        /\ Answer(Push(x, Event), c, "inject", "Ok").pending = x.pending
    BY DEF Answer, Push, Admit, SessionRecords
  <2> QED
    BY <1>2, <2>1 DEF Accepts
<1> QED
  BY <1>1, <1>2, InjectedIs

\* A session whose stored capture was dropped.
LEMMA CaptureNowSame ==
  ASSUME NEW x, Sound(x), NEW capture \in CaptureNow(x), NEW z, z = [x EXCEPT !.capture = capture]
  PROVE  /\ z \in SessionRecords /\ z.admitted = x.admitted
         /\ z.pending = x.pending /\ z.delivered = x.delivered
<1>1. z \in SessionRecords
  BY CaptureNowKeeps DEF Keeps, Sound
<1> QED
  BY <1>1 DEF Sound, SessionRecords

LEMMA SubmitAdvances ==
  ASSUME AllSound, NEW o \in Owners, NEW s \in DOMAIN sessions, Submit(o, s)
  PROVE  Erase({s}) \/ Advanced(s)
<1> DEFINE x == sessions[s]
<1>1. Sound(x) /\ x \in SessionRecords
  BY DEF AllSound, Sound
<1>2. ASSUME NEW c \in Correlations, SubmitNew(o, s, c)
      PROVE  c \in Correlations \ x.admitted
  BY <1>2 DEF SubmitNew
<1>3. ASSUME NEW y, NEW c, Update(s, y), Accepts(x, y, c)
      PROVE  Advanced(s)
  BY <1>3 DEF Advanced, Advances
<1>4. CASE SubmitProtocolError(o, s)
  BY <1>4 DEF SubmitProtocolError
<1>5. ASSUME NEW c \in Correlations, NEW kind, SubmitDenied(o, s, c, kind) \/ SubmitInvalid(o, s, c, kind)
      PROVE  Advanced(s)
  <2>1. PICK status : SubmitNew(o, s, c) /\ Update(s, Answer(x, c, kind, status))
    BY <1>5 DEF SubmitDenied, SubmitInvalid
  <2> QED
    BY <1>1, <1>2, <1>3, <2>1, AnswerAccepts
<1>6. ASSUME NEW c \in Correlations, SubmitCore(o, s, c)
      PROVE  Advanced(s)
  <2>1. SubmitNew(o, s, c) /\ Update(s, Answer(x, c, "core", "Ok"))
    BY <1>6 DEF SubmitCore
  <2> QED
    BY <1>1, <1>2, <1>3, <2>1, AnswerAccepts
<1>7. ASSUME NEW c \in Correlations, SubmitInject(o, s, c)
      PROVE  Advanced(s)
  <2>1. SubmitNew(o, s, c) /\ Update(s, Injected(x, c))
    BY <1>7 DEF SubmitInject, Injected
  <2> QED
    BY <1>1, <1>2, <1>3, <2>1, InjectAccepts
<1>8. ASSUME NEW c \in Correlations, SubmitStorage(o, s, c)
      PROVE  Advanced(s)
  <2>1. SubmitNew(o, s, c) /\ Update(s, Reserve(Admit(x, c), c, "storage"))
    BY <1>8 DEF SubmitStorage
  <2> QED
    BY <1>1, <1>2, <1>3, <2>1, ReserveAccepts
<1>9. ASSUME NEW c \in Correlations, SubmitClipboard(o, s, c)
      PROVE  Advanced(s)
  <2>1. /\ SubmitNew(o, s, c)
        /\ \/ Update(s, Answer(x, c, "clipboard", "Busy"))
           \/ Update(s, [Reserve(Admit(x, c), c, "clipboard") EXCEPT !.clipboardPending = TRUE])
    BY <1>9 DEF SubmitClipboard
  <2> QED
    BY <1>1, <1>2, <1>3, <2>1, AnswerAccepts, ReserveAccepts
<1>10. ASSUME NEW c \in Correlations, NEW kind, SubmitSubscription(o, s, c, kind)
       PROVE  Advanced(s)
  <2>1. /\ SubmitNew(o, s, c)
        /\ \/ Update(s, [Answer(x, c, kind, "Ok") EXCEPT !.subscribed = kind = "subscribe"])
           \/ Update(s, Answer(x, c, kind, "PermissionDenied"))
    BY <1>10 DEF SubmitSubscription
  <2> QED
    BY <1>1, <1>2, <1>3, <2>1, AnswerAccepts
<1>11. ASSUME NEW c \in Correlations, NEW capture \in CaptureNow(x), NEW y, NEW z,
              z = [x EXCEPT !.capture = capture], SubmitNew(o, s, c), Update(s, y), Accepts(z, y, c)
       PROVE  Advanced(s)
  <2>1. z.admitted = x.admitted /\ z.pending = x.pending /\ z.delivered = x.delivered
    BY <1>1, <1>11, CaptureNowSame
  <2>2. Accepts(x, y, c)
    BY <1>11, <2>1 DEF Accepts
  <2> QED
    BY <1>3, <1>11, <2>2
<1>12. ASSUME NEW c \in Correlations, SubmitCapture(o, s, c)
       PROVE  Advanced(s)
  <2>1. PICK capture \in CaptureNow(x) :
          LET z == [x EXCEPT !.capture = capture] IN
            \/ Update(s, Answer(z, c, "captureOpen", "Busy"))
            \/ Update(s, [Reserve(Admit(z, c), c, "captureOpen") EXCEPT !.capture.pending = TRUE])
    BY <1>12 DEF SubmitCapture
  <2> DEFINE z == [x EXCEPT !.capture = capture]
  <2>2. SubmitNew(o, s, c)
    BY <1>12 DEF SubmitCapture
  <2>3. z \in SessionRecords /\ c \in Correlations \ z.admitted
    BY <1>1, <1>2, <2>2, CaptureNowSame
  <2>4. \/ Update(s, Answer(z, c, "captureOpen", "Busy"))
        \/ Update(s, [Reserve(Admit(z, c), c, "captureOpen") EXCEPT !.capture.pending = TRUE])
    BY <2>1
  <2>5. z = [x EXCEPT !.capture = capture]
    OBVIOUS
  <2> HIDE DEF z
  <2>6. /\ Accepts(z, Answer(z, c, "captureOpen", "Busy"), c)
        /\ Accepts(z, [Reserve(Admit(z, c), c, "captureOpen") EXCEPT !.capture.pending = TRUE], c)
    BY <2>3, AnswerAccepts, ReserveAccepts
  <2> QED
    BY <1>11, <2>2, <2>4, <2>5, <2>6
<1>13. ASSUME NEW c \in Correlations, NEW h, SubmitCaptureClose(o, s, c, h)
       PROVE  Advanced(s)
  <2>1. PICK capture \in CaptureNow(x) :
          LET z == [x EXCEPT !.capture = capture] IN
            \/ Update(s, [Answer(z, c, "captureClose", "Ok") EXCEPT !.capture = NoCapture])
            \/ Update(s, Answer(z, c, "captureClose", "NotFound"))
    BY <1>13 DEF SubmitCaptureClose
  <2> DEFINE z == [x EXCEPT !.capture = capture]
  <2>2. SubmitNew(o, s, c)
    BY <1>13 DEF SubmitCaptureClose
  <2>3. z \in SessionRecords /\ c \in Correlations \ z.admitted
    BY <1>1, <1>2, <2>2, CaptureNowSame
  <2>4. \/ Update(s, [Answer(z, c, "captureClose", "Ok") EXCEPT !.capture = NoCapture])
        \/ Update(s, Answer(z, c, "captureClose", "NotFound"))
    BY <2>1
  <2>5. z = [x EXCEPT !.capture = capture]
    OBVIOUS
  <2> HIDE DEF z
  <2>6. /\ Accepts(z, [Answer(z, c, "captureClose", "Ok") EXCEPT !.capture = NoCapture], c)
        /\ Accepts(z, Answer(z, c, "captureClose", "NotFound"), c)
    BY <2>3, AnswerAccepts
  <2> QED
    BY <1>11, <2>2, <2>4, <2>5, <2>6
<1> QED
  BY <1>4, <1>5, <1>6, <1>7, <1>8, <1>9, <1>10, <1>12, <1>13 DEF Submit

LEMMA PollAdvances ==
  ASSUME AllSound, NEW o \in Owners, NEW s \in DOMAIN sessions, Poll(o, s) \/ PollTooSmall(o, s)
  PROVE  Advanced(s)
<1> DEFINE x == sessions[s]
<1>1. x \in SessionRecords
  BY DEF AllSound, Sound
<1>2. PICK q : LET y == Abort(x, q, "TimedOut") IN Update(s, Deliver(y)) \/ Update(s, y)
  BY DEF Poll, PollTooSmall, PollWith
<1> DEFINE y == Abort(x, q, "TimedOut")
<1>3. Update(s, Deliver(y)) \/ Update(s, y)
  BY <1>2
<1>4. Moves(x, y) /\ y.delivered = x.delivered
  BY <1>1, AbortMoves
<1>5. /\ Deliver(y).admitted = y.admitted /\ Deliver(y).pending = y.pending
      /\ \E c : Deliver(y).delivered = y.delivered \cup ({c} \ {NoCorrelation})
  BY <1>1 DEF Deliver, Abort, Settle, SessionRecords
<1> HIDE DEF y
<1>6. Moves(x, Deliver(y))
  BY <1>4, <1>5 DEF Moves
<1> QED
  BY <1>3, <1>4, <1>6 DEF Advanced, Advances

LEMMA CancelAdvances ==
  ASSUME AllSound, NEW o \in Owners, NEW s \in DOMAIN sessions, NEW c \in Correlations,
         CancelPending(o, s, c) \/ CancelAnswered(o, s, c)
  PROVE  Advanced(s)
<1> DEFINE x == sessions[s]
<1>1. x \in SessionRecords
  BY DEF AllSound, Sound
<1>2. CASE CancelPending(o, s, c)
  <2>1. Update(s, Abort(x, <<c>>, "Cancelled"))
    BY <1>2 DEF CancelPending
  <2> QED
    BY <1>1, <2>1, AbortMoves DEF Advanced, Advances
<1>3. CASE CancelAnswered(o, s, c)
  <2>1. PICK i : Update(s, [x EXCEPT !.responses[i].status = "Cancelled"])
    BY <1>3 DEF CancelAnswered
  <2> DEFINE y == [x EXCEPT !.responses[i].status = "Cancelled"]
  <2>2. y.admitted = x.admitted /\ y.pending = x.pending /\ y.delivered = x.delivered
    BY <1>1 DEF SessionRecords
  <2> HIDE DEF y
  <2>3. Moves(x, y)
    BY <1>1, <2>2, SameMoves
  <2> QED
    BY <2>1, <2>3 DEF Advanced, Advances, y
<1> QED
  BY <1>2, <1>3

LEMMA ExpireAdvances ==
  ASSUME AllSound, NEW s, NEW c, Expire(s, c)
  PROVE  Advanced(s)
<1> DEFINE x == sessions[s]
           y == [x EXCEPT !.pending[c].expired = TRUE]
<1>1. s \in DOMAIN sessions /\ Update(s, y)
  BY DEF Expire, Waits
<1>2. x \in SessionRecords
  BY <1>1 DEF AllSound, Sound
<1>3. y.admitted = x.admitted /\ DOMAIN y.pending = DOMAIN x.pending /\ y.delivered = x.delivered
  BY <1>2 DEF SessionRecords
<1> HIDE DEF y
<1> QED
  BY <1>1, <1>2, <1>3, SameMoves DEF Advanced, Advances

LEMMA WorkerAdvances ==
  ASSUME AllSound, NEW w \in Workers, Worker(w)
  PROVE  UNCHANGED sessions \/ \E s : Advanced(s)
<1> DEFINE s == running[w].task.session
           c == running[w].task.correlation
           x == sessions[s]
<1>1. Waits(s, c) => s \in DOMAIN sessions /\ x \in SessionRecords
  BY DEF Waits, AllSound, Sound
<1>2. \/ UNCHANGED sessions
      \/ Waits(s, c) /\ \E status : Update(s, Abort(x, <<c>>, status)) \/ Update(s, Complete(x, c, status))
  BY DEF Worker, TakeTask, StartStorage, FinishStorage
<1> QED
  BY <1>1, <1>2, AbortMoves, CompleteMoves DEF Advanced, Advances

LEMMA HostCallbackAdvances ==
  ASSUME AllSound, HostCallback
  PROVE  UNCHANGED sessions \/ \E s : Advanced(s)
<1>1. PICK t \in external : ClipboardReturns(t) \/ CaptureRefused(t) \/ CaptureStored(t) \/ CaptureReported(t)
  BY DEF HostCallback
<1> DEFINE s == t.session
           c == t.correlation
           x == sessions[s]
<1>2. Waits(s, c) => s \in DOMAIN sessions /\ x \in SessionRecords
  BY DEF Waits, AllSound, Sound
<1>3. \/ UNCHANGED sessions
      \/ Waits(s, c) /\ \E status : Update(s, Complete(x, c, status))
      \/ Waits(s, c) /\ \E capture : Update(s, [x EXCEPT !.capture = capture])
  BY <1>1 DEF ClipboardReturns, CaptureRefused, CaptureReported, CallbackArrives, CaptureStored
<1>4. ASSUME NEW capture, Waits(s, c)
      PROVE  Moves(x, [x EXCEPT !.capture = capture])
  <2> DEFINE y == [x EXCEPT !.capture = capture]
  <2>1. y.admitted = x.admitted /\ y.pending = x.pending /\ y.delivered = x.delivered
    BY <1>2, <1>4 DEF SessionRecords
  <2> HIDE DEF y
  <2>2. Moves(x, y)
    BY <1>2, <1>4, <2>1, SameMoves
  <2> QED
    BY <2>2 DEF y
<1> QED
  BY <1>2, <1>3, <1>4, CompleteMoves DEF Advanced, Advances

LEMMA RevokeMoves ==
  ASSUME NEW x \in SessionRecords, NEW q, NEW P
  PROVE  Moves(x, Revoke(x, q, P)) /\ Revoke(x, q, P).delivered = x.delivered
<1> DEFINE z == [x EXCEPT !.subscribed = @ /\ May("event", P),
                          !.responses = Censored(@, P),
                          !.capture = IF May("captureOpen", P) THEN @ ELSE NoCapture]
           y == Revoke(x, q, P)
<1>1. z.admitted = x.admitted /\ z.pending = x.pending /\ z.delivered = x.delivered
  BY DEF SessionRecords
<1>2. /\ y.admitted = x.admitted /\ y.delivered = x.delivered
      /\ y.pending = [d \in DOMAIN x.pending \ Elements(q) |-> x.pending[d]]
  BY DEF Revoke, Abort, Settle, SessionRecords
<1>3. DOMAIN y.pending \subseteq DOMAIN x.pending
  BY <1>2
<1> HIDE DEF y
<1>4. x.delivered = x.delivered \cup ({NoCorrelation} \ {NoCorrelation})
  OBVIOUS
<1> QED
  BY <1>2, <1>3, <1>4 DEF Moves, y

-----------------------------------------------------------------------------
\* What a step does to the sessions together

SameRequests(x, y) ==
  y.admitted = x.admitted /\ DOMAIN y.pending = DOMAIN x.pending /\ y.delivered = x.delivered

\* Nothing the contract sees happens.
Stays ==
  /\ DOMAIN sessions' = DOMAIN sessions
  /\ \A r \in DOMAIN sessions : SameRequests(sessions[r], sessions'[r])

\* Requests come in, are answered or are delivered in the session s.
OneAdvances(s) ==
  /\ s \in DOMAIN sessions /\ DOMAIN sessions' = DOMAIN sessions
  /\ Advances(sessions[s], sessions'[s])
  /\ \A r \in DOMAIN sessions \ {s} : SameRequests(sessions[r], sessions'[r])

LEMMA AdvancedIs ==
  ASSUME NEW s, Advanced(s)
  PROVE  OneAdvances(s)
<1>1. PICK y : Update(s, y) /\ Advances(sessions[s], y)
  BY DEF Advanced
<1>2. /\ s \in DOMAIN sessions /\ DOMAIN sessions' = DOMAIN sessions /\ sessions'[s] = y
      /\ \A r \in DOMAIN sessions \ {s} : sessions'[r] = sessions[r]
  BY <1>1 DEF Advanced, Update
<1> QED
  BY <1>1, <1>2 DEF OneAdvances, SameRequests

\* Requests are answered in any number of sessions.
Answers ==
  /\ DOMAIN sessions' = DOMAIN sessions
  /\ \A r \in DOMAIN sessions :
       Moves(sessions[r], sessions'[r]) /\ sessions'[r].delivered = sessions[r].delivered

LEMMA PermissionsAnswer ==
  ASSUME AllSound, NEW o \in Owners, NEW P, PermissionsChanged(o, P)
  PROVE  Answers
<1> DEFINE now == P \cap services[o]
<1>1. PICK order :
        sessions' = [s \in DOMAIN sessions |->
                       IF s \in SessionsOf(o) THEN Revoke(sessions[s], order[s], now) ELSE sessions[s]]
  BY DEF PermissionsChanged
<1>2. /\ DOMAIN sessions' = DOMAIN sessions
      /\ \A r \in DOMAIN sessions : r \notin SessionsOf(o) => sessions'[r] = sessions[r]
      /\ \A r \in DOMAIN sessions : r \in SessionsOf(o) => sessions'[r] = Revoke(sessions[r], order[r], now)
  BY <1>1
<1>3. ASSUME NEW r \in DOMAIN sessions
      PROVE  Moves(sessions[r], sessions'[r]) /\ sessions'[r].delivered = sessions[r].delivered
  <2>1. sessions[r] \in SessionRecords
    BY DEF AllSound, Sound
  <2>2. CASE r \in SessionsOf(o)
    BY <1>2, <2>1, <2>2, RevokeMoves
  <2>3. CASE r \notin SessionsOf(o)
    BY <1>2, <2>1, <2>3, SameMoves
  <2> QED
    BY <2>2, <2>3
<1> QED
  BY <1>2, <1>3 DEF Answers

LEMMA InputStays ==
  ASSUME AllSound, InputEvent
  PROVE  Stays
<1>1. /\ DOMAIN sessions' = DOMAIN sessions
      /\ \A s \in DOMAIN sessions : sessions'[s] = Emit(sessions[s])
  BY DEF InputEvent
<1>2. \A x \in SessionRecords : SameRequests(x, Emit(x))
  BY DEF Emit, Push, SameRequests, SessionRecords
<1> QED
  BY <1>1, <1>2 DEF Stays, AllSound, Sound

Closes(S) == S \subseteq DOMAIN sessions /\ Erase(S)

\* The session n is opened.
Opens(n) ==
  /\ n = nextSession /\ n \in 1..LastSession /\ nextSession' = n + 1
  /\ DOMAIN sessions' = DOMAIN sessions \cup {n}
  /\ sessions'[n].admitted = {}
  /\ \A r \in DOMAIN sessions : sessions'[r] = sessions[r]

\* Every step of the host is one of five.
LEMMA StepIs ==
  ASSUME IInv, [Next]_vars
  PROVE  \/ \E n : Opens(n)
         \/ /\ UNCHANGED nextSession
            /\ Stays \/ Answers \/ (\E S : Closes(S)) \/ (\E s : OneAdvances(s))
<1>1. SessionsOK /\ AllSound
  BY DEF IInv, SessionsOK
<1>2. UNCHANGED sessions => Stays
  BY DEF Stays, SameRequests
<1>3. ASSUME NEW o \in Owners, GuestCall(o)
      PROVE  \/ \E n : Opens(n)
             \/ UNCHANGED nextSession /\ (Stays \/ (\E S : Closes(S)) \/ (\E s : OneAdvances(s)))
  <2>6. CASE BeginOpen(o) \/ RefuseOpen(o)
    BY <1>2, <2>6 DEF BeginOpen, RefuseOpen
  <2>1. CASE Open(o)
    <3>1. /\ nextSession \in 1..LastSession /\ nextSession' = nextSession + 1
          /\ nextSession \notin DOMAIN sessions
      BY <1>1, <2>1, ConstantsAssumption DEF Open, SessionsOK
    <3>2. /\ DOMAIN sessions' = DOMAIN sessions \cup {nextSession}
          /\ sessions'[nextSession] = NewSession(o)
          /\ \A r \in DOMAIN sessions : sessions'[r] = sessions[r]
      BY <2>1, <3>1 DEF Open
    <3>3. NewSession(o).admitted = {}
      BY DEF NewSession
    <3> QED
      BY <3>1, <3>2, <3>3 DEF Opens
  <2>2. ASSUME NEW s \in DOMAIN sessions, Submit(o, s)
        PROVE  UNCHANGED nextSession /\ ((\E S : Closes(S)) \/ OneAdvances(s))
    <3>1. UNCHANGED nextSession
      BY <2>2 DEF Submit, SubmitProtocolError, SubmitDenied, SubmitInvalid, SubmitCore, SubmitInject,
           SubmitStorage, SubmitClipboard, SubmitCapture, SubmitSubscription, SubmitCaptureClose
    <3> QED
      BY <1>1, <2>2, <3>1, SubmitAdvances, AdvancedIs DEF Closes
  <2>3. ASSUME NEW s \in DOMAIN sessions, Poll(o, s) \/ PollTooSmall(o, s)
        PROVE  UNCHANGED nextSession /\ OneAdvances(s)
    BY <1>1, <2>3, PollAdvances, AdvancedIs DEF Poll, PollTooSmall, PollWith
  <2>4. ASSUME NEW s \in DOMAIN sessions, Close(o, s)
        PROVE  UNCHANGED nextSession /\ Closes({s})
    BY <2>4 DEF Close, Closes
  <2>5. ASSUME NEW s \in DOMAIN sessions, NEW c \in Correlations, CancelPending(o, s, c) \/ CancelAnswered(o, s, c)
        PROVE  UNCHANGED nextSession /\ OneAdvances(s)
    BY <1>1, <2>5, CancelAdvances, AdvancedIs DEF CancelPending, CancelAnswered
  <2> QED
    BY <1>3, <2>1, <2>2, <2>3, <2>4, <2>5, <2>6 DEF GuestCall
<1>4. ASSUME NEW o \in Owners, StopOwner(o) \/ CloseOwner(o) \/ GrantChange(o)
      PROVE  UNCHANGED nextSession /\ (Stays \/ Answers \/ (\E S : Closes(S)) \/ (\E s : OneAdvances(s)))
  <2>1. CASE StopOwner(o)
    BY <1>2, <2>1 DEF StopOwner
  <2>2. CASE CloseOwner(o)
    BY <2>2 DEF CloseOwner, Closes, SessionsOf
  <2>3. ASSUME NEW P, SetServices(o, P)
        PROVE  UNCHANGED nextSession /\ Stays
    BY <1>2, <2>3 DEF SetServices
  <2>4. ASSUME NEW P, PermissionsChanged(o, P)
        PROVE  UNCHANGED nextSession /\ Answers
    <3>1. UNCHANGED nextSession
      BY <2>4 DEF PermissionsChanged
    <3> QED
      BY <1>1, <2>4, <3>1, PermissionsAnswer
  <2> QED
    BY <1>4, <2>1, <2>2, <2>3, <2>4 DEF GrantChange
<1>5. ASSUME NEW w \in Workers, Worker(w)
      PROVE  UNCHANGED nextSession /\ (Stays \/ (\E s : OneAdvances(s)))
  <2>1. UNCHANGED nextSession
    BY <1>5 DEF Worker, TakeTask, StartStorage, FinishStorage
  <2> QED
    BY <1>1, <1>2, <1>5, <2>1, WorkerAdvances, AdvancedIs
<1>6. CASE HostCallback
  <2>1. UNCHANGED nextSession
    BY <1>6 DEF HostCallback, ClipboardReturns, CaptureRefused, CaptureStored, CaptureReported, CallbackArrives
  <2> QED
    BY <1>1, <1>2, <1>6, <2>1, HostCallbackAdvances, AdvancedIs
<1>7. ASSUME NEW s \in DOMAIN sessions, NEW c \in Correlations, Expire(s, c)
      PROVE  UNCHANGED nextSession /\ \E r : OneAdvances(r)
  BY <1>1, <1>7, ExpireAdvances, AdvancedIs DEF Expire
<1>8. CASE InputEvent
  BY <1>1, <1>8, InputStays DEF InputEvent
<1>9. CASE CloseAll
  BY <1>9 DEF CloseAll, Closes
<1>10. CASE UNCHANGED vars
  BY <1>2, <1>10 DEF vars
<1> QED
  BY <1>3, <1>4, <1>5, <1>6, <1>7, <1>8, <1>9, <1>10 DEF Next
-----------------------------------------------------------------------------
\* The steps as the contract sees them

SessionSeen ==
  [s \in 1..LastSession |->
     IF s \in DOMAIN sessions THEN "open" ELSE IF s < nextSession THEN "closed" ELSE "unopened"]

RequestSeen == [s \in 1..LastSession |-> [c \in Correlations |-> How(s, c)]]

LEMMA HowIs ==
  ASSUME NEW s, NEW c
  PROVE  How(s, c) = IF s \in DOMAIN sessions THEN Stage(sessions[s], c) ELSE "new"
  BY DEF How, Stage

LEMMA StageSame ==
  ASSUME NEW x, NEW y, SameRequests(x, y)
  PROVE  \A c : Stage(y, c) = Stage(x, c)
  BY DEF SameRequests, Stage

\* An admitted request that is neither pending nor delivered is answered.
LEMMA AcceptedStage ==
  ASSUME NEW x, Sound(x), NEW y, Sound(y), NEW c, Accepts(x, y, c)
  PROVE  /\ c \in Correlations /\ Stage(x, c) = "new" /\ Stage(y, c) \in {"accepted", "answered"}
         /\ \A d : d # c => Stage(y, d) = Stage(x, d)
  BY DEF Accepts, Stage, Sound, Placed

LEMMA MovedStage ==
  ASSUME NEW x, Sound(x), NEW y, Sound(y), Moves(x, y)
  PROVE  LET A == DOMAIN x.pending \ DOMAIN y.pending
             D == y.delivered \ x.delivered
         IN  /\ A \in SUBSET Correlations /\ D \in SUBSET Correlations /\ Cardinality(D) <= 1
             /\ \A c \in A : Stage(x, c) = "accepted"
             /\ \A c \in D : Stage(x, c) = "answered" \/ c \in A
             /\ \A c \in Correlations :
                  Stage(y, c) = IF c \in D THEN "delivered" ELSE IF c \in A THEN "answered" ELSE Stage(x, c)
<1> DEFINE A == DOMAIN x.pending \ DOMAIN y.pending
           D == y.delivered \ x.delivered
<1>1. A \in SUBSET Correlations /\ D \in SUBSET Correlations
  BY Fields DEF Sound
<1>2. Cardinality(D) <= 1
  <2>1. PICK c : D \subseteq {c}
    BY DEF Moves
  <2>2. D = {} \/ D = {c}
    BY <2>1
  <2>3. Cardinality({}) = 0 /\ Cardinality({c}) = 1
    BY FS_EmptySet, FS_Singleton
  <2> HIDE DEF D
  <2> QED
    BY <2>2, <2>3
<1>3. /\ x.admitted = DOMAIN x.pending \cup Answered(x) \cup x.delivered
      /\ y.admitted = x.admitted
      /\ x.delivered \subseteq y.delivered /\ DOMAIN y.pending \subseteq DOMAIN x.pending
      /\ x.delivered \cap DOMAIN x.pending = {} /\ y.delivered \cap DOMAIN y.pending = {}
      /\ y.delivered \subseteq y.admitted
  BY DEF Sound, Placed, Moves
<1>4. \A c \in A : Stage(x, c) = "accepted"
  BY <1>3 DEF Stage
<1>5. \A c \in D : Stage(x, c) = "answered" \/ c \in A
  BY <1>3 DEF Stage
<1>6. \A c \in Correlations :
        Stage(y, c) = IF c \in D THEN "delivered" ELSE IF c \in A THEN "answered" ELSE Stage(x, c)
  BY <1>3 DEF Stage
<1> QED
  BY <1>1, <1>2, <1>4, <1>5, <1>6

LEMMA StaysStutters ==
  ASSUME Stays, UNCHANGED nextSession
  PROVE  UNCHANGED <<SessionSeen, RequestSeen>>
<1>1. \A s : s \in DOMAIN sessions' <=> s \in DOMAIN sessions
  BY DEF Stays
<1>2. ASSUME NEW s, NEW c
      PROVE  How(s, c)' = How(s, c)
  <2>1. CASE s \in DOMAIN sessions
    <3>1. Stage(sessions'[s], c) = Stage(sessions[s], c)
      BY <2>1, StageSame DEF Stays
    <3> QED
      BY <1>1, <2>1, <3>1 DEF How, Stage
  <2>2. CASE s \notin DOMAIN sessions
    BY <1>1, <2>2 DEF How
  <2> QED
    BY <2>1, <2>2
<1>3. SessionSeen' = SessionSeen
  BY <1>1 DEF SessionSeen
<1>4. RequestSeen' = RequestSeen
  BY <1>2 DEF RequestSeen
<1> QED
  BY <1>3, <1>4

LEMMA OpensSeen ==
  ASSUME IInv, NEW n, Opens(n)
  PROVE  Contract!Open(n) /\ n \in 1..LastSession
<1>1. n \notin DOMAIN sessions /\ n \in 1..LastSession /\ nextSession \in Nat /\ n = nextSession
  BY ConstantsAssumption DEF IInv, SessionsOK, Opens
<1>2. ASSUME NEW s, NEW c
      PROVE  How(s, c)' = How(s, c)
  <2>1. CASE s = n
    <3>1. How(s, c)' = "new"
      BY <2>1 DEF How, Opens
    <3> QED
      BY <1>1, <2>1, <3>1 DEF How
  <2>2. CASE s # n
    <3>1. s \in DOMAIN sessions' <=> s \in DOMAIN sessions
      BY <2>2 DEF Opens
    <3>2. s \in DOMAIN sessions => sessions'[s] = sessions[s]
      BY DEF Opens
    <3> QED
      BY <3>1, <3>2 DEF How
  <2> QED
    BY <2>1, <2>2
<1>3. RequestSeen' = RequestSeen
  BY <1>2 DEF RequestSeen
<1>4. SessionSeen[n] = "unopened"
  BY <1>1 DEF SessionSeen
<1>5. SessionSeen' = [SessionSeen EXCEPT ![n] = "open"]
  <2>1. \A s \in 1..LastSession : s \in DOMAIN sessions' <=> s \in DOMAIN sessions \/ s = n
    BY DEF Opens
  <2>2. nextSession' = n + 1
    BY DEF Opens
  <2>3. \A s \in 1..LastSession : s < n + 1 <=> s < n \/ s = n
    BY <1>1, ConstantsAssumption
  <2>4. SessionSeen' = [s \in 1..LastSession |-> IF s = n THEN "open" ELSE SessionSeen[s]]
    BY <1>1, <2>1, <2>2, <2>3 DEF SessionSeen
  <2> QED
    BY <1>1, <2>4 DEF SessionSeen
<1> QED
  BY <1>1, <1>3, <1>4, <1>5 DEF Contract!Open, SessionSeen, RequestSeen

LEMMA ClosesSeen ==
  ASSUME IInv, NEW S, Closes(S), UNCHANGED nextSession
  PROVE  UNCHANGED <<SessionSeen, RequestSeen>> \/ (S \in SUBSET (1..LastSession) /\ Contract!Close(S))
<1>1. /\ S \subseteq DOMAIN sessions /\ DOMAIN sessions' = DOMAIN sessions \ S
      /\ \A s \in DOMAIN sessions' : sessions'[s] = sessions[s]
  BY DEF Closes, Erase
<1>2. /\ nextSession \in 1..(LastSession + 1) /\ \A s \in DOMAIN sessions : s \in 1..(nextSession - 1)
  BY DEF IInv, SessionsOK
<1>3. CASE S = {}
  <2>1. Stays
    BY <1>1, <1>3 DEF Stays, SameRequests
  <2> QED
    BY <2>1, StaysStutters
<1>4. CASE S # {}
  <2>1. S \in SUBSET (1..LastSession)
    BY <1>1, <1>2, ConstantsAssumption
  <2>2. \A s \in S : SessionSeen[s] = "open"
    BY <1>1, <2>1 DEF SessionSeen
  <2>3. SessionSeen' = [s \in 1..LastSession |-> IF s \in S THEN "closed" ELSE SessionSeen[s]]
    BY <1>1, <1>2, <2>1 DEF SessionSeen
  <2>4. ASSUME NEW s \in 1..LastSession, NEW c \in Correlations
        PROVE  How(s, c)' = IF s \in S THEN "new" ELSE How(s, c)
    BY <1>1 DEF How
  <2>5. RequestSeen' = [s \in 1..LastSession |-> IF s \in S THEN [c \in Correlations |-> "new"] ELSE RequestSeen[s]]
    BY <2>4 DEF RequestSeen
  <2> QED
    BY <1>4, <2>1, <2>2, <2>3, <2>5 DEF Contract!Close, SessionSeen, RequestSeen
<1> QED
  BY <1>3, <1>4

LEMMA OneAdvancesSeen ==
  ASSUME IInv, IInv', NEW s, OneAdvances(s), UNCHANGED nextSession
  PROVE  /\ s \in 1..LastSession
         /\ \/ \E c \in Correlations : Contract!Accept(s, c)
            \/ \E A, D \in SUBSET Correlations : Contract!Progress(s, A, D)
<1> DEFINE x == sessions[s]
           y == sessions'[s]
<1>1. /\ s \in DOMAIN sessions /\ DOMAIN sessions' = DOMAIN sessions
      /\ \A r \in DOMAIN sessions \ {s} : SameRequests(sessions[r], sessions'[r])
      /\ Advances(x, y)
  BY DEF OneAdvances
<1>2. s \in 1..LastSession
  <2>1. nextSession \in 1..(LastSession + 1) /\ s \in 1..(nextSession - 1)
    BY <1>1 DEF IInv, SessionsOK
  <2> QED
    BY <2>1, ConstantsAssumption
<1>3. Sound(x) /\ Sound(y)
  BY <1>1 DEF IInv, SessionsOK, AllSound
<1>4. SessionSeen' = SessionSeen /\ SessionSeen[s] = "open"
  BY <1>1, <1>2 DEF SessionSeen
<1>5. ASSUME NEW r \in 1..LastSession, NEW c, r # s
      PROVE  How(r, c)' = How(r, c)
  <2>1. CASE r \in DOMAIN sessions
    <3>1. Stage(sessions'[r], c) = Stage(sessions[r], c)
      BY <1>1, <1>5, <2>1, StageSame
    <3> QED
      BY <1>1, <2>1, <3>1 DEF How, Stage
  <2>2. CASE r \notin DOMAIN sessions
    BY <1>1, <2>2 DEF How
  <2> QED
    BY <2>1, <2>2
<1>6. \A c : How(s, c) = Stage(x, c) /\ How(s, c)' = Stage(y, c)
  BY <1>1 DEF How, Stage
<1> HIDE DEF x, y
<1>7. \A c \in Correlations : RequestSeen[s][c] = Stage(x, c)
  BY <1>2, <1>6 DEF RequestSeen
<1>8. ASSUME NEW f, \A c \in Correlations : Stage(y, c) = f[c], f = [c \in Correlations |-> f[c]]
      PROVE  RequestSeen' = [RequestSeen EXCEPT ![s] = f]
  <2>1. [c \in Correlations |-> How(s, c)'] = f
    BY <1>6, <1>8
  <2>2. RequestSeen' = [r \in 1..LastSession |-> [c \in Correlations |-> How(r, c)']]
    BY DEF RequestSeen
  <2>3. \A r \in 1..LastSession : r # s => [c \in Correlations |-> How(r, c)'] = RequestSeen[r]
    BY <1>5 DEF RequestSeen
  <2>4. RequestSeen' = [r \in 1..LastSession |-> IF r = s THEN f ELSE RequestSeen[r]]
    BY <2>1, <2>2, <2>3
  <2>5. [RequestSeen EXCEPT ![s] = f] = [r \in 1..LastSession |-> IF r = s THEN f ELSE RequestSeen[r]]
    BY DEF RequestSeen
  <2> QED
    BY <2>4, <2>5
<1>9. ASSUME NEW c, Accepts(x, y, c)
      PROVE  c \in Correlations /\ Contract!Accept(s, c)
  <2>1. /\ c \in Correlations /\ Stage(x, c) = "new" /\ Stage(y, c) \in {"accepted", "answered"}
        /\ \A d : d # c => Stage(y, d) = Stage(x, d)
    BY <1>3, <1>9, AcceptedStage
  <2> DEFINE f == [RequestSeen[s] EXCEPT ![c] = Stage(y, c)]
  <2>2. RequestSeen[s] = [d \in Correlations |-> Stage(x, d)]
    BY <1>2, <1>6 DEF RequestSeen
  <2>3. (\A d \in Correlations : Stage(y, d) = f[d]) /\ f = [d \in Correlations |-> f[d]]
    BY <2>1, <2>2
  <2> HIDE DEF f
  <2>4. RequestSeen' = [RequestSeen EXCEPT ![s] = f]
    BY <1>8, <2>3
  <2>5. RequestSeen' = [RequestSeen EXCEPT ![s][c] = Stage(y, c)]
    BY <2>4 DEF f
  <2> QED
    BY <1>4, <1>7, <2>1, <2>5 DEF Contract!Accept, SessionSeen, RequestSeen
<1>10. CASE Moves(x, y)
  <2> DEFINE A == DOMAIN x.pending \ DOMAIN y.pending
             D == y.delivered \ x.delivered
  <2>1. /\ A \in SUBSET Correlations /\ D \in SUBSET Correlations /\ Cardinality(D) <= 1
        /\ \A c \in A : Stage(x, c) = "accepted"
        /\ \A c \in D : Stage(x, c) = "answered" \/ c \in A
        /\ \A c \in Correlations :
             Stage(y, c) = IF c \in D THEN "delivered" ELSE IF c \in A THEN "answered" ELSE Stage(x, c)
    BY <1>3, <1>10, MovedStage
  <2> HIDE DEF A, D
  <2> DEFINE f == [c \in Correlations |-> IF c \in D THEN "delivered"
                                          ELSE IF c \in A THEN "answered" ELSE RequestSeen[s][c]]
  <2>2. (\A c \in Correlations : Stage(y, c) = f[c]) /\ f = [c \in Correlations |-> f[c]]
    BY <1>7, <2>1
  <2> HIDE DEF f
  <2>3. RequestSeen' = [RequestSeen EXCEPT ![s] = f]
    BY <1>8, <2>2
  <2>4. Contract!Progress(s, A, D)
    <3>1. /\ \A c \in A : RequestSeen[s][c] = "accepted"
          /\ \A c \in D : RequestSeen[s][c] = "answered" \/ c \in A
      BY <1>7, <2>1
    <3>2. RequestSeen' = [RequestSeen EXCEPT ![s] =
                            [r \in Correlations |-> IF r \in D THEN "delivered"
                                                    ELSE IF r \in A THEN "answered" ELSE @[r]]]
      BY <2>3 DEF f
    <3>3. SessionSeen[s] = "open" /\ SessionSeen' = SessionSeen /\ Cardinality(D) <= 1
      BY <1>4, <2>1
    <3>4. Contract!Cardinality(D) = Cardinality(D)
      BY DEF Cardinality, Contract!Cardinality
    <3> QED
      BY <3>1, <3>2, <3>3, <3>4 DEF Contract!Progress, SessionSeen, RequestSeen
  <2> QED
    BY <1>2, <2>1, <2>4
<1> QED
  BY <1>1, <1>2, <1>9, <1>10 DEF Advances

LEMMA AnswersSeen ==
  ASSUME IInv, IInv', Answers, UNCHANGED nextSession
  PROVE  \E A \in [1..LastSession -> SUBSET Correlations] : Contract!Revoke(A)
<1> DEFINE Left(s) == DOMAIN sessions[s].pending \ DOMAIN sessions'[s].pending
           A == [s \in 1..LastSession |-> IF s \in DOMAIN sessions THEN Left(s) ELSE {}]
<1>1. ASSUME NEW s \in DOMAIN sessions
      PROVE  /\ Left(s) \in SUBSET Correlations
             /\ \A c \in Left(s) : How(s, c) = "accepted"
             /\ \A c \in Correlations : How(s, c)' = IF c \in Left(s) THEN "answered" ELSE How(s, c)
  <2>1. /\ Sound(sessions[s]) /\ Sound(sessions'[s]) /\ Moves(sessions[s], sessions'[s])
        /\ sessions'[s].delivered \ sessions[s].delivered = {} /\ s \in DOMAIN sessions'
    BY DEF Answers, IInv, SessionsOK, AllSound
  <2>2. \A c : How(s, c) = Stage(sessions[s], c) /\ How(s, c)' = Stage(sessions'[s], c)
    BY <2>1 DEF How, Stage
  <2>3. /\ Left(s) \in SUBSET Correlations
        /\ \A c \in Left(s) : Stage(sessions[s], c) = "accepted"
        /\ \A c \in Correlations :
             Stage(sessions'[s], c) = IF c \in Left(s) THEN "answered" ELSE Stage(sessions[s], c)
    BY <2>1, MovedStage
  <2> HIDE DEF Left
  <2> QED
    BY <2>2, <2>3
<1>2. ASSUME NEW s, s \notin DOMAIN sessions, NEW c
      PROVE  How(s, c)' = How(s, c)
  BY <1>2 DEF How, Answers
<1>3. SessionSeen' = SessionSeen /\ \A s \in 1..LastSession : s \in DOMAIN sessions => SessionSeen[s] = "open"
  BY DEF SessionSeen, Answers
<1> HIDE DEF Left
<1>4. A \in [1..LastSession -> SUBSET Correlations]
  BY <1>1
<1>5. \A s \in 1..LastSession : A[s] # {} => SessionSeen[s] = "open"
  BY <1>3
<1>6. \A s \in 1..LastSession : \A c \in A[s] : c \in Correlations /\ RequestSeen[s][c] = "accepted"
  BY <1>1 DEF RequestSeen
<1>7. ASSUME NEW s \in 1..LastSession, NEW c \in Correlations
      PROVE  How(s, c)' = IF c \in A[s] THEN "answered" ELSE RequestSeen[s][c]
  <2>1. RequestSeen[s][c] = How(s, c)
    BY DEF RequestSeen
  <2>2. CASE s \in DOMAIN sessions
    BY <1>1, <2>1, <2>2
  <2>3. CASE s \notin DOMAIN sessions
    BY <1>2, <2>1, <2>3
  <2> QED
    BY <2>2, <2>3
<1> HIDE DEF A
<1>8. RequestSeen' = [s \in 1..LastSession |->
                        [c \in Correlations |-> IF c \in A[s] THEN "answered" ELSE RequestSeen[s][c]]]
  BY <1>7 DEF RequestSeen
<1>9. Contract!Revoke(A)
  BY <1>3, <1>5, <1>6, <1>8 DEF Contract!Revoke, SessionSeen, RequestSeen
<1> QED
  BY <1>4, <1>9

\* The CEX2 host implements the contract: whatever answers a request, for any
\* owners, requests, workers and limits, no step answers or delivers it again,
\* takes an answer back, or revives a closed session.
THEOREM Implements == Spec => ContractSpec
<1>1. Init => Contract!Init
  <2> SUFFICES ASSUME Init PROVE Contract!Init
    OBVIOUS
  <2>1. DOMAIN sessions = {} /\ nextSession = 1
    BY DEF Init
  <2> QED
    BY <2>1 DEF Contract!Init, How
<1>2. IInv /\ IInv' /\ [Next]_vars => [Contract!Next]_(Contract!contractVars)
  <2> SUFFICES ASSUME IInv, IInv', [Next]_vars PROVE [Contract!Next]_(Contract!contractVars)
    OBVIOUS
  <2>1. ASSUME NEW n, Opens(n) PROVE Contract!Next
    BY <2>1, OpensSeen DEF Contract!Next
  <2>2. ASSUME UNCHANGED <<SessionSeen, RequestSeen>> PROVE UNCHANGED Contract!contractVars
    BY <2>2 DEF Contract!contractVars, SessionSeen, RequestSeen
  <2>3. ASSUME NEW S, Closes(S), UNCHANGED nextSession PROVE [Contract!Next]_(Contract!contractVars)
    BY <2>2, <2>3, ClosesSeen DEF Contract!Next
  <2>4. ASSUME NEW s, OneAdvances(s), UNCHANGED nextSession PROVE Contract!Next
    BY <2>4, OneAdvancesSeen DEF Contract!Next
  <2>5. ASSUME Answers, UNCHANGED nextSession PROVE Contract!Next
    BY <2>5, AnswersSeen DEF Contract!Next
  <2> QED
    BY <2>1, <2>2, <2>3, <2>4, <2>5, StepIs, StaysStutters
<1> QED
  BY <1>1, <1>2, Invariant, PTL DEF Spec, ContractSpec, Contract!Spec

-----------------------------------------------------------------------------
(***************************************************************************)
(* CaptureOwned for any owners, requests and bounds: a capture that waits  *)
(* for its image has its request pending.                                  *)
(*                                                                         *)
(* Neither the sessions nor CaptureOwned are enough for an induction: what *)
(* keeps a late screenshot callback from completing the wrong request is   *)
(* that a capture which waits has a callback of its own that will still    *)
(* come, and that no request has two.                                      *)
(***************************************************************************)

\* The kind of request the task t answers.
KindOf(t) == IF t.kind \in {"captureStored", "captureFailed"} THEN "captureOpen" ELSE t.kind

\* The task t was sent for a request its session, if it is still open, admitted.
Sent(t) ==
  /\ t.session < nextSession
  /\ t.session \in DOMAIN sessions =>
       LET x == sessions[t.session] IN
         /\ t.correlation \in x.admitted
         /\ t.correlation \in DOMAIN x.pending => x.pending[t.correlation].kind = KindOf(t)

\* The tasks of the workers, and all that may still answer a request.
Stored == Elements(work) \cup {running[w].task : w \in {v \in Workers : running[v].task # NoTask}}

Outstanding == Stored \cup external

\* The callback t will bring the image that the session x, with id s, waits for.
Awaits(x, s, t) ==
  t.session = s /\ t.kind \in {"captureOpen", "captureFailed"} /\ t.correlation \in DOMAIN x.pending

\* The capture of the session x, with id s, while the callbacks E may come.
CaptureKept(x, s, E) ==
  /\ ~(x.capture.pending /\ x.capture.handle # NoCorrelation)
  /\ x.capture.pending => \E t \in E : Awaits(x, s, t)
  /\ x.capture.handle # NoCorrelation =>
       /\ x.capture.handle \in x.admitted
       /\ x.capture.handle \in DOMAIN x.pending => x.pending[x.capture.handle].kind = "captureOpen"

CInv ==
  /\ \A t \in Outstanding : Sent(t)
  /\ \A t \in Stored : t.kind = "storage"
  /\ \A t, u \in external : t.session = u.session /\ t.correlation = u.correlation => t = u
  /\ \A w \in Workers : running[w].started => running[w].task # NoTask
  /\ \A s \in DOMAIN sessions : CaptureKept(sessions[s], s, external)

-----------------------------------------------------------------------------
\* What the operations do to the requests and the capture of a session

\* No request comes back, and none changes its kind.
Later(x, y) ==
  /\ x.admitted \subseteq y.admitted
  /\ \A c \in DOMAIN y.pending :
       c \in x.admitted => c \in DOMAIN x.pending /\ y.pending[c].kind = x.pending[c].kind

\* The capture is dropped, or it stays and so do the requests for captures.
Careful(x, y) ==
  \/ y.capture = NoCapture
  \/ /\ y.capture = x.capture
     /\ \A c \in DOMAIN x.pending : x.pending[c].kind = "captureOpen" => c \in DOMAIN y.pending

Mild(x, y) == Later(x, y) /\ Careful(x, y)

LEMMA SameMild ==
  ASSUME NEW x, NEW y, y.admitted = x.admitted, y.capture = x.capture,
         DOMAIN y.pending = DOMAIN x.pending,
         \A c \in DOMAIN x.pending : y.pending[c].kind = x.pending[c].kind
  PROVE  Mild(x, y)
  BY DEF Mild, Later, Careful

LEMMA MildTransitive ==
  ASSUME NEW x, NEW y, NEW z, Sound(x), Mild(x, y), Mild(y, z)
  PROVE  Mild(x, z)
<1>1. DOMAIN x.pending \subseteq x.admitted
  BY DEF Sound, Placed
<1>2. Later(x, z)
  BY DEF Mild, Later
<1>3. Careful(x, z)
  BY <1>1 DEF Mild, Later, Careful
<1> QED
  BY <1>2, <1>3 DEF Mild

LEMMA SettlePending ==
  ASSUME NEW x \in SessionRecords, NEW q, NEW status, NEW capture
  PROVE  LET y == Settle(x, q, status, capture) IN
         /\ y.admitted = x.admitted /\ y.capture = capture
         /\ DOMAIN y.pending = DOMAIN x.pending \ Elements(q)
         /\ \A c \in DOMAIN y.pending : y.pending[c] = x.pending[c]
<1> DEFINE y == Settle(x, q, status, capture)
<1>1. y.admitted = x.admitted /\ y.capture = capture
  BY SettleFields
<1>2. y.pending = [d \in DOMAIN x.pending \ Elements(q) |-> x.pending[d]]
  BY DEF Settle, SessionRecords
<1> QED
  BY <1>1, <1>2

LEMMA AbortMild ==
  ASSUME NEW x \in SessionRecords, NEW q, NEW status
  PROVE  Mild(x, Abort(x, q, status))
<1> DEFINE lost == \E c \in Elements(q) : x.pending[c].kind = "captureOpen"
           capture == IF lost THEN NoCapture ELSE x.capture
           y == Settle(x, q, status, capture)
<1>1. /\ y.admitted = x.admitted /\ y.capture = capture
      /\ DOMAIN y.pending = DOMAIN x.pending \ Elements(q)
      /\ \A c \in DOMAIN y.pending : y.pending[c] = x.pending[c]
  BY SettlePending
<1>2. Abort(x, q, status) = y
  BY DEF Abort
<1> HIDE DEF y
<1>3. Later(x, y)
  BY <1>1 DEF Later
<1>4. Careful(x, y)
  BY <1>1 DEF Careful
<1> QED
  BY <1>2, <1>3, <1>4 DEF Mild

LEMMA CompleteMild ==
  ASSUME NEW x \in SessionRecords, NEW c \in DOMAIN x.pending, NEW status,
         status # "Ok" \/ x.pending[c].kind # "captureOpen"
  PROVE  Mild(x, Complete(x, c, status))
<1>1. CASE Complete(x, c, status) = Settle(x, <<c>>, "Ok", x.capture) /\ status = "Ok"
  <2> DEFINE y == Settle(x, <<c>>, "Ok", x.capture)
  <2>1. /\ y.admitted = x.admitted /\ y.capture = x.capture
        /\ DOMAIN y.pending = DOMAIN x.pending \ {c}
        /\ \A d \in DOMAIN y.pending : y.pending[d] = x.pending[d]
    BY SettlePending, OneAnswerable
  <2> HIDE DEF y
  <2>2. Later(x, y) /\ Careful(x, y)
    BY <1>1, <2>1 DEF Later, Careful
  <2> QED
    BY <1>1, <2>2 DEF Mild, y
<1>2. \/ Complete(x, c, status) = Settle(x, <<c>>, "Ok", x.capture) /\ status = "Ok"
      \/ \E q, st : Complete(x, c, status) = Abort(x, q, st)
  BY DEF Complete
<1> QED
  BY <1>1, <1>2, AbortMild

\* Late as it is, an answer never brings a request back.
LEMMA CompleteLater ==
  ASSUME NEW x \in SessionRecords, NEW c \in DOMAIN x.pending, NEW status
  PROVE  Later(x, Complete(x, c, status))
<1>1. \A q, st, capture : Later(x, Settle(x, q, st, capture))
  BY SettlePending DEF Later
<1> QED
  BY <1>1 DEF Complete, Abort

LEMMA AnswerMild ==
  ASSUME NEW x, Sound(x), NEW c \in Correlations \ x.admitted, NEW kind, NEW status
  PROVE  /\ Mild(x, Answer(x, c, kind, status))
         /\ \A b : Mild(x, [Answer(x, c, kind, status) EXCEPT !.subscribed = b])
         /\ Mild(x, [Answer(x, c, kind, status) EXCEPT !.capture = NoCapture])
<1>1. x \in SessionRecords
  BY DEF Sound
<1>2. ASSUME NEW y, y.admitted = x.admitted \cup {c}, y.pending = x.pending,
             y.capture = x.capture \/ y.capture = NoCapture
      PROVE  Mild(x, y)
  <2>1. Later(x, y)
    BY <1>2 DEF Later
  <2>2. Careful(x, y)
    BY <1>2 DEF Careful
  <2> QED
    BY <2>1, <2>2 DEF Mild
<1> DEFINE y == Answer(x, c, kind, status)
<1>3. y.admitted = x.admitted \cup {c} /\ y.pending = x.pending /\ y.capture = x.capture
  BY <1>1 DEF Answer, Push, Admit, SessionRecords
<1>4. ASSUME NEW b, NEW z, z = [y EXCEPT !.subscribed = b]
      PROVE  z.admitted = y.admitted /\ z.pending = y.pending /\ z.capture = y.capture
  BY <1>1, <1>4 DEF Answer, Push, Admit, SessionRecords
<1>5. ASSUME NEW z, z = [y EXCEPT !.capture = NoCapture]
      PROVE  z.admitted = y.admitted /\ z.pending = y.pending /\ z.capture = NoCapture
  BY <1>1, <1>5 DEF Answer, Push, Admit, SessionRecords
<1> HIDE DEF y
<1>6. Mild(x, y) /\ (\A b : Mild(x, [y EXCEPT !.subscribed = b])) /\ Mild(x, [y EXCEPT !.capture = NoCapture])
  BY <1>2, <1>3, <1>4, <1>5
<1> QED
  BY <1>6 DEF y

\* The request c of the session x is now pending, in y.
Asked(x, y, c, kind) ==
  Later(x, y) /\ c \in y.admitted /\ c \in DOMAIN y.pending /\ y.pending[c].kind = kind

LEMMA ReserveMild ==
  ASSUME NEW x, Sound(x), NEW c \in Correlations \ x.admitted, NEW kind
  PROVE  LET y == Reserve(Admit(x, c), c, kind) IN Asked(x, y, c, kind) /\ Mild(x, y)
<1> DEFINE y == Reserve(Admit(x, c), c, kind)
<1>1. x \in SessionRecords
  BY DEF Sound
<1>2. /\ y.admitted = x.admitted \cup {c} /\ y.capture = x.capture
      /\ y.pending = [d \in DOMAIN x.pending \cup {c} |->
                        IF d = c THEN [kind |-> kind, expired |-> FALSE] ELSE x.pending[d]]
  BY <1>1 DEF Reserve, Admit, SessionRecords
<1> HIDE DEF y
<1>3. /\ DOMAIN y.pending = DOMAIN x.pending \cup {c} /\ y.pending[c].kind = kind
      /\ \A d \in DOMAIN x.pending : d # c => y.pending[d] = x.pending[d]
  BY <1>2
<1>4. DOMAIN x.pending \subseteq x.admitted
  BY DEF Sound, Placed
<1>5. Later(x, y) /\ c \in y.admitted /\ c \in DOMAIN y.pending
  BY <1>2, <1>3, <1>4 DEF Later
<1>6. Careful(x, y)
  BY <1>2, <1>3 DEF Careful
<1> QED
  BY <1>3, <1>5, <1>6 DEF Asked, Mild, y

LEMMA ReserveClipboardMild ==
  ASSUME NEW x, Sound(x), NEW c \in Correlations \ x.admitted
  PROVE  LET y == [Reserve(Admit(x, c), c, "clipboard") EXCEPT !.clipboardPending = TRUE]
         IN  Asked(x, y, c, "clipboard") /\ Mild(x, y)
<1> DEFINE v == Reserve(Admit(x, c), c, "clipboard")
           y == [v EXCEPT !.clipboardPending = TRUE]
<1>1. x \in SessionRecords
  BY DEF Sound
<1>2. y.admitted = v.admitted /\ y.pending = v.pending /\ y.capture = v.capture
  BY <1>1 DEF Reserve, Admit, SessionRecords
<1>3. Asked(x, v, c, "clipboard") /\ Mild(x, v)
  BY ReserveMild
<1> HIDE DEF y, v
<1>4. Asked(x, y, c, "clipboard") /\ Mild(x, y)
  BY <1>2, <1>3 DEF Asked, Mild, Later, Careful
<1> QED
  BY <1>4 DEF y, v

LEMMA ReserveCaptureLater ==
  ASSUME NEW x, Sound(x), NEW c \in Correlations \ x.admitted
  PROVE  LET y == [Reserve(Admit(x, c), c, "captureOpen") EXCEPT !.capture.pending = TRUE]
         IN  Asked(x, y, c, "captureOpen") /\ y.capture = [x.capture EXCEPT !.pending = TRUE]
<1> DEFINE v == Reserve(Admit(x, c), c, "captureOpen")
           y == [v EXCEPT !.capture.pending = TRUE]
<1>1. x \in SessionRecords
  BY DEF Sound
<1>2. y.admitted = v.admitted /\ y.pending = v.pending /\ y.capture = [x.capture EXCEPT !.pending = TRUE]
  BY <1>1 DEF Reserve, Admit, SessionRecords
<1>3. Asked(x, v, c, "captureOpen")
  BY ReserveMild
<1> HIDE DEF y, v
<1>4. Asked(x, y, c, "captureOpen")
  BY <1>2, <1>3 DEF Asked, Later
<1> QED
  BY <1>2, <1>4 DEF y, v

LEMMA InjectMild ==
  ASSUME NEW x, Sound(x), NEW c \in Correlations \ x.admitted
  PROVE  Mild(x, Injected(x, c))
<1>1. x \in SessionRecords
  BY DEF Sound
<1>2. CASE Injected(x, c) = Answer(x, c, "inject", "Ok")
  <2>1. Mild(x, Answer(x, c, "inject", "Ok"))
    BY AnswerMild
  <2> QED
    BY <1>2, <2>1
<1>3. CASE Injected(x, c) = Answer(Push(x, Event), c, "inject", "Ok")
  <2> DEFINE y == Answer(Push(x, Event), c, "inject", "Ok")
  <2>1. y.admitted = x.admitted \cup {c} /\ y.pending = x.pending /\ y.capture = x.capture
    BY <1>1 DEF Answer, Push, Admit, SessionRecords
  <2> HIDE DEF y
  <2>2. Mild(x, y)
    BY <2>1 DEF Mild, Later, Careful
  <2> QED
    BY <1>3, <2>2 DEF y
<1> QED
  BY <1>1, <1>2, <1>3, InjectedIs

LEMMA CaptureNowMild ==
  ASSUME NEW x, Sound(x), NEW capture \in CaptureNow(x), NEW z, z = [x EXCEPT !.capture = capture]
  PROVE  /\ Mild(x, z) /\ Sound(z) /\ z.admitted = x.admitted /\ z.capture = capture
<1>1. x \in SessionRecords /\ z.admitted = x.admitted /\ Sound(z)
  BY CaptureNowKeeps DEF Sound, Keeps
<1>2. z.pending = x.pending /\ z.capture = capture
  BY <1>1 DEF SessionRecords
<1>3. capture = x.capture \/ capture = NoCapture
  BY DEF CaptureNow
<1> QED
  BY <1>1, <1>2, <1>3 DEF Mild, Later, Careful

LEMMA RevokeMild ==
  ASSUME NEW x, Sound(x), NEW q, Answerable(x, q), NEW P
  PROVE  Mild(x, Revoke(x, q, P))
<1> DEFINE z == Withdrawn(x, P)
<1>1. x \in SessionRecords
  BY DEF Sound
<1>2. z.admitted = x.admitted /\ z.pending = x.pending /\ (z.capture = x.capture \/ z.capture = NoCapture)
  BY <1>1 DEF Withdrawn, SessionRecords
<1>3. z \in SessionRecords
  BY WithdrawnSound DEF Sound
<1>4. Revoke(x, q, P) = Abort(z, q, "PermissionDenied")
  BY DEF Revoke, Withdrawn
<1> HIDE DEF z
<1>5. Mild(x, z)
  BY <1>2 DEF Mild, Later, Careful
<1>6. Mild(z, Abort(z, q, "PermissionDenied"))
  BY <1>3, AbortMild
<1> QED
  BY <1>4, <1>5, <1>6, MildTransitive
-----------------------------------------------------------------------------
\* What the sessions, the tasks and the callbacks keep

\* No session that is left takes a request back.
Evolves ==
  /\ nextSession' \in {nextSession, nextSession + 1}
  /\ \A s \in DOMAIN sessions' :
       s = nextSession \/ (s \in DOMAIN sessions /\ Later(sessions[s], sessions'[s]))

LEMMA SentStays ==
  ASSUME IInv, Evolves, NEW t \in Tasks, Sent(t)
  PROVE  Sent(t)'
<1>1. t.session \in Nat /\ t.session < nextSession /\ nextSession \in Nat
  BY ConstantsAssumption DEF Sent, Tasks, IInv, SessionsOK
<1>2. t.session < nextSession'
  BY <1>1 DEF Evolves
<1>3. ASSUME t.session \in DOMAIN sessions'
      PROVE  /\ t.correlation \in sessions'[t.session].admitted
             /\ t.correlation \in DOMAIN sessions'[t.session].pending =>
                  sessions'[t.session].pending[t.correlation].kind = KindOf(t)
  <2>1. t.session \in DOMAIN sessions /\ Later(sessions[t.session], sessions'[t.session])
    BY <1>1, <1>3 DEF Evolves
  <2> QED
    BY <2>1 DEF Sent, Later
<1> QED
  BY <1>2, <1>3 DEF Sent

\* A capture is kept by a mild change after which its callback may still come.
LEMMA KeptStays ==
  ASSUME NEW x, NEW y, NEW s, NEW E, NEW F, CaptureKept(x, s, E), Sound(x), Mild(x, y),
         \A t \in E : Awaits(x, s, t) => t \in F /\ x.pending[t.correlation].kind = "captureOpen"
  PROVE  CaptureKept(y, s, F)
<1>1. CASE y.capture = NoCapture
  <2>1. ~y.capture.pending /\ y.capture.handle = NoCorrelation
    BY <1>1 DEF NoCapture
  <2> QED
    BY <2>1 DEF CaptureKept
<1>2. CASE /\ y.capture = x.capture
           /\ \A c \in DOMAIN x.pending : x.pending[c].kind = "captureOpen" => c \in DOMAIN y.pending
  <2>1. ~(y.capture.pending /\ y.capture.handle # NoCorrelation)
    BY <1>2 DEF CaptureKept
  <2>2. ASSUME y.capture.pending
        PROVE  \E t \in F : Awaits(y, s, t)
    <3>1. PICK t \in E : Awaits(x, s, t)
      BY <1>2, <2>2 DEF CaptureKept
    <3>2. t \in F /\ t.correlation \in DOMAIN y.pending
      BY <1>2, <3>1 DEF Awaits
    <3> QED
      BY <3>1, <3>2 DEF Awaits
  <2>3. ASSUME y.capture.handle # NoCorrelation
        PROVE  /\ y.capture.handle \in y.admitted
               /\ y.capture.handle \in DOMAIN y.pending => y.pending[y.capture.handle].kind = "captureOpen"
    BY <1>2, <2>3 DEF CaptureKept, Mild, Later
  <2> QED
    BY <2>1, <2>2, <2>3 DEF CaptureKept
<1> QED
  BY <1>1, <1>2 DEF Mild, Careful

\* What is outstanding was sent, so a pending request has the kind it was sent for.
LEMMA AwaitedKind ==
  ASSUME CInv, NEW t \in external, NEW s \in DOMAIN sessions, Awaits(sessions[s], s, t)
  PROVE  sessions[s].pending[t.correlation].kind = "captureOpen"
  BY DEF CInv, Outstanding, Sent, KindOf, Awaits

\* Sessions change mildly or go, and callbacks come to nothing or stay.
MildSessions ==
  /\ UNCHANGED nextSession
  /\ DOMAIN sessions' \subseteq DOMAIN sessions
  /\ \A s \in DOMAIN sessions' : Mild(sessions[s], sessions'[s])

LEMMA MildEvolves ==
  ASSUME MildSessions
  PROVE  Evolves
  BY DEF MildSessions, Evolves, Mild

\* Every callback that a session awaits may still come.
LEMMA MildKeepsCaptures ==
  ASSUME IInv, CInv, MildSessions,
         \A s \in DOMAIN sessions, t \in external : Awaits(sessions[s], s, t) => t \in external'
  PROVE  \A s \in DOMAIN sessions' : CaptureKept(sessions'[s], s, external')
<1> TAKE s \in DOMAIN sessions'
<1>1. /\ s \in DOMAIN sessions /\ Mild(sessions[s], sessions'[s])
      /\ CaptureKept(sessions[s], s, external) /\ Sound(sessions[s])
  BY DEF MildSessions, CInv, IInv, SessionsOK, AllSound
<1>2. \A t \in external : Awaits(sessions[s], s, t) =>
        t \in external' /\ sessions[s].pending[t.correlation].kind = "captureOpen"
  BY <1>1, AwaitedKind
<1> QED
  BY <1>1, <1>2, KeptStays

\* The session s changes mildly.
MildUpdate(s) == s \in DOMAIN sessions /\ \E y : Update(s, y) /\ Mild(sessions[s], y)

LEMMA MildUpdateIs ==
  ASSUME NEW s, MildUpdate(s), UNCHANGED nextSession
  PROVE  MildSessions
<1>1. PICK y : Update(s, y) /\ Mild(sessions[s], y)
  BY DEF MildUpdate
<1>2. /\ s \in DOMAIN sessions /\ DOMAIN sessions' = DOMAIN sessions /\ sessions'[s] = y
      /\ \A r \in DOMAIN sessions : r # s => sessions'[r] = sessions[r]
  BY <1>1 DEF MildUpdate, Update
<1>3. \A r \in DOMAIN sessions : Mild(sessions[r], sessions[r])
  BY SameMild
<1> QED
  BY <1>1, <1>2, <1>3 DEF MildSessions

LEMMA EraseMild ==
  ASSUME NEW S, Erase(S), UNCHANGED nextSession
  PROVE  MildSessions
  BY SameMild DEF Erase, MildSessions

LEMMA UnchangedMild ==
  ASSUME UNCHANGED <<sessions, nextSession>>
  PROVE  MildSessions
  BY SameMild DEF MildSessions

LEMMA OutstandingTasks ==
  ASSUME IInv
  PROVE  Outstanding \subseteq Tasks
<1>1. Elements(work) \subseteq Tasks
  BY DEF IInv, TasksTyped, Elements
<1>2. \A w \in Workers : running[w].task \in Tasks \cup {NoTask}
  BY DEF IInv, TasksTyped
<1> QED
  BY <1>1, <1>2 DEF Outstanding, Stored, IInv, TasksTyped

\* A mild step that sends nothing.
LEMMA MildStep ==
  ASSUME IInv, CInv, MildSessions, external' = external, Stored' \subseteq Stored,
         \A w \in Workers : running'[w].started => running'[w].task # NoTask
  PROVE  CInv'
<1>1. Outstanding' \subseteq Outstanding
  BY DEF Outstanding
<1>2. \A t \in Outstanding' : Sent(t)'
  BY <1>1, OutstandingTasks, MildEvolves, SentStays DEF CInv
<1>3. \A s \in DOMAIN sessions' : CaptureKept(sessions'[s], s, external')
  BY MildKeepsCaptures
<1> QED
  BY <1>2, <1>3 DEF CInv

\* A mild step in which neither tasks nor callbacks change.
LEMMA QuietStep ==
  ASSUME IInv, CInv, MildSessions, AsyncUnchanged
  PROVE  CInv'
<1>1. external' = external /\ work' = work /\ running' = running
  BY DEF AsyncUnchanged
<1>2. Stored' = Stored
  BY <1>1 DEF Stored, Elements
<1>3. \A w \in Workers : running'[w].started => running'[w].task # NoTask
  BY <1>1 DEF CInv
<1> QED
  BY <1>1, <1>2, <1>3, MildStep

\* The request c of the session s is sent to the workers or to the host.
LEMMA SendStep ==
  ASSUME IInv, CInv, NEW s \in DOMAIN sessions, NEW c \in Correlations \ sessions[s].admitted,
         NEW kind \in {"storage", "clipboard", "captureOpen"}, NEW t, t = Task(s, c, kind),
         NEW y, Update(s, y), Asked(sessions[s], y, c, kind),
         UNCHANGED <<nextSession, running>>,
         \/ Stored' \subseteq Stored \cup {t} /\ kind = "storage" /\ external' = external
         \/ Stored' \subseteq Stored /\ external' = external \cup {t},
         CaptureKept(y, s, external')
  PROVE  CInv'
<1>1. /\ DOMAIN sessions' = DOMAIN sessions /\ sessions'[s] = y
      /\ \A r \in DOMAIN sessions : r # s => sessions'[r] = sessions[r]
  BY DEF Update
<1>2. \A r \in DOMAIN sessions : Mild(sessions[r], sessions[r])
  BY SameMild
<1>3. Evolves
  BY <1>1, <1>2 DEF Evolves, Mild, Asked
<1>4. t.session = s /\ t.correlation = c /\ t.kind = kind /\ KindOf(t) = kind
  BY DEF Task, KindOf
<1>5. s \in 1..(nextSession - 1) /\ nextSession \in Nat
  BY ConstantsAssumption DEF IInv, SessionsOK
<1>6. Sent(t)'
  BY <1>1, <1>4, <1>5 DEF Sent, Asked
<1>7. Outstanding' \subseteq Outstanding \cup {t}
  BY DEF Outstanding
<1>8. \A u \in Outstanding' : Sent(u)'
  BY <1>3, <1>6, <1>7, OutstandingTasks, SentStays DEF CInv
<1>9. \A u \in external : ~(u.session = s /\ u.correlation = c)
  BY DEF CInv, Outstanding, Sent
<1>10. \A u, v \in external' : u.session = v.session /\ u.correlation = v.correlation => u = v
  BY <1>4, <1>9 DEF CInv
<1>11. \A u \in Stored' : u.kind = "storage"
  BY <1>4 DEF CInv
<1>12. ASSUME NEW r \in DOMAIN sessions'
       PROVE  CaptureKept(sessions'[r], r, external')
  <2>1. CASE r = s
    BY <1>1, <2>1
  <2>2. CASE r # s
    <3>1. /\ r \in DOMAIN sessions /\ sessions'[r] = sessions[r] /\ Sound(sessions[r])
          /\ CaptureKept(sessions[r], r, external)
      BY <1>1, <2>2 DEF IInv, SessionsOK, AllSound, CInv
    <3>2. \A u \in external : Awaits(sessions[r], r, u) =>
            u \in external' /\ sessions[r].pending[u.correlation].kind = "captureOpen"
      BY <3>1, AwaitedKind
    <3> QED
      BY <1>2, <3>1, <3>2, KeptStays
  <2> QED
    BY <2>1, <2>2
<1> QED
  BY <1>8, <1>10, <1>11, <1>12 DEF CInv

\* The callback t arrives and may leave another, u, for the same request.
LEMMA CallbackStep ==
  ASSUME IInv, CInv, NEW t \in external, NEW u \in Tasks,
         u.session = t.session, u.correlation = t.correlation, KindOf(u) = KindOf(t),
         external \ {t} \subseteq external', external' \subseteq (external \ {t}) \cup {u},
         UNCHANGED <<nextSession, work, running>>,
         \/ UNCHANGED sessions
         \/ /\ t.session \in DOMAIN sessions
            /\ \E y : Update(t.session, y) /\ Later(sessions[t.session], y),
         t.session \in DOMAIN sessions => CaptureKept(sessions'[t.session], t.session, external')
  PROVE  CInv'
<1> DEFINE s == t.session
<1>1. /\ DOMAIN sessions' = DOMAIN sessions
      /\ \A r \in DOMAIN sessions : r # s => sessions'[r] = sessions[r]
      /\ s \in DOMAIN sessions => sessions'[s] = sessions[s] \/ Later(sessions[s], sessions'[s])
  BY DEF Update
<1>2. \A r \in DOMAIN sessions : Mild(sessions[r], sessions[r])
  BY SameMild
<1>3. Evolves
  BY <1>1, <1>2 DEF Evolves, Mild
<1>4. Sent(t) /\ Sent(u) /\ t \in Tasks
  BY OutstandingTasks DEF CInv, Outstanding, Sent
<1>5. Stored' = Stored
  BY DEF Stored, Elements
<1>6. Outstanding' \subseteq Outstanding \cup {u}
  BY <1>5 DEF Outstanding
<1>7. \A v \in Outstanding' : Sent(v)'
  BY <1>3, <1>4, <1>6, OutstandingTasks, SentStays DEF CInv
<1>8. \A v \in external \ {t} : ~(v.session = u.session /\ v.correlation = u.correlation)
  BY DEF CInv
<1>9. \A v, z \in external' : v.session = z.session /\ v.correlation = z.correlation => v = z
  BY <1>8 DEF CInv
<1>10. ASSUME NEW r \in DOMAIN sessions'
       PROVE  CaptureKept(sessions'[r], r, external')
  <2>1. CASE r = s
    BY <1>1, <2>1
  <2>2. CASE r # s
    <3>1. /\ r \in DOMAIN sessions /\ sessions'[r] = sessions[r] /\ Sound(sessions[r])
          /\ CaptureKept(sessions[r], r, external)
      BY <1>1, <2>2 DEF IInv, SessionsOK, AllSound, CInv
    <3>2. \A v \in external : Awaits(sessions[r], r, v) =>
            v \in external' /\ sessions[r].pending[v.correlation].kind = "captureOpen"
      BY <2>2, <3>1, AwaitedKind DEF Awaits
    <3> QED
      BY <1>2, <3>1, <3>2, KeptStays
  <2> QED
    BY <2>1, <2>2
<1> QED
  BY <1>5, <1>7, <1>9, <1>10 DEF CInv
-----------------------------------------------------------------------------
\* Submit

\* A request that is answered at once leaves the capture alone or drops it.
LEMMA AnsweredStep ==
  ASSUME IInv, CInv, NEW s, MildUpdate(s), UNCHANGED nextSession, AsyncUnchanged
  PROVE  CInv'
  BY MildUpdateIs, QuietStep

LEMMA SubmitStorageStep ==
  ASSUME IInv, CInv, NEW o, NEW s, NEW c \in Correlations, SubmitStorage(o, s, c)
  PROVE  CInv'
<1> DEFINE x == sessions[s]
           y == Reserve(Admit(x, c), c, "storage")
           t == Task(s, c, "storage")
<1>1. s \in DOMAIN sessions /\ c \in Correlations \ x.admitted
  BY DEF SubmitStorage, SubmitNew, CanSubmit, Owns
<1>2. Update(s, y) /\ work' = Append(work, t) /\ UNCHANGED <<nextSession, running, external>>
  BY DEF SubmitStorage
<1>3. Sound(x) /\ CaptureKept(x, s, external)
  BY <1>1 DEF IInv, SessionsOK, AllSound, CInv
<1>4. Mild(x, y) /\ Asked(x, y, c, "storage")
  BY <1>1, <1>3, ReserveMild
<1>5. Elements(work') \subseteq Elements(work) \cup {t}
  <2>1. work \in Seq(Tasks)
    BY DEF IInv, TasksTyped
  <2> HIDE DEF t
  <2>2. \A i \in DOMAIN Append(work, t) : (i \in DOMAIN work /\ Append(work, t)[i] = work[i]) \/ Append(work, t)[i] = t
    BY <2>1
  <2> QED
    BY <1>2, <2>2 DEF Elements
<1>6. Stored' \subseteq Stored \cup {t}
  BY <1>2, <1>5 DEF Stored
<1>7. \A u \in external : Awaits(x, s, u) => u \in external' /\ x.pending[u.correlation].kind = "captureOpen"
  BY <1>1, <1>2, AwaitedKind
<1> HIDE DEF y, t
<1>8. CaptureKept(y, s, external')
  BY <1>3, <1>4, <1>7, KeptStays
<1>9. t = Task(s, c, "storage")
  BY DEF t
<1> QED
  BY <1>1, <1>2, <1>4, <1>6, <1>8, <1>9, SendStep

LEMMA SubmitClipboardStep ==
  ASSUME IInv, CInv, NEW o, NEW s, NEW c \in Correlations, SubmitClipboard(o, s, c)
  PROVE  CInv'
<1> DEFINE x == sessions[s]
           y == [Reserve(Admit(x, c), c, "clipboard") EXCEPT !.clipboardPending = TRUE]
           t == Task(s, c, "clipboard")
<1>1. s \in DOMAIN sessions /\ c \in Correlations \ x.admitted
  BY DEF SubmitClipboard, SubmitNew, CanSubmit, Owns
<1>2. /\ UNCHANGED <<nextSession, work, running>>
      /\ \/ Update(s, Answer(x, c, "clipboard", "Busy")) /\ UNCHANGED external
         \/ Update(s, y) /\ external' = external \cup {t}
  BY DEF SubmitClipboard
<1>3. Sound(x) /\ CaptureKept(x, s, external)
  BY <1>1 DEF IInv, SessionsOK, AllSound, CInv
<1>4. Mild(x, y) /\ Asked(x, y, c, "clipboard")
  BY <1>1, <1>3, ReserveClipboardMild
<1>5. Mild(x, Answer(x, c, "clipboard", "Busy"))
  BY <1>1, <1>3, AnswerMild
<1>6. Stored' = Stored
  BY <1>2 DEF Stored, Elements
<1>7. \A u \in external : Awaits(x, s, u) => u \in external' /\ x.pending[u.correlation].kind = "captureOpen"
  BY <1>1, <1>2, AwaitedKind
<1> HIDE DEF y, t
<1>8. CASE Update(s, Answer(x, c, "clipboard", "Busy")) /\ UNCHANGED external
  BY <1>1, <1>2, <1>5, <1>8, AnsweredStep DEF MildUpdate, AsyncUnchanged
<1>9. CASE Update(s, y) /\ external' = external \cup {t}
  <2>1. CaptureKept(y, s, external')
    BY <1>3, <1>4, <1>7, KeptStays
  <2>2. t = Task(s, c, "clipboard")
    BY DEF t
  <2> QED
    BY <1>1, <1>2, <1>4, <1>6, <1>9, <2>1, <2>2, SendStep
<1> QED
  BY <1>2, <1>8, <1>9

\* The capture that now waits has the callback just asked for.
LEMMA SubmitCaptureStep ==
  ASSUME IInv, CInv, NEW o, NEW s, NEW c \in Correlations, SubmitCapture(o, s, c)
  PROVE  CInv'
<1> DEFINE x == sessions[s]
           t == Task(s, c, "captureOpen")
<1>1. s \in DOMAIN sessions /\ c \in Correlations \ x.admitted
  BY DEF SubmitCapture, SubmitNew, CanSubmit, Owns
<1>2. Sound(x)
  BY <1>1 DEF IInv, SessionsOK, AllSound
<1>3. PICK capture \in CaptureNow(x) :
        LET z == [x EXCEPT !.capture = capture] IN
          \/ Update(s, Answer(z, c, "captureOpen", "Busy")) /\ UNCHANGED external
          \/ /\ capture = NoCapture
             /\ Update(s, [Reserve(Admit(z, c), c, "captureOpen") EXCEPT !.capture.pending = TRUE])
             /\ external' = external \cup {t}
  BY DEF SubmitCapture
<1> DEFINE z == [x EXCEPT !.capture = capture]
           y == [Reserve(Admit(z, c), c, "captureOpen") EXCEPT !.capture.pending = TRUE]
<1>4. UNCHANGED <<nextSession, work, running>>
  BY DEF SubmitCapture
<1>5. Mild(x, z) /\ Sound(z) /\ z.admitted = x.admitted /\ z.capture = capture
  BY <1>2, CaptureNowMild
<1>6. \/ Update(s, Answer(z, c, "captureOpen", "Busy")) /\ UNCHANGED external
      \/ capture = NoCapture /\ Update(s, y) /\ external' = external \cup {t}
  BY <1>3
<1>7. Stored' = Stored
  BY <1>4 DEF Stored, Elements
<1>8. t = Task(s, c, "captureOpen") /\ t.session = s /\ t.correlation = c /\ t.kind = "captureOpen"
  BY DEF Task
<1> HIDE DEF z, t
<1>9. Mild(z, Answer(z, c, "captureOpen", "Busy"))
  BY <1>1, <1>5, AnswerMild
<1>10. Asked(z, y, c, "captureOpen") /\ y.capture = [z.capture EXCEPT !.pending = TRUE]
  BY <1>1, <1>5, ReserveCaptureLater
<1> HIDE DEF y
<1>11. CASE Update(s, Answer(z, c, "captureOpen", "Busy")) /\ UNCHANGED external
  <2>1. Mild(x, Answer(z, c, "captureOpen", "Busy"))
    BY <1>2, <1>5, <1>9, MildTransitive
  <2> QED
    BY <1>1, <1>4, <1>11, <2>1, AnsweredStep DEF MildUpdate, AsyncUnchanged
<1>12. CASE capture = NoCapture /\ Update(s, y) /\ external' = external \cup {t}
  <2>1. y.capture.pending = TRUE /\ y.capture.handle = NoCorrelation
    BY <1>5, <1>10, <1>12 DEF NoCapture
  <2>2. t \in external' /\ Awaits(y, s, t)
    BY <1>8, <1>10, <1>12 DEF Awaits, Asked
  <2>3. CaptureKept(y, s, external')
    BY <2>1, <2>2 DEF CaptureKept
  <2>4. Asked(x, y, c, "captureOpen")
    BY <1>5, <1>10 DEF Asked, Mild, Later
  <2> QED
    BY <1>1, <1>4, <1>7, <1>8, <1>10, <1>12, <2>3, <2>4, SendStep
<1> QED
  BY <1>6, <1>11, <1>12

LEMMA SubmitCaptureCloseStep ==
  ASSUME IInv, CInv, NEW o, NEW s, NEW c \in Correlations, NEW h, SubmitCaptureClose(o, s, c, h)
  PROVE  CInv'
<1> DEFINE x == sessions[s]
<1>1. s \in DOMAIN sessions /\ c \in Correlations \ x.admitted
  BY DEF SubmitCaptureClose, SubmitNew, CanSubmit, Owns
<1>2. Sound(x)
  BY <1>1 DEF IInv, SessionsOK, AllSound
<1>3. PICK capture \in CaptureNow(x) :
        LET z == [x EXCEPT !.capture = capture] IN
          \/ Update(s, [Answer(z, c, "captureClose", "Ok") EXCEPT !.capture = NoCapture])
          \/ Update(s, Answer(z, c, "captureClose", "NotFound"))
  BY DEF SubmitCaptureClose
<1> DEFINE z == [x EXCEPT !.capture = capture]
<1>4. UNCHANGED nextSession /\ AsyncUnchanged
  BY DEF SubmitCaptureClose
<1>5. Mild(x, z) /\ Sound(z) /\ z.admitted = x.admitted
  BY <1>2, CaptureNowMild
<1>6. \/ Update(s, [Answer(z, c, "captureClose", "Ok") EXCEPT !.capture = NoCapture])
      \/ Update(s, Answer(z, c, "captureClose", "NotFound"))
  BY <1>3
<1> HIDE DEF z
<1>7. /\ Mild(z, [Answer(z, c, "captureClose", "Ok") EXCEPT !.capture = NoCapture])
      /\ Mild(z, Answer(z, c, "captureClose", "NotFound"))
  BY <1>1, <1>5, AnswerMild
<1>8. MildUpdate(s)
  BY <1>1, <1>2, <1>5, <1>6, <1>7, MildTransitive DEF MildUpdate
<1> QED
  BY <1>4, <1>8, AnsweredStep

LEMMA SubmitStep ==
  ASSUME IInv, CInv, NEW o \in Owners, NEW s \in DOMAIN sessions, Submit(o, s)
  PROVE  CInv'
<1> DEFINE x == sessions[s]
<1>1. Sound(x)
  BY DEF IInv, SessionsOK, AllSound
<1>2. ASSUME NEW c \in Correlations, SubmitNew(o, s, c)
      PROVE  c \in Correlations \ x.admitted
  BY <1>2 DEF SubmitNew
<1>3. CASE SubmitProtocolError(o, s)
  BY <1>3, EraseMild, QuietStep DEF SubmitProtocolError
<1>4. ASSUME NEW c \in Correlations, NEW kind, SubmitDenied(o, s, c, kind) \/ SubmitInvalid(o, s, c, kind)
      PROVE  CInv'
  <2>1. UNCHANGED nextSession /\ AsyncUnchanged /\ SubmitNew(o, s, c)
    BY <1>4 DEF SubmitDenied, SubmitInvalid
  <2>2. PICK status : Update(s, Answer(x, c, kind, status))
    BY <1>4 DEF SubmitDenied, SubmitInvalid
  <2>3. Mild(x, Answer(x, c, kind, status))
    BY <1>1, <1>2, <2>1, AnswerMild
  <2> QED
    BY <2>1, <2>2, <2>3, AnsweredStep DEF MildUpdate
<1>5. ASSUME NEW c \in Correlations, SubmitCore(o, s, c)
      PROVE  CInv'
  <2>1. UNCHANGED nextSession /\ AsyncUnchanged /\ SubmitNew(o, s, c) /\ Update(s, Answer(x, c, "core", "Ok"))
    BY <1>5 DEF SubmitCore
  <2>2. Mild(x, Answer(x, c, "core", "Ok"))
    BY <1>1, <1>2, <2>1, AnswerMild
  <2> QED
    BY <2>1, <2>2, AnsweredStep DEF MildUpdate
<1>6. ASSUME NEW c \in Correlations, SubmitInject(o, s, c)
      PROVE  CInv'
  <2>1. UNCHANGED nextSession /\ AsyncUnchanged /\ SubmitNew(o, s, c) /\ Update(s, Injected(x, c))
    BY <1>6 DEF SubmitInject, Injected
  <2>2. Mild(x, Injected(x, c))
    BY <1>1, <1>2, <2>1, InjectMild
  <2> QED
    BY <2>1, <2>2, AnsweredStep DEF MildUpdate
<1>7. ASSUME NEW c \in Correlations, NEW kind, SubmitSubscription(o, s, c, kind)
      PROVE  CInv'
  <2>1. /\ UNCHANGED nextSession /\ AsyncUnchanged /\ SubmitNew(o, s, c)
        /\ \/ Update(s, [Answer(x, c, kind, "Ok") EXCEPT !.subscribed = kind = "subscribe"])
           \/ Update(s, Answer(x, c, kind, "PermissionDenied"))
    BY <1>7 DEF SubmitSubscription
  <2>2. /\ Mild(x, [Answer(x, c, kind, "Ok") EXCEPT !.subscribed = kind = "subscribe"])
        /\ Mild(x, Answer(x, c, kind, "PermissionDenied"))
    BY <1>1, <1>2, <2>1, AnswerMild
  <2> QED
    BY <2>1, <2>2, AnsweredStep DEF MildUpdate
<1> QED
  BY <1>3, <1>4, <1>5, <1>6, <1>7, SubmitStorageStep, SubmitClipboardStep, SubmitCaptureStep,
     SubmitCaptureCloseStep DEF Submit
-----------------------------------------------------------------------------
\* The other calls of a guest, and the deadlines

LEMMA OpenStep ==
  ASSUME IInv, CInv, NEW o \in Owners, Open(o)
  PROVE  CInv'
<1> DEFINE n == nextSession
           x == NewSession(o)
<1>1. /\ n' = n + 1 /\ n \notin DOMAIN sessions
      /\ DOMAIN sessions' = DOMAIN sessions \cup {n} /\ sessions'[n] = x
      /\ \A r \in DOMAIN sessions : sessions'[r] = sessions[r]
  BY ConstantsAssumption DEF Open, IInv, SessionsOK
<1>2. external' = external /\ work' = work /\ running' = running
  BY DEF Open, EndOpen, AsyncUnchanged
<1>3. x.capture = NoCapture
  BY DEF NewSession
<1> HIDE DEF x
<1>4. \A r \in DOMAIN sessions : Mild(sessions[r], sessions[r])
  BY SameMild
<1>5. Evolves
  BY <1>1, <1>4 DEF Evolves, Mild
<1>6. Stored' = Stored /\ Outstanding' = Outstanding
  BY <1>2 DEF Outstanding, Stored, Elements
<1>7. \A t \in Outstanding' : Sent(t)'
  BY <1>5, <1>6, OutstandingTasks, SentStays DEF CInv
<1>8. CaptureKept(x, n, external')
  BY <1>3 DEF CaptureKept, NoCapture
<1>9. \A r \in DOMAIN sessions' : CaptureKept(sessions'[r], r, external')
  BY <1>1, <1>2, <1>8 DEF CInv
<1> QED
  BY <1>2, <1>6, <1>7, <1>9 DEF CInv

LEMMA PollStep ==
  ASSUME IInv, CInv, NEW o, NEW s \in DOMAIN sessions, Poll(o, s) \/ PollTooSmall(o, s)
  PROVE  CInv'
<1> DEFINE x == sessions[s]
<1>1. UNCHANGED nextSession /\ AsyncUnchanged
  BY DEF Poll, PollTooSmall, PollWith
<1>2. PICK q \in Orders(Expired(x)) :
        LET y == Abort(x, q, "TimedOut") IN Update(s, Deliver(y)) \/ Update(s, y)
  BY DEF Poll, PollTooSmall, PollWith
<1> DEFINE y == Abort(x, q, "TimedOut")
<1>3. Sound(x) /\ x \in SessionRecords
  BY DEF IInv, SessionsOK, AllSound, Sound
<1>4. Mild(x, y)
  BY <1>3, AbortMild
<1>5. Deliver(y).admitted = y.admitted /\ Deliver(y).pending = y.pending /\ Deliver(y).capture = y.capture
  BY <1>3 DEF Deliver, Abort, Settle, SessionRecords
<1>6. Update(s, Deliver(y)) \/ Update(s, y)
  BY <1>2
<1> HIDE DEF y
<1>7. Mild(x, Deliver(y))
  BY <1>4, <1>5 DEF Mild, Later, Careful
<1> QED
  BY <1>1, <1>4, <1>6, <1>7, AnsweredStep DEF MildUpdate

LEMMA CancelStep ==
  ASSUME IInv, CInv, NEW o, NEW s \in DOMAIN sessions, NEW c,
         CancelPending(o, s, c) \/ CancelAnswered(o, s, c)
  PROVE  CInv'
<1> DEFINE x == sessions[s]
<1>1. UNCHANGED nextSession /\ AsyncUnchanged
  BY DEF CancelPending, CancelAnswered
<1>2. x \in SessionRecords
  BY DEF IInv, SessionsOK, AllSound, Sound
<1>3. CASE CancelPending(o, s, c)
  BY <1>1, <1>2, <1>3, AbortMild, AnsweredStep DEF CancelPending, MildUpdate
<1>4. CASE CancelAnswered(o, s, c)
  <2>1. PICK i : Update(s, [x EXCEPT !.responses[i].status = "Cancelled"])
    BY <1>4 DEF CancelAnswered
  <2> DEFINE y == [x EXCEPT !.responses[i].status = "Cancelled"]
  <2>2. y.admitted = x.admitted /\ y.pending = x.pending /\ y.capture = x.capture
    BY <1>2 DEF SessionRecords
  <2> HIDE DEF y
  <2>3. Mild(x, y)
    BY <2>2, SameMild
  <2> QED
    BY <1>1, <2>1, <2>3, AnsweredStep DEF MildUpdate, y
<1> QED
  BY <1>3, <1>4

LEMMA ExpireStep ==
  ASSUME IInv, CInv, NEW s, NEW c, Expire(s, c)
  PROVE  CInv'
<1> DEFINE x == sessions[s]
           y == [x EXCEPT !.pending[c].expired = TRUE]
<1>1. /\ s \in DOMAIN sessions /\ c \in DOMAIN x.pending /\ Update(s, y)
      /\ UNCHANGED nextSession /\ AsyncUnchanged
  BY DEF Expire, Waits
<1>2. x \in SessionRecords
  BY <1>1 DEF IInv, SessionsOK, AllSound, Sound
<1>3. x.pending[c] \in Requested
  BY <1>1, <1>2, Fields
<1>4. /\ y.admitted = x.admitted /\ y.capture = x.capture
      /\ y.pending = [x.pending EXCEPT ![c] = [x.pending[c] EXCEPT !.expired = TRUE]]
  BY <1>2 DEF SessionRecords
<1>5. DOMAIN y.pending = DOMAIN x.pending /\ \A d \in DOMAIN x.pending : y.pending[d].kind = x.pending[d].kind
  BY <1>3, <1>4 DEF Requested
<1> HIDE DEF y
<1>6. Mild(x, y)
  BY <1>4, <1>5, SameMild
<1> QED
  BY <1>1, <1>6, AnsweredStep DEF MildUpdate

LEMMA GuestStep ==
  ASSUME IInv, CInv, NEW o \in Owners, GuestCall(o)
  PROVE  CInv'
<1>1. ASSUME NEW s \in DOMAIN sessions, Close(o, s)
      PROVE  CInv'
  BY <1>1, EraseMild, QuietStep DEF Close
<1>2. CASE BeginOpen(o) \/ RefuseOpen(o)
  BY <1>2, UnchangedMild, QuietStep DEF BeginOpen, RefuseOpen, EndOpen
<1> QED
  BY <1>1, <1>2, OpenStep, SubmitStep, PollStep, CancelStep DEF GuestCall
-----------------------------------------------------------------------------
\* Owners, grants and input

LEMMA OwnerStep ==
  ASSUME IInv, CInv, NEW o \in Owners, StopOwner(o) \/ CloseOwner(o)
  PROVE  CInv'
<1>1. CASE StopOwner(o)
  BY <1>1, UnchangedMild, QuietStep DEF StopOwner
<1>2. CASE CloseOwner(o)
  BY <1>2, EraseMild, QuietStep DEF CloseOwner
<1> QED
  BY <1>1, <1>2

LEMMA PermissionsStep ==
  ASSUME IInv, CInv, NEW o, NEW P, PermissionsChanged(o, P)
  PROVE  CInv'
<1> DEFINE now == P \cap services[o]
           Denied(x) == {c \in DOMAIN x.pending : ~May(x.pending[c].kind, now)}
<1>1. PICK order :
        /\ \A s \in SessionsOf(o) : order[s] \in Orders(Denied(sessions[s]))
        /\ sessions' = [s \in DOMAIN sessions |->
                          IF s \in SessionsOf(o)
                          THEN Revoke(sessions[s], order[s], now)
                          ELSE sessions[s]]
  BY DEF PermissionsChanged
<1>2. UNCHANGED nextSession /\ AsyncUnchanged
  BY DEF PermissionsChanged
<1>3. ASSUME NEW s \in SessionsOf(o)
      PROVE  s \in DOMAIN sessions /\ Mild(sessions[s], Revoke(sessions[s], order[s], now))
  <2> DEFINE x == sessions[s]
             q == order[s]
  <2>1. s \in DOMAIN sessions
    BY DEF SessionsOf
  <2>2. Sound(x)
    BY <2>1 DEF IInv, SessionsOK, AllSound
  <2>3. IsFiniteSet(DOMAIN x.pending)
    BY <2>2, Fields DEF Sound
  <2>4. Denied(x) \in SUBSET DOMAIN x.pending /\ IsFiniteSet(Denied(x))
    BY <2>3, FS_Subset
  <2>5. q \in Seq(Denied(x)) /\ (\A i, j \in DOMAIN q : q[i] = q[j] => i = j)
    BY <1>1, <2>4, OrderOfSet
  <2>6. Answerable(x, q)
    BY <2>4, <2>5, SeqMonotonic DEF Answerable
  <2> QED
    BY <2>1, <2>2, <2>6, RevokeMild
<1>4. \A s \in DOMAIN sessions : Mild(sessions[s], sessions[s])
  BY SameMild
<1>5. MildSessions
  BY <1>1, <1>2, <1>3, <1>4 DEF MildSessions
<1> QED
  BY <1>2, <1>5, QuietStep

LEMMA GrantStep ==
  ASSUME IInv, CInv, NEW o, GrantChange(o)
  PROVE  CInv'
<1>1. ASSUME NEW P, SetServices(o, P)
      PROVE  CInv'
  BY <1>1, UnchangedMild, QuietStep DEF SetServices
<1> QED
  BY <1>1, PermissionsStep DEF GrantChange

LEMMA InputStep ==
  ASSUME IInv, CInv, InputEvent
  PROVE  CInv'
<1>1. /\ DOMAIN sessions' = DOMAIN sessions /\ UNCHANGED nextSession /\ AsyncUnchanged
      /\ \A s \in DOMAIN sessions : sessions'[s] = Emit(sessions[s])
  BY DEF InputEvent
<1>2. ASSUME NEW s \in DOMAIN sessions
      PROVE  Mild(sessions[s], Emit(sessions[s]))
  <2> DEFINE x == sessions[s]
  <2>1. x \in SessionRecords
    BY DEF IInv, SessionsOK, AllSound, Sound
  <2>2. Emit(x) = x \/ Emit(x) = Push(x, Event)
    BY DEF Emit
  <2>3. /\ Push(x, Event).admitted = x.admitted /\ Push(x, Event).pending = x.pending
        /\ Push(x, Event).capture = x.capture
    BY <2>1 DEF Push, SessionRecords
  <2> QED
    BY <2>2, <2>3, SameMild
<1>3. MildSessions
  BY <1>1, <1>2 DEF MildSessions
<1> QED
  BY <1>1, <1>3, QuietStep
-----------------------------------------------------------------------------
\* The workers

LEMMA WorkerStep ==
  ASSUME IInv, CInv, NEW w \in Workers, Worker(w)
  PROVE  CInv'
<1> DEFINE t == running[w].task
           s == t.session
           c == t.correlation
           x == sessions[s]
<1>1. running \in [Workers -> [task : Tasks \cup {NoTask}, started : BOOLEAN]] /\ work \in Seq(Tasks)
  BY DEF IInv, TasksTyped
<1>2. running[w] \in [task : Tasks \cup {NoTask}, started : BOOLEAN]
  BY <1>1
<1>3. UNCHANGED <<nextSession, external>>
  BY DEF Worker, TakeTask, StartStorage, FinishStorage
<1>4. CASE TakeTask(w)
  <2>1. /\ work # <<>> /\ work' = Tail(work) /\ UNCHANGED sessions
        /\ running' = [running EXCEPT ![w] = [running[w] EXCEPT !.task = Head(work)]]
        /\ running[w].task = NoTask
    BY <1>1, <1>4 DEF TakeTask
  <2>2. Elements(Tail(work)) \subseteq Elements(work) /\ Head(work) \in Elements(work)
    <3>1. \A i \in DOMAIN Tail(work) : i + 1 \in DOMAIN work /\ Tail(work)[i] = work[i + 1]
      BY <1>1, <2>1
    <3>2. 1 \in DOMAIN work /\ Head(work) = work[1]
      BY <1>1, <2>1
    <3> QED
      BY <3>1, <3>2 DEF Elements
  <2>3. /\ running'[w].task = Head(work) /\ running'[w].started = running[w].started
        /\ \A v \in Workers : v # w => running'[v] = running[v]
    BY <1>1, <1>2, <2>1
  <2>4. Stored' \subseteq Stored
    <3>1. \A v \in Workers : running'[v].task = Head(work) \/ running'[v].task = running[v].task
      BY <2>3
    <3> QED
      BY <2>1, <2>2, <3>1 DEF Stored
  <2>5. \A v \in Workers : running'[v].started => running'[v].task # NoTask
    BY <2>1, <2>3 DEF CInv
  <2> QED
    BY <1>3, <2>1, <2>4, <2>5, UnchangedMild, MildStep
<1>5. CASE StartStorage(w) \/ FinishStorage(w)
  <2>1. /\ work' = work /\ t # NoTask
        /\ \/ running' = [running EXCEPT ![w] = Idle]
           \/ running' = [running EXCEPT ![w] = [running[w] EXCEPT !.started = TRUE]]
    BY <1>1, <1>5 DEF StartStorage, FinishStorage, Finish, CInv
  <2>2. /\ \A v \in Workers : v # w => running'[v] = running[v]
        /\ running'[w] = Idle \/ (running'[w].task = t)
    BY <1>1, <1>2, <2>1
  <2>3. Idle.task = NoTask /\ Idle.started = FALSE
    BY DEF Idle
  <2>4. Stored' \subseteq Stored
    BY <2>1, <2>2, <2>3 DEF Stored
  <2>5. \A v \in Workers : running'[v].started => running'[v].task # NoTask
    BY <2>1, <2>2, <2>3 DEF CInv
  <2>6. t \in Stored
    BY <2>1 DEF Stored
  <2>7. ASSUME Waits(s, c)
        PROVE  /\ s \in DOMAIN sessions /\ c \in DOMAIN x.pending /\ x \in SessionRecords
               /\ x.pending[c].kind = "storage"
    <3>1. s \in DOMAIN sessions /\ c \in DOMAIN x.pending
      BY <2>7 DEF Waits
    <3>2. Sent(t) /\ t.kind = "storage"
      BY <2>6 DEF CInv, Outstanding
    <3>3. x \in SessionRecords
      BY <3>1 DEF IInv, SessionsOK, AllSound, Sound
    <3> QED
      BY <3>1, <3>2, <3>3 DEF Sent, KindOf
  <2>8. \/ UNCHANGED sessions
        \/ /\ Waits(s, c)
           /\ \E status : Update(s, Abort(x, <<c>>, status)) \/ Update(s, Complete(x, c, status))
    BY <1>5 DEF StartStorage, FinishStorage
  <2>9. MildSessions
    <3>1. ASSUME Waits(s, c), NEW status
          PROVE  Mild(x, Abort(x, <<c>>, status)) /\ Mild(x, Complete(x, c, status))
      BY <2>7, <3>1, AbortMild, CompleteMild
    <3>2. UNCHANGED sessions \/ MildUpdate(s)
      BY <2>7, <2>8, <3>1 DEF MildUpdate
    <3> QED
      BY <1>3, <3>2, UnchangedMild, MildUpdateIs
  <2> QED
    BY <1>3, <2>4, <2>5, <2>9, MildStep
<1> QED
  BY <1>4, <1>5 DEF Worker
-----------------------------------------------------------------------------
\* The callbacks

\* What the request of the callback t is, while its session waits for it.
LEMMA WaitedRequest ==
  ASSUME IInv, CInv, NEW t \in external, Waits(t.session, t.correlation)
  PROVE  /\ t.session \in DOMAIN sessions /\ t.correlation \in DOMAIN sessions[t.session].pending
         /\ sessions[t.session] \in SessionRecords /\ Sound(sessions[t.session])
         /\ t.correlation \in sessions[t.session].admitted
         /\ sessions[t.session].pending[t.correlation].kind = KindOf(t)
<1>1. t.session \in DOMAIN sessions /\ t.correlation \in DOMAIN sessions[t.session].pending
  BY DEF Waits
<1>2. Sent(t)
  BY DEF CInv, Outstanding
<1>3. Sound(sessions[t.session])
  BY <1>1 DEF IInv, SessionsOK, AllSound
<1> QED
  BY <1>1, <1>2, <1>3 DEF Sent, Sound

\* A callback that no capture waits for leaves the captures kept.
LEMMA UnawaitedKept ==
  ASSUME IInv, CInv, NEW t \in external, NEW E, external \ {t} \subseteq E, UNCHANGED sessions,
         t.session \in DOMAIN sessions => ~Awaits(sessions[t.session], t.session, t)
  PROVE  t.session \in DOMAIN sessions => CaptureKept(sessions'[t.session], t.session, E)
<1> SUFFICES ASSUME t.session \in DOMAIN sessions
             PROVE  CaptureKept(sessions'[t.session], t.session, E)
  OBVIOUS
<1> DEFINE x == sessions[t.session]
<1>1. CaptureKept(x, t.session, external) /\ Sound(x) /\ Mild(x, x)
  BY SameMild DEF CInv, IInv, SessionsOK, AllSound
<1>2. \A u \in external : Awaits(x, t.session, u) =>
        u \in E /\ x.pending[u.correlation].kind = "captureOpen"
  BY AwaitedKind
<1> QED
  BY <1>1, <1>2, KeptStays

LEMMA ArrivalStep ==
  ASSUME IInv, CInv, NEW t \in external, NEW status, CallbackArrives(t, status),
         \/ t.kind = "clipboard"
         \/ t.kind \in {"captureOpen", "captureFailed"} /\ status # "Ok"
         \/ t.kind = "captureStored"
  PROVE  CInv'
<1> DEFINE s == t.session
           c == t.correlation
           x == sessions[s]
           y == Complete(x, c, status)
<1>1. external' = external \ {t} /\ UNCHANGED <<nextSession, work, running>> /\ t \in Tasks
  BY DEF CallbackArrives, IInv, TasksTyped
<1>2. CASE ~Waits(s, c)
  <2>1. UNCHANGED sessions /\ (s \in DOMAIN sessions => ~Awaits(x, s, t))
    BY <1>2 DEF CallbackArrives, Waits, Awaits
  <2>2. s \in DOMAIN sessions => CaptureKept(sessions'[s], s, external')
    BY <1>1, <2>1, UnawaitedKept
  <2> QED
    BY <1>1, <2>1, <2>2, CallbackStep
<1>3. CASE Waits(s, c)
  <2>1. /\ s \in DOMAIN sessions /\ c \in DOMAIN x.pending /\ x \in SessionRecords /\ Sound(x)
        /\ x.pending[c].kind = KindOf(t) /\ CaptureKept(x, s, external)
    BY <1>3, WaitedRequest DEF CInv
  <2>2. Update(s, y)
    BY <1>3 DEF CallbackArrives
  <2>3. sessions'[s] = y
    BY <2>1, <2>2 DEF Update
  <2>4. Later(x, y)
    BY <2>1, CompleteLater
  <2>5. CaptureKept(y, s, external')
    <3>1. CASE t.kind = "clipboard"
      <4>1. Mild(x, y)
        BY <2>1, <3>1, CompleteMild DEF KindOf
      <4>2. \A u \in external : Awaits(x, s, u) =>
              u \in external' /\ x.pending[u.correlation].kind = "captureOpen"
        BY <1>1, <2>1, <3>1, AwaitedKind DEF Awaits
      <4> QED
        BY <2>1, <4>1, <4>2, KeptStays
    <3>2. CASE t.kind # "clipboard"
      <4>1. x.pending[c].kind = "captureOpen" /\ c \in Elements(<<c>>)
        BY <2>1, <3>2, OneAnswerable DEF KindOf
      <4>2. \A st : Abort(x, <<c>>, st).capture = NoCapture
        BY <2>1, <4>1, SettleFields DEF Abort
      <4>3. ASSUME y.capture = NoCapture
            PROVE  CaptureKept(y, s, external')
        <5>1. ~y.capture.pending /\ y.capture.handle = NoCorrelation
          BY <4>3 DEF NoCapture
        <5> QED
          BY <5>1 DEF CaptureKept
      <4>4. \/ y.capture = NoCapture
            \/ y = Settle(x, <<c>>, status, x.capture) /\ status = "Ok"
        BY <4>2 DEF Complete
      <4>5. CASE y = Settle(x, <<c>>, status, x.capture) /\ status = "Ok"
        <5>1. /\ y.admitted = x.admitted /\ y.capture = x.capture
              /\ DOMAIN y.pending = DOMAIN x.pending \ {c}
              /\ \A d \in DOMAIN y.pending : y.pending[d] = x.pending[d]
          BY <2>1, <4>5, SettlePending, OneAnswerable
        <5> HIDE DEF y
        <5>2. t.kind = "captureStored"
          BY <3>2, <4>5
        <5>3. ASSUME y.capture.pending
              PROVE  \E u \in external' : Awaits(y, s, u)
          <6>1. PICK u \in external : Awaits(x, s, u)
            BY <2>1, <5>1, <5>3 DEF CaptureKept
          <6>2. u # t
            BY <5>2, <6>1 DEF Awaits
          <6>3. u.correlation # c
            BY <6>1, <6>2 DEF CInv, Awaits
          <6> QED
            BY <1>1, <5>1, <6>1, <6>2, <6>3 DEF Awaits
        <5> QED
          BY <2>1, <5>1, <5>3 DEF CaptureKept
      <4> QED
        BY <4>3, <4>4, <4>5
    <3> QED
      BY <3>1, <3>2
  <2> HIDE DEF y
  <2> QED
    BY <1>1, <2>1, <2>2, <2>3, <2>4, <2>5, CallbackStep
<1> QED
  BY <1>2, <1>3

LEMMA StoredStep ==
  ASSUME IInv, CInv, NEW t \in external, CaptureStored(t)
  PROVE  CInv'
<1> DEFINE s == t.session
           c == t.correlation
           x == sessions[s]
           y == [x EXCEPT !.capture = [handle |-> c, pending |-> FALSE]]
           stored == [t EXCEPT !.kind = "captureStored"]
           failed == [t EXCEPT !.kind = "captureFailed"]
<1>1. UNCHANGED <<nextSession, work, running>> /\ t \in Tasks /\ t.kind = "captureOpen" /\ KindOf(t) = "captureOpen"
  BY DEF CaptureStored, IInv, TasksTyped, KindOf
<1>2. /\ stored \in Tasks /\ stored.session = s /\ stored.correlation = c /\ stored.kind = "captureStored"
      /\ failed \in Tasks /\ failed.session = s /\ failed.correlation = c /\ failed.kind = "captureFailed"
  BY <1>1 DEF Tasks
<1>3. KindOf(stored) = "captureOpen" /\ KindOf(failed) = "captureOpen"
  BY <1>2 DEF KindOf
<1>4. \/ Waits(s, c) /\ x.capture.pending /\ Update(s, y) /\ external' = (external \ {t}) \cup {stored}
      \/ Waits(s, c) /\ x.capture.pending /\ UNCHANGED sessions /\ external' = (external \ {t}) \cup {failed}
      \/ ~(Waits(s, c) /\ x.capture.pending) /\ UNCHANGED sessions /\ external' = external \ {t}
  BY DEF CaptureStored
<1>5. Waits(s, c) =>
        /\ s \in DOMAIN sessions /\ c \in DOMAIN x.pending /\ x \in SessionRecords /\ Sound(x)
        /\ c \in x.admitted /\ x.pending[c].kind = "captureOpen"
  BY <1>1, WaitedRequest
<1> HIDE DEF stored, failed
<1>6. CASE Waits(s, c) /\ x.capture.pending /\ Update(s, y) /\ external' = (external \ {t}) \cup {stored}
  <2>1. y.admitted = x.admitted /\ y.pending = x.pending /\ y.capture = [handle |-> c, pending |-> FALSE]
    BY <1>5, <1>6 DEF SessionRecords
  <2>2. sessions'[s] = y
    BY <1>5, <1>6 DEF Update
  <2> HIDE DEF y
  <2>3. y.capture.handle = c /\ y.capture.pending = FALSE
    BY <2>1
  <2>4. CaptureKept(y, s, external')
    BY <1>5, <1>6, <2>1, <2>3 DEF CaptureKept
  <2>5. Later(x, y)
    BY <2>1 DEF Later
  <2> QED
    BY <1>1, <1>2, <1>3, <1>5, <1>6, <2>2, <2>4, <2>5, CallbackStep
<1>7. CASE Waits(s, c) /\ x.capture.pending /\ UNCHANGED sessions /\ external' = (external \ {t}) \cup {failed}
  <2>1. CaptureKept(x, s, external)
    BY <1>5, <1>7 DEF CInv
  <2>2. Awaits(x, s, failed) /\ failed \in external'
    BY <1>2, <1>5, <1>7 DEF Awaits
  <2>3. CaptureKept(x, s, external')
    BY <2>1, <2>2 DEF CaptureKept
  <2> QED
    BY <1>1, <1>2, <1>3, <1>7, <2>3, CallbackStep
<1>8. CASE ~(Waits(s, c) /\ x.capture.pending) /\ UNCHANGED sessions /\ external' = external \ {t}
  <2>1. ASSUME s \in DOMAIN sessions
        PROVE  CaptureKept(sessions'[s], s, external')
    <3>1. CASE ~Waits(s, c)
      <4>1. ~Awaits(x, s, t)
        BY <2>1, <3>1 DEF Waits, Awaits
      <4> QED
        BY <1>8, <2>1, <4>1, UnawaitedKept
    <3>2. CASE Waits(s, c)
      <4>1. CaptureKept(x, s, external) /\ ~x.capture.pending
        BY <1>8, <2>1, <3>2 DEF CInv
      <4> QED
        BY <1>8, <4>1 DEF CaptureKept
    <3> QED
      BY <3>1, <3>2
  <2> QED
    BY <1>1, <1>8, <2>1, CallbackStep
<1> QED
  BY <1>4, <1>6, <1>7, <1>8

LEMMA HostStep ==
  ASSUME IInv, CInv, HostCallback
  PROVE  CInv'
<1>1. PICK t \in external : ClipboardReturns(t) \/ CaptureRefused(t) \/ CaptureStored(t) \/ CaptureReported(t)
  BY DEF HostCallback
<1>2. CASE CaptureStored(t)
  BY <1>2, StoredStep
<1>3. CASE ClipboardReturns(t) \/ CaptureRefused(t) \/ CaptureReported(t)
  <2>1. \/ t.kind = "clipboard" /\ \E status : CallbackArrives(t, status)
        \/ t.kind = "captureOpen" /\ CallbackArrives(t, "Busy")
        \/ t.kind = "captureFailed" /\ CallbackArrives(t, "ProtocolError")
        \/ t.kind = "captureStored" /\ CallbackArrives(t, "Ok")
    BY <1>3 DEF ClipboardReturns, CaptureRefused, CaptureReported
  <2> QED
    BY <2>1, ArrivalStep
<1> QED
  BY <1>1, <1>2, <1>3
-----------------------------------------------------------------------------
\* The theorem

LEMMA CaptureInit == Init => CInv
<1> SUFFICES ASSUME Init PROVE CInv
  OBVIOUS
<1>1. DOMAIN sessions = {} /\ external = {} /\ Elements(work) = {}
  BY DEF Init, Elements
<1>2. \A w \in Workers : running[w].task = NoTask /\ running[w].started = FALSE
  BY DEF Init, Idle
<1>3. Stored = {} /\ Outstanding = {}
  BY <1>1, <1>2 DEF Stored, Outstanding
<1> QED
  BY <1>1, <1>2, <1>3 DEF CInv

LEMMA CaptureStep ==
  ASSUME IInv, CInv, [Next]_vars
  PROVE  CInv'
<1>1. ASSUME NEW s, NEW c, Expire(s, c)
      PROVE  CInv'
  BY <1>1, ExpireStep
<1>2. CASE CloseAll
  BY <1>2, EraseMild, QuietStep DEF CloseAll
<1>3. CASE UNCHANGED vars
  BY <1>3, UnchangedMild, QuietStep DEF vars, AsyncUnchanged
<1> QED
  BY <1>1, <1>2, <1>3, GuestStep, OwnerStep, GrantStep, WorkerStep, HostStep, InputStep DEF Next

LEMMA KeptIsOwned == IInv /\ CInv => CaptureOwned
<1> SUFFICES ASSUME IInv, CInv, NEW s \in DOMAIN sessions
             PROVE  LET x == sessions[s]
                        asked == {c \in DOMAIN x.pending : x.pending[c].kind = "captureOpen"}
                    IN  /\ ~(x.capture.pending /\ x.capture.handle # NoCorrelation)
                        /\ x.capture.pending => asked # {}
                        /\ x.capture.handle # NoCorrelation =>
                             x.capture.handle \in asked \cup Answered(x) \cup x.delivered
  BY DEF CaptureOwned
<1> DEFINE x == sessions[s]
<1>1. CaptureKept(x, s, external) /\ Placed(x)
  BY DEF CInv, IInv, SessionsOK, AllSound, Sound
<1>2. ASSUME x.capture.pending
      PROVE  \E c \in DOMAIN x.pending : x.pending[c].kind = "captureOpen"
  <2>1. PICK t \in external : Awaits(x, s, t)
    BY <1>1, <1>2 DEF CaptureKept
  <2> QED
    BY <2>1, AwaitedKind DEF Awaits
<1>3. ASSUME x.capture.handle # NoCorrelation
      PROVE  \/ x.capture.handle \in Answered(x) \cup x.delivered
             \/ /\ x.capture.handle \in DOMAIN x.pending
                /\ x.pending[x.capture.handle].kind = "captureOpen"
  BY <1>1, <1>3 DEF CaptureKept, Placed
<1> QED
  BY <1>1, <1>2, <1>3 DEF CaptureKept

\* For any owners, requests and limits, and however late the renderer answers: a
\* capture that waits for its image has its request pending, and a stored one is
\* that of an admitted request.
THEOREM CapturesOwned == Spec => []CaptureOwned
<1>1. Init => IInv /\ CInv
  BY InitInvariant, CaptureInit
<1>2. IInv /\ CInv /\ [Next]_vars => CInv'
  BY CaptureStep
<1> QED
  BY <1>1, <1>2, Invariant, KeptIsOwned, PTL DEF Spec
=============================================================================
