------------------------ MODULE FunctionPatcher_proofs ------------------------
(***************************************************************************)
(* Proofs about FunctionPatcher for any plugins, modules, addresses,       *)
(* requests, trampolines and bounds.                                       *)
(*                                                                         *)
(* What the properties promise ends with the first restore that fails, so  *)
(* a step matters only when no restore has failed after it.  Such a step   *)
(* leaves the ledger alone, adds patches at addresses nobody claimed, or   *)
(* takes patches off: the lemmas about these three moves do not mention    *)
(* the operations.                                                         *)
(***************************************************************************)
EXTENDS FunctionPatcher, FiniteSetTheorems, TLAPS

CallRecord ==
  [running: BOOLEAN, asked: SUBSET Requests, todo: SUBSET Requests,
   reading: SUBSET [request: Requests, revision: 0..MaxEvents], prepared: SUBSET Item]

Stages == {"new", "starting", "active", "failed", "removed", "restarting", "stuck", "stopped",
           "releasing", "gone"}

\* The stages in which the code of a plugin runs, but for "stuck", which takes a
\* failed restore.
Running == {"active", "removed", "restarting", "stopped"}

Startings == {"starting", "restarting"}

\* TypeOK without the count of failures, and what was built has its trampoline.
Typed ==
  /\ word \in [Addresses -> Requests \cup {Program}]
  /\ storage \in [Requests -> Trampolines \cup {Old}]
  /\ allocated \subseteq Trampolines
  /\ lifetime \in [Modules -> 0..MaxEvents]
  /\ revision \in [Modules \cup {NoModule} -> 0..MaxEvents]
  /\ patches \subseteq PatchRecord
  /\ pending \subseteq Requests
  /\ claims \in [Addresses -> Owners \cup {NoOwner}]
  /\ handles \subseteq Requests /\ issued \subseteq Requests /\ ended \subseteq Requests
  /\ stage \in [Owners -> Stages]
  /\ call \in [Callers -> CallRecord]
  /\ \A c \in Callers : \A i \in call[c].prepared : i.built => i.trampoline # NoTrampoline
  /\ unrestored \in BOOLEAN /\ stale \subseteq Addresses /\ layered \subseteq Requests

-----------------------------------------------------------------------------
\* The inductive invariant

\* OnePatchPerTarget as it stands, over the records alone.
Targets ==
  /\ \A p \in patches : p.targetWritten /\ claims[p.request.address] = p.request.owner
  /\ \A p, q \in patches : p.request.address = q.request.address => p = q
  /\ \A a \in Addresses : claims[a] # NoOwner => \E p \in patches : p.request.address = a

\* At a target whose original instruction was the program's, the branch that is
\* there is that of the record.
Code ==
  \A a \in Addresses \ stale :
    /\ \A p \in patches : p.request.address = a =>
         p.original = Program /\ (p.request.named => word[a] = p.request)
    /\ word[a] # Program => \E p \in patches : p.request.address = a /\ p.request = word[a]

Current ==
  \A p \in patches : p.request.named =>
    p.lifetime = lifetime[p.request.module] /\ Mapped(p.request.module)

\* What was read of a module before its last event has an older revision.
Fresh(k) ==
  /\ \A q \in k.reading : q.revision <= revision[ModuleName(q.request)]
  /\ \A i \in k.prepared :
       /\ i.revision <= revision[ModuleName(i.request)]
       /\ i.request.named /\ i.resolved /\ i.revision = revision[i.request.module] =>
            i.lifetime = lifetime[i.request.module] /\ Mapped(i.request.module)

\* Each request of a call that matches is in one place: to do, read, or prepared.
Parted(k) ==
  /\ \A r \in Requests :
       r \in k.asked /\ r.matching <=>
         \/ r \in k.todo
         \/ \E q \in k.reading : q.request = r
         \/ \E i \in k.prepared : i.request = r
  /\ \A q, s \in k.reading : q = s
  /\ \A i, j \in k.prepared : i.request = j.request => i = j
  /\ \A q \in k.reading : q.request \notin k.todo /\ \A i \in k.prepared : i.request # q.request
  /\ \A i \in k.prepared : i.request \notin k.todo

Statics(o) == {r \in Requests : r.owner = o /\ r.static}

\* Who asks for what.
Asked ==
  /\ \A o \in Owners : call[o].running => stage[o] \in Startings /\ call[o].asked = Statics(o)
  /\ call[Facade].running =>
       \E r \in issued \ (handles \cup ended) :
         ~r.static /\ call[Facade].asked = {r} /\ stage[r.owner] \in Running

Has(r) == RecordsFor(r) # {}

Listed(r) == Has(r) \/ r \in pending

\* Waiting requests and patched ones are apart.
Apart == \A r \in pending : ~Has(r)

\* A static request is in the ledger while its plugin is active, another one while
\* it has a handle that no end took its patch from, and no request is there twice.
Kept ==
  /\ Apart
  /\ \A r \in Requests :
       Listed(r) => IF r.static THEN stage[r.owner] = "active" ELSE r \in handles \ ended
  /\ handles \subseteq issued /\ ended \subseteq issued /\ \A r \in handles \cup ended : ~r.static
  /\ \A o \in Owners : stage[o] # "stuck"
  /\ \A r \in issued : stage[r.owner] \in Running \cup {"releasing", "gone"}
  /\ \A r \in handles : stage[r.owner] # "gone"
  /\ \A r \in Requests :
       r.matching /\ (r \in handles \ ended \/ (r.static /\ stage[r.owner] = "active")) => Listed(r)

CallsGood == \A c \in Callers : Fresh(call[c]) /\ Parted(call[c])

Good == Targets /\ Code /\ Current /\ Kept /\ Asked /\ CallsGood

IInv == Typed /\ (~unrestored => Good)
-----------------------------------------------------------------------------
\* What the records of the model are made of

LEMMA RequestFields ==
  ASSUME NEW r \in Requests
  PROVE  /\ r.owner \in Owners /\ r.module \in Modules /\ r.address \in Addresses
         /\ r.named \in BOOLEAN /\ r.matching \in BOOLEAN /\ r.static \in BOOLEAN
         /\ r.exported \in BOOLEAN /\ r.mandatory \in BOOLEAN
         /\ r # Program /\ r.owner # NoOwner /\ r.module # NoModule
         /\ ModuleName(r) \in Modules \cup {NoModule}
         /\ r.named => ModuleName(r) = r.module
         /\ ~r.named => ModuleName(r) = NoModule
  BY ConstantsAssumption DEF Request, ModuleName

LEMMA PatchFields ==
  ASSUME NEW p \in PatchRecord
  PROVE  /\ p.request \in Requests /\ p.request.address \in Addresses /\ p.request.owner \in Owners
         /\ p.original \in Requests \cup {Program} /\ p.old \in Trampolines \cup {Old}
         /\ p.lifetime \in 0..MaxEvents
  BY RequestFields DEF PatchRecord

LEMMA ItemFields ==
  ASSUME NEW i \in Item
  PROVE  /\ i.request \in Requests /\ i.request.address \in Addresses /\ i.request.owner \in Owners
         /\ i.revision \in 0..MaxEvents /\ i.lifetime \in 0..MaxEvents
         /\ i.resolved \in BOOLEAN /\ i.built \in BOOLEAN
         /\ i.original \in Requests \cup {Program} /\ i.old \in Trampolines \cup {Old}
         /\ i.trampoline \in Trampolines \cup {NoTrampoline}
  BY RequestFields DEF Item

LEMMA CallFields ==
  ASSUME Typed, NEW c \in Callers
  PROVE  /\ call[c] \in CallRecord /\ call[c].running \in BOOLEAN
         /\ call[c].asked \subseteq Requests /\ call[c].todo \subseteq Requests
         /\ call[c].prepared \subseteq Item
         /\ \A q \in call[c].reading : q.request \in Requests /\ q.revision \in 0..MaxEvents
  BY DEF Typed, CallRecord

LEMMA RecordOf ==
  ASSUME NEW i \in Item, NEW target \in BOOLEAN, NEW callThrough \in BOOLEAN
  PROVE  /\ Record(i, target, callThrough) \in PatchRecord
         /\ Record(i, target, callThrough).request = i.request
         /\ Record(i, target, callThrough).lifetime = i.lifetime
         /\ Record(i, target, callThrough).original = i.original
         /\ Record(i, target, callThrough).targetWritten = target
  BY ItemFields DEF Record, PatchRecord

LEMMA AfterOf ==
  ASSUME NEW p \in PatchRecord, NEW T, NEW C
  PROVE  After(p, T, C) \in PatchRecord
<1> DEFINE f == p \in T
           g == p \in C
           t == IF p \in T \cup C THEN p.trampoline ELSE NoTrampoline
<1>1. f \in BOOLEAN /\ g \in BOOLEAN /\ t \in Trampolines \cup {NoTrampoline}
  BY DEF PatchRecord
<1>2. After(p, T, C) = [p EXCEPT !.targetWritten = f, !.callThroughWritten = g, !.trampoline = t]
  BY DEF After, PatchRecord
<1> HIDE DEF f, g, t
<1>3. [p EXCEPT !.targetWritten = f, !.callThroughWritten = g, !.trampoline = t] \in PatchRecord
  BY <1>1 DEF PatchRecord
<1> QED
  BY <1>2, <1>3

-----------------------------------------------------------------------------
\* The three moves of the ledger

Same == UNCHANGED <<word, claims, patches, stale>>

\* The patches N are put on targets that nobody claimed.
Added(N) ==
  /\ N \subseteq PatchRecord /\ patches' = patches \cup N
  /\ \A n \in N : n.targetWritten /\ claims[n.request.address] = NoOwner
  /\ \A n, k \in N : n.request.address = k.request.address => n = k
  /\ \A n \in N : claims'[n.request.address] = n.request.owner /\ word'[n.request.address] = n.request
  /\ \A a \in Addresses : (\A n \in N : n.request.address # a) => claims'[a] = claims[a] /\ word'[a] = word[a]
  /\ stale \subseteq stale' /\ \A n \in N : n.original # Program => n.request.address \in stale'

\* The patches R are taken off.
TakenOff(R) ==
  /\ R \subseteq patches /\ patches' = patches \ R
  /\ \A p \in R : claims'[p.request.address] = NoOwner /\ word'[p.request.address] = p.original
  /\ \A a \in Addresses : (\A p \in R : p.request.address # a) => claims'[a] = claims[a] /\ word'[a] = word[a]
  /\ stale' = stale

LEMMA AddedKeeps ==
  ASSUME Typed, Targets, Code, NEW N, Added(N)
  PROVE  Targets' /\ Code'
<1>1. \A p \in patches \cup N : p.request \in Requests /\ p.request.address \in Addresses /\ p.request.owner \in Owners
  BY PatchFields DEF Added, Typed
<1>2. \A p \in patches : claims[p.request.address] # NoOwner
  BY <1>1, ConstantsAssumption DEF Targets
<1>3. \A p \in patches, n \in N : p.request.address # n.request.address
  BY <1>2 DEF Added
<1>4. \A p \in patches : claims'[p.request.address] = claims[p.request.address]
  BY <1>1, <1>3 DEF Added
<1>5. Targets'
  <2>1. \A p \in patches' : p.targetWritten /\ claims'[p.request.address] = p.request.owner
    BY <1>4 DEF Added, Targets
  <2>2. \A p, q \in patches' : p.request.address = q.request.address => p = q
    BY <1>3 DEF Added, Targets
  <2>3. ASSUME NEW a \in Addresses, claims'[a] # NoOwner
        PROVE  \E p \in patches' : p.request.address = a
    BY <2>3 DEF Added, Targets
  <2> QED
    BY <2>1, <2>2, <2>3 DEF Targets
<1>6. ASSUME NEW a \in Addresses \ stale'
      PROVE  /\ \A p \in patches' : p.request.address = a =>
                  p.original = Program /\ (p.request.named => word'[a] = p.request)
             /\ word'[a] # Program => \E p \in patches' : p.request.address = a /\ p.request = word'[a]
  <2>1. a \in Addresses \ stale
    BY <1>6 DEF Added
  <2>2. CASE \E n \in N : n.request.address = a
    <3>1. PICK n \in N : n.request.address = a
      BY <2>2
    <3>2. n.original = Program /\ word'[a] = n.request /\ n \in patches'
      BY <1>6, <3>1 DEF Added
    <3>3. \A p \in patches' : p.request.address = a => p = n
      BY <1>3, <3>1 DEF Added
    <3> QED
      BY <3>1, <3>2, <3>3
  <2>3. CASE \A n \in N : n.request.address # a
    <3>1. word'[a] = word[a] /\ \A p \in patches' : p.request.address = a => p \in patches
      BY <2>1, <2>3 DEF Added
    <3> QED
      BY <2>1, <3>1 DEF Code, Added
  <2> QED
    BY <2>2, <2>3
<1>7. Code'
  BY <1>6 DEF Code
<1> QED
  BY <1>5, <1>7

LEMMA TakenOffKeeps ==
  ASSUME Typed, Targets, Code, NEW R, TakenOff(R)
  PROVE  Targets' /\ Code'
<1>1. \A p \in patches : p.request \in Requests /\ p.request.address \in Addresses
  BY PatchFields DEF Typed
<1>2. \A p \in patches', q \in R : p \in patches /\ p.request.address # q.request.address
  BY DEF TakenOff, Targets
<1>3. \A p \in patches' : /\ claims'[p.request.address] = claims[p.request.address]
                          /\ word'[p.request.address] = word[p.request.address]
  BY <1>1, <1>2 DEF TakenOff
<1>4. Targets'
  <2>1. \A p \in patches' : p.targetWritten /\ claims'[p.request.address] = p.request.owner
    BY <1>3 DEF TakenOff, Targets
  <2>2. \A p, q \in patches' : p.request.address = q.request.address => p = q
    BY DEF TakenOff, Targets
  <2>3. ASSUME NEW a \in Addresses, claims'[a] # NoOwner
        PROVE  \E p \in patches' : p.request.address = a
    <3>1. \A p \in R : p.request.address # a
      BY <2>3 DEF TakenOff
    <3> QED
      BY <2>3, <3>1 DEF TakenOff, Targets
  <2> QED
    BY <2>1, <2>2, <2>3 DEF Targets
<1>5. ASSUME NEW a \in Addresses \ stale
      PROVE  /\ \A p \in patches' : p.request.address = a =>
                  p.original = Program /\ (p.request.named => word'[a] = p.request)
             /\ word'[a] # Program => \E p \in patches' : p.request.address = a /\ p.request = word'[a]
  <2>1. CASE \E p \in R : p.request.address = a
    <3>1. PICK p \in R : p.request.address = a
      BY <2>1
    <3>2. word'[a] = Program
      BY <3>1 DEF TakenOff, Code
    <3>3. \A q \in patches' : q.request.address # a
      BY <1>2, <3>1
    <3> QED
      BY <3>2, <3>3
  <2>2. CASE \A p \in R : p.request.address # a
    <3>1. word'[a] = word[a] /\ \A p \in patches : p.request.address = a => p \in patches'
      BY <2>2 DEF TakenOff
    <3> QED
      BY <1>2, <3>1 DEF Code, TakenOff
  <2> QED
    BY <2>1, <2>2
<1>6. Code'
  BY <1>5 DEF Code, TakenOff
<1> QED
  BY <1>4, <1>6

LEMMA SameKeeps ==
  ASSUME Targets, Code, Same
  PROVE  Targets' /\ Code'
  BY DEF Same, Targets, Code

-----------------------------------------------------------------------------
\* The commits and restores are such moves

NewRecords(items) == {Record(i, TRUE, TRUE) : i \in Written(items)}

LEMMA CommitAdds ==
  ASSUME Typed, NEW items, items \subseteq Item, NEW dropped, NEW allow, Commit(items, dropped, allow)
  PROVE  /\ Added(NewRecords(items)) /\ UNCHANGED unrestored
         /\ \A i \in items : i.resolved => Committable(i)
         /\ \A i \in items : ~i.resolved => allow
<1> DEFINE W == Written(items)
<1>1. /\ Applies(items, allow) /\ Write(W, W) /\ UNCHANGED unrestored
  BY DEF Commit
<1>2. W \subseteq Item /\ W = {i \in items : i.resolved}
  BY DEF Written
<1>3. \A i \in items : (i.resolved => Committable(i)) /\ (~i.resolved => allow)
  BY <1>1 DEF Applies, Postponed, Committable
<1>4. \A i, j \in W : i.request.address = j.request.address => i = j
  BY <1>1, <1>2 DEF Applies, Distinct
<1> HIDE DEF W
<1>5. \A i \in W : /\ i.request.address \in Addresses /\ claims[i.request.address] = NoOwner
                   /\ (CHOOSE j \in W : j.request.address = i.request.address) = i
  BY <1>2, <1>3, <1>4, ItemFields DEF Committable
<1>6. \A i \in W : claims'[i.request.address] = i.request.owner /\ word'[i.request.address] = i.request
  BY <1>1, <1>5 DEF Write
<1>7. \A a \in Addresses : (\A i \in W : i.request.address # a) => claims'[a] = claims[a] /\ word'[a] = word[a]
  BY <1>1 DEF Write
<1>8. patches' = patches \cup {Record(i, TRUE, TRUE) : i \in W}
  <2>1. {Record(i, i \in W, i \in W) : i \in W \cup W} = {Record(i, TRUE, TRUE) : i \in W}
    <3>1. \A i \in W : Record(i, i \in W, i \in W) = Record(i, TRUE, TRUE)
      BY DEF Record
    <3> QED
      BY <3>1
  <2> QED
    BY <1>1, <2>1 DEF Write
<1>9. stale \subseteq stale' /\ \A i \in W : i.original # Program => i.request.address \in stale'
  BY <1>1 DEF Write
<1>10. \A i \in W : /\ Record(i, TRUE, TRUE) \in PatchRecord /\ Record(i, TRUE, TRUE).request = i.request
                    /\ Record(i, TRUE, TRUE).original = i.original /\ Record(i, TRUE, TRUE).targetWritten
  BY <1>2, RecordOf
<1>11. Added({Record(i, TRUE, TRUE) : i \in W})
  <2> DEFINE N == {Record(i, TRUE, TRUE) : i \in W}
  <2>1. \A n \in N : \E i \in W : n = Record(i, TRUE, TRUE)
    OBVIOUS
  <2>2. \A i \in W : \E n \in N : n.request.address = i.request.address
    BY <1>10
  <2>3. patches' = patches \cup N
    BY <1>8
  <2> HIDE DEF N
  <2>4. N \subseteq PatchRecord /\ \A n \in N : n.targetWritten /\ claims[n.request.address] = NoOwner
    <3>1. ASSUME NEW n \in N
          PROVE  n \in PatchRecord /\ claims[n.request.address] = NoOwner
      <4>1. PICK i \in W : n = Record(i, TRUE, TRUE)
        BY <2>1
      <4>2. n \in PatchRecord
        BY <1>10, <4>1, Zenon
      <4>3. n.request.address = i.request.address
        BY <1>10, <4>1, Zenon
      <4> QED
        BY <1>5, <4>2, <4>3
    <3>2. \A n \in N : n.targetWritten
      BY <1>10, <2>1, Zenon
    <3> QED
      BY <3>1, <3>2
  <2>5. ASSUME NEW n \in N, NEW k \in N, n.request.address = k.request.address
        PROVE  n = k
    <3>1. PICK i \in W : n = Record(i, TRUE, TRUE)
      BY <2>1
    <3>2. PICK j \in W : k = Record(j, TRUE, TRUE)
      BY <2>1
    <3>3. i.request.address = j.request.address
      BY <1>10, <2>5, <3>1, <3>2
    <3> QED
      BY <1>4, <3>1, <3>2, <3>3
  <2>6. \A n \in N : claims'[n.request.address] = n.request.owner /\ word'[n.request.address] = n.request
    BY <1>6, <1>10, <2>1
  <2>7. \A a \in Addresses : (\A n \in N : n.request.address # a) => claims'[a] = claims[a] /\ word'[a] = word[a]
    BY <1>7, <2>2
  <2>8. \A n \in N : n.original # Program => n.request.address \in stale'
    BY <1>9, <1>10, <2>1
  <2> QED
    BY <1>9, <2>3, <2>4, <2>5, <2>6, <2>7, <2>8 DEF Added, N
<1> QED
  BY <1>1, <1>3, <1>11 DEF NewRecords, W

\* A transaction that fails leaves the ledger as it was, unless a restore fails.
LEMMA RollBackSame ==
  ASSUME Typed, NEW items, NEW dropped, NEW allow, RollBack(items, dropped, allow), ~unrestored'
  PROVE  Same /\ ~unrestored
<1>1. PICK targets \in SUBSET items, callThroughs \in SUBSET items :
        /\ unrestored' = (unrestored \/ targets \cup callThroughs # {})
        /\ Write(targets, callThroughs)
  BY DEF RollBack
<1>2. targets = {} /\ callThroughs = {} /\ ~unrestored
  BY <1>1
<1>3. Write({}, {})
  BY <1>1, <1>2
<1>4. word' = [a \in Addresses |-> word[a]] /\ claims' = [a \in Addresses |-> claims[a]]
  BY <1>3 DEF Write
<1>5. patches' = patches /\ stale' = stale
  BY <1>3 DEF Write
<1> QED
  BY <1>2, <1>4, <1>5 DEF Same, Typed

LEMMA RestoreTakesOff ==
  ASSUME Typed, Targets, NEW R, R \subseteq patches, NEW succeeded,
         RestoreOrKeep(R, R, succeeded), ~unrestored'
  PROVE  TakenOff(R) /\ succeeded /\ ~unrestored
<1>1. PICK T \in SUBSET R, C \in SUBSET R :
        /\ Restore(R, T, C)
        /\ succeeded = (T \cup C = {})
        /\ patches' = IF succeeded THEN patches \ R ELSE (patches \ R) \cup {After(p, T, C) : p \in R}
  BY DEF RestoreOrKeep
<1>2. T = {} /\ C = {} /\ ~unrestored
  BY <1>1 DEF Restore
<1>3. succeeded /\ patches' = patches \ R
  BY <1>1, <1>2
<1>4. Restore(R, {}, {})
  BY <1>1, <1>2
<1>5. TargetsRestored(R, {}) = R
  BY DEF TargetsRestored, Targets
<1>6. \A p \in R : /\ p.request.address \in Addresses
                   /\ (CHOOSE q \in R : q.request.address = p.request.address) = p
  BY PatchFields DEF Typed, Targets
<1>7. /\ word' = [a \in Addresses |->
             IF \E p \in R : p.request.address = a
             THEN (CHOOSE p \in R : p.request.address = a).original ELSE word[a]]
      /\ claims' = [a \in Addresses |->
             IF \E p \in R \ {} : p.request.address = a THEN NoOwner ELSE claims[a]]
      /\ stale' = stale
  BY <1>4, <1>5 DEF Restore
<1>8. \A p \in R : claims'[p.request.address] = NoOwner /\ word'[p.request.address] = p.original
  BY <1>6, <1>7
<1>9. \A a \in Addresses : (\A p \in R : p.request.address # a) => claims'[a] = claims[a] /\ word'[a] = word[a]
  BY <1>7
<1> QED
  BY <1>2, <1>3, <1>7, <1>8, <1>9 DEF TakenOff

\* An address has one record, so a request has.
LEMMA OneRecord ==
  ASSUME Targets, NEW r, NEW p \in RecordsFor(r)
  PROVE  RecordsFor(r) = {p}
  BY DEF RecordsFor, Targets

\* Remove takes the record of the request off, if there is one.
LEMMA RemoveTakesOff ==
  ASSUME Typed, Targets, NEW r, Remove(r), ~unrestored'
  PROVE  TakenOff(RecordsFor(r)) /\ pending' = pending \ {r} /\ ~unrestored
<1>1. CASE RecordsFor(r) # {}
  <2>1. PICK p \in RecordsFor(r), succeeded \in BOOLEAN :
          /\ RestoreOrKeep({p}, RecordsFor(r), succeeded)
          /\ pending' = IF succeeded THEN pending \ {r} ELSE pending
    BY <1>1 DEF Remove
  <2>2. RecordsFor(r) = {p} /\ RecordsFor(r) \subseteq patches
    BY OneRecord DEF RecordsFor
  <2>3. RestoreOrKeep(RecordsFor(r), RecordsFor(r), succeeded)
    BY <2>1, <2>2
  <2> QED
    BY <2>1, <2>2, <2>3, RestoreTakesOff
<1>2. CASE RecordsFor(r) = {}
  <2>1. pending' = pending \ {r} /\ UNCHANGED <<memory, stale>>
    BY <1>2 DEF Remove
  <2>2. TakenOff({}) /\ ~unrestored
    BY <2>1 DEF TakenOff, memory
  <2> QED
    BY <1>2, <2>1, <2>2
<1> QED
  BY <1>1, <1>2
-----------------------------------------------------------------------------
\* Types

LedgerTyped ==
  /\ word \in [Addresses -> Requests \cup {Program}]
  /\ storage \in [Requests -> Trampolines \cup {Old}]
  /\ claims \in [Addresses -> Owners \cup {NoOwner}]
  /\ patches \subseteq PatchRecord /\ allocated \subseteq Trampolines
  /\ unrestored \in BOOLEAN /\ stale \subseteq Addresses /\ layered \subseteq Requests

EventsTyped ==
  /\ lifetime \in [Modules -> 0..MaxEvents]
  /\ revision \in [Modules \cup {NoModule} -> 0..MaxEvents]

PluginsTyped ==
  /\ pending \subseteq Requests /\ handles \subseteq Requests
  /\ issued \subseteq Requests /\ ended \subseteq Requests
  /\ stage \in [Owners -> Stages]

CallsTyped ==
  /\ call \in [Callers -> CallRecord]
  /\ \A c \in Callers : \A i \in call[c].prepared : i.built => i.trampoline # NoTrampoline

LEMMA TypedParts == Typed <=> LedgerTyped /\ EventsTyped /\ PluginsTyped /\ CallsTyped
  BY DEF Typed, LedgerTyped, EventsTyped, PluginsTyped, CallsTyped

LEMMA IdleTyped == Idle \in CallRecord /\ Idle.prepared = {}
  BY DEF Idle, CallRecord

\* The call of one caller becomes k.
CallIs(c, k) == call'[c] = k /\ \A d \in Callers \ {c} : call'[d] = call[d]

LEMMA CallChanges ==
  ASSUME CallsTyped, NEW c \in Callers, NEW k \in CallRecord, call' = [call EXCEPT ![c] = k],
         \A i \in k.prepared : i.built => i.trampoline # NoTrampoline
  PROVE  CallsTyped' /\ CallIs(c, k)
<1>1. call' \in [Callers -> CallRecord] /\ CallIs(c, k)
  BY DEF CallsTyped, CallIs
<1>2. \A d \in Callers : \A i \in call'[d].prepared : i.built => i.trampoline # NoTrampoline
  BY <1>1 DEF CallsTyped, CallIs
<1> QED
  BY <1>1, <1>2 DEF CallsTyped

\* The caller c starts to prepare the requests.
Started(c, requests) ==
  /\ call'[c].asked = requests /\ call'[c].todo = {r \in requests : r.matching}
  /\ call'[c].reading = {} /\ call'[c].prepared = {} /\ call'[c].running
  /\ \A d \in Callers \ {c} : call'[d] = call[d]

LEMMA BeginIs ==
  ASSUME CallsTyped, NEW c \in Callers, NEW requests \in SUBSET Requests, Begin(c, requests)
  PROVE  CallsTyped' /\ Started(c, requests)
<1> DEFINE todo == {r \in requests : r.matching}
           k == [Idle EXCEPT !.running = TRUE, !.asked = requests, !.todo = todo]
<1>1. Idle \in CallRecord /\ Idle.reading = {} /\ Idle.prepared = {} /\ todo \in SUBSET Requests
  BY IdleTyped DEF Idle
<1>2. call' = [call EXCEPT ![c] = k]
  BY DEF Begin
<1> HIDE DEF todo
<1>3. k \in CallRecord /\ k.asked = requests /\ k.todo = todo /\ k.reading = {} /\ k.prepared = {}
  BY <1>1 DEF CallRecord
<1>4. k.running = TRUE
  BY <1>1 DEF CallRecord
<1> HIDE DEF k
<1>5. CallsTyped' /\ CallIs(c, k)
  BY <1>2, <1>3, CallChanges
<1> QED
  BY <1>3, <1>4, <1>5 DEF CallIs, Started, todo

LEMMA FinishIs ==
  ASSUME CallsTyped, NEW c \in Callers, Finish(c)
  PROVE  CallsTyped' /\ CallIs(c, Idle)
  BY IdleTyped, CallChanges DEF Finish

LEMMA ReadIs ==
  ASSUME Typed, NEW c \in Callers, ReadRevision(c)
  PROVE  \E r \in call[c].todo :
           LET k == [call[c] EXCEPT !.todo = @ \ {r},
                       !.reading = {[request |-> r, revision |-> revision[ModuleName(r)]]}]
           IN  CallsTyped' /\ CallIs(c, k) /\ call[c].reading = {}
<1>1. PICK r \in call[c].todo :
        /\ call[c].reading = {}
        /\ call' = [call EXCEPT ![c].todo = @ \ {r},
                     ![c].reading = {[request |-> r, revision |-> revision[ModuleName(r)]]}]
  BY DEF ReadRevision
<1> DEFINE q == [request |-> r, revision |-> revision[ModuleName(r)]]
           k == [call[c] EXCEPT !.todo = @ \ {r}, !.reading = {q}]
<1>2. r \in Requests /\ call[c] \in CallRecord /\ CallsTyped
  BY CallFields, TypedParts
<1>3. q \in [request : Requests, revision : 0..MaxEvents]
  BY <1>2, RequestFields DEF Typed
<1>4. call' = [call EXCEPT ![c] = k]
  BY <1>1, <1>2 DEF CallsTyped, CallRecord
<1> HIDE DEF q
<1>5. k \in CallRecord /\ k.prepared = call[c].prepared
  BY <1>2, <1>3 DEF CallRecord
<1>6. \A i \in k.prepared : i.built => i.trampoline # NoTrampoline
  BY <1>2, <1>5 DEF CallsTyped
<1>7. CallsTyped' /\ CallIs(c, k)
  BY <1>2, <1>4, <1>5, <1>6, CallChanges
<1> QED
  BY <1>1, <1>7 DEF q

\* A result that was built has a trampoline, and one that was resolved by name was
\* while the module was there.
PreparedWith(c, q, i) ==
  /\ i \in Item /\ i.request = q.request /\ i.revision = q.revision
  /\ i.built => i.trampoline # NoTrampoline
  /\ i.request.named /\ i.resolved =>
       i.lifetime = lifetime[i.request.module] /\ Mapped(i.request.module)
  /\ CallIs(c, [call[c] EXCEPT !.reading = {}, !.prepared = @ \cup {i}])

LEMMA BuildIs ==
  ASSUME Typed, NEW c \in Callers, PrepareBuild(c)
  PROVE  /\ CallsTyped' /\ allocated' \subseteq Trampolines
         /\ \E q \in call[c].reading, i \in Item : PreparedWith(c, q, i)
<1>1. PICK q \in call[c].reading, resolved \in BOOLEAN, built \in BOOLEAN, t \in Trampolines \cup {NoTrampoline} :
        /\ Prepared(c, Result(q, resolved, built, t))
        /\ resolved => Resolved(q.request)
        /\ built => t \in Trampolines
        /\ allocated' \subseteq allocated \cup (Trampolines \cap {t})
  <2>1. PICK q \in call[c].reading :
          \/ ~Resolved(q.request) /\ Prepared(c, Result(q, FALSE, FALSE, NoTrampoline)) /\ UNCHANGED allocated
          \/ Resolved(q.request) /\ Prepared(c, Result(q, TRUE, FALSE, NoTrampoline)) /\ UNCHANGED allocated
          \/ /\ Resolved(q.request)
             /\ \E t \in Trampolines \ allocated :
                  Prepared(c, Result(q, TRUE, TRUE, t)) /\ allocated' = allocated \cup {t}
    BY DEF PrepareBuild
  <2>2. CASE ~Resolved(q.request) /\ Prepared(c, Result(q, FALSE, FALSE, NoTrampoline)) /\ UNCHANGED allocated
    BY <2>2
  <2>3. CASE Resolved(q.request) /\ Prepared(c, Result(q, TRUE, FALSE, NoTrampoline)) /\ UNCHANGED allocated
    BY <2>3
  <2>4. CASE /\ Resolved(q.request)
             /\ \E t \in Trampolines \ allocated :
                  Prepared(c, Result(q, TRUE, TRUE, t)) /\ allocated' = allocated \cup {t}
    <3>1. PICK t \in Trampolines \ allocated :
            Prepared(c, Result(q, TRUE, TRUE, t)) /\ allocated' = allocated \cup {t}
      BY <2>4
    <3>2. t \in Trampolines /\ TRUE \in BOOLEAN /\ allocated' \subseteq allocated \cup (Trampolines \cap {t})
      BY <3>1
    <3> QED BY <2>4, <3>1, <3>2
  <2> QED
    BY <2>1, <2>2, <2>3, <2>4
<1> DEFINE i == Result(q, resolved, built, t)
           k == [call[c] EXCEPT !.reading = {}, !.prepared = @ \cup {i}]
<1>2. q.request \in Requests /\ q.revision \in 0..MaxEvents /\ call[c] \in CallRecord /\ CallsTyped
  BY CallFields, TypedParts
<1>3. /\ i.request = q.request /\ i.revision = q.revision /\ i.resolved = resolved
      /\ i.built = built /\ i.trampoline = t
      /\ q.request.named => i.lifetime = lifetime[q.request.module]
  BY DEF Result
<1>4. i \in Item
  <2>1. /\ word[q.request.address] \in Requests \cup {Program}
        /\ storage[q.request] \in Trampolines \cup {Old}
        /\ lifetime[q.request.module] \in 0..MaxEvents
    BY <1>2, RequestFields DEF Typed
  <2>2. 0 \in 0..MaxEvents
    BY ConstantsAssumption
  <2> QED
    BY <1>2, <2>1, <2>2 DEF Result, Item
<1>5. call' = [call EXCEPT ![c] = k]
  BY <1>1, <1>2 DEF Prepared, CallsTyped, CallRecord
<1> HIDE DEF i
<1>6. i.built => i.trampoline # NoTrampoline
  BY <1>1, <1>3, ConstantsAssumption
<1>7. k \in CallRecord /\ k.prepared = call[c].prepared \cup {i}
  BY <1>2, <1>4 DEF CallRecord
<1>8. CallsTyped' /\ CallIs(c, k)
  <2>1. \A j \in k.prepared : j.built => j.trampoline # NoTrampoline
    BY <1>2, <1>6, <1>7 DEF CallsTyped
  <2> QED
    BY <1>2, <1>5, <1>7, <2>1, CallChanges
<1>9. i.request.named /\ i.resolved => i.lifetime = lifetime[i.request.module] /\ Mapped(i.request.module)
  BY <1>1, <1>3 DEF Resolved
<1>10. allocated' \subseteq Trampolines
  BY <1>1 DEF Typed
<1> QED
  BY <1>3, <1>4, <1>6, <1>8, <1>9, <1>10 DEF PreparedWith

LEMMA WriteTyped ==
  ASSUME LedgerTyped, NEW S \in SUBSET Item, NEW C \in SUBSET Item, Write(S, C),
         \A i \in C : i.trampoline \in Trampolines, UNCHANGED unrestored \/ unrestored' \in BOOLEAN,
         allocated' \subseteq allocated
  PROVE  LedgerTyped'
<1>1. word' \in [Addresses -> Requests \cup {Program}]
  BY ItemFields DEF Write, LedgerTyped
<1>2. storage' \in [Requests -> Trampolines \cup {Old}]
  BY DEF Write, LedgerTyped
<1>3. claims' \in [Addresses -> Owners \cup {NoOwner}]
  BY ItemFields DEF Write, LedgerTyped
<1>4. patches' \subseteq PatchRecord
  <2>1. \A i \in S \cup C : Record(i, i \in S, i \in C) \in PatchRecord
    <3> TAKE i \in S \cup C
    <3> DEFINE f == i \in S
               g == i \in C
    <3>1. f \in BOOLEAN /\ g \in BOOLEAN /\ i \in Item
      OBVIOUS
    <3> HIDE DEF f, g
    <3>2. Record(i, f, g) \in PatchRecord
      BY <3>1, RecordOf
    <3> QED
      BY <3>2 DEF f, g
  <2> QED
    BY <2>1 DEF Write, LedgerTyped
<1>5. stale' \subseteq Addresses /\ layered' \subseteq Requests
  BY ItemFields DEF Write, LedgerTyped
<1> QED
  BY <1>1, <1>2, <1>3, <1>4, <1>5 DEF LedgerTyped

LEMMA CommitTyped ==
  ASSUME Typed, NEW items, NEW dropped, NEW c \in Callers, items \subseteq call[c].prepared, NEW allow,
         Commit(items, dropped, allow) \/ RollBack(items, dropped, allow)
  PROVE  LedgerTyped'
<1>1. items \in SUBSET Item /\ LedgerTyped
  BY CallFields, TypedParts
<1>2. \A i \in items : Committable(i) => i.trampoline \in Trampolines
  BY <1>1, ItemFields DEF Committable, Typed
<1>3. CASE Commit(items, dropped, allow)
  <2>1. /\ Write(Written(items), Written(items)) /\ UNCHANGED unrestored
        /\ allocated' \subseteq allocated
    BY <1>3 DEF Commit
  <2>2. Written(items) \in SUBSET Item /\ \A i \in Written(items) : Committable(i)
    BY <1>1, <1>3 DEF Written, Commit, Applies, Postponed, Committable
  <2>3. \A i \in Written(items) : i.trampoline \in Trampolines
    BY <1>2, <2>2 DEF Written
  <2> QED
    BY <1>1, <2>1, <2>2, <2>3, WriteTyped
<1>4. CASE RollBack(items, dropped, allow)
  <2>1. PICK T \in SUBSET {i \in items : Committable(i)}, C \in SUBSET {i \in items : Committable(i)} :
          /\ unrestored' = (unrestored \/ T \cup C # {}) /\ Write(T, C)
          /\ allocated' \subseteq allocated
    BY <1>4 DEF RollBack
  <2>2. unrestored' \in BOOLEAN
    BY <2>1
  <2>3. T \in SUBSET Item /\ C \in SUBSET Item /\ \A i \in C : i.trampoline \in Trampolines
    BY <1>1, <1>2
  <2> QED
    BY <1>1, <2>1, <2>2, <2>3, WriteTyped
<1> QED
  BY <1>3, <1>4

LEMMA RestoreTyped ==
  ASSUME LedgerTyped, NEW R, R \subseteq patches, NEW drop, NEW succeeded, RestoreOrKeep(R, drop, succeeded)
  PROVE  LedgerTyped'
<1>1. PICK T \in SUBSET R, C \in SUBSET R :
        /\ Restore(R, T, C)
        /\ patches' = IF succeeded THEN patches \ drop ELSE (patches \ R) \cup {After(p, T, C) : p \in R}
  BY DEF RestoreOrKeep
<1>2. \A p \in R : p \in PatchRecord
  BY DEF LedgerTyped
<1>3. word' \in [Addresses -> Requests \cup {Program}]
  BY <1>1, <1>2, PatchFields DEF Restore, TargetsRestored, LedgerTyped
<1>4. storage' \in [Requests -> Trampolines \cup {Old}]
  BY <1>1, <1>2, PatchFields DEF Restore, LedgerTyped
<1>5. claims' \in [Addresses -> Owners \cup {NoOwner}]
  BY <1>1 DEF Restore, LedgerTyped
<1>6. patches' \subseteq PatchRecord
  BY <1>1, <1>2, AfterOf DEF LedgerTyped
<1>7. /\ allocated' \subseteq Trampolines /\ unrestored' \in BOOLEAN
      /\ stale' \subseteq Addresses /\ layered' \subseteq Requests
  BY <1>1 DEF Restore, LedgerTyped
<1> QED
  BY <1>3, <1>4, <1>5, <1>6, <1>7 DEF LedgerTyped

LEMMA RemoveTyped ==
  ASSUME LedgerTyped, pending \subseteq Requests, NEW r, Remove(r)
  PROVE  LedgerTyped' /\ pending' \subseteq pending
<1>1. CASE RecordsFor(r) # {}
  <2>1. PICK p \in RecordsFor(r), succeeded \in BOOLEAN :
          /\ RestoreOrKeep({p}, RecordsFor(r), succeeded)
          /\ pending' = IF succeeded THEN pending \ {r} ELSE pending
    BY <1>1 DEF Remove
  <2>2. {p} \subseteq patches
    BY DEF RecordsFor
  <2> QED
    BY <2>1, <2>2, RestoreTyped
<1>2. CASE RecordsFor(r) = {}
  BY <1>2 DEF Remove, memory, LedgerTyped
<1> QED
  BY <1>1, <1>2

LEMMA TypedStep ==
  ASSUME Typed, [Next]_vars
  PROVE  Typed'
<1>0. LedgerTyped /\ EventsTyped /\ PluginsTyped /\ CallsTyped
  BY TypedParts
<1>1. UNCHANGED <<word, storage, claims, patches, allocated, unrestored, stale, layered>> => LedgerTyped'
  BY <1>0 DEF LedgerTyped
<1>2. UNCHANGED <<lifetime, revision>> => EventsTyped'
  BY <1>0 DEF EventsTyped
<1>3. UNCHANGED call => CallsTyped'
  BY <1>0 DEF CallsTyped
<1>4. ASSUME /\ pending' \subseteq Requests /\ handles' \subseteq Requests
             /\ issued' \subseteq Requests /\ ended' \subseteq Requests
             /\ UNCHANGED stage \/ \E o \in Owners, g \in Stages : stage' = [stage EXCEPT ![o] = g]
      PROVE  PluginsTyped'
  BY <1>0, <1>4 DEF PluginsTyped
<1>5. ASSUME NEW o \in Owners
      PROVE  o \in Callers
  BY DEF Callers
<1>6. Facade \in Callers /\ Loader \in Callers
  BY DEF Callers
<1>7. ASSUME NEW c \in Callers, ReadRevision(c)
      PROVE  Typed'
  <2>1. CallsTyped'
    BY <1>7, ReadIs
  <2>2. LedgerTyped' /\ EventsTyped' /\ PluginsTyped'
    BY <1>0, <1>1, <1>2, <1>7 DEF ReadRevision, memory, events, PluginsTyped
  <2> QED
    BY <2>1, <2>2, TypedParts DEF Typed, LedgerTyped, EventsTyped, PluginsTyped, CallsTyped
<1>8. ASSUME LedgerTyped', EventsTyped', PluginsTyped', CallsTyped'
      PROVE  Typed'
  BY <1>8 DEF Typed, LedgerTyped, EventsTyped, PluginsTyped, CallsTyped
<1>9. ASSUME NEW c \in Callers, PrepareBuild(c)
      PROVE  Typed'
  <2>1. CallsTyped' /\ allocated' \subseteq Trampolines
    BY <1>9, BuildIs
  <2>2. LedgerTyped' /\ EventsTyped' /\ PluginsTyped'
    BY <1>0, <1>2, <1>9, <2>1 DEF PrepareBuild, memory, events, PluginsTyped, LedgerTyped
  <2> QED
    BY <1>8, <2>1, <2>2
<1>10. ASSUME NEW o \in Owners, Apply(o)
       PROVE  Typed'
  <2>1. CallsTyped' /\ PluginsTyped'
    <3>1. CASE Statics(o) = {}
      BY <1>0, <1>3, <1>4, <1>10, <3>1 DEF Apply, Statics, PluginsTyped, Stages
    <3>2. CASE Statics(o) # {}
      <4>1. /\ Begin(o, Statics(o)) /\ UNCHANGED <<pending, handles, issued, ended>>
            /\ \E g \in Stages : stage' = [stage EXCEPT ![o] = g]
        BY <1>10, <3>2 DEF Apply, Statics, Stages
      <4>2. CallsTyped'
        BY <1>0, <1>5, <4>1, BeginIs DEF Statics
      <4> QED
        BY <1>0, <1>4, <4>1, <4>2 DEF PluginsTyped
    <3> QED
      BY <3>1, <3>2
  <2> QED
    BY <1>1, <1>2, <1>8, <1>10, <2>1 DEF Apply, memory, events
<1>11. ASSUME NEW o \in Owners, CommitApply(o)
       PROVE  Typed'
  <2>1. LedgerTyped'
    <3>1. CASE Registered(o)
      BY <1>0, <1>11, <3>1 DEF CommitApply, memory, LedgerTyped
    <3>2. CASE ~Registered(o)
      BY <1>5, <1>11, <3>2, CommitTyped DEF CommitApply
    <3> QED
      BY <3>1, <3>2
  <2>2. CallsTyped'
    BY <1>0, <1>5, <1>11, FinishIs DEF CommitApply
  <2>3. PluginsTyped'
    <3>1. \A i \in call[o].prepared : i.request \in Requests
      BY <1>5, CallFields, ItemFields
    <3>0. \/ pending' = pending \cup {i.request : i \in {j \in call[o].prepared : ~j.resolved}}
          \/ pending' = pending
      BY <1>11 DEF CommitApply
    <3>2. pending' \subseteq Requests
      BY <1>0, <3>1, <3>0 DEF PluginsTyped
    <3>3. \E g \in Stages : stage' = [stage EXCEPT ![o] = g]
      BY <1>11 DEF CommitApply, Fails, Stages
    <3> QED
      BY <1>0, <1>4, <1>11, <3>2, <3>3 DEF CommitApply, PluginsTyped
  <2> QED
    BY <1>2, <1>8, <1>11, <2>1, <2>2, <2>3 DEF CommitApply, events
<1>12. ASSUME NEW o \in Owners, RemoveOwner(o)
       PROVE  Typed'
  <2>1. LedgerTyped'
    <3>1. RecordsOf(o) \subseteq patches
      BY DEF RecordsOf
    <3> QED
      BY <1>0, <1>12, <3>1, RestoreTyped DEF RemoveOwner
  <2>2. PluginsTyped'
    <3>1. \E g \in Stages : stage' = [stage EXCEPT ![o] = g]
      BY <1>12 DEF RemoveOwner, Stages
    <3>2. pending' \subseteq pending /\ ended' \subseteq ended \cup handles /\ UNCHANGED <<handles, issued>>
      BY <1>12 DEF RemoveOwner
    <3> QED
      BY <1>0, <1>4, <3>1, <3>2 DEF PluginsTyped
  <2> QED
    BY <1>2, <1>3, <1>8, <1>12, <2>1, <2>2 DEF RemoveOwner, events
<1>13. ASSUME NEW o \in Owners, ReleaseOwner(o) \/ Released(o)
       PROVE  Typed'
  BY <1>0, <1>1, <1>2, <1>3, <1>4, <1>8, <1>13 DEF ReleaseOwner, Released, memory, events, PluginsTyped, Stages
<1>14. ASSUME NEW o \in Owners, ReleaseNext(o)
       PROVE  Typed'
  <2>1. PICK r \in handles : Remove(r) /\ handles' = handles \ {r}
    BY <1>14 DEF ReleaseNext
  <2>2. LedgerTyped' /\ pending' \subseteq pending
    BY <1>0, <2>1, RemoveTyped DEF PluginsTyped
  <2>3. PluginsTyped'
    BY <1>0, <1>4, <1>14, <2>1, <2>2 DEF ReleaseNext, PluginsTyped
  <2> QED
    BY <1>2, <1>3, <1>8, <1>14, <2>2, <2>3 DEF ReleaseNext, events
<1>15. ASSUME NEW r \in Requests, AddPatch(r)
       PROVE  Typed'
  <2>1. CallsTyped'
    BY <1>0, <1>6, <1>15, BeginIs DEF AddPatch
  <2>2. PluginsTyped'
    BY <1>0, <1>4, <1>15 DEF AddPatch, PluginsTyped
  <2> QED
    BY <1>1, <1>2, <1>8, <1>15, <2>1, <2>2 DEF AddPatch, memory, events
<1>16. ASSUME NEW r \in Requests, RemovePatch(r)
       PROVE  Typed'
  <2>1. LedgerTyped' /\ pending' \subseteq pending
    BY <1>0, <1>16, RemoveTyped DEF RemovePatch, PluginsTyped
  <2>2. PluginsTyped'
    BY <1>0, <1>4, <1>16, <2>1 DEF RemovePatch, PluginsTyped
  <2> QED
    BY <1>2, <1>3, <1>8, <1>16, <2>1, <2>2 DEF RemovePatch, events
<1>17. CASE CommitAdd
  <2>1. LedgerTyped'
    BY <1>6, <1>17, CommitTyped DEF CommitAdd
  <2>2. CallsTyped'
    BY <1>0, <1>6, <1>17, FinishIs DEF CommitAdd
  <2>3. PluginsTyped'
    <3>1. \A i \in call[Facade].prepared : i.request \in Requests
      BY <1>6, CallFields, ItemFields
    <3>0. \/ pending' = pending \cup {i.request : i \in {j \in call[Facade].prepared : ~j.resolved}}
          \/ pending' = pending
      BY <1>17 DEF CommitAdd
    <3>2. pending' \subseteq Requests
      BY <1>0, <3>1, <3>0 DEF PluginsTyped
    <3>3. handles' \subseteq handles \cup call[Facade].asked /\ call[Facade].asked \subseteq Requests
      BY <1>6, <1>17, CallFields DEF CommitAdd
    <3>4. UNCHANGED <<issued, ended, stage>>
      BY <1>17 DEF CommitAdd
    <3> QED
      BY <1>0, <1>4, <3>2, <3>3, <3>4 DEF PluginsTyped
  <2> QED
    BY <1>2, <1>8, <1>17, <2>1, <2>2, <2>3 DEF CommitAdd, events
<1>18. CASE CommitLoaded
  <2>1. LedgerTyped'
    <3>1. Candidates \subseteq call[Loader].prepared
      BY DEF Candidates
    <3> QED
      BY <1>6, <1>18, <3>1, CommitTyped DEF CommitLoaded
  <2>2. CallsTyped'
    BY <1>0, <1>6, <1>18, FinishIs DEF CommitLoaded
  <2>3. PluginsTyped'
    BY <1>0, <1>4, <1>18 DEF CommitLoaded, PluginsTyped
  <2> QED
    BY <1>2, <1>8, <1>18, <2>1, <2>2, <2>3 DEF CommitLoaded, events
<1>19. ASSUME NEW m \in Modules, ModuleLoads(m)
       PROVE  Typed'
  <2> DEFINE candidates == {r \in pending : r.named /\ r.module = m}
  <2>1. CallsTyped'
    <3>1. candidates \in SUBSET Requests
      BY <1>0 DEF PluginsTyped
    <3>2. UNCHANGED call \/ Begin(Loader, candidates)
      BY <1>19 DEF ModuleLoads
    <3> QED
      BY <1>0, <1>3, <1>6, <3>1, <3>2, BeginIs
  <2>2. EventsTyped'
    BY <1>0, <1>19, ConstantsAssumption DEF ModuleLoads, EventsLeft, NextLifetime, EventsTyped
  <2>3. LedgerTyped'
    BY <1>0, <1>19 DEF ModuleLoads, LedgerTyped
  <2>4. PluginsTyped'
    BY <1>0, <1>4, <1>19 DEF ModuleLoads, PluginsTyped
  <2> QED
    BY <1>8, <2>1, <2>2, <2>3, <2>4
<1>20. ASSUME NEW m \in Modules, ModuleUnloads(m)
       PROVE  Typed'
  <2> DEFINE records == {p \in patches : /\ p.request.named /\ p.request.module = m
                                         /\ p.lifetime = lifetime[m]}
  <2>1. LedgerTyped'
    BY <1>0, <1>20, RestoreTyped DEF ModuleUnloads
  <2>2. EventsTyped'
    BY <1>0, <1>20, ConstantsAssumption DEF ModuleUnloads, EventsLeft, EventsTyped
  <2>3. PluginsTyped'
    <3>1. \A p \in records : p.request \in Requests
      BY <1>0, PatchFields DEF LedgerTyped
    <3>2. pending' \subseteq Requests
      BY <1>0, <1>20, <3>1 DEF ModuleUnloads, PluginsTyped
    <3> QED
      BY <1>0, <1>4, <1>20, <3>2 DEF ModuleUnloads, PluginsTyped
  <2> QED
    BY <1>3, <1>8, <1>20, <2>1, <2>2, <2>3 DEF ModuleUnloads
<1>21. CASE UNCHANGED vars
  BY <1>21 DEF vars, Typed
<1> QED
  BY <1>7, <1>9, <1>10, <1>11, <1>12, <1>13, <1>14, <1>15, <1>16, <1>17, <1>18, <1>19, <1>20, <1>21 DEF Next

-----------------------------------------------------------------------------
\* What the calls prepare

Event(m) ==
  /\ lifetime' = [lifetime EXCEPT ![m] = lifetime'[m]]
  /\ revision' = [revision EXCEPT ![m] = @ + 1]

\* What was prepared of a module before an event is never committed after it.
LEMMA CallsNext ==
  ASSUME Typed, CallsGood,
         UNCHANGED events \/ \E m \in Modules : Event(m),
         \A c \in Callers : \/ call'[c] = call[c]
                            \/ call'[c].reading = {} /\ call'[c].prepared = {} /\ Parted(call'[c])
  PROVE  CallsGood'
<1>1. ASSUME NEW c \in Callers, call'[c] = call[c]
      PROVE  Fresh(call[c])' /\ Parted(call[c])'
  <2>1. Fresh(call[c]) /\ Parted(call[c])
    BY DEF CallsGood
  <2>2. Parted(call[c])'
    BY <1>1, <2>1 DEF Parted
  <2>3. /\ \A q \in call[c].reading : q.request \in Requests /\ q.revision \in 0..MaxEvents
        /\ \A i \in call[c].prepared : i.request \in Requests /\ i.revision \in 0..MaxEvents
    BY CallFields, ItemFields
  <2>4. \A n \in Modules \cup {NoModule} : revision[n] \in Nat
    BY DEF Typed
  <2>5. CASE UNCHANGED events
    BY <1>1, <2>1, <2>5 DEF Fresh, events, Mapped
  <2>6. CASE \E m \in Modules : Event(m)
    <3>1. PICK m \in Modules : Event(m)
      BY <2>6
    <3>2. /\ revision'[m] = revision[m] + 1
          /\ \A n \in (Modules \cup {NoModule}) \ {m} : revision'[n] = revision[n]
          /\ \A n \in Modules \ {m} : lifetime'[n] = lifetime[n]
      BY <3>1 DEF Event, Typed
    <3>3. \A n \in Modules \cup {NoModule} : revision[n] <= revision'[n]
      BY <2>4, <3>2
    <3>4. \A q \in call[c].reading : q.revision <= revision'[ModuleName(q.request)]
      <4> TAKE q \in call[c].reading
      <4>1. ModuleName(q.request) \in Modules \cup {NoModule} /\ q.revision <= revision[ModuleName(q.request)]
        BY <2>1, <2>3, RequestFields DEF Fresh
      <4> QED
        BY <2>3, <2>4, <3>2, <4>1
    <3>5. ASSUME NEW i \in call[c].prepared
          PROVE  /\ i.revision <= revision'[ModuleName(i.request)]
                 /\ i.request.named /\ i.resolved /\ i.revision = revision'[i.request.module] =>
                      i.lifetime = lifetime'[i.request.module] /\ lifetime'[i.request.module] # 0
      <4>1. /\ ModuleName(i.request) \in Modules \cup {NoModule} /\ i.request.module \in Modules
            /\ i.request.named => ModuleName(i.request) = i.request.module
        BY <2>3, RequestFields
      <4>2. i.revision <= revision[ModuleName(i.request)] /\ i.revision \in Nat
        BY <2>1, <2>3 DEF Fresh
      <4>3. i.revision <= revision'[ModuleName(i.request)]
        BY <2>4, <3>2, <4>1, <4>2
      <4>4. ASSUME i.request.named, i.resolved, i.revision = revision'[i.request.module]
            PROVE  i.lifetime = lifetime'[i.request.module] /\ lifetime'[i.request.module] # 0
        <5>1. i.request.module # m
          BY <2>4, <3>2, <4>1, <4>2, <4>4
        <5> QED
          BY <2>1, <3>2, <4>1, <4>4, <5>1 DEF Fresh, Mapped
      <4> QED
        BY <4>3, <4>4
    <3> QED
      BY <1>1, <2>2, <3>4, <3>5 DEF Fresh, Mapped
  <2> QED
    BY <2>2, <2>5, <2>6
<1>2. ASSUME NEW c \in Callers, call'[c].reading = {}, call'[c].prepared = {}, Parted(call'[c])
      PROVE  Fresh(call[c])' /\ Parted(call[c])'
  BY <1>2 DEF Fresh, Parted
<1> QED
  BY <1>1, <1>2 DEF CallsGood

LEMMA StartedGood ==
  ASSUME Typed, CallsGood, NEW c \in Callers, NEW requests \in SUBSET Requests, Started(c, requests),
         UNCHANGED events \/ \E m \in Modules : Event(m)
  PROVE  CallsGood'
<1>1. Parted(call'[c])
  BY DEF Started, Parted
<1> QED
  BY <1>1, CallsNext DEF Started

LEMMA FinishedGood ==
  ASSUME Typed, CallsGood, NEW c \in Callers, CallIs(c, Idle), UNCHANGED events
  PROVE  CallsGood'
<1>1. Idle.asked = {} /\ Idle.todo = {} /\ Idle.reading = {} /\ Idle.prepared = {}
  BY DEF Idle
<1>2. Parted(Idle)
  BY <1>1 DEF Parted
<1> QED
  BY <1>1, <1>2, CallsNext DEF CallIs

LEMMA CallGood ==
  ASSUME CallsGood, NEW c \in Callers, NEW k, CallIs(c, k), UNCHANGED events, Fresh(k), Parted(k)
  PROVE  CallsGood'
<1>1. Fresh(call[c])' /\ Parted(call[c])'
  BY DEF CallIs, Fresh, Parted, events, Mapped
<1>2. ASSUME NEW d \in Callers \ {c}
      PROVE  Fresh(call[d])' /\ Parted(call[d])'
  BY <1>2 DEF CallsGood, CallIs, Fresh, Parted, events, Mapped
<1> QED
  BY <1>1, <1>2 DEF CallsGood

LEMMA ReadGood ==
  ASSUME Typed, CallsGood, NEW c \in Callers, ReadRevision(c)
  PROVE  CallsGood' /\ call'[c].running = call[c].running /\ call'[c].asked = call[c].asked
         /\ \A d \in Callers \ {c} : call'[d] = call[d]
<1>1. PICK r \in call[c].todo :
        /\ CallIs(c, [call[c] EXCEPT !.todo = @ \ {r},
                       !.reading = {[request |-> r, revision |-> revision[ModuleName(r)]]}])
        /\ call[c].reading = {}
  BY ReadIs
<1> DEFINE q == [request |-> r, revision |-> revision[ModuleName(r)]]
           k == [call[c] EXCEPT !.todo = @ \ {r}, !.reading = {q}]
<1>2. r \in Requests /\ call[c] \in CallRecord /\ Fresh(call[c]) /\ Parted(call[c])
  BY CallFields DEF CallsGood
<1>3. q.request = r /\ q.revision = revision[ModuleName(r)] /\ revision[ModuleName(r)] \in Nat
  BY <1>2, RequestFields DEF Typed
<1> HIDE DEF q
<1>4. /\ k.running = call[c].running /\ k.asked = call[c].asked /\ k.todo = call[c].todo \ {r}
      /\ k.reading = {q} /\ k.prepared = call[c].prepared
  BY <1>2 DEF CallRecord
<1>5. CallIs(c, k)
  BY <1>1 DEF q
<1> HIDE DEF k
<1>6. Fresh(k)
  BY <1>2, <1>3, <1>4 DEF Fresh
<1>7. Parted(k)
  BY <1>1, <1>2, <1>3, <1>4 DEF Parted
<1>8. UNCHANGED events
  BY DEF ReadRevision
<1> QED
  BY <1>4, <1>5, <1>6, <1>7, <1>8, CallGood DEF CallIs

LEMMA BuildGood ==
  ASSUME Typed, CallsGood, NEW c \in Callers, PrepareBuild(c)
  PROVE  CallsGood' /\ call'[c].running = call[c].running /\ call'[c].asked = call[c].asked
         /\ \A d \in Callers \ {c} : call'[d] = call[d]
<1>1. PICK q \in call[c].reading, i \in Item : PreparedWith(c, q, i)
  BY BuildIs
<1> DEFINE k == [call[c] EXCEPT !.reading = {}, !.prepared = @ \cup {i}]
<1>2. call[c] \in CallRecord /\ Fresh(call[c]) /\ Parted(call[c]) /\ q.request \in Requests
  BY CallFields DEF CallsGood
<1>3. /\ k.running = call[c].running /\ k.asked = call[c].asked /\ k.todo = call[c].todo
      /\ k.reading = {} /\ k.prepared = call[c].prepared \cup {i}
  BY <1>2 DEF CallRecord
<1>4. CallIs(c, k) /\ i.request = q.request /\ i.revision = q.revision
  BY <1>1 DEF PreparedWith
<1> HIDE DEF k
<1>5. Fresh(k)
  <2>1. i.revision <= revision[ModuleName(i.request)]
    BY <1>2, <1>4 DEF Fresh
  <2>2. i.request.named /\ i.resolved => i.lifetime = lifetime[i.request.module] /\ Mapped(i.request.module)
    BY <1>1 DEF PreparedWith
  <2> QED
    BY <1>2, <1>3, <2>1, <2>2 DEF Fresh
<1>6. Parted(k)
  <2>1. call[c].reading = {q}
    BY <1>2 DEF Parted
  <2> QED
    BY <1>2, <1>3, <1>4, <2>1 DEF Parted
<1>7. UNCHANGED events
  BY DEF PrepareBuild
<1> QED
  BY <1>3, <1>4, <1>5, <1>6, <1>7, CallGood DEF CallIs

-----------------------------------------------------------------------------
\* Which requests are in the ledger

LEMMA HasIs ==
  ASSUME NEW r
  PROVE  Has(r) <=> \E p \in patches : p.request = r
  BY DEF Has, RecordsFor

LEMMA HasIsNext ==
  ASSUME NEW r
  PROVE  Has(r)' <=> \E p \in patches' : p.request = r
  BY DEF Has, RecordsFor

LEMMA HasAdded ==
  ASSUME NEW items, items \subseteq Item, Added(NewRecords(items)), NEW r
  PROVE  Has(r)' <=> Has(r) \/ \E i \in items : i.resolved /\ i.request = r
<1>1. \A i \in Written(items) : Record(i, TRUE, TRUE).request = i.request
  BY RecordOf DEF Written
<1>2. (\E n \in NewRecords(items) : n.request = r) <=> \E i \in Written(items) : i.request = r
  <2>1. ASSUME NEW n \in NewRecords(items), n.request = r
        PROVE  \E i \in Written(items) : i.request = r
    <3>1. PICK i \in Written(items) : n = Record(i, TRUE, TRUE)
      BY DEF NewRecords
    <3> QED
      BY <1>1, <2>1, <3>1
  <2>2. ASSUME NEW i \in Written(items), i.request = r
        PROVE  \E n \in NewRecords(items) : n.request = r
    <3>1. Record(i, TRUE, TRUE) \in NewRecords(items)
      BY DEF NewRecords
    <3> QED
      BY <1>1, <2>2, <3>1
  <2> QED
    BY <2>1, <2>2
<1>3. patches' = patches \cup NewRecords(items)
  BY DEF Added
<1> QED
  BY <1>2, <1>3, HasIs, HasIsNext DEF Written

\* The requests of items, none of which was in the ledger, are in it afterwards.
LEMMA ListsNew ==
  ASSUME Apart, NEW items, items \subseteq Item, Added(NewRecords(items)),
         \A i, j \in items : i.request = j.request => i = j,
         \A i \in items : ~Listed(i.request),
         pending' = pending \cup {i.request : i \in {j \in items : ~j.resolved}}
  PROVE  /\ Apart'
         /\ \A r : Listed(r)' <=> Listed(r) \/ \E i \in items : i.request = r
<1>1. \A r : Has(r)' <=> Has(r) \/ \E i \in items : i.resolved /\ i.request = r
  BY HasAdded
<1>2. \A r : r \in pending' <=> r \in pending \/ \E i \in items : ~i.resolved /\ i.request = r
  OBVIOUS
<1> QED
  BY <1>1, <1>2 DEF Apart, Listed

\* The requests of items waited and are patched afterwards.
LEMMA ListsWaiting ==
  ASSUME Apart, NEW items, items \subseteq Item, Added(NewRecords(items)),
         \A i \in items : i.resolved /\ i.request \in pending,
         pending' = pending \ {i.request : i \in items}
  PROVE  Apart' /\ \A r : Listed(r)' <=> Listed(r)
<1>1. \A r : Has(r)' <=> Has(r) \/ \E i \in items : i.resolved /\ i.request = r
  BY HasAdded
<1>2. \A r : r \in pending' <=> r \in pending /\ ~\E i \in items : i.request = r
  OBVIOUS
<1> QED
  BY <1>1, <1>2 DEF Apart, Listed

\* Taking the records R off takes their requests out.
LEMMA HasTakenOff ==
  ASSUME Targets, NEW R, TakenOff(R), NEW r
  PROVE  Has(r)' <=> Has(r) /\ \A p \in R : p.request # r
<1>1. ASSUME NEW p \in R, NEW q \in patches', p.request = q.request
      PROVE  FALSE
  BY <1>1 DEF TakenOff, Targets
<1> QED
  BY <1>1, HasIs, HasIsNext DEF TakenOff

LEMMA ListsTakenOff ==
  ASSUME Apart, Targets, NEW R, TakenOff(R), NEW gone, \A p \in R : p.request \in gone,
         \A p \in patches \ R : p.request \notin gone, pending' = pending \ gone
  PROVE  Apart' /\ \A r : Listed(r)' <=> Listed(r) /\ r \notin gone
<1>1. \A r : Has(r)' <=> Has(r) /\ \A p \in R : p.request # r
  BY HasTakenOff
<1>2. \A r : Has(r)' <=> Has(r) /\ r \notin gone
  BY <1>1, HasIs, HasIsNext DEF TakenOff
<1> QED
  BY <1>2 DEF Apart, Listed

\* The requests of the records taken off wait again.
LEMMA ListsPostponed ==
  ASSUME Apart, Targets, NEW R, TakenOff(R), pending' = pending \cup {p.request : p \in R}
  PROVE  Apart' /\ \A r : Listed(r)' <=> Listed(r)
<1>1. \A r : Has(r)' <=> Has(r) /\ \A p \in R : p.request # r
  BY HasTakenOff
<1>2. \A r : r \in pending' <=> r \in pending \/ \E p \in R : p.request = r
  OBVIOUS
<1>3. \A p \in R : Has(p.request)
  BY HasIs DEF TakenOff
<1> QED
  BY <1>1, <1>2, <1>3 DEF Apart, Listed

LEMMA ListsSame ==
  ASSUME UNCHANGED <<patches, pending>>
  PROVE  /\ Apart <=> Apart'
         /\ \A r : (Listed(r)' <=> Listed(r))
  BY DEF Apart, Listed, Has, RecordsFor

-----------------------------------------------------------------------------
\* The lifetimes of the records

LEMMA CurrentCommitted ==
  ASSUME Typed, Current, NEW c \in Callers, Fresh(call[c]), NEW items, items \subseteq call[c].prepared,
         Added(NewRecords(items)), \A i \in items : i.resolved => Committable(i), UNCHANGED events
  PROVE  Current'
<1>1. ASSUME NEW n \in NewRecords(items), n.request.named
      PROVE  n.lifetime = lifetime[n.request.module] /\ Mapped(n.request.module)
  <2>1. PICK i \in Written(items) : n = Record(i, TRUE, TRUE)
    BY DEF NewRecords
  <2>2. i \in Item /\ i.resolved /\ Committable(i) /\ i \in call[c].prepared
    BY CallFields DEF Written
  <2>3. n.request = i.request /\ n.lifetime = i.lifetime
    BY <2>1, <2>2, RecordOf
  <2>4. i.revision = revision[i.request.module]
    BY <1>1, <2>2, <2>3 DEF Committable, ModuleName
  <2> QED
    BY <1>1, <2>2, <2>3, <2>4 DEF Fresh
<1> QED
  BY <1>1 DEF Current, Added, events, Mapped

LEMMA CurrentKept ==
  ASSUME Current, patches' \subseteq patches, UNCHANGED events
  PROVE  Current'
  BY DEF Current, events, Mapped

-----------------------------------------------------------------------------
\* One lemma per operation: what is Good stays so

LEMMA AskedKept ==
  ASSUME Asked, UNCHANGED <<stage, issued, ended>>, handles' \subseteq handles,
         \A c \in Owners \cup {Facade} :
           call'[c].running => call[c].running /\ call'[c].asked = call[c].asked
  PROVE  Asked'
<1>1. \A o \in Owners : call'[o].running => stage'[o] \in Startings /\ call'[o].asked = Statics(o)
  BY DEF Asked
<1>2. call'[Facade].running =>
        \E r \in issued' \ (handles' \cup ended') :
          ~r.static /\ call'[Facade].asked = {r} /\ stage'[r.owner] \in Running
  BY DEF Asked
<1> QED
  BY <1>1, <1>2 DEF Asked, Statics

LEMMA KeptSame ==
  ASSUME Kept, UNCHANGED <<patches, pending, handles, issued, ended, stage>>
  PROVE  Kept'
  BY ListsSame DEF Kept

LEMMA ReadKeeps ==
  ASSUME Typed, Good, NEW c \in Callers, ReadRevision(c)
  PROVE  Good'
<1>1. /\ CallsGood' /\ call'[c].running = call[c].running /\ call'[c].asked = call[c].asked
      /\ \A d \in Callers \ {c} : call'[d] = call[d]
  BY ReadGood DEF Good
<1>2. UNCHANGED <<memory, events, pending, handles, issued, ended, stage, stale>>
  BY DEF ReadRevision
<1>3. Targets' /\ Code'
  BY <1>2, SameKeeps DEF Good, Same, memory
<1>4. Current' /\ Kept'
  BY <1>2, CurrentKept, KeptSame DEF Good, memory
<1>5. Asked'
  BY <1>1, <1>2, AskedKept DEF Good, Callers
<1> QED
  BY <1>1, <1>3, <1>4, <1>5 DEF Good

LEMMA BuildKeeps ==
  ASSUME Typed, Good, NEW c \in Callers, PrepareBuild(c)
  PROVE  Good'
<1>1. /\ CallsGood' /\ call'[c].running = call[c].running /\ call'[c].asked = call[c].asked
      /\ \A d \in Callers \ {c} : call'[d] = call[d]
  BY BuildGood DEF Good
<1>2. UNCHANGED <<memory, events, pending, handles, issued, ended, stage, stale>>
  BY DEF PrepareBuild
<1>3. Targets' /\ Code'
  BY <1>2, SameKeeps DEF Good, Same, memory
<1>4. Current' /\ Kept'
  BY <1>2, CurrentKept, KeptSame DEF Good, memory
<1>5. Asked'
  BY <1>1, <1>2, AskedKept DEF Good, Callers
<1> QED
  BY <1>1, <1>3, <1>4, <1>5 DEF Good

LEMMA ApplyKeeps ==
  ASSUME Typed, Good, NEW o \in Owners, Apply(o)
  PROVE  Good'
<1>1. UNCHANGED <<memory, events, pending, handles, issued, ended, stale>> /\ stage[o] \in {"new", "removed"}
  BY DEF Apply
<1>2. \/ Statics(o) = {} /\ stage' = [stage EXCEPT ![o] = "active"] /\ UNCHANGED call
      \/ /\ stage' = [stage EXCEPT ![o] = IF stage[o] = "new" THEN "starting" ELSE "restarting"]
         /\ Begin(o, Statics(o))
  BY DEF Apply, Statics
<1>3. Targets' /\ Code'
  BY <1>1, SameKeeps DEF Good, Same, memory
<1>4. Current'
  BY <1>1, CurrentKept DEF Good, memory
<1>5. /\ \A d \in Owners \ {o} : stage'[d] = stage[d]
      /\ stage'[o] \in {"active", "starting", "restarting"}
      /\ stage[o] = "removed" => stage'[o] \in {"active", "restarting"}
  BY <1>1, <1>2 DEF Typed
<1>6. \A r \in Requests : r.owner \in Owners
  BY RequestFields
<1>7. Kept'
  <2>1. Apart' /\ \A r : Listed(r)' <=> Listed(r)
    BY <1>1, ListsSame DEF Good, Kept, memory
  <2>2. \A r \in Requests : Listed(r) => IF r.static THEN stage'[r.owner] = "active" ELSE r \in handles \ ended
    BY <1>1, <1>5, <1>6 DEF Good, Kept
  <2>3. \A r \in issued : /\ stage'[r.owner] \in Running \cup {"releasing", "gone"}
                          /\ stage[r.owner] # "gone" => stage'[r.owner] # "gone"
    <3> TAKE r \in issued
    <3>1. r.owner \in Owners /\ stage[r.owner] \in Running \cup {"releasing", "gone"}
      BY <1>6 DEF Good, Kept, Typed
    <3> QED
      BY <1>1, <1>5, <3>1 DEF Running
  <2>4. ASSUME NEW r \in Requests, r.matching,
               r \in handles \ ended \/ (r.static /\ stage'[r.owner] = "active")
        PROVE  Listed(r)
    <3>1. CASE r \in handles \ ended
      BY <2>4, <3>1 DEF Good, Kept
    <3>2. CASE r.static /\ stage'[r.owner] = "active"
      <4>1. r.owner # o
        BY <1>2, <3>2 DEF Statics, Typed
      <4> QED
        BY <1>5, <1>6, <2>4, <3>2, <4>1 DEF Good, Kept
    <3> QED
      BY <2>4, <3>1, <3>2
  <2>5. \A d \in Owners : stage'[d] # "stuck"
    BY <1>5 DEF Good, Kept
  <2>6. \A r \in handles : stage'[r.owner] # "gone"
    BY <2>3 DEF Good, Kept
  <2> QED
    BY <1>1, <2>1, <2>2, <2>3, <2>4, <2>5, <2>6 DEF Good, Kept
<1>8. CallsTyped /\ o \in Callers /\ Statics(o) \in SUBSET Requests
  BY TypedParts DEF Callers, Statics
<1>9. UNCHANGED call \/ (Started(o, Statics(o)) /\ stage'[o] \in Startings)
  <2>1. CASE /\ stage' = [stage EXCEPT ![o] = IF stage[o] = "new" THEN "starting" ELSE "restarting"]
             /\ Begin(o, Statics(o))
    <3>1. Started(o, Statics(o))
      BY <1>8, <2>1, BeginIs
    <3>2. stage'[o] \in Startings
      BY <2>1 DEF Typed, Startings
    <3> QED
      BY <3>1, <3>2
  <2>2. CASE UNCHANGED call
    BY <2>2
  <2> QED
    BY <1>2, <2>1, <2>2, Zenon
<1>10. CallsGood'
  <2>1. CASE UNCHANGED call
    BY <1>1, <2>1, CallsNext DEF Good
  <2>2. CASE Started(o, Statics(o))
    BY <1>1, <1>8, <2>2, StartedGood DEF Good
  <2> QED
    BY <1>9, <2>1, <2>2
<1>11. Asked'
  <2>1. call'[Facade] = call[Facade] /\ \A d \in Owners \ {o} : call'[d] = call[d]
    BY <1>9, ConstantsAssumption DEF Started, Callers
  <2>2. ~call[o].running
    BY <1>1 DEF Good, Asked, Startings
  <2>3. \A d \in Owners : call'[d].running => stage'[d] \in Startings /\ call'[d].asked = Statics(d)
    <3>1. ASSUME NEW d \in Owners \ {o}, call'[d].running
          PROVE  stage'[d] \in Startings /\ call'[d].asked = Statics(d)
      BY <1>5, <2>1, <3>1 DEF Good, Asked
    <3>2. call'[o].running => stage'[o] \in Startings /\ call'[o].asked = Statics(o)
      BY <1>9, <2>2 DEF Started
    <3> QED
      BY <3>1, <3>2
  <2>4. ASSUME call'[Facade].running
        PROVE  \E r \in issued \ (handles \cup ended) :
                 ~r.static /\ call'[Facade].asked = {r} /\ stage'[r.owner] \in Running
    <3>1. PICK r \in issued \ (handles \cup ended) :
            ~r.static /\ call[Facade].asked = {r} /\ stage[r.owner] \in Running
      BY <2>1, <2>4 DEF Good, Asked
    <3>2. r.owner \in Owners
      BY <1>6 DEF Typed
    <3>3. stage'[r.owner] \in Running
      BY <1>1, <1>5, <3>1, <3>2 DEF Running
    <3> QED
      BY <2>1, <3>1, <3>3
  <2> QED
    BY <1>1, <2>3, <2>4 DEF Asked, Statics
<1> QED
  BY <1>3, <1>4, <1>7, <1>10, <1>11 DEF Good

\* At the end of a transaction of c, its items are those of the requests that match.
LEMMA ReadyItems ==
  ASSUME Typed, CallsGood, NEW c \in Callers, Ready(c)
  PROVE  /\ call[c].prepared \subseteq Item /\ Fresh(call[c])
         /\ \A i, j \in call[c].prepared : i.request = j.request => i = j
         /\ \A i \in call[c].prepared : i.request \in call[c].asked
         /\ \A r \in call[c].asked : r.matching => \E i \in call[c].prepared : i.request = r
<1>1. Fresh(call[c]) /\ Parted(call[c])
  BY DEF CallsGood
<1>2. call[c].prepared \subseteq Item /\ call[c].asked \subseteq Requests
  BY CallFields
<1> QED
  BY <1>1, <1>2, ItemFields DEF Ready, Parted

LEMMA CommitApplyKeeps ==
  ASSUME Typed, Good, NEW o \in Owners, CommitApply(o), ~unrestored'
  PROVE  Good'
<1> DEFINE items == call[o].prepared
<1>1. o \in Callers /\ Ready(o) /\ call[o].running /\ UNCHANGED <<events, handles, issued, ended>> /\ CallIs(o, Idle)
  BY FinishIs, TypedParts DEF CommitApply, Callers, Ready
<1>2. stage[o] \in Startings /\ call[o].asked = Statics(o)
  BY <1>1 DEF Good, Asked
<1>3. /\ items \subseteq Item /\ Fresh(call[o])
      /\ \A i, j \in items : i.request = j.request => i = j
      /\ \A i \in items : i.request \in Statics(o)
      /\ \A r \in Statics(o) : r.matching => \E i \in items : i.request = r
  BY <1>1, <1>2, ReadyItems DEF Good
<1>4. \A r \in Statics(o) : ~Listed(r)
  BY <1>2 DEF Good, Kept, Statics, Startings
<1>5. \A r \in Requests : r.owner \in Owners
  BY RequestFields
<1>6. CallsGood'
  BY <1>1, FinishedGood DEF Good
<1>7. \/ /\ Commit(items, {}, TRUE) /\ stage' = [stage EXCEPT ![o] = "active"]
         /\ pending' = pending \cup {i.request : i \in {j \in items : ~j.resolved}}
      \/ /\ RollBack(items, {}, TRUE) \/ UNCHANGED <<memory, stale>>
         /\ stage' = [stage EXCEPT ![o] = Fails(o)] /\ UNCHANGED pending
  BY DEF CommitApply
<1>8. /\ \A d \in Owners \ {o} : stage'[d] = stage[d]
      /\ stage'[o] \in {"active", "failed", "stopped"}
      /\ stage[o] \in Running => stage'[o] \in Running
  BY <1>2, <1>7 DEF Typed, Fails, Running, Startings
<1>9. Asked'
  <2>1. ~Idle.running
    BY DEF Idle
  <2>2. \A d \in Owners : call'[d].running => d # o /\ call'[d] = call[d]
    BY <1>1, <2>1 DEF CallIs, Callers
  <2>3. call'[Facade] = call[Facade]
    BY <1>1, ConstantsAssumption DEF CallIs, Callers
  <2>4. \A d \in Owners : call'[d].running => stage'[d] \in Startings /\ call'[d].asked = Statics(d)
    BY <1>8, <2>2 DEF Good, Asked
  <2>5. ASSUME call'[Facade].running
        PROVE  \E r \in issued \ (handles \cup ended) :
                 ~r.static /\ call'[Facade].asked = {r} /\ stage'[r.owner] \in Running
    <3>1. PICK r \in issued \ (handles \cup ended) :
            ~r.static /\ call[Facade].asked = {r} /\ stage[r.owner] \in Running
      BY <2>3, <2>5 DEF Good, Asked
    <3>2. r.owner \in Owners
      BY <1>5 DEF Typed
    <3>3. stage'[r.owner] \in Running
      BY <1>8, <3>1, <3>2
    <3> QED
      BY <2>3, <3>1, <3>3
  <2> QED
    BY <1>1, <2>4, <2>5 DEF Asked, Statics
<1>12. /\ \A d \in Owners : stage'[d] # "stuck"
       /\ \A r \in issued : stage'[r.owner] \in Running \cup {"releasing", "gone"}
       /\ \A r \in handles : stage'[r.owner] # "gone"
  <2>1. \A d \in Owners : stage'[d] # "stuck"
    BY <1>8 DEF Good, Kept
  <2>2. \A r \in issued : stage'[r.owner] \in Running \cup {"releasing", "gone"}
    <3> TAKE r \in issued
    <3>1. r.owner \in Owners /\ stage[r.owner] \in Running \cup {"releasing", "gone"}
      BY <1>5 DEF Good, Kept, Typed
    <3>2. r.owner = o => stage[o] \in Running
      BY <1>2, <3>1 DEF Startings
    <3> QED
      BY <1>8, <3>1, <3>2
  <2>3. \A r \in handles : stage'[r.owner] # "gone"
    <3> TAKE r \in handles
    <3>1. r.owner \in Owners /\ stage[r.owner] # "gone"
      BY <1>5 DEF Good, Kept, Typed
    <3> QED
      BY <1>8, <3>1
  <2> QED
    BY <2>1, <2>2, <2>3
<1> HIDE DEF items
<1>10. CASE /\ Commit(items, {}, TRUE) /\ stage' = [stage EXCEPT ![o] = "active"]
            /\ pending' = pending \cup {i.request : i \in {j \in items : ~j.resolved}}
  <2>1. /\ Added(NewRecords(items)) /\ \A i \in items : i.resolved => Committable(i)
    BY <1>3, <1>10, CommitAdds
  <2>2. Targets' /\ Code'
    BY <2>1, AddedKeeps DEF Good
  <2>3. Current'
    BY <1>1, <1>3, <2>1, CurrentCommitted DEF Good, items
  <2>4. Apart' /\ \A r : Listed(r)' <=> Listed(r) \/ \E i \in items : i.request = r
    BY <1>3, <1>4, <1>10, <2>1, ListsNew DEF Good, Kept
  <2>5. stage'[o] = "active"
    BY <1>10 DEF Typed
  <2>6. Kept'
    <3>1. ASSUME NEW r \in Requests, Listed(r)'
          PROVE  IF r.static THEN stage'[r.owner] = "active" ELSE r \in handles' \ ended'
      <4>1. CASE \E i \in items : i.request = r
        BY <1>3, <2>5, <4>1 DEF Statics
      <4>2. CASE Listed(r)
        BY <1>1, <1>5, <1>8, <2>5, <4>2 DEF Good, Kept
      <4> QED
        BY <2>4, <3>1, <4>1, <4>2
    <3>2. ASSUME NEW r \in Requests, r.matching,
                 r \in handles \ ended \/ (r.static /\ stage'[r.owner] = "active")
          PROVE  Listed(r)'
      <4>1. CASE r.owner = o /\ r.static
        <5>1. r \in Statics(o)
          BY <4>1 DEF Statics
        <5> QED
          BY <1>3, <2>4, <3>2, <5>1
      <4>2. CASE ~(r.owner = o /\ r.static)
        BY <1>5, <1>8, <2>4, <3>2, <4>2 DEF Good, Kept
      <4> QED
        BY <4>1, <4>2
    <3> QED
      BY <1>1, <1>12, <2>4, <3>1, <3>2 DEF Good, Kept
  <2> QED
    BY <1>6, <1>9, <2>2, <2>3, <2>6 DEF Good
<1>11. CASE /\ RollBack(items, {}, TRUE) \/ UNCHANGED <<memory, stale>>
            /\ stage' = [stage EXCEPT ![o] = Fails(o)] /\ UNCHANGED pending
  <2>1. Same
    BY <1>11, RollBackSame DEF Same, memory
  <2>2. Targets' /\ Code' /\ Current'
    BY <1>1, <2>1, SameKeeps, CurrentKept DEF Good, Same
  <2>3. Apart' /\ \A r : Listed(r)' <=> Listed(r)
    BY <1>11, <2>1, ListsSame DEF Good, Kept, Same
  <2>4. stage'[o] # "active"
    BY <1>11 DEF Typed, Fails
  <2>5. Kept'
    <3>1. ASSUME NEW r \in Requests, Listed(r)
          PROVE  IF r.static THEN stage'[r.owner] = "active" ELSE r \in handles \ ended
      <4>1. CASE r.static
        <5>1. stage[r.owner] = "active" /\ r.owner \in Owners
          BY <1>5, <3>1, <4>1 DEF Good, Kept
        <5>2. r.owner # o
          BY <1>2, <5>1 DEF Startings
        <5> QED
          BY <1>8, <4>1, <5>1, <5>2
      <4>2. CASE ~r.static
        BY <3>1, <4>2 DEF Good, Kept
      <4> QED
        BY <4>1, <4>2
    <3>2. ASSUME NEW r \in Requests, r.matching,
                 r \in handles \ ended \/ (r.static /\ stage'[r.owner] = "active")
          PROVE  Listed(r)
      BY <1>5, <1>8, <2>4, <3>2 DEF Good, Kept
    <3> QED
      BY <1>1, <1>12, <2>3, <3>1, <3>2 DEF Good, Kept
  <2> QED
    BY <1>6, <1>9, <2>2, <2>5 DEF Good
<1> QED
  BY <1>7, <1>10, <1>11 DEF items

LEMMA RemoveOwnerKeeps ==
  ASSUME Typed, Good, NEW o \in Owners, RemoveOwner(o), ~unrestored'
  PROVE  Good'
<1> DEFINE mine == {r \in pending : r.owner = o}
<1>1. stage[o] = "active" /\ UNCHANGED <<events, handles, issued, call>>
      /\ ended' = ended \cup {r \in handles : r.owner = o}
  BY DEF RemoveOwner, Good, Kept
<1>2. PICK succeeded \in BOOLEAN :
        /\ RestoreOrKeep(RecordsOf(o), RecordsOf(o), succeeded)
        /\ stage' = [stage EXCEPT ![o] = IF ~succeeded THEN "stuck"
                                         ELSE IF stage[o] = "active" THEN "removed" ELSE "stopped"]
  BY DEF RemoveOwner
<1>3. TakenOff(RecordsOf(o)) /\ succeeded
  BY <1>2, RestoreTakesOff DEF Good, RecordsOf
<1>4. stage'[o] = "removed" /\ \A d \in Owners \ {o} : stage'[d] = stage[d]
  BY <1>1, <1>2, <1>3 DEF Typed
<1>5. Targets' /\ Code' /\ Current'
  BY <1>1, <1>3, TakenOffKeeps, CurrentKept DEF Good, TakenOff
<1>6. CallsGood'
  BY <1>1, CallsNext DEF Good
<1>7. Apart' /\ \A r \in Requests : Listed(r)' => Listed(r) /\ r.owner # o
  <2>1. \A r : Has(r)' <=> Has(r) /\ \A p \in RecordsOf(o) : p.request # r
    BY <1>3, HasTakenOff DEF Good
  <2>2. \A r : Has(r)' => r.owner # o
    BY <2>1, HasIs DEF RecordsOf
  <2>3. pending' = {r \in pending : r.owner # o}
    BY DEF RemoveOwner
  <2> QED
    BY <2>1, <2>2, <2>3 DEF Good, Kept, Apart, Listed
<1>8. \A r \in Requests : r.owner # o /\ Listed(r) => Listed(r)'
  <2>1. \A r : Has(r)' <=> Has(r) /\ \A p \in RecordsOf(o) : p.request # r
    BY <1>3, HasTakenOff DEF Good
  <2>2. \A r : r.owner # o /\ Has(r) => Has(r)'
    BY <2>1 DEF RecordsOf
  <2>3. pending' = {r \in pending : r.owner # o}
    BY DEF RemoveOwner
  <2> QED
    BY <2>2, <2>3 DEF Listed
<1>9. Kept'
  <2>1. ASSUME NEW r \in Requests, Listed(r)'
        PROVE  IF r.static THEN stage'[r.owner] = "active" ELSE r \in handles' \ ended'
    <3>1. Listed(r) /\ r.owner \in Owners \ {o}
      BY <1>7, <2>1, RequestFields
    <3> QED
      BY <1>1, <1>4, <3>1 DEF Good, Kept
  <2>2. ASSUME NEW r \in Requests, r.matching,
               r \in handles' \ ended' \/ (r.static /\ stage'[r.owner] = "active")
        PROVE  Listed(r)'
    <3>1. r.owner # o /\ r.owner \in Owners
      BY <1>1, <1>4, <2>2, RequestFields
    <3> QED
      BY <1>1, <1>4, <1>8, <2>2, <3>1 DEF Good, Kept
  <2>3. \A r \in issued : /\ stage'[r.owner] \in Running \cup {"releasing", "gone"}
                          /\ stage[r.owner] # "gone" => stage'[r.owner] # "gone"
    <3> TAKE r \in issued
    <3>1. r.owner \in Owners /\ stage[r.owner] \in Running \cup {"releasing", "gone"}
      BY RequestFields DEF Good, Kept, Typed
    <3> QED
      BY <1>4, <3>1 DEF Running
  <2>4. \A d \in Owners : stage'[d] # "stuck"
    BY <1>4 DEF Good, Kept
  <2>5. \A r \in handles : stage'[r.owner] # "gone"
    BY <2>3 DEF Good, Kept
  <2>6. handles' \subseteq issued' /\ ended' \subseteq issued' /\ \A r \in handles' \cup ended' : ~r.static
    BY <1>1 DEF Good, Kept
  <2> QED
    BY <1>1, <1>7, <2>1, <2>2, <2>3, <2>4, <2>5, <2>6 DEF Kept
<1>10. Asked'
  <2>1. ASSUME NEW d \in Owners, call'[d].running
        PROVE  stage'[d] \in Startings /\ call'[d].asked = Statics(d)
    <3>1. stage[d] \in Startings /\ call[d].asked = Statics(d)
      BY <1>1, <2>1 DEF Good, Asked
    <3> QED
      BY <1>1, <1>4, <3>1 DEF Startings
  <2>2. ASSUME call'[Facade].running
        PROVE  \E r \in issued \ (handles \cup ended') :
                 ~r.static /\ call[Facade].asked = {r} /\ stage'[r.owner] \in Running
    <3>1. PICK r \in issued \ (handles \cup ended) :
            ~r.static /\ call[Facade].asked = {r} /\ stage[r.owner] \in Running
      BY <1>1, <2>2 DEF Good, Asked
    <3>2. r.owner \in Owners /\ r \notin ended'
      BY <1>1, <3>1, RequestFields DEF Typed
    <3>3. stage'[r.owner] \in Running
      BY <1>4, <3>1, <3>2 DEF Running
    <3> QED
      BY <3>1, <3>2, <3>3
  <2> QED
    BY <1>1, <2>1, <2>2 DEF Asked, Statics
<1> QED
  BY <1>5, <1>6, <1>9, <1>10 DEF Good

\* The releases of an owner's handles, before and after them.
LEMMA ReleaseKeeps ==
  ASSUME Typed, Good, NEW o \in Owners, ReleaseOwner(o) \/ Released(o)
  PROVE  Good'
<1>1. /\ UNCHANGED <<memory, events, allocated, pending, handles, issued, ended, call, stale>>
      /\ \/ /\ stage[o] \in {"removed", "failed", "stopped"} /\ FacadeFree
            /\ stage' = [stage EXCEPT ![o] = "releasing"]
         \/ /\ stage[o] = "releasing" /\ \A r \in handles : r.owner # o
            /\ stage' = [stage EXCEPT ![o] = "gone"]
  BY DEF ReleaseOwner, Released
<1>2. /\ stage'[o] \in {"releasing", "gone"} /\ \A d \in Owners \ {o} : stage'[d] = stage[d]
      /\ stage'[o] = "gone" => \A r \in handles : r.owner # o
  BY <1>1 DEF Typed
<1>3. Targets' /\ Code' /\ Current'
  BY <1>1, SameKeeps, CurrentKept DEF Good, Same, memory
<1>4. CallsGood'
  BY <1>1, CallsNext DEF Good
<1>5. Apart' /\ \A r : Listed(r)' <=> Listed(r)
  BY <1>1, ListsSame DEF Good, Kept, memory
<1>6. \A r \in Requests : r.owner \in Owners
  BY RequestFields
<1>7. stage[o] # "active" /\ stage[o] \notin Startings
  BY <1>1 DEF Startings
<1>8. Kept'
  <2>1. \A r \in Requests : Listed(r) => IF r.static THEN stage'[r.owner] = "active" ELSE r \in handles \ ended
    BY <1>2, <1>6, <1>7 DEF Good, Kept
  <2>2. \A r \in issued : stage'[r.owner] \in Running \cup {"releasing", "gone"}
    BY <1>2, <1>6 DEF Good, Kept, Typed
  <2>3. \A r \in handles : stage'[r.owner] # "gone"
    BY <1>2, <1>6 DEF Good, Kept, Typed
  <2>4. ASSUME NEW r \in Requests, r.matching,
               r \in handles \ ended \/ (r.static /\ stage'[r.owner] = "active")
        PROVE  Listed(r)
    BY <1>2, <1>6, <2>4 DEF Good, Kept
  <2>5. \A d \in Owners : stage'[d] # "stuck"
    BY <1>2 DEF Good, Kept
  <2> QED
    BY <1>1, <1>5, <2>1, <2>2, <2>3, <2>4, <2>5 DEF Good, Kept
<1>9. Asked'
  <2>1. \A d \in Owners : call'[d].running => stage'[d] \in Startings /\ call'[d].asked = Statics(d)
    BY <1>1, <1>2, <1>7 DEF Good, Asked
  <2>2. ASSUME call'[Facade].running
        PROVE  \E r \in issued \ (handles \cup ended) :
                 ~r.static /\ call[Facade].asked = {r} /\ stage'[r.owner] \in Running
    <3>1. PICK r \in issued \ (handles \cup ended) :
            ~r.static /\ call[Facade].asked = {r} /\ stage[r.owner] \in Running
      BY <1>1, <2>2 DEF Good, Asked
    <3>2. stage[o] = "releasing"
      BY <1>1, <2>2 DEF FacadeFree
    <3>3. r.owner \in Owners \ {o}
      BY <3>1, <3>2, RequestFields DEF Typed, Running
    <3> QED
      BY <1>2, <3>1, <3>3
  <2> QED
    BY <1>1, <2>1, <2>2 DEF Asked, Statics
<1> QED
  BY <1>3, <1>4, <1>8, <1>9 DEF Good

\* A request with a handle leaves the ledger with its handle.
LEMMA RemovedKeeps ==
  ASSUME Typed, Good, NEW r \in handles, Remove(r), ~unrestored', handles' = handles \ {r},
         UNCHANGED <<events, issued, ended, stage, call>>
  PROVE  Good'
<1>1. TakenOff(RecordsFor(r)) /\ pending' = pending \ {r}
  BY RemoveTakesOff DEF Good
<1>2. Targets' /\ Code' /\ Current'
  BY <1>1, TakenOffKeeps, CurrentKept DEF Good, TakenOff
<1>3. CallsGood' /\ Asked'
  BY CallsNext, AskedKept DEF Good
<1>4. Apart' /\ \A s : Listed(s)' <=> Listed(s) /\ s \notin {r}
  <2>1. \A p \in RecordsFor(r) : p.request \in {r}
    BY DEF RecordsFor
  <2>2. \A p \in patches \ RecordsFor(r) : p.request \notin {r}
    BY DEF RecordsFor
  <2> QED
    BY <1>1, <2>1, <2>2, ListsTakenOff DEF Good, Kept
<1>5. ~r.static
  BY DEF Good, Kept
<1>6. Kept'
  BY <1>4, <1>5 DEF Good, Kept
<1> QED
  BY <1>2, <1>3, <1>6 DEF Good

LEMMA RemovePatchKeeps ==
  ASSUME Typed, Good, NEW r \in Requests, RemovePatch(r), ~unrestored'
  PROVE  Good'
<1>1. /\ r \in handles /\ Remove(r) /\ UNCHANGED <<events, issued, ended, stage, call>>
      /\ handles' = IF {p \in patches' : p.request = r} # {} THEN handles ELSE handles \ {r}
  BY DEF RemovePatch
<1>2. {p \in patches' : p.request = r} = {}
  BY <1>1, RemoveTakesOff DEF Good, TakenOff, RecordsFor
<1> QED
  BY <1>1, <1>2, RemovedKeeps

LEMMA ReleaseNextKeeps ==
  ASSUME Typed, Good, NEW o \in Owners, ReleaseNext(o), ~unrestored'
  PROVE  Good'
  BY RemovedKeeps DEF ReleaseNext

LEMMA AddPatchKeeps ==
  ASSUME Typed, Good, NEW r \in Requests, AddPatch(r)
  PROVE  Good'
<1>1. /\ ~r.static /\ r \notin issued /\ stage[r.owner] \in Running
      /\ issued' = issued \cup {r}
      /\ UNCHANGED <<memory, events, allocated, pending, handles, ended, stage, stale>>
  BY RequestFields DEF AddPatch, Runs, Running, Good, Kept
<1>2. Started(Facade, {r})
  BY TypedParts, BeginIs DEF AddPatch, Callers
<1>3. Targets' /\ Code' /\ Current'
  BY <1>1, SameKeeps, CurrentKept DEF Good, Same, memory
<1>4. CallsGood'
  BY <1>1, <1>2, StartedGood DEF Good, Callers
<1>5. Apart' /\ \A s : Listed(s)' <=> Listed(s)
  BY <1>1, ListsSame DEF Good, Kept, memory
<1>6. Kept'
  BY <1>1, <1>5 DEF Good, Kept
<1>7. Asked'
  <2>1. \A d \in Owners : call'[d] = call[d]
    BY <1>2, ConstantsAssumption DEF Started, Callers
  <2>2. r \in issued' \ (handles' \cup ended') /\ call'[Facade].asked = {r}
    BY <1>1, <1>2 DEF Good, Kept, Started
  <2> QED
    BY <1>1, <2>1, <2>2 DEF Good, Asked, Statics
<1> QED
  BY <1>3, <1>4, <1>6, <1>7 DEF Good

LEMMA CommitAddKeeps ==
  ASSUME Typed, Good, CommitAdd, ~unrestored'
  PROVE  Good'
<1> DEFINE items == call[Facade].prepared
<1>1. Facade \in Callers /\ Ready(Facade) /\ call[Facade].running
      /\ UNCHANGED <<events, issued, ended, stage>> /\ CallIs(Facade, Idle)
  BY FinishIs, TypedParts DEF CommitAdd, Callers, Ready
<1>2. PICK r \in issued \ (handles \cup ended) :
        ~r.static /\ call[Facade].asked = {r} /\ stage[r.owner] \in Running
  BY <1>1 DEF Good, Asked
<1>3. /\ items \subseteq Item /\ Fresh(call[Facade])
      /\ \A i, j \in items : i.request = j.request => i = j
      /\ \A i \in items : i.request = r
      /\ r.matching => \E i \in items : i.request = r
  BY <1>1, <1>2, ReadyItems DEF Good
<1>4. r \in Requests /\ ~Listed(r)
  BY <1>2 DEF Good, Kept, Typed
<1>5. CallsGood'
  BY <1>1, FinishedGood DEF Good
<1>6. Asked'
  <2>1. ~Idle.running
    BY DEF Idle
  <2>2. ~call'[Facade].running /\ \A d \in Owners : call'[d] = call[d]
    BY <1>1, <2>1, ConstantsAssumption DEF CallIs, Callers
  <2> QED
    BY <1>1, <2>2 DEF Good, Asked, Statics
<1>7. \/ /\ Commit(items, {}, TRUE) /\ handles' = handles \cup {r}
         /\ pending' = pending \cup {i.request : i \in {j \in items : ~j.resolved}}
      \/ RollBack(items, {}, TRUE) /\ UNCHANGED <<pending, handles>>
  BY <1>2 DEF CommitAdd
<1> HIDE DEF items
<1>8. CASE /\ Commit(items, {}, TRUE) /\ handles' = handles \cup {r}
           /\ pending' = pending \cup {i.request : i \in {j \in items : ~j.resolved}}
  <2>1. /\ Added(NewRecords(items)) /\ \A i \in items : i.resolved => Committable(i)
    BY <1>3, <1>8, CommitAdds
  <2>2. Targets' /\ Code'
    BY <2>1, AddedKeeps DEF Good
  <2>3. Current'
    BY <1>1, <1>3, <2>1, CurrentCommitted DEF Good, items
  <2>4. Apart' /\ \A s : Listed(s)' <=> Listed(s) \/ \E i \in items : i.request = s
    BY <1>3, <1>4, <1>8, <2>1, ListsNew DEF Good, Kept
  <2>5. Kept'
    <3>1. \A s \in Requests : Listed(s)' => Listed(s) \/ s = r
      BY <1>3, <2>4
    <3>2. /\ \A s \in Requests : Listed(s) => Listed(s)'
          /\ r.matching => Listed(r)'
      BY <1>3, <1>4, <2>4
    <3>3. handles' \subseteq issued /\ \A s \in handles' : ~s.static /\ stage[s.owner] # "gone"
      BY <1>2, <1>8 DEF Good, Kept, Running
    <3>4. \A s \in Requests : Listed(s)' =>
            IF s.static THEN stage[s.owner] = "active" ELSE s \in handles' \ ended
      BY <1>2, <1>8, <3>1 DEF Good, Kept
    <3>5. \A s \in Requests :
            s.matching /\ (s \in handles' \ ended \/ (s.static /\ stage[s.owner] = "active")) => Listed(s)'
      BY <1>8, <3>2 DEF Good, Kept
    <3> QED
      BY <1>1, <2>4, <3>3, <3>4, <3>5 DEF Good, Kept
  <2> QED
    BY <1>5, <1>6, <2>2, <2>3, <2>5 DEF Good
<1>9. CASE RollBack(items, {}, TRUE) /\ UNCHANGED <<pending, handles>>
  <2>1. Same
    BY <1>9, RollBackSame
  <2>2. Targets' /\ Code' /\ Current' /\ Kept'
    BY <1>1, <1>9, <2>1, SameKeeps, CurrentKept, KeptSame DEF Good, Same
  <2> QED
    BY <1>5, <1>6, <2>2 DEF Good
<1> QED
  BY <1>7, <1>8, <1>9

LEMMA CommitLoadedKeeps ==
  ASSUME Typed, Good, CommitLoaded, ~unrestored'
  PROVE  Good'
<1>1. Loader \in Callers /\ Ready(Loader) /\ UNCHANGED <<events, handles, issued, ended, stage>> /\ CallIs(Loader, Idle)
  BY FinishIs, TypedParts DEF CommitLoaded, Callers
<1>2. /\ Candidates \subseteq Item /\ Fresh(call[Loader]) /\ Candidates \subseteq call[Loader].prepared
      /\ \A i \in Candidates : i.request \in pending
  BY <1>1, ReadyItems DEF Good, Candidates
<1>3. CallsGood'
  BY <1>1, FinishedGood DEF Good
<1>4. Asked'
  <2>1. \A d \in Owners \cup {Facade} : call'[d] = call[d]
    BY <1>1, ConstantsAssumption DEF CallIs, Callers, Facade, Loader
  <2> QED
    BY <1>1, <2>1, AskedKept DEF Good
<1>5. CASE /\ Commit(Candidates, RemovedCandidates, FALSE)
           /\ pending' = pending \ {i.request : i \in Candidates}
  <2>1. /\ Added(NewRecords(Candidates)) /\ \A i \in Candidates : i.resolved => Committable(i)
        /\ \A i \in Candidates : i.resolved
    BY <1>2, <1>5, CommitAdds, ItemFields
  <2>2. Targets' /\ Code'
    BY <2>1, AddedKeeps DEF Good
  <2>3. Current'
    BY <1>1, <1>2, <2>1, CurrentCommitted DEF Good
  <2>4. Apart' /\ \A r : Listed(r)' <=> Listed(r)
    BY <1>2, <1>5, <2>1, ListsWaiting DEF Good, Kept
  <2>5. Kept'
    BY <1>1, <2>4 DEF Good, Kept
  <2> QED
    BY <1>3, <1>4, <2>2, <2>3, <2>5 DEF Good
<1>6. CASE RollBack(Candidates, RemovedCandidates, FALSE) /\ UNCHANGED pending
  <2>1. Same
    BY <1>6, RollBackSame
  <2>2. Targets' /\ Code' /\ Current' /\ Kept'
    BY <1>1, <1>6, <2>1, SameKeeps, CurrentKept, KeptSame DEF Good, Same
  <2> QED
    BY <1>3, <1>4, <2>2 DEF Good
<1> QED
  BY <1>5, <1>6 DEF CommitLoaded

LEMMA ModuleLoadsKeeps ==
  ASSUME Typed, Good, NEW m \in Modules, ModuleLoads(m)
  PROVE  Good'
<1> DEFINE candidates == {r \in pending : r.named /\ r.module = m}
<1>1. /\ ~Mapped(m) /\ Event(m) /\ (UNCHANGED call \/ Begin(Loader, candidates))
      /\ word' = [a \in Addresses |->
           IF \E r \in Requests : r.address = a /\ r.module = m THEN Program ELSE word[a]]
      /\ UNCHANGED <<claims, patches, unrestored, pending, handles, issued, ended, stage, stale>>
  <2>1. /\ ~Mapped(m) /\ (UNCHANGED call \/ Begin(Loader, candidates))
        /\ word' = [a \in Addresses |->
             IF \E r \in Requests : r.address = a /\ r.module = m THEN Program ELSE word[a]]
        /\ UNCHANGED <<claims, patches, unrestored, pending, handles, issued, ended, stage, stale>>
    BY DEF ModuleLoads
  <2>2. /\ lifetime' = [lifetime EXCEPT ![m] = NextLifetime(m)]
        /\ revision' = [revision EXCEPT ![m] = @ + 1]
    BY DEF ModuleLoads
  <2>3. lifetime'[m] = NextLifetime(m)
    BY <2>2 DEF Typed
  <2> QED
    BY <2>1, <2>2, <2>3 DEF Event
<1>2. \A p \in patches : p.request \in Requests /\ (p.request.named => p.request.module # m)
  BY <1>1, PatchFields DEF Good, Current, Typed
<1>3. Targets'
  BY <1>1 DEF Good, Targets
<1>4. Code'
  <2>1. ASSUME NEW a \in Addresses \ stale, NEW p \in patches, p.request.address = a
        PROVE  p.original = Program /\ (p.request.named => word'[a] = p.request)
    <3>1. p.original = Program /\ (p.request.named => word[a] = p.request)
      BY <2>1 DEF Good, Code
    <3>2. p.request.named => ~\E r \in Requests : r.address = a /\ r.module = m
      BY <1>2, <2>1, ConstantsAssumption
    <3> QED
      BY <1>1, <3>1, <3>2
  <2>2. ASSUME NEW a \in Addresses \ stale, word'[a] # Program
        PROVE  \E p \in patches : p.request.address = a /\ p.request = word'[a]
    <3>1. word'[a] = word[a]
      BY <1>1, <2>2
    <3> QED
      BY <2>2, <3>1 DEF Good, Code
  <2> QED
    BY <1>1, <2>1, <2>2 DEF Code
<1>5. Current'
  <2>1. \A n \in Modules \ {m} : lifetime'[n] = lifetime[n]
    BY <1>1 DEF Event, Typed
  <2> QED
    BY <1>1, <1>2, <2>1, RequestFields DEF Good, Current, Mapped
<1>6. Kept'
  BY <1>1, KeptSame DEF Good
<1>7. UNCHANGED call \/ Started(Loader, candidates)
  <2>1. candidates \in SUBSET Requests /\ Loader \in Callers
    BY DEF Typed, Callers
  <2> QED
    BY <1>1, <2>1, TypedParts, BeginIs
<1>8. CallsGood'
  <2>1. CASE UNCHANGED call
    BY <1>1, <2>1, CallsNext DEF Good
  <2>2. CASE Started(Loader, candidates)
    BY <1>1, <2>2, StartedGood DEF Good, Callers, Typed
  <2> QED
    BY <1>7, <2>1, <2>2
<1>9. Asked'
  <2>1. \A d \in Owners \cup {Facade} : call'[d] = call[d]
    BY <1>7, ConstantsAssumption DEF Started, Callers, Facade, Loader
  <2> QED
    BY <1>1, <2>1, AskedKept DEF Good
<1> QED
  BY <1>3, <1>4, <1>5, <1>6, <1>8, <1>9 DEF Good

LEMMA ModuleUnloadsKeeps ==
  ASSUME Typed, Good, NEW m \in Modules, ModuleUnloads(m), ~unrestored'
  PROVE  Good'
<1> DEFINE records == {p \in patches : /\ p.request.named /\ p.request.module = m
                                       /\ p.lifetime = lifetime[m]}
<1>1. /\ UNCHANGED <<handles, issued, ended, stage, call>>
      /\ lifetime' = [lifetime EXCEPT ![m] = 0] /\ revision' = [revision EXCEPT ![m] = @ + 1]
  BY DEF ModuleUnloads
<1>2. PICK succeeded \in BOOLEAN :
        /\ RestoreOrKeep(records, records, succeeded)
        /\ pending' = IF succeeded THEN pending \cup {p.request : p \in records} ELSE pending
  BY DEF ModuleUnloads
<1>3. TakenOff(records) /\ pending' = pending \cup {p.request : p \in records}
  BY <1>2, RestoreTakesOff DEF Good
<1>4. \A p \in patches' : p \in patches /\ (p.request.named => p.request.module # m)
  BY <1>3 DEF TakenOff, Good, Current
<1> HIDE DEF records
<1>5. Targets' /\ Code'
  BY <1>3, TakenOffKeeps DEF Good
<1>6. Event(m)
  <2>1. lifetime'[m] = 0
    BY <1>1 DEF Typed
  <2> QED
    BY <1>1, <2>1 DEF Event
<1>7. Current'
  <2>1. \A n \in Modules \ {m} : lifetime'[n] = lifetime[n]
    BY <1>1 DEF Typed
  <2>2. \A p \in patches' : p.request.module \in Modules
    BY <1>4, PatchFields, RequestFields DEF Typed
  <2> QED
    BY <1>4, <2>1, <2>2 DEF Good, Current, Mapped
<1>8. Apart' /\ \A r : Listed(r)' <=> Listed(r)
  BY <1>3, ListsPostponed DEF Good, Kept
<1>9. Kept'
  BY <1>1, <1>8 DEF Good, Kept
<1>10. CallsGood' /\ Asked'
  BY <1>1, <1>6, CallsNext, AskedKept DEF Good
<1> QED
  BY <1>5, <1>7, <1>9, <1>10 DEF Good

-----------------------------------------------------------------------------
\* The invariant

LEMMA RestoreRemembers ==
  ASSUME unrestored, NEW R, NEW drop, NEW succeeded, RestoreOrKeep(R, drop, succeeded)
  PROVE  unrestored'
  BY DEF RestoreOrKeep, Restore

LEMMA CommitRemembers ==
  ASSUME unrestored, NEW items, NEW dropped, NEW allow,
         Commit(items, dropped, allow) \/ RollBack(items, dropped, allow)
  PROVE  unrestored'
  BY DEF Commit, RollBack

\* A restore that failed is never forgotten.
LEMMA Remembered ==
  ASSUME unrestored, Next
  PROVE  unrestored'
<1>1. ASSUME NEW r, Remove(r)
      PROVE  unrestored'
  BY <1>1, RestoreRemembers DEF Remove, memory
<1>2. ASSUME NEW o \in Owners, CommitApply(o)
      PROVE  unrestored'
  BY <1>2, CommitRemembers DEF CommitApply, memory
<1>3. CASE CommitAdd
  BY <1>3, CommitRemembers DEF CommitAdd
<1>4. CASE CommitLoaded
  BY <1>4, CommitRemembers DEF CommitLoaded
<1>5. ASSUME NEW o \in Owners, RemoveOwner(o)
      PROVE  unrestored'
  BY <1>5, RestoreRemembers DEF RemoveOwner
<1>6. ASSUME NEW m \in Modules, ModuleUnloads(m)
      PROVE  unrestored'
  BY <1>6, RestoreRemembers DEF ModuleUnloads
<1>7. ASSUME NEW c \in Callers, ReadRevision(c) \/ PrepareBuild(c)
      PROVE  unrestored'
  BY <1>7 DEF ReadRevision, PrepareBuild, memory
<1>8. ASSUME NEW o \in Owners, Apply(o) \/ ReleaseOwner(o) \/ Released(o)
      PROVE  unrestored'
  BY <1>8 DEF Apply, ReleaseOwner, Released, memory
<1>9. ASSUME NEW r \in Requests, AddPatch(r)
      PROVE  unrestored'
  BY <1>9 DEF AddPatch, memory
<1>10. ASSUME NEW m \in Modules, ModuleLoads(m)
       PROVE  unrestored'
  BY <1>10 DEF ModuleLoads
<1>11. ASSUME NEW o \in Owners, ReleaseNext(o)
       PROVE  unrestored'
  BY <1>1, <1>11 DEF ReleaseNext
<1>12. ASSUME NEW r \in Requests, RemovePatch(r)
       PROVE  unrestored'
  BY <1>1, <1>12 DEF RemovePatch
<1> QED
  BY <1>2, <1>3, <1>4, <1>5, <1>6, <1>7, <1>8, <1>9, <1>10, <1>11, <1>12 DEF Next

LEMMA InitInvariant ==
  Init => IInv
<1> SUFFICES ASSUME Init PROVE IInv
  OBVIOUS
<1>1. 0 \in 0..MaxEvents
  BY ConstantsAssumption
<1>2. Typed
  <2>1. LedgerTyped
    BY DEF Init, LedgerTyped
  <2>2. EventsTyped
    BY <1>1 DEF Init, EventsTyped
  <2>3. PluginsTyped
    BY DEF Init, PluginsTyped, Stages
  <2>4. CallsTyped
    BY IdleTyped DEF Init, CallsTyped
  <2> QED
    BY <2>1, <2>2, <2>3, <2>4, TypedParts
<1>3. Targets /\ Current
  BY DEF Init, Targets, Current
<1>4. Code
  BY DEF Init, Code
<1>5. \A r : ~Listed(r) /\ ~Has(r)
  BY DEF Init, Listed, Has, RecordsFor
<1>6. Kept
  <2>1. \A r \in Requests : stage[r.owner] = "new"
    BY RequestFields DEF Init
  <2> QED
    BY <1>5, <2>1 DEF Init, Kept, Apart
<1>7. Idle.asked = {} /\ Idle.todo = {} /\ Idle.reading = {} /\ Idle.prepared = {} /\ ~Idle.running
  BY DEF Idle
<1>8. \A c \in Callers : call[c] = Idle
  BY DEF Init
<1>9. Asked /\ CallsGood
  BY <1>7, <1>8 DEF Asked, CallsGood, Callers, Fresh, Parted
<1> QED
  BY <1>2, <1>3, <1>4, <1>6, <1>9 DEF IInv, Good

LEMMA NextInvariant ==
  IInv /\ [Next]_vars => IInv'
<1> SUFFICES ASSUME IInv, [Next]_vars PROVE IInv'
  OBVIOUS
<1>1. Typed /\ Typed'
  BY TypedStep DEF IInv
<1>2. ASSUME Next, ~unrestored'
      PROVE  Good'
  <2>1. Good
    BY <1>2, Remembered DEF IInv
  <2>2. ASSUME NEW c \in Callers, ReadRevision(c) \/ PrepareBuild(c)
        PROVE  Good'
    BY <1>1, <2>1, <2>2, ReadKeeps, BuildKeeps
  <2>3. ASSUME NEW o \in Owners, Apply(o) \/ CommitApply(o) \/ RemoveOwner(o)
        PROVE  Good'
    BY <1>1, <1>2, <2>1, <2>3, ApplyKeeps, CommitApplyKeeps, RemoveOwnerKeeps
  <2>4. ASSUME NEW o \in Owners, ReleaseOwner(o) \/ ReleaseNext(o) \/ Released(o)
        PROVE  Good'
    BY <1>1, <1>2, <2>1, <2>4, ReleaseKeeps, ReleaseNextKeeps
  <2>5. ASSUME NEW r \in Requests, AddPatch(r) \/ RemovePatch(r)
        PROVE  Good'
    BY <1>1, <1>2, <2>1, <2>5, AddPatchKeeps, RemovePatchKeeps
  <2>6. CASE CommitAdd \/ CommitLoaded
    BY <1>1, <1>2, <2>1, <2>6, CommitAddKeeps, CommitLoadedKeeps
  <2>7. ASSUME NEW m \in Modules, ModuleLoads(m) \/ ModuleUnloads(m)
        PROVE  Good'
    BY <1>1, <1>2, <2>1, <2>7, ModuleLoadsKeeps, ModuleUnloadsKeeps
  <2> QED
    BY <1>2, <2>2, <2>3, <2>4, <2>5, <2>6, <2>7 DEF Next
<1>3. ASSUME UNCHANGED vars, ~unrestored'
      PROVE  Good'
  <2>1. Good
    BY <1>3 DEF vars, IInv
  <2>2. Targets' /\ Code' /\ Current' /\ Kept'
    BY <1>3, <2>1, SameKeeps, CurrentKept, KeptSame DEF Good, Same, vars, events
  <2>3. CallsGood' /\ Asked'
    BY <1>1, <1>3, <2>1, CallsNext, AskedKept DEF Good, vars, events
  <2> QED
    BY <2>2, <2>3 DEF Good
<1> QED
  BY <1>1, <1>2, <1>3 DEF IInv

LEMMA Invariant ==
  Spec => []IInv
  BY InitInvariant, NextInvariant, PTL DEF Spec

-----------------------------------------------------------------------------
\* Two plugins never layer their branches on one instruction: ApplyRequests and
\* CommitBuild claim a target in the critical section that writes it.
THEOREM TargetsCorrect ==
  Spec => []OnePatchPerTarget
<1>1. IInv => OnePatchPerTarget
  BY DEF IInv, Good, Targets, OnePatchPerTarget
<1> QED
  BY <1>1, Invariant, PTL

\* The title's code is the program's wherever the ledger has no patch, and the
\* patch's branch where it has one of a named function, through every order of
\* starts, ends, facade calls and module events.
THEOREM CodeCorrect ==
  Spec => []TitleCodeExact
<1>1. ASSUME Good, NEW a \in Addresses \ stale, NEW r \in Requests, r.address = a
      PROVE  /\ word[a] = r => RecordsFor(r) # {}
             /\ r.named /\ RecordsFor(r) # {} => word[a] = r
  <2>1. r # Program
    BY RequestFields
  <2>2. word[a] = r => \E p \in patches : p.request = r
    BY <1>1, <2>1 DEF Good, Code
  <2>3. ASSUME r.named, NEW p \in patches, p.request = r
        PROVE  word[a] = r
    BY <1>1, <2>3 DEF Good, Code
  <2> QED
    BY <2>2, <2>3 DEF RecordsFor
<1>2. IInv => TitleCodeExact
  BY <1>1 DEF IInv, TitleCodeExact
<1> QED
  BY <1>2, Invariant, PTL

\* A transaction never commits what it resolved before its module was unloaded:
\* the revision read first is the one that is compared under the mutex.
THEOREM LifetimesCorrect ==
  Spec => []LifetimeCurrent
<1>1. IInv => LifetimeCurrent
  BY DEF IInv, Good, Current, LifetimeCurrent
<1> QED
  BY <1>1, Invariant, PTL

\* No request is lost or doubled by the events of its module or by a restart of
\* its plugin; what an application end removed comes back only as the static
\* requests of the next start; and a plugin that failed to start or is gone leaves
\* nothing behind, whatever its code added while it was being unloaded.
THEOREM RequestsCorrect ==
  Spec => []RequestsKept
<1>1. ASSUME Typed, Good, NEW r \in Requests
      PROVE  /\ r.matching /\ (r \in handles \ ended \/ (r.static /\ stage[r.owner] = "active")) =>
                  /\ (RecordsFor(r) # {}) # (r \in pending)
                  /\ Cardinality(RecordsFor(r)) <= 1
             /\ \/ r \in ended
                \/ r.static /\ stage[r.owner] # "active"
                \/ stage[r.owner] \in {"new", "starting", "failed", "gone"}
                => RecordsFor(r) = {} /\ r \notin pending
  <2>1. ASSUME r.matching, r \in handles \ ended \/ (r.static /\ stage[r.owner] = "active")
        PROVE  (RecordsFor(r) # {}) # (r \in pending)
    <3>1. Listed(r) /\ Apart
      BY <1>1, <2>1 DEF Good, Kept
    <3> QED
      BY <3>1 DEF Listed, Apart, Has
  <2>2. Cardinality(RecordsFor(r)) <= 1
    <3>1. CASE RecordsFor(r) = {}
      BY <3>1, FS_EmptySet
    <3>2. CASE RecordsFor(r) # {}
      <4>1. PICK p \in RecordsFor(r) : TRUE
        BY <3>2
      <4>2. RecordsFor(r) = {p}
        BY <1>1, OneRecord DEF Good
      <4> QED
        BY <4>2, FS_Singleton
    <3> QED
      BY <3>1, <3>2
  <2>3. ASSUME \/ r \in ended
               \/ r.static /\ stage[r.owner] # "active"
               \/ stage[r.owner] \in {"new", "starting", "failed", "gone"}
        PROVE  RecordsFor(r) = {} /\ r \notin pending
    <3>1. ~Listed(r)
      <4>1. ASSUME Listed(r) PROVE FALSE
        <5>1. CASE r.static
          BY <1>1, <2>3, <4>1, <5>1 DEF Good, Kept
        <5>2. CASE ~r.static
          <6>1. r \in handles \ ended /\ r \in issued
            BY <1>1, <4>1, <5>2 DEF Good, Kept
          <6>2. stage[r.owner] \in Running \cup {"releasing", "gone"} /\ stage[r.owner] # "gone"
            BY <1>1, <6>1 DEF Good, Kept
          <6> QED
            BY <2>3, <5>2, <6>1, <6>2 DEF Running
        <5> QED
          BY <5>1, <5>2
      <4> QED
        BY <4>1
    <3> QED
      BY <3>1 DEF Listed, Has
  <2> QED
    BY <2>1, <2>2, <2>3
<1>2. IInv => RequestsKept
  BY <1>1 DEF IInv, RequestsKept
<1> QED
  BY <1>2, Invariant, PTL

-----------------------------------------------------------------------------
\* The code cave

\* A caller that prepares nothing has nothing, and what was not built has no block.
Preparations ==
  /\ \A c \in Callers : ~call[c].running => call[c] = Idle
  /\ \A c \in Callers : \A i \in call[c].prepared :
       (i.built <=> i.trampoline # NoTrampoline) /\ (i.built => i.resolved)

\* A block that a record or an item has is held, and no other one has it.
Blocks ==
  /\ \A p \in patches : p.trampoline \in allocated \cup {NoTrampoline}
  /\ \A c \in Callers : \A i \in call[c].prepared : i.trampoline \in allocated \cup {NoTrampoline}
  /\ \A p, q \in patches : p.trampoline = q.trampoline /\ p.trampoline # NoTrampoline => p = q
  /\ \A p \in patches, c \in Callers : \A i \in call[c].prepared :
       p.trampoline = i.trampoline => p.trampoline = NoTrampoline
  /\ \A c, d \in Callers : \A i \in call[c].prepared, j \in call[d].prepared :
       i.trampoline = j.trampoline /\ i.trampoline # NoTrampoline => c = d /\ i = j

\* Call-through storage has its old value or a block that only a record of the same
\* request, with its storage written, may give back; and the records of a request
\* all saved the old value, as long as it was not patched over a leftover.
Words ==
  /\ \A r \in Requests \ layered :
       /\ storage[r] \in allocated \cup {Old}
       /\ \A c \in Callers : \A i \in call[c].prepared :
            i.trampoline # NoTrampoline => i.trampoline # storage[r]
       /\ \A p \in patches : p.trampoline # NoTrampoline /\ p.trampoline = storage[r] =>
            p.request = r /\ p.callThroughWritten
  /\ \A p \in patches : p.request \notin layered => p.old = Old

CaveInv == Preparations /\ Blocks /\ Words

\* Until a restore fails: every block held has a user, and storage without a record
\* is as the plugin had it.
Counted ==
  /\ layered = {} /\ \A c \in Callers : \A i \in call[c].prepared : i.old = Old
  /\ \A r \in Requests : ~Has(r) => storage[r] = Old
  /\ \A p \in patches : p.trampoline # NoTrampoline /\ p.callThroughWritten
  /\ \A t \in allocated : \/ \E p \in patches : p.trampoline = t
                          \/ \E c \in Callers : \E i \in call[c].prepared : i.trampoline = t

\* What a module event prepares is not in the ledger, nor about to be.
Unrecorded(r) ==
  /\ ~Has(r)
  /\ r.static => \A i \in call[r.owner].prepared : i.request # r
  /\ ~r.static => r \in issued /\ r \notin call[Facade].asked

LoaderNew == \A r \in call[Loader].asked : Unrecorded(r)

Accounted == Counted /\ LoaderNew

-----------------------------------------------------------------------------
\* The four kinds of step, as the code cave sees them

\* Every call is as it was, or ended, or runs.
CallsRun == \A c \in Callers : call'[c] = call[c] \/ call'[c] = Idle \/ call'[c].running

\* No block changes hands.
Quiet ==
  /\ UNCHANGED <<storage, patches, allocated, layered>>
  /\ \A c \in Callers : call'[c].prepared \in {call[c].prepared, {}}

\* The caller c prepares the item i, with a free block or none.
Built(c, i) ==
  /\ UNCHANGED <<storage, patches, layered>>
  /\ call'[c].prepared = call[c].prepared \cup {i}
  /\ \A d \in Callers \ {c} : call'[d] = call[d]
  /\ i.old = storage[i.request] /\ i.request \in Requests
  /\ \E q \in call[c].reading : q.request = i.request
  /\ (i.built <=> i.trampoline # NoTrampoline) /\ (i.built => i.resolved)
  /\ \/ i.trampoline = NoTrampoline /\ allocated' = allocated
     \/ i.trampoline \in Trampolines \ allocated /\ allocated' = allocated \cup {i.trampoline}

\* Of the items of c, those of S and C are written and those of X given back.
Placed(c, S, C, X) ==
  /\ S \subseteq call[c].prepared /\ C \subseteq call[c].prepared
  /\ X \subseteq call[c].prepared \ (S \cup C)
  /\ Write(S, C) /\ allocated' = allocated \ TrampolinesOf(X)
  /\ call'[c].prepared = {} /\ \A d \in Callers \ {c} : call'[d] = call[d]
  /\ \A i \in S \cup C : i.built
  /\ \A i, j \in S \cup C : i.request.address = j.request.address => i = j

\* The records R are restored, but for the targets of T and the storage of C.
Restored(R, T, C) ==
  /\ R \subseteq patches /\ T \subseteq R /\ C \subseteq R
  /\ Restore(R, T, C) /\ UNCHANGED call
  /\ patches' \subseteq (patches \ R) \cup {After(p, T, C) : p \in R}

LEMMA TrampolineOfRecord ==
  ASSUME NEW i, NEW target, NEW callThrough
  PROVE  /\ Record(i, target, callThrough).trampoline = i.trampoline
         /\ Record(i, target, callThrough).old = i.old
         /\ Record(i, target, callThrough).request = i.request
         /\ Record(i, target, callThrough).callThroughWritten = callThrough
  BY DEF Record

LEMMA TrampolineAfter ==
  ASSUME NEW p \in PatchRecord, NEW T, NEW C
  PROVE  /\ After(p, T, C).trampoline = IF p \in T \cup C THEN p.trampoline ELSE NoTrampoline
         /\ After(p, T, C).old = p.old /\ After(p, T, C).request = p.request
         /\ After(p, T, C).callThroughWritten = (p \in C)
<1> DEFINE f == p \in T
           g == p \in C
           t == IF p \in T \cup C THEN p.trampoline ELSE NoTrampoline
<1>1. After(p, T, C) = [p EXCEPT !.targetWritten = f, !.callThroughWritten = g, !.trampoline = t]
  BY DEF After, PatchRecord
<1> HIDE DEF f, g, t
<1>2. /\ After(p, T, C).trampoline = t /\ After(p, T, C).old = p.old
      /\ After(p, T, C).request = p.request /\ After(p, T, C).callThroughWritten = g
  BY <1>1 DEF PatchRecord
<1> QED
  BY <1>2 DEF g, t

\* What Write does to call-through storage, where a request is one item's at most.
LEMMA WriteStorage ==
  ASSUME Typed, NEW S, NEW C, Write(S, C), NEW r \in Requests,
         \A i, j \in C : i.request = j.request => i = j
  PROVE  /\ \A i \in C : i.request = r => storage'[r] = i.trampoline
         /\ (\A i \in C : i.request # r) => storage'[r] = storage[r]
<1>1. storage'[r] = IF \E i \in C : i.request = r
                    THEN (CHOOSE i \in C : i.request = r).trampoline ELSE storage[r]
  BY DEF Write
<1>2. ASSUME NEW i \in C, i.request = r
      PROVE  (CHOOSE j \in C : j.request = r) = i
  BY <1>2
<1> QED
  BY <1>1, <1>2

-----------------------------------------------------------------------------
\* Each kind of step keeps the blocks apart

LEMMA QuietKeeps ==
  ASSUME Quiet, Blocks, Words
  PROVE  Blocks' /\ Words'
<1>1. \A c \in Callers : \A i \in call'[c].prepared : i \in call[c].prepared
  BY DEF Quiet
<1>2. Blocks'
  BY <1>1 DEF Quiet, Blocks
<1>3. Words'
  BY <1>1 DEF Quiet, Words
<1> QED
  BY <1>2, <1>3

LEMMA BuiltKeeps ==
  ASSUME Typed, Blocks, Words, NEW c \in Callers, NEW i, Built(c, i)
  PROVE  Blocks' /\ Words'
<1>1. \A d \in Callers : \A j \in call'[d].prepared : j \in call[d].prepared \/ (d = c /\ j = i)
  BY DEF Built
<1>2. /\ patches' = patches /\ storage' = storage /\ layered' = layered /\ allocated \subseteq allocated'
      /\ i.trampoline # NoTrampoline => i.trampoline \in allocated' /\ i.trampoline \notin allocated
      /\ i.trampoline # NoTrampoline => i.trampoline # Old
  BY ConstantsAssumption DEF Built
<1>3. Blocks'
  BY <1>1, <1>2 DEF Blocks
<1>4. Words'
  BY <1>1, <1>2 DEF Words
<1> QED
  BY <1>3, <1>4

LEMMA PlacedKeeps ==
  ASSUME Typed, Preparations, Blocks, Words, NEW c \in Callers, NEW S, NEW C, NEW X, Placed(c, S, C, X)
  PROVE  Blocks' /\ Words'
<1> DEFINE W == S \cup C
           N == {Record(i, i \in S, i \in C) : i \in W}
<1>1. W \subseteq call[c].prepared /\ X \subseteq call[c].prepared /\ W \cap X = {} /\ C \subseteq W
  BY DEF Placed
<1>2. \A n \in N : \E i \in W : /\ n = Record(i, i \in S, i \in C)
                                /\ n.trampoline = i.trampoline /\ n.old = i.old /\ n.request = i.request
                                /\ n.callThroughWritten = (i \in C)
  BY TrampolineOfRecord
<1>3. patches' = patches \cup N /\ layered \subseteq layered'
      /\ \A i \in W : i.old # Old => i.request \in layered'
  BY DEF Placed, Write
<1>4. \A i \in W : i.trampoline # NoTrampoline
  BY <1>1 DEF Placed, Preparations
<1>5. \A d \in Callers : \A j \in call'[d].prepared : d # c /\ j \in call[d].prepared
  BY DEF Placed
<1>6. \A t \in allocated : t \in allocated' \/ (t # NoTrampoline /\ \E j \in X : j.trampoline = t)
  BY DEF Placed, TrampolinesOf
<1>7. \A i, j \in W : i.request = j.request => i = j
  BY DEF Placed
<1>8. \A i \in W : i.trampoline \in allocated'
  BY <1>1, <1>4, <1>6 DEF Blocks
<1>9. \A n \in N : n.trampoline \in allocated'
  BY <1>2, <1>8
<1>10. \A n, k \in N : n.trampoline = k.trampoline => n = k
  <2> TAKE n, k \in N
  <2>1. PICK i \in W : n = Record(i, i \in S, i \in C) /\ n.trampoline = i.trampoline
    BY <1>2
  <2>2. PICK j \in W : k = Record(j, j \in S, j \in C) /\ k.trampoline = j.trampoline
    BY <1>2
  <2>3. i.trampoline = j.trampoline => i = j
    BY <1>1, <1>4 DEF Blocks
  <2> QED
    BY <2>1, <2>2, <2>3
<1>11. \A n \in N, p \in patches : n.trampoline # p.trampoline
  BY <1>1, <1>2, <1>4 DEF Blocks
<1>12. \A n \in N, d \in Callers : \A j \in call'[d].prepared : n.trampoline # j.trampoline
  BY <1>1, <1>2, <1>4, <1>5 DEF Blocks
<1>13. /\ \A p \in patches : p.trampoline \in allocated' \cup {NoTrampoline}
       /\ \A d \in Callers : \A j \in call'[d].prepared : j.trampoline \in allocated' \cup {NoTrampoline}
  BY <1>1, <1>5, <1>6 DEF Blocks
<1> HIDE DEF N
<1>14. Blocks'
  <2>1. \A p \in patches' : p.trampoline \in allocated' \cup {NoTrampoline}
    BY <1>3, <1>9, <1>13
  <2>2. \A p, q \in patches' : p.trampoline = q.trampoline /\ p.trampoline # NoTrampoline => p = q
    BY <1>3, <1>10, <1>11 DEF Blocks
  <2>3. \A p \in patches', d \in Callers : \A i \in call'[d].prepared :
          p.trampoline = i.trampoline => p.trampoline = NoTrampoline
    BY <1>3, <1>5, <1>12 DEF Blocks
  <2>4. \A d, e \in Callers : \A i \in call'[d].prepared, j \in call'[e].prepared :
          i.trampoline = j.trampoline /\ i.trampoline # NoTrampoline => d = e /\ i = j
    BY <1>5 DEF Blocks
  <2> QED
    BY <1>13, <2>1, <2>2, <2>3, <2>4 DEF Blocks
<1>15. ASSUME NEW r \in Requests \ layered'
       PROVE  /\ storage'[r] \in allocated' \cup {Old}
              /\ \A d \in Callers : \A i \in call'[d].prepared :
                   i.trampoline # NoTrampoline => i.trampoline # storage'[r]
              /\ \A p \in patches' : p.trampoline # NoTrampoline /\ p.trampoline = storage'[r] =>
                   p.request = r /\ p.callThroughWritten
  <2>1. r \in Requests \ layered /\ Write(S, C) /\ \A i, j \in C : i.request = j.request => i = j
    BY <1>1, <1>3, <1>7 DEF Placed
  <2>2. CASE \E i \in C : i.request = r
    <3>1. PICK i \in C : i.request = r
      BY <2>2
    <3>2. storage'[r] = i.trampoline /\ i \in W
      BY <1>1, <2>1, <3>1, WriteStorage
    <3>3. \A d \in Callers : \A j \in call'[d].prepared : j.trampoline # i.trampoline
      BY <1>1, <1>4, <1>5, <3>2 DEF Blocks
    <3>4. \A p \in patches : p.trampoline # i.trampoline
      BY <1>1, <1>4, <3>2 DEF Blocks
    <3>5. \A n \in N : n.trampoline = i.trampoline => n.request = r /\ n.callThroughWritten
      <4> TAKE n \in N
      <4>1. PICK j \in W : n.trampoline = j.trampoline /\ n.request = j.request /\ n.callThroughWritten = (j \in C)
        BY <1>2 DEF N
      <4>2. i \in call[c].prepared /\ j \in call[c].prepared /\ i.trampoline # NoTrampoline
        BY <1>1, <1>4, <3>2
      <4>3. \A k, l \in call[c].prepared : k.trampoline = l.trampoline /\ k.trampoline # NoTrampoline => k = l
        BY DEF Blocks
      <4> QED
        BY <3>1, <4>1, <4>2, <4>3
    <3> QED
      BY <1>3, <1>8, <3>2, <3>3, <3>4, <3>5
  <2>3. CASE \A i \in C : i.request # r
    <3>1. storage'[r] = storage[r]
      BY <2>1, <2>3, WriteStorage
    <3>2. storage[r] \in allocated' \cup {Old}
      BY <1>1, <1>6, <2>1 DEF Words
    <3>3. \A n \in N : n.trampoline # storage[r]
      BY <1>1, <1>2, <1>4, <2>1 DEF Words, N
    <3> QED
      BY <1>3, <1>5, <2>1, <3>1, <3>2, <3>3 DEF Words
  <2> QED
    BY <2>2, <2>3
<1>16. \A p \in patches' : p.request \notin layered' => p.old = Old
  BY <1>2, <1>3 DEF Words, N
<1> QED
  BY <1>14, <1>15, <1>16 DEF Words

LEMMA RestoredKeeps ==
  ASSUME Typed, Blocks, Words, NEW R, NEW T, NEW C, Restored(R, T, C)
  PROVE  Blocks' /\ Words'
<1> DEFINE N == {After(p, T, C) : p \in R}
<1>1. R \subseteq patches /\ R \subseteq PatchRecord /\ patches' \subseteq (patches \ R) \cup N
  BY DEF Restored, Typed
<1>2. \A n \in N : \E p \in R : /\ n = After(p, T, C) /\ n.old = p.old /\ n.request = p.request
                                /\ n.callThroughWritten = (p \in C)
                                /\ n.trampoline = IF p \in T \cup C THEN p.trampoline ELSE NoTrampoline
  BY <1>1, TrampolineAfter
<1>3. call' = call /\ layered' = layered /\ allocated' = allocated \ TrampolinesOf(R \ (T \cup C))
  BY DEF Restored, Restore
<1>4. \A t \in allocated : \/ t \in allocated'
                           \/ (t # NoTrampoline /\ \E p \in R \ (T \cup C) : p.trampoline = t)
  BY <1>3 DEF TrampolinesOf
<1>5. \A p \in patches \ R : p.trampoline \in allocated' \cup {NoTrampoline}
  BY <1>1, <1>4 DEF Blocks
<1>6. \A n \in N : n.trampoline \in allocated' \cup {NoTrampoline}
  BY <1>1, <1>2, <1>4 DEF Blocks
<1>7. \A d \in Callers : \A j \in call'[d].prepared : j.trampoline \in allocated' \cup {NoTrampoline}
  BY <1>1, <1>3, <1>4 DEF Blocks
<1>8. \A n, k \in N : n.trampoline = k.trampoline /\ n.trampoline # NoTrampoline => n = k
  <2> TAKE n, k \in N
  <2>1. PICK p \in R : n = After(p, T, C) /\ (n.trampoline # NoTrampoline => n.trampoline = p.trampoline)
    BY <1>2
  <2>2. PICK q \in R : k = After(q, T, C) /\ (k.trampoline # NoTrampoline => k.trampoline = q.trampoline)
    BY <1>2
  <2> QED
    BY <1>1, <2>1, <2>2 DEF Blocks
<1>9. \A n \in N, q \in patches \ R : n.trampoline = q.trampoline => n.trampoline = NoTrampoline
  BY <1>1, <1>2 DEF Blocks
<1>10. \A n \in N, d \in Callers : \A j \in call[d].prepared :
         n.trampoline = j.trampoline => n.trampoline = NoTrampoline
  BY <1>1, <1>2 DEF Blocks
<1> HIDE DEF N
<1>11. Blocks'
  <2>1. \A p \in patches' : p.trampoline \in allocated' \cup {NoTrampoline}
    BY <1>1, <1>5, <1>6
  <2>2. \A p, q \in patches' : p.trampoline = q.trampoline /\ p.trampoline # NoTrampoline => p = q
    BY <1>1, <1>8, <1>9 DEF Blocks
  <2>3. \A p \in patches', d \in Callers : \A i \in call'[d].prepared :
          p.trampoline = i.trampoline => p.trampoline = NoTrampoline
    BY <1>1, <1>3, <1>10 DEF Blocks
  <2>4. \A d, e \in Callers : \A i \in call'[d].prepared, j \in call'[e].prepared :
          i.trampoline = j.trampoline /\ i.trampoline # NoTrampoline => d = e /\ i = j
    BY <1>3 DEF Blocks
  <2> QED
    BY <1>7, <2>1, <2>2, <2>3, <2>4 DEF Blocks
<1>12. ASSUME NEW r \in Requests \ layered
       PROVE  \/ storage'[r] = Old
              \/ storage'[r] = storage[r] /\ \A p \in R : p.request = r /\ p.callThroughWritten => p \in C
  <2> DEFINE reset == {p \in R \ C : p.callThroughWritten}
  <2>1. storage'[r] = IF \E p \in reset : p.request = r
                      THEN (CHOOSE p \in reset : p.request = r).old ELSE storage[r]
    BY DEF Restored, Restore
  <2>2. \A p \in reset : p.request = r => p.old = Old
    BY <1>1 DEF Words
  <2> QED
    BY <2>1, <2>2
<1>13. ASSUME NEW r \in Requests \ layered
       PROVE  /\ storage'[r] \in allocated' \cup {Old}
              /\ \A d \in Callers : \A i \in call'[d].prepared :
                   i.trampoline # NoTrampoline => i.trampoline # storage'[r]
              /\ \A p \in patches' : p.trampoline # NoTrampoline /\ p.trampoline = storage'[r] =>
                   p.request = r /\ p.callThroughWritten
  <2>1. CASE storage'[r] = Old
    <3>1. \A p \in patches' : p.trampoline # NoTrampoline => p.trampoline # Old
      BY <1>11, ConstantsAssumption DEF Blocks, Restored, Restore, Typed
    <3>2. \A d \in Callers : \A i \in call'[d].prepared : i.trampoline # NoTrampoline => i.trampoline # Old
      BY <1>11, ConstantsAssumption DEF Blocks, Restored, Restore, Typed
    <3> QED
      BY <2>1, <3>1, <3>2
  <2>2. CASE storage'[r] = storage[r] /\ \A p \in R : p.request = r /\ p.callThroughWritten => p \in C
    <3>1. \A p \in R : p.trampoline # NoTrampoline /\ p.trampoline = storage[r] => p \in C
      BY <1>1, <1>13, <2>2 DEF Words
    <3>2. storage[r] \in allocated' \cup {Old}
      BY <1>4, <1>13, <3>1 DEF Words
    <3>3. \A n \in N : n.trampoline # NoTrampoline /\ n.trampoline = storage[r] =>
            n.request = r /\ n.callThroughWritten
      <4> TAKE n \in N
      <4>1. PICK p \in R : /\ n.request = p.request /\ n.callThroughWritten = (p \in C)
                           /\ n.trampoline # NoTrampoline => n.trampoline = p.trampoline
        BY <1>2 DEF N
      <4>2. p.trampoline # NoTrampoline /\ p.trampoline = storage[r] => p.request = r
        BY <1>1, <1>13 DEF Words
      <4> QED
        BY <3>1, <4>1, <4>2
    <3> QED
      BY <1>1, <1>3, <1>13, <2>2, <3>2, <3>3 DEF Words
  <2> QED
    BY <1>12, <1>13, <2>1, <2>2
<1>14. \A p \in patches' : p.request \notin layered => p.old = Old
  BY <1>1, <1>2 DEF Words, N
<1> QED
  BY <1>3, <1>11, <1>13, <1>14 DEF Words

-----------------------------------------------------------------------------
\* Which steps are of which kind

LEMMA IdleIs == Idle.asked = {} /\ Idle.todo = {} /\ Idle.reading = {} /\ Idle.prepared = {} /\ ~Idle.running
  BY DEF Idle

LEMMA CommitPlaces ==
  ASSUME Typed, Preparations, NEW c \in Callers, NEW items, NEW dropped, NEW allow,
         items \cup dropped = call[c].prepared, items \cap dropped = {},
         Commit(items, dropped, allow) \/ RollBack(items, dropped, allow), Finish(c)
  PROVE  \E S, C, X : /\ Placed(c, S, C, X)
                      /\ ~unrestored' => /\ S = C
                                         /\ \A i \in call[c].prepared \ (S \cup X) : i.trampoline = NoTrampoline
<1>1. items \subseteq Item /\ CallIs(c, Idle)
  BY CallFields, TypedParts, FinishIs
<1>2. call'[c].prepared = {} /\ \A d \in Callers \ {c} : call'[d] = call[d]
  BY <1>1, IdleIs DEF CallIs
<1>3. CASE Commit(items, dropped, allow)
  <2> DEFINE S == Written(items)
  <2>1. Write(S, S) /\ allocated' = allocated \ TrampolinesOf(dropped) /\ Applies(items, allow)
    BY <1>3 DEF Commit
  <2>2. S \subseteq items /\ \A i \in items : i \in S <=> i.resolved
    BY DEF Written
  <2>3. \A i \in S : i.built
    BY <2>1, <2>2 DEF Applies, Postponed, Committable
  <2>4. \A i, j \in S : i.request.address = j.request.address => i = j
    BY <2>1 DEF Applies, Distinct, Written
  <2>5. Placed(c, S, S, dropped)
    BY <1>2, <2>1, <2>2, <2>3, <2>4 DEF Placed
  <2>6. \A i \in call[c].prepared \ (S \cup dropped) : i.trampoline = NoTrampoline
    BY <2>2 DEF Preparations
  <2> QED
    BY <2>5, <2>6
<1>4. CASE RollBack(items, dropped, allow)
  <2>1. PICK T \in SUBSET {i \in items : Committable(i)}, C \in SUBSET {i \in items : Committable(i)} :
          /\ Distinct(T \cup C) /\ Write(T, C)
          /\ unrestored' = (unrestored \/ T \cup C # {})
          /\ allocated' = allocated \ TrampolinesOf((items \cup dropped) \ (T \cup C))
    BY <1>4 DEF RollBack
  <2> DEFINE X == (items \cup dropped) \ (T \cup C)
  <2>2. \A i \in T \cup C : i.built /\ i \in items
    BY <2>1 DEF Committable
  <2>3. Placed(c, T, C, X)
    BY <1>2, <2>1, <2>2 DEF Placed, Distinct
  <2>4. ~unrestored' => T = {} /\ C = {} /\ X = call[c].prepared
    BY <2>1
  <2> QED
    BY <2>3, <2>4
<1> QED
  BY <1>3, <1>4

LEMMA RestoreIs ==
  ASSUME NEW R, R \subseteq patches, NEW drop, R \subseteq drop, NEW succeeded,
         RestoreOrKeep(R, drop, succeeded), UNCHANGED call
  PROVE  \E T, C : /\ Restored(R, T, C)
                   /\ ~unrestored' => T = {} /\ C = {} /\ patches' = patches \ drop
<1>1. PICK T \in SUBSET R, C \in SUBSET R :
        /\ Restore(R, T, C)
        /\ succeeded = (T \cup C = {})
        /\ patches' = IF succeeded THEN patches \ drop ELSE (patches \ R) \cup {After(p, T, C) : p \in R}
  BY DEF RestoreOrKeep
<1>2. ~unrestored' => T = {} /\ C = {}
  BY <1>1 DEF Restore
<1>3. patches' \subseteq (patches \ R) \cup {After(p, T, C) : p \in R}
  BY <1>1
<1>4. Restored(R, T, C)
  BY <1>1, <1>3 DEF Restored
<1> QED
  BY <1>1, <1>2, <1>4

LEMMA RemoveIs ==
  ASSUME NEW r, Remove(r), UNCHANGED call
  PROVE  \/ Quiet /\ RecordsFor(r) = {}
         \/ \E p \in RecordsFor(r) : \E T, C :
              /\ Restored({p}, T, C)
              /\ ~unrestored' => T = {} /\ C = {} /\ patches' = patches \ RecordsFor(r)
<1>1. CASE RecordsFor(r) = {}
  BY <1>1 DEF Remove, Quiet, memory
<1>2. CASE RecordsFor(r) # {}
  <2>1. PICK p \in RecordsFor(r), succeeded \in BOOLEAN : RestoreOrKeep({p}, RecordsFor(r), succeeded)
    BY <1>2 DEF Remove
  <2>2. {p} \subseteq patches /\ {p} \subseteq RecordsFor(r)
    BY <2>1 DEF RecordsFor
  <2> QED
    BY <2>1, <2>2, RestoreIs
<1> QED
  BY <1>1, <1>2

LEMMA ReadQuiet ==
  ASSUME Typed, Preparations, NEW c \in Callers, ReadRevision(c)
  PROVE  /\ Quiet /\ CallsRun
         /\ \A d \in Callers : call'[d].prepared = call[d].prepared /\ call'[d].asked = call[d].asked
<1>1. PICK r \in call[c].todo :
        CallIs(c, [call[c] EXCEPT !.todo = @ \ {r},
                     !.reading = {[request |-> r, revision |-> revision[ModuleName(r)]]}])
  BY ReadIs
<1>2. /\ call'[c].prepared = call[c].prepared /\ call'[c].asked = call[c].asked
      /\ call'[c].running = call[c].running /\ \A d \in Callers \ {c} : call'[d] = call[d]
  BY <1>1, CallFields DEF CallIs, CallRecord
<1>3. call[c].running
  BY <1>1, IdleIs, CallFields DEF Preparations
<1>4. UNCHANGED <<storage, patches, allocated, layered>>
  BY DEF ReadRevision, memory
<1> QED
  BY <1>2, <1>3, <1>4 DEF Quiet, CallsRun

LEMMA BuildBuilt ==
  ASSUME Typed, Preparations, NEW c \in Callers, PrepareBuild(c)
  PROVE  CallsRun /\ call'[c].asked = call[c].asked /\ \E i : Built(c, i)
<1>1. PICK q \in call[c].reading :
        \/ /\ Prepared(c, Result(q, FALSE, FALSE, NoTrampoline)) /\ UNCHANGED allocated
        \/ /\ Prepared(c, Result(q, TRUE, FALSE, NoTrampoline)) /\ UNCHANGED allocated
        \/ \E t \in Trampolines \ allocated :
             /\ Prepared(c, Result(q, TRUE, TRUE, t)) /\ allocated' = allocated \cup {t}
  BY DEF PrepareBuild
<1>2. q.request \in Requests /\ call[c] \in CallRecord
  BY CallFields
<1>3. call[c].running
  BY IdleIs DEF Preparations
<1>4. UNCHANGED <<storage, patches, layered>>
  BY DEF PrepareBuild, memory
<1>5. ASSUME NEW i, Prepared(c, i)
      PROVE  /\ call'[c].prepared = call[c].prepared \cup {i} /\ call'[c].asked = call[c].asked
             /\ call'[c].running /\ \A d \in Callers \ {c} : call'[d] = call[d]
  <2> DEFINE k == [call[c] EXCEPT !.reading = {}, !.prepared = @ \cup {i}]
  <2>1. call \in [Callers -> CallRecord]
    BY DEF Typed
  <2>2. call' = [call EXCEPT ![c] = k]
    BY <1>2, <1>5, <2>1 DEF Prepared, CallRecord
  <2>3. /\ k.prepared = call[c].prepared \cup {i} /\ k.asked = call[c].asked
        /\ k.running = call[c].running
    BY <1>2 DEF CallRecord
  <2> HIDE DEF k
  <2> QED
    BY <1>3, <2>1, <2>2, <2>3
<1>7. CASE Prepared(c, Result(q, FALSE, FALSE, NoTrampoline)) /\ UNCHANGED allocated
  <2> DEFINE i == Result(q, FALSE, FALSE, NoTrampoline)
  <2>1. i.old = storage[i.request] /\ i.request = q.request /\ i.trampoline = NoTrampoline /\ i.built = FALSE
    BY DEF Result
  <2> HIDE DEF i
  <2>2. Built(c, i)
    BY <1>2, <1>4, <1>5, <1>7, <2>1 DEF Built, i
  <2> QED
    BY <1>5, <1>7, <2>2 DEF CallsRun
<1>8. CASE Prepared(c, Result(q, TRUE, FALSE, NoTrampoline)) /\ UNCHANGED allocated
  <2> DEFINE i == Result(q, TRUE, FALSE, NoTrampoline)
  <2>1. i.old = storage[i.request] /\ i.request = q.request /\ i.trampoline = NoTrampoline /\ i.built = FALSE
    BY DEF Result
  <2> HIDE DEF i
  <2>2. Built(c, i)
    BY <1>2, <1>4, <1>5, <1>8, <2>1 DEF Built, i
  <2> QED
    BY <1>5, <1>8, <2>2 DEF CallsRun
<1>9. ASSUME NEW t \in Trampolines \ allocated,
             Prepared(c, Result(q, TRUE, TRUE, t)), allocated' = allocated \cup {t}
      PROVE  CallsRun /\ call'[c].asked = call[c].asked /\ \E i : Built(c, i)
  <2> DEFINE i == Result(q, TRUE, TRUE, t)
  <2>1. /\ i.old = storage[i.request] /\ i.request = q.request /\ i.trampoline = t
        /\ i.built = TRUE /\ i.resolved = TRUE
    BY DEF Result
  <2>2. t # NoTrampoline
    BY <1>9, ConstantsAssumption
  <2> HIDE DEF i
  <2>3. Built(c, i)
    BY <1>2, <1>4, <1>5, <1>9, <2>1, <2>2 DEF Built, i
  <2> QED
    BY <1>5, <1>9, <2>3 DEF CallsRun
<1> QED
  BY <1>1, <1>7, <1>8, <1>9

LEMMA BeginQuiet ==
  ASSUME Typed, NEW c \in Callers, NEW requests \in SUBSET Requests, Begin(c, requests),
         UNCHANGED <<storage, patches, allocated, layered>>
  PROVE  Quiet /\ CallsRun /\ Started(c, requests)
<1>1. Started(c, requests)
  BY BeginIs, TypedParts
<1> QED
  BY <1>1 DEF Quiet, CallsRun, Started

\* Every step is of one of the four kinds.
Kinds ==
  \/ Quiet
  \/ \E c \in Callers : \E i : Built(c, i)
  \/ \E c \in Callers : \E S, C, X : Placed(c, S, C, X)
  \/ \E R, T, C : Restored(R, T, C)

\* A start that is refused gives back what it had.
LEMMA RefusalPlaces ==
  ASSUME Typed, NEW c \in Callers, UNCHANGED <<memory, stale, layered>>,
         allocated' = allocated \ TrampolinesOf(call[c].prepared), Finish(c)
  PROVE  Placed(c, {}, {}, call[c].prepared)
<1>1. CallIs(c, Idle)
  BY FinishIs, TypedParts
<1>2. call'[c].prepared = {} /\ \A d \in Callers \ {c} : call'[d] = call[d]
  BY <1>1, IdleIs DEF CallIs
<1>3. /\ word = [a \in Addresses |-> word[a]] /\ storage = [r \in Requests |-> storage[r]]
      /\ claims = [a \in Addresses |-> claims[a]]
  BY DEF Typed, LedgerTyped
<1>4. Write({}, {})
  BY <1>3 DEF Write, memory
<1> QED
  BY <1>2, <1>4 DEF Placed

LEMMA StepKinds ==
  ASSUME Typed, Preparations, Next
  PROVE  CallsRun /\ Kinds
<1>1. ASSUME NEW c \in Callers, ReadRevision(c)
      PROVE  CallsRun /\ Kinds
  BY <1>1, ReadQuiet DEF Kinds
<1>2. ASSUME NEW c \in Callers, PrepareBuild(c)
      PROVE  CallsRun /\ Kinds
  BY <1>2, BuildBuilt DEF Kinds
<1>3. ASSUME NEW c \in Callers, NEW items, NEW dropped, NEW allow, items \cup dropped = call[c].prepared,
             items \cap dropped = {}, Commit(items, dropped, allow) \/ RollBack(items, dropped, allow), Finish(c)
      PROVE  CallsRun /\ Kinds
  <2>1. CallIs(c, Idle)
    BY <1>3, FinishIs, TypedParts
  <2>2. \E S, C, X : Placed(c, S, C, X)
    BY <1>3, CommitPlaces
  <2> QED
    BY <2>1, <2>2 DEF CallsRun, CallIs, Kinds
<1>4. \A o \in Owners : o \in Callers
  BY DEF Callers
<1>5. Facade \in Callers /\ Loader \in Callers
  BY DEF Callers
<1>6. ASSUME NEW o \in Owners, Apply(o)
      PROVE  CallsRun /\ Kinds
  <2>1. UNCHANGED <<storage, patches, allocated, layered>> /\ (UNCHANGED call \/ Begin(o, Statics(o)))
    BY <1>6 DEF Apply, memory, Statics
  <2>2. Statics(o) \in SUBSET Requests
    BY DEF Statics
  <2> QED
    BY <1>4, <2>1, <2>2, BeginQuiet DEF Quiet, CallsRun, Kinds
<1>7. ASSUME NEW o \in Owners, CommitApply(o)
      PROVE  CallsRun /\ Kinds
  <2>1. /\ Finish(o)
        /\ \/ Commit(call[o].prepared, {}, TRUE) \/ RollBack(call[o].prepared, {}, TRUE)
           \/ /\ UNCHANGED <<memory, stale, layered>>
              /\ allocated' = allocated \ TrampolinesOf(call[o].prepared)
    BY <1>7 DEF CommitApply
  <2>2. call[o].prepared \cup {} = call[o].prepared /\ call[o].prepared \cap {} = {}
    OBVIOUS
  <2>3. CASE Commit(call[o].prepared, {}, TRUE) \/ RollBack(call[o].prepared, {}, TRUE)
    BY <1>3, <1>4, <2>1, <2>2, <2>3
  <2>4. CASE /\ UNCHANGED <<memory, stale, layered>>
             /\ allocated' = allocated \ TrampolinesOf(call[o].prepared)
    <3>1. CallIs(o, Idle) /\ Placed(o, {}, {}, call[o].prepared)
      BY <1>4, <2>1, <2>4, RefusalPlaces, FinishIs, TypedParts
    <3> QED
      BY <1>4, <3>1 DEF CallsRun, CallIs, Kinds
  <2> QED
    BY <2>1, <2>3, <2>4
<1>8. CASE CommitAdd
  <2>1. Finish(Facade) /\ (Commit(call[Facade].prepared, {}, TRUE) \/ RollBack(call[Facade].prepared, {}, TRUE))
    BY <1>8 DEF CommitAdd
  <2>2. call[Facade].prepared \cup {} = call[Facade].prepared /\ call[Facade].prepared \cap {} = {}
    OBVIOUS
  <2> QED
    BY <1>3, <1>5, <2>1, <2>2
<1>9. CASE CommitLoaded
  <2>1. Finish(Loader) /\ (Commit(Candidates, RemovedCandidates, FALSE) \/ RollBack(Candidates, RemovedCandidates, FALSE))
    BY <1>9 DEF CommitLoaded
  <2>2. Candidates \cup RemovedCandidates = call[Loader].prepared /\ Candidates \cap RemovedCandidates = {}
    BY DEF Candidates, RemovedCandidates
  <2> QED
    BY <1>3, <1>5, <2>1, <2>2
<1>10. ASSUME UNCHANGED call
       PROVE  CallsRun
  BY <1>10 DEF CallsRun
<1>11. ASSUME NEW o \in Owners, RemoveOwner(o)
       PROVE  CallsRun /\ Kinds
  <2>1. PICK succeeded \in BOOLEAN : RestoreOrKeep(RecordsOf(o), RecordsOf(o), succeeded)
    BY <1>11 DEF RemoveOwner
  <2>2. RecordsOf(o) \subseteq patches /\ UNCHANGED call
    BY <1>11 DEF RecordsOf, RemoveOwner
  <2> QED
    BY <1>10, <2>1, <2>2, RestoreIs DEF Kinds
<1>12. ASSUME NEW o \in Owners, ReleaseOwner(o) \/ Released(o)
       PROVE  CallsRun /\ Kinds
  BY <1>10, <1>12 DEF ReleaseOwner, Released, memory, Quiet, Kinds
<1>13. ASSUME NEW r, Remove(r), UNCHANGED call
       PROVE  CallsRun /\ Kinds
  BY <1>10, <1>13, RemoveIs DEF Kinds
<1>14. ASSUME NEW o \in Owners, ReleaseNext(o)
       PROVE  CallsRun /\ Kinds
  BY <1>13, <1>14 DEF ReleaseNext
<1>15. ASSUME NEW r \in Requests, RemovePatch(r)
       PROVE  CallsRun /\ Kinds
  BY <1>13, <1>15 DEF RemovePatch
<1>16. ASSUME NEW r \in Requests, AddPatch(r)
       PROVE  CallsRun /\ Kinds
  <2>1. {r} \in SUBSET Requests /\ Begin(Facade, {r}) /\ UNCHANGED <<storage, patches, allocated, layered>>
    BY <1>16 DEF AddPatch, memory
  <2> QED
    BY <1>5, <2>1, BeginQuiet DEF Kinds
<1>17. ASSUME NEW m \in Modules, ModuleLoads(m)
       PROVE  CallsRun /\ Kinds
  <2> DEFINE candidates == {r \in pending : r.named /\ r.module = m}
  <2>1. candidates \in SUBSET Requests
    BY DEF Typed
  <2>2. UNCHANGED <<storage, patches, allocated, layered>> /\ (UNCHANGED call \/ Begin(Loader, candidates))
    BY <1>17 DEF ModuleLoads
  <2> QED
    BY <1>5, <2>1, <2>2, BeginQuiet DEF Quiet, CallsRun, Kinds
<1>18. ASSUME NEW m \in Modules, ModuleUnloads(m)
       PROVE  CallsRun /\ Kinds
  <2> DEFINE records == {p \in patches : /\ p.request.named /\ p.request.module = m
                                         /\ p.lifetime = lifetime[m]}
  <2>1. PICK succeeded \in BOOLEAN : RestoreOrKeep(records, records, succeeded)
    BY <1>18 DEF ModuleUnloads
  <2>2. UNCHANGED call /\ records \subseteq patches
    BY <1>18 DEF ModuleUnloads
  <2> QED
    BY <1>10, <2>1, <2>2, RestoreIs DEF Kinds
<1> QED
  BY <1>1, <1>2, <1>6, <1>7, <1>8, <1>9, <1>11, <1>12, <1>14, <1>15, <1>16, <1>17, <1>18 DEF Next

LEMMA NextCave ==
  ASSUME Typed, CaveInv, [Next]_vars
  PROVE  CaveInv'
<1>1. CASE Next
  <2>1. CallsRun /\ Kinds
    BY <1>1, StepKinds DEF CaveInv
  <2>2. Blocks' /\ Words'
    BY <2>1, QuietKeeps, BuiltKeeps, PlacedKeeps, RestoredKeeps DEF Kinds, CaveInv
  <2>3. \A c \in Callers : ~call'[c].running => call'[c] = Idle
    BY <2>1 DEF CallsRun, CaveInv, Preparations
  <2>4. \A c \in Callers : \A i \in call'[c].prepared :
          (i.built <=> i.trampoline # NoTrampoline) /\ (i.built => i.resolved)
    <3>1. ASSUME Quiet \/ \E d \in Callers : \E S, C, X : Placed(d, S, C, X)
          PROVE  \A c \in Callers : \A i \in call'[c].prepared : i \in call[c].prepared
      BY <3>1 DEF Quiet, Placed
    <3>2. CASE \E R, T, C : Restored(R, T, C)
      BY <3>2 DEF Restored, CaveInv, Preparations
    <3>3. CASE \E d \in Callers : \E i : Built(d, i)
      BY <3>3 DEF Built, CaveInv, Preparations
    <3> QED
      BY <2>1, <3>1, <3>2, <3>3 DEF Kinds, CaveInv, Preparations
  <2> QED
    BY <2>2, <2>3, <2>4 DEF CaveInv, Preparations
<1>2. CASE UNCHANGED vars
  BY <1>2 DEF vars, CaveInv, Preparations, Blocks, Words
<1> QED
  BY <1>1, <1>2

-----------------------------------------------------------------------------
\* Until a restore fails, every block is accounted for

LEMMA QuietCounted ==
  ASSUME Quiet, Counted, \A c \in Callers : call'[c].prepared = call[c].prepared
  PROVE  Counted'
<1>1. \A r : Has(r)' <=> Has(r)
  BY DEF Has, RecordsFor, Quiet
<1> QED
  BY <1>1 DEF Quiet, Counted

LEMMA BuiltCounted ==
  ASSUME Typed, Counted, NEW c \in Callers, NEW i, Built(c, i), ~Has(i.request)
  PROVE  Counted'
<1>1. \A r : Has(r)' <=> Has(r)
  BY DEF Has, RecordsFor, Built
<1>2. i.old = Old
  BY DEF Built, Counted
<1>3. \A d \in Callers : \A j \in call'[d].prepared : j \in call[d].prepared \/ (d = c /\ j = i)
  BY DEF Built
<1>4. \A d \in Callers : call[d].prepared \subseteq call'[d].prepared
  BY DEF Built
<1>5. i \in call'[c].prepared
  BY DEF Built
<1>6. /\ layered' = {} /\ \A d \in Callers : \A j \in call'[d].prepared : j.old = Old
      /\ \A p \in patches' : p.trampoline # NoTrampoline /\ p.callThroughWritten
      /\ \A r \in Requests : ~Has(r)' => storage'[r] = Old
  BY <1>1, <1>2, <1>3 DEF Built, Counted
<1>7. \A t \in allocated' : t \in allocated \/ t = i.trampoline
  BY DEF Built
<1>8. \A t \in allocated' : \/ \E p \in patches' : p.trampoline = t
                            \/ \E d \in Callers : \E j \in call'[d].prepared : j.trampoline = t
  BY <1>4, <1>5, <1>7 DEF Built, Counted
<1> QED
  BY <1>6, <1>8 DEF Counted

LEMMA PlacedCounted ==
  ASSUME Typed, Preparations, Blocks, Counted, NEW c \in Callers, NEW S, NEW X, Placed(c, S, S, X),
         \A i \in call[c].prepared \ (S \cup X) : i.trampoline = NoTrampoline
  PROVE  Counted'
<1> DEFINE N == {Record(i, i \in S, i \in S) : i \in S}
<1>1. S \subseteq call[c].prepared /\ patches' = patches \cup N /\ Write(S, S)
  BY DEF Placed, Write
<1>2. \A n \in N : \E i \in S : n.trampoline = i.trampoline /\ n.request = i.request /\ n.callThroughWritten
  <2> TAKE n \in N
  <2>1. PICK i \in S : n = Record(i, i \in S, i \in S)
    OBVIOUS
  <2>2. n.trampoline = i.trampoline /\ n.request = i.request /\ n.callThroughWritten = (i \in S)
    BY <2>1, TrampolineOfRecord
  <2> QED
    BY <2>2
<1>3. \A i \in S : \E n \in N : n.trampoline = i.trampoline /\ n.request = i.request
  BY TrampolineOfRecord
<1>4. \A d \in Callers : \A j \in call'[d].prepared : d # c /\ j \in call[d].prepared
  BY DEF Placed
<1>5. layered' = {}
  BY <1>1 DEF Write, Counted
<1> HIDE DEF N
<1>6. \A p \in patches' : p.trampoline # NoTrampoline /\ p.callThroughWritten
  BY <1>1, <1>2 DEF Counted, Preparations, Placed
<1>7. ASSUME NEW r \in Requests, ~Has(r)'
      PROVE  storage'[r] = Old
  <2>1. ~Has(r) /\ \A i \in S : i.request # r
    BY <1>1, <1>3, <1>7, HasIs, HasIsNext
  <2>2. storage'[r] = storage[r]
    BY <1>1, <2>1 DEF Write
  <2> QED
    BY <2>1, <2>2 DEF Counted
<1>8. ASSUME NEW t \in allocated'
      PROVE  \/ \E p \in patches' : p.trampoline = t
             \/ \E d \in Callers : \E j \in call'[d].prepared : j.trampoline = t
  <2>1. t \in allocated /\ t \notin TrampolinesOf(X) /\ t # NoTrampoline
    BY <1>8, ConstantsAssumption DEF Placed, Typed
  <2>2. CASE \E p \in patches : p.trampoline = t
    BY <1>1, <2>2
  <2>3. CASE \E d \in Callers \ {c} : \E j \in call[d].prepared : j.trampoline = t
    BY <2>3 DEF Placed
  <2>4. CASE \E j \in call[c].prepared : j.trampoline = t
    <3>1. PICK j \in call[c].prepared : j.trampoline = t
      BY <2>4
    <3>2. j \in S
      BY <2>1, <3>1 DEF TrampolinesOf
    <3> QED
      BY <1>1, <1>3, <3>1, <3>2
  <2> QED
    BY <2>1, <2>2, <2>3, <2>4 DEF Counted
<1> QED
  BY <1>4, <1>5, <1>6, <1>7, <1>8 DEF Counted

LEMMA RestoredCounted ==
  ASSUME Typed, Words, Counted, NEW R, Restored(R, {}, {}), patches' = patches \ R
  PROVE  Counted'
<1>1. R \subseteq patches /\ call' = call /\ layered' = {} /\ allocated' = allocated \ TrampolinesOf(R)
  BY DEF Restored, Restore, Counted
<1>2. \A p \in R : p.trampoline # NoTrampoline /\ p.callThroughWritten /\ p.old = Old
  BY <1>1 DEF Counted, Words
<1>3. ASSUME NEW r \in Requests, ~Has(r)'
      PROVE  storage'[r] = Old
  <2> DEFINE reset == {p \in R \ {} : p.callThroughWritten}
  <2>1. storage'[r] = IF \E p \in reset : p.request = r
                      THEN (CHOOSE p \in reset : p.request = r).old ELSE storage[r]
    BY DEF Restored, Restore
  <2>2. \A p \in reset : p.old = Old
    BY <1>2
  <2>3. (\A p \in reset : p.request # r) => ~Has(r)
    BY <1>2, <1>3, HasIs, HasIsNext
  <2> QED
    BY <2>1, <2>2, <2>3 DEF Counted
<1>4. \A t \in allocated' : t \in allocated /\ \A p \in R : p.trampoline # t
  BY <1>1, <1>2 DEF TrampolinesOf
<1> QED
  BY <1>1, <1>3, <1>4 DEF Counted

\* What a transaction adds to the ledger was asked for.
LEMMA CommitAccounts ==
  ASSUME Typed, CaveInv, CallsGood, Counted, NEW c \in Callers, NEW items, NEW dropped, NEW allow,
         items \cup dropped = call[c].prepared, items \cap dropped = {},
         Commit(items, dropped, allow) \/ RollBack(items, dropped, allow), Finish(c), ~unrestored'
  PROVE  /\ Counted' /\ CallIs(c, Idle)
         /\ \A r : Has(r)' => Has(r) \/ \E i \in call[c].prepared : i.request = r
         /\ \A i \in call[c].prepared : i.request \in call[c].asked
<1>1. PICK S, C, X : /\ Placed(c, S, C, X) /\ S = C
                     /\ \A i \in call[c].prepared \ (S \cup X) : i.trampoline = NoTrampoline
  BY CommitPlaces DEF CaveInv
<1>2. Placed(c, S, S, X)
  BY <1>1
<1>3. Counted'
  BY <1>1, <1>2, PlacedCounted DEF CaveInv
<1>4. CallIs(c, Idle)
  BY FinishIs, TypedParts
<1>5. \A r : Has(r)' => Has(r) \/ \E i \in S : i.request = r
  <2>1. patches' = patches \cup {Record(i, i \in S, i \in S) : i \in S}
    BY <1>2 DEF Placed, Write
  <2>2. \A p \in patches' : p \in patches \/ \E i \in S : p.request = i.request
    BY <2>1, TrampolineOfRecord
  <2> QED
    BY <2>2, HasIs, HasIsNext
<1>6. \A i \in call[c].prepared : i.request \in call[c].asked
  <2>1. \A i \in call[c].prepared : i.request \in Requests
    BY CallFields, ItemFields
  <2>2. Parted(call[c])
    BY DEF CallsGood
  <2> QED
    BY <2>1, <2>2 DEF Parted
<1>7. S \subseteq call[c].prepared
  BY <1>2 DEF Placed
<1> QED
  BY <1>3, <1>4, <1>5, <1>6, <1>7

\* A start that is refused changes nothing in the ledger.
LEMMA RefusalAccounts ==
  ASSUME Typed, CaveInv, CallsGood, Counted, NEW c \in Callers, UNCHANGED <<memory, stale, layered>>,
         allocated' = allocated \ TrampolinesOf(call[c].prepared), Finish(c)
  PROVE  /\ Counted' /\ CallIs(c, Idle)
         /\ \A r : Has(r)' => Has(r) \/ \E i \in call[c].prepared : i.request = r
         /\ \A i \in call[c].prepared : i.request \in call[c].asked
<1>1. Placed(c, {}, {}, call[c].prepared)
  BY RefusalPlaces
<1>2. Counted'
  BY <1>1, PlacedCounted DEF CaveInv
<1>3. CallIs(c, Idle)
  BY FinishIs, TypedParts
<1>4. \A r : Has(r)' => Has(r)
  BY DEF memory, Has, RecordsFor
<1>5. \A i \in call[c].prepared : i.request \in call[c].asked
  <2>1. \A i \in call[c].prepared : i.request \in Requests
    BY CallFields, ItemFields
  <2>2. Parted(call[c])
    BY DEF CallsGood
  <2> QED
    BY <2>1, <2>2 DEF Parted
<1> QED
  BY <1>2, <1>3, <1>4, <1>5

\* What is restored leaves the ledger.
LEMMA RestoreAccounts ==
  ASSUME Typed, CaveInv, Counted, NEW R, R \subseteq patches, NEW succeeded,
         RestoreOrKeep(R, R, succeeded), UNCHANGED call, ~unrestored'
  PROVE  Counted' /\ \A r : Has(r)' => Has(r)
<1>1. Restored(R, {}, {}) /\ patches' = patches \ R
  BY RestoreIs
<1>2. Counted'
  BY <1>1, RestoredCounted DEF CaveInv
<1> QED
  BY <1>1, <1>2, HasIs, HasIsNext

LEMMA RemoveAccounts ==
  ASSUME Typed, CaveInv, Targets, Counted, NEW r, Remove(r), UNCHANGED call, ~unrestored'
  PROVE  Counted' /\ \A s : Has(s)' => Has(s)
<1>1. CASE Quiet
  <2>1. Counted'
    BY <1>1, QuietCounted
  <2> QED
    BY <1>1, <2>1 DEF Quiet, Has, RecordsFor
<1>2. ASSUME NEW p \in RecordsFor(r), Restored({p}, {}, {}), patches' = patches \ RecordsFor(r)
      PROVE  Counted' /\ \A s : Has(s)' => Has(s)
  <2>1. RecordsFor(r) = {p}
    BY <1>2, OneRecord
  <2>2. Counted'
    BY <1>2, <2>1, RestoredCounted DEF CaveInv
  <2> QED
    BY <1>2, <2>2, HasIs, HasIsNext
<1> QED
  BY <1>1, <1>2, RemoveIs

LEMMA LoaderKept ==
  ASSUME Typed, LoaderNew, call'[Loader].asked \subseteq call[Loader].asked,
         \A r \in call[Loader].asked : Has(r)' => Has(r),
         \A r \in call[Loader].asked \cap issued : r \in call'[Facade].asked => r \in call[Facade].asked,
         issued \subseteq issued',
         \A o \in Owners : call'[o].prepared \subseteq call[o].prepared
  PROVE  LoaderNew'
<1>1. \A r \in call[Loader].asked : r.owner \in Owners
  BY CallFields, RequestFields DEF Callers
<1> QED
  BY <1>1 DEF LoaderNew, Unrecorded

\* A request that is being prepared is not in the ledger.
LEMMA AskedNew ==
  ASSUME Typed, Good, Preparations, LoaderNew, NEW c \in Callers, NEW r \in call[c].asked
  PROVE  ~Has(r)
<1>1. call[c].running /\ r \in Requests
  BY IdleIs, CallFields DEF Preparations
<1>2. CASE c = Loader
  BY <1>2 DEF LoaderNew, Unrecorded
<1>3. CASE c \in Owners
  <2>1. stage[c] # "active" /\ r.owner = c /\ r.static
    BY <1>1, <1>3 DEF Good, Asked, Statics, Startings
  <2> QED
    BY <1>1, <2>1 DEF Good, Kept, Listed
<1>4. CASE c = Facade
  <2>1. r \notin handles /\ ~r.static
    BY <1>1, <1>4 DEF Good, Asked
  <2> QED
    BY <1>1, <2>1 DEF Good, Kept, Listed
<1> QED
  BY <1>2, <1>3, <1>4 DEF Callers

LEMMA CallersApart ==
  /\ Facade \in Callers /\ Loader \in Callers /\ Facade # Loader
  /\ \A o \in Owners : o \in Callers /\ o # Facade /\ o # Loader
  BY ConstantsAssumption DEF Callers, Facade, Loader

LEMMA NextAccounted ==
  ASSUME Typed, Good, CaveInv, Accounted, Next, ~unrestored'
  PROVE  Accounted'
<1> USE CallersApart
<1>0. CallsGood /\ Targets /\ Counted /\ LoaderNew /\ Preparations
  BY DEF Good, Accounted, CaveInv
<1>1. ASSUME UNCHANGED <<stage, issued>>, call'[Loader].asked = call[Loader].asked,
             call'[Facade].asked = call[Facade].asked, UNCHANGED patches,
             \A o \in Owners : call'[o].prepared = call[o].prepared
      PROVE  LoaderNew'
  BY <1>0, <1>1, LoaderKept DEF Has, RecordsFor
<1>2. ASSUME UNCHANGED call, issued' = issued, \A r : Has(r)' => Has(r)
      PROVE  LoaderNew'
  BY <1>0, <1>2, LoaderKept
<1>3. ASSUME NEW c \in Callers, ReadRevision(c)
      PROVE  Accounted'
  <2>1. Quiet /\ \A d \in Callers : call'[d].prepared = call[d].prepared /\ call'[d].asked = call[d].asked
    BY <1>0, <1>3, ReadQuiet
  <2>2. UNCHANGED <<stage, issued, patches>>
    BY <1>3 DEF ReadRevision, memory
  <2> QED
    BY <1>0, <1>1, <2>1, <2>2, QuietCounted DEF Accounted
<1>4. ASSUME NEW c \in Callers, PrepareBuild(c)
      PROVE  Accounted'
  <2>1. PICK i : Built(c, i)
    BY <1>0, <1>4, BuildBuilt
  <2>2. call'[c].asked = call[c].asked /\ \A d \in Callers \ {c} : call'[d] = call[d]
    BY <1>0, <1>4, <2>1, BuildBuilt DEF Built
  <2>3. i.request \in call[c].asked
    BY <1>0, <2>1 DEF Built, CallsGood, Parted
  <2>4. UNCHANGED <<stage, issued, patches>>
    BY <1>4 DEF PrepareBuild, memory
  <2>5. ~Has(i.request)
    BY <1>0, <2>3, AskedNew
  <2>6. Counted'
    BY <1>0, <2>1, <2>5, BuiltCounted
  <2>7. CASE c = Loader
    BY <1>1, <2>2, <2>4, <2>6, <2>7 DEF Accounted
  <2>8. CASE c # Loader
    <3>1. ~call[Loader].running
      BY <1>4, <2>8 DEF PrepareBuild, LoaderFree
    <3>2. call'[Loader].asked = {}
      BY <1>0, <2>2, <2>8, <3>1, IdleIs DEF Preparations
    <3> QED
      BY <2>6, <3>2 DEF Accounted, LoaderNew
  <2> QED
    BY <2>7, <2>8
<1>5. ASSUME NEW o \in Owners, Apply(o)
      PROVE  Accounted'
  <2>1. stage[o] \notin Startings /\ UNCHANGED <<storage, patches, allocated, layered, issued>>
    BY <1>5 DEF Apply, memory, Startings
  <2>2. call[o] = Idle
    BY <1>0, <2>1 DEF Good, Asked, Preparations
  <2>3. UNCHANGED call \/ (call'[o].prepared = {} /\ \A d \in Callers \ {o} : call'[d] = call[d])
    <3>1. UNCHANGED call \/ Begin(o, Statics(o))
      BY <1>5 DEF Apply, Statics
    <3>2. Statics(o) \in SUBSET Requests
      BY DEF Statics
    <3> QED
      BY <3>1, <3>2, BeginIs, TypedParts DEF Started
  <2>4. \A d \in Callers : call'[d].prepared = call[d].prepared
    BY <2>2, <2>3, IdleIs
  <2>5. call'[Loader] = call[Loader] /\ call'[Facade] = call[Facade]
    BY <2>3
  <2>6. Counted'
    BY <1>0, <2>1, <2>4, QuietCounted DEF Quiet
  <2>7. LoaderNew'
    BY <1>0, <2>1, <2>4, <2>5, LoaderKept DEF Has, RecordsFor
  <2> QED
    BY <2>6, <2>7 DEF Accounted
<1>6. ASSUME NEW o \in Owners, CommitApply(o)
      PROVE  Accounted'
  <2>1. /\ Finish(o) /\ issued' = issued
        /\ \/ Commit(call[o].prepared, {}, TRUE) \/ RollBack(call[o].prepared, {}, TRUE)
           \/ /\ UNCHANGED <<memory, stale, layered>>
              /\ allocated' = allocated \ TrampolinesOf(call[o].prepared)
    BY <1>6 DEF CommitApply
  <2>2. call[o].prepared \cup {} = call[o].prepared /\ call[o].prepared \cap {} = {}
    OBVIOUS
  <2>3. /\ Counted' /\ CallIs(o, Idle)
        /\ \A r : Has(r)' => Has(r) \/ \E i \in call[o].prepared : i.request = r
        /\ \A i \in call[o].prepared : i.request \in call[o].asked
    <3>1. CASE Commit(call[o].prepared, {}, TRUE) \/ RollBack(call[o].prepared, {}, TRUE)
      BY <1>0, <2>1, <2>2, <3>1, CommitAccounts
    <3>2. CASE /\ UNCHANGED <<memory, stale, layered>>
               /\ allocated' = allocated \ TrampolinesOf(call[o].prepared)
      BY <1>0, <2>1, <3>2, RefusalAccounts
    <3> QED
      BY <2>1, <3>1, <3>2
  <2>4. \A d \in Callers \ {o} : call'[d] = call[d]
    BY <2>3 DEF CallIs
  <2>5. \A d \in Owners : call'[d].prepared \subseteq call[d].prepared
    BY <2>3, <2>4, IdleIs DEF CallIs
  <2>6. call[o].asked = Statics(o)
    BY <1>6 DEF CommitApply, Ready, Good, Asked
  <2>7. ASSUME NEW r \in call[Loader].asked
        PROVE  \A i \in call[o].prepared : i.request # r
    <3>1. CASE r.static /\ r.owner = o
      BY <1>0, <2>7, <3>1 DEF LoaderNew, Unrecorded
    <3>2. CASE ~(r.static /\ r.owner = o)
      BY <2>3, <2>6, <3>2 DEF Statics
    <3> QED
      BY <3>1, <3>2
  <2>8. LoaderNew'
    BY <1>0, <2>1, <2>3, <2>4, <2>5, <2>7, LoaderKept
  <2> QED
    BY <2>3, <2>8 DEF Accounted
<1>7. CASE CommitAdd
  <2>1. Finish(Facade) /\ (Commit(call[Facade].prepared, {}, TRUE) \/ RollBack(call[Facade].prepared, {}, TRUE))
    BY <1>7 DEF CommitAdd
  <2>2. call[Facade].prepared \cup {} = call[Facade].prepared /\ call[Facade].prepared \cap {} = {}
    OBVIOUS
  <2>3. /\ Counted' /\ CallIs(Facade, Idle)
        /\ \A r : Has(r)' => Has(r) \/ r \in call[Facade].asked
    <3>1. /\ Counted' /\ CallIs(Facade, Idle)
          /\ \A r : Has(r)' => Has(r) \/ \E i \in call[Facade].prepared : i.request = r
          /\ \A i \in call[Facade].prepared : i.request \in call[Facade].asked
      BY <1>0, <2>1, <2>2, CommitAccounts
    <3>2. \A r : (\E i \in call[Facade].prepared : i.request = r) => r \in call[Facade].asked
      BY <3>1
    <3> QED
      BY <3>1, <3>2
  <2>4. /\ call'[Loader] = call[Loader] /\ call'[Facade].asked = {}
        /\ \A o \in Owners : call'[o].prepared = call[o].prepared
    BY <2>3, IdleIs DEF CallIs
  <2>5. \A r \in call[Loader].asked : r \notin call[Facade].asked
    <3>1. \A r \in call[Facade].asked : ~r.static
      BY <1>7 DEF CommitAdd, Ready, Good, Asked
    <3> QED
      BY <1>0, <3>1 DEF LoaderNew, Unrecorded
  <2>6. UNCHANGED <<issued, stage>>
    BY <1>7 DEF CommitAdd
  <2>7. LoaderNew'
    BY <1>0, <2>3, <2>4, <2>5, <2>6, LoaderKept
  <2> QED
    BY <2>3, <2>7 DEF Accounted
<1>8. CASE CommitLoaded
  <2>1. Finish(Loader) /\ (Commit(Candidates, RemovedCandidates, FALSE) \/ RollBack(Candidates, RemovedCandidates, FALSE))
    BY <1>8 DEF CommitLoaded
  <2>2. Candidates \cup RemovedCandidates = call[Loader].prepared /\ Candidates \cap RemovedCandidates = {}
    BY DEF Candidates, RemovedCandidates
  <2>3. Counted' /\ CallIs(Loader, Idle)
    BY <1>0, <2>1, <2>2, CommitAccounts
  <2>4. LoaderNew'
    BY <2>3, IdleIs DEF CallIs, LoaderNew
  <2> QED
    BY <2>3, <2>4 DEF Accounted
<1>9. ASSUME NEW o \in Owners, RemoveOwner(o)
      PROVE  Accounted'
  <2>1. PICK succeeded \in BOOLEAN : RestoreOrKeep(RecordsOf(o), RecordsOf(o), succeeded)
    BY <1>9 DEF RemoveOwner
  <2>2. RecordsOf(o) \subseteq patches /\ UNCHANGED <<call, issued>>
    BY <1>9 DEF RecordsOf, RemoveOwner
  <2>3. Counted' /\ \A r : Has(r)' => Has(r)
    BY <1>0, <2>1, <2>2, RestoreAccounts
  <2> QED
    BY <1>2, <2>2, <2>3 DEF Accounted
<1>10. ASSUME NEW o \in Owners, ReleaseOwner(o) \/ Released(o)
       PROVE  Accounted'
  <2>1. UNCHANGED <<storage, patches, allocated, layered, issued, call>>
    BY <1>10 DEF ReleaseOwner, Released, memory
  <2>2. Counted'
    BY <1>0, <2>1, QuietCounted DEF Quiet
  <2>3. \A r : Has(r)' => Has(r)
    BY <2>1 DEF Has, RecordsFor
  <2> QED
    BY <1>2, <2>1, <2>2, <2>3 DEF Accounted
<1>11. ASSUME NEW r, Remove(r), UNCHANGED <<issued, stage, call>>
       PROVE  Accounted'
  BY <1>0, <1>2, <1>11, RemoveAccounts DEF Accounted
<1>12. ASSUME NEW o \in Owners, ReleaseNext(o)
       PROVE  Accounted'
  BY <1>11, <1>12 DEF ReleaseNext
<1>13. ASSUME NEW r \in Requests, RemovePatch(r)
       PROVE  Accounted'
  BY <1>11, <1>13 DEF RemovePatch
<1>14. ASSUME NEW r \in Requests, AddPatch(r)
       PROVE  Accounted'
  <2>1. /\ r \notin issued /\ FacadeFree /\ issued' = issued \cup {r} /\ Begin(Facade, {r})
        /\ UNCHANGED <<storage, patches, allocated, layered, stage>>
    BY <1>14 DEF AddPatch, memory
  <2>2. Started(Facade, {r}) /\ call[Facade] = Idle
    BY <1>0, <2>1, BeginIs, TypedParts DEF FacadeFree, Preparations
  <2>3. /\ call'[Facade].asked = {r} /\ call'[Loader] = call[Loader]
        /\ \A d \in Callers : call'[d].prepared = call[d].prepared
    BY <2>2, IdleIs DEF Started
  <2>4. Counted'
    BY <1>0, <2>1, <2>3, QuietCounted DEF Quiet
  <2>5. LoaderNew'
    BY <1>0, <2>1, <2>3, LoaderKept DEF Has, RecordsFor
  <2> QED
    BY <2>4, <2>5 DEF Accounted
<1>15. ASSUME NEW m \in Modules, ModuleLoads(m)
       PROVE  Accounted'
  <2> DEFINE candidates == {r \in pending : r.named /\ r.module = m}
  <2>1. /\ UNCHANGED <<storage, patches, allocated, layered, issued, stage>> /\ ~call[Loader].running
        /\ UNCHANGED call \/ Begin(Loader, candidates)
    BY <1>15 DEF ModuleLoads
  <2>2. call[Loader] = Idle
    BY <1>0, <2>1 DEF Preparations
  <2>3. CASE UNCHANGED call
    <3>1. Counted'
      BY <1>0, <2>1, <2>3, QuietCounted DEF Quiet
    <3> QED
      BY <1>1, <2>1, <2>3, <3>1 DEF Accounted
  <2>4. CASE Begin(Loader, candidates)
    <3>1. candidates \in SUBSET Requests
      BY DEF Typed
    <3>2. Started(Loader, candidates)
      BY <2>4, <3>1, BeginIs, TypedParts
    <3>3. /\ call'[Loader].asked = candidates /\ call'[Facade] = call[Facade]
          /\ \A d \in Callers : call'[d].prepared = call[d].prepared
      BY <2>2, <3>2, IdleIs DEF Started
    <3>4. Counted'
      BY <1>0, <2>1, <3>3, QuietCounted DEF Quiet
    <3>5. ASSUME NEW r \in candidates
          PROVE  Unrecorded(r)'
      <4>1. r \in Requests /\ r \in pending /\ Listed(r) /\ Kept /\ ~Has(r)
        BY <3>1 DEF Listed, Good, Kept, Apart
      <4>2. r.static => call'[r.owner].prepared = {}
        <5>1. ASSUME r.static PROVE call[r.owner] = Idle
          <6>1. stage[r.owner] \notin Startings /\ r.owner \in Owners
            BY <4>1, <5>1, RequestFields DEF Kept, Startings
          <6> QED
            BY <1>0, <6>1 DEF Good, Asked, Preparations
        <5>2. r.owner \in Owners
          BY <4>1, RequestFields
        <5> QED
          BY <3>3, <5>1, <5>2, IdleIs
      <4>3. ~r.static => r \in handles /\ r \in issued
        BY <4>1 DEF Kept
      <4>4. r \in handles => r \notin call[Facade].asked
        BY <1>0, IdleIs DEF Good, Asked, Preparations
      <4>5. ~Has(r)'
        BY <2>1, <4>1 DEF Has, RecordsFor
      <4> QED
        BY <2>1, <3>3, <4>2, <4>3, <4>4, <4>5 DEF Unrecorded
    <3>6. LoaderNew'
      BY <3>3, <3>5 DEF LoaderNew
    <3> QED
      BY <3>4, <3>6 DEF Accounted
  <2> QED
    BY <2>1, <2>3, <2>4
<1>16. ASSUME NEW m \in Modules, ModuleUnloads(m)
       PROVE  Accounted'
  <2> DEFINE records == {p \in patches : /\ p.request.named /\ p.request.module = m
                                         /\ p.lifetime = lifetime[m]}
  <2>1. PICK succeeded \in BOOLEAN : RestoreOrKeep(records, records, succeeded)
    BY <1>16 DEF ModuleUnloads
  <2>2. UNCHANGED <<call, issued, stage>> /\ records \subseteq patches
    BY <1>16 DEF ModuleUnloads
  <2>3. Counted' /\ \A r : Has(r)' => Has(r)
    BY <1>0, <2>1, <2>2, RestoreAccounts
  <2> QED
    BY <1>2, <2>2, <2>3 DEF Accounted
<1> QED
  BY <1>3, <1>4, <1>5, <1>6, <1>7, <1>8, <1>9, <1>10, <1>12, <1>13, <1>14, <1>15, <1>16 DEF Next

-----------------------------------------------------------------------------
CaveIInv == IInv /\ CaveInv /\ (~unrestored => Accounted)

LEMMA CaveInvariant ==
  Spec => []CaveIInv
<1>1. Init => CaveIInv
  <2> SUFFICES ASSUME Init PROVE CaveIInv
    OBVIOUS
  <2>1. \A c \in Callers : call[c] = Idle
    BY DEF Init
  <2>2. patches = {} /\ allocated = {} /\ layered = {} /\ \A r \in Requests : storage[r] = Old
    BY DEF Init
  <2>3. CaveInv
    BY <2>1, <2>2, IdleIs DEF CaveInv, Preparations, Blocks, Words
  <2>4. Accounted
    BY <2>1, <2>2, IdleIs, CallersApart DEF Accounted, Counted, LoaderNew, Unrecorded
  <2> QED
    BY <2>3, <2>4, InitInvariant DEF CaveIInv
<1>2. CaveIInv /\ [Next]_vars => CaveIInv'
  <2> SUFFICES ASSUME CaveIInv, [Next]_vars PROVE CaveIInv'
    OBVIOUS
  <2>1. IInv /\ IInv' /\ Typed
    BY NextInvariant DEF CaveIInv, IInv
  <2>2. CaveInv'
    BY <2>1, NextCave DEF CaveIInv
  <2>3. ASSUME ~unrestored' PROVE Accounted'
    <3>1. CASE Next
      BY <2>1, <2>3, <3>1, Remembered, NextAccounted DEF CaveIInv, IInv
    <3>2. CASE UNCHANGED vars
      BY <2>3, <3>2 DEF vars, CaveIInv, Accounted, Counted, LoaderNew, Unrecorded, Has, RecordsFor
    <3> QED
      BY <3>1, <3>2
  <2> QED
    BY <2>1, <2>2, <2>3 DEF CaveIInv
<1> QED
  BY <1>1, <1>2, PTL DEF Spec

\* The code cave loses no block and gives none to two patches, and what a plugin's
\* call-through storage points to is never given back, however preparations,
\* commits, roll-backs and restores interleave.
THEOREM CaveCorrect ==
  Spec => []CaveExact
<1> DEFINE items == UNION {call[c].prepared : c \in Callers}
           used == {[of |-> x, trampoline |-> x.trampoline] : x \in
                      {y \in patches \cup items : y.trampoline # NoTrampoline}}
<1>1. \A i : i \in items <=> \E c \in Callers : i \in call[c].prepared
  OBVIOUS
<1>2. \A u \in used : /\ u = [of |-> u.of, trampoline |-> u.of.trampoline]
                      /\ u.of \in patches \cup items /\ u.trampoline = u.of.trampoline
                      /\ u.trampoline # NoTrampoline
  OBVIOUS
<1>3. ASSUME NEW x \in patches \cup items, x.trampoline # NoTrampoline
      PROVE  \E u \in used : u.trampoline = x.trampoline
  <2>1. [of |-> x, trampoline |-> x.trampoline] \in used
    BY <1>3
  <2> QED
    BY <2>1
<1> HIDE DEF items, used
<1>4. ASSUME Typed, Blocks, Counted
      PROVE  allocated = {u.trampoline : u \in used}
  <2>1. ASSUME NEW t \in allocated
        PROVE  \E u \in used : u.trampoline = t
    <3>1. t # NoTrampoline
      BY <1>4, ConstantsAssumption DEF Typed
    <3>2. \E x \in patches \cup items : x.trampoline = t
      BY <1>1, <1>4 DEF Counted
    <3> QED
      BY <1>3, <3>1, <3>2
  <2>2. \A u \in used : u.trampoline \in allocated
    BY <1>1, <1>2, <1>4 DEF Blocks
  <2> QED
    BY <2>1, <2>2
<1>5. ASSUME Blocks, NEW u \in used, NEW v \in used, u.trampoline = v.trampoline
      PROVE  u = v
  <2>1. u.of = v.of
    BY <1>1, <1>2, <1>5 DEF Blocks
  <2> QED
    BY <1>2, <2>1
<1>6. ASSUME Words, NEW r \in Requests, r \notin layered
      PROVE  storage[r] \in allocated \cup {Old}
  BY <1>6 DEF Words
<1>7. CaveIInv => CaveExact
  BY <1>4, <1>5, <1>6 DEF CaveIInv, IInv, CaveInv, Accounted, Counted, CaveExact, items, used
<1> QED
  BY <1>7, CaveInvariant, PTL
=============================================================================
