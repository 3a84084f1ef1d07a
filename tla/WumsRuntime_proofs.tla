-------------------------- MODULE WumsRuntime_proofs --------------------------
(***************************************************************************)
(* Proofs about WumsRuntime for any definitions, threads, plugins and      *)
(* numbers of failures.                                                    *)
(*                                                                         *)
(* What an operation has still to do is its script, so the inductive       *)
(* invariant says, for every operation, what its script looks like and     *)
(* what the graph, the modules and the registry owe to the steps that are  *)
(* left.  It is stated over explicit arguments (the work of a thread, the  *)
(* graph, the modules, the registry): most lemmas are about these values   *)
(* and mention no action.                                                  *)
(*                                                                         *)
(* The last part is about Reload, which is several operations: RInv adds   *)
(* what of the old and the new graph it can rely on between them.          *)
(***************************************************************************)
EXTENDS WumsRuntime, FiniteSetTheorems, SequenceTheorems, TLAPS

\* The do of a step, by the operation it belongs to.
Finals == {"commit", "abandon", "emptied", "unstarted", "started", "exiting", "ended"}
Steps == [do : Hooks \cup {"skip", "map", "link", "unpublish", "unmap", "stopped"} \cup Finals,
          module : Nat]

Instance == [definition : Definitions, state : {"up", "unloading", "unloaded", "failed"},
             initialized : BOOLEAN, running : BOOLEAN]

Stages == {"", "unload", "load", "start", "cleanup", "restore", "restart"}

Work == [script : Seq(Steps), made : Seq(Nat), clean : BOOLEAN, stage : Stages,
         new : SUBSET Definitions, old : SUBSET Definitions, restart : BOOLEAN,
         troubles : 0..2]

TypeOK ==
  /\ DOMAIN modules \subseteq Nat
  /\ modules \in [DOMAIN modules -> Instance]
  /\ IsFiniteSet(DOMAIN modules)
  /\ graph \in Seq(DOMAIN modules)
  /\ application \in [started : BOOLEAN, exiting : BOOLEAN]
  /\ operation \subseteq Threads
  /\ thread \in [Threads -> Work]

\* One operation at a time, and what a thread outside one holds.
Exclusive ==
  /\ \A t, u \in operation : t = u
  /\ \A t \in Threads : t \in operation <=> thread[t].script # <<>>
  /\ \A t \in Threads \ operation : thread[t].made = <<>>


\* The state of the registry and the loader as one value.
Reg == [leases |-> leases, mapped |-> mapped, providers |-> providers, orphans |-> orphans,
        stuck |-> stuck]

Published(r, ms) ==
  /\ \A l \in r.leases : l.provider \in r.providers
  /\ r.providers \subseteq r.mapped \cup r.orphans
  /\ r.orphans \subseteq r.providers
  /\ r.stuck \subseteq r.mapped
  /\ r.mapped \cup r.providers \subseteq DOMAIN ms

Injective(L) == \A j, k \in DOMAIN L : L[j] = L[k] => j = k

Upto(L, n) == {L[j] : j \in 1..n}

\* A module whose cleanup is to come imports from none that is cleaned up before it.
Behind(r, L, m, l) ==
  \E k \in 1..m : /\ L[k] = l.importer
                  /\ l.provider \in (r.orphans \ Upto(L, Len(L))) \cup Upto(L, k)

\* Of the modules L the first n are to be unmapped and the first m to be unpublished.
Registry(r, L, n, m) ==
  /\ Injective(L)
  /\ \A l \in r.leases : l.importer \in Plugins \/ Behind(r, L, m, l)
  /\ r.mapped \subseteq r.stuck \cup Upto(L, n)
  /\ r.providers \subseteq r.orphans \cup Upto(L, m)

\* Those of the graph that are initialized come before the others.
Cut(ms, g, m) ==
  \A k \in DOMAIN g :
    IF k <= m THEN "init" \in ms[g[k]].definition.hooks => ms[g[k]].initialized
    ELSE ~ms[g[k]].initialized

Held(g, ms, r) == Registry(r, g, Len(g), Len(g)) /\ \E m \in 0..Len(g) : Cut(ms, g, m)

Quiet(ms) == \A i \in DOMAIN ms : ~ms[i].running

Paired(ms, g, started) ==
  Quiet(ms) \/ (started /\ \A i \in DOMAIN ms :
                  ms[i].running <=> i \in Upto(g, Len(g)) /\ "starts" \in ms[i].definition.hooks)

\* What is left of a load.
Loads1 == {"map", "link", "init", "skip", "relocated"}

Pending(s) == {s[k].module : k \in {j \in DOMAIN s : s[j].do = "map"}}

Prepared(s, ms, i) ==
  "init" \in ms[i].definition.hooks => ms[i].initialized \/ \E k \in DOMAIN s : s[k] = Step("init", i)

Loading(x, g, ms, r) ==
  LET s == x.script
      made == x.made
  IN /\ s[Len(s)] = Step("commit", 0)
     /\ g = <<>> /\ Quiet(ms)
     /\ made \in Seq(DOMAIN ms)
     /\ Registry(r, made, Len(made), Len(made))
     /\ \A k \in 1..(Len(s) - 1) :
          /\ s[k].do \in Loads1
          /\ s[k].module \in DOMAIN ms
          /\ s[k].do = "map" => s[k].module \notin r.mapped \cup r.providers \cup Upto(made, Len(made))
          /\ s[k].do = "link" => k = 1 /\ made # <<>> /\ s[k].module = made[Len(made)]
     /\ \A j, k \in DOMAIN s :
          s[j].do = "map" /\ s[k].do = "map" /\ s[j].module = s[k].module => j = k
     /\ \A i \in Upto(made, Len(made)) \cup Pending(s) : Prepared(s, ms, i)

\* What is left of a cleanup of L: n modules.
Phases == {"fini", "clear", "unpublish", "unmap"}

Cleaning(r, L, s, final) ==
  /\ Len(s) - 1 <= Len(L)
  /\ s[Len(s)] = Step(final, 0)
  /\ \A j \in 1..(Len(s) - 1) :
       /\ s[j].module = L[Len(s) - j]
       /\ s[j].do \in Phases
       /\ j > 1 => s[j].do = "fini"
  /\ Registry(r, L, Len(s) - 1, IF s[1].do = "unmap" THEN Len(s) - 2 ELSE Len(s) - 1)

RollingBack(x, g, ms, r) ==
  /\ g = <<>> /\ Quiet(ms)
  /\ x.made \in Seq(DOMAIN ms)
  /\ Cleaning(r, x.made, x.script, "abandon")

Emptying(x, g, ms, r) ==
  /\ x.made = <<>> /\ Quiet(ms)
  /\ Cleaning(r, g, x.script, "emptied")
  /\ \E m \in 0..Len(g) :
       /\ Cut(ms, g, m)
       /\ m <= IF x.script[1].do \in Phases \ {"fini"} THEN Len(x.script) - 2
               ELSE Len(x.script) - 1

\* Whoever runs is going to be ended.
Covered(s, ms) ==
  \A i \in DOMAIN ms : ms[i].running => \E k \in DOMAIN s : s[k] = Step("ends", i)

Stopping(x, g, ms, r) ==
  LET s == x.script
      p == Len(s) - Len(g) - 1
  IN /\ x.made = <<>> /\ Held(g, ms, r) /\ Covered(s, ms)
     /\ p >= 1 /\ s[p] = Step("stopped", 0)
     /\ \A k \in 1..(p - 1) : s[k].do \in {"ends", "allEnds"}
     /\ \A j \in 1..Len(g) : s[p + j] = Step("fini", g[Len(g) + 1 - j])
     /\ s[Len(s)] = Step("emptied", 0)

Ending(x, g, ms, r) ==
  LET s == x.script
  IN /\ x.made = <<>> /\ Held(g, ms, r) /\ Covered(s, ms)
     /\ s[Len(s)].do \in {"ended", "unstarted"}
     /\ \A k \in 1..(Len(s) - 1) : s[k].do \in {"ends", "allEnds"}

Exiting(x, g, ms, r, started) ==
  LET s == x.script
  IN /\ x.made = <<>> /\ Held(g, ms, r) /\ Paired(ms, g, started)
     /\ s[Len(s)].do = "exiting"
     /\ \A k \in 1..(Len(s) - 1) : s[k].do \in {"exit", "allExit"}

Starting(x, g, ms, r) ==
  LET s == x.script
      q == Len(s) - 1 - Len(g)
      done == IF q >= 0 THEN Len(g) - q ELSE Len(g)
  IN /\ x.made = <<>> /\ Held(g, ms, r)
     /\ q <= Len(g)
     /\ s[Len(s)].do = "started"
     /\ \A k \in 1..(Len(s) - 1) :
          IF k <= q THEN s[k] = Step("starts", g[done + k]) ELSE s[k].do = "allStarts"
     /\ \A i \in DOMAIN ms :
          ms[i].running <=> i \in Upto(g, done) /\ "starts" \in ms[i].definition.hooks

Working(x, g, ms, r, started) ==
  \/ Loading(x, g, ms, r) \/ RollingBack(x, g, ms, r) \/ Emptying(x, g, ms, r)
  \/ Stopping(x, g, ms, r) \/ Ending(x, g, ms, r) \/ Exiting(x, g, ms, r, started)
  \/ Starting(x, g, ms, r)

IInv ==
  /\ TypeOK /\ Exclusive /\ Published(Reg, modules)
  /\ operation = {} => Held(graph, modules, Reg) /\ Paired(modules, graph, application.started)
  /\ \A t \in operation : Working(thread[t], graph, modules, Reg, application.started)
-----------------------------------------------------------------------------
\* Scripts

Acts == Hooks \cup {"skip", "map", "link", "unpublish", "unmap", "stopped"} \cup Finals

LEMMA StepType ==
  ASSUME NEW do \in Acts, NEW i \in Nat
  PROVE  /\ Step(do, i) \in Steps /\ Step(do, i).do = do /\ Step(do, i).module = i
         /\ \A s \in Steps : s = Step(do, i) <=> s.do = do /\ s.module = i
BY DEF Step, Steps, Acts

LEMMA FinalFacts ==
  ASSUME NEW do \in Acts
  PROVE  Final(do) \in Seq(Steps) /\ Len(Final(do)) = 1 /\ Final(do)[1] = Step(do, 0)
<1>1. Step(do, 0) \in Steps
  BY StepType
<1> QED BY <1>1 DEF Final

LEMMA CallsFacts ==
  ASSUME NEW do \in Acts, NEW L \in Seq(Nat)
  PROVE  /\ Calls(do, L) \in Seq(Steps) /\ Len(Calls(do, L)) = Len(L)
         /\ \A k \in 1..Len(L) : Calls(do, L)[k] = Step(do, L[k])
<1>1. \A k \in 1..Len(L) : Step(do, L[k]) \in Steps
  BY StepType
<1> QED BY <1>1 DEF Calls

LEMMA ReverseFacts ==
  ASSUME NEW S, NEW L \in Seq(S)
  PROVE  /\ Reverse(L) \in Seq(S) /\ Len(Reverse(L)) = Len(L)
         /\ \A k \in 1..Len(L) : Reverse(L)[k] = L[Len(L) + 1 - k]
BY DEF Reverse

LEMMA ConcatFacts ==
  ASSUME NEW a \in Seq(Steps), NEW b \in Seq(Steps)
  PROVE  /\ a \o b \in Seq(Steps) /\ Len(a \o b) = Len(a) + Len(b)
         /\ \A k \in 1..Len(a) : (a \o b)[k] = a[k]
         /\ \A k \in 1..Len(b) : (a \o b)[Len(a) + k] = b[k]
OBVIOUS

\* The rest of a script: its first step turns into the one that follows, or it is gone.
LEMMA RestFacts ==
  ASSUME NEW s \in Seq(Steps), s # <<>>
  PROVE  /\ Rest(s) \in Seq(Steps)
         /\ s[1].do \in DOMAIN Follows =>
              /\ Len(Rest(s)) = Len(s)
              /\ Rest(s)[1] = Step(Follows[s[1].do], s[1].module)
              /\ \A k \in 2..Len(s) : Rest(s)[k] = s[k]
         /\ s[1].do \notin DOMAIN Follows =>
              /\ Len(Rest(s)) = Len(s) - 1
              /\ \A k \in 1..(Len(s) - 1) : Rest(s)[k] = s[k + 1]
<1>1. CASE s[1].do \in DOMAIN Follows
  <2>1. Follows[s[1].do] \in Acts
    BY <1>1 DEF Follows, Acts, Hooks
  <2>2. 1 \in DOMAIN s /\ s[1] \in Steps
    OBVIOUS
  <2> DEFINE e == Step(Follows[s[1].do], s[1].module)
  <2>3. e \in Steps
    BY <2>1, <2>2, StepType DEF Steps
  <2>a. [s[1] EXCEPT !.do = Follows[@]] = e
    BY <2>2 DEF Steps, Step
  <2>4. [s EXCEPT ![1].do = Follows[@]] = [s EXCEPT ![1] = e]
    BY <2>a
  <2>5. Rest(s) = [s EXCEPT ![1] = e]
    BY <1>1, <2>4 DEF Rest
  <2> HIDE DEF e
  <2>6. QED BY <1>1, <2>5, <2>3, <2>2 DEF e
<1>2. CASE s[1].do \notin DOMAIN Follows
  BY <1>2 DEF Rest
<1> QED BY <1>1, <1>2

LEMMA CleanupFacts ==
  ASSUME NEW L \in Seq(Nat), NEW do \in Acts
  PROVE  LET s == Cleanup(L) \o Final(do)
         IN /\ s \in Seq(Steps) /\ Len(s) = Len(L) + 1
            /\ \A k \in 1..Len(L) : s[k] = Step("fini", L[Len(L) + 1 - k])
            /\ s[Len(s)] = Step(do, 0)
<1> DEFINE a == Cleanup(L)
           b == Final(do)
<1>1. a \in Seq(Steps) /\ Len(a) = Len(L)
      /\ \A k \in 1..Len(L) : a[k] = Step("fini", L[Len(L) + 1 - k])
  <2>1. "fini" \in Acts
    BY DEF Acts, Hooks
  <2> QED BY <2>1, ReverseFacts, CallsFacts DEF Cleanup
<1>2. b \in Seq(Steps) /\ Len(b) = 1 /\ b[1] = Step(do, 0)
  BY FinalFacts
<1> HIDE DEF a, b
<1>3. a \o b \in Seq(Steps) /\ Len(a \o b) = Len(a) + Len(b)
      /\ (\A k \in 1..Len(a) : (a \o b)[k] = a[k])
      /\ (\A k \in 1..Len(b) : (a \o b)[Len(a) + k] = b[k])
  BY <1>1, <1>2, ConcatFacts
<1>4. (a \o b)[Len(a) + 1] = b[1]
  BY <1>3, <1>2
<1> QED BY <1>1, <1>2, <1>3, <1>4 DEF a, b

-----------------------------------------------------------------------------
\* The registry

LEMMA WidenRegistry ==
  ASSUME NEW r, NEW L, NEW n \in Nat, NEW m \in Nat, Len(L) \in Nat,
         n <= Len(L), m <= Len(L), Registry(r, L, n, m)
  PROVE  Registry(r, L, Len(L), Len(L))
BY DEF Registry, Behind, Upto

\* Plugins take and release leases.
LEMMA PluginRegistry ==
  ASSUME NEW r, NEW r2, NEW L, NEW n, NEW m, Registry(r, L, n, m),
         \A l \in r2.leases : l \in r.leases \/ l.importer \in Plugins,
         r2.mapped = r.mapped, r2.providers = r.providers, r2.orphans = r.orphans,
         r2.stuck = r.stuck
  PROVE  Registry(r2, L, n, m)
BY DEF Registry, Behind

LEMMA AppendFacts ==
  ASSUME NEW S, NEW L \in Seq(S), NEW i, i \notin Upto(L, Len(L)), Injective(L)
  PROVE  /\ Len(Append(L, i)) = Len(L) + 1 /\ Injective(Append(L, i))
         /\ \A k \in 1..Len(L) : Append(L, i)[k] = L[k] /\ Upto(Append(L, i), k) = Upto(L, k)
         /\ Append(L, i)[Len(L) + 1] = i
         /\ Upto(Append(L, i), Len(L) + 1) = Upto(L, Len(L)) \cup {i}
<1> DEFINE M == Append(L, i)
<1>1. M \in Seq(S \cup {i}) /\ Len(M) = Len(L) + 1 /\ M[Len(L) + 1] = i
      /\ \A k \in 1..Len(L) : M[k] = L[k]
  OBVIOUS
<1>2. DOMAIN M = 1..(Len(L) + 1) /\ DOMAIN L = 1..Len(L) /\ Len(L) \in Nat
  BY <1>1
<1> HIDE DEF M
<1>3. Injective(M)
  <2> SUFFICES ASSUME NEW j \in 1..(Len(L) + 1), NEW k \in 1..(Len(L) + 1), M[j] = M[k]
               PROVE  j = k
    BY <1>2 DEF Injective
  <2>1. \A a \in 1..Len(L) : L[a] # i
    BY DEF Upto
  <2>2. CASE j = Len(L) + 1 \/ k = Len(L) + 1
    BY <2>1, <2>2, <1>1, <1>2
  <2>3. CASE j \in 1..Len(L) /\ k \in 1..Len(L)
    BY <2>3, <1>1, <1>2 DEF Injective
  <2> QED BY <2>2, <2>3, <1>2
<1>4. \A k \in 1..Len(L) : Upto(M, k) = Upto(L, k)
  BY <1>1, <1>2 DEF Upto
<1>5. Upto(M, Len(L) + 1) = Upto(L, Len(L)) \cup {i}
  BY <1>1, <1>2 DEF Upto
<1> QED BY <1>1, <1>3, <1>4, <1>5 DEF M

\* A module that is mapped, or of which the mapping fails half-way, is the last.
LEMMA MapRegistry ==
  ASSUME NEW r, NEW r2, NEW S, NEW L \in Seq(S), NEW i,
         Registry(r, L, Len(L), Len(L)),
         r.orphans \subseteq r.providers,
         i \notin r.mapped \cup r.providers \cup Upto(L, Len(L)),
         r2.leases = r.leases, r2.orphans = r.orphans, r2.stuck = r.stuck,
         r2.mapped \subseteq r.mapped \cup {i}, r2.providers \subseteq r.providers \cup {i}
  PROVE  Registry(r2, Append(L, i), Len(Append(L, i)), Len(Append(L, i)))
<1> DEFINE M == Append(L, i)
<1>1. /\ Len(M) = Len(L) + 1 /\ Injective(M)
      /\ \A k \in 1..Len(L) : M[k] = L[k] /\ Upto(M, k) = Upto(L, k)
      /\ Upto(M, Len(L) + 1) = Upto(L, Len(L)) \cup {i}
  BY AppendFacts DEF Registry
<1>2. Len(L) \in Nat
  OBVIOUS
<1> HIDE DEF M
<1>3. ASSUME NEW l \in r2.leases, l.importer \notin Plugins
      PROVE  Behind(r2, M, Len(M), l)
  <2>1. PICK k \in 1..Len(L) :
          /\ L[k] = l.importer
          /\ l.provider \in (r.orphans \ Upto(L, Len(L))) \cup Upto(L, k)
    BY <1>3 DEF Registry, Behind
  <2>2. k \in 1..Len(M) /\ M[k] = l.importer
    BY <2>1, <1>1, <1>2
  <2>3. l.provider \in (r2.orphans \ Upto(M, Len(M))) \cup Upto(M, k)
    BY <2>1, <1>1
  <2> QED BY <2>2, <2>3 DEF Behind
<1>4. r2.mapped \subseteq r2.stuck \cup Upto(M, Len(M))
      /\ r2.providers \subseteq r2.orphans \cup Upto(M, Len(M))
  BY <1>1 DEF Registry
<1> QED BY <1>1, <1>3, <1>4 DEF Registry, M

\* The module linked last imports from what is published.
LEMMA LinkRegistry ==
  ASSUME NEW r, NEW r2, NEW S, NEW L \in Seq(S), L # <<>>,
         Registry(r, L, Len(L), Len(L)),
         \A l \in r2.leases : l \in r.leases \/ (l.importer = L[Len(L)] /\ l.provider \in r.providers),
         r2.mapped = r.mapped, r2.providers = r.providers, r2.orphans = r.orphans,
         r2.stuck = r.stuck
  PROVE  Registry(r2, L, Len(L), Len(L))
<1>1. ASSUME NEW l \in r2.leases, l.importer \notin Plugins
      PROVE  Behind(r2, L, Len(L), l)
  <2>1. CASE l \in r.leases
    BY <2>1, <1>1 DEF Registry, Behind
  <2>2. CASE l.importer = L[Len(L)] /\ l.provider \in r.providers
    <3>1. Len(L) \in 1..Len(L)
      OBVIOUS
    <3>2. l.provider \in (r2.orphans \ Upto(L, Len(L))) \cup Upto(L, Len(L))
      BY <2>2 DEF Registry
    <3> QED BY <3>1, <3>2, <2>2 DEF Behind
  <2> QED BY <2>1, <2>2
<1> QED BY <1>1 DEF Registry

\* The last module but those that are done lets go of its imports: whoever still pins
\* its exports is a plugin.
LEMMA LastPins ==
  ASSUME NEW r, NEW S, NEW L \in Seq(S), NEW n \in 1..Len(L), Registry(r, L, n, n),
         NEW l \in r.leases, l.importer # L[n], l.importer \notin Plugins
  PROVE  /\ l.provider # L[n]
         /\ Behind(r, L, n - 1, l)
<1>1. PICK k \in 1..n :
        /\ L[k] = l.importer
        /\ l.provider \in (r.orphans \ Upto(L, Len(L))) \cup Upto(L, k)
  BY DEF Registry, Behind
<1>2. k \in 1..(n - 1)
  BY <1>1
<1>3. Behind(r, L, n - 1, l)
  BY <1>1, <1>2 DEF Behind
<1>4. L[n] \in Upto(L, Len(L))
  BY DEF Upto
<1>5. L[n] \notin Upto(L, k)
  <2> SUFFICES ASSUME NEW j \in 1..k, L[j] = L[n] PROVE FALSE
    BY DEF Upto
  <2>1. j \in DOMAIN L /\ n \in DOMAIN L /\ j # n
    BY <1>2
  <2> QED BY <2>1 DEF Registry, Injective
<1> QED BY <1>1, <1>3, <1>4, <1>5

LEMMA UptoLess ==
  ASSUME NEW S, NEW L \in Seq(S), NEW n \in 1..Len(L)
  PROVE  Upto(L, n) \subseteq Upto(L, n - 1) \cup {L[n]}
<1> SUFFICES ASSUME NEW j \in 1..n, L[j] # L[n] PROVE j \in 1..(n - 1)
  BY DEF Upto
<1> QED OBVIOUS

LEMMA UnpublishRegistry ==
  ASSUME NEW r, NEW r2, NEW S, NEW L \in Seq(S), NEW n \in 1..Len(L), Registry(r, L, n, n),
         r2.leases = {l \in r.leases : l.importer # L[n]},
         r2.mapped = r.mapped, r2.stuck = r.stuck,
         \/ /\ r2.providers = r.providers /\ r2.orphans = r.orphans \cup {L[n]}
         \/ r2.providers = r.providers \ {L[n]} /\ r2.orphans = r.orphans \ {L[n]}
  PROVE  Registry(r2, L, n, n - 1)
<1>1. ASSUME NEW l \in r2.leases, l.importer \notin Plugins
      PROVE  Behind(r2, L, n - 1, l)
  <2>1. l \in r.leases /\ l.importer # L[n]
    OBVIOUS
  <2>2. l.provider # L[n] /\ Behind(r, L, n - 1, l)
    BY <2>1, <1>1, LastPins
  <2>3. PICK k \in 1..(n - 1) :
          /\ L[k] = l.importer
          /\ l.provider \in (r.orphans \ Upto(L, Len(L))) \cup Upto(L, k)
    BY <2>2 DEF Behind
  <2>4. l.provider \in (r2.orphans \ Upto(L, Len(L))) \cup Upto(L, k)
    BY <2>2, <2>3
  <2> QED BY <2>3, <2>4 DEF Behind
<1>2. r2.providers \subseteq r2.orphans \cup Upto(L, n - 1)
  BY UptoLess DEF Registry
<1> QED BY <1>1, <1>2 DEF Registry

LEMMA UnmapRegistry ==
  ASSUME NEW r, NEW r2, NEW S, NEW L \in Seq(S), NEW n \in 1..Len(L), Registry(r, L, n, n - 1),
         r2.leases = r.leases, r2.providers = r.providers, r2.orphans = r.orphans,
         \/ r2.mapped = r.mapped \ {L[n]} /\ r2.stuck = r.stuck \ {L[n]}
         \/ r2.mapped = r.mapped /\ r2.stuck = r.stuck \cup {L[n]}
  PROVE  Registry(r2, L, n - 1, n - 1)
<1>1. \A l \in r2.leases : l.importer \in Plugins \/ Behind(r2, L, n - 1, l)
  BY DEF Registry, Behind
<1>2. r2.mapped \subseteq r2.stuck \cup Upto(L, n - 1)
  BY UptoLess DEF Registry
<1> QED BY <1>1, <1>2 DEF Registry

\* When all of L is cleaned up, L might as well be empty.
LEMMA NoneLeft ==
  ASSUME NEW r, NEW L, Registry(r, L, 0, 0)
  PROVE  Registry(r, <<>>, 0, 0)
<1>1. Upto(L, 0) = {} /\ Upto(<<>>, 0) = {}
  BY DEF Upto
<1>2. \A l \in r.leases : l.importer \in Plugins
  BY DEF Registry, Behind
<1>3. Injective(<<>>)
  BY DEF Injective
<1> QED BY <1>1, <1>2, <1>3 DEF Registry

-----------------------------------------------------------------------------
\* Values of the right type

LEMMA WorkFacts ==
  ASSUME NEW x \in Work, NEW s \in Seq(Steps), NEW made \in Seq(Nat), NEW clean \in BOOLEAN,
         NEW n \in 0..2
  PROVE  LET y == [x EXCEPT !.script = s, !.made = made, !.clean = clean, !.troubles = n]
         IN y \in Work /\ y.script = s /\ y.made = made
BY DEF Work

LEMMA TroubleType == ASSUME NEW x \in Work, NEW n \in {0, 1, 2} PROVE Trouble(x, n) \in 0..2
<1>1. x.troubles \in 0..2
  BY DEF Work
<1>2. Trouble(x, n) = 0 \/ (Trouble(x, n) = x.troubles + n /\ x.troubles + n < 2) \/ Trouble(x, n) = 2
  BY DEF Trouble
<1> QED BY <1>1, <1>2

LEMMA IdleType == Idle \in Work /\ Idle.script = <<>> /\ Idle.made = <<>> /\ Idle.stage = ""
BY DEF Idle, Work, Stages

LEMMA ContinueType ==
  ASSUME NEW x \in Work, NEW ok \in BOOLEAN
  PROVE  Continue(x, ok) \in Work
BY DEF Continue, Work, Stages

LEMMA ReturnedType ==
  ASSUME NEW x \in Work, NEW ok \in BOOLEAN
  PROVE  Returned(x, ok) \in Work /\ Returned(x, ok).script = <<>> /\ Returned(x, ok).made = <<>>
<1> DEFINE y == Continue(x, ok)
<1>1. y \in Work
  BY ContinueType
<1>2. Returned(x, ok) = IF y.stage = "" THEN Idle ELSE [y EXCEPT !.script = <<>>, !.made = <<>>]
  BY DEF Returned
<1> HIDE DEF y
<1>3. [y EXCEPT !.script = <<>>, !.made = <<>>] \in Work
      /\ [y EXCEPT !.script = <<>>, !.made = <<>>].script = <<>>
      /\ [y EXCEPT !.script = <<>>, !.made = <<>>].made = <<>>
  <2>1. <<>> \in Seq(Steps) /\ <<>> \in Seq(Nat)
    OBVIOUS
  <2> QED BY <1>1, <2>1 DEF Work
<1> QED BY <1>2, <1>3, IdleType

\* What a hook does to its module.
LEMMA AfterFacts ==
  ASSUME NEW m \in Instance, NEW hook, NEW ok \in BOOLEAN
  PROVE  LET n == After(m, hook, ok)
         IN /\ n \in Instance /\ n.definition = m.definition
            /\ hook = "init" => n.initialized = (ok /\ "init" \in m.definition.hooks)
            /\ hook = "fini" => n.initialized = FALSE
            /\ hook \notin {"init", "fini"} => n.initialized = m.initialized
            /\ hook = "starts" => n.running = (ok /\ "starts" \in m.definition.hooks)
            /\ hook = "ends" => n.running = FALSE
            /\ hook \notin {"starts", "ends"} => n.running = m.running
<1>1. CASE hook = "init"
  BY <1>1 DEF After, Instance
<1>2. CASE hook = "fini"
  BY <1>2 DEF After, Instance
<1>3. CASE hook = "clear"
  BY <1>3 DEF After, Instance
<1>4. CASE hook = "starts"
  BY <1>4 DEF After, Instance
<1>5. CASE hook = "ends"
  BY <1>5 DEF After, Instance
<1>6. CASE hook \notin {"init", "fini", "clear", "starts", "ends"}
  BY <1>6 DEF After, Instance
<1> QED BY <1>1, <1>2, <1>3, <1>4, <1>5, <1>6

ModulesType(ms) ==
  DOMAIN ms \subseteq Nat /\ ms \in [DOMAIN ms -> Instance] /\ IsFiniteSet(DOMAIN ms)

\* ms2 is ms after a hook of i.
Hooked(ms, ms2, i, hook, ok) ==
  /\ DOMAIN ms2 = DOMAIN ms
  /\ \A j \in DOMAIN ms : j # i => ms2[j] = ms[j]
  /\ i \in DOMAIN ms =>
       /\ ms2[i].definition = ms[i].definition
       /\ hook = "init" => ms2[i].initialized = (ok /\ "init" \in ms[i].definition.hooks)
       /\ hook = "fini" => ms2[i].initialized = FALSE
       /\ hook \notin {"init", "fini"} => ms2[i].initialized = ms[i].initialized
       /\ hook = "starts" => ms2[i].running = (ok /\ "starts" \in ms[i].definition.hooks)
       /\ hook = "ends" => ms2[i].running = FALSE
       /\ hook \notin {"starts", "ends"} => ms2[i].running = ms[i].running

LEMMA HookedFacts ==
  ASSUME NEW ms, ModulesType(ms), NEW i, NEW hook, NEW ok \in BOOLEAN
  PROVE  LET ms2 == [ms EXCEPT ![i] = After(@, hook, ok)]
         IN ModulesType(ms2) /\ Hooked(ms, ms2, i, hook, ok)
<1> DEFINE ms2 == [ms EXCEPT ![i] = After(@, hook, ok)]
           n == After(ms[i], hook, ok)
<1>1. DOMAIN ms2 = DOMAIN ms /\ ms2 = [j \in DOMAIN ms |-> IF j = i THEN n ELSE ms[j]]
  OBVIOUS
<1>2. CASE i \in DOMAIN ms
  <2>1. ms[i] \in Instance
    BY <1>2 DEF ModulesType
  <2>2. /\ n \in Instance /\ n.definition = ms[i].definition
        /\ hook = "init" => n.initialized = (ok /\ "init" \in ms[i].definition.hooks)
        /\ hook = "fini" => n.initialized = FALSE
        /\ hook \notin {"init", "fini"} => n.initialized = ms[i].initialized
        /\ hook = "starts" => n.running = (ok /\ "starts" \in ms[i].definition.hooks)
        /\ hook = "ends" => n.running = FALSE
        /\ hook \notin {"starts", "ends"} => n.running = ms[i].running
    BY <2>1, AfterFacts
  <2> HIDE DEF n, ms2
  <2>3. ms2[i] = n /\ \A j \in DOMAIN ms : j # i => ms2[j] = ms[j]
    BY <1>1, <1>2
  <2>4. ModulesType(ms2)
    BY <1>1, <2>2 DEF ModulesType
  <2> QED BY <1>1, <2>2, <2>3, <2>4 DEF Hooked, ms2
<1>3. CASE i \notin DOMAIN ms
  BY <1>1, <1>3 DEF Hooked, ModulesType
<1> QED BY <1>2, <1>3

-----------------------------------------------------------------------------
\* The steps of a load

LEMMA Followed == DOMAIN Follows = {"map", "fini", "clear", "unpublish"}
                  /\ Follows["map"] = "link" /\ Follows["fini"] = "clear"
                  /\ Follows["clear"] = "unpublish" /\ Follows["unpublish"] = "unmap"
BY DEF Follows

LEMMA LoadingMore ==
  ASSUME NEW x \in Work, x.script # <<>>, NEW g, NEW ms, NEW r, Loading(x, g, ms, r),
         x.script[1].do # "commit"
  PROVE  /\ Len(x.script) \in Nat /\ Len(x.script) >= 2 /\ x.script \in Seq(Steps)
         /\ x.script[1].do \in Loads1 /\ x.script[1].module \in DOMAIN ms
<1>1. x.script \in Seq(Steps) /\ Len(x.script) \in Nat /\ Len(x.script) >= 1
  BY DEF Work
<1>2. x.script[Len(x.script)].do = "commit"
  BY DEF Loading, Step
<1>3. Len(x.script) # 1
  BY <1>1, <1>2
<1>4. 1 \in 1..(Len(x.script) - 1) /\ Len(x.script) >= 2
  <2> DEFINE N == Len(x.script)
  <2>1. N \in Nat /\ N >= 1 /\ N # 1
    BY <1>1, <1>3
  <2> HIDE DEF N
  <2>2. N >= 2 /\ 1 \in 1..(N - 1)
    BY <2>1
  <2> QED BY <2>2 DEF N
<1>5. x.script[1].do \in Loads1 /\ x.script[1].module \in DOMAIN ms
  BY <1>4 DEF Loading
<1> QED BY <1>1, <1>4, <1>5

\* A step but a mapping is done.
LEMMA LoadingTail ==
  ASSUME NEW x \in Work, NEW y \in Work, x.script # <<>>, NEW g, NEW ms, NEW ms2, NEW r, NEW r2,
         Loading(x, g, ms, r),
         x.script[1].do \in Loads1 \ {"map"},
         y.script = Rest(x.script), y.made = x.made,
         r2.mapped = r.mapped, r2.providers = r.providers,
         Registry(r2, x.made, Len(x.made), Len(x.made)),
         DOMAIN ms2 = DOMAIN ms, Quiet(ms2),
         \A i \in DOMAIN ms : Prepared(x.script, ms, i) => Prepared(y.script, ms2, i)
  PROVE  Loading(y, g, ms2, r2)
<1> DEFINE s == x.script
           z == y.script
           N == Len(s)
<1>1. s \in Seq(Steps) /\ N \in Nat /\ N >= 2
  BY LoadingMore DEF Loads1
<1>2. s[1].do \notin DOMAIN Follows
  BY Followed DEF Loads1
<1>3. z \in Seq(Steps) /\ Len(z) = N - 1 /\ \A k \in 1..(N - 1) : z[k] = s[k + 1]
  BY <1>1, <1>2, RestFacts
<1>4. z[Len(z)] = Step("commit", 0)
  <2>1. s[N] = Step("commit", 0)
    BY DEF Loading
  <2>2. N - 1 \in 1..(N - 1)
    BY <1>1
  <2> QED BY <1>1, <1>3, <2>1, <2>2
<1>5. ASSUME NEW k \in 1..(Len(z) - 1)
      PROVE  /\ z[k].do \in Loads1
             /\ z[k].module \in DOMAIN ms2
             /\ z[k].do = "map" =>
                  z[k].module \notin r2.mapped \cup r2.providers \cup Upto(y.made, Len(y.made))
             /\ z[k].do # "link"
  <2>1. k \in 1..(N - 1) /\ k + 1 \in 1..(N - 1) /\ k + 1 # 1
    BY <1>1, <1>3
  <2>2. z[k] = s[k + 1]
    BY <1>3, <2>1
  <2> HIDE DEF z, s
  <2> QED BY <2>1, <2>2 DEF Loading, s
<1>6. ASSUME NEW j \in DOMAIN z, NEW k \in DOMAIN z,
             z[j].do = "map", z[k].do = "map", z[j].module = z[k].module
      PROVE  j = k
  <2>1. j \in 1..(N - 1) /\ k \in 1..(N - 1)
    BY <1>1, <1>3
  <2>2. j + 1 \in DOMAIN s /\ k + 1 \in DOMAIN s
    BY <1>1, <2>1
  <2>3. z[j] = s[j + 1] /\ z[k] = s[k + 1]
    BY <1>3, <2>1
  <2>4. j + 1 = k + 1
    BY <1>6, <2>2, <2>3 DEF Loading
  <2> QED BY <2>1, <2>4
<1>7. Pending(z) \subseteq Pending(s)
  <2> SUFFICES ASSUME NEW k \in DOMAIN z, z[k].do = "map" PROVE z[k].module \in Pending(s)
    BY DEF Pending
  <2>1. k \in 1..(N - 1) /\ k + 1 \in DOMAIN s
    BY <1>1, <1>3
  <2>2. z[k] = s[k + 1]
    BY <1>3, <2>1
  <2> QED BY <2>1, <2>2 DEF Pending
<1>8. Upto(x.made, Len(x.made)) \cup Pending(s) \subseteq DOMAIN ms
  <2>1. Upto(x.made, Len(x.made)) \subseteq DOMAIN ms
    BY DEF Loading, Upto
  <2>2. ASSUME NEW k \in DOMAIN s, s[k].do = "map" PROVE s[k].module \in DOMAIN ms
    <3>1. s[N].do = "commit"
      BY DEF Loading, Step
    <3>2. k \in 1..(N - 1)
      BY <1>1, <2>2, <3>1
    <3> QED BY <3>2 DEF Loading
  <2> QED BY <2>1, <2>2 DEF Pending
<1>9. \A i \in Upto(y.made, Len(y.made)) \cup Pending(z) : Prepared(z, ms2, i)
  BY <1>7, <1>8 DEF Loading
<1>10. g = <<>> /\ y.made \in Seq(DOMAIN ms2)
  BY DEF Loading
<1> QED BY <1>4, <1>5, <1>6, <1>9, <1>10 DEF Loading

LEMMA LoadingHook ==
  ASSUME NEW x \in Work, NEW y \in Work, x.script # <<>>, NEW g, NEW ms, NEW ms2, NEW r,
         Loading(x, g, ms, r), ModulesType(ms2),
         x.script[1].do \in {"init", "skip", "relocated"},
         y.script = Rest(x.script), y.made = x.made,
         Hooked(ms, ms2, x.script[1].module, x.script[1].do, TRUE)
  PROVE  Loading(y, g, ms2, r)
<1> DEFINE s == x.script
           z == y.script
           N == Len(s)
<1>1. s \in Seq(Steps) /\ N \in Nat /\ N >= 2
  BY LoadingMore
<1>2. s[1].do \notin DOMAIN Follows
  BY Followed
<1>3. z \in Seq(Steps) /\ Len(z) = N - 1 /\ \A k \in 1..(N - 1) : z[k] = s[k + 1]
  BY <1>1, <1>2, RestFacts
<1>4. Quiet(ms2)
  BY DEF Quiet, Hooked, Loading
<1>5. ASSUME NEW i \in DOMAIN ms, Prepared(s, ms, i) PROVE Prepared(z, ms2, i)
  <2> SUFFICES ASSUME "init" \in ms2[i].definition.hooks
               PROVE  ms2[i].initialized \/ \E k \in DOMAIN z : z[k] = Step("init", i)
    BY DEF Prepared
  <2>1. "init" \in ms[i].definition.hooks
    BY DEF Hooked
  <2>2. CASE ms[i].initialized
    BY <2>1, <2>2 DEF Hooked
  <2>3. CASE \E k \in DOMAIN s : s[k] = Step("init", i)
    <3>1. PICK k \in DOMAIN s : s[k] = Step("init", i)
      BY <2>3
    <3>2. CASE k = 1
      <4>1. s[1].do = "init" /\ s[1].module = i
        BY <3>1, <3>2 DEF Step
      <4>2. Hooked(ms, ms2, s[1].module, s[1].do, TRUE)
        OBVIOUS
      <4>3. Hooked(ms, ms2, i, "init", TRUE)
        BY <4>1, <4>2
      <4> QED BY <1>5, <2>1, <4>3 DEF Hooked
    <3>3. CASE k # 1
      <4>1. k - 1 \in 1..(N - 1) /\ (k - 1) + 1 = k
        BY <1>1, <3>3
      <4>a. DOMAIN z = 1..(N - 1)
        BY <1>1, <1>3
      <4>2. z[k - 1] = s[(k - 1) + 1] /\ k - 1 \in DOMAIN z
        BY <1>3, <4>1, <4>a
      <4> QED BY <3>1, <4>1, <4>2
    <3> QED BY <3>2, <3>3
  <2> QED BY <1>5, <2>1, <2>2, <2>3 DEF Prepared
<1>6. DOMAIN ms2 = DOMAIN ms
  BY DEF Hooked
<1>7. Registry(r, x.made, Len(x.made), Len(x.made))
  BY DEF Loading
<1> QED BY <1>4, <1>5, <1>6, <1>7, LoadingTail DEF Loads1

LEMMA LoadingLink ==
  ASSUME NEW x \in Work, NEW y \in Work, x.script # <<>>, NEW g, NEW ms, NEW r, NEW r2,
         Loading(x, g, ms, r),
         x.script[1].do = "link",
         y.script = Rest(x.script), y.made = x.made,
         r2.mapped = r.mapped, r2.providers = r.providers,
         Registry(r2, x.made, Len(x.made), Len(x.made))
  PROVE  Loading(y, g, ms, r2)
<1> DEFINE s == x.script
           z == y.script
           N == Len(s)
<1>1. s \in Seq(Steps) /\ N \in Nat /\ N >= 2
  BY LoadingMore
<1>2. s[1].do \notin DOMAIN Follows
  BY Followed
<1>3. z \in Seq(Steps) /\ Len(z) = N - 1 /\ \A k \in 1..(N - 1) : z[k] = s[k + 1]
  BY <1>1, <1>2, RestFacts
<1>5. ASSUME NEW i \in DOMAIN ms, Prepared(s, ms, i) PROVE Prepared(z, ms, i)
  <2> SUFFICES ASSUME NEW k \in DOMAIN s, s[k] = Step("init", i)
               PROVE  \E j \in DOMAIN z : z[j] = Step("init", i)
    BY <1>5 DEF Prepared
  <2>1. k # 1
    BY DEF Step
  <2>2. k - 1 \in 1..(N - 1) /\ (k - 1) + 1 = k
    BY <1>1, <2>1
  <2>3. z[k - 1] = s[k]
    BY <1>3, <2>2
  <2>4. k - 1 \in DOMAIN z
    BY <1>3, <2>2
  <2> QED BY <2>3, <2>4
<1>6. Quiet(ms)
  BY DEF Loading
<1> QED BY <1>5, <1>6, LoadingTail DEF Loads1

LEMMA LoadingMap ==
  ASSUME NEW x \in Work, NEW y \in Work, x.script # <<>>, NEW g, NEW ms, NEW r, NEW r2,
         Loading(x, g, ms, r),
         x.script[1].do = "map", r.orphans \subseteq r.providers,
         y.script = Rest(x.script), y.made = Append(x.made, x.script[1].module),
         r2.leases = r.leases, r2.orphans = r.orphans, r2.stuck = r.stuck,
         r2.mapped = r.mapped \cup {x.script[1].module},
         r2.providers = r.providers \cup {x.script[1].module}
  PROVE  Loading(y, g, ms, r2)
<1> DEFINE s == x.script
           z == y.script
           N == Len(s)
           i == s[1].module
           L == x.made
           M == Append(L, i)
<1>1. s \in Seq(Steps) /\ N \in Nat /\ N >= 2 /\ i \in DOMAIN ms /\ L \in Seq(DOMAIN ms)
  BY LoadingMore DEF Loading
<1>2. i \notin r.mapped \cup r.providers \cup Upto(L, Len(L))
  BY <1>1 DEF Loading
<1>3. /\ z \in Seq(Steps) /\ Len(z) = N /\ z[1] = Step("link", i)
      /\ \A k \in 2..N : z[k] = s[k]
  BY <1>1, Followed, RestFacts
<1>4. Registry(r, L, Len(L), Len(L))
  BY DEF Loading
<1>5. Registry(r2, M, Len(M), Len(M))
  BY <1>1, <1>2, <1>4, MapRegistry
<1>6. /\ M \in Seq(DOMAIN ms) /\ Len(M) = Len(L) + 1 /\ M[Len(M)] = i /\ M # <<>>
      /\ Upto(M, Len(M)) = Upto(L, Len(L)) \cup {i}
  <2>1. Injective(L)
    BY <1>4 DEF Registry
  <2>2. Len(M) = Len(L) + 1 /\ M[Len(L) + 1] = i /\ Upto(M, Len(L) + 1) = Upto(L, Len(L)) \cup {i}
    BY <1>1, <1>2, <2>1, AppendFacts
  <2>3. M \in Seq(DOMAIN ms)
    BY <1>1
  <2>4. ASSUME M = <<>> PROVE FALSE
    <3>1. Len(M) = 0 /\ Len(L) \in Nat
      BY <1>1, <2>4
    <3> QED BY <2>2, <3>1
  <2> QED BY <2>2, <2>3, <2>4
<1> HIDE DEF M
<1>7. ASSUME NEW k \in 1..(Len(z) - 1)
      PROVE  /\ z[k].do \in Loads1
             /\ z[k].module \in DOMAIN ms
             /\ z[k].do = "map" =>
                  z[k].module \notin r2.mapped \cup r2.providers \cup Upto(M, Len(M))
             /\ z[k].do = "link" => k = 1 /\ M # <<>> /\ z[k].module = M[Len(M)]
  <2>1. CASE k = 1
    BY <1>1, <1>3, <1>6, <2>1 DEF Step, Loads1
  <2>2. CASE k # 1
    <3>1. k \in 1..(N - 1) /\ k \in 2..N /\ z[k] = s[k]
      BY <1>1, <1>3, <2>2
    <3>2. s[k].do = "map" => s[k].module # i
      <4>1. 1 \in DOMAIN s /\ k \in DOMAIN s
        BY <1>1, <3>1
      <4> QED BY <4>1, <2>2 DEF Loading
    <3>3. s[k].do \in Loads1 /\ s[k].module \in DOMAIN ms /\ s[k].do # "link"
          /\ (s[k].do = "map" => s[k].module \notin r.mapped \cup r.providers \cup Upto(L, Len(L)))
      BY <3>1, <2>2 DEF Loading
    <3> QED BY <3>1, <3>2, <3>3, <1>6
  <2> QED BY <2>1, <2>2
<1>8. ASSUME NEW j \in DOMAIN z, NEW k \in DOMAIN z,
             z[j].do = "map", z[k].do = "map", z[j].module = z[k].module
      PROVE  j = k
  <2>1. j # 1 /\ k # 1
    BY <1>3, <1>8 DEF Step
  <2>2. j \in 2..N /\ k \in 2..N /\ j \in DOMAIN s /\ k \in DOMAIN s
    BY <1>1, <1>3, <2>1
  <2>3. z[j] = s[j] /\ z[k] = s[k]
    BY <1>3, <2>2
  <2> QED BY <1>8, <2>2, <2>3 DEF Loading
<1>9. z[Len(z)] = Step("commit", 0)
  <2>1. N \in 2..N
    BY <1>1
  <2> QED BY <1>3, <2>1 DEF Loading
<1>10. Upto(M, Len(M)) \cup Pending(z) \subseteq Upto(L, Len(L)) \cup Pending(s)
  <2>1. i \in Pending(s)
    <3>1. 1 \in DOMAIN s
      BY <1>1
    <3> QED BY <3>1 DEF Pending
  <2>2. ASSUME NEW k \in DOMAIN z, z[k].do = "map" PROVE z[k].module \in Pending(s)
    <3>1. k # 1
      BY <1>3, <2>2 DEF Step
    <3>2. k \in 2..N /\ k \in DOMAIN s
      BY <1>1, <1>3, <3>1
    <3> QED BY <1>3, <2>2, <3>2 DEF Pending
  <2>3. Pending(z) \subseteq Pending(s)
    BY <2>2 DEF Pending
  <2> QED BY <2>1, <2>3, <1>6
<1>11. ASSUME NEW j \in Upto(M, Len(M)) \cup Pending(z) PROVE Prepared(z, ms, j)
  <2>1. Prepared(s, ms, j)
    BY <1>10 DEF Loading
  <2>2. ASSUME NEW k \in DOMAIN s, s[k] = Step("init", j)
        PROVE  \E a \in DOMAIN z : z[a] = Step("init", j)
    <3>1. k # 1
      BY <2>2 DEF Step
    <3>2. k \in 2..N /\ k \in DOMAIN z
      BY <1>1, <1>3, <3>1
    <3> QED BY <1>3, <2>2, <3>2
  <2> QED BY <2>1, <2>2 DEF Prepared
<1>12. g = <<>> /\ Quiet(ms)
  BY DEF Loading
<1> QED BY <1>5, <1>6, <1>7, <1>8, <1>9, <1>11, <1>12 DEF Loading, M

\* The load is undone.
LEMMA Undone ==
  ASSUME NEW y \in Work, NEW ms, ModulesType(ms), NEW r, NEW L \in Seq(DOMAIN ms), Quiet(ms),
         Registry(r, L, Len(L), Len(L)),
         y.script = Cleanup(L) \o Final("abandon"), y.made = L
  PROVE  RollingBack(y, <<>>, ms, r)
<1> DEFINE s == y.script
<1>1. L \in Seq(Nat)
  BY DEF ModulesType
<1>2. "abandon" \in Acts
  BY DEF Acts, Finals
<1>3. /\ s \in Seq(Steps) /\ Len(s) = Len(L) + 1
      /\ \A k \in 1..Len(L) : s[k] = Step("fini", L[Len(L) + 1 - k])
      /\ s[Len(s)] = Step("abandon", 0)
  BY <1>1, <1>2, CleanupFacts
<1>4. Len(L) \in Nat
  OBVIOUS
<1> HIDE DEF s
<1>5. \A j \in 1..(Len(s) - 1) : s[j].module = L[Len(s) - j] /\ s[j].do = "fini"
  <2> SUFFICES ASSUME NEW j \in 1..(Len(s) - 1)
               PROVE  s[j].module = L[Len(s) - j] /\ s[j].do = "fini"
    OBVIOUS
  <2>1. j \in 1..Len(L) /\ Len(s) - j = Len(L) + 1 - j
    BY <1>3, <1>4
  <2>2. s[j] = Step("fini", L[Len(L) + 1 - j])
    BY <1>3, <2>1
  <2> QED BY <2>1, <2>2 DEF Step
<1>6. s[1].do # "unmap"
  <2>1. CASE Len(L) = 0
    BY <1>3, <2>1 DEF Step
  <2>2. CASE Len(L) # 0
    <3>1. 1 \in 1..(Len(s) - 1)
      BY <1>3, <1>4, <2>2
    <3> QED BY <1>5, <3>1
  <2> QED BY <2>1, <2>2
<1>7. Registry(r, L, Len(s) - 1, IF s[1].do = "unmap" THEN Len(s) - 2 ELSE Len(s) - 1)
  <2>1. Len(s) - 1 = Len(L)
    BY <1>3, <1>4
  <2> QED BY <2>1, <1>6
<1>8. Cleaning(r, L, s, "abandon")
  BY <1>3, <1>4, <1>5, <1>7 DEF Cleaning, Phases
<1> QED BY <1>8 DEF RollingBack, s

-----------------------------------------------------------------------------
\* The steps of a cleanup

LEMMA CleaningHead ==
  ASSUME NEW r, NEW S, NEW L \in Seq(S), NEW s \in Seq(Steps), s # <<>>, NEW final \in Finals,
         Cleaning(r, L, s, final), s[1].do # final
  PROVE  /\ Len(s) \in Nat /\ Len(s) >= 2 /\ Len(s) - 1 \in 1..Len(L)
         /\ s[1].do \in Phases /\ s[1].module = L[Len(s) - 1]
<1> DEFINE N == Len(s)
<1>1. N \in Nat /\ N >= 1
  OBVIOUS
<1>2. s[N].do = final
  BY DEF Cleaning, Step
<1>3. N # 1
  BY <1>2
<1>4. N <= Len(L) + 1 /\ Len(L) \in Nat
  BY <1>1 DEF Cleaning
<1> HIDE DEF N
<1>5. N >= 2 /\ 1 \in 1..(N - 1) /\ N - 1 \in 1..Len(L)
  BY <1>1, <1>3, <1>4
<1>6. s[1].do \in Phases /\ s[1].module = L[N - 1]
  BY <1>5 DEF Cleaning, N
<1> QED BY <1>1, <1>5, <1>6 DEF N

LEMMA CleaningNext ==
  ASSUME NEW r, NEW r2, NEW S, NEW L \in Seq(S), NEW s \in Seq(Steps), s # <<>>,
         NEW final \in Finals, Cleaning(r, L, s, final), s[1].do # final,
         Registry(r2, L, Len(Rest(s)) - 1,
                  IF Rest(s)[1].do = "unmap" THEN Len(Rest(s)) - 2 ELSE Len(Rest(s)) - 1)
  PROVE  Cleaning(r2, L, Rest(s), final)
<1> DEFINE N == Len(s)
           z == Rest(s)
<1>1. N \in Nat /\ N >= 2 /\ N - 1 \in 1..Len(L)
      /\ s[1].do \in Phases /\ s[1].module = L[N - 1]
  BY CleaningHead
<1>2. CASE s[1].do \in DOMAIN Follows
  <2>1. Len(z) = N /\ z[1] = Step(Follows[s[1].do], s[1].module)
        /\ \A k \in 2..N : z[k] = s[k]
    BY <1>2, RestFacts
  <2>2. z[1].module = L[N - 1] /\ z[1].do \in Phases
    BY <1>1, <1>2, <2>1, Followed DEF Step, Phases
  <2>3. z[N] = Step(final, 0)
    <3>1. N \in 2..N
      BY <1>1
    <3> QED BY <2>1, <3>1 DEF Cleaning
  <2> HIDE DEF z
  <2>4. ASSUME NEW j \in 1..(N - 1)
        PROVE  z[j].module = L[N - j] /\ z[j].do \in Phases /\ (j > 1 => z[j].do = "fini")
    <3>1. CASE j = 1
      BY <2>2, <3>1
    <3>2. CASE j # 1
      <4>1. j \in 2..N /\ j > 1
        BY <1>1, <3>2
      <4>2. z[j] = s[j]
        BY <2>1, <4>1
      <4> QED BY <4>1, <4>2 DEF Cleaning
    <3> QED BY <3>1, <3>2
  <2>5. N - 1 <= Len(L)
    BY DEF Cleaning
  <2> QED BY <2>1, <2>3, <2>4, <2>5 DEF Cleaning, z
<1>3. CASE s[1].do \notin DOMAIN Follows
  <2>1. Len(z) = N - 1 /\ \A k \in 1..(N - 1) : z[k] = s[k + 1]
    BY <1>3, RestFacts
  <2> HIDE DEF z
  <2>2. z[N - 1] = Step(final, 0)
    <3>1. N - 1 \in 1..(N - 1) /\ (N - 1) + 1 = N
      BY <1>1
    <3> QED BY <2>1, <3>1 DEF Cleaning
  <2>3. ASSUME NEW j \in 1..(N - 2)
        PROVE  z[j].module = L[(N - 1) - j] /\ z[j].do = "fini"
    <3>1. j \in 1..(N - 1) /\ j + 1 \in 1..(N - 1) /\ j + 1 > 1 /\ N - (j + 1) = (N - 1) - j
      BY <1>1
    <3>2. z[j] = s[j + 1]
      BY <2>1, <3>1
    <3>3. s[j + 1].module = L[N - (j + 1)] /\ s[j + 1].do = "fini"
      BY <3>1 DEF Cleaning
    <3> QED BY <3>1, <3>2, <3>3
  <2>4. Len(z) - 1 <= Len(L) /\ Len(z) - 1 = N - 2
    BY <1>1, <2>1
  <2> QED BY <2>1, <2>2, <2>3, <2>4 DEF Cleaning, Phases, z
<1> QED BY <1>2, <1>3

\* What is the next step when the head of a cleanup is done.
LEMMA CleaningRest ==
  ASSUME NEW r, NEW S, NEW L \in Seq(S), NEW s \in Seq(Steps), s # <<>>, NEW final \in Finals,
         Cleaning(r, L, s, final), s[1].do # final
  PROVE  /\ s[1].do # "unmap" => /\ Len(Rest(s)) = Len(s)
                                 /\ Rest(s)[1].do = Follows[s[1].do]
         /\ s[1].do = "unmap" => /\ Len(Rest(s)) = Len(s) - 1
                                 /\ Rest(s)[1].do \in {"fini", final}
<1> DEFINE N == Len(s)
<1>1. N \in Nat /\ N >= 2 /\ s[1].do \in Phases
  BY CleaningHead
<1>2. CASE s[1].do # "unmap"
  <2>1. s[1].do \in DOMAIN Follows
    BY <1>1, <1>2, Followed DEF Phases
  <2>2. Len(Rest(s)) = Len(s) /\ Rest(s)[1] = Step(Follows[s[1].do], s[1].module)
    BY <2>1, RestFacts
  <2>3. Rest(s)[1].do = Follows[s[1].do]
    BY <2>2 DEF Step
  <2> QED BY <1>2, <2>2, <2>3
<1>3. CASE s[1].do = "unmap"
  <2>1. s[1].do \notin DOMAIN Follows
    BY <1>3, Followed
  <2>2. Len(Rest(s)) = N - 1 /\ \A k \in 1..(N - 1) : Rest(s)[k] = s[k + 1]
    BY <2>1, RestFacts
  <2>3. 1 \in 1..(N - 1)
    BY <1>1
  <2>4. Rest(s)[1] = s[2]
    BY <2>2, <2>3
  <2>5. s[2].do \in {"fini", final}
    <3>1. CASE N = 2
      BY <3>1 DEF Cleaning, Step
    <3>2. CASE N # 2
      <4> HIDE DEF N
      <4>1. 2 \in 1..(N - 1) /\ 2 > 1
        BY <1>1, <3>2
      <4> USE DEF N
      <4> QED BY <4>1 DEF Cleaning
    <3> QED BY <3>1, <3>2
  <2> QED BY <1>3, <2>2, <2>4, <2>5
<1> QED BY <1>2, <1>3

LEMMA NotUnmap == \A final \in Finals : final # "unmap" /\ final \notin Phases
BY DEF Finals, Phases

LEMMA CleaningHook ==
  ASSUME NEW r, NEW S, NEW L \in Seq(S), NEW s \in Seq(Steps), s # <<>>, NEW final \in Finals,
         Cleaning(r, L, s, final), s[1].do \in {"fini", "clear"}
  PROVE  Cleaning(r, L, Rest(s), final)
<1>1. s[1].do # final
  BY DEF Finals
<1>2. Len(Rest(s)) = Len(s) /\ Rest(s)[1].do # "unmap"
  BY <1>1, CleaningRest, Followed
<1>3. Registry(r, L, Len(s) - 1, Len(s) - 1)
  BY DEF Cleaning
<1> QED BY <1>1, <1>2, <1>3, CleaningNext

LEMMA CleaningUnpublish ==
  ASSUME NEW r, NEW r2, NEW S, NEW L \in Seq(S), NEW s \in Seq(Steps), s # <<>>,
         NEW final \in Finals, Cleaning(r, L, s, final), s[1].do = "unpublish",
         r2.leases = {l \in r.leases : l.importer # s[1].module},
         r2.mapped = r.mapped, r2.stuck = r.stuck,
         \/ r2.providers = r.providers /\ r2.orphans = r.orphans \cup {s[1].module}
         \/ r2.providers = r.providers \ {s[1].module} /\ r2.orphans = r.orphans \ {s[1].module}
  PROVE  Cleaning(r2, L, Rest(s), final)
<1>1. s[1].do # final
  BY DEF Finals
<1>2. Len(Rest(s)) = Len(s) /\ Rest(s)[1].do = "unmap"
  BY <1>1, CleaningRest, Followed
<1> DEFINE n == Len(s) - 1
<1>3. n \in 1..Len(L) /\ s[1].module = L[n] /\ Len(s) \in Nat
  BY <1>1, CleaningHead
<1>4. Registry(r, L, n, n)
  BY DEF Cleaning
<1> HIDE DEF n
<1>5. Registry(r2, L, n, n - 1)
  BY <1>3, <1>4, UnpublishRegistry
<1>6. n - 1 = Len(s) - 2
  BY <1>3 DEF n
<1>7. Registry(r2, L, Len(s) - 1, Len(s) - 2)
  BY <1>5, <1>6 DEF n
<1> QED BY <1>1, <1>2, <1>7, CleaningNext

LEMMA CleaningUnmap ==
  ASSUME NEW r, NEW r2, NEW S, NEW L \in Seq(S), NEW s \in Seq(Steps), s # <<>>,
         NEW final \in Finals, Cleaning(r, L, s, final), s[1].do = "unmap",
         r2.leases = r.leases, r2.providers = r.providers, r2.orphans = r.orphans,
         \/ r2.mapped = r.mapped \ {s[1].module} /\ r2.stuck = r.stuck \ {s[1].module}
         \/ r2.mapped = r.mapped /\ r2.stuck = r.stuck \cup {s[1].module}
  PROVE  /\ Cleaning(r2, L, Rest(s), final)
         /\ s[1].module \in r.providers => s[1].module \in r.orphans
<1>1. s[1].do # final
  BY DEF Finals
<1>2. Len(Rest(s)) = Len(s) - 1 /\ Rest(s)[1].do # "unmap"
  BY <1>1, CleaningRest, NotUnmap
<1> DEFINE n == Len(s) - 1
<1>3. n \in 1..Len(L) /\ s[1].module = L[n] /\ Len(s) \in Nat /\ n - 1 = Len(s) - 2
  BY <1>1, CleaningHead
<1>4. Registry(r, L, n, Len(s) - 2)
  BY DEF Cleaning
<1> HIDE DEF n
<1>a. Registry(r, L, n, n - 1)
  BY <1>3, <1>4
<1>5. Registry(r2, L, n - 1, n - 1)
  BY <1>3, <1>a, UnmapRegistry
<1>6. Len(Rest(s)) - 1 = n - 1
  BY <1>2, <1>3 DEF n
<1>7. Cleaning(r2, L, Rest(s), final)
  BY <1>1, <1>2, <1>5, <1>6, CleaningNext
<1>8. L[n] \notin Upto(L, n - 1)
  <2> SUFFICES ASSUME NEW j \in 1..(n - 1), L[j] = L[n] PROVE FALSE
    BY DEF Upto
  <2>1. j \in DOMAIN L /\ n \in DOMAIN L /\ j # n
    BY <1>3
  <2> QED BY <2>1, <1>a DEF Registry, Injective
<1> QED BY <1>3, <1>7, <1>8, <1>a DEF Registry

\* A roll-back takes a step.
LEMMA RollingBackNext ==
  ASSUME NEW x \in Work, NEW y \in Work, x.script # <<>>, NEW g, NEW ms, NEW ms2, NEW r, NEW r2,
         RollingBack(x, g, ms, r), DOMAIN ms2 = DOMAIN ms, Quiet(ms2),
         y.script = Rest(x.script), y.made = x.made,
         Cleaning(r, x.made, x.script, "abandon") => Cleaning(r2, x.made, y.script, "abandon")
  PROVE  RollingBack(y, g, ms2, r2)
BY DEF RollingBack

\* The bound of the initialized modules that an unload under way admits.
Bound(s) == IF s[1].do \in Phases \ {"fini"} THEN Len(s) - 2 ELSE Len(s) - 1

LEMMA EmptyingNext ==
  ASSUME NEW x \in Work, NEW y \in Work, x.script # <<>>, NEW S, NEW g \in Seq(S),
         NEW ms, NEW ms2, NEW r, NEW r2,
         Emptying(x, g, ms, r), Quiet(ms2), x.script[1].do # "emptied",
         y.script = Rest(x.script), y.made = x.made,
         Cleaning(r2, g, y.script, "emptied"),
         \/ /\ x.script[1].do # "fini"
            /\ \A m \in 0..Len(g) : Cut(ms, g, m) => Cut(ms2, g, m)
         \/ /\ x.script[1].do = "fini"
            /\ \A m \in 0..Len(g) : Cut(ms, g, m) /\ m <= Len(x.script) - 1 =>
                 \E k \in 0..Len(g) : Cut(ms2, g, k) /\ k <= Len(x.script) - 2
  PROVE  Emptying(y, g, ms2, r2)
<1> DEFINE s == x.script
           N == Len(s)
<1>1. s \in Seq(Steps) /\ "emptied" \in Finals /\ Cleaning(r, g, s, "emptied")
  BY DEF Work, Finals, Emptying
<1>2. N \in Nat /\ N >= 2 /\ s[1].do \in Phases
  BY <1>1, CleaningHead
<1>3. PICK m \in 0..Len(g) : Cut(ms, g, m) /\ m <= Bound(s)
  BY DEF Emptying, Bound
<1>4. \E k \in 0..Len(g) : Cut(ms2, g, k) /\ k <= Bound(Rest(s))
  <2>1. CASE s[1].do = "fini"
    <3>1. Len(Rest(s)) = N /\ Rest(s)[1].do = "clear"
      BY <1>1, <2>1, CleaningRest, Followed
    <3>2. Bound(s) = N - 1 /\ Bound(Rest(s)) = N - 2
      BY <2>1, <3>1 DEF Bound, Phases
    <3> QED BY <1>3, <2>1, <3>2
  <2>2. CASE s[1].do \in {"clear", "unpublish"}
    <3>1. Len(Rest(s)) = N /\ Rest(s)[1].do \in {"unpublish", "unmap"}
      BY <1>1, <2>2, CleaningRest, Followed
    <3>2. Bound(s) = N - 2 /\ Bound(Rest(s)) = N - 2
      BY <2>2, <3>1 DEF Bound, Phases
    <3> QED BY <1>3, <2>2, <3>2
  <2>3. CASE s[1].do = "unmap"
    <3>1. Len(Rest(s)) = N - 1 /\ Rest(s)[1].do \in {"fini", "emptied"}
      BY <1>1, <2>3, CleaningRest
    <3>2. Bound(s) = N - 2 /\ Bound(Rest(s)) = N - 2
      BY <1>2, <2>3, <3>1 DEF Bound, Phases
    <3> QED BY <1>3, <2>3, <3>2
  <2> QED BY <1>2, <2>1, <2>2, <2>3 DEF Phases
<1> QED BY <1>4 DEF Emptying, Bound

\* The finalizers of the last module that is to be finalized.
LEMMA CutLast ==
  ASSUME NEW S, NEW g \in Seq(S), NEW ms, NEW ms2, NEW n \in 1..Len(g), NEW m \in 0..Len(g),
         Injective(g), \A k \in DOMAIN g : g[k] \in DOMAIN ms,
         Hooked(ms, ms2, g[n], "fini", TRUE) \/ Hooked(ms, ms2, g[n], "fini", FALSE),
         Cut(ms, g, m), m <= n
  PROVE  \E k \in 0..Len(g) : Cut(ms2, g, k) /\ k <= n - 1
<1> DEFINE c == IF m <= n - 1 THEN m ELSE n - 1
<1>1. c \in 0..Len(g) /\ c <= n - 1 /\ c <= m
  OBVIOUS
<1>2. ASSUME NEW k \in DOMAIN g
      PROVE  IF k <= c THEN "init" \in ms2[g[k]].definition.hooks => ms2[g[k]].initialized
             ELSE ~ms2[g[k]].initialized
  <2>1. CASE k = n
    <3>1. ~(k <= c)
      BY <2>1
    <3>2. ~ms2[g[k]].initialized
      BY <2>1 DEF Hooked
    <3> QED BY <3>1, <3>2
  <2>2. CASE k # n
    <3>1. g[k] # g[n] /\ g[k] \in DOMAIN ms
      BY <2>2 DEF Injective
    <3>2. ms2[g[k]] = ms[g[k]]
      BY <3>1 DEF Hooked
    <3>3. k <= c <=> k <= m
      BY <2>2
    <3> QED BY <3>2, <3>3 DEF Cut
  <2> QED BY <2>1, <2>2
<1>3. Cut(ms2, g, c)
  BY <1>2 DEF Cut
<1> QED BY <1>1, <1>3

LEMMA SameCut ==
  ASSUME NEW ms, NEW ms2, NEW g, NEW m, Cut(ms, g, m),
         \A k \in DOMAIN g : /\ ms2[g[k]].definition = ms[g[k]].definition
                             /\ ms2[g[k]].initialized = ms[g[k]].initialized
  PROVE  Cut(ms2, g, m)
BY DEF Cut

-----------------------------------------------------------------------------
\* The steps of the application's operations

\* Changes that are neither to definitions nor to what is initialized.
SameButRunning(ms, ms2) ==
  /\ DOMAIN ms2 = DOMAIN ms
  /\ \A i \in DOMAIN ms : /\ ms2[i].definition = ms[i].definition
                          /\ ms2[i].initialized = ms[i].initialized

LEMMA HookedSame ==
  ASSUME NEW ms, NEW ms2, NEW i, NEW hook, NEW ok \in BOOLEAN, Hooked(ms, ms2, i, hook, ok),
         hook \notin {"init", "fini"}
  PROVE  SameButRunning(ms, ms2)
<1>1. ASSUME NEW j \in DOMAIN ms
      PROVE  ms2[j].definition = ms[j].definition /\ ms2[j].initialized = ms[j].initialized
  <2>1. CASE j = i
    BY <2>1 DEF Hooked
  <2>2. CASE j # i
    BY <2>2 DEF Hooked
  <2> QED BY <2>1, <2>2
<1> QED BY <1>1 DEF SameButRunning, Hooked

LEMMA HookedRunning ==
  ASSUME NEW ms, NEW ms2, NEW i, NEW hook, NEW ok \in BOOLEAN, Hooked(ms, ms2, i, hook, ok),
         hook \notin {"starts", "ends"}
  PROVE  \A j \in DOMAIN ms : ms2[j].running = ms[j].running
         /\ ms2[j].definition = ms[j].definition
<1> SUFFICES ASSUME NEW j \in DOMAIN ms
             PROVE  ms2[j].running = ms[j].running /\ ms2[j].definition = ms[j].definition
  OBVIOUS
<1>1. CASE j = i
  BY <1>1 DEF Hooked
<1>2. CASE j # i
  BY <1>2 DEF Hooked
<1> QED BY <1>1, <1>2

LEMMA SameHeld ==
  ASSUME NEW S, NEW g \in Seq(S), NEW ms, NEW ms2, NEW r, S \subseteq DOMAIN ms,
         Held(g, ms, r), SameButRunning(ms, ms2)
  PROVE  Held(g, ms2, r)
<1>1. PICK m \in 0..Len(g) : Cut(ms, g, m)
  BY DEF Held
<1>2. \A k \in DOMAIN g : g[k] \in DOMAIN ms
  OBVIOUS
<1>3. Cut(ms2, g, m)
  BY <1>1, <1>2, SameCut DEF SameButRunning
<1> QED BY <1>3 DEF Held

LEMMA TailFacts ==
  ASSUME NEW s \in Seq(Steps), s # <<>>, s[1].do \notin DOMAIN Follows
  PROVE  /\ Rest(s) \in Seq(Steps) /\ Len(Rest(s)) = Len(s) - 1
         /\ \A k \in 1..(Len(s) - 1) : Rest(s)[k] = s[k + 1]
         /\ \A k \in 2..Len(s) : k - 1 \in DOMAIN Rest(s) /\ Rest(s)[k - 1] = s[k]
<1> DEFINE z == Rest(s)
           N == Len(s)
<1>1. z \in Seq(Steps) /\ Len(z) = N - 1 /\ (\A k \in 1..(N - 1) : z[k] = s[k + 1])
  BY RestFacts
<1>2. N \in Nat /\ DOMAIN z = 1..(N - 1)
  BY <1>1
<1> HIDE DEF z, N
<1>3. \A k \in 2..N : k - 1 \in 1..(N - 1) /\ (k - 1) + 1 = k
  BY <1>2
<1>4. \A k \in 2..N : k - 1 \in DOMAIN z /\ z[k - 1] = s[k]
  <2> SUFFICES ASSUME NEW k \in 2..N PROVE k - 1 \in DOMAIN z /\ z[k - 1] = s[k]
    OBVIOUS
  <2>1. k - 1 \in 1..(N - 1) /\ (k - 1) + 1 = k
    BY <1>3
  <2> QED BY <2>1, <1>1, <1>2
<1> QED BY <1>1, <1>4 DEF z, N

LEMMA TwoAtLeast ==
  ASSUME NEW S, NEW s \in Seq(S), s # <<>>, Len(s) # 1
  PROVE  Len(s) \in Nat /\ Len(s) >= 2
<1> DEFINE N == Len(s)
<1>1. N \in Nat /\ N # 0 /\ N # 1
  OBVIOUS
<1> HIDE DEF N
<1>2. N >= 2
  BY <1>1
<1> QED BY <1>1, <1>2 DEF N

LEMMA CoveredTail ==
  ASSUME NEW s \in Seq(Steps), s # <<>>, s[1].do \in {"ends", "allEnds"},
         NEW ms, NEW ms2, NEW ok \in BOOLEAN, Hooked(ms, ms2, s[1].module, s[1].do, ok),
         Covered(s, ms)
  PROVE  Covered(Rest(s), ms2)
<1> DEFINE z == Rest(s)
<1>1. \A k \in 2..Len(s) : k - 1 \in DOMAIN z /\ z[k - 1] = s[k]
  <2>1. s[1].do \notin DOMAIN Follows
    BY Followed
  <2> QED BY <2>1, TailFacts
<1> HIDE DEF z
<1> SUFFICES ASSUME NEW i \in DOMAIN ms, ms2[i].running
             PROVE  \E k \in DOMAIN z : z[k] = Step("ends", i)
  BY DEF Covered, Hooked, z
<1>2. ms[i].running /\ s[1] # Step("ends", i)
  <2>1. CASE i = s[1].module
    BY <2>1 DEF Hooked, Step
  <2>2. CASE i # s[1].module
    BY <2>2 DEF Hooked, Step
  <2> QED BY <2>1, <2>2
<1>3. PICK k \in DOMAIN s : s[k] = Step("ends", i)
  BY <1>2 DEF Covered
<1>4. k \in 2..Len(s)
  BY <1>2, <1>3
<1> QED BY <1>1, <1>3, <1>4

LEMMA EndingNext ==
  ASSUME NEW x \in Work, NEW y \in Work, x.script # <<>>, NEW ms, NEW ms2,
         NEW g \in Seq(DOMAIN ms), NEW r, Ending(x, g, ms, r),
         x.script[1].do \in {"ends", "allEnds"},
         y.script = Rest(x.script), y.made = x.made,
         NEW ok \in BOOLEAN, Hooked(ms, ms2, x.script[1].module, x.script[1].do, ok)
  PROVE  Ending(y, g, ms2, r) /\ y.script # <<>>
<1> DEFINE s == x.script
           z == y.script
           N == Len(s)
<1>1. s \in Seq(Steps) /\ N \in Nat
  BY DEF Work
<1>2. z \in Seq(Steps) /\ Len(z) = N - 1 /\ \A k \in 1..(N - 1) : z[k] = s[k + 1]
  BY <1>1, Followed, TailFacts
<1>3. N # 1
  BY DEF Ending
<1>4. N >= 2
  BY <1>1, <1>3, TwoAtLeast
<1>5. Held(g, ms2, r)
  BY HookedSame, SameHeld DEF Ending
<1>6. Covered(z, ms2)
  BY <1>1, CoveredTail DEF Ending
<1> HIDE DEF z
<1>7. z[Len(z)] = s[N]
  <2>1. N - 1 \in 1..(N - 1) /\ (N - 1) + 1 = N
    BY <1>1, <1>4
  <2> QED BY <1>2, <2>1
<1>8. ASSUME NEW k \in 1..(Len(z) - 1) PROVE z[k].do \in {"ends", "allEnds"}
  <2>1. k \in 1..(N - 1) /\ k + 1 \in 1..(N - 1)
    BY <1>1, <1>2
  <2> QED BY <1>2, <2>1 DEF Ending
<1>9. z # <<>>
  BY <1>1, <1>2, <1>4
<1> QED BY <1>5, <1>6, <1>7, <1>8, <1>9 DEF Ending, z

LEMMA StoppingNext ==
  ASSUME NEW x \in Work, NEW y \in Work, x.script # <<>>, NEW ms, NEW ms2,
         NEW g \in Seq(DOMAIN ms), NEW r, Stopping(x, g, ms, r),
         x.script[1].do \in {"ends", "allEnds"},
         y.script = Rest(x.script), y.made = x.made,
         NEW ok \in BOOLEAN, Hooked(ms, ms2, x.script[1].module, x.script[1].do, ok)
  PROVE  Stopping(y, g, ms2, r)
<1> DEFINE s == x.script
           z == y.script
           N == Len(s)
           G == Len(g)
           p == N - G - 1
<1>1. s \in Seq(Steps) /\ N \in Nat /\ G \in Nat
  BY DEF Work
<1>2. z \in Seq(Steps) /\ Len(z) = N - 1 /\ \A k \in 1..(N - 1) : z[k] = s[k + 1]
  BY <1>1, Followed, TailFacts
<1>3. /\ x.made = <<>> /\ p >= 1 /\ s[p].do = "stopped"
      /\ \A k \in 1..(p - 1) : s[k].do \in {"ends", "allEnds"}
      /\ \A j \in 1..G : s[p + j] = Step("fini", g[G + 1 - j])
      /\ s[N] = Step("emptied", 0) /\ s[p] = Step("stopped", 0)
  BY DEF Stopping, Step
<1>4. Held(g, ms2, r)
  BY HookedSame, SameHeld DEF Stopping
<1>5. Covered(z, ms2)
  BY <1>1, CoveredTail DEF Stopping
<1>6. p # 1
  BY <1>3
<1> HIDE DEF z, s
<1>7. p \in Int /\ p >= 2 /\ p <= N - 1 /\ N >= 2
  BY <1>1, <1>3, <1>6
<1>8. z[p - 1] = Step("stopped", 0)
  <2>1. p - 1 \in 1..(N - 1) /\ (p - 1) + 1 = p
    BY <1>1, <1>7
  <2> QED BY <1>2, <1>3, <2>1
<1>9. ASSUME NEW k \in 1..(p - 2) PROVE z[k].do \in {"ends", "allEnds"}
  <2>1. k \in 1..(N - 1) /\ k + 1 \in 1..(p - 1)
    BY <1>1, <1>7
  <2> QED BY <1>2, <1>3, <2>1
<1>10. ASSUME NEW j \in 1..G PROVE z[(p - 1) + j] = Step("fini", g[G + 1 - j])
  <2>1. (p - 1) + j \in 1..(N - 1) /\ ((p - 1) + j) + 1 = p + j
    BY <1>1, <1>7
  <2>2. z[(p - 1) + j] = s[p + j]
    BY <1>2, <2>1
  <2> QED BY <1>3, <2>2
<1>11. z[N - 1] = Step("emptied", 0)
  <2>1. N - 1 \in 1..(N - 1) /\ (N - 1) + 1 = N
    BY <1>1, <1>7
  <2> QED BY <1>2, <1>3, <2>1
<1>12. Len(z) - G - 1 = p - 1 /\ (p - 1) - 1 = p - 2 /\ p - 1 >= 1
  BY <1>1, <1>2, <1>7
<1> HIDE DEF p
<1> QED BY <1>2, <1>3, <1>4, <1>5, <1>8, <1>9, <1>10, <1>11, <1>12 DEF Stopping, z

\* The hooks of the end are over, nobody runs, and the cleanup begins.
LEMMA StoppedNext ==
  ASSUME NEW x \in Work, NEW y \in Work, x.script # <<>>, NEW S, NEW g \in Seq(S),
         NEW ms, NEW r, Stopping(x, g, ms, r),
         x.script[1].do = "stopped", y.script = Rest(x.script), y.made = x.made
  PROVE  Emptying(y, g, ms, r) /\ y.script # <<>>
<1> DEFINE s == x.script
           z == y.script
           N == Len(s)
           G == Len(g)
           p == N - G - 1
<1>1. s \in Seq(Steps) /\ N \in Nat /\ G \in Nat
  BY DEF Work
<1>2. z \in Seq(Steps) /\ Len(z) = N - 1 /\ \A k \in 1..(N - 1) : z[k] = s[k + 1]
  BY <1>1, Followed, TailFacts
<1>3. /\ x.made = <<>> /\ p >= 1
      /\ \A k \in 1..(p - 1) : s[k].do \in {"ends", "allEnds"}
      /\ \A j \in 1..G : s[p + j] = Step("fini", g[G + 1 - j])
      /\ s[N] = Step("emptied", 0)
      /\ Covered(s, ms)
      /\ Held(g, ms, r)
  BY DEF Stopping
<1>a. s[1].do = "stopped"
  OBVIOUS
<1> HIDE DEF z, s, G
<1>4. p = 1
  <2>1. ASSUME p # 1 PROVE FALSE
    <3>1. 1 \in 1..(p - 1)
      BY <1>1, <1>3, <2>1
    <3> QED BY <1>3, <1>a, <3>1
  <2> QED BY <2>1
<1>5. N = G + 2
  BY <1>1, <1>4
<1>6. \A j \in 1..G : s[1 + j] = Step("fini", g[G + 1 - j])
  BY <1>3, <1>4
<1>7. ASSUME NEW j \in 1..G PROVE z[j] = Step("fini", g[G + 1 - j])
  <2>1. j \in 1..(N - 1) /\ j + 1 = 1 + j
    BY <1>1, <1>5
  <2> QED BY <1>2, <1>6, <2>1
<1>8. z[G + 1] = Step("emptied", 0)
  <2>1. G + 1 \in 1..(N - 1) /\ (G + 1) + 1 = N
    BY <1>1, <1>5
  <2> QED BY <1>2, <1>3, <2>1
<1>9. Quiet(ms)
  <2> SUFFICES ASSUME NEW i \in DOMAIN ms, ms[i].running PROVE FALSE
    BY DEF Quiet
  <2>1. PICK k \in DOMAIN s : s[k] = Step("ends", i)
    BY <1>3 DEF Covered
  <2>2. s[k].do = "ends"
    BY <2>1 DEF Step
  <2>3. k # 1 /\ k # N
    BY <1>3, <1>a, <2>2 DEF Step
  <2>4. k - 1 \in 1..G /\ 1 + (k - 1) = k
    BY <1>1, <1>5, <2>3 DEF s
  <2>5. s[1 + (k - 1)] = Step("fini", g[G + 1 - (k - 1)])
    BY <1>6, <2>4
  <2>6. s[k].do = "fini"
    BY <2>4, <2>5 DEF Step
  <2> QED BY <2>2, <2>6
<1>10. z[1].do \in {"fini", "emptied"}
  <2>1. CASE G = 0
    BY <1>8, <2>1 DEF Step
  <2>2. CASE G # 0
    <3>1. 1 \in 1..G
      BY <1>1, <2>2
    <3>2. z[1] = Step("fini", g[G + 1 - 1])
      BY <1>7, <3>1
    <3> QED BY <3>2 DEF Step
  <2> QED BY <2>1, <2>2
<1>11. Len(z) = G + 1 /\ Len(z) - 1 = G
  BY <1>1, <1>2, <1>5
<1>12. Cleaning(r, g, z, "emptied")
  <2>1. Registry(r, g, G, G)
    BY <1>3 DEF Held, G
  <2>2. ASSUME NEW j \in 1..G
        PROVE  z[j].module = g[Len(z) - j] /\ z[j].do \in Phases /\ (j > 1 => z[j].do = "fini")
    <3>1. Len(z) - j = G + 1 - j
      BY <1>11
    <3>2. z[j] = Step("fini", g[Len(z) - j])
      BY <1>7, <3>1
    <3> QED BY <3>2 DEF Step, Phases
  <2>3. G <= Len(g)
    BY <1>1 DEF G
  <2> QED BY <1>8, <1>10, <1>11, <2>1, <2>2, <2>3 DEF Cleaning
<1>13. PICK m \in 0..G : Cut(ms, g, m)
  BY <1>3 DEF Held, G
<1>14. z # <<>>
  BY <1>1, <1>11
<1> QED BY <1>3, <1>9, <1>10, <1>11, <1>12, <1>13, <1>14 DEF Emptying, Phases, G, z

LEMMA ExitingNext ==
  ASSUME NEW x \in Work, NEW y \in Work, x.script # <<>>, NEW ms, NEW ms2,
         NEW g \in Seq(DOMAIN ms), NEW r, NEW started, Exiting(x, g, ms, r, started),
         x.script[1].do \in {"exit", "allExit"},
         y.script = Rest(x.script), y.made = x.made,
         NEW ok \in BOOLEAN, Hooked(ms, ms2, x.script[1].module, x.script[1].do, ok)
  PROVE  Exiting(y, g, ms2, r, started) /\ y.script # <<>>
<1> DEFINE s == x.script
           z == y.script
           N == Len(s)
<1>1. s \in Seq(Steps) /\ N \in Nat
  BY DEF Work
<1>2. z \in Seq(Steps) /\ Len(z) = N - 1 /\ \A k \in 1..(N - 1) : z[k] = s[k + 1]
  BY <1>1, Followed, TailFacts
<1>3. N # 1
  BY DEF Exiting
<1>4. N >= 2
  BY <1>1, <1>3, TwoAtLeast
<1>5. Held(g, ms2, r)
  BY HookedSame, SameHeld DEF Exiting
<1>6. Paired(ms2, g, started)
  <2>1. \A j \in DOMAIN ms : ms2[j].running = ms[j].running /\ ms2[j].definition = ms[j].definition
    BY HookedRunning
  <2>2. DOMAIN ms2 = DOMAIN ms
    BY DEF Hooked
  <2> QED BY <2>1, <2>2 DEF Paired, Quiet, Exiting
<1> HIDE DEF z
<1>7. z[Len(z)] = s[N]
  <2>1. N - 1 \in 1..(N - 1) /\ (N - 1) + 1 = N
    BY <1>1, <1>4
  <2> QED BY <1>2, <2>1
<1>8. ASSUME NEW k \in 1..(Len(z) - 1) PROVE z[k].do \in {"exit", "allExit"}
  <2>1. k \in 1..(N - 1) /\ k + 1 \in 1..(N - 1)
    BY <1>1, <1>2
  <2> QED BY <1>2, <2>1 DEF Exiting
<1>9. z # <<>>
  BY <1>1, <1>2, <1>4
<1> QED BY <1>5, <1>6, <1>7, <1>8, <1>9 DEF Exiting, z

\* How many modules a start has been through.
Through(s, g) == IF Len(s) - 1 - Len(g) >= 0 THEN Len(g) - (Len(s) - 1 - Len(g)) ELSE Len(g)

LEMMA StartingHead ==
  ASSUME NEW x \in Work, x.script # <<>>, NEW S, NEW g \in Seq(S), NEW ms, NEW r,
         Starting(x, g, ms, r), x.script[1].do \in {"starts", "allStarts"}
  PROVE  /\ Len(x.script) \in Nat /\ Len(x.script) >= 2 /\ x.script \in Seq(Steps)
         /\ Through(x.script, g) \in 0..Len(g)
         /\ x.script[1].do = "starts" =>
              /\ Len(x.script) - 1 - Len(g) >= 1
              /\ Through(x.script, g) + 1 \in 1..Len(g)
              /\ x.script[1].module = g[Through(x.script, g) + 1]
         /\ x.script[1].do = "allStarts" =>
              Len(x.script) - 1 - Len(g) <= 0 /\ Through(x.script, g) = Len(g)
<1> DEFINE s == x.script
           N == Len(s)
           G == Len(g)
           q == N - 1 - G
           d == Through(s, g)
<1>1. s \in Seq(Steps) /\ G \in Nat
  BY DEF Work
<1>2. N # 1
  BY DEF Starting
<1>3. N \in Nat /\ N >= 2
  BY <1>1, <1>2, TwoAtLeast
<1>4. q <= G
  BY DEF Starting
<1>5. d = IF q >= 0 THEN G - q ELSE G
  BY DEF Through
<1>6. s[1].do = "starts" \/ s[1].do = "allStarts"
  OBVIOUS
<1>7. 1 \in 1..(N - 1)
  BY <1>3
<1>8. IF 1 <= q THEN s[1] = Step("starts", g[d + 1]) ELSE s[1].do = "allStarts"
  <2>1. \A k \in 1..(N - 1) :
          IF k <= q THEN s[k] = Step("starts", g[(IF q >= 0 THEN G - q ELSE G) + k])
          ELSE s[k].do = "allStarts"
    BY DEF Starting
  <2>2. IF 1 <= q THEN s[1] = Step("starts", g[(IF q >= 0 THEN G - q ELSE G) + 1])
        ELSE s[1].do = "allStarts"
    BY <1>7, <2>1
  <2> QED BY <1>5, <2>2
<1>9. 1 <= q => s[1].do = "starts" /\ s[1].module = g[d + 1]
  BY <1>8 DEF Step
<1> HIDE DEF N, G, d, s
<1>10. q \in Int
  BY <1>1, <1>3
<1> HIDE DEF q
<1>11. d \in 0..G /\ (1 <= q => d + 1 \in 1..G) /\ (q <= 0 => d = G)
  BY <1>1, <1>4, <1>5, <1>10
<1>12. 1 <= q \/ q <= 0
  BY <1>10
<1>13. s[1].do = "starts" => 1 <= q
  BY <1>8
<1>14. s[1].do = "allStarts" => q <= 0
  BY <1>9, <1>12
<1>15. s[1].do = "starts" => d + 1 \in 1..G /\ s[1].module = g[d + 1] /\ q >= 1
  BY <1>9, <1>11, <1>13
<1> QED BY <1>1, <1>3, <1>11, <1>14, <1>15 DEF N, G, d, s, q

LEMMA StartingNext ==
  ASSUME NEW x \in Work, NEW y \in Work, x.script # <<>>, NEW S, NEW g \in Seq(S),
         NEW ms, NEW ms2, NEW r, S \subseteq DOMAIN ms, Starting(x, g, ms, r),
         ModulesType(ms2), x.script[1].do \in {"starts", "allStarts"},
         y.script = Rest(x.script), y.made = x.made,
         Hooked(ms, ms2, x.script[1].module, x.script[1].do, TRUE)
  PROVE  Starting(y, g, ms2, r) /\ y.script # <<>>
<1> DEFINE s == x.script
           z == y.script
           N == Len(s)
           G == Len(g)
           q == N - 1 - G
           d == Through(s, g)
           e == Through(z, g)
<1>1. /\ s \in Seq(Steps) /\ N \in Nat /\ N >= 2 /\ G \in Nat /\ d \in 0..G
      /\ s[1].do = "starts" => q >= 1 /\ d + 1 \in 1..G /\ s[1].module = g[d + 1]
      /\ s[1].do = "allStarts" => q <= 0 /\ d = G
  BY StartingHead
<1>2. z \in Seq(Steps) /\ Len(z) = N - 1 /\ \A k \in 1..(N - 1) : z[k] = s[k + 1]
  BY <1>1, Followed, TailFacts
<1>a. d = IF q >= 0 THEN G - q ELSE G
  BY DEF Through
<1>b. e = IF (N - 1) - 1 - G >= 0 THEN G - ((N - 1) - 1 - G) ELSE G
  BY <1>2 DEF Through
<1>c. \A k \in 1..(N - 1) : IF k <= q THEN s[k] = Step("starts", g[d + k]) ELSE s[k].do = "allStarts"
  <2>1. \A k \in 1..(N - 1) :
          IF k <= q THEN s[k] = Step("starts", g[(IF q >= 0 THEN G - q ELSE G) + k])
          ELSE s[k].do = "allStarts"
    BY DEF Starting
  <2> QED BY <1>a, <2>1
<1>d. q <= G /\ s[N].do = "started" /\ Held(g, ms, r) /\ x.made = <<>>
  BY DEF Starting
<1>f. \A i \in DOMAIN ms : ms[i].running <=> i \in Upto(g, d) /\ "starts" \in ms[i].definition.hooks
  BY <1>a DEF Starting
<1>g. s[1].do \in {"starts", "allStarts"}
  OBVIOUS
<1>h. Hooked(ms, ms2, s[1].module, s[1].do, TRUE)
  OBVIOUS
<1>i. Held(g, ms2, r)
  BY <1>d, <1>g, <1>h, HookedSame, SameHeld
<1> HIDE DEF s, z, N, G, d, e
<1>3. q \in Int /\ e = (IF q - 1 >= 0 THEN G - (q - 1) ELSE G)
  BY <1>1, <1>b
<1>4. (s[1].do = "starts" => e = d + 1) /\ (s[1].do = "allStarts" => e = d)
  BY <1>1, <1>3, <1>a
<1>5. z[Len(z)].do = "started"
  <2>1. N - 1 \in 1..(N - 1) /\ (N - 1) + 1 = N
    BY <1>1
  <2> QED BY <1>2, <1>d, <2>1
<1>6. ASSUME NEW k \in 1..(Len(z) - 1)
      PROVE  IF k <= q - 1 THEN z[k] = Step("starts", g[e + k]) ELSE z[k].do = "allStarts"
  <2>1. k \in 1..(N - 1) /\ k + 1 \in 1..(N - 1) /\ (k <= q - 1 <=> k + 1 <= q)
    BY <1>1, <1>2, <1>3
  <2>2. z[k] = s[k + 1]
    BY <1>2, <2>1
  <2>3. CASE k <= q - 1
    <3>1. q >= 1 /\ k + 1 <= q
      BY <1>3, <2>1, <2>3
    <3>2. e + k = d + (k + 1)
      BY <1>1, <1>3, <1>a, <3>1
    <3>3. s[k + 1] = Step("starts", g[d + (k + 1)])
      BY <1>c, <2>1, <3>1
    <3> QED BY <2>2, <2>3, <3>2, <3>3
  <2>4. CASE ~(k <= q - 1)
    <3>1. s[k + 1].do = "allStarts"
      BY <1>c, <2>1, <2>4
    <3> QED BY <2>2, <2>4, <3>1
  <2> QED BY <2>3, <2>4
<1>7. ASSUME NEW i \in DOMAIN ms2
      PROVE  ms2[i].running <=> i \in Upto(g, e) /\ "starts" \in ms2[i].definition.hooks
  <2>1. i \in DOMAIN ms
    BY <1>h DEF Hooked
  <2>2. CASE s[1].do = "allStarts"
    <3>1. ms2[i].running = ms[i].running /\ ms2[i].definition = ms[i].definition
      BY <1>h, <2>1, <2>2, HookedRunning
    <3> QED BY <1>4, <1>f, <2>1, <2>2, <3>1
  <2>3. CASE s[1].do = "starts"
    <3>1. Upto(g, e) = Upto(g, d) \cup {g[d + 1]}
      BY <1>1, <1>4, <2>3 DEF Upto
    <3>2. CASE i = g[d + 1]
      <4>1. Hooked(ms, ms2, i, "starts", TRUE)
        BY <1>1, <1>h, <2>3, <3>2
      <4>2. ms2[i].running = (TRUE /\ "starts" \in ms[i].definition.hooks)
            /\ ms2[i].definition = ms[i].definition
        BY <2>1, <4>1 DEF Hooked
      <4> QED BY <3>1, <3>2, <4>2
    <3>3. CASE i # g[d + 1]
      <4>1. ms2[i] = ms[i]
        BY <1>1, <1>h, <2>1, <2>3, <3>3 DEF Hooked
      <4> QED BY <1>f, <2>1, <3>1, <3>3, <4>1
    <3> QED BY <3>2, <3>3
  <2> QED BY <1>g, <2>2, <2>3
<1>j. q = N - 1 - G /\ q <= G /\ G = Len(g)
  BY <1>d DEF G
<1>8. Len(z) - 1 - Len(g) = q - 1 /\ q - 1 <= G
  <2> HIDE DEF q
  <2>1. Len(z) = N - 1 /\ q \in Int /\ G \in Nat /\ N \in Nat
    BY <1>1, <1>2, <1>3
  <2> QED BY <1>j, <2>1
<1>9. z # <<>>
  BY <1>1, <1>2
<1> HIDE DEF q
<1> QED BY <1>3, <1>5, <1>6, <1>7, <1>8, <1>9, <1>d, <1>i DEF Starting, z, G

\* A start that fails ends those that it started.
LEMMA Unstarts ==
  ASSUME NEW y \in Work, NEW g, NEW ms, NEW r, ModulesType(ms),
         NEW L \in Seq(Nat), Held(g, ms, r),
         \A i \in DOMAIN ms : ms[i].running => i \in Upto(L, Len(L)),
         y.script = Calls("ends", Reverse(L)) \o Final("unstarted"), y.made = <<>>
  PROVE  Ending(y, g, ms, r) /\ y.script # <<>>
<1> DEFINE R == Reverse(L)
           a == Calls("ends", R)
           b == Final("unstarted")
           s == a \o b
           G == Len(L)
<1>1. "ends" \in Acts /\ "unstarted" \in Acts /\ G \in Nat
  BY DEF Acts, Hooks, Finals
<1>2. R \in Seq(Nat) /\ Len(R) = G /\ \A k \in 1..G : R[k] = L[G + 1 - k]
  BY ReverseFacts
<1> HIDE DEF R
<1>3. a \in Seq(Steps) /\ Len(a) = G /\ \A k \in 1..G : a[k] = Step("ends", R[k])
  BY <1>1, <1>2, CallsFacts
<1>4. b \in Seq(Steps) /\ Len(b) = 1 /\ b[1] = Step("unstarted", 0)
  BY <1>1, FinalFacts
<1> HIDE DEF a, b
<1>5. /\ s \in Seq(Steps) /\ Len(s) = G + 1 /\ (\A k \in 1..G : s[k] = a[k])
      /\ s[G + 1] = b[1]
  <2>1. s \in Seq(Steps) /\ Len(s) = Len(a) + Len(b) /\ (\A k \in 1..Len(a) : s[k] = a[k])
        /\ \A k \in 1..Len(b) : s[Len(a) + k] = b[k]
    BY <1>3, <1>4, ConcatFacts
  <2> QED BY <1>3, <1>4, <2>1
<1>a. y.script = s
  BY DEF s, a, b, R
<1> HIDE DEF s
<1>6. s[Len(s)].do = "unstarted"
  BY <1>4, <1>5 DEF Step
<1>7. \A k \in 1..(Len(s) - 1) : s[k].do = "ends"
  <2> SUFFICES ASSUME NEW k \in 1..(Len(s) - 1) PROVE s[k].do = "ends"
    OBVIOUS
  <2>1. k \in 1..G
    BY <1>1, <1>5
  <2>2. s[k] = Step("ends", R[k])
    BY <1>3, <1>5, <2>1
  <2> QED BY <2>2 DEF Step
<1>8. Covered(s, ms)
  <2> SUFFICES ASSUME NEW i \in DOMAIN ms, ms[i].running
               PROVE  \E k \in DOMAIN s : s[k] = Step("ends", i)
    BY DEF Covered
  <2>1. PICK j \in 1..G : L[j] = i
    BY DEF Upto
  <2>2. G + 1 - j \in 1..G /\ G + 1 - (G + 1 - j) = j
    BY <1>1
  <2>3. R[G + 1 - j] = L[j]
    <3>1. R[G + 1 - j] = L[G + 1 - (G + 1 - j)]
      BY <1>2, <2>2
    <3> QED BY <2>2, <3>1
  <2>4. s[G + 1 - j] = Step("ends", i)
    BY <1>3, <1>5, <2>1, <2>2, <2>3
  <2>5. G + 1 - j \in DOMAIN s
    BY <1>1, <1>5, <2>2
  <2> QED BY <2>4, <2>5
<1>9. s # <<>>
  BY <1>1, <1>5
<1> QED BY <1>6, <1>7, <1>8, <1>9, <1>a DEF Ending

-----------------------------------------------------------------------------
\* Operations begin

\* Two rounds of hooks and what concludes them.
Rounds(a, b, f, L) == Calls(a, L) \o Calls(b, L) \o Final(f)

LEMMA TwoRounds ==
  ASSUME NEW a \in Acts, NEW b \in Acts, NEW f \in Acts, NEW L \in Seq(Nat)
  PROVE  LET s == Rounds(a, b, f, L)
         IN /\ s \in Seq(Steps) /\ Len(s) = 2 * Len(L) + 1
            /\ \A k \in 1..Len(L) : s[k] = Step(a, L[k])
            /\ \A k \in 1..Len(L) : s[Len(L) + k] = Step(b, L[k])
            /\ s[2 * Len(L) + 1] = Step(f, 0)
<1> DEFINE u == Calls(a, L)
           v == Calls(b, L)
           w == Final(f)
           G == Len(L)
<1>1. /\ u \in Seq(Steps) /\ Len(u) = G /\ (\A k \in 1..G : u[k] = Step(a, L[k]))
      /\ v \in Seq(Steps) /\ Len(v) = G /\ (\A k \in 1..G : v[k] = Step(b, L[k]))
      /\ w \in Seq(Steps) /\ Len(w) = 1 /\ w[1] = Step(f, 0) /\ G \in Nat
  BY CallsFacts, FinalFacts
<1> HIDE DEF u, v, w, G
<1>2. /\ u \o v \in Seq(Steps) /\ Len(u \o v) = G + G
      /\ \A k \in 1..G : (u \o v)[k] = u[k]
      /\ \A k \in 1..G : (u \o v)[G + k] = v[k]
  <2>1. /\ u \o v \in Seq(Steps) /\ Len(u \o v) = Len(u) + Len(v)
        /\ \A k \in 1..Len(u) : (u \o v)[k] = u[k]
        /\ \A k \in 1..Len(v) : (u \o v)[Len(u) + k] = v[k]
    BY <1>1, ConcatFacts
  <2> QED BY <1>1, <2>1
<1> DEFINE c == u \o v
           s == c \o w
<1>3. c \in Seq(Steps) /\ Len(c) = G + G
  BY <1>2
<1> HIDE DEF c
<1>4. /\ s \in Seq(Steps) /\ Len(s) = (G + G) + 1
      /\ \A k \in 1..(G + G) : s[k] = c[k]
      /\ \A k \in 1..1 : s[(G + G) + k] = w[k]
  <2>1. /\ s \in Seq(Steps) /\ Len(s) = Len(c) + Len(w)
        /\ \A k \in 1..Len(c) : s[k] = c[k]
        /\ \A k \in 1..Len(w) : s[Len(c) + k] = w[k]
    BY <1>1, <1>3, ConcatFacts
  <2> QED BY <1>1, <1>3, <2>1
<1> HIDE DEF s
<1>5. \A k \in 1..G : s[k] = Step(a, L[k])
  <2> SUFFICES ASSUME NEW k \in 1..G PROVE s[k] = Step(a, L[k])
    OBVIOUS
  <2>1. k \in 1..(G + G)
    BY <1>1
  <2> QED BY <1>1, <1>2, <1>4, <2>1 DEF c
<1>6. \A k \in 1..G : s[G + k] = Step(b, L[k])
  <2> SUFFICES ASSUME NEW k \in 1..G PROVE s[G + k] = Step(b, L[k])
    OBVIOUS
  <2>1. G + k \in 1..(G + G)
    BY <1>1
  <2>2. s[G + k] = c[G + k]
    BY <1>4, <2>1
  <2> QED BY <1>1, <1>2, <2>2 DEF c
<1>7. s[2 * G + 1] = Step(f, 0)
  <2>1. 2 * G + 1 = (G + G) + 1 /\ 1 \in 1..1
    BY <1>1
  <2>2. s[(G + G) + 1] = w[1]
    BY <1>4
  <2> QED BY <1>1, <2>1, <2>2
<1>8. Len(s) = 2 * G + 1
  BY <1>1, <1>4
<1> QED BY <1>4, <1>5, <1>6, <1>7, <1>8 DEF s, c, u, v, w, G, Rounds

LEMMA StartBegins ==
  ASSUME NEW y \in Work, NEW g \in Seq(Nat), NEW ms, NEW r, Quiet(ms), Held(g, ms, r),
         ModulesType(ms),
         y.script = Calls("starts", g) \o Calls("allStarts", g) \o Final("started"),
         y.made = <<>>
  PROVE  Starting(y, g, ms, r) /\ y.script # <<>>
<1> DEFINE s == y.script
           G == Len(g)
           q == Len(s) - 1 - Len(g)
           done == IF q >= 0 THEN Len(g) - q ELSE Len(g)
<1>1. "starts" \in Acts /\ "allStarts" \in Acts /\ "started" \in Acts /\ G \in Nat
  BY DEF Acts, Hooks, Finals
<1> DEFINE c == Rounds("starts", "allStarts", "started", g)
<1>a. /\ c \in Seq(Steps) /\ Len(c) = 2 * Len(g) + 1
      /\ \A k \in 1..Len(g) : c[k] = Step("starts", g[k])
      /\ \A k \in 1..Len(g) : c[Len(g) + k] = Step("allStarts", g[k])
      /\ c[2 * Len(g) + 1] = Step("started", 0)
  BY <1>1, TwoRounds
<1>b. s = c
  BY DEF Rounds
<1> HIDE DEF c, s
<1>2. /\ s \in Seq(Steps) /\ Len(s) = 2 * G + 1
      /\ \A k \in 1..G : s[k] = Step("starts", g[k])
      /\ \A k \in 1..G : s[G + k] = Step("allStarts", g[k])
      /\ s[2 * G + 1] = Step("started", 0)
  BY <1>a, <1>b
<1> HIDE DEF G
<1>3. q = G /\ done = 0
  BY <1>1, <1>2 DEF G
<1> HIDE DEF q, done
<1>4. s[Len(s)].do = "started"
  BY <1>2 DEF Step
<1>5. ASSUME NEW k \in 1..(Len(s) - 1)
      PROVE  IF k <= q THEN s[k] = Step("starts", g[done + k]) ELSE s[k].do = "allStarts"
  <2>1. CASE k <= G
    <3>1. k \in 1..G
      BY <1>1, <1>2, <2>1
    <3>2. done + k = k
      BY <1>3, <3>1
    <3> QED BY <1>2, <1>3, <2>1, <3>1, <3>2
  <2>2. CASE ~(k <= G)
    <3>1. k - G \in 1..G /\ G + (k - G) = k
      BY <1>1, <1>2, <2>2
    <3>2. s[G + (k - G)] = Step("allStarts", g[k - G])
      BY <1>2, <3>1
    <3>3. s[k].do = "allStarts"
      BY <3>1, <3>2 DEF Step
    <3> QED BY <1>3, <2>2, <3>3
  <2> QED BY <2>1, <2>2
<1>6. ASSUME NEW i \in DOMAIN ms PROVE ~ms[i].running /\ i \notin Upto(g, done)
  BY <1>3 DEF Quiet, Upto
<1>7. s # <<>> /\ q <= Len(g)
  BY <1>1, <1>2, <1>3 DEF G
<1>8. ModulesType(ms) => \A i \in DOMAIN ms : ms[i].running \in BOOLEAN
  BY DEF ModulesType, Instance
<1>9. Starting(y, g, ms, r) <=>
        /\ y.made = <<>> /\ Held(g, ms, r) /\ q <= Len(g) /\ s[Len(s)].do = "started"
        /\ \A k \in 1..(Len(s) - 1) :
             IF k <= q THEN s[k] = Step("starts", g[done + k]) ELSE s[k].do = "allStarts"
        /\ \A i \in DOMAIN ms :
             ms[i].running <=> i \in Upto(g, done) /\ "starts" \in ms[i].definition.hooks
  BY DEF Starting, s, q, done
<1> QED BY <1>4, <1>5, <1>6, <1>7, <1>8, <1>9 DEF s

\* Whoever runs is in the graph, so the round of ends reaches it.
LEMMA CoversAll ==
  ASSUME NEW ms, NEW g \in Seq(Nat), NEW started, Paired(ms, g, started), NEW s \in Seq(Steps),
         Len(g) <= Len(s), \A k \in 1..Len(g) : s[k] = Step("ends", g[k])
  PROVE  Covered(s, ms)
<1> SUFFICES ASSUME NEW i \in DOMAIN ms, ms[i].running
             PROVE  \E k \in DOMAIN s : s[k] = Step("ends", i)
  BY DEF Covered
<1>1. i \in Upto(g, Len(g))
  BY DEF Paired, Quiet
<1>2. PICK k \in 1..Len(g) : g[k] = i
  BY <1>1 DEF Upto
<1>3. k \in DOMAIN s
  OBVIOUS
<1> QED BY <1>2, <1>3

LEMMA EndBegins ==
  ASSUME NEW y \in Work, NEW g \in Seq(Nat), NEW ms, NEW r, NEW started, Paired(ms, g, started),
         Held(g, ms, r),
         y.script = Calls("ends", g) \o Calls("allEnds", g) \o Final("ended"), y.made = <<>>
  PROVE  Ending(y, g, ms, r) /\ y.script # <<>>
<1> DEFINE s == y.script
           G == Len(g)
<1>1. "ends" \in Acts /\ "allEnds" \in Acts /\ "ended" \in Acts /\ G \in Nat
  BY DEF Acts, Hooks, Finals
<1> DEFINE c == Rounds("ends", "allEnds", "ended", g)
<1>a. /\ c \in Seq(Steps) /\ Len(c) = 2 * Len(g) + 1
      /\ \A k \in 1..Len(g) : c[k] = Step("ends", g[k])
      /\ \A k \in 1..Len(g) : c[Len(g) + k] = Step("allEnds", g[k])
      /\ c[2 * Len(g) + 1] = Step("ended", 0)
  BY <1>1, TwoRounds
<1>b. s = c
  BY DEF Rounds
<1> HIDE DEF c, s
<1>2. /\ s \in Seq(Steps) /\ Len(s) = 2 * G + 1
      /\ \A k \in 1..G : s[k] = Step("ends", g[k])
      /\ \A k \in 1..G : s[G + k] = Step("allEnds", g[k])
      /\ s[2 * G + 1] = Step("ended", 0)
  BY <1>a, <1>b
<1> HIDE DEF G
<1>3. s[Len(s)].do = "ended"
  BY <1>2 DEF Step
<1>4. ASSUME NEW k \in 1..(Len(s) - 1) PROVE s[k].do \in {"ends", "allEnds"}
  <2>1. CASE k <= G
    <3>1. k \in 1..G
      BY <1>1, <1>2, <2>1
    <3>2. s[k] = Step("ends", g[k])
      BY <1>2, <3>1
    <3> QED BY <3>2 DEF Step
  <2>2. CASE ~(k <= G)
    <3>1. k - G \in 1..G /\ G + (k - G) = k
      BY <1>1, <1>2, <2>2
    <3>2. s[G + (k - G)] = Step("allEnds", g[k - G])
      BY <1>2, <3>1
    <3> QED BY <3>1, <3>2 DEF Step
  <2> QED BY <2>1, <2>2
<1>5. Covered(s, ms)
  <2>1. Len(g) <= Len(s)
    BY <1>1, <1>2 DEF G
  <2> QED BY <1>2, <2>1, CoversAll DEF G
<1>6. s # <<>>
  BY <1>1, <1>2
<1> QED BY <1>3, <1>4, <1>5, <1>6 DEF Ending, s

LEMMA ExitBegins ==
  ASSUME NEW y \in Work, NEW g \in Seq(Nat), NEW ms, NEW r, NEW started, Paired(ms, g, started),
         Held(g, ms, r),
         y.script = Calls("exit", g) \o Calls("allExit", g) \o Final("exiting"), y.made = <<>>
  PROVE  Exiting(y, g, ms, r, started) /\ y.script # <<>>
<1> DEFINE s == y.script
           G == Len(g)
<1>1. "exit" \in Acts /\ "allExit" \in Acts /\ "exiting" \in Acts /\ G \in Nat
  BY DEF Acts, Hooks, Finals
<1> DEFINE c == Rounds("exit", "allExit", "exiting", g)
<1>a. /\ c \in Seq(Steps) /\ Len(c) = 2 * Len(g) + 1
      /\ \A k \in 1..Len(g) : c[k] = Step("exit", g[k])
      /\ \A k \in 1..Len(g) : c[Len(g) + k] = Step("allExit", g[k])
      /\ c[2 * Len(g) + 1] = Step("exiting", 0)
  BY <1>1, TwoRounds
<1>b. s = c
  BY DEF Rounds
<1> HIDE DEF c, s
<1>2. /\ s \in Seq(Steps) /\ Len(s) = 2 * G + 1
      /\ \A k \in 1..G : s[k] = Step("exit", g[k])
      /\ \A k \in 1..G : s[G + k] = Step("allExit", g[k])
      /\ s[2 * G + 1] = Step("exiting", 0)
  BY <1>a, <1>b
<1> HIDE DEF G
<1>3. s[Len(s)].do = "exiting"
  BY <1>2 DEF Step
<1>4. ASSUME NEW k \in 1..(Len(s) - 1) PROVE s[k].do \in {"exit", "allExit"}
  <2>1. CASE k <= G
    <3>1. k \in 1..G
      BY <1>1, <1>2, <2>1
    <3>2. s[k] = Step("exit", g[k])
      BY <1>2, <3>1
    <3> QED BY <3>2 DEF Step
  <2>2. CASE ~(k <= G)
    <3>1. k - G \in 1..G /\ G + (k - G) = k
      BY <1>1, <1>2, <2>2
    <3>2. s[G + (k - G)] = Step("allExit", g[k - G])
      BY <1>2, <3>1
    <3> QED BY <3>1, <3>2 DEF Step
  <2> QED BY <2>1, <2>2
<1>6. s # <<>>
  BY <1>1, <1>2
<1> QED BY <1>3, <1>4, <1>6 DEF Exiting, s

\* The cleanup of a graph of which nobody runs.
LEMMA CleanupBegins ==
  ASSUME NEW y \in Work, NEW g \in Seq(Nat), NEW ms, NEW r, Quiet(ms), Held(g, ms, r),
         y.script = Cleanup(g) \o Final("emptied"), y.made = <<>>
  PROVE  Emptying(y, g, ms, r) /\ y.script # <<>>
<1> DEFINE c == Cleanup(g) \o Final("emptied")
           s == y.script
           G == Len(g)
<1>1. "emptied" \in Acts /\ G \in Nat
  BY DEF Acts, Finals
<1>2. /\ c \in Seq(Steps) /\ Len(c) = G + 1
      /\ \A k \in 1..G : c[k] = Step("fini", g[G + 1 - k])
      /\ c[Len(c)] = Step("emptied", 0)
  BY <1>1, CleanupFacts
<1>3. s = c
  OBVIOUS
<1> HIDE DEF c, s
<1>4. /\ s \in Seq(Steps) /\ Len(s) = G + 1 /\ s[G + 1] = Step("emptied", 0)
      /\ \A k \in 1..G : s[k] = Step("fini", g[G + 1 - k])
  BY <1>2, <1>3
<1>5. Registry(r, g, G, G)
  BY DEF Held
<1>6. PICK m \in 0..G : Cut(ms, g, m)
  BY DEF Held
<1> HIDE DEF G
<1>7. s[1].do \in {"fini", "emptied"}
  <2>1. CASE G = 0
    BY <1>4, <2>1 DEF Step
  <2>2. CASE G # 0
    <3>1. 1 \in 1..G
      BY <1>1, <2>2
    <3>2. s[1] = Step("fini", g[G + 1 - 1])
      BY <1>4, <3>1
    <3> QED BY <3>2 DEF Step
  <2> QED BY <2>1, <2>2
<1>8. Len(s) - 1 = G
  BY <1>1, <1>4
<1>9. ASSUME NEW j \in 1..G
      PROVE  s[j].module = g[Len(s) - j] /\ s[j].do = "fini"
  <2>a. Len(s) - j = G + 1 - j
    BY <1>1, <1>4
  <2>1. s[j] = Step("fini", g[Len(s) - j])
    BY <1>4, <2>a
  <2> QED BY <2>1 DEF Step
<1>10. Cleaning(r, g, s, "emptied")
  <2>1. G <= Len(g)
    BY <1>1 DEF G
  <2> QED BY <1>4, <1>5, <1>7, <1>8, <1>9, <2>1 DEF Cleaning, Phases
<1>11. s # <<>>
  BY <1>1, <1>4
<1> QED BY <1>6, <1>7, <1>8, <1>10, <1>11 DEF Emptying, Phases, G, s

LEMMA StopRounds ==
  ASSUME NEW g \in Seq(Nat)
  PROVE  LET a == Calls("ends", g) \o Calls("allEnds", g) \o Final("stopped")
         IN /\ a \in Seq(Steps) /\ Len(a) = 2 * Len(g) + 1
            /\ \A k \in 1..Len(g) : a[k] = Step("ends", g[k])
            /\ \A k \in 1..Len(g) : a[Len(g) + k] = Step("allEnds", g[k])
            /\ a[2 * Len(g) + 1] = Step("stopped", 0)
<1>1. "ends" \in Acts /\ "allEnds" \in Acts /\ "stopped" \in Acts
  BY DEF Acts, Hooks, Finals
<1> DEFINE c == Rounds("ends", "allEnds", "stopped", g)
<1>2. /\ c \in Seq(Steps) /\ Len(c) = 2 * Len(g) + 1
      /\ \A k \in 1..Len(g) : c[k] = Step("ends", g[k])
      /\ \A k \in 1..Len(g) : c[Len(g) + k] = Step("allEnds", g[k])
      /\ c[2 * Len(g) + 1] = Step("stopped", 0)
  BY <1>1, TwoRounds
<1>3. Calls("ends", g) \o Calls("allEnds", g) \o Final("stopped") = c
  BY DEF Rounds
<1> HIDE DEF c
<1> QED BY <1>2, <1>3

LEMMA StopBegins ==
  ASSUME NEW y \in Work, NEW g \in Seq(Nat), NEW ms, NEW r, NEW started, Paired(ms, g, started),
         Held(g, ms, r), y.made = <<>>,
         y.script = (Calls("ends", g) \o Calls("allEnds", g) \o Final("stopped"))
                    \o Cleanup(g) \o Final("emptied")
  PROVE  Stopping(y, g, ms, r) /\ y.script # <<>>
<1> DEFINE a == Calls("ends", g) \o Calls("allEnds", g) \o Final("stopped")
           u == Cleanup(g)
           b == Final("emptied")
           s == y.script
           G == Len(g)
<1>1. /\ "ends" \in Acts /\ "allEnds" \in Acts /\ "stopped" \in Acts /\ "emptied" \in Acts
      /\ "fini" \in Acts /\ G \in Nat
  BY DEF Acts, Hooks, Finals
<1>2. /\ a \in Seq(Steps) /\ Len(a) = 2 * G + 1
      /\ (\A k \in 1..G : a[k] = Step("ends", g[k]))
      /\ (\A k \in 1..G : a[G + k] = Step("allEnds", g[k]))
      /\ a[2 * G + 1] = Step("stopped", 0)
  <2>1. /\ a \in Seq(Steps) /\ Len(a) = 2 * Len(g) + 1
        /\ \A k \in 1..Len(g) : a[k] = Step("ends", g[k])
        /\ \A k \in 1..Len(g) : a[Len(g) + k] = Step("allEnds", g[k])
        /\ a[2 * Len(g) + 1] = Step("stopped", 0)
    BY StopRounds
  <2> QED BY <2>1
<1>3. u \in Seq(Steps) /\ Len(u) = G /\ \A k \in 1..G : u[k] = Step("fini", g[G + 1 - k])
  <2>1. Reverse(g) \in Seq(Nat) /\ Len(Reverse(g)) = G
        /\ \A k \in 1..G : Reverse(g)[k] = g[G + 1 - k]
    BY ReverseFacts
  <2> QED BY <1>1, <2>1, CallsFacts DEF Cleanup
<1>4. b \in Seq(Steps) /\ Len(b) = 1 /\ b[1] = Step("emptied", 0)
  BY <1>1, FinalFacts
<1>5. s = (a \o u) \o b
  OBVIOUS
<1> HIDE DEF a, u, b, s, G
<1> DEFINE c == a \o u
           A == 2 * G + 1
<1>a. A \in Nat /\ A >= 1
  BY <1>1
<1>6. /\ c \in Seq(Steps) /\ Len(c) = A + G
      /\ \A k \in 1..A : c[k] = a[k]
      /\ \A k \in 1..G : c[A + k] = u[k]
  <2>1. /\ c \in Seq(Steps) /\ Len(c) = Len(a) + Len(u)
        /\ \A k \in 1..Len(a) : c[k] = a[k]
        /\ \A k \in 1..Len(u) : c[Len(a) + k] = u[k]
    BY <1>2, <1>3, ConcatFacts
  <2> QED BY <1>2, <1>3, <2>1
<1> HIDE DEF c
<1>7. /\ s \in Seq(Steps) /\ Len(s) = A + G + 1
      /\ \A k \in 1..(A + G) : s[k] = c[k]
      /\ s[A + G + 1] = Step("emptied", 0)
  <2>1. /\ c \o b \in Seq(Steps) /\ Len(c \o b) = Len(c) + Len(b)
        /\ \A k \in 1..Len(c) : (c \o b)[k] = c[k]
        /\ \A k \in 1..Len(b) : (c \o b)[Len(c) + k] = b[k]
    BY <1>4, <1>6, ConcatFacts
  <2>2. s = c \o b
    BY <1>5 DEF c
  <2>3. 1 \in 1..1 /\ (c \o b)[Len(c) + 1] = b[1]
    BY <1>4, <2>1
  <2> QED BY <1>4, <1>6, <2>1, <2>2, <2>3
<1>8. \A k \in 1..A : s[k] = a[k]
  <2> SUFFICES ASSUME NEW k \in 1..A PROVE s[k] = a[k]
    OBVIOUS
  <2>1. k \in 1..(A + G)
    BY <1>1, <1>a
  <2> QED BY <1>6, <1>7, <2>1
<1>9. \A j \in 1..G : s[A + j] = Step("fini", g[G + 1 - j])
  <2> SUFFICES ASSUME NEW j \in 1..G PROVE s[A + j] = Step("fini", g[G + 1 - j])
    OBVIOUS
  <2>1. A + j \in 1..(A + G)
    BY <1>1, <1>a
  <2>2. s[A + j] = c[A + j]
    BY <1>7, <2>1
  <2>3. c[A + j] = u[j]
    BY <1>6
  <2> QED BY <1>3, <2>2, <2>3
<1>10. s[A] = Step("stopped", 0)
  <2>1. A \in 1..A
    BY <1>a
  <2> QED BY <1>2, <1>8, <2>1
<1>11. ASSUME NEW k \in 1..(A - 1) PROVE s[k].do \in {"ends", "allEnds"}
  <2>0. k \in 1..A
    BY <1>a
  <2>1. CASE k <= G
    <3>1. k \in 1..G
      BY <1>1, <2>1
    <3>2. s[k] = Step("ends", g[k])
      BY <1>2, <1>8, <2>0, <3>1
    <3> QED BY <3>2 DEF Step
  <2>2. CASE ~(k <= G)
    <3>1. k - G \in 1..G /\ G + (k - G) = k
      BY <1>1, <2>2
    <3>2. a[G + (k - G)] = Step("allEnds", g[k - G])
      BY <1>2, <3>1
    <3>3. s[k] = Step("allEnds", g[k - G])
      BY <1>8, <2>0, <3>1, <3>2
    <3> QED BY <3>3 DEF Step
  <2> QED BY <2>1, <2>2
<1>12. \A k \in 1..G : s[k] = Step("ends", g[k])
  <2> SUFFICES ASSUME NEW k \in 1..G PROVE s[k] = Step("ends", g[k])
    OBVIOUS
  <2>1. k \in 1..A
    BY <1>1
  <2> QED BY <1>2, <1>8, <2>1
<1>13. Covered(s, ms)
  <2>1. Len(g) <= Len(s)
    BY <1>1, <1>7 DEF G
  <2>2. \A k \in 1..Len(g) : s[k] = Step("ends", g[k])
    BY <1>12 DEF G
  <2> QED BY <1>7, <2>1, <2>2, CoversAll
<1>14. s # <<>>
  BY <1>1, <1>7
<1>15. Len(s) - Len(g) - 1 = A /\ s[Len(s)] = Step("emptied", 0)
  BY <1>1, <1>a, <1>7 DEF G
<1> HIDE DEF A
<1> QED BY <1>a, <1>9, <1>10, <1>11, <1>13, <1>14, <1>15 DEF Stopping, s, G

LEMMA LoadScriptFacts ==
  ASSUME NEW d \in Seq(Definitions), NEW L \in Seq(Nat), Len(d) = Len(L)
  PROVE  LET n == Len(L)
             z == LoadScript(d, L)
         IN /\ z \in Seq(Steps) /\ Len(z) = 4 * n + 1
            /\ z[4 * n + 1] = Step("commit", 0)
            /\ \A k \in 1..n : z[k] = Step("map", L[k])
            /\ \A k \in (n + 1)..(4 * n) :
                 z[k].do \in {"init", "skip", "relocated"} /\ z[k].module \in Upto(L, n)
            /\ \A k \in 1..n : \E j \in (n + 1)..(4 * n) : z[j] = Step("init", L[k])
<1> DEFINE n == Len(L)
           I(early) == [k \in DOMAIN d |-> Step(IF d[k].early = early THEN "init" ELSE "skip", L[k])]
           a == Calls("map", L)
           b == I(TRUE)
           c == Calls("relocated", L)
           e == I(FALSE)
           f == Final("commit")
           ab == a \o b
           abc == ab \o c
           abce == abc \o e
           z == abce \o f
<1>1. /\ "map" \in Acts /\ "relocated" \in Acts /\ "commit" \in Acts /\ "init" \in Acts
      /\ "skip" \in Acts /\ n \in Nat
  BY DEF Acts, Hooks, Finals
<1>2. \A early \in BOOLEAN :
        /\ I(early) \in Seq(Steps) /\ Len(I(early)) = n
        /\ \A k \in 1..n :
             I(early)[k] = Step(IF d[k].early = early THEN "init" ELSE "skip", L[k])
  <2> SUFFICES ASSUME NEW early \in BOOLEAN
               PROVE  /\ I(early) \in Seq(Steps) /\ Len(I(early)) = n
                      /\ \A k \in 1..n :
                           I(early)[k] = Step(IF d[k].early = early THEN "init" ELSE "skip", L[k])
    OBVIOUS
  <2>1. DOMAIN d = 1..n
    OBVIOUS
  <2>2. \A k \in 1..n : Step(IF d[k].early = early THEN "init" ELSE "skip", L[k]) \in Steps
    BY <1>1, StepType
  <2> QED BY <2>1, <2>2
<1>3. /\ a \in Seq(Steps) /\ Len(a) = n /\ (\A k \in 1..n : a[k] = Step("map", L[k]))
      /\ c \in Seq(Steps) /\ Len(c) = n /\ (\A k \in 1..n : c[k] = Step("relocated", L[k]))
      /\ f \in Seq(Steps) /\ Len(f) = 1 /\ f[1] = Step("commit", 0)
  BY <1>1, CallsFacts, FinalFacts
<1>4. /\ b \in Seq(Steps) /\ Len(b) = n
      /\ \A k \in 1..n : b[k] = Step(IF d[k].early = TRUE THEN "init" ELSE "skip", L[k])
  BY <1>2
<1>5. /\ e \in Seq(Steps) /\ Len(e) = n
      /\ \A k \in 1..n : e[k] = Step(IF d[k].early = FALSE THEN "init" ELSE "skip", L[k])
  BY <1>2
<1>6. LoadScript(d, L) = z
  BY DEF LoadScript
<1>7. \A k \in 1..n : d[k].early \in BOOLEAN
  BY ConstantsAssumption DEF Definition
<1> HIDE DEF a, b, c, e, f, n, z, I
<1>8. /\ ab \in Seq(Steps) /\ Len(ab) = n + n
      /\ (\A k \in 1..n : ab[k] = a[k]) /\ (\A k \in 1..n : ab[n + k] = b[k])
  <2>1. /\ ab \in Seq(Steps) /\ Len(ab) = Len(a) + Len(b)
        /\ (\A k \in 1..Len(a) : ab[k] = a[k]) /\ (\A k \in 1..Len(b) : ab[Len(a) + k] = b[k])
    BY <1>3, <1>4, ConcatFacts
  <2> QED BY <1>3, <1>4, <2>1
<1> HIDE DEF ab
<1>9. /\ abc \in Seq(Steps) /\ Len(abc) = (n + n) + n
      /\ (\A k \in 1..(n + n) : abc[k] = ab[k]) /\ (\A k \in 1..n : abc[(n + n) + k] = c[k])
  <2>1. /\ abc \in Seq(Steps) /\ Len(abc) = Len(ab) + Len(c)
        /\ (\A k \in 1..Len(ab) : abc[k] = ab[k]) /\ (\A k \in 1..Len(c) : abc[Len(ab) + k] = c[k])
    BY <1>3, <1>8, ConcatFacts
  <2> QED BY <1>3, <1>8, <2>1
<1> HIDE DEF abc
<1>10. /\ abce \in Seq(Steps) /\ Len(abce) = (n + n) + n + n
       /\ (\A k \in 1..((n + n) + n) : abce[k] = abc[k])
       /\ (\A k \in 1..n : abce[((n + n) + n) + k] = e[k])
  <2>1. /\ abce \in Seq(Steps) /\ Len(abce) = Len(abc) + Len(e)
        /\ (\A k \in 1..Len(abc) : abce[k] = abc[k])
        /\ (\A k \in 1..Len(e) : abce[Len(abc) + k] = e[k])
    BY <1>5, <1>9, ConcatFacts
  <2> QED BY <1>5, <1>9, <2>1
<1> HIDE DEF abce
<1>11. /\ z \in Seq(Steps) /\ Len(z) = 4 * n + 1
       /\ (\A k \in 1..(4 * n) : z[k] = abce[k])
       /\ z[4 * n + 1] = Step("commit", 0)
  <2>1. /\ z \in Seq(Steps) /\ Len(z) = Len(abce) + Len(f)
        /\ (\A k \in 1..Len(abce) : z[k] = abce[k])
        /\ (\A k \in 1..Len(f) : z[Len(abce) + k] = f[k])
    BY <1>3, <1>10, ConcatFacts DEF z
  <2>2. Len(abce) = 4 * n
    BY <1>1, <1>10
  <2>3. 1 \in 1..1 /\ z[Len(abce) + 1] = f[1]
    BY <1>3, <2>1
  <2>4. Len(z) = 4 * n + 1
    BY <1>3, <2>1, <2>2
  <2>5. z[4 * n + 1] = Step("commit", 0)
    BY <1>3, <2>2, <2>3
  <2>6. \A k \in 1..(4 * n) : z[k] = abce[k]
    BY <2>1, <2>2
  <2> QED BY <2>1, <2>4, <2>5, <2>6
<1>12. \A k \in 1..n : z[k] = Step("map", L[k])
  <2> SUFFICES ASSUME NEW k \in 1..n PROVE z[k] = Step("map", L[k])
    OBVIOUS
  <2>1. k \in 1..(4 * n) /\ k \in 1..((n + n) + n) /\ k \in 1..(n + n)
    BY <1>1
  <2>2. z[k] = abce[k] /\ abce[k] = abc[k] /\ abc[k] = ab[k]
    BY <1>9, <1>10, <1>11, <2>1
  <2>3. ab[k] = a[k]
    BY <1>8
  <2> QED BY <1>3, <2>2, <2>3
<1>13. \A k \in 1..n : z[n + k] = Step(IF d[k].early = TRUE THEN "init" ELSE "skip", L[k])
  <2> SUFFICES ASSUME NEW k \in 1..n PROVE z[n + k] = b[k]
    BY <1>4
  <2>1. n + k \in 1..(4 * n) /\ n + k \in 1..((n + n) + n) /\ n + k \in 1..(n + n)
    BY <1>1
  <2>2. z[n + k] = abce[n + k] /\ abce[n + k] = abc[n + k] /\ abc[n + k] = ab[n + k]
    BY <1>9, <1>10, <1>11, <2>1
  <2> QED BY <1>8, <2>2
<1>14. \A k \in 1..n : z[n + n + k] = Step("relocated", L[k])
  <2> SUFFICES ASSUME NEW k \in 1..n PROVE z[n + n + k] = c[k]
    BY <1>3
  <2>1. n + n + k \in 1..(4 * n) /\ n + n + k \in 1..((n + n) + n)
    BY <1>1
  <2>2. z[n + n + k] = abce[n + n + k] /\ abce[n + n + k] = abc[n + n + k]
    BY <1>10, <1>11, <2>1
  <2> QED BY <1>9, <2>2
<1>15. \A k \in 1..n : z[n + n + n + k] = Step(IF d[k].early = FALSE THEN "init" ELSE "skip", L[k])
  <2> SUFFICES ASSUME NEW k \in 1..n PROVE z[n + n + n + k] = e[k]
    BY <1>5
  <2>1. n + n + n + k \in 1..(4 * n)
    BY <1>1
  <2>2. z[n + n + n + k] = abce[n + n + n + k]
    BY <1>11, <2>1
  <2> QED BY <1>10, <2>2
<1>16. ASSUME NEW k \in (n + 1)..(4 * n)
       PROVE  z[k].do \in {"init", "skip", "relocated"} /\ z[k].module \in Upto(L, n)
  <2>1. CASE k <= n + n
    <3>1. k - n \in 1..n /\ n + (k - n) = k
      BY <1>1, <2>1
    <3>2. z[k] = Step(IF d[k - n].early = TRUE THEN "init" ELSE "skip", L[k - n])
      <4>1. z[n + (k - n)] = Step(IF d[k - n].early = TRUE THEN "init" ELSE "skip", L[k - n])
        BY <1>13, <3>1
      <4> QED BY <3>1, <4>1
    <3> QED BY <3>1, <3>2 DEF Step, Upto
  <2>2. CASE n + n < k /\ k <= n + n + n
    <3>1. k - (n + n) \in 1..n /\ n + n + (k - (n + n)) = k
      BY <1>1, <2>2
    <3>2. z[k] = Step("relocated", L[k - (n + n)])
      <4>1. z[n + n + (k - (n + n))] = Step("relocated", L[k - (n + n)])
        BY <1>14, <3>1
      <4> QED BY <3>1, <4>1
    <3> QED BY <3>1, <3>2 DEF Step, Upto
  <2>3. CASE n + n + n < k
    <3>1. k - (n + n + n) \in 1..n /\ n + n + n + (k - (n + n + n)) = k
      BY <1>1, <2>3
    <3>2. z[k] = Step(IF d[k - (n + n + n)].early = FALSE THEN "init" ELSE "skip", L[k - (n + n + n)])
      <4>1. z[n + n + n + (k - (n + n + n))]
              = Step(IF d[k - (n + n + n)].early = FALSE THEN "init" ELSE "skip", L[k - (n + n + n)])
        BY <1>15, <3>1
      <4> QED BY <3>1, <4>1
    <3> QED BY <3>1, <3>2 DEF Step, Upto
  <2> QED BY <1>1, <2>1, <2>2, <2>3
<1>17. ASSUME NEW k \in 1..n PROVE \E j \in (n + 1)..(4 * n) : z[j] = Step("init", L[k])
  <2>1. CASE d[k].early = TRUE
    <3>1. n + k \in (n + 1)..(4 * n)
      BY <1>1
    <3> QED BY <1>13, <2>1, <3>1
  <2>2. CASE d[k].early = FALSE
    <3>1. n + n + n + k \in (n + 1)..(4 * n)
      BY <1>1
    <3> QED BY <1>15, <2>2, <3>1
  <2> QED BY <1>7, <2>1, <2>2
<1> QED BY <1>6, <1>11, <1>12, <1>16, <1>17 DEF n

LEMMA LoadBegins ==
  ASSUME NEW y \in Work, NEW ms, NEW ms2, NEW r, Quiet(ms2), Held(<<>>, ms, r), Published(r, ms),
         NEW d \in Seq(Definitions), NEW L \in Seq(Nat), Len(d) = Len(L),
         Injective(L), \A k \in 1..Len(L) : L[k] \notin DOMAIN ms,
         DOMAIN ms2 = DOMAIN ms \cup Upto(L, Len(L)),
         y.script = LoadScript(d, L), y.made = <<>>
  PROVE  Loading(y, <<>>, ms2, r) /\ y.script # <<>>
<1> DEFINE z == y.script
           n == Len(L)
<1>1. /\ z \in Seq(Steps) /\ Len(z) = 4 * n + 1 /\ n \in Nat
      /\ z[4 * n + 1] = Step("commit", 0)
      /\ \A k \in 1..n : z[k] = Step("map", L[k])
      /\ \A k \in (n + 1)..(4 * n) :
           z[k].do \in {"init", "skip", "relocated"} /\ z[k].module \in Upto(L, n)
      /\ \A k \in 1..n : \E j \in (n + 1)..(4 * n) : z[j] = Step("init", L[k])
  <2>1. LET q == LoadScript(d, L)
        IN /\ q \in Seq(Steps) /\ Len(q) = 4 * n + 1
           /\ q[4 * n + 1] = Step("commit", 0)
           /\ \A k \in 1..n : q[k] = Step("map", L[k])
           /\ \A k \in (n + 1)..(4 * n) :
                q[k].do \in {"init", "skip", "relocated"} /\ q[k].module \in Upto(L, n)
           /\ \A k \in 1..n : \E j \in (n + 1)..(4 * n) : q[j] = Step("init", L[k])
    BY LoadScriptFacts
  <2>2. n \in Nat
    OBVIOUS
  <2> HIDE DEF n
  <2> QED BY <2>1, <2>2
<1>2. Upto(<<>>, Len(<<>>)) = {} /\ Len(<<>>) = 0 /\ <<>> \in Seq(DOMAIN ms2)
  BY DEF Upto
<1>3. Registry(r, <<>>, Len(<<>>), Len(<<>>))
  BY DEF Held
<1>4. \A k \in 1..n : L[k] \notin r.mapped \cup r.providers /\ L[k] \in DOMAIN ms2
  BY DEF Published, Upto
<1>5. \A j, k \in 1..n : L[j] = L[k] => j = k
  BY DEF Injective
<1>a. \A i \in Upto(L, n) : i \in DOMAIN ms2
  OBVIOUS
<1> HIDE DEF z, n
<1>6. \A k \in DOMAIN z : z[k].do = "map" => k \in 1..n
  <2> SUFFICES ASSUME NEW k \in DOMAIN z, z[k].do = "map" PROVE k \in 1..n
    OBVIOUS
  <2>1. k # 4 * n + 1
    BY <1>1 DEF Step
  <2>2. k \notin (n + 1)..(4 * n)
    BY <1>1
  <2>3. k \in 1..(4 * n + 1)
    BY <1>1
  <2> QED BY <1>1, <2>1, <2>2, <2>3
<1>7. \A k \in 1..n : z[k].do = "map" /\ z[k].module = L[k] /\ z[k].module \in DOMAIN ms2
  <2> SUFFICES ASSUME NEW k \in 1..n
               PROVE  z[k].do = "map" /\ z[k].module = L[k] /\ z[k].module \in DOMAIN ms2
    OBVIOUS
  <2>1. z[k] = Step("map", L[k])
    BY <1>1
  <2>2. z[k].do = "map" /\ z[k].module = L[k]
    BY <2>1 DEF Step
  <2> QED BY <1>4, <2>2
<1>8. ASSUME NEW k \in 1..(Len(z) - 1)
      PROVE  /\ z[k].do \in Loads1 /\ z[k].do # "link"
             /\ z[k].module \in DOMAIN ms2
             /\ z[k].do = "map" => z[k].module \notin r.mapped \cup r.providers
  <2>1. CASE k \in 1..n
    BY <1>4, <1>7, <2>1 DEF Loads1
  <2>2. CASE k \notin 1..n
    <3>1. k \in (n + 1)..(4 * n)
      BY <1>1, <2>2
    <3> QED BY <1>1, <1>a, <3>1 DEF Loads1
  <2> QED BY <2>1, <2>2
<1>9. ASSUME NEW j \in DOMAIN z, NEW k \in DOMAIN z,
             z[j].do = "map", z[k].do = "map", z[j].module = z[k].module
      PROVE  j = k
  <2>1. j \in 1..n /\ k \in 1..n
    BY <1>6, <1>9
  <2> QED BY <1>5, <1>7, <1>9, <2>1
<1>10. ASSUME NEW i \in Pending(z) PROVE Prepared(z, ms2, i)
  <2>1. PICK k \in DOMAIN z : z[k].do = "map" /\ z[k].module = i
    BY DEF Pending
  <2>2. k \in 1..n /\ L[k] = i
    BY <1>6, <1>7, <2>1
  <2>3. PICK j \in (n + 1)..(4 * n) : z[j] = Step("init", i)
    BY <1>1, <2>2
  <2>4. j \in DOMAIN z
    BY <1>1
  <2> QED BY <2>3, <2>4 DEF Prepared
<1>11. z[Len(z)] = Step("commit", 0) /\ z # <<>>
  BY <1>1
<1>12. Loading(y, <<>>, ms2, r)
  BY <1>2, <1>3, <1>8, <1>9, <1>10, <1>11 DEF Loading, z
<1> QED BY <1>11, <1>12 DEF z

-----------------------------------------------------------------------------
\* The head of a script tells which operation it is of.

LEMMA CleaningKind ==
  ASSUME NEW r, NEW L, NEW s \in Seq(Steps), s # <<>>, NEW final \in Finals,
         Cleaning(r, L, s, final)
  PROVE  /\ s[1].do \in Phases \cup {final}
         /\ s[1].do = final => Len(s) = 1 /\ Registry(r, L, 0, 0)
<1>1. CASE Len(s) = 1
  <2>1. s[1].do = final
    BY <1>1 DEF Cleaning, Step
  <2>2. Registry(r, L, 0, 0)
    BY <1>1, <2>1, NotUnmap DEF Cleaning
  <2> QED BY <1>1, <2>1, <2>2
<1>2. CASE Len(s) # 1
  <2>1. Len(s) \in Nat /\ Len(s) >= 2
    BY <1>2, TwoAtLeast
  <2>2. 1 \in 1..(Len(s) - 1)
    BY <2>1
  <2>3. s[1].do \in Phases
    BY <2>2 DEF Cleaning
  <2> QED BY <2>3, NotUnmap
<1> QED BY <1>1, <1>2

LEMMA LoadingKind ==
  ASSUME NEW x \in Work, x.script # <<>>, NEW g, NEW ms, NEW r, Loading(x, g, ms, r)
  PROVE  /\ x.script[1].do \in Loads1 \cup {"commit"}
         /\ x.script[1].do = "commit" => Len(x.script) = 1
<1> DEFINE s == x.script
<1>1. s \in Seq(Steps)
  BY DEF Work
<1>2. /\ s[Len(s)] = Step("commit", 0)
      /\ \A k \in 1..(Len(s) - 1) : s[k].do \in Loads1
  BY DEF Loading
<1> HIDE DEF s
<1>3. CASE Len(s) = 1
  <2>1. s[1].do = "commit"
    BY <1>2, <1>3 DEF Step
  <2> QED BY <1>3, <2>1 DEF s
<1>4. CASE Len(s) # 1
  <2>1. Len(s) \in Nat /\ Len(s) >= 2
    BY <1>1, <1>4, TwoAtLeast DEF s
  <2>2. s[1].do \in Loads1
    BY <1>2, <2>1
  <2> QED BY <2>2 DEF Loads1, s
<1> QED BY <1>3, <1>4

LEMMA StoppingKind ==
  ASSUME NEW x \in Work, x.script # <<>>, NEW S, NEW g \in Seq(S), NEW ms, NEW r,
         Stopping(x, g, ms, r)
  PROVE  x.script[1].do \in {"ends", "allEnds", "stopped"}
<1> DEFINE s == x.script
           n == Len(g)
           p == Len(s) - n - 1
<1>1. Len(s) \in Nat /\ n \in Nat
  BY DEF Work
<1>2. /\ p >= 1 /\ s[p] = Step("stopped", 0)
      /\ \A k \in 1..(p - 1) : s[k].do \in {"ends", "allEnds"}
  BY DEF Stopping
<1> HIDE DEF n, s
<1>3. p \in Nat
  BY <1>1, <1>2
<1> HIDE DEF p
<1>4. CASE p = 1
  BY <1>2, <1>4 DEF Step, s
<1>5. CASE p # 1
  <2>1. 1 \in 1..(p - 1)
    BY <1>2, <1>3, <1>5
  <2> QED BY <1>2, <2>1 DEF s
<1> QED BY <1>4, <1>5

LEMMA EndingKind ==
  ASSUME NEW x \in Work, x.script # <<>>, NEW g, NEW ms, NEW r, Ending(x, g, ms, r)
  PROVE  /\ x.script[1].do \in {"ends", "allEnds", "ended", "unstarted"}
         /\ x.script[1].do \in {"ended", "unstarted"} => Len(x.script) = 1
<1> DEFINE s == x.script
<1>1. s \in Seq(Steps)
  BY DEF Work
<1>2. /\ s[Len(s)].do \in {"ended", "unstarted"}
      /\ \A k \in 1..(Len(s) - 1) : s[k].do \in {"ends", "allEnds"}
  BY DEF Ending
<1> HIDE DEF s
<1>3. CASE Len(s) = 1
  BY <1>2, <1>3 DEF s
<1>4. CASE Len(s) # 1
  <2>1. Len(s) \in Nat /\ Len(s) >= 2
    BY <1>1, <1>4, TwoAtLeast DEF s
  <2> QED BY <1>2, <2>1 DEF s
<1> QED BY <1>3, <1>4

LEMMA ExitingKind ==
  ASSUME NEW x \in Work, x.script # <<>>, NEW g, NEW ms, NEW r, NEW started,
         Exiting(x, g, ms, r, started)
  PROVE  x.script[1].do \in {"exit", "allExit", "exiting"}
<1> DEFINE s == x.script
<1>1. s \in Seq(Steps)
  BY DEF Work
<1>2. /\ s[Len(s)].do = "exiting"
      /\ \A k \in 1..(Len(s) - 1) : s[k].do \in {"exit", "allExit"}
  BY DEF Exiting
<1> HIDE DEF s
<1>3. CASE Len(s) = 1
  BY <1>2, <1>3 DEF s
<1>4. CASE Len(s) # 1
  <2>1. Len(s) \in Nat /\ Len(s) >= 2
    BY <1>1, <1>4, TwoAtLeast DEF s
  <2> QED BY <1>2, <2>1 DEF s
<1> QED BY <1>3, <1>4

LEMMA StartingKind ==
  ASSUME NEW x \in Work, x.script # <<>>, NEW g, Len(g) \in Nat, NEW ms, NEW r, Starting(x, g, ms, r)
  PROVE  /\ x.script[1].do \in {"starts", "allStarts", "started"}
         /\ x.script[1].do = "started" => Len(x.script) = 1
<1> DEFINE s == x.script
           q == Len(s) - 1 - Len(g)
           done == IF q >= 0 THEN Len(g) - q ELSE Len(g)
<1>1. s \in Seq(Steps)
  BY DEF Work
<1>2. /\ s[Len(s)].do = "started"
      /\ \A k \in 1..(Len(s) - 1) :
           IF k <= q THEN s[k] = Step("starts", g[done + k]) ELSE s[k].do = "allStarts"
  BY DEF Starting
<1> HIDE DEF s, q, done
<1>3. \A k \in 1..(Len(s) - 1) : s[k].do \in {"starts", "allStarts"}
  <2> SUFFICES ASSUME NEW k \in 1..(Len(s) - 1) PROVE s[k].do \in {"starts", "allStarts"}
    OBVIOUS
  <2>1. CASE k <= q
    <3>1. s[k] = Step("starts", g[done + k])
      BY <1>2, <2>1
    <3> QED BY <3>1 DEF Step
  <2>2. CASE ~(k <= q)
    <3>1. s[k].do = "allStarts"
      BY <1>2, <2>2
    <3> QED BY <3>1
  <2> QED BY <2>1, <2>2
<1>4. CASE Len(s) = 1
  BY <1>2, <1>4 DEF s
<1>5. CASE Len(s) # 1
  <2>1. Len(s) \in Nat /\ Len(s) >= 2
    BY <1>1, <1>5, TwoAtLeast DEF s
  <2> QED BY <1>3, <2>1 DEF s
<1> QED BY <1>4, <1>5

LEMMA Kinds ==
  ASSUME NEW x \in Work, x.script # <<>>, NEW S, NEW g \in Seq(S), NEW ms, NEW r, NEW started,
         Working(x, g, ms, r, started)
  PROVE  LET do == x.script[1].do
         IN /\ do \in Loads1 \cup {"commit"} => Loading(x, g, ms, r)
            /\ do \in Phases => RollingBack(x, g, ms, r) \/ Emptying(x, g, ms, r)
            /\ do = "abandon" => RollingBack(x, g, ms, r)
            /\ do = "emptied" => Emptying(x, g, ms, r)
            /\ do \in {"ends", "allEnds"} => Stopping(x, g, ms, r) \/ Ending(x, g, ms, r)
            /\ do = "stopped" => Stopping(x, g, ms, r)
            /\ do \in {"ended", "unstarted"} => Ending(x, g, ms, r)
            /\ do \in {"exit", "allExit", "exiting"} => Exiting(x, g, ms, r, started)
            /\ do \in {"starts", "allStarts", "started"} => Starting(x, g, ms, r)
<1> DEFINE do == x.script[1].do
<1>1. x.script \in Seq(Steps) /\ "abandon" \in Finals /\ "emptied" \in Finals /\ Len(g) \in Nat
  BY DEF Work, Finals
<1>2. Loading(x, g, ms, r) => do \in Loads1 \cup {"commit"}
  BY LoadingKind
<1>3. RollingBack(x, g, ms, r) => do \in Phases \cup {"abandon"}
  BY <1>1, CleaningKind DEF RollingBack
<1>4. Emptying(x, g, ms, r) => do \in Phases \cup {"emptied"}
  BY <1>1, CleaningKind DEF Emptying
<1>5. Stopping(x, g, ms, r) => do \in {"ends", "allEnds", "stopped"}
  BY StoppingKind
<1>6. Ending(x, g, ms, r) => do \in {"ends", "allEnds", "ended", "unstarted"}
  BY EndingKind
<1>7. Exiting(x, g, ms, r, started) => do \in {"exit", "allExit", "exiting"}
  BY ExitingKind
<1>8. Starting(x, g, ms, r) => do \in {"starts", "allStarts", "started"}
  BY <1>1, StartingKind
<1> HIDE DEF do
<1>9. \/ Loading(x, g, ms, r) \/ RollingBack(x, g, ms, r) \/ Emptying(x, g, ms, r)
      \/ Stopping(x, g, ms, r) \/ Ending(x, g, ms, r) \/ Exiting(x, g, ms, r, started)
      \/ Starting(x, g, ms, r)
  BY DEF Working
<1>10. /\ do \in Loads1 \cup {"commit"} => Loading(x, g, ms, r)
       /\ do \in Phases => RollingBack(x, g, ms, r) \/ Emptying(x, g, ms, r)
       /\ do = "abandon" => RollingBack(x, g, ms, r)
       /\ do = "emptied" => Emptying(x, g, ms, r)
       /\ do \in {"ends", "allEnds"} => Stopping(x, g, ms, r) \/ Ending(x, g, ms, r)
       /\ do = "stopped" => Stopping(x, g, ms, r)
       /\ do \in {"ended", "unstarted"} => Ending(x, g, ms, r)
       /\ do \in {"exit", "allExit", "exiting"} => Exiting(x, g, ms, r, started)
       /\ do \in {"starts", "allStarts", "started"} => Starting(x, g, ms, r)
  BY <1>2, <1>3, <1>4, <1>5, <1>6, <1>7, <1>8, <1>9 DEF Loads1, Phases
<1> QED BY <1>10 DEF do

-----------------------------------------------------------------------------
\* A state in which the invariant holds and one that differs in the work of a thread.

LEMMA OneBusy ==
  ASSUME IInv, NEW t \in operation
  PROVE  /\ operation = {t} /\ t \in Threads /\ thread[t] \in Work /\ thread[t].script # <<>>
         /\ Working(thread[t], graph, modules, Reg, application.started)
BY DEF IInv, TypeOK, Exclusive

LEMMA BusyStep ==
  ASSUME IInv, NEW t \in operation, NEW x \in Work, x.script # <<>>,
         thread' = [thread EXCEPT ![t] = x], operation' = operation,
         ModulesType(modules'), graph' = graph, graph \in Seq(DOMAIN modules'),
         application' \in [started : BOOLEAN, exiting : BOOLEAN],
         Published(Reg', modules'),
         Working(x, graph, modules', Reg', application'.started)
  PROVE  IInv'
<1>1. operation = {t} /\ t \in Threads
  BY OneBusy
<1>2. thread \in [Threads -> Work]
  BY DEF IInv, TypeOK
<1>3. thread'[t] = x /\ \A u \in Threads : u # t => thread'[u] = thread[u]
  BY <1>1, <1>2
<1>4. TypeOK'
  BY <1>1, <1>2 DEF ModulesType, TypeOK
<1>5. Exclusive'
  BY <1>1, <1>3 DEF IInv, Exclusive
<1>6. operation' # {}
  BY <1>1
<1>7. \A u \in operation' : Working(thread'[u], graph', modules', Reg', application'.started)
  BY <1>1, <1>3
<1> QED BY <1>4, <1>5, <1>6, <1>7 DEF IInv

LEMMA IdleStep ==
  ASSUME IInv, NEW t \in Threads \ operation, NEW x \in Work, x.script = <<>>, x.made = <<>>,
         thread' = [thread EXCEPT ![t] = x],
         UNCHANGED <<operation, modules, graph, registry, application>>
  PROVE  IInv'
<1>1. thread \in [Threads -> Work]
  BY DEF IInv, TypeOK
<1>2. thread'[t] = x /\ \A u \in Threads : u # t => thread'[u] = thread[u]
  BY <1>1
<1>3. Reg' = Reg
  BY DEF Reg, registry
<1>4. TypeOK'
  BY <1>1 DEF IInv, TypeOK
<1>5. Exclusive'
  BY <1>2 DEF IInv, Exclusive
<1>6. \A u \in operation' : Working(thread'[u], graph', modules', Reg', application'.started)
  <2> SUFFICES ASSUME NEW u \in operation
               PROVE  Working(thread'[u], graph, modules, Reg, application.started)
    BY <1>3
  <2>1. u \in Threads /\ u # t
    BY DEF IInv, TypeOK
  <2> QED BY <1>2, <2>1 DEF IInv
<1> QED BY <1>3, <1>4, <1>5, <1>6 DEF IInv

LEMMA BeginStep ==
  ASSUME IInv, operation = {}, NEW t \in Threads, NEW script \in Seq(Steps), script # <<>>,
         Begins(t, thread[t], script),
         ModulesType(modules'), graph' = graph, graph \in Seq(DOMAIN modules'),
         UNCHANGED <<registry, application>>, Published(Reg, modules'),
         \A y \in Work : y.script = script /\ y.made = <<>>
           => Working(y, graph, modules', Reg, application.started)
  PROVE  IInv'
<1>1. thread \in [Threads -> Work]
  BY DEF IInv, TypeOK
<1>2. \A u \in Threads : thread[u].script = <<>> /\ thread[u].made = <<>>
  BY DEF IInv, Exclusive
<1> DEFINE y == [thread[t] EXCEPT !.script = script, !.clean = TRUE]
           z(u) == [thread[u] EXCEPT !.troubles = IF thread[u].stage = "" THEN 0 ELSE 2]
<1>3. y \in Work /\ y.script = script /\ y.made = <<>>
  BY <1>1, <1>2 DEF Work
<1>4. \A u \in Threads : z(u) \in Work /\ z(u).script = <<>> /\ z(u).made = <<>>
  <2> SUFFICES ASSUME NEW u \in Threads
               PROVE  z(u) \in Work /\ z(u).script = <<>> /\ z(u).made = <<>>
    OBVIOUS
  <2>1. \A n \in 0..2 : LET v == [thread[u] EXCEPT !.troubles = n]
                        IN v \in Work /\ v.script = <<>> /\ v.made = <<>>
    BY <1>1, <1>2 DEF Work
  <2>2. (IF thread[u].stage = "" THEN 0 ELSE 2) \in 0..2
    OBVIOUS
  <2> QED BY <2>1, <2>2
<1>5. operation' = {t} /\ thread' = [u \in Threads |-> IF u = t THEN y ELSE z(u)]
  BY DEF Begins
<1> HIDE DEF y, z
<1>6. Reg' = Reg
  BY DEF Reg, registry
<1>7. TypeOK'
  <2>1. thread' \in [Threads -> Work]
    BY <1>3, <1>4, <1>5
  <2> QED BY <1>5, <2>1 DEF IInv, TypeOK, ModulesType
<1>8. Exclusive'
  BY <1>3, <1>4, <1>5 DEF Exclusive
<1>9. \A u \in operation' : Working(thread'[u], graph', modules', Reg', application'.started)
  BY <1>3, <1>5, <1>6
<1> QED BY <1>5, <1>6, <1>7, <1>8, <1>9 DEF IInv

LEMMA ReturnStep ==
  ASSUME IInv, NEW t \in operation, NEW ok \in BOOLEAN, Returns(t, ok),
         ModulesType(modules'), graph' \in Seq(DOMAIN modules'),
         application' \in [started : BOOLEAN, exiting : BOOLEAN],
         UNCHANGED registry, Published(Reg, modules'),
         Held(graph', modules', Reg), Paired(modules', graph', application'.started)
  PROVE  IInv'
<1>1. operation = {t} /\ t \in Threads
  BY OneBusy
<1>2. thread \in [Threads -> Work]
  BY DEF IInv, TypeOK
<1> DEFINE x == Returned(thread[t], ok)
<1>3. x \in Work /\ x.script = <<>> /\ x.made = <<>>
  BY <1>1, <1>2, ReturnedType
<1>4. operation' = {} /\ thread' = [thread EXCEPT ![t] = x]
  BY <1>1 DEF Returns
<1> HIDE DEF x
<1>5. thread'[t] = x /\ \A u \in Threads : u # t => thread'[u] = thread[u]
  BY <1>1, <1>2, <1>4
<1>6. Reg' = Reg
  BY DEF Reg, registry
<1>7. TypeOK'
  <2>1. thread' \in [Threads -> Work]
    BY <1>1, <1>2, <1>3, <1>4
  <2> QED BY <1>4, <2>1 DEF TypeOK, ModulesType
<1>8. Exclusive'
  BY <1>1, <1>3, <1>4, <1>5 DEF IInv, Exclusive
<1> QED BY <1>4, <1>6, <1>7, <1>8 DEF IInv
-----------------------------------------------------------------------------
\* The actions that begin nothing: Init, refusals, Reload, and the plugins.

LEMMA Initially == Init => IInv
<1> SUFFICES ASSUME Init PROVE IInv
  OBVIOUS
<1>1. modules = <<>> /\ DOMAIN modules = {} /\ graph = <<>> /\ operation = {} /\ Len(graph) = 0
  BY DEF Init
<1>2. thread = [t \in Threads |-> Idle] /\ Idle \in Work /\ Idle.script = <<>> /\ Idle.made = <<>>
  BY IdleType DEF Init
<1>3. TypeOK
  <2>1. application \in [started : BOOLEAN, exiting : BOOLEAN]
    BY DEF Init
  <2> QED BY <1>1, <1>2, <2>1, FS_EmptySet DEF TypeOK
<1>4. Exclusive
  BY <1>1, <1>2 DEF Exclusive
<1>5. /\ Reg.leases = {} /\ Reg.mapped = {} /\ Reg.providers = {} /\ Reg.orphans = {}
      /\ Reg.stuck = {}
  BY DEF Init, Reg
<1> HIDE DEF Reg
<1>6. Published(Reg, modules)
  BY <1>5 DEF Published
<1>7. Held(graph, modules, Reg)
  <2>1. Registry(Reg, graph, Len(graph), Len(graph))
    BY <1>1, <1>5 DEF Registry, Injective
  <2>2. 0 \in 0..Len(graph) /\ Cut(modules, graph, 0)
    BY <1>1 DEF Cut
  <2> QED BY <2>1, <2>2 DEF Held
<1>8. Paired(modules, graph, application.started)
  BY <1>1 DEF Paired, Quiet
<1> QED BY <1>1, <1>3, <1>4, <1>6, <1>7, <1>8 DEF IInv

LEMMA RefuseStep ==
  ASSUME IInv, NEW t \in Threads, t \notin operation, NEW ok \in BOOLEAN, Refuses(t, ok),
         UNCHANGED <<modules, graph, registry, application>>
  PROVE  IInv'
<1> DEFINE x == [thread[t] EXCEPT !.troubles = Trouble(thread[t], IF ok THEN 0 ELSE 1)]
<1>1. thread[t] \in Work
  BY DEF IInv, TypeOK
<1>2. x \in Work
  <2>1. \A n \in 0..2 : [thread[t] EXCEPT !.troubles = n] \in Work
    BY <1>1 DEF Work
  <2>2. Trouble(thread[t], IF ok THEN 0 ELSE 1) \in 0..2
    BY <1>1, TroubleType
  <2> QED BY <2>1, <2>2
<1>3. thread' = [thread EXCEPT ![t] = Returned(x, ok)] /\ operation' = operation
  BY DEF Refuses
<1> HIDE DEF x
<1>4. Returned(x, ok) \in Work /\ Returned(x, ok).script = <<>> /\ Returned(x, ok).made = <<>>
  BY <1>2, ReturnedType
<1> QED BY <1>3, <1>4, IdleStep

LEMMA ReloadStep == ASSUME IInv, NEW t \in Threads, Reload(t) PROVE IInv'
<1> DEFINE y(new) == [Idle EXCEPT !.stage = "unload", !.new = new, !.old = Loaded,
                                  !.restart = application.started]
<1>1. PICK new \in Inputs \cup {{d} \cup {e \in Loaded : e.name # d.name} : d \in Additions} :
        thread' = [thread EXCEPT ![t] = y(new)]
  BY DEF Reload
<1>2. /\ thread[t] = Idle
      /\ UNCHANGED <<modules, graph, registry, application, operation>>
  BY DEF Reload, Free
<1>3. Loaded \subseteq Definitions
  <2>1. \A i \in Graph : i \in DOMAIN modules
    BY DEF IInv, TypeOK, Graph, ToSet
  <2>2. \A i \in DOMAIN modules : modules[i].definition \in Definitions
    BY DEF IInv, TypeOK, Instance
  <2> QED BY <2>1, <2>2 DEF Loaded
<1>4. new \in SUBSET Definitions
  <2>1. CASE new \in Inputs
    BY <2>1, ConstantsAssumption
  <2>2. CASE new \in {{d} \cup {e \in Loaded : e.name # d.name} : d \in Additions}
    BY <1>3, <2>2, ConstantsAssumption
  <2> QED BY <2>1, <2>2
<1>5. y(new) \in Work /\ y(new).script = <<>> /\ y(new).made = <<>>
  <2>1. application.started \in BOOLEAN
    BY DEF IInv, TypeOK
  <2> QED BY <1>3, <1>4, <2>1, IdleType DEF Work, Stages
<1>6. t \notin operation
  BY <1>2, IdleType DEF IInv, Exclusive
<1> HIDE DEF y
<1> QED BY <1>1, <1>2, <1>5, <1>6, IdleStep

LEMMA PluginWorking ==
  ASSUME NEW x, NEW g, NEW ms, NEW r, NEW r2, NEW started, Working(x, g, ms, r, started),
         \A l \in r2.leases : l \in r.leases \/ l.importer \in Plugins,
         r2.mapped = r.mapped, r2.providers = r.providers, r2.orphans = r.orphans,
         r2.stuck = r.stuck
  PROVE  Working(x, g, ms, r2, started)
<1>1. \A L, n, m : Registry(r, L, n, m) => Registry(r2, L, n, m)
  BY PluginRegistry
<1>2. Held(g, ms, r) => Held(g, ms, r2)
  BY <1>1 DEF Held
<1>3. \A L, s, final : Cleaning(r, L, s, final) => Cleaning(r2, L, s, final)
  BY <1>1 DEF Cleaning
<1>4. Loading(x, g, ms, r) => Loading(x, g, ms, r2)
  BY <1>1 DEF Loading
<1>5. RollingBack(x, g, ms, r) => RollingBack(x, g, ms, r2)
  BY <1>3 DEF RollingBack
<1>6. Emptying(x, g, ms, r) => Emptying(x, g, ms, r2)
  BY <1>3 DEF Emptying
<1>7. Stopping(x, g, ms, r) => Stopping(x, g, ms, r2)
  BY <1>2 DEF Stopping
<1>8. Ending(x, g, ms, r) => Ending(x, g, ms, r2)
  BY <1>2 DEF Ending
<1>9. Exiting(x, g, ms, r, started) => Exiting(x, g, ms, r2, started)
  BY <1>2 DEF Exiting
<1>10. Starting(x, g, ms, r) => Starting(x, g, ms, r2)
  BY <1>2 DEF Starting
<1> QED BY <1>4, <1>5, <1>6, <1>7, <1>8, <1>9, <1>10 DEF Working

LEMMA PluginStep ==
  ASSUME IInv, NEW p \in Plugins, Resolve(p) \/ ReleasePlugin(p)
  PROVE  IInv'
<1>1. /\ \A l \in leases' : /\ l \in leases \/ l.importer \in Plugins
                            /\ l.provider \in providers
      /\ UNCHANGED <<modules, graph, providers, mapped, application, operation, thread,
                     orphans, stuck>>
  <2>1. \A l \in leases : l.provider \in providers
    BY DEF IInv, Published, Reg
  <2> QED BY <2>1 DEF Resolve, ReleasePlugin
<1>2. /\ \A l \in Reg'.leases : l \in Reg.leases \/ l.importer \in Plugins
      /\ Reg'.mapped = Reg.mapped /\ Reg'.providers = Reg.providers
      /\ Reg'.orphans = Reg.orphans /\ Reg'.stuck = Reg.stuck
      /\ \A l \in Reg'.leases : l.provider \in Reg.providers
  BY <1>1 DEF Reg
<1>3. Published(Reg, modules)
  BY DEF IInv
<1> HIDE DEF Reg
<1>4. Published(Reg', modules)
  BY <1>2, <1>3 DEF Published
<1>5. TypeOK' /\ Exclusive'
  BY <1>1 DEF IInv, TypeOK, Exclusive
<1>6. Held(graph, modules, Reg) => Held(graph, modules, Reg')
  <2>1. \A L, n, m : Registry(Reg, L, n, m) => Registry(Reg', L, n, m)
    BY <1>2, PluginRegistry
  <2> QED BY <2>1 DEF Held
<1>7. ASSUME NEW t \in operation
      PROVE  Working(thread[t], graph, modules, Reg', application.started)
  BY <1>2, PluginWorking DEF IInv
<1> QED BY <1>1, <1>4, <1>5, <1>6, <1>7 DEF IInv
-----------------------------------------------------------------------------
\* The operations begin.

LEMMA FreshFacts ==
  ASSUME NEW n \in Nat, NEW s \in Fresh(n), IsFiniteSet(DOMAIN modules)
  PROVE  /\ s \in Seq(Nat) /\ Len(s) = n /\ Injective(s)
         /\ \A k \in 1..n : s[k] \notin DOMAIN modules
         /\ IsFiniteSet(Upto(s, Len(s))) /\ Upto(s, Len(s)) \subseteq Nat
<1> DEFINE c == Cardinality(DOMAIN modules)
<1>1. c \in Nat
  BY FS_CardinalityType
<1>2. /\ s \in [1..n -> 1..(n + c)]
      /\ \A k \in 1..n : s[k] \notin DOMAIN modules \cup {s[j] : j \in 1..(k - 1)}
  BY DEF Fresh
<1> HIDE DEF c
<1>3. s \in Seq(Nat) /\ Len(s) = n
  <2>1. 1..(n + c) \subseteq Nat
    BY <1>1
  <2>2. s \in [1..n -> Nat]
    BY <1>2, <2>1
  <2> QED BY <2>2
<1>4. Injective(s)
  <2> SUFFICES ASSUME NEW j \in 1..n, NEW k \in 1..n, s[j] = s[k], j < k PROVE FALSE
    BY <1>3 DEF Injective
  <2>1. j \in 1..(k - 1)
    OBVIOUS
  <2> QED BY <1>2, <2>1
<1>5. Upto(s, Len(s)) \subseteq 1..(n + c)
  BY <1>2, <1>3 DEF Upto
<1>6. n + c \in Int /\ 1 \in Int
  BY <1>1
<1>7. IsFiniteSet(Upto(s, Len(s)))
  BY <1>5, <1>6, FS_Interval, FS_Subset
<1> QED BY <1>1, <1>2, <1>3, <1>4, <1>5, <1>7

LEMMA OrderFacts ==
  ASSUME NEW definitions \in SUBSET Definitions, NEW d \in Orders(definitions)
  PROVE  /\ d \in Seq(Definitions) /\ Len(d) \in Nat
<1>1. Cardinality(definitions) \in Nat
  BY ConstantsAssumption, FS_Subset, FS_CardinalityType
<1>2. d \in [1..Cardinality(definitions) -> definitions]
  BY DEF Orders
<1> QED BY <1>1, <1>2

LEMMA LoadsStep ==
  ASSUME IInv, NEW t \in Threads, t \notin operation, NEW definitions \in SUBSET Definitions,
         Loads(t, definitions)
  PROVE  IInv'
<1> DEFINE refused == \/ operation # {} \/ graph # <<>> \/ ~Satisfied(definitions)
                      \/ Orders(definitions) = {}
<1>1. CASE refused
  <2>1. Refuses(t, FALSE) /\ UNCHANGED <<modules, graph, registry, application>>
    BY <1>1 DEF Loads, registry
  <2> QED BY <2>1, RefuseStep
<1>2. CASE ~refused
  <2> DEFINE made(d, s, i) ==
               [definition |-> d[CHOOSE k \in DOMAIN d : s[k] = i], state |-> "up",
                initialized |-> FALSE, running |-> FALSE]
  <2>a. PICK d \in Orders(definitions) : \E s \in Fresh(Len(d)) :
          /\ Begins(t, thread[t], LoadScript(d, s))
          /\ modules' = [i \in DOMAIN modules \cup ToSet(s) |->
                           IF i \in DOMAIN modules THEN modules[i] ELSE made(d, s, i)]
    BY <1>2 DEF Loads
  <2>1. PICK s \in Fresh(Len(d)) :
          /\ Begins(t, thread[t], LoadScript(d, s))
          /\ modules' = [i \in DOMAIN modules \cup ToSet(s) |->
                           IF i \in DOMAIN modules THEN modules[i] ELSE made(d, s, i)]
    BY <2>a
  <2>2. operation = {} /\ graph = <<>> /\ UNCHANGED <<graph, registry, application>>
    BY <1>2 DEF Loads
  <2>3. d \in Seq(Definitions) /\ Len(d) \in Nat
    BY OrderFacts
  <2>4. ModulesType(modules)
    BY DEF IInv, TypeOK, ModulesType
  <2>5. /\ s \in Seq(Nat) /\ Len(s) = Len(d) /\ Injective(s)
        /\ \A k \in 1..Len(d) : s[k] \notin DOMAIN modules
        /\ IsFiniteSet(Upto(s, Len(s))) /\ Upto(s, Len(s)) \subseteq Nat
    BY <2>3, <2>4, FreshFacts DEF ModulesType
  <2>6. ToSet(s) = Upto(s, Len(s)) /\ DOMAIN d = 1..Len(s)
    BY <2>3, <2>5 DEF ToSet, Upto
  <2>7. \A i \in Upto(s, Len(s)) : made(d, s, i) \in Instance /\ ~made(d, s, i).running
    <3> SUFFICES ASSUME NEW i \in Upto(s, Len(s))
                 PROVE  d[CHOOSE k \in DOMAIN d : s[k] = i] \in Definitions
      BY DEF Instance
    <3>1. \E k \in DOMAIN d : s[k] = i
      BY <2>6 DEF Upto
    <3>2. (CHOOSE k \in DOMAIN d : s[k] = i) \in DOMAIN d
      BY <3>1
    <3> QED BY <2>3, <3>2
  <2> HIDE DEF made
  <2>8. /\ DOMAIN modules' = DOMAIN modules \cup Upto(s, Len(s))
        /\ \A i \in DOMAIN modules : modules'[i] = modules[i]
        /\ \A i \in DOMAIN modules' \ DOMAIN modules : modules'[i] = made(d, s, i)
    BY <2>1, <2>6
  <2>9. ModulesType(modules')
    <3>1. IsFiniteSet(DOMAIN modules')
      <4>1. IsFiniteSet(DOMAIN modules)
        BY <2>4 DEF ModulesType
      <4>2. IsFiniteSet(Upto(s, Len(s)))
        BY <2>5
      <4>3. IsFiniteSet(DOMAIN modules \cup Upto(s, Len(s)))
        BY <4>1, <4>2, FS_Union
      <4> QED BY <2>8, <4>3
    <3>2. modules' = [i \in DOMAIN modules' |-> modules'[i]]
      BY <2>1
    <3>3. \A i \in DOMAIN modules' : modules'[i] \in Instance
      BY <2>4, <2>7, <2>8 DEF ModulesType
    <3> QED BY <2>4, <2>5, <2>8, <3>1, <3>2, <3>3 DEF ModulesType
  <2>10. Held(<<>>, modules, Reg) /\ Published(Reg, modules) /\ Quiet(modules)
    <3>1. Held(graph, modules, Reg) /\ Paired(modules, graph, application.started)
      BY <2>2 DEF IInv
    <3>2. Upto(<<>>, Len(<<>>)) = {}
      BY DEF Upto
    <3>3. \A i \in DOMAIN modules : modules[i].running \in BOOLEAN
      BY <2>4 DEF ModulesType, Instance
    <3>4. Quiet(modules)
      BY <2>2, <3>1, <3>2, <3>3 DEF Paired, Quiet
    <3> QED BY <2>2, <3>1, <3>4 DEF IInv
  <2>11. Quiet(modules') /\ Published(Reg, modules')
    <3>1. Quiet(modules')
      BY <2>7, <2>8, <2>10 DEF Quiet
    <3>2. Published(Reg, modules')
      BY <2>8, <2>10 DEF Published
    <3> QED BY <3>1, <3>2
  <2>12. LoadScript(d, s) \in Seq(Steps) /\ LoadScript(d, s) # <<>>
    <3>1. LoadScript(d, s) \in Seq(Steps) /\ Len(LoadScript(d, s)) = 4 * Len(s) + 1
      BY <2>3, <2>5, LoadScriptFacts
    <3>2. 4 * Len(s) + 1 # 0
      BY <2>3, <2>5
    <3> QED BY <3>1, <3>2
  <2>13. \A y \in Work : y.script = LoadScript(d, s) /\ y.made = <<>>
           => Working(y, graph, modules', Reg, application.started)
    BY <2>2, <2>3, <2>5, <2>8, <2>10, <2>11, LoadBegins DEF Working
  <2>14. graph \in Seq(DOMAIN modules')
    BY <2>2
  <2> QED BY <2>1, <2>2, <2>9, <2>11, <2>12, <2>13, <2>14, BeginStep
<1> QED BY <1>1, <1>2

\* An operation on a graph that stays: y is the record of the thread.
LEMMA GraphBegins ==
  ASSUME IInv, operation = {}, NEW t \in Threads, NEW script \in Seq(Steps), script # <<>>,
         Begins(t, thread[t], script), UNCHANGED <<modules, graph, registry, application>>,
         \A y \in Work : y.script = script /\ y.made = <<>>
           => Working(y, graph, modules, Reg, application.started)
  PROVE  IInv'
<1>1. ModulesType(modules) /\ graph \in Seq(DOMAIN modules) /\ Published(Reg, modules)
  BY DEF IInv, TypeOK, ModulesType
<1> QED BY <1>1, BeginStep

LEMMA GraphFacts ==
  ASSUME IInv
  PROVE  /\ graph \in Seq(DOMAIN modules) /\ graph \in Seq(Nat) /\ ModulesType(modules)
         /\ operation = {} => /\ Held(graph, modules, Reg)
                              /\ Paired(modules, graph, application.started)
<1>1. DOMAIN modules \subseteq Nat /\ graph \in Seq(DOMAIN modules)
  BY DEF IInv, TypeOK
<1>2. graph \in Seq(Nat)
  BY <1>1
<1> QED BY <1>1, <1>2 DEF IInv, TypeOK, ModulesType

LEMMA UnloadsStep ==
  ASSUME IInv, NEW t \in Threads, t \notin operation, Unloads(t)
  PROVE  IInv'
<1>1. UNCHANGED <<modules, graph, registry, application>>
  BY DEF Unloads, registry
<1>2. CASE operation # {} \/ graph = <<>>
  <2>1. Refuses(t, FALSE) \/ Refuses(t, TRUE)
    BY <1>2 DEF Unloads
  <2> QED BY <1>1, <2>1, RefuseStep
<1>3. CASE operation = {} /\ graph # <<>>
  <2>1. Begins(t, thread[t], UnloadScript)
    BY <1>3 DEF Unloads
  <2>2. /\ graph \in Seq(Nat) /\ Held(graph, modules, Reg)
        /\ Paired(modules, graph, application.started)
        /\ "emptied" \in Acts
    BY <1>3, GraphFacts DEF Acts, Finals
  <2> DEFINE a == Calls("ends", graph) \o Calls("allEnds", graph) \o Final("stopped")
             b == Cleanup(graph) \o Final("emptied")
  <2>3. CASE application.started
    <3>1. UnloadScript = a \o Cleanup(graph) \o Final("emptied")
      BY <2>3 DEF UnloadScript
    <3>2. a \in Seq(Steps) /\ b \in Seq(Steps)
      BY <2>2, StopRounds, CleanupFacts
    <3>3. UnloadScript = a \o b /\ UnloadScript \in Seq(Steps) /\ UnloadScript # <<>>
      <4>1. Cleanup(graph) \in Seq(Steps) /\ Final("emptied") \in Seq(Steps)
        <5>1. Reverse(graph) \in Seq(Nat) /\ "fini" \in Acts
          BY <2>2, ReverseFacts DEF Acts, Hooks
        <5> QED BY <2>2, <5>1, CallsFacts, FinalFacts DEF Cleanup
      <4>2. Len(a) = 2 * Len(graph) + 1 /\ Len(graph) \in Nat
        BY <2>2, StopRounds
      <4> HIDE DEF a
      <4>3. UnloadScript = a \o b
        BY <3>1, <3>2, <4>1
      <4>4. a \o b \in Seq(Steps) /\ Len(a \o b) = Len(a) + Len(b) /\ Len(b) \in Nat
        BY <3>2, ConcatFacts
      <4> HIDE DEF b
      <4>5. Len(a \o b) # 0
        BY <4>2, <4>4
      <4> QED BY <4>3, <4>4, <4>5
    <3>4. \A y \in Work : y.script = UnloadScript /\ y.made = <<>>
            => Working(y, graph, modules, Reg, application.started)
      BY <2>2, <3>1, StopBegins DEF Working
    <3> QED BY <1>1, <1>3, <2>1, <3>3, <3>4, GraphBegins
  <2>4. CASE ~application.started
    <3>1. UnloadScript = b /\ UnloadScript # <<>> /\ UnloadScript \in Seq(Steps)
      <4>1. Reverse(graph) \in Seq(Nat) /\ "fini" \in Acts /\ Len(graph) \in Nat
        BY <2>2, ReverseFacts DEF Acts, Hooks
      <4>2. Cleanup(graph) \in Seq(Steps) /\ Final("emptied") \in Seq(Steps)
        BY <2>2, <4>1, CallsFacts, FinalFacts DEF Cleanup
      <4>3. b \in Seq(Steps) /\ Len(b) = Len(graph) + 1
        BY <2>2, CleanupFacts
      <4>4. UnloadScript = b
        BY <2>4, <4>2 DEF UnloadScript
      <4> HIDE DEF b
      <4> QED BY <4>1, <4>3, <4>4
    <3>2. Quiet(modules)
      BY <2>2, <2>4 DEF Paired
    <3>3. \A y \in Work : y.script = UnloadScript /\ y.made = <<>>
            => Working(y, graph, modules, Reg, application.started)
      BY <2>2, <3>1, <3>2, CleanupBegins DEF Working
    <3> QED BY <1>1, <1>3, <2>1, <3>1, <3>3, GraphBegins
  <2> QED BY <2>3, <2>4
<1> QED BY <1>2, <1>3

LEMMA StartsStep ==
  ASSUME IInv, NEW t \in Threads, t \notin operation, Starts(t)
  PROVE  IInv'
<1>1. UNCHANGED <<modules, graph, registry, application>>
  BY DEF Starts, registry
<1>2. CASE operation # {} \/ application.started
  <2>1. Refuses(t, FALSE) \/ Refuses(t, TRUE)
    BY <1>2 DEF Starts
  <2> QED BY <1>1, <2>1, RefuseStep
<1>3. CASE operation = {} /\ ~application.started
  <2>1. Begins(t, thread[t], StartScript)
    BY <1>3 DEF Starts
  <2>2. /\ graph \in Seq(Nat) /\ Held(graph, modules, Reg) /\ ModulesType(modules)
        /\ Paired(modules, graph, application.started)
        /\ "starts" \in Acts /\ "allStarts" \in Acts /\ "started" \in Acts
    BY <1>3, GraphFacts DEF Acts, Finals, Hooks
  <2>3. Quiet(modules)
    BY <1>3, <2>2 DEF Paired
  <2>4. StartScript \in Seq(Steps) /\ Len(StartScript) = 2 * Len(graph) + 1 /\ Len(graph) \in Nat
    <3>1. StartScript = Rounds("starts", "allStarts", "started", graph)
      BY DEF StartScript, Rounds
    <3> QED BY <2>2, <3>1, TwoRounds
  <2>5. StartScript # <<>>
    BY <2>4
  <2>6. \A y \in Work : y.script = StartScript /\ y.made = <<>>
          => Working(y, graph, modules, Reg, application.started)
    BY <2>2, <2>3, StartBegins DEF Working, StartScript
  <2> QED BY <1>1, <1>3, <2>1, <2>4, <2>5, <2>6, GraphBegins
<1> QED BY <1>2, <1>3

LEMMA ExitStep ==
  ASSUME IInv, NEW t \in Threads, OnApplicationRequestsExit(t) PROVE IInv'
<1>1. /\ UNCHANGED <<modules, graph, registry, application>> /\ operation = {}
      /\ Begins(t, thread[t], ExitScript)
  BY DEF OnApplicationRequestsExit, registry
<1>2. /\ graph \in Seq(Nat) /\ Held(graph, modules, Reg)
      /\ Paired(modules, graph, application.started)
      /\ "exit" \in Acts /\ "allExit" \in Acts /\ "exiting" \in Acts
  BY <1>1, GraphFacts DEF Acts, Finals, Hooks
<1>3. ExitScript \in Seq(Steps) /\ Len(ExitScript) = 2 * Len(graph) + 1 /\ Len(graph) \in Nat
  <2>1. ExitScript = Rounds("exit", "allExit", "exiting", graph)
    BY DEF ExitScript, Rounds
  <2> QED BY <1>2, <2>1, TwoRounds
<1>4. ExitScript # <<>>
  BY <1>3
<1>5. \A y \in Work : y.script = ExitScript /\ y.made = <<>>
        => Working(y, graph, modules, Reg, application.started)
  BY <1>2, ExitBegins DEF Working, ExitScript
<1> QED BY <1>1, <1>3, <1>4, <1>5, GraphBegins

LEMMA EndStep ==
  ASSUME IInv, NEW t \in Threads, OnApplicationEnds(t) PROVE IInv'
<1>1. /\ UNCHANGED <<modules, graph, registry, application>> /\ operation = {}
      /\ Begins(t, thread[t], EndScript)
  BY DEF OnApplicationEnds, registry
<1>2. /\ graph \in Seq(Nat) /\ Held(graph, modules, Reg)
      /\ Paired(modules, graph, application.started)
      /\ "ends" \in Acts /\ "allEnds" \in Acts /\ "ended" \in Acts
  BY <1>1, GraphFacts DEF Acts, Finals, Hooks
<1>3. EndScript \in Seq(Steps) /\ Len(EndScript) = 2 * Len(graph) + 1 /\ Len(graph) \in Nat
  <2>1. EndScript = Rounds("ends", "allEnds", "ended", graph)
    BY DEF EndScript, Rounds
  <2> QED BY <1>2, <2>1, TwoRounds
<1>4. EndScript # <<>>
  BY <1>3
<1>5. \A y \in Work : y.script = EndScript /\ y.made = <<>>
        => Working(y, graph, modules, Reg, application.started)
  BY <1>2, EndBegins DEF Working, EndScript
<1> QED BY <1>1, <1>3, <1>4, <1>5, GraphBegins
-----------------------------------------------------------------------------
\* The record of a thread after a step of its operation.

LEMMA RestNonempty ==
  ASSUME NEW s \in Seq(Steps), s # <<>>, Len(s) >= 2
  PROVE  Rest(s) # <<>>
<1>1. Len(s) \in Nat
  OBVIOUS
<1>2. Rest(s) \in Seq(Steps) /\ (Len(Rest(s)) = Len(s) \/ Len(Rest(s)) = Len(s) - 1)
  BY RestFacts
<1> HIDE DEF Rest
<1>3. Len(Rest(s)) # 0
  BY <1>1, <1>2
<1> QED BY <1>3

\* Proceeds and Soils.
LEMMA Proceeding ==
  ASSUME IInv, NEW t \in operation, Proceeds(t) \/ Soils(t)
  PROVE  \E y \in Work : /\ thread' = [thread EXCEPT ![t] = y]
                         /\ y.script = Rest(thread[t].script) /\ y.made = thread[t].made
<1> DEFINE x == thread[t]
<1>1. t \in Threads /\ x \in Work /\ x.script # <<>> /\ thread \in [Threads -> Work]
  BY OneBusy DEF IInv, TypeOK
<1>2. x.script \in Seq(Steps) /\ x.made \in Seq(Nat) /\ x.clean \in BOOLEAN /\ x.troubles \in 0..2
  BY <1>1 DEF Work
<1>3. Rest(x.script) \in Seq(Steps)
  BY <1>1, <1>2, RestFacts
<1>4. CASE Proceeds(t)
  <2> DEFINE y == [x EXCEPT !.script = Rest(x.script)]
  <2>1. y \in Work /\ y.script = Rest(x.script) /\ y.made = x.made
    BY <1>1, <1>3 DEF Work
  <2>2. thread' = [thread EXCEPT ![t] = y]
    BY <1>1, <1>4 DEF Proceeds
  <2> QED BY <2>1, <2>2
<1>5. CASE Soils(t)
  <2> DEFINE y == [x EXCEPT !.script = Rest(x.script), !.clean = FALSE,
                            !.troubles = Trouble(x, 2)]
  <2>1. Trouble(x, 2) \in 0..2
    BY <1>1, TroubleType
  <2>2. y \in Work /\ y.script = Rest(x.script) /\ y.made = x.made
    BY <1>1, <1>3, <2>1 DEF Work
  <2>3. thread' = [thread EXCEPT ![t] = y]
    BY <1>1, <1>5 DEF Soils
  <2> QED BY <2>2, <2>3
<1> QED BY <1>4, <1>5

LEMMA Undoing ==
  ASSUME IInv, NEW t \in operation, NEW made \in Seq(Nat), Undo(t, made)
  PROVE  \E y \in Work : /\ thread' = [thread EXCEPT ![t] = y] /\ y.script # <<>>
                         /\ y.script = Cleanup(made) \o Final("abandon") /\ y.made = made
<1> DEFINE x == thread[t]
           s == Cleanup(made) \o Final("abandon")
           y == [x EXCEPT !.script = s, !.made = made, !.troubles = Trouble(x, 1)]
<1>1. t \in Threads /\ x \in Work /\ thread \in [Threads -> Work] /\ "abandon" \in Acts
  BY OneBusy DEF IInv, TypeOK, Acts, Finals
<1>2. s \in Seq(Steps) /\ Len(s) = Len(made) + 1 /\ Len(made) \in Nat
  BY <1>1, CleanupFacts
<1>3. Trouble(x, 1) \in 0..2
  BY <1>1, TroubleType
<1>4. thread' = [thread EXCEPT ![t] = y]
  BY <1>1 DEF Undo
<1> HIDE DEF s
<1>5. s # <<>>
  BY <1>2
<1>6. y \in Work /\ y.script = s /\ y.made = made
  BY <1>1, <1>2, <1>3 DEF Work
<1> HIDE DEF y
<1> QED BY <1>4, <1>5, <1>6 DEF s

LEMMA Unstarting ==
  ASSUME IInv, NEW t \in operation, NEW L \in Seq(Nat), UndoStart(t, L)
  PROVE  \E y \in Work : /\ thread' = [thread EXCEPT ![t] = y]
                         /\ y.script = Calls("ends", Reverse(L)) \o Final("unstarted")
                         /\ y.made = thread[t].made
<1> DEFINE x == thread[t]
           s == Calls("ends", Reverse(L)) \o Final("unstarted")
           y == [x EXCEPT !.script = s, !.troubles = Trouble(x, 1)]
<1>1. /\ t \in Threads /\ x \in Work /\ thread \in [Threads -> Work]
      /\ "ends" \in Acts /\ "unstarted" \in Acts
  BY OneBusy DEF IInv, TypeOK, Acts, Hooks, Finals
<1>2. s \in Seq(Steps)
  <2>1. Reverse(L) \in Seq(Nat)
    BY ReverseFacts
  <2>2. Calls("ends", Reverse(L)) \in Seq(Steps) /\ Final("unstarted") \in Seq(Steps)
    BY <1>1, <2>1, CallsFacts, FinalFacts
  <2> QED BY <2>2, ConcatFacts
<1>3. Trouble(x, 1) \in 0..2
  BY <1>1, TroubleType
<1>4. thread' = [thread EXCEPT ![t] = y]
  BY <1>1 DEF UndoStart, Turns
<1> HIDE DEF s
<1>5. y \in Work /\ y.script = s /\ y.made = x.made
  BY <1>1, <1>2, <1>3 DEF Work
<1> HIDE DEF y
<1> QED BY <1>4, <1>5 DEF s

-----------------------------------------------------------------------------
\* The steps of a load that are not hooks.

\* The registry may grow by a module and by leases of it.
LEMMA PublishedMore ==
  ASSUME NEW r, NEW r2, NEW ms, NEW i \in DOMAIN ms, Published(r, ms),
         \A l \in r2.leases : l \in r.leases \/ l.provider \in r.providers,
         r2.orphans = r.orphans, r2.stuck = r.stuck,
         \/ r2.mapped \in {r.mapped, r.mapped \cup {i}} /\ r2.providers = r.providers
         \/ r2.mapped = r.mapped \cup {i} /\ r2.providers = r.providers \cup {i}
  PROVE  Published(r2, ms)
BY DEF Published

LEMMA MapStep == ASSUME IInv, NEW t \in Threads, Map(t) PROVE IInv'
<1> DEFINE x == thread[t]
           i == x.script[1].module
           made == Append(x.made, i)
<1>1. /\ x.script # <<>> /\ x.script[1].do = "map" /\ t \in operation
      /\ UNCHANGED <<modules, graph, leases, application, operation, orphans, stuck>>
  BY DEF Map, At, IInv, Exclusive
<1>2. x \in Work /\ Working(x, graph, modules, Reg, application.started)
  BY <1>1, OneBusy
<1>3. graph \in Seq(DOMAIN modules) /\ ModulesType(modules) /\ Published(Reg, modules)
  BY GraphFacts DEF IInv
<1> HIDE DEF x
<1>4. Loading(x, graph, modules, Reg)
  BY <1>1, <1>2, <1>3, Kinds DEF Loads1
<1>5. Len(x.script) >= 2 /\ i \in DOMAIN modules /\ x.script \in Seq(Steps)
  BY <1>1, <1>2, <1>4, LoadingMore
<1>6. /\ i \notin Reg.mapped \cup Reg.providers \cup Upto(x.made, Len(x.made))
      /\ x.made \in Seq(DOMAIN modules) /\ graph = <<>> /\ Quiet(modules)
      /\ Registry(Reg, x.made, Len(x.made), Len(x.made))
  <2>1. 1 \in 1..(Len(x.script) - 1)
    BY <1>5
  <2> QED BY <1>1, <1>4, <2>1 DEF Loading
<1>7. Reg.orphans \subseteq Reg.providers
  BY <1>3 DEF Published
<1>8. made \in Seq(DOMAIN modules) /\ made \in Seq(Nat)
  <2>1. made \in Seq(DOMAIN modules)
    BY <1>5, <1>6
  <2>2. DOMAIN modules \subseteq Nat
    BY <1>3 DEF ModulesType
  <2> HIDE DEF made
  <2> QED BY <2>1, <2>2
<1>9. application' \in [started : BOOLEAN, exiting : BOOLEAN]
  BY <1>1 DEF IInv, TypeOK
<1>10. Reg'.leases = Reg.leases /\ Reg'.orphans = Reg.orphans /\ Reg'.stuck = Reg.stuck
  BY <1>1 DEF Reg
<1>11. CASE /\ mapped' = mapped \cup {i} /\ providers' = providers \cup {i}
            /\ thread' = [thread EXCEPT ![t].script = Rest(@), ![t].made = made]
  <2>1. Reg'.mapped = Reg.mapped \cup {i} /\ Reg'.providers = Reg.providers \cup {i}
    BY <1>11 DEF Reg
  <2> DEFINE y == [x EXCEPT !.script = Rest(x.script), !.made = made]
  <2>2. Rest(x.script) \in Seq(Steps) /\ Rest(x.script) # <<>>
    BY <1>1, <1>5, RestFacts, RestNonempty
  <2>3. y \in Work /\ y.script = Rest(x.script) /\ y.made = made
    BY <1>2, <1>8, <2>2 DEF Work
  <2>4. thread' = [thread EXCEPT ![t] = y]
    <3>1. thread \in [Threads -> Work]
      BY DEF IInv, TypeOK
    <3> QED BY <1>11, <3>1 DEF x
  <2> HIDE DEF y
  <2>5. Loading(y, graph, modules, Reg')
    BY <1>1, <1>2, <1>4, <1>7, <1>10, <2>1, <2>3, LoadingMap
  <2>6. Published(Reg', modules)
    BY <1>3, <1>5, <1>10, <2>1, PublishedMore
  <2> QED BY <1>1, <1>3, <1>9, <2>2, <2>3, <2>4, <2>5, <2>6, BusyStep DEF Working
<1>12. CASE mapped' \in {mapped, mapped \cup {i}} /\ providers' = providers /\ Undo(t, made)
  <2>1. Reg'.mapped \in {Reg.mapped, Reg.mapped \cup {i}} /\ Reg'.providers = Reg.providers
    BY <1>12 DEF Reg
  <2>2. PICK y \in Work : /\ thread' = [thread EXCEPT ![t] = y] /\ y.script # <<>>
                          /\ y.script = Cleanup(made) \o Final("abandon") /\ y.made = made
    BY <1>1, <1>8, <1>12, Undoing
  <2>3. Registry(Reg', made, Len(made), Len(made))
    BY <1>6, <1>7, <1>10, <2>1, MapRegistry
  <2>4. RollingBack(y, graph, modules, Reg')
    BY <1>3, <1>6, <1>8, <2>2, <2>3, Undone
  <2>5. Published(Reg', modules)
    BY <1>3, <1>5, <1>10, <2>1, PublishedMore
  <2> QED BY <1>1, <1>3, <1>9, <2>2, <2>4, <2>5, BusyStep DEF Working
<1> QED BY <1>11, <1>12 DEF Map, Module, x

LEMMA LinkStep == ASSUME IInv, NEW t \in Threads, Link(t) PROVE IInv'
<1> DEFINE x == thread[t]
           i == x.script[1].module
<1>1. /\ x.script # <<>> /\ x.script[1].do = "link" /\ t \in operation
      /\ UNCHANGED <<modules, graph, providers, mapped, application, operation,
                     orphans, stuck>>
  BY DEF Link, At, IInv, Exclusive
<1>2. /\ \A l \in leases' : l \in leases \/ (l.importer = i /\ l.provider \in providers)
      /\ Proceeds(t) \/ Undo(t, x.made)
  <2> DEFINE exporters == UNION {Registered(n) : n \in modules[i].definition.imports}
             found == {[importer |-> i, provider |-> p] : p \in exporters}
  <2>1. exporters \subseteq providers
    BY DEF Registered
  <2>2. \A l \in found : l.importer = i /\ l.provider \in exporters
    OBVIOUS
  <2>3. /\ \E some \in SUBSET found : leases' = leases \cup some
        /\ Proceeds(t) \/ Undo(t, x.made)
    BY DEF Link, Module
  <2> HIDE DEF exporters, found, x
  <2> QED BY <2>1, <2>2, <2>3
<1>3. x \in Work /\ Working(x, graph, modules, Reg, application.started)
  BY <1>1, OneBusy
<1>4. graph \in Seq(DOMAIN modules) /\ ModulesType(modules) /\ Published(Reg, modules)
  BY GraphFacts DEF IInv
<1> HIDE DEF x
<1>5. Loading(x, graph, modules, Reg)
  BY <1>1, <1>3, <1>4, Kinds DEF Loads1
<1>6. Len(x.script) >= 2 /\ i \in DOMAIN modules /\ x.script \in Seq(Steps)
  BY <1>1, <1>3, <1>5, LoadingMore
<1>7. /\ x.made # <<>> /\ i = x.made[Len(x.made)]
      /\ x.made \in Seq(DOMAIN modules) /\ graph = <<>> /\ Quiet(modules)
      /\ Registry(Reg, x.made, Len(x.made), Len(x.made))
  <2>1. 1 \in 1..(Len(x.script) - 1)
    BY <1>6
  <2> QED BY <1>1, <1>5, <2>1 DEF Loading
<1>8. x.made \in Seq(Nat)
  BY <1>3 DEF Work
<1>9. application' \in [started : BOOLEAN, exiting : BOOLEAN]
  BY <1>1 DEF IInv, TypeOK
<1>10. /\ Reg'.mapped = Reg.mapped /\ Reg'.providers = Reg.providers
       /\ Reg'.orphans = Reg.orphans /\ Reg'.stuck = Reg.stuck
       /\ \A l \in Reg'.leases : l \in Reg.leases \/ (l.importer = i /\ l.provider \in Reg.providers)
  BY <1>1, <1>2 DEF Reg
<1>11. Registry(Reg', x.made, Len(x.made), Len(x.made))
  BY <1>7, <1>10, LinkRegistry
<1>12. Published(Reg', modules)
  BY <1>4, <1>6, <1>10, PublishedMore
<1>13. CASE Proceeds(t)
  <2>1. PICK y \in Work : /\ thread' = [thread EXCEPT ![t] = y]
                          /\ y.script = Rest(x.script) /\ y.made = x.made
    BY <1>1, <1>13, Proceeding DEF x
  <2>2. Loading(y, graph, modules, Reg')
    BY <1>1, <1>3, <1>5, <1>10, <1>11, <2>1, LoadingLink
  <2>3. y.script # <<>>
    BY <1>1, <1>6, <2>1, RestNonempty
  <2> QED BY <1>1, <1>4, <1>9, <1>12, <2>1, <2>2, <2>3, BusyStep DEF Working
<1>14. CASE Undo(t, x.made)
  <2>1. PICK y \in Work : /\ thread' = [thread EXCEPT ![t] = y] /\ y.script # <<>>
                          /\ y.script = Cleanup(x.made) \o Final("abandon") /\ y.made = x.made
    BY <1>1, <1>8, <1>14, Undoing
  <2>2. RollingBack(y, graph, modules, Reg')
    BY <1>4, <1>7, <1>11, <2>1, Undone
  <2> QED BY <1>1, <1>4, <1>9, <1>12, <2>1, <2>2, BusyStep DEF Working
<1> QED BY <1>2, <1>13, <1>14
-----------------------------------------------------------------------------
\* The steps of a cleanup, in a roll-back or in an unload.

\* What the invariant says of the modules, but for their states.
Alike(ms, ms2) ==
  /\ DOMAIN ms2 = DOMAIN ms
  /\ \A i \in DOMAIN ms : /\ ms2[i].definition = ms[i].definition
                          /\ ms2[i].initialized = ms[i].initialized
                          /\ ms2[i].running = ms[i].running

LEMMA AlikeFacts ==
  ASSUME NEW ms, NEW ms2, Alike(ms, ms2), NEW r, NEW S, NEW g \in Seq(S), S \subseteq DOMAIN ms
  PROVE  /\ SameButRunning(ms, ms2)
         /\ Quiet(ms) => Quiet(ms2)
         /\ Held(g, ms, r) => Held(g, ms2, r)
         /\ \A m \in 0..Len(g) : Cut(ms, g, m) => Cut(ms2, g, m)
         /\ Published(r, ms) => Published(r, ms2)
         /\ \A started : Paired(ms, g, started) => Paired(ms2, g, started)
<1>1. SameButRunning(ms, ms2)
  BY DEF Alike, SameButRunning
<1>2. Quiet(ms) => Quiet(ms2)
  BY DEF Alike, Quiet
<1>3. Held(g, ms, r) => Held(g, ms2, r)
  BY <1>1, SameHeld
<1>4. \A m \in 0..Len(g) : Cut(ms, g, m) => Cut(ms2, g, m)
  <2>1. \A k \in DOMAIN g : g[k] \in DOMAIN ms
    OBVIOUS
  <2> QED BY <2>1, SameCut DEF Alike
<1>5. Published(r, ms) => Published(r, ms2)
  BY DEF Alike, Published
<1>6. ASSUME NEW started, Paired(ms, g, started) PROVE Paired(ms2, g, started)
  BY <1>2, <1>6 DEF Alike, Paired
<1> QED BY <1>1, <1>2, <1>3, <1>4, <1>5, <1>6

LEMMA StateAlike ==
  ASSUME NEW ms, ModulesType(ms), NEW i, NEW v \in {"up", "unloading", "unloaded", "failed"}
  PROVE  LET ms2 == [ms EXCEPT ![i].state = v] IN ModulesType(ms2) /\ Alike(ms, ms2)
<1> DEFINE ms2 == [ms EXCEPT ![i].state = v]
<1>1. DOMAIN ms2 = DOMAIN ms
  OBVIOUS
<1>2. ASSUME NEW j \in DOMAIN ms
      PROVE  /\ ms2[j] \in Instance /\ ms2[j].definition = ms[j].definition
             /\ ms2[j].initialized = ms[j].initialized /\ ms2[j].running = ms[j].running
  <2>1. ms[j] \in Instance
    BY DEF ModulesType
  <2>2. CASE j = i
    <3>1. ms2[j] = [ms[j] EXCEPT !.state = v]
      BY <2>2
    <3> QED BY <2>1, <3>1 DEF Instance
  <2>3. CASE j # i
    BY <2>1, <2>3
  <2> QED BY <2>2, <2>3
<1>3. ms2 \in [DOMAIN ms2 -> Instance]
  BY <1>1, <1>2
<1> QED BY <1>1, <1>2, <1>3 DEF ModulesType, Alike

\* Whatever is being cleaned up, the cleanup goes on with the script s2.
GoesOn(r, r2, ms, s, s2) ==
  \A L \in Seq(DOMAIN ms) : \A final \in Finals : Cleaning(r, L, s, final) => Cleaning(r2, L, s2, final)

\* What a step of a cleanup may do to the modules.
Cleans(ms, ms2, step) ==
  \/ step.do # "fini" /\ Alike(ms, ms2)
  \/ step.do = "fini" /\ \E ok \in BOOLEAN : Hooked(ms, ms2, step.module, "fini", ok)

LEMMA CleaningWork ==
  ASSUME NEW x \in Work, NEW y \in Work, x.script # <<>>, x.script[1].do \in Phases,
         y.script = Rest(x.script), y.made = x.made,
         NEW ms, NEW ms2, ModulesType(ms), NEW g \in Seq(DOMAIN ms), NEW r, NEW r2, NEW started,
         NEW started2,
         Working(x, g, ms, r, started),
         GoesOn(r, r2, ms, x.script, y.script), Cleans(ms, ms2, x.script[1])
  PROVE  Working(y, g, ms2, r2, started2) /\ y.script # <<>>
<1>1. x.script \in Seq(Steps) /\ "abandon" \in Finals /\ "emptied" \in Finals
  BY DEF Work, Finals
<1>2. /\ DOMAIN ms2 = DOMAIN ms
      /\ \A i \in DOMAIN ms : ms2[i].running = ms[i].running
  BY DEF Cleans, Alike, Hooked
<1>3. Quiet(ms) => Quiet(ms2)
  BY <1>2 DEF Quiet
<1>4. ASSUME NEW L \in Seq(DOMAIN ms), NEW final \in Finals, Cleaning(r, L, x.script, final)
      PROVE  y.script # <<>>
  <2>1. Len(x.script) >= 2
    BY <1>1, <1>4, NotUnmap, CleaningHead
  <2> QED BY <1>1, <2>1, RestNonempty
<1>5. CASE RollingBack(x, g, ms, r)
  <2>1. x.made \in Seq(DOMAIN ms) /\ Cleaning(r, x.made, x.script, "abandon") /\ Quiet(ms)
    BY <1>5 DEF RollingBack
  <2>2. RollingBack(y, g, ms2, r2)
    <3>1. Cleaning(r2, x.made, y.script, "abandon")
      BY <1>1, <2>1 DEF GoesOn
    <3> QED BY <1>2, <1>3, <1>5, <2>1, <3>1, RollingBackNext
  <2>3. y.script # <<>>
    BY <1>1, <1>4, <2>1
  <2> QED BY <2>2, <2>3 DEF Working
<1>6. CASE Emptying(x, g, ms, r)
  <2>1. Cleaning(r, g, x.script, "emptied") /\ Quiet(ms)
    BY <1>6 DEF Emptying
  <2>2. Cleaning(r2, g, y.script, "emptied") /\ y.script # <<>>
    BY <1>1, <1>4, <2>1 DEF GoesOn
  <2>3. x.script[1].do # "emptied"
    BY <1>1, NotUnmap
  <2>4. CASE x.script[1].do # "fini"
    <3>1. \A m \in 0..Len(g) : Cut(ms, g, m) => Cut(ms2, g, m)
      BY <2>4, AlikeFacts DEF Cleans
    <3>2. Emptying(y, g, ms2, r2)
      BY <1>3, <1>6, <2>1, <2>2, <2>3, <2>4, <3>1, EmptyingNext
    <3> QED BY <2>2, <3>2 DEF Working
  <2>5. CASE x.script[1].do = "fini"
    <3> DEFINE n == Len(x.script) - 1
    <3>1. n \in 1..Len(g) /\ x.script[1].module = g[n]
      BY <1>1, <2>1, <2>3, CleaningHead
    <3>2. Injective(g)
      BY <2>1 DEF Cleaning, Registry
    <3>3. \A k \in DOMAIN g : g[k] \in DOMAIN ms
      OBVIOUS
    <3>4. Hooked(ms, ms2, g[n], "fini", TRUE) \/ Hooked(ms, ms2, g[n], "fini", FALSE)
      BY <2>5, <3>1 DEF Cleans
    <3> HIDE DEF n
    <3>5. \A m \in 0..Len(g) : Cut(ms, g, m) /\ m <= n =>
            \E k \in 0..Len(g) : Cut(ms2, g, k) /\ k <= n - 1
      BY <3>1, <3>2, <3>3, <3>4, CutLast
    <3>6. \A m \in 0..Len(g) : Cut(ms, g, m) /\ m <= Len(x.script) - 1 =>
            \E k \in 0..Len(g) : Cut(ms2, g, k) /\ k <= Len(x.script) - 2
      <4>1. n = Len(x.script) - 1 /\ n - 1 = Len(x.script) - 2
        BY <1>1 DEF n
      <4> QED BY <3>5, <4>1
    <3>7. Emptying(y, g, ms2, r2)
      BY <1>3, <1>6, <2>1, <2>2, <2>3, <2>5, <3>6, EmptyingNext
    <3> QED BY <2>2, <3>7 DEF Working
  <2> QED BY <2>4, <2>5
<1>7. RollingBack(x, g, ms, r) \/ Emptying(x, g, ms, r)
  BY Kinds
<1> QED BY <1>5, <1>6, <1>7

LEMMA CleaningStep ==
  ASSUME IInv, NEW t \in operation, thread[t].script[1].do \in Phases,
         Proceeds(t) \/ Soils(t), UNCHANGED <<graph, application, operation>>,
         ModulesType(modules'), Published(Reg', modules'),
         GoesOn(Reg, Reg', modules, thread[t].script, Rest(thread[t].script)),
         Cleans(modules, modules', thread[t].script[1])
  PROVE  IInv'
<1>1. PICK y \in Work : /\ thread' = [thread EXCEPT ![t] = y]
                        /\ y.script = Rest(thread[t].script) /\ y.made = thread[t].made
  BY Proceeding
<1>2. /\ thread[t] \in Work /\ thread[t].script # <<>>
      /\ Working(thread[t], graph, modules, Reg, application.started)
  BY OneBusy
<1>3. graph \in Seq(DOMAIN modules) /\ ModulesType(modules)
  BY GraphFacts
<1>4. DOMAIN modules' = DOMAIN modules
  BY DEF Cleans, Alike, Hooked
<1> DEFINE x == thread[t]
<1>5. Working(y, graph, modules', Reg', application.started) /\ y.script # <<>>
  <2>1. /\ x \in Work /\ x.script # <<>> /\ x.script[1].do \in Phases
        /\ y.script = Rest(x.script) /\ y.made = x.made
        /\ Working(x, graph, modules, Reg, application.started)
        /\ GoesOn(Reg, Reg', modules, x.script, y.script) /\ Cleans(modules, modules', x.script[1])
    BY <1>1, <1>2
  <2> HIDE DEF x
  <2>2. ASSUME NEW ms2, NEW r2, NEW ms, NEW r, NEW g \in Seq(DOMAIN ms), NEW started,
               ModulesType(ms), Working(x, g, ms, r, started),
               GoesOn(r, r2, ms, x.script, y.script), Cleans(ms, ms2, x.script[1])
        PROVE  Working(y, g, ms2, r2, started) /\ y.script # <<>>
    BY <2>1, <2>2, CleaningWork
  <2> QED BY <1>3, <2>1, <2>2
<1>6. application' \in [started : BOOLEAN, exiting : BOOLEAN]
  BY DEF IInv, TypeOK
<1> QED BY <1>1, <1>3, <1>4, <1>5, <1>6, BusyStep

LEMMA UnpublishStep == ASSUME IInv, NEW t \in Threads, Unpublish(t) PROVE IInv'
<1> DEFINE s == thread[t].script
           i == s[1].module
           left == {l \in leases : l.importer # i}
           pins == Pins(i, left)
           pinned == i \in providers /\ pins # {}
<1>1. /\ s # <<>> /\ s[1].do = "unpublish" /\ t \in operation
      /\ UNCHANGED <<graph, mapped, application, operation, stuck>> /\ leases' = left
      /\ Proceeds(t) \/ Soils(t)
  BY DEF Unpublish, At, Module, IInv, Exclusive
<1>2. /\ thread[t] \in Work /\ s \in Seq(Steps) /\ ModulesType(modules) /\ Published(Reg, modules)
      /\ graph \in Seq(DOMAIN modules) /\ Working(thread[t], graph, modules, Reg, application.started)
  BY <1>1, OneBusy, GraphFacts DEF IInv, Work
<1>3. CASE pinned
  <2>1. /\ modules' = [modules EXCEPT ![i].state = "failed"] /\ providers' = providers
        /\ orphans' = orphans \cup (IF pins \cap Plugins = {} THEN {} ELSE {i})
    BY <1>3 DEF Unpublish, Module
  <2>2. ModulesType(modules') /\ Alike(modules, modules')
    BY <1>2, <2>1, StateAlike
  <2>3. pins \cap Plugins # {}
    <3>1. PICK l \in leases : l.importer # i /\ l.provider = i
      BY <1>3 DEF Pins
    <3>2. PICK L \in Seq(DOMAIN modules), final \in {"abandon", "emptied"} :
            Cleaning(Reg, L, s, final)
      <4>1. RollingBack(thread[t], graph, modules, Reg) \/ Emptying(thread[t], graph, modules, Reg)
        BY <1>1, <1>2, Kinds DEF Phases
      <4> QED BY <1>2, <4>1 DEF RollingBack, Emptying
    <3>3. final \in Finals
      BY DEF Finals
    <3>4. Len(s) - 1 \in 1..Len(L) /\ i = L[Len(s) - 1]
      BY <1>1, <1>2, <3>2, <3>3, NotUnmap, CleaningHead DEF Phases
    <3>5. Registry(Reg, L, Len(s) - 1, Len(s) - 1)
      BY <1>1, <3>2 DEF Cleaning
    <3>6. l \in Reg.leases
      BY DEF Reg
    <3>7. l.importer \in Plugins
      BY <3>1, <3>4, <3>5, <3>6, LastPins
    <3>8. l.importer \in pins
      BY <3>1 DEF Pins
    <3> QED BY <3>7, <3>8
  <2>4. orphans' = orphans \cup {i}
    BY <2>1, <2>3
  <2>5. /\ Reg'.leases = {l \in Reg.leases : l.importer # i} /\ Reg'.mapped = Reg.mapped
        /\ Reg'.stuck = Reg.stuck /\ Reg'.providers = Reg.providers
        /\ Reg'.orphans = Reg.orphans \cup {i} /\ i \in Reg.providers
    BY <1>1, <1>3, <2>1, <2>4 DEF Reg
  <2>6. Published(Reg', modules')
    <3>1. Published(Reg', modules)
      BY <1>2, <2>5 DEF Published
    <3> QED BY <2>2, <3>1 DEF Alike, Published
  <2>7. GoesOn(Reg, Reg', modules, s, Rest(s)) /\ Cleans(modules, modules', s[1])
    <3>1. \A L \in Seq(DOMAIN modules) : \A final \in Finals :
            Cleaning(Reg, L, s, final) => Cleaning(Reg', L, Rest(s), final)
      BY <1>1, <1>2, <2>5, CleaningUnpublish
    <3> QED BY <1>1, <2>2, <3>1 DEF GoesOn, Cleans
  <2> QED BY <1>1, <2>2, <2>6, <2>7, CleaningStep DEF Phases
<1>4. CASE ~pinned
  <2>1. /\ modules' = modules /\ providers' = providers \ {i} /\ orphans' = orphans \ {i}
    BY <1>4 DEF Unpublish, Module
  <2>2. ModulesType(modules') /\ Alike(modules, modules')
    BY <1>2, <2>1 DEF Alike
  <2>3. /\ Reg'.leases = {l \in Reg.leases : l.importer # i} /\ Reg'.mapped = Reg.mapped
        /\ Reg'.stuck = Reg.stuck /\ Reg'.providers = Reg.providers \ {i}
        /\ Reg'.orphans = Reg.orphans \ {i}
    BY <1>1, <2>1 DEF Reg
  <2>4. \A l \in Reg'.leases : l.provider \in Reg.providers \ {i}
    <3> SUFFICES ASSUME NEW l \in leases, l.importer # i PROVE l.provider \in providers \ {i}
      BY <2>3 DEF Reg
    <3>1. l.provider \in providers
      BY <1>2 DEF Published, Reg
    <3>2. l.provider # i
      BY <1>4, <3>1 DEF Pins
    <3> QED BY <3>1, <3>2
  <2>5. Published(Reg', modules')
    <3>1. Published(Reg', modules)
      BY <1>2, <2>3, <2>4 DEF Published
    <3> QED BY <2>1, <3>1
  <2>6. GoesOn(Reg, Reg', modules, s, Rest(s)) /\ Cleans(modules, modules', s[1])
    <3>1. \A L \in Seq(DOMAIN modules) : \A final \in Finals :
            Cleaning(Reg, L, s, final) => Cleaning(Reg', L, Rest(s), final)
      BY <1>1, <1>2, <2>3, CleaningUnpublish
    <3> QED BY <1>1, <2>2, <3>1 DEF GoesOn, Cleans
  <2> QED BY <1>1, <2>2, <2>5, <2>6, CleaningStep DEF Phases
<1> QED BY <1>3, <1>4

LEMMA UnmapStep == ASSUME IInv, NEW t \in Threads, Unmap(t) PROVE IInv'
<1> DEFINE s == thread[t].script
           i == s[1].module
<1>1. /\ s # <<>> /\ s[1].do = "unmap" /\ t \in operation
      /\ UNCHANGED <<graph, providers, leases, application, operation, orphans>>
      /\ Proceeds(t) \/ Soils(t)
      /\ \/ mapped' = mapped \ {i} /\ stuck' = stuck \ {i}
         \/ i \in mapped /\ mapped' = mapped /\ stuck' = stuck \cup {i}
  BY DEF Unmap, At, Module, IInv, Exclusive
<1>2. /\ thread[t] \in Work /\ s \in Seq(Steps) /\ ModulesType(modules) /\ Published(Reg, modules)
      /\ graph \in Seq(DOMAIN modules) /\ Working(thread[t], graph, modules, Reg, application.started)
  BY <1>1, OneBusy, GraphFacts DEF IInv, Work
<1>3. ModulesType(modules') /\ Alike(modules, modules')
  <2>1. CASE modules' = [modules EXCEPT ![i].state = "failed"]
    BY <1>2, <2>1, StateAlike
  <2>2. CASE modules' = [modules EXCEPT ![i].state = IF @ = "failed" THEN @ ELSE "unloaded"]
    <3>1. CASE i \in DOMAIN modules
      <4> DEFINE v == IF modules[i].state = "failed" THEN modules[i].state ELSE "unloaded"
      <4>1. v \in {"up", "unloading", "unloaded", "failed"}
        BY <3>1
      <4>2. modules' = [modules EXCEPT ![i].state = v]
        BY <2>2
      <4> HIDE DEF v
      <4> QED BY <1>2, <4>1, <4>2, StateAlike
    <3>2. CASE i \notin DOMAIN modules
      <4>1. modules' = [modules EXCEPT ![i].state = "failed"]
        BY <2>2, <3>2
      <4> QED BY <1>2, <4>1, StateAlike
    <3> QED BY <3>1, <3>2
  <2> QED BY <2>1, <2>2 DEF Unmap, Module
<1>4. /\ Reg'.leases = Reg.leases /\ Reg'.providers = Reg.providers /\ Reg'.orphans = Reg.orphans
      /\ \/ Reg'.mapped = Reg.mapped \ {i} /\ Reg'.stuck = Reg.stuck \ {i}
         \/ i \in Reg.mapped /\ Reg'.mapped = Reg.mapped /\ Reg'.stuck = Reg.stuck \cup {i}
  BY <1>1 DEF Reg
<1>5. \A L \in Seq(DOMAIN modules) : \A final \in Finals :
        Cleaning(Reg, L, s, final) =>
          /\ Cleaning(Reg', L, Rest(s), final)
          /\ i \in Reg.providers => i \in Reg.orphans
  BY <1>1, <1>2, <1>4, CleaningUnmap
<1>6. i \in Reg.providers => i \in Reg.orphans
  <2>1. RollingBack(thread[t], graph, modules, Reg) \/ Emptying(thread[t], graph, modules, Reg)
    BY <1>1, <1>2, Kinds DEF Phases
  <2>2. "abandon" \in Finals /\ "emptied" \in Finals
    BY DEF Finals
  <2> QED BY <1>2, <1>5, <2>1, <2>2 DEF RollingBack, Emptying
<1>7. Published(Reg', modules')
  <2>1. Published(Reg', modules)
    BY <1>2, <1>4, <1>6 DEF Published
  <2> QED BY <1>3, <2>1 DEF Alike, Published
<1>8. GoesOn(Reg, Reg', modules, s, Rest(s)) /\ Cleans(modules, modules', s[1])
  BY <1>1, <1>3, <1>5 DEF GoesOn, Cleans
<1> QED BY <1>1, <1>3, <1>7, <1>8, CleaningStep DEF Phases

LEMMA StoppedStep == ASSUME IInv, NEW t \in Threads, Stopped(t) PROVE IInv'
<1>1. /\ thread[t].script # <<>> /\ thread[t].script[1].do = "stopped" /\ t \in operation
      /\ UNCHANGED <<modules, graph, registry, operation>> /\ Proceeds(t)
      /\ application' = [application EXCEPT !.started = FALSE]
  BY DEF Stopped, At, IInv, Exclusive
<1>2. /\ thread[t] \in Work /\ ModulesType(modules) /\ Published(Reg, modules)
      /\ graph \in Seq(DOMAIN modules) /\ Working(thread[t], graph, modules, Reg, application.started)
  BY <1>1, OneBusy, GraphFacts DEF IInv
<1>3. PICK y \in Work : /\ thread' = [thread EXCEPT ![t] = y]
                        /\ y.script = Rest(thread[t].script) /\ y.made = thread[t].made
  BY <1>1, Proceeding
<1>4. Stopping(thread[t], graph, modules, Reg)
  BY <1>1, <1>2, Kinds
<1>5. Emptying(y, graph, modules, Reg) /\ y.script # <<>>
  BY <1>1, <1>2, <1>3, <1>4, StoppedNext
<1>6. Reg' = Reg /\ application' \in [started : BOOLEAN, exiting : BOOLEAN]
  BY <1>1 DEF Reg, registry, IInv, TypeOK
<1> QED BY <1>1, <1>2, <1>3, <1>5, <1>6, BusyStep DEF Working
-----------------------------------------------------------------------------
\* The hooks.

\* Those that were started before the module g[n] refused to start.
LEMMA StartedFacts ==
  ASSUME NEW S, graph \in Seq(S), Injective(graph), NEW n \in 1..Len(graph)
  PROVE  LET L == Started(graph[n], "starts")
         IN L \in Seq(S) /\ Upto(L, Len(L)) = Upto(graph, n - 1)
<1> DEFINE I == {j \in 1..Len(graph) : graph[j] = graph[n]}
           L == SubSeq(graph, 1, n - 1)
<1>1. I = {n} /\ Len(graph) \in Nat
  BY DEF Injective
<1>2. SelectInSeq(graph, LAMBDA j : j = graph[n]) = n
  <2>1. SelectInSeq(graph, LAMBDA j : j = graph[n]) = IF I # {} THEN Min(I) ELSE 0
    BY DEF SelectInSeq
  <2>2. Min({n}) = n
    BY DEF Min
  <2> QED BY <1>1, <2>1, <2>2
<1>3. Started(graph[n], "starts") = L
  BY <1>2 DEF Started
<1>4. n - 1 \in 0..Len(graph) /\ n - 1 \in Nat
  BY <1>1
<1>5. L \in Seq(S) /\ Len(L) = n - 1 /\ \A k \in 1..(n - 1) : L[k] = graph[k]
  BY <1>1, <1>4
<1> HIDE DEF L
<1>6. Upto(L, Len(L)) = Upto(graph, n - 1)
  BY <1>5 DEF Upto
<1> QED BY <1>3, <1>5, <1>6

LEMMA HookStep == ASSUME IInv, NEW t \in Threads, Hook(t) PROVE IInv'
<1> DEFINE x == thread[t]
           i == x.script[1].module
<1>1. PICK hook \in Hooks \cup {"skip"} :
        /\ At(t, hook)
        /\ \/ /\ modules' = [modules EXCEPT ![i] = After(@, hook, TRUE)]
              /\ Proceeds(t)
           \/ /\ Invoked(i, hook)
              /\ modules' = [modules EXCEPT ![i] = After(@, hook, FALSE)]
              /\ HookFails(t, i, hook)
  BY DEF Hook, Module
<1>2. /\ x.script # <<>> /\ x.script[1].do = hook /\ t \in operation
      /\ UNCHANGED <<graph, registry, application, operation>>
  BY <1>1 DEF Hook, At, IInv, Exclusive
<1>3. /\ x \in Work /\ x.script \in Seq(Steps) /\ ModulesType(modules) /\ Published(Reg, modules)
      /\ graph \in Seq(DOMAIN modules) /\ Working(x, graph, modules, Reg, application.started)
      /\ graph \in Seq(Nat)
  BY <1>2, OneBusy, GraphFacts DEF IInv, Work
<1>4. Reg' = Reg /\ application' \in [started : BOOLEAN, exiting : BOOLEAN]
  BY <1>2 DEF Reg, registry, IInv, TypeOK
<1>5. PICK ok \in BOOLEAN :
        /\ modules' = [modules EXCEPT ![i] = After(@, hook, ok)]
        /\ \/ ok = TRUE /\ Proceeds(t)
           \/ ok = FALSE /\ Invoked(i, hook) /\ HookFails(t, i, hook)
  BY <1>1
<1>6. ModulesType(modules') /\ Hooked(modules, modules', i, hook, ok)
  BY <1>3, <1>5, HookedFacts
<1>7. DOMAIN modules' = DOMAIN modules /\ Published(Reg, modules')
  BY <1>3, <1>6 DEF Hooked, Published
<1>8. graph \in Seq(DOMAIN modules')
  BY <1>3, <1>7
\* It is enough that the work of the thread goes on as it should.
<1>9. ASSUME NEW y \in Work, thread' = [thread EXCEPT ![t] = y], y.script # <<>>,
             Working(y, graph, modules', Reg, application.started)
      PROVE  IInv'
  BY <1>2, <1>4, <1>6, <1>7, <1>8, <1>9, BusyStep
<1>10. CASE hook \in {"init", "relocated", "skip"}
  <2>1. Loading(x, graph, modules, Reg)
    BY <1>2, <1>3, <1>10, Kinds DEF Loads1
  <2>2. Len(x.script) >= 2 /\ i \in DOMAIN modules
    BY <1>2, <1>3, <1>10, <2>1, LoadingMore
  <2>3. CASE Proceeds(t) /\ ok = TRUE
    <3>1. PICK y \in Work : /\ thread' = [thread EXCEPT ![t] = y]
                            /\ y.script = Rest(x.script) /\ y.made = x.made
      BY <1>2, <2>3, Proceeding
    <3>2. y.script # <<>>
      BY <1>2, <1>3, <2>2, <3>1, RestNonempty
    <3>3. Loading(y, graph, modules', Reg)
      BY <1>2, <1>3, <1>6, <1>10, <2>1, <2>3, <3>1, LoadingHook
    <3> QED BY <1>9, <3>1, <3>2, <3>3 DEF Working
  <2>4. CASE ok = FALSE /\ Invoked(i, hook) /\ HookFails(t, i, hook)
    <3>1. hook # "skip"
      <4>1. modules[i].definition \in Definitions
        BY <1>3, <2>2 DEF ModulesType, Instance
      <4>2. modules[i].definition.hooks \subseteq Hooks
        BY <4>1, ConstantsAssumption DEF Definition
      <4> QED BY <2>4, <4>2 DEF Invoked, Has, Hooks
    <3>2. Undo(t, x.made) /\ x.made \in Seq(Nat)
      BY <1>3, <1>10, <2>4, <3>1 DEF HookFails, Work
    <3>3. PICK y \in Work : /\ thread' = [thread EXCEPT ![t] = y] /\ y.script # <<>>
                            /\ y.script = Cleanup(x.made) \o Final("abandon") /\ y.made = x.made
      BY <1>2, <3>2, Undoing
    <3>4. /\ x.made \in Seq(DOMAIN modules) /\ graph = <<>> /\ Quiet(modules)
          /\ Registry(Reg, x.made, Len(x.made), Len(x.made))
      BY <2>1 DEF Loading
    <3>5. Quiet(modules')
      <4>1. \A j \in DOMAIN modules : modules'[j].running = modules[j].running
        BY <1>6, <1>10, HookedRunning
      <4> QED BY <1>7, <3>4, <4>1 DEF Quiet
    <3>6. RollingBack(y, graph, modules', Reg)
      BY <1>6, <1>7, <3>3, <3>4, <3>5, Undone
    <3> QED BY <1>9, <3>3, <3>6 DEF Working
  <2> QED BY <1>5, <2>3, <2>4
<1>11. CASE hook \in {"fini", "clear"}
  <2>1. Proceeds(t) \/ Soils(t)
    BY <1>5, <1>11 DEF HookFails
  <2>2. Cleans(modules, modules', x.script[1])
    <3>1. hook = "clear" => Alike(modules, modules')
      <4> HAVE hook = "clear"
      <4>1. SameButRunning(modules, modules')
        BY <1>6, HookedSame
      <4>2. \A j \in DOMAIN modules : modules'[j].running = modules[j].running
        BY <1>6, HookedRunning
      <4> QED BY <4>1, <4>2 DEF SameButRunning, Alike
    <3> QED BY <1>2, <1>6, <1>11, <3>1 DEF Cleans
  <2>3. GoesOn(Reg, Reg', modules, x.script, Rest(x.script))
    BY <1>2, <1>3, <1>4, <1>11, CleaningHook DEF GoesOn
  <2>4. x.script[1].do \in Phases /\ Published(Reg', modules')
    BY <1>2, <1>4, <1>7, <1>11 DEF Phases
  <2> QED BY <1>2, <1>6, <2>1, <2>2, <2>3, <2>4, CleaningStep
<1>12. CASE hook \in {"ends", "allEnds", "exit", "allExit"}
  <2>1. Proceeds(t)
    BY <1>5, <1>12 DEF HookFails
  <2>2. PICK y \in Work : /\ thread' = [thread EXCEPT ![t] = y]
                          /\ y.script = Rest(x.script) /\ y.made = x.made
    BY <1>2, <2>1, Proceeding
  <2>3. CASE hook \in {"ends", "allEnds"}
    <3>1. Stopping(x, graph, modules, Reg) \/ Ending(x, graph, modules, Reg)
      BY <1>2, <1>3, <2>3, Kinds
    <3>2. CASE Stopping(x, graph, modules, Reg)
      <4>1. Stopping(y, graph, modules', Reg)
        BY <1>2, <1>3, <1>6, <2>2, <2>3, <3>2, StoppingNext
      <4>2. y.script # <<>>
        <5>1. Len(x.script) \in Nat /\ Len(graph) \in Nat
          BY <1>3
        <5>2. Len(x.script) - Len(graph) - 1 >= 1
          BY <3>2 DEF Stopping
        <5>3. Len(x.script) >= 2
          BY <5>1, <5>2
        <5> QED BY <1>2, <1>3, <2>2, <5>3, RestNonempty
      <4> QED BY <1>9, <2>2, <4>1, <4>2 DEF Working
    <3>3. CASE Ending(x, graph, modules, Reg)
      <4>1. /\ x.script[1].do \in {"ends", "allEnds"} /\ x.script # <<>> /\ x \in Work
            /\ Hooked(modules, modules', x.script[1].module, x.script[1].do, ok)
            /\ y.script = Rest(x.script) /\ y.made = x.made
        BY <1>2, <1>3, <1>6, <2>2, <2>3
      <4> HIDE DEF x
      <4>2. ASSUME NEW ms, NEW ms2, NEW g \in Seq(DOMAIN ms), Ending(x, g, ms, Reg),
                   Hooked(ms, ms2, x.script[1].module, x.script[1].do, ok)
            PROVE  Ending(y, g, ms2, Reg) /\ y.script # <<>>
        BY <4>1, <4>2, EndingNext
      <4>3. Ending(y, graph, modules', Reg) /\ y.script # <<>>
        BY <1>3, <3>3, <4>1, <4>2
      <4> QED BY <1>9, <2>2, <4>3 DEF Working
    <3> QED BY <3>1, <3>2, <3>3
  <2>4. CASE hook \in {"exit", "allExit"}
    <3>1. Exiting(x, graph, modules, Reg, application.started)
      BY <1>2, <1>3, <2>4, Kinds
    <3>2. Exiting(y, graph, modules', Reg, application.started) /\ y.script # <<>>
      <4>1. /\ x.script[1].do \in {"exit", "allExit"} /\ x.script # <<>> /\ x \in Work
            /\ Hooked(modules, modules', x.script[1].module, x.script[1].do, ok)
            /\ y.script = Rest(x.script) /\ y.made = x.made
        BY <1>2, <1>3, <1>6, <2>2, <2>4
      <4> HIDE DEF x
      <4>2. ASSUME NEW ms, NEW ms2, NEW g \in Seq(DOMAIN ms), NEW started,
                   Exiting(x, g, ms, Reg, started),
                   Hooked(ms, ms2, x.script[1].module, x.script[1].do, ok)
            PROVE  Exiting(y, g, ms2, Reg, started) /\ y.script # <<>>
        <5>1. g \in Seq(DOMAIN ms)
          OBVIOUS
        <5> QED BY <4>1, <4>2, <5>1, ExitingNext
      <4> QED BY <1>3, <3>1, <4>1, <4>2
    <3> QED BY <1>9, <2>2, <3>2 DEF Working
  <2> QED BY <1>12, <2>3, <2>4
<1>13. CASE hook \in {"starts", "allStarts"}
  <2>1. Starting(x, graph, modules, Reg)
    BY <1>2, <1>3, <1>13, Kinds
  <2>2. CASE Proceeds(t) /\ ok = TRUE
    <3>1. PICK y \in Work : /\ thread' = [thread EXCEPT ![t] = y]
                            /\ y.script = Rest(x.script) /\ y.made = x.made
      BY <1>2, <2>2, Proceeding
    <3>2. Starting(y, graph, modules', Reg) /\ y.script # <<>>
      <4>1. /\ x.script[1].do \in {"starts", "allStarts"} /\ x.script # <<>> /\ x \in Work
            /\ Hooked(modules, modules', x.script[1].module, x.script[1].do, TRUE)
            /\ y.script = Rest(x.script) /\ y.made = x.made
        BY <1>2, <1>3, <1>6, <1>13, <2>2, <3>1
      <4> HIDE DEF x
      <4>2. ASSUME NEW ms, NEW ms2, NEW g \in Seq(DOMAIN ms), ModulesType(ms2),
                   Starting(x, g, ms, Reg),
                   Hooked(ms, ms2, x.script[1].module, x.script[1].do, TRUE)
            PROVE  Starting(y, g, ms2, Reg) /\ y.script # <<>>
        <5>1. DOMAIN ms \subseteq DOMAIN ms
          OBVIOUS
        <5> QED BY <4>1, <4>2, <5>1, StartingNext
      <4> QED BY <1>3, <1>6, <2>1, <4>1, <4>2
    <3> QED BY <1>9, <3>1, <3>2 DEF Working
  <2>3. CASE ok = FALSE /\ HookFails(t, i, hook)
    <3> DEFINE L == Started(i, hook)
               n == Through(x.script, graph)
    <3>1. UndoStart(t, L) /\ x.made = <<>>
      BY <1>13, <2>1, <2>3 DEF HookFails, Starting
    <3>2. /\ Held(graph, modules, Reg)
          /\ \A j \in DOMAIN modules :
               modules[j].running <=> /\ j \in Upto(graph, n)
                                      /\ "starts" \in modules[j].definition.hooks
      BY <2>1 DEF Starting, Through
    <3>3. Held(graph, modules', Reg)
      BY <1>3, <1>6, <1>13, <3>2, HookedSame, SameHeld
    <3>4. /\ n \in 0..Len(graph)
          /\ hook = "starts" => n + 1 \in 1..Len(graph) /\ i = graph[n + 1]
          /\ hook = "allStarts" => n = Len(graph)
      BY <1>2, <1>3, <1>13, <2>1, StartingHead
    <3> HIDE DEF n
    <3>5. L \in Seq(DOMAIN modules) /\ Upto(L, Len(L)) = Upto(graph, n)
      <4>1. CASE hook = "starts"
        <5>1. Injective(graph)
          BY <3>2 DEF Held, Registry
        <5>2. (n + 1) - 1 = n
          BY <3>4
        <5> QED BY <1>3, <3>4, <4>1, <5>1, <5>2, StartedFacts
      <4>2. CASE hook = "allStarts"
        BY <1>3, <3>4, <4>2 DEF Started
      <4> QED BY <1>13, <4>1, <4>2
    <3> HIDE DEF L
    <3>6. L \in Seq(Nat)
      BY <1>3, <3>5 DEF ModulesType
    <3>7. \A j \in DOMAIN modules' : modules'[j].running => j \in Upto(L, Len(L))
      BY <1>6, <1>7, <1>13, <2>3, <3>2, <3>5 DEF Hooked
    <3>8. PICK y \in Work : /\ thread' = [thread EXCEPT ![t] = y]
                            /\ y.script = Calls("ends", Reverse(L)) \o Final("unstarted")
                            /\ y.made = x.made
      BY <1>2, <3>1, <3>6, Unstarting
    <3>9. Ending(y, graph, modules', Reg) /\ y.script # <<>>
      BY <1>6, <3>1, <3>3, <3>6, <3>7, <3>8, Unstarts
    <3> QED BY <1>9, <3>8, <3>9 DEF Working
  <2> QED BY <1>5, <2>2, <2>3
<1> QED BY <1>10, <1>11, <1>12, <1>13 DEF Hooks
-----------------------------------------------------------------------------
\* The operations return.

LEMMA ForgottenFacts ==
  ASSUME ModulesType(modules), Published(Reg, modules)
  PROVE  /\ ModulesType(Forgotten) /\ Published(Reg, Forgotten)
         /\ Quiet(modules) => Quiet(Forgotten)
<1>1. /\ DOMAIN Forgotten = DOMAIN modules \cap (mapped \cup providers)
      /\ \A i \in DOMAIN Forgotten : i \in DOMAIN modules /\ Forgotten[i] = modules[i]
      /\ Forgotten = [i \in DOMAIN Forgotten |-> Forgotten[i]]
  BY DEF Forgotten
<1> HIDE DEF Forgotten
<1>2. IsFiniteSet(DOMAIN Forgotten)
  BY <1>1, FS_Subset DEF ModulesType
<1>3. ModulesType(Forgotten)
  <2>1. DOMAIN Forgotten \subseteq Nat /\ \A i \in DOMAIN Forgotten : Forgotten[i] \in Instance
    BY <1>1 DEF ModulesType
  <2> QED BY <1>1, <1>2, <2>1 DEF ModulesType
<1>4. Published(Reg, Forgotten)
  BY <1>1 DEF Published, Reg
<1>5. Quiet(modules) => Quiet(Forgotten)
  BY <1>1 DEF Quiet
<1> QED BY <1>3, <1>4, <1>5

LEMMA AllUpFacts ==
  ASSUME ModulesType(modules)
  PROVE  ModulesType(AllUp) /\ Alike(modules, AllUp)
<1>1. DOMAIN AllUp = DOMAIN modules /\ AllUp = [i \in DOMAIN AllUp |-> AllUp[i]]
  BY DEF AllUp
<1>2. ASSUME NEW i \in DOMAIN modules
      PROVE  /\ AllUp[i] \in Instance /\ AllUp[i].definition = modules[i].definition
             /\ AllUp[i].initialized = modules[i].initialized
             /\ AllUp[i].running = modules[i].running
  <2>1. modules[i] \in Instance
    BY DEF ModulesType
  <2>2. AllUp[i] = IF i \in Graph THEN [modules[i] EXCEPT !.state = "up"] ELSE modules[i]
    BY DEF AllUp
  <2> QED BY <2>1, <2>2 DEF Instance
<1> HIDE DEF AllUp
<1>3. AllUp \in [DOMAIN AllUp -> Instance]
  BY <1>1, <1>2
<1> QED BY <1>1, <1>2, <1>3 DEF ModulesType, Alike

LEMMA EmptyHeld ==
  ASSUME NEW r, NEW ms, NEW L, Registry(r, L, 0, 0)
  PROVE  Held(<<>>, ms, r)
<1>1. Len(<<>>) = 0 /\ Registry(r, <<>>, 0, 0)
  BY NoneLeft
<1>2. 0 \in 0..0 /\ Cut(ms, <<>>, 0)
  BY DEF Cut
<1> QED BY <1>1, <1>2 DEF Held

LEMMA NoneCovered ==
  ASSUME NEW s, NEW ms, Covered(s, ms), DOMAIN s = {1}, s[1].do # "ends"
  PROVE  Quiet(ms)
BY DEF Covered, Quiet, Step

LEMMA FinishStep == ASSUME IInv, NEW t \in Threads, Finish(t) PROVE IInv'
<1> DEFINE x == thread[t]
           do == x.script[1].do
<1>1. x.script # <<>> /\ t \in operation /\ UNCHANGED registry
  BY DEF Finish, At, IInv, Exclusive
<1>2. /\ x \in Work /\ x.script \in Seq(Steps) /\ ModulesType(modules) /\ Published(Reg, modules)
      /\ graph \in Seq(DOMAIN modules) /\ Working(x, graph, modules, Reg, application.started)
      /\ application \in [started : BOOLEAN, exiting : BOOLEAN]
  BY <1>1, OneBusy, GraphFacts DEF IInv, Work, TypeOK
<1>3. Len(x.script) = 1 => DOMAIN x.script = {1}
  BY <1>2
<1>4. CASE do = "commit"
  <2>1. /\ graph' = x.made /\ Returns(t, TRUE) /\ modules' = modules
        /\ application' = application
    BY <1>4 DEF Finish, At
  <2>2. Loading(x, graph, modules, Reg) /\ Len(x.script) = 1
    BY <1>1, <1>2, <1>4, Kinds, LoadingKind
  <2>3. /\ x.made \in Seq(DOMAIN modules) /\ Quiet(modules)
        /\ Registry(Reg, x.made, Len(x.made), Len(x.made))
        /\ \A i \in Upto(x.made, Len(x.made)) : Prepared(x.script, modules, i)
    BY <2>2 DEF Loading
  <2>4. Cut(modules, x.made, Len(x.made))
    <3> SUFFICES ASSUME NEW k \in DOMAIN x.made
                 PROVE  /\ k <= Len(x.made)
                        /\ "init" \in modules[x.made[k]].definition.hooks
                             => modules[x.made[k]].initialized
      BY DEF Cut
    <3>1. k \in 1..Len(x.made)
      BY <2>3
    <3>2. Prepared(x.script, modules, x.made[k])
      BY <2>3, <3>1 DEF Upto
    <3>3. \A j \in DOMAIN x.script : x.script[j] # Step("init", x.made[k])
      BY <1>3, <1>4, <2>2 DEF Step
    <3> QED BY <3>1, <3>2, <3>3 DEF Prepared
  <2>5. Held(x.made, modules, Reg)
    <3>1. Len(x.made) \in 0..Len(x.made)
      BY <2>3
    <3> QED BY <2>3, <2>4, <3>1 DEF Held
  <2> QED BY <1>1, <1>2, <2>1, <2>3, <2>5, ReturnStep DEF Paired
<1>5. CASE do = "emptied"
  <2>1. Emptying(x, graph, modules, Reg)
    BY <1>1, <1>2, <1>5, Kinds
  <2>2. Registry(Reg, graph, 0, 0) /\ Quiet(modules)
    BY <1>1, <1>2, <1>5, <2>1, CleaningKind DEF Emptying, Finals
  <2>3. CASE x.clean
    <3>1. /\ graph' = <<>> /\ Returns(t, TRUE) /\ modules' = Forgotten
          /\ application' = [application EXCEPT !.exiting = FALSE]
      BY <1>5, <2>3 DEF Finish, At, Work
    <3>2. Held(<<>>, Forgotten, Reg)
      BY <2>2, EmptyHeld
    <3>3. ModulesType(Forgotten) /\ Published(Reg, Forgotten) /\ Quiet(Forgotten)
      BY <1>2, <2>2, ForgottenFacts
    <3>4. application' \in [started : BOOLEAN, exiting : BOOLEAN]
      BY <1>2, <3>1
    <3>5. graph' \in Seq(DOMAIN modules')
      BY <3>1
    <3> QED BY <1>1, <3>1, <3>2, <3>3, <3>4, <3>5, ReturnStep DEF Paired
  <2>4. CASE ~x.clean
    <3>1. graph' = graph /\ Returns(t, FALSE) /\ modules' = modules /\ application' = application
      BY <1>2, <1>5, <2>4 DEF Finish, At, Work
    <3>2. Held(graph, modules, Reg)
      <4>1. Len(graph) \in Nat /\ 0 \in Nat /\ 0 <= Len(graph)
        BY <1>2
      <4>2. Registry(Reg, graph, Len(graph), Len(graph))
        BY <2>2, <4>1, WidenRegistry
      <4> QED BY <2>1, <4>2 DEF Emptying, Held
    <3> QED BY <1>1, <1>2, <2>2, <3>1, <3>2, ReturnStep DEF Paired
  <2> QED BY <2>3, <2>4
<1>6. CASE do = "abandon"
  <2>1. /\ graph' = graph /\ Returns(t, FALSE) /\ modules' = Forgotten
        /\ application' = application
    BY <1>6 DEF Finish, At
  <2>2. RollingBack(x, graph, modules, Reg)
    BY <1>1, <1>2, <1>6, Kinds
  <2>3. Registry(Reg, x.made, 0, 0) /\ Quiet(modules) /\ graph = <<>>
    BY <1>1, <1>2, <1>6, <2>2, CleaningKind DEF RollingBack, Finals
  <2>4. Held(<<>>, Forgotten, Reg)
    BY <2>3, EmptyHeld
  <2>5. ModulesType(Forgotten) /\ Published(Reg, Forgotten) /\ Quiet(Forgotten)
    BY <1>2, <2>3, ForgottenFacts
  <2>6. graph' \in Seq(DOMAIN modules')
    BY <2>1, <2>3
  <2> QED BY <1>1, <1>2, <2>1, <2>3, <2>4, <2>5, <2>6, ReturnStep DEF Paired
<1>7. CASE do = "unstarted"
  <2>1. graph' = graph /\ Returns(t, FALSE) /\ modules' = modules /\ application' = application
    BY <1>7 DEF Finish, At
  <2>2. Ending(x, graph, modules, Reg) /\ Len(x.script) = 1
    BY <1>1, <1>2, <1>7, Kinds, EndingKind
  <2>3. Held(graph, modules, Reg) /\ Covered(x.script, modules)
    BY <2>2 DEF Ending
  <2>4. Quiet(modules)
    BY <1>3, <1>7, <2>2, <2>3, NoneCovered
  <2> QED BY <1>1, <1>2, <2>1, <2>3, <2>4, ReturnStep DEF Paired
<1>8. CASE do \in {"started", "exiting", "ended"}
  <2>1. graph' = graph /\ Returns(t, TRUE) /\ modules' = AllUp
    BY <1>8 DEF Finish, At
  <2>2. ModulesType(AllUp) /\ Alike(modules, AllUp)
    BY <1>2, AllUpFacts
  <2>3. DOMAIN AllUp = DOMAIN modules
    BY <2>2 DEF Alike
  <2>4. Published(Reg, AllUp)
    BY <1>2, <2>2 DEF Alike, Published
  <2>5. Held(graph, modules, Reg) => Held(graph, AllUp, Reg)
    BY <1>2, <2>2, AlikeFacts
  <2>6. \A started : Paired(modules, graph, started) => Paired(AllUp, graph, started)
    BY <1>2, <2>2, AlikeFacts
  <2>7. /\ application' \in [started : BOOLEAN, exiting : BOOLEAN]
        /\ do = "started" => application'.started
        /\ do = "exiting" => application'.started = application.started
    <3>1. CASE do = "started"
      <4>1. application' = [started |-> TRUE, exiting |-> FALSE]
        BY <3>1 DEF Finish, At
      <4> QED BY <3>1, <4>1
    <3>2. CASE do = "exiting"
      BY <1>2, <3>2 DEF Finish, At
    <3>3. CASE do = "ended"
      BY <1>2, <3>3 DEF Finish, At
    <3> QED BY <1>8, <3>1, <3>2, <3>3
  <2>8. Held(graph, modules, Reg) /\ Paired(modules, graph, application'.started)
    <3>1. CASE do = "started"
      <4>1. Starting(x, graph, modules, Reg) /\ Len(x.script) = 1 /\ Len(graph) \in Nat
        BY <1>1, <1>2, <3>1, Kinds, StartingKind
      <4>2. Through(x.script, graph) = Len(graph)
        BY <4>1 DEF Through
      <4>3. /\ Held(graph, modules, Reg)
            /\ \A i \in DOMAIN modules :
                 modules[i].running <=> /\ i \in Upto(graph, Through(x.script, graph))
                                        /\ "starts" \in modules[i].definition.hooks
        BY <4>1 DEF Starting, Through
      <4> QED BY <2>7, <3>1, <4>2, <4>3 DEF Paired
    <3>2. CASE do = "exiting"
      <4>1. Exiting(x, graph, modules, Reg, application.started)
        BY <1>1, <1>2, <3>2, Kinds
      <4> QED BY <2>7, <3>2, <4>1 DEF Exiting
    <3>3. CASE do = "ended"
      <4>1. Ending(x, graph, modules, Reg) /\ Len(x.script) = 1
        BY <1>1, <1>2, <3>3, Kinds, EndingKind
      <4>2. Held(graph, modules, Reg) /\ Covered(x.script, modules)
        BY <4>1 DEF Ending
      <4>3. Quiet(modules)
        BY <1>3, <3>3, <4>1, <4>2, NoneCovered
      <4> QED BY <4>2, <4>3 DEF Paired
    <3> QED BY <1>8, <3>1, <3>2, <3>3
  <2>9. graph' \in Seq(DOMAIN modules')
    BY <1>2, <2>1, <2>3
  <2> QED BY <1>1, <2>1, <2>2, <2>4, <2>5, <2>6, <2>7, <2>8, <2>9, ReturnStep
<1> QED BY <1>4, <1>5, <1>6, <1>7, <1>8 DEF Finish, At

-----------------------------------------------------------------------------
\* The invariant is inductive.

LEMMA IdleOutside ==
  ASSUME IInv, NEW t \in Threads, Free(t) \/ thread[t].script = <<>>
  PROVE  t \notin operation
BY IdleType DEF IInv, Exclusive, Free

LEMMA ReloadNextStep == ASSUME IInv, NEW t \in Threads, ReloadNext(t) PROVE IInv'
<1> DEFINE x == thread[t]
<1>1. /\ x.script = <<>>
      /\ Unloads(t) \/ Starts(t) \/ \E definitions \in {x.new, x.old} : Loads(t, definitions)
  BY DEF ReloadNext
<1>2. t \notin operation
  BY <1>1, IdleOutside
<1>3. x.new \in SUBSET Definitions /\ x.old \in SUBSET Definitions
  BY DEF IInv, TypeOK, Work
<1> QED BY <1>1, <1>2, <1>3, UnloadsStep, StartsStep, LoadsStep

LEMMA Inductive == IInv /\ [Next]_vars => IInv'
<1> SUFFICES ASSUME IInv, [Next]_vars PROVE IInv'
  OBVIOUS
<1>1. ASSUME NEW t \in Threads, Load(t) PROVE IInv'
  <2>1. PICK input \in Inputs : Loads(t, input)
    BY <1>1 DEF Load
  <2>2. input \in SUBSET Definitions /\ t \notin operation
    BY <1>1, ConstantsAssumption, IdleOutside DEF Load
  <2> QED BY <2>1, <2>2, LoadsStep
<1>2. ASSUME NEW t \in Threads, Unload(t) PROVE IInv'
  BY <1>2, IdleOutside, UnloadsStep DEF Unload
<1>3. ASSUME NEW t \in Threads, OnApplicationStarts(t) PROVE IInv'
  BY <1>3, IdleOutside, StartsStep DEF OnApplicationStarts
<1>4. ASSUME NEW t \in Threads,
             \/ Reload(t) \/ ReloadNext(t)
             \/ OnApplicationRequestsExit(t) \/ OnApplicationEnds(t)
             \/ Map(t) \/ Link(t) \/ Hook(t) \/ Unpublish(t) \/ Unmap(t) \/ Stopped(t)
             \/ Finish(t)
      PROVE  IInv'
  BY <1>4, ReloadStep, ReloadNextStep, ExitStep, EndStep, MapStep, LinkStep, HookStep,
     UnpublishStep, UnmapStep, StoppedStep, FinishStep
<1>5. ASSUME NEW p \in Plugins, Resolve(p) \/ ReleasePlugin(p) PROVE IInv'
  BY <1>5, PluginStep
<1>6. CASE UNCHANGED vars
  <2>1. Reg' = Reg
    BY <1>6 DEF vars, Reg
  <2> QED BY <1>6, <2>1 DEF vars, IInv, TypeOK, Exclusive
<1> QED BY <1>1, <1>2, <1>3, <1>4, <1>5, <1>6 DEF Next

\* The inductive invariant: what every operation has still to do, and what the graph, the
\* modules and the registry owe to it.
THEOREM Invariance == Spec => []IInv
<1> QED BY Initially, Inductive, PTL DEF Spec

-----------------------------------------------------------------------------
\* What it says.

\* Whatever is imported is exported, and by a module that is mapped, or that a plugin's
\* pin kept published (Publish, Link, Unpublish and the leases of WupsServices).
THEOREM ImportsCorrect == Spec => []ImportsHeld
<1>1. IInv => ImportsHeld
  BY DEF IInv, Published, Reg, ImportsHeld
<1> QED BY <1>1, Invariance, PTL

LEMMA GraphUpto == ASSUME IInv PROVE Graph = Upto(graph, Len(graph)) /\ Graph \subseteq DOMAIN modules
<1>1. graph \in Seq(DOMAIN modules)
  BY GraphFacts
<1> QED BY <1>1 DEF Graph, ToSet, Upto

\* No operation leaves a module mapped, published or pinning others outside the graph, but
\* for what the loader refused to unmap and what a plugin pinned (Rollback, Unload).
THEOREM LeftCorrect == Spec => []NothingLeft
<1>1. ASSUME IInv PROVE NothingLeft
  <2> SUFFICES ASSUME operation = {}
               PROVE  /\ mapped \subseteq Graph \cup stuck
                      /\ providers \subseteq Graph \cup orphans
                      /\ {l.importer : l \in leases} \subseteq Graph \cup Plugins
    BY DEF NothingLeft
  <2>1. Registry(Reg, graph, Len(graph), Len(graph))
    BY <1>1, GraphFacts DEF Held
  <2>2. Graph = Upto(graph, Len(graph))
    BY <1>1, GraphUpto
  <2>3. \A l \in leases : l.importer \in Plugins \/ l.importer \in Graph
    BY <2>1, <2>2 DEF Registry, Behind, Upto, Reg
  <2>4. mapped \subseteq Graph \cup stuck /\ providers \subseteq Graph \cup orphans
    BY <2>1, <2>2 DEF Registry, Reg
  <2> QED BY <2>3, <2>4
<1> QED BY <1>1, Invariance, PTL

\* The modules with a start hook are started together, with the application, and none is
\* left started by a start that failed, an end or a cleanup (OnApplicationStarts, Unload).
THEOREM PairedCorrect == Spec => []ApplicationPaired
<1>1. ASSUME IInv PROVE ApplicationPaired
  <2> SUFFICES ASSUME operation = {}, {i \in DOMAIN modules : modules[i].running} # {}
               PROVE  /\ application.started
                      /\ {i \in DOMAIN modules : modules[i].running} = {i \in Graph : Has(i, "starts")}
    BY DEF ApplicationPaired
  <2>1. Paired(modules, graph, application.started)
    BY <1>1, GraphFacts
  <2>2. ~Quiet(modules)
    BY DEF Quiet
  <2>3. Graph = Upto(graph, Len(graph)) /\ Graph \subseteq DOMAIN modules
    BY <1>1, GraphUpto
  <2> QED BY <2>1, <2>2, <2>3 DEF Paired, Has
<1> QED BY <1>1, Invariance, PTL

\* While the graph is torn down no module that is still initialized imports from one that
\* has been finalized: the reverse of the load order is an order of the imports, whatever
\* was resolved (Rollback, Link).
THEOREM FinalizedCorrect == Spec => []FinalizedFirst
<1>1. ASSUME IInv PROVE FinalizedFirst
  <2>1. \/ Graph = {}
        \/ \E n : \E m \in Int : /\ m <= Len(graph) /\ Registry(Reg, graph, n, m)
                                /\ \E k \in 0..Len(graph) : Cut(modules, graph, k)
    <3> USE DEF Held
    <3>a. Len(graph) \in Int /\ Len(graph) <= Len(graph)
      BY <1>1, GraphFacts
    <3>1. CASE operation = {}
      BY <1>1, <3>1, <3>a, GraphFacts
    <3>2. CASE operation # {}
      <4>1. PICK t \in operation : TRUE
        BY <3>2
      <4>2. Working(thread[t], graph, modules, Reg, application.started)
        BY <1>1, OneBusy
      <4>3. CASE \/ Loading(thread[t], graph, modules, Reg)
                 \/ RollingBack(thread[t], graph, modules, Reg)
        <5>1. graph = <<>>
          BY <4>3 DEF Loading, RollingBack
        <5> QED BY <5>1 DEF Graph, ToSet
      <4>4. CASE Emptying(thread[t], graph, modules, Reg)
        <5> DEFINE s == thread[t].script
                   m == IF s[1].do = "unmap" THEN Len(s) - 2 ELSE Len(s) - 1
        <5>1. Len(s) \in Int
          BY <1>1, OneBusy DEF Work
        <5>2. /\ Registry(Reg, graph, Len(s) - 1, m) /\ Len(s) - 1 <= Len(graph)
              /\ \E k \in 0..Len(graph) : Cut(modules, graph, k)
          BY <4>4 DEF Emptying, Cleaning
        <5> HIDE DEF s
        <5>3. m \in Int /\ m <= Len(graph)
          BY <3>a, <5>1, <5>2
        <5> HIDE DEF m
        <5> QED BY <5>2, <5>3
      <4>5. CASE Held(graph, modules, Reg)
        BY <3>a, <4>5
      <4> QED BY <4>2, <4>3, <4>4, <4>5 DEF Working, Stopping, Ending, Exiting, Starting
    <3> QED BY <3>1, <3>2
  <2> SUFFICES ASSUME NEW l \in leases, l.importer \in Graph, l.provider \in Graph,
                      modules[l.importer].initialized
               PROVE  modules[l.provider].initialized \/ ~Has(l.provider, "init")
    BY DEF FinalizedFirst
  <2>2. PICK n : \E m \in Int : /\ m <= Len(graph) /\ Registry(Reg, graph, n, m)
                                /\ \E k \in 0..Len(graph) : Cut(modules, graph, k)
    BY <2>1
  <2>a. PICK m \in Int : /\ m <= Len(graph) /\ Registry(Reg, graph, n, m)
                         /\ \E k \in 0..Len(graph) : Cut(modules, graph, k)
    BY <2>2
  <2>3. PICK c \in 0..Len(graph) : Cut(modules, graph, c)
    BY <2>a
  <2>4. Graph = Upto(graph, Len(graph)) /\ Graph \subseteq DOMAIN modules /\ DOMAIN modules \subseteq Nat
    BY <1>1, GraphUpto DEF IInv, TypeOK
  <2>5. Behind(Reg, graph, m, l)
    <3>1. l.importer \notin Plugins
      BY <2>4, ConstantsAssumption
    <3> QED BY <2>a, <3>1 DEF Registry, Reg
  <2>6. Injective(graph) /\ graph \in Seq(DOMAIN modules) /\ Len(graph) \in Nat
    BY <1>1, <2>a, GraphFacts DEF Registry
  <2>7. PICK k \in 1..m : graph[k] = l.importer /\ l.provider \in Upto(graph, k)
    BY <2>4, <2>5 DEF Behind
  <2>8. k \in 1..Len(graph)
    BY <2>6, <2>a
  <2>9. PICK j \in 1..k : l.provider = graph[j]
    BY <2>7 DEF Upto
  <2>10. "init" \in modules[graph[j]].definition.hooks => modules[graph[j]].initialized
    <3>1. k <= c
      BY <2>3, <2>6, <2>7, <2>8 DEF Cut
    <3>2. j \in DOMAIN graph /\ j <= c
      BY <2>6, <2>8, <3>1
    <3> QED BY <2>3, <3>2 DEF Cut
  <2> QED BY <2>9, <2>10 DEF Has
<1> QED BY <1>1, Invariance, PTL

-----------------------------------------------------------------------------
\* Reload: what an operation asks for, and what is left to support it.

\* The last step of a script names its operation and how it is going.
Goal(s) == s[Len(s)].do

\* The modules of a load, or those that its roll-back has to clean up.
Own(x) == Upto(x.made, Len(x.made)) \cup Pending(x.script)

DefinitionsOf(I, ms) == {ms[i].definition : i \in I}

Asked(x, ms) == DefinitionsOf(Own(x), ms)

\* What a reload depends on as one value.  Spare: published by none of the modules that an
\* operation may take away.
Env == [busy |-> operation, graph |-> graph, modules |-> modules, mapped |-> mapped,
        spare |-> providers \ (Graph \cup UNION {Own(thread[u]) : u \in Threads})]

Present(e) == DefinitionsOf(Upto(e.graph, Len(e.graph)), e.modules)

\* Nothing but a failure of one of its steps keeps D from being loaded into an empty graph.
Loadable(D, e) ==
  /\ Orders(D) # {}
  /\ \A d \in D : \A name \in d.depends :
       name \in Names(D) \/ \E j \in e.spare : e.modules[j].definition.name = name

\* What a reload is about to load, or has loaded and is about to start.
Target(x) == IF x.stage \in {"load", "start"} THEN x.new ELSE x.old

Up(D, e) == Present(e) = D /\ Upto(e.graph, Len(e.graph)) \subseteq e.mapped

\* Between the operations of a reload, and within one.
Ready(x, e) ==
  /\ x.stage \in {"load", "restore"} => e.graph = <<>>
  /\ x.stage \in {"start", "restart"} => Up(Target(x), e)

Underway(x, e) ==
  \/ x.stage \in {"unload", "cleanup"} /\ Goal(x.script) = "emptied"
  \/ /\ x.stage \in {"load", "restore"} /\ Goal(x.script) = "commit"
     /\ Asked(x, e.modules) = Target(x) /\ Upto(x.made, Len(x.made)) \subseteq e.mapped
  \/ x.stage = "load" /\ Goal(x.script) = "abandon" /\ x.troubles = 1
  \/ x.stage \in {"start", "restart"} /\ Goal(x.script) = "started" /\ Up(Target(x), e)
  \/ x.stage = "start" /\ Goal(x.script) = "unstarted" /\ x.troubles = 1

Reloading(t, x, e) ==
  /\ x.stage # "unload" => e.busy \subseteq {t}
  /\ x.stage \in {"cleanup", "restore", "restart"} => x.troubles = 1
  /\ IF x.script = <<>> THEN Ready(x, e) ELSE x.clean /\ Underway(x, e)

\* What is in the graph, what is being loaded and what a reload may have to restore can be
\* loaded again; and a reload with at most one trouble, none of it in a cleanup, knows where it is.
Renews(t, x, e) ==
  /\ x.script # <<>> /\ Goal(x.script) = "commit" => Loadable(Asked(x, e.modules), e)
  /\ x.stage # "" => Loadable(x.old, e)
  /\ x.stage # "" /\ x.troubles < 2 => Reloading(t, x, e)

RInv ==
  /\ IInv /\ Loadable(Present(Env), Env)
  /\ \A t \in Threads : Renews(t, thread[t], Env)

LEMMA GoalFacts ==
  ASSUME NEW x \in Work, x.script # <<>>, NEW S, NEW g \in Seq(S), NEW ms, NEW r, NEW started,
         Working(x, g, ms, r, started)
  PROVE  LET do == x.script[1].do
             a == Goal(x.script)
         IN /\ a \in Finals
            /\ do \in Finals => a = do
            /\ do \in Loads1 => a = "commit"
            /\ do \in Phases => a \in {"abandon", "emptied"}
            /\ do \in {"starts", "allStarts"} => a = "started"
            /\ a = "commit" <=> Loading(x, g, ms, r)
            /\ a = "abandon" <=> RollingBack(x, g, ms, r)
<1> DEFINE do == x.script[1].do
           a == Goal(x.script)
<1>1. Loading(x, g, ms, r) => a = "commit"
  BY DEF Loading, Goal, Step
<1>2. RollingBack(x, g, ms, r) => a = "abandon"
  BY DEF RollingBack, Cleaning, Goal, Step
<1>3. Emptying(x, g, ms, r) => a = "emptied"
  BY DEF Emptying, Cleaning, Goal, Step
<1>4. Stopping(x, g, ms, r) => a = "emptied"
  BY DEF Stopping, Goal, Step
<1>5. Ending(x, g, ms, r) => a \in {"ended", "unstarted"}
  BY DEF Ending, Goal
<1>6. Exiting(x, g, ms, r, started) => a = "exiting"
  BY DEF Exiting, Goal
<1>7. Starting(x, g, ms, r) => a = "started"
  BY DEF Starting, Goal
<1>8. Len(x.script) = 1 => a = do
  BY DEF Goal
<1>9. /\ do \in Loads1 \cup {"commit"} => Loading(x, g, ms, r)
      /\ do \in Phases => RollingBack(x, g, ms, r) \/ Emptying(x, g, ms, r)
      /\ do = "abandon" => RollingBack(x, g, ms, r)
      /\ do = "emptied" => Emptying(x, g, ms, r)
      /\ do \in {"ended", "unstarted"} => Ending(x, g, ms, r)
      /\ do = "exiting" => Exiting(x, g, ms, r, started)
      /\ do \in {"starts", "allStarts", "started"} => Starting(x, g, ms, r)
  BY Kinds
<1>10. do \in {"ended", "unstarted"} => Len(x.script) = 1
  BY <1>9, EndingKind
<1> HIDE DEF do, a
<1>11. \/ Loading(x, g, ms, r) \/ RollingBack(x, g, ms, r) \/ Emptying(x, g, ms, r)
       \/ Stopping(x, g, ms, r) \/ Ending(x, g, ms, r) \/ Exiting(x, g, ms, r, started)
       \/ Starting(x, g, ms, r)
  BY DEF Working
<1>12. /\ a \in Finals
       /\ a = "commit" <=> Loading(x, g, ms, r)
       /\ a = "abandon" <=> RollingBack(x, g, ms, r)
  BY <1>1, <1>2, <1>3, <1>4, <1>5, <1>6, <1>7, <1>11 DEF Finals
<1>13. do \in Finals => a = do
  BY <1>1, <1>2, <1>3, <1>6, <1>7, <1>8, <1>9, <1>10 DEF Finals
<1>14. /\ do \in Loads1 => a = "commit"
       /\ do \in Phases => a \in {"abandon", "emptied"}
       /\ do \in {"starts", "allStarts"} => a = "started"
  BY <1>1, <1>2, <1>3, <1>7, <1>9
<1> QED BY <1>12, <1>13, <1>14 DEF do, a

LEMMA NonePending ==
  ASSUME NEW s, \A k \in DOMAIN s : s[k].do # "map"
  PROVE  Pending(s) = {}
BY DEF Pending

\* A step that is not the last of its script.
LEMMA RestGoal ==
  ASSUME NEW s \in Seq(Steps), s # <<>>, s[Len(s)].do \in Finals, s[1].do \notin Finals
  PROVE  /\ Rest(s) \in Seq(Steps) /\ Rest(s) # <<>> /\ Goal(Rest(s)) = Goal(s)
         /\ Pending(s) = Pending(Rest(s)) \cup (IF s[1].do = "map" THEN {s[1].module} ELSE {})
<1> DEFINE z == Rest(s)
           N == Len(s)
           M == Len(z)
<1>1. N \in Nat /\ N >= 2 /\ DOMAIN s = 1..N
  <2>1. N # 1
    OBVIOUS
  <2> QED BY <2>1
<1>2. /\ z \in Seq(Steps)
      /\ s[1].do \in DOMAIN Follows =>
           /\ M = N /\ z[1] = Step(Follows[s[1].do], s[1].module)
           /\ \A k \in 2..N : z[k] = s[k]
      /\ s[1].do \notin DOMAIN Follows =>
           /\ M = N - 1 /\ \A k \in 1..(N - 1) : z[k] = s[k + 1]
  BY RestFacts
<1>3. DOMAIN z = 1..M
  BY <1>2
<1> HIDE DEF z, N, M
<1>4. CASE s[1].do \in DOMAIN Follows
  <2>1. M = N /\ z[M] = s[N]
    BY <1>1, <1>2, <1>4
  <2>2. z[1].do # "map"
    <3>1. z[1].do = Follows[s[1].do]
      BY <1>2, <1>4 DEF Step
    <3> QED BY <1>4, <3>1 DEF Follows
  <2>3. \A k \in DOMAIN z : z[k].do = "map" => k \in DOMAIN s /\ k # 1 /\ s[k] = z[k]
    BY <1>1, <1>2, <1>3, <1>4, <2>1, <2>2
  <2>4. \A k \in DOMAIN s : s[k].do = "map" => k = 1 \/ (k \in DOMAIN z /\ z[k] = s[k])
    BY <1>1, <1>2, <1>3, <1>4, <2>1
  <2>5. 1 \in DOMAIN s
    BY <1>1
  <2>6. Pending(s) = Pending(z) \cup (IF s[1].do = "map" THEN {s[1].module} ELSE {})
    BY <2>3, <2>4, <2>5 DEF Pending
  <2>7. z # <<>>
    BY <1>1, <2>1 DEF M
  <2> QED BY <1>2, <2>1, <2>6, <2>7 DEF Goal, z, N, M
<1>5. CASE s[1].do \notin DOMAIN Follows
  <2>1. M = N - 1 /\ z[M] = s[M + 1] /\ M + 1 = N
    BY <1>1, <1>2, <1>5
  <2>2. s[1].do # "map"
    BY <1>5, Followed
  <2>3. \A k \in DOMAIN z : k + 1 \in DOMAIN s /\ s[k + 1] = z[k]
    BY <1>1, <1>2, <1>3, <1>5, <2>1
  <2>4. ASSUME NEW k \in DOMAIN s, s[k].do = "map"
        PROVE  k - 1 \in DOMAIN z /\ z[k - 1] = s[k]
    <3>1. k # 1
      BY <2>2, <2>4
    <3>2. k - 1 \in 1..(N - 1) /\ (k - 1) + 1 = k
      BY <1>1, <3>1
    <3>3. z[k - 1] = s[(k - 1) + 1]
      BY <1>2, <1>5, <3>2
    <3> QED BY <1>3, <2>1, <3>2, <3>3
  <2>5. Pending(s) = Pending(z)
    <3>1. Pending(z) \subseteq Pending(s)
      BY <2>3 DEF Pending
    <3>2. Pending(s) \subseteq Pending(z)
      BY <2>4 DEF Pending
    <3> QED BY <3>1, <3>2
  <2>6. z # <<>>
    BY <1>1, <2>1 DEF M
  <2> QED BY <1>2, <2>1, <2>2, <2>5, <2>6 DEF Goal, z, N, M
<1> QED BY <1>4, <1>5

-----------------------------------------------------------------------------
\* What a step of an operation, but for its last, leaves of all this.

SameDefinitions(ms, ms2) ==
  DOMAIN ms2 = DOMAIN ms /\ \A i \in DOMAIN ms : ms2[i].definition = ms[i].definition

Turned(a, b) ==
  \/ a = "commit" /\ b = "abandon"
  \/ a = "started" /\ b = "unstarted"

Carried(x, y, g, ms, ms2, r, r2) ==
  LET a == Goal(x.script)
      b == Goal(y.script)
  IN /\ y.script # <<>>
     /\ y.stage = x.stage /\ y.new = x.new /\ y.old = x.old /\ y.restart = x.restart
     /\ Own(y) \subseteq Own(x)
     /\ SameDefinitions(ms, ms2)
     /\ \A i \in r.providers \ r2.providers : i \in Own(x) \cup Upto(g, Len(g))
     /\ a \in {"commit", "started"} => r.mapped \subseteq r2.mapped
     /\ \/ /\ b = a
           /\ a = "commit" =>
                /\ Own(y) = Own(x)
                /\ Upto(y.made, Len(y.made)) \subseteq Upto(x.made, Len(x.made)) \cup r2.mapped
           /\ \/ y.clean = x.clean /\ y.troubles = x.troubles
              \/ x.stage # "" => y.troubles = 2
        \/ Turned(a, b) /\ y.clean = x.clean /\ y.troubles = Trouble(x, 1)

Carries(t) ==
  /\ t \in operation /\ UNCHANGED <<graph, operation>>
  /\ \E y \in Work : /\ thread' = [thread EXCEPT ![t] = y]
                     /\ Carried(thread[t], y, graph, modules, modules', Reg, Reg')

\* The count of troubles within a reload.
LEMMA UpToTwo ==
  ASSUME NEW n \in 0..2
  PROVE  /\ (IF n + 2 < 2 THEN n + 2 ELSE 2) = 2
         /\ (IF n + 1 < 2 THEN n + 1 ELSE 2) \in {1, 2}
         /\ (IF n + 0 < 2 THEN n + 0 ELSE 2) = n
         /\ (IF n + 1 < 2 THEN n + 1 ELSE 2) < 2 => n = 0
OBVIOUS

LEMMA TroubleFacts ==
  ASSUME NEW x \in Work, x.stage # ""
  PROVE  /\ Trouble(x, 2) = 2 /\ Trouble(x, 1) \in {1, 2} /\ Trouble(x, 0) = x.troubles
         /\ Trouble(x, 1) < 2 => x.troubles = 0
<1>1. x.troubles \in 0..2
  BY DEF Work
<1>2. /\ Trouble(x, 2) = IF x.troubles + 2 < 2 THEN x.troubles + 2 ELSE 2
      /\ Trouble(x, 1) = IF x.troubles + 1 < 2 THEN x.troubles + 1 ELSE 2
      /\ Trouble(x, 0) = IF x.troubles + 0 < 2 THEN x.troubles + 0 ELSE 2
  BY DEF Trouble
<1> QED BY <1>1, <1>2, UpToTwo

LEMMA BusyGoal ==
  ASSUME IInv, NEW t \in operation
  PROVE  LET x == thread[t]
         IN /\ x \in Work /\ x.script # <<>> /\ x.script \in Seq(Steps)
            /\ t \in Threads /\ thread \in [Threads -> Work]
            /\ x.script[Len(x.script)].do \in Finals
            /\ x.script[1].do \in Finals => Goal(x.script) = x.script[1].do
            /\ x.script[1].do \in Loads1 => Goal(x.script) = "commit"
            /\ x.script[1].do \in Phases => Goal(x.script) \in {"abandon", "emptied"}
            /\ x.script[1].do \in {"starts", "allStarts"} => Goal(x.script) = "started"
<1> DEFINE x == thread[t]
<1>1. /\ x \in Work /\ x.script # <<>> /\ t \in Threads
      /\ Working(x, graph, modules, Reg, application.started)
  BY OneBusy
<1>2. thread \in [Threads -> Work] /\ graph \in Seq(DOMAIN modules)
  BY GraphFacts DEF IInv, TypeOK
<1>3. x.script \in Seq(Steps)
  BY <1>1 DEF Work
<1>4. /\ Goal(x.script) \in Finals
      /\ x.script[1].do \in Finals => Goal(x.script) = x.script[1].do
      /\ x.script[1].do \in Loads1 => Goal(x.script) = "commit"
      /\ x.script[1].do \in Phases => Goal(x.script) \in {"abandon", "emptied"}
      /\ x.script[1].do \in {"starts", "allStarts"} => Goal(x.script) = "started"
  BY <1>1, <1>2, GoalFacts
<1> QED BY <1>1, <1>2, <1>3, <1>4 DEF Goal

LEMMA ProceedCarries ==
  ASSUME IInv, NEW t \in operation, Proceeds(t) \/ Soils(t), UNCHANGED <<graph, operation>>,
         thread[t].script[1].do \notin Finals \cup {"map"},
         SameDefinitions(modules, modules'),
         \A i \in Reg.providers \ Reg'.providers : i \in Own(thread[t]) \cup Upto(graph, Len(graph)),
         Goal(thread[t].script) \in {"commit", "started"} => Reg.mapped \subseteq Reg'.mapped
  PROVE  Carries(t)
<1> DEFINE x == thread[t]
           s == x.script
<1>1. /\ x \in Work /\ s # <<>> /\ s \in Seq(Steps) /\ s[Len(s)].do \in Finals
      /\ t \in Threads /\ thread \in [Threads -> Work]
  BY BusyGoal
<1>2. Rest(s) \in Seq(Steps) /\ Rest(s) # <<>> /\ Goal(Rest(s)) = Goal(s) /\ Pending(s) = Pending(Rest(s))
  BY <1>1, RestGoal
<1>3. ASSUME NEW y \in Work, y.script = Rest(s), y.made = x.made, y.stage = x.stage, y.new = x.new,
             y.old = x.old, y.restart = x.restart,
             \/ y.clean = x.clean /\ y.troubles = x.troubles
             \/ x.stage # "" => y.troubles = 2
      PROVE  Carried(x, y, graph, modules, modules', Reg, Reg')
  <2>1. Own(y) = Own(x)
    BY <1>2, <1>3 DEF Own
  <2>2. /\ SameDefinitions(modules, modules')
        /\ \A i \in Reg.providers \ Reg'.providers : i \in Own(x) \cup Upto(graph, Len(graph))
        /\ Goal(s) \in {"commit", "started"} => Reg.mapped \subseteq Reg'.mapped
    OBVIOUS
  <2> HIDE DEF x
  <2> QED BY <1>2, <1>3, <2>1, <2>2 DEF Carried
<1>4. CASE Proceeds(t)
  <2> DEFINE y == [x EXCEPT !.script = Rest(s)]
  <2>1. /\ y \in Work /\ y.script = Rest(s) /\ y.made = x.made /\ y.stage = x.stage
        /\ y.new = x.new /\ y.old = x.old /\ y.restart = x.restart
        /\ y.clean = x.clean /\ y.troubles = x.troubles
    BY <1>1, <1>2 DEF Work
  <2>2. thread' = [thread EXCEPT ![t] = y]
    BY <1>1, <1>4 DEF Proceeds
  <2> HIDE DEF y, x
  <2>3. Carried(x, y, graph, modules, modules', Reg, Reg')
    BY <1>3, <2>1
  <2> QED BY <2>1, <2>2, <2>3 DEF Carries, x
<1>5. CASE Soils(t)
  <2> DEFINE y == [x EXCEPT !.script = Rest(s), !.clean = FALSE, !.troubles = Trouble(x, 2)]
  <2>1. Trouble(x, 2) \in 0..2 /\ (x.stage # "" => Trouble(x, 2) = 2)
    BY <1>1, TroubleType, TroubleFacts
  <2>2. /\ y \in Work /\ y.script = Rest(s) /\ y.made = x.made /\ y.stage = x.stage
        /\ y.new = x.new /\ y.old = x.old /\ y.restart = x.restart
        /\ y.troubles = Trouble(x, 2)
    BY <1>1, <1>2, <2>1 DEF Work
  <2>3. thread' = [thread EXCEPT ![t] = y]
    BY <1>1, <1>5 DEF Soils
  <2> HIDE DEF y, x
  <2>4. Carried(x, y, graph, modules, modules', Reg, Reg')
    BY <1>3, <2>1, <2>2
  <2> QED BY <2>2, <2>3, <2>4 DEF Carries, x
<1> QED BY <1>4, <1>5

\* The scripts that replace what is left of a load or of a start.
LEMMA UndoGoal ==
  ASSUME NEW L \in Seq(Nat)
  PROVE  LET s == Cleanup(L) \o Final("abandon")
         IN s \in Seq(Steps) /\ s # <<>> /\ Goal(s) = "abandon" /\ Pending(s) = {}
<1> DEFINE s == Cleanup(L) \o Final("abandon")
           n == Len(L)
<1>1. "abandon" \in Acts /\ n \in Nat
  BY DEF Acts, Finals
<1>2. /\ s \in Seq(Steps) /\ Len(s) = n + 1
      /\ \A k \in 1..n : s[k] = Step("fini", L[n + 1 - k])
      /\ s[Len(s)] = Step("abandon", 0)
  BY <1>1, CleanupFacts
<1> HIDE DEF s, n
<1>3. s # <<>> /\ DOMAIN s = 1..(n + 1) /\ s[n + 1] = Step("abandon", 0)
  BY <1>1, <1>2
<1>4. ASSUME NEW k \in DOMAIN s PROVE s[k].do # "map"
  <2>1. CASE k = n + 1
    BY <1>3, <2>1 DEF Step
  <2>2. CASE k # n + 1
    <3>1. k \in 1..n
      BY <1>1, <1>3, <2>2
    <3>2. s[k] = Step("fini", L[n + 1 - k])
      BY <1>2, <3>1
    <3> QED BY <3>2 DEF Step
  <2> QED BY <2>1, <2>2
<1>5. Goal(s) = "abandon"
  BY <1>2 DEF Goal, Step
<1>6. Pending(s) = {}
  BY <1>4, NonePending
<1> QED BY <1>2, <1>3, <1>5, <1>6 DEF s

LEMMA UnstartGoal ==
  ASSUME NEW L \in Seq(Nat)
  PROVE  LET s == Calls("ends", Reverse(L)) \o Final("unstarted")
         IN s \in Seq(Steps) /\ s # <<>> /\ Goal(s) = "unstarted" /\ Pending(s) = {}
<1> DEFINE R == Reverse(L)
           a == Calls("ends", R)
           b == Final("unstarted")
           s == a \o b
           n == Len(R)
<1>1. "ends" \in Acts /\ "unstarted" \in Acts
  BY DEF Acts, Hooks, Finals
<1>2. R \in Seq(Nat)
  BY ReverseFacts
<1> HIDE DEF R
<1>3. a \in Seq(Steps) /\ Len(a) = n /\ n \in Nat /\ \A k \in 1..n : a[k] = Step("ends", R[k])
  BY <1>1, <1>2, CallsFacts
<1>4. b \in Seq(Steps) /\ Len(b) = 1 /\ b[1] = Step("unstarted", 0)
  BY <1>1, FinalFacts
<1> HIDE DEF a, b, n
<1>5. /\ s \in Seq(Steps) /\ Len(s) = n + 1 /\ \A k \in 1..n : s[k] = a[k]
      /\ s[n + 1] = b[1]
  <2>1. /\ s \in Seq(Steps) /\ Len(s) = Len(a) + Len(b)
        /\ \A k \in 1..Len(a) : s[k] = a[k]
        /\ \A k \in 1..Len(b) : s[Len(a) + k] = b[k]
    BY <1>3, <1>4, ConcatFacts
  <2> QED BY <1>3, <1>4, <2>1
<1> HIDE DEF s
<1>6. s # <<>> /\ DOMAIN s = 1..(n + 1)
  BY <1>3, <1>5
<1>7. ASSUME NEW k \in DOMAIN s PROVE s[k].do # "map"
  <2>1. CASE k = n + 1
    BY <1>4, <1>5, <2>1 DEF Step
  <2>2. CASE k # n + 1
    <3>1. k \in 1..n
      BY <1>3, <1>6, <2>2
    <3>2. s[k] = Step("ends", R[k])
      BY <1>3, <1>5, <3>1
    <3> QED BY <3>2 DEF Step
  <2> QED BY <2>1, <2>2
<1>8. Goal(s) = "unstarted"
  BY <1>4, <1>5 DEF Goal, Step
<1>9. Pending(s) = {}
  BY <1>7, NonePending
<1> QED BY <1>5, <1>6, <1>8, <1>9 DEF s, a, b, R

LEMMA TurnCarries ==
  ASSUME IInv, NEW t \in operation, NEW y \in Work, thread' = [thread EXCEPT ![t] = y],
         UNCHANGED <<graph, operation>>,
         y.script # <<>>, Turned(Goal(thread[t].script), Goal(y.script)), Pending(y.script) = {},
         Upto(y.made, Len(y.made)) \subseteq Own(thread[t]),
         y.stage = thread[t].stage, y.new = thread[t].new, y.old = thread[t].old,
         y.restart = thread[t].restart, y.clean = thread[t].clean,
         y.troubles = Trouble(thread[t], 1),
         SameDefinitions(modules, modules'),
         Reg.providers \subseteq Reg'.providers, Reg.mapped \subseteq Reg'.mapped
  PROVE  Carries(t)
<1>1. Own(y) \subseteq Own(thread[t])
  BY DEF Own
<1>2. Carried(thread[t], y, graph, modules, modules', Reg, Reg')
  BY <1>1 DEF Carried
<1> QED BY <1>2 DEF Carries

LEMMA UndoCarries ==
  ASSUME IInv, NEW t \in operation, NEW made \in Seq(Nat), Undo(t, made),
         UNCHANGED <<graph, operation>>, Goal(thread[t].script) = "commit",
         Upto(made, Len(made)) \subseteq Own(thread[t]),
         SameDefinitions(modules, modules'),
         Reg.providers \subseteq Reg'.providers, Reg.mapped \subseteq Reg'.mapped
  PROVE  Carries(t)
<1> DEFINE x == thread[t]
           s == Cleanup(made) \o Final("abandon")
           y == [x EXCEPT !.script = s, !.made = made, !.troubles = Trouble(x, 1)]
<1>1. x \in Work /\ t \in Threads /\ thread \in [Threads -> Work]
  BY BusyGoal
<1>2. s \in Seq(Steps) /\ s # <<>> /\ Goal(s) = "abandon" /\ Pending(s) = {}
  BY UndoGoal
<1>3. Trouble(x, 1) \in 0..2
  BY <1>1, TroubleType
<1>4. thread' = [thread EXCEPT ![t] = y]
  BY <1>1 DEF Undo
<1> HIDE DEF s
<1>5. /\ y \in Work /\ y.script = s /\ y.made = made /\ y.stage = x.stage /\ y.new = x.new
      /\ y.old = x.old /\ y.restart = x.restart /\ y.clean = x.clean
      /\ y.troubles = Trouble(x, 1)
  BY <1>1, <1>2, <1>3 DEF Work
<1>6. Turned(Goal(x.script), Goal(s))
  BY <1>2 DEF Turned
<1> HIDE DEF y
<1> QED BY <1>2, <1>4, <1>5, <1>6, TurnCarries

LEMMA UnstartCarries ==
  ASSUME IInv, NEW t \in operation, NEW L \in Seq(Nat), UndoStart(t, L),
         UNCHANGED <<graph, operation>>, Goal(thread[t].script) = "started",
         SameDefinitions(modules, modules'),
         Reg.providers \subseteq Reg'.providers, Reg.mapped \subseteq Reg'.mapped
  PROVE  Carries(t)
<1> DEFINE x == thread[t]
           s == Calls("ends", Reverse(L)) \o Final("unstarted")
           y == [x EXCEPT !.script = s, !.troubles = Trouble(x, 1)]
<1>1. x \in Work /\ t \in Threads /\ thread \in [Threads -> Work]
  BY BusyGoal
<1>2. s \in Seq(Steps) /\ s # <<>> /\ Goal(s) = "unstarted" /\ Pending(s) = {}
  BY UnstartGoal
<1>3. Trouble(x, 1) \in 0..2
  BY <1>1, TroubleType
<1>4. thread' = [thread EXCEPT ![t] = y]
  BY <1>1 DEF UndoStart, Turns
<1> HIDE DEF s
<1>5. /\ y \in Work /\ y.script = s /\ y.made = x.made /\ y.stage = x.stage /\ y.new = x.new
      /\ y.old = x.old /\ y.restart = x.restart /\ y.clean = x.clean
      /\ y.troubles = Trouble(x, 1)
  BY <1>1, <1>2, <1>3 DEF Work
<1>6. Turned(Goal(x.script), Goal(s)) /\ Upto(x.made, Len(x.made)) \subseteq Own(x)
  BY <1>2 DEF Turned, Own
<1> HIDE DEF y
<1> QED BY <1>2, <1>4, <1>5, <1>6, TurnCarries

LEMMA LoadingHead ==
  ASSUME IInv, NEW t \in operation, thread[t].script[1].do \in {"map", "link"}
  PROVE  LET x == thread[t]
             i == x.script[1].module
         IN /\ x.made \in Seq(Nat) /\ i \in Nat /\ Goal(x.script) = "commit"
            /\ x.script[1].do = "map" => i \in Pending(x.script)
<1> DEFINE x == thread[t]
           i == x.script[1].module
<1>1. /\ x \in Work /\ x.script # <<>> /\ x.script \in Seq(Steps)
      /\ x.script[1].do \in Loads1 => Goal(x.script) = "commit"
  BY BusyGoal
<1>2. x.made \in Seq(Nat) /\ 1 \in DOMAIN x.script /\ x.script[1] \in Steps
  BY <1>1 DEF Work
<1>3. i \in Nat
  BY <1>2 DEF Steps
<1>4. x.script[1].do = "map" => i \in Pending(x.script)
  BY <1>2 DEF Pending
<1> QED BY <1>1, <1>2, <1>3, <1>4 DEF Loads1

LEMMA UptoAppend ==
  ASSUME NEW L \in Seq(Nat), NEW i \in Nat
  PROVE  /\ Append(L, i) \in Seq(Nat)
         /\ Upto(Append(L, i), Len(Append(L, i))) = Upto(L, Len(L)) \cup {i}
<1> DEFINE M == Append(L, i)
           n == Len(L)
<1>1. /\ M \in Seq(Nat) /\ Len(M) = n + 1 /\ M[n + 1] = i /\ n \in Nat
      /\ \A k \in 1..n : M[k] = L[k]
  OBVIOUS
<1> HIDE DEF M, n
<1>2. Upto(M, n + 1) = Upto(L, n) \cup {i}
  <2>1. \A k \in 1..(n + 1) : k = n + 1 \/ k \in 1..n
    BY <1>1
  <2>2. \A k \in 1..n : k \in 1..(n + 1)
    BY <1>1
  <2>3. n + 1 \in 1..(n + 1)
    BY <1>1
  <2> QED BY <1>1, <2>1, <2>2, <2>3 DEF Upto
<1> QED BY <1>1, <1>2 DEF M, n

LEMMA MapCarries == ASSUME IInv, NEW t \in Threads, Map(t) PROVE Carries(t)
<1> DEFINE x == thread[t]
           i == x.script[1].module
           made == Append(x.made, i)
<1>1. /\ x.script # <<>> /\ x.script[1].do = "map" /\ t \in operation
      /\ UNCHANGED <<modules, graph, operation>>
  BY DEF Map, At, IInv, Exclusive
<1>2. /\ x \in Work /\ x.script \in Seq(Steps) /\ thread \in [Threads -> Work]
      /\ x.script[Len(x.script)].do \in Finals
  BY <1>1, BusyGoal
<1>3. x.made \in Seq(Nat) /\ i \in Nat /\ Goal(x.script) = "commit" /\ i \in Pending(x.script)
  BY <1>1, LoadingHead
<1>4. made \in Seq(Nat) /\ Upto(made, Len(made)) = Upto(x.made, Len(x.made)) \cup {i}
  BY <1>3, UptoAppend
<1>5. Upto(made, Len(made)) \subseteq Own(x)
  BY <1>3, <1>4 DEF Own
<1>6. SameDefinitions(modules, modules')
  BY <1>1 DEF SameDefinitions
<1>7. CASE /\ mapped' = mapped \cup {i} /\ providers' = providers \cup {i}
           /\ thread' = [thread EXCEPT ![t].script = Rest(@), ![t].made = made]
  <2> DEFINE y == [x EXCEPT !.script = Rest(x.script), !.made = made]
  <2>1. /\ Rest(x.script) \in Seq(Steps) /\ Rest(x.script) # <<>>
        /\ Goal(Rest(x.script)) = Goal(x.script)
        /\ Pending(x.script) = Pending(Rest(x.script)) \cup {i}
    <3>1. "map" \notin Finals
      BY DEF Finals
    <3> QED BY <1>1, <1>2, <3>1, RestGoal
  <2>2. thread' = [thread EXCEPT ![t] = y]
    BY <1>2, <1>7
  <2> HIDE DEF made, i
  <2>3. /\ y \in Work /\ y.script = Rest(x.script) /\ y.made = made /\ y.stage = x.stage
        /\ y.new = x.new /\ y.old = x.old /\ y.restart = x.restart /\ y.clean = x.clean
        /\ y.troubles = x.troubles
    BY <1>2, <1>4, <2>1 DEF Work
  <2> HIDE DEF y
  <2>4. Own(y) = Own(x)
    BY <1>4, <2>1, <2>3 DEF Own
  <2>5. Reg'.mapped = Reg.mapped \cup {i} /\ Reg'.providers = Reg.providers \cup {i}
    BY <1>7 DEF Reg
  <2>6. Carried(x, y, graph, modules, modules', Reg, Reg')
    BY <1>4, <1>6, <2>1, <2>3, <2>4, <2>5 DEF Carried
  <2> QED BY <1>1, <2>2, <2>3, <2>6 DEF Carries
<1>8. CASE mapped' \in {mapped, mapped \cup {i}} /\ providers' = providers /\ Undo(t, made)
  <2>1. Reg.mapped \subseteq Reg'.mapped /\ Reg.providers \subseteq Reg'.providers
    BY <1>8 DEF Reg
  <2> HIDE DEF made
  <2> QED BY <1>1, <1>3, <1>4, <1>5, <1>6, <1>8, <2>1, UndoCarries
<1> QED BY <1>7, <1>8 DEF Map, Module

LEMMA LinkCarries == ASSUME IInv, NEW t \in Threads, Link(t) PROVE Carries(t)
<1> DEFINE x == thread[t]
<1>1. /\ x.script # <<>> /\ x.script[1].do = "link" /\ t \in operation
      /\ UNCHANGED <<modules, graph, providers, mapped, operation>>
  BY DEF Link, At, IInv, Exclusive
<1>2. x.made \in Seq(Nat) /\ Goal(x.script) = "commit" /\ Upto(x.made, Len(x.made)) \subseteq Own(x)
  BY <1>1, LoadingHead DEF Own
<1>3. SameDefinitions(modules, modules')
  BY <1>1 DEF SameDefinitions
<1>4. Reg'.mapped = Reg.mapped /\ Reg'.providers = Reg.providers
  BY <1>1 DEF Reg
<1>5. CASE Proceeds(t)
  <2>1. "link" \notin Finals \cup {"map"}
    BY DEF Finals
  <2> QED BY <1>1, <1>3, <1>4, <1>5, <2>1, ProceedCarries
<1>6. CASE Undo(t, x.made)
  BY <1>1, <1>2, <1>3, <1>4, <1>6, UndoCarries
<1>7. Proceeds(t) \/ Undo(t, x.made)
  BY DEF Link
<1> QED BY <1>5, <1>6, <1>7

\* What is cleaned up is of the graph, or of a load that is rolled back.
LEMMA CleaningModule ==
  ASSUME IInv, NEW t \in operation, thread[t].script[1].do \in Phases
  PROVE  thread[t].script[1].module \in Own(thread[t]) \cup Upto(graph, Len(graph))
<1> DEFINE x == thread[t]
           s == x.script
<1>1. /\ x \in Work /\ s # <<>> /\ s \in Seq(Steps)
      /\ Working(x, graph, modules, Reg, application.started)
  BY OneBusy, BusyGoal
<1>2. graph \in Seq(DOMAIN modules)
  BY GraphFacts
<1>3. s[1].do \notin Finals /\ "abandon" \in Finals /\ "emptied" \in Finals
  BY NotUnmap DEF Finals, Phases
<1>4. CASE RollingBack(x, graph, modules, Reg)
  <2>1. x.made \in Seq(DOMAIN modules) /\ Cleaning(Reg, x.made, s, "abandon")
    BY <1>4 DEF RollingBack
  <2>2. Len(s) - 1 \in 1..Len(x.made) /\ s[1].module = x.made[Len(s) - 1]
    BY <1>1, <1>3, <2>1, CleaningHead
  <2> QED BY <2>2 DEF Own, Upto
<1>5. CASE Emptying(x, graph, modules, Reg)
  <2>1. Cleaning(Reg, graph, s, "emptied")
    BY <1>5 DEF Emptying
  <2>2. Len(s) - 1 \in 1..Len(graph) /\ s[1].module = graph[Len(s) - 1]
    BY <1>1, <1>2, <1>3, <2>1, CleaningHead
  <2> QED BY <2>2 DEF Upto
<1> QED BY <1>1, <1>2, <1>4, <1>5, Kinds

LEMMA UnpublishCarries == ASSUME IInv, NEW t \in Threads, Unpublish(t) PROVE Carries(t)
<1> DEFINE s == thread[t].script
           i == s[1].module
<1>1. /\ s # <<>> /\ s[1].do = "unpublish" /\ t \in operation
      /\ UNCHANGED <<graph, mapped, operation>>
      /\ Proceeds(t) \/ Soils(t)
      /\ \/ modules' = [modules EXCEPT ![i].state = "failed"] /\ providers' = providers
         \/ modules' = modules /\ providers' = providers \ {i}
  BY DEF Unpublish, At, Module, IInv, Exclusive
<1>2. ModulesType(modules)
  BY GraphFacts
<1>3. SameDefinitions(modules, modules')
  <2>1. CASE modules' = [modules EXCEPT ![i].state = "failed"]
    BY <1>2, <2>1, StateAlike DEF Alike, SameDefinitions
  <2>2. CASE modules' = modules
    BY <2>2 DEF SameDefinitions
  <2> QED BY <1>1, <2>1, <2>2
<1>4. s[1].do \in Phases /\ s[1].do \notin Finals \cup {"map"}
  BY <1>1 DEF Phases, Finals
<1>5. i \in Own(thread[t]) \cup Upto(graph, Len(graph))
  BY <1>1, <1>4, CleaningModule
<1>6. \A j \in Reg.providers \ Reg'.providers : j \in Own(thread[t]) \cup Upto(graph, Len(graph))
  <2>1. \A j \in Reg.providers \ Reg'.providers : j = i
    BY <1>1 DEF Reg
  <2> QED BY <1>5, <2>1
<1>7. Goal(s) \notin {"commit", "started"}
  BY <1>1, <1>4, BusyGoal
<1> QED BY <1>1, <1>3, <1>4, <1>6, <1>7, ProceedCarries

LEMMA UnmapCarries == ASSUME IInv, NEW t \in Threads, Unmap(t) PROVE Carries(t)
<1> DEFINE s == thread[t].script
           i == s[1].module
<1>1. /\ s # <<>> /\ s[1].do = "unmap" /\ t \in operation
      /\ UNCHANGED <<graph, providers, operation>>
      /\ Proceeds(t) \/ Soils(t)
  BY DEF Unmap, At, Module, IInv, Exclusive
<1>2. SameDefinitions(modules, modules')
  <2>1. DOMAIN modules' = DOMAIN modules
    BY DEF Unmap
  <2>2. ASSUME NEW j \in DOMAIN modules PROVE modules'[j].definition = modules[j].definition
    <3>1. modules[j] \in Instance
      BY GraphFacts DEF ModulesType
    <3>2. \E v : modules'[j] = modules[j] \/ modules'[j] = [modules[j] EXCEPT !.state = v]
      BY DEF Unmap, Module
    <3> QED BY <3>1, <3>2 DEF Instance
  <2> QED BY <2>1, <2>2 DEF SameDefinitions
<1>3. s[1].do \in Phases /\ s[1].do \notin Finals \cup {"map"}
  BY <1>1 DEF Phases, Finals
<1>4. Reg'.providers = Reg.providers
  BY <1>1 DEF Reg
<1>5. Goal(s) \notin {"commit", "started"}
  BY <1>1, <1>3, BusyGoal
<1> QED BY <1>1, <1>2, <1>3, <1>4, <1>5, ProceedCarries

LEMMA StoppedCarries == ASSUME IInv, NEW t \in Threads, Stopped(t) PROVE Carries(t)
<1>1. /\ thread[t].script # <<>> /\ thread[t].script[1].do = "stopped" /\ t \in operation
      /\ UNCHANGED <<modules, graph, registry, operation>> /\ Proceeds(t)
  BY DEF Stopped, At, IInv, Exclusive
<1>2. SameDefinitions(modules, modules') /\ Reg' = Reg
  BY <1>1 DEF SameDefinitions, Reg, registry
<1>3. "stopped" \notin Finals \cup {"map"}
  BY DEF Finals
<1> QED BY <1>1, <1>2, <1>3, ProceedCarries

LEMMA HookCarries == ASSUME IInv, NEW t \in Threads, Hook(t) PROVE Carries(t)
<1> DEFINE x == thread[t]
           i == x.script[1].module
<1>1. PICK hook \in Hooks \cup {"skip"} :
        /\ At(t, hook)
        /\ \E ok \in BOOLEAN :
             /\ modules' = [modules EXCEPT ![i] = After(@, hook, ok)]
             /\ Proceeds(t) \/ HookFails(t, i, hook)
  BY DEF Hook, Module
<1>2. /\ x.script # <<>> /\ x.script[1].do = hook /\ t \in operation
      /\ UNCHANGED <<graph, registry, operation>>
  BY <1>1 DEF Hook, At, IInv, Exclusive
<1>3. ModulesType(modules) /\ graph \in Seq(Nat)
  BY GraphFacts
<1>4. SameDefinitions(modules, modules')
  <2>1. PICK ok \in BOOLEAN : modules' = [modules EXCEPT ![i] = After(@, hook, ok)]
    BY <1>1
  <2>2. Hooked(modules, modules', i, hook, ok)
    BY <1>3, <2>1, HookedFacts
  <2> QED BY <2>2 DEF Hooked, SameDefinitions
<1>5. Reg' = Reg
  BY <1>2 DEF Reg, registry
<1>6. x.script[1].do \notin Finals \cup {"map"}
  BY <1>2 DEF Hooks, Finals
<1>7. CASE Proceeds(t) \/ Soils(t)
  BY <1>2, <1>4, <1>5, <1>6, <1>7, ProceedCarries
<1>8. CASE hook \in {"init", "relocated"} /\ Undo(t, x.made)
  <2>1. Goal(x.script) = "commit" /\ x.made \in Seq(Nat)
    BY <1>2, <1>8, BusyGoal DEF Loads1, Work
  <2>2. Upto(x.made, Len(x.made)) \subseteq Own(x)
    BY DEF Own
  <2> QED BY <1>2, <1>4, <1>5, <1>8, <2>1, <2>2, UndoCarries
<1>9. CASE hook \in {"starts", "allStarts"} /\ UndoStart(t, Started(i, hook))
  <2>1. Goal(x.script) = "started"
    BY <1>2, <1>9, BusyGoal
  <2>2. CASE hook = "starts"
    <3>1. x \in Work /\ Working(x, graph, modules, Reg, application.started)
      BY <1>2, OneBusy
    <3>2. Starting(x, graph, modules, Reg)
      BY <1>2, <1>3, <2>2, <3>1, Kinds
    <3>3. /\ Through(x.script, graph) + 1 \in 1..Len(graph)
          /\ i = graph[Through(x.script, graph) + 1]
      BY <1>2, <1>3, <2>2, <3>1, <3>2, StartingHead
    <3>4. Injective(graph)
      BY <3>2 DEF Starting, Held, Registry
    <3>5. Started(i, hook) \in Seq(Nat)
      BY <1>3, <2>2, <3>3, <3>4, StartedFacts
    <3> QED BY <1>2, <1>4, <1>5, <1>9, <2>1, <3>5, UnstartCarries
  <2>3. CASE hook = "allStarts"
    <3>1. Started(i, hook) \in Seq(Nat)
      BY <1>3, <2>3 DEF Started
    <3> QED BY <1>2, <1>4, <1>5, <1>9, <2>1, <3>1, UnstartCarries
  <2> QED BY <1>9, <2>2, <2>3
<1>10. HookFails(t, i, hook) => \/ Proceeds(t) \/ Soils(t)
                                \/ hook \in {"init", "relocated"} /\ Undo(t, x.made)
                                \/ hook \in {"starts", "allStarts"} /\ UndoStart(t, Started(i, hook))
  BY DEF HookFails
<1> QED BY <1>1, <1>7, <1>8, <1>9, <1>10

-----------------------------------------------------------------------------
\* What stays true of a reload when its surroundings change.

Keeps(e, f) ==
  \A j \in e.spare : j \in f.spare /\ f.modules[j].definition = e.modules[j].definition

LEMMA KeepsLoadable ==
  ASSUME NEW e, NEW f, Keeps(e, f), NEW D, Loadable(D, e)
  PROVE  Loadable(D, f)
<1> SUFFICES ASSUME NEW d \in D, NEW name \in d.depends, name \notin Names(D)
             PROVE  \E j \in f.spare : f.modules[j].definition.name = name
  BY DEF Loadable
<1>1. PICK j \in e.spare : e.modules[j].definition.name = name
  BY DEF Loadable
<1> QED BY <1>1 DEF Keeps

LEMMA KeepsRenewing ==
  ASSUME NEW e, NEW f, Keeps(e, f), NEW u, NEW t, t # u, e.busy = {t},
         NEW x, x.script = <<>>, Renews(u, x, e)
  PROVE  Renews(u, x, f)
<1>1. x.stage # "" => Loadable(x.old, f)
  BY KeepsLoadable DEF Renews
<1>2. x.stage # "" /\ x.troubles < 2 => x.stage = "unload"
  BY DEF Renews, Reloading
<1>3. x.stage = "unload" => Reloading(u, x, f)
  BY DEF Reloading, Ready
<1> QED BY <1>1, <1>2, <1>3 DEF Renews

LEMMA AskedSame ==
  ASSUME NEW x, NEW y, Own(y) = Own(x), NEW ms, NEW ms2, SameDefinitions(ms, ms2),
         Own(x) \subseteq DOMAIN ms
  PROVE  Asked(y, ms2) = Asked(x, ms)
BY DEF Asked, DefinitionsOf, SameDefinitions

LEMMA UpSame ==
  ASSUME NEW e, NEW f, f.graph = e.graph, SameDefinitions(e.modules, f.modules),
         Upto(e.graph, Len(e.graph)) \subseteq DOMAIN e.modules
  PROVE  /\ Present(f) = Present(e)
         /\ e.mapped \subseteq f.mapped => \A D : Up(D, e) => Up(D, f)
<1>1. Present(f) = Present(e)
  BY DEF Present, DefinitionsOf, SameDefinitions
<1> QED BY <1>1 DEF Up

LEMMA CarriedUnderway ==
  ASSUME NEW x \in Work, NEW y \in Work, NEW e, NEW f, NEW r, NEW r2,
         Carried(x, y, e.graph, e.modules, f.modules, r, r2),
         e.mapped = r.mapped, f.mapped = r2.mapped, f.graph = e.graph,
         Goal(x.script) = "commit" => Own(x) \subseteq DOMAIN e.modules,
         Upto(e.graph, Len(e.graph)) \subseteq DOMAIN e.modules,
         Underway(x, e), Goal(y.script) = Goal(x.script), y.troubles = x.troubles
  PROVE  Underway(y, f)
<1> DEFINE a == Goal(x.script)
           b == Goal(y.script)
<1>1. y.stage = x.stage /\ Target(y) = Target(x) /\ SameDefinitions(e.modules, f.modules)
  BY DEF Carried, Target
<1>2. a \in {"commit", "started"} => e.mapped \subseteq f.mapped
  BY DEF Carried
<1>3. CASE a = "commit"
  <2>1. Own(y) = Own(x) /\ Upto(y.made, Len(y.made)) \subseteq Upto(x.made, Len(x.made)) \cup f.mapped
    BY <1>3 DEF Carried, Turned
  <2>2. Asked(y, f.modules) = Asked(x, e.modules)
    BY <1>1, <1>3, <2>1, AskedSame
  <2>3. /\ x.stage \in {"load", "restore"} /\ Asked(x, e.modules) = Target(x)
        /\ Upto(x.made, Len(x.made)) \subseteq e.mapped
    BY <1>3 DEF Underway
  <2> QED BY <1>1, <1>2, <1>3, <2>1, <2>2, <2>3 DEF Underway
<1>4. CASE a = "started"
  <2>1. Up(Target(x), e) /\ x.stage \in {"start", "restart"}
    BY <1>4 DEF Underway
  <2>2. Up(Target(x), f)
    BY <1>1, <1>2, <1>4, <2>1, UpSame
  <2> QED BY <1>1, <1>4, <2>1, <2>2 DEF Underway
<1>5. CASE a \notin {"commit", "started"}
  BY <1>1, <1>5 DEF Underway
<1> QED BY <1>3, <1>4, <1>5

LEMMA CarriedRenews ==
  ASSUME NEW x \in Work, NEW y \in Work, NEW e, NEW f, NEW r, NEW r2, NEW t,
         Carried(x, y, e.graph, e.modules, f.modules, r, r2),
         e.mapped = r.mapped, f.mapped = r2.mapped, f.graph = e.graph, f.busy = e.busy,
         Goal(x.script) = "commit" => Own(x) \subseteq DOMAIN e.modules,
         Upto(e.graph, Len(e.graph)) \subseteq DOMAIN e.modules,
         Keeps(e, f), x.script # <<>>, Renews(t, x, e)
  PROVE  Renews(t, y, f)
<1> DEFINE a == Goal(x.script)
           b == Goal(y.script)
<1>1. /\ y.script # <<>> /\ y.stage = x.stage /\ y.old = x.old
      /\ SameDefinitions(e.modules, f.modules)
  BY DEF Carried
<1>2. b = "commit" => Loadable(Asked(y, f.modules), f)
  <2> SUFFICES ASSUME b = "commit" PROVE Loadable(Asked(y, f.modules), f)
    OBVIOUS
  <2>1. a = "commit" /\ Own(y) = Own(x)
    BY DEF Carried, Turned
  <2>2. Asked(y, f.modules) = Asked(x, e.modules)
    BY <1>1, <2>1, AskedSame
  <2>3. Loadable(Asked(x, e.modules), e)
    BY <2>1 DEF Renews
  <2> QED BY <2>2, <2>3, KeepsLoadable
<1>3. y.stage # "" => Loadable(y.old, f)
  BY <1>1, KeepsLoadable DEF Renews
<1>4. ASSUME y.stage # "", y.troubles < 2 PROVE Reloading(t, y, f)
  <2>1. CASE b = a /\ y.clean = x.clean /\ y.troubles = x.troubles
    <3>1. Reloading(t, x, e)
      BY <1>1, <1>4, <2>1 DEF Renews
    <3>2. x.clean /\ Underway(x, e)
      BY <3>1 DEF Reloading
    <3>3. Underway(y, f)
      BY <2>1, <3>2, CarriedUnderway
    <3> QED BY <1>1, <2>1, <3>1, <3>2, <3>3 DEF Reloading
  <2>2. CASE Turned(a, b) /\ y.clean = x.clean /\ y.troubles = Trouble(x, 1)
    <3>1. x.troubles = 0 /\ y.troubles = 1
      <4>1. Trouble(x, 1) < 2
        BY <1>4, <2>2
      <4>2. /\ Trouble(x, 1) \in {1, 2}
            /\ Trouble(x, 1) < 2 => x.troubles = 0
        BY <1>1, <1>4, TroubleFacts
      <4>3. Trouble(x, 1) = 1
        BY <4>1, <4>2
      <4> QED BY <2>2, <4>1, <4>2, <4>3
    <3>2. Reloading(t, x, e)
      <4>1. 0 < 2
        OBVIOUS
      <4> QED BY <1>1, <1>4, <3>1, <4>1 DEF Renews
    <3>3. /\ x.stage \notin {"cleanup", "restore", "restart"}
          /\ x.clean /\ Underway(x, e)
      BY <3>1, <3>2 DEF Reloading
    <3>4. \/ a = "commit" /\ b = "abandon" /\ x.stage = "load"
          \/ a = "started" /\ b = "unstarted" /\ x.stage = "start"
      BY <2>2, <3>3 DEF Turned, Underway
    <3>5. Underway(y, f)
      BY <1>1, <3>1, <3>4 DEF Underway
    <3> QED BY <1>1, <2>2, <3>2, <3>3, <3>5 DEF Reloading
  <2>3. y.troubles # 2
    <3>1. ~(2 < 2)
      OBVIOUS
    <3> QED BY <1>4, <3>1, Zenon
  <2> QED BY <1>1, <1>4, <2>1, <2>2, <2>3 DEF Carried
<1> QED BY <1>1, <1>2, <1>3, <1>4 DEF Renews

-----------------------------------------------------------------------------
\* A state that reloads agree with, and the next one.

\* What is cleaned up by nobody else.
LEMMA NothingOwned == ASSUME NEW x, x.script = <<>>, x.made = <<>> PROVE Own(x) = {}
BY DEF Own, Upto, Pending

Surroundings ==
  /\ Graph = Upto(graph, Len(graph)) /\ Graph \subseteq DOMAIN modules
  /\ Loaded = Present(Env)
  /\ providers \subseteq DOMAIN modules /\ mapped \subseteq DOMAIN modules
  /\ \A u \in Threads \ operation : thread[u].script = <<>> /\ Own(thread[u]) = {}
  /\ thread \in [Threads -> Work] /\ operation \subseteq Threads
  /\ \A t \in operation :
       /\ operation = {t} /\ thread[t].script # <<>>
       /\ Env.spare = providers \ (Upto(graph, Len(graph)) \cup Own(thread[t]))
  /\ operation = {} => Env.spare = providers \ Upto(graph, Len(graph))

LEMMA SpareFacts == IInv => Surroundings
<1> SUFFICES ASSUME IInv PROVE Surroundings
  OBVIOUS
<1>1. Graph = Upto(graph, Len(graph)) /\ Graph \subseteq DOMAIN modules
  BY GraphUpto
<1>2. Env.modules = modules /\ Env.graph = graph
      /\ Env.spare = providers \ (Graph \cup UNION {Own(thread[u]) : u \in Threads})
  BY DEF Env
<1>3. Loaded = Present(Env)
  BY <1>1, <1>2 DEF Loaded, Present, DefinitionsOf
<1>4. providers \subseteq DOMAIN modules /\ mapped \subseteq DOMAIN modules
  BY DEF IInv, Published, Reg
<1>5. thread \in [Threads -> Work] /\ operation \subseteq Threads
  BY DEF IInv, TypeOK
<1>6. \A u \in Threads \ operation : thread[u].script = <<>> /\ Own(thread[u]) = {}
  <2> SUFFICES ASSUME NEW u \in Threads \ operation
               PROVE  thread[u].script = <<>> /\ Own(thread[u]) = {}
    OBVIOUS
  <2>1. thread[u].script = <<>> /\ thread[u].made = <<>>
    BY DEF IInv, Exclusive
  <2> QED BY <2>1, NothingOwned
<1>7. ASSUME NEW t \in operation
      PROVE  /\ operation = {t} /\ thread[t].script # <<>>
             /\ Env.spare = providers \ (Upto(graph, Len(graph)) \cup Own(thread[t]))
  <2>1. operation = {t} /\ thread[t].script # <<>>
    BY OneBusy
  <2>2. UNION {Own(thread[u]) : u \in Threads} = Own(thread[t])
    BY <1>5, <1>6, <2>1
  <2> QED BY <1>1, <1>2, <2>1, <2>2
<1>8. operation = {} => Env.spare = providers \ Upto(graph, Len(graph))
  <2> SUFFICES ASSUME operation = {} PROVE UNION {Own(thread[u]) : u \in Threads} = {}
    BY <1>1, <1>2
  <2> QED BY <1>6
<1> QED BY <1>1, <1>3, <1>4, <1>5, <1>6, <1>7, <1>8 DEF Surroundings

LEMMA SpareNext == IInv' => Surroundings'
<1> QED BY SpareFacts, PTL

\* A load that goes on has a record of each of its modules.
LEMMA OwnKnown ==
  ASSUME NEW x \in Work, x.script # <<>>, NEW g, NEW ms, NEW r, Loading(x, g, ms, r)
  PROVE  Own(x) \subseteq DOMAIN ms
<1>1. /\ x.made \in Seq(DOMAIN ms) /\ x.script \in Seq(Steps) /\ Len(x.script) \in Nat
      /\ x.script[Len(x.script)] = Step("commit", 0)
      /\ \A k \in 1..(Len(x.script) - 1) : x.script[k].module \in DOMAIN ms
  BY DEF Loading, Work
<1>2. ASSUME NEW k \in DOMAIN x.script, x.script[k].do = "map"
      PROVE  x.script[k].module \in DOMAIN ms
  <2>1. k # Len(x.script)
    BY <1>1, <1>2 DEF Step
  <2>2. k \in 1..(Len(x.script) - 1)
    BY <1>1, <1>2, <2>1
  <2> QED BY <1>1, <2>2
<1>3. Upto(x.made, Len(x.made)) \subseteq DOMAIN ms
  BY <1>1 DEF Upto
<1> QED BY <1>2, <1>3 DEF Own, Pending

LEMMA CarryRenews == ASSUME RInv, IInv', NEW t \in Threads, Carries(t) PROVE RInv'
<1> DEFINE x == thread[t]
<1>1. IInv /\ t \in operation /\ graph' = graph /\ operation' = operation
  BY DEF RInv, Carries
<1>2. PICK y \in Work : /\ thread' = [thread EXCEPT ![t] = y]
                        /\ Carried(x, y, graph, modules, modules', Reg, Reg')
  BY DEF Carries
<1>3. /\ Env.spare = providers \ (Upto(graph, Len(graph)) \cup Own(x))
      /\ Upto(graph, Len(graph)) \subseteq DOMAIN modules /\ providers \subseteq DOMAIN modules
      /\ operation = {t} /\ x.script # <<>> /\ thread \in [Threads -> Work]
      /\ \A u \in Threads \ {t} : thread[u].script = <<>>
  BY <1>1, SpareFacts DEF Surroundings
<1>4. thread'[t] = y /\ \A u \in Threads \ {t} : thread'[u] = thread[u]
  BY <1>2, <1>3
<1>5. Env'.spare = providers' \ (Upto(graph, Len(graph)) \cup Own(y))
  BY <1>1, <1>4, SpareNext DEF Surroundings
<1> DEFINE e == Env
           f == Env'
<1>6. /\ e.busy = {t} /\ f.busy = {t} /\ e.graph = graph /\ f.graph = graph
      /\ e.modules = modules /\ f.modules = modules' /\ e.mapped = mapped /\ f.mapped = mapped'
  BY <1>1, <1>3 DEF Env
<1>7. Reg.mapped = mapped /\ Reg'.mapped = mapped' /\ Reg.providers = providers /\ Reg'.providers = providers'
  BY DEF Reg
<1>8. Keeps(e, f)
  <2> SUFFICES ASSUME NEW j \in e.spare
               PROVE  j \in f.spare /\ f.modules[j].definition = e.modules[j].definition
    BY DEF Keeps
  <2>1. j \in providers /\ j \notin Upto(graph, Len(graph)) /\ j \notin Own(x) /\ j \in DOMAIN modules
    BY <1>3
  <2>2. /\ \A i \in providers \ providers' : i \in Own(x) \cup Upto(graph, Len(graph))
        /\ Own(y) \subseteq Own(x)
    BY <1>2, <1>7 DEF Carried
  <2>3. modules'[j].definition = modules[j].definition
    BY <1>2, <2>1 DEF Carried, SameDefinitions
  <2> QED BY <1>5, <1>6, <2>1, <2>2, <2>3
<1>9. Present(f) = Present(e)
  <2>1. SameDefinitions(e.modules, f.modules)
    BY <1>2, <1>6 DEF Carried
  <2> QED BY <1>3, <1>6, <2>1, UpSame
<1>10. /\ Loadable(Present(e), e) /\ \A u \in Threads : Renews(u, thread[u], e)
  BY DEF RInv
<1>11. Goal(x.script) = "commit" => Own(x) \subseteq DOMAIN modules
  <2>1. x \in Work /\ Working(x, graph, modules, Reg, application.started)
    BY <1>1, OneBusy
  <2>2. graph \in Seq(Nat)
    BY <1>1, GraphFacts
  <2>3. Goal(x.script) = "commit" => Loading(x, graph, modules, Reg)
    BY <1>3, <2>1, <2>2, GoalFacts
  <2> QED BY <1>3, <2>1, <2>3, OwnKnown
<1>12. Carried(x, y, e.graph, e.modules, f.modules, Reg, Reg')
  BY <1>2, <1>6
<1> HIDE DEF e, f
<1>13. Loadable(Present(f), f)
  BY <1>8, <1>9, <1>10, KeepsLoadable
<1>14. Renews(t, y, f)
  <2>1. x \in Work /\ Renews(t, x, e)
    BY <1>3, <1>10
  <2>2. e.mapped = Reg.mapped /\ f.mapped = Reg'.mapped /\ f.graph = e.graph /\ f.busy = e.busy
    BY <1>6, <1>7
  <2>3. /\ Goal(x.script) = "commit" => Own(x) \subseteq DOMAIN e.modules
        /\ Upto(e.graph, Len(e.graph)) \subseteq DOMAIN e.modules
    BY <1>3, <1>6, <1>11
  <2> HIDE DEF x
  <2> QED BY <1>3, <1>8, <1>12, <2>1, <2>2, <2>3, CarriedRenews
<1>15. ASSUME NEW u \in Threads \ {t} PROVE Renews(u, thread[u], f)
  <2>1. Renews(u, thread[u], e) /\ thread[u].script = <<>>
    BY <1>3, <1>10
  <2> QED BY <1>6, <1>8, <2>1, KeepsRenewing
<1>16. \A u \in Threads : Renews(u, thread'[u], f)
  BY <1>4, <1>14, <1>15
<1> QED BY <1>13, <1>16 DEF RInv, f

-----------------------------------------------------------------------------
\* An operation that does nothing but return.

\* Where a reload goes from an operation that returns.
Passes(x, y, ok) ==
  /\ y.stage # "" => /\ y.new = x.new /\ y.old = x.old /\ y.restart = x.restart
                     /\ y.troubles = x.troubles /\ x.stage # ""
  /\ x.stage = "unload" => y.stage = IF ok THEN "load" ELSE ""
  /\ x.stage \in {"load", "start"} /\ ~ok => y.stage = "cleanup"
  /\ x.stage = "load" /\ ok => y.stage = IF x.restart THEN "start" ELSE ""
  /\ x.stage = "restore" => y.stage = IF ok /\ x.restart THEN "restart" ELSE ""
  /\ x.stage = "cleanup" => y.stage = "restore"
  /\ x.stage = "start" /\ ok => y.stage = ""
  /\ x.stage = "restart" => y.stage = ""

LEMMA ReturnedStages ==
  ASSUME NEW x \in Work, NEW ok \in BOOLEAN
  PROVE  Passes(x, Returned(x, ok), ok)
<1> DEFINE c == Continue(x, ok)
           y == Returned(x, ok)
<1>1. /\ c \in Work /\ c.new = x.new /\ c.old = x.old /\ c.restart = x.restart
      /\ c.troubles = x.troubles
      /\ x.stage = "" => c.stage = ""
      /\ x.stage = "unload" => c.stage = IF ok THEN "load" ELSE ""
      /\ x.stage \in {"load", "start"} /\ ~ok => c.stage = "cleanup"
      /\ x.stage = "load" /\ ok => c.stage = IF x.restart THEN "start" ELSE ""
      /\ x.stage = "restore" => c.stage = IF ok /\ x.restart THEN "restart" ELSE ""
      /\ x.stage = "cleanup" => c.stage = "restore"
      /\ x.stage = "start" /\ ok => c.stage = ""
      /\ x.stage = "restart" => c.stage = ""
  <2>1. x.stage \in Stages
    BY DEF Work
  <2>2. \A z \in Stages : LET w == [x EXCEPT !.stage = z]
                          IN /\ w.stage = z /\ w.new = x.new /\ w.old = x.old
                             /\ w.restart = x.restart /\ w.troubles = x.troubles
    BY DEF Work
  <2>3. \E z \in Stages :
          /\ c = [x EXCEPT !.stage = z]
          /\ x.stage = "" => z = ""
          /\ x.stage = "unload" => z = IF ok THEN "load" ELSE ""
          /\ x.stage \in {"load", "start"} /\ ~ok => z = "cleanup"
          /\ x.stage = "load" /\ ok => z = IF x.restart THEN "start" ELSE ""
          /\ x.stage = "restore" => z = IF ok /\ x.restart THEN "restart" ELSE ""
          /\ x.stage = "cleanup" => z = "restore"
          /\ x.stage = "start" /\ ok => z = ""
          /\ x.stage = "restart" => z = ""
    BY <2>1 DEF Continue, Stages
  <2>4. c \in Work
    BY ContinueType
  <2> HIDE DEF c
  <2> QED BY <2>2, <2>3, <2>4
<1>2. y = IF c.stage = "" THEN Idle ELSE [c EXCEPT !.script = <<>>, !.made = <<>>]
  BY DEF Returned
<1> HIDE DEF c
<1>3. y.stage = c.stage
  <2>1. CASE c.stage = ""
    BY <1>2, <2>1, IdleType
  <2>2. CASE c.stage # ""
    BY <1>1, <1>2, <2>2 DEF Work
  <2> QED BY <2>1, <2>2
<1>4. c.stage # "" => /\ y.new = c.new /\ y.old = c.old /\ y.restart = c.restart
                      /\ y.troubles = c.troubles
  BY <1>1, <1>2 DEF Work
<1> HIDE DEF y
<1>5. Passes(x, y, ok)
  BY <1>1, <1>3, <1>4 DEF Passes
<1> QED BY <1>5 DEF y

LEMMA IdleRenews ==
  ASSUME RInv, IInv', NEW t \in Threads, t \notin operation,
         NEW y \in Work, y.script = <<>>, y.made = <<>>, thread' = [thread EXCEPT ![t] = y],
         UNCHANGED <<operation, modules, graph, registry, application>>,
         Renews(t, y, Env)
  PROVE  RInv'
<1>1. /\ \A u \in Threads \ operation : Own(thread[u]) = {}
      /\ thread \in [Threads -> Work]
  BY SpareFacts DEF RInv, Surroundings
<1>2. thread'[t] = y /\ \A u \in Threads \ {t} : thread'[u] = thread[u]
  BY <1>1
<1>3. \A u \in Threads : Own(thread'[u]) = Own(thread[u])
  <2>1. Own(y) = {}
    BY NothingOwned
  <2> QED BY <1>1, <1>2, <2>1
<1>4. Env' = Env
  <2>1. /\ providers' = providers /\ mapped' = mapped /\ graph' = graph /\ modules' = modules
        /\ operation' = operation
    BY DEF registry
  <2>2. UNION {Own(thread'[u]) : u \in Threads} = UNION {Own(thread[u]) : u \in Threads}
    BY <1>3
  <2> QED BY <2>1, <2>2 DEF Env, Graph
<1>5. \A u \in Threads : Renews(u, thread'[u], Env)
  BY <1>2 DEF RInv
<1>6. Loadable(Present(Env), Env)
  BY DEF RInv
<1> QED BY <1>4, <1>5, <1>6 DEF RInv

LEMMA RefusedRenews ==
  ASSUME NEW e, NEW t, NEW x \in Work, NEW ok \in BOOLEAN, x.script = <<>>, Renews(t, x, e),
         t \notin e.busy,
         ok => x.stage \notin {"load", "restore"},
         ok /\ x.stage \in {"unload", "cleanup"} => e.busy = {} /\ e.graph = <<>>,
         ~ok /\ x.stage = "cleanup" => e.busy # {}
  PROVE  Renews(t, Returned([x EXCEPT !.troubles = Trouble(x, IF ok THEN 0 ELSE 1)], ok), e)
<1> DEFINE n == Trouble(x, IF ok THEN 0 ELSE 1)
           z == [x EXCEPT !.troubles = n]
           y == Returned(z, ok)
<1>1. n \in 0..2
  BY TroubleType
<1>2. z \in Work /\ z.troubles = n /\ z.stage = x.stage /\ z.new = x.new /\ z.old = x.old
      /\ z.restart = x.restart
  BY <1>1 DEF Work
<1>3. y.script = <<>>
  BY <1>2, ReturnedType
<1> HIDE DEF z
<1>4. Passes(z, y, ok)
  BY <1>2, ReturnedStages
<1> HIDE DEF y
<1>5. /\ y.stage # "" => y.old = x.old /\ y.troubles = n /\ x.stage # ""
      /\ x.stage = "unload" => y.stage = IF ok THEN "load" ELSE ""
      /\ x.stage \in {"load", "start"} /\ ~ok => y.stage = "cleanup"
      /\ x.stage = "restore" /\ ~ok => y.stage = ""
      /\ x.stage = "cleanup" => y.stage = "restore"
      /\ x.stage = "start" /\ ok => y.stage = ""
      /\ x.stage = "restart" => y.stage = ""
  BY <1>2, <1>4 DEF Passes
<1>6. y.stage # "" => Loadable(y.old, e)
  BY <1>5 DEF Renews
<1>7. ASSUME y.stage # "", y.troubles < 2 PROVE Reloading(t, y, e)
  <2>1. x.stage # "" /\ y.troubles = n
    BY <1>5, <1>7
  <2>2. /\ ok => n = x.troubles
        /\ ~ok => n = 1 /\ x.troubles = 0
    <3>1. /\ Trouble(x, 1) \in {1, 2} /\ Trouble(x, 0) = x.troubles
          /\ Trouble(x, 1) < 2 => x.troubles = 0
      BY <2>1, TroubleFacts
    <3>2. ~(2 < 2)
      OBVIOUS
    <3>3. n < 2
      BY <1>7, <2>1
    <3> HIDE DEF y
    <3>4. CASE ok
      BY <3>1, <3>4
    <3>5. CASE ~ok
      <4>1. n = Trouble(x, 1)
        BY <3>5
      <4> HIDE DEF n
      <4>2. n # 2
        BY <3>2, <3>3, Zenon
      <4> QED BY <3>1, <3>3, <3>5, <4>1, <4>2
    <3> QED BY <3>4, <3>5
  <2>3. x.troubles < 2
    <3>1. 0 < 2
      OBVIOUS
    <3> QED BY <1>7, <2>1, <2>2, <3>1
  <2> HIDE DEF n
  <2>4. Reloading(t, x, e)
    BY <2>1, <2>3 DEF Renews
  <2>5. /\ x.stage # "unload" => e.busy = {}
        /\ x.stage \in {"cleanup", "restore", "restart"} => x.troubles = 1
        /\ Ready(x, e)
    BY <2>4 DEF Reloading
  <2>6. x.stage \in Stages
    BY DEF Work
  <2>7. CASE x.stage = "unload"
    BY <1>3, <1>5, <1>7, <2>7 DEF Reloading, Ready
  <2>8. CASE x.stage \in {"load", "start"}
    <3>1. ~ok /\ y.stage = "cleanup" /\ y.troubles = 1
      BY <1>5, <1>7, <2>1, <2>2, <2>8
    <3> QED BY <1>3, <2>5, <2>8, <3>1 DEF Reloading, Ready
  <2>9. CASE x.stage = "cleanup"
    <3>1. ok /\ y.stage = "restore" /\ y.troubles = 1 /\ e.busy = {} /\ e.graph = <<>>
      BY <1>5, <2>1, <2>2, <2>5, <2>9
    <3> QED BY <1>3, <3>1 DEF Reloading, Ready
  <2>10. CASE x.stage = "restore"
    BY <1>5, <1>7, <2>10
  <2>11. CASE x.stage = "restart"
    BY <1>5, <1>7, <2>11
  <2> QED BY <2>1, <2>6, <2>7, <2>8, <2>9, <2>10, <2>11 DEF Stages
<1>8. Renews(t, y, e)
  BY <1>3, <1>6, <1>7 DEF Renews
<1> QED BY <1>8 DEF y, z

LEMMA RefuseRenews ==
  ASSUME RInv, IInv', NEW t \in Threads, t \notin operation, NEW ok \in BOOLEAN, Refuses(t, ok),
         UNCHANGED <<modules, graph, registry, application>>,
         ok => thread[t].stage \notin {"load", "restore"},
         ok /\ thread[t].stage \in {"unload", "cleanup"} => operation = {} /\ graph = <<>>,
         ~ok /\ thread[t].stage = "cleanup" => operation # {}
  PROVE  RInv'
<1> DEFINE x == thread[t]
           z == [x EXCEPT !.troubles = Trouble(x, IF ok THEN 0 ELSE 1)]
           y == Returned(z, ok)
<1>1. x \in Work /\ x.script = <<>>
  BY SpareFacts DEF RInv, Surroundings
<1>2. Trouble(x, IF ok THEN 0 ELSE 1) \in 0..2
  BY <1>1, TroubleType
<1>3. z \in Work
  BY <1>1, <1>2 DEF Work
<1>4. thread' = [thread EXCEPT ![t] = y] /\ operation' = operation
  BY DEF Refuses
<1>5. Renews(t, y, Env)
  <2>1. Env.busy = operation /\ Env.graph = graph
    BY DEF Env
  <2>2. Renews(t, x, Env)
    BY DEF RInv
  <2>3. ok /\ x.stage \in {"unload", "cleanup"} => Env.busy = {} /\ Env.graph = <<>>
    BY <2>1
  <2> HIDE DEF x
  <2> QED BY <1>1, <2>1, <2>2, <2>3, RefusedRenews DEF x
<1>6. y \in Work /\ y.script = <<>> /\ y.made = <<>>
  BY <1>3, ReturnedType
<1> HIDE DEF y
<1> QED BY <1>4, <1>5, <1>6, IdleRenews

LEMMA ReloadRenews == ASSUME RInv, IInv', NEW t \in Threads, Reload(t) PROVE RInv'
<1> DEFINE y(new) == [Idle EXCEPT !.stage = "unload", !.new = new, !.old = Loaded,
                                  !.restart = application.started]
<1>1. PICK new : thread' = [thread EXCEPT ![t] = y(new)]
  BY DEF Reload
<1>2. /\ thread[t] = Idle
      /\ UNCHANGED <<modules, graph, registry, application, operation>>
  BY DEF Reload, Free
<1>3. y(new).script = <<>> /\ y(new).made = <<>> /\ y(new).stage = "unload" /\ y(new).old = Loaded
  BY DEF Idle
<1>4. y(new) \in Work
  <2>1. thread' \in [Threads -> Work]
    BY SpareNext DEF Surroundings
  <2>2. thread'[t] = y(new)
    <3>1. thread \in [Threads -> Work]
      BY SpareFacts DEF RInv, Surroundings
    <3> QED BY <1>1, <3>1
  <2> QED BY <2>1, <2>2
<1>5. t \notin operation
  BY <1>2, IdleType DEF RInv, IInv, Exclusive
<1> HIDE DEF y
<1>6. Renews(t, y(new), Env)
  <2>1. Loadable(Loaded, Env)
    BY SpareFacts DEF RInv, Surroundings
  <2> QED BY <1>3, <2>1 DEF Renews, Reloading, Ready
<1> QED BY <1>1, <1>2, <1>3, <1>4, <1>5, <1>6, IdleRenews

-----------------------------------------------------------------------------
\* An operation begins.

\* What a reload begins is what its stage calls for.
Enters(x, script, ms) ==
  /\ x.stage \in {"unload", "cleanup"} => Goal(script) = "emptied"
  /\ x.stage \in {"load", "restore"} =>
       Goal(script) = "commit" /\ DefinitionsOf(Pending(script), ms) = Target(x)
  /\ x.stage \in {"start", "restart"} => Goal(script) = "started"

LEMMA NoneMade == Upto(<<>>, Len(<<>>)) = {}
BY DEF Upto

LEMMA PresentSame ==
  ASSUME NEW e, NEW f, f.graph = e.graph,
         \A i \in Upto(e.graph, Len(e.graph)) : f.modules[i] = e.modules[i]
  PROVE  Present(f) = Present(e)
BY DEF Present, DefinitionsOf

LEMMA NotTwo == ~(2 < 2)
OBVIOUS

LEMMA BegunRenews ==
  ASSUME NEW e, NEW f, Keeps(e, f), NEW t, e.busy = {}, f.busy = {t}, f.graph = e.graph,
         f.mapped = e.mapped, Present(f) = Present(e),
         NEW x \in Work, x.script = <<>>, Renews(t, x, e),
         NEW y \in Work, y.script # <<>>, y.made = <<>>, y.clean = TRUE, y.stage = x.stage,
         y.new = x.new, y.old = x.old, y.restart = x.restart, y.troubles = x.troubles,
         Goal(y.script) = "commit"
           => Loadable(DefinitionsOf(Pending(y.script), f.modules), e),
         x.stage # "" => Enters(x, y.script, f.modules)
  PROVE  Renews(t, y, f)
<1>1. Upto(y.made, Len(y.made)) = {} /\ Own(y) = Pending(y.script)
  <2>1. Upto(y.made, Len(y.made)) = {}
    BY NoneMade
  <2> QED BY <2>1 DEF Own
<1>2. Asked(y, f.modules) = DefinitionsOf(Pending(y.script), f.modules)
  BY <1>1 DEF Asked
<1>3. Goal(y.script) = "commit" => Loadable(Asked(y, f.modules), f)
  BY <1>2, KeepsLoadable
<1>4. y.stage # "" => Loadable(y.old, f)
  BY KeepsLoadable DEF Renews
<1>5. Target(y) = Target(x)
  BY DEF Target
<1>6. ASSUME y.stage # "", y.troubles < 2 PROVE Reloading(t, y, f)
  <2>1. /\ x.stage \in {"cleanup", "restore", "restart"} => x.troubles = 1
        /\ x.stage \in {"start", "restart"} => Up(Target(x), e)
    BY <1>6 DEF Renews, Reloading, Ready
  <2>2. x.stage \in {"start", "restart"} => Up(Target(y), f)
    BY <1>5, <2>1 DEF Up
  <2>3. x.stage \in Stages
    BY DEF Work
  <2>4. Underway(y, f)
    BY <1>1, <1>2, <1>5, <1>6, <2>2, <2>3 DEF Underway, Enters, Stages
  <2> QED BY <2>1, <2>4 DEF Reloading
<1> QED BY <1>3, <1>4, <1>6 DEF Renews

LEMMA BeginRenews ==
  ASSUME RInv, IInv', operation = {}, NEW t \in Threads, NEW script \in Seq(Steps),
         script # <<>>, Begins(t, thread[t], script), graph' = graph, UNCHANGED registry,
         \A i \in DOMAIN modules : i \in DOMAIN modules' /\ modules'[i] = modules[i],
         Pending(script) \cap DOMAIN modules = {},
         Goal(script) = "commit"
           => Loadable(DefinitionsOf(Pending(script), modules'), Env),
         thread[t].stage # "" => Enters(thread[t], script, modules')
  PROVE  RInv'
<1> DEFINE x == thread[t]
           y == [x EXCEPT !.script = script, !.clean = TRUE]
           z(u) == [thread[u] EXCEPT !.troubles = IF thread[u].stage = "" THEN 0 ELSE 2]
           e == Env
           f == Env'
<1>1. /\ thread \in [Threads -> Work]
      /\ \A u \in Threads : thread[u].script = <<>> /\ thread[u].made = <<>>
      /\ Upto(graph, Len(graph)) \subseteq DOMAIN modules /\ providers \subseteq DOMAIN modules
      /\ Env.spare = providers \ Upto(graph, Len(graph))
  BY SpareFacts DEF RInv, Surroundings, IInv, Exclusive
<1>2. operation' = {t} /\ thread' = [u \in Threads |-> IF u = t THEN y ELSE z(u)]
  BY DEF Begins
<1>3. /\ y \in Work /\ y.script = script /\ y.made = <<>> /\ y.clean = TRUE /\ y.stage = x.stage
      /\ y.new = x.new /\ y.old = x.old /\ y.restart = x.restart /\ y.troubles = x.troubles
  <2>1. x \in Work
    BY <1>1
  <2>2. /\ y.script = script /\ y.clean = TRUE /\ y.made = x.made /\ y.stage = x.stage
        /\ y.new = x.new /\ y.old = x.old /\ y.restart = x.restart /\ y.troubles = x.troubles
    BY <2>1 DEF Work
  <2>3. y \in Work
    BY <2>1 DEF Work
  <2>4. x.made = <<>>
    BY <1>1
  <2> HIDE DEF x, y
  <2> QED BY <2>2, <2>3, <2>4
<1>4. \A u \in Threads : z(u).script = <<>> /\ z(u).stage = thread[u].stage /\ z(u).old = thread[u].old
                         /\ (thread[u].stage # "" => z(u).troubles = 2)
  <2> SUFFICES ASSUME NEW u \in Threads
               PROVE  /\ z(u).script = <<>> /\ z(u).stage = thread[u].stage
                      /\ z(u).old = thread[u].old /\ (thread[u].stage # "" => z(u).troubles = 2)
    OBVIOUS
  <2>1. thread[u] \in Work /\ thread[u].script = <<>>
    BY <1>1
  <2>2. \A n : LET v == [thread[u] EXCEPT !.troubles = n]
              IN v.script = <<>> /\ v.stage = thread[u].stage /\ v.old = thread[u].old /\ v.troubles = n
    BY <2>1 DEF Work
  <2> QED BY <2>2
<1> HIDE DEF y, z
<1>5. thread'[t] = y /\ \A u \in Threads \ {t} : thread'[u] = z(u)
  BY <1>2
<1>6. Own(y) = Pending(script)
  <2>1. Upto(y.made, Len(y.made)) = {}
    BY <1>3, NoneMade
  <2> QED BY <1>3, <2>1 DEF Own
<1>7. f.spare = providers \ (Upto(graph, Len(graph)) \cup Pending(script))
  <2>1. t \in operation' /\ graph' = graph /\ providers' = providers
    BY <1>2 DEF registry
  <2> QED BY <1>5, <1>6, <2>1, SpareNext DEF Surroundings
<1>8. /\ e.busy = {} /\ f.busy = {t} /\ e.graph = graph /\ f.graph = graph /\ e.modules = modules
      /\ f.modules = modules' /\ e.mapped = mapped /\ f.mapped = mapped
  BY <1>2 DEF Env, registry
<1>9. Keeps(e, f)
  BY <1>1, <1>7, <1>8 DEF Keeps
<1>10. Present(f) = Present(e)
  <2>1. f.graph = e.graph /\ \A i \in Upto(e.graph, Len(e.graph)) : f.modules[i] = e.modules[i]
    BY <1>1, <1>8
  <2> HIDE DEF e, f
  <2> QED BY <2>1, PresentSame
<1>11. Loadable(Present(e), e) /\ \A u \in Threads : Renews(u, thread[u], e)
  BY DEF RInv
<1>12. /\ Goal(script) = "commit"
            => Loadable(DefinitionsOf(Pending(script), f.modules), e)
       /\ x.stage # "" => Enters(x, script, f.modules)
  BY <1>8
<1> HIDE DEF e, f
<1>13. Loadable(Present(f), f)
  BY <1>9, <1>10, <1>11, KeepsLoadable
<1>14. Renews(t, y, f)
  <2>1. x \in Work /\ x.script = <<>> /\ Renews(t, x, e)
    BY <1>1, <1>11
  <2>2. f.graph = e.graph /\ f.mapped = e.mapped
    BY <1>8
  <2> HIDE DEF x
  <2> QED BY <1>3, <1>8, <1>9, <1>10, <1>12, <2>1, <2>2, BegunRenews
<1>15. ASSUME NEW u \in Threads \ {t} PROVE Renews(u, z(u), f)
  <2>1. z(u).stage # "" => Loadable(z(u).old, f)
    BY <1>4, <1>9, <1>11, KeepsLoadable DEF Renews
  <2>2. z(u).stage # "" => z(u).troubles = 2
    BY <1>4
  <2> QED BY <1>4, <2>1, <2>2, NotTwo DEF Renews
<1>16. \A u \in Threads : Renews(u, thread'[u], f)
  BY <1>5, <1>14, <1>15
<1> QED BY <1>13, <1>16 DEF RInv, f

\* The order of a graph holds each of its definitions.
LEMMA OrderOnto ==
  ASSUME NEW D \in SUBSET Definitions, NEW d \in Orders(D)
  PROVE  {d[k] : k \in DOMAIN d} = D
<1> DEFINE n == Cardinality(D)
           R == {d[k] : k \in DOMAIN d}
<1>1. IsFiniteSet(D)
  BY ConstantsAssumption, FS_Subset
<1>2. n \in Nat
  BY <1>1, FS_CardinalityType
<1>3. d \in [1..n -> D] /\ IsOrder(d, D)
  BY DEF Orders
<1> HIDE DEF n
<1>4. ASSUME NEW j \in 1..n, NEW k \in 1..n, d[j] = d[k], j < k PROVE FALSE
  <2>1. d[k] \notin {d[i] : i \in 1..(k - 1)}
    BY <1>3 DEF IsOrder
  <2>2. j \in 1..(k - 1)
    BY <1>2, <1>4
  <2> QED BY <1>4, <2>1, <2>2
<1>5. \A j, k \in 1..n : d[j] = d[k] => j = k
  <2> SUFFICES ASSUME NEW j \in 1..n, NEW k \in 1..n, d[j] = d[k], j # k PROVE FALSE
    OBVIOUS
  <2>1. j < k \/ k < j
    BY <1>2
  <2> QED BY <1>4, <2>1
<1>6. d \in Surjection(1..n, R) /\ d \in Injection(1..n, R)
  <2>1. d \in [1..n -> R] /\ \A r \in R : \E k \in 1..n : d[k] = r
    BY <1>3
  <2> HIDE DEF R
  <2>2. IsInjective(d)
    BY <1>3, <1>5 DEF IsInjective
  <2> QED BY <2>1, <2>2 DEF Surjection, Injection
<1>7. IsFiniteSet(1..n) /\ Cardinality(1..n) = n
  BY <1>2, FS_Interval
<1> HIDE DEF R
<1>8. Cardinality(R) = n
  BY <1>6, <1>7, FS_Surjection
<1>9. R \subseteq D
  BY <1>3 DEF R
<1>10. R = D
  BY <1>1, <1>8, <1>9, FS_Subset DEF n
<1> QED BY <1>10 DEF R

\* The scripts that operations begin with.
LEMMA ConcatGoal ==
  ASSUME NEW a \in Seq(Steps), NEW b \in Seq(Steps), b # <<>>
  PROVE  /\ a \o b \in Seq(Steps) /\ a \o b # <<>> /\ Goal(a \o b) = Goal(b)
         /\ Pending(a) = {} /\ Pending(b) = {} => Pending(a \o b) = {}
<1> DEFINE s == a \o b
           m == Len(a)
           n == Len(b)
<1>1. /\ m \in Nat /\ n \in Nat /\ n # 0 /\ DOMAIN a = 1..m /\ DOMAIN b = 1..n
  OBVIOUS
<1>2. /\ s \in Seq(Steps) /\ Len(s) = m + n
      /\ \A k \in 1..m : s[k] = a[k]
      /\ \A k \in 1..n : s[m + k] = b[k]
  BY ConcatFacts
<1> HIDE DEF s, m, n
<1>3. DOMAIN s = 1..(m + n) /\ s # <<>> /\ s[m + n] = b[n] /\ n \in 1..n
  BY <1>1, <1>2
<1>4. Goal(s) = Goal(b)
  BY <1>2, <1>3 DEF Goal, n
<1>5. ASSUME Pending(a) = {}, Pending(b) = {}, NEW k \in DOMAIN s PROVE s[k].do # "map"
  <2>1. CASE k \in 1..m
    BY <1>1, <1>2, <1>5, <2>1 DEF Pending
  <2>2. CASE k \notin 1..m
    <3>1. k - m \in 1..n /\ m + (k - m) = k
      BY <1>1, <1>3, <2>2
    <3>2. s[k] = b[k - m]
      BY <1>2, <3>1
    <3> QED BY <1>1, <1>5, <3>1, <3>2 DEF Pending
  <2> QED BY <2>1, <2>2
<1>6. Pending(a) = {} /\ Pending(b) = {} => Pending(s) = {}
  BY <1>5, NonePending
<1> QED BY <1>2, <1>3, <1>4, <1>6 DEF s

LEMMA ConcatAssociates ==
  ASSUME NEW S, NEW a \in Seq(S), NEW b \in Seq(S), NEW c \in Seq(S)
  PROVE  a \o b \o c = a \o (b \o c)
OBVIOUS

LEMMA CallsGoal ==
  ASSUME NEW do \in Acts \ {"map"}, NEW L \in Seq(Nat)
  PROVE  Calls(do, L) \in Seq(Steps) /\ Pending(Calls(do, L)) = {}
<1> DEFINE s == Calls(do, L)
<1>1. s \in Seq(Steps) /\ Len(s) = Len(L) /\ \A k \in 1..Len(L) : s[k] = Step(do, L[k])
  BY CallsFacts
<1> HIDE DEF s
<1>2. \A k \in DOMAIN s : s[k].do = do
  <2>1. DOMAIN s = 1..Len(L)
    BY <1>1
  <2> QED BY <1>1, <2>1 DEF Step
<1> QED BY <1>1, <1>2, NonePending DEF s

LEMMA FinalGoal ==
  ASSUME NEW do \in Acts \ {"map"}
  PROVE  /\ Final(do) \in Seq(Steps) /\ Final(do) # <<>> /\ Goal(Final(do)) = do
         /\ Pending(Final(do)) = {}
<1> DEFINE s == Final(do)
<1>1. s \in Seq(Steps) /\ Len(s) = 1 /\ s[1] = Step(do, 0)
  BY FinalFacts
<1> HIDE DEF s
<1>2. s # <<>> /\ Goal(s) = do /\ \A k \in DOMAIN s : s[k].do # "map"
  BY <1>1 DEF Goal, Step
<1> QED BY <1>1, <1>2, NonePending DEF s

LEMMA RoundsGoal ==
  ASSUME NEW a \in Acts \ {"map"}, NEW b \in Acts \ {"map"}, NEW f \in Acts \ {"map"},
         NEW L \in Seq(Nat)
  PROVE  LET s == Calls(a, L) \o Calls(b, L) \o Final(f)
         IN s \in Seq(Steps) /\ s # <<>> /\ Goal(s) = f /\ Pending(s) = {}
<1> DEFINE u == Calls(a, L)
           v == Calls(b, L)
           w == Final(f)
<1>1. u \in Seq(Steps) /\ Pending(u) = {} /\ v \in Seq(Steps) /\ Pending(v) = {}
  BY CallsGoal
<1>2. w \in Seq(Steps) /\ w # <<>> /\ Goal(w) = f /\ Pending(w) = {}
  BY FinalGoal
<1> HIDE DEF u, v, w
<1>3. v \o w \in Seq(Steps) /\ v \o w # <<>> /\ Goal(v \o w) = f /\ Pending(v \o w) = {}
  BY <1>1, <1>2, ConcatGoal
<1>4. /\ u \o (v \o w) \in Seq(Steps) /\ u \o (v \o w) # <<>> /\ Goal(u \o (v \o w)) = f
      /\ Pending(u \o (v \o w)) = {}
  BY <1>1, <1>3, ConcatGoal
<1>5. u \o v \o w = u \o (v \o w)
  BY <1>1, <1>2
<1> QED BY <1>4, <1>5 DEF u, v, w

LEMMA UnloadGoal ==
  ASSUME graph \in Seq(Nat)
  PROVE  /\ UnloadScript \in Seq(Steps) /\ UnloadScript # <<>>
         /\ Goal(UnloadScript) = "emptied" /\ Pending(UnloadScript) = {}
<1> DEFINE a == Calls("ends", graph) \o Calls("allEnds", graph) \o Final("stopped")
           c == Cleanup(graph)
           w == Final("emptied")
<1>1. /\ "ends" \in Acts \ {"map"} /\ "allEnds" \in Acts \ {"map"} /\ "stopped" \in Acts \ {"map"}
      /\ "fini" \in Acts \ {"map"} /\ "emptied" \in Acts \ {"map"}
  BY DEF Acts, Hooks, Finals
<1>2. a \in Seq(Steps) /\ Pending(a) = {}
  BY <1>1, RoundsGoal
<1>3. c \in Seq(Steps) /\ Pending(c) = {}
  <2>1. Reverse(graph) \in Seq(Nat)
    BY ReverseFacts
  <2> QED BY <1>1, <2>1, CallsGoal DEF Cleanup
<1>4. w \in Seq(Steps) /\ w # <<>> /\ Goal(w) = "emptied" /\ Pending(w) = {}
  BY <1>1, FinalGoal
<1>5. UnloadScript = (IF application.started THEN a ELSE <<>>) \o c \o w
  BY DEF UnloadScript
<1> HIDE DEF a, c, w
<1>6. c \o w \in Seq(Steps) /\ c \o w # <<>> /\ Goal(c \o w) = "emptied" /\ Pending(c \o w) = {}
  BY <1>3, <1>4, ConcatGoal
<1>7. /\ a \o (c \o w) \in Seq(Steps) /\ a \o (c \o w) # <<>> /\ Goal(a \o (c \o w)) = "emptied"
      /\ Pending(a \o (c \o w)) = {}
  BY <1>2, <1>6, ConcatGoal
<1>8. a \o c \o w = a \o (c \o w)
  <2>1. a \in Seq(Steps) /\ c \in Seq(Steps) /\ w \in Seq(Steps)
    BY <1>2, <1>3, <1>4
  <2> QED BY <2>1, ConcatAssociates
<1>9. <<>> \o c \o w = c \o w
  <2>1. c \in Seq(Steps) /\ w \in Seq(Steps)
    BY <1>3, <1>4
  <2> QED BY <2>1
<1>10. CASE application.started
  BY <1>5, <1>7, <1>8, <1>10
<1>11. CASE ~application.started
  BY <1>5, <1>6, <1>9, <1>11
<1> QED BY <1>10, <1>11

LEMMA LoadGoal ==
  ASSUME NEW d \in Seq(Definitions), NEW L \in Seq(Nat), Len(d) = Len(L)
  PROVE  LET s == LoadScript(d, L)
         IN s \in Seq(Steps) /\ s # <<>> /\ Goal(s) = "commit" /\ Pending(s) = Upto(L, Len(L))
<1> DEFINE s == LoadScript(d, L)
           n == Len(L)
<1>1. /\ s \in Seq(Steps) /\ Len(s) = 4 * n + 1 /\ n \in Nat
      /\ s[4 * n + 1] = Step("commit", 0)
      /\ \A k \in 1..n : s[k] = Step("map", L[k])
      /\ \A k \in (n + 1)..(4 * n) : s[k].do \in {"init", "skip", "relocated"}
  <2>1. n \in Nat
    OBVIOUS
  <2>2. LET z == LoadScript(d, L)
        IN /\ z \in Seq(Steps) /\ Len(z) = 4 * n + 1
           /\ z[4 * n + 1] = Step("commit", 0)
           /\ \A k \in 1..n : z[k] = Step("map", L[k])
           /\ \A k \in (n + 1)..(4 * n) :
                z[k].do \in {"init", "skip", "relocated"} /\ z[k].module \in Upto(L, n)
    BY LoadScriptFacts
  <2> HIDE DEF n
  <2> QED BY <2>1, <2>2
<1> HIDE DEF s, n
<1>2. /\ DOMAIN s = 1..(4 * n + 1) /\ s # <<>>
  BY <1>1
<1>3. Goal(s) = "commit"
  BY <1>1 DEF Goal, Step
<1>4. \A k \in DOMAIN s : s[k].do = "map" => k \in 1..n /\ s[k].module = L[k]
  <2> SUFFICES ASSUME NEW k \in DOMAIN s, s[k].do = "map" PROVE k \in 1..n /\ s[k].module = L[k]
    OBVIOUS
  <2>1. k # 4 * n + 1
    BY <1>1 DEF Step
  <2>2. k \notin (n + 1)..(4 * n)
    BY <1>1
  <2>3. k \in 1..n
    BY <1>1, <1>2, <2>1, <2>2
  <2>4. s[k] = Step("map", L[k])
    BY <1>1, <2>3
  <2> QED BY <2>3, <2>4 DEF Step
<1>5. \A k \in 1..n : k \in DOMAIN s /\ s[k].do = "map" /\ s[k].module = L[k]
  <2> SUFFICES ASSUME NEW k \in 1..n
               PROVE  k \in DOMAIN s /\ s[k].do = "map" /\ s[k].module = L[k]
    OBVIOUS
  <2>1. k \in DOMAIN s
    BY <1>1, <1>2
  <2>2. s[k] = Step("map", L[k])
    BY <1>1
  <2> QED BY <2>1, <2>2 DEF Step
<1>6. Pending(s) = Upto(L, n)
  <2>1. Pending(s) \subseteq Upto(L, n)
    BY <1>4 DEF Pending, Upto
  <2>2. Upto(L, n) \subseteq Pending(s)
    BY <1>5 DEF Pending, Upto
  <2> QED BY <2>1, <2>2
<1> QED BY <1>1, <1>2, <1>3, <1>6 DEF s, n

LEMMA ImageOf ==
  ASSUME NEW T, NEW s, NEW d, NEW ms, \A k \in T : ms[s[k]].definition = d[k]
  PROVE  {ms[i].definition : i \in {s[k] : k \in T}} = {d[k] : k \in T}
OBVIOUS

\* Which definition the instance i was made for.
Place(d, s, i) == CHOOSE k \in DOMAIN d : s[k] = i

\* The instances of a load.
LEMMA LoadsMade ==
  ASSUME IInv, NEW D \in SUBSET Definitions, NEW d \in Orders(D), NEW s \in Fresh(Len(d)), NEW ms2,
         DOMAIN ms2 = DOMAIN modules \cup ToSet(s),
         \A i \in DOMAIN modules : ms2[i] = modules[i],
         \A i \in DOMAIN ms2 \ DOMAIN modules :
           ms2[i].definition = d[Place(d, s, i)]
  PROVE  /\ d \in Seq(Definitions) /\ s \in Seq(Nat) /\ Len(s) = Len(d)
         /\ \A i \in DOMAIN modules : i \in DOMAIN ms2 /\ ms2[i] = modules[i]
         /\ Upto(s, Len(s)) \cap DOMAIN modules = {}
         /\ DefinitionsOf(Upto(s, Len(s)), ms2) = D
<1>1. d \in Seq(Definitions) /\ Len(d) \in Nat
  BY OrderFacts
<1>2. /\ s \in Seq(Nat) /\ Len(s) = Len(d) /\ Injective(s)
      /\ \A k \in 1..Len(d) : s[k] \notin DOMAIN modules
  <2>1. IsFiniteSet(DOMAIN modules)
    BY DEF IInv, TypeOK
  <2> QED BY <1>1, <2>1, FreshFacts
<1>3. ToSet(s) = Upto(s, Len(s)) /\ DOMAIN d = 1..Len(s) /\ DOMAIN s = 1..Len(s)
  <2>1. Len(d) \in Nat /\ DOMAIN d = 1..Len(d) /\ DOMAIN s = 1..Len(s)
    <3>1. s \in Seq(Nat)
      BY <1>2
    <3> QED BY <1>1, <3>1
  <2>2. ToSet(s) = Upto(s, Len(s))
    BY <2>1 DEF ToSet, Upto
  <2> QED BY <1>2, <2>1, <2>2
<1>4. Upto(s, Len(s)) \cap DOMAIN modules = {}
  BY <1>2 DEF Upto
<1>5. ASSUME NEW k \in 1..Len(s) PROVE ms2[s[k]].definition = d[k]
  <2>1. s[k] \in DOMAIN ms2 \ DOMAIN modules
    BY <1>3, <1>4 DEF Upto
  <2>2. Place(d, s, s[k]) = k
    BY <1>2, <1>3 DEF Injective, Place
  <2> QED BY <2>1, <2>2
<1>6. DefinitionsOf(Upto(s, Len(s)), ms2) = {d[k] : k \in 1..Len(s)}
  <2>1. Upto(s, Len(s)) = {s[k] : k \in 1..Len(s)}
    BY DEF Upto
  <2>2. {ms2[i].definition : i \in {s[k] : k \in 1..Len(s)}} = {d[k] : k \in 1..Len(s)}
    BY <1>5, ImageOf
  <2> QED BY <2>1, <2>2 DEF DefinitionsOf
<1>7. {d[k] : k \in 1..Len(s)} = D
  BY <1>3, OrderOnto
<1> QED BY <1>1, <1>2, <1>4, <1>6, <1>7

LEMMA LoadsNext ==
  ASSUME IInv, NEW D \in SUBSET Definitions, NEW d \in Orders(D), NEW s \in Fresh(Len(d)),
         modules' = [i \in DOMAIN modules \cup ToSet(s) |->
           IF i \in DOMAIN modules THEN modules[i]
           ELSE [definition |-> d[CHOOSE k \in DOMAIN d : s[k] = i], state |-> "up",
                 initialized |-> FALSE, running |-> FALSE]]
  PROVE  /\ d \in Seq(Definitions) /\ s \in Seq(Nat) /\ Len(s) = Len(d)
         /\ \A i \in DOMAIN modules : i \in DOMAIN modules' /\ modules'[i] = modules[i]
         /\ Upto(s, Len(s)) \cap DOMAIN modules = {}
         /\ DefinitionsOf(Upto(s, Len(s)), modules') = D
<1>1. DOMAIN modules' = DOMAIN modules \cup ToSet(s)
  OBVIOUS
<1>2. \A i \in DOMAIN modules : modules'[i] = modules[i]
  OBVIOUS
<1>3. \A i \in DOMAIN modules' \ DOMAIN modules :
        modules'[i].definition = d[Place(d, s, i)]
  BY <1>1 DEF Place
<1> DEFINE Made(ms2) ==
             /\ DOMAIN ms2 = DOMAIN modules \cup ToSet(s)
             /\ \A i \in DOMAIN modules : ms2[i] = modules[i]
             /\ \A i \in DOMAIN ms2 \ DOMAIN modules : ms2[i].definition = d[Place(d, s, i)]
           Known(ms2) ==
             /\ \A i \in DOMAIN modules : i \in DOMAIN ms2 /\ ms2[i] = modules[i]
             /\ Upto(s, Len(s)) \cap DOMAIN modules = {}
             /\ DefinitionsOf(Upto(s, Len(s)), ms2) = D
<1>4. ASSUME NEW ms2, Made(ms2)
      PROVE  d \in Seq(Definitions) /\ s \in Seq(Nat) /\ Len(s) = Len(d) /\ Known(ms2)
  BY <1>4, LoadsMade
<1>5. Made(modules')
  BY <1>1, <1>2, <1>3
<1> HIDE DEF Made
<1>6. d \in Seq(Definitions) /\ s \in Seq(Nat) /\ Len(s) = Len(d) /\ Known(modules')
  BY <1>4, <1>5
<1> QED BY <1>6

LEMMA LoadsRenews ==
  ASSUME RInv, IInv', NEW t \in Threads, t \notin operation, NEW D \in SUBSET Definitions,
         Loads(t, D),
         \/ thread[t].stage = ""
         \/ thread[t].stage \in {"load", "restore"} /\ D = Target(thread[t])
  PROVE  RInv'
<1> DEFINE refused == operation # {} \/ graph # <<>> \/ ~Satisfied(D) \/ Orders(D) = {}
<1>1. CASE refused
  <2>1. Refuses(t, FALSE) /\ UNCHANGED <<modules, graph, registry, application>>
    BY <1>1 DEF Loads, registry
  <2> QED BY <2>1, RefuseRenews
<1>2. CASE ~refused
  <2> DEFINE made(d, s, i) ==
               [definition |-> d[CHOOSE k \in DOMAIN d : s[k] = i], state |-> "up",
                initialized |-> FALSE, running |-> FALSE]
  <2>1. PICK d \in Orders(D) : \E s \in Fresh(Len(d)) :
          /\ Begins(t, thread[t], LoadScript(d, s))
          /\ modules' = [i \in DOMAIN modules \cup ToSet(s) |->
                           IF i \in DOMAIN modules THEN modules[i] ELSE made(d, s, i)]
    BY <1>2 DEF Loads
  <2>2. PICK s \in Fresh(Len(d)) :
          /\ Begins(t, thread[t], LoadScript(d, s))
          /\ modules' = [i \in DOMAIN modules \cup ToSet(s) |->
                           IF i \in DOMAIN modules THEN modules[i] ELSE made(d, s, i)]
    BY <2>1
  <2>3. operation = {} /\ graph = <<>> /\ UNCHANGED <<graph, registry, application>>
    BY <1>2 DEF Loads
  <2>4. /\ d \in Seq(Definitions) /\ s \in Seq(Nat) /\ Len(s) = Len(d)
        /\ \A i \in DOMAIN modules : i \in DOMAIN modules' /\ modules'[i] = modules[i]
        /\ Upto(s, Len(s)) \cap DOMAIN modules = {}
        /\ DefinitionsOf(Upto(s, Len(s)), modules') = D
    <3>1. IInv
      BY DEF RInv
    <3> QED BY <2>2, <3>1, LoadsNext
  <2>5. /\ LoadScript(d, s) \in Seq(Steps) /\ LoadScript(d, s) # <<>>
        /\ Goal(LoadScript(d, s)) = "commit" /\ Pending(LoadScript(d, s)) = Upto(s, Len(s))
    BY <2>4, LoadGoal
  <2>6. Loadable(D, Env)
    <3>1. Env.spare = providers \ Upto(<<>>, Len(<<>>)) /\ Env.modules = modules
      BY <2>3, SpareFacts DEF RInv, Surroundings, Env
    <3>2. Env.spare = providers
      BY <3>1, NoneMade
    <3>3. Orders(D) # {} /\ Satisfied(D)
      BY <1>2
    <3> QED BY <3>1, <3>2, <3>3 DEF Loadable, Satisfied, Registered, Name
  <2>7. thread[t].stage # "" => Enters(thread[t], LoadScript(d, s), modules')
    BY <2>4, <2>5 DEF Enters
  <2> HIDE DEF refused, made
  <2> QED BY <2>2, <2>3, <2>4, <2>5, <2>6, <2>7, BeginRenews
<1> QED BY <1>1, <1>2

\* An operation that changes nothing but its thread's record, and loads nothing.
LEMMA GraphRenews ==
  ASSUME RInv, IInv', operation = {}, NEW t \in Threads, NEW script \in Seq(Steps),
         script # <<>>, Begins(t, thread[t], script), UNCHANGED <<modules, graph, registry>>,
         Pending(script) = {}, Goal(script) # "commit",
         thread[t].stage # "" => Enters(thread[t], script, modules)
  PROVE  RInv'
BY BeginRenews

LEMMA UnloadsRenews ==
  ASSUME RInv, IInv', NEW t \in Threads, t \notin operation, Unloads(t),
         thread[t].stage \in {"", "unload", "cleanup"}
  PROVE  RInv'
<1>1. UNCHANGED <<modules, graph, registry, application>>
  BY DEF Unloads, registry
<1>2. CASE operation # {} /\ Refuses(t, FALSE)
  BY <1>1, <1>2, RefuseRenews
<1>3. CASE operation = {} /\ graph = <<>> /\ Refuses(t, TRUE)
  BY <1>1, <1>3, RefuseRenews
<1>4. CASE operation = {} /\ Begins(t, thread[t], UnloadScript)
  <2>1. graph \in Seq(Nat)
    BY GraphFacts DEF RInv
  <2>2. /\ UnloadScript \in Seq(Steps) /\ UnloadScript # <<>>
        /\ Goal(UnloadScript) = "emptied" /\ Pending(UnloadScript) = {}
    BY <2>1, UnloadGoal
  <2>3. Enters(thread[t], UnloadScript, modules)
    BY <2>2 DEF Enters
  <2> QED BY <1>1, <1>4, <2>2, <2>3, GraphRenews
<1> QED BY <1>2, <1>3, <1>4 DEF Unloads

LEMMA StartsRenews ==
  ASSUME RInv, IInv', NEW t \in Threads, t \notin operation, Starts(t),
         thread[t].stage \in {"", "start", "restart"}
  PROVE  RInv'
<1>1. UNCHANGED <<modules, graph, registry, application>>
  BY DEF Starts, registry
<1>2. CASE Refuses(t, FALSE) \/ Refuses(t, TRUE)
  BY <1>1, <1>2, RefuseRenews
<1>3. CASE operation = {} /\ Begins(t, thread[t], StartScript)
  <2>1. graph \in Seq(Nat)
    BY GraphFacts DEF RInv
  <2>2. "starts" \in Acts \ {"map"} /\ "allStarts" \in Acts \ {"map"} /\ "started" \in Acts \ {"map"}
    BY DEF Acts, Hooks, Finals
  <2>3. /\ StartScript \in Seq(Steps) /\ StartScript # <<>>
        /\ Goal(StartScript) = "started" /\ Pending(StartScript) = {}
    <3> DEFINE s == Calls("starts", graph) \o Calls("allStarts", graph) \o Final("started")
    <3>1. s \in Seq(Steps) /\ s # <<>> /\ Goal(s) = "started" /\ Pending(s) = {}
      BY <2>1, <2>2, RoundsGoal
    <3>2. StartScript = s
      BY DEF StartScript
    <3> HIDE DEF s
    <3> QED BY <3>1, <3>2
  <2>4. Enters(thread[t], StartScript, modules)
    BY <2>3 DEF Enters
  <2> QED BY <1>1, <1>3, <2>3, <2>4, GraphRenews
<1> QED BY <1>2, <1>3 DEF Starts

LEMMA ExitRenews ==
  ASSUME RInv, IInv', NEW t \in Threads, OnApplicationRequestsExit(t) PROVE RInv'
<1>1. /\ UNCHANGED <<modules, graph, registry>> /\ operation = {} /\ thread[t].stage = ""
      /\ Begins(t, thread[t], ExitScript)
  BY IdleType DEF OnApplicationRequestsExit, registry, Free
<1>2. graph \in Seq(Nat)
  BY GraphFacts DEF RInv
<1>3. "exit" \in Acts \ {"map"} /\ "allExit" \in Acts \ {"map"} /\ "exiting" \in Acts \ {"map"}
  BY DEF Acts, Hooks, Finals
<1>4. /\ ExitScript \in Seq(Steps) /\ ExitScript # <<>>
      /\ Goal(ExitScript) = "exiting" /\ Pending(ExitScript) = {}
  <2> DEFINE s == Calls("exit", graph) \o Calls("allExit", graph) \o Final("exiting")
  <2>1. s \in Seq(Steps) /\ s # <<>> /\ Goal(s) = "exiting" /\ Pending(s) = {}
    BY <1>2, <1>3, RoundsGoal
  <2>2. ExitScript = s
    BY DEF ExitScript
  <2> HIDE DEF s
  <2> QED BY <2>1, <2>2
<1> QED BY <1>1, <1>4, GraphRenews

LEMMA EndRenews ==
  ASSUME RInv, IInv', NEW t \in Threads, OnApplicationEnds(t) PROVE RInv'
<1>1. /\ UNCHANGED <<modules, graph, registry>> /\ operation = {} /\ thread[t].stage = ""
      /\ Begins(t, thread[t], EndScript)
  BY IdleType DEF OnApplicationEnds, registry, Free
<1>2. graph \in Seq(Nat)
  BY GraphFacts DEF RInv
<1>3. "ends" \in Acts \ {"map"} /\ "allEnds" \in Acts \ {"map"} /\ "ended" \in Acts \ {"map"}
  BY DEF Acts, Hooks, Finals
<1>4. /\ EndScript \in Seq(Steps) /\ EndScript # <<>>
      /\ Goal(EndScript) = "ended" /\ Pending(EndScript) = {}
  <2> DEFINE s == Calls("ends", graph) \o Calls("allEnds", graph) \o Final("ended")
  <2>1. s \in Seq(Steps) /\ s # <<>> /\ Goal(s) = "ended" /\ Pending(s) = {}
    BY <1>2, <1>3, RoundsGoal
  <2>2. EndScript = s
    BY DEF EndScript
  <2> HIDE DEF s
  <2> QED BY <2>1, <2>2
<1> QED BY <1>1, <1>4, GraphRenews

-----------------------------------------------------------------------------
\* An operation returns.

\* What an operation of a reload with at most one trouble has done when it returns.
Brings(x, ok, f) ==
  /\ x.stage \in {"unload", "cleanup"} => ok /\ f.graph = <<>>
  /\ x.stage \in {"load", "restore"} /\ ok => Up(Target(x), f)
  /\ ~ok => x.stage \in {"load", "start"} /\ x.troubles = 1

LEMMA ReturnedRenews ==
  ASSUME NEW e, NEW f, Keeps(e, f), NEW t, e.busy = {t}, f.busy = {},
         NEW x \in Work, NEW ok \in BOOLEAN, x.script # <<>>, Renews(t, x, e),
         x.stage # "" /\ x.troubles < 2 => Brings(x, ok, f)
  PROVE  Renews(t, Returned(x, ok), f)
<1> DEFINE y == Returned(x, ok)
<1>1. y.script = <<>>
  BY ReturnedType
<1> HIDE DEF y
<1>2. Passes(x, y, ok)
  BY ReturnedStages DEF y
<1>3. y.stage # "" => Loadable(y.old, f)
  BY <1>2, KeepsLoadable DEF Passes, Renews
<1>4. ASSUME y.stage # "", y.troubles < 2 PROVE Reloading(t, y, f)
  <2>1. x.stage # "" /\ y.troubles = x.troubles /\ y.new = x.new /\ y.old = x.old
    BY <1>2, <1>4 DEF Passes
  <2>2. Brings(x, ok, f) /\ Reloading(t, x, e)
    BY <1>4, <2>1 DEF Renews
  <2>3. x.stage \in {"cleanup", "restore", "restart"} => x.troubles = 1
    BY <2>2 DEF Reloading
  <2>4. x.stage \in Stages
    BY DEF Work
  <2>5. CASE x.stage \in {"unload", "cleanup"}
    <3>1. f.graph = <<>> /\ y.stage = IF x.stage = "unload" THEN "load" ELSE "restore"
      BY <1>2, <2>2, <2>5 DEF Passes, Brings
    <3> QED BY <1>1, <2>1, <2>3, <2>5, <3>1 DEF Reloading, Ready
  <2>6. CASE x.stage \in {"load", "start"} /\ ~ok
    <3>1. x.troubles = 1 /\ y.stage = "cleanup"
      BY <1>2, <2>2, <2>6 DEF Passes, Brings
    <3> QED BY <1>1, <2>1, <3>1 DEF Reloading, Ready
  <2>7. CASE x.stage = "load" /\ ok
    <3>1. Up(x.new, f) /\ y.stage = "start"
      BY <1>2, <1>4, <2>2, <2>7 DEF Passes, Brings, Target
    <3> QED BY <1>1, <2>1, <3>1 DEF Reloading, Ready, Target
  <2>8. CASE x.stage = "restore"
    <3>1. ok /\ Up(x.old, f) /\ y.stage = "restart"
      BY <1>2, <1>4, <2>2, <2>8 DEF Passes, Brings, Target
    <3> QED BY <1>1, <2>1, <2>3, <2>8, <3>1 DEF Reloading, Ready, Target
  <2>9. CASE x.stage = "restart" \/ (x.stage = "start" /\ ok)
    BY <1>2, <1>4, <2>9 DEF Passes
  <2> QED BY <2>1, <2>4, <2>5, <2>6, <2>7, <2>8, <2>9 DEF Stages
<1>5. Renews(t, y, f)
  BY <1>1, <1>3, <1>4 DEF Renews
<1> QED BY <1>5 DEF y

LEMMA ReturnRenews ==
  ASSUME RInv, IInv', NEW t \in operation, NEW ok \in BOOLEAN, Returns(t, ok),
         UNCHANGED registry,
         Upto(graph', Len(graph')) \subseteq Upto(graph, Len(graph)) \cup Own(thread[t]),
         \A j \in providers : modules'[j].definition = modules[j].definition,
         Loadable(Present(Env'), Env),
         thread[t].stage # "" /\ thread[t].troubles < 2 => Brings(thread[t], ok, Env')
  PROVE  RInv'
<1> DEFINE x == thread[t]
           y == Returned(x, ok)
           e == Env
           f == Env'
<1>1. /\ Env.spare = providers \ (Upto(graph, Len(graph)) \cup Own(x))
      /\ operation = {t} /\ x.script # <<>> /\ thread \in [Threads -> Work] /\ t \in Threads
      /\ \A u \in Threads \ {t} : thread[u].script = <<>>
  BY SpareFacts DEF RInv, Surroundings
<1>2. operation' = {} /\ thread' = [thread EXCEPT ![t] = y]
  BY <1>1 DEF Returns
<1> HIDE DEF y
<1>3. thread'[t] = y /\ \A u \in Threads \ {t} : thread'[u] = thread[u]
  BY <1>1, <1>2
<1>4. Env'.spare = providers' \ Upto(graph', Len(graph'))
  BY <1>2, SpareNext DEF Surroundings
<1>5. e.busy = {t} /\ f.busy = {} /\ e.modules = modules /\ f.modules = modules'
  BY <1>1, <1>2 DEF Env
<1>6. Keeps(e, f)
  <2>1. providers' = providers
    BY DEF registry
  <2> QED BY <1>1, <1>4, <1>5, <2>1 DEF Keeps
<1>7. \A u \in Threads : Renews(u, thread[u], e)
  BY DEF RInv
<1>8. Loadable(Present(f), e)
  OBVIOUS
<1> HIDE DEF e, f
<1>9. Loadable(Present(f), f)
  BY <1>6, <1>8, KeepsLoadable
<1>10. Renews(t, y, f)
  <2>1. x \in Work /\ Renews(t, x, e)
    BY <1>1, <1>7
  <2>2. x.stage # "" /\ x.troubles < 2 => Brings(x, ok, f)
    BY DEF f
  <2> HIDE DEF x
  <2> QED BY <1>1, <1>5, <1>6, <2>1, <2>2, ReturnedRenews DEF y
<1>11. ASSUME NEW u \in Threads \ {t} PROVE Renews(u, thread[u], f)
  <2>1. Renews(u, thread[u], e) /\ thread[u].script = <<>>
    BY <1>1, <1>7
  <2> QED BY <1>5, <1>6, <2>1, KeepsRenewing
<1>12. \A u \in Threads : Renews(u, thread'[u], f)
  BY <1>3, <1>10, <1>11
<1> QED BY <1>9, <1>12 DEF RInv, f

LEMMA NoneOrdered == Orders({}) # {}
<1>1. Cardinality({}) = 0
  BY FS_EmptySet
<1>2. 1..0 = {} /\ DOMAIN <<>> = {}
  OBVIOUS
<1>3. <<>> \in [1..Cardinality({}) -> {}]
  BY <1>1
<1>4. IsOrder(<<>>, {})
  BY <1>2 DEF IsOrder
<1> QED BY <1>3, <1>4 DEF Orders

LEMMA NoneLoadable == \A e : Loadable({}, e)
BY NoneOrdered DEF Loadable

LEMMA NonePresent == ASSUME NEW e, e.graph = <<>> PROVE Present(e) = {}
<1>1. Upto(e.graph, Len(e.graph)) = {}
  BY NoneMade
<1> QED BY <1>1 DEF Present, DefinitionsOf

\* The graph is empty when the operation returns.
LEMMA EmptyRenews ==
  ASSUME RInv, IInv', NEW t \in operation, NEW ok \in BOOLEAN, Returns(t, ok),
         UNCHANGED registry, graph' = <<>>,
         \A j \in providers : modules'[j].definition = modules[j].definition,
         thread[t].stage # "" /\ thread[t].troubles < 2 => Brings(thread[t], ok, Env')
  PROVE  RInv'
<1>1. Env'.graph = <<>>
  BY DEF Env
<1>2. Present(Env') = {}
  BY <1>1, NonePresent
<1>3. Loadable(Present(Env'), Env)
  BY <1>2, NoneLoadable
<1>4. Upto(graph', Len(graph')) = {}
  BY NoneMade
<1> QED BY <1>3, <1>4, ReturnRenews

\* The graph is as it was when the operation returns.
LEMMA SameRenews ==
  ASSUME RInv, IInv', NEW t \in operation, NEW ok \in BOOLEAN, Returns(t, ok),
         UNCHANGED registry, graph' = graph,
         \A j \in DOMAIN modules : modules'[j].definition = modules[j].definition,
         thread[t].stage # "" /\ thread[t].troubles < 2 => Brings(thread[t], ok, Env')
  PROVE  RInv'
<1>1. Upto(graph, Len(graph)) \subseteq DOMAIN modules /\ providers \subseteq DOMAIN modules
  BY SpareFacts DEF RInv, Surroundings
<1>2. DefinitionsOf(Upto(graph, Len(graph)), modules') = DefinitionsOf(Upto(graph, Len(graph)), modules)
  BY <1>1 DEF DefinitionsOf
<1>3. Present(Env') = Present(Env)
  BY <1>2 DEF Present, Env
<1>4. Loadable(Present(Env'), Env)
  BY <1>3 DEF RInv
<1> QED BY <1>1, <1>4, ReturnRenews

LEMMA ForgottenKeeps ==
  ASSUME Surroundings
  PROVE  \A j \in providers : Forgotten[j].definition = modules[j].definition
BY DEF Surroundings, Forgotten

LEMMA AllUpKeeps ==
  ASSUME IInv
  PROVE  \A j \in DOMAIN modules : AllUp[j].definition = modules[j].definition
<1>1. ModulesType(modules)
  BY DEF IInv, TypeOK, ModulesType
<1> QED BY <1>1, AllUpFacts DEF Alike

\* What a reload is about when its operation is over.
LEMMA FinishGoal ==
  ASSUME RInv, NEW t \in Threads, Finish(t)
  PROVE  LET x == thread[t]
         IN /\ t \in operation /\ x \in Work /\ x.script # <<>> /\ x.script \in Seq(Steps)
            /\ Goal(x.script) = x.script[1].do
            /\ Working(x, graph, modules, Reg, application.started)
            /\ UNCHANGED registry /\ Renews(t, x, Env)
            /\ x.stage # "" /\ x.troubles < 2 => x.clean /\ Underway(x, Env)
<1> DEFINE x == thread[t]
<1>1. IInv /\ Renews(t, x, Env)
  BY DEF RInv
<1>2. x.script # <<>> /\ t \in operation /\ UNCHANGED registry /\ x.script[1].do \in Finals
  BY <1>1 DEF Finish, At, IInv, Exclusive, Finals
<1>3. x \in Work /\ Working(x, graph, modules, Reg, application.started) /\ graph \in Seq(Nat)
  BY <1>1, <1>2, OneBusy, GraphFacts
<1>4. Goal(x.script) = x.script[1].do
  BY <1>2, <1>3, GoalFacts
<1>5. x.script \in Seq(Steps)
  BY <1>3 DEF Work
<1>6. x.stage # "" /\ x.troubles < 2 => x.clean /\ Underway(x, Env)
  BY <1>1, <1>2 DEF Renews, Reloading
<1> QED BY <1>1, <1>2, <1>3, <1>4, <1>5, <1>6

LEMMA OnlyOne == ASSUME NEW S, NEW s \in Seq(S), Len(s) = 1 PROVE DOMAIN s = {1}
OBVIOUS

LEMMA CommitFacts ==
  ASSUME RInv, NEW t \in Threads, Finish(t), At(t, "commit")
  PROVE  LET x == thread[t]
         IN /\ t \in operation /\ UNCHANGED registry
            /\ graph' = x.made /\ Returns(t, TRUE) /\ modules' = modules
            /\ Upto(graph', Len(graph')) \subseteq Upto(graph, Len(graph)) \cup Own(x)
            /\ Loadable(Present(Env'), Env)
            /\ x.stage # "" /\ x.troubles < 2 =>
                 x.stage \in {"load", "restore"} /\ Brings(x, TRUE, Env')
<1> DEFINE x == thread[t]
           a == Goal(x.script)
<1>1. /\ t \in operation /\ x \in Work /\ x.script # <<>> /\ x.script \in Seq(Steps) /\ a = "commit"
      /\ Working(x, graph, modules, Reg, application.started)
      /\ UNCHANGED registry /\ Renews(t, x, Env)
      /\ x.stage # "" /\ x.troubles < 2 => Underway(x, Env)
  BY FinishGoal DEF At
<1>2. graph' = x.made /\ Returns(t, TRUE) /\ modules' = modules
  BY DEF Finish, At
<1>3. Len(x.script) = 1 /\ x.script[1].do = "commit"
  <2>1. graph \in Seq(Nat) /\ x.script[1].do = "commit"
    BY GraphFacts DEF RInv, At
  <2>2. Loading(x, graph, modules, Reg)
    BY <1>1, <2>1, Kinds
  <2> QED BY <1>1, <2>1, <2>2, LoadingKind
<1>4. Pending(x.script) = {}
  <2>1. DOMAIN x.script = {1}
    BY <1>1, <1>3, OnlyOne
  <2> QED BY <1>3, <2>1, NonePending
<1>5. Own(x) = Upto(x.made, Len(x.made))
  BY <1>4 DEF Own
<1>6. Env'.graph = x.made /\ Env'.modules = modules /\ Env'.mapped = mapped /\ Env.modules = modules
      /\ Env.mapped = mapped
  BY <1>1, <1>2 DEF Env, registry
<1>7. Present(Env') = Asked(x, Env.modules)
  BY <1>5, <1>6 DEF Present, Asked
<1>8. Loadable(Present(Env'), Env)
  BY <1>1, <1>7 DEF Renews
<1>9. x.stage # "" /\ x.troubles < 2 => x.stage \in {"load", "restore"} /\ Brings(x, TRUE, Env')
  <2> SUFFICES ASSUME x.stage # "", x.troubles < 2
               PROVE  x.stage \in {"load", "restore"} /\ Brings(x, TRUE, Env')
    OBVIOUS
  <2>1. /\ x.stage \in {"load", "restore"} /\ Asked(x, Env.modules) = Target(x)
        /\ Upto(x.made, Len(x.made)) \subseteq Env.mapped
    BY <1>1 DEF Underway
  <2>2. Up(Target(x), Env')
    BY <1>6, <1>7, <2>1 DEF Up
  <2> QED BY <2>1, <2>2 DEF Brings
<1>10. Upto(graph', Len(graph')) \subseteq Upto(graph, Len(graph)) \cup Own(x)
  BY <1>2, <1>5
<1> HIDE DEF a
<1> QED BY <1>1, <1>2, <1>8, <1>9, <1>10

LEMMA CommitRenews ==
  ASSUME RInv, IInv', NEW t \in Threads, Finish(t), At(t, "commit") PROVE RInv'
BY CommitFacts, ReturnRenews

LEMMA FinishRenews == ASSUME RInv, IInv', NEW t \in Threads, Finish(t) PROVE RInv'
<1> DEFINE x == thread[t]
           do == x.script[1].do
<1>1. /\ t \in operation /\ x \in Work /\ x.script # <<>> /\ Goal(x.script) = do
      /\ Working(x, graph, modules, Reg, application.started)
      /\ UNCHANGED registry
      /\ x.stage # "" /\ x.troubles < 2 => x.clean /\ Underway(x, Env)
  BY FinishGoal
<1>2. CASE do = "commit"
  BY <1>1, <1>2, CommitRenews DEF At
<1>3. CASE do = "emptied" /\ x.clean
  <2>1. graph' = <<>> /\ Returns(t, TRUE) /\ modules' = Forgotten
    BY <1>1, <1>3 DEF Finish, At, Work
  <2>2. \A j \in providers : modules'[j].definition = modules[j].definition
    BY <2>1, SpareFacts, ForgottenKeeps DEF RInv
  <2>3. x.stage # "" /\ x.troubles < 2 => Brings(x, TRUE, Env')
    <3>1. Env'.graph = <<>>
      BY <2>1 DEF Env
    <3> QED BY <1>1, <1>3, <3>1 DEF Underway, Brings
  <2> QED BY <1>1, <2>1, <2>2, <2>3, EmptyRenews
<1>4. CASE do = "emptied" /\ ~x.clean
  <2>1. graph' = graph /\ Returns(t, FALSE) /\ modules' = modules
    BY <1>1, <1>4 DEF Finish, At, Work
  <2>2. x.stage # "" /\ x.troubles < 2 => Brings(x, FALSE, Env')
    BY <1>1, <1>4
  <2> QED BY <1>1, <2>1, <2>2, SameRenews
<1>5. CASE do = "abandon"
  <2>1. graph' = graph /\ Returns(t, FALSE) /\ modules' = Forgotten
    BY <1>5 DEF Finish, At
  <2>2. graph = <<>>
    <3>1. RollingBack(x, graph, modules, Reg)
      <4>1. graph \in Seq(Nat)
        BY GraphFacts DEF RInv
      <4> QED BY <1>1, <1>5, <4>1, Kinds
    <3> QED BY <3>1 DEF RollingBack
  <2>3. \A j \in providers : modules'[j].definition = modules[j].definition
    BY <2>1, SpareFacts, ForgottenKeeps DEF RInv
  <2>4. x.stage # "" /\ x.troubles < 2 => Brings(x, FALSE, Env')
    BY <1>1, <1>5 DEF Underway, Brings
  <2> QED BY <1>1, <2>1, <2>2, <2>3, <2>4, EmptyRenews
<1>6. CASE do = "unstarted"
  <2>1. graph' = graph /\ Returns(t, FALSE) /\ modules' = modules
    BY <1>6 DEF Finish, At
  <2>2. x.stage # "" /\ x.troubles < 2 => Brings(x, FALSE, Env')
    BY <1>1, <1>6 DEF Underway, Brings
  <2> QED BY <1>1, <2>1, <2>2, SameRenews
<1>7. CASE do \in {"started", "exiting", "ended"}
  <2>1. graph' = graph /\ Returns(t, TRUE) /\ modules' = AllUp
    BY <1>7 DEF Finish, At
  <2>2. \A j \in DOMAIN modules : modules'[j].definition = modules[j].definition
    BY <2>1, AllUpKeeps DEF RInv
  <2>3. x.stage # "" /\ x.troubles < 2 => Brings(x, TRUE, Env')
    BY <1>1, <1>7 DEF Underway, Brings
  <2> QED BY <1>1, <2>1, <2>2, <2>3, SameRenews
<1> QED BY <1>2, <1>3, <1>4, <1>5, <1>6, <1>7 DEF Finish, At

-----------------------------------------------------------------------------
\* The invariant of reloads is inductive.

LEMMA SurroundedRenews ==
  ASSUME RInv, IInv',
         UNCHANGED <<modules, graph, providers, mapped, application, operation, thread>>
  PROVE  RInv'
<1>1. Env' = Env
  BY DEF Env, Graph
<1> QED BY <1>1 DEF RInv

LEMMA NextRenews == ASSUME RInv, IInv', NEW t \in Threads, ReloadNext(t) PROVE RInv'
<1> DEFINE x == thread[t]
<1>1. x.stage # "" /\ x.script = <<>>
  BY DEF ReloadNext
<1>2. t \notin operation
  BY <1>1, IdleOutside DEF RInv
<1>3. x.new \in SUBSET Definitions /\ x.old \in SUBSET Definitions
  BY DEF RInv, IInv, TypeOK, Work
<1>4. CASE x.stage \in {"unload", "cleanup"} /\ Unloads(t)
  BY <1>2, <1>4, UnloadsRenews
<1>5. CASE x.stage = "load" /\ Loads(t, x.new)
  <2>1. x.new = Target(x)
    BY <1>5 DEF Target
  <2> QED BY <1>2, <1>3, <1>5, <2>1, LoadsRenews
<1>6. CASE x.stage = "restore" /\ Loads(t, x.old)
  <2>1. x.old = Target(x)
    BY <1>6 DEF Target
  <2> QED BY <1>2, <1>3, <1>6, <2>1, LoadsRenews
<1>7. CASE x.stage \in {"start", "restart"} /\ Starts(t)
  BY <1>2, <1>7, StartsRenews
<1> QED BY <1>4, <1>5, <1>6, <1>7 DEF ReloadNext

LEMMA FreeStage == ASSUME NEW t, Free(t) PROVE thread[t].stage = ""
BY IdleType DEF Free

LEMMA Renewing == RInv /\ IInv' /\ [Next]_vars => RInv'
<1> SUFFICES ASSUME RInv, IInv', [Next]_vars PROVE RInv'
  OBVIOUS
<1>1. IInv
  BY DEF RInv
<1>2. ASSUME NEW t \in Threads, Load(t) PROVE RInv'
  <2>1. PICK input \in Inputs : Loads(t, input)
    BY <1>2 DEF Load
  <2>2. input \in SUBSET Definitions /\ t \notin operation /\ thread[t].stage = ""
    BY <1>1, <1>2, ConstantsAssumption, IdleOutside, FreeStage DEF Load
  <2> QED BY <2>1, <2>2, LoadsRenews
<1>3. ASSUME NEW t \in Threads, Unload(t) PROVE RInv'
  BY <1>1, <1>3, IdleOutside, FreeStage, UnloadsRenews DEF Unload
<1>4. ASSUME NEW t \in Threads, OnApplicationStarts(t) PROVE RInv'
  BY <1>1, <1>4, IdleOutside, FreeStage, StartsRenews DEF OnApplicationStarts
<1>5. ASSUME NEW t \in Threads,
             \/ Reload(t) \/ ReloadNext(t)
             \/ OnApplicationRequestsExit(t) \/ OnApplicationEnds(t) \/ Finish(t)
      PROVE  RInv'
  BY <1>5, ReloadRenews, NextRenews, ExitRenews, EndRenews, FinishRenews
<1>6. ASSUME NEW t \in Threads,
             Map(t) \/ Link(t) \/ Hook(t) \/ Unpublish(t) \/ Unmap(t) \/ Stopped(t)
      PROVE  RInv'
  <2>1. Carries(t)
    BY <1>1, <1>6, MapCarries, LinkCarries, HookCarries, UnpublishCarries, UnmapCarries,
       StoppedCarries
  <2> QED BY <2>1, CarryRenews
<1>7. ASSUME NEW p \in Plugins, Resolve(p) \/ ReleasePlugin(p) PROVE RInv'
  BY <1>7, SurroundedRenews DEF Resolve, ReleasePlugin
<1>8. CASE UNCHANGED vars
  BY <1>8, SurroundedRenews DEF vars
<1> QED BY <1>2, <1>3, <1>4, <1>5, <1>6, <1>7, <1>8 DEF Next

LEMMA RenewsInitially == Init => RInv
<1> SUFFICES ASSUME Init PROVE RInv
  OBVIOUS
<1>1. IInv
  BY Initially
<1>2. Env.graph = <<>> /\ \A t \in Threads : thread[t] = Idle
  BY DEF Init, Env
<1>3. Present(Env) = {}
  BY <1>2, NonePresent
<1>4. Loadable(Present(Env), Env)
  BY <1>3, NoneLoadable
<1>5. \A t \in Threads : Renews(t, thread[t], Env)
  <2>1. Idle.script = <<>> /\ Idle.stage = ""
    BY DEF Idle
  <2> QED BY <1>2, <2>1 DEF Renews
<1> QED BY <1>1, <1>4, <1>5 DEF RInv

\* What a reload owes to what it replaces: that what is in the graph, what is being loaded and
\* what is to be restored can be loaded again, whatever plugins and other operations do, and
\* that a reload with at most one trouble is where its stage says.
THEOREM ReloadInvariance == Spec => []RInv
<1>1. RInv /\ [Next]_vars => RInv'
  <2>1. RInv => IInv
    BY DEF RInv
  <2> QED BY <2>1, Inductive, Renewing
<1> QED BY <1>1, RenewsInitially, PTL DEF Spec

-----------------------------------------------------------------------------
\* The end of a reload.

Stays(t) == thread'[t].stage = thread[t].stage

\* What a reload with at most one trouble leaves behind.
Kept(t) ==
  /\ Loaded' \in {thread[t].new, thread[t].old}
  /\ Graph' \subseteq mapped'
  /\ thread[t].restart => application'.started

LEMMA BegunStays ==
  ASSUME IInv, NEW t \in Threads, NEW u \in Threads, NEW script, Begins(u, thread[u], script)
  PROVE  Stays(t)
<1>1. thread[t] \in Work /\ thread[u] \in Work
  BY DEF IInv, TypeOK
<1>2. CASE t = u
  <2>1. thread'[t] = [thread[t] EXCEPT !.script = script, !.clean = TRUE]
    BY <1>2 DEF Begins
  <2> QED BY <1>1, <2>1 DEF Work, Stays
<1>3. CASE t # u
  <2>1. \E n : thread'[t] = [thread[t] EXCEPT !.troubles = n]
    BY <1>3 DEF Begins
  <2> QED BY <1>1, <2>1 DEF Work, Stays
<1> QED BY <1>2, <1>3

LEMMA OtherStays ==
  ASSUME IInv, NEW t \in Threads, NEW u \in Threads, t # u, NEW y, thread' = [thread EXCEPT ![u] = y]
  PROVE  Stays(t)
BY DEF IInv, TypeOK, Stays

LEMMA CarriedStays ==
  ASSUME IInv, NEW t \in Threads, NEW u \in Threads, Carries(u)
  PROVE  Stays(t)
<1>1. PICK y \in Work : thread' = [thread EXCEPT ![u] = y] /\ y.stage = thread[u].stage
  BY DEF Carries, Carried
<1>2. CASE t = u
  BY <1>1, <1>2 DEF IInv, TypeOK, Stays
<1> QED BY <1>1, <1>2, OtherStays

\* The graph is the one that was asked for.
LEMMA UpKept ==
  ASSUME IInv', NEW x, Up(Target(x), Env')
  PROVE  Loaded' \in {x.new, x.old} /\ Graph' \subseteq mapped'
<1>1. Env'.graph = graph' /\ Env'.mapped = mapped'
  BY DEF Env
<1>2. Loaded' = Present(Env') /\ Graph' = Upto(graph', Len(graph'))
  BY SpareNext DEF Surroundings
<1>3. Loaded' = Target(x) /\ Graph' \subseteq mapped'
  BY <1>1, <1>2 DEF Up
<1> QED BY <1>3 DEF Target

\* What Returned does to a thread that refuses or returns.
LEMMA RefusedPasses ==
  ASSUME IInv, NEW t \in Threads, NEW ok \in BOOLEAN, Refuses(t, ok), thread[t].stage # "",
         thread'[t].stage = ""
  PROVE  LET x == thread[t]
         IN /\ x.stage # "cleanup" /\ (ok => x.stage # "unload")
            /\ ~ok => x.stage \notin {"load", "start"}
<1> DEFINE x == thread[t]
           n == Trouble(x, IF ok THEN 0 ELSE 1)
           z == [x EXCEPT !.troubles = n]
           y == Returned(z, ok)
<1>1. thread \in [Threads -> Work] /\ x \in Work
  BY DEF IInv, TypeOK
<1>2. thread'[t] = y
  BY <1>1 DEF Refuses
<1>3. n \in 0..2
  BY <1>1, TroubleType
<1>4. z \in Work /\ z.stage = x.stage
  BY <1>1, <1>3 DEF Work
<1> HIDE DEF z
<1>5. Passes(z, y, ok)
  BY <1>4, ReturnedStages
<1>6. y.stage = ""
  BY <1>2
<1> HIDE DEF y
<1> QED BY <1>4, <1>5, <1>6 DEF Passes

LEMMA ReturnedPasses ==
  ASSUME IInv, NEW t \in Threads, NEW ok \in BOOLEAN, Returns(t, ok), thread[t].stage # "",
         thread'[t].stage = ""
  PROVE  LET x == thread[t]
         IN /\ x.stage # "cleanup" /\ (ok => x.stage # "unload")
            /\ ~ok => x.stage \notin {"load", "start"}
            /\ ok /\ x.stage \in {"load", "restore"} => ~x.restart
<1> DEFINE x == thread[t]
           y == Returned(x, ok)
<1>1. thread \in [Threads -> Work] /\ x \in Work
  BY DEF IInv, TypeOK
<1>2. thread'[t] = y
  BY <1>1 DEF Returns
<1>3. Passes(x, y, ok)
  BY <1>1, ReturnedStages
<1>4. y.stage = ""
  BY <1>2
<1> HIDE DEF y
<1> QED BY <1>3, <1>4 DEF Passes

LEMMA FinishKept ==
  ASSUME RInv, IInv', NEW t \in Threads, Finish(t), thread[t].stage # "",
         thread[t].troubles < 2, thread'[t].stage = ""
  PROVE  Kept(t)
<1> DEFINE x == thread[t]
           do == x.script[1].do
<1>1. IInv
  BY DEF RInv
<1>2. /\ x.script # <<>> /\ Goal(x.script) = do /\ UNCHANGED registry
      /\ x.clean /\ Underway(x, Env)
  BY FinishGoal
<1>3. CASE do = "commit"
  <2>1. Returns(t, TRUE) /\ x.stage \in {"load", "restore"} /\ Brings(x, TRUE, Env')
    BY <1>2, <1>3, CommitFacts DEF At
  <2>2. Up(Target(x), Env') /\ ~x.restart
    BY <1>1, <2>1, ReturnedPasses DEF Brings
  <2> QED BY <2>2, UpKept DEF Kept
<1>4. CASE do = "emptied"
  <2>1. Returns(t, TRUE)
    BY <1>2, <1>4 DEF Finish, At
  <2>2. x.stage \in {"unload", "cleanup"}
    BY <1>2, <1>4 DEF Underway
  <2> QED BY <1>1, <2>1, <2>2, ReturnedPasses
<1>5. CASE do \in {"abandon", "unstarted"}
  <2>1. Returns(t, FALSE)
    BY <1>5 DEF Finish, At
  <2>2. x.stage \in {"load", "start"}
    BY <1>2, <1>5 DEF Underway
  <2> QED BY <1>1, <2>1, <2>2, ReturnedPasses
<1>6. CASE do = "started"
  <2>1. graph' = graph /\ modules' = AllUp /\ application' = [started |-> TRUE, exiting |-> FALSE]
    BY <1>6 DEF Finish, At
  <2>2. Up(Target(x), Env)
    BY <1>2, <1>6 DEF Underway
  <2>3. /\ Env'.graph = Env.graph /\ Env'.mapped = Env.mapped /\ Env.modules = modules
        /\ Env'.modules = modules' /\ Env.graph = graph
    BY <1>2, <2>1 DEF Env, registry
  <2>4. SameDefinitions(Env.modules, Env'.modules)
    <3>1. \A j \in DOMAIN modules : AllUp[j].definition = modules[j].definition
      BY <1>1, AllUpKeeps
    <3>2. DOMAIN AllUp = DOMAIN modules
      BY DEF AllUp
    <3> QED BY <2>1, <2>3, <3>1, <3>2 DEF SameDefinitions
  <2>5. Upto(Env.graph, Len(Env.graph)) \subseteq DOMAIN Env.modules
    BY <1>1, <2>3, SpareFacts DEF Surroundings
  <2>6. Up(Target(x), Env')
    BY <2>2, <2>3, <2>4, <2>5, UpSame
  <2>7. application'.started
    BY <2>1
  <2> QED BY <2>6, <2>7, UpKept DEF Kept
<1>7. CASE do \in {"exiting", "ended"}
  BY <1>2, <1>7 DEF Underway
<1> QED BY <1>3, <1>4, <1>5, <1>6, <1>7 DEF Finish, At

LEMMA NextKept ==
  ASSUME RInv, IInv', NEW t \in Threads, ReloadNext(t), thread[t].stage # "",
         thread[t].troubles < 2, operation \subseteq {t}, thread'[t].stage = ""
  PROVE  Kept(t)
<1> DEFINE x == thread[t]
<1>1. IInv /\ x.script = <<>>
  BY DEF RInv, ReloadNext
<1>2. t \notin operation /\ operation = {}
  <2>1. t \notin operation
    BY <1>1, IdleOutside
  <2> QED BY <2>1
<1>3. Ready(x, Env) /\ Loadable(x.old, Env)
  <2>1. Renews(t, x, Env)
    BY DEF RInv
  <2> QED BY <1>1, <2>1 DEF Renews, Reloading
<1>4. ~Stays(t)
  BY DEF Stays
<1>5. \A script : ~Begins(t, x, script)
  BY <1>1, <1>4, BegunStays
<1>6. CASE x.stage \in {"unload", "cleanup"} /\ Unloads(t)
  <2>1. Refuses(t, TRUE)
    BY <1>2, <1>5, <1>6 DEF Unloads
  <2> QED BY <1>1, <1>6, <2>1, RefusedPasses
<1>7. CASE x.stage = "load" /\ Loads(t, x.new)
  <2>1. Refuses(t, FALSE)
    BY <1>5, <1>7 DEF Loads
  <2> QED BY <1>1, <1>7, <2>1, RefusedPasses
<1>8. CASE x.stage = "restore" /\ Loads(t, x.old)
  <2>1. graph = <<>>
    BY <1>3, <1>8 DEF Ready, Env
  <2>2. Orders(x.old) # {} /\ Satisfied(x.old)
    <3>1. Env.spare \subseteq providers /\ Env.modules = modules
      BY DEF Env
    <3> QED BY <1>3, <3>1 DEF Loadable, Satisfied, Registered, Name
  <2> QED BY <1>2, <1>5, <1>8, <2>1, <2>2 DEF Loads
<1>9. CASE x.stage \in {"start", "restart"} /\ Starts(t)
  <2>1. application.started /\ application' = application /\ UNCHANGED <<graph, modules, mapped>>
    BY <1>2, <1>5, <1>9 DEF Starts, registry
  <2>2. Up(Target(x), Env)
    BY <1>3, <1>9 DEF Ready
  <2>3. Env'.graph = Env.graph /\ Env'.mapped = Env.mapped /\ Env'.modules = Env.modules
    BY <2>1 DEF Env
  <2>4. Up(Target(x), Env')
    BY <2>2, <2>3 DEF Up, Present
  <2> QED BY <2>1, <2>4, UpKept DEF Kept
<1> QED BY <1>6, <1>7, <1>8, <1>9 DEF ReloadNext

LEMMA OperationStays ==
  ASSUME IInv, NEW t \in Threads, NEW u \in Threads, t # u,
         Unloads(u) \/ Starts(u) \/ \E D \in SUBSET Definitions : Loads(u, D)
  PROVE  Stays(t)
<1>1. CASE \E ok \in BOOLEAN : Refuses(u, ok)
  BY <1>1, OtherStays DEF Refuses
<1>2. CASE \E script : Begins(u, thread[u], script)
  BY <1>2, BegunStays
<1>3. CASE Unloads(u)
  BY <1>1, <1>2, <1>3 DEF Unloads
<1>4. CASE Starts(u)
  BY <1>1, <1>2, <1>4 DEF Starts
<1>5. CASE \E D \in SUBSET Definitions : Loads(u, D)
  BY <1>1, <1>2, <1>5 DEF Loads
<1> QED BY <1>3, <1>4, <1>5

\* Whoever takes a thread out of its reload.
LEMMA WhoLeaves ==
  ASSUME IInv, [Next]_vars, NEW t \in Threads, thread[t].stage # "", thread'[t].stage = ""
  PROVE  ReloadNext(t) \/ Finish(t)
<1> SUFFICES ASSUME ~ReloadNext(t), ~Finish(t) PROVE Stays(t)
  BY DEF Stays
<1>1. ~Free(t)
  BY FreeStage
<1>2. ASSUME NEW u \in Threads, Load(u) PROVE Stays(t)
  <2>1. PICK input \in Inputs : Loads(u, input)
    BY <1>2 DEF Load
  <2>2. input \in SUBSET Definitions /\ t # u
    BY <1>1, <1>2, ConstantsAssumption DEF Load
  <2> QED BY <2>1, <2>2, OperationStays
<1>3. ASSUME NEW u \in Threads, Unload(u) \/ OnApplicationStarts(u) PROVE Stays(t)
  BY <1>1, <1>3, OperationStays DEF Unload, OnApplicationStarts
<1>4. ASSUME NEW u \in Threads, Reload(u) PROVE Stays(t)
  BY <1>1, <1>4, OtherStays DEF Reload
<1>5. ASSUME NEW u \in Threads, ReloadNext(u) PROVE Stays(t)
  <2>1. t # u
    BY <1>5
  <2>2. thread[u].new \in SUBSET Definitions /\ thread[u].old \in SUBSET Definitions
    BY DEF IInv, TypeOK, Work
  <2>3. Unloads(u) \/ Starts(u) \/ \E D \in SUBSET Definitions : Loads(u, D)
    BY <1>5, <2>2 DEF ReloadNext
  <2> QED BY <2>1, <2>3, OperationStays
<1>6. ASSUME NEW u \in Threads, OnApplicationRequestsExit(u) \/ OnApplicationEnds(u)
      PROVE  Stays(t)
  BY <1>6, BegunStays DEF OnApplicationRequestsExit, OnApplicationEnds
<1>7. ASSUME NEW u \in Threads,
             Map(u) \/ Link(u) \/ Hook(u) \/ Unpublish(u) \/ Unmap(u) \/ Stopped(u)
      PROVE  Stays(t)
  <2>1. Carries(u)
    BY <1>7, MapCarries, LinkCarries, HookCarries, UnpublishCarries, UnmapCarries, StoppedCarries
  <2> QED BY <2>1, CarriedStays
<1>8. ASSUME NEW u \in Threads, Finish(u) PROVE Stays(t)
  <2>1. t # u
    BY <1>8
  <2>2. \E ok \in BOOLEAN : Returns(u, ok)
    <3>1. thread[u].clean \in BOOLEAN
      BY DEF IInv, TypeOK, Work
    <3> QED BY <1>8, <3>1 DEF Finish
  <2> QED BY <2>1, <2>2, OtherStays DEF Returns
<1>9. ASSUME NEW p \in Plugins, Resolve(p) \/ ReleasePlugin(p) PROVE Stays(t)
  BY <1>9 DEF Resolve, ReleasePlugin, Stays
<1>10. CASE UNCHANGED vars
  BY <1>10 DEF vars, Stays
<1> QED BY <1>2, <1>3, <1>4, <1>5, <1>6, <1>7, <1>8, <1>9, <1>10 DEF Next

LEMMA ReloadKeeps ==
  ASSUME RInv, IInv', [Next]_vars, NEW t \in Threads, thread[t].stage # "",
         thread'[t].stage = "", thread[t].troubles < 2, operation \subseteq {t}
  PROVE  Kept(t)
<1>1. ReloadNext(t) \/ Finish(t)
  BY WhoLeaves DEF RInv
<1> QED BY <1>1, NextKept, FinishKept

\* A Reload, or an AddOrReplace, into which no other operation comes in between and in which
\* nothing fails but one step of a load or a start (a refusal, a mapping, a link or a hook)
\* ends with the new modules or with the old ones loaded, all of them mapped, and with the
\* application running if it ran before, whatever plugins resolve and release meanwhile.
\* A finalizer, an unmapping or a withdrawal that fails counts as two troubles and is not in
\* the theorem: Reload unloads the old graph first and gives up when that fails.
THEOREM ReloadCorrect == Spec => ReloadKeepsGraph
<1>1. RInv /\ RInv' /\ [Next]_vars
        => [\A t \in Threads :
              (/\ thread[t].stage # "" /\ thread'[t].stage = ""
               /\ thread[t].troubles < 2 /\ operation \subseteq {t})
              => /\ Loaded' \in {thread[t].new, thread[t].old}
                 /\ Graph' \subseteq mapped'
                 /\ thread[t].restart => application'.started]_vars
  <2> SUFFICES ASSUME RInv, RInv', [Next]_vars, NEW t \in Threads, thread[t].stage # "",
                      thread'[t].stage = "", thread[t].troubles < 2, operation \subseteq {t}
               PROVE  Kept(t)
    BY DEF Kept
  <2>1. IInv'
    BY DEF RInv
  <2> QED BY <2>1, ReloadKeeps
<1> QED BY <1>1, ReloadInvariance, PTL DEF Spec, ReloadKeepsGraph

=============================================================================
