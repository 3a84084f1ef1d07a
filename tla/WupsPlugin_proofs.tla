------------------------- MODULE WupsPlugin_proofs -------------------------
(***************************************************************************)
(* Proofs about WupsPlugin for any threads, initializers, hooks and calls. *)
(*                                                                         *)
(* The frames of a thread are counted from the bottom of its stack, so     *)
(* that a call or a return moves none of them.  Starts, application ends   *)
(* and unloads that tear down are the work: if nothing cut another one     *)
(* short there is one of them at a time, and the invariant says what the   *)
(* plugin, the journal and the history are at each place of it.            *)
(***************************************************************************)
EXTENDS WupsPlugin, FiniteSetTheorems, SequenceTheorems, WellFoundedInduction, TLAPS

States == {"Installed", "Mapped", "Relocated", "Initialized", "Active",
           "Deinitialized", "Unloading", "Unloaded", "Failed"}

Plugin == [state : States, generation : Nat, inFlight : Nat, module : BOOLEAN,
           journal : Seq(Range(Inits)), released : BOOLEAN, deactivated : BOOLEAN,
           teardown : BOOLEAN, deferredUnload : BOOLEAN, endsPending : BOOLEAN,
           deferredEnd : BOOLEAN, transition : BOOLEAN, foregroundReleased : BOOLEAN,
           foregroundTransition : BOOLEAN, exitRequested : BOOLEAN,
           exitInProgress : BOOLEAN]

History == [owed : Seq(Range(Inits)), ends : Nat, active : BOOLEAN,
            cutShort : BOOLEAN, doubled : BOOLEAN]

Events == {"release", "acquire", "exit"}

\* The places of an operation.
Placed(f) ==
  \/ /\ f.op = "start"
     /\ f.at \in {"map", "relocate", "activate", "init", "inited", "starting", "started"}
     /\ f.at = "inited" => f.todo # <<>>
  \/ f.op = "event" /\ f.at \in {"event", "evented"} /\ f.hook \in Events
  \/ /\ f.op = "end"
     /\ f.at \in {"end", "drain", "ends", "swap", "fini", "backend", "deactivating",
                  "ended"}
  \/ /\ f.op = "unload"
     /\ f.at \in {"unload", "drain", "ends", "swap", "fini", "backend", "deactivating",
                  "release", "releasing", "unmap", "unloaded"}
  \/ f.op = "invoke" /\ f.at \in {"prepare", "hook", "leave", "left", "return"}

Places == {"map", "relocate", "activate", "init", "inited", "starting", "started",
           "event", "evented", "end", "unload", "drain", "ends", "swap", "fini", "backend",
           "deactivating", "ended", "release", "releasing", "unmap", "unloaded",
           "prepare", "hook", "leave", "left", "return"}

Fields == [op : {"start", "event", "end", "unload", "invoke"}, at : Places,
           hook : Range(Inits) \cup Events \cup {"", "start", "end"}, final : BOOLEAN,
           gen : Nat, todo : Seq(Range(Inits)), keep : BOOLEAN,
           result : {"true", "false", "invoked"}]

Frames == {f \in Fields : Placed(f)}

\* The frame at depth k, counted from the bottom.
Deep(s, k) == s[Len(s) + 1 - k]

\* The frame a can be above the frame b.
Fits(b, a) ==
  IF a.op = "invoke"
  THEN /\ b.op # "invoke" /\ b.at \in {"inited", "started", "evented", "swap", "fini"}
       /\ a.final <=> b.at \in {"swap", "fini"}
       /\ b.at = "swap" => a.hook = "end"
       /\ b.at = "fini" => a.hook \in Range(Inits)
       /\ ~a.final => a.hook # "end"
  ELSE b.op = "invoke" /\ b.at \in {"hook", "return"}

Chained(s) ==
  \A k \in 1..Len(s) :
    IF k = 1 THEN Deep(s, 1).op # "invoke" ELSE Fits(Deep(s, k - 1), Deep(s, k))

Framed(st) == /\ st \in [Threads -> Seq(Frames)]
              /\ \A t \in Threads : Chained(st[t])

\* Where the frames of a set are.
Where(st, S) ==
  UNION {{<<t, k>> : k \in {j \in 1..Len(st[t]) : Deep(st[t], j) \in S}} : t \in Threads}

Flying == {f \in Frames : f.at \in {"prepare", "hook", "leave", "left"}}

Unloads == {f \in Frames : f.op = "unload"}

Tearing == {f \in Unloads : f.at # "unload"}

Work == {f \in Frames : f.op \in {"start", "end"}} \cup Tearing

Counted(st, p) ==
  IsFiniteSet(Where(st, Flying)) /\ p.inFlight = Cardinality(Where(st, Flying))

\* Who begins an application end is not inside of a hook.
Outside(st) ==
  \A t \in Threads : st[t] # <<>> /\ Head(st[t]).op = "end" /\ Head(st[t]).at = "end" =>
    \A y \in Where(st, Flying) : y[1] # t

\* An unload that tears down is alone with its hooks.
Torn(st, p) ==
  \A x \in Where(st, Tearing) :
    /\ p.teardown /\ p.state \in {"Unloading", "Failed"}
    /\ Where(st, Work) = {x}
    /\ Deep(st[x[1]], x[2]).at # "drain" => \A y \in Where(st, Flying) : y[1] = x[1]

\* An end or a finalizer about to be invoked; the one above the frame at depth k, if
\* there is one there.
Ready(f) == f.at = "prepare" /\ f.final

Prep(s, k) ==
  IF k < Len(s) /\ Ready(Deep(s, k + 1)) THEN <<Deep(s, k + 1).hook>> ELSE <<>>

Prefix(q) == Len(q) <= Len(Inits) /\ \A i \in 1..Len(q) : q[i] = Inits[i]

\* The application end is to come, or has come.
Due(p, h) == h.active /\ "end" \in Hooks => p.endsPending \/ h.ends = 1

Came(h) == h.active /\ "end" \in Hooks => h.ends = 1

\* todo is what is left of the finalizers that are owed, but for one that is prepared.
Mirrors(q, todo, hook) ==
  /\ Len(q) = Len(todo) + Len(hook)
  /\ \A i \in 1..Len(todo) : todo[i] = q[Len(todo) + 1 - i]
  /\ hook # <<>> => q[Len(todo) + 1] = hook[1]

\* What holds between any two steps.
Always(p, m, h) ==
  /\ m => p.module
  /\ h.ends <= 1
  /\ Prefix(h.owed)
  /\ ~m => h.owed = <<>>
  /\ p.endsPending => m /\ h.ends = 0
  /\ p.deferredEnd => p.endsPending /\ p.transition /\ p.state \in {"Deinitialized", "Unloading"}

\* Nobody works.
Resting(p, m, h) ==
  /\ p.state \in {"Installed", "Active", "Deinitialized"} \cup Revoked
  /\ h.owed = p.journal
  /\ p.state = "Installed" => ~p.endsPending /\ h.ends = 0 /\ ~h.active /\ h.owed = <<>>
  /\ p.state = "Active" => m /\ ~p.endsPending /\ h.ends = 0
  /\ p.state = "Deinitialized" => /\ m
                                  /\ p.endsPending => p.transition
                                  /\ ~p.endsPending => h.owed = <<>>
  /\ p.state # "Active" => Due(p, h)

Starting(f, p, m, h) ==
  /\ p.transition
  /\ p.state \in {"Installed", "Mapped", "Relocated", "Initialized", "Deinitialized",
                  "Unloading"}
  /\ h.ends = 0 /\ ~h.active /\ ~p.deferredEnd
  /\ p.generation # f.gen => p.state = "Unloading"
  /\ p.endsPending => p.state = "Unloading"
  /\ h.owed = p.journal
  /\ f.at = "map" => p.state \in {"Installed", "Unloading"}
  /\ f.at # "map" => m
  /\ f.at \in {"map", "relocate", "activate"} => p.journal = <<>>
  /\ f.at \in {"init", "inited"} => p.journal \o f.todo = Inits
  /\ f.at = "inited" => f.todo # <<>>

\* An application end or an unload at its place, the hook being prepared.
Finishing(f, hook, p, m, h) ==
  /\ f.at \in {"end", "drain"} => h.owed = p.journal /\ Due(p, h)
  /\ f.at \notin {"end", "drain"} => ~p.endsPending
  /\ f.at = "ends" => m /\ h.ends = 0 /\ h.owed = p.journal
  /\ f.at = "swap" => /\ h.owed = p.journal
                      /\ IF hook = <<>> THEN Came(h) ELSE m /\ h.ends = 0
  /\ f.at \notin {"end", "drain", "ends", "swap"} => p.journal = <<>> /\ Came(h)
  /\ f.at = "fini" => Mirrors(h.owed, f.todo, hook)
  /\ f.at \notin {"end", "drain", "ends", "swap", "fini"} => h.owed = <<>>

Ending(f, hook, p, m, h) ==
  /\ p.transition /\ m
  /\ p.state \in {"Deinitialized", "Unloading"}
  /\ f.at \in {"end", "drain"} => p.endsPending
  /\ Finishing(f, hook, p, m, h)

Unloading(f, hook, p, m, h) ==
  /\ p.state \in {"Unloading", "Failed"} /\ ~p.deferredEnd
  /\ f.at = "unloaded" /\ f.result = "true" => ~m
  /\ Finishing(f, hook, p, m, h)

Working(f, hook, p, m, h) ==
  \/ f.op = "start" /\ Starting(f, p, m, h)
  \/ f.op = "end" /\ Ending(f, hook, p, m, h)
  \/ f.op = "unload" /\ Unloading(f, hook, p, m, h)

\* Who is to unload revoked the plugin, and no application end waits for a hook.
Unloadable(st, p) ==
  /\ p.deferredUnload \/ Where(st, Unloads) # {} => p.state \in Revoked
  /\ p.deferredEnd => Where(st, Unloads) = {}

Good(st, p, m, h) ==
  /\ Always(p, m, h)
  /\ Unloadable(st, p)
  /\ \A x, y \in Where(st, Work) : x = y
  /\ Where(st, Work) = {} => Resting(p, m, h)
  /\ \A x \in Where(st, Work) :
       Working(Deep(st[x[1]], x[2]), Prep(st[x[1]], x[2]), p, m, h)

Shaped(st, p) == Framed(st) /\ Counted(st, p) /\ Outside(st)

Run(st, p, m, h) ==
  /\ Shaped(st, p)
  /\ ~h.cutShort => Torn(st, p)
  /\ ~h.cutShort /\ ~h.doubled => Good(st, p, m, h)

IInv ==
  /\ plugin \in Plugin /\ history \in History /\ mapped \in BOOLEAN
  /\ starts \in Nat /\ title \in {"running", "stopped", "abandoning", "over"}
  /\ stack \in [Threads -> Seq(Frames)]
  /\ title = "running" => Run(stack, plugin, mapped, history)
  /\ title # "running" =>
       /\ \A t \in Threads : stack[t] = <<>> \/ At(t, "hook")
       /\ TeardownAlone /\ EndsOnce /\ FinalizersRun
-----------------------------------------------------------------------------
\* Stacks

LEMMA PushFacts ==
  ASSUME NEW S, NEW s \in Seq(S), NEW g \in S
  PROVE  /\ <<g>> \o s \in Seq(S)
         /\ Len(<<g>> \o s) = Len(s) + 1
         /\ Deep(<<g>> \o s, Len(s) + 1) = g
         /\ \A k \in 1..Len(s) : Deep(<<g>> \o s, k) = Deep(s, k)
<1> DEFINE s2 == <<g>> \o s
<1>1. /\ s2 \in Seq(S) /\ Len(s2) = Len(s) + 1
      /\ s2[1] = g /\ \A i \in 1..Len(s) : s2[i + 1] = s[i]
  OBVIOUS
<1> HIDE DEF s2
<1>2. Deep(s2, Len(s) + 1) = g
  BY <1>1 DEF Deep
<1>3. ASSUME NEW k \in 1..Len(s)
      PROVE  Deep(s2, k) = Deep(s, k)
  <2>1. /\ Len(s) + 1 - k \in 1..Len(s)
        /\ Len(s2) + 1 - k = (Len(s) + 1 - k) + 1
    BY <1>1
  <2> QED BY <1>1, <2>1 DEF Deep
<1> QED BY <1>1, <1>2, <1>3 DEF s2

LEMMA TailFacts ==
  ASSUME NEW S, NEW s \in Seq(S), s # <<>>
  PROVE  /\ Tail(s) \in Seq(S)
         /\ Len(Tail(s)) = Len(s) - 1
         /\ Len(s) \in Nat \ {0}
         /\ Deep(s, Len(s)) = Head(s) /\ Head(s) \in S /\ Head(s) = s[1]
         /\ \A k \in 1..(Len(s) - 1) : Deep(Tail(s), k) = Deep(s, k)
<1>1. /\ Tail(s) \in Seq(S) /\ Len(Tail(s)) = Len(s) - 1
      /\ \A i \in 1..(Len(s) - 1) : Tail(s)[i] = s[i + 1]
      /\ Len(s) \in Nat \ {0} /\ Head(s) = s[1] /\ s[1] \in S
  OBVIOUS
<1>2. ASSUME NEW k \in 1..(Len(s) - 1)
      PROVE  Deep(Tail(s), k) = Deep(s, k)
  <2>1. /\ (Len(s) - 1) + 1 - k \in 1..(Len(s) - 1)
        /\ ((Len(s) - 1) + 1 - k) + 1 = Len(s) + 1 - k
    BY <1>1
  <2> QED BY <1>1, <2>1 DEF Deep
<1> QED BY <1>1, <1>2 DEF Deep

\* The second frame of a stack.
LEMMA SecondFacts ==
  ASSUME NEW S, NEW s \in Seq(S), Len(s) >= 2
  PROVE  /\ s # <<>> /\ Tail(s) # <<>> /\ s[2] = Head(Tail(s)) /\ s[2] \in S
         /\ Deep(s, Len(s) - 1) = s[2]
         /\ Tail(Tail(s)) \in Seq(S) /\ Len(Tail(Tail(s))) = Len(s) - 2
         /\ \A k \in 1..(Len(s) - 2) : Deep(Tail(Tail(s)), k) = Deep(s, k)
<1>a. /\ s # <<>> /\ Len(s) \in Nat /\ s[2] \in S
      /\ Tail(s) \in Seq(S) /\ Len(Tail(s)) = Len(s) - 1
  OBVIOUS
<1>b. Tail(s)[1] = s[2]
  BY <1>a
<1>1. /\ s # <<>> /\ Tail(s) # <<>> /\ s[2] = Head(Tail(s)) /\ s[2] \in S
      /\ Tail(s) \in Seq(S) /\ Len(Tail(s)) = Len(s) - 1
  <2>1. Tail(s) # <<>>
    <3>1. Len(Tail(s)) # 0
      BY <1>a
    <3>2. Len(<<>>) = 0
      OBVIOUS
    <3> QED BY <3>1, <3>2, Zenon
  <2> QED BY <1>a, <1>b, <2>1
<1>2. \A k \in 1..(Len(s) - 1) : Deep(Tail(s), k) = Deep(s, k)
  BY <1>1, TailFacts
<1>3. /\ Tail(Tail(s)) \in Seq(S) /\ Len(Tail(Tail(s))) = Len(Tail(s)) - 1
      /\ Deep(Tail(s), Len(Tail(s))) = Head(Tail(s))
      /\ \A k \in 1..(Len(Tail(s)) - 1) : Deep(Tail(Tail(s)), k) = Deep(Tail(s), k)
  BY <1>1, TailFacts
<1> QED BY <1>1, <1>2, <1>3

\* <<g, c>> \o s is a push of c and then one of g.
LEMMA PairFacts ==
  ASSUME NEW S, NEW s \in Seq(S), NEW g \in S, NEW c \in S
  PROVE  /\ <<g, c>> \o s \in Seq(S)
         /\ Len(<<g, c>> \o s) = Len(s) + 2
         /\ Deep(<<g, c>> \o s, Len(s) + 1) = c
         /\ Deep(<<g, c>> \o s, Len(s) + 2) = g
         /\ \A k \in 1..Len(s) : Deep(<<g, c>> \o s, k) = Deep(s, k)
<1> DEFINE s2 == <<g, c>> \o s
<1>1. /\ s2 \in Seq(S) /\ Len(s2) = Len(s) + 2
      /\ s2[1] = g /\ s2[2] = c /\ \A i \in 1..Len(s) : s2[i + 2] = s[i]
  OBVIOUS
<1> HIDE DEF s2
<1>2. Deep(s2, Len(s) + 1) = c /\ Deep(s2, Len(s) + 2) = g
  BY <1>1 DEF Deep
<1>3. ASSUME NEW k \in 1..Len(s)
      PROVE  Deep(s2, k) = Deep(s, k)
  <2>1. /\ Len(s) + 1 - k \in 1..Len(s)
        /\ Len(s2) + 1 - k = (Len(s) + 1 - k) + 2
    BY <1>1
  <2> QED BY <1>1, <2>1 DEF Deep
<1> QED BY <1>1, <1>2, <1>3 DEF s2

-----------------------------------------------------------------------------
\* Where frames are

Stacks == [Threads -> Seq(Frames)]

LEMMA WhereIn ==
  ASSUME NEW st \in Stacks, NEW S
  PROVE  /\ \A t \in Threads, k \in Nat :
              <<t, k>> \in Where(st, S) <=> k \in 1..Len(st[t]) /\ Deep(st[t], k) \in S
         /\ \A x \in Where(st, S) : /\ x = <<x[1], x[2]>>
                                    /\ x[1] \in Threads
                                    /\ x[2] \in 1..Len(st[x[1]])
                                    /\ Deep(st[x[1]], x[2]) \in S
<1>1. \A t \in Threads : Len(st[t]) \in Nat
  BY DEF Stacks
<1>2. ASSUME NEW x \in Where(st, S)
      PROVE  \E t \in Threads : \E k \in 1..Len(st[t]) : x = <<t, k>> /\ Deep(st[t], k) \in S
  BY <1>2 DEF Where
<1>3. ASSUME NEW t \in Threads, NEW k \in 1..Len(st[t]), Deep(st[t], k) \in S
      PROVE  <<t, k>> \in Where(st, S)
  <2>1. <<t, k>> \in {<<t, i>> : i \in {j \in 1..Len(st[t]) : Deep(st[t], j) \in S}}
    BY <1>3
  <2> QED BY <2>1 DEF Where
<1>4. ASSUME NEW t \in Threads, NEW k \in Nat, <<t, k>> \in Where(st, S)
      PROVE  k \in 1..Len(st[t]) /\ Deep(st[t], k) \in S
  <2>1. PICK u \in Threads : \E j \in 1..Len(st[u]) : <<t, k>> = <<u, j>> /\ Deep(st[u], j) \in S
    BY <1>2, <1>4
  <2>2. PICK j \in 1..Len(st[u]) : <<t, k>> = <<u, j>> /\ Deep(st[u], j) \in S
    BY <2>1
  <2> QED BY <2>2
<1> QED BY <1>1, <1>2, <1>3, <1>4

\* Only the frames of t above the depth j differ.
Above(st, st2, t, j) ==
  /\ \A u \in Threads : u # t => st2[u] = st[u]
  /\ j \in Nat /\ j <= Len(st[t]) /\ j <= Len(st2[t])
  /\ \A k \in 1..j : Deep(st2[t], k) = Deep(st[t], k)

LEMMA WhereAbove ==
  ASSUME NEW st \in Stacks, NEW st2 \in Stacks, NEW t \in Threads, NEW j,
         Above(st, st2, t, j), NEW S, NEW u \in Threads, NEW k \in Nat, u # t \/ k <= j
  PROVE  <<u, k>> \in Where(st2, S) <=> <<u, k>> \in Where(st, S)
<1>1. Len(st[t]) \in Nat /\ Len(st2[t]) \in Nat
  BY DEF Stacks
<1>2. CASE u # t
  <2>1. st2[u] = st[u]
    BY <1>2 DEF Above
  <2> QED BY <2>1, WhereIn
<1>3. CASE u = t
  <2>1. k \in 1..Len(st2[t]) <=> k \in 1..Len(st[t])
    BY <1>1, <1>3 DEF Above
  <2>2. k \in 1..Len(st[t]) => Deep(st2[t], k) = Deep(st[t], k)
    BY <1>1, <1>3 DEF Above
  <2> QED BY <1>3, <2>1, <2>2, WhereIn
<1> QED BY <1>2, <1>3

One(S, g, x) == IF g \in S THEN {x} ELSE {}

\* The sets of places differ at the depths above j only.
LEMMA WhereEqual ==
  ASSUME NEW st \in Stacks, NEW st2 \in Stacks, NEW t \in Threads, NEW j,
         Above(st, st2, t, j), NEW S, NEW X,
         X \subseteq {t} \X {k \in Nat : k > j},
         \A k \in Nat : k > j => (<<t, k>> \in Where(st2, S) <=> <<t, k>> \in X)
  PROVE  /\ Where(st2, S) = {x \in Where(st, S) : x[1] # t \/ x[2] <= j} \cup X
         /\ \A x \in X : x \notin {y \in Where(st, S) : y[1] # t \/ y[2] <= j}
<1>1. ASSUME NEW x \in Where(st2, S)
      PROVE  x \in {y \in Where(st, S) : y[1] # t \/ y[2] <= j} \cup X
  <2>1. x = <<x[1], x[2]>> /\ x[1] \in Threads /\ x[2] \in Nat
    <3>1. x = <<x[1], x[2]>> /\ x[1] \in Threads /\ x[2] \in 1..Len(st2[x[1]])
      BY WhereIn
    <3>2. st2[x[1]] \in Seq(Frames)
      BY <3>1 DEF Stacks
    <3>3. Len(st2[x[1]]) \in Nat
      BY <3>2
    <3> QED BY <3>1, <3>3
  <2>2. j \in Nat
    BY DEF Above
  <2>3. CASE x[1] # t \/ x[2] <= j
    BY <2>1, <2>3, WhereAbove
  <2>4. CASE x[1] = t /\ x[2] > j
    BY <2>1, <2>4
  <2> QED BY <2>1, <2>2, <2>3, <2>4
<1>2. ASSUME NEW x \in Where(st, S), x[1] # t \/ x[2] <= j
      PROVE  x \in Where(st2, S)
  <2>1. x = <<x[1], x[2]>> /\ x[1] \in Threads /\ x[2] \in Nat
    BY WhereIn DEF Stacks
  <2> QED BY <1>2, <2>1, WhereAbove
<1>3. ASSUME NEW x \in X
      PROVE  x \in Where(st2, S) /\ x[1] = t /\ x[2] > j /\ x[2] \in Nat
  <2>1. PICK k \in Nat : k > j /\ x = <<t, k>>
    OBVIOUS
  <2> QED BY <2>1
<1>4. j \in Nat
  BY DEF Above
<1> QED BY <1>1, <1>2, <1>3, <1>4

\* A call, a frame that goes on, one that goes on below a new one, a return, and a
\* return to a frame that goes on.
Pushed(st, st2, t, g) == st2 = [st EXCEPT ![t] = <<g>> \o st[t]]

Changed(st, st2, t, g) == st[t] # <<>> /\ st2 = [st EXCEPT ![t] = <<g>> \o Tail(st[t])]

Called(st, st2, t, c, g) ==
  st[t] # <<>> /\ st2 = [st EXCEPT ![t] = <<g, c>> \o Tail(st[t])]

Popped(st, st2, t) == st[t] # <<>> /\ st2 = [st EXCEPT ![t] = Tail(st[t])]

Returned(st, st2, t, c) ==
  Len(st[t]) >= 2 /\ st2 = [st EXCEPT ![t] = <<c>> \o Tail(Tail(st[t]))]

LEMMA PushedFacts ==
  ASSUME NEW st \in Stacks, NEW st2, NEW t \in Threads, NEW g \in Frames,
         Pushed(st, st2, t, g)
  PROVE  LET n == Len(st[t])
         IN /\ st2 \in Stacks /\ n \in Nat
            /\ Above(st, st2, t, n) /\ Len(st2[t]) = n + 1 /\ Deep(st2[t], n + 1) = g
            /\ \A S : /\ Where(st2, S) = Where(st, S) \cup One(S, g, <<t, n + 1>>)
                      /\ <<t, n + 1>> \notin Where(st, S)
<1> DEFINE n == Len(st[t])
<1>1. st[t] \in Seq(Frames) /\ n \in Nat
  BY DEF Stacks
<1>2. st2[t] = <<g>> \o st[t] /\ \A u \in Threads : u # t => st2[u] = st[u]
  BY DEF Pushed, Stacks
<1>3. /\ st2[t] \in Seq(Frames) /\ Len(st2[t]) = n + 1 /\ Deep(st2[t], n + 1) = g
      /\ \A k \in 1..n : Deep(st2[t], k) = Deep(st[t], k)
  BY <1>1, <1>2, PushFacts
<1>4. st2 \in Stacks
  BY <1>2, <1>3 DEF Pushed, Stacks
<1>5. Above(st, st2, t, n)
  BY <1>1, <1>2, <1>3 DEF Above
<1>6. ASSUME NEW S
      PROVE  /\ Where(st2, S) = Where(st, S) \cup One(S, g, <<t, n + 1>>)
             /\ <<t, n + 1>> \notin Where(st, S)
  <2> DEFINE X == One(S, g, <<t, n + 1>>)
  <2>1. X \subseteq {t} \X {k \in Nat : k > n}
    BY <1>1 DEF One
  <2>2. ASSUME NEW k \in Nat, k > n
        PROVE  <<t, k>> \in Where(st2, S) <=> <<t, k>> \in X
    <3>1. <<t, k>> \in Where(st2, S) <=> k \in 1..(n + 1) /\ Deep(st2[t], k) \in S
      BY <1>3, <1>4, WhereIn
    <3>2. k \in 1..(n + 1) <=> k = n + 1
      BY <1>1, <2>2
    <3> QED BY <1>3, <3>1, <3>2 DEF One
  <2> HIDE DEF X, n
  <2>3. Where(st2, S) = {x \in Where(st, S) : x[1] # t \/ x[2] <= n} \cup X
    BY <1>4, <1>5, <2>1, <2>2, WhereEqual
  <2>4. ASSUME NEW x \in Where(st, S)
        PROVE  x[1] # t \/ x[2] <= n
    <3>1. x[2] \in 1..Len(st[x[1]])
      BY WhereIn
    <3> QED BY <1>1, <3>1 DEF n
  <2>5. <<t, n + 1>> \notin Where(st, S)
    BY <1>1, <2>4
  <2> QED BY <2>3, <2>4, <2>5 DEF X
<1> QED BY <1>1, <1>3, <1>4, <1>5, <1>6

LEMMA ChangedFacts ==
  ASSUME NEW st \in Stacks, NEW st2, NEW t \in Threads, NEW g \in Frames,
         Changed(st, st2, t, g)
  PROVE  LET n == Len(st[t])
         IN /\ st2 \in Stacks /\ n \in Nat \ {0}
            /\ Above(st, st2, t, n - 1) /\ Len(st2[t]) = n /\ Deep(st2[t], n) = g
            /\ \A S : /\ Where(st2, S) = (Where(st, S) \ {<<t, n>>}) \cup One(S, g, <<t, n>>)
                      /\ <<t, n>> \in Where(st, S) <=> Head(st[t]) \in S
<1> DEFINE n == Len(st[t])
<1>1. /\ st[t] \in Seq(Frames) /\ st[t] # <<>> /\ n \in Nat \ {0} /\ Tail(st[t]) \in Seq(Frames)
      /\ Len(Tail(st[t])) = n - 1
      /\ \A k \in 1..(n - 1) : Deep(Tail(st[t]), k) = Deep(st[t], k)
      /\ Deep(st[t], n) = Head(st[t])
  BY TailFacts DEF Stacks, Changed
<1>2. st2[t] = <<g>> \o Tail(st[t]) /\ \A u \in Threads : u # t => st2[u] = st[u]
  BY DEF Changed, Stacks
<1>3. /\ st2[t] \in Seq(Frames) /\ Len(st2[t]) = (n - 1) + 1 /\ Deep(st2[t], (n - 1) + 1) = g
      /\ \A k \in 1..(n - 1) : Deep(st2[t], k) = Deep(Tail(st[t]), k)
  <2> DEFINE T == Tail(st[t])
  <2>1. T \in Seq(Frames) /\ Len(T) = n - 1 /\ st2[t] = <<g>> \o T
    BY <1>1, <1>2
  <2> HIDE DEF T, n
  <2>2. /\ <<g>> \o T \in Seq(Frames)
        /\ Len(<<g>> \o T) = Len(T) + 1
        /\ Deep(<<g>> \o T, Len(T) + 1) = g
        /\ \A k \in 1..Len(T) : Deep(<<g>> \o T, k) = Deep(T, k)
    BY <2>1, PushFacts
  <2> QED BY <2>1, <2>2 DEF T
<1>4. st2 \in Stacks
  BY <1>2, <1>3 DEF Changed, Stacks
<1>a. Len(st2[t]) = n /\ Deep(st2[t], n) = g
  BY <1>1, <1>3
<1>5. Above(st, st2, t, n - 1)
  BY <1>1, <1>2, <1>3, <1>a DEF Above
<1>6. ASSUME NEW S
      PROVE  /\ Where(st2, S) = (Where(st, S) \ {<<t, n>>}) \cup One(S, g, <<t, n>>)
             /\ <<t, n>> \in Where(st, S) <=> Head(st[t]) \in S
  <2> DEFINE X == One(S, g, <<t, n>>)
  <2>1. X \subseteq {t} \X {k \in Nat : k > n - 1}
    BY <1>1 DEF One
  <2>2. ASSUME NEW k \in Nat, k > n - 1
        PROVE  <<t, k>> \in Where(st2, S) <=> <<t, k>> \in X
    <3>1. <<t, k>> \in Where(st2, S) <=> k \in 1..n /\ Deep(st2[t], k) \in S
      BY <1>a, <1>4, WhereIn
    <3>2. k \in 1..n <=> k = n
      BY <1>1, <2>2
    <3> QED BY <1>1, <1>a, <3>1, <3>2 DEF One
  <2> HIDE DEF X, n
  <2>3. Where(st2, S) = {x \in Where(st, S) : x[1] # t \/ x[2] <= n - 1} \cup X
    BY <1>4, <1>5, <2>1, <2>2, WhereEqual
  <2>4. ASSUME NEW x \in Where(st, S)
        PROVE  (x[1] # t \/ x[2] <= n - 1) <=> x # <<t, n>>
    <3>1. x = <<x[1], x[2]>> /\ x[2] \in 1..Len(st[x[1]])
      BY WhereIn
    <3>2. x[1] = t => x[2] \in 1..n
      BY <3>1 DEF n
    <3> QED BY <1>1, <3>1, <3>2
  <2>5. <<t, n>> \in Where(st, S) <=> Head(st[t]) \in S
    BY <1>1, WhereIn DEF n
  <2> QED BY <2>3, <2>4, <2>5 DEF X
<1> QED BY <1>1, <1>a, <1>4, <1>5, <1>6

LEMMA CalledFacts ==
  ASSUME NEW st \in Stacks, NEW st2, NEW t \in Threads, NEW c \in Frames, NEW g \in Frames,
         Called(st, st2, t, c, g)
  PROVE  LET n == Len(st[t])
         IN /\ st2 \in Stacks /\ n \in Nat \ {0}
            /\ Above(st, st2, t, n - 1) /\ Len(st2[t]) = n + 1
            /\ Deep(st2[t], n) = c /\ Deep(st2[t], n + 1) = g
            /\ \A S : /\ Where(st2, S) = ((Where(st, S) \ {<<t, n>>}) \cup One(S, c, <<t, n>>))
                                           \cup One(S, g, <<t, n + 1>>)
                      /\ <<t, n>> \in Where(st, S) <=> Head(st[t]) \in S
                      /\ <<t, n + 1>> \notin Where(st, S)
<1> DEFINE n == Len(st[t])
           s1 == [st EXCEPT ![t] = <<c>> \o Tail(st[t])]
<1>1. st[t] \in Seq(Frames) /\ st[t] # <<>> /\ Tail(st[t]) \in Seq(Frames)
  BY TailFacts DEF Stacks, Called
<1>2. Changed(st, s1, t, c)
  BY <1>1 DEF Changed
<1> HIDE DEF s1
<1>3. /\ s1 \in Stacks /\ n \in Nat \ {0}
      /\ Above(st, s1, t, n - 1) /\ Len(s1[t]) = n /\ Deep(s1[t], n) = c
      /\ \A S : /\ Where(s1, S) = (Where(st, S) \ {<<t, n>>}) \cup One(S, c, <<t, n>>)
                /\ <<t, n>> \in Where(st, S) <=> Head(st[t]) \in S
  BY <1>2, ChangedFacts
<1>4. <<g, c>> \o Tail(st[t]) = <<g>> \o (<<c>> \o Tail(st[t]))
  BY <1>1
<1>5. s1[t] = <<c>> \o Tail(st[t])
  BY DEF s1, Stacks
<1>6. st2 = [s1 EXCEPT ![t] = <<g>> \o s1[t]]
  BY <1>4, <1>5 DEF Called, s1, Stacks
<1>7. Pushed(s1, st2, t, g)
  BY <1>6 DEF Pushed
<1>8. /\ st2 \in Stacks
      /\ Above(s1, st2, t, n) /\ Len(st2[t]) = n + 1 /\ Deep(st2[t], n + 1) = g
      /\ \A S : /\ Where(st2, S) = Where(s1, S) \cup One(S, g, <<t, n + 1>>)
                /\ <<t, n + 1>> \notin Where(s1, S)
  <2> DEFINE N == Len(s1[t])
  <2>1. /\ st2 \in Stacks
        /\ Above(s1, st2, t, N) /\ Len(st2[t]) = N + 1 /\ Deep(st2[t], N + 1) = g
        /\ \A S : /\ Where(st2, S) = Where(s1, S) \cup One(S, g, <<t, N + 1>>)
                  /\ <<t, N + 1>> \notin Where(s1, S)
    <3>1. s1 \in Stacks
      BY <1>3
    <3> QED BY <1>7, <3>1, PushedFacts
  <2>2. N = n
    BY <1>3
  <2> HIDE DEF N, n
  <2> QED BY <2>1, <2>2
<1> HIDE DEF n
<1>9. Above(st, st2, t, n - 1) /\ Deep(st2[t], n) = c
  BY <1>3, <1>8 DEF Above
<1>10. ASSUME NEW S
       PROVE  /\ Where(st2, S) = ((Where(st, S) \ {<<t, n>>}) \cup One(S, c, <<t, n>>))
                                    \cup One(S, g, <<t, n + 1>>)
              /\ <<t, n + 1>> \notin Where(st, S)
  <2>1. <<t, n + 1>> # <<t, n>>
    BY <1>3
  <2> QED BY <1>3, <1>8, <2>1
<1> QED BY <1>3, <1>8, <1>9, <1>10 DEF n

LEMMA PoppedFacts ==
  ASSUME NEW st \in Stacks, NEW st2, NEW t \in Threads, Popped(st, st2, t)
  PROVE  LET n == Len(st[t])
         IN /\ st2 \in Stacks /\ n \in Nat \ {0}
            /\ Above(st, st2, t, n - 1) /\ Len(st2[t]) = n - 1
            /\ \A S : /\ Where(st2, S) = Where(st, S) \ {<<t, n>>}
                      /\ <<t, n>> \in Where(st, S) <=> Head(st[t]) \in S
<1> DEFINE n == Len(st[t])
<1>1. /\ st[t] \in Seq(Frames) /\ st[t] # <<>> /\ n \in Nat \ {0} /\ Tail(st[t]) \in Seq(Frames)
      /\ Len(Tail(st[t])) = n - 1
      /\ \A k \in 1..(n - 1) : Deep(Tail(st[t]), k) = Deep(st[t], k)
      /\ Deep(st[t], n) = Head(st[t])
  BY TailFacts DEF Stacks, Popped
<1>2. st2[t] = Tail(st[t]) /\ \A u \in Threads : u # t => st2[u] = st[u]
  BY DEF Popped, Stacks
<1>4. st2 \in Stacks
  BY <1>1, <1>2 DEF Popped, Stacks
<1>5. Above(st, st2, t, n - 1) /\ Len(st2[t]) = n - 1
  BY <1>1, <1>2 DEF Above
<1>6. ASSUME NEW S
      PROVE  /\ Where(st2, S) = Where(st, S) \ {<<t, n>>}
             /\ <<t, n>> \in Where(st, S) <=> Head(st[t]) \in S
  <2> HIDE DEF n
  <2>1. {} \subseteq {t} \X {k \in Nat : k > n - 1}
    OBVIOUS
  <2>2. ASSUME NEW k \in Nat, k > n - 1
        PROVE  <<t, k>> \in Where(st2, S) <=> <<t, k>> \in {}
    <3>1. <<t, k>> \in Where(st2, S) => k \in 1..(n - 1)
      BY <1>5, <1>4, WhereIn
    <3> QED BY <1>1, <2>2, <3>1
  <2> DEFINE X == {}
             j == n - 1
  <2>3. /\ Above(st, st2, t, j) /\ X \subseteq {t} \X {k \in Nat : k > j}
        /\ \A k \in Nat : k > j => (<<t, k>> \in Where(st2, S) <=> <<t, k>> \in X)
    BY <1>5, <2>1, <2>2
  <2> HIDE DEF X, j
  <2>6. Where(st2, S) = {x \in Where(st, S) : x[1] # t \/ x[2] <= j} \cup X
    BY <1>4, <2>3, WhereEqual
  <2>4. ASSUME NEW x \in Where(st, S)
        PROVE  (x[1] # t \/ x[2] <= n - 1) <=> x # <<t, n>>
    <3>1. x = <<x[1], x[2]>> /\ x[2] \in 1..Len(st[x[1]])
      BY WhereIn
    <3>2. x[1] = t => x[2] \in 1..n
      BY <3>1 DEF n
    <3> QED BY <1>1, <3>1, <3>2
  <2>5. <<t, n>> \in Where(st, S) <=> Head(st[t]) \in S
    BY <1>1, WhereIn DEF n
  <2> QED BY <2>4, <2>5, <2>6 DEF X, j
<1> QED BY <1>1, <1>4, <1>5, <1>6

LEMMA ReturnedFacts ==
  ASSUME NEW st \in Stacks, NEW st2, NEW t \in Threads, NEW c \in Frames,
         Returned(st, st2, t, c)
  PROVE  LET n == Len(st[t])
         IN /\ st2 \in Stacks /\ n \in Nat /\ n >= 2
            /\ Above(st, st2, t, n - 2) /\ Len(st2[t]) = n - 1 /\ Deep(st2[t], n - 1) = c
            /\ Deep(st[t], n - 1) = st[t][2] /\ st[t][2] \in Frames
            /\ \A S : /\ Where(st2, S) = (Where(st, S) \ {<<t, n>>, <<t, n - 1>>})
                                           \cup One(S, c, <<t, n - 1>>)
                      /\ <<t, n>> \in Where(st, S) <=> Head(st[t]) \in S
                      /\ <<t, n - 1>> \in Where(st, S) <=> st[t][2] \in S
<1> DEFINE n == Len(st[t])
           s1 == [st EXCEPT ![t] = Tail(st[t])]
<1>1. /\ st[t] \in Seq(Frames) /\ st[t] # <<>> /\ Tail(st[t]) # <<>> /\ n \in Nat /\ n >= 2
      /\ st[t][2] = Head(Tail(st[t])) /\ st[t][2] \in Frames
      /\ Deep(st[t], n - 1) = st[t][2]
  BY SecondFacts DEF Stacks, Returned
<1>2. Popped(st, s1, t)
  BY <1>1 DEF Popped
<1>3. s1[t] = Tail(st[t])
  BY DEF Stacks
<1>4. Changed(s1, st2, t, c)
  BY <1>1, <1>3 DEF Changed, Returned, Stacks
<1> HIDE DEF s1
<1>5. /\ s1 \in Stacks
      /\ Above(st, s1, t, n - 1) /\ Len(s1[t]) = n - 1
      /\ \A S : /\ Where(s1, S) = Where(st, S) \ {<<t, n>>}
                /\ <<t, n>> \in Where(st, S) <=> Head(st[t]) \in S
  BY <1>2, PoppedFacts
<1>6. /\ st2 \in Stacks
      /\ Above(s1, st2, t, (n - 1) - 1) /\ Len(st2[t]) = n - 1 /\ Deep(st2[t], n - 1) = c
      /\ \A S : /\ Where(st2, S) = (Where(s1, S) \ {<<t, n - 1>>}) \cup One(S, c, <<t, n - 1>>)
                /\ <<t, n - 1>> \in Where(s1, S) <=> Head(s1[t]) \in S
  <2> DEFINE N == Len(s1[t])
  <2>1. /\ st2 \in Stacks
        /\ Above(s1, st2, t, N - 1) /\ Len(st2[t]) = N /\ Deep(st2[t], N) = c
        /\ \A S : /\ Where(st2, S) = (Where(s1, S) \ {<<t, N>>}) \cup One(S, c, <<t, N>>)
                  /\ <<t, N>> \in Where(s1, S) <=> Head(s1[t]) \in S
    <3>1. s1 \in Stacks
      BY <1>5
    <3> QED BY <1>4, <3>1, ChangedFacts
  <2>2. N = n - 1
    BY <1>5
  <2> HIDE DEF N, n
  <2> QED BY <2>1, <2>2
<1> HIDE DEF n
<1>7. Above(st, st2, t, n - 2)
  BY <1>1, <1>5, <1>6 DEF Above
<1>8. ASSUME NEW S
      PROVE  /\ Where(st2, S) = (Where(st, S) \ {<<t, n>>, <<t, n - 1>>})
                                  \cup One(S, c, <<t, n - 1>>)
             /\ <<t, n - 1>> \in Where(st, S) <=> st[t][2] \in S
  <2>1. <<t, n - 1>> # <<t, n>>
    BY <1>1
  <2>2. Where(st2, S) = (Where(s1, S) \ {<<t, n - 1>>}) \cup One(S, c, <<t, n - 1>>)
    BY <1>6
  <2>3. Where(s1, S) = Where(st, S) \ {<<t, n>>}
    BY <1>5
  <2>4. <<t, n - 1>> \in Where(s1, S) <=> Head(s1[t]) \in S
    BY <1>6
  <2>5. Head(s1[t]) = st[t][2]
    BY <1>1, <1>3
  <2> QED BY <2>1, <2>2, <2>3, <2>4, <2>5
<1> QED BY <1>1, <1>5, <1>6, <1>7, <1>8 DEF n

-----------------------------------------------------------------------------
\* Chains and counts

\* g goes on as f, as far as the frames below and above can tell.
Keeps(f, g) ==
  /\ f.op = "invoke" <=> g.op = "invoke"
  /\ f.op = "invoke" => g.final = f.final /\ g.hook = f.hook

LEMMA ChainAbove ==
  ASSUME NEW s \in Seq(Frames), NEW s2 \in Seq(Frames), Chained(s), Len(s2) <= Len(s) + 1,
         \A k \in 1..(Len(s2) - 1) : Deep(s2, k) = Deep(s, k) /\ k <= Len(s),
         Len(s2) = 1 => Deep(s2, 1).op # "invoke",
         Len(s2) > 1 => Fits(Deep(s2, Len(s2) - 1), Deep(s2, Len(s2)))
  PROVE  Chained(s2)
<1> DEFINE n == Len(s)  m == Len(s2)
<1>1. n \in Nat /\ m \in Nat
  OBVIOUS
<1>2. ASSUME NEW k \in 1..m
      PROVE  IF k = 1 THEN Deep(s2, 1).op # "invoke" ELSE Fits(Deep(s2, k - 1), Deep(s2, k))
  <2>1. CASE k = m
    BY <2>1
  <2>2. CASE k # m /\ k = 1
    <3>1. 1 \in 1..(m - 1)
      <4> HIDE DEF n, m
      <4> QED BY <1>1, <1>2, <2>2
    <3>3. Deep(s2, 1) = Deep(s, 1) /\ 1 \in 1..n
      BY <1>1, <3>1
    <3> QED BY <2>2, <3>3 DEF Chained
  <2>3. CASE k # m /\ k # 1
    <3>1. k \in 1..(m - 1) /\ k - 1 \in 1..(m - 1)
      BY <1>1, <2>3
    <3>2. Deep(s2, k) = Deep(s, k) /\ Deep(s2, k - 1) = Deep(s, k - 1) /\ k \in 1..n
      BY <1>1, <3>1
    <3>3. Fits(Deep(s, k - 1), Deep(s, k))
      BY <2>3, <3>2 DEF Chained
    <3> QED BY <2>3, <3>2, <3>3
  <2> QED BY <2>1, <2>2, <2>3
<1> QED BY <1>2 DEF Chained

LEMMA FitsKeeps ==
  ASSUME NEW b, NEW f, NEW g, Fits(b, f), Keeps(f, g)
  PROVE  Fits(b, g)
BY DEF Fits, Keeps

\* The frames of the stacks of the others, and those below, stay chained.
LEMMA FramedAbove ==
  ASSUME NEW st \in Stacks, NEW st2 \in Stacks, NEW t \in Threads, Framed(st),
         NEW j, Above(st, st2, t, j), Chained(st2[t])
  PROVE  Framed(st2)
BY DEF Framed, Above, Stacks

\* Two frames of which the upper one is at the top.
LEMMA TopFits ==
  ASSUME NEW st \in Stacks, NEW t \in Threads, Framed(st), st[t] # <<>>
  PROVE  /\ Head(st[t]) \in Frames
         /\ Len(st[t]) = 1 => Head(st[t]).op # "invoke"
         /\ Len(st[t]) > 1 => Fits(Deep(st[t], Len(st[t]) - 1), Head(st[t]))
         /\ Head(st[t]).op = "invoke" =>
              /\ Len(st[t]) >= 2 /\ st[t][2] \in Frames
              /\ Deep(st[t], Len(st[t]) - 1) = st[t][2]
              /\ Fits(st[t][2], Head(st[t]))
<1> DEFINE s == st[t]  n == Len(s)
<1>1. s \in Seq(Frames) /\ s # <<>> /\ Chained(s)
  BY DEF Stacks, Framed
<1>2. n \in Nat \ {0} /\ Deep(s, n) = Head(s) /\ Head(s) \in Frames
  BY <1>1, TailFacts
<1>3. IF n = 1 THEN Deep(s, 1).op # "invoke" ELSE Fits(Deep(s, n - 1), Deep(s, n))
  <2>1. n \in 1..Len(s)
    BY <1>2
  <2> HIDE DEF n, s
  <2> QED BY <1>1, <2>1 DEF Chained
<1>4. n >= 2 => Deep(s, n - 1) = s[2] /\ s[2] \in Frames
  <2>1. CASE n >= 2
    BY <1>1, <2>1, SecondFacts
  <2> QED BY <2>1
<1> HIDE DEF n
<1>7. (n >= 2 <=> n > 1) /\ (n # 1 <=> n >= 2)
  BY <1>2
<1>5. Head(s).op = "invoke" => n >= 2
  BY <1>2, <1>3, <1>7
<1>6. n > 1 => Fits(Deep(s, n - 1), Head(s))
  BY <1>2, <1>3, <1>7
<1> QED BY <1>2, <1>3, <1>4, <1>5, <1>6, <1>7 DEF n

LEMMA FramedPush ==
  ASSUME NEW st \in Stacks, NEW st2, NEW t \in Threads, NEW g \in Frames,
         Pushed(st, st2, t, g), Framed(st), g.op # "invoke",
         st[t] # <<>> => Head(st[t]).op = "invoke" /\ Head(st[t]).at \in {"hook", "return"}
  PROVE  Framed(st2)
<1> DEFINE s == st[t]  s2 == st2[t]  n == Len(s)
<1>1. /\ st2 \in Stacks /\ n \in Nat /\ Above(st, st2, t, n) /\ Len(s2) = n + 1
      /\ Deep(s2, n + 1) = g
  BY PushedFacts
<1>2. s \in Seq(Frames) /\ s2 \in Seq(Frames) /\ Chained(s)
  BY <1>1 DEF Stacks, Framed
<1>3. \A k \in 1..n : Deep(s2, k) = Deep(s, k)
  BY <1>1 DEF Above
<1>4. n > 0 => Deep(s, n) = Head(s) /\ s # <<>>
  <2>1. n > 0 => s # <<>>
    BY <1>2
  <2> QED BY <1>2, <2>1, TailFacts
<1>5. n > 0 => Fits(Deep(s2, n), g)
  BY <1>1, <1>3, <1>4 DEF Fits
<1>6. Chained(s2)
  <2> HIDE DEF s, s2, n
  <2>1. /\ Len(s2) <= Len(s) + 1 /\ Len(s2) - 1 = n
        /\ \A k \in 1..(Len(s2) - 1) : Deep(s2, k) = Deep(s, k) /\ k <= Len(s)
        /\ Len(s2) = 1 => Deep(s2, 1).op # "invoke"
        /\ Len(s2) > 1 => Fits(Deep(s2, Len(s2) - 1), Deep(s2, Len(s2)))
    BY <1>1, <1>3, <1>5 DEF n
  <2> QED BY <1>2, <2>1, ChainAbove
<1> QED BY <1>1, <1>6, FramedAbove

LEMMA FramedChange ==
  ASSUME NEW st \in Stacks, NEW st2, NEW t \in Threads, NEW g \in Frames,
         Changed(st, st2, t, g), Framed(st), Keeps(Head(st[t]), g)
  PROVE  Framed(st2)
<1> DEFINE s == st[t]  s2 == st2[t]  n == Len(s)
<1>1. /\ st2 \in Stacks /\ n \in Nat \ {0} /\ Above(st, st2, t, n - 1) /\ Len(s2) = n
      /\ Deep(s2, n) = g
  BY ChangedFacts
<1>2. s \in Seq(Frames) /\ s2 \in Seq(Frames) /\ Chained(s)
  BY <1>1 DEF Stacks, Framed
<1>3. \A k \in 1..(n - 1) : Deep(s2, k) = Deep(s, k)
  BY <1>1 DEF Above
<1>4. /\ n = 1 => Head(s).op # "invoke"
      /\ n > 1 => Fits(Deep(s, n - 1), Head(s))
  BY TopFits DEF Changed
<1>5. n > 1 => Fits(Deep(s2, n - 1), g)
  <2>1. CASE n > 1
    BY <1>1, <1>3, <1>4, <2>1, FitsKeeps
  <2> QED BY <2>1
<1>6. n = 1 => g.op # "invoke"
  BY <1>4 DEF Keeps
<1>7. Chained(s2)
  <2>a. n = Len(s)
    OBVIOUS
  <2> HIDE DEF s, s2, n
  <2>1. /\ Len(s2) <= Len(s) + 1
        /\ \A k \in 1..(Len(s2) - 1) : Deep(s2, k) = Deep(s, k) /\ k <= Len(s)
    BY <1>1, <1>3, <2>a
  <2>2. Len(s2) = 1 => Deep(s2, 1).op # "invoke"
    BY <1>1, <1>6
  <2>3. Len(s2) > 1 => Fits(Deep(s2, Len(s2) - 1), Deep(s2, Len(s2)))
    BY <1>1, <1>5
  <2> QED BY <1>2, <2>1, <2>2, <2>3, ChainAbove
<1> QED BY <1>1, <1>7, FramedAbove

LEMMA FramedCall ==
  ASSUME NEW st \in Stacks, NEW st2, NEW t \in Threads, NEW c \in Frames, NEW g \in Frames,
         Called(st, st2, t, c, g), Framed(st), Keeps(Head(st[t]), c), Fits(c, g)
  PROVE  Framed(st2)
<1>4. LET n == Len(st[t])
      IN /\ st2 \in Stacks /\ n \in Nat \ {0}
         /\ Above(st, st2, t, n - 1) /\ Len(st2[t]) = n + 1
         /\ Deep(st2[t], n) = c /\ Deep(st2[t], n + 1) = g
         /\ \A S : /\ Where(st2, S) = ((Where(st, S) \ {<<t, n>>}) \cup One(S, c, <<t, n>>))
                                        \cup One(S, g, <<t, n + 1>>)
                   /\ <<t, n>> \in Where(st, S) <=> Head(st[t]) \in S
                   /\ <<t, n + 1>> \notin Where(st, S)
  BY CalledFacts
<1> DEFINE s1 == [st EXCEPT ![t] = <<c>> \o Tail(st[t])]
           n == Len(st[t])
<1>1. Changed(st, s1, t, c)
  BY DEF Changed, Called
<1> HIDE DEF s1
<1>2. s1 \in Stacks /\ Framed(s1)
  BY <1>1, ChangedFacts, FramedChange
<1>3. /\ n \in Nat \ {0} /\ Len(s1[t]) = n /\ Deep(s1[t], n) = c
      /\ Above(st, s1, t, n - 1)
  BY <1>1, ChangedFacts
<1> DEFINE s == s1[t]  s2 == st2[t]
<1>5. s \in Seq(Frames) /\ s2 \in Seq(Frames) /\ Chained(s)
  BY <1>2, <1>4 DEF Stacks, Framed
<1>9. /\ Above(st, st2, t, n - 1) /\ Len(st2[t]) = n + 1
      /\ Deep(st2[t], n) = c /\ Deep(st2[t], n + 1) = g
  BY <1>4
<1> HIDE DEF n
<1>6. \A k \in 1..n : Deep(s2, k) = Deep(s, k)
  <2> SUFFICES ASSUME NEW k \in 1..n PROVE Deep(s2, k) = Deep(s, k)
    OBVIOUS
  <2>1. CASE k = n
    BY <1>3, <1>9, <2>1
  <2>2. CASE k # n
    <3>1. k \in 1..(n - 1)
      BY <1>3, <2>2
    <3> QED BY <1>3, <1>9, <3>1 DEF Above
  <2> QED BY <2>1, <2>2
<1>8. Chained(s2)
  <2>a. Len(s) = n /\ Len(s2) = n + 1 /\ Deep(s2, n) = c /\ Deep(s2, n + 1) = g
    BY <1>3, <1>9
  <2> HIDE DEF s, s2
  <2>1. /\ Len(s2) <= Len(s) + 1 /\ Len(s2) > 1 /\ Len(s2) - 1 = n
        /\ \A k \in 1..(Len(s2) - 1) : Deep(s2, k) = Deep(s, k) /\ k <= Len(s)
    BY <1>3, <1>6, <2>a
  <2>2. Fits(Deep(s2, Len(s2) - 1), Deep(s2, Len(s2)))
    BY <2>1, <2>a
  <2>3. Len(s2) = 1 => Deep(s2, 1).op # "invoke"
    BY <2>1
  <2> QED BY <1>5, <2>1, <2>2, <2>3, ChainAbove
<1> QED BY <1>4, <1>8, FramedAbove

LEMMA FramedPop ==
  ASSUME NEW st \in Stacks, NEW st2, NEW t \in Threads, Popped(st, st2, t), Framed(st)
  PROVE  Framed(st2)
<1>1. LET n == Len(st[t])
      IN /\ st2 \in Stacks /\ n \in Nat \ {0}
         /\ Above(st, st2, t, n - 1) /\ Len(st2[t]) = n - 1
         /\ \A S : /\ Where(st2, S) = Where(st, S) \ {<<t, n>>}
                   /\ <<t, n>> \in Where(st, S) <=> Head(st[t]) \in S
  BY PoppedFacts
<1> DEFINE s == st[t]  s2 == st2[t]  n == Len(s)
<1>2. s \in Seq(Frames) /\ s2 \in Seq(Frames) /\ Chained(s)
  BY <1>1 DEF Stacks, Framed
<1>3. \A k \in 1..(n - 1) : Deep(s2, k) = Deep(s, k)
  BY <1>1 DEF Above
<1>4. ASSUME NEW k \in 1..(n - 1)
      PROVE  IF k = 1 THEN Deep(s2, 1).op # "invoke" ELSE Fits(Deep(s2, k - 1), Deep(s2, k))
  <2>1. k \in 1..n /\ Deep(s2, k) = Deep(s, k) /\ (k # 1 => k - 1 \in 1..(n - 1))
    BY <1>1, <1>3
  <2>2. k # 1 => Deep(s2, k - 1) = Deep(s, k - 1)
    BY <1>3, <2>1
  <2>3. IF k = 1 THEN Deep(s, 1).op # "invoke" ELSE Fits(Deep(s, k - 1), Deep(s, k))
    BY <1>2, <2>1 DEF Chained
  <2> QED BY <2>1, <2>2, <2>3
<1>5. Chained(s2)
  BY <1>1, <1>4 DEF Chained
<1> QED BY <1>1, <1>5, FramedAbove

LEMMA FramedReturn ==
  ASSUME NEW st \in Stacks, NEW st2, NEW t \in Threads, NEW c \in Frames,
         Returned(st, st2, t, c), Framed(st), Keeps(st[t][2], c)
  PROVE  Framed(st2)
<1> DEFINE s1 == [st EXCEPT ![t] = Tail(st[t])]
<1>1. st[t] \in Seq(Frames) /\ st[t] # <<>> /\ Tail(st[t]) # <<>> /\ st[t][2] = Head(Tail(st[t]))
  BY SecondFacts DEF Stacks, Returned
<1>2. Popped(st, s1, t)
  BY <1>1 DEF Popped
<1>3. s1 \in Stacks /\ Framed(s1)
  BY <1>2, PoppedFacts, FramedPop
<1>4. s1[t] = Tail(st[t])
  BY DEF Stacks
<1>5. Changed(s1, st2, t, c)
  BY <1>1, <1>4 DEF Changed, Returned, Stacks
<1> HIDE DEF s1
<1>6. Keeps(Head(s1[t]), c)
  BY <1>1, <1>4
<1> QED BY <1>3, <1>5, <1>6, FramedChange

-----------------------------------------------------------------------------
\* Work at the same places, and the sole work

\* The frame goes on with the same work, at the same place of it.
Alike(f, g) ==
  /\ g.op = f.op /\ g.at = f.at /\ g.todo = f.todo /\ g.gen = f.gen
  /\ f.at = "unloaded" => g.result = f.result

Steady(st, st2) ==
  /\ Where(st2, Work) = Where(st, Work)
  /\ \A x \in Where(st, Work) :
       /\ Alike(Deep(st[x[1]], x[2]), Deep(st2[x[1]], x[2]))
       /\ Prep(st2[x[1]], x[2]) = Prep(st[x[1]], x[2])

Idle(st) == Where(st, Work) = {}

\* The only work is f, at x, with the hook prepared.
Sole(st, x, f, hook) ==
  Where(st, Work) = {x} /\ Deep(st[x[1]], x[2]) = f /\ Prep(st[x[1]], x[2]) = hook

LEMMA WorkNotInvoke ==
  ASSUME NEW f \in Frames
  PROVE  /\ f \in Work => f.op # "invoke" /\ f.op # "event"
         /\ f \in Work <=> f.op \in {"start", "end"} \/ f \in Tearing
         /\ f \in Tearing <=> f.op = "unload" /\ f.at # "unload"
BY DEF Work, Tearing, Unloads

LEMMA AlikeSelf ==
  ASSUME NEW f
  PROVE  Alike(f, f)
BY DEF Alike

\* A work below the depth j is as it was, and so is what is prepared on it.
LEMMA BelowSame ==
  ASSUME NEW st \in Stacks, NEW st2 \in Stacks, NEW t \in Threads, NEW j,
         Above(st, st2, t, j), NEW x \in Where(st, Work), x[1] # t \/ x[2] <= j
  PROVE  /\ Deep(st2[x[1]], x[2]) = Deep(st[x[1]], x[2])
         /\ x[1] # t \/ x[2] < j => Prep(st2[x[1]], x[2]) = Prep(st[x[1]], x[2])
<1>1. x[1] \in Threads /\ x[2] \in 1..Len(st[x[1]])
  BY WhereIn
<1>2. CASE x[1] # t
  <2>1. st2[x[1]] = st[x[1]]
    BY <1>1, <1>2 DEF Above
  <2> QED BY <2>1
<1>3. CASE x[1] = t /\ x[2] <= j
  <2> DEFINE k == x[2]
  <2>1. Len(st[t]) \in Nat /\ Len(st2[t]) \in Nat /\ j \in Nat /\ k \in Nat /\ k >= 1
        /\ j <= Len(st[t]) /\ j <= Len(st2[t])
    BY <1>1, <1>3 DEF Above, Stacks
  <2> HIDE DEF k
  <2>2. k \in 1..j
    BY <1>3, <2>1 DEF k
  <2>3. Deep(st2[t], k) = Deep(st[t], k)
    BY <2>2 DEF Above
  <2>4. CASE k < j
    <3>1. k + 1 \in 1..j
      BY <2>1, <2>4
    <3>2. Deep(st2[t], k + 1) = Deep(st[t], k + 1)
      BY <3>1 DEF Above
    <3>3. k < Len(st[t]) /\ k < Len(st2[t])
      BY <2>1, <2>4
    <3>4. Prep(st2[t], k) = Prep(st[t], k)
      BY <3>2, <3>3 DEF Prep
    <3> QED BY <1>3, <2>3, <3>4 DEF k
  <2>5. CASE ~(k < j)
    BY <1>3, <2>3, <2>5 DEF k
  <2> QED BY <2>4, <2>5
<1> QED BY <1>2, <1>3

\* Nothing is prepared on the frame at the top.
LEMMA PrepTop ==
  ASSUME NEW st \in Stacks, NEW t \in Threads, NEW n, n = Len(st[t])
  PROVE  Prep(st[t], n) = <<>>
<1>1. ~(n < Len(st[t]))
  BY DEF Stacks
<1> QED BY <1>1 DEF Prep

LEMMA SteadyPush ==
  ASSUME NEW st \in Stacks, NEW st2, NEW t \in Threads, NEW g \in Frames, g \notin Work,
         Pushed(st, st2, t, g), ~Ready(g)
  PROVE  Steady(st, st2)
<1> DEFINE n == Len(st[t])
<1>1. /\ st2 \in Stacks /\ n \in Nat
      /\ Above(st, st2, t, n) /\ Len(st2[t]) = n + 1 /\ Deep(st2[t], n + 1) = g
      /\ \A S : /\ Where(st2, S) = Where(st, S) \cup One(S, g, <<t, n + 1>>)
                /\ <<t, n + 1>> \notin Where(st, S)
  BY PushedFacts
<1>2. Where(st2, Work) = Where(st, Work)
  BY <1>1 DEF One
<1>3. ASSUME NEW x \in Where(st, Work)
      PROVE  /\ Deep(st2[x[1]], x[2]) = Deep(st[x[1]], x[2])
             /\ Prep(st2[x[1]], x[2]) = Prep(st[x[1]], x[2])
  <2>1. x[1] \in Threads /\ x[2] \in 1..Len(st[x[1]])
    BY WhereIn
  <2>2. x[1] # t \/ x[2] <= n
    BY <1>1, <2>1
  <2>3. CASE x[1] # t \/ x[2] < n
    BY <1>1, <2>2, <2>3, BelowSame
  <2>4. CASE x[1] = t /\ x[2] = n
    <3>1. Prep(st[t], n) = <<>>
      BY PrepTop
    <3>2. Prep(st2[t], n) = <<>>
      BY <1>1 DEF Prep
    <3>3. Deep(st2[x[1]], x[2]) = Deep(st[x[1]], x[2])
      BY <1>1, <2>2, BelowSame
    <3> QED BY <2>4, <3>1, <3>2, <3>3
  <2> HIDE DEF n
  <2>5. x[1] = t => x[2] \in Nat /\ (x[2] < n \/ x[2] = n)
    BY <1>1, <2>1, <2>2 DEF n
  <2> QED BY <2>3, <2>4, <2>5
<1> QED BY <1>2, <1>3, AlikeSelf DEF Steady

LEMMA SteadyChange ==
  ASSUME NEW st \in Stacks, NEW st2, NEW t \in Threads, NEW g \in Frames, g \notin Work,
         Changed(st, st2, t, g), Head(st[t]) \notin Work, ~Ready(Head(st[t])), ~Ready(g)
  PROVE  Steady(st, st2)
<1> DEFINE n == Len(st[t])
<1>1. /\ st2 \in Stacks /\ n \in Nat \ {0}
      /\ Above(st, st2, t, n - 1) /\ Len(st2[t]) = n /\ Deep(st2[t], n) = g
      /\ \A S : /\ Where(st2, S) = (Where(st, S) \ {<<t, n>>}) \cup One(S, g, <<t, n>>)
                /\ <<t, n>> \in Where(st, S) <=> Head(st[t]) \in S
  BY ChangedFacts
<1>2. Where(st2, Work) = Where(st, Work) /\ <<t, n>> \notin Where(st, Work)
  <2> HIDE DEF n
  <2>1. /\ Where(st2, Work) = (Where(st, Work) \ {<<t, n>>}) \cup One(Work, g, <<t, n>>)
        /\ <<t, n>> \notin Where(st, Work)
    BY <1>1 DEF n
  <2> QED BY <2>1 DEF One
<1>a. Deep(st[t], n) = Head(st[t])
  BY TailFacts DEF Changed, Stacks
<1>3. ASSUME NEW x \in Where(st, Work)
      PROVE  /\ Deep(st2[x[1]], x[2]) = Deep(st[x[1]], x[2])
             /\ Prep(st2[x[1]], x[2]) = Prep(st[x[1]], x[2])
  <2>1. x = <<x[1], x[2]>> /\ x[1] \in Threads /\ x[2] \in 1..Len(st[x[1]])
    BY WhereIn
  <2> HIDE DEF n
  <2>2. x[1] # t \/ x[2] <= n - 1
    BY <1>1, <1>2, <2>1 DEF n
  <2>3. CASE x[1] # t \/ x[2] < n - 1
    BY <1>1, <2>2, <2>3, BelowSame
  <2>4. CASE x[1] = t /\ x[2] = n - 1
    <3>1. (n - 1) + 1 = n
      BY <1>1
    <3>2. Prep(st2[t], n - 1) = <<>> /\ Prep(st[t], n - 1) = <<>>
      BY <1>1, <1>a, <3>1 DEF Prep
    <3>3. Deep(st2[x[1]], x[2]) = Deep(st[x[1]], x[2])
      BY <1>1, <2>2, BelowSame
    <3> QED BY <2>4, <3>2, <3>3
  <2>5. x[1] = t => x[2] \in Nat /\ (x[2] < n - 1 \/ x[2] = n - 1)
    BY <1>1, <2>1, <2>2 DEF n
  <2> QED BY <2>3, <2>4, <2>5
<1> QED BY <1>2, <1>3, AlikeSelf DEF Steady

LEMMA SteadyCall ==
  ASSUME NEW st \in Stacks, NEW st2, NEW t \in Threads, NEW c \in Frames, NEW g \in Frames,
         c \notin Work, g \notin Work, Called(st, st2, t, c, g), Head(st[t]) \notin Work,
         ~Ready(Head(st[t])), ~Ready(c), ~Ready(g)
  PROVE  Steady(st, st2)
<1> DEFINE n == Len(st[t])
<1>1. /\ st2 \in Stacks /\ n \in Nat \ {0}
      /\ Above(st, st2, t, n - 1) /\ Len(st2[t]) = n + 1
      /\ Deep(st2[t], n) = c /\ Deep(st2[t], n + 1) = g
      /\ \A S : /\ Where(st2, S) = ((Where(st, S) \ {<<t, n>>}) \cup One(S, c, <<t, n>>))
                                     \cup One(S, g, <<t, n + 1>>)
                /\ <<t, n>> \in Where(st, S) <=> Head(st[t]) \in S
                /\ <<t, n + 1>> \notin Where(st, S)
  BY CalledFacts
<1>2. Where(st2, Work) = Where(st, Work) /\ <<t, n>> \notin Where(st, Work)
  <2> HIDE DEF n
  <2>1. /\ Where(st2, Work) = ((Where(st, Work) \ {<<t, n>>}) \cup One(Work, c, <<t, n>>))
                                \cup One(Work, g, <<t, n + 1>>)
        /\ <<t, n>> \notin Where(st, Work)
    BY <1>1 DEF n
  <2> QED BY <2>1 DEF One
<1>a. Deep(st[t], n) = Head(st[t])
  BY TailFacts DEF Called, Stacks
<1>3. ASSUME NEW x \in Where(st, Work)
      PROVE  /\ Deep(st2[x[1]], x[2]) = Deep(st[x[1]], x[2])
             /\ Prep(st2[x[1]], x[2]) = Prep(st[x[1]], x[2])
  <2>1. x = <<x[1], x[2]>> /\ x[1] \in Threads /\ x[2] \in 1..Len(st[x[1]])
    BY WhereIn
  <2> HIDE DEF n
  <2>2. x[1] # t \/ x[2] <= n - 1
    BY <1>1, <1>2, <2>1 DEF n
  <2>3. CASE x[1] # t \/ x[2] < n - 1
    BY <1>1, <2>2, <2>3, BelowSame
  <2>4. CASE x[1] = t /\ x[2] = n - 1
    <3>1. (n - 1) + 1 = n
      BY <1>1
    <3>2. Prep(st2[t], n - 1) = <<>> /\ Prep(st[t], n - 1) = <<>>
      BY <1>1, <1>a, <3>1 DEF Prep
    <3>3. Deep(st2[x[1]], x[2]) = Deep(st[x[1]], x[2])
      BY <1>1, <2>2, BelowSame
    <3> QED BY <2>4, <3>2, <3>3
  <2>5. x[1] = t => x[2] \in Nat /\ (x[2] < n - 1 \/ x[2] = n - 1)
    BY <1>1, <2>1, <2>2 DEF n
  <2> QED BY <2>3, <2>4, <2>5
<1> QED BY <1>2, <1>3, AlikeSelf DEF Steady

LEMMA SteadyPop ==
  ASSUME NEW st \in Stacks, NEW st2, NEW t \in Threads,
         Popped(st, st2, t), Head(st[t]) \notin Work, ~Ready(Head(st[t]))
  PROVE  Steady(st, st2)
<1> DEFINE n == Len(st[t])
<1>1. /\ st2 \in Stacks /\ n \in Nat \ {0}
      /\ Above(st, st2, t, n - 1) /\ Len(st2[t]) = n - 1
      /\ \A S : /\ Where(st2, S) = Where(st, S) \ {<<t, n>>}
                /\ <<t, n>> \in Where(st, S) <=> Head(st[t]) \in S
  BY PoppedFacts
<1>2. Where(st2, Work) = Where(st, Work) /\ <<t, n>> \notin Where(st, Work)
  BY <1>1
<1>a. Deep(st[t], n) = Head(st[t])
  BY TailFacts DEF Popped, Stacks
<1>3. ASSUME NEW x \in Where(st, Work)
      PROVE  /\ Deep(st2[x[1]], x[2]) = Deep(st[x[1]], x[2])
             /\ Prep(st2[x[1]], x[2]) = Prep(st[x[1]], x[2])
  <2>1. x = <<x[1], x[2]>> /\ x[1] \in Threads /\ x[2] \in 1..Len(st[x[1]])
    BY WhereIn
  <2> HIDE DEF n
  <2>2. x[1] # t \/ x[2] <= n - 1
    BY <1>1, <1>2, <2>1 DEF n
  <2>3. CASE x[1] # t \/ x[2] < n - 1
    BY <1>1, <2>2, <2>3, BelowSame
  <2>4. CASE x[1] = t /\ x[2] = n - 1
    <3>1. (n - 1) + 1 = n
      BY <1>1
    <3>5. ~(n - 1 < Len(st2[t]))
      BY <1>1 DEF n
    <3>2. Prep(st2[t], n - 1) = <<>> /\ Prep(st[t], n - 1) = <<>>
      BY <1>1, <1>a, <3>1, <3>5 DEF Prep
    <3>3. Deep(st2[x[1]], x[2]) = Deep(st[x[1]], x[2])
      BY <1>1, <2>2, BelowSame
    <3> QED BY <2>4, <3>2, <3>3
  <2>5. x[1] = t => x[2] \in Nat /\ (x[2] < n - 1 \/ x[2] = n - 1)
    BY <1>1, <2>1, <2>2 DEF n
  <2> QED BY <2>3, <2>4, <2>5
<1> QED BY <1>2, <1>3, AlikeSelf DEF Steady

LEMMA SteadyReturn ==
  ASSUME NEW st \in Stacks, NEW st2, NEW t \in Threads, NEW c \in Frames,
         Returned(st, st2, t, c), Head(st[t]) \notin Work, ~Ready(Head(st[t])),
         c \in Work <=> st[t][2] \in Work, Alike(st[t][2], c),
         ~Ready(st[t][2]), ~Ready(c)
  PROVE  Steady(st, st2)
<1> DEFINE n == Len(st[t])
<1>1. /\ st2 \in Stacks /\ n \in Nat /\ n >= 2
      /\ Above(st, st2, t, n - 2) /\ Len(st2[t]) = n - 1 /\ Deep(st2[t], n - 1) = c
      /\ Deep(st[t], n - 1) = st[t][2] /\ st[t][2] \in Frames
      /\ \A S : /\ Where(st2, S) = (Where(st, S) \ {<<t, n>>, <<t, n - 1>>})
                                     \cup One(S, c, <<t, n - 1>>)
                /\ <<t, n>> \in Where(st, S) <=> Head(st[t]) \in S
                /\ <<t, n - 1>> \in Where(st, S) <=> st[t][2] \in S
  BY ReturnedFacts
<1>2. Where(st2, Work) = Where(st, Work) /\ <<t, n>> \notin Where(st, Work)
  <2> HIDE DEF n
  <2>1. <<t, n>> \notin Where(st, Work)
    BY <1>1 DEF n
  <2>2. Where(st2, Work) = (Where(st, Work) \ {<<t, n>>, <<t, n - 1>>})
                              \cup One(Work, c, <<t, n - 1>>)
        /\ (<<t, n - 1>> \in Where(st, Work) <=> c \in Work)
    BY <1>1 DEF n
  <2> QED BY <2>1, <2>2 DEF One
<1>a. Deep(st[t], n) = Head(st[t])
  <2>1. st[t] \in Seq(Frames) /\ st[t] # <<>>
    BY <1>1, SecondFacts DEF Returned, Stacks
  <2> QED BY <2>1, TailFacts
<1>3. ASSUME NEW x \in Where(st, Work)
      PROVE  /\ Alike(Deep(st[x[1]], x[2]), Deep(st2[x[1]], x[2]))
             /\ Prep(st2[x[1]], x[2]) = Prep(st[x[1]], x[2])
  <2>1. x = <<x[1], x[2]>> /\ x[1] \in Threads /\ x[2] \in 1..Len(st[x[1]])
    BY WhereIn
  <2> HIDE DEF n
  <2>2. x[1] # t \/ x[2] <= n - 1
    BY <1>1, <1>2, <2>1 DEF n
  <2>3. CASE x[1] # t \/ x[2] < n - 2
    <3>1. x[1] # t \/ x[2] <= n - 2
      BY <1>1, <2>1, <2>3 DEF n
    <3> QED BY <1>1, <2>3, <3>1, BelowSame, AlikeSelf
  <2>4. CASE x[1] = t /\ x[2] = n - 2
    <3>1. (n - 2) + 1 = n - 1 /\ n - 2 < Len(st[t]) /\ n - 2 < Len(st2[t])
      BY <1>1 DEF n
    <3>2. Prep(st2[t], n - 2) = <<>> /\ Prep(st[t], n - 2) = <<>>
      BY <1>1, <3>1 DEF Prep
    <3>3. x[1] # t \/ x[2] <= n - 2
      BY <1>1, <2>4
    <3>4. Deep(st2[x[1]], x[2]) = Deep(st[x[1]], x[2])
      BY <1>1, <3>3, BelowSame
    <3> QED BY <2>4, <3>2, <3>4, AlikeSelf
  <2>5. CASE x[1] = t /\ x[2] = n - 1
    <3>1. (n - 1) + 1 = n
      BY <1>1
    <3>5. ~(n - 1 < Len(st2[t]))
      BY <1>1 DEF n
    <3>2. Prep(st2[t], n - 1) = <<>> /\ Prep(st[t], n - 1) = <<>>
      BY <1>1, <1>a, <3>1, <3>5 DEF Prep
    <3> QED BY <1>1, <2>5, <3>2
  <2>6. x[1] = t => x[2] \in Nat /\ (x[2] < n - 2 \/ x[2] = n - 2 \/ x[2] = n - 1)
    <3> SUFFICES ASSUME x[1] = t
                 PROVE  x[2] \in Nat /\ (x[2] < n - 2 \/ x[2] = n - 2 \/ x[2] = n - 1)
      OBVIOUS
    <3>1. n \in Nat /\ n = Len(st[t])
      BY <1>1 DEF n
    <3>2. x[2] \in Nat /\ x[2] <= n - 1
      BY <2>1, <2>2, <3>1
    <3> QED BY <3>1, <3>2
  <2> QED BY <2>3, <2>4, <2>5, <2>6
<1> QED BY <1>2, <1>3 DEF Steady

-----------------------------------------------------------------------------
\* How the sole work moves

LEMMA TopPlace ==
  ASSUME NEW st \in Stacks, NEW t \in Threads, st[t] # <<>>, NEW S
  PROVE  LET x == <<t, Len(st[t])>>
         IN /\ x[1] = t /\ x[2] = Len(st[t]) /\ Len(st[t]) \in Nat \ {0}
            /\ Deep(st[t], Len(st[t])) = Head(st[t]) /\ Head(st[t]) \in Frames
            /\ Prep(st[t], Len(st[t])) = <<>>
            /\ x \in Where(st, S) <=> Head(st[t]) \in S
<1>1. /\ Len(st[t]) \in Nat \ {0} /\ Deep(st[t], Len(st[t])) = Head(st[t])
      /\ Head(st[t]) \in Frames
  BY TailFacts DEF Stacks
<1>2. Prep(st[t], Len(st[t])) = <<>>
  BY PrepTop
<1>3. <<t, Len(st[t])>> \in Where(st, S) <=> Head(st[t]) \in S
  <2>1. <<t, Len(st[t])>> \in Where(st, S)
          <=> Len(st[t]) \in 1..Len(st[t]) /\ Deep(st[t], Len(st[t])) \in S
    BY <1>1, WhereIn
  <2>2. Len(st[t]) \in 1..Len(st[t])
    BY <1>1
  <2> QED BY <1>1, <2>1, <2>2
<1> QED BY <1>1, <1>2, <1>3

LEMMA TopSole ==
  ASSUME NEW st \in Stacks, NEW t \in Threads, st[t] # <<>>, Head(st[t]) \in Work,
         \A x, y \in Where(st, Work) : x = y
  PROVE  /\ Where(st, Work) = {<<t, Len(st[t])>>}
         /\ Sole(st, <<t, Len(st[t])>>, Head(st[t]), <<>>)
<1>1. LET x == <<t, Len(st[t])>>
      IN /\ x[1] = t /\ x[2] = Len(st[t]) /\ Len(st[t]) \in Nat \ {0}
         /\ Deep(st[t], Len(st[t])) = Head(st[t]) /\ Head(st[t]) \in Frames
         /\ Prep(st[t], Len(st[t])) = <<>>
         /\ x \in Where(st, Work) <=> Head(st[t]) \in Work
  BY TopPlace
<1>2. Where(st, Work) = {<<t, Len(st[t])>>}
  BY <1>1
<1> QED BY <1>1, <1>2 DEF Sole

LEMMA MoveChange ==
  ASSUME NEW st \in Stacks, NEW st2, NEW t \in Threads, NEW g \in Frames,
         Changed(st, st2, t, g), Where(st, Work) \subseteq {<<t, Len(st[t])>>}
  PROVE  IF g \in Work THEN Sole(st2, <<t, Len(st[t])>>, g, <<>>) ELSE Idle(st2)
<1> DEFINE n == Len(st[t])
<1>1. /\ st2 \in Stacks /\ n \in Nat \ {0}
      /\ Above(st, st2, t, n - 1) /\ Len(st2[t]) = n /\ Deep(st2[t], n) = g
      /\ \A S : /\ Where(st2, S) = (Where(st, S) \ {<<t, n>>}) \cup One(S, g, <<t, n>>)
                /\ <<t, n>> \in Where(st, S) <=> Head(st[t]) \in S
  BY ChangedFacts
<1> HIDE DEF n
<1>2. Where(st2, Work) = (Where(st, Work) \ {<<t, n>>}) \cup One(Work, g, <<t, n>>)
  BY <1>1
<1>3. Where(st2, Work) = IF g \in Work THEN {<<t, n>>} ELSE {}
  BY <1>2 DEF One, n
<1>4. Prep(st2[t], n) = <<>>
  BY <1>1, PrepTop
<1> QED BY <1>1, <1>3, <1>4 DEF Sole, Idle, n

LEMMA MoveCall ==
  ASSUME NEW st \in Stacks, NEW st2, NEW t \in Threads, NEW c \in Frames, NEW g \in Frames,
         Called(st, st2, t, c, g), Where(st, Work) \subseteq {<<t, Len(st[t])>>}
  PROVE  /\ c \in Work /\ g \notin Work =>
              Sole(st2, <<t, Len(st[t])>>, c, IF Ready(g) THEN <<g.hook>> ELSE <<>>)
         /\ c \notin Work /\ g \in Work => Sole(st2, <<t, Len(st[t]) + 1>>, g, <<>>)
<1> DEFINE n == Len(st[t])
<1>1. /\ st2 \in Stacks /\ n \in Nat \ {0}
      /\ Above(st, st2, t, n - 1) /\ Len(st2[t]) = n + 1
      /\ Deep(st2[t], n) = c /\ Deep(st2[t], n + 1) = g
      /\ \A S : /\ Where(st2, S) = ((Where(st, S) \ {<<t, n>>}) \cup One(S, c, <<t, n>>))
                                     \cup One(S, g, <<t, n + 1>>)
                /\ <<t, n>> \in Where(st, S) <=> Head(st[t]) \in S
                /\ <<t, n + 1>> \notin Where(st, S)
  BY CalledFacts
<1> HIDE DEF n
<1>2. Where(st2, Work) = ((Where(st, Work) \ {<<t, n>>}) \cup One(Work, c, <<t, n>>))
                            \cup One(Work, g, <<t, n + 1>>)
  BY <1>1
<1>3. /\ c \in Work /\ g \notin Work => Where(st2, Work) = {<<t, n>>}
      /\ c \notin Work /\ g \in Work => Where(st2, Work) = {<<t, n + 1>>}
  BY <1>2 DEF One, n
<1>4. Prep(st2[t], n + 1) = <<>>
  BY <1>1, PrepTop
<1>5. Prep(st2[t], n) = IF Ready(g) THEN <<g.hook>> ELSE <<>>
  <2>1. n < Len(st2[t])
    BY <1>1
  <2> QED BY <1>1, <2>1 DEF Prep
<1> QED BY <1>1, <1>3, <1>4, <1>5 DEF Sole, n

LEMMA MovePop ==
  ASSUME NEW st \in Stacks, NEW st2, NEW t \in Threads,
         Popped(st, st2, t), Where(st, Work) \subseteq {<<t, Len(st[t])>>}
  PROVE  Idle(st2)
<1> DEFINE n == Len(st[t])
<1>1. /\ st2 \in Stacks /\ n \in Nat \ {0}
      /\ Above(st, st2, t, n - 1) /\ Len(st2[t]) = n - 1
      /\ \A S : /\ Where(st2, S) = Where(st, S) \ {<<t, n>>}
                /\ <<t, n>> \in Where(st, S) <=> Head(st[t]) \in S
  BY PoppedFacts
<1>2. Where(st2, Work) = Where(st, Work) \ {<<t, n>>}
  BY <1>1
<1> QED BY <1>2 DEF Idle

LEMMA MovePush ==
  ASSUME NEW st \in Stacks, NEW st2, NEW t \in Threads, NEW g \in Frames, g \in Work,
         Pushed(st, st2, t, g), Idle(st)
  PROVE  Sole(st2, <<t, Len(st[t]) + 1>>, g, <<>>)
<1> DEFINE n == Len(st[t])
<1>1. /\ st2 \in Stacks /\ n \in Nat
      /\ Above(st, st2, t, n) /\ Len(st2[t]) = n + 1 /\ Deep(st2[t], n + 1) = g
      /\ \A S : /\ Where(st2, S) = Where(st, S) \cup One(S, g, <<t, n + 1>>)
                /\ <<t, n + 1>> \notin Where(st, S)
  BY PushedFacts
<1> HIDE DEF n
<1>2. Where(st2, Work) = {<<t, n + 1>>}
  BY <1>1 DEF One, Idle
<1>3. Prep(st2[t], n + 1) = <<>>
  BY <1>1, PrepTop
<1> QED BY <1>1, <1>2, <1>3 DEF Sole, n

\* The frame below an end or a finalizer that is prepared works.
LEMMA BelowReady ==
  ASSUME NEW st \in Stacks, NEW t \in Threads, Framed(st), st[t] # <<>>, Ready(Head(st[t])),
         Head(st[t]).op = "invoke"
  PROVE  LET y == <<t, Len(st[t]) - 1>>
         IN /\ Len(st[t]) >= 2 /\ st[t][2] \in Work /\ st[t][2].op \in {"end", "unload"}
            /\ st[t][2].at \in {"swap", "fini"}
            /\ st[t][2].at = "swap" => Head(st[t]).hook = "end"
            /\ st[t][2].at = "fini" => Head(st[t]).hook \in Range(Inits)
            /\ y \in Where(st, Work)
            /\ Deep(st[y[1]], y[2]) = st[t][2]
            /\ Prep(st[y[1]], y[2]) = <<Head(st[t]).hook>>
<1> DEFINE n == Len(st[t])  f == Head(st[t])  b == st[t][2]
<1>1. /\ n \in Nat /\ n >= 2 /\ b \in Frames /\ Deep(st[t], n - 1) = b /\ Fits(b, f)
      /\ f \in Frames
  BY TopFits DEF Stacks
<1>2. Deep(st[t], n) = f
  BY TailFacts DEF Stacks
<1>3. /\ b.op # "invoke" /\ b.at \in {"swap", "fini"}
      /\ b.at = "swap" => f.hook = "end"
      /\ b.at = "fini" => f.hook \in Range(Inits)
  BY <1>1 DEF Fits, Ready
<1>4. b.op \in {"end", "unload"} /\ b \in Work
  <2>1. Placed(b)
    BY <1>1 DEF Frames
  <2>2. b.op \in {"end", "unload"}
    BY <1>3, <2>1 DEF Placed
  <2> QED BY <1>1, <1>3, <2>2, WorkNotInvoke
<1> HIDE DEF n, f, b
<1>5. n - 1 \in Nat /\ (n - 1) + 1 = n /\ n - 1 \in 1..n /\ n - 1 < n
  BY <1>1
<1>6. <<t, n - 1>> \in Where(st, Work)
  BY <1>1, <1>4, <1>5, WhereIn DEF n
<1>7. Prep(st[t], n - 1) = <<f.hook>>
  BY <1>2, <1>5 DEF Prep, n, f
<1> QED BY <1>1, <1>3, <1>4, <1>6, <1>7 DEF n, f, b

LEMMA MovePrepared ==
  ASSUME NEW st \in Stacks, NEW st2, NEW t \in Threads, NEW g \in Frames, g \notin Work,
         Changed(st, st2, t, g), Head(st[t]) \notin Work, ~Ready(g),
         Where(st, Work) = {<<t, Len(st[t]) - 1>>}
  PROVE  Sole(st2, <<t, Len(st[t]) - 1>>, Deep(st[t], Len(st[t]) - 1), <<>>)
<1> DEFINE n == Len(st[t])
<1>1. /\ st2 \in Stacks /\ n \in Nat \ {0}
      /\ Above(st, st2, t, n - 1) /\ Len(st2[t]) = n /\ Deep(st2[t], n) = g
      /\ \A S : /\ Where(st2, S) = (Where(st, S) \ {<<t, n>>}) \cup One(S, g, <<t, n>>)
                /\ <<t, n>> \in Where(st, S) <=> Head(st[t]) \in S
  BY ChangedFacts
<1> HIDE DEF n
<1>2. Where(st2, Work) = (Where(st, Work) \ {<<t, n>>}) \cup One(Work, g, <<t, n>>)
      /\ <<t, n>> \notin Where(st, Work)
  BY <1>1
<1>3. Where(st2, Work) = {<<t, n - 1>>}
  BY <1>2 DEF One, n
<1>4. Deep(st2[t], n - 1) = Deep(st[t], n - 1)
  <2> DEFINE x == <<t, n - 1>>
  <2>1. x \in Where(st, Work) /\ x[1] = t /\ x[2] = n - 1 /\ x[2] <= n - 1
    BY <1>1 DEF n
  <2> HIDE DEF x
  <2>2. Deep(st2[x[1]], x[2]) = Deep(st[x[1]], x[2])
    BY <1>1, <2>1, BelowSame
  <2> QED BY <2>1, <2>2
<1>5. Prep(st2[t], n - 1) = <<>>
  <2>1. (n - 1) + 1 = n
    BY <1>1
  <2> QED BY <1>1, <2>1 DEF Prep
<1> QED BY <1>3, <1>4, <1>5 DEF Sole, n

-----------------------------------------------------------------------------
\* The shapes keep the stacks chained, the hooks in flight counted, and who begins
\* an application end outside.

LEMMA Others ==
  ASSUME NEW st \in Stacks, NEW st2 \in Stacks, NEW t \in Threads, NEW j,
         Above(st, st2, t, j), NEW S
  PROVE  \A y \in Where(st2, S) : y[1] # t => y \in Where(st, S)
<1> SUFFICES ASSUME NEW y \in Where(st2, S), y[1] # t
             PROVE  y \in Where(st, S)
  OBVIOUS
<1>1. y = <<y[1], y[2]>> /\ y[1] \in Threads /\ y[2] \in 1..Len(st2[y[1]])
  BY WhereIn
<1>2. y[2] \in Nat
  BY <1>1 DEF Stacks
<1> QED BY <1>1, <1>2, WhereAbove

Outer(st, t) == \A y \in Where(st, Flying) : y[1] # t

LEMMA OutsideStep ==
  ASSUME NEW st \in Stacks, NEW st2 \in Stacks, NEW t \in Threads, NEW j,
         Above(st, st2, t, j), Outside(st),
         st2[t] # <<>> /\ Head(st2[t]).op = "end" /\ Head(st2[t]).at = "end" => Outer(st2, t)
  PROVE  Outside(st2)
<1> SUFFICES ASSUME NEW u \in Threads, st2[u] # <<>>, Head(st2[u]).op = "end",
                    Head(st2[u]).at = "end", NEW y \in Where(st2, Flying), y[1] = u
             PROVE  FALSE
  BY DEF Outside
<1>1. CASE u = t
  BY <1>1 DEF Outer
<1>2. CASE u # t
  <2>1. st2[u] = st[u]
    BY <1>2 DEF Above
  <2>2. y \in Where(st, Flying)
    BY <1>2, Others
  <2> QED BY <2>1, <2>2 DEF Outside
<1> QED BY <1>1, <1>2

LEMMA FlyingInvoke ==
  ASSUME NEW f \in Frames
  PROVE  /\ f \in Flying <=> f.at \in {"prepare", "hook", "leave", "left"}
         /\ f \in Flying => f.op = "invoke"
         /\ f.op = "invoke" => f \in Flying \/ f.at = "return"
BY DEF Flying, Frames, Placed

LEMMA CountedSame ==
  ASSUME NEW st, NEW st2, NEW p, NEW p2, Counted(st, p), p2.inFlight = p.inFlight,
         Where(st2, Flying) = Where(st, Flying)
  PROVE  Counted(st2, p2)
BY DEF Counted

LEMMA CountedMore ==
  ASSUME NEW st, NEW st2, NEW p, NEW p2, Counted(st, p), p2.inFlight = p.inFlight + 1,
         NEW x, x \notin Where(st, Flying), Where(st2, Flying) = Where(st, Flying) \cup {x}
  PROVE  Counted(st2, p2)
<1>1. /\ IsFiniteSet(Where(st, Flying) \cup {x})
      /\ Cardinality(Where(st, Flying) \cup {x}) = Cardinality(Where(st, Flying)) + 1
  BY FS_AddElement DEF Counted
<1> QED BY <1>1 DEF Counted

LEMMA CountedLess ==
  ASSUME NEW st, NEW st2, NEW p, NEW p2, Counted(st, p), p2.inFlight = p.inFlight - 1,
         NEW x, x \in Where(st, Flying), Where(st2, Flying) = Where(st, Flying) \ {x}
  PROVE  Counted(st2, p2) /\ p.inFlight \in Nat \ {0} /\ p2.inFlight \in Nat
<1>1. /\ IsFiniteSet(Where(st, Flying) \ {x})
      /\ Cardinality(Where(st, Flying) \ {x}) = Cardinality(Where(st, Flying)) - 1
  BY FS_RemoveElement DEF Counted
<1>2. /\ Cardinality(Where(st, Flying)) \in Nat /\ Cardinality(Where(st, Flying) \ {x}) \in Nat
  BY <1>1, FS_CardinalityType DEF Counted
<1> QED BY <1>1, <1>2 DEF Counted

LEMMA CountedNone ==
  ASSUME NEW st, NEW p, Counted(st, p), p.inFlight = 0
  PROVE  Where(st, Flying) = {}
BY FS_EmptySet DEF Counted

LEMMA NewTop ==
  ASSUME NEW s \in Seq(Frames), NEW g \in Frames, NEW c \in Frames
  PROVE  /\ Head(<<g>> \o s) = g
         /\ Head(<<g, c>> \o s) = g
OBVIOUS

LEMMA ShapePush ==
  ASSUME NEW st \in Stacks, NEW st2, NEW p, NEW p2, NEW t \in Threads, NEW g \in Frames,
         Pushed(st, st2, t, g), Shaped(st, p), g.op # "invoke", p2.inFlight = p.inFlight,
         st[t] # <<>> => Head(st[t]).op = "invoke" /\ Head(st[t]).at \in {"hook", "return"},
         g.at = "end" => Outer(st, t)
  PROVE  /\ st2 \in Stacks /\ Shaped(st2, p2)
         /\ Where(st2, Flying) = Where(st, Flying)
<1> DEFINE n == Len(st[t])
<1>1. /\ st2 \in Stacks /\ n \in Nat
      /\ Above(st, st2, t, n) /\ Len(st2[t]) = n + 1 /\ Deep(st2[t], n + 1) = g
      /\ \A S : /\ Where(st2, S) = Where(st, S) \cup One(S, g, <<t, n + 1>>)
                /\ <<t, n + 1>> \notin Where(st, S)
  BY PushedFacts
<1> HIDE DEF n
<1>2. g \notin Flying
  BY FlyingInvoke
<1>3. Where(st2, Flying) = Where(st, Flying) \cup One(Flying, g, <<t, n + 1>>)
  BY <1>1
<1>4. Where(st2, Flying) = Where(st, Flying)
  BY <1>2, <1>3 DEF One
<1>5. Framed(st2)
  BY FramedPush DEF Shaped
<1>6. Counted(st2, p2)
  BY <1>4, CountedSame DEF Shaped
<1>7. Head(st2[t]) = g
  <2>1. st2[t] = <<g>> \o st[t] /\ st[t] \in Seq(Frames)
    BY DEF Pushed, Stacks
  <2> QED BY <2>1, NewTop
<1>8. Outside(st2)
  BY <1>1, <1>4, <1>7, OutsideStep DEF Shaped, Outer
<1> QED BY <1>1, <1>4, <1>5, <1>6, <1>8 DEF Shaped

LEMMA ShapeChange ==
  ASSUME NEW st \in Stacks, NEW st2, NEW p, NEW p2, NEW t \in Threads, NEW g \in Frames,
         Changed(st, st2, t, g), Shaped(st, p), Keeps(Head(st[t]), g),
         p2.inFlight = p.inFlight, Head(st[t]) \in Flying <=> g \in Flying, g.at # "end"
  PROVE  /\ st2 \in Stacks /\ Shaped(st2, p2)
         /\ Where(st2, Flying) = Where(st, Flying)
<1> DEFINE n == Len(st[t])
<1>1. /\ st2 \in Stacks /\ n \in Nat \ {0}
      /\ Above(st, st2, t, n - 1) /\ Len(st2[t]) = n /\ Deep(st2[t], n) = g
      /\ \A S : /\ Where(st2, S) = (Where(st, S) \ {<<t, n>>}) \cup One(S, g, <<t, n>>)
                /\ <<t, n>> \in Where(st, S) <=> Head(st[t]) \in S
  BY ChangedFacts
<1> HIDE DEF n
<1>2. /\ Where(st2, Flying) = (Where(st, Flying) \ {<<t, n>>}) \cup One(Flying, g, <<t, n>>)
      /\ <<t, n>> \in Where(st, Flying) <=> Head(st[t]) \in Flying
  BY <1>1
<1>4. Where(st2, Flying) = Where(st, Flying)
  BY <1>2 DEF One
<1>5. Framed(st2)
  BY FramedChange DEF Shaped
<1>6. Counted(st2, p2)
  BY <1>4, CountedSame DEF Shaped
<1>7. Head(st2[t]) = g
  <2>1. st2[t] = <<g>> \o Tail(st[t]) /\ Tail(st[t]) \in Seq(Frames)
    BY TailFacts DEF Changed, Stacks
  <2> QED BY <2>1, NewTop
<1>8. Outside(st2)
  BY <1>1, <1>4, <1>7, OutsideStep DEF Shaped, Outer
<1> QED BY <1>1, <1>4, <1>5, <1>6, <1>8 DEF Shaped

LEMMA ShapeCall ==
  ASSUME NEW st \in Stacks, NEW st2, NEW p, NEW p2, NEW t \in Threads,
         NEW c \in Frames, NEW g \in Frames,
         Called(st, st2, t, c, g), Shaped(st, p), Keeps(Head(st[t]), c), Fits(c, g),
         Head(st[t]) \notin Flying, c \notin Flying, g \in Flying,
         p2.inFlight = p.inFlight + 1
  PROVE  /\ st2 \in Stacks /\ Shaped(st2, p2)
         /\ Where(st2, Flying) = Where(st, Flying) \cup {<<t, Len(st[t]) + 1>>}
<1> DEFINE n == Len(st[t])
<1>1. /\ st2 \in Stacks /\ n \in Nat \ {0}
      /\ Above(st, st2, t, n - 1) /\ Len(st2[t]) = n + 1
      /\ Deep(st2[t], n) = c /\ Deep(st2[t], n + 1) = g
      /\ \A S : /\ Where(st2, S) = ((Where(st, S) \ {<<t, n>>}) \cup One(S, c, <<t, n>>))
                                     \cup One(S, g, <<t, n + 1>>)
                /\ <<t, n>> \in Where(st, S) <=> Head(st[t]) \in S
                /\ <<t, n + 1>> \notin Where(st, S)
  BY CalledFacts
<1> HIDE DEF n
<1>2. /\ Where(st2, Flying) = ((Where(st, Flying) \ {<<t, n>>}) \cup One(Flying, c, <<t, n>>))
                                 \cup One(Flying, g, <<t, n + 1>>)
      /\ <<t, n>> \in Where(st, Flying) <=> Head(st[t]) \in Flying
      /\ <<t, n + 1>> \notin Where(st, Flying)
  BY <1>1
<1>4. Where(st2, Flying) = Where(st, Flying) \cup {<<t, n + 1>>}
  BY <1>2 DEF One
<1>5. Framed(st2)
  BY FramedCall DEF Shaped
<1>6. Counted(st2, p2)
  BY <1>2, <1>4, CountedMore DEF Shaped
<1>7. Head(st2[t]) = g
  <2>1. st2[t] = <<g, c>> \o Tail(st[t]) /\ Tail(st[t]) \in Seq(Frames)
    BY TailFacts DEF Called, Stacks
  <2> QED BY <2>1, NewTop
<1>8. Outside(st2)
  BY <1>1, <1>7, FlyingInvoke, OutsideStep DEF Shaped
<1> QED BY <1>1, <1>4, <1>5, <1>6, <1>8 DEF Shaped, n

\* The hook at the top is over, and another operation begins above it.
LEMMA ShapeLeave ==
  ASSUME NEW st \in Stacks, NEW st2, NEW p, NEW p2, NEW t \in Threads,
         NEW c \in Frames, NEW g \in Frames,
         Called(st, st2, t, c, g), Shaped(st, p), Keeps(Head(st[t]), c), Fits(c, g),
         Head(st[t]) \in Flying, c \notin Flying, g \notin Flying,
         p.inFlight = 1, p2.inFlight = p.inFlight - 1
  PROVE  /\ st2 \in Stacks /\ Shaped(st2, p2) /\ p2.inFlight \in Nat
         /\ Where(st2, Flying) = {}
<1> DEFINE n == Len(st[t])
<1>1. /\ st2 \in Stacks /\ n \in Nat \ {0}
      /\ Above(st, st2, t, n - 1) /\ Len(st2[t]) = n + 1
      /\ Deep(st2[t], n) = c /\ Deep(st2[t], n + 1) = g
      /\ \A S : /\ Where(st2, S) = ((Where(st, S) \ {<<t, n>>}) \cup One(S, c, <<t, n>>))
                                     \cup One(S, g, <<t, n + 1>>)
                /\ <<t, n>> \in Where(st, S) <=> Head(st[t]) \in S
                /\ <<t, n + 1>> \notin Where(st, S)
  BY CalledFacts
<1> HIDE DEF n
<1>2. /\ Where(st2, Flying) = ((Where(st, Flying) \ {<<t, n>>}) \cup One(Flying, c, <<t, n>>))
                                 \cup One(Flying, g, <<t, n + 1>>)
      /\ <<t, n>> \in Where(st, Flying) <=> Head(st[t]) \in Flying
  BY <1>1
<1>4. Where(st2, Flying) = Where(st, Flying) \ {<<t, n>>} /\ <<t, n>> \in Where(st, Flying)
  BY <1>2 DEF One
<1>5. Framed(st2)
  BY FramedCall DEF Shaped
<1>6. Counted(st2, p2) /\ p2.inFlight \in Nat
  BY <1>4, CountedLess DEF Shaped
<1>7. Where(st2, Flying) = {}
  BY <1>6, CountedNone
<1>8. Outside(st2)
  BY <1>1, <1>7, OutsideStep DEF Shaped, Outer
<1> QED BY <1>1, <1>5, <1>6, <1>7, <1>8 DEF Shaped

LEMMA ShapePop ==
  ASSUME NEW st \in Stacks, NEW st2, NEW p, NEW p2, NEW t \in Threads,
         Popped(st, st2, t), Shaped(st, p), Head(st[t]).op # "invoke",
         p2.inFlight = p.inFlight
  PROVE  /\ st2 \in Stacks /\ Shaped(st2, p2)
         /\ Where(st2, Flying) = Where(st, Flying)
<1> DEFINE n == Len(st[t])
<1>1. /\ st2 \in Stacks /\ n \in Nat \ {0}
      /\ Above(st, st2, t, n - 1) /\ Len(st2[t]) = n - 1
      /\ \A S : /\ Where(st2, S) = Where(st, S) \ {<<t, n>>}
                /\ <<t, n>> \in Where(st, S) <=> Head(st[t]) \in S
  BY PoppedFacts
<1>a. st[t] # <<>>
  BY DEF Popped
<1>b. Head(st[t]) \notin Flying
  BY <1>a, FlyingInvoke, TopFits DEF Shaped
<1>c. n > 1 => Fits(Deep(st[t], n - 1), Head(st[t]))
  BY <1>a, TopFits DEF Shaped
<1> HIDE DEF n
<1>4. Where(st2, Flying) = Where(st, Flying)
  <2>1. /\ Where(st2, Flying) = Where(st, Flying) \ {<<t, n>>}
        /\ <<t, n>> \notin Where(st, Flying)
    BY <1>1, <1>b
  <2> QED BY <2>1
<1>5. Framed(st2)
  BY FramedPop DEF Shaped
<1>6. Counted(st2, p2)
  BY <1>4, CountedSame DEF Shaped
<1>7. st2[t] # <<>> => Head(st2[t]).op = "invoke"
  <2> SUFFICES ASSUME st2[t] # <<>> PROVE Head(st2[t]).op = "invoke"
    OBVIOUS
  <2>1. st2[t] \in Seq(Frames)
    BY <1>1 DEF Stacks
  <2>2. /\ Len(st2[t]) \in Nat \ {0} /\ Deep(st2[t], Len(st2[t])) = Head(st2[t])
    BY <2>1, TailFacts
  <2>3. n > 1 /\ n - 1 \in 1..(n - 1) /\ Len(st2[t]) = n - 1
    BY <1>1, <2>2
  <2>4. Deep(st2[t], n - 1) = Deep(st[t], n - 1)
    BY <1>1, <2>3 DEF Above
  <2> QED BY <1>c, <2>2, <2>3, <2>4 DEF Fits
<1>8. Outside(st2)
  BY <1>1, <1>7, OutsideStep DEF Shaped
<1> QED BY <1>1, <1>4, <1>5, <1>6, <1>8 DEF Shaped

LEMMA ShapeReturn ==
  ASSUME NEW st \in Stacks, NEW st2, NEW p, NEW p2, NEW t \in Threads, NEW c \in Frames,
         Returned(st, st2, t, c), Shaped(st, p), Keeps(st[t][2], c), c.op # "invoke",
         c.at # "end",
         p2.inFlight = IF Head(st[t]) \in Flying THEN p.inFlight - 1 ELSE p.inFlight
  PROVE  /\ st2 \in Stacks /\ Shaped(st2, p2)
         /\ p.inFlight \in Nat => p2.inFlight \in Nat
         /\ Where(st2, Flying) \subseteq Where(st, Flying)
<1> DEFINE n == Len(st[t])
<1>1. /\ st2 \in Stacks /\ n \in Nat /\ n >= 2
      /\ Above(st, st2, t, n - 2) /\ Len(st2[t]) = n - 1 /\ Deep(st2[t], n - 1) = c
      /\ Deep(st[t], n - 1) = st[t][2] /\ st[t][2] \in Frames
      /\ \A S : /\ Where(st2, S) = (Where(st, S) \ {<<t, n>>, <<t, n - 1>>})
                                     \cup One(S, c, <<t, n - 1>>)
                /\ <<t, n>> \in Where(st, S) <=> Head(st[t]) \in S
                /\ <<t, n - 1>> \in Where(st, S) <=> st[t][2] \in S
  BY ReturnedFacts
<1> HIDE DEF n
<1>2. c \notin Flying /\ st[t][2] \notin Flying
  BY <1>1, FlyingInvoke DEF Keeps
<1>3. /\ Where(st2, Flying) = (Where(st, Flying) \ {<<t, n>>, <<t, n - 1>>})
                                 \cup One(Flying, c, <<t, n - 1>>)
      /\ <<t, n>> \in Where(st, Flying) <=> Head(st[t]) \in Flying
      /\ <<t, n - 1>> \notin Where(st, Flying)
  BY <1>1, <1>2
<1>4. Where(st2, Flying) = Where(st, Flying) \ {<<t, n>>}
  BY <1>2, <1>3 DEF One
<1>5. Framed(st2)
  BY FramedReturn DEF Shaped
<1>6. Counted(st2, p2) /\ (p.inFlight \in Nat => p2.inFlight \in Nat)
  <2>1. CASE Head(st[t]) \in Flying
    BY <1>3, <1>4, <2>1, CountedLess DEF Shaped
  <2>2. CASE Head(st[t]) \notin Flying
    <3>1. Where(st2, Flying) = Where(st, Flying)
      BY <1>3, <1>4, <2>2
    <3> QED BY <2>2, <3>1, CountedSame DEF Shaped
  <2> QED BY <2>1, <2>2
<1>7. Head(st2[t]) = c
  <2>1. st2[t] = <<c>> \o Tail(Tail(st[t])) /\ Tail(Tail(st[t])) \in Seq(Frames)
    BY SecondFacts DEF Returned, Stacks
  <2> QED BY <2>1, NewTop
<1>8. Outside(st2)
  BY <1>1, <1>7, OutsideStep DEF Shaped
<1> QED BY <1>1, <1>4, <1>5, <1>6, <1>8 DEF Shaped

-----------------------------------------------------------------------------
\* No frame of a set, before and after

LEMMA NonePush ==
  ASSUME NEW st \in Stacks, NEW st2, NEW t \in Threads, NEW g \in Frames,
         Pushed(st, st2, t, g), NEW S, g \notin S, Where(st, S) = {}
  PROVE  Where(st2, S) = {}
<1>1. LET n == Len(st[t])
      IN /\ st2 \in Stacks /\ n \in Nat
         /\ Above(st, st2, t, n) /\ Len(st2[t]) = n + 1 /\ Deep(st2[t], n + 1) = g
         /\ \A R : /\ Where(st2, R) = Where(st, R) \cup One(R, g, <<t, n + 1>>)
                   /\ <<t, n + 1>> \notin Where(st, R)
  BY PushedFacts
<1>2. Where(st2, S) = Where(st, S) \cup One(S, g, <<t, Len(st[t]) + 1>>)
  BY <1>1
<1> QED BY <1>2 DEF One

LEMMA NoneChange ==
  ASSUME NEW st \in Stacks, NEW st2, NEW t \in Threads, NEW g \in Frames,
         Changed(st, st2, t, g), NEW S, g \notin S, Where(st, S) \subseteq {<<t, Len(st[t])>>}
  PROVE  Where(st2, S) = {}
<1> DEFINE n == Len(st[t])
<1>1. /\ st2 \in Stacks /\ n \in Nat \ {0}
      /\ Above(st, st2, t, n - 1) /\ Len(st2[t]) = n /\ Deep(st2[t], n) = g
      /\ \A R : /\ Where(st2, R) = (Where(st, R) \ {<<t, n>>}) \cup One(R, g, <<t, n>>)
                /\ <<t, n>> \in Where(st, R) <=> Head(st[t]) \in R
  BY ChangedFacts
<1>2. Where(st2, S) = (Where(st, S) \ {<<t, n>>}) \cup One(S, g, <<t, n>>)
  BY <1>1
<1> QED BY <1>2 DEF One

LEMMA NoneCall ==
  ASSUME NEW st \in Stacks, NEW st2, NEW t \in Threads, NEW c \in Frames, NEW g \in Frames,
         Called(st, st2, t, c, g), NEW S, c \notin S, g \notin S,
         Where(st, S) \subseteq {<<t, Len(st[t])>>}
  PROVE  Where(st2, S) = {}
<1> DEFINE n == Len(st[t])
<1>1. /\ st2 \in Stacks /\ n \in Nat \ {0}
      /\ Above(st, st2, t, n - 1) /\ Len(st2[t]) = n + 1
      /\ Deep(st2[t], n) = c /\ Deep(st2[t], n + 1) = g
      /\ \A R : /\ Where(st2, R) = ((Where(st, R) \ {<<t, n>>}) \cup One(R, c, <<t, n>>))
                                     \cup One(R, g, <<t, n + 1>>)
                /\ <<t, n>> \in Where(st, R) <=> Head(st[t]) \in R
                /\ <<t, n + 1>> \notin Where(st, R)
  BY CalledFacts
<1>2. Where(st2, S) = ((Where(st, S) \ {<<t, n>>}) \cup One(S, c, <<t, n>>))
                         \cup One(S, g, <<t, n + 1>>)
  BY <1>1
<1> QED BY <1>2 DEF One

LEMMA NonePop ==
  ASSUME NEW st \in Stacks, NEW st2, NEW t \in Threads,
         Popped(st, st2, t), NEW S, Where(st, S) \subseteq {<<t, Len(st[t])>>}
  PROVE  Where(st2, S) = {}
<1> DEFINE n == Len(st[t])
<1>1. /\ st2 \in Stacks /\ n \in Nat \ {0}
      /\ Above(st, st2, t, n - 1) /\ Len(st2[t]) = n - 1
      /\ \A R : /\ Where(st2, R) = Where(st, R) \ {<<t, n>>}
                /\ <<t, n>> \in Where(st, R) <=> Head(st[t]) \in R
  BY PoppedFacts
<1>2. Where(st2, S) = Where(st, S) \ {<<t, n>>}
  BY <1>1
<1> QED BY <1>2

LEMMA NoneReturn ==
  ASSUME NEW st \in Stacks, NEW st2, NEW t \in Threads, NEW c \in Frames,
         Returned(st, st2, t, c), NEW S, c \in S => st[t][2] \in S, Where(st, S) = {}
  PROVE  Where(st2, S) = {}
<1> DEFINE n == Len(st[t])
<1>1. /\ st2 \in Stacks /\ n \in Nat /\ n >= 2
      /\ Above(st, st2, t, n - 2) /\ Len(st2[t]) = n - 1 /\ Deep(st2[t], n - 1) = c
      /\ Deep(st[t], n - 1) = st[t][2] /\ st[t][2] \in Frames
      /\ \A R : /\ Where(st2, R) = (Where(st, R) \ {<<t, n>>, <<t, n - 1>>})
                                     \cup One(R, c, <<t, n - 1>>)
                /\ <<t, n>> \in Where(st, R) <=> Head(st[t]) \in R
                /\ <<t, n - 1>> \in Where(st, R) <=> st[t][2] \in R
  BY ReturnedFacts
<1> HIDE DEF n
<1>2. /\ Where(st2, S) = (Where(st, S) \ {<<t, n>>, <<t, n - 1>>})
                            \cup One(S, c, <<t, n - 1>>)
      /\ <<t, n - 1>> \in Where(st, S) <=> st[t][2] \in S
  BY <1>1
<1> QED BY <1>2 DEF One

-----------------------------------------------------------------------------
\* The unload that tears down

LEMMA TornNone ==
  ASSUME NEW st, NEW p, Where(st, Tearing) = {}
  PROVE  Torn(st, p)
BY DEF Torn

\* Nobody tears down.
LEMMA TornClean ==
  ASSUME NEW st, NEW p, Torn(st, p), ~p.teardown \/ p.state \notin {"Unloading", "Failed"}
  PROVE  Where(st, Tearing) = {}
BY DEF Torn

LEMMA TearingWork ==
  ASSUME NEW st \in Stacks
  PROVE  Where(st, Tearing) \subseteq Where(st, Work)
<1> SUFFICES ASSUME NEW x \in Where(st, Tearing)
             PROVE  x \in Where(st, Work)
  OBVIOUS
<1>1. x = <<x[1], x[2]>> /\ x[1] \in Threads /\ x[2] \in 1..Len(st[x[1]])
      /\ Deep(st[x[1]], x[2]) \in Tearing
  BY WhereIn
<1>2. Deep(st[x[1]], x[2]) \in Work /\ x[2] \in Nat
  BY <1>1 DEF Work, Stacks
<1> QED BY <1>1, <1>2, WhereIn

\* Work at the top of t: who tears down is t, or nobody.
LEMMA TornTop ==
  ASSUME NEW st \in Stacks, NEW p, NEW t \in Threads, Torn(st, p), st[t] # <<>>,
         Head(st[t]) \in Work
  PROVE  /\ Head(st[t]) \in Tearing =>
              /\ Where(st, Work) = {<<t, Len(st[t])>>}
              /\ p.teardown /\ p.state \in {"Unloading", "Failed"}
              /\ Head(st[t]).at # "drain" => \A y \in Where(st, Flying) : y[1] = t
         /\ Head(st[t]) \notin Tearing => Where(st, Tearing) = {}
         /\ Where(st, Tearing) \subseteq {<<t, Len(st[t])>>}
<1> DEFINE x == <<t, Len(st[t])>>
<1>1. /\ x[1] = t /\ x[2] = Len(st[t])
      /\ Deep(st[t], Len(st[t])) = Head(st[t])
      /\ x \in Where(st, Work)
      /\ x \in Where(st, Tearing) <=> Head(st[t]) \in Tearing
  BY TopPlace
<1> HIDE DEF x
<1>2. ASSUME NEW y \in Where(st, Tearing)
      PROVE  y = x
  BY <1>1, <1>2 DEF Torn
<1> QED BY <1>1, <1>2 DEF Torn, x

\* The frames at the places of the work are alike.
LEMMA SteadyTearing ==
  ASSUME NEW st \in Stacks, NEW st2 \in Stacks, Steady(st, st2)
  PROVE  Where(st2, Tearing) \subseteq Where(st, Tearing)
<1> SUFFICES ASSUME NEW x \in Where(st2, Tearing)
             PROVE  x \in Where(st, Tearing)
  OBVIOUS
<1>1. x \in Where(st2, Work) /\ x \in Where(st, Work)
  BY TearingWork DEF Steady
<1>2. /\ x = <<x[1], x[2]>> /\ x[1] \in Threads /\ x[2] \in 1..Len(st[x[1]])
      /\ Deep(st[x[1]], x[2]) \in Work
  BY <1>1, WhereIn
<1>3. Deep(st2[x[1]], x[2]) \in Tearing
  BY WhereIn
<1>4. Deep(st[x[1]], x[2]) \in Tearing
  <2>1. Alike(Deep(st[x[1]], x[2]), Deep(st2[x[1]], x[2]))
    BY <1>1 DEF Steady
  <2> QED BY <1>2, <1>3, <2>1 DEF Alike, Tearing, Unloads, Work
<1>5. x[2] \in Nat
  BY <1>2 DEF Stacks
<1> QED BY <1>2, <1>4, <1>5, WhereIn

LEMMA TornSteady ==
  ASSUME NEW st \in Stacks, NEW st2 \in Stacks, NEW p, NEW p2, Torn(st, p), Steady(st, st2),
         p2.teardown = p.teardown, p2.state = p.state,
         \A y \in Where(st2, Flying) : \E z \in Where(st, Flying) : z[1] = y[1]
  PROVE  Torn(st2, p2)
<1> SUFFICES ASSUME NEW x \in Where(st2, Tearing)
             PROVE  /\ p2.teardown /\ p2.state \in {"Unloading", "Failed"}
                    /\ Where(st2, Work) = {x}
                    /\ Deep(st2[x[1]], x[2]).at # "drain" =>
                         \A y \in Where(st2, Flying) : y[1] = x[1]
  BY DEF Torn
<1>1. x \in Where(st, Tearing)
  BY SteadyTearing
<1>2. x \in Where(st, Work)
  BY <1>1, TearingWork
<1>3. Deep(st2[x[1]], x[2]).at = Deep(st[x[1]], x[2]).at
  BY <1>2 DEF Steady, Alike
<1>4. Deep(st[x[1]], x[2]).at # "drain" => \A y \in Where(st, Flying) : y[1] = x[1]
  BY <1>1 DEF Torn
<1>5. ASSUME Deep(st2[x[1]], x[2]).at # "drain", NEW y \in Where(st2, Flying)
      PROVE  y[1] = x[1]
  BY <1>3, <1>4, <1>5
<1> QED BY <1>1, <1>5 DEF Torn, Steady

\* The work of t goes on.
LEMMA TornChange ==
  ASSUME NEW st \in Stacks, NEW st2, NEW p, NEW p2, NEW t \in Threads, NEW g \in Frames,
         Torn(st, p), Counted(st, p), Changed(st, st2, t, g), Head(st[t]) \in Work,
         Where(st2, Flying) = Where(st, Flying),
         g \in Tearing =>
           /\ Head(st[t]) \in Tearing /\ p2.teardown = p.teardown /\ p2.state = p.state
           /\ Head(st[t]).at = "drain" /\ g.at # "drain" => p.inFlight = 0
  PROVE  Torn(st2, p2)
<1>a. st[t] # <<>>
  BY DEF Changed
<1>1. CASE g \notin Tearing
  <2>1. Where(st, Tearing) \subseteq {<<t, Len(st[t])>>}
    BY <1>a, TornTop
  <2>2. Where(st2, Tearing) = {}
    BY <1>1, <2>1, NoneChange
  <2> QED BY <2>2, TornNone
<1>2. CASE g \in Tearing
  <2> DEFINE x == <<t, Len(st[t])>>
  <2>1. /\ Where(st, Work) = {x}
        /\ p.teardown /\ p.state \in {"Unloading", "Failed"}
        /\ Head(st[t]).at # "drain" => \A y \in Where(st, Flying) : y[1] = t
    BY <1>a, <1>2, TornTop
  <2>2. g \in Work
    BY <1>2 DEF Work
  <2>3. Sole(st2, x, g, <<>>)
    BY <2>1, <2>2, MoveChange
  <2>4. st2 \in Stacks
    BY ChangedFacts
  <2>5. g.at # "drain" => \A y \in Where(st2, Flying) : y[1] = t
    <3>1. p.inFlight = 0 => Where(st, Flying) = {}
      BY CountedNone
    <3> QED BY <1>2, <2>1, <3>1
  <2>6. x[1] = t
    OBVIOUS
  <2> HIDE DEF x
  <2>7. ASSUME NEW y \in Where(st2, Tearing)
        PROVE  y = x
    BY <2>3, <2>4, <2>7, TearingWork DEF Sole
  <2>8. Where(st2, Work) = {x} /\ Deep(st2[x[1]], x[2]) = g
    BY <2>3 DEF Sole
  <2> QED BY <1>2, <2>1, <2>5, <2>6, <2>7, <2>8 DEF Torn
<1> QED BY <1>1, <1>2

\* The work of t invokes a hook.
LEMMA TornCall ==
  ASSUME NEW st \in Stacks, NEW st2, NEW p, NEW p2, NEW t \in Threads, NEW c \in Frames,
         NEW g \in Frames, g \notin Work, Torn(st, p), Called(st, st2, t, c, g),
         Head(st[t]) \in Work, c \in Work,
         Where(st2, Flying) \subseteq Where(st, Flying) \cup {<<t, Len(st[t]) + 1>>},
         c \in Tearing =>
           /\ Head(st[t]) \in Tearing /\ p2.teardown = p.teardown /\ p2.state = p.state
           /\ Head(st[t]).at # "drain"
  PROVE  Torn(st2, p2)
<1>a. st[t] # <<>>
  BY DEF Called
<1>1. CASE c \notin Tearing
  <2>1. Where(st, Tearing) \subseteq {<<t, Len(st[t])>>}
    BY <1>a, TornTop
  <2>2. g \notin Tearing
    BY DEF Work
  <2>3. Where(st2, Tearing) = {}
    BY <1>1, <2>1, <2>2, NoneCall
  <2> QED BY <2>3, TornNone
<1>2. CASE c \in Tearing
  <2> DEFINE x == <<t, Len(st[t])>>
  <2>1. /\ Where(st, Work) = {x}
        /\ p.teardown /\ p.state \in {"Unloading", "Failed"}
        /\ \A y \in Where(st, Flying) : y[1] = t
    BY <1>a, <1>2, TornTop
  <2>3. Sole(st2, x, c, IF Ready(g) THEN <<g.hook>> ELSE <<>>)
    BY <2>1, MoveCall
  <2>4. st2 \in Stacks
    BY CalledFacts
  <2>5. \A y \in Where(st2, Flying) : y[1] = t
    BY <2>1
  <2>6. x[1] = t
    OBVIOUS
  <2> HIDE DEF x
  <2>8. Where(st2, Work) = {x}
    BY <2>3 DEF Sole
  <2>7. ASSUME NEW y \in Where(st2, Tearing)
        PROVE  y = x
    BY <2>4, <2>7, <2>8, TearingWork
  <2> QED BY <1>2, <2>1, <2>5, <2>6, <2>7, <2>8 DEF Torn
<1> QED BY <1>1, <1>2

LEMMA TornPop ==
  ASSUME NEW st \in Stacks, NEW st2, NEW p, NEW p2, NEW t \in Threads,
         Torn(st, p), Popped(st, st2, t), Head(st[t]) \in Work
  PROVE  Torn(st2, p2)
<1>1. Where(st, Tearing) \subseteq {<<t, Len(st[t])>>}
  BY TornTop DEF Popped
<1>2. Where(st2, Tearing) = {}
  BY <1>1, NonePop
<1> QED BY <1>2, TornNone

\* An unload begins to tear down.
LEMMA TornEnter ==
  ASSUME NEW st \in Stacks, NEW st2, NEW p, NEW p2, NEW t \in Threads, NEW g \in Frames,
         g \in Tearing, Idle(st), Counted(st, p), Changed(st, st2, t, g),
         Where(st2, Flying) = Where(st, Flying),
         p2.teardown, p2.state \in {"Unloading", "Failed"},
         g.at # "drain" => p.inFlight = 0
  PROVE  Torn(st2, p2)
<1> DEFINE x == <<t, Len(st[t])>>
<1>1. st2 \in Stacks
  BY ChangedFacts
<1>2. g \in Work /\ Where(st, Work) \subseteq {x}
  BY DEF Work, Idle
<1>3. Sole(st2, x, g, <<>>)
  BY <1>2, MoveChange
<1> HIDE DEF x
<1>4. Where(st2, Work) = {x} /\ Deep(st2[x[1]], x[2]) = g
  BY <1>3 DEF Sole
<1>5. ASSUME NEW y \in Where(st2, Tearing)
      PROVE  y = x
  BY <1>1, <1>4, <1>5, TearingWork
<1>6. g.at # "drain" => Where(st2, Flying) = {}
  BY CountedNone
<1> QED BY <1>4, <1>5, <1>6 DEF Torn

-----------------------------------------------------------------------------
\* What the plugin, the journal and the history are

LEMMA GoodSole ==
  ASSUME NEW st, NEW p, NEW m, NEW h, NEW x, NEW f, NEW hook,
         Sole(st, x, f, hook), Always(p, m, h), Unloadable(st, p), Working(f, hook, p, m, h)
  PROVE  Good(st, p, m, h)
BY DEF Good, Sole

LEMMA GoodIdle ==
  ASSUME NEW st, NEW p, NEW m, NEW h,
         Idle(st), Always(p, m, h), Unloadable(st, p), Resting(p, m, h)
  PROVE  Good(st, p, m, h)
BY DEF Good, Idle

\* The top of t works: it is the sole work.
LEMMA GoodTop ==
  ASSUME NEW st \in Stacks, NEW p, NEW m, NEW h, NEW t \in Threads, Good(st, p, m, h),
         st[t] # <<>>, Head(st[t]) \in Work
  PROVE  /\ Where(st, Work) = {<<t, Len(st[t])>>}
         /\ Working(Head(st[t]), <<>>, p, m, h)
         /\ Always(p, m, h) /\ Unloadable(st, p)
<1> DEFINE x == <<t, Len(st[t])>>
<1>1. /\ Where(st, Work) = {x}
      /\ Sole(st, x, Head(st[t]), <<>>)
  BY TopSole DEF Good
<1>2. x \in Where(st, Work) /\ Deep(st[x[1]], x[2]) = Head(st[t]) /\ Prep(st[x[1]], x[2]) = <<>>
  BY <1>1 DEF Sole
<1> HIDE DEF x
<1>3. Working(Deep(st[x[1]], x[2]), Prep(st[x[1]], x[2]), p, m, h)
  BY <1>2 DEF Good
<1> QED BY <1>1, <1>2, <1>3 DEF Good, x

\* Nobody works unless somebody starts, ends or unloads.
LEMMA GoodRests ==
  ASSUME NEW st \in Stacks, NEW p, NEW m, NEW h, Good(st, p, m, h),
         \A f \in Work : \A hook : ~Working(f, hook, p, m, h)
  PROVE  Idle(st) /\ Resting(p, m, h)
<1>1. ASSUME NEW x \in Where(st, Work)
      PROVE  FALSE
  <2>1. Deep(st[x[1]], x[2]) \in Work
    BY WhereIn
  <2> QED BY <2>1 DEF Good
<1> QED BY <1>1 DEF Good, Idle

LEMMA NotTransition ==
  ASSUME NEW st \in Stacks, NEW p, NEW m, NEW h, Good(st, p, m, h),
         ~p.transition, p.state \notin {"Unloading", "Failed"}
  PROVE  Idle(st) /\ Resting(p, m, h)
<1>1. \A f \in Work : \A hook : ~Working(f, hook, p, m, h)
  BY DEF Working, Starting, Ending, Unloading
<1> QED BY <1>1, GoodRests

\* The parts of the plugin that the invariant looks at.
Same(p, p2) ==
  /\ p2.state = p.state /\ p2.generation = p.generation /\ p2.module = p.module
  /\ p2.journal = p.journal /\ p2.teardown = p.teardown
  /\ p2.deferredUnload = p.deferredUnload /\ p2.endsPending = p.endsPending
  /\ p2.deferredEnd = p.deferredEnd /\ p2.transition = p.transition

LEMMA SameWorking ==
  ASSUME NEW f, NEW g, NEW hook, NEW p, NEW p2, NEW m, NEW h,
         Alike(f, g), Same(p, p2), Working(f, hook, p, m, h)
  PROVE  Working(g, hook, p2, m, h)
<1>1. CASE f.op = "start" /\ Starting(f, p, m, h)
  BY <1>1 DEF Working, Starting, Alike, Same
<1>2. ASSUME Finishing(f, hook, p, m, h)
      PROVE  Finishing(g, hook, p2, m, h)
  BY <1>2 DEF Finishing, Due, Came, Alike, Same
<1>3. CASE f.op = "end" /\ Ending(f, hook, p, m, h)
  BY <1>2, <1>3 DEF Working, Ending, Alike, Same
<1>4. CASE f.op = "unload" /\ Unloading(f, hook, p, m, h)
  BY <1>2, <1>4 DEF Working, Unloading, Alike, Same
<1> QED BY <1>1, <1>3, <1>4 DEF Working

LEMMA GoodSteady ==
  ASSUME NEW st \in Stacks, NEW st2 \in Stacks, NEW p, NEW p2, NEW m, NEW h,
         Good(st, p, m, h), Steady(st, st2), Same(p, p2), Unloadable(st2, p2)
  PROVE  Good(st2, p2, m, h)
<1>1. Always(p2, m, h)
  BY DEF Good, Always, Same
<1>2. Where(st2, Work) = {} => Resting(p2, m, h)
  BY DEF Good, Resting, Due, Same, Steady
<1>3. ASSUME NEW x \in Where(st2, Work)
      PROVE  Working(Deep(st2[x[1]], x[2]), Prep(st2[x[1]], x[2]), p2, m, h)
  <2>1. x \in Where(st, Work)
    BY DEF Steady
  <2>2. /\ Alike(Deep(st[x[1]], x[2]), Deep(st2[x[1]], x[2]))
        /\ Prep(st2[x[1]], x[2]) = Prep(st[x[1]], x[2])
    BY <2>1 DEF Steady
  <2>3. Working(Deep(st[x[1]], x[2]), Prep(st[x[1]], x[2]), p, m, h)
    BY <2>1 DEF Good
  <2> QED BY <2>2, <2>3, SameWorking
<1>4. \A x, y \in Where(st2, Work) : x = y
  BY DEF Good, Steady
<1> QED BY <1>1, <1>2, <1>3, <1>4 DEF Good

LEMMA UnloadableLess ==
  ASSUME NEW st, NEW st2, NEW p, NEW p2, Unloadable(st, p), Same(p, p2),
         Where(st, Unloads) = {} => Where(st2, Unloads) = {}
  PROVE  Unloadable(st2, p2)
BY DEF Unloadable, Same

\* A step that neither begins, goes on with, nor ends a work.
LEMMA RunQuiet ==
  ASSUME NEW st \in Stacks, NEW st2 \in Stacks, NEW p, NEW p2, NEW m, NEW h,
         Run(st, p, m, h), Shaped(st2, p2), Steady(st, st2), Same(p, p2),
         Where(st, Unloads) = {} => Where(st2, Unloads) = {},
         \/ \A y \in Where(st2, Flying) : \E z \in Where(st, Flying) : z[1] = y[1]
         \/ p.state \notin Revoked
  PROVE  Run(st2, p2, m, h)
<1>1. ASSUME ~h.cutShort
      PROVE  Torn(st2, p2)
  <2>1. Torn(st, p)
    BY <1>1 DEF Run
  <2>2. CASE \A y \in Where(st2, Flying) : \E z \in Where(st, Flying) : z[1] = y[1]
    BY <2>1, <2>2, TornSteady DEF Same
  <2>3. CASE p.state \notin Revoked
    <3>1. Where(st, Tearing) = {}
      BY <2>1, <2>3, TornClean DEF Revoked
    <3>2. Where(st2, Tearing) = {}
      BY <3>1, SteadyTearing
    <3> QED BY <3>2, TornNone
  <2> QED BY <2>2, <2>3
<1>2. ASSUME ~h.cutShort, ~h.doubled
      PROVE  Good(st2, p2, m, h)
  <2>1. Good(st, p, m, h)
    BY <1>2 DEF Run
  <2>2. Unloadable(st2, p2)
    BY <2>1, UnloadableLess DEF Good
  <2> QED BY <2>1, <2>2, GoodSteady
<1> QED BY <1>1, <1>2 DEF Run

LEMMA QuietPush ==
  ASSUME NEW st \in Stacks, NEW st2, NEW p, NEW p2, NEW m, NEW h, NEW t \in Threads,
         NEW g \in Frames, Run(st, p, m, h), Pushed(st, st2, t, g), g.op = "event",
         st[t] # <<>> => Head(st[t]).op = "invoke" /\ Head(st[t]).at \in {"hook", "return"},
         Same(p, p2), p2.inFlight = p.inFlight
  PROVE  st2 \in Stacks /\ Run(st2, p2, m, h)
<1>1. /\ g \notin Work /\ g \notin Unloads /\ g.op # "invoke" /\ ~Ready(g) /\ g.at # "end"
  BY WorkNotInvoke DEF Unloads, Ready, Frames, Placed
<1>2. /\ st2 \in Stacks /\ Shaped(st2, p2) /\ Where(st2, Flying) = Where(st, Flying)
  BY <1>1, ShapePush DEF Run
<1>3. Steady(st, st2)
  BY <1>1, SteadyPush
<1>4. Where(st, Unloads) = {} => Where(st2, Unloads) = {}
  BY <1>1, NonePush
<1> QED BY <1>2, <1>3, <1>4, RunQuiet

LEMMA QuietChange ==
  ASSUME NEW st \in Stacks, NEW st2, NEW p, NEW p2, NEW m, NEW h, NEW t \in Threads,
         NEW g \in Frames, Run(st, p, m, h), Changed(st, st2, t, g), Keeps(Head(st[t]), g),
         Head(st[t]) \in Flying <=> g \in Flying, g.op \in {"invoke", "event"},
         Head(st[t]).op = g.op, ~Ready(Head(st[t])), ~Ready(g), Same(p, p2),
         p2.inFlight = p.inFlight
  PROVE  st2 \in Stacks /\ Run(st2, p2, m, h)
<1>1. Head(st[t]) \in Frames
  BY TopFits DEF Changed, Run, Shaped
<1>2. /\ g \notin Work /\ g \notin Unloads /\ g.at # "end" /\ Head(st[t]) \notin Work
  BY <1>1, WorkNotInvoke DEF Unloads, Frames, Placed
<1>3. /\ st2 \in Stacks /\ Shaped(st2, p2) /\ Where(st2, Flying) = Where(st, Flying)
  BY <1>2, ShapeChange DEF Run
<1>4. Steady(st, st2)
  BY <1>2, SteadyChange
<1>5. Where(st, Unloads) = {} => Where(st2, Unloads) = {}
  BY <1>2, NoneChange
<1> QED BY <1>3, <1>4, <1>5, RunQuiet

LEMMA QuietCall ==
  ASSUME NEW st \in Stacks, NEW st2, NEW p, NEW p2, NEW m, NEW h, NEW t \in Threads,
         NEW c \in Frames, NEW g \in Frames, Run(st, p, m, h), Called(st, st2, t, c, g),
         Head(st[t]).op = "event", c.op = "event", Fits(c, g), g \in Flying, ~Ready(g),
         p.state \notin Revoked, Same(p, p2), p2.inFlight = p.inFlight + 1
  PROVE  st2 \in Stacks /\ Run(st2, p2, m, h)
<1>1. Head(st[t]) \in Frames
  BY TopFits DEF Called, Run, Shaped
<1>2. /\ c \notin Work /\ c \notin Unloads /\ c \notin Flying /\ ~Ready(c)
      /\ Head(st[t]) \notin Work /\ Head(st[t]) \notin Flying /\ ~Ready(Head(st[t]))
      /\ g \notin Work /\ g \notin Unloads
  BY <1>1, WorkNotInvoke, FlyingInvoke DEF Unloads, Frames, Placed, Ready
<1>3. Keeps(Head(st[t]), c)
  BY DEF Keeps
<1>4. st2 \in Stacks /\ Shaped(st2, p2)
  BY <1>2, <1>3, ShapeCall DEF Run
<1>5. Steady(st, st2)
  BY <1>2, SteadyCall
<1>6. Where(st, Unloads) = {} => Where(st2, Unloads) = {}
  BY <1>2, NoneCall
<1> QED BY <1>4, <1>5, <1>6, RunQuiet

LEMMA QuietPop ==
  ASSUME NEW st \in Stacks, NEW st2, NEW p, NEW p2, NEW m, NEW h, NEW t \in Threads,
         Run(st, p, m, h), Popped(st, st2, t), Head(st[t]).op # "invoke",
         Head(st[t]) \notin Work, Same(p, p2), p2.inFlight = p.inFlight
  PROVE  st2 \in Stacks /\ Run(st2, p2, m, h)
<1>1. Head(st[t]) \in Frames
  BY TopFits DEF Popped, Run, Shaped
<1>2. ~Ready(Head(st[t]))
  BY <1>1 DEF Frames, Placed, Ready
<1>3. /\ st2 \in Stacks /\ Shaped(st2, p2) /\ Where(st2, Flying) = Where(st, Flying)
  BY ShapePop DEF Run
<1>4. Steady(st, st2)
  BY <1>2, SteadyPop
<1>5. Where(st, Unloads) = {} => Where(st2, Unloads) = {}
  BY NonePop
<1> QED BY <1>3, <1>4, <1>5, RunQuiet

\* A call of Invoke returns the result to the frame below.
LEMMA QuietReturn ==
  ASSUME NEW st \in Stacks, NEW st2, NEW p, NEW p2, NEW m, NEW h, NEW t \in Threads,
         NEW r \in {"true", "false", "invoked"}, Run(st, p, m, h), st[t] # <<>>,
         Head(st[t]).op = "invoke", Head(st[t]).at \in {"left", "return"},
         Returned(st, st2, t, [st[t][2] EXCEPT !.result = r]), Same(p, p2),
         p2.inFlight = IF Head(st[t]).at = "left" THEN p.inFlight - 1 ELSE p.inFlight
  PROVE  /\ st2 \in Stacks /\ Run(st2, p2, m, h)
         /\ p.inFlight \in Nat => p2.inFlight \in Nat
<1> DEFINE b == st[t][2]  c == [b EXCEPT !.result = r]
<1>1. /\ Head(st[t]) \in Frames /\ b \in Frames /\ Fits(b, Head(st[t]))
  BY TopFits DEF Run, Shaped
<1>2. /\ c \in Frames /\ c.op = b.op /\ c.at = b.at /\ c.todo = b.todo /\ c.gen = b.gen
      /\ c.final = b.final /\ c.hook = b.hook
  <2>1. b \in Fields /\ Placed(b)
    BY <1>1 DEF Frames
  <2>2. /\ c \in Fields /\ c.op = b.op /\ c.at = b.at /\ c.todo = b.todo /\ c.gen = b.gen
        /\ c.final = b.final /\ c.hook = b.hook
    <3> HIDE DEF Places
    <3> QED BY <2>1 DEF Fields
  <2> HIDE DEF c
  <2>3. Placed(c)
    BY <2>1, <2>2 DEF Placed
  <2> QED BY <2>2, <2>3 DEF Frames
<1>3. /\ b.op # "invoke" /\ b.at \in {"inited", "started", "evented", "swap", "fini"}
  BY <1>1 DEF Fits
<1>4. /\ Keeps(b, c) /\ Alike(b, c) /\ ~Ready(b) /\ ~Ready(c) /\ c.op # "invoke"
      /\ c.at # "end"
  BY <1>2, <1>3 DEF Keeps, Alike, Ready
<1>5. /\ c \in Work <=> b \in Work
      /\ c \in Unloads => b \in Unloads
  BY <1>1, <1>2, WorkNotInvoke DEF Unloads, Tearing
<1>6. /\ Head(st[t]) \notin Work /\ ~Ready(Head(st[t]))
      /\ Head(st[t]) \in Flying <=> Head(st[t]).at = "left"
  BY <1>1, WorkNotInvoke, FlyingInvoke DEF Ready
<1> HIDE DEF c
<1>7. Returned(st, st2, t, c)
  BY DEF c
<1>8. p2.inFlight = IF Head(st[t]) \in Flying THEN p.inFlight - 1 ELSE p.inFlight
  BY <1>6
<1>9. /\ st2 \in Stacks /\ Shaped(st2, p2)
      /\ p.inFlight \in Nat => p2.inFlight \in Nat
      /\ Where(st2, Flying) \subseteq Where(st, Flying)
  BY <1>2, <1>4, <1>7, <1>8, ShapeReturn DEF Run
<1>10. Steady(st, st2)
  BY <1>2, <1>4, <1>5, <1>6, <1>7, SteadyReturn
<1>11. Where(st, Unloads) = {} => Where(st2, Unloads) = {}
  BY <1>2, <1>5, <1>7, NoneReturn
<1> QED BY <1>9, <1>10, <1>11, RunQuiet

-----------------------------------------------------------------------------
\* The steps of a hook and of the events

\* The top of t.
LEMMA AtTop ==
  ASSUME IInv, title = "running", NEW t \in Threads, NEW a, At(t, a)
  PROVE  /\ stack \in Stacks /\ stack[t] \in Seq(Frames) /\ stack[t] # <<>>
         /\ Top(t) = Head(stack[t]) /\ Top(t) \in Frames /\ Top(t).at = a
         /\ Placed(Top(t)) /\ Top(t) \in Fields
         /\ Run(stack, plugin, mapped, history) /\ Shaped(stack, plugin)
<1>1. stack \in Stacks /\ Run(stack, plugin, mapped, history)
  BY DEF IInv, Stacks
<1>2. stack[t] # <<>> /\ Top(t) = Head(stack[t]) /\ Top(t).at = a
  BY DEF At, Top
<1>3. Head(stack[t]) \in Frames
  BY <1>1, <1>2, TopFits DEF Run, Shaped
<1>4. stack[t] \in Seq(Frames)
  BY <1>1 DEF Stacks
<1> QED BY <1>1, <1>2, <1>3, <1>4 DEF Frames, Run

\* A call of Invoke goes on.
Moved(f, a, r) == [f EXCEPT !.at = a, !.result = r]

LEMMA InvokeMoves ==
  ASSUME NEW f \in Frames, f.op = "invoke",
         NEW a \in {"prepare", "hook", "leave", "left", "return"},
         NEW r \in {"true", "false", "invoked"}
  PROVE  /\ Moved(f, a, r) \in Frames /\ Moved(f, a, r).op = "invoke"
         /\ Moved(f, a, r).at = a /\ Keeps(f, Moved(f, a, r))
<1> DEFINE g == Moved(f, a, r)
<1>1. f \in Fields /\ a \in Places
  BY DEF Frames, Places
<1>2. g \in Fields
  BY <1>1 DEF Fields, Moved
<1>3. g.op = "invoke" /\ g.at = a /\ g.final = f.final /\ g.hook = f.hook
  BY <1>1 DEF Fields, Moved
<1> HIDE DEF g
<1>4. g \in Frames
  BY <1>2, <1>3 DEF Frames, Placed
<1> QED BY <1>3, <1>4 DEF Keeps, g

LEMMA SameSelf ==
  ASSUME NEW p
  PROVE  Same(p, p)
BY DEF Same

LEMMA HookReturnsRun ==
  ASSUME IInv, title = "running", NEW t \in Threads, HookReturns(t)
  PROVE  IInv'
<1>1. PICK r \in {"true", "false"} :
        Replace(t, <<[Top(t) EXCEPT !.at = "leave", !.result = r]>>)
  BY DEF HookReturns
<1> DEFINE f == Top(t)  g == Moved(f, "leave", r)
<1>2. /\ stack \in Stacks /\ stack[t] # <<>> /\ f = Head(stack[t]) /\ f \in Frames
      /\ f.at = "hook" /\ Placed(f) /\ f \in Fields
      /\ Run(stack, plugin, mapped, history)
  BY AtTop DEF HookReturns
<1>3. f.op = "invoke" /\ f \in Flying /\ ~Ready(f)
  BY <1>2 DEF Placed, Flying, Ready
<1>4. /\ g \in Frames /\ g.op = "invoke" /\ g \in Flying /\ ~Ready(g) /\ Keeps(f, g)
  <2>1. g \in Frames /\ g.op = "invoke" /\ g.at = "leave" /\ Keeps(f, g)
    BY <1>2, <1>3, InvokeMoves
  <2> QED BY <2>1, FlyingInvoke DEF Ready
<1>5. Changed(stack, stack', t, g)
  BY <1>1, <1>2 DEF Replace, Changed, Moved
<1> HIDE DEF f, g
<1>6. stack' \in Stacks /\ Run(stack', plugin, mapped, history)
  BY <1>2, <1>3, <1>4, <1>5, SameSelf, QuietChange
<1> QED BY <1>6 DEF IInv, HookReturns, Stacks

LEMMA LeaveRun ==
  ASSUME IInv, title = "running", NEW t \in Threads, Leave(t)
  PROVE  IInv'
<1> DEFINE f == Top(t)
           kept == f.final \/ (plugin.generation = f.gen /\ plugin.state # "Unloading")
           r == IF f.result = "true" /\ kept THEN "invoked" ELSE "false"
           g == Moved(f, "left", r)
<1>2. /\ stack \in Stacks /\ stack[t] # <<>> /\ f = Head(stack[t]) /\ f \in Frames
      /\ f.at = "leave" /\ Placed(f) /\ f \in Fields
      /\ Run(stack, plugin, mapped, history)
  BY AtTop DEF Leave
<1>3. f.op = "invoke" /\ f \in Flying /\ ~Ready(f)
  BY <1>2 DEF Placed, Flying, Ready
<1>a. r \in {"invoked", "false"}
  OBVIOUS
<1>5. Changed(stack, stack', t, g)
  BY <1>2 DEF Leave, Replace, Changed, Moved
<1> HIDE DEF r
<1>4. /\ g \in Frames /\ g.op = "invoke" /\ g \in Flying /\ ~Ready(g) /\ Keeps(f, g)
  <2>1. g \in Frames /\ g.op = "invoke" /\ g.at = "left" /\ Keeps(f, g)
    BY <1>a, <1>2, <1>3, InvokeMoves
  <2> QED BY <2>1, FlyingInvoke DEF Ready
<1> HIDE DEF f, g
<1>6. stack' \in Stacks /\ Run(stack', plugin, mapped, history)
  BY <1>2, <1>3, <1>4, <1>5, SameSelf, QuietChange
<1> QED BY <1>6 DEF IInv, Leave, Stacks

LEMMA InvokeReturnsRun ==
  ASSUME IInv, title = "running", NEW t \in Threads, InvokeReturns(t)
  PROVE  IInv'
<1> DEFINE f == Top(t)
<1>2. /\ stack \in Stacks /\ stack[t] # <<>> /\ f = Head(stack[t]) /\ f \in Frames
      /\ f.at = "return" /\ Placed(f) /\ f \in Fields
      /\ Run(stack, plugin, mapped, history)
  BY AtTop DEF InvokeReturns
<1>3. f.op = "invoke" /\ f.result \in {"true", "false", "invoked"}
  BY <1>2 DEF Placed, Fields
<1>4. Len(stack[t]) >= 2
  BY <1>2, <1>3, TopFits DEF Run, Shaped
<1>5. Returned(stack, stack', t, [stack[t][2] EXCEPT !.result = f.result])
  BY <1>4 DEF InvokeReturns, Return, Returned
<1>6. stack' \in Stacks /\ Run(stack', plugin, mapped, history)
  BY <1>2, <1>3, <1>5, SameSelf, QuietReturn
<1> QED BY <1>6 DEF IInv, InvokeReturns, Stacks

\* The outcomes of Invoke.
Resulted(c, r) == [c EXCEPT !.result = r]

InvokeFrame(hook, final, gen) ==
  [Frame("invoke", "prepare") EXCEPT !.hook = hook, !.final = final, !.gen = gen]

LEMMA FrameFacts ==
  ASSUME NEW op \in {"start", "event", "end", "unload", "invoke"}, NEW at \in Places
  PROVE  /\ Frame(op, at) \in Fields
         /\ Frame(op, at).op = op /\ Frame(op, at).at = at
         /\ Frame(op, at).final = FALSE /\ Frame(op, at).todo = <<>>
<1>1. <<>> \in Seq(Range(Inits))
  OBVIOUS
<1> HIDE DEF Places
<1> QED BY <1>1 DEF Frame, Fields

LEMMA InvokeFrameFacts ==
  ASSUME NEW hook \in Range(Inits) \cup Events \cup {"start", "end"},
         NEW final \in BOOLEAN, NEW gen \in Nat
  PROVE  LET g == InvokeFrame(hook, final, gen)
         IN /\ g \in Frames /\ g \in Flying /\ g \notin Work /\ g \notin Unloads
            /\ g.op = "invoke" /\ g.at = "prepare" /\ g.hook = hook /\ g.final = final
            /\ Ready(g) <=> final
<1> DEFINE g == InvokeFrame(hook, final, gen)
<1> DEFINE e == Frame("invoke", "prepare")
<1>1. e \in Fields /\ e.op = "invoke" /\ e.at = "prepare"
  BY FrameFacts DEF Places
<1>2. g = [e EXCEPT !.hook = hook, !.final = final, !.gen = gen]
  BY DEF InvokeFrame
<1> HIDE DEF g, e
<1>3. g \in Fields
  BY <1>1, <1>2 DEF Fields
<1>4. g.op = "invoke" /\ g.at = "prepare" /\ g.hook = hook /\ g.final = final
  BY <1>1, <1>2 DEF Fields
<1>5. g \in Frames
  BY <1>3, <1>4 DEF Frames, Placed
<1> QED BY <1>4, <1>5, FlyingInvoke, WorkNotInvoke DEF Ready, Unloads, g

LEMMA InvokeCases ==
  ASSUME NEW t \in Threads, NEW caller, NEW hook, NEW final, stack[t] # <<>>,
         Invoke(t, caller, hook, final)
  PROVE  \/ /\ Changed(stack, stack', t, Resulted(caller, "true"))
            /\ plugin' = plugin /\ hook \notin Hooks \cup Range(Inits)
         \/ /\ Changed(stack, stack', t, Resulted(caller, "false"))
            /\ plugin' = plugin /\ ~Permitted(final)
         \/ /\ Called(stack, stack', t, caller, InvokeFrame(hook, final, plugin.generation))
            /\ plugin' = [plugin EXCEPT !.inFlight = @ + 1]
            /\ Permitted(final) /\ hook \in Hooks \cup Range(Inits)
BY DEF Invoke, Changed, Called, Resulted, InvokeFrame, Replace

LEMMA HooksKnown ==
  ASSUME NEW hook \in Hooks \cup Range(Inits)
  PROVE  hook \in Range(Inits) \cup Events \cup {"start", "end"}
BY ConstantsAssumption DEF Events

\* One more hook is in flight.
LEMMA MoreFlying ==
  ASSUME NEW p \in Plugin, NEW p2, p2 = [p EXCEPT !.inFlight = @ + 1]
  PROVE  p2 \in Plugin /\ Same(p, p2) /\ p2.inFlight = p.inFlight + 1
BY DEF Plugin, Same

LEMMA EventRun ==
  ASSUME IInv, title = "running", NEW t \in Threads, NEW event \in Events, Event(t, event)
  PROVE  IInv'
<1> DEFINE g == [Frame("event", "event") EXCEPT !.hook = event]
<1>1. stack \in Stacks /\ Run(stack, plugin, mapped, history) /\ plugin \in Plugin
  BY DEF IInv, Stacks
<1>2. Frame("event", "event") \in Fields /\ Frame("event", "event").op = "event"
      /\ Frame("event", "event").at = "event"
  BY FrameFacts DEF Places
<1>3. g \in Fields /\ g.op = "event" /\ g.at = "event" /\ g.hook = event
  BY <1>2 DEF Fields
<1>5. Pushed(stack, stack', t, g)
  BY DEF Event, Push, Pushed
<1> HIDE DEF g
<1>4. g \in Frames
  BY <1>3 DEF Frames, Placed
<1>6. stack[t] # <<>> => Head(stack[t]).op = "invoke" /\ Head(stack[t]).at \in {"hook", "return"}
  <2> SUFFICES ASSUME stack[t] # <<>>
               PROVE  Head(stack[t]).op = "invoke" /\ Head(stack[t]).at \in {"hook", "return"}
    OBVIOUS
  <2>1. At(t, "hook")
    BY DEF Event, CanCall
  <2> QED BY <2>1, AtTop DEF Placed
<1>7. /\ Same(plugin, plugin') /\ plugin' \in Plugin /\ plugin'.inFlight = plugin.inFlight
  <2>1. CASE event = "exit"
    <3>1. plugin' = [plugin EXCEPT !.exitInProgress = TRUE]
      BY <2>1 DEF Event, Busy
    <3> QED BY <1>1, <3>1 DEF Plugin, Same
  <2>2. CASE event # "exit"
    <3>1. plugin' = [plugin EXCEPT !.foregroundTransition = TRUE]
      BY <2>2 DEF Event, Busy
    <3> QED BY <1>1, <3>1 DEF Plugin, Same
  <2> QED BY <2>1, <2>2
<1>8. stack' \in Stacks /\ Run(stack', plugin', mapped, history)
  BY <1>1, <1>3, <1>4, <1>5, <1>6, <1>7, QuietPush
<1> QED BY <1>7, <1>8 DEF IInv, Event, Stacks

LEMMA EventFrame ==
  ASSUME NEW f \in Frames, f.op = "event", NEW r \in {"true", "false", "invoked"}
  PROVE  LET c == [f EXCEPT !.at = "evented"]
         IN /\ c \in Frames /\ c.op = "event" /\ c.at = "evented" /\ c.hook = f.hook
            /\ Resulted(c, r) \in Frames /\ Resulted(c, r).op = "event"
            /\ Resulted(c, r).at = "evented" /\ f.hook \in Events
<1> DEFINE c == [f EXCEPT !.at = "evented"]  d == Resulted(c, r)
<1>1. f \in Fields /\ f.hook \in Events
  BY DEF Frames, Placed
<1>2. c \in Fields /\ c.op = "event" /\ c.at = "evented" /\ c.hook = f.hook
  BY <1>1 DEF Fields, Places
<1> HIDE DEF c
<1>3. d \in Fields /\ d.op = "event" /\ d.at = "evented" /\ d.hook = f.hook
  BY <1>2 DEF Fields, Resulted
<1> HIDE DEF d
<1>4. c \in Frames /\ d \in Frames
  BY <1>1, <1>2, <1>3 DEF Frames, Placed
<1> QED BY <1>1, <1>2, <1>3, <1>4 DEF c, d

LEMMA InvokeEventRun ==
  ASSUME IInv, title = "running", NEW t \in Threads, InvokeEvent(t)
  PROVE  IInv'
<1> DEFINE f == Top(t)  c == [f EXCEPT !.at = "evented"]
           g == InvokeFrame(f.hook, FALSE, plugin.generation)
<1>1. /\ stack \in Stacks /\ stack[t] # <<>> /\ f = Head(stack[t]) /\ f \in Frames
      /\ f.at = "event" /\ Placed(f) /\ f \in Fields
      /\ Run(stack, plugin, mapped, history)
  BY AtTop DEF InvokeEvent
<1>2. f.op = "event" /\ f.hook \in Events /\ plugin \in Plugin /\ plugin.generation \in Nat
  BY <1>1 DEF Placed, IInv, Plugin
<1>3. Invoke(t, c, f.hook, FALSE)
  BY DEF InvokeEvent
<1>4. \A r \in {"true", "false"} :
         Resulted(c, r) \in Frames /\ Resulted(c, r).op = "event" /\ Resulted(c, r).at = "evented"
  BY <1>1, <1>2, EventFrame
<1>5. c \in Frames /\ c.op = "event" /\ c.at = "evented"
  BY <1>1, <1>2, EventFrame
<1> HIDE DEF f, c
<1>6. ASSUME NEW r \in {"true", "false"}, Changed(stack, stack', t, Resulted(c, r)),
             plugin' = plugin
      PROVE  stack' \in Stacks /\ Run(stack', plugin', mapped, history) /\ plugin' \in Plugin
  <2> DEFINE d == Resulted(c, r)
  <2>1. /\ d \in Frames /\ d.op = "event" /\ Keeps(f, d) /\ ~Ready(f) /\ ~Ready(d)
        /\ f \in Flying <=> d \in Flying
    BY <1>1, <1>2, <1>4, FlyingInvoke DEF Keeps, Ready
  <2>2. Same(plugin, plugin') /\ plugin'.inFlight = plugin.inFlight
    BY <1>6 DEF Same
  <2> HIDE DEF d
  <2>3. Changed(stack, stack', t, d)
    BY <1>6 DEF d
  <2> QED BY <1>1, <1>2, <1>6, <2>1, <2>2, <2>3, QuietChange
<1>7. ASSUME Called(stack, stack', t, c, g), plugin' = [plugin EXCEPT !.inFlight = @ + 1],
             Permitted(FALSE), f.hook \in Hooks \cup Range(Inits)
      PROVE  stack' \in Stacks /\ Run(stack', plugin', mapped, history) /\ plugin' \in Plugin
  <2>1. g \in Frames /\ g \in Flying /\ ~Ready(g) /\ g.op = "invoke" /\ ~g.final
        /\ g.hook = f.hook
    <3>1. f.hook \in Range(Inits) \cup Events \cup {"start", "end"} /\ FALSE \in BOOLEAN
      BY <1>2
    <3>2. LET i == InvokeFrame(f.hook, FALSE, plugin.generation)
          IN /\ i \in Frames /\ i \in Flying /\ i \notin Work /\ i \notin Unloads
             /\ i.op = "invoke" /\ i.at = "prepare" /\ i.hook = f.hook /\ i.final = FALSE
             /\ Ready(i) <=> FALSE
      BY <1>2, <3>1, InvokeFrameFacts
    <3> QED BY <3>2
  <2>2. Fits(c, g)
    <3>1. f.hook # "end"
      BY <1>2 DEF Events
    <3> HIDE DEF g
    <3> QED BY <1>5, <2>1, <3>1 DEF Fits
  <2>3. plugin.state \notin Revoked
    BY <1>7 DEF Permitted
  <2>4. Same(plugin, plugin') /\ plugin'.inFlight = plugin.inFlight + 1 /\ plugin' \in Plugin
    BY <1>2, <1>7, MoreFlying
  <2> HIDE DEF g
  <2>5. Called(stack, stack', t, c, g)
    BY <1>7 DEF g
  <2> QED BY <1>1, <1>2, <1>5, <2>1, <2>2, <2>3, <2>4, <2>5, QuietCall
<1>8. stack' \in Stacks /\ Run(stack', plugin', mapped, history) /\ plugin' \in Plugin
  BY <1>1, <1>2, <1>3, <1>6, <1>7, InvokeCases
<1> QED BY <1>8 DEF IInv, InvokeEvent, Stacks

LEMMA EventedRun ==
  ASSUME IInv, title = "running", NEW t \in Threads, Evented(t)
  PROVE  IInv'
<1> DEFINE f == Top(t)
<1>1. /\ stack \in Stacks /\ stack[t] # <<>> /\ f = Head(stack[t]) /\ f \in Frames
      /\ f.at = "evented" /\ Placed(f) /\ f \in Fields
      /\ Run(stack, plugin, mapped, history)
  BY AtTop DEF Evented
<1>2. f.op = "event" /\ f.hook \in Events /\ plugin \in Plugin
  BY <1>1 DEF Placed, IInv
<1>3. Popped(stack, stack', t)
  BY <1>1 DEF Evented, Pop, Popped
<1>4. f \notin Work /\ f.op # "invoke"
  BY <1>1, <1>2, WorkNotInvoke
<1>5. Same(plugin, plugin') /\ plugin' \in Plugin /\ plugin'.inFlight = plugin.inFlight
  <2>1. CASE f.hook = "exit"
    <3>1. plugin' = [plugin EXCEPT !.exitInProgress = FALSE,
                                   !.exitRequested = IF f.result = "false" THEN @
                                                     ELSE f.hook # "acquire"]
      BY <2>1 DEF Evented, Busy, Done
    <3> QED BY <1>2, <3>1 DEF Plugin, Same
  <2>2. CASE f.hook # "exit"
    <3>1. plugin' = [plugin EXCEPT !.foregroundTransition = FALSE,
                                   !.foregroundReleased = IF f.result = "false" THEN @
                                                          ELSE f.hook # "acquire"]
      BY <2>2 DEF Evented, Busy, Done
    <3> QED BY <1>2, <3>1 DEF Plugin, Same
  <2> QED BY <2>1, <2>2
<1>6. stack' \in Stacks /\ Run(stack', plugin', mapped, history)
  BY <1>1, <1>3, <1>4, <1>5, QuietPop
<1> QED BY <1>5, <1>6 DEF IInv, Evented, Stacks

\* The frames of a thread, seen from the bottom and from the top.
LEMMA UnderWayWhere ==
  ASSUME stack \in Stacks, NEW ops, ~UnderWay(ops), NEW S, NEW x \in Where(stack, S)
  PROVE  Deep(stack[x[1]], x[2]).op \notin ops
<1> DEFINE t == x[1]  k == x[2]  i == Len(stack[t]) + 1 - k
<1>1. t \in Threads /\ k \in 1..Len(stack[t])
  BY WhereIn
<1>2. stack[t] \in Seq(Frames)
  BY <1>1 DEF Stacks
<1>3. i \in 1..Len(stack[t]) /\ DOMAIN stack[t] = 1..Len(stack[t])
  BY <1>1, <1>2
<1>4. stack[t][i].op \notin ops
  BY <1>1, <1>3 DEF UnderWay
<1> QED BY <1>4 DEF Deep

LEMMA LessFlying ==
  ASSUME NEW p \in Plugin, NEW p2, p2 = [p EXCEPT !.inFlight = @ - 1]
  PROVE  /\ Same(p, p2) /\ p2.inFlight = p.inFlight - 1
         /\ p2.inFlight \in Nat => p2 \in Plugin
BY DEF Plugin, Same

LEMMA SameGood ==
  ASSUME NEW p, NEW p2, NEW m, NEW h, NEW h2, Same(p, p2), h2.owed = h.owed, h2.ends = h.ends,
         h2.active = h.active
  PROVE  /\ Always(p, m, h) => Always(p2, m, h2)
         /\ Resting(p, m, h) => Resting(p2, m, h2)
BY DEF Same, Always, Resting, Due

\* The last one out begins the application end that was left to it.
LEMMA LeftEndsRun ==
  ASSUME NEW st \in Stacks, NEW st2, NEW p, NEW p2, NEW m, NEW h, NEW h2, NEW t \in Threads,
         NEW c \in Frames, NEW g \in Frames, Run(st, p, m, h), Called(st, st2, t, c, g),
         Head(st[t]).op = "invoke", Head(st[t]).at = "left", c.op = "invoke", c.at = "return",
         Keeps(Head(st[t]), c), g.op = "end", g.at = "end",
         p.inFlight = 1, p2.inFlight = p.inFlight - 1, Same(p, p2),
         ~p.teardown, p.deferredEnd, p.endsPending,
         h2.cutShort = h.cutShort, h2.owed = h.owed, h2.ends = h.ends, h2.active = h.active,
         ~h2.doubled =>
           /\ ~h.doubled
           /\ \A x \in Where(st, Work) : Deep(st[x[1]], x[2]).op # "end"
  PROVE  st2 \in Stacks /\ Run(st2, p2, m, h2) /\ p2.inFlight \in Nat
<1>a. st[t] # <<>> /\ Head(st[t]) \in Frames
  BY TopFits DEF Called, Run, Shaped
<1>1. /\ Head(st[t]) \in Flying /\ c \notin Flying /\ g \notin Flying /\ Fits(c, g)
      /\ c \notin Work /\ g \in Work /\ g \notin Tearing /\ c \notin Tearing
      /\ c \notin Unloads /\ g \notin Unloads
  BY <1>a, FlyingInvoke, WorkNotInvoke DEF Fits, Unloads, Tearing
<1>2. st2 \in Stacks /\ Shaped(st2, p2) /\ p2.inFlight \in Nat
  BY <1>1, ShapeLeave DEF Run
<1>3. ASSUME ~h2.cutShort
      PROVE  Torn(st2, p2)
  <2>1. Where(st, Tearing) = {}
    BY <1>3, TornClean DEF Run
  <2>2. Where(st2, Tearing) = {}
    BY <1>1, <2>1, NoneCall
  <2> QED BY <2>2, TornNone
<1>4. ASSUME ~h2.cutShort, ~h2.doubled
      PROVE  Good(st2, p2, m, h2)
  <2>1. Good(st, p, m, h)
    BY <1>4 DEF Run
  <2>2. ASSUME NEW x \in Where(st, Work)
        PROVE  FALSE
    <3>1. Working(Deep(st[x[1]], x[2]), Prep(st[x[1]], x[2]), p, m, h)
      BY <2>1 DEF Good
    <3>2. Deep(st[x[1]], x[2]).op # "end"
      BY <1>4
    <3> QED BY <3>1, <3>2 DEF Working, Starting, Unloading
  <2>3. Idle(st) /\ Where(st, Work) \subseteq {<<t, Len(st[t])>>}
    BY <2>2 DEF Idle
  <2>4. Resting(p, m, h) /\ Always(p, m, h) /\ Unloadable(st, p)
    BY <2>1, <2>3 DEF Good, Idle
  <2>5. Sole(st2, <<t, Len(st[t]) + 1>>, g, <<>>)
    BY <1>1, <2>3, MoveCall
  <2>6. Resting(p2, m, h2) /\ Always(p2, m, h2)
    BY <2>4, SameGood
  <2>7. Unloadable(st2, p2)
    <3>1. Where(st, Unloads) = {}
      BY <2>4 DEF Unloadable
    <3>2. Where(st2, Unloads) = {}
      BY <1>1, <3>1, NoneCall
    <3> QED BY <2>4, <3>2 DEF Unloadable, Same
  <2>8. p2.endsPending /\ p2.transition /\ p2.state \in {"Deinitialized", "Unloading"} /\ m
    BY <2>6 DEF Always, Same
  <2>9. Ending(g, <<>>, p2, m, h2)
    <3>1. h2.owed = p2.journal /\ Due(p2, h2)
      BY <2>6, <2>8 DEF Resting
    <3> QED BY <2>8, <3>1 DEF Ending, Finishing
  <2> QED BY <2>5, <2>6, <2>7, <2>9, GoodSole DEF Working
<1> QED BY <1>2, <1>3, <1>4 DEF Run

\* The last one out begins the unload that was left to it.
LEMMA LeftUnloadsRun ==
  ASSUME NEW st \in Stacks, NEW st2, NEW p, NEW p2, NEW m, NEW h, NEW t \in Threads,
         NEW c \in Frames, NEW g \in Frames, Run(st, p, m, h), Called(st, st2, t, c, g),
         Head(st[t]).op = "invoke", Head(st[t]).at = "left", c.op = "invoke", c.at = "return",
         Keeps(Head(st[t]), c), g.op = "unload", g.at = "unload",
         p.inFlight = 1, p2.inFlight = p.inFlight - 1, Same(p, p2),
         ~p.teardown, ~(p.deferredEnd /\ p.endsPending), p.deferredUnload
  PROVE  st2 \in Stacks /\ Run(st2, p2, m, h) /\ p2.inFlight \in Nat
<1>a. st[t] # <<>> /\ Head(st[t]) \in Frames
  BY TopFits DEF Called, Run, Shaped
<1>1. /\ Head(st[t]) \in Flying /\ c \notin Flying /\ g \notin Flying /\ Fits(c, g)
      /\ c \notin Work /\ g \notin Work /\ g \notin Tearing /\ c \notin Tearing
      /\ Head(st[t]) \notin Work
      /\ ~Ready(Head(st[t])) /\ ~Ready(c) /\ ~Ready(g)
  BY <1>a, FlyingInvoke, WorkNotInvoke DEF Fits, Unloads, Tearing, Ready
<1>2. /\ st2 \in Stacks /\ Shaped(st2, p2) /\ p2.inFlight \in Nat
      /\ Where(st2, Flying) = {}
  BY <1>1, ShapeLeave DEF Run
<1>3. ASSUME ~h.cutShort
      PROVE  Torn(st2, p2)
  <2>1. Where(st, Tearing) = {}
    BY <1>3, TornClean DEF Run
  <2>2. Where(st2, Tearing) = {}
    BY <1>1, <2>1, NoneCall
  <2> QED BY <2>2, TornNone
<1>4. Steady(st, st2)
  BY <1>1, SteadyCall
<1>5. ASSUME ~h.cutShort, ~h.doubled
      PROVE  Good(st2, p2, m, h)
  <2>1. Good(st, p, m, h)
    BY <1>5 DEF Run
  <2>2. Unloadable(st2, p2)
    BY <2>1 DEF Good, Unloadable, Always, Same
  <2> QED BY <1>2, <1>4, <2>1, <2>2, GoodSteady
<1> QED BY <1>2, <1>3, <1>5 DEF Run

LEMMA UnloadFrameFacts ==
  ASSUME NEW keep \in BOOLEAN
  PROVE  LET g == UnloadFrame(keep)
         IN /\ g \in Frames /\ g.op = "unload" /\ g.at = "unload" /\ g.keep = keep
            /\ g \in Unloads /\ g \notin Work /\ g \notin Flying /\ ~Ready(g)
<1> DEFINE g == UnloadFrame(keep)  e == Frame("unload", "unload")
<1>1. e \in Fields /\ e.op = "unload" /\ e.at = "unload"
  BY FrameFacts DEF Places
<1>2. g = [e EXCEPT !.keep = keep]
  BY DEF UnloadFrame
<1> HIDE DEF g, e
<1>3. g \in Fields /\ g.op = "unload" /\ g.at = "unload" /\ g.keep = keep
  BY <1>1, <1>2 DEF Fields
<1>4. g \in Frames
  BY <1>3 DEF Frames, Placed
<1> QED BY <1>3, <1>4, WorkNotInvoke, FlyingInvoke DEF Unloads, Ready, g

LEMMA EndFrameFacts ==
  LET g == Frame("end", "end")
  IN /\ g \in Frames /\ g.op = "end" /\ g.at = "end"
     /\ g \in Work /\ g \notin Tearing /\ g \notin Unloads /\ g \notin Flying /\ ~Ready(g)
<1> DEFINE g == Frame("end", "end")
<1>1. g \in Fields /\ g.op = "end" /\ g.at = "end"
  BY FrameFacts DEF Places
<1> HIDE DEF g
<1>2. g \in Frames
  BY <1>1 DEF Frames, Placed
<1> QED BY <1>1, <1>2, WorkNotInvoke, FlyingInvoke DEF Unloads, Ready, Work, g

LEMMA LeftRun ==
  ASSUME IInv, title = "running", NEW t \in Threads, Left(t)
  PROVE  IInv'
<1> DEFINE f == Top(t)  c == [f EXCEPT !.at = "return"]
           last == plugin.inFlight = 1 /\ ~plugin.teardown
           ends == last /\ plugin.deferredEnd /\ plugin.endsPending
<1>1. /\ stack \in Stacks /\ stack[t] # <<>> /\ f = Head(stack[t]) /\ f \in Frames
      /\ f.at = "left" /\ Placed(f) /\ f \in Fields
      /\ Run(stack, plugin, mapped, history)
  BY AtTop DEF Left
<1>2. f.op = "invoke" /\ f.result \in {"true", "false", "invoked"}
  BY <1>1 DEF Placed, Fields
<1>3. plugin \in Plugin /\ history \in History /\ plugin.inFlight \in Nat
  BY DEF IInv, Plugin
<1>4. /\ Same(plugin, plugin') /\ plugin'.inFlight = plugin.inFlight - 1
      /\ plugin'.inFlight \in Nat => plugin' \in Plugin
  BY <1>3, LessFlying DEF Left
<1>5. c \in Frames /\ c.op = "invoke" /\ c.at = "return" /\ Keeps(f, c)
  <2>1. c = Moved(f, "return", f.result)
    BY <1>1 DEF Moved, Fields
  <2> QED BY <1>1, <1>2, <2>1, InvokeMoves
<1>6. /\ history' \in History
      /\ history'.cutShort = history.cutShort /\ history'.owed = history.owed
      /\ history'.ends = history.ends /\ history'.active = history.active
      /\ history'.doubled = (history.doubled \/ (ends /\ UnderWay({"end"})))
  BY <1>3 DEF Left, History
<1>7. mapped' = mapped /\ title' = title /\ starts' = starts
  BY DEF Left
<1>8. CASE ends
  <2> DEFINE g == Frame("end", "end")
  <2>1. Called(stack, stack', t, c, g)
    BY <1>1, <1>8 DEF Left, Replace, Called
  <2>2. ~history'.doubled =>
          /\ ~history.doubled
          /\ \A x \in Where(stack, Work) : Deep(stack[x[1]], x[2]).op # "end"
    BY <1>1, <1>6, <1>8, UnderWayWhere
  <2>3. g \in Frames /\ g.op = "end" /\ g.at = "end"
    BY EndFrameFacts
  <2> HIDE DEF f, c, g
  <2>4. stack' \in Stacks /\ Run(stack', plugin', mapped, history') /\ plugin'.inFlight \in Nat
    BY <1>1, <1>2, <1>4, <1>5, <1>6, <1>8, <2>1, <2>2, <2>3, LeftEndsRun
  <2> QED BY <1>4, <1>6, <1>7, <2>4 DEF IInv, Stacks
<1>9. CASE ~ends
  <2>1. history' = history
    BY <1>3, <1>6, <1>9 DEF Left, History
  <2>2. CASE last /\ plugin.deferredUnload
    <3> DEFINE g == UnloadFrame(FALSE)
    <3>1. Called(stack, stack', t, c, g)
      BY <1>1, <1>9, <2>2 DEF Left, Replace, Called
    <3>2. g \in Frames /\ g.op = "unload" /\ g.at = "unload"
      BY UnloadFrameFacts
    <3> HIDE DEF f, c, g
    <3>3. stack' \in Stacks /\ Run(stack', plugin', mapped, history) /\ plugin'.inFlight \in Nat
      BY <1>1, <1>2, <1>4, <1>5, <1>9, <2>2, <3>1, <3>2, LeftUnloadsRun
    <3> QED BY <1>4, <1>6, <1>7, <2>1, <3>3 DEF IInv, Stacks
  <2>3. CASE ~(last /\ plugin.deferredUnload)
    <3>1. Len(stack[t]) >= 2
      BY <1>1, <1>2, TopFits DEF Run, Shaped
    <3>2. Returned(stack, stack', t, [stack[t][2] EXCEPT !.result = f.result])
      BY <1>9, <2>3, <3>1 DEF Left, Return, Returned
    <3>3. /\ stack' \in Stacks /\ Run(stack', plugin', mapped, history)
          /\ plugin.inFlight \in Nat => plugin'.inFlight \in Nat
      <4> DEFINE r == f.result
      <4>1. /\ r \in {"true", "false", "invoked"}
            /\ Returned(stack, stack', t, [stack[t][2] EXCEPT !.result = r])
            /\ Head(stack[t]).op = "invoke" /\ Head(stack[t]).at \in {"left", "return"}
        BY <1>1, <1>2, <3>2
      <4>2. plugin'.inFlight = IF Head(stack[t]).at = "left" THEN plugin.inFlight - 1
                               ELSE plugin.inFlight
        BY <1>1, <1>4
      <4> HIDE DEF r, f
      <4> QED BY <1>1, <1>4, <4>1, <4>2, QuietReturn
    <3> QED BY <1>3, <1>4, <1>6, <1>7, <2>1, <3>3 DEF IInv, Stacks
  <2> QED BY <2>2, <2>3
<1> QED BY <1>8, <1>9


-----------------------------------------------------------------------------
\* The finalizer that is prepared is the last one that is owed

LEMMA AbsentFacts ==
  ASSUME NEW S, NEW q \in Seq(S), NEW e, e \notin S
  PROVE  RemoveFirst(q, e) = q
BY DEF RemoveFirst

LEMMA LastFacts ==
  ASSUME NEW S, NEW q \in Seq(S), q # <<>>, \A i, j \in 1..Len(q) : q[i] = q[j] => i = j
  PROVE  /\ RemoveFirst(q, q[Len(q)]) = Front(q)
         /\ Front(q) \in Seq(S) /\ Len(Front(q)) = Len(q) - 1
         /\ \A i \in 1..(Len(q) - 1) : Front(q)[i] = q[i]
<1> DEFINE n == Len(q)  e == q[n]  I == {i \in 1..n : q[i] = e}
<1>1. n \in Nat \ {0} /\ n \in 1..n
  OBVIOUS
<1>2. I = {n}
  BY <1>1
<1>3. SelectInSeq(q, LAMBDA v : v = e) = n
  <2>1. SelectInSeq(q, LAMBDA v : v = e) = IF I # {} THEN Min(I) ELSE 0
    BY DEF SelectInSeq
  <2>2. Min({n}) = n
    BY <1>1 DEF Min
  <2> QED BY <1>2, <2>1, <2>2
<1>4. SubSeq(q, n + 1, n) = <<>>
  <2> HIDE DEF n
  <2>1. n \in Int /\ n + 1 \in Int /\ n < n + 1
    BY <1>1
  <2> QED BY <2>1, SubSeqEmpty
<1>5. Front(q) \in Seq(S) /\ Len(Front(q)) = n - 1 /\ \A i \in 1..(n - 1) : Front(q)[i] = q[i]
  <2>1. SubSeq(q, 1, n - 1) \in Seq(S) /\ Len(SubSeq(q, 1, n - 1)) = n - 1
        /\ \A i \in 1..(n - 1) : SubSeq(q, 1, n - 1)[i] = q[i]
    <3> HIDE DEF n
    <3>1. 1 \in Int /\ n - 1 \in Int /\ \A i \in 1..(n - 1) : q[i] \in S
      BY <1>1 DEF n
    <3>2. /\ SubSeq(q, 1, n - 1) \in Seq(S)
          /\ Len(SubSeq(q, 1, n - 1)) = IF 1 <= n - 1 THEN (n - 1) - 1 + 1 ELSE 0
          /\ \A i \in 1..((n - 1) - 1 + 1) : SubSeq(q, 1, n - 1)[i] = q[1 + i - 1]
      BY <3>1, SubSeqProperties
    <3> QED BY <1>1, <3>2
  <2> QED BY <2>1 DEF Front
<1>6. RemoveFirst(q, e) = RemoveAt(q, n)
  <2>1. \E i \in 1..Len(q) : q[i] = e
    BY <1>1
  <2>2. RemoveFirst(q, e) = RemoveAt(q, SelectInSeq(q, LAMBDA v : v = e))
    BY <2>1 DEF RemoveFirst
  <2> QED BY <1>3, <2>2
<1>7. RemoveAt(q, n) = Front(q) \o <<>>
  BY <1>4 DEF RemoveAt, Front
<1>8. Front(q) \o <<>> = Front(q)
  BY <1>5
<1> QED BY <1>5, <1>6, <1>7, <1>8

LEMMA PrefixInjective ==
  ASSUME NEW q \in Seq(Range(Inits)), Prefix(q)
  PROVE  \A i, j \in 1..Len(q) : q[i] = q[j] => i = j
<1>1. Inits \in Seq(STRING) /\ \A i, j \in 1..Len(Inits) : Inits[i] = Inits[j] => i = j
  BY ConstantsAssumption DEF IsInjective
<1>2. Len(q) \in Nat /\ Len(Inits) \in Nat
  BY <1>1
<1>3. \A i \in 1..Len(q) : i \in 1..Len(Inits) /\ q[i] = Inits[i]
  BY <1>2 DEF Prefix
<1> QED BY <1>1, <1>3

Owes(h, f) ==
  [h EXCEPT !.owed = IF f.final THEN RemoveFirst(@, f.hook) ELSE @,
            !.ends = IF f.hook = "end" THEN @ + 1 ELSE @]

\* The application end, or a finalizer, begins.
LEMMA Prepares ==
  ASSUME NEW p, NEW m, NEW h \in History, NEW h2, NEW f, NEW b \in Frames, b.op \in {"end", "unload"},
         f.final, h2 = Owes(h, f),
         \/ b.at = "swap" /\ f.hook = "end"
         \/ b.at = "fini" /\ f.hook \in Range(Inits),
         Always(p, m, h), Working(b, <<f.hook>>, p, m, h)
  PROVE  /\ h2 \in History /\ Always(p, m, h2) /\ Working(b, <<>>, p, m, h2)
         /\ h2.owed # h.owed => h.owed # <<>> /\ h2.owed = Front(h.owed)
<1>1. /\ h.owed \in Seq(Range(Inits)) /\ h.ends \in Nat /\ h.active \in BOOLEAN
      /\ h.cutShort \in BOOLEAN /\ h.doubled \in BOOLEAN
  BY DEF History
<1>2. "end" \notin Range(Inits)
  BY ConstantsAssumption
<1>3. /\ h2.owed = RemoveFirst(h.owed, f.hook)
      /\ h2.ends = (IF f.hook = "end" THEN h.ends + 1 ELSE h.ends)
      /\ h2.active = h.active /\ h2.cutShort = h.cutShort /\ h2.doubled = h.doubled
      /\ h2 = [owed |-> h2.owed, ends |-> h2.ends, active |-> h2.active,
               cutShort |-> h2.cutShort, doubled |-> h2.doubled]
  BY DEF Owes, History
<1>4. /\ Finishing(b, <<f.hook>>, p, m, h)
      /\ \/ b.op = "end" /\ p.transition /\ m /\ p.state \in {"Deinitialized", "Unloading"}
         \/ b.op = "unload" /\ p.state \in {"Unloading", "Failed"} /\ ~p.deferredEnd
      /\ ~p.endsPending
  BY DEF Working, Ending, Unloading, Finishing
<1>5. CASE b.at = "swap" /\ f.hook = "end"
  <2>1. h2.owed = h.owed
    BY <1>1, <1>2, <1>3, <1>5, AbsentFacts
  <2>2. <<f.hook>> # <<>>
    OBVIOUS
  <2>3. m /\ h.ends = 0 /\ h.owed = p.journal
    BY <1>4, <1>5, <2>2 DEF Finishing
  <2>4. h2.ends = 1
    BY <1>3, <1>5, <2>3
  <2>5. h2 \in History
    BY <1>1, <1>3, <2>1, <2>4 DEF History
  <2>6. Always(p, m, h2)
    BY <1>4, <2>1, <2>3, <2>4 DEF Always
  <2>7. Finishing(b, <<>>, p, m, h2)
    BY <1>4, <1>5, <2>1, <2>3, <2>4 DEF Finishing, Came
  <2> QED BY <1>4, <1>5, <2>1, <2>5, <2>6, <2>7 DEF Working, Ending, Unloading
<1>6. CASE b.at = "fini" /\ f.hook \in Range(Inits)
  <2> DEFINE q == h.owed  n == Len(q)
  <2>1. f.hook # "end"
    BY <1>2, <1>6
  <2>2. /\ Mirrors(q, b.todo, <<f.hook>>) /\ p.journal = <<>> /\ Came(h)
    BY <1>4, <1>6 DEF Finishing
  <2>3. Len(<<f.hook>>) = 1 /\ <<f.hook>>[1] = f.hook /\ <<f.hook>> # <<>>
    OBVIOUS
  <2>4. /\ n = Len(b.todo) + 1 /\ q[Len(b.todo) + 1] = f.hook
        /\ \A i \in 1..Len(b.todo) : b.todo[i] = q[Len(b.todo) + 1 - i]
    BY <2>2, <2>3 DEF Mirrors
  <2>5. n \in Nat /\ Prefix(q)
    BY <1>1 DEF Always
  <2>6. \A i, j \in 1..Len(q) : q[i] = q[j] => i = j
    BY <1>1, <2>5, PrefixInjective
  <2>7. Len(b.todo) \in Nat /\ n = Len(b.todo) + 1 /\ q[n] = f.hook /\ q # <<>>
    <3>1. b \in Fields
      BY DEF Frames
    <3>2. b.todo \in Seq(Range(Inits))
      BY <3>1 DEF Fields
    <3>3. Len(b.todo) \in Nat
      BY <3>2
    <3>4. n # 0
      BY <2>4, <3>3
    <3> QED BY <1>1, <2>4, <3>3, <3>4
  <2>8. /\ RemoveFirst(q, q[n]) = Front(q) /\ Front(q) \in Seq(Range(Inits))
        /\ Len(Front(q)) = n - 1 /\ \A i \in 1..(n - 1) : Front(q)[i] = q[i]
    BY <1>1, <2>6, <2>7, LastFacts
  <2>9. h2.owed = Front(q) /\ h2.ends = h.ends /\ h2.active = h.active
    BY <1>3, <2>1, <2>7, <2>8
  <2> HIDE DEF q, n
  <2>10. h2 \in History
    BY <1>1, <1>3, <2>8, <2>9 DEF History
  <2>11. Prefix(Front(q))
    <3>1. Len(Inits) \in Nat
      BY ConstantsAssumption
    <3>2. n <= Len(Inits) /\ \A i \in 1..n : q[i] = Inits[i]
      BY <2>5 DEF Prefix, n
    <3> DEFINE w == Front(q)
    <3>3. Len(w) = n - 1 /\ \A i \in 1..(n - 1) : w[i] = q[i]
      BY <2>8
    <3> HIDE DEF w
    <3>4. Len(w) <= Len(Inits)
      BY <2>5, <3>1, <3>2, <3>3
    <3>5. \A i \in 1..Len(w) : w[i] = Inits[i]
      BY <2>5, <3>2, <3>3
    <3>6. Prefix(w)
      BY <3>4, <3>5 DEF Prefix
    <3> QED BY <3>6 DEF w
  <2>12. ~m => q = <<>>
    BY DEF Always, q
  <2>13. Always(p, m, h2)
    BY <1>4, <2>7, <2>9, <2>11, <2>12 DEF Always
  <2>14. Mirrors(Front(q), b.todo, <<>>)
    <3>1. Len(<<>>) = 0
      OBVIOUS
    <3>2. ASSUME NEW i \in 1..Len(b.todo)
          PROVE  b.todo[i] = Front(q)[Len(Front(q)) + 1 - i]
      <4>1. Len(b.todo) + 1 - i \in 1..(n - 1) /\ Len(Front(q)) + 1 - i = Len(b.todo) + 1 - i
        BY <2>7, <2>8
      <4>2. b.todo[i] = q[Len(b.todo) + 1 - i]
        BY <2>4
      <4> QED BY <2>8, <4>1, <4>2
    <3> QED BY <2>7, <2>8, <3>1, <3>2 DEF Mirrors
  <2>15. Finishing(b, <<>>, p, m, h2)
    BY <1>4, <1>6, <2>2, <2>9, <2>14 DEF Finishing, Came
  <2> QED BY <1>4, <1>6, <2>7, <2>9, <2>10, <2>13, <2>15 DEF Working, Ending, Unloading, q
<1> QED BY <1>5, <1>6

LEMMA RemoveFirstFacts ==
  ASSUME NEW S, NEW q \in Seq(S), NEW e
  PROVE  RemoveFirst(q, e) \in Seq(S)
<1> SUFFICES ASSUME \E i \in 1..Len(q) : q[i] = e
             PROVE  RemoveAt(q, SelectInSeq(q, LAMBDA v : v = e)) \in Seq(S)
  BY DEF RemoveFirst
<1> DEFINE I == {i \in 1..Len(q) : q[i] = e}  k == Min(I)
<1>1. SelectInSeq(q, LAMBDA v : v = e) = k
  BY DEF SelectInSeq
<1>2. k \in I
  <2> DEFINE R == {x \in Nat \X Nat : x[1] < x[2]}
  <2>1. I # {} /\ I \subseteq Nat
    OBVIOUS
  <2>a. IsWellFoundedOn(R, Nat)
    BY NatLessThanWellFounded DEF OpToRel
  <2> HIDE DEF I, R
  <2>b. PICK j \in I : \A i \in I : ~(<<i, j>> \in R)
    BY <2>1, <2>a, WFMin
  <2>2. ASSUME NEW i \in I
        PROVE  j <= i
    <3>1. i \in Nat /\ j \in Nat
      BY <2>1
    <3>2. i < j => <<i, j>> \in R
      BY <3>1 DEF R
    <3> QED BY <2>b, <3>1, <3>2
  <2>3. Min(I) = CHOOSE x \in I : \A y \in I : x =< y
    BY DEF Min
  <2> QED BY <2>2, <2>3
<1> HIDE DEF I, k
<1>3. k \in Nat \ {0} /\ k <= Len(q) /\ Len(q) \in Nat
  BY <1>2 DEF I
<1>4. SubSeq(q, 1, k - 1) \in Seq(S) /\ SubSeq(q, k + 1, Len(q)) \in Seq(S)
  <2>1. 1 \in Int /\ k - 1 \in Int /\ k + 1 \in Int /\ Len(q) \in Int
        /\ (\A i \in 1..(k - 1) : q[i] \in S) /\ (\A i \in (k + 1)..Len(q) : q[i] \in S)
    BY <1>3
  <2> QED BY <2>1, SubSeqProperties
<1>5. RemoveAt(q, k) \in Seq(S)
  BY <1>4 DEF RemoveAt
<1> QED BY <1>1, <1>5

\* The hook at the top is prepared.
LEMMA PreparesRun ==
  ASSUME NEW st \in Stacks, NEW st2, NEW p, NEW m, NEW h \in History, NEW h2,
         NEW t \in Threads, NEW g \in Frames, Run(st, p, m, h), Changed(st, st2, t, g),
         Head(st[t]).op = "invoke", Head(st[t]).at = "prepare", Head(st[t]).final,
         g.op = "invoke", g \in Flying, ~Ready(g), Keeps(Head(st[t]), g),
         h2 = Owes(h, Head(st[t]))
  PROVE  st2 \in Stacks /\ Run(st2, p, m, h2) /\ h2 \in History
<1> DEFINE n == Len(st[t])  f == Head(st[t])  b == st[t][2]
<1>a. st[t] # <<>> /\ f \in Frames
  BY TopFits DEF Changed, Run, Shaped
<1>1. /\ f \in Flying /\ f \notin Work /\ g \notin Work /\ g \notin Unloads /\ g.at # "end"
      /\ Ready(f) /\ f \notin Tearing /\ g \notin Tearing
  BY <1>a, FlyingInvoke, WorkNotInvoke DEF Ready, Unloads
<1>2. st2 \in Stacks /\ Shaped(st2, p) /\ Where(st2, Flying) = Where(st, Flying)
  BY <1>1, ShapeChange DEF Run
<1>3. /\ n \in Nat \ {0} /\ Above(st, st2, t, n - 1)
      /\ \A S : /\ Where(st2, S) = (Where(st, S) \ {<<t, n>>}) \cup One(S, g, <<t, n>>)
                /\ <<t, n>> \in Where(st, S) <=> Head(st[t]) \in S
  <2>1. /\ st2 \in Stacks /\ n \in Nat \ {0}
        /\ Above(st, st2, t, n - 1) /\ Len(st2[t]) = n /\ Deep(st2[t], n) = g
        /\ \A S : /\ Where(st2, S) = (Where(st, S) \ {<<t, n>>}) \cup One(S, g, <<t, n>>)
                  /\ <<t, n>> \in Where(st, S) <=> Head(st[t]) \in S
    BY ChangedFacts
  <2> QED BY <2>1
<1> HIDE DEF n
<1>4. /\ Where(st2, Work) = Where(st, Work) /\ Where(st2, Tearing) = Where(st, Tearing)
      /\ <<t, n>> \notin Where(st, Work)
  <2>1. /\ Where(st2, Work) = (Where(st, Work) \ {<<t, n>>}) \cup One(Work, g, <<t, n>>)
        /\ <<t, n>> \in Where(st, Work) <=> Head(st[t]) \in Work
    BY <1>3
  <2>2. /\ Where(st2, Tearing) = (Where(st, Tearing) \ {<<t, n>>}) \cup One(Tearing, g, <<t, n>>)
        /\ <<t, n>> \in Where(st, Tearing) <=> Head(st[t]) \in Tearing
    BY <1>3
  <2> QED BY <1>1, <2>1, <2>2 DEF One
<1>5. ASSUME Torn(st, p)
      PROVE  Torn(st2, p)
  <2> SUFFICES ASSUME NEW x \in Where(st2, Tearing)
               PROVE  /\ p.teardown /\ p.state \in {"Unloading", "Failed"}
                      /\ Where(st2, Work) = {x}
                      /\ Deep(st2[x[1]], x[2]).at # "drain" =>
                           \A y \in Where(st2, Flying) : y[1] = x[1]
    BY DEF Torn
  <2>1. x \in Where(st, Tearing) /\ x \in Where(st, Work)
    BY <1>4, TearingWork
  <2>2. x = <<x[1], x[2]>> /\ x[1] \in Threads /\ x[2] \in 1..Len(st[x[1]])
    BY <2>1, WhereIn
  <2>3. x[1] # t \/ x[2] <= n - 1
    BY <1>3, <1>4, <2>1, <2>2 DEF n
  <2>4. Deep(st2[x[1]], x[2]) = Deep(st[x[1]], x[2])
    BY <1>2, <1>3, <2>1, <2>3, BelowSame
  <2> QED BY <1>2, <1>4, <1>5, <2>1, <2>4 DEF Torn
<1>6. ASSUME Good(st, p, m, h)
      PROVE  Good(st2, p, m, h2) /\ h2 \in History
  <2> DEFINE y == <<t, n - 1>>
  <2>1. /\ n >= 2 /\ b \in Work /\ b.op \in {"end", "unload"}
        /\ b.at \in {"swap", "fini"}
        /\ b.at = "swap" => f.hook = "end"
        /\ b.at = "fini" => f.hook \in Range(Inits)
        /\ y \in Where(st, Work)
        /\ Deep(st[y[1]], y[2]) = b
        /\ Prep(st[y[1]], y[2]) = <<f.hook>>
    BY <1>a, <1>1, BelowReady DEF n, Run, Shaped
  <2>2. y[1] = t /\ y[2] = n - 1
    OBVIOUS
  <2> HIDE DEF y
  <2>3. Working(b, <<f.hook>>, p, m, h) /\ Always(p, m, h) /\ Unloadable(st, p)
    BY <1>6, <2>1 DEF Good
  <2>4. Where(st, Work) = {<<t, n - 1>>}
    BY <1>6, <2>1 DEF Good, y
  <2>5. Sole(st2, <<t, n - 1>>, Deep(st[t], n - 1), <<>>)
    BY <1>1, <2>4, MovePrepared DEF n
  <2>6. Sole(st2, <<t, n - 1>>, b, <<>>)
    BY <2>1, <2>2, <2>5
  <2>7. /\ h2 \in History /\ Always(p, m, h2) /\ Working(b, <<>>, p, m, h2)
    <3>1. b \in Frames
      BY <2>1 DEF Work, Tearing, Unloads
    <3>2. \/ b.at = "swap" /\ f.hook = "end"
          \/ b.at = "fini" /\ f.hook \in Range(Inits)
      BY <2>1
    <3> HIDE DEF f, b
    <3>3. /\ b \in Frames /\ b.op \in {"end", "unload"} /\ f.final /\ h2 = Owes(h, f)
          /\ \/ b.at = "swap" /\ f.hook = "end"
             \/ b.at = "fini" /\ f.hook \in Range(Inits)
          /\ Always(p, m, h) /\ Working(b, <<f.hook>>, p, m, h)
      BY <2>1, <2>3, <3>1, <3>2 DEF f
    <3> QED BY <3>3, Prepares
  <2>8. Unloadable(st2, p)
    <3>1. Where(st, Unloads) = {} => Where(st2, Unloads) = {}
      BY <1>1, NoneChange
    <3> QED BY <2>3, <3>1, SameSelf, UnloadableLess
  <2> QED BY <2>6, <2>7, <2>8, GoodSole
<1>7. h2 \in History /\ h2.cutShort = h.cutShort /\ h2.doubled = h.doubled
  <2>1. /\ h.owed \in Seq(Range(Inits)) /\ h.ends \in Nat /\ h.active \in BOOLEAN
        /\ h.cutShort \in BOOLEAN /\ h.doubled \in BOOLEAN
    BY DEF History
  <2>2. /\ h2 = [owed |-> h2.owed, ends |-> h2.ends, active |-> h2.active,
                 cutShort |-> h2.cutShort, doubled |-> h2.doubled]
        /\ h2.owed = RemoveFirst(h.owed, f.hook)
        /\ h2.ends = (IF f.hook = "end" THEN h.ends + 1 ELSE h.ends)
        /\ h2.active = h.active /\ h2.cutShort = h.cutShort /\ h2.doubled = h.doubled
    BY DEF Owes, History
  <2>3. RemoveFirst(h.owed, f.hook) \in Seq(Range(Inits))
    BY <2>1, RemoveFirstFacts
  <2>4. h2.ends \in Nat
    BY <2>1, <2>2
  <2> QED BY <2>1, <2>2, <2>3, <2>4 DEF History
<1> QED BY <1>2, <1>5, <1>6, <1>7 DEF Run

LEMMA PrepareRun ==
  ASSUME IInv, title = "running", NEW t \in Threads, Prepare(t)
  PROVE  IInv'
<1> DEFINE f == Top(t)
<1>1. /\ stack \in Stacks /\ stack[t] # <<>> /\ f = Head(stack[t]) /\ f \in Frames
      /\ f.at = "prepare" /\ Placed(f) /\ f \in Fields
      /\ Run(stack, plugin, mapped, history) /\ Shaped(stack, plugin)
  BY AtTop DEF Prepare
<1>2. f.op = "invoke" /\ f.result \in {"true", "false", "invoked"} /\ f \in Flying
  BY <1>1, FlyingInvoke DEF Placed, Fields
<1>3. PICK a \in {"hook", "leave"} : Go(t, a)
  BY DEF Prepare
<1> DEFINE g == Moved(f, a, f.result)
<1>4. /\ g \in Frames /\ g.op = "invoke" /\ g \in Flying /\ ~Ready(g) /\ Keeps(f, g)
  <2>1. g \in Frames /\ g.op = "invoke" /\ g.at = a /\ Keeps(f, g)
    BY <1>1, <1>2, InvokeMoves
  <2> QED BY <2>1, FlyingInvoke DEF Ready
<1>5. Changed(stack, stack', t, g)
  <2>1. [f EXCEPT !.at = a] = g
    BY <1>1 DEF Moved, Fields
  <2> QED BY <1>1, <1>3, <2>1 DEF Go, Replace, Changed
<1>6. /\ history' = Owes(history, f) /\ history \in History /\ plugin' = plugin
      /\ mapped' = mapped /\ title' = title /\ starts' = starts
  BY DEF Prepare, Owes, IInv
<1> HIDE DEF f, g
<1>7. CASE f.final
  <2>1. stack' \in Stacks /\ Run(stack', plugin, mapped, history') /\ history' \in History
    BY <1>1, <1>2, <1>4, <1>5, <1>6, <1>7, PreparesRun
  <2> QED BY <1>6, <2>1 DEF IInv, Stacks
<1>8. CASE ~f.final
  <2>1. f.hook # "end"
    BY <1>1, <1>2, <1>8, TopFits DEF Shaped, Fits
  <2>2. history' = history
    BY <1>6, <1>8, <2>1 DEF Owes, History
  <2>3. ~Ready(f)
    BY <1>8 DEF Ready
  <2>4. stack' \in Stacks /\ Run(stack', plugin, mapped, history)
    BY <1>1, <1>2, <1>4, <1>5, <2>3, SameSelf, QuietChange
  <2> QED BY <1>6, <2>2, <2>4 DEF IInv, Stacks
<1> QED BY <1>7, <1>8

-----------------------------------------------------------------------------
\* A step of a work

\* b: some unload is under way.
Orders(p, b) ==
  /\ p.deferredUnload \/ b => p.state \in Revoked
  /\ p.deferredEnd => ~b

Holds(f, p, m, h, b) ==
  /\ Always(p, m, h) /\ Orders(p, b) /\ Working(f, <<>>, p, m, h)
  /\ f.op = "unload" => b

Rests(p, m, h, b) == Always(p, m, h) /\ Orders(p, b) /\ Resting(p, m, h)

\* The work f goes on as g, which is an unload that begins if it is no work.
Goes(f, g, p, m, h, p2, m2, h2) ==
  \A b, b2 \in BOOLEAN :
    Holds(f, p, m, h, b) /\ (b2 => b \/ g.op = "unload") =>
      IF g \in Work
      THEN Always(p2, m2, h2) /\ Orders(p2, b2) /\ Working(g, <<>>, p2, m2, h2)
      ELSE Rests(p2, m2, h2, b2)

\* The work f ends.
Stops(f, p, m, h, p2, m2, h2) ==
  \A b, b2 \in BOOLEAN : Holds(f, p, m, h, b) /\ (b2 => b) => Rests(p2, m2, h2, b2)

\* The work f goes on as c and invokes a hook, which is final or not.
Invokes(f, c, hook, p, m, h) ==
  \A b \in BOOLEAN : Holds(f, p, m, h, b) => Working(c, hook, p, m, h)

LEMMA TopHolds ==
  ASSUME NEW st \in Stacks, NEW p, NEW m, NEW h, NEW t \in Threads, Good(st, p, m, h),
         st[t] # <<>>, Head(st[t]) \in Work
  PROVE  /\ Holds(Head(st[t]), p, m, h, Where(st, Unloads) # {})
         /\ Where(st, Work) = {<<t, Len(st[t])>>}
<1>1. /\ Where(st, Work) = {<<t, Len(st[t])>>}
      /\ Working(Head(st[t]), <<>>, p, m, h)
      /\ Always(p, m, h) /\ Unloadable(st, p)
  BY GoodTop
<1>2. Orders(p, Where(st, Unloads) # {})
  BY <1>1 DEF Unloadable, Orders
<1>3. Head(st[t]).op = "unload" => Where(st, Unloads) # {}
  <2>1. LET x == <<t, Len(st[t])>>
        IN /\ x[1] = t /\ x[2] = Len(st[t]) /\ Len(st[t]) \in Nat \ {0}
           /\ Deep(st[t], Len(st[t])) = Head(st[t]) /\ Head(st[t]) \in Frames
           /\ Prep(st[t], Len(st[t])) = <<>>
           /\ x \in Where(st, Unloads) <=> Head(st[t]) \in Unloads
    BY TopPlace
  <2> QED BY <2>1 DEF Unloads
<1> QED BY <1>1, <1>2, <1>3 DEF Holds

LEMMA WorkChange ==
  ASSUME NEW st \in Stacks, NEW st2, NEW p, NEW p2, NEW m, NEW m2, NEW h, NEW h2,
         NEW t \in Threads, NEW g \in Frames, Run(st, p, m, h), Changed(st, st2, t, g),
         Head(st[t]) \in Work, g.op # "invoke", g.at # "end",
         p2.inFlight = p.inFlight, h2.cutShort = h.cutShort, h2.doubled = h.doubled,
         g \in Tearing =>
           /\ Head(st[t]) \in Tearing /\ p2.teardown = p.teardown /\ p2.state = p.state
           /\ Head(st[t]).at = "drain" /\ g.at # "drain" => p.inFlight = 0,
         Goes(Head(st[t]), g, p, m, h, p2, m2, h2)
  PROVE  st2 \in Stacks /\ Run(st2, p2, m2, h2)
<1> DEFINE f == Head(st[t])
<1>1. /\ st[t] # <<>> /\ f \in Frames /\ f.op # "invoke" /\ f \notin Flying /\ g \notin Flying
      /\ Keeps(f, g)
  <2>1. st[t] # <<>> /\ f \in Frames
    BY TopFits DEF Changed, Run, Shaped
  <2> HIDE DEF f
  <2> QED BY <2>1, WorkNotInvoke, FlyingInvoke DEF Keeps, f
<1>2. st2 \in Stacks /\ Shaped(st2, p2) /\ Where(st2, Flying) = Where(st, Flying)
  BY <1>1, ShapeChange DEF Run
<1>3. ASSUME Torn(st, p)
      PROVE  Torn(st2, p2)
  <2>1. Counted(st, p)
    BY DEF Run, Shaped
  <2> QED BY <1>2, <1>3, <2>1, TornChange
<1>4. ASSUME Good(st, p, m, h)
      PROVE  Good(st2, p2, m2, h2)
  <2> DEFINE b == Where(st, Unloads) # {}  b2 == Where(st2, Unloads) # {}
  <2>1. Holds(f, p, m, h, b) /\ Where(st, Work) = {<<t, Len(st[t])>>}
    BY <1>1, <1>4, TopHolds
  <2>2. b2 => b \/ g.op = "unload"
    <3>1. g.op # "unload" => g \notin Unloads
      BY DEF Unloads
    <3>2. g \notin Unloads /\ Where(st, Unloads) = {} => Where(st2, Unloads) = {}
      BY NoneChange
    <3> QED BY <3>1, <3>2
  <2>3. IF g \in Work THEN Sole(st2, <<t, Len(st[t])>>, g, <<>>) ELSE Idle(st2)
    BY <2>1, MoveChange
  <2>4. b \in BOOLEAN /\ b2 \in BOOLEAN
    OBVIOUS
  <2>5. b2 = (Where(st2, Unloads) # {})
    OBVIOUS
  <2> HIDE DEF b, b2, f
  <2>6. IF g \in Work
        THEN Always(p2, m2, h2) /\ Orders(p2, b2) /\ Working(g, <<>>, p2, m2, h2)
        ELSE Rests(p2, m2, h2, b2)
    BY <2>1, <2>2, <2>4 DEF Goes, f
  <2>7. Always(p2, m2, h2) /\ Orders(p2, b2)
    BY <2>6 DEF Rests
  <2>8. Unloadable(st2, p2)
    BY <2>5, <2>7 DEF Orders, Unloadable
  <2>9. CASE g \in Work
    BY <2>3, <2>6, <2>7, <2>8, <2>9, GoodSole
  <2>10. CASE g \notin Work
    BY <2>3, <2>6, <2>7, <2>8, <2>10, GoodIdle DEF Rests
  <2> QED BY <2>9, <2>10
<1> QED BY <1>2, <1>3, <1>4 DEF Run

LEMMA WorkPop ==
  ASSUME NEW st \in Stacks, NEW st2, NEW p, NEW p2, NEW m, NEW m2, NEW h, NEW h2,
         NEW t \in Threads, Run(st, p, m, h), Popped(st, st2, t), Head(st[t]) \in Work,
         p2.inFlight = p.inFlight, h2.cutShort = h.cutShort, h2.doubled = h.doubled,
         Stops(Head(st[t]), p, m, h, p2, m2, h2)
  PROVE  st2 \in Stacks /\ Run(st2, p2, m2, h2)
<1> DEFINE f == Head(st[t])
<1>1. /\ st[t] # <<>> /\ f \in Frames /\ f.op # "invoke"
  <2>1. st[t] # <<>> /\ f \in Frames
    BY TopFits DEF Popped, Run, Shaped
  <2> HIDE DEF f
  <2> QED BY <2>1, WorkNotInvoke DEF f
<1>2. st2 \in Stacks /\ Shaped(st2, p2) /\ Where(st2, Flying) = Where(st, Flying)
  BY <1>1, ShapePop DEF Run
<1>3. ASSUME Torn(st, p)
      PROVE  Torn(st2, p2)
  BY <1>3, TornPop
<1>4. ASSUME Good(st, p, m, h)
      PROVE  Good(st2, p2, m2, h2)
  <2> DEFINE b == Where(st, Unloads) # {}  b2 == Where(st2, Unloads) # {}
  <2>1. Holds(f, p, m, h, b) /\ Where(st, Work) = {<<t, Len(st[t])>>}
    BY <1>1, <1>4, TopHolds
  <2>2. b2 => b
    <3>1. ~b => Where(st2, Unloads) = {}
      BY NonePop
    <3> QED BY <3>1
  <2>3. Idle(st2)
    BY <2>1, MovePop
  <2>4. b \in BOOLEAN /\ b2 \in BOOLEAN
    OBVIOUS
  <2>5. b2 = (Where(st2, Unloads) # {})
    OBVIOUS
  <2> HIDE DEF b, b2, f
  <2>6. Rests(p2, m2, h2, b2)
    BY <2>1, <2>2, <2>4 DEF Stops, f
  <2>8. Unloadable(st2, p2)
    BY <2>5, <2>6 DEF Orders, Unloadable, Rests
  <2> QED BY <2>3, <2>6, <2>8, GoodIdle DEF Rests
<1> QED BY <1>2, <1>3, <1>4 DEF Run

LEMMA WorkCall ==
  ASSUME NEW st \in Stacks, NEW st2, NEW p, NEW p2, NEW m, NEW h,
         NEW t \in Threads, NEW c \in Frames, NEW g \in Frames,
         Run(st, p, m, h), Called(st, st2, t, c, g), Head(st[t]) \in Work,
         c.op = Head(st[t]).op, Fits(c, g), g \in Flying, Head(st[t]).at # "drain",
         Same(p, p2), p2.inFlight = p.inFlight + 1,
         Invokes(Head(st[t]), c, IF Ready(g) THEN <<g.hook>> ELSE <<>>, p, m, h)
  PROVE  st2 \in Stacks /\ Run(st2, p2, m, h)
<1> DEFINE f == Head(st[t])  hook == IF Ready(g) THEN <<g.hook>> ELSE <<>>
<1>a. st[t] # <<>> /\ f \in Frames
  BY TopFits DEF Called, Run, Shaped
<1>1. /\ f.op # "invoke" /\ f \notin Flying /\ c \notin Flying /\ Keeps(f, c)
      /\ g.op = "invoke" /\ g \notin Work /\ g \notin Unloads /\ c.op # "invoke"
  <2>1. f.op # "invoke"
    BY <1>a, WorkNotInvoke
  <2>2. g.op = "invoke"
    BY FlyingInvoke
  <2> HIDE DEF f
  <2>3. c.op # "invoke"
    BY <2>1 DEF f
  <2>4. f \notin Flying /\ c \notin Flying
    BY <1>a, <2>1, <2>3, FlyingInvoke
  <2>5. g \notin Work
    BY <2>2, WorkNotInvoke
  <2> QED BY <2>1, <2>2, <2>3, <2>4, <2>5 DEF Keeps, Unloads
<1>b. c \in Work /\ (c \in Tearing => f \in Tearing)
  <2>1. Fits(c, g) /\ c.at # "unload"
    BY <1>1 DEF Fits
  <2>2. f.op \in {"start", "end"} \/ f \in Tearing
    BY <1>a, WorkNotInvoke
  <2>3. f \in Tearing => f.op = "unload" /\ f.at # "unload"
    BY <1>a, WorkNotInvoke
  <2>4. c \in Tearing <=> c.op = "unload" /\ c.at # "unload"
    BY WorkNotInvoke
  <2>5. c \in Work <=> c.op \in {"start", "end"} \/ c \in Tearing
    BY WorkNotInvoke
  <2> QED BY <2>1, <2>2, <2>3, <2>4, <2>5
<1>2. /\ st2 \in Stacks /\ Shaped(st2, p2)
      /\ Where(st2, Flying) = Where(st, Flying) \cup {<<t, Len(st[t]) + 1>>}
  BY <1>1, ShapeCall DEF Run
<1>3. ASSUME Torn(st, p)
      PROVE  Torn(st2, p2)
  <2>1. p2.teardown = p.teardown /\ p2.state = p.state
    BY DEF Same
  <2> QED BY <1>1, <1>b, <1>2, <1>3, <2>1, TornCall
<1>4. ASSUME Good(st, p, m, h)
      PROVE  Good(st2, p2, m, h)
  <2> DEFINE b == Where(st, Unloads) # {}
  <2>1. Holds(f, p, m, h, b) /\ Where(st, Work) = {<<t, Len(st[t])>>}
    BY <1>a, <1>4, TopHolds
  <2>2. Working(c, hook, p, m, h) /\ Always(p, m, h) /\ Orders(p, b)
    BY <2>1 DEF Invokes, Holds
  <2>3. Sole(st2, <<t, Len(st[t])>>, c, hook)
    BY <1>1, <1>b, <2>1, MoveCall
  <2> HIDE DEF f, hook
  <2>4. Working(c, hook, p2, m, h)
    BY <2>2, AlikeSelf, SameWorking
  <2>5. Always(p2, m, h)
    BY <2>2 DEF Always, Same
  <2>6. Unloadable(st2, p2)
    <3>1. ~b => Where(st2, Unloads) = {}
      <4>1. ~b => c.op # "unload"
        BY <2>1 DEF Holds, f
      <4>2. c.op # "unload" => c \notin Unloads
        BY DEF Unloads
      <4>3. c \notin Unloads /\ Where(st, Unloads) = {} => Where(st2, Unloads) = {}
        BY <1>1, NoneCall
      <4> QED BY <4>1, <4>2, <4>3
    <3>2. Unloadable(st, p)
      BY <1>4 DEF Good
    <3> QED BY <3>1, <3>2, UnloadableLess DEF b
  <2> QED BY <2>3, <2>4, <2>5, <2>6, GoodSole
<1> QED BY <1>2, <1>3, <1>4 DEF Run

\* A frame goes on at another place.
Put(f, a, q, k, r) == [f EXCEPT !.at = a, !.todo = q, !.keep = k, !.result = r]

LEMMA PutFacts ==
  ASSUME NEW f \in Frames, NEW a \in Places, NEW q \in Seq(Range(Inits)), NEW k \in BOOLEAN,
         NEW r \in {"true", "false", "invoked"}
  PROVE  LET g == Put(f, a, q, k, r)
         IN /\ g \in Fields /\ g.op = f.op /\ g.at = a /\ g.todo = q /\ g.keep = k
            /\ g.result = r /\ g.gen = f.gen
            /\ Placed(g) => g \in Frames
<1> DEFINE g == Put(f, a, q, k, r)
<1>1. f \in Fields
  BY DEF Frames
<1>2. g \in Fields /\ g.op = f.op /\ g.at = a /\ g.todo = q /\ g.keep = k
      /\ g.result = r /\ g.gen = f.gen
  <2> HIDE DEF Places
  <2> QED BY <1>1 DEF Fields, Put
<1> HIDE DEF g
<1>3. Placed(g) => g \in Frames
  BY <1>2 DEF Frames
<1> QED BY <1>2, <1>3 DEF g

LEMMA PutForms ==
  ASSUME NEW f \in Frames, NEW a, NEW q, NEW k, NEW r, NEW r2
  PROVE  /\ [f EXCEPT !.at = a] = Put(f, a, f.todo, f.keep, f.result)
         /\ [f EXCEPT !.at = a, !.todo = q] = Put(f, a, q, f.keep, f.result)
         /\ [f EXCEPT !.at = a, !.keep = k] = Put(f, a, f.todo, k, f.result)
         /\ [f EXCEPT !.at = a, !.result = r] = Put(f, a, f.todo, f.keep, r)
         /\ [f EXCEPT !.todo = q] = Put(f, f.at, q, f.keep, f.result)
         /\ Resulted(Put(f, a, q, k, r), r2) = Put(f, a, q, k, r2)
<1>1. f \in Fields
  BY DEF Frames
<1> QED BY <1>1 DEF Fields, Put, Resulted

LEMMA FieldFacts ==
  ASSUME NEW f \in Frames
  PROVE  /\ f.at \in Places /\ f.todo \in Seq(Range(Inits)) /\ f.keep \in BOOLEAN
         /\ f.result \in {"true", "false", "invoked"} /\ f.gen \in Nat
         /\ f.final \in BOOLEAN /\ Placed(f)
<1>1. f \in Fields /\ Placed(f)
  BY DEF Frames
<1> HIDE DEF Places
<1> QED BY <1>1 DEF Fields

LEMMA Running ==
  ASSUME IInv, title = "running", title' = title, starts' \in Nat, stack' \in Stacks,
         plugin' \in Plugin, history' \in History, mapped' \in BOOLEAN,
         Run(stack', plugin', mapped', history')
  PROVE  IInv'
BY DEF IInv, Stacks

LEMMA StepChange ==
  ASSUME IInv, title = "running", NEW t \in Threads, NEW a, At(t, a), NEW g \in Frames,
         Changed(stack, stack', t, g), Top(t) \in Work, g.op # "invoke", g.at # "end",
         plugin' \in Plugin, plugin'.inFlight = plugin.inFlight, mapped' \in BOOLEAN,
         history' \in History, history'.cutShort = history.cutShort,
         history'.doubled = history.doubled, title' = title, starts' = starts,
         g \in Tearing =>
           /\ Top(t) \in Tearing /\ plugin'.teardown = plugin.teardown
           /\ plugin'.state = plugin.state
           /\ Top(t).at = "drain" /\ g.at # "drain" => plugin.inFlight = 0,
         Goes(Top(t), g, plugin, mapped, history, plugin', mapped', history')
  PROVE  IInv'
<1>1. /\ stack \in Stacks /\ Top(t) = Head(stack[t]) /\ Run(stack, plugin, mapped, history)
  BY AtTop
<1>2. stack' \in Stacks /\ Run(stack', plugin', mapped', history')
  BY <1>1, WorkChange
<1>3. starts' \in Nat
  BY DEF IInv
<1> QED BY <1>2, <1>3, Running

LEMMA StepPop ==
  ASSUME IInv, title = "running", NEW t \in Threads, NEW a, At(t, a), Pop(t),
         Top(t) \in Work, plugin' \in Plugin, plugin'.inFlight = plugin.inFlight,
         mapped' \in BOOLEAN,
         history' \in History, history'.cutShort = history.cutShort,
         history'.doubled = history.doubled, title' = title, starts' = starts,
         Stops(Top(t), plugin, mapped, history, plugin', mapped', history')
  PROVE  IInv'
<1>1. /\ stack \in Stacks /\ Top(t) = Head(stack[t]) /\ Run(stack, plugin, mapped, history)
      /\ stack[t] # <<>>
  BY AtTop
<1>2. Popped(stack, stack', t)
  BY <1>1 DEF Pop, Popped
<1>3. stack' \in Stacks /\ Run(stack', plugin', mapped', history')
  BY <1>1, <1>2, WorkPop
<1>4. starts' \in Nat
  BY DEF IInv
<1> QED BY <1>3, <1>4, Running

LEMMA StepInvoke ==
  ASSUME IInv, title = "running", NEW t \in Threads, NEW a, At(t, a), Top(t) \in Work,
         NEW c \in Frames, NEW hook, NEW final \in BOOLEAN, Invoke(t, c, hook, final),
         UNCHANGED <<mapped, title, starts, history>>,
         \A r \in {"true", "false"} :
           /\ Resulted(c, r) \in Frames
           /\ Resulted(c, r).op = c.op /\ Resulted(c, r).at = c.at,
         c.op = Top(t).op, a # "drain",
         \/ c.at \in {"inited", "started"} /\ ~final /\ hook # "end"
         \/ c.at = "swap" /\ final /\ hook = "end"
         \/ c.at = "fini" /\ final /\ hook \in Range(Inits),
         hook \notin Hooks \cup Range(Inits) =>
           Goes(Top(t), Resulted(c, "true"), plugin, mapped, history, plugin, mapped, history),
         ~Permitted(final) =>
           Goes(Top(t), Resulted(c, "false"), plugin, mapped, history, plugin, mapped, history),
         Permitted(final) /\ hook \in Hooks \cup Range(Inits) =>
           Invokes(Top(t), c, IF final THEN <<hook>> ELSE <<>>, plugin, mapped, history)
  PROVE  IInv'
<1> DEFINE f == Top(t)
<1>1. /\ stack \in Stacks /\ f = Head(stack[t]) /\ Run(stack, plugin, mapped, history)
      /\ stack[t] # <<>> /\ f \in Frames /\ f.at = a
  BY AtTop
<1>2. plugin \in Plugin /\ history \in History /\ mapped \in BOOLEAN /\ plugin.generation \in Nat
  BY DEF IInv, Plugin
<1>3. /\ f \in Tearing <=> f.op = "unload" /\ f.at # "unload"
      /\ f.op \in {"start", "end"} \/ f \in Tearing
      /\ f.op # "invoke"
  BY <1>1, WorkNotInvoke
<1> HIDE DEF f
<1>4. ASSUME NEW r \in {"true", "false"}, Changed(stack, stack', t, Resulted(c, r)),
             plugin' = plugin,
             Goes(f, Resulted(c, r), plugin, mapped, history, plugin, mapped, history)
      PROVE  IInv'
  <2> DEFINE g == Resulted(c, r)
  <2>1. g \in Frames /\ g.op = c.op /\ g.at = c.at
    OBVIOUS
  <2>2. g.op # "invoke" /\ g.at # "end"
    BY <1>3, <2>1 DEF f
  <2>3. g \in Tearing => f \in Tearing
    <3>1. g \in Tearing => g.op = "unload"
      BY <2>1, WorkNotInvoke
    <3>2. g.op = f.op
      BY <2>1 DEF f
    <3> QED BY <1>3, <3>1, <3>2
  <2> HIDE DEF g
  <2>4. /\ Changed(stack, stack', t, g)
        /\ Goes(f, g, plugin, mapped, history, plugin', mapped', history')
    BY <1>4 DEF g
  <2> QED BY <1>1, <1>2, <1>4, <2>1, <2>2, <2>3, <2>4, StepChange DEF f
<1>5. ASSUME Called(stack, stack', t, c, InvokeFrame(hook, final, plugin.generation)),
             plugin' = [plugin EXCEPT !.inFlight = @ + 1],
             Permitted(final), hook \in Hooks \cup Range(Inits)
      PROVE  IInv'
  <2> DEFINE g == InvokeFrame(hook, final, plugin.generation)
  <2>1. /\ g \in Frames /\ g \in Flying
        /\ g.op = "invoke" /\ g.at = "prepare" /\ g.hook = hook /\ g.final = final
        /\ Ready(g) <=> final
    <3>1. hook \in Range(Inits) \cup Events \cup {"start", "end"}
      BY <1>5, HooksKnown
    <3>2. LET i == InvokeFrame(hook, final, plugin.generation)
          IN /\ i \in Frames /\ i \in Flying /\ i \notin Work /\ i \notin Unloads
             /\ i.op = "invoke" /\ i.at = "prepare" /\ i.hook = hook /\ i.final = final
             /\ Ready(i) <=> final
      BY <1>2, <3>1, InvokeFrameFacts
    <3> QED BY <3>2
  <2> HIDE DEF g
  <2>2. Fits(c, g)
    BY <1>3, <2>1 DEF Fits, f
  <2>3. Called(stack, stack', t, c, g)
    BY <1>5 DEF g
  <2>4. plugin' \in Plugin /\ Same(plugin, plugin') /\ plugin'.inFlight = plugin.inFlight + 1
    BY <1>2, <1>5, MoreFlying
  <2>5. Invokes(f, c, IF Ready(g) THEN <<g.hook>> ELSE <<>>, plugin, mapped, history)
    <3>1. CASE final
      BY <1>5, <2>1, <3>1 DEF f
    <3>2. CASE ~final
      BY <1>5, <2>1, <3>2 DEF f
    <3> QED BY <3>1, <3>2
  <2>6. stack' \in Stacks /\ Run(stack', plugin', mapped, history)
    BY <1>1, <2>1, <2>2, <2>3, <2>4, <2>5, WorkCall DEF f
  <2>7. starts' \in Nat
    BY DEF IInv
  <2> QED BY <1>2, <2>4, <2>6, <2>7, Running
<1> QED BY <1>1, <1>4, <1>5, InvokeCases DEF f

-----------------------------------------------------------------------------
\* The start

\* The top of t starts.
LEMMA AtStart ==
  ASSUME IInv, title = "running", NEW t \in Threads,
         NEW a \in {"map", "relocate", "activate", "init", "inited", "starting", "started"},
         At(t, a)
  PROVE  /\ stack \in Stacks /\ stack[t] # <<>> /\ Top(t) = Head(stack[t]) /\ Top(t) \in Frames
         /\ Top(t).at = a /\ Top(t).op = "start" /\ Top(t) \in Work /\ Top(t) \notin Tearing
         /\ plugin \in Plugin /\ history \in History /\ mapped \in BOOLEAN
<1>1. /\ stack \in Stacks /\ stack[t] # <<>> /\ Top(t) = Head(stack[t]) /\ Top(t) \in Frames
      /\ Top(t).at = a /\ Placed(Top(t))
  BY AtTop
<1>2. Top(t).op = "start"
  BY <1>1 DEF Placed
<1>3. plugin \in Plugin /\ history \in History /\ mapped \in BOOLEAN
  BY DEF IInv
<1> QED BY <1>1, <1>2, <1>3, WorkNotInvoke

StartPlaces == {"map", "relocate", "activate", "init", "inited", "starting", "started"}

LEMMA StartMoves ==
  ASSUME NEW f \in Frames, f.op = "start", NEW a \in StartPlaces,
         NEW q \in Seq(Range(Inits)), a = "inited" => q # <<>>, NEW k \in BOOLEAN,
         NEW r \in {"true", "false", "invoked"}
  PROVE  LET g == Put(f, a, q, k, r)
         IN /\ g \in Frames /\ g.op = "start" /\ g.at = a /\ g.todo = q /\ g.gen = f.gen
            /\ g.result = r /\ g \in Work /\ g \notin Tearing
<1> DEFINE g == Put(f, a, q, k, r)
<1>1. a \in Places
  BY DEF Places, StartPlaces
<1>2. /\ g \in Fields /\ g.op = f.op /\ g.at = a /\ g.todo = q /\ g.keep = k
      /\ g.result = r /\ g.gen = f.gen
      /\ Placed(g) => g \in Frames
  BY <1>1, PutFacts
<1> HIDE DEF g
<1>3. g \in Frames
  BY <1>2 DEF Placed, StartPlaces
<1> QED BY <1>2, <1>3, WorkNotInvoke DEF g

LEMMA PluginUpdates ==
  ASSUME NEW p \in Plugin
  PROVE  /\ p.state \in States /\ p.generation \in Nat /\ p.inFlight \in Nat
         /\ p.module \in BOOLEAN /\ p.journal \in Seq(Range(Inits)) /\ p.teardown \in BOOLEAN
         /\ p.deferredUnload \in BOOLEAN /\ p.endsPending \in BOOLEAN
         /\ p.deferredEnd \in BOOLEAN /\ p.transition \in BOOLEAN
BY DEF Plugin

\* A start that is revoked, and one that fails.
LEMMA RevokedGoes ==
  ASSUME NEW f, NEW g, NEW p, NEW p2, NEW m, NEW m2, NEW h, f.op = "start", g.op = "unload",
         g \notin Work, m => m2, m2 => p2.module,
         p.state = "Unloading" \/ p.generation # f.gen,
         p2.state = p.state, p2.journal = p.journal, p2.deferredUnload = p.deferredUnload,
         p2.endsPending = p.endsPending, p2.deferredEnd = p.deferredEnd
  PROVE  Goes(f, g, p, m, h, p2, m2, h)
<1> SUFFICES ASSUME NEW b \in BOOLEAN, NEW b2 \in BOOLEAN, Holds(f, p, m, h, b)
             PROVE  Rests(p2, m2, h, b2)
  BY DEF Goes
<1>1. Starting(f, p, m, h) /\ Always(p, m, h) /\ p.state = "Unloading"
  BY DEF Holds, Working, Starting
<1>2. Always(p2, m2, h)
  BY <1>1 DEF Always, Starting
<1>3. Orders(p2, b2)
  BY <1>1 DEF Orders, Revoked, Starting
<1>4. Resting(p2, m2, h)
  BY <1>1 DEF Resting, Revoked, Starting, Due
<1> QED BY <1>2, <1>3, <1>4 DEF Rests

LEMMA FailStartRun ==
  ASSUME IInv, title = "running", NEW t \in Threads,
         NEW a \in {"map", "relocate", "activate", "init", "inited", "starting", "started"},
         At(t, a), FailStart(t), title' = title, starts' = starts
  PROVE  IInv'
<1> DEFINE f == Top(t)  g == UnloadFrame(TRUE)
<1>1. /\ stack[t] # <<>> /\ f \in Work
      /\ f.op = "start" /\ plugin \in Plugin /\ history \in History /\ mapped \in BOOLEAN
  BY AtStart
<1>2. g \in Frames /\ g.op = "unload" /\ g.at = "unload" /\ g \notin Work /\ g \notin Tearing
  BY UnloadFrameFacts, WorkNotInvoke
<1>3. Changed(stack, stack', t, g) /\ history' = history /\ mapped' = mapped
  BY <1>1 DEF FailStart, Replace, Changed
<1>4. /\ plugin' = [plugin EXCEPT !.state = "Failed", !.generation = @ + 1, !.transition = FALSE,
                                 !.foregroundTransition = FALSE, !.exitInProgress = FALSE]
  BY DEF FailStart
<1>5. /\ plugin' \in Plugin /\ plugin'.inFlight = plugin.inFlight
      /\ plugin'.state = "Failed" /\ plugin'.module = plugin.module
      /\ plugin'.journal = plugin.journal /\ plugin'.deferredUnload = plugin.deferredUnload
      /\ plugin'.endsPending = plugin.endsPending /\ plugin'.deferredEnd = plugin.deferredEnd
  <2>1. plugin.generation + 1 \in Nat /\ "Failed" \in States
    BY <1>1, PluginUpdates DEF States
  <2> HIDE DEF States
  <2> QED BY <1>1, <1>4, <2>1 DEF Plugin
<1> HIDE DEF f, g
<1>6. Goes(f, g, plugin, mapped, history, plugin', mapped, history)
  <2> SUFFICES ASSUME NEW b \in BOOLEAN, NEW b2 \in BOOLEAN,
                      Holds(f, plugin, mapped, history, b)
               PROVE  Rests(plugin', mapped, history, b2)
    BY <1>2 DEF Goes
  <2>1. Starting(f, plugin, mapped, history) /\ Always(plugin, mapped, history)
    BY <1>1 DEF Holds, Working
  <2>2. Always(plugin', mapped, history)
    BY <1>5, <2>1 DEF Always, Starting
  <2>3. Orders(plugin', b2)
    BY <1>5, <2>1 DEF Orders, Revoked, Starting
  <2>4. Resting(plugin', mapped, history)
    BY <1>5, <2>1 DEF Resting, Revoked, Starting, Due
  <2> QED BY <2>2, <2>3, <2>4 DEF Rests
<1> QED BY <1>1, <1>2, <1>3, <1>5, <1>6, StepChange DEF f

LEMMA MapRun ==
  ASSUME IInv, title = "running", NEW t \in Threads, Map(t)
  PROVE  IInv'
<1> DEFINE f == Top(t)
<1>1. /\ At(t, "map") /\ stack[t] # <<>> /\ f \in Work /\ f \in Frames /\ f.at = "map"
      /\ f.op = "start" /\ plugin \in Plugin /\ history \in History /\ mapped \in BOOLEAN
  BY AtStart DEF Map
<1>2. title' = title /\ starts' = starts
  BY DEF Map
<1>3. CASE FailStart(t)
  BY <1>1, <1>2, <1>3, FailStartRun
<1>4. CASE ~FailStart(t)
  <2>1. mapped' = TRUE /\ history' = history
    BY <1>4 DEF Map
  <2>2. CASE StartRevoked(t)
    <3> DEFINE g == UnloadFrame(FALSE)
    <3>1. g \in Frames /\ g.op = "unload" /\ g.at = "unload" /\ g \notin Work /\ g \notin Tearing
      BY UnloadFrameFacts, WorkNotInvoke
    <3>2. Changed(stack, stack', t, g)
      BY <1>1, <1>4, <2>2 DEF Map, Replace, Changed
    <3>3. plugin' = [plugin EXCEPT !.module = TRUE]
      BY <1>4, <2>2 DEF Map
    <3>4. /\ plugin' \in Plugin /\ plugin'.inFlight = plugin.inFlight /\ plugin'.module
          /\ plugin'.state = plugin.state
          /\ plugin'.journal = plugin.journal /\ plugin'.deferredUnload = plugin.deferredUnload
          /\ plugin'.endsPending = plugin.endsPending /\ plugin'.deferredEnd = plugin.deferredEnd
      BY <1>1, <3>3 DEF Plugin
    <3>5. plugin.state = "Unloading" \/ plugin.generation # f.gen
      BY <2>2 DEF StartRevoked
    <3> HIDE DEF f, g
    <3>6. Goes(f, g, plugin, mapped, history, plugin', TRUE, history)
      BY <1>1, <3>1, <3>4, <3>5, RevokedGoes
    <3> QED BY <1>1, <1>2, <2>1, <3>1, <3>2, <3>4, <3>6, StepChange DEF f
  <2>3. CASE ~StartRevoked(t)
    <3> DEFINE g == Put(f, "relocate", f.todo, f.keep, f.result)
    <3>1. /\ g \in Frames /\ g.op = "start" /\ g.at = "relocate" /\ g.gen = f.gen
          /\ g \in Work /\ g \notin Tearing
      <4>1. /\ f.todo \in Seq(Range(Inits)) /\ f.result \in {"true", "false", "invoked"}
            /\ f \in Frames /\ f.op = "start" /\ f.keep \in BOOLEAN
        BY <1>1, FieldFacts
      <4>2. "relocate" \in StartPlaces
        BY DEF StartPlaces
      <4> QED BY <4>1, <4>2, StartMoves
    <3>2. Changed(stack, stack', t, g)
      <4>1. [f EXCEPT !.at = "relocate"] = g
        BY <1>1, PutForms
      <4> HIDE DEF g
      <4> QED BY <1>1, <1>4, <2>3, <4>1 DEF Map, Go, Replace, Changed
    <3>3. plugin' = [plugin EXCEPT !.module = TRUE, !.state = "Mapped"]
      BY <1>4, <2>3 DEF Map
    <3>4. /\ plugin' \in Plugin /\ plugin'.inFlight = plugin.inFlight /\ plugin'.module
          /\ plugin'.state = "Mapped" /\ plugin'.transition = plugin.transition
          /\ plugin'.journal = plugin.journal /\ plugin'.deferredUnload = plugin.deferredUnload
          /\ plugin'.endsPending = plugin.endsPending /\ plugin'.deferredEnd = plugin.deferredEnd
          /\ plugin'.generation = plugin.generation
      BY <1>1, <3>3 DEF Plugin, States
    <3>5. plugin.state # "Unloading" /\ plugin.generation = f.gen
      BY <2>3 DEF StartRevoked
    <3> HIDE DEF f, g
    <3>7. Goes(f, g, plugin, mapped, history, plugin', TRUE, history)
      <4> SUFFICES ASSUME NEW b \in BOOLEAN, NEW b2 \in BOOLEAN,
                          Holds(f, plugin, mapped, history, b), b2 => b
                   PROVE  /\ Always(plugin', TRUE, history) /\ Orders(plugin', b2)
                          /\ Working(g, <<>>, plugin', TRUE, history)
        BY <3>1 DEF Goes
      <4>1. Starting(f, plugin, mapped, history) /\ Always(plugin, mapped, history)
            /\ Orders(plugin, b)
        BY <1>1 DEF Holds, Working
      <4>2. plugin.state = "Installed" /\ ~plugin.endsPending /\ ~plugin.deferredEnd
        BY <1>1, <3>5, <4>1 DEF Starting
      <4>3. Always(plugin', TRUE, history)
        BY <3>4, <4>1, <4>2 DEF Always, Starting
      <4>4. Orders(plugin', b2)
        BY <3>4, <4>1, <4>2 DEF Orders, Revoked
      <4>5. Starting(g, plugin', TRUE, history)
        BY <1>1, <3>1, <3>4, <3>5, <4>1, <4>2 DEF Starting
      <4> QED BY <3>1, <4>3, <4>4, <4>5 DEF Working
    <3> QED BY <1>1, <1>2, <2>1, <3>1, <3>2, <3>4, <3>7, StepChange DEF f
  <2> QED BY <2>2, <2>3
<1> QED BY <1>3, <1>4

\* A start goes on, in a new state or in the same one.
LEMMA StartOn ==
  ASSUME NEW f, NEW g, NEW p, NEW p2, NEW m, NEW h, Starting(f, p, m, h),
         f.op = "start", g.op = "start", g.gen = f.gen, f.at # "map",
         \/ p2.state = p.state
         \/ /\ p2.state \in {"Relocated", "Initialized"}
            /\ p.state # "Unloading" /\ p.generation = f.gen,
         p2.generation = p.generation, p2.module = p.module, p2.journal = p.journal,
         p2.endsPending = p.endsPending, p2.deferredEnd = p.deferredEnd,
         p2.deferredUnload = p.deferredUnload, p2.transition = p.transition,
         \/ g.at \in {"activate", "init"} /\ f.at \in {"relocate", "activate"}
            /\ (g.at = "init" => Inits = g.todo)
         \/ g.at = "inited" /\ f.at = "init" /\ g.todo = f.todo /\ f.todo # <<>>
         \/ g.at \in {"starting", "started"}
  PROVE  Starting(g, p2, m, h)
<1>1. /\ p2.state \in {"Installed", "Mapped", "Relocated", "Initialized", "Deinitialized",
                       "Unloading"}
      /\ p2.generation # g.gen => p2.state = "Unloading"
      /\ p2.endsPending => p2.state = "Unloading"
  BY DEF Starting
<1>2. g.at # "map" /\ m
  BY DEF Starting
<1>3. g.at \in {"activate", "init"} => p2.journal = <<>>
  BY DEF Starting
<1>4. g.at = "init" => p2.journal \o g.todo = Inits
  <2>1. Inits \in Seq(STRING)
    BY ConstantsAssumption
  <2>2. <<>> \o Inits = Inits
    BY <2>1
  <2>3. g.at = "init" => g.todo = Inits
    OBVIOUS
  <2> QED BY <1>3, <2>2, <2>3
<1>5. g.at = "inited" => p2.journal \o g.todo = Inits /\ g.todo # <<>>
  BY DEF Starting
<1> QED BY <1>1, <1>2, <1>3, <1>4, <1>5 DEF Starting

LEMMA StartGoes ==
  ASSUME NEW f, NEW g \in Work, NEW p, NEW p2, NEW m, NEW h,
         f.op = "start", g.op = "start", g.gen = f.gen, f.at # "map",
         \/ p2.state = p.state
         \/ /\ p2.state \in {"Relocated", "Initialized"}
            /\ p.state # "Unloading" /\ p.generation = f.gen,
         p2.generation = p.generation, p2.module = p.module, p2.journal = p.journal,
         p2.endsPending = p.endsPending, p2.deferredEnd = p.deferredEnd,
         p2.deferredUnload = p.deferredUnload, p2.transition = p.transition,
         \/ g.at \in {"activate", "init"} /\ f.at \in {"relocate", "activate"}
            /\ (g.at = "init" => Inits = g.todo)
         \/ g.at = "inited" /\ f.at = "init" /\ g.todo = f.todo /\ f.todo # <<>>
         \/ g.at \in {"starting", "started"}
  PROVE  Goes(f, g, p, m, h, p2, m, h)
<1> SUFFICES ASSUME NEW b \in BOOLEAN, NEW b2 \in BOOLEAN, Holds(f, p, m, h, b), b2 => b
             PROVE  Always(p2, m, h) /\ Orders(p2, b2) /\ Working(g, <<>>, p2, m, h)
  BY DEF Goes
<1>1. Starting(f, p, m, h) /\ Always(p, m, h) /\ Orders(p, b)
  BY DEF Holds, Working
<1>2. Starting(g, p2, m, h)
  BY <1>1, StartOn
<1>3. Always(p2, m, h)
  BY <1>1, <1>2 DEF Always, Starting
<1>4. Orders(p2, b2)
  BY <1>1 DEF Orders, Revoked, Starting
<1> QED BY <1>2, <1>3, <1>4 DEF Working

LEMMA AdvanceRun ==
  ASSUME IInv, title = "running", NEW t \in Threads, NEW a, NEW state, NEW at, At(t, a),
         \/ a = "relocate" /\ state = "Relocated" /\ at = "activate"
         \/ a = "init" /\ Top(t).todo = <<>> /\ state = "Initialized" /\ at = "starting",
         Advance(t, state, at), UNCHANGED <<mapped, title, starts, history>>
  PROVE  IInv'
<1> DEFINE f == Top(t)
<1>1. /\ At(t, a) /\ stack[t] # <<>> /\ f \in Work /\ f \in Frames /\ f.at = a
      /\ f.op = "start" /\ plugin \in Plugin /\ history \in History /\ mapped \in BOOLEAN
  <2>1. a \in {"map", "relocate", "activate", "init", "inited", "starting", "started"}
    OBVIOUS
  <2> QED BY <2>1, AtStart
<1>2. CASE StartRevoked(t)
  <2> DEFINE g == UnloadFrame(FALSE)
  <2>1. g \in Frames /\ g.op = "unload" /\ g.at = "unload" /\ g \notin Work /\ g \notin Tearing
    BY UnloadFrameFacts, WorkNotInvoke
  <2>2. Changed(stack, stack', t, g) /\ plugin' = plugin
    BY <1>1, <1>2 DEF Advance, Replace, Changed
  <2>3. plugin.state = "Unloading" \/ plugin.generation # f.gen
    BY <1>2 DEF StartRevoked
  <2> HIDE DEF f, g
  <2>4. Goes(f, g, plugin, mapped, history, plugin, mapped, history)
    <3> SUFFICES ASSUME NEW b \in BOOLEAN, NEW b2 \in BOOLEAN,
                        Holds(f, plugin, mapped, history, b)
                 PROVE  Rests(plugin, mapped, history, b2)
      BY <2>1 DEF Goes
    <3>1. Starting(f, plugin, mapped, history) /\ Always(plugin, mapped, history)
          /\ plugin.state = "Unloading"
      BY <1>1, <2>3 DEF Holds, Working, Starting
    <3> QED BY <3>1 DEF Rests, Orders, Revoked, Resting, Starting, Due
  <2> QED BY <1>1, <2>1, <2>2, <2>4, StepChange DEF f
<1>3. CASE ~StartRevoked(t)
  <2> DEFINE g == Put(f, at, f.todo, f.keep, f.result)
  <2>1. /\ g \in Frames /\ g.op = "start" /\ g.at = at /\ g.gen = f.gen /\ g.todo = f.todo
        /\ g \in Work /\ g \notin Tearing
    <3>1. /\ f.todo \in Seq(Range(Inits)) /\ f.result \in {"true", "false", "invoked"}
          /\ f \in Frames /\ f.op = "start" /\ f.keep \in BOOLEAN
      BY <1>1, FieldFacts
    <3>2. at \in StartPlaces
      BY DEF StartPlaces
    <3> QED BY <3>1, <3>2, StartMoves
  <2>2. Changed(stack, stack', t, g)
    <3>1. [f EXCEPT !.at = at] = g
      BY <1>1, PutForms
    <3> HIDE DEF g
    <3> QED BY <1>1, <1>3, <3>1 DEF Advance, Go, Replace, Changed
  <2>3. plugin' = [plugin EXCEPT !.state = state] /\ state \in {"Relocated", "Initialized"}
    BY <1>3 DEF Advance
  <2>4. /\ plugin' \in Plugin /\ plugin'.inFlight = plugin.inFlight
        /\ plugin'.state = state /\ plugin'.transition = plugin.transition
        /\ plugin'.journal = plugin.journal /\ plugin'.deferredUnload = plugin.deferredUnload
        /\ plugin'.endsPending = plugin.endsPending /\ plugin'.deferredEnd = plugin.deferredEnd
        /\ plugin'.generation = plugin.generation /\ plugin'.module = plugin.module
    <3>1. state \in States
      BY <2>3 DEF States
    <3> HIDE DEF States
    <3> QED BY <1>1, <2>3, <3>1 DEF Plugin
  <2>5. plugin.state # "Unloading" /\ plugin.generation = f.gen
    BY <1>3 DEF StartRevoked
  <2>6. f.at # "map" /\ ((g.at = "activate" /\ f.at = "relocate") \/ g.at = "starting")
    BY <1>1, <2>1
  <2> HIDE DEF f, g
  <2>7. Goes(f, g, plugin, mapped, history, plugin', mapped, history)
    BY <1>1, <2>1, <2>3, <2>4, <2>5, <2>6, StartGoes
  <2> QED BY <1>1, <2>1, <2>2, <2>4, <2>7, StepChange DEF f
<1> QED BY <1>2, <1>3

LEMMA RelocateRun ==
  ASSUME IInv, title = "running", NEW t \in Threads, Relocate(t)
  PROVE  IInv'
<1>1. CASE FailStart(t)
  BY <1>1, FailStartRun DEF Relocate
<1>2. CASE ~FailStart(t)
  BY <1>2, AdvanceRun DEF Relocate
<1> QED BY <1>1, <1>2

LEMMA InitializedRun ==
  ASSUME IInv, title = "running", NEW t \in Threads, Initialized(t)
  PROVE  IInv'
BY AdvanceRun DEF Initialized

LEMMA ActivateRun ==
  ASSUME IInv, title = "running", NEW t \in Threads, Activate(t)
  PROVE  IInv'
<1>1. CASE FailStart(t)
  BY <1>1, FailStartRun DEF Activate
<1>2. CASE ~FailStart(t)
  <2> DEFINE f == Top(t)  g == Put(f, "init", Inits, f.keep, f.result)
  <2>1. /\ At(t, "activate") /\ stack[t] # <<>> /\ f \in Work /\ f \in Frames
        /\ f.at = "activate"
        /\ f.op = "start" /\ plugin \in Plugin /\ history \in History /\ mapped \in BOOLEAN
    BY AtStart DEF Activate
  <2>2. /\ g \in Frames /\ g.op = "start" /\ g.at = "init" /\ g.gen = f.gen /\ g.todo = Inits
        /\ g \in Work /\ g \notin Tearing
    <3>1. /\ Inits \in Seq(Range(Inits)) /\ f.result \in {"true", "false", "invoked"}
          /\ f \in Frames /\ f.op = "start" /\ f.keep \in BOOLEAN
      <4>1. Inits \in Seq(Range(Inits))
        BY ConstantsAssumption DEF Range
      <4> QED BY <2>1, <4>1, FieldFacts
    <3>2. "init" \in StartPlaces
      BY DEF StartPlaces
    <3> QED BY <3>1, <3>2, StartMoves
  <2>3. Changed(stack, stack', t, g)
    <3>1. [f EXCEPT !.at = "init", !.todo = Inits] = g
      BY <2>1, PutForms
    <3> HIDE DEF g
    <3> QED BY <1>2, <2>1, <3>1 DEF Activate, Replace, Changed
  <2>4. plugin' = [plugin EXCEPT !.deactivated = FALSE]
        /\ UNCHANGED <<mapped, title, starts, history>>
    BY <1>2 DEF Activate
  <2>5. /\ plugin' \in Plugin /\ plugin'.inFlight = plugin.inFlight
        /\ plugin'.state = plugin.state /\ plugin'.transition = plugin.transition
        /\ plugin'.journal = plugin.journal /\ plugin'.deferredUnload = plugin.deferredUnload
        /\ plugin'.endsPending = plugin.endsPending /\ plugin'.deferredEnd = plugin.deferredEnd
        /\ plugin'.generation = plugin.generation /\ plugin'.module = plugin.module
    BY <2>1, <2>4 DEF Plugin
  <2> HIDE DEF f, g
  <2>7. Goes(f, g, plugin, mapped, history, plugin', mapped, history)
    BY <2>1, <2>2, <2>5, StartGoes
  <2> QED BY <2>1, <2>2, <2>3, <2>4, <2>5, <2>7, StepChange DEF f
<1> QED BY <1>1, <1>2

LEMMA StartInvokes ==
  ASSUME NEW f, NEW c, NEW p, NEW m, NEW h, f.op = "start", c.op = "start", c.gen = f.gen,
         f.at # "map",
         \/ c.at = "inited" /\ f.at = "init" /\ c.todo = f.todo /\ f.todo # <<>>
         \/ c.at = "started"
  PROVE  Invokes(f, c, <<>>, p, m, h)
<1> SUFFICES ASSUME NEW b \in BOOLEAN, Holds(f, p, m, h, b)
             PROVE  Working(c, <<>>, p, m, h)
  BY DEF Invokes
<1>1. Starting(f, p, m, h)
  BY DEF Holds, Working
<1>2. Starting(c, p, m, h)
  BY <1>1, StartOn
<1> QED BY <1>2 DEF Working

LEMMA StartResults ==
  ASSUME NEW f \in Frames, f.op = "start", NEW a \in StartPlaces, a = "inited" => f.todo # <<>>,
         NEW r \in {"true", "false"}
  PROVE  LET c == [f EXCEPT !.at = a]
             g == Resulted(c, r)
         IN /\ c \in Frames /\ c.op = "start" /\ c.at = a /\ c.gen = f.gen /\ c.todo = f.todo
            /\ g \in Frames /\ g.op = "start" /\ g.at = a /\ g.gen = f.gen /\ g.todo = f.todo
            /\ g \in Work
<1> DEFINE c == Put(f, a, f.todo, f.keep, f.result)  g == Put(f, a, f.todo, f.keep, r)
<1>1. [f EXCEPT !.at = a] = c /\ Resulted(c, r) = g
  <2>1. f \in Fields
    BY DEF Frames
  <2>2. [f EXCEPT !.at = a] = c
    BY <2>1 DEF Fields, Put
  <2>3. Resulted(c, r) = g
    BY <2>1 DEF Fields, Put, Resulted
  <2> QED BY <2>2, <2>3
<1>2. /\ f.todo \in Seq(Range(Inits)) /\ f.result \in {"true", "false", "invoked"}
      /\ f.keep \in BOOLEAN /\ r \in {"true", "false", "invoked"}
  BY FieldFacts
<1>3. /\ c \in Frames /\ c.op = "start" /\ c.at = a /\ c.gen = f.gen /\ c.todo = f.todo
  BY <1>2, StartMoves
<1>4. /\ g \in Frames /\ g.op = "start" /\ g.at = a /\ g.gen = f.gen /\ g.todo = f.todo
      /\ g \in Work
  BY <1>2, StartMoves
<1> HIDE DEF c, g
<1> QED BY <1>1, <1>3, <1>4

LEMMA InvokeInitRun ==
  ASSUME IInv, title = "running", NEW t \in Threads, InvokeInit(t)
  PROVE  IInv'
<1> DEFINE f == Top(t)  c == [f EXCEPT !.at = "inited"]  hook == Head(f.todo)
<1>1. /\ At(t, "init") /\ f \in Work /\ f \in Frames /\ f.at = "init" /\ f.op = "start"
  BY AtStart DEF InvokeInit
<1>2. f.todo # <<>> /\ f.todo \in Seq(Range(Inits))
  BY <1>1, FieldFacts DEF InvokeInit
<1>3. hook \in Range(Inits) /\ hook # "end"
  <2>1. hook \in Range(Inits)
    BY <1>2
  <2> QED BY <2>1, ConstantsAssumption
<1>4. Invoke(t, c, hook, FALSE) /\ UNCHANGED <<mapped, title, starts, history>>
  BY DEF InvokeInit
<1> HIDE DEF f
<1>5. ASSUME NEW r \in {"true", "false"}
      PROVE  /\ c \in Frames /\ c.op = "start" /\ c.at = "inited" /\ c.gen = f.gen
             /\ c.todo = f.todo
             /\ Resulted(c, r) \in Frames /\ Resulted(c, r).op = "start"
             /\ Resulted(c, r).at = "inited" /\ Resulted(c, r).gen = f.gen
             /\ Resulted(c, r).todo = f.todo /\ Resulted(c, r) \in Work
  <2>1. "inited" \in StartPlaces
    BY DEF StartPlaces
  <2> QED BY <1>1, <1>2, <2>1, StartResults
<1>6. "true" \in {"true", "false"} /\ "false" \in {"true", "false"}
  OBVIOUS
<1> HIDE DEF c
<1>7. c \in Frames /\ c.op = "start" /\ c.at = "inited" /\ c.gen = f.gen /\ c.todo = f.todo
  BY <1>5, <1>6
<1>8. Goes(f, Resulted(c, "false"), plugin, mapped, history, plugin, mapped, history)
  <2> DEFINE g == Resulted(c, "false")
  <2>1. g \in Work /\ g.op = "start" /\ g.at = "inited" /\ g.gen = f.gen /\ g.todo = f.todo
    BY <1>5, <1>6
  <2> HIDE DEF g
  <2>2. Goes(f, g, plugin, mapped, history, plugin, mapped, history)
    BY <1>1, <1>2, <2>1, StartGoes
  <2> QED BY <2>2 DEF g
<1>9. Invokes(f, c, <<>>, plugin, mapped, history)
  BY <1>1, <1>2, <1>7, StartInvokes
<1>10. \A r \in {"true", "false"} :
         /\ Resulted(c, r) \in Frames
         /\ Resulted(c, r).op = c.op /\ Resulted(c, r).at = c.at
  BY <1>5, <1>7
<1> HIDE DEF hook
<1> QED BY <1>1, <1>3, <1>4, <1>7, <1>8, <1>9, <1>10, StepInvoke DEF f

LEMMA InvokeStartRun ==
  ASSUME IInv, title = "running", NEW t \in Threads, InvokeStart(t)
  PROVE  IInv'
<1> DEFINE f == Top(t)  c == [f EXCEPT !.at = "started"]
<1>1. /\ At(t, "starting") /\ f \in Work /\ f \in Frames /\ f.at = "starting"
      /\ f.op = "start"
  BY AtStart DEF InvokeStart
<1>4. Invoke(t, c, "start", FALSE) /\ UNCHANGED <<mapped, title, starts, history>>
  BY DEF InvokeStart
<1> HIDE DEF f
<1>5. ASSUME NEW r \in {"true", "false"}
      PROVE  /\ c \in Frames /\ c.op = "start" /\ c.at = "started" /\ c.gen = f.gen
             /\ c.todo = f.todo
             /\ Resulted(c, r) \in Frames /\ Resulted(c, r).op = "start"
             /\ Resulted(c, r).at = "started" /\ Resulted(c, r).gen = f.gen
             /\ Resulted(c, r).todo = f.todo /\ Resulted(c, r) \in Work
  <2>1. "started" \in StartPlaces
    BY DEF StartPlaces
  <2> QED BY <1>1, <2>1, StartResults
<1>6. "true" \in {"true", "false"} /\ "false" \in {"true", "false"}
  OBVIOUS
<1> HIDE DEF c
<1>7. c \in Frames /\ c.op = "start" /\ c.at = "started" /\ c.gen = f.gen /\ c.todo = f.todo
  BY <1>5, <1>6
<1>8. ASSUME NEW r \in {"true", "false"}
      PROVE  Goes(f, Resulted(c, r), plugin, mapped, history, plugin, mapped, history)
  <2> DEFINE g == Resulted(c, r)
  <2>1. g \in Work /\ g.op = "start" /\ g.at = "started" /\ g.gen = f.gen /\ g.todo = f.todo
    BY <1>5
  <2> HIDE DEF g
  <2>2. Goes(f, g, plugin, mapped, history, plugin, mapped, history)
    BY <1>1, <2>1, StartGoes
  <2> QED BY <2>2 DEF g
<1>9. Invokes(f, c, <<>>, plugin, mapped, history)
  BY <1>1, <1>7, StartInvokes
<1>10. \A r \in {"true", "false"} :
         /\ Resulted(c, r) \in Frames
         /\ Resulted(c, r).op = c.op /\ Resulted(c, r).at = c.at
  BY <1>5, <1>7
<1>11. /\ Goes(f, Resulted(c, "true"), plugin, mapped, history, plugin, mapped, history)
       /\ Goes(f, Resulted(c, "false"), plugin, mapped, history, plugin, mapped, history)
  BY <1>6, <1>8
<1> QED BY <1>1, <1>4, <1>7, <1>9, <1>10, <1>11, StepInvoke DEF f

\* What was invoked is noted.
LEMMA NotedFacts ==
  ASSUME NEW q \in Seq(Range(Inits)), NEW d \in Seq(Range(Inits)), d # <<>>, q \o d = Inits
  PROVE  /\ Append(q, Head(d)) \in Seq(Range(Inits)) /\ Append(q, Head(d)) \o Tail(d) = Inits
         /\ Prefix(Append(q, Head(d))) /\ Len(Append(q, Head(d))) = Len(q) + 1
         /\ Tail(d) \in Seq(Range(Inits))
<1> DEFINE a == Append(q, Head(d))  n == Len(q)  k == Len(d)
<1>1. /\ n \in Nat /\ k \in Nat \ {0} /\ a \in Seq(Range(Inits)) /\ Len(a) = n + 1
      /\ \A i \in 1..n : a[i] = q[i]
      /\ a[n + 1] = d[1] /\ Tail(d) \in Seq(Range(Inits)) /\ Len(Tail(d)) = k - 1
      /\ \A i \in 1..(k - 1) : Tail(d)[i] = d[i + 1]
  <2>1. n \in Nat /\ k \in Nat \ {0} /\ Head(d) \in Range(Inits) /\ Head(d) = d[1]
    OBVIOUS
  <2>2. /\ a \in Seq(Range(Inits)) /\ Len(a) = n + 1
        /\ \A i \in 1..n : a[i] = q[i]
        /\ a[n + 1] = Head(d)
    BY <2>1
  <2>3. /\ Tail(d) \in Seq(Range(Inits)) /\ Len(Tail(d)) = k - 1
        /\ \A i \in 1..(k - 1) : Tail(d)[i] = d[i + 1]
    BY <2>1
  <2> HIDE DEF a, n, k
  <2> QED BY <2>1, <2>2, <2>3
<1>2. /\ Len(q \o d) = n + k
      /\ \A i \in 1..(n + k) : (q \o d)[i] = IF i <= n THEN q[i] ELSE d[i - n]
  BY ConcatProperties
<1>3. /\ a \o Tail(d) \in Seq(Range(Inits)) /\ Len(a \o Tail(d)) = (n + 1) + (k - 1)
      /\ \A i \in 1..((n + 1) + (k - 1)) :
           (a \o Tail(d))[i] = IF i <= n + 1 THEN a[i] ELSE Tail(d)[i - (n + 1)]
  <2> HIDE DEF a
  <2>1. /\ a \o Tail(d) \in Seq(Range(Inits)) /\ Len(a \o Tail(d)) = Len(a) + Len(Tail(d))
        /\ \A i \in 1..(Len(a) + Len(Tail(d))) :
             (a \o Tail(d))[i] = IF i <= Len(a) THEN a[i] ELSE Tail(d)[i - Len(a)]
    <3>1. a \in Seq(Range(Inits)) /\ Tail(d) \in Seq(Range(Inits))
      BY <1>1 DEF a
    <3> DEFINE e == Tail(d)
    <3> HIDE DEF e
    <3> QED BY <3>1, ConcatProperties DEF e
  <2> QED BY <1>1, <2>1
<1>4. q \o d \in Seq(Range(Inits))
  BY ConcatProperties
<1> HIDE DEF a, n, k
<1>5. a \o Tail(d) = q \o d
  <2>1. Len(a \o Tail(d)) = Len(q \o d) /\ Len(q \o d) = n + k
    BY <1>1, <1>2, <1>3
  <2>2. ASSUME NEW i \in 1..(n + k)
        PROVE  (a \o Tail(d))[i] = (q \o d)[i]
    <3>1. i \in 1..((n + 1) + (k - 1))
      BY <1>1
    <3>2. CASE i <= n
      BY <1>1, <1>2, <1>3, <3>1, <3>2
    <3>3. CASE i = n + 1
      <4>1. i - n = 1
        BY <1>1, <3>3
      <4> QED BY <1>1, <1>2, <1>3, <3>1, <3>3, <4>1
    <3>4. CASE i > n + 1
      <4>1. i - (n + 1) \in 1..(k - 1) /\ i - (n + 1) + 1 = i - n
        BY <1>1, <3>4
      <4> QED BY <1>1, <1>2, <1>3, <3>1, <3>4, <4>1
    <3> QED BY <1>1, <3>2, <3>3, <3>4
  <2>3. \A i \in 1..Len(q \o d) : (a \o Tail(d))[i] = (q \o d)[i]
    BY <2>1, <2>2
  <2> QED BY <1>3, <1>4, <2>1, <2>3, SeqEqual
<1>6. Prefix(a)
  <2>1. Len(Inits) = n + k /\ \A i \in 1..(n + k) : Inits[i] = IF i <= n THEN q[i] ELSE d[i - n]
    BY <1>2
  <2>2. n + 1 <= n + k /\ Inits[n + 1] = d[1]
    <3>1. n + 1 \in 1..(n + k) /\ (n + 1) - n = 1 /\ ~(n + 1 <= n)
      BY <1>1
    <3> QED BY <1>1, <2>1, <3>1
  <2>3. \A i \in 1..(n + 1) : a[i] = Inits[i]
    BY <1>1, <2>1, <2>2
  <2> QED BY <1>1, <2>1, <2>2, <2>3 DEF Prefix
<1> QED BY <1>1, <1>5, <1>6 DEF a, n

LEMMA InitedRun ==
  ASSUME IInv, title = "running", NEW t \in Threads, Inited(t)
  PROVE  IInv'
<1> DEFINE f == Top(t)
<1>1. /\ At(t, "inited") /\ stack[t] # <<>> /\ f \in Work /\ f \in Frames
      /\ f.at = "inited" /\ f.op = "start" /\ plugin \in Plugin /\ history \in History
      /\ mapped \in BOOLEAN
  BY AtStart DEF Inited
<1>2. title' = title /\ starts' = starts
  BY DEF Inited
<1>3. CASE f.result = "false"
  BY <1>1, <1>2, <1>3, FailStartRun DEF Inited
<1>4. CASE f.result # "false"
  <2> DEFINE d == f.todo  q == plugin.journal  e == Append(q, Head(d))
             g == Put(f, "init", Tail(d), f.keep, f.result)
  <2>1. /\ f.todo \in Seq(Range(Inits)) /\ f.result \in {"true", "false", "invoked"}
        /\ f.keep \in BOOLEAN /\ f.todo # <<>> /\ q \in Seq(Range(Inits))
        /\ history.owed \in Seq(Range(Inits))
    <3>1. Placed(f)
      BY <1>1, FieldFacts
    <3>2. f.todo # <<>>
      BY <1>1, <3>1 DEF Placed
    <3>3. q \in Seq(Range(Inits)) /\ history.owed \in Seq(Range(Inits))
      BY <1>1 DEF Plugin, History
    <3> QED BY <1>1, <3>2, <3>3, FieldFacts
  <2>2. Tail(d) \in Seq(Range(Inits)) /\ Head(d) \in Range(Inits)
    BY <2>1
  <2>3. /\ g \in Frames /\ g.op = "start" /\ g.at = "init" /\ g.gen = f.gen
        /\ g.todo = Tail(d) /\ g \in Work /\ g \notin Tearing
    <3>1. "init" \in StartPlaces
      BY DEF StartPlaces
    <3> DEFINE y == Tail(d)  a == "init"
    <3>2. a \in StartPlaces /\ (a = "inited" => y # <<>>) /\ y \in Seq(Range(Inits))
      BY <2>2, <3>1
    <3>3. a = "init" /\ f \in Frames /\ f.op = "start"
      BY <1>1
    <3> HIDE DEF y, a, f
    <3>4. LET i == Put(f, a, y, f.keep, f.result)
          IN /\ i \in Frames /\ i.op = "start" /\ i.at = a /\ i.todo = y /\ i.gen = f.gen
             /\ i.result = f.result /\ i \in Work /\ i \notin Tearing
      BY <2>1, <3>2, <3>3, StartMoves
    <3> QED BY <3>3, <3>4 DEF y
  <2>4. Changed(stack, stack', t, g)
    <3>1. [f EXCEPT !.at = "init", !.todo = Tail(d)] = g
      BY <1>1, PutForms
    <3>2. [f EXCEPT !.at = "init", !.todo = Tail(@)] = g
      BY <3>1
    <3> HIDE DEF g
    <3> QED BY <1>1, <1>4, <3>2 DEF Inited, Replace, Changed
  <2>5. /\ plugin' = [plugin EXCEPT !.journal = e]
        /\ history' = [history EXCEPT !.owed = Append(@, Head(d))] /\ mapped' = mapped
    BY <1>4 DEF Inited
  <2>6. e \in Seq(Range(Inits)) /\ Append(history.owed, Head(d)) \in Seq(Range(Inits))
    BY <2>1, <2>2
  <2> HIDE DEF e
  <2>7. /\ plugin' \in Plugin /\ plugin'.inFlight = plugin.inFlight
        /\ plugin'.state = plugin.state /\ plugin'.transition = plugin.transition
        /\ plugin'.journal = e /\ plugin'.deferredUnload = plugin.deferredUnload
        /\ plugin'.endsPending = plugin.endsPending /\ plugin'.deferredEnd = plugin.deferredEnd
        /\ plugin'.generation = plugin.generation /\ plugin'.module = plugin.module
    BY <1>1, <2>5, <2>6 DEF Plugin
  <2>8. /\ history' \in History /\ history'.owed = Append(history.owed, Head(d))
        /\ history'.ends = history.ends /\ history'.active = history.active
        /\ history'.cutShort = history.cutShort /\ history'.doubled = history.doubled
    BY <1>1, <2>5, <2>6 DEF History
  <2> HIDE DEF f, g
  <2>9. Goes(f, g, plugin, mapped, history, plugin', mapped, history')
    <3> SUFFICES ASSUME NEW b \in BOOLEAN, NEW b2 \in BOOLEAN,
                        Holds(f, plugin, mapped, history, b), b2 => b
                 PROVE  /\ Always(plugin', mapped, history') /\ Orders(plugin', b2)
                        /\ Working(g, <<>>, plugin', mapped, history')
      BY <2>3 DEF Goes
    <3>1. Starting(f, plugin, mapped, history) /\ Always(plugin, mapped, history)
          /\ Orders(plugin, b)
      BY <1>1 DEF Holds, Working
    <3>2. q \o d = Inits /\ d # <<>> /\ history.owed = q /\ mapped
      BY <1>1, <3>1 DEF Starting
    <3>3. e \o Tail(d) = Inits /\ Prefix(e) /\ history'.owed = e
      BY <2>1, <2>8, <3>2, NotedFacts DEF e
    <3> HIDE DEF q, d
    <3>4. Starting(g, plugin', mapped, history')
      BY <1>1, <2>3, <2>7, <2>8, <3>1, <3>2, <3>3 DEF Starting
    <3>5. Always(plugin', mapped, history')
      BY <2>7, <2>8, <3>1, <3>2, <3>3 DEF Always
    <3>6. Orders(plugin', b2)
      BY <2>7, <3>1 DEF Orders
    <3> QED BY <2>3, <3>4, <3>5, <3>6 DEF Working
  <2> QED BY <1>1, <1>2, <2>3, <2>4, <2>5, <2>7, <2>8, <2>9, StepChange DEF f
<1> QED BY <1>3, <1>4

LEMMA StartedRun ==
  ASSUME IInv, title = "running", NEW t \in Threads, Started(t)
  PROVE  IInv'
<1> DEFINE f == Top(t)
<1>1. /\ At(t, "started") /\ stack[t] # <<>> /\ f \in Work /\ f \in Frames
      /\ f.at = "started" /\ f.op = "start" /\ plugin \in Plugin /\ history \in History
      /\ mapped \in BOOLEAN
  BY AtStart DEF Started
<1>2. title' = title /\ starts' = starts
  BY DEF Started
<1>3. CASE f.result = "false"
  BY <1>1, <1>2, <1>3, FailStartRun DEF Started
<1>4. CASE f.result # "false" /\ StartRevoked(t)
  <2> DEFINE g == UnloadFrame(FALSE)
  <2>1. g \in Frames /\ g.op = "unload" /\ g.at = "unload" /\ g \notin Work /\ g \notin Tearing
    BY UnloadFrameFacts, WorkNotInvoke
  <2>2. Changed(stack, stack', t, g) /\ plugin' = plugin /\ mapped' = mapped
        /\ history' = history
    BY <1>1, <1>4 DEF Started, Replace, Changed
  <2>3. plugin.state = "Unloading" \/ plugin.generation # f.gen
    BY <1>4 DEF StartRevoked
  <2> HIDE DEF f, g
  <2>4. Goes(f, g, plugin, mapped, history, plugin, mapped, history)
    <3> SUFFICES ASSUME NEW b \in BOOLEAN, NEW b2 \in BOOLEAN,
                        Holds(f, plugin, mapped, history, b)
                 PROVE  Rests(plugin, mapped, history, b2)
      BY <2>1 DEF Goes
    <3>1. Starting(f, plugin, mapped, history) /\ Always(plugin, mapped, history)
          /\ plugin.state = "Unloading"
      BY <1>1, <2>3 DEF Holds, Working, Starting
    <3> QED BY <3>1 DEF Rests, Orders, Revoked, Resting, Starting, Due
  <2> QED BY <1>1, <1>2, <2>1, <2>2, <2>4, StepChange DEF f
<1>5. CASE f.result # "false" /\ ~StartRevoked(t)
  <2>1. /\ plugin' = [plugin EXCEPT !.state = "Active", !.transition = FALSE] /\ Pop(t)
        /\ history' = [history EXCEPT !.active = TRUE] /\ mapped' = mapped
    BY <1>5 DEF Started
  <2>2. /\ plugin' \in Plugin /\ plugin'.inFlight = plugin.inFlight
        /\ plugin'.state = "Active" /\ plugin'.module = plugin.module
        /\ plugin'.journal = plugin.journal /\ plugin'.deferredUnload = plugin.deferredUnload
        /\ plugin'.endsPending = plugin.endsPending /\ plugin'.deferredEnd = plugin.deferredEnd
    <3>1. "Active" \in States
      BY DEF States
    <3> HIDE DEF States
    <3> QED BY <1>1, <2>1, <3>1 DEF Plugin
  <2>3. /\ history' \in History /\ history'.owed = history.owed /\ history'.ends = history.ends
        /\ history'.cutShort = history.cutShort /\ history'.doubled = history.doubled
    BY <1>1, <2>1 DEF History
  <2>4. plugin.state # "Unloading" /\ plugin.generation = f.gen
    BY <1>5 DEF StartRevoked
  <2> HIDE DEF f
  <2>5. Stops(f, plugin, mapped, history, plugin', mapped, history')
    <3> SUFFICES ASSUME NEW b \in BOOLEAN, NEW b2 \in BOOLEAN,
                        Holds(f, plugin, mapped, history, b), b2 => b
                 PROVE  Rests(plugin', mapped, history', b2)
      BY DEF Stops
    <3>1. Starting(f, plugin, mapped, history) /\ Always(plugin, mapped, history)
          /\ Orders(plugin, b)
      BY <1>1 DEF Holds, Working
    <3>2. ~plugin.endsPending /\ mapped /\ ~b /\ ~plugin.deferredUnload /\ ~plugin.deferredEnd
          /\ history.ends = 0 /\ history.owed = plugin.journal
      BY <1>1, <2>4, <3>1 DEF Starting, Orders, Revoked
    <3>3. Always(plugin', mapped, history')
      BY <2>2, <2>3, <3>1, <3>2 DEF Always
    <3>4. Orders(plugin', b2)
      BY <2>2, <3>2 DEF Orders
    <3>5. Resting(plugin', mapped, history')
      BY <2>2, <2>3, <3>2 DEF Resting
    <3> QED BY <3>3, <3>4, <3>5 DEF Rests
  <2> QED BY <1>1, <1>2, <2>1, <2>2, <2>3, <2>5, StepPop DEF f
<1> QED BY <1>3, <1>4, <1>5

-----------------------------------------------------------------------------
\* What begins

\* Who calls is at the bottom, or in a hook.
LEMMA Caller ==
  ASSUME IInv, title = "running", NEW t \in Threads, NEW call, CanCall(t, call)
  PROVE  /\ stack \in Stacks /\ Run(stack, plugin, mapped, history)
         /\ plugin \in Plugin /\ history \in History /\ mapped \in BOOLEAN /\ starts \in Nat
         /\ stack[t] # <<>> =>
              Head(stack[t]).op = "invoke" /\ Head(stack[t]).at \in {"hook", "return"}
         /\ stack[t] # <<>> => Inside(t)
<1>1. /\ stack \in Stacks /\ Run(stack, plugin, mapped, history)
      /\ plugin \in Plugin /\ history \in History /\ mapped \in BOOLEAN /\ starts \in Nat
  BY DEF IInv, Stacks
<1>2. ASSUME stack[t] # <<>>
      PROVE  /\ Head(stack[t]).op = "invoke" /\ Head(stack[t]).at \in {"hook", "return"}
             /\ Inside(t)
  <2>1. At(t, "hook")
    BY <1>2 DEF CanCall
  <2>2. /\ stack[t] \in Seq(Frames) /\ Head(stack[t]) \in Frames /\ Head(stack[t]).at = "hook"
        /\ Placed(Head(stack[t]))
    BY <2>1, AtTop
  <2>3. 1 \in DOMAIN stack[t] /\ stack[t][1] = Head(stack[t])
    BY <1>2, <2>2
  <2>4. Inside(t)
    BY <2>2, <2>3 DEF Inside
  <2> QED BY <2>2, <2>4 DEF Placed
<1> QED BY <1>1, <1>2

LEMMA StartFrameFacts ==
  ASSUME NEW at \in {"map", "activate"}, NEW gen \in Nat
  PROVE  LET g == [Frame("start", at) EXCEPT !.gen = gen]
         IN /\ g \in Frames /\ g.op = "start" /\ g.at = at /\ g.gen = gen
            /\ g \in Work /\ g \notin Tearing /\ g \notin Unloads /\ ~Ready(g)
<1> DEFINE e == Frame("start", at)  g == [e EXCEPT !.gen = gen]
<1>1. e \in Fields /\ e.op = "start" /\ e.at = at
  BY FrameFacts DEF Places
<1> HIDE DEF e
<1>2. g \in Fields /\ g.op = "start" /\ g.at = at /\ g.gen = gen
  <2> HIDE DEF Places
  <2> QED BY <1>1 DEF Fields
<1> HIDE DEF g
<1>3. g \in Frames
  BY <1>2 DEF Frames, Placed
<1> QED BY <1>2, <1>3, WorkNotInvoke DEF Unloads, Ready, g, e

LEMMA StartsRun ==
  ASSUME NEW st \in Stacks, NEW st2, NEW p, NEW p2, NEW m, NEW h, NEW h2, NEW t \in Threads,
         NEW g \in Frames, Run(st, p, m, h), Pushed(st, st2, t, g),
         st[t] # <<>> => Head(st[t]).op = "invoke" /\ Head(st[t]).at \in {"hook", "return"},
         g.op = "start", g.gen = p.generation, ~p.transition,
         \/ p.state = "Installed" /\ g.at = "map"
         \/ p.state = "Deinitialized" /\ g.at = "activate",
         p2.inFlight = p.inFlight, p2.state = p.state, p2.generation = p.generation,
         p2.module = p.module, p2.journal = p.journal, p2.deferredUnload = p.deferredUnload,
         p2.endsPending = p.endsPending, p2.deferredEnd = p.deferredEnd, p2.transition,
         h2.owed = h.owed, h2.ends = 0, ~h2.active, h2.cutShort = h.cutShort,
         h2.doubled = h.doubled
  PROVE  st2 \in Stacks /\ Run(st2, p2, m, h2)
<1>1. g \in Work /\ g \notin Tearing /\ g \notin Unloads /\ g.op # "invoke" /\ g.at # "end"
  BY WorkNotInvoke DEF Unloads
<1>2. st2 \in Stacks /\ Shaped(st2, p2)
  BY <1>1, ShapePush DEF Run
<1>3. ASSUME Torn(st, p)
      PROVE  Torn(st2, p2)
  <2>1. Where(st, Tearing) = {}
    BY <1>3, TornClean
  <2>2. Where(st2, Tearing) = {}
    BY <1>1, <2>1, NonePush
  <2> QED BY <2>2, TornNone
<1>4. ASSUME Good(st, p, m, h)
      PROVE  Good(st2, p2, m, h2)
  <2>1. Idle(st) /\ Resting(p, m, h)
    BY <1>4, NotTransition
  <2>2. Always(p, m, h) /\ Unloadable(st, p)
    BY <1>4 DEF Good
  <2>3. Sole(st2, <<t, Len(st[t]) + 1>>, g, <<>>)
    BY <1>1, <2>1, MovePush
  <2>4. ~p.endsPending /\ h.owed = <<>> /\ h.owed = p.journal /\ ~p.deferredEnd
        /\ (p.state = "Deinitialized" => m)
    BY <2>1, <2>2 DEF Resting, Always
  <2>5. Always(p2, m, h2)
    BY <2>2, <2>4 DEF Always
  <2>6. Unloadable(st2, p2)
    <3>1. Where(st, Unloads) = {} /\ ~p.deferredUnload
      BY <2>2 DEF Unloadable, Revoked
    <3>2. Where(st2, Unloads) = {}
      BY <1>1, <3>1, NonePush
    <3> QED BY <3>1, <3>2 DEF Unloadable
  <2>7. Starting(g, p2, m, h2)
    BY <2>4 DEF Starting
  <2> QED BY <2>3, <2>5, <2>6, <2>7, GoodSole DEF Working
<1> QED BY <1>2, <1>3, <1>4 DEF Run

LEMMA StartRun ==
  ASSUME IInv, title = "running", NEW t \in Threads, Start(t)
  PROVE  IInv'
<1> DEFINE a == IF plugin.state = "Installed" THEN "map" ELSE "activate"
           g == [Frame("start", a) EXCEPT !.gen = plugin.generation]
<1>1. /\ stack \in Stacks /\ Run(stack, plugin, mapped, history)
      /\ plugin \in Plugin /\ history \in History /\ mapped \in BOOLEAN /\ starts \in Nat
      /\ stack[t] # <<>> =>
           Head(stack[t]).op = "invoke" /\ Head(stack[t]).at \in {"hook", "return"}
  BY Caller DEF Start
<1>2. g \in Frames /\ g.op = "start" /\ g.at = a /\ g.gen = plugin.generation
  <2>1. a \in {"map", "activate"} /\ plugin.generation \in Nat
    BY <1>1, PluginUpdates
  <2> HIDE DEF a
  <2> QED BY <2>1, StartFrameFacts
<1>3. Pushed(stack, stack', t, g)
  BY DEF Start, Push, Pushed
<1>4. /\ plugin.state \in {"Installed", "Deinitialized"} /\ ~plugin.transition
      /\ starts' = starts + 1 /\ mapped' = mapped /\ title' = title
  BY DEF Start
<1>5. /\ \/ plugin.state = "Installed" /\ g.at = "map"
         \/ plugin.state = "Deinitialized" /\ g.at = "activate"
  BY <1>2, <1>4
<1>6. /\ plugin' \in Plugin /\ plugin'.inFlight = plugin.inFlight
      /\ plugin'.state = plugin.state /\ plugin'.generation = plugin.generation
      /\ plugin'.module = plugin.module /\ plugin'.journal = plugin.journal
      /\ plugin'.deferredUnload = plugin.deferredUnload
      /\ plugin'.endsPending = plugin.endsPending
      /\ plugin'.deferredEnd = plugin.deferredEnd /\ plugin'.transition
  <2>1. plugin' = [plugin EXCEPT !.transition = TRUE, !.released = FALSE,
                                 !.foregroundReleased = FALSE, !.exitRequested = FALSE]
    BY DEF Start
  <2> HIDE DEF g
  <2> QED BY <1>1, <2>1 DEF Plugin
<1>7. /\ history' \in History /\ history'.owed = history.owed /\ history'.ends = 0
      /\ ~history'.active /\ history'.cutShort = history.cutShort
      /\ history'.doubled = history.doubled
  <2>1. history' = [history EXCEPT !.ends = 0, !.active = FALSE]
    BY DEF Start
  <2> HIDE DEF g
  <2> QED BY <1>1, <2>1 DEF History
<1> HIDE DEF g
<1>8. stack' \in Stacks /\ Run(stack', plugin', mapped, history')
  BY <1>1, <1>2, <1>3, <1>4, <1>5, <1>6, <1>7, StartsRun
<1>9. starts' \in Nat
  BY <1>1, <1>4
<1> QED BY <1>1, <1>4, <1>6, <1>7, <1>8, <1>9, Running

\* An application end begins, or is left to who leaves the last hook.
LEMMA EndsRun ==
  ASSUME NEW st \in Stacks, NEW st2, NEW p, NEW p2, NEW m, NEW h, NEW t \in Threads,
         NEW g \in Frames, Run(st, p, m, h), g.op = "end", g.at = "end",
         \/ Pushed(st, st2, t, g) /\ st[t] = <<>> /\ p2.deferredEnd = p.deferredEnd
         \/ st2 = st,
         p.state \in {"Active", "Initialized"}, ~p.transition,
         p2.inFlight = p.inFlight, p2.state = "Deinitialized", p2.module = p.module,
         p2.journal = p.journal, p2.deferredUnload = p.deferredUnload,
         p2.endsPending, p2.transition
  PROVE  st2 \in Stacks /\ Run(st2, p2, m, h)
<1>1. g \in Work /\ g \notin Tearing /\ g \notin Unloads /\ g.op # "invoke"
  BY WorkNotInvoke DEF Unloads
<1>2. Shaped(st, p)
  BY DEF Run
<1>3. ASSUME Torn(st, p)
      PROVE  Where(st, Tearing) = {}
  BY <1>3, TornClean
<1>4. ASSUME Good(st, p, m, h)
      PROVE  /\ Idle(st) /\ Always(p, m, h) /\ p.state = "Active" /\ m /\ ~p.endsPending
             /\ ~p.deferredEnd /\ h.ends = 0 /\ h.owed = p.journal
             /\ Where(st, Unloads) = {} /\ ~p.deferredUnload
  <2>1. Idle(st) /\ Resting(p, m, h)
    BY <1>4, NotTransition
  <2>2. Always(p, m, h) /\ Unloadable(st, p)
    BY <1>4 DEF Good
  <2>3. p.state = "Active"
    BY <2>1 DEF Resting, Revoked
  <2> QED BY <2>1, <2>2, <2>3 DEF Resting, Always, Unloadable, Revoked
<1>5. ASSUME Good(st, p, m, h), p2.deferredEnd \in BOOLEAN
      PROVE  Always(p2, m, h)
  BY <1>4, <1>5 DEF Always
<1>6. CASE Pushed(st, st2, t, g) /\ st[t] = <<>> /\ p2.deferredEnd = p.deferredEnd
  <2>1. Outer(st, t)
    <3>1. ASSUME NEW y \in Where(st, Flying), y[1] = t
          PROVE  FALSE
      <4>1. y[2] \in 1..Len(st[t])
        BY <3>1, WhereIn
      <4>2. Len(st[t]) = 0
        BY <1>6
      <4> QED BY <4>1, <4>2
    <3> QED BY <3>1 DEF Outer
  <2>2. st2 \in Stacks /\ Shaped(st2, p2)
    BY <1>1, <1>2, <1>6, <2>1, ShapePush
  <2>3. ASSUME Torn(st, p)
        PROVE  Torn(st2, p2)
    <3>1. Where(st2, Tearing) = {}
      BY <1>1, <1>3, <1>6, <2>3, NonePush
    <3> QED BY <3>1, TornNone
  <2>4. ASSUME Good(st, p, m, h)
        PROVE  Good(st2, p2, m, h)
    <3>1. Sole(st2, <<t, Len(st[t]) + 1>>, g, <<>>)
      BY <1>1, <1>4, <1>6, <2>4, MovePush
    <3>2. ~p2.deferredEnd
      BY <1>4, <1>6, <2>4
    <3>3. Always(p2, m, h)
      BY <1>4, <2>4, <3>2 DEF Always
    <3>4. Unloadable(st2, p2)
      <4>1. Where(st2, Unloads) = {}
        BY <1>1, <1>4, <1>6, <2>4, NonePush
      <4> QED BY <1>4, <2>4, <4>1 DEF Unloadable
    <3>5. Working(g, <<>>, p2, m, h)
      BY <1>4, <2>4 DEF Working, Ending, Finishing, Due
    <3> QED BY <3>1, <3>3, <3>4, <3>5, GoodSole
  <2> QED BY <2>2, <2>3, <2>4 DEF Run
<1>7. CASE st2 = st
  <2>1. Shaped(st, p2)
    BY <1>2, CountedSame DEF Shaped
  <2>2. ASSUME Torn(st, p)
        PROVE  Torn(st, p2)
    BY <1>3, <2>2, TornNone
  <2>3. ASSUME Good(st, p, m, h)
        PROVE  Good(st, p2, m, h)
    <3>1. Always(p2, m, h)
      BY <1>4, <2>3 DEF Always
    <3>2. Unloadable(st, p2)
      BY <1>4, <2>3 DEF Unloadable
    <3>3. Resting(p2, m, h)
      BY <1>4, <2>3 DEF Resting, Due
    <3> QED BY <1>4, <2>3, <3>1, <3>2, <3>3, GoodIdle
  <2> QED BY <1>7, <2>1, <2>2, <2>3 DEF Run
<1> QED BY <1>6, <1>7

LEMMA ApplicationEndsRun ==
  ASSUME IInv, title = "running", NEW t \in Threads, ApplicationEnds(t)
  PROVE  IInv'
<1> DEFINE g == Frame("end", "end")
<1>1. /\ stack \in Stacks /\ Run(stack, plugin, mapped, history)
      /\ plugin \in Plugin /\ history \in History /\ mapped \in BOOLEAN /\ starts \in Nat
      /\ stack[t] # <<>> => Inside(t)
  BY Caller DEF ApplicationEnds
<1>2. g \in Frames /\ g.op = "end" /\ g.at = "end"
  BY EndFrameFacts
<1>3. /\ plugin.state \in {"Active", "Initialized"} /\ ~plugin.transition
      /\ mapped' = mapped /\ title' = title /\ starts' = starts /\ history' = history
  BY DEF ApplicationEnds
<1>4. /\ plugin' \in Plugin /\ plugin'.inFlight = plugin.inFlight
      /\ plugin'.state = "Deinitialized" /\ plugin'.module = plugin.module
      /\ plugin'.journal = plugin.journal /\ plugin'.deferredUnload = plugin.deferredUnload
      /\ plugin'.endsPending /\ plugin'.transition
      /\ plugin'.deferredEnd = (plugin.deferredEnd \/ Inside(t))
  <2> DEFINE b == Inside(t)
  <2>1. plugin' = [plugin EXCEPT !.transition = TRUE, !.state = "Deinitialized",
                              !.endsPending = TRUE, !.deferredEnd = @ \/ b]
    BY DEF ApplicationEnds
  <2>2. "Deinitialized" \in States
    BY DEF States
  <2>3. b \in BOOLEAN
    BY DEF Inside
  <2> HIDE DEF g, b, States
  <2>4. (plugin.deferredEnd \/ b) \in BOOLEAN
    OBVIOUS
  <2>5. plugin' \in Plugin
    BY <1>1, <2>1, <2>2, <2>4 DEF Plugin
  <2> QED BY <1>1, <2>1, <2>5 DEF Plugin, b
<1> HIDE DEF g
<1>5. \/ Pushed(stack, stack', t, g) /\ stack[t] = <<>>
         /\ plugin'.deferredEnd = plugin.deferredEnd
      \/ stack' = stack
  <2>1. CASE Inside(t)
    BY <2>1 DEF ApplicationEnds
  <2>2. CASE ~Inside(t)
    <3>1. Pushed(stack, stack', t, g)
      BY <2>2 DEF ApplicationEnds, Push, Pushed, g
    <3>2. plugin.deferredEnd \in BOOLEAN
      BY <1>1, PluginUpdates
    <3> QED BY <1>1, <1>4, <2>2, <3>1, <3>2
  <2> QED BY <2>1, <2>2
<1>6. stack' \in Stacks /\ Run(stack', plugin', mapped, history)
  BY <1>1, <1>2, <1>3, <1>4, <1>5, EndsRun
<1> QED BY <1>1, <1>3, <1>4, <1>6, Running

-----------------------------------------------------------------------------
\* An unload is called

Revokes(p, p2) ==
  /\ p2.state = "Unloading" /\ p2.inFlight = p.inFlight /\ p2.module = p.module
  /\ p2.journal = p.journal /\ p2.deferredEnd = p.deferredEnd
  /\ p2.transition = p.transition
  /\ p2.endsPending <=> p.endsPending \/ p.state \in {"Active", "Initialized"}

LEMMA RevokesWorking ==
  ASSUME NEW f, NEW g, NEW hook, NEW p, NEW p2, NEW m, NEW h, Alike(f, g), Revokes(p, p2),
         Always(p, m, h), f.op # "unload", Working(f, hook, p, m, h)
  PROVE  Always(p2, m, h) /\ Working(g, hook, p2, m, h)
<1>1. CASE f.op = "start" /\ Starting(f, p, m, h)
  <2>1. p.state = "Initialized" => m /\ h.ends = 0
    BY <1>1 DEF Starting
  <2>2. p.state # "Active"
    BY <1>1 DEF Starting
  <2>3. Always(p2, m, h)
    BY <2>1, <2>2 DEF Always, Revokes
  <2>4. Starting(g, p2, m, h)
    BY <1>1 DEF Starting, Revokes, Alike
  <2> QED BY <1>1, <2>3, <2>4 DEF Working, Alike
<1>2. CASE f.op = "end" /\ Ending(f, hook, p, m, h)
  <2>1. p2.endsPending <=> p.endsPending
    BY <1>2 DEF Ending, Revokes
  <2>2. Always(p2, m, h)
    BY <2>1 DEF Always, Revokes
  <2>3. Ending(g, hook, p2, m, h)
    BY <1>2, <2>1 DEF Ending, Finishing, Due, Revokes, Alike
  <2> QED BY <1>2, <2>2, <2>3 DEF Working, Alike
<1> QED BY <1>1, <1>2 DEF Working

LEMMA RevokesRun ==
  ASSUME NEW st \in Stacks, NEW st2 \in Stacks, NEW p, NEW p2, NEW m, NEW h,
         Run(st, p, m, h), Shaped(st2, p2), Steady(st, st2), Revokes(p, p2), ~p.teardown,
         p.transition /\ Where(st, Unloads) = {} => Where(st2, Unloads) = {}
  PROVE  Run(st2, p2, m, h)
<1>1. ASSUME Torn(st, p)
      PROVE  Where(st, Tearing) = {} /\ Torn(st2, p2)
  <2>1. Where(st, Tearing) = {}
    BY <1>1, TornClean
  <2>2. Where(st2, Tearing) = {}
    BY <2>1, SteadyTearing
  <2> QED BY <2>1, <2>2, TornNone
<1>2. ASSUME Torn(st, p), Good(st, p, m, h)
      PROVE  Good(st2, p2, m, h)
  <2>1. /\ Always(p, m, h) /\ Unloadable(st, p)
        /\ \A x, y \in Where(st, Work) : x = y
        /\ Where(st, Work) = {} => Resting(p, m, h)
        /\ \A x \in Where(st, Work) :
             Working(Deep(st[x[1]], x[2]), Prep(st[x[1]], x[2]), p, m, h)
    BY <1>2 DEF Good
  <2>2. Where(st2, Work) = Where(st, Work)
    BY DEF Steady
  <2>3. Unloadable(st2, p2)
    BY <2>1 DEF Unloadable, Revokes, Always, Revoked
  <2>4. ASSUME NEW x \in Where(st, Work)
        PROVE  /\ Always(p2, m, h)
               /\ Working(Deep(st2[x[1]], x[2]), Prep(st2[x[1]], x[2]), p2, m, h)
    <3> DEFINE f == Deep(st[x[1]], x[2])  g == Deep(st2[x[1]], x[2])
    <3>1. Alike(f, g) /\ Prep(st2[x[1]], x[2]) = Prep(st[x[1]], x[2])
      BY DEF Steady
    <3>2. f.op # "unload"
      <4>1. x \notin Where(st, Tearing)
        BY <1>1, <1>2
      <4>2. x = <<x[1], x[2]>> /\ x[1] \in Threads /\ x[2] \in 1..Len(st[x[1]]) /\ f \in Work
        BY WhereIn
      <4>3. x[2] \in Nat /\ f \notin Tearing
        <5>1. Len(st[x[1]]) \in Nat
          BY <4>2 DEF Stacks
        <5>2. x[2] \in Nat
          BY <4>2, <5>1
        <5> QED BY <4>1, <4>2, <5>2, WhereIn
      <4>4. f \in Frames
        BY <4>2 DEF Work, Tearing, Unloads
      <4> QED BY <4>2, <4>3, <4>4, WorkNotInvoke
    <3>3. Working(f, Prep(st[x[1]], x[2]), p, m, h)
      BY <2>1
    <3> HIDE DEF f, g
    <3>4. Always(p2, m, h) /\ Working(g, Prep(st[x[1]], x[2]), p2, m, h)
      BY <2>1, <3>1, <3>2, <3>3, RevokesWorking
    <3> QED BY <3>1, <3>4 DEF g
  <2>5. ASSUME Where(st, Work) = {}
        PROVE  Always(p2, m, h) /\ Resting(p2, m, h)
    <3>1. Resting(p, m, h)
      BY <2>1, <2>5
    <3>2. p.state # "Initialized" /\ (p.state = "Active" => m /\ h.ends = 0)
      BY <3>1 DEF Resting, Revoked
    <3>3. Always(p2, m, h)
      BY <2>1, <3>2 DEF Always, Revokes
    <3>4. Due(p2, h)
      BY <3>1, <3>2 DEF Resting, Due, Revokes
    <3> QED BY <3>1, <3>3, <3>4 DEF Resting, Revokes, Revoked
  <2>6. Always(p2, m, h)
    BY <2>4, <2>5
  <2> QED BY <2>1, <2>2, <2>3, <2>4, <2>5, <2>6 DEF Good
<1> QED BY <1>1, <1>2 DEF Run

LEMMA UnloadCheckedRun ==
  ASSUME IInv, title = "running", NEW t \in Threads, UnloadChecked(t)
  PROVE  IInv'
<1> DEFINE g == UnloadFrame(FALSE)
           revoked == [plugin EXCEPT
                         !.state = "Unloading", !.generation = @ + 1,
                         !.endsPending = @ \/ plugin.state \in {"Active", "Initialized"}]
           p == IF plugin.state = "Unloading" THEN plugin ELSE revoked
           b == Inside(t) \/ plugin.transition
<1>1. /\ stack \in Stacks /\ Run(stack, plugin, mapped, history)
      /\ plugin \in Plugin /\ history \in History /\ mapped \in BOOLEAN /\ starts \in Nat
      /\ stack[t] # <<>> => Inside(t)
  BY Caller DEF UnloadChecked
<1>2. g \in Frames /\ g.op = "unload" /\ g.at = "unload" /\ g \notin Work /\ ~Ready(g)
  BY UnloadFrameFacts
<1>3. /\ ~plugin.teardown
      /\ mapped' = mapped /\ title' = title /\ starts' = starts /\ history' = history
      /\ b => plugin' = [p EXCEPT !.deferredUnload = TRUE] /\ stack' = stack
      /\ ~b => plugin' = p /\ Push(t, g)
  BY DEF UnloadChecked
<1> HIDE DEF g
<1>4. revoked \in Plugin /\ Revokes(plugin, revoked)
  <2> DEFINE e == plugin.endsPending \/ plugin.state \in {"Active", "Initialized"}
  <2>1. revoked = [plugin EXCEPT !.state = "Unloading", !.generation = @ + 1,
                                 !.endsPending = e]
    BY <1>1 DEF Plugin
  <2>2. "Unloading" \in States /\ e \in BOOLEAN /\ plugin.generation + 1 \in Nat
    BY <1>1, PluginUpdates DEF States
  <2>3. e <=> plugin.endsPending \/ plugin.state \in {"Active", "Initialized"}
    OBVIOUS
  <2> HIDE DEF revoked, States, e
  <2>4. revoked \in Plugin
    BY <1>1, <2>1, <2>2 DEF Plugin
  <2> QED BY <1>1, <2>1, <2>3, <2>4 DEF Plugin, Revokes
<1> HIDE DEF revoked
<1>5. p \in Plugin /\ Revokes(plugin, p)
  <2>1. CASE plugin.state = "Unloading"
    BY <1>1, <2>1 DEF Revokes
  <2>2. CASE plugin.state # "Unloading"
    BY <1>4, <2>2
  <2> QED BY <2>1, <2>2
<1> HIDE DEF p
<1>6. plugin' \in Plugin /\ Revokes(plugin, plugin')
  <2>1. CASE b
    <3>1. plugin' = [p EXCEPT !.deferredUnload = TRUE]
      BY <1>3, <2>1
    <3> QED BY <1>5, <3>1 DEF Plugin, Revokes
  <2>2. CASE ~b
    BY <1>3, <1>5, <2>2
  <2> QED BY <2>1, <2>2
<1>7. plugin'.inFlight = plugin.inFlight
  BY <1>6 DEF Revokes
<1>8. stack' \in Stacks /\ Run(stack', plugin', mapped, history)
  <2>1. CASE b
    <3>1. Steady(stack, stack)
      BY AlikeSelf DEF Steady
    <3>2. Shaped(stack, plugin')
      BY <1>1, <1>7, CountedSame DEF Run, Shaped
    <3> QED BY <1>1, <1>3, <1>6, <2>1, <3>1, <3>2, RevokesRun
  <2>2. CASE ~b
    <3>1. stack[t] = <<>> /\ Pushed(stack, stack', t, g) /\ ~plugin.transition
      BY <1>1, <1>3, <2>2 DEF Push, Pushed
    <3>2. stack' \in Stacks /\ Shaped(stack', plugin')
      <4>1. Shaped(stack, plugin)
        BY <1>1 DEF Run
      <4> QED BY <1>1, <1>2, <1>7, <3>1, <4>1, ShapePush
    <3>3. Steady(stack, stack')
      BY <1>1, <1>2, <3>1, SteadyPush
    <3> QED BY <1>1, <1>3, <1>6, <3>1, <3>2, <3>3, RevokesRun
  <2> QED BY <2>1, <2>2
<1> QED BY <1>1, <1>3, <1>6, <1>8, Running

-----------------------------------------------------------------------------
\* The steps of an application end and of an unload

EndPlaces == {"end", "drain", "ends", "swap", "fini", "backend", "deactivating", "ended"}

UnloadPlaces == {"drain", "ends", "swap", "fini", "backend", "deactivating", "release",
                 "releasing", "unmap", "unloaded"}

FinishPlaces == EndPlaces \cup UnloadPlaces

\* f may go on at a.
Admits(f, a) ==
  IF f.op = "end" THEN a \in EndPlaces ELSE f.op = "unload" /\ a \in UnloadPlaces

LEMMA AtFinish ==
  ASSUME IInv, title = "running", NEW t \in Threads, NEW a \in FinishPlaces, At(t, a)
  PROVE  /\ stack \in Stacks /\ stack[t] # <<>> /\ Top(t) = Head(stack[t]) /\ Top(t) \in Frames
         /\ Top(t).at = a /\ Top(t).op \in {"end", "unload"} /\ Top(t) \in Work
         /\ Top(t) \in Tearing <=> Top(t).op = "unload"
         /\ Top(t).op = "end" => a \in EndPlaces
         /\ Top(t).op = "unload" => a \in UnloadPlaces
         /\ plugin \in Plugin /\ history \in History /\ mapped \in BOOLEAN
         /\ Shaped(stack, plugin)
<1> DEFINE f == Top(t)
<1>1. /\ stack \in Stacks /\ stack[t] # <<>> /\ f = Head(stack[t]) /\ f \in Frames
      /\ f.at = a /\ Placed(f) /\ Shaped(stack, plugin)
  BY AtTop
<1>2. plugin \in Plugin /\ history \in History /\ mapped \in BOOLEAN
  BY DEF IInv
<1> HIDE DEF f
<1>3. /\ f.op \in {"end", "unload"} /\ f.at # "unload"
      /\ f.op = "end" => a \in EndPlaces
      /\ f.op = "unload" => a \in UnloadPlaces
  BY <1>1 DEF Placed, FinishPlaces, EndPlaces, UnloadPlaces
<1>4. f \in Work /\ (f \in Tearing <=> f.op = "unload")
  BY <1>1, <1>3, WorkNotInvoke
<1> QED BY <1>1, <1>2, <1>3, <1>4 DEF f

LEMMA FinishMoves ==
  ASSUME NEW f \in Frames, NEW a \in FinishPlaces,
         Admits(f, a),
         NEW q \in Seq(Range(Inits)), NEW k \in BOOLEAN,
         NEW r \in {"true", "false", "invoked"}
  PROVE  LET g == Put(f, a, q, k, r)
         IN /\ g \in Frames /\ g.op = f.op /\ g.at = a /\ g.todo = q /\ g.keep = k
            /\ g.result = r /\ g.gen = f.gen
            /\ g \in Work /\ (g \in Tearing <=> g.op = "unload")
<1> DEFINE g == Put(f, a, q, k, r)
<1>1. a \in Places
  BY DEF FinishPlaces, EndPlaces, UnloadPlaces, Places
<1>2. /\ g \in Fields /\ g.op = f.op /\ g.at = a /\ g.todo = q /\ g.keep = k
      /\ g.result = r /\ g.gen = f.gen /\ (Placed(g) => g \in Frames)
  BY <1>1, PutFacts
<1> HIDE DEF g
<1>3. Placed(g) /\ g.op \in {"end", "unload"} /\ (g.op = "unload" => g.at # "unload")
  BY <1>2 DEF Placed, Admits, EndPlaces, UnloadPlaces
<1>4. g \in Frames /\ g.op \in {"end", "unload"} /\ (g.op = "unload" => g.at # "unload")
  BY <1>2, <1>3
<1>5. g \in Work /\ (g \in Tearing <=> g.op = "unload")
  BY <1>4, WorkNotInvoke
<1> QED BY <1>2, <1>4, <1>5 DEF g

LEMMA FinishChange ==
  ASSUME IInv, title = "running", NEW t \in Threads, NEW a \in FinishPlaces, At(t, a),
         NEW b \in FinishPlaces, b # "end",
         NEW q \in Seq(Range(Inits)), NEW k \in BOOLEAN, NEW r \in {"true", "false", "invoked"},
         NEW f, f = Top(t), NEW g, g = Put(f, b, q, k, r),
         Admits(f, b), Replace(t, <<g>>),
         plugin' \in Plugin, plugin'.inFlight = plugin.inFlight,
         plugin'.teardown = plugin.teardown, plugin'.state = plugin.state,
         a = "drain" /\ b # "drain" => plugin.inFlight = 0,
         mapped' \in BOOLEAN, UNCHANGED <<title, starts, history>>,
         Goes(f, g, plugin, mapped, history, plugin', mapped', history)
  PROVE  IInv'
<1>1. /\ stack \in Stacks /\ stack[t] # <<>> /\ f = Head(stack[t]) /\ f \in Frames
      /\ f.at = a /\ f.op \in {"end", "unload"} /\ f \in Work
      /\ f \in Tearing <=> f.op = "unload"
      /\ history \in History
  BY AtFinish
<1>2. /\ g \in Frames /\ g.op = f.op /\ g.at = b /\ g \in Work
      /\ g \in Tearing <=> g.op = "unload"
  BY <1>1, FinishMoves
<1>3. Changed(stack, stack', t, g)
  BY <1>1 DEF Replace, Changed
<1>4. /\ g.op # "invoke" /\ g.at # "end" /\ history' = history
      /\ g \in Tearing =>
           /\ f \in Tearing /\ plugin'.teardown = plugin.teardown
           /\ plugin'.state = plugin.state
           /\ f.at = "drain" /\ g.at # "drain" => plugin.inFlight = 0
  BY <1>1, <1>2
<1>5. Goes(f, g, plugin, mapped, history, plugin', mapped', history')
  BY <1>4
<1> QED BY <1>1, <1>2, <1>3, <1>4, <1>5, StepChange

LEMMA FinishGoes ==
  ASSUME NEW f, NEW g, g \in Work, NEW p, NEW p2, NEW m, NEW h,
         f.op \in {"end", "unload"}, g.op = f.op,
         p2.state = p.state, p2.module = p.module, p2.deferredUnload = p.deferredUnload,
         p2.transition = p.transition,
         \/ p2.endsPending = p.endsPending /\ p2.deferredEnd = p.deferredEnd
         \/ ~p2.endsPending /\ ~p2.deferredEnd,
         f.op = "end" /\ g.at \in {"end", "drain"} =>
           p2.endsPending = p.endsPending /\ f.at \in {"end", "drain"},
         g.at = "unloaded" /\ g.result = "true" => ~m,
         Always(p, m, h) /\ Working(f, <<>>, p, m, h) => Finishing(g, <<>>, p2, m, h)
  PROVE  Goes(f, g, p, m, h, p2, m, h)
<1> SUFFICES ASSUME NEW b \in BOOLEAN, NEW b2 \in BOOLEAN, Holds(f, p, m, h, b),
                    b2 => b \/ g.op = "unload"
             PROVE  Always(p2, m, h) /\ Orders(p2, b2) /\ Working(g, <<>>, p2, m, h)
  BY DEF Goes
<1>1. Always(p, m, h) /\ Orders(p, b) /\ Working(f, <<>>, p, m, h) /\ (b2 => b)
  BY DEF Holds
<1>2. Always(p2, m, h)
  BY <1>1 DEF Always
<1>3. Orders(p2, b2)
  BY <1>1 DEF Orders
<1>4. Finishing(g, <<>>, p2, m, h)
  BY <1>1
<1>5. CASE f.op = "end"
  <2>1. Ending(f, <<>>, p, m, h)
    BY <1>1, <1>5 DEF Working
  <2>2. Ending(g, <<>>, p2, m, h)
    BY <1>4, <1>5, <2>1 DEF Ending
  <2> QED BY <1>2, <1>3, <1>5, <2>2 DEF Working
<1>6. CASE f.op = "unload"
  <2>1. Unloading(f, <<>>, p, m, h)
    BY <1>1, <1>6 DEF Working
  <2>2. Unloading(g, <<>>, p2, m, h)
    BY <1>4, <2>1 DEF Unloading
  <2> QED BY <1>2, <1>3, <1>6, <2>2 DEF Working
<1> QED BY <1>5, <1>6

LEMMA WorkFinishes ==
  ASSUME NEW f, NEW hook, NEW p, NEW m, NEW h, f.op \in {"end", "unload"},
         Working(f, hook, p, m, h)
  PROVE  /\ Finishing(f, hook, p, m, h)
         /\ p.state \in {"Deinitialized", "Unloading", "Failed"}
         /\ f.op = "end" => p.transition /\ m
                            /\ (f.at \in {"end", "drain"} => p.endsPending)
         /\ f.op = "unload" => p.state # "Deinitialized" /\ ~p.deferredEnd
BY DEF Working, Ending, Unloading

\* What is pending is taken.
LEMMA DrainFinishes ==
  ASSUME NEW g, NEW p, NEW p2, NEW m, NEW h, Always(p, m, h), h.owed = p.journal, Due(p, h),
         g.at = IF g.op = "end" \/ p.endsPending THEN "ends" ELSE "swap",
         g.op = "end" => p.endsPending, p2.journal = p.journal, ~p2.endsPending
  PROVE  Finishing(g, <<>>, p2, m, h)
<1>1. p.endsPending => m /\ h.ends = 0
  BY DEF Always
<1>2. ~p.endsPending => Came(h)
  BY DEF Due, Came
<1> QED BY <1>1, <1>2 DEF Finishing

LEMMA InsideFlying ==
  ASSUME stack \in Stacks, NEW t \in Threads, Inside(t)
  PROVE  \E y \in Where(stack, Flying) : y[1] = t
<1>1. PICK i \in DOMAIN stack[t] : stack[t][i].at \in {"prepare", "hook", "leave"}
  BY DEF Inside
<1> DEFINE s == stack[t]
<1>2. s \in Seq(Frames) /\ Len(s) \in Nat /\ i \in 1..Len(s) /\ s[i] \in Frames
  BY <1>1 DEF Stacks
<1> HIDE DEF s
<1>3. /\ Len(s) + 1 - i \in 1..Len(s) /\ Len(s) + 1 - i \in Nat
      /\ Deep(s, Len(s) + 1 - i) = s[i]
  <2>1. Len(s) + 1 - (Len(s) + 1 - i) = i
    BY <1>2
  <2> QED BY <1>2, <2>1 DEF Deep
<1>4. s[i] \in Flying
  BY <1>1, <1>2, FlyingInvoke DEF s
<1>5. <<t, Len(s) + 1 - i>> \in Where(stack, Flying)
  BY <1>3, <1>4, WhereIn DEF s
<1> QED BY <1>5

LEMMA EnterEndRun ==
  ASSUME IInv, title = "running", NEW t \in Threads, EnterEnd(t)
  PROVE  IInv'
<1> DEFINE f == Top(t)
<1>1. At(t, "end") /\ UNCHANGED <<mapped, title, starts, history>>
  BY DEF EnterEnd
<1>2. "end" \in FinishPlaces /\ "end" \notin UnloadPlaces
  BY DEF FinishPlaces, EndPlaces, UnloadPlaces
<1>3. /\ stack \in Stacks /\ f = Head(stack[t]) /\ f \in Frames /\ f.at = "end" /\ f.op = "end"
      /\ f \in Work /\ stack[t] # <<>>
      /\ plugin \in Plugin /\ history \in History /\ mapped \in BOOLEAN
      /\ Shaped(stack, plugin)
  BY <1>1, <1>2, AtFinish
<1>4. /\ f.todo \in Seq(Range(Inits)) /\ f.keep \in BOOLEAN
      /\ f.result \in {"true", "false", "invoked"}
  BY <1>3, FieldFacts
<1>5. ~Inside(t)
  BY <1>3, InsideFlying DEF Shaped, Outside
<1> HIDE DEF f
<1>6. CASE ~plugin.endsPending
  <2>1. plugin' = plugin /\ Pop(t)
    BY <1>6 DEF EnterEnd
  <2>2. Stops(f, plugin, mapped, history, plugin, mapped, history)
    BY <1>3, <1>6 DEF Stops, Holds, Working, Ending
  <2> QED BY <1>1, <1>3, <2>1, <2>2, StepPop DEF f
<1>7. CASE plugin.endsPending
  <2>1. DrainOrWait(t, plugin)
    BY <1>5, <1>7 DEF EnterEnd
  <2>2. ASSUME NEW b \in {"drain", "ends"}, Go(t, b), plugin' \in Plugin,
               plugin'.state = plugin.state, plugin'.module = plugin.module,
               plugin'.deferredUnload = plugin.deferredUnload,
               plugin'.transition = plugin.transition, plugin'.teardown = plugin.teardown,
               plugin'.journal = plugin.journal, plugin'.inFlight = plugin.inFlight,
               IF b = "drain"
               THEN plugin'.endsPending = plugin.endsPending
                    /\ plugin'.deferredEnd = plugin.deferredEnd
               ELSE ~plugin'.endsPending /\ ~plugin'.deferredEnd
        PROVE  IInv'
    <3> DEFINE g == Put(f, b, f.todo, f.keep, f.result)
    <3>1. b \in FinishPlaces /\ b \in EndPlaces /\ b # "end"
      BY DEF FinishPlaces, EndPlaces
    <3>2. Replace(t, <<g>>)
      BY <1>3, <2>2, PutForms DEF Go, f
    <3>a. Admits(f, b)
      BY <1>3, <3>1 DEF Admits
    <3> HIDE DEF g
    <3>b. g.op = f.op /\ g.at = b /\ g \in Work
      BY <1>3, <1>4, <3>1, <3>a, FinishMoves DEF g
    <3>3. g.op = "end" /\ g.at = b /\ g \in Work
      BY <1>3, <3>b
    <3>4. Always(plugin, mapped, history) /\ Working(f, <<>>, plugin, mapped, history)
            => Finishing(g, <<>>, plugin', mapped, history)
      <4>1. SUFFICES ASSUME Always(plugin, mapped, history),
                            Working(f, <<>>, plugin, mapped, history)
                     PROVE  Finishing(g, <<>>, plugin', mapped, history)
        OBVIOUS
      <4>2. Finishing(f, <<>>, plugin, mapped, history)
        BY <1>3, <4>1, WorkFinishes
      <4>3. history.owed = plugin.journal /\ Due(plugin, history)
        BY <1>3, <4>2 DEF Finishing
      <4>4. CASE b = "drain"
        BY <2>2, <3>3, <4>3, <4>4 DEF Finishing, Due
      <4>5. CASE b = "ends"
        BY <1>7, <2>2, <3>3, <4>1, <4>3, <4>5, DrainFinishes
      <4> QED BY <4>4, <4>5
    <3>5. Goes(f, g, plugin, mapped, history, plugin', mapped, history)
      BY <1>3, <2>2, <3>3, <3>4, FinishGoes
    <3>6. mapped' = mapped /\ mapped' \in BOOLEAN
      BY <1>1, <1>3
    <3>7. Goes(f, g, plugin, mapped, history, plugin', mapped', history)
      BY <3>5, <3>6
    <3>8. f = Top(t) /\ g = Put(f, b, f.todo, f.keep, f.result)
      BY DEF f, g
    <3> QED BY <1>1, <1>2, <1>4, <2>2, <3>1, <3>2, <3>6, <3>7, <3>8, <3>a, FinishChange
  <2>3. CASE plugin.inFlight = 0
    <3>1. /\ plugin' = [plugin EXCEPT !.endsPending = FALSE, !.deferredEnd = FALSE]
          /\ Go(t, "ends")
      BY <1>3, <2>1, <2>3 DEF DrainOrWait, Drain, f
    <3>2. /\ plugin' \in Plugin
          /\ plugin'.state = plugin.state /\ plugin'.module = plugin.module
          /\ plugin'.deferredUnload = plugin.deferredUnload
          /\ plugin'.transition = plugin.transition /\ plugin'.teardown = plugin.teardown
          /\ plugin'.journal = plugin.journal /\ plugin'.inFlight = plugin.inFlight
          /\ ~plugin'.endsPending /\ ~plugin'.deferredEnd
      BY <1>3, <3>1 DEF Plugin
    <3> QED BY <2>2, <3>1, <3>2
  <2>4. CASE plugin.inFlight # 0
    <3>1. plugin' = plugin /\ Go(t, "drain")
      BY <2>1, <2>4 DEF DrainOrWait
    <3> QED BY <1>3, <2>2, <3>1
  <2> QED BY <2>3, <2>4
<1> QED BY <1>6, <1>7

LEMMA DrainedRun ==
  ASSUME IInv, title = "running", NEW t \in Threads, Drained(t)
  PROVE  IInv'
<1> DEFINE f == Top(t)
           b == IF f.op = "end" \/ plugin.endsPending THEN "ends" ELSE "swap"
           g == Put(f, b, f.todo, f.keep, f.result)
<1>1. /\ At(t, "drain") /\ plugin.inFlight = 0 /\ Go(t, b)
      /\ UNCHANGED <<mapped, title, starts, history>>
      /\ plugin' = [plugin EXCEPT !.endsPending = FALSE, !.deferredEnd = FALSE]
  BY DEF Drained, Drain
<1>2. "drain" \in FinishPlaces
  BY DEF FinishPlaces, EndPlaces, UnloadPlaces
<1>3. /\ f \in Frames /\ f.at = "drain" /\ f.op \in {"end", "unload"}
      /\ plugin \in Plugin /\ history \in History /\ mapped \in BOOLEAN
  BY <1>1, <1>2, AtFinish
<1>4. /\ f.todo \in Seq(Range(Inits)) /\ f.keep \in BOOLEAN
      /\ f.result \in {"true", "false", "invoked"}
  BY <1>3, FieldFacts
<1> HIDE DEF f
<1>5. b \in FinishPlaces /\ b # "end" /\ b # "drain" /\ Admits(f, b)
  BY <1>3 DEF FinishPlaces, EndPlaces, UnloadPlaces, Admits
<1>6. /\ plugin' \in Plugin
      /\ plugin'.state = plugin.state /\ plugin'.module = plugin.module
      /\ plugin'.deferredUnload = plugin.deferredUnload
      /\ plugin'.transition = plugin.transition /\ plugin'.teardown = plugin.teardown
      /\ plugin'.journal = plugin.journal /\ plugin'.inFlight = plugin.inFlight
      /\ ~plugin'.endsPending /\ ~plugin'.deferredEnd
  BY <1>1, <1>3 DEF Plugin
<1>7. Replace(t, <<g>>)
  BY <1>1, <1>3, PutForms DEF Go, f
<1>8. b = IF f.op = "end" \/ plugin.endsPending THEN "ends" ELSE "swap"
  OBVIOUS
<1>9. b \in {"ends", "swap"}
  OBVIOUS
<1> HIDE DEF b, g
<1>10. g.op = f.op /\ g.at = b /\ g \in Work
  BY <1>3, <1>4, <1>5, FinishMoves DEF g
<1>11. Always(plugin, mapped, history) /\ Working(f, <<>>, plugin, mapped, history)
         => Finishing(g, <<>>, plugin', mapped, history)
  <2>1. SUFFICES ASSUME Always(plugin, mapped, history),
                        Working(f, <<>>, plugin, mapped, history)
                 PROVE  Finishing(g, <<>>, plugin', mapped, history)
    OBVIOUS
  <2>2. Finishing(f, <<>>, plugin, mapped, history) /\ (f.op = "end" => plugin.endsPending)
    BY <1>3, <2>1, WorkFinishes
  <2>3. history.owed = plugin.journal /\ Due(plugin, history)
    BY <1>3, <2>2 DEF Finishing
  <2> QED BY <1>6, <1>8, <1>10, <2>1, <2>2, <2>3, DrainFinishes
<1>12. Goes(f, g, plugin, mapped, history, plugin', mapped, history)
  BY <1>3, <1>6, <1>9, <1>10, <1>11, FinishGoes
<1>13. mapped' \in BOOLEAN /\ Goes(f, g, plugin, mapped, history, plugin', mapped', history)
  BY <1>1, <1>3, <1>12
<1> QED BY <1>1, <1>2, <1>4, <1>5, <1>6, <1>7, <1>13, FinishChange DEF f, g

\* An unload begins to tear down.
LEMMA EntersRun ==
  ASSUME NEW st \in Stacks, NEW st2, NEW p, NEW p2, NEW m, NEW h, NEW h2, NEW t \in Threads,
         NEW g \in Frames, Run(st, p, m, h), Changed(st, st2, t, g),
         Head(st[t]).op = "unload", Head(st[t]).at = "unload",
         g.op = "unload", g.at \in {"drain", "ends", "swap"},
         g.at # "drain" => /\ p.inFlight = 0 /\ ~p2.endsPending /\ ~p2.deferredEnd
                           /\ g.at = IF p.endsPending THEN "ends" ELSE "swap",
         g.at = "drain" => p2.endsPending = p.endsPending /\ p2.deferredEnd = p.deferredEnd,
         ~p.teardown, p.state # "Unloaded", p2.teardown,
         p2.state \in {"Unloading", "Failed"}, p2.inFlight = p.inFlight,
         p2.module = p.module, p2.journal = p.journal,
         h2.owed = h.owed, h2.ends = h.ends, h2.active = h.active, h2.doubled = h.doubled,
         ~h2.cutShort =>
           /\ ~h.cutShort
           /\ \A x \in Where(st, Work) : Deep(st[x[1]], x[2]).op \notin {"start", "end"}
  PROVE  st2 \in Stacks /\ Run(st2, p2, m, h2)
<1> DEFINE f == Head(st[t])
<1>1. /\ st[t] # <<>> /\ f \in Frames /\ f.op = "unload" /\ f.at = "unload"
  BY TopFits DEF Changed, Run, Shaped
<1>2. /\ f \notin Flying /\ g \notin Flying /\ Keeps(f, g) /\ g \in Tearing /\ g \in Work
      /\ f \in Unloads /\ f \notin Work
  <2> HIDE DEF f
  <2>1. Keeps(f, g)
    BY <1>1 DEF Keeps
  <2> QED BY <1>1, <2>1, FlyingInvoke, WorkNotInvoke DEF Unloads
<1>3. st2 \in Stacks /\ Shaped(st2, p2) /\ Where(st2, Flying) = Where(st, Flying)
  BY <1>1, <1>2, ShapeChange DEF Run
<1>4. ASSUME ~h2.cutShort
      PROVE  Idle(st)
  <2>1. Where(st, Tearing) = {}
    BY <1>4, TornClean DEF Run
  <2>2. ASSUME NEW x \in Where(st, Work)
        PROVE  FALSE
    <3> DEFINE e == Deep(st[x[1]], x[2])
    <3>1. /\ x = <<x[1], x[2]>> /\ x[1] \in Threads /\ x[2] \in 1..Len(st[x[1]])
          /\ e \in Work
      BY WhereIn
    <3>2. x[2] \in Nat /\ e \in Frames
      <4>1. Len(st[x[1]]) \in Nat
        BY <3>1 DEF Stacks
      <4>2. x[2] \in Nat
        BY <3>1, <4>1
      <4> QED BY <3>1, <4>2 DEF Work, Tearing, Unloads
    <3>3. e.op \notin {"start", "end"}
      BY <1>4
    <3> HIDE DEF e
    <3>4. e \in Tearing
      BY <3>1, <3>2, <3>3, WorkNotInvoke
    <3>5. <<x[1], x[2]>> \in Where(st, Tearing)
      BY <3>1, <3>2, <3>4, WhereIn DEF e
    <3> QED BY <2>1, <3>5
  <2> QED BY <2>2 DEF Idle
<1>5. ASSUME ~h2.cutShort
      PROVE  Torn(st2, p2)
  <2>1. Idle(st) /\ Counted(st, p)
    BY <1>4, <1>5 DEF Run, Shaped
  <2> QED BY <1>2, <1>3, <2>1, TornEnter
<1>6. ASSUME ~h2.cutShort, ~h2.doubled
      PROVE  Good(st2, p2, m, h2)
  <2>1. Idle(st) /\ Good(st, p, m, h)
    BY <1>4, <1>6 DEF Run
  <2>2. Always(p, m, h) /\ Unloadable(st, p) /\ Resting(p, m, h)
    BY <2>1 DEF Good, Idle
  <2>3. Where(st, Unloads) # {}
    <3>1. <<t, Len(st[t])>> \in Where(st, Unloads)
      BY <1>1, <1>2, TopPlace
    <3> QED BY <3>1
  <2>4. p.state \in {"Unloading", "Failed"} /\ ~p.deferredEnd
    BY <2>2, <2>3 DEF Unloadable, Revoked
  <2>5. Sole(st2, <<t, Len(st[t])>>, g, <<>>)
    <3>1. Where(st, Work) \subseteq {<<t, Len(st[t])>>}
      BY <2>1 DEF Idle
    <3> QED BY <1>2, <3>1, MoveChange
  <2>6. ~p2.deferredEnd /\ (p2.endsPending => p.endsPending)
    BY <2>4
  <2>7. Always(p2, m, h2)
    BY <2>2, <2>6 DEF Always
  <2>8. Unloadable(st2, p2)
    BY <2>6 DEF Unloadable, Revoked
  <2>9. Finishing(g, <<>>, p2, m, h2)
    <3>1. h.owed = p.journal /\ Due(p, h)
      BY <2>2, <2>4 DEF Resting
    <3>2. CASE g.at = "drain"
      BY <3>1, <3>2 DEF Finishing, Due
    <3>3. CASE g.at # "drain"
      <4>1. Finishing(g, <<>>, p2, m, h)
        BY <2>2, <3>1, <3>3, DrainFinishes
      <4> QED BY <4>1 DEF Finishing, Came, Due
    <3> QED BY <3>2, <3>3
  <2>10. Working(g, <<>>, p2, m, h2)
    BY <2>6, <2>9 DEF Working, Unloading
  <2> QED BY <2>5, <2>7, <2>8, <2>10, GoodSole
<1> QED BY <1>3, <1>5, <1>6 DEF Run

LEMMA EnterUnloadRun ==
  ASSUME IInv, title = "running", NEW t \in Threads, EnterUnload(t)
  PROVE  IInv'
<1> DEFINE f == Top(t)
<1>1. At(t, "unload") /\ UNCHANGED <<mapped, title, starts>>
  BY DEF EnterUnload
<1>2. /\ stack \in Stacks /\ f = Head(stack[t]) /\ f \in Frames /\ f.at = "unload"
      /\ Placed(f) /\ stack[t] # <<>>
      /\ Run(stack, plugin, mapped, history)
  BY <1>1, AtTop
<1>3. plugin \in Plugin /\ history \in History /\ mapped \in BOOLEAN /\ starts \in Nat
  BY DEF IInv
<1>4. f.op = "unload" /\ f \notin Work
  <2> HIDE DEF f
  <2>1. f.op = "unload"
    BY <1>2 DEF Placed
  <2> QED BY <1>2, <2>1, WorkNotInvoke
<1>5. /\ f.todo \in Seq(Range(Inits)) /\ f.keep \in BOOLEAN
      /\ f.result \in {"true", "false", "invoked"}
  BY <1>2, FieldFacts
<1>6. CASE plugin.state = "Unloaded" \/ plugin.teardown
  <2>1. Pop(t) /\ plugin' = plugin /\ history' = history
    BY <1>6 DEF EnterUnload
  <2>2. Popped(stack, stack', t)
    BY <1>2, <2>1 DEF Pop, Popped
  <2> HIDE DEF f
  <2>3. stack' \in Stacks /\ Run(stack', plugin, mapped, history)
    BY <1>2, <1>4, <2>2, SameSelf, QuietPop
  <2> QED BY <1>1, <1>3, <2>1, <2>3, Running
<1>7. CASE plugin.state # "Unloaded" /\ ~plugin.teardown
  <2> DEFINE p == [plugin EXCEPT !.teardown = TRUE,
                                 !.state = IF f.keep THEN "Failed" ELSE "Unloading"]
  <2>1. /\ DrainOrWait(t, p)
        /\ history' = [history EXCEPT !.cutShort = @ \/ UnderWay({"start", "end"})]
    BY <1>7 DEF EnterUnload
  <2>2. /\ p \in Plugin /\ p.teardown /\ p.state \in {"Unloading", "Failed"}
        /\ p.inFlight = plugin.inFlight /\ p.module = plugin.module
        /\ p.journal = plugin.journal /\ p.endsPending = plugin.endsPending
        /\ p.deferredEnd = plugin.deferredEnd
    <3> DEFINE s == IF f.keep THEN "Failed" ELSE "Unloading"
    <3>1. s \in States /\ s \in {"Unloading", "Failed"}
      BY DEF States
    <3>2. p = [plugin EXCEPT !.teardown = TRUE, !.state = s]
      OBVIOUS
    <3> HIDE DEF s, p, f, States
    <3> QED BY <1>3, <3>1, <3>2 DEF Plugin
  <2> HIDE DEF p
  <2>3. /\ history' \in History /\ history'.owed = history.owed
        /\ history'.ends = history.ends /\ history'.active = history.active
        /\ history'.doubled = history.doubled
        /\ history'.cutShort <=> history.cutShort \/ UnderWay({"start", "end"})
    <3> DEFINE c == history.cutShort \/ UnderWay({"start", "end"})
    <3>1. history' = [history EXCEPT !.cutShort = c] /\ c \in BOOLEAN
      BY <1>3, <2>1 DEF History
    <3>2. c <=> history.cutShort \/ UnderWay({"start", "end"})
      OBVIOUS
    <3> HIDE DEF c
    <3> QED BY <1>3, <3>1, <3>2 DEF History
  <2>4. ~history'.cutShort =>
          /\ ~history.cutShort
          /\ \A x \in Where(stack, Work) : Deep(stack[x[1]], x[2]).op \notin {"start", "end"}
    BY <1>2, <2>3, UnderWayWhere
  <2>5. ASSUME NEW b \in {"drain", "ends", "swap"}, Go(t, b), plugin' \in Plugin,
               b # "drain" =>
                 /\ plugin.inFlight = 0 /\ ~plugin'.endsPending /\ ~plugin'.deferredEnd
                 /\ b = IF plugin.endsPending THEN "ends" ELSE "swap",
               b = "drain" => plugin'.endsPending = plugin.endsPending
                              /\ plugin'.deferredEnd = plugin.deferredEnd,
               plugin'.teardown, plugin'.state \in {"Unloading", "Failed"},
               plugin'.inFlight = plugin.inFlight, plugin'.module = plugin.module,
               plugin'.journal = plugin.journal
        PROVE  IInv'
    <3> DEFINE g == Put(f, b, f.todo, f.keep, f.result)
    <3>1. b \in FinishPlaces /\ Admits(f, b)
      BY <1>4 DEF FinishPlaces, EndPlaces, UnloadPlaces, Admits
    <3>2. Changed(stack, stack', t, g)
      BY <1>2, <2>5, PutForms DEF Go, Replace, Changed
    <3> HIDE DEF f, g
    <3>3. g \in Frames /\ g.op = "unload" /\ g.at = b
      BY <1>2, <1>4, <1>5, <3>1, FinishMoves DEF g
    <3>4. stack' \in Stacks /\ Run(stack', plugin', mapped, history')
      BY <1>2, <1>4, <1>7, <2>3, <2>4, <2>5, <3>2, <3>3, EntersRun
    <3> QED BY <1>1, <1>3, <2>3, <2>5, <3>4, Running
  <2>6. CASE plugin.inFlight = 0
    <3> DEFINE b == IF plugin.endsPending THEN "ends" ELSE "swap"
    <3>1. /\ plugin' = [p EXCEPT !.endsPending = FALSE, !.deferredEnd = FALSE]
          /\ Go(t, b)
      BY <1>4, <2>1, <2>2, <2>6 DEF DrainOrWait, Drain
    <3>2. /\ plugin' \in Plugin /\ plugin'.teardown /\ plugin'.state \in {"Unloading", "Failed"}
          /\ plugin'.inFlight = plugin.inFlight /\ plugin'.module = plugin.module
          /\ plugin'.journal = plugin.journal
          /\ ~plugin'.endsPending /\ ~plugin'.deferredEnd
      <4> HIDE DEF f, b
      <4> QED BY <2>2, <3>1 DEF Plugin
    <3>3. b \in {"drain", "ends", "swap"} /\ b # "drain"
      OBVIOUS
    <3> QED BY <2>5, <2>6, <3>1, <3>2, <3>3
  <2>7. CASE plugin.inFlight # 0
    <3>1. plugin' = p /\ Go(t, "drain")
      BY <2>1, <2>2, <2>7 DEF DrainOrWait
    <3> QED BY <2>2, <2>5, <3>1
  <2> QED BY <2>6, <2>7
<1> QED BY <1>6, <1>7

\* An application end or an unload goes on as c, which invokes a hook.
LEMMA FinishInvokes ==
  ASSUME NEW f, NEW c, NEW hook, NEW p, NEW m, NEW h, f.op \in {"end", "unload"}, c.op = f.op,
         c.at \in {"swap", "fini"},
         Always(p, m, h) /\ Working(f, <<>>, p, m, h) => Finishing(c, hook, p, m, h)
  PROVE  Invokes(f, c, hook, p, m, h)
<1> SUFFICES ASSUME NEW b \in BOOLEAN, Holds(f, p, m, h, b)
             PROVE  Working(c, hook, p, m, h)
  BY DEF Invokes
<1>1. Always(p, m, h) /\ Working(f, <<>>, p, m, h)
  BY DEF Holds
<1>2. Finishing(c, hook, p, m, h)
  BY <1>1
<1> QED BY <1>1, <1>2 DEF Working, Ending, Unloading

\* While an initializer is owed or the end is pending, teardown hooks are permitted.
LEMMA FinishPermitted ==
  ASSUME NEW f, NEW g, NEW p, NEW m, NEW h, NEW p2, NEW m2, NEW h2,
         f.op \in {"end", "unload"},
         ~(p.module /\ p.state \notin {"Installed", "Mapped", "Unloaded"}),
         Always(p, m, h) /\ Working(f, <<>>, p, m, h) => m
  PROVE  Goes(f, g, p, m, h, p2, m2, h2)
<1> SUFFICES ASSUME NEW b \in BOOLEAN, Holds(f, p, m, h, b)
             PROVE  FALSE
  BY DEF Goes
<1>1. Always(p, m, h) /\ Working(f, <<>>, p, m, h)
  BY DEF Holds
<1>2. m /\ p.module
  BY <1>1 DEF Always
<1>3. p.state \in {"Deinitialized", "Unloading", "Failed"}
  BY <1>1 DEF Working, Ending, Unloading
<1> QED BY <1>2, <1>3

\* What c is when an Invoke of it is refused or skipped.
LEMMA FinishResults ==
  ASSUME NEW f \in Frames, NEW a \in FinishPlaces, Admits(f, a), NEW q \in Seq(Range(Inits)),
         NEW r \in {"true", "false"}
  PROVE  LET c == Put(f, a, q, f.keep, f.result)
         IN /\ c \in Frames /\ c.op = f.op /\ c.at = a /\ c.todo = q
            /\ Resulted(c, r) \in Frames /\ Resulted(c, r).op = f.op
            /\ Resulted(c, r).at = a /\ Resulted(c, r).todo = q
            /\ Resulted(c, r) \in Work /\ Resulted(c, r).result = r
<1> DEFINE c == Put(f, a, q, f.keep, f.result)  g == Put(f, a, q, f.keep, r)
<1>1. /\ f.keep \in BOOLEAN /\ f.result \in {"true", "false", "invoked"}
      /\ r \in {"true", "false", "invoked"}
  BY FieldFacts
<1>2. Resulted(c, r) = g
  <2>1. f \in Fields
    BY DEF Frames
  <2> QED BY <2>1 DEF Fields, Put, Resulted
<1> HIDE DEF c, g
<1>3. c \in Frames /\ c.op = f.op /\ c.at = a /\ c.todo = q
  BY <1>1, FinishMoves DEF c
<1>4. g \in Frames /\ g.op = f.op /\ g.at = a /\ g.todo = q /\ g \in Work /\ g.result = r
  BY <1>1, FinishMoves DEF g
<1> QED BY <1>2, <1>3, <1>4 DEF c

LEMMA InvokeEndsRun ==
  ASSUME IInv, title = "running", NEW t \in Threads, InvokeEnds(t)
  PROVE  IInv'
<1> DEFINE f == Top(t)  c == Put(f, "swap", f.todo, f.keep, f.result)
<1>1. /\ At(t, "ends") /\ UNCHANGED <<mapped, title, starts, history>>
      /\ Invoke(t, [f EXCEPT !.at = "swap"], "end", TRUE)
  BY DEF InvokeEnds
<1>2. "ends" \in FinishPlaces /\ "swap" \in FinishPlaces
  BY DEF FinishPlaces, EndPlaces, UnloadPlaces
<1>3. f \in Frames /\ f.at = "ends" /\ f.op \in {"end", "unload"} /\ f \in Work
  BY <1>1, <1>2, AtFinish
<1>4. f.todo \in Seq(Range(Inits))
  BY <1>3, FieldFacts
<1>5. Admits(f, "swap")
  BY <1>3 DEF Admits, EndPlaces, UnloadPlaces
<1>6. [f EXCEPT !.at = "swap"] = c
  BY <1>3, PutForms
<1> HIDE DEF f
<1>7. /\ c \in Frames /\ c.op = f.op /\ c.at = "swap"
      /\ \A r \in {"true", "false"} :
           /\ Resulted(c, r) \in Frames /\ Resulted(c, r).op = f.op
           /\ Resulted(c, r).at = "swap" /\ Resulted(c, r) \in Work
  BY <1>2, <1>3, <1>4, <1>5, FinishResults
<1> HIDE DEF c
<1>8. Always(plugin, mapped, history) /\ Working(f, <<>>, plugin, mapped, history)
        => /\ mapped /\ history.ends = 0 /\ history.owed = plugin.journal
           /\ ~plugin.endsPending
  BY <1>3, WorkFinishes DEF Finishing
<1>9. ASSUME "end" \notin Hooks \cup Range(Inits)
      PROVE  Goes(f, Resulted(c, "true"), plugin, mapped, history, plugin, mapped, history)
  <2> DEFINE g == Resulted(c, "true")
  <2>1. g \in Work /\ g.op = f.op /\ g.at = "swap"
    BY <1>7
  <2> HIDE DEF g
  <2>2. Always(plugin, mapped, history) /\ Working(f, <<>>, plugin, mapped, history)
          => Finishing(g, <<>>, plugin, mapped, history)
    BY <1>8, <1>9, <2>1 DEF Finishing, Came
  <2>3. Goes(f, g, plugin, mapped, history, plugin, mapped, history)
    BY <1>3, <2>1, <2>2, FinishGoes
  <2> QED BY <2>3 DEF g
<1>10. ASSUME ~Permitted(TRUE)
       PROVE  Goes(f, Resulted(c, "false"), plugin, mapped, history, plugin, mapped, history)
  <2>1. ~(plugin.module /\ plugin.state \notin {"Installed", "Mapped", "Unloaded"})
    BY <1>10 DEF Permitted
  <2> QED BY <1>3, <1>8, <2>1, FinishPermitted
<1>11. Invokes(f, c, <<"end">>, plugin, mapped, history)
  <2>1. Always(plugin, mapped, history) /\ Working(f, <<>>, plugin, mapped, history)
          => Finishing(c, <<"end">>, plugin, mapped, history)
    <3>1. <<"end">> # <<>>
      OBVIOUS
    <3> QED BY <1>7, <1>8, <3>1 DEF Finishing
  <2> QED BY <1>3, <1>7, <2>1, FinishInvokes
<1>12. Invoke(t, c, "end", TRUE) /\ TRUE \in BOOLEAN
  BY <1>1, <1>6
<1> DEFINE hook == "end"  final == TRUE
<1>13. /\ Invoke(t, c, hook, final) /\ final \in BOOLEAN /\ hook = "end"
       /\ hook \notin Hooks \cup Range(Inits) =>
            Goes(f, Resulted(c, "true"), plugin, mapped, history, plugin, mapped, history)
       /\ ~Permitted(final) =>
            Goes(f, Resulted(c, "false"), plugin, mapped, history, plugin, mapped, history)
       /\ Invokes(f, c, IF final THEN <<hook>> ELSE <<>>, plugin, mapped, history)
  BY <1>9, <1>10, <1>11, <1>12
<1>14. c.at = "swap" /\ final /\ hook = "end"
  BY <1>7
<1> HIDE DEF hook, final
<1> QED BY <1>1, <1>3, <1>7, <1>13, <1>14, StepInvoke DEF f

LEMMA ReverseMirrors ==
  ASSUME NEW S, NEW q \in Seq(S)
  PROVE  Reverse(q) \in Seq(S) /\ Mirrors(q, Reverse(q), <<>>)
<1> DEFINE n == Len(q)
<1>1. n \in Nat /\ \A i \in 1..n : q[i] \in S
  OBVIOUS
<1>2. Reverse(q) = [i \in 1..n |-> q[(n - i) + 1]]
  BY DEF Reverse
<1>3. \A i \in 1..n : (n - i) + 1 \in 1..n
  BY <1>1
<1>4. Reverse(q) \in Seq(S) /\ Len(Reverse(q)) = n
  BY <1>1, <1>2, <1>3
<1>5. \A i \in 1..n : Reverse(q)[i] = q[n + 1 - i]
  <2>1. \A i \in 1..n : (n - i) + 1 = n + 1 - i
    BY <1>1
  <2> QED BY <1>2, <2>1
<1> QED BY <1>4, <1>5 DEF Mirrors

LEMMA TakeJournalRun ==
  ASSUME IInv, title = "running", NEW t \in Threads, TakeJournal(t)
  PROVE  IInv'
<1> DEFINE f == Top(t)  q == Reverse(plugin.journal)
           g == Put(f, "fini", q, f.keep, f.result)
<1>1. /\ At(t, "swap") /\ UNCHANGED <<mapped, title, starts, history>>
      /\ plugin' = [plugin EXCEPT !.journal = <<>>]
      /\ Replace(t, <<[f EXCEPT !.at = "fini", !.todo = q]>>)
  BY DEF TakeJournal
<1>2. "swap" \in FinishPlaces /\ "fini" \in FinishPlaces
  BY DEF FinishPlaces, EndPlaces, UnloadPlaces
<1>3. /\ f \in Frames /\ f.at = "swap" /\ f.op \in {"end", "unload"}
      /\ plugin \in Plugin /\ history \in History /\ mapped \in BOOLEAN
  BY <1>1, <1>2, AtFinish
<1>4. f.keep \in BOOLEAN /\ f.result \in {"true", "false", "invoked"}
  BY <1>3, FieldFacts
<1>5. Admits(f, "fini")
  BY <1>3 DEF Admits, EndPlaces, UnloadPlaces
<1>6. q \in Seq(Range(Inits)) /\ Mirrors(plugin.journal, q, <<>>)
  BY <1>3, PluginUpdates, ReverseMirrors
<1> HIDE DEF q
<1>7. Replace(t, <<g>>)
  BY <1>1, <1>3, PutForms
<1> HIDE DEF f
<1>8. /\ plugin' \in Plugin
      /\ plugin'.state = plugin.state /\ plugin'.module = plugin.module
      /\ plugin'.deferredUnload = plugin.deferredUnload
      /\ plugin'.transition = plugin.transition /\ plugin'.teardown = plugin.teardown
      /\ plugin'.journal = <<>> /\ plugin'.inFlight = plugin.inFlight
      /\ plugin'.endsPending = plugin.endsPending
      /\ plugin'.deferredEnd = plugin.deferredEnd
  <2>1. <<>> \in Seq(Range(Inits))
    OBVIOUS
  <2> QED BY <1>1, <1>3, <2>1 DEF Plugin
<1>9. g.op = f.op /\ g.at = "fini" /\ g.todo = q /\ g \in Work
  BY <1>2, <1>3, <1>4, <1>5, <1>6, FinishMoves
<1> HIDE DEF g
<1>10. Always(plugin, mapped, history) /\ Working(f, <<>>, plugin, mapped, history)
         => Finishing(g, <<>>, plugin', mapped, history)
  <2>1. SUFFICES ASSUME Always(plugin, mapped, history),
                        Working(f, <<>>, plugin, mapped, history)
                 PROVE  Finishing(g, <<>>, plugin', mapped, history)
    OBVIOUS
  <2>2. Finishing(f, <<>>, plugin, mapped, history)
    BY <1>3, <2>1, WorkFinishes
  <2>3. history.owed = plugin.journal /\ Came(history) /\ ~plugin.endsPending
    BY <1>3, <2>2 DEF Finishing
  <2>4. Mirrors(history.owed, g.todo, <<>>)
    BY <1>6, <1>9, <2>3
  <2> QED BY <1>8, <1>9, <2>3, <2>4 DEF Finishing
<1>11. Goes(f, g, plugin, mapped, history, plugin', mapped, history)
  BY <1>3, <1>8, <1>9, <1>10, FinishGoes
<1>12. mapped' \in BOOLEAN /\ Goes(f, g, plugin, mapped, history, plugin', mapped', history)
  BY <1>1, <1>3, <1>11
<1> QED BY <1>1, <1>2, <1>4, <1>5, <1>6, <1>7, <1>8, <1>12, FinishChange DEF f, g

\* One finalizer less is to come.
LEMMA FiniMirrors ==
  ASSUME NEW S, NEW q \in Seq(S), NEW d \in Seq(S), d # <<>>, Mirrors(q, d, <<>>)
  PROVE  q # <<>> /\ Head(d) \in S /\ Tail(d) \in Seq(S) /\ Mirrors(q, Tail(d), <<Head(d)>>)
<1> DEFINE n == Len(d)  e == Tail(d)
<1>1. /\ n \in Nat \ {0} /\ e \in Seq(S) /\ Len(e) = n - 1
      /\ \A i \in 1..(n - 1) : e[i] = d[i + 1]
      /\ Head(d) = d[1] /\ Head(d) \in S
  OBVIOUS
<1>2. Len(q) = n + Len(<<>>) /\ \A i \in 1..n : d[i] = q[n + 1 - i]
  BY DEF Mirrors
<1>3. Len(q) = n /\ q # <<>>
  BY <1>1, <1>2
<1> HIDE DEF n, e
<1>4. \A i \in 1..(n - 1) : e[i] = q[(n - 1) + 1 - i]
  <2>1. ASSUME NEW i \in 1..(n - 1)
        PROVE  e[i] = q[(n - 1) + 1 - i]
    <3>1. i + 1 \in 1..n /\ n + 1 - (i + 1) = (n - 1) + 1 - i
      BY <1>1
    <3> QED BY <1>1, <1>2, <3>1
  <2> QED BY <2>1
<1>5. d[1] = q[(n - 1) + 1]
  <2>1. 1 \in 1..n /\ n + 1 - 1 = (n - 1) + 1
    BY <1>1
  <2> QED BY <1>2, <2>1
<1>6. Len(<<Head(d)>>) = 1 /\ <<Head(d)>>[1] = Head(d)
  OBVIOUS
<1>7. Mirrors(q, e, <<Head(d)>>)
  BY <1>1, <1>3, <1>4, <1>5, <1>6 DEF Mirrors
<1> QED BY <1>1, <1>3, <1>7 DEF e

LEMMA InvokeFiniRun ==
  ASSUME IInv, title = "running", NEW t \in Threads, InvokeFini(t)
  PROVE  IInv'
<1> DEFINE f == Top(t)
<1>1. At(t, "fini") /\ UNCHANGED <<mapped, title, starts, history>>
  BY DEF InvokeFini
<1>2. "fini" \in FinishPlaces /\ "backend" \in FinishPlaces
  BY DEF FinishPlaces, EndPlaces, UnloadPlaces
<1>3. /\ f \in Frames /\ f.at = "fini" /\ f.op \in {"end", "unload"} /\ f \in Work
      /\ plugin \in Plugin /\ history \in History /\ mapped \in BOOLEAN
  BY <1>1, <1>2, AtFinish
<1>4. /\ f.todo \in Seq(Range(Inits)) /\ f.keep \in BOOLEAN
      /\ f.result \in {"true", "false", "invoked"}
  BY <1>3, FieldFacts
<1>5. Admits(f, "fini") /\ Admits(f, "backend")
  BY <1>3 DEF Admits, EndPlaces, UnloadPlaces
<1>6. Always(plugin, mapped, history) /\ Working(f, <<>>, plugin, mapped, history)
        => /\ Mirrors(history.owed, f.todo, <<>>)
           /\ plugin.journal = <<>> /\ Came(history) /\ ~plugin.endsPending
  BY <1>3, WorkFinishes DEF Finishing
<1>o. history.owed \in Seq(Range(Inits))
  BY <1>3 DEF History
<1>7. CASE f.todo = <<>>
  <2> DEFINE g == Put(f, "backend", f.todo, f.keep, f.result)
  <2>1. Go(t, "backend") /\ plugin' = plugin
    BY <1>7 DEF InvokeFini
  <2>2. Replace(t, <<g>>)
    BY <1>3, <2>1, PutForms DEF Go
  <2> HIDE DEF f
  <2>3. g.op = f.op /\ g.at = "backend" /\ g \in Work
    BY <1>2, <1>3, <1>4, <1>5, FinishMoves
  <2> HIDE DEF g
  <2>4. Mirrors(history.owed, f.todo, <<>>) => history.owed = <<>>
    <3>1. Mirrors(history.owed, f.todo, <<>>) => Len(history.owed) = 0
      BY <1>7 DEF Mirrors
    <3> QED BY <1>o, <3>1
  <2>5. Always(plugin, mapped, history) /\ Working(f, <<>>, plugin, mapped, history)
          => Finishing(g, <<>>, plugin, mapped, history)
    BY <1>6, <2>3, <2>4 DEF Finishing
  <2>6. Goes(f, g, plugin, mapped, history, plugin, mapped, history)
    BY <1>3, <2>3, <2>5, FinishGoes
  <2>7. /\ mapped' \in BOOLEAN /\ plugin' \in Plugin
        /\ Goes(f, g, plugin, mapped, history, plugin', mapped', history)
    BY <1>1, <1>3, <2>1, <2>6
  <2>8. f = Top(t) /\ g = Put(f, "backend", f.todo, f.keep, f.result)
    BY DEF f, g
  <2> QED BY <1>1, <1>2, <1>4, <1>5, <2>1, <2>2, <2>7, <2>8, FinishChange
<1>8. CASE f.todo # <<>>
  <2> DEFINE q == Tail(f.todo)  hook == Head(f.todo)  final == TRUE
             c == Put(f, "fini", q, f.keep, f.result)
  <2>1. Invoke(t, [f EXCEPT !.todo = q], hook, final)
    BY <1>8 DEF InvokeFini
  <2>2. [f EXCEPT !.todo = q] = c
    BY <1>3, PutForms
  <2>3. q \in Seq(Range(Inits)) /\ hook \in Range(Inits)
    BY <1>4, <1>8
  <2> HIDE DEF f, q
  <2>4. /\ c \in Frames /\ c.op = f.op /\ c.at = "fini" /\ c.todo = q
        /\ \A r \in {"true", "false"} :
             /\ Resulted(c, r) \in Frames /\ Resulted(c, r).op = f.op
             /\ Resulted(c, r).at = "fini"
    BY <1>2, <1>3, <1>5, <2>3, FinishResults
  <2> HIDE DEF c, hook
  <2>5. Always(plugin, mapped, history) /\ Working(f, <<>>, plugin, mapped, history)
          => /\ Mirrors(history.owed, q, <<hook>>) /\ mapped
             /\ plugin.journal = <<>> /\ Came(history) /\ ~plugin.endsPending
    <3>1. SUFFICES ASSUME Always(plugin, mapped, history),
                          Working(f, <<>>, plugin, mapped, history)
                   PROVE  Mirrors(history.owed, q, <<hook>>) /\ mapped
      BY <1>6
    <3>2. Mirrors(history.owed, f.todo, <<>>)
      BY <1>6, <3>1
    <3>3. history.owed # <<>> /\ Mirrors(history.owed, q, <<hook>>)
      BY <1>4, <1>8, <1>o, <3>2, FiniMirrors DEF q, hook
    <3> QED BY <3>1, <3>3 DEF Always
  <2>6. ~Permitted(final) =>
          Goes(f, Resulted(c, "false"), plugin, mapped, history, plugin, mapped, history)
    <3>1. SUFFICES ASSUME ~Permitted(final)
                   PROVE  Goes(f, Resulted(c, "false"), plugin, mapped, history,
                               plugin, mapped, history)
      OBVIOUS
    <3>2. ~(plugin.module /\ plugin.state \notin {"Installed", "Mapped", "Unloaded"})
      BY <3>1 DEF Permitted
    <3> QED BY <1>3, <2>5, <3>2, FinishPermitted
  <2>7. Invokes(f, c, IF final THEN <<hook>> ELSE <<>>, plugin, mapped, history)
    <3>1. Always(plugin, mapped, history) /\ Working(f, <<>>, plugin, mapped, history)
            => Finishing(c, <<hook>>, plugin, mapped, history)
      BY <2>4, <2>5 DEF Finishing
    <3>2. Invokes(f, c, <<hook>>, plugin, mapped, history)
      BY <1>3, <2>4, <3>1, FinishInvokes
    <3> QED BY <3>2
  <2>8. Invoke(t, c, hook, final) /\ final \in BOOLEAN /\ final
        /\ hook \in Hooks \cup Range(Inits)
    BY <2>1, <2>2, <2>3
  <2> HIDE DEF final
  <2> QED BY <1>1, <1>3, <2>3, <2>4, <2>6, <2>7, <2>8, StepInvoke DEF f
<1> QED BY <1>7, <1>8

-----------------------------------------------------------------------------
\* After the finalizers

LatePlaces == {"backend", "deactivating", "ended", "release", "releasing", "unmap",
               "unloaded"}

LEMMA LateFacts ==
  ASSUME NEW f, NEW p, NEW m, NEW h, f.op \in {"end", "unload"}, f.at \in LatePlaces,
         Working(f, <<>>, p, m, h)
  PROVE  ~p.endsPending /\ p.journal = <<>> /\ Came(h) /\ h.owed = <<>>
<1>1. Finishing(f, <<>>, p, m, h)
  BY WorkFinishes
<1> QED BY <1>1 DEF Finishing, LatePlaces

LEMMA LateGoes ==
  ASSUME NEW f, NEW g, g \in Work, NEW p, NEW p2, NEW m, NEW h,
         f.op \in {"end", "unload"}, g.op = f.op, f.at \in LatePlaces, g.at \in LatePlaces,
         p2.state = p.state, p2.module = p.module, p2.deferredUnload = p.deferredUnload,
         p2.transition = p.transition, p2.journal = p.journal,
         p2.endsPending = p.endsPending, p2.deferredEnd = p.deferredEnd,
         g.at = "unloaded" /\ g.result = "true" => ~m
  PROVE  Goes(f, g, p, m, h, p2, m, h)
<1>1. Working(f, <<>>, p, m, h) => Finishing(g, <<>>, p2, m, h)
  BY LateFacts DEF Finishing, LatePlaces
<1>2. g.at \notin {"end", "drain"}
  BY DEF LatePlaces
<1> QED BY <1>1, <1>2, FinishGoes

LEMMA LateRun ==
  ASSUME IInv, title = "running", NEW t \in Threads, NEW a \in LatePlaces, At(t, a),
         NEW b \in LatePlaces, Admits(Top(t), b), NEW k \in BOOLEAN,
         NEW r \in {"true", "false", "invoked"},
         Replace(t, <<Put(Top(t), b, Top(t).todo, k, r)>>), b = "unloaded" => r = "false",
         plugin' \in Plugin, plugin'.inFlight = plugin.inFlight,
         plugin'.teardown = plugin.teardown, plugin'.state = plugin.state,
         plugin'.module = plugin.module, plugin'.deferredUnload = plugin.deferredUnload,
         plugin'.transition = plugin.transition, plugin'.journal = plugin.journal,
         plugin'.endsPending = plugin.endsPending, plugin'.deferredEnd = plugin.deferredEnd,
         UNCHANGED <<mapped, title, starts, history>>
  PROVE  IInv'
<1> DEFINE f == Top(t)  q == f.todo  g == Put(f, b, q, k, r)
<1>1. /\ a \in FinishPlaces /\ b \in FinishPlaces /\ a # "drain" /\ b # "end" /\ b # "drain"
  BY DEF LatePlaces, FinishPlaces, EndPlaces, UnloadPlaces
<1>2. /\ f \in Frames /\ f.at = a /\ f.op \in {"end", "unload"} /\ mapped \in BOOLEAN
  BY <1>1, AtFinish
<1>3. q \in Seq(Range(Inits))
  BY <1>2, FieldFacts
<1>4. Admits(f, b) /\ Replace(t, <<g>>)
  OBVIOUS
<1> HIDE DEF f, q
<1>5. g.op = f.op /\ g.at = b /\ g \in Work /\ g.result = r
  BY <1>1, <1>2, <1>3, <1>4, FinishMoves
<1> HIDE DEF g
<1>6. Goes(f, g, plugin, mapped, history, plugin', mapped, history)
  BY <1>2, <1>5, LateGoes
<1>7. mapped' \in BOOLEAN /\ Goes(f, g, plugin, mapped, history, plugin', mapped', history)
  BY <1>2, <1>6
<1> QED BY <1>1, <1>3, <1>4, <1>7, FinishChange DEF f, g

\* At a late place; q, k and r are what the frame has.
LEMMA AtLate ==
  ASSUME IInv, title = "running", NEW t \in Threads, NEW a \in LatePlaces, At(t, a)
  PROVE  /\ stack \in Stacks /\ stack[t] # <<>> /\ Top(t) = Head(stack[t]) /\ Top(t) \in Frames
         /\ Top(t).at = a /\ Top(t).op \in {"end", "unload"} /\ Top(t) \in Work
         /\ Top(t).keep \in BOOLEAN /\ Top(t).result \in {"true", "false", "invoked"}
         /\ Top(t).op = "end" => a \in {"backend", "deactivating", "ended"}
         /\ Top(t).op = "unload" => a # "ended"
         /\ plugin \in Plugin /\ history \in History /\ mapped \in BOOLEAN
<1> DEFINE f == Top(t)
<1>1. a \in FinishPlaces
  BY DEF LatePlaces, FinishPlaces, EndPlaces, UnloadPlaces
<1>2. /\ stack \in Stacks /\ stack[t] # <<>> /\ f = Head(stack[t]) /\ f \in Frames
      /\ f.at = a /\ f.op \in {"end", "unload"} /\ f \in Work
      /\ f.op = "end" => a \in EndPlaces
      /\ f.op = "unload" => a \in UnloadPlaces
      /\ plugin \in Plugin /\ history \in History /\ mapped \in BOOLEAN
  BY <1>1, AtFinish
<1>3. f.keep \in BOOLEAN /\ f.result \in {"true", "false", "invoked"}
  BY <1>2, FieldFacts
<1> HIDE DEF f
<1>4. /\ f.op = "end" => a \in {"backend", "deactivating", "ended"}
      /\ f.op = "unload" => a # "ended"
  BY <1>2 DEF LatePlaces, EndPlaces, UnloadPlaces
<1> QED BY <1>2, <1>3, <1>4 DEF f

\* Go to a late place.
LEMMA LateGo ==
  ASSUME IInv, title = "running", NEW t \in Threads, NEW a \in LatePlaces, At(t, a),
         NEW b \in LatePlaces, Admits(Top(t), b), b # "unloaded", Go(t, b),
         plugin' \in Plugin, plugin'.inFlight = plugin.inFlight,
         plugin'.teardown = plugin.teardown, plugin'.state = plugin.state,
         plugin'.module = plugin.module, plugin'.deferredUnload = plugin.deferredUnload,
         plugin'.transition = plugin.transition, plugin'.journal = plugin.journal,
         plugin'.endsPending = plugin.endsPending, plugin'.deferredEnd = plugin.deferredEnd,
         UNCHANGED <<mapped, title, starts, history>>
  PROVE  IInv'
<1> DEFINE k == Top(t).keep  r == Top(t).result
<1>1. Top(t) \in Frames /\ k \in BOOLEAN /\ r \in {"true", "false", "invoked"}
  BY AtLate
<1>2. Replace(t, <<Put(Top(t), b, Top(t).todo, k, r)>>)
  BY <1>1, PutForms DEF Go
<1> HIDE DEF k, r
<1> QED BY <1>1, <1>2, LateRun

LEMMA DeactivateRun ==
  ASSUME IInv, title = "running", NEW t \in Threads, Deactivate(t)
  PROVE  IInv'
<1> DEFINE f == Top(t)
           b == IF ~plugin.deactivated THEN "deactivating"
                ELSE IF f.op = "end" THEN "ended" ELSE "release"
<1>1. /\ At(t, "backend") /\ Go(t, b) /\ UNCHANGED <<plugin, mapped, title, starts, history>>
  BY DEF Deactivate
<1>2. "backend" \in LatePlaces /\ b \in LatePlaces /\ b # "unloaded"
  BY DEF LatePlaces
<1>3. f.op \in {"end", "unload"} /\ plugin \in Plugin
  BY <1>1, <1>2, AtLate
<1>4. Admits(f, b)
  BY <1>3 DEF Admits, EndPlaces, UnloadPlaces
<1>5. plugin' = plugin
  BY <1>1
<1> HIDE DEF b
<1> QED BY <1>1, <1>2, <1>3, <1>4, <1>5, LateGo

LEMMA ReleaseRun ==
  ASSUME IInv, title = "running", NEW t \in Threads, Release(t)
  PROVE  IInv'
<1> DEFINE f == Top(t)  b == IF plugin.released THEN "unmap" ELSE "releasing"
<1>1. /\ At(t, "release") /\ Go(t, b) /\ UNCHANGED <<plugin, mapped, title, starts, history>>
  BY DEF Release
<1>2. "release" \in LatePlaces /\ b \in LatePlaces /\ b # "unloaded"
  BY DEF LatePlaces
<1>3. f.op = "unload" /\ plugin \in Plugin
  BY <1>1, <1>2, AtLate
<1>4. Admits(f, b)
  BY <1>3 DEF Admits, UnloadPlaces
<1>5. plugin' = plugin
  BY <1>1
<1> HIDE DEF b
<1> QED BY <1>1, <1>2, <1>3, <1>4, <1>5, LateGo

\* The work is over: nothing is owed.
LEMMA LateRests ==
  ASSUME NEW f, NEW p, NEW p2, NEW m, NEW h, NEW b, NEW b2, Holds(f, p, m, h, b),
         f.op \in {"end", "unload"}, f.at \in LatePlaces,
         b2 => b \/ p.deferredUnload,
         \/ p2.state \in {"Failed", "Unloaded"}
         \/ /\ f.op = "end"
            /\ p.state \in {"Deinitialized", "Unloading"} => p2.state = p.state,
         p2.deferredUnload => p.deferredUnload, p2.journal = p.journal, m => p2.module,
         p2.endsPending = p.endsPending, p2.deferredEnd = p.deferredEnd
  PROVE  Rests(p2, m, h, b2)
<1>1. Always(p, m, h) /\ Orders(p, b) /\ Working(f, <<>>, p, m, h)
  BY DEF Holds
<1>2. ~p.endsPending /\ p.journal = <<>> /\ Came(h) /\ h.owed = <<>>
  BY <1>1, LateFacts
<1>3. ~p.deferredEnd
  BY <1>1, <1>2 DEF Always
<1>4. Always(p2, m, h)
  BY <1>1, <1>2, <1>3 DEF Always
<1>5. Due(p2, h)
  BY <1>2 DEF Came, Due
<1>6. CASE p2.state \in {"Failed", "Unloaded"}
  <2>1. Orders(p2, b2)
    BY <1>3, <1>6 DEF Orders, Revoked
  <2>2. Resting(p2, m, h)
    BY <1>2, <1>5, <1>6 DEF Resting, Revoked
  <2> QED BY <1>4, <2>1, <2>2 DEF Rests
<1>7. CASE /\ f.op = "end"
           /\ p.state \in {"Deinitialized", "Unloading"} => p2.state = p.state
  <2>1. p.state \in {"Deinitialized", "Unloading"} /\ m /\ p2.state = p.state
    BY <1>1, <1>7 DEF Working, Ending
  <2>2. Orders(p2, b2)
    BY <1>1, <1>3, <2>1 DEF Orders, Revoked
  <2>3. Resting(p2, m, h)
    BY <1>2, <1>5, <2>1 DEF Resting, Revoked
  <2> QED BY <1>4, <2>2, <2>3 DEF Rests
<1> QED BY <1>6, <1>7

LEMMA UnloadFailsRun ==
  ASSUME IInv, title = "running", NEW t \in Threads, NEW a \in LatePlaces, At(t, a),
         UnloadFails(t), UNCHANGED <<mapped, title, starts, history>>
  PROVE  IInv'
<1> DEFINE f == Top(t)
<1>1. /\ f.at = a /\ f.op \in {"end", "unload"} /\ f \in Work
      /\ plugin \in Plugin /\ history \in History /\ mapped \in BOOLEAN
  BY AtLate
<1>2. /\ plugin' = [plugin EXCEPT !.teardown = FALSE, !.deferredUnload = FALSE,
                                  !.transition = FALSE, !.state = "Failed"]
      /\ Pop(t)
  BY DEF UnloadFails
<1>3. /\ plugin' \in Plugin /\ plugin'.inFlight = plugin.inFlight
      /\ plugin'.state = "Failed" /\ ~plugin'.deferredUnload
      /\ plugin'.journal = plugin.journal /\ plugin'.module = plugin.module
      /\ plugin'.endsPending = plugin.endsPending
      /\ plugin'.deferredEnd = plugin.deferredEnd
  <2>1. "Failed" \in States
    BY DEF States
  <2> HIDE DEF States, f
  <2> QED BY <1>1, <1>2, <2>1 DEF Plugin
<1> HIDE DEF f
<1>4. Stops(f, plugin, mapped, history, plugin', mapped, history)
  <2>1. SUFFICES ASSUME NEW b \in BOOLEAN, NEW b2 \in BOOLEAN,
                        Holds(f, plugin, mapped, history, b), b2 => b
                 PROVE  Rests(plugin', mapped, history, b2)
    BY DEF Stops
  <2>2. mapped => plugin'.module
    BY <1>3, <2>1 DEF Holds, Always
  <2> QED BY <1>1, <1>3, <2>1, <2>2, LateRests
<1>5. /\ mapped' \in BOOLEAN /\ history' \in History /\ history' = history
      /\ Stops(f, plugin, mapped, history, plugin', mapped', history')
  BY <1>1, <1>4
<1> QED BY <1>1, <1>2, <1>3, <1>5, StepPop DEF f

LEMMA DeactivatedRun ==
  ASSUME IInv, title = "running", NEW t \in Threads, Deactivated(t)
  PROVE  IInv'
<1> DEFINE f == Top(t)  b == IF f.op = "end" THEN "ended" ELSE "release"
<1>1. At(t, "deactivating") /\ UNCHANGED <<mapped, title, starts, history>>
  BY DEF Deactivated
<1>2. "deactivating" \in LatePlaces /\ b \in LatePlaces /\ b # "unloaded" /\ "ended" \in LatePlaces
  BY DEF LatePlaces
<1>3. /\ f \in Frames /\ f.op \in {"end", "unload"} /\ plugin \in Plugin
      /\ f.result \in {"true", "false", "invoked"}
  BY <1>1, <1>2, AtLate
<1>4. Admits(f, b)
  BY <1>3 DEF Admits, EndPlaces, UnloadPlaces
<1>5. CASE plugin' = [plugin EXCEPT !.deactivated = TRUE] /\ Go(t, b)
  <2>1. /\ plugin' \in Plugin /\ plugin'.inFlight = plugin.inFlight
        /\ plugin'.teardown = plugin.teardown /\ plugin'.state = plugin.state
        /\ plugin'.module = plugin.module /\ plugin'.deferredUnload = plugin.deferredUnload
        /\ plugin'.transition = plugin.transition /\ plugin'.journal = plugin.journal
        /\ plugin'.endsPending = plugin.endsPending
        /\ plugin'.deferredEnd = plugin.deferredEnd
    <3> HIDE DEF b, f
    <3> QED BY <1>3, <1>5 DEF Plugin
  <2> HIDE DEF b
  <2> QED BY <1>1, <1>2, <1>4, <1>5, <2>1, LateGo
<1>6. CASE f.op = "end" /\ Replace(t, <<[f EXCEPT !.at = "ended", !.keep = TRUE]>>)
           /\ UNCHANGED plugin
  <2> DEFINE k == TRUE  r == f.result
  <2>1. Admits(f, "ended") /\ k \in BOOLEAN /\ r \in {"true", "false", "invoked"}
    BY <1>3, <1>6 DEF Admits, EndPlaces
  <2>2. Replace(t, <<Put(f, "ended", f.todo, k, r)>>)
    BY <1>3, <1>6, PutForms
  <2>3. plugin' = plugin
    BY <1>6
  <2> HIDE DEF k, r
  <2> QED BY <1>1, <1>2, <1>3, <2>1, <2>2, <2>3, LateRun
<1>7. CASE UnloadFails(t)
  BY <1>1, <1>2, <1>7, UnloadFailsRun
<1>8. \/ plugin' = [plugin EXCEPT !.deactivated = TRUE] /\ Go(t, b)
      \/ f.op = "end" /\ Replace(t, <<[f EXCEPT !.at = "ended", !.keep = TRUE]>>)
         /\ UNCHANGED plugin
      \/ UnloadFails(t)
  BY DEF Deactivated
<1> QED BY <1>5, <1>6, <1>7, <1>8

LEMMA ReleasedRun ==
  ASSUME IInv, title = "running", NEW t \in Threads, Released(t)
  PROVE  IInv'
<1> DEFINE f == Top(t)
<1>1. At(t, "releasing") /\ UNCHANGED <<mapped, title, starts, history>>
  BY DEF Released
<1>2. "releasing" \in LatePlaces /\ "unmap" \in LatePlaces
  BY DEF LatePlaces
<1>3. f.op = "unload" /\ plugin \in Plugin
  BY <1>1, <1>2, AtLate
<1>4. Admits(f, "unmap")
  BY <1>3 DEF Admits, UnloadPlaces
<1>5. CASE plugin' = [plugin EXCEPT !.released = TRUE] /\ Go(t, "unmap")
  <2>1. /\ plugin' \in Plugin /\ plugin'.inFlight = plugin.inFlight
        /\ plugin'.teardown = plugin.teardown /\ plugin'.state = plugin.state
        /\ plugin'.module = plugin.module /\ plugin'.deferredUnload = plugin.deferredUnload
        /\ plugin'.transition = plugin.transition /\ plugin'.journal = plugin.journal
        /\ plugin'.endsPending = plugin.endsPending
        /\ plugin'.deferredEnd = plugin.deferredEnd
    BY <1>3, <1>5 DEF Plugin
  <2> QED BY <1>1, <1>2, <1>4, <1>5, <2>1, LateGo
<1>6. CASE UnloadFails(t)
  BY <1>1, <1>2, <1>6, UnloadFailsRun
<1> QED BY <1>5, <1>6 DEF Released

LEMMA UnmapRun ==
  ASSUME IInv, title = "running", NEW t \in Threads, Unmap(t)
  PROVE  IInv'
<1> DEFINE f == Top(t)  q == f.todo  k == f.keep
<1>1. At(t, "unmap") /\ UNCHANGED <<plugin, title, starts, history>>
  BY DEF Unmap
<1>2. "unmap" \in LatePlaces /\ "unloaded" \in LatePlaces
  BY DEF LatePlaces
<1>3. /\ f \in Frames /\ f.at = "unmap" /\ f.op = "unload" /\ plugin \in Plugin
      /\ mapped \in BOOLEAN /\ k \in BOOLEAN
  BY <1>1, <1>2, AtLate
<1>4. Admits(f, "unloaded")
  BY <1>3 DEF Admits, UnloadPlaces
<1>5. q \in Seq(Range(Inits))
  BY <1>3, FieldFacts
<1>6. plugin' = plugin
  BY <1>1
<1>7. ASSUME NEW r \in {"true", "false"},
             Replace(t, <<[f EXCEPT !.at = "unloaded", !.result = r]>>)
      PROVE  Replace(t, <<Put(f, "unloaded", q, k, r)>>)
  <2>1. f \in Fields
    BY <1>3 DEF Frames
  <2> HIDE DEF f
  <2>2. [f EXCEPT !.at = "unloaded", !.result = r] = Put(f, "unloaded", q, k, r)
    BY <2>1 DEF Fields, Put
  <2> QED BY <1>7, <2>2
<1>8. CASE /\ plugin.module => mapped /\ ~Leased
           /\ mapped' = (mapped /\ ~plugin.module)
           /\ Replace(t, <<[f EXCEPT !.at = "unloaded", !.result = "true"]>>)
  <2> DEFINE r == "true"  g == Put(f, "unloaded", q, k, r)
  <2>1. Replace(t, <<g>>) /\ r \in {"true", "false", "invoked"}
    BY <1>7, <1>8
  <2>2. "unloaded" \in FinishPlaces /\ "unmap" \in FinishPlaces
    BY DEF FinishPlaces, UnloadPlaces
  <2> HIDE DEF f, q, k
  <2>3. g.op = "unload" /\ g.at = "unloaded" /\ g \in Work
    BY <1>3, <1>4, <1>5, <2>1, <2>2, FinishMoves
  <2> HIDE DEF g, r
  <2>4. Goes(f, g, plugin, mapped, history, plugin, mapped', history)
    <3>1. SUFFICES ASSUME NEW b \in BOOLEAN, NEW b2 \in BOOLEAN,
                          Holds(f, plugin, mapped, history, b), b2 => b \/ g.op = "unload"
                   PROVE  /\ Always(plugin, mapped', history) /\ Orders(plugin, b2)
                          /\ Working(g, <<>>, plugin, mapped', history)
      BY <2>3 DEF Goes
    <3>2. /\ Always(plugin, mapped, history) /\ Orders(plugin, b)
          /\ Working(f, <<>>, plugin, mapped, history) /\ b
      BY <1>3, <3>1 DEF Holds
    <3>3. /\ ~plugin.endsPending /\ plugin.journal = <<>> /\ Came(history)
          /\ history.owed = <<>>
      BY <1>2, <1>3, <3>2, LateFacts
    <3>4. mapped' = FALSE
      BY <1>3, <1>8, <3>2 DEF Always
    <3>5. Always(plugin, mapped', history)
      BY <3>2, <3>3, <3>4 DEF Always
    <3>6. Orders(plugin, b2)
      BY <3>2 DEF Orders
    <3>7. Unloading(f, <<>>, plugin, mapped, history)
      BY <1>3, <3>2 DEF Working
    <3>8. Finishing(g, <<>>, plugin, mapped', history)
      BY <2>3, <3>3 DEF Finishing
    <3> QED BY <2>3, <3>4, <3>5, <3>6, <3>7, <3>8 DEF Working, Unloading
  <2>5. /\ mapped' \in BOOLEAN
        /\ Goes(f, g, plugin, mapped, history, plugin', mapped', history)
    BY <1>3, <1>6, <1>8, <2>4
  <2>6. plugin' \in Plugin /\ UNCHANGED <<title, starts, history>>
    BY <1>1, <1>3
  <2> QED BY <1>1, <1>4, <1>5, <1>3, <1>6, <2>1, <2>2, <2>5, <2>6, FinishChange DEF f, g
<1>9. CASE /\ Replace(t, <<[f EXCEPT !.at = "unloaded", !.result = "false"]>>)
           /\ UNCHANGED mapped
  <2> DEFINE r == "false"
  <2>1. /\ Replace(t, <<Put(f, "unloaded", q, k, r)>>) /\ r \in {"true", "false", "invoked"}
        /\ r = "false"
    BY <1>7, <1>9
  <2>2. UNCHANGED <<mapped, title, starts, history>>
    BY <1>1, <1>9
  <2> HIDE DEF r, k
  <2> QED BY <1>1, <1>2, <1>3, <1>4, <1>6, <2>1, <2>2, LateRun
<1> QED BY <1>8, <1>9 DEF Unmap

LEMMA UnloadedRun ==
  ASSUME IInv, title = "running", NEW t \in Threads, Unloaded(t)
  PROVE  IInv'
<1> DEFINE f == Top(t)  unloaded == f.result = "true"
           s == IF unloaded /\ ~f.keep THEN "Unloaded" ELSE "Failed"
<1>1. At(t, "unloaded") /\ UNCHANGED <<mapped, title, starts, history>> /\ Pop(t)
  BY DEF Unloaded
<1>2. "unloaded" \in LatePlaces
  BY DEF LatePlaces
<1>3. /\ f.at = "unloaded" /\ f.op = "unload" /\ f \in Work
      /\ plugin \in Plugin /\ history \in History /\ mapped \in BOOLEAN
  BY <1>1, <1>2, AtLate
<1>4. s \in {"Failed", "Unloaded"} /\ s \in States /\ unloaded \in BOOLEAN
  BY DEF States
<1>5. plugin' = [plugin EXCEPT
                   !.module = @ /\ ~unloaded, !.teardown = FALSE, !.deferredUnload = FALSE,
                   !.transition = FALSE, !.foregroundTransition = FALSE,
                   !.exitInProgress = FALSE, !.state = s]
  BY DEF Unloaded
<1>6. unloaded <=> f.result = "true"
  OBVIOUS
<1> HIDE DEF s, f, unloaded
<1>7. /\ plugin' \in Plugin /\ plugin'.inFlight = plugin.inFlight
      /\ plugin'.state = s /\ ~plugin'.deferredUnload
      /\ plugin'.journal = plugin.journal
      /\ plugin'.module <=> plugin.module /\ ~unloaded
      /\ plugin'.endsPending = plugin.endsPending
      /\ plugin'.deferredEnd = plugin.deferredEnd
  <2> DEFINE d == plugin.module /\ ~unloaded
  <2>1. /\ d \in BOOLEAN /\ (d <=> plugin.module /\ ~unloaded)
        /\ plugin' = [plugin EXCEPT
                   !.module = d, !.teardown = FALSE, !.deferredUnload = FALSE,
                   !.transition = FALSE, !.foregroundTransition = FALSE,
                   !.exitInProgress = FALSE, !.state = s]
    BY <1>3, <1>5 DEF Plugin
  <2> HIDE DEF d, States
  <2> QED BY <1>3, <1>4, <2>1 DEF Plugin
<1>8. Stops(f, plugin, mapped, history, plugin', mapped, history)
  <2>1. SUFFICES ASSUME NEW b \in BOOLEAN, NEW b2 \in BOOLEAN,
                        Holds(f, plugin, mapped, history, b), b2 => b
                 PROVE  Rests(plugin', mapped, history, b2)
    BY DEF Stops
  <2>2. unloaded => ~mapped
    BY <1>3, <1>6, <2>1 DEF Holds, Working, Unloading
  <2>3. mapped => plugin'.module
    BY <1>7, <2>1, <2>2 DEF Holds, Always
  <2> QED BY <1>2, <1>3, <1>4, <1>7, <2>1, <2>3, LateRests
<1>9. /\ mapped' \in BOOLEAN /\ history' \in History /\ history' = history
      /\ Stops(f, plugin, mapped, history, plugin', mapped', history')
  BY <1>1, <1>3, <1>8
<1> QED BY <1>1, <1>3, <1>7, <1>9, StepPop DEF f

LEMMA EndedRun ==
  ASSUME IInv, title = "running", NEW t \in Threads, Ended(t)
  PROVE  IInv'
<1> DEFINE f == Top(t)
           s == IF f.keep THEN "Failed"
                ELSE IF plugin.state \in {"Unloading", "Unloaded"} THEN plugin.state
                ELSE "Deinitialized"
           g == UnloadFrame(FALSE)
<1>1. At(t, "ended") /\ UNCHANGED <<mapped, title, starts, history>>
  BY DEF Ended
<1>2. "ended" \in LatePlaces
  BY DEF LatePlaces
<1>3. /\ stack[t] # <<>> /\ f = Head(stack[t])
      /\ f.at = "ended" /\ f.op = "end" /\ f \in Work
      /\ plugin \in Plugin /\ history \in History /\ mapped \in BOOLEAN
  BY <1>1, <1>2, AtLate
<1>4. /\ s \in States
      /\ \/ s \in {"Failed", "Unloaded"}
         \/ plugin.state \in {"Deinitialized", "Unloading"} => s = plugin.state
  BY DEF States
<1>5. plugin' = [plugin EXCEPT !.state = s, !.transition = FALSE,
                               !.foregroundReleased = FALSE]
  BY DEF Ended
<1>6. /\ g \in Frames /\ g.op = "unload" /\ g.at = "unload" /\ g \notin Work
      /\ g \notin Tearing
  <2>1. g \in Frames /\ g.op = "unload" /\ g.at = "unload" /\ g \notin Work
    BY UnloadFrameFacts
  <2> HIDE DEF g
  <2> QED BY <2>1, WorkNotInvoke
<1>7. \/ Replace(t, <<g>>) /\ plugin.deferredUnload
      \/ Pop(t)
  BY DEF Ended
<1> HIDE DEF s, f, g
<1>8. /\ plugin' \in Plugin /\ plugin'.inFlight = plugin.inFlight
      /\ plugin'.state = s /\ plugin'.deferredUnload = plugin.deferredUnload
      /\ plugin'.journal = plugin.journal /\ plugin'.module = plugin.module
      /\ plugin'.endsPending = plugin.endsPending
      /\ plugin'.deferredEnd = plugin.deferredEnd
  <2> HIDE DEF States
  <2> QED BY <1>3, <1>4, <1>5 DEF Plugin
<1>9. ASSUME NEW b \in BOOLEAN, NEW b2 \in BOOLEAN,
             Holds(f, plugin, mapped, history, b), b2 => b \/ plugin.deferredUnload
      PROVE  Rests(plugin', mapped, history, b2)
  <2>1. mapped => plugin'.module
    BY <1>8, <1>9 DEF Holds, Always
  <2> QED BY <1>2, <1>3, <1>4, <1>8, <1>9, <2>1, LateRests
<1>10. CASE Replace(t, <<g>>) /\ plugin.deferredUnload
  <2>1. Changed(stack, stack', t, g)
    BY <1>3, <1>10 DEF Replace, Changed
  <2>2. Goes(f, g, plugin, mapped, history, plugin', mapped, history)
    <3>1. SUFFICES ASSUME NEW b \in BOOLEAN, NEW b2 \in BOOLEAN,
                          Holds(f, plugin, mapped, history, b), b2 => b \/ g.op = "unload"
                   PROVE  Rests(plugin', mapped, history, b2)
      BY <1>6 DEF Goes
    <3> QED BY <1>9, <1>10, <3>1
  <2>3. /\ mapped' \in BOOLEAN /\ history' \in History /\ history' = history
        /\ Goes(f, g, plugin, mapped, history, plugin', mapped', history')
    BY <1>1, <1>3, <2>2
  <2>4. g.op # "invoke" /\ g.at # "end"
    BY <1>6
  <2> QED BY <1>1, <1>3, <1>6, <1>8, <2>1, <2>3, <2>4, StepChange DEF f
<1>11. CASE Pop(t)
  <2>1. Stops(f, plugin, mapped, history, plugin', mapped, history)
    BY <1>9 DEF Stops
  <2>2. /\ mapped' \in BOOLEAN /\ history' \in History /\ history' = history
        /\ Stops(f, plugin, mapped, history, plugin', mapped', history')
    BY <1>1, <1>3, <2>1
  <2> QED BY <1>1, <1>3, <1>8, <1>11, <2>2, StepPop DEF f
<1> QED BY <1>7, <1>10, <1>11

-----------------------------------------------------------------------------
\* What the invariant says of the properties

LEMMA FrameWhere ==
  ASSUME stack \in Stacks, NEW t \in Threads, NEW i \in DOMAIN stack[t], NEW S,
         stack[t][i] \in S
  PROVE  \E k \in Nat : /\ <<t, k>> \in Where(stack, S)
                        /\ Deep(stack[t], k) = stack[t][i]
<1> DEFINE s == stack[t]  k == Len(s) + 1 - i
<1>1. s \in Seq(Frames) /\ Len(s) \in Nat /\ i \in 1..Len(s)
  BY DEF Stacks
<1>2. s[i] \in S
  OBVIOUS
<1> HIDE DEF s
<1>3. k \in 1..Len(s) /\ k \in Nat /\ Len(s) + 1 - k = i
  BY <1>1
<1>4. Deep(s, k) = s[i]
  BY <1>3 DEF Deep
<1> HIDE DEF k
<1>5. <<t, k>> \in Where(stack, S)
  BY <1>2, <1>3, <1>4, WhereIn DEF s
<1> QED BY <1>3, <1>4, <1>5 DEF s

LEMMA IsAlone ==
  ASSUME IInv, title = "running"
  PROVE  TeardownAlone
<1>1. SUFFICES ASSUME ~history.cutShort, NEW t \in Threads, NEW u \in Threads,
                      NEW i \in DOMAIN stack[t], stack[t][i].op = "unload",
                      stack[t][i].at \notin {"unload", "drain"}, t # u,
                      NEW j \in DOMAIN stack[u], stack[u][j].at = "hook"
               PROVE  FALSE
  BY DEF TeardownAlone
<1>2. stack \in Stacks /\ Torn(stack, plugin)
  BY <1>1 DEF IInv, Run, Stacks
<1>3. stack[t][i] \in Frames /\ stack[u][j] \in Frames
  BY <1>2 DEF Stacks
<1>4. stack[t][i] \in Tearing
  BY <1>1, <1>3, WorkNotInvoke
<1>5. stack[u][j] \in Flying
  BY <1>1, <1>3, FlyingInvoke
<1>6. PICK k \in Nat : /\ <<t, k>> \in Where(stack, Tearing)
                       /\ Deep(stack[t], k) = stack[t][i]
  BY <1>2, <1>4, FrameWhere
<1>7. PICK l \in Nat : <<u, l>> \in Where(stack, Flying)
  BY <1>2, <1>5, FrameWhere
<1> DEFINE x == <<t, k>>  y == <<u, l>>
<1>8. x[1] = t /\ x[2] = k /\ y[1] = u /\ x \in Where(stack, Tearing) /\ y \in Where(stack, Flying)
  BY <1>6, <1>7
<1> HIDE DEF x, y
<1>9. Deep(stack[x[1]], x[2]).at # "drain"
  BY <1>1, <1>6, <1>8
<1>10. y[1] = x[1]
  BY <1>2, <1>8, <1>9 DEF Torn
<1> QED BY <1>1, <1>8, <1>10

LEMMA IsDone ==
  ASSUME IInv, title = "running", Orderly
  PROVE  /\ history.ends <= 1
         /\ AtRest => history.owed = <<>> /\ Came(history)
<1>1. stack \in Stacks /\ Good(stack, plugin, mapped, history)
  BY DEF IInv, Run, Stacks, Orderly
<1>2. Always(plugin, mapped, history)
  BY <1>1 DEF Good
<1>3. CASE plugin.state = "Deinitialized" /\ ~plugin.transition
  <2>1. Resting(plugin, mapped, history)
    BY <1>1, <1>3, NotTransition
  <2> QED BY <1>2, <1>3, <2>1 DEF Always, Resting, Due, Came
<1>4. CASE ~mapped
  <2>1. history.owed = <<>> /\ ~plugin.endsPending /\ history.ends <= 1
    BY <1>2, <1>4 DEF Always
  <2>2. Came(history)
    <3>1. CASE Where(stack, Work) = {}
      <4>1. Resting(plugin, mapped, history)
        BY <1>1, <3>1 DEF Good
      <4> QED BY <1>4, <2>1, <4>1 DEF Resting, Due, Came
    <3>2. CASE Where(stack, Work) # {}
      <4>1. PICK x \in Where(stack, Work) : TRUE
        BY <3>2
      <4> DEFINE f == Deep(stack[x[1]], x[2])  hook == Prep(stack[x[1]], x[2])
      <4>2. Working(f, hook, plugin, mapped, history)
        BY <1>1 DEF Good
      <4> HIDE DEF f, hook
      <4>3. CASE Starting(f, plugin, mapped, history)
        BY <4>3 DEF Starting, Came
      <4>4. CASE Unloading(f, hook, plugin, mapped, history)
        <5>1. Finishing(f, hook, plugin, mapped, history)
          BY <4>4 DEF Unloading
        <5> QED BY <1>4, <2>1, <5>1 DEF Finishing, Due, Came
      <4>5. ~Ending(f, hook, plugin, mapped, history)
        BY <1>4 DEF Ending
      <4> QED BY <4>2, <4>3, <4>4, <4>5 DEF Working
    <3> QED BY <3>1, <3>2
  <2> QED BY <2>1, <2>2
<1>5. history.ends <= 1
  BY <1>2 DEF Always
<1> QED BY <1>3, <1>4, <1>5 DEF AtRest

LEMMA IsKept ==
  ASSUME IInv
  PROVE  TeardownAlone /\ EndsOnce /\ FinalizersRun
<1>1. CASE title = "running"
  <2>1. EndsOnce /\ FinalizersRun
    BY <1>1, IsDone DEF EndsOnce, FinalizersRun, Came
  <2> QED BY <1>1, <2>1, IsAlone
<1>2. CASE title # "running"
  BY <1>2 DEF IInv
<1> QED BY <1>1, <1>2

-----------------------------------------------------------------------------
\* The end of the title

LEMMA StopTitleKeeps ==
  ASSUME IInv, StopTitle
  PROVE  IInv'
<1>1. TeardownAlone /\ EndsOnce /\ FinalizersRun
  BY IsKept
<1>2. (TeardownAlone /\ EndsOnce /\ FinalizersRun)'
  BY <1>1 DEF StopTitle, TeardownAlone, EndsOnce, FinalizersRun, AtRest, Orderly
<1>3. (\A t \in Threads : stack[t] = <<>> \/ At(t, "hook"))'
  BY DEF StopTitle, At, Top
<1>4. title' = "stopped" /\ UNCHANGED <<plugin, mapped, stack, starts, history>>
  BY DEF StopTitle
<1> QED BY <1>2, <1>3, <1>4 DEF IInv

\* The plugin is revoked or unloaded when nothing runs any more.
LEMMA OverKeeps ==
  ASSUME IInv, title # "running", title' \in {"abandoning", "over"}, plugin' \in Plugin,
         plugin'.state = "Deinitialized" =>
           plugin.state = "Deinitialized" /\ plugin'.transition = plugin.transition,
         UNCHANGED <<mapped, stack, starts, history>>
  PROVE  IInv'
<1>1. /\ TeardownAlone /\ EndsOnce /\ FinalizersRun
      /\ \A t \in Threads : stack[t] = <<>> \/ At(t, "hook")
  BY DEF IInv
<1>2. TeardownAlone'
  BY <1>1 DEF TeardownAlone
<1>3. AtRest' => AtRest
  BY DEF AtRest
<1>4. (EndsOnce /\ FinalizersRun)'
  BY <1>1, <1>3 DEF EndsOnce, FinalizersRun, Orderly
<1>5. (\A t \in Threads : stack[t] = <<>> \/ At(t, "hook"))'
  BY <1>1 DEF At, Top
<1> QED BY <1>2, <1>4, <1>5 DEF IInv

LEMMA AbandonKeeps ==
  ASSUME IInv, Abandon
  PROVE  IInv'
<1>1. plugin \in Plugin /\ title # "running" /\ UNCHANGED <<mapped, stack, starts, history>>
  BY DEF IInv, Abandon
<1>2. title' \in {"abandoning", "over"}
  BY DEF Abandon
<1>3. CASE plugin' = plugin
  BY <1>1, <1>2, <1>3, OverKeeps
<1>4. CASE plugin' = [plugin EXCEPT !.state = "Unloading", !.generation = @ + 1]
  <2>1. "Unloading" \in States
    BY DEF States
  <2> DEFINE n == plugin.generation + 1
  <2>2. plugin \in Plugin /\ n \in Nat
    BY <1>1, PluginUpdates
  <2>3. plugin' = [plugin EXCEPT !.state = "Unloading", !.generation = n]
    BY <1>4
  <2> HIDE DEF n, States
  <2>4. plugin' \in Plugin
    BY <2>1, <2>2, <2>3 DEF Plugin
  <2>5. plugin'.state = "Unloading"
    BY <2>2, <2>3 DEF Plugin
  <2> QED BY <1>1, <1>2, <2>4, <2>5, OverKeeps
<1> QED BY <1>3, <1>4 DEF Abandon

LEMMA AbandonedKeeps ==
  ASSUME IInv, Abandoned
  PROVE  IInv'
<1>1. plugin \in Plugin /\ title # "running" /\ UNCHANGED <<mapped, stack, starts, history>>
  BY DEF IInv, Abandoned
<1>2. title' \in {"abandoning", "over"}
  BY DEF Abandoned
<1>3. PICK deactivates \in BOOLEAN, releases \in BOOLEAN :
       plugin' = [plugin EXCEPT
                    !.deactivated = @ \/ deactivates, !.released = @ \/ releases,
                    !.module = FALSE, !.endsPending = FALSE, !.deferredEnd = FALSE,
                    !.deferredUnload = FALSE, !.teardown = FALSE, !.transition = FALSE,
                    !.foregroundTransition = FALSE, !.exitInProgress = FALSE,
                    !.state = "Unloaded"]
  BY DEF Abandoned
<1>4. "Unloaded" \in States
  BY DEF States
<1> HIDE DEF States
<1>5. plugin' \in Plugin
  <2> DEFINE d == plugin.deactivated \/ deactivates  r == plugin.released \/ releases
  <2>1. d \in BOOLEAN /\ r \in BOOLEAN
    OBVIOUS
  <2>2. plugin' = [plugin EXCEPT
                    !.deactivated = d, !.released = r,
                    !.module = FALSE, !.endsPending = FALSE, !.deferredEnd = FALSE,
                    !.deferredUnload = FALSE, !.teardown = FALSE, !.transition = FALSE,
                    !.foregroundTransition = FALSE, !.exitInProgress = FALSE,
                    !.state = "Unloaded"]
    BY <1>1, <1>3 DEF Plugin
  <2> HIDE DEF d, r
  <2>3. plugin \in Plugin
    BY <1>1
  <2>4. /\ plugin'.state = "Unloaded" /\ plugin'.generation = plugin.generation
        /\ plugin'.inFlight = plugin.inFlight /\ plugin'.journal = plugin.journal
    BY <2>2, <2>3 DEF Plugin
  <2>5. /\ plugin'.module = FALSE /\ plugin'.released = r /\ plugin'.deactivated = d
        /\ plugin'.teardown = FALSE /\ plugin'.deferredUnload = FALSE
        /\ plugin'.endsPending = FALSE /\ plugin'.deferredEnd = FALSE
        /\ plugin'.transition = FALSE
        /\ plugin'.foregroundReleased = plugin.foregroundReleased
        /\ plugin'.foregroundTransition = FALSE
        /\ plugin'.exitRequested = plugin.exitRequested
        /\ plugin'.exitInProgress = FALSE
    BY <2>2, <2>3 DEF Plugin
  <2>6. /\ plugin.generation \in Nat /\ plugin.inFlight \in Nat
        /\ plugin.journal \in Seq(Range(Inits))
        /\ plugin.foregroundReleased \in BOOLEAN /\ plugin.exitRequested \in BOOLEAN
    BY <2>3 DEF Plugin
  <2>7. plugin' = [state |-> plugin'.state, generation |-> plugin'.generation,
                   inFlight |-> plugin'.inFlight, module |-> plugin'.module,
                   journal |-> plugin'.journal, released |-> plugin'.released,
                   deactivated |-> plugin'.deactivated, teardown |-> plugin'.teardown,
                   deferredUnload |-> plugin'.deferredUnload,
                   endsPending |-> plugin'.endsPending,
                   deferredEnd |-> plugin'.deferredEnd, transition |-> plugin'.transition,
                   foregroundReleased |-> plugin'.foregroundReleased,
                   foregroundTransition |-> plugin'.foregroundTransition,
                   exitRequested |-> plugin'.exitRequested,
                   exitInProgress |-> plugin'.exitInProgress]
    BY <2>2, <2>3 DEF Plugin
  <2> QED BY <1>4, <2>1, <2>4, <2>5, <2>6, <2>7 DEF Plugin
<1>6. plugin'.state = "Unloaded"
  BY <1>1, <1>3 DEF Plugin
<1> QED BY <1>1, <1>2, <1>5, <1>6, OverKeeps

-----------------------------------------------------------------------------
\* Every step keeps the invariant

\* When the title has stopped, threads are left in hooks only.
LEMMA OnlyHooks ==
  ASSUME IInv, NEW t \in Threads, NEW a, At(t, a), a # "hook"
  PROVE  title = "running"
BY DEF IInv, At

LEMMA StepRunning ==
  ASSUME IInv, NEW t \in Threads, Step(t)
  PROVE  title = "running"
<1>1. CASE Prepare(t) \/ Leave(t) \/ Left(t) \/ InvokeReturns(t)
  <2>1. PICK a \in {"prepare", "leave", "left", "return"} : At(t, a)
    BY <1>1 DEF Prepare, Leave, Left, InvokeReturns
  <2> QED BY <2>1, OnlyHooks
<1>2. CASE \/ Map(t) \/ Relocate(t) \/ Activate(t)
           \/ InvokeInit(t) \/ Inited(t) \/ Initialized(t) \/ InvokeStart(t) \/ Started(t)
  <2>1. PICK a \in {"map", "relocate", "activate", "init", "inited", "starting", "started"} :
           At(t, a)
    BY <1>2 DEF Map, Relocate, Activate, InvokeInit, Inited, Initialized, InvokeStart, Started
  <2> QED BY <2>1, OnlyHooks
<1>3. CASE InvokeEvent(t) \/ Evented(t) \/ EnterEnd(t) \/ EnterUnload(t) \/ Drained(t)
  <2>1. PICK a \in {"event", "evented", "end", "unload", "drain"} : At(t, a)
    BY <1>3 DEF InvokeEvent, Evented, EnterEnd, EnterUnload, Drained
  <2> QED BY <2>1, OnlyHooks
<1>4. CASE InvokeEnds(t) \/ TakeJournal(t) \/ InvokeFini(t)
  <2>1. PICK a \in {"ends", "swap", "fini"} : At(t, a)
    BY <1>4 DEF InvokeEnds, TakeJournal, InvokeFini
  <2> QED BY <2>1, OnlyHooks
<1>5. CASE \/ Deactivate(t) \/ Deactivated(t) \/ Ended(t)
           \/ Release(t) \/ Released(t) \/ Unmap(t) \/ Unloaded(t)
  <2>1. PICK a \in {"backend", "deactivating", "ended", "release", "releasing", "unmap",
                    "unloaded"} : At(t, a)
    BY <1>5 DEF Deactivate, Deactivated, Ended, Release, Released, Unmap, Unloaded
  <2> QED BY <2>1, OnlyHooks
<1> QED BY <1>1, <1>2, <1>3, <1>4, <1>5 DEF Step

LEMMA StepKeeps ==
  ASSUME IInv, NEW t \in Threads, Step(t)
  PROVE  IInv'
<1>1. title = "running"
  BY StepRunning
<1>2. CASE Prepare(t)
  BY <1>1, <1>2, PrepareRun
<1>3. CASE Leave(t)
  BY <1>1, <1>3, LeaveRun
<1>4. CASE Left(t)
  BY <1>1, <1>4, LeftRun
<1>5. CASE InvokeReturns(t)
  BY <1>1, <1>5, InvokeReturnsRun
<1>6. CASE Map(t)
  BY <1>1, <1>6, MapRun
<1>7. CASE Relocate(t)
  BY <1>1, <1>7, RelocateRun
<1>8. CASE Activate(t)
  BY <1>1, <1>8, ActivateRun
<1>9. CASE InvokeInit(t)
  BY <1>1, <1>9, InvokeInitRun
<1>10. CASE Inited(t)
  BY <1>1, <1>10, InitedRun
<1>11. CASE Initialized(t)
  BY <1>1, <1>11, InitializedRun
<1>12. CASE InvokeStart(t)
  BY <1>1, <1>12, InvokeStartRun
<1>13. CASE Started(t)
  BY <1>1, <1>13, StartedRun
<1>14. CASE InvokeEvent(t)
  BY <1>1, <1>14, InvokeEventRun
<1>15. CASE Evented(t)
  BY <1>1, <1>15, EventedRun
<1>16. CASE EnterEnd(t)
  BY <1>1, <1>16, EnterEndRun
<1>17. CASE EnterUnload(t)
  BY <1>1, <1>17, EnterUnloadRun
<1>18. CASE Drained(t)
  BY <1>1, <1>18, DrainedRun
<1>19. CASE InvokeEnds(t)
  BY <1>1, <1>19, InvokeEndsRun
<1>20. CASE TakeJournal(t)
  BY <1>1, <1>20, TakeJournalRun
<1>21. CASE InvokeFini(t)
  BY <1>1, <1>21, InvokeFiniRun
<1>22. CASE Deactivate(t)
  BY <1>1, <1>22, DeactivateRun
<1>23. CASE Deactivated(t)
  BY <1>1, <1>23, DeactivatedRun
<1>24. CASE Ended(t)
  BY <1>1, <1>24, EndedRun
<1>25. CASE Release(t)
  BY <1>1, <1>25, ReleaseRun
<1>26. CASE Released(t)
  BY <1>1, <1>26, ReleasedRun
<1>27. CASE Unmap(t)
  BY <1>1, <1>27, UnmapRun
<1>28. CASE Unloaded(t)
  BY <1>1, <1>28, UnloadedRun
<1> QED BY <1>2, <1>3, <1>4, <1>5, <1>6, <1>7, <1>8, <1>9, <1>10, <1>11, <1>12, <1>13, <1>14,
           <1>15, <1>16, <1>17, <1>18, <1>19, <1>20, <1>21, <1>22, <1>23, <1>24, <1>25,
           <1>26, <1>27, <1>28 DEF Step

LEMMA InitIInv ==
  ASSUME Init
  PROVE  IInv
<1>1. /\ plugin = [state |-> "Installed", generation |-> 0, inFlight |-> 0, module |-> FALSE,
                   journal |-> <<>>, released |-> FALSE, deactivated |-> TRUE,
                   teardown |-> FALSE, deferredUnload |-> FALSE,
                   endsPending |-> FALSE, deferredEnd |-> FALSE, transition |-> FALSE,
                   foregroundReleased |-> FALSE, foregroundTransition |-> FALSE,
                   exitRequested |-> FALSE, exitInProgress |-> FALSE]
      /\ mapped = FALSE /\ title = "running" /\ starts = 0
      /\ history = [owed |-> <<>>, ends |-> 0, active |-> FALSE, cutShort |-> FALSE,
                    doubled |-> FALSE]
      /\ stack = [t \in Threads |-> <<>>]
  BY DEF Init
<1>2. <<>> \in Seq(Range(Inits)) /\ <<>> \in Seq(Frames) /\ Len(<<>>) = 0
  OBVIOUS
<1>3. plugin \in Plugin /\ history \in History
  BY <1>1, <1>2 DEF Plugin, History, States
<1>4. stack \in Stacks /\ \A t \in Threads : stack[t] = <<>>
  BY <1>1, <1>2 DEF Stacks
<1>5. ASSUME NEW S
      PROVE  Where(stack, S) = {}
  <2>1. ASSUME NEW x \in Where(stack, S)
        PROVE  FALSE
    <3>1. x[1] \in Threads /\ x[2] \in 1..Len(stack[x[1]])
      BY <1>4, <2>1, WhereIn
    <3>2. Len(stack[x[1]]) = 0
      BY <1>2, <1>4, <3>1
    <3> QED BY <3>1, <3>2
  <2> QED BY <2>1
<1>6. Shaped(stack, plugin)
  <2>1. Framed(stack)
    BY <1>2, <1>4 DEF Framed, Chained, Stacks
  <2>2. Counted(stack, plugin)
    BY <1>1, <1>5, FS_EmptySet DEF Counted
  <2>3. Outside(stack)
    BY <1>4 DEF Outside
  <2> QED BY <2>1, <2>2, <2>3 DEF Shaped
<1>7. Torn(stack, plugin)
  BY <1>5, TornNone
<1>8. Good(stack, plugin, mapped, history)
  <2>1. Idle(stack)
    BY <1>5 DEF Idle
  <2>2. Always(plugin, mapped, history)
    <3>1. Prefix(<<>>)
      <4>1. Len(Inits) \in Nat
        BY ConstantsAssumption
      <4> QED BY <1>2, <4>1 DEF Prefix
    <3> QED BY <1>1, <3>1 DEF Always
  <2>3. Unloadable(stack, plugin)
    BY <1>1, <1>5 DEF Unloadable
  <2>4. Resting(plugin, mapped, history)
    BY <1>1 DEF Resting, Due
  <2> QED BY <2>1, <2>2, <2>3, <2>4, GoodIdle
<1> QED BY <1>1, <1>3, <1>4, <1>6, <1>7, <1>8 DEF IInv, Run, Stacks

LEMMA NextKeeps ==
  ASSUME IInv, Next
  PROVE  IInv'
<1>1. ASSUME NEW t \in Threads, Start(t)
      PROVE  IInv'
  BY <1>1, StartRun DEF Start, CanCall
<1>2. ASSUME NEW t \in Threads, ApplicationEnds(t)
      PROVE  IInv'
  BY <1>2, ApplicationEndsRun DEF ApplicationEnds, CanCall
<1>3. ASSUME NEW t \in Threads, UnloadChecked(t)
      PROVE  IInv'
  <2>1. title = "running"
    BY <1>3 DEF UnloadChecked, CanCall
  <2> QED BY <1>3, <2>1, UnloadCheckedRun
<1>4. ASSUME NEW t \in Threads, NEW event \in Events, Event(t, event)
      PROVE  IInv'
  BY <1>4, EventRun DEF Event, CanCall
<1>5. ASSUME NEW t \in Threads, HookReturns(t)
      PROVE  IInv'
  BY <1>5, HookReturnsRun DEF HookReturns
<1> QED BY <1>1, <1>2, <1>3, <1>4, <1>5, StepKeeps, StopTitleKeeps, AbandonKeeps,
           AbandonedKeeps DEF Next, Events

\* The variables, and so the invariant, stay.
LEMMA StutterKeeps ==
  ASSUME IInv, UNCHANGED vars
  PROVE  IInv'
<1>1. UNCHANGED <<plugin, mapped, stack, title, starts, history>>
  BY DEF vars
<1>2. title # "running" => (TeardownAlone /\ EndsOnce /\ FinalizersRun)'
  BY <1>1 DEF IInv, TeardownAlone, EndsOnce, FinalizersRun, AtRest, Orderly
<1>3. title # "running" => (\A t \in Threads : stack[t] = <<>> \/ At(t, "hook"))'
  BY <1>1 DEF IInv, At, Top
<1>4. title = "running" => Run(stack', plugin', mapped', history')
  BY <1>1 DEF IInv
<1>5. /\ plugin' \in Plugin /\ history' \in History /\ mapped' \in BOOLEAN
      /\ starts' \in Nat /\ title' \in {"running", "stopped", "abandoning", "over"}
      /\ stack' \in [Threads -> Seq(Frames)] /\ title' = title
  BY <1>1 DEF IInv
<1> QED BY <1>2, <1>3, <1>4, <1>5 DEF IInv

-----------------------------------------------------------------------------
\* The theorems

\* IInv holds: the frames of every thread fit, the counter counts the invocations in
\* flight, and while nothing was cut short one start, end or teardown works at a time.
THEOREM Invariance == Spec => []IInv
<1>1. Init => IInv
  BY InitIInv
<1>2. IInv /\ [Next]_vars => IInv'
  BY NextKeeps, StutterKeeps
<1> QED BY <1>1, <1>2, PTL DEF Spec

\* While an unload tears the plugin down, no other thread is in one of its hooks
\* (FinishUnload), unless it began inside a start or an application end.
THEOREM TeardownCorrect == Spec => []TeardownAlone
<1>1. IInv => TeardownAlone
  BY IsKept
<1> QED BY <1>1, Invariance, PTL

\* APPLICATION_ENDS is invoked at most once between two starts, and it is invoked when
\* the start succeeded (FinishApplicationEnd, FinishUnload), if both went orderly.
THEOREM EndsCorrect == Spec => []EndsOnce
<1>1. IInv => EndsOnce
  BY IsKept
<1> QED BY <1>1, Invariance, PTL

\* When an end or an unload is over, every initializer that was noted had its finalizer
\* invoked (TeardownInitializers), if both went orderly.
THEOREM FinalizersCorrect == Spec => []FinalizersRun
<1>1. IInv => FinalizersRun
  BY IsKept
<1> QED BY <1>1, Invariance, PTL

-----------------------------------------------------------------------------
\* The order of the finalizers

\* The end or the finalizer that is prepared is the one that is owed last.
LEMMA PreparesLast ==
  ASSUME NEW st \in Stacks, NEW p, NEW m, NEW h \in History, NEW t \in Threads,
         Framed(st), Good(st, p, m, h), st[t] # <<>>, Head(st[t]).op = "invoke",
         Ready(Head(st[t])), Owes(h, Head(st[t])).owed # h.owed
  PROVE  h.owed # <<>> /\ Owes(h, Head(st[t])).owed = Front(h.owed)
<1> DEFINE f == Head(st[t])  b == st[t][2]  y == <<t, Len(st[t]) - 1>>
<1>1. /\ b \in Work /\ b.op \in {"end", "unload"} /\ b.at \in {"swap", "fini"}
      /\ b.at = "swap" => f.hook = "end"
      /\ b.at = "fini" => f.hook \in Range(Inits)
      /\ y \in Where(st, Work)
      /\ Deep(st[y[1]], y[2]) = b
      /\ Prep(st[y[1]], y[2]) = <<f.hook>>
  BY BelowReady
<1> HIDE DEF y
<1>2. Working(b, <<f.hook>>, p, m, h) /\ Always(p, m, h)
  BY <1>1 DEF Good
<1>3. b \in Frames
  BY <1>1 DEF Work, Tearing, Unloads
<1>4. \/ b.at = "swap" /\ f.hook = "end"
      \/ b.at = "fini" /\ f.hook \in Range(Inits)
  BY <1>1
<1>5. f.final
  BY DEF Ready
<1> DEFINE h2 == Owes(h, f)
<1>6. h2 = Owes(h, f) /\ h2.owed # h.owed
  OBVIOUS
<1> HIDE DEF f, b, h2
<1>7. h2.owed # h.owed => h.owed # <<>> /\ h2.owed = Front(h.owed)
  BY <1>1, <1>2, <1>3, <1>4, <1>5, <1>6, Prepares
<1> QED BY <1>6, <1>7 DEF f, h2

LEMMA PrepareOrders ==
  ASSUME IInv, NEW t \in Threads, Prepare(t), Orderly, history'.owed # history.owed
  PROVE  history.owed # <<>> /\ history'.owed = Front(history.owed)
<1>1. title = "running"
  BY OnlyHooks DEF Prepare
<1>2. /\ stack \in Stacks /\ stack[t] # <<>> /\ Top(t) = Head(stack[t])
      /\ Top(t).at = "prepare" /\ Placed(Top(t))
      /\ Run(stack, plugin, mapped, history) /\ Shaped(stack, plugin)
  BY <1>1, AtTop DEF Prepare
<1>3. history' = Owes(history, Top(t)) /\ history \in History
  BY DEF Prepare, Owes, IInv
<1>4. Top(t).final
  <2>1. ~Top(t).final => history'.owed = history.owed
    BY <1>3 DEF Owes, History
  <2> QED BY <2>1
<1>5. Good(stack, plugin, mapped, history) /\ Framed(stack)
  BY <1>2 DEF Run, Shaped, Orderly
<1>6. Top(t).op = "invoke" /\ Ready(Top(t))
  BY <1>2, <1>4 DEF Placed, Ready
<1> QED BY <1>2, <1>3, <1>5, <1>6, PreparesLast

LEMMA InitedOrders ==
  ASSUME IInv, NEW t \in Threads, Inited(t), history'.owed # history.owed
  PROVE  Len(history'.owed) = Len(history.owed) + 1
<1>1. history \in History /\ history.owed \in Seq(Range(Inits))
  BY DEF IInv, History
<1>2. PICK e : history' = [history EXCEPT !.owed = Append(@, e)]
  BY DEF Inited, FailStart
<1>3. history'.owed = Append(history.owed, e)
  BY <1>1, <1>2 DEF History
<1> QED BY <1>1, <1>3

\* The other steps neither note an initializer nor invoke a finalizer.
LEMMA OthersOrder ==
  ASSUME IInv, NEW t \in Threads, Step(t), ~Prepare(t), ~Inited(t)
  PROVE  history'.owed = history.owed
<1>1. history \in History
  BY DEF IInv
<1>2. CASE Left(t)
  BY <1>1, <1>2 DEF Left, History
<1>3. CASE Started(t)
  BY <1>1, <1>3 DEF Started, FailStart, History
<1>4. CASE EnterUnload(t)
  BY <1>1, <1>4 DEF EnterUnload, History
<1>5. CASE Map(t) \/ Relocate(t) \/ Activate(t)
  BY <1>5 DEF Map, Relocate, Activate, FailStart
<1>6. CASE \/ Leave(t) \/ InvokeReturns(t) \/ InvokeInit(t) \/ Initialized(t)
           \/ InvokeStart(t) \/ InvokeEvent(t) \/ Evented(t) \/ EnterEnd(t) \/ Drained(t)
  BY <1>6 DEF Leave, InvokeReturns, InvokeInit, Initialized, InvokeStart, InvokeEvent,
              Evented, EnterEnd, Drained
<1>7. CASE \/ InvokeEnds(t) \/ TakeJournal(t) \/ InvokeFini(t) \/ Deactivate(t)
           \/ Deactivated(t) \/ Ended(t) \/ Release(t) \/ Released(t) \/ Unmap(t)
           \/ Unloaded(t)
  BY <1>7 DEF InvokeEnds, TakeJournal, InvokeFini, Deactivate, Deactivated, Ended, Release,
              Released, Unmap, Unloaded
<1> QED BY <1>2, <1>3, <1>4, <1>5, <1>6, <1>7 DEF Step

\* Finalizers are invoked in the reverse order of the initializers and once for each:
\* a step that changes what is owed adds to it or takes the last from it.
THEOREM OrderCorrect == Spec => FinalizersInOrder
<1> DEFINE Ordered ==
      history'.owed # history.owed /\ Orderly =>
        \/ Len(history'.owed) = Len(history.owed) + 1
        \/ history.owed # <<>> /\ history'.owed = Front(history.owed)
<1>1. IInv /\ [Next]_vars => [Ordered]_vars
  <2> SUFFICES ASSUME IInv, Next, Orderly, history'.owed # history.owed
               PROVE  \/ Len(history'.owed) = Len(history.owed) + 1
                      \/ history.owed # <<>> /\ history'.owed = Front(history.owed)
    OBVIOUS
  <2>1. history \in History
    BY DEF IInv
  <2>2. PICK t \in Threads : Step(t)
    <3>1. ASSUME NEW t \in Threads, Start(t)
          PROVE  history'.owed = history.owed
      BY <2>1, <3>1 DEF Start, History
    <3>2. ASSUME NEW t \in Threads, ApplicationEnds(t) \/ UnloadChecked(t) \/ HookReturns(t)
          PROVE  history' = history
      BY <3>2 DEF ApplicationEnds, UnloadChecked, HookReturns
    <3>3. ASSUME NEW t \in Threads, NEW event, Event(t, event)
          PROVE  history' = history
      BY <3>3 DEF Event
    <3>4. StopTitle \/ Abandon \/ Abandoned => history' = history
      BY DEF StopTitle, Abandon, Abandoned
    <3> QED BY <3>1, <3>2, <3>3, <3>4 DEF Next
  <2>3. CASE Prepare(t)
    BY <2>3, PrepareOrders
  <2>4. CASE Inited(t)
    BY <2>4, InitedOrders
  <2> QED BY <2>2, <2>3, <2>4, OthersOrder
<1> QED BY <1>1, Invariance, PTL DEF Spec, FinalizersInOrder
=============================================================================
