------------------------ MODULE TrustedRuntime_proofs ------------------------
(***************************************************************************)
(* Proofs about TrustedRuntime for any mods, cores, unloading threads and  *)
(* number of handles.                                                      *)
(*                                                                         *)
(* The properties are not inductive by themselves.  That a site is         *)
(* restored by the thread that prepared the instance needs that nobody     *)
(* else took the instance on meanwhile (Unloading), that the phases come   *)
(* in order needs that they follow from the state of the instance          *)
(* (Phases), and that a new instance starts with neither needs that        *)
(* handles are given out once (Handles).  There is one lemma per action.   *)
(***************************************************************************)
EXTENDS TrustedRuntime, SequenceTheorems, TLAPS

\* Handles are given out once, and a codecave is held for each instance.
Handles ==
  /\ \A h \in DOMAIN mods : h < nextHandle
  /\ caves = DOMAIN mods
  /\ \A h \in 1..LastHandle : h >= nextHandle => calls[h] = <<>>

\* The phases of the shutdown handler follow from the state of the instance.
Phases ==
  /\ \A h \in 1..LastHandle : calls[h] \in {<<>>, <<0>>, <<0, 1>>}
  /\ \A h \in DOMAIN mods :
       /\ mods[h].state = "Loaded" => calls[h] = <<>>
       /\ mods[h].state \in {"Preparing", "Prepared"} =>
            calls[h] = IF mods[h].mod \in Versioned THEN <<0>> ELSE <<>>

\* An instance that is being prepared, finished or released is so by one thread.
Busy(u) == unloader[u].pc \in {"preparing", "finishing", "releasing"}

Unloading ==
  /\ title # "running" => \A u \in Unloaders : unloader[u].pc = "idle"
  /\ \A u \in Unloaders : Busy(u) =>
       /\ unloader[u].handle \in DOMAIN mods
       /\ mods[unloader[u].handle].state = IF At(u, "preparing") THEN "Preparing" ELSE "Finishing"
       /\ At(u, "releasing") => DOMAIN mods = {unloader[u].handle}
  /\ \A u, v \in Unloaders :
       Busy(u) /\ Busy(v) /\ unloader[u].handle = unloader[v].handle => u = v

Owners == OwnerWhileLoaded /\ \A c \in Cores : core[c] < nextGeneration

\* PatchesExact, instance by instance and site by site.
Patches ==
  /\ \A h \in DOMAIN mods : Claims(h) =>
       code[Site[mods[h].mod]] = h /\ Site[mods[h].mod] \in patchAddresses
  /\ \A a \in Sites : code[a] # 0 =>
       code[a] \in DOMAIN mods /\ Claims(code[a]) /\ Site[mods[code[a]].mod] = a
  /\ \A a \in patchAddresses : code[a] # 0

UnloaderType ==
  unloader \in [Unloaders -> [pc : {"idle", "preparing", "prepared", "finishing", "releasing"},
                             handle : 0..LastHandle]]
CallsType == calls \in [1..LastHandle -> Seq({0, 1})]
ModsType ==
  /\ DOMAIN mods \subseteq 1..LastHandle
  /\ \A h \in DOMAIN mods : mods[h] \in [mod : Mods, state : States]

IInv == TypeOK /\ Handles /\ Phases /\ Unloading /\ Owners /\ Patches

USE ConstantsAssumption
USE DEF At, Claims, Free, CoresRun, Idle, NoOwner, Sites, UnloadUnchanged, GuestUnchanged

-----------------------------------------------------------------------------
\* What the helpers of the actions change, instance by instance.

LEMMA SetStateUpdate ==
  ASSUME TypeOK, NEW h \in DOMAIN mods, NEW state \in States, SetState(h, state)
  PROVE  /\ DOMAIN mods' = DOMAIN mods
         /\ mods'[h].state = state /\ mods'[h].mod = mods[h].mod
         /\ \A g \in DOMAIN mods : g # h => mods'[g] = mods[g]
         /\ \A g \in DOMAIN mods : mods'[g] \in [mod : Mods, state : States]
<1>1. mods[h] \in [mod : Mods, state : States]
  BY DEF TypeOK
<1>2. [mods[h] EXCEPT !.state = state] = [mod |-> mods[h].mod, state |-> state]
  BY <1>1
<1>3. mods' = [mods EXCEPT ![h] = [mod |-> mods[h].mod, state |-> state]]
  BY <1>2 DEF SetState
<1> QED
  BY <1>1, <1>3 DEF TypeOK

LEMMA WithoutUpdate ==
  ASSUME TypeOK, NEW h \in DOMAIN mods, mods' = Without(h)
  PROVE  /\ DOMAIN mods' = DOMAIN mods \ {h}
         /\ \A g \in DOMAIN mods' : mods'[g] = mods[g]
  BY DEF Without

LEMMA GoUpdate ==
  ASSUME TypeOK, NEW u \in Unloaders, NEW h \in 0..LastHandle,
         NEW pc \in {"idle", "preparing", "prepared", "finishing", "releasing"}, Go(u, pc, h)
  PROVE  /\ UnloaderType'
         /\ unloader'[u].pc = pc /\ unloader'[u].handle = h
         /\ \A v \in Unloaders : v # u => unloader'[v] = unloader[v]
  BY DEF TypeOK, Go, UnloaderType

LEMMA CallUpdate ==
  ASSUME TypeOK, NEW h \in 1..LastHandle, NEW phase \in {0, 1}, Call(h, phase)
  PROVE  /\ CallsType'
         /\ calls'[h] = IF mods[h].mod \in Versioned THEN Append(calls[h], phase) ELSE calls[h]
         /\ \A g \in 1..LastHandle : g # h => calls'[g] = calls[g]
<1>1. calls \in [1..LastHandle -> Seq({0, 1})] /\ Append(calls[h], phase) \in Seq({0, 1})
  BY DEF TypeOK
<1>2. calls' = IF mods[h].mod \in Versioned THEN [calls EXCEPT ![h] = Append(calls[h], phase)] ELSE calls
  BY DEF Call
<1> QED
  BY <1>1, <1>2 DEF CallsType

\* A step of thread u, while the title runs, that leaves the other threads and
\* the instances they are busy with alone.
LEMMA UnloadingStep ==
  ASSUME Unloading, NEW u \in Unloaders, title' = "running",
         \A v \in Unloaders : v # u => unloader'[v] = unloader[v],
         Busy(u)' => /\ unloader'[u].handle \in DOMAIN mods'
                     /\ mods'[unloader'[u].handle].state =
                          IF unloader'[u].pc = "preparing" THEN "Preparing" ELSE "Finishing"
                     /\ unloader'[u].pc = "releasing" => DOMAIN mods' = {unloader'[u].handle},
         \A v \in Unloaders : v # u /\ Busy(v) =>
           /\ unloader[v].pc # "releasing"
           /\ unloader[v].handle \in DOMAIN mods'
           /\ mods'[unloader[v].handle] = mods[unloader[v].handle]
           /\ Busy(u)' => unloader[v].handle # unloader'[u].handle
  PROVE  Unloading'
<1>1. \A v \in Unloaders : v # u => (Busy(v)' <=> Busy(v))
  BY DEF Busy
<1>2. ASSUME NEW v \in Unloaders, Busy(v)'
      PROVE  /\ unloader'[v].handle \in DOMAIN mods'
             /\ mods'[unloader'[v].handle].state =
                  IF unloader'[v].pc = "preparing" THEN "Preparing" ELSE "Finishing"
             /\ unloader'[v].pc = "releasing" => DOMAIN mods' = {unloader'[v].handle}
  <2>1. CASE v = u
    BY <1>2, <2>1
  <2>2. CASE v # u
    <3>1. /\ unloader'[v] = unloader[v] /\ Busy(v)
          /\ mods'[unloader[v].handle] = mods[unloader[v].handle]
          /\ unloader[v].handle \in DOMAIN mods' /\ unloader[v].pc # "releasing"
      BY <1>1, <1>2, <2>2
    <3>2. mods[unloader[v].handle].state = IF unloader[v].pc = "preparing" THEN "Preparing" ELSE "Finishing"
      BY <3>1 DEF Unloading
    <3> QED
      BY <3>1, <3>2
  <2> QED
    BY <2>1, <2>2
<1>3. ASSUME NEW v \in Unloaders, NEW w \in Unloaders, Busy(v)', Busy(w)',
             unloader'[v].handle = unloader'[w].handle
      PROVE  v = w
  <2>1. CASE v = u \/ w = u
    BY <1>1, <1>3, <2>1
  <2>2. CASE v # u /\ w # u
    BY <1>1, <1>3, <2>2 DEF Unloading
  <2> QED
    BY <2>1, <2>2
<1> QED
  BY <1>2, <1>3 DEF Unloading

LEMMA Phase01 == Append(<<>>, 0) = <<0>> /\ Append(<<0>>, 1) = <<0, 1>>
<1>1. Append(<<0>>, 1) \in Seq(Nat) /\ <<0, 1>> \in Seq(Nat)
  OBVIOUS
<1>2. /\ Len(Append(<<0>>, 1)) = 2 /\ Len(<<0, 1>>) = 2
      /\ \A i \in 1..2 : Append(<<0>>, 1)[i] = <<0, 1>>[i]
  OBVIOUS
<1>3. Append(<<0>>, 1) = <<0, 1>>
  BY <1>1, <1>2, SeqEqual
<1> QED
  BY <1>3

-----------------------------------------------------------------------------
LEMMA InitInvariant == Init => IInv
<1> SUFFICES ASSUME Init PROVE IInv
  OBVIOUS
<1>1. TypeOK
  BY DEF Init, TypeOK, States
<1>2. Handles
  BY DEF Init, TypeOK, Handles
<1>3. Phases
  BY DEF Init, TypeOK, Handles, Phases
<1>4. Unloading
  BY DEF Init, TypeOK, Unloading, Busy
<1>5. Owners
  BY DEF Init, TypeOK, Handles, Unloading, Busy, Owners, OwnerWhileLoaded
<1>6. Patches
  BY DEF Init, TypeOK, Handles, Patches
<1> QED
  BY <1>1, <1>2, <1>3, <1>4, <1>5, <1>6 DEF IInv

LEMMA LoadInvariant ==
  ASSUME IInv, NEW m \in Mods, Load(m)
  PROVE  IInv'
<1> DEFINE new == nextHandle
<1>1. /\ new \in 1..LastHandle /\ new \notin DOMAIN mods /\ Site[m] \in Sites
      /\ title = "loading" /\ code[Site[m]] = 0
      /\ calls[new] = <<>>
  BY DEF Load, IInv, TypeOK, Handles
<1>2. /\ code' = [code EXCEPT ![Site[m]] = new]
      /\ patchAddresses' = patchAddresses \cup {Site[m]}
      /\ nextHandle' = new + 1 /\ caves' = caves \cup {new}
      /\ UNCHANGED <<title, calls, unloader, core, sessions>>
  BY DEF Load
<1>3. /\ DOMAIN mods' = DOMAIN mods \cup {new}
      /\ mods'[new] = [mod |-> m, state |-> "Loaded"]
      /\ \A h \in DOMAIN mods : mods'[h] = mods[h]
  BY <1>1 DEF Load
<1>4. /\ owner' \in [generation : Nat, stopped : BOOLEAN] /\ nextGeneration' \in Nat \ {0}
      /\ owner'.generation < nextGeneration' /\ nextGeneration <= nextGeneration'
      /\ owner' # NoOwner
  <2>1. CASE owner = NoOwner
    <3>1. owner' = [generation |-> nextGeneration, stopped |-> FALSE] /\ nextGeneration' = nextGeneration + 1
      BY <2>1 DEF Load
    <3> QED
      BY <3>1 DEF IInv, TypeOK
  <2>2. CASE owner # NoOwner
    <3>1. UNCHANGED <<owner, nextGeneration>>
      BY <2>2 DEF Load
    <3> QED
      BY <2>2, <3>1 DEF IInv, TypeOK, Owners, OwnerWhileLoaded
  <2> QED
    BY <2>1, <2>2
<1>5. TypeOK'
  <2>1. ModsType'
    BY <1>1, <1>3 DEF IInv, TypeOK, ModsType, States
  <2>2. code' \in [Sites -> 0..LastHandle] /\ patchAddresses' \subseteq Sites
    BY <1>1, <1>2 DEF IInv, TypeOK
  <2>3. nextHandle' \in 1..(LastHandle + 1) /\ caves' \subseteq 1..LastHandle
    <3>1. caves \subseteq 1..LastHandle
      BY DEF IInv, TypeOK
    <3>2. caves' \subseteq 1..LastHandle
      BY <1>1, <1>2, <3>1
    <3>3. LastHandle \in Nat
      OBVIOUS
    <3>4. nextHandle' \in 1..(LastHandle + 1)
      BY <1>1, <1>2, <3>3
    <3> QED
      BY <3>2, <3>4
  <2> QED
    BY <1>2, <1>4, <2>1, <2>2, <2>3 DEF IInv, TypeOK, ModsType
<1>6. Handles'
  BY <1>1, <1>2, <1>3 DEF IInv, TypeOK, Handles
<1>7. Phases'
  BY <1>1, <1>2, <1>3 DEF IInv, Phases
<1>8. Unloading'
  BY <1>1, <1>2, <1>3 DEF IInv, Unloading, Busy
<1>9. Owners'
  BY <1>2, <1>3, <1>4 DEF IInv, TypeOK, Owners, OwnerWhileLoaded
<1>10. Patches'
  <2>1. \A a \in Sites : code'[a] = IF a = Site[m] THEN new ELSE code[a]
    BY <1>2 DEF IInv, TypeOK
  <2>2. \A h \in DOMAIN mods : Site[mods[h].mod] \in Sites /\ h # 0
    BY DEF IInv, TypeOK
  <2>3. patchAddresses \subseteq Sites /\ new # 0
    BY <1>1 DEF IInv, TypeOK
  <2> QED
    BY <1>1, <1>2, <1>3, <2>1, <2>2, <2>3 DEF IInv, Patches
<1> QED
  BY <1>5, <1>6, <1>7, <1>8, <1>9, <1>10 DEF IInv

LEMMA StartTitleInvariant ==
  ASSUME IInv, StartTitle
  PROVE  IInv'
<1>1. TypeOK'
  BY DEF StartTitle, IInv, TypeOK, States
<1>2. Handles'
  BY DEF StartTitle, IInv, TypeOK, Handles
<1>3. Phases'
  BY DEF StartTitle, IInv, TypeOK, Handles, Phases
<1>4. Unloading'
  BY DEF StartTitle, IInv, TypeOK, Unloading, Busy
<1>5. Owners'
  BY DEF StartTitle, IInv, TypeOK, Handles, Unloading, Busy, Owners, OwnerWhileLoaded
<1>6. Patches'
  BY DEF StartTitle, IInv, TypeOK, Handles, Patches
<1> QED
  BY <1>1, <1>2, <1>3, <1>4, <1>5, <1>6 DEF IInv

LEMMA PrepareUnloadInvariant ==
  ASSUME IInv, NEW u \in Unloaders, NEW h \in DOMAIN mods, PrepareUnload(u, h)
  PROVE  IInv'
<1>1. /\ h \in 1..LastHandle /\ title = "running" /\ unloader[u].pc = "idle"
      /\ \A v \in Unloaders : unloader[v].pc # "releasing"
      /\ UNCHANGED <<title, nextHandle, nextGeneration, core, owner, code, patchAddresses, caves, sessions>>
  BY DEF PrepareUnload, IInv, TypeOK
<1>2. CASE mods[h].state = "Loaded"
  <2>1. SetState(h, "Preparing") /\ Call(h, 0) /\ Go(u, "preparing", h)
    BY <1>2 DEF PrepareUnload
  <2>2. /\ DOMAIN mods' = DOMAIN mods
        /\ mods'[h].state = "Preparing" /\ mods'[h].mod = mods[h].mod
        /\ \A g \in DOMAIN mods : g # h => mods'[g] = mods[g]
        /\ \A g \in DOMAIN mods : mods'[g] \in [mod : Mods, state : States]
    BY <2>1, SetStateUpdate DEF IInv, States
  <2>3. /\ UnloaderType' /\ unloader'[u].pc = "preparing" /\ unloader'[u].handle = h
        /\ \A v \in Unloaders : v # u => unloader'[v] = unloader[v]
    BY <1>1, <2>1, GoUpdate DEF IInv
  <2>4. /\ CallsType' /\ calls'[h] = IF mods[h].mod \in Versioned THEN Append(calls[h], 0) ELSE calls[h]
        /\ \A g \in 1..LastHandle : g # h => calls'[g] = calls[g]
    BY <1>1, <2>1, CallUpdate DEF IInv
  <2>5. calls'[h] = IF mods[h].mod \in Versioned THEN <<0>> ELSE <<>>
    BY <1>2, <2>4, Phase01 DEF IInv, Phases
  <2>6. TypeOK'
    BY <1>1, <2>2, <2>3, <2>4 DEF IInv, TypeOK, UnloaderType, CallsType
  <2>7. Handles'
    BY <1>1, <2>2, <2>4 DEF IInv, TypeOK, Handles
  <2>8. Phases'
    <3>1. \A g \in 1..LastHandle : calls'[g] \in {<<>>, <<0>>, <<0, 1>>}
      BY <2>4, <2>5 DEF IInv, Phases
    <3>2. \A g \in DOMAIN mods : g # h => mods'[g] = mods[g] /\ calls'[g] = calls[g]
      BY <2>2, <2>4 DEF IInv, TypeOK
    <3> QED
      BY <2>2, <2>5, <3>1, <3>2 DEF IInv, Phases
  <2>9. Unloading'
    <3>1. \A v \in Unloaders : Busy(v) => v # u /\ unloader[v].handle # h
      BY <1>1, <1>2 DEF IInv, Unloading, Busy
    <3>2. \A v \in Unloaders : Busy(v) => unloader[v].handle \in DOMAIN mods
      BY DEF IInv, Unloading
    <3>3. \A v \in Unloaders : v # u /\ Busy(v) =>
            /\ unloader[v].pc # "releasing" /\ unloader[v].handle \in DOMAIN mods'
            /\ mods'[unloader[v].handle] = mods[unloader[v].handle]
            /\ unloader[v].handle # unloader'[u].handle
      BY <1>1, <2>2, <2>3, <3>1, <3>2
    <3>4. /\ title' = "running" /\ unloader'[u].handle \in DOMAIN mods'
          /\ mods'[unloader'[u].handle].state = "Preparing"
      BY <1>1, <2>2, <2>3
    <3>5. Unloading
      BY DEF IInv
    <3> QED
      BY <2>3, <3>3, <3>4, <3>5, UnloadingStep
  <2>10. Owners'
    BY <1>1, <2>2 DEF IInv, Owners, OwnerWhileLoaded
  <2>11. Patches'
    BY <1>1, <1>2, <2>2 DEF IInv, Patches
  <2> QED
    BY <2>6, <2>7, <2>8, <2>9, <2>10, <2>11 DEF IInv
<1>3. CASE mods[h].state # "Loaded"
  <2>1. Go(u, "prepared", h) /\ UNCHANGED <<mods, calls>>
    BY <1>3 DEF PrepareUnload
  <2>2. /\ UnloaderType' /\ unloader'[u].pc = "prepared"
        /\ \A v \in Unloaders : v # u => unloader'[v] = unloader[v]
    BY <1>1, <2>1, GoUpdate DEF IInv
  <2>3. TypeOK'
    BY <1>1, <2>1, <2>2 DEF IInv, TypeOK, UnloaderType
  <2>4. Handles' /\ Phases' /\ Owners' /\ Patches'
    BY <1>1, <2>1 DEF IInv, Handles, Phases, Owners, OwnerWhileLoaded, Patches
  <2>5. Unloading'
    BY <1>1, <2>1, <2>2 DEF IInv, Unloading, Busy
  <2> QED
    BY <2>3, <2>4, <2>5 DEF IInv
<1> QED
  BY <1>2, <1>3

LEMMA PreparedInvariant ==
  ASSUME IInv, NEW u \in Unloaders, Prepared(u)
  PROVE  IInv'
<1> DEFINE h == unloader[u].handle
<1>1. /\ h \in DOMAIN mods /\ h \in 1..LastHandle /\ mods[h].state = "Preparing"
      /\ mods[h].mod \in Mods /\ title = "running" /\ Busy(u)
      /\ \A v \in Unloaders : unloader[v].pc # "releasing"
  BY DEF Prepared, IInv, TypeOK, Unloading, Busy
<1>2. /\ code' = [code EXCEPT ![Site[mods[h].mod]] = 0]
      /\ patchAddresses' = patchAddresses \ {Site[mods[h].mod]}
      /\ SetState(h, "Prepared") /\ Go(u, "prepared", h)
      /\ UNCHANGED <<title, nextHandle, nextGeneration, core, owner, caves, calls, sessions>>
  BY <1>1 DEF Prepared
<1>3. /\ DOMAIN mods' = DOMAIN mods
      /\ mods'[h].state = "Prepared" /\ mods'[h].mod = mods[h].mod
      /\ \A g \in DOMAIN mods : g # h => mods'[g] = mods[g]
      /\ \A g \in DOMAIN mods : mods'[g] \in [mod : Mods, state : States]
  BY <1>1, <1>2, SetStateUpdate DEF IInv, States
<1>4. /\ UnloaderType' /\ unloader'[u].pc = "prepared"
      /\ \A v \in Unloaders : v # u => unloader'[v] = unloader[v]
  BY <1>1, <1>2, GoUpdate DEF IInv
<1>5. TypeOK'
  BY <1>1, <1>2, <1>3, <1>4 DEF IInv, TypeOK, UnloaderType
<1>6. Handles'
  BY <1>2, <1>3 DEF IInv, Handles
<1>7. Phases'
  BY <1>1, <1>2, <1>3 DEF IInv, Phases
<1>8. Unloading'
  <2>1. \A v \in Unloaders : v # u /\ Busy(v) => unloader[v].handle \in DOMAIN mods \ {h}
    BY <1>1 DEF IInv, Unloading
  <2> QED
    BY <1>1, <1>2, <1>3, <1>4, <2>1, UnloadingStep DEF IInv, Busy
<1>9. Owners'
  BY <1>2, <1>3 DEF IInv, Owners, OwnerWhileLoaded
<1>10. Patches'
  <2>1. \A a \in Sites : code'[a] = IF a = Site[mods[h].mod] THEN 0 ELSE code[a]
    BY <1>2 DEF IInv, TypeOK
  <2>2. \A g \in DOMAIN mods : Site[mods[g].mod] \in Sites
    BY DEF IInv, TypeOK
  <2>3. code[Site[mods[h].mod]] = h
    BY <1>1 DEF IInv, Patches
  <2>4. patchAddresses \subseteq Sites /\ h # 0
    BY <1>1 DEF IInv, TypeOK
  <2> QED
    <3>1. \A g \in DOMAIN mods' : Claims(g)' => g # h /\ Claims(g) /\ mods'[g] = mods[g]
      BY <1>3
    <3>2. \A g \in DOMAIN mods : g # h /\ Claims(g) => Site[mods[g].mod] # Site[mods[h].mod]
      BY <2>3 DEF IInv, Patches
    <3>3. \A g \in DOMAIN mods' : Claims(g)' =>
            code'[Site[mods'[g].mod]] = g /\ Site[mods'[g].mod] \in patchAddresses'
      BY <1>2, <1>3, <2>1, <2>2, <3>1, <3>2 DEF IInv, Patches
    <3>4. \A a \in Sites : code'[a] # 0 => code'[a] # h /\ code'[a] = code[a] /\ code[a] # 0
      BY <1>1, <2>1, <2>4 DEF IInv, Patches
    <3>5. \A a \in Sites : code'[a] # 0 =>
            /\ code'[a] \in DOMAIN mods' /\ mods'[code'[a]].state \in {"Loaded", "Preparing"}
            /\ Site[mods'[code'[a]].mod] = a
      BY <1>3, <3>4 DEF IInv, Patches
    <3>6. \A a \in patchAddresses' : code'[a] # 0
      BY <1>2, <2>1, <2>4 DEF IInv, Patches
    <3> QED
      BY <3>3, <3>5, <3>6 DEF Patches
<1> QED
  BY <1>5, <1>6, <1>7, <1>8, <1>9, <1>10 DEF IInv

LEMMA GiveUpInvariant ==
  ASSUME IInv, NEW u \in Unloaders, GiveUp(u)
  PROVE  IInv'
<1>1. /\ Go(u, "idle", 0)
      /\ UNCHANGED <<title, nextHandle, nextGeneration, core, mods, owner, code,
                     patchAddresses, caves, calls, sessions>>
  BY DEF GiveUp
<1>2. /\ UnloaderType' /\ unloader'[u].pc = "idle"
      /\ \A v \in Unloaders : v # u => unloader'[v] = unloader[v]
  BY <1>1, GoUpdate DEF IInv
<1>3. TypeOK'
  BY <1>1, <1>2 DEF IInv, TypeOK, UnloaderType
<1>4. Handles' /\ Phases' /\ Owners' /\ Patches'
  BY <1>1 DEF IInv, Handles, Phases, Owners, OwnerWhileLoaded, Patches
<1>5. Unloading'
  BY <1>1, <1>2 DEF IInv, Unloading, Busy
<1> QED
  BY <1>3, <1>4, <1>5 DEF IInv

LEMMA FinishUnloadInvariant ==
  ASSUME IInv, NEW u \in Unloaders, FinishUnload(u)
  PROVE  IInv'
<1> DEFINE h == unloader[u].handle
<1>1. /\ unloader[u].pc = "prepared" /\ title = "running"
      /\ \A v \in Unloaders : unloader[v].pc # "releasing"
      /\ UNCHANGED <<title, nextHandle, nextGeneration, core, owner, code, patchAddresses, caves, sessions>>
  BY DEF FinishUnload, IInv, Unloading
<1>2. CASE h \in DOMAIN mods /\ mods[h].state = "Prepared"
  <2>1. SetState(h, "Finishing") /\ Call(h, 1) /\ Go(u, "finishing", h) /\ h \in 1..LastHandle
    BY <1>2 DEF FinishUnload, IInv, TypeOK
  <2>2. /\ DOMAIN mods' = DOMAIN mods
        /\ mods'[h].state = "Finishing" /\ mods'[h].mod = mods[h].mod
        /\ \A g \in DOMAIN mods : g # h => mods'[g] = mods[g]
        /\ \A g \in DOMAIN mods : mods'[g] \in [mod : Mods, state : States]
    BY <1>2, <2>1, SetStateUpdate DEF IInv, States
  <2>3. /\ UnloaderType' /\ unloader'[u].pc = "finishing" /\ unloader'[u].handle = h
        /\ \A v \in Unloaders : v # u => unloader'[v] = unloader[v]
    BY <2>1, GoUpdate DEF IInv
  <2>4. /\ CallsType' /\ calls'[h] = IF mods[h].mod \in Versioned THEN Append(calls[h], 1) ELSE calls[h]
        /\ \A g \in 1..LastHandle : g # h => calls'[g] = calls[g]
    BY <2>1, CallUpdate DEF IInv
  <2>5. calls'[h] = IF mods[h].mod \in Versioned THEN <<0, 1>> ELSE <<>>
    <3>1. calls[h] = IF mods[h].mod \in Versioned THEN <<0>> ELSE <<>>
      BY <1>2 DEF IInv, Phases
    <3> QED
      BY <2>4, <3>1, Phase01
  <2>6. TypeOK'
    BY <1>1, <2>2, <2>3, <2>4 DEF IInv, TypeOK, UnloaderType, CallsType
  <2>7. Handles'
    BY <1>1, <1>2, <2>2, <2>4 DEF IInv, Handles, TypeOK
  <2>8. Phases'
    BY <1>2, <2>2, <2>4, <2>5 DEF IInv, TypeOK, Phases
  <2>9. Unloading'
    <3>1. \A v \in Unloaders : Busy(v) => v # u /\ unloader[v].handle # h
      BY <1>1, <1>2 DEF IInv, Unloading, Busy
    <3>2. \A v \in Unloaders : Busy(v) => unloader[v].handle \in DOMAIN mods
      BY DEF IInv, Unloading
    <3>3. \A v \in Unloaders : v # u /\ Busy(v) =>
            /\ unloader[v].pc # "releasing" /\ unloader[v].handle \in DOMAIN mods'
            /\ mods'[unloader[v].handle] = mods[unloader[v].handle]
            /\ unloader[v].handle # unloader'[u].handle
      BY <1>1, <2>2, <2>3, <3>1, <3>2
    <3>4. /\ title' = "running" /\ unloader'[u].handle \in DOMAIN mods'
          /\ mods'[unloader'[u].handle].state = "Finishing"
      BY <1>1, <1>2, <2>2, <2>3
    <3>5. Unloading
      BY DEF IInv
    <3> QED
      BY <2>3, <3>3, <3>4, <3>5, UnloadingStep
  <2>10. Owners'
    BY <1>1, <2>2 DEF IInv, Owners, OwnerWhileLoaded
  <2>11. Patches'
    BY <1>1, <1>2, <2>2 DEF IInv, Patches
  <2> QED
    BY <2>6, <2>7, <2>8, <2>9, <2>10, <2>11 DEF IInv
<1>3. CASE ~(h \in DOMAIN mods /\ mods[h].state = "Prepared")
  <2>1. Go(u, "idle", 0) /\ UNCHANGED <<mods, calls>>
    BY <1>3 DEF FinishUnload
  <2>2. /\ UnloaderType' /\ unloader'[u].pc = "idle"
        /\ \A v \in Unloaders : v # u => unloader'[v] = unloader[v]
    BY <2>1, GoUpdate DEF IInv
  <2>3. TypeOK'
    BY <1>1, <2>1, <2>2 DEF IInv, TypeOK, UnloaderType
  <2>4. Handles' /\ Phases' /\ Owners' /\ Patches'
    BY <1>1, <2>1 DEF IInv, Handles, Phases, Owners, OwnerWhileLoaded, Patches
  <2>5. Unloading'
    BY <1>1, <2>1, <2>2 DEF IInv, Unloading, Busy
  <2> QED
    BY <2>3, <2>4, <2>5 DEF IInv
<1> QED
  BY <1>2, <1>3

LEMMA FinishedInvariant ==
  ASSUME IInv, NEW u \in Unloaders, Finished(u)
  PROVE  IInv'
<1> DEFINE h == unloader[u].handle
<1>1. /\ h \in DOMAIN mods /\ h \in 1..LastHandle /\ mods[h].state = "Finishing"
      /\ title = "running" /\ Busy(u)
      /\ \A v \in Unloaders : unloader[v].pc # "releasing"
      /\ UNCHANGED <<title, nextHandle, nextGeneration, core, owner, code, patchAddresses, calls>>
  BY DEF Finished, IInv, TypeOK, Unloading, Busy
<1>2. CASE DOMAIN mods = {h}
  <2>1. sessions' = sessions \ {owner.generation} /\ Go(u, "releasing", h) /\ UNCHANGED <<mods, caves>>
    BY <1>1, <1>2 DEF Finished
  <2>2. /\ UnloaderType' /\ unloader'[u].pc = "releasing" /\ unloader'[u].handle = h
        /\ \A v \in Unloaders : v # u => unloader'[v] = unloader[v]
    BY <1>1, <2>1, GoUpdate DEF IInv
  <2>3. TypeOK'
    BY <1>1, <2>1, <2>2 DEF IInv, TypeOK, UnloaderType
  <2>4. Handles' /\ Phases' /\ Patches'
    BY <1>1, <2>1 DEF IInv, Handles, Phases, Patches
  <2>5. Unloading'
    BY <1>1, <1>2, <2>1, <2>2 DEF IInv, Unloading, Busy
  <2>6. Owners'
    BY <1>1, <2>1 DEF IInv, Owners, OwnerWhileLoaded
  <2> QED
    BY <2>3, <2>4, <2>5, <2>6 DEF IInv
<1>3. CASE DOMAIN mods # {h}
  <2>1. mods' = Without(h) /\ caves' = caves \ {h} /\ Go(u, "idle", 0) /\ UNCHANGED sessions
    BY <1>1, <1>3 DEF Finished
  <2>2. /\ DOMAIN mods' = DOMAIN mods \ {h}
        /\ \A g \in DOMAIN mods' : mods'[g] = mods[g]
    BY <1>1, <2>1, WithoutUpdate DEF IInv
  <2>3. /\ UnloaderType' /\ unloader'[u].pc = "idle"
        /\ \A v \in Unloaders : v # u => unloader'[v] = unloader[v]
    BY <2>1, GoUpdate DEF IInv
  <2>4. TypeOK'
    BY <1>1, <2>1, <2>2, <2>3 DEF IInv, TypeOK, UnloaderType
  <2>5. Handles' /\ Phases'
    BY <1>1, <2>1, <2>2 DEF IInv, Handles, Phases
  <2>6. Unloading'
    <3>1. \A v \in Unloaders : v # u /\ Busy(v) => unloader[v].handle \in DOMAIN mods \ {h}
      BY <1>1 DEF IInv, Unloading
    <3> QED
      BY <1>1, <2>2, <2>3, <3>1, UnloadingStep DEF IInv, Busy
  <2>7. Owners'
    BY <1>1, <1>3, <2>1, <2>2 DEF IInv, Owners, OwnerWhileLoaded
  <2>8. Patches'
    BY <1>1, <2>2 DEF IInv, Patches
  <2> QED
    BY <2>4, <2>5, <2>6, <2>7, <2>8 DEF IInv
<1> QED
  BY <1>2, <1>3

LEMMA ReleaseLastInvariant ==
  ASSUME IInv, NEW u \in Unloaders, ReleaseLast(u)
  PROVE  IInv'
<1> DEFINE h == unloader[u].handle
<1>1. /\ DOMAIN mods = {h} /\ h \in 1..LastHandle /\ mods[h].state = "Finishing"
      /\ title = "running" /\ Busy(u)
  BY DEF ReleaseLast, IInv, TypeOK, Unloading, Busy
<1>2. /\ mods' = Without(h) /\ caves' = caves \ {h}
      /\ owner' = [generation |-> 0, stopped |-> FALSE]
      /\ Go(u, "idle", 0)
      /\ UNCHANGED <<title, nextHandle, nextGeneration, core, code, patchAddresses, calls, sessions>>
  BY DEF ReleaseLast
<1>3. DOMAIN mods' = {}
  BY <1>1, <1>2, WithoutUpdate DEF IInv
<1>4. /\ UnloaderType' /\ unloader'[u].pc = "idle"
      /\ \A v \in Unloaders : v # u => unloader'[v] = unloader[v]
  BY <1>2, GoUpdate DEF IInv
<1>5. TypeOK'
  BY <1>1, <1>2, <1>3, <1>4 DEF IInv, TypeOK, UnloaderType
<1>6. Handles' /\ Phases'
  BY <1>1, <1>2, <1>3 DEF IInv, Handles, Phases
<1>7. Unloading'
  BY <1>1, <1>2, <1>3, <1>4 DEF IInv, Unloading, Busy
<1>8. Owners'
  BY <1>2, <1>3 DEF IInv, TypeOK, Owners, OwnerWhileLoaded
<1>9. Patches'
  BY <1>1, <1>2, <1>3 DEF IInv, Patches
<1> QED
  BY <1>5, <1>6, <1>7, <1>8, <1>9 DEF IInv

LEMMA FetchOwnerInvariant ==
  ASSUME IInv, NEW c \in Cores, FetchOwner(c)
  PROVE  IInv'
<1>1. TypeOK'
  BY DEF FetchOwner, IInv, TypeOK, States
<1>2. Handles'
  BY DEF FetchOwner, IInv, TypeOK, Handles
<1>3. Phases'
  BY DEF FetchOwner, IInv, TypeOK, Handles, Phases
<1>4. Unloading'
  BY DEF FetchOwner, IInv, TypeOK, Unloading, Busy
<1>5. Owners'
  BY DEF FetchOwner, IInv, TypeOK, Handles, Unloading, Busy, Owners, OwnerWhileLoaded
<1>6. Patches'
  BY DEF FetchOwner, IInv, TypeOK, Handles, Patches
<1> QED
  BY <1>1, <1>2, <1>3, <1>4, <1>5, <1>6 DEF IInv

LEMMA UseOwnerInvariant ==
  ASSUME IInv, NEW c \in Cores, UseOwner(c)
  PROVE  IInv'
<1>1. TypeOK'
  BY DEF UseOwner, IInv, TypeOK, States
<1>2. Handles'
  BY DEF UseOwner, IInv, TypeOK, Handles
<1>3. Phases'
  BY DEF UseOwner, IInv, TypeOK, Handles, Phases
<1>4. Unloading'
  BY DEF UseOwner, IInv, TypeOK, Unloading, Busy
<1>5. Owners'
  BY DEF UseOwner, IInv, TypeOK, Handles, Unloading, Busy, Owners, OwnerWhileLoaded
<1>6. Patches'
  BY DEF UseOwner, IInv, TypeOK, Handles, Patches
<1> QED
  BY <1>1, <1>2, <1>3, <1>4, <1>5, <1>6 DEF IInv

LEMMA SchedulerEndInvariant ==
  ASSUME IInv, SchedulerEnd
  PROVE  IInv'
<1>1. TypeOK'
  BY DEF SchedulerEnd, IInv, TypeOK, States
<1>2. Handles'
  BY DEF SchedulerEnd, IInv, TypeOK, Handles
<1>3. Phases'
  BY DEF SchedulerEnd, IInv, TypeOK, Handles, Phases
<1>4. Unloading'
  BY DEF SchedulerEnd, IInv, TypeOK, Unloading, Busy
<1>5. Owners'
  BY DEF SchedulerEnd, IInv, TypeOK, Handles, Unloading, Busy, Owners, OwnerWhileLoaded
<1>6. Patches'
  BY DEF SchedulerEnd, IInv, TypeOK, Handles, Patches
<1> QED
  BY <1>1, <1>2, <1>3, <1>4, <1>5, <1>6 DEF IInv

LEMMA AbandonInvariant ==
  ASSUME IInv, AbandonAllForTitleShutdown
  PROVE  IInv'
<1> DEFINE restored == {Site[mods[h].mod] : h \in {g \in DOMAIN mods : Claims(g)}}
<1>1. /\ title = "stopped" /\ mods' = <<>> /\ caves' = {}
      /\ owner' = [generation |-> 0, stopped |-> FALSE]
      /\ code' = [a \in Sites |-> IF a \in restored THEN 0 ELSE code[a]]
      /\ patchAddresses' = patchAddresses \ restored
      /\ sessions' \subseteq sessions
      /\ UNCHANGED <<title, nextHandle, nextGeneration, calls, unloader, core>>
  BY DEF AbandonAllForTitleShutdown
<1>2. DOMAIN mods' = {}
  BY <1>1
<1>3. \A a \in Sites : code[a] # 0 => a \in restored
  BY DEF IInv, Patches
<1> HIDE DEF restored
<1>4. \A a \in Sites : code'[a] = 0
  BY <1>1, <1>3
<1>5. patchAddresses' = {}
  <2>1. patchAddresses \subseteq restored
    BY <1>3 DEF IInv, Patches, TypeOK
  <2> QED
    BY <1>1, <2>1
<1>6. TypeOK'
  <2>1. code' \in [Sites -> 0..LastHandle]
    BY <1>1 DEF IInv, TypeOK
  <2>2. sessions' \subseteq Nat /\ ModsType'
    BY <1>1, <1>2 DEF IInv, TypeOK, ModsType
  <2> QED
    BY <1>1, <1>5, <2>1, <2>2 DEF IInv, TypeOK, ModsType
<1>7. Handles'
  BY <1>1, <1>2 DEF IInv, Handles
<1>8. Phases'
  BY <1>1, <1>2 DEF IInv, Phases
<1>9. Unloading'
  BY <1>1 DEF IInv, Unloading, Busy
<1>10. Owners'
  BY <1>1, <1>2 DEF IInv, TypeOK, Owners, OwnerWhileLoaded
<1>11. Patches'
  BY <1>2, <1>4, <1>5 DEF Patches
<1> QED
  BY <1>6, <1>7, <1>8, <1>9, <1>10, <1>11 DEF IInv

LEMMA NextTitleInvariant ==
  ASSUME IInv, NextTitle
  PROVE  IInv'
<1>1. TypeOK'
  BY DEF NextTitle, IInv, TypeOK, States
<1>2. Handles'
  BY DEF NextTitle, IInv, TypeOK, Handles
<1>3. Phases'
  BY DEF NextTitle, IInv, TypeOK, Handles, Phases
<1>4. Unloading'
  BY DEF NextTitle, IInv, TypeOK, Unloading, Busy
<1>5. Owners'
  BY DEF NextTitle, IInv, TypeOK, Handles, Unloading, Busy, Owners, OwnerWhileLoaded
<1>6. Patches'
  BY DEF NextTitle, IInv, TypeOK, Handles, Patches
<1> QED
  BY <1>1, <1>2, <1>3, <1>4, <1>5, <1>6 DEF IInv

-----------------------------------------------------------------------------
\* The inductive invariant holds in every reachable state: it starts true, and
\* every action of loading, unloading, calling CEX2 and ending a title keeps it.
THEOREM Invariant == Spec => []IInv
<1>1. Init => IInv
  BY InitInvariant
<1>2. ASSUME IInv, [Next]_vars PROVE IInv'
  <2>1. CASE UNCHANGED vars
    <3> USE <1>2, <2>1 DEF vars, IInv
    <3>1. TypeOK' /\ Handles'
      BY DEF TypeOK, Handles
    <3>2. Phases' /\ Unloading'
      BY DEF Phases, Unloading, Busy
    <3>3. Owners' /\ Patches'
      BY DEF Owners, OwnerWhileLoaded, Patches
    <3> QED
      BY <3>1, <3>2, <3>3
  <2>2. ASSUME NEW m \in Mods, Load(m) PROVE IInv'
    BY <1>2, <2>2, LoadInvariant
  <2>3. ASSUME NEW c \in Cores, FetchOwner(c) \/ UseOwner(c) PROVE IInv'
    BY <1>2, <2>3, FetchOwnerInvariant, UseOwnerInvariant
  <2>4. ASSUME NEW u \in Unloaders, Unload(u) PROVE IInv'
    BY <1>2, <2>4, PrepareUnloadInvariant, PreparedInvariant, GiveUpInvariant,
       FinishUnloadInvariant, FinishedInvariant, ReleaseLastInvariant DEF Unload
  <2>5. CASE StartTitle \/ SchedulerEnd \/ AbandonAllForTitleShutdown \/ NextTitle
    BY <1>2, <2>5, StartTitleInvariant, SchedulerEndInvariant, AbandonInvariant,
       NextTitleInvariant
  <2> QED
    BY <1>2, <2>1, <2>2, <2>3, <2>4, <2>5 DEF Next
<1> QED
  BY <1>1, <1>2, PTL DEF Spec

\* Type correctness of the runtime's state.
THEOREM TypeCorrect == Spec => []TypeOK
  BY Invariant, PTL DEF IInv

\* No order of loads, half-done unloads and title ends leaves a partial patch or
\* lets two mods patch one instruction.
THEOREM PatchesCorrect == Spec => []PatchesExact
<1>1. ASSUME IInv PROVE PatchesExact
  <2> SUFFICES ASSUME NEW a \in Sites
               PROVE  LET claiming == {h \in DOMAIN mods : Claims(h) /\ Site[mods[h].mod] = a} IN
                        IF claiming = {} THEN code[a] = 0 /\ a \notin patchAddresses
                        ELSE claiming = {code[a]} /\ a \in patchAddresses
    BY DEF PatchesExact
  <2> DEFINE claiming == {h \in DOMAIN mods : Claims(h) /\ Site[mods[h].mod] = a}
  <2>1. code[a] # 0 => code[a] \in claiming
    BY <1>1 DEF IInv, Patches
  <2>2. \A h \in claiming : code[a] = h /\ a \in patchAddresses
    BY <1>1 DEF IInv, Patches
  <2>3. a \in patchAddresses => code[a] # 0
    BY <1>1 DEF IInv, Patches
  <2> QED
    BY <2>1, <2>2, <2>3
<1> QED
  BY Invariant, <1>1, PTL

\* However many threads unload a mod, its shutdown handler runs phase 0, then
\* phase 1 when nothing branches to the mod, each at most once.
THEOREM ShutdownCorrect == Spec => []ShutdownInOrder
<1>1. ASSUME IInv PROVE ShutdownInOrder
  <2>1. \A h \in 1..LastHandle : calls[h] \in {<<>>, <<0>>, <<0, 1>>}
    BY <1>1 DEF IInv, Phases
  <2>2. ASSUME NEW h \in 1..LastHandle, calls[h] = <<0, 1>>, NEW a \in Sites, code[a] = h
        PROVE  FALSE
    <3>1. h \in DOMAIN mods /\ mods[h].state \in {"Loaded", "Preparing"}
      BY <1>1, <2>2 DEF IInv, Patches
    <3>2. calls[h] \in {<<>>, <<0>>}
      BY <1>1, <3>1 DEF IInv, Phases
    <3>3. Len(<<0, 1>>) = 2 /\ Len(<<0>>) = 1 /\ Len(<<>>) = 0
      OBVIOUS
    <3> QED
      BY <2>2, <3>2, <3>3
  <2> QED
    BY <2>1, <2>2 DEF ShutdownInOrder
<1> QED
  BY Invariant, <1>1, PTL

\* The codecave of an instance is held exactly as long as the instance, and so
\* while its shutdown handler runs.
THEOREM CaveCorrect == Spec => []CaveWhileNeeded
<1>1. ASSUME IInv PROVE CaveWhileNeeded
  BY <1>1 DEF IInv, Handles, Unloading, Busy, CaveWhileNeeded
<1> QED
  BY Invariant, <1>1, PTL

\* The shared owner exists exactly while a mod is loaded, and no generation is
\* given out twice.
THEOREM OwnerCorrect == Spec => []OwnerWhileLoaded
  BY Invariant, PTL DEF IInv, Owners
=============================================================================
