--------------------------- MODULE TrustedRuntime ---------------------------
(***************************************************************************)
(* The runtime of trusted native mods (TrustedCemodRuntime.cpp): loading   *)
(* patches one instruction of the title, unloading runs the mod's shutdown *)
(* handler twice around restoring it, and all mods of a title share one    *)
(* owner of CEX2 sessions.  Emulated cores that call CEX2 hold a raw       *)
(* pointer to that owner.                                                  *)
(*                                                                         *)
(* Each action is one critical section of Impl::mutex, except that         *)
(* ReleaseLocked calls the CEX2 host in between and is two.                *)
(***************************************************************************)
EXTENDS Naturals, Sequences, FiniteSets

CONSTANTS
  Mods,       \* mod_ids of packages for the title
  Site,       \* Site[m]: the instruction the bootstrap record of m matches
  Versioned,  \* the mods whose CMB1 table is version 2: a shutdown handler
  Cores,      \* emulated cores
  Unloaders,  \* threads that call Unload
  LastHandle  \* bound: handles given out in a behaviour

ASSUME ConstantsAssumption ==
  /\ Versioned \subseteq Mods
  /\ DOMAIN Site = Mods
  /\ LastHandle \in Nat

VARIABLES
  title,           \* "loading", "running" or "stopped" (scheduler ended)
  mods,            \* handle -> [mod, state]
  nextHandle, nextGeneration,
  owner,           \* the shared owner: [generation, stopped], or NoOwner
  code,            \* per site: 0, or the handle whose branch was written there
  patchAddresses,  \* the claimed sites
  caves,           \* handles whose codecave allocation is held
  calls,           \* per handle: the phases its shutdown handler was called with
  unloader,        \* per thread: [pc, handle]
  core,            \* per core: generation of the owner it fetched, 0 for none
  sessions         \* generations of the trusted owners with a session in the host

vars == <<title, mods, nextHandle, nextGeneration, owner, code, patchAddresses,
          caves, calls, unloader, core, sessions>>

Sites == {Site[m] : m \in Mods}
NoOwner == [generation |-> 0, stopped |-> FALSE]
Idle == [pc |-> "idle", handle |-> 0]

Claims(h) == mods[h].state \in {"Loaded", "Preparing"}

\* Impl::mutex is held across the two halves of ReleaseLocked only.
Free == \A u \in Unloaders : unloader[u].pc # "releasing"

\* PrepareUnload runs while all other cores are stopped.
CoresRun == title = "running" /\ \A u \in Unloaders : unloader[u].pc # "preparing"

Init ==
  /\ title = "loading"
  /\ mods = <<>>
  /\ nextHandle = 1 /\ nextGeneration = 1
  /\ owner = NoOwner
  /\ code = [a \in Sites |-> 0]
  /\ patchAddresses = {}
  /\ caves = {}
  /\ calls = [h \in 1..LastHandle |-> <<>>]
  /\ unloader = [u \in Unloaders |-> Idle]
  /\ core = [c \in Cores |-> 0]
  /\ sessions = {}

At(u, pc) == unloader[u].pc = pc

Go(u, pc, h) == unloader' = [unloader EXCEPT ![u] = [pc |-> pc, handle |-> h]]

SetState(h, state) == mods' = [mods EXCEPT ![h].state = state]

Without(h) == [g \in DOMAIN mods \ {h} |-> mods[g]]

-----------------------------------------------------------------------------
\* A refused package leaves nothing behind: no action.
Load(m) ==
  /\ title = "loading" /\ Free
  /\ \A h \in DOMAIN mods : mods[h].mod # m
  /\ Site[m] \notin patchAddresses
  /\ code[Site[m]] = 0
  /\ nextHandle <= LastHandle
  /\ code' = [code EXCEPT ![Site[m]] = nextHandle]
  /\ patchAddresses' = patchAddresses \cup {Site[m]}
  /\ IF owner = NoOwner
     THEN /\ owner' = [generation |-> nextGeneration, stopped |-> FALSE]
          /\ nextGeneration' = nextGeneration + 1
     ELSE UNCHANGED <<owner, nextGeneration>>
  /\ nextHandle' = nextHandle + 1
  /\ caves' = caves \cup {nextHandle}
  /\ mods' = [h \in DOMAIN mods \cup {nextHandle} |->
                IF h = nextHandle THEN [mod |-> m, state |-> "Loaded"] ELSE mods[h]]
  /\ UNCHANGED <<title, calls, unloader, core, sessions>>

StartTitle ==
  /\ title = "loading"
  /\ title' = "running"
  /\ UNCHANGED <<mods, nextHandle, nextGeneration, owner, code, patchAddresses,
                 caves, calls, unloader, core, sessions>>

-----------------------------------------------------------------------------
\* Unload: PrepareUnload, then FinishUnload

\* The shutdown handler runs between the two critical sections of each.
Call(h, phase) ==
  calls' = IF mods[h].mod \in Versioned THEN [calls EXCEPT ![h] = Append(@, phase)] ELSE calls

UnloadUnchanged == UNCHANGED <<title, nextHandle, nextGeneration, core>>

\* A second thread may prepare what is being prepared.
MutantPrepareTwice(u, h) ==
  /\ title = "running" /\ Free
  /\ At(u, "idle") /\ h \in DOMAIN mods
  /\ \A c \in Cores : core[c] = 0
  /\ IF mods[h].state \in {"Loaded", "Preparing"}
     THEN SetState(h, "Preparing") /\ Call(h, 0) /\ Go(u, "preparing", h)
     ELSE mods[h].state = "Prepared" /\ Go(u, "prepared", h) /\ UNCHANGED <<mods, calls>>
  /\ UnloadUnchanged /\ UNCHANGED <<owner, code, patchAddresses, caves, sessions>>

PrepareUnload(u, h) ==
  /\ title = "running" /\ Free
  /\ At(u, "idle") /\ h \in DOMAIN mods
  /\ \A c \in Cores : core[c] = 0
  /\ IF mods[h].state = "Loaded"
     THEN SetState(h, "Preparing") /\ Call(h, 0) /\ Go(u, "preparing", h)
     ELSE mods[h].state = "Prepared" /\ Go(u, "prepared", h) /\ UNCHANGED <<mods, calls>>
  /\ UnloadUnchanged /\ UNCHANGED <<owner, code, patchAddresses, caves, sessions>>

\* The site stays claimed.
MutantPreparedKeepsClaim(u) ==
  LET h == unloader[u].handle IN
  /\ At(u, "preparing") /\ Free
  /\ code' = [code EXCEPT ![Site[mods[h].mod]] = 0]
  /\ SetState(h, "Prepared") /\ Go(u, "prepared", h)
  /\ UnloadUnchanged /\ UNCHANGED <<owner, patchAddresses, caves, calls, sessions>>

Prepared(u) ==
  LET h == unloader[u].handle IN
  /\ At(u, "preparing") /\ Free
  /\ IF h \in DOMAIN mods /\ mods[h].state = "Preparing"
     THEN /\ code' = [code EXCEPT ![Site[mods[h].mod]] = 0]
          /\ patchAddresses' = patchAddresses \ {Site[mods[h].mod]}
          /\ SetState(h, "Prepared") /\ Go(u, "prepared", h)
     ELSE Go(u, "idle", 0) /\ UNCHANGED <<mods, code, patchAddresses>>
  /\ UnloadUnchanged /\ UNCHANGED <<owner, caves, calls, sessions>>

\* FinishUnload could not be run on an emulated core.
GiveUp(u) ==
  /\ At(u, "prepared")
  /\ Go(u, "idle", 0)
  /\ UnloadUnchanged /\ UNCHANGED <<mods, owner, code, patchAddresses, caves, calls, sessions>>

\* No Finishing state: a second thread may finish what is being finished.
MutantFinishTwice(u) ==
  LET h == unloader[u].handle IN
  /\ At(u, "prepared") /\ Free
  /\ IF h \in DOMAIN mods /\ mods[h].state \in {"Prepared", "Finishing"}
     THEN SetState(h, "Finishing") /\ Call(h, 1) /\ Go(u, "finishing", h)
     ELSE Go(u, "idle", 0) /\ UNCHANGED <<mods, calls>>
  /\ UnloadUnchanged /\ UNCHANGED <<owner, code, patchAddresses, caves, sessions>>

FinishUnload(u) ==
  LET h == unloader[u].handle IN
  /\ At(u, "prepared") /\ Free
  /\ IF h \in DOMAIN mods /\ mods[h].state = "Prepared"
     THEN SetState(h, "Finishing") /\ Call(h, 1) /\ Go(u, "finishing", h)
     ELSE Go(u, "idle", 0) /\ UNCHANGED <<mods, calls>>
  /\ UnloadUnchanged /\ UNCHANGED <<owner, code, patchAddresses, caves, sessions>>

\* ReleaseLocked: the last instance first closes the owner's sessions, then
\* stops and destroys the owner.
Finished(u) ==
  LET h == unloader[u].handle IN
  /\ At(u, "finishing") /\ Free
  /\ IF h \notin DOMAIN mods \/ mods[h].state # "Finishing"
     THEN Go(u, "idle", 0) /\ UNCHANGED <<mods, caves, sessions>>
     ELSE IF DOMAIN mods = {h}
     THEN /\ sessions' = sessions \ {owner.generation}
          /\ Go(u, "releasing", h)
          /\ UNCHANGED <<mods, caves>>
     ELSE /\ caves' = caves \ {h}
          /\ mods' = Without(h)
          /\ Go(u, "idle", 0)
          /\ UNCHANGED sessions
  /\ UnloadUnchanged /\ UNCHANGED <<owner, code, patchAddresses, calls>>

\* The owner is kept for the next title.
MutantReleaseKeepsOwner(u) ==
  LET h == unloader[u].handle IN
  /\ At(u, "releasing")
  /\ caves' = caves \ {h}
  /\ mods' = Without(h)
  /\ owner' = [owner EXCEPT !.stopped = TRUE]
  /\ Go(u, "idle", 0)
  /\ UnloadUnchanged /\ UNCHANGED <<code, patchAddresses, calls, sessions>>

ReleaseLast(u) ==
  LET h == unloader[u].handle IN
  /\ At(u, "releasing")
  /\ caves' = caves \ {h}
  /\ mods' = Without(h)
  /\ owner' = NoOwner
  /\ Go(u, "idle", 0)
  /\ UnloadUnchanged /\ UNCHANGED <<code, patchAddresses, calls, sessions>>

-----------------------------------------------------------------------------
\* CEX2 calls of the cores

GuestUnchanged == UNCHANGED <<title, mods, nextHandle, nextGeneration, owner, code,
                              patchAddresses, caves, calls, unloader>>

\* CurrentOwner: the pointer leaves the critical section of Owner().
FetchOwner(c) ==
  /\ CoresRun /\ Free
  /\ core[c] = 0
  /\ owner # NoOwner /\ ~owner.stopped
  /\ core' = [core EXCEPT ![c] = owner.generation]
  /\ UNCHANGED sessions /\ GuestUnchanged

\* Cex2Host::Open, Close or another call with the pointer: Impl::mutex is not
\* held, so this may fall between the two halves of ReleaseLocked, or after it,
\* when what a dangling pointer reads is anything.
UseOwner(c) ==
  /\ CoresRun
  /\ core[c] # 0
  /\ sessions' \in {sessions, sessions \cup {core[c]}, sessions \ {core[c]}}
  /\ core' = [core EXCEPT ![c] = 0]
  /\ GuestUnchanged

-----------------------------------------------------------------------------
\* The end of a title

\* OSSchedulerEnd: queued host tasks are cancelled, host code on the cores ends
\* its critical section, and a shutdown handler that yielded never goes on.
SchedulerEnd ==
  /\ title = "running" /\ Free
  /\ \A c \in Cores : core[c] = 0
  /\ title' = "stopped"
  /\ unloader' = [u \in Unloaders |-> Idle]
  /\ UNCHANGED <<mods, nextHandle, nextGeneration, owner, code, patchAddresses,
                 caves, calls, core, sessions>>

\* Only the sites of instances that are still loaded are restored; the mutant
\* takes it that every instance was prepared.
MutantAbandonPrepared ==
  /\ title = "stopped"
  /\ mods' = <<>> /\ caves' = {} /\ owner' = NoOwner
  /\ sessions' = sessions \ {owner.generation}
  /\ UNCHANGED <<title, nextHandle, nextGeneration, code, patchAddresses, calls, unloader, core>>

AbandonAllForTitleShutdown ==
  LET restored == {Site[mods[h].mod] : h \in {g \in DOMAIN mods : Claims(g)}} IN
  /\ title = "stopped"
  /\ code' = [a \in Sites |-> IF a \in restored THEN 0 ELSE code[a]]
  /\ patchAddresses' = patchAddresses \ restored
  /\ mods' = <<>> /\ caves' = {} /\ owner' = NoOwner
  /\ sessions' = sessions \ {owner.generation}
  /\ UNCHANGED <<title, nextHandle, nextGeneration, calls, unloader, core>>

\* The module of the CEX2 functions is unmapped (CloseAll), and the next title
\* is loaded.
NextTitle ==
  /\ title = "stopped"
  /\ DOMAIN mods = {}
  /\ title' = "loading"
  /\ sessions' = {}
  /\ UNCHANGED <<mods, nextHandle, nextGeneration, owner, code, patchAddresses,
                 caves, calls, unloader, core>>

Unload(u) ==
  \/ \E h \in DOMAIN mods : PrepareUnload(u, h)
  \/ Prepared(u) \/ GiveUp(u) \/ FinishUnload(u) \/ Finished(u) \/ ReleaseLast(u)

Next ==
  \/ \E m \in Mods : Load(m)
  \/ \E c \in Cores : FetchOwner(c) \/ UseOwner(c)
  \/ \E u \in Unloaders : Unload(u)
  \/ StartTitle \/ SchedulerEnd \/ AbandonAllForTitleShutdown \/ NextTitle

Spec == Init /\ [][Next]_vars

-----------------------------------------------------------------------------
States == {"Loaded", "Preparing", "Prepared", "Finishing"}

TypeOK ==
  /\ title \in {"loading", "running", "stopped"}
  /\ DOMAIN mods \subseteq 1..LastHandle
  /\ \A h \in DOMAIN mods : mods[h] \in [mod : Mods, state : States]
  /\ nextHandle \in 1..(LastHandle + 1)
  /\ nextGeneration \in Nat \ {0}
  /\ owner \in [generation : Nat, stopped : BOOLEAN]
  /\ code \in [Sites -> 0..LastHandle]
  /\ patchAddresses \subseteq Sites
  /\ caves \subseteq 1..LastHandle
  /\ calls \in [1..LastHandle -> Seq({0, 1})]
  /\ unloader \in [Unloaders -> [pc : {"idle", "preparing", "prepared", "finishing", "releasing"},
                                 handle : 0..LastHandle]]
  /\ core \in [Cores -> Nat]
  /\ sessions \subseteq Nat

\* A site holds the branch of the one instance that claims it, and its original
\* instruction as soon as none does: no order of loads, half-done unloads and
\* title ends leaves a partial patch, or lets two mods patch one instruction
\* (README: no partial patch is left; the end of a title restores the
\* instructions).
PatchesExact ==
  \A a \in Sites :
    LET claiming == {h \in DOMAIN mods : Claims(h) /\ Site[mods[h].mod] = a} IN
      IF claiming = {} THEN code[a] = 0 /\ a \notin patchAddresses
      ELSE claiming = {code[a]} /\ a \in patchAddresses

\* The shutdown handler is called with 0 and then with 1, each at most once
\* however many threads unload the mod, and with 1 only when the branch to the
\* mod is gone.
ShutdownInOrder ==
  \A h \in 1..LastHandle :
    /\ calls[h] \in {<<>>, <<0>>, <<0, 1>>}
    /\ calls[h] = <<0, 1>> => \A a \in Sites : code[a] # h

\* The codecave of a mod stays allocated until its shutdown handler has returned
\* from the second phase, and is released with the instance.
CaveWhileNeeded ==
  /\ caves = DOMAIN mods
  /\ \A u \in Unloaders :
       unloader[u].pc \in {"preparing", "finishing", "releasing"} => unloader[u].handle \in caves

\* The owner lives exactly as long as some mod is loaded, and a new one never
\* has the generation of an earlier one.
OwnerWhileLoaded ==
  /\ DOMAIN mods # {} <=> owner # NoOwner
  /\ owner.generation < nextGeneration
  /\ \A g \in sessions : g < nextGeneration

\* The comment in ReleaseLocked: after the sessions that are left are closed,
\* new CEX2 operations are stopped.  A core that fetched the owner before can
\* open a session in between, and the session outlives its owner.
NoSessionOutlivesOwner == \A g \in sessions : g = owner.generation
=============================================================================
