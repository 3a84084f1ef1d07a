--------------------------- MODULE FunctionPatcher ---------------------------
(***************************************************************************)
(* The ledger of function patches (WupsFunctionPatcher.cpp) with the       *)
(* handles of the dynamic API over it (WupsFunctionPatcherFacade.cpp).     *)
(* A plugin's static descriptors are applied as one transaction whenever   *)
(* it starts, its end removes all its patches, guest code adds and removes *)
(* single patches through the facade, and the RPL loader reports modules   *)
(* that load and unload.                                                   *)
(*                                                                         *)
(* A transaction is prepared without the ledger's mutex: for each          *)
(* descriptor the revision of the module is read, then the target is       *)
(* resolved and its instruction read and a trampoline allocated.  The      *)
(* commit is one critical section.  What the critical section frees is     *)
(* freed here in the same step: in the code it is freed just after it, by  *)
(* a thread that is the only one to know those trampolines.                *)
(***************************************************************************)
EXTENDS Naturals, FiniteSets

CONSTANTS
  Owners,       \* plugin generations
  Modules,      \* RPLs the title loads and unloads
  Addresses,    \* patched instructions
  Requests,     \* patch requests, see Request
  Trampolines,  \* blocks of the code cave
  NoModule, NoOwner, NoTrampoline,
  Program,      \* the instruction the module was loaded with
  Old,          \* what a plugin keeps in call-through storage at its start
  MayFail,      \* which of "install", "restore" and "cave" may fail
  Restarting,   \* bound: the plugins that start again after an end
  MaxEvents,    \* bound: module events in a behaviour
  MaxFailures   \* bound: failing writes in a behaviour

\* address lies in module; named: looked up by name, otherwise a fixed address;
\* exported: the module has the name; matching: for the current process;
\* static: in the plugin's .wups.load section, otherwise added by its code.
Request ==
  [owner: Owners, module: Modules, address: Addresses, named: BOOLEAN,
   exported: BOOLEAN, mandatory: BOOLEAN, matching: BOOLEAN, static: BOOLEAN]

Facade == "facade"
Loader == "loader"

ASSUME ConstantsAssumption ==
  /\ Requests \subseteq Request
  /\ IsFiniteSet(Requests)
  /\ \A r, s \in Requests : r.address = s.address => r.module = s.module
  /\ NoModule \notin Modules /\ Owners \cap {NoOwner, Facade, Loader} = {}
  /\ NoTrampoline \notin Trampolines /\ Old \notin Trampolines
  /\ Program \notin Requests
  /\ MayFail \subseteq {"install", "restore", "cave"}
  /\ MaxEvents \in Nat /\ MaxFailures \in Nat

Callers == Owners \cup {Facade, Loader}

VARIABLES
  word,       \* the instruction at an address: Program, or the branch of a request
  storage,    \* the call-through word of a request
  allocated,  \* trampolines held from the code cave
  lifetime,   \* lifetime id of a loaded module, 0 when it is not loaded
  revision,   \* moduleRevisions
  patches,    \* the ledger's records
  pending,    \* requests that wait for their module
  claims,     \* claimedTargets
  handles,    \* requests with a handle in the facade
  issued,     \* requests that had one: handles are never given twice
  ended,      \* history: requests with a handle when their plugin's patches were removed
  stage,      \* of an owner
  call,       \* per caller: the transaction it prepares
  failures,   \* writes that failed so far
  unrestored, \* history: a restore failed
  stale,      \* history: targets patched over another patch's branch
  layered     \* history: requests patched over a trampoline in their own call-through word

vars == <<word, storage, allocated, lifetime, revision, patches, pending, claims,
          handles, issued, ended, stage, call, failures, unrestored, stale, layered>>

memory == <<word, storage, claims, patches, failures, unrestored>>
events == <<lifetime, revision>>

ModuleName(r) == IF r.named THEN r.module ELSE NoModule
Mapped(m) == lifetime[m] # 0

\* Two events of a module give it the next revision each, so the revision at
\* which it was loaded names its lifetime.
NextLifetime(m) == revision[m] + 1

Idle == [running |-> FALSE, asked |-> {}, todo |-> {}, reading |-> {}, prepared |-> {}]

Init ==
  /\ word = [a \in Addresses |-> Program]
  /\ storage = [r \in Requests |-> Old]
  /\ allocated = {}
  /\ lifetime = [m \in Modules |-> 0]
  /\ revision = [m \in Modules \cup {NoModule} |-> 0]
  /\ patches = {} /\ pending = {}
  /\ claims = [a \in Addresses |-> NoOwner]
  /\ handles = {} /\ issued = {} /\ ended = {}
  /\ stage = [o \in Owners |-> "new"]
  /\ call = [c \in Callers |-> Idle]
  /\ failures = 0 /\ unrestored = FALSE /\ stale = {} /\ layered = {}

-----------------------------------------------------------------------------
\* PrepareRequests

Begin(c, requests) ==
  call' = [call EXCEPT ![c] =
             [Idle EXCEPT !.running = TRUE, !.asked = requests,
                          !.todo = {r \in requests : r.matching}]]

ReadRevision(c) ==
  \E r \in call[c].todo :
    /\ call[c].reading = {}
    /\ call' = [call EXCEPT ![c].todo = @ \ {r},
                            ![c].reading = {[request |-> r, revision |-> revision[ModuleName(r)]]}]
    /\ UNCHANGED <<memory, events, allocated, pending, handles, issued, ended, stage,
                   stale, layered>>

\* The loader's mutex is held while a module event is dispatched, and looking a
\* name or an address up takes it.
LoaderFree(c) == c = Loader \/ ~call[Loader].running

Resolved(r) == r.named => Mapped(r.module) /\ r.exported

\* What the preflight of a request brings back: not resolved, resolved but not
\* built (its address is not executable, the code cave is exhausted), or built
\* with a trampoline for the instruction that was there.
Result(q, resolved, built, t) ==
  LET r == q.request
  IN [request |-> r, revision |-> q.revision,
      lifetime |-> IF r.named THEN lifetime[r.module] ELSE 0,
      resolved |-> resolved, built |-> built,
      original |-> word[r.address], old |-> storage[r], trampoline |-> t]

Prepared(c, item) ==
  call' = [call EXCEPT ![c].reading = {}, ![c].prepared = @ \cup {item}]

PrepareBuild(c) ==
  \E q \in call[c].reading :
    /\ LoaderFree(c)
    /\ \/ /\ ~Resolved(q.request)
          /\ Prepared(c, Result(q, FALSE, FALSE, NoTrampoline))
          /\ UNCHANGED allocated
       \/ /\ Resolved(q.request)
          /\ ~Mapped(q.request.module) \/ "cave" \in MayFail \/ allocated = Trampolines
          /\ Prepared(c, Result(q, TRUE, FALSE, NoTrampoline))
          /\ UNCHANGED allocated
       \/ /\ Resolved(q.request) /\ Mapped(q.request.module)
          /\ \E t \in Trampolines \ allocated :
               /\ Prepared(c, Result(q, TRUE, TRUE, t))
               /\ allocated' = allocated \cup {t}
    /\ UNCHANGED <<memory, events, pending, handles, issued, ended, stage, stale, layered>>

Ready(c) == call[c].running /\ call[c].todo = {} /\ call[c].reading = {}

-----------------------------------------------------------------------------
\* ApplyRequests and CommitBuild

TrampolinesOf(items) == {i.trampoline : i \in items} \ {NoTrampoline}

Postponed(i, allowPending) == allowPending /\ ~i.resolved /\ ~i.request.mandatory

\* Another owner's claim on the target is not looked at.
MutantCommittableClaimed(i) ==
  i.resolved /\ i.built /\ revision[ModuleName(i.request)] = i.revision

\* The revision of the module is not looked at.
MutantCommittableStale(i) ==
  i.resolved /\ i.built /\ claims[i.request.address] = NoOwner

Committable(i) ==
  /\ i.resolved /\ i.built
  /\ claims[i.request.address] = NoOwner
  /\ revision[ModuleName(i.request)] = i.revision

Distinct(items) ==
  \A i, j \in items : i.request.address = j.request.address => i = j

Record(i, target, callThrough) ==
  [request |-> i.request, lifetime |-> i.lifetime, original |-> i.original,
   old |-> i.old, trampoline |-> i.trampoline,
   targetWritten |-> target, callThroughWritten |-> callThrough]

\* Items of targets have their branch written, items of callThroughs the address
\* of their trampoline; both sets are recorded.
Write(targets, callThroughs) ==
  /\ word' = [a \in Addresses |->
       IF \E i \in targets : i.request.address = a
       THEN (CHOOSE i \in targets : i.request.address = a).request ELSE word[a]]
  /\ storage' = [r \in Requests |->
       IF \E i \in callThroughs : i.request = r
       THEN (CHOOSE i \in callThroughs : i.request = r).trampoline ELSE storage[r]]
  /\ claims' = [a \in Addresses |->
       IF \E i \in targets : i.request.address = a
       THEN (CHOOSE i \in targets : i.request.address = a).request.owner ELSE claims[a]]
  /\ patches' = patches \cup
       {Record(i, i \in targets, i \in callThroughs) : i \in targets \cup callThroughs}
  /\ stale' = stale \cup {i.request.address : i \in {j \in targets : j.original # Program}}
  /\ layered' = layered \cup
       {i.request : i \in {j \in targets \cup callThroughs : j.old # Old}}

Applies(items, allowPending) ==
  /\ \A i \in items : Postponed(i, allowPending) \/ Committable(i)
  /\ Distinct({i \in items : i.resolved})

\* The items to be written.  (And: with the unresolved ones.)
MutantWritten(items) == items

Written(items) == {i \in items : i.resolved}

\* All items are committed or wait for their module; dropped ones were prepared
\* for a request that is gone.
Commit(items, dropped, allowPending) ==
  /\ Applies(items, allowPending)
  /\ Write(Written(items), Written(items))
  /\ allocated' = allocated \ TrampolinesOf(dropped)
  /\ UNCHANGED <<failures, unrestored>>

\* An item failed, by itself or because a write did, and the ones committed
\* before it are rolled back.  An item whose rollback fails stays recorded with
\* what is still written; the target of one item at least was never written.
RollBack(items, dropped, allowPending) ==
  \E broken \in {0, 1} :
  \E targets, callThroughs \in SUBSET {i \in items : Committable(i)} :
    /\ broken = 0 => ~Applies(items, allowPending)
    /\ broken = 1 => "install" \in MayFail /\ \E i \in items : Committable(i)
    /\ targets # items /\ Distinct(targets \cup callThroughs)
    /\ targets \cup callThroughs # {} => "restore" \in MayFail
    /\ failures' = failures + broken + Cardinality(targets) + Cardinality(callThroughs)
    /\ failures' <= MaxFailures
    /\ unrestored' = (unrestored \/ targets \cup callThroughs # {})
    /\ Write(targets, callThroughs)
    /\ allocated' = allocated \
         TrampolinesOf((items \cup dropped) \ (targets \cup callThroughs))

Finish(c) == call' = [call EXCEPT ![c] = Idle]

-----------------------------------------------------------------------------
\* A record's target or its call-through word is restored, instead of both.
MutantTargetsRestored(records, targetFails) ==
  {p \in records \ targetFails : p.targetWritten /\ ~p.callThroughWritten}

TargetsRestored(records, targetFails) == {p \in records \ targetFails : p.targetWritten}

\* Restore, for the records of a set.  A target claim goes with every record
\* whose branch is not in place, whoever holds it.  Where two records share an
\* address the oldest is restored last; CHOOSE stands for it.
Restore(records, targetFails, callThroughFails) ==
  LET restored == TargetsRestored(records, targetFails)
      reset == {p \in records \ callThroughFails : p.callThroughWritten}
      bad == targetFails \cup callThroughFails
  IN /\ targetFails \subseteq {p \in records : p.targetWritten}
     /\ callThroughFails \subseteq {p \in records : p.callThroughWritten}
     /\ bad # {} => "restore" \in MayFail
     /\ failures' = failures + Cardinality(targetFails) + Cardinality(callThroughFails)
     /\ failures' <= MaxFailures
     /\ unrestored' = (unrestored \/ bad # {})
     /\ word' = [a \in Addresses |->
          IF \E p \in restored : p.request.address = a
          THEN (CHOOSE p \in restored : p.request.address = a).original ELSE word[a]]
     /\ storage' = [r \in Requests |->
          IF \E p \in reset : p.request = r
          THEN (CHOOSE p \in reset : p.request = r).old ELSE storage[r]]
     /\ claims' = [a \in Addresses |->
          IF \E p \in records \ targetFails : p.request.address = a
          THEN NoOwner ELSE claims[a]]
     /\ allocated' = allocated \ TrampolinesOf(records \ bad)
     /\ UNCHANGED <<stale, layered>>

\* A record after Restore.
After(p, targetFails, callThroughFails) ==
  [p EXCEPT !.targetWritten = p \in targetFails,
            !.callThroughWritten = p \in callThroughFails,
            !.trampoline = IF p \in targetFails \cup callThroughFails THEN @ ELSE NoTrampoline]

\* Restores records and drops them when all could be restored; otherwise they
\* stay, for a later call to retry.
RestoreOrKeep(records, drop, succeeded) ==
  \E targetFails, callThroughFails \in SUBSET records :
    /\ Restore(records, targetFails, callThroughFails)
    /\ succeeded = (targetFails \cup callThroughFails = {})
    /\ patches' = IF succeeded THEN patches \ drop
                  ELSE (patches \ records) \cup
                       {After(p, targetFails, callThroughFails) : p \in records}

RecordsOf(o) == {p \in patches : p.request.owner = o}
RecordsFor(r) == {p \in patches : p.request = r}

-----------------------------------------------------------------------------
\* A plugin's start and end

\* ActivatePlugin, at the first start and at every one after an application end.
\* A plugin without replacements has no transaction.
Apply(o) ==
  LET requests == {r \in Requests : r.owner = o /\ r.static}
  IN /\ stage[o] = "new" \/ (stage[o] = "removed" /\ o \in Restarting)
     /\ IF requests = {}
        THEN /\ stage' = [stage EXCEPT ![o] = "active"]
             /\ UNCHANGED call
        ELSE /\ stage' = [stage EXCEPT ![o] = IF @ = "new" THEN "starting" ELSE "restarting"]
             /\ Begin(o, requests)
     /\ UNCHANGED <<memory, events, allocated, pending, handles, issued, ended, stale, layered>>

\* What the plugin's code added since the end, or adds now, is registered.
Registered(o) == RecordsOf(o) # {} \/ \E r \in pending : r.owner = o

\* A plugin that could not start has run code only if it had started before.
Fails(o) == IF stage[o] = "starting" THEN "failed" ELSE "stopped"

CommitApply(o) ==
  LET items == call[o].prepared
  IN /\ Ready(o)
     /\ \/ /\ ~Registered(o)
           /\ Commit(items, {}, TRUE)
           /\ pending' = pending \cup {i.request : i \in {j \in items : ~j.resolved}}
           /\ stage' = [stage EXCEPT ![o] = "active"]
        \/ /\ ~Registered(o)
           /\ RollBack(items, {}, TRUE)
           /\ stage' = [stage EXCEPT ![o] = Fails(o)]
           /\ UNCHANGED pending
        \/ /\ Registered(o)
           /\ allocated' = allocated \ TrampolinesOf(items)
           /\ stage' = [stage EXCEPT ![o] = Fails(o)]
           /\ UNCHANGED <<memory, pending, stale, layered>>
     /\ Finish(o)
     /\ UNCHANGED <<events, handles, issued, ended>>

\* DeactivatePlugin, of an application end or an unload.  When it fails the plugin
\* does not start again; an unload may ask for it again.
RemoveOwner(o) ==
  /\ stage[o] \in {"active", "stuck"}
  /\ \E succeeded \in BOOLEAN :
       /\ RestoreOrKeep(RecordsOf(o), RecordsOf(o), succeeded)
       /\ stage' = [stage EXCEPT ![o] = IF ~succeeded THEN "stuck"
                                        ELSE IF @ = "active" THEN "removed" ELSE "stopped"]
  /\ pending' = {r \in pending : r.owner # o}
  /\ ended' = ended \cup {r \in handles : r.owner = o}
  /\ UNCHANGED <<events, handles, issued, call>>

-----------------------------------------------------------------------------
\* The facade: AddPatch, RemovePatch and ReleaseOwner hold its mutex throughout

FacadeFree == ~call[Facade].running /\ \A o \in Owners : stage[o] # "releasing"

\* Guest code of a plugin runs from its first start until the owner's resources
\* are released.
Runs(o) == stage[o] \in {"active", "stuck", "removed", "restarting", "stopped"}

AddPatch(r) ==
  /\ ~r.static /\ r \notin issued
  /\ Runs(r.owner) /\ FacadeFree
  /\ issued' = issued \cup {r}
  /\ Begin(Facade, {r})
  /\ UNCHANGED <<memory, events, allocated, pending, handles, ended, stage, stale, layered>>

\* Add.  The identity of the request is new with its handle; a request for
\* another process has no item, and a handle all the same.
CommitAdd ==
  LET items == call[Facade].prepared
  IN /\ Ready(Facade)
     /\ \/ /\ Commit(items, {}, TRUE)
           /\ pending' = pending \cup {i.request : i \in {j \in items : ~j.resolved}}
           /\ handles' = handles \cup call[Facade].asked
        \/ /\ RollBack(items, {}, TRUE)
           /\ UNCHANGED <<pending, handles>>
     /\ Finish(Facade)
     /\ UNCHANGED <<events, issued, ended, stage>>

\* Remove restores one record of the identity and drops all of them.
Remove(r) ==
  \/ /\ RecordsFor(r) # {}
     /\ \E p \in RecordsFor(r), succeeded \in BOOLEAN :
          /\ RestoreOrKeep({p}, RecordsFor(r), succeeded)
          /\ pending' = IF succeeded THEN pending \ {r} ELSE pending
  \/ /\ RecordsFor(r) = {}
     /\ pending' = pending \ {r}
     /\ UNCHANGED <<memory, allocated, stale, layered>>

\* A record the ledger no longer has is no error: the handle goes.
RemovePatch(r) ==
  /\ r \in handles /\ Runs(r.owner) /\ FacadeFree
  /\ Remove(r)
  /\ handles' = IF {p \in patches' : p.request = r} # {} THEN handles ELSE handles \ {r}
  /\ UNCHANGED <<events, issued, ended, stage, call>>

\* ReleaseOwner waits for the owner's calls, then drops its handles one by one
\* whether or not their patches could be removed.
ReleaseOwner(o) ==
  /\ stage[o] \in {"removed", "failed", "stopped"}
  /\ FacadeFree
  /\ stage' = [stage EXCEPT ![o] = "releasing"]
  /\ UNCHANGED <<memory, events, allocated, pending, handles, issued, ended, call, stale, layered>>

ReleaseNext(o) ==
  /\ stage[o] = "releasing"
  /\ \E r \in handles :
       /\ r.owner = o
       /\ Remove(r)
       /\ handles' = handles \ {r}
  /\ UNCHANGED <<events, issued, ended, stage, call>>

Released(o) ==
  /\ stage[o] = "releasing"
  /\ \A r \in handles : r.owner # o
  /\ stage' = [stage EXCEPT ![o] = "gone"]
  /\ UNCHANGED <<memory, events, allocated, pending, handles, issued, ended, call, stale, layered>>

-----------------------------------------------------------------------------
\* Module events, dispatched one at a time under the loader's mutex

EventsLeft(m) == revision[m] < MaxEvents

\* OnModuleLoaded: the module is there with its own instructions.
ModuleLoads(m) ==
  LET candidates == {r \in pending : r.named /\ r.module = m}
  IN /\ ~call[Loader].running /\ ~Mapped(m) /\ EventsLeft(m)
     /\ lifetime' = [lifetime EXCEPT ![m] = NextLifetime(m)]
     /\ revision' = [revision EXCEPT ![m] = @ + 1]
     /\ word' = [a \in Addresses |->
          IF \E r \in Requests : r.address = a /\ r.module = m THEN Program ELSE word[a]]
     /\ IF candidates = {} THEN UNCHANGED call ELSE Begin(Loader, candidates)
     /\ UNCHANGED <<storage, claims, patches, failures, unrestored, allocated, pending,
                    handles, issued, ended, stage, stale, layered>>

\* What was removed meanwhile is committed all the same.
MutantCandidates == call[Loader].prepared

\* What was removed meanwhile is dropped; the rest is one transaction.
Candidates == {i \in call[Loader].prepared : i.request \in pending}

\* The trampolines of what was removed are kept.
MutantRemovedCandidates == {}

RemovedCandidates == {i \in call[Loader].prepared : i.request \notin pending}

CommitLoaded ==
  /\ Ready(Loader)
  /\ \/ /\ Commit(Candidates, RemovedCandidates, FALSE)
        /\ pending' = pending \ {i.request : i \in Candidates}
     \/ /\ RollBack(Candidates, RemovedCandidates, FALSE)
        /\ UNCHANGED pending
  /\ Finish(Loader)
  /\ UNCHANGED <<events, handles, issued, ended, stage>>

ModuleUnloads(m) ==
  LET records == {p \in patches : /\ p.request.named /\ p.request.module = m
                                  /\ p.lifetime = lifetime[m]}
  IN /\ ~call[Loader].running /\ Mapped(m) /\ EventsLeft(m)
     /\ lifetime' = [lifetime EXCEPT ![m] = 0]
     /\ revision' = [revision EXCEPT ![m] = @ + 1]
     /\ \E succeeded \in BOOLEAN :
          /\ RestoreOrKeep(records, records, succeeded)
          /\ pending' = IF succeeded THEN pending \cup {p.request : p \in records}
                        ELSE pending
     /\ UNCHANGED <<handles, issued, ended, stage, call>>

-----------------------------------------------------------------------------
Next ==
  \/ \E c \in Callers : ReadRevision(c) \/ PrepareBuild(c)
  \/ \E o \in Owners : \/ Apply(o) \/ CommitApply(o) \/ RemoveOwner(o)
                       \/ ReleaseOwner(o) \/ ReleaseNext(o) \/ Released(o)
  \/ \E r \in Requests : AddPatch(r) \/ RemovePatch(r)
  \/ CommitAdd
  \/ CommitLoaded
  \/ \E m \in Modules : ModuleLoads(m) \/ ModuleUnloads(m)

Spec == Init /\ [][Next]_vars

-----------------------------------------------------------------------------
\* Properties

Item ==
  [request: Requests, revision: 0..MaxEvents, lifetime: 0..MaxEvents,
   resolved: BOOLEAN, built: BOOLEAN, original: Requests \cup {Program},
   old: Trampolines \cup {Old}, trampoline: Trampolines \cup {NoTrampoline}]

PatchRecord ==
  [request: Requests, lifetime: 0..MaxEvents, original: Requests \cup {Program},
   old: Trampolines \cup {Old}, trampoline: Trampolines \cup {NoTrampoline},
   targetWritten: BOOLEAN, callThroughWritten: BOOLEAN]

\* The type invariant.
TypeOK ==
  /\ word \in [Addresses -> Requests \cup {Program}]
  /\ storage \in [Requests -> Trampolines \cup {Old}]
  /\ allocated \subseteq Trampolines
  /\ lifetime \in [Modules -> 0..MaxEvents]
  /\ revision \in [Modules \cup {NoModule} -> 0..MaxEvents]
  /\ patches \subseteq PatchRecord
  /\ pending \subseteq Requests
  /\ claims \in [Addresses -> Owners \cup {NoOwner}]
  /\ handles \cup ended \subseteq issued /\ issued \subseteq Requests
  /\ stage \in [Owners -> {"new", "starting", "active", "failed", "removed", "restarting",
                            "stuck", "stopped", "releasing", "gone"}]
  /\ call \in [Callers -> [running: BOOLEAN, asked: SUBSET Requests,
                  todo: SUBSET Requests,
                  reading: SUBSET [request: Requests, revision: 0..MaxEvents],
                  prepared: SUBSET Item]]
  /\ failures \in 0..MaxFailures
  /\ unrestored \in BOOLEAN /\ stale \subseteq Addresses /\ layered \subseteq Requests

\* Until a restore fails, an address is claimed exactly while one patch is on
\* it, and by the owner of that patch: two plugins never layer their branches.
OnePatchPerTarget ==
  ~unrestored =>
    /\ \A p \in patches : p.targetWritten /\ claims[p.request.address] = p.request.owner
    /\ \A p, q \in patches : p.request.address = q.request.address => p = q
    /\ \A a \in Addresses :
         claims[a] # NoOwner => \E p \in patches : p.request.address = a

\* The title's code: an instruction of a loaded module is a branch exactly while
\* the patch of that branch is in the ledger, whatever was added, removed,
\* loaded and unloaded.  The exceptions are targets of a failed restore and
\* those patched from a preflight that read another patch's branch.  A patch
\* at a fixed address is lost when the module under it is loaded again.
TitleCodeExact ==
  ~unrestored =>
    \A a \in Addresses \ stale, r \in Requests :
      r.address = a /\ Mapped(r.module) =>
        /\ word[a] = r => RecordsFor(r) # {}
        /\ r.named /\ RecordsFor(r) # {} => word[a] = r

\* No trampoline leaks and none has two users, until a restore fails.  Call-through
\* storage never points to one that was given back; after a failed restore, unless
\* the request was patched again over what that restore had left there: its new
\* record then saves an address that a retry frees.
CaveExact ==
  LET items == UNION {call[c].prepared : c \in Callers}
      used == {[of |-> x, trampoline |-> x.trampoline] : x \in
                 {y \in patches \cup items : y.trampoline # NoTrampoline}}
  IN /\ ~unrestored => allocated = {u.trampoline : u \in used}
     /\ ~unrestored => \A u, v \in used : u.trampoline = v.trampoline => u = v
     /\ \A r \in Requests :
          ~unrestored \/ r \notin layered => storage[r] \in allocated \cup {Old}

\* A patch of a named function is in the module its ledger record names, at the
\* lifetime it was prepared for: the module has not been unloaded under it.
LifetimeCurrent ==
  ~unrestored =>
    \A p \in patches : p.request.named => p.lifetime = lifetime[p.request.module]
                                            /\ Mapped(p.request.module)

\* A static request of an active plugin, and one with a handle, is in the ledger
\* once, as a patch or waiting for its module, through every load, unload and
\* restart.  What an end removed never comes back for a handle that was given
\* before: neither a module event nor the next start patches it again.  A static
\* request is there only while its plugin is active, and of a plugin that failed
\* to start, or is gone, there is nothing, what its code added while it was being
\* unloaded included.
RequestsKept ==
  ~unrestored =>
    \A r \in Requests :
      /\ r.matching /\ (r \in handles \ ended \/ (r.static /\ stage[r.owner] = "active")) =>
           /\ (RecordsFor(r) # {}) # (r \in pending)
           /\ Cardinality(RecordsFor(r)) <= 1
      /\ \/ r \in ended
         \/ r.static /\ stage[r.owner] # "active"
         \/ stage[r.owner] \in {"new", "starting", "failed", "gone"}
         => RecordsFor(r) = {} /\ r \notin pending
=============================================================================
