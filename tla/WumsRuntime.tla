----------------------------- MODULE WumsRuntime -----------------------------
(***************************************************************************)
(* The graph of WUMS modules (WumsRuntime.cpp), the registry of their      *)
(* exports (ModuleExportRegistry.cpp), and plugins that import from it.    *)
(*                                                                         *)
(* An operation on the graph is a script: a sequence of steps, each of     *)
(* which takes a lock of its own or calls into the guest.  The operation   *)
(* flag keeps other operations out (they are refused, not delayed), but    *)
(* plugins resolve and release exports between any two steps, and Reload   *)
(* is several operations with the flag free in between.                    *)
(*                                                                         *)
(* A module instance is a number: that of its owner in the code, which is  *)
(* never reused, here the least that no instance that is still there has.  *)
(* A provider exports one symbol; the initializers of a module are one     *)
(* hook.                                                                   *)
(***************************************************************************)
EXTENDS Naturals, FiniteSets, SequencesExt

CONSTANTS
  Definitions,  \* what modules may be asked for, see Definition
  Inputs,       \* the sets of definitions that callers load
  Additions,    \* the definitions that callers add
  Threads, Plugins,
  Reloaders,    \* bound: the threads that call Reload and AddOrReplace
  MayFail,      \* which of "map", "link", "hook" and "unmap" may fail
  MaxFailures   \* bound: injected failures in a behaviour

Hooks == {"init", "relocated", "starts", "allStarts", "exit", "allExit",
          "ends", "allEnds", "fini", "clear"}

\* depends: mandatory dependencies, optional: the others; imports: modules it is
\* linked to, declared or not; early: initialized before relocations are done.
Definition ==
  [name: Nat, depends: SUBSET Nat, optional: SUBSET Nat, imports: SUBSET Nat,
   early: BOOLEAN, hooks: SUBSET Hooks]

ASSUME ConstantsAssumption ==
  /\ Definitions \subseteq Definition /\ IsFiniteSet(Definitions)
  /\ \A input \in Inputs : input \subseteq Definitions
  /\ \A input \in Inputs : \A d, e \in input : d.name = e.name => d = e
  /\ Additions \subseteq Definitions
  /\ Plugins \cap Nat = {} /\ Reloaders \subseteq Threads
  /\ MayFail \subseteq {"map", "link", "hook", "unmap"}
  /\ MaxFailures \in Nat

VARIABLES
  modules,     \* record of every instance that is in the graph or being loaded
  graph,       \* modules of the runtime, in load order
  providers,   \* active records of the registry
  leases,      \* [importer, provider]: the pins of the registry
  mapped,      \* instances whose RPL module is there
  application, \* applicationStarted and exitRequested
  operation,   \* the threads inside OperationGuard
  thread,      \* the operation of a thread
  failures,
  orphans,     \* history: unmapped while a plugin's pin kept them published
  stuck        \* history: instances whose cleanup failed

vars == <<modules, graph, providers, leases, mapped, application, operation, thread, failures,
          orphans, stuck>>

registry == <<providers, leases, mapped, orphans, stuck>>

Step(do, i) == [do |-> do, module |-> i]
Final(do) == <<Step(do, 0)>>

\* The steps that follow in the same module: it is mapped and linked, or cleaned up.
Follows == [map |-> "link", fini |-> "clear", clear |-> "unpublish", unpublish |-> "unmap"]

\* made: the instances of a load so far; clean: no cleanup has failed; stage: "" outside
\* Reload; old and restart: what Reload has to restore; troubles (history): 1 for a
\* failure to load or to start, 2 for one in a cleanup and for an operation of another
\* thread that comes in between, counted to 2.
Idle ==
  [script |-> <<>>, made |-> <<>>, clean |-> TRUE, stage |-> "", new |-> {}, old |-> {},
   restart |-> FALSE, troubles |-> 0]

Init ==
  /\ modules = <<>> /\ graph = <<>>
  /\ providers = {} /\ leases = {} /\ mapped = {}
  /\ application = [started |-> FALSE, exiting |-> FALSE]
  /\ operation = {}
  /\ thread = [t \in Threads |-> Idle]
  /\ failures = 0 /\ orphans = {} /\ stuck = {}

Name(i) == modules[i].definition.name
Has(i, hook) == hook \in modules[i].definition.hooks
Registered(name) == {i \in providers : Name(i) = name}
Graph == ToSet(graph)

-----------------------------------------------------------------------------
\* WumsDependencyGraph::Build

Names(definitions) == {d.name : d \in definitions}

Edges(d, definitions) == (d.depends \cup d.optional) \cap Names(definitions)

\* The mandatory dependencies are in the graph or published already.
Satisfied(definitions) ==
  \A d \in definitions : \A name \in d.depends :
    name \in Names(definitions) \/ Registered(name) # {}

\* Of the modules whose dependencies are placed the first by name comes next.
IsOrder(s, definitions) ==
  \A k \in DOMAIN s :
    LET placed == {s[j] : j \in 1..(k - 1)}
        ready == {d \in definitions \ placed : Edges(d, definitions) \subseteq Names(placed)}
    IN s[k] \in ready /\ \A d \in ready : s[k].name <= d.name

Orders(definitions) ==
  {s \in [1..Cardinality(definitions) -> definitions] : IsOrder(s, definitions)}

-----------------------------------------------------------------------------
\* The scripts of the operations

Calls(hook, s) == [k \in DOMAIN s |-> Step(hook, s[k])]

\* Rollback of instances, in reverse.  The mutant goes forward.
MutantCleanup(s) == Calls("fini", s)
Cleanup(s) == Calls("fini", Reverse(s))

\* LoadDefinitions: d[k] becomes the instance s[k].  The initializers run in two passes,
\* each of which skips the modules of the other.
LoadScript(d, s) ==
  LET InitAll(early) ==
        [k \in DOMAIN d |-> Step(IF d[k].early = early THEN "init" ELSE "skip", s[k])]
  IN Calls("map", s) \o InitAll(TRUE) \o Calls("relocated", s) \o InitAll(FALSE)
     \o Final("commit")

\* The numbers of n new instances: each the least that is not taken.
Fresh(n) ==
  {s \in [1..n -> 1..(n + Cardinality(DOMAIN modules))] :
     \A k \in 1..n :
       LET taken == DOMAIN modules \cup {s[j] : j \in 1..(k - 1)}
       IN s[k] \notin taken /\ 1..(s[k] - 1) \subseteq taken}

UnloadScript ==
  (IF application.started
   THEN Calls("ends", graph) \o Calls("allEnds", graph) \o Final("stopped") ELSE <<>>)
  \o Cleanup(graph) \o Final("emptied")

StartScript == Calls("starts", graph) \o Calls("allStarts", graph) \o Final("started")
ExitScript == Calls("exit", graph) \o Calls("allExit", graph) \o Final("exiting")
EndScript == Calls("ends", graph) \o Calls("allEnds", graph) \o Final("ended")

-----------------------------------------------------------------------------
\* Operations begin and return.  x is the thread's record.

Begins(t, x, script) ==
  /\ operation' = operation \cup {t}
  /\ thread' = [u \in Threads |->
       IF u = t THEN [x EXCEPT !.script = script, !.clean = TRUE]
       ELSE [thread[u] EXCEPT !.troubles = IF thread[u].stage = "" THEN 0 ELSE 2]]

\* Reload: unload the old graph, load the new one, and on failure unload what
\* there is and load the old one again.
MutantContinue(x, ok) ==
  CASE x.stage = "unload"                -> [x EXCEPT !.stage = IF ok THEN "load" ELSE ""]
    [] x.stage = "load" /\ ok /\ x.restart -> [x EXCEPT !.stage = "start"]
    [] x.stage = "restore" /\ ok /\ x.restart -> [x EXCEPT !.stage = "restart"]
    [] x.stage \in {"load", "start"} /\ ~ok -> [x EXCEPT !.stage = "restore"]
    [] OTHER                             -> [x EXCEPT !.stage = ""]

Continue(x, ok) ==
  CASE x.stage = "unload"                -> [x EXCEPT !.stage = IF ok THEN "load" ELSE ""]
    [] x.stage = "load" /\ ok /\ x.restart -> [x EXCEPT !.stage = "start"]
    [] x.stage = "restore" /\ ok /\ x.restart -> [x EXCEPT !.stage = "restart"]
    [] x.stage \in {"load", "start"} /\ ~ok -> [x EXCEPT !.stage = "cleanup"]
    [] x.stage = "cleanup"               -> [x EXCEPT !.stage = "restore"]
    [] OTHER                             -> [x EXCEPT !.stage = ""]

Trouble(x, n) ==
  IF x.stage = "" THEN 0 ELSE IF x.troubles + n < 2 THEN x.troubles + n ELSE 2

Returned(x, ok) ==
  LET y == Continue(x, ok)
  IN IF y.stage = "" THEN Idle ELSE [y EXCEPT !.script = <<>>, !.made = <<>>]

\* The operation does nothing but return.
Refuses(t, ok) ==
  /\ LET x == [thread[t] EXCEPT !.troubles = Trouble(thread[t], IF ok THEN 0 ELSE 1)]
     IN thread' = [thread EXCEPT ![t] = Returned(x, ok)]
  /\ UNCHANGED operation

Loads(t, definitions) ==
  /\ IF operation # {} \/ graph # <<>> \/ ~Satisfied(definitions) \/ Orders(definitions) = {}
     THEN Refuses(t, FALSE) /\ UNCHANGED modules
     ELSE \E d \in Orders(definitions) : \E s \in Fresh(Len(d)) :
            LET made(i) == [definition |-> d[CHOOSE k \in DOMAIN d : s[k] = i], state |-> "up",
                            initialized |-> FALSE, running |-> FALSE]
            IN /\ Begins(t, thread[t], LoadScript(d, s))
               /\ modules' = [i \in DOMAIN modules \cup ToSet(s) |->
                    IF i \in DOMAIN modules THEN modules[i] ELSE made(i)]
  /\ UNCHANGED <<graph, registry, application, failures>>

Unloads(t) ==
  /\ IF operation # {} THEN Refuses(t, FALSE)
     ELSE IF graph = <<>> THEN Refuses(t, TRUE)
     ELSE Begins(t, thread[t], UnloadScript)
  /\ UNCHANGED <<modules, graph, registry, application, failures>>

Starts(t) ==
  /\ IF operation # {} THEN Refuses(t, FALSE)
     ELSE IF application.started THEN Refuses(t, TRUE)
     ELSE Begins(t, thread[t], StartScript)
  /\ UNCHANGED <<modules, graph, registry, application, failures>>

Free(t) == thread[t] = Idle

Load(t) == Free(t) /\ \E input \in Inputs : Loads(t, input)
Unload(t) == Free(t) /\ Unloads(t)
OnApplicationStarts(t) == Free(t) /\ Starts(t)

OnApplicationRequestsExit(t) ==
  /\ Free(t) /\ operation = {} /\ application.started /\ ~application.exiting
  /\ Begins(t, thread[t], ExitScript)
  /\ UNCHANGED <<modules, graph, registry, application, failures>>

OnApplicationEnds(t) ==
  /\ Free(t) /\ operation = {} /\ application.started
  /\ Begins(t, thread[t], EndScript)
  /\ UNCHANGED <<modules, graph, registry, application, failures>>

Loaded == {modules[i].definition : i \in Graph}

\* Reload with any input, or AddOrReplace of one definition.
Reload(t) ==
  /\ Free(t) /\ t \in Reloaders
  /\ \E new \in Inputs \cup {{d} \cup {e \in Loaded : e.name # d.name} : d \in Additions} :
       thread' = [thread EXCEPT ![t] =
         [Idle EXCEPT !.stage = "unload", !.new = new, !.old = Loaded,
                      !.restart = application.started]]
  /\ UNCHANGED <<modules, graph, registry, application, operation, failures>>

ReloadNext(t) ==
  LET x == thread[t]
  IN /\ x.stage # "" /\ x.script = <<>>
     /\ \/ x.stage \in {"unload", "cleanup"} /\ Unloads(t)
        \/ x.stage = "load" /\ Loads(t, x.new)
        \/ x.stage = "restore" /\ Loads(t, x.old)
        \/ x.stage \in {"start", "restart"} /\ Starts(t)

-----------------------------------------------------------------------------
\* The steps.  A hook that is invoked takes its effect when it returns.

At(t, do) == thread[t].script # <<>> /\ thread[t].script[1].do = do
Module(t) == thread[t].script[1].module

Rest(script) ==
  IF script[1].do \in DOMAIN Follows
  THEN [script EXCEPT ![1].do = Follows[@]]
  ELSE Tail(script)

Proceeds(t) == thread' = [thread EXCEPT ![t].script = Rest(@)]

\* What is left of the script is replaced.
Turns(t, script) ==
  thread' = [thread EXCEPT ![t].script = script, ![t].troubles = Trouble(thread[t], 1)]

\* The load that fails is rolled back, the module at which it failed included.
MutantUndo(t, made) ==
  thread' = [thread EXCEPT ![t].script = Cleanup(Front(made)) \o Final("abandon"),
                           ![t].made = made, ![t].troubles = Trouble(thread[t], 1)]

Undo(t, made) ==
  thread' = [thread EXCEPT ![t].script = Cleanup(made) \o Final("abandon"),
                           ![t].made = made, ![t].troubles = Trouble(thread[t], 1)]

\* A cleanup goes on past its failures.
Soils(t) ==
  thread' = [thread EXCEPT ![t].script = Rest(@), ![t].clean = FALSE,
                           ![t].troubles = Trouble(thread[t], 2)]

\* An injected failure.
Breaks(what) ==
  /\ what \in MayFail /\ failures < MaxFailures
  /\ failures' = failures + 1

NameMapped(i) == \E j \in mapped : Name(j) = Name(i)

\* Map, ResolveAddress of the exports, Publish.
Map(t) ==
  /\ At(t, "map")
  /\ LET i == Module(t)
         made == Append(thread[t].made, i)
     IN \/ /\ ~NameMapped(i) /\ Registered(Name(i)) = {}
           /\ mapped' = mapped \cup {i} /\ providers' = providers \cup {i}
           /\ thread' = [thread EXCEPT ![t].script = Rest(@), ![t].made = made]
           /\ UNCHANGED failures
        \/ /\ \/ NameMapped(i) /\ UNCHANGED <<mapped, failures>>
              \/ ~NameMapped(i) /\ Registered(Name(i)) # {} /\ mapped' = mapped \cup {i}
                 /\ UNCHANGED failures
              \/ ~NameMapped(i) /\ Breaks("map") /\ mapped' \in {mapped, mapped \cup {i}}
           /\ Undo(t, made)
           /\ UNCHANGED providers
  /\ UNCHANGED <<modules, graph, leases, application, operation, orphans, stuck>>

\* Link resolves the imports, each with a lease on its provider.
Link(t) ==
  /\ At(t, "link")
  /\ LET i == Module(t)
         imports == modules[i].definition.imports
         found == {[importer |-> i, provider |-> p] : p \in UNION {Registered(n) : n \in imports}}
     IN \/ /\ \A n \in imports : Registered(n) # {}
           /\ leases' = leases \cup found
           /\ Proceeds(t)
           /\ UNCHANGED failures
        \/ /\ \/ (\E n \in imports : Registered(n) = {}) /\ UNCHANGED failures
              \/ Breaks("link")
           /\ \E some \in SUBSET found : leases' = leases \cup some
           /\ Undo(t, thread[t].made)
  /\ UNCHANGED <<modules, graph, providers, mapped, application, operation,
                 orphans, stuck>>

\* Invoke: a hook outside teardown is refused in a stale state, and no hook runs in a
\* module that is not there.
Refused(i, hook) ==
  \/ hook \notin {"fini", "clear", "ends", "allEnds"} /\ modules[i].state # "up"
  \/ i \notin mapped

Invoked(i, hook) == Has(i, hook) /\ (hook = "fini" => modules[i].initialized)

\* The module after the hook, whether it ran to its end or not.
After(m, hook, ok) ==
  CASE hook = "init"   -> [m EXCEPT !.initialized = ok /\ "init" \in m.definition.hooks]
    [] hook = "fini"   -> [m EXCEPT !.initialized = FALSE,
                                    !.state = IF ok THEN "unloading" ELSE "failed"]
    [] hook = "clear"  -> [m EXCEPT !.state = IF ok THEN @ ELSE "failed"]
    [] hook = "starts" -> [m EXCEPT !.running = ok /\ "starts" \in m.definition.hooks]
    [] hook = "ends"   -> [m EXCEPT !.running = FALSE]
    [] OTHER           -> m

\* The modules that have been started when one refuses to start.
Started(i, hook) ==
  IF hook = "starts" THEN SubSeq(graph, 1, SelectInSeq(graph, LAMBDA j : j = i) - 1) ELSE graph

MutantUndoStart(t, started) == Turns(t, Final("unstarted"))
UndoStart(t, started) == Turns(t, Calls("ends", Reverse(started)) \o Final("unstarted"))

HookFails(t, i, hook) ==
  CASE hook \in {"init", "relocated"}    -> Undo(t, thread[t].made)
    [] hook \in {"starts", "allStarts"}  -> UndoStart(t, Started(i, hook))
    [] hook \in {"fini", "clear"}        -> Soils(t)
    [] OTHER                             -> Proceeds(t)

Hook(t) ==
  /\ \E hook \in Hooks \cup {"skip"} :
       /\ At(t, hook)
       /\ LET i == Module(t)
          IN \/ /\ ~Invoked(i, hook) \/ ~Refused(i, hook)
                /\ modules' = [modules EXCEPT ![i] = After(@, hook, TRUE)]
                /\ Proceeds(t)
                /\ UNCHANGED failures
             \/ /\ Invoked(i, hook)
                /\ \/ Refused(i, hook) /\ UNCHANGED failures
                   \/ ~Refused(i, hook) /\ Breaks("hook")
                /\ modules' = [modules EXCEPT ![i] = After(@, hook, FALSE)]
                /\ HookFails(t, i, hook)
  /\ UNCHANGED <<graph, registry, application, operation>>

\* Who pins the exports of i.
MutantPins(i, held) == {l.importer : l \in {m \in held : m.provider = i}} \ Plugins
Pins(i, held) == {l.importer : l \in {m \in held : m.provider = i}}

\* The module lets go of its imports, and then its exports are withdrawn: unless a
\* lease pins them.
Unpublish(t) ==
  /\ At(t, "unpublish")
  /\ LET i == Module(t)
         left == {l \in leases : l.importer # i}
         pins == Pins(i, left)
     IN /\ leases' = left
        /\ IF i \in providers /\ pins # {}
           THEN /\ modules' = [modules EXCEPT ![i].state = "failed"]
                /\ orphans' = orphans \cup (IF pins \cap Plugins = {} THEN {} ELSE {i})
                /\ Soils(t)
                /\ UNCHANGED providers
           ELSE /\ providers' = providers \ {i} /\ orphans' = orphans \ {i}
                /\ Proceeds(t)
                /\ UNCHANGED modules
  /\ UNCHANGED <<graph, mapped, application, operation, failures, stuck>>

\* The module is unmapped, published or not.
Unmap(t) ==
  /\ At(t, "unmap")
  /\ LET i == Module(t)
     IN \/ /\ mapped' = mapped \ {i} /\ stuck' = stuck \ {i}
           /\ modules' = [modules EXCEPT ![i].state = IF @ = "failed" THEN @ ELSE "unloaded"]
           /\ Proceeds(t)
           /\ UNCHANGED failures
        \/ /\ i \in mapped /\ Breaks("unmap")
           /\ stuck' = stuck \cup {i}
           /\ modules' = [modules EXCEPT ![i].state = "failed"]
           /\ Soils(t)
           /\ UNCHANGED mapped
  /\ UNCHANGED <<graph, providers, leases, application, operation, orphans>>

\* Within Unload, between the hooks and the cleanup.
Stopped(t) ==
  /\ At(t, "stopped")
  /\ application' = [application EXCEPT !.started = FALSE]
  /\ Proceeds(t)
  /\ UNCHANGED <<modules, graph, registry, operation, failures>>

Returns(t, ok) ==
  /\ operation' = operation \ {t}
  /\ thread' = [thread EXCEPT ![t] = Returned(@, ok)]

\* The records of what is outside the graph go, but for what is still there of them.
Forgotten == [i \in DOMAIN modules \cap (mapped \cup providers) |-> modules[i]]

\* The modules of the graph are in a state that admits hooks, whatever it was.
AllUp == [i \in DOMAIN modules |->
            IF i \in Graph THEN [modules[i] EXCEPT !.state = "up"] ELSE modules[i]]

Finish(t) ==
  /\ \/ /\ At(t, "commit")
        /\ graph' = thread[t].made
        /\ Returns(t, TRUE)
        /\ UNCHANGED <<modules, application>>
     \/ /\ At(t, "emptied")
        /\ IF thread[t].clean
           THEN /\ graph' = <<>> /\ modules' = Forgotten
                /\ application' = [application EXCEPT !.exiting = FALSE]
           ELSE UNCHANGED <<modules, graph, application>>
        /\ Returns(t, thread[t].clean)
     \/ /\ At(t, "abandon")
        /\ modules' = Forgotten
        /\ Returns(t, FALSE)
        /\ UNCHANGED <<graph, application>>
     \/ /\ At(t, "unstarted")
        /\ Returns(t, FALSE)
        /\ UNCHANGED <<modules, graph, application>>
     \/ /\ At(t, "started")
        /\ modules' = AllUp
        /\ application' = [started |-> TRUE, exiting |-> FALSE]
        /\ Returns(t, TRUE)
        /\ UNCHANGED graph
     \/ /\ At(t, "exiting")
        /\ modules' = AllUp
        /\ application' = [application EXCEPT !.exiting = TRUE]
        /\ Returns(t, TRUE)
        /\ UNCHANGED graph
     \/ /\ At(t, "ended")
        /\ modules' = AllUp
        /\ application' = [application EXCEPT !.started = FALSE]
        /\ Returns(t, TRUE)
        /\ UNCHANGED graph
  /\ UNCHANGED <<registry, failures>>

-----------------------------------------------------------------------------
\* Plugins: importLeases of WupsServices, resolved at a load and released at an unload.

Resolve(p) ==
  /\ \E i \in providers : leases' = leases \cup {[importer |-> p, provider |-> i]}
  /\ UNCHANGED <<modules, graph, providers, mapped, application, operation, thread,
                 failures, orphans, stuck>>

ReleasePlugin(p) ==
  /\ leases' = {l \in leases : l.importer # p}
  /\ leases' # leases
  /\ UNCHANGED <<modules, graph, providers, mapped, application, operation, thread,
                 failures, orphans, stuck>>

Next ==
  \/ \E t \in Threads :
       \/ Load(t) \/ Unload(t) \/ Reload(t) \/ ReloadNext(t)
       \/ OnApplicationStarts(t) \/ OnApplicationRequestsExit(t) \/ OnApplicationEnds(t)
       \/ Map(t) \/ Link(t) \/ Hook(t) \/ Unpublish(t) \/ Unmap(t) \/ Stopped(t) \/ Finish(t)
  \/ \E p \in Plugins : Resolve(p) \/ ReleasePlugin(p)

Spec == Init /\ [][Next]_vars

-----------------------------------------------------------------------------
\* Properties

\* What a linked module or plugin holds is exported by a module that is there: except
\* by a module that the runtime unmapped although a plugin pinned it.
ImportsHeld ==
  \A l \in leases : l.provider \in (mapped \cap providers) \cup orphans

\* Between operations the modules with a start hook are started together, with the
\* application: a start that fails half-way ends those it started, and no module is
\* torn down without the end that its start calls for.
ApplicationPaired ==
  operation = {} =>
    LET running == {i \in DOMAIN modules : modules[i].running}
    IN running # {} => /\ application.started
                       /\ running = {i \in Graph : Has(i, "starts")}

\* A module of the graph that has not been finalized does not import from one that has.
FinalizedFirst ==
  \A l \in leases :
    {l.importer, l.provider} \subseteq Graph /\ modules[l.importer].initialized
    => modules[l.provider].initialized \/ ~Has(l.provider, "init")

\* Between operations nothing outside the graph is mapped, published or pinning others,
\* but for what the loader refused to unmap and what a plugin pinned.
NothingLeft ==
  operation = {} =>
    /\ mapped \subseteq Graph \cup stuck
    /\ providers \subseteq Graph \cup orphans
    /\ {l.importer : l \in leases} \subseteq Graph \cup Plugins

\* A Reload that fails in nothing but one step of a load or a start, with no other
\* operation in between, leaves the new modules or the old ones loaded, every one mapped,
\* and the application running if it was.  It is not said of a Reload in which a
\* finalizer, an unmapping or, for a plugin's pin, a withdrawal fails: the old graph is
\* taken down first, so such a failure ends the Reload without any graph.
ReloadKeepsGraph ==
  [][\A t \in Threads :
       (/\ thread[t].stage # "" /\ thread'[t].stage = ""
        /\ thread[t].troubles < 2 /\ operation \subseteq {t})
       => /\ Loaded' \in {thread[t].new, thread[t].old}
          /\ Graph' \subseteq mapped'
          /\ thread[t].restart => application'.started]_vars
=============================================================================
