--------------------------- MODULE GuestExclusion ---------------------------
(***************************************************************************)
(* What GuestExecutionQuiescence promises its callers, without atomics,    *)
(* mutexes or condition variables: guest execution leases are shared, a    *)
(* quiesced callback is exclusive, and a caller that gave up its own lease *)
(* to run the callback gets it back in the step that ends the stop.        *)
(***************************************************************************)
CONSTANTS Threads, NoThread

VARIABLES
  holders,   \* the threads that hold a guest execution lease
  stopper    \* the thread whose quiesced callback runs, or NoThread

vars == <<holders, stopper>>

Init == holders = {} /\ stopper = NoThread

Enter(t) ==
  /\ stopper = NoThread
  /\ t \notin holders
  /\ holders' = holders \cup {t}
  /\ UNCHANGED stopper

Leave(t) ==
  /\ t \in holders
  /\ holders' = holders \ {t}
  /\ UNCHANGED stopper

Stop(t) ==
  /\ stopper = NoThread
  /\ holders = {}
  /\ stopper' = t
  /\ UNCHANGED holders

\* The stop ends; the caller's own lease may be restored with it.
Resume(t) ==
  /\ stopper = t
  /\ stopper' = NoThread
  /\ holders' \in {{}, {t}}

Next == \E t \in Threads : Enter(t) \/ Leave(t) \/ Stop(t) \/ Resume(t)

Spec == Init /\ [][Next]_vars
=============================================================================
