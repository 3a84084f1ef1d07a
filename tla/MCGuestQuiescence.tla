-------------------------- MODULE MCGuestQuiescence --------------------------
(***************************************************************************)
(* GuestQuiescence for TLC.  The liveness run carries one history          *)
(* variable: which stops had a notification fall into the window between   *)
(* their test of the count and their block.                                *)
(***************************************************************************)
EXTENDS GuestQuiescence

VARIABLE missed

Notifies(t) == pc[t] \in {"notifyLeave", "notifyResume"} /\ pc'[t] # pc[t]

MissedNext ==
  missed' = IF (\E t \in Threads : Notifies(t)) /\ state.active = 0
            THEN missed \cup {t \in Threads : pc[t] = "drainBlock"}
            ELSE {t \in missed : pc'[t] # "callback"}

LiveSpec ==
  /\ missed = {} /\ Init
  /\ [][Next /\ MissedNext]_<<vars, missed>>
  /\ Fairness

\* A stop that has published the quiescing bit gets to run its callback, unless
\* the notification that its count reached zero was sent between its test of
\* the count and its block (GuestExecutionQuiescence.cpp:29-30 and 46-50).
\* Nothing else holds it up: not its own lease, not another stop, not a stream
\* of threads that try to enter.
StopRunsUnlessMissed ==
  \A t \in Threads : pc[t] = "drainLock" ~> (pc[t] = "callback" \/ t \in missed)
=============================================================================
