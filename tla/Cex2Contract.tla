---------------------------- MODULE Cex2Contract ----------------------------
(***************************************************************************)
(* What the CEX2 host promises a guest about its requests: a session is    *)
(* open once and, when closed, closed for good; each request in it is      *)
(* accepted at most once, answered once and delivered at most once, in     *)
(* that order, whatever answers it (a worker, a callback, a deadline, a    *)
(* cancellation or a revocation).                                          *)
(***************************************************************************)
EXTENDS Naturals, FiniteSets

CONSTANTS Sessions, Requests

VARIABLES
  session,  \* per session: "unopened", "open" or "closed"
  request   \* per session and request: how far it got

contractVars == <<session, request>>

Init ==
  /\ session = [s \in Sessions |-> "unopened"]
  /\ request = [s \in Sessions |-> [r \in Requests |-> "new"]]

Open(s) ==
  /\ session[s] = "unopened"
  /\ session' = [session EXCEPT ![s] = "open"]
  /\ UNCHANGED request

\* Whatever a closed session still held is never delivered.
Close(S) ==
  /\ S # {}
  /\ \A s \in S : session[s] = "open"
  /\ session' = [s \in Sessions |-> IF s \in S THEN "closed" ELSE session[s]]
  /\ request' = [s \in Sessions |->
                   IF s \in S THEN [r \in Requests |-> "new"] ELSE request[s]]

\* A request comes in and may be answered at once.
Accept(s, r) ==
  /\ session[s] = "open"
  /\ request[s][r] = "new"
  /\ \E to \in {"accepted", "answered"} : request' = [request EXCEPT ![s][r] = to]
  /\ UNCHANGED session

\* The requests in A are answered and those in D delivered.
Progress(s, A, D) ==
  /\ session[s] = "open"
  /\ \A r \in A : request[s][r] = "accepted"
  /\ \A r \in D : request[s][r] = "answered" \/ r \in A
  /\ Cardinality(D) <= 1
  /\ request' = [request EXCEPT ![s] =
                   [r \in Requests |-> IF r \in D THEN "delivered"
                                       ELSE IF r \in A THEN "answered" ELSE @[r]]]
  /\ UNCHANGED session

\* A revocation answers in every session of its owner: in s the requests A[s].
Revoke(A) ==
  /\ \A s \in Sessions : A[s] # {} => session[s] = "open"
  /\ \A s \in Sessions : \A r \in A[s] : request[s][r] = "accepted"
  /\ request' = [s \in Sessions |->
                   [r \in Requests |-> IF r \in A[s] THEN "answered" ELSE request[s][r]]]
  /\ UNCHANGED session

Next ==
  \/ \E s \in Sessions : Open(s)
  \/ \E S \in SUBSET Sessions : Close(S)
  \/ \E s \in Sessions, r \in Requests : Accept(s, r)
  \/ \E s \in Sessions, A, D \in SUBSET Requests : Progress(s, A, D)
  \/ \E A \in [Sessions -> SUBSET Requests] : Revoke(A)

Spec == Init /\ [][Next]_contractVars
=============================================================================
