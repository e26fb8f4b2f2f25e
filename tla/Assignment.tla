----------------------------- MODULE Assignment -----------------------------
(***************************************************************************)
(* What the marketplace promises about who works on what: a worker works   *)
(* on at most one request, a request is worked on by at most one worker,   *)
(* and a change of hands passes through nobody. JobMarket implements it.   *)
(***************************************************************************)
CONSTANTS Requests, Workers

VARIABLE jobs   \* jobs[w]: the requests w is assigned to

Init == jobs = [w \in Workers |-> {}]

Take(w, r) ==
  /\ jobs[w] = {}
  /\ \A v \in Workers : r \notin jobs[v]
  /\ jobs' = [jobs EXCEPT ![w] = {r}]

\* The job ends, or is taken away.
Leave(w) ==
  /\ jobs[w] # {}
  /\ jobs' = [jobs EXCEPT ![w] = {}]

Next == \E w \in Workers : Leave(w) \/ \E r \in Requests : Take(w, r)

Spec == Init /\ [][Next]_jobs
=============================================================================
