----------------------------- MODULE MCJobMarket -----------------------------
(* Instances of JobMarket for TLC. *)
EXTENDS JobViews, TLC

\* Handlers, workers and requests are interchangeable: no action or property
\* names a particular one.
Symmetry ==
  Permutations(Workers) \cup Permutations(Calls) \cup Permutations(Requests)

\* What the guards read. price, settled, announced and overwritten only
\* record: states that differ in them alone have the same successors.
Guards == <<status, budget, offer, arrived, confirmed, step, args, cron>>

\* Bound of the two-request instance: the timeout cron does not run in it (it
\* acts on one request at a time, which the one-request instances cover).
NoTimeouts == cron = CronIdle

\* Bound of the one-request instance: the higher amount is only ever the
\* budget's and one worker's, always the same as workers are interchangeable.
Dear == CHOOSE w \in Workers : TRUE

OnePrice ==
  \A w \in Workers \ {Dear} :
    /\ \A r \in Requests : price[r][w] < MaxAmount
    /\ \A c \in Calls : args[c].wrk = w => args[c].amt < MaxAmount
=============================================================================
