------------------------------ MODULE JobViews ------------------------------
(***************************************************************************)
(* What the screens show of JobMarket: to the client, to the workers, to   *)
(* the agencies, to everybody and to the administration. Each is a query   *)
(* of its own with its own conditions, and they have to agree on who works *)
(* for whom and for how much.                                              *)
(*                                                                         *)
(* All workers are ready: available, verified, near enough and able; none  *)
(* of them works for an agency. Names, places and photos are left out, and *)
(* so are the limits on the number of rows. An operator marked "Mutation"  *)
(* is a bug the properties find.                                           *)
(***************************************************************************)
EXTENDS JobMarket, FiniteSets, Functions

ASSUME RowsAreFinite == IsFiniteSet(Requests) /\ IsFiniteSet(Workers)

\* LEFT JOIN job_offers ... status = 'accepted'.
Accepted(r) == {w \in Workers : offer[r][w] = "accepted"}

\* COALESCE(jr.settled_amount, jo.amount).
Amount(r, w) == IF settled[r] # 0 THEN settled[r] ELSE price[r][w]

Past == Closed \cup {"assigned"}

-----------------------------------------------------------------------------
(* The client's screens                                                    *)

\* getOffers: what there is to accept.
GetOffers(r) == {w \in Workers : offer[r][w] = "pending"}

\* getRequestStatus: the row and its metrics.
RequestStatus(r) ==
  [status        |-> status[r],
   offersCount   |-> Cardinality(GetOffers(r)),
   acceptedCount |-> Cardinality(Accepted(r))]

\* getTracking: where the job stands, for both parties.
Tracking(r) ==
  {[wrk |-> w, agreed |-> price[r][w], final |-> settled[r],
    arrived |-> arrived[r], confirmed |-> confirmed[r]] : w \in Accepted(r)}

\* Mutation: every offer of the job is a line of the history.
HistoryOfOffers(r) ==
  IF status[r] \notin Past THEN {}
  ELSE {[wrk |-> w, amt |-> Amount(r, w)] :
          w \in {v \in Workers : offer[r][v] \in Resolved}}

\* getClientHistory: the lines of a request, one without a worker if it never
\* had one.
ClientHistory(r) ==
  IF status[r] \notin Past THEN {}
  ELSE IF Accepted(r) = {} THEN {[wrk |-> None, amt |-> 0]}
  ELSE {[wrk |-> w, amt |-> Amount(r, w)] : w \in Accepted(r)}

-----------------------------------------------------------------------------
(* The worker's screens                                                    *)

\* The LEFT JOIN of the own offer: expired ones are not shown.
OwnOffer(r, w) ==
  IF offer[r][w] \in {"expired", "lapsed"} THEN "none" ELSE offer[r][w]

\* The open requests of getIncomingRequest: none for who has a job.
OpenTo(w) ==
  {r \in Requests : status[r] \in Open /\ ~ \E q \in Requests : Working(q, w)}

Mine(w) == {r \in Requests : Working(r, w)}

\* getIncomingRequest.
Inbox(w) == {[req |-> r, own |-> OwnOffer(r, w)] : r \in OpenTo(w) \cup Mine(w)}

\* getWorkerHistory.
WorkerHistory(w) ==
  {[req |-> r, own |-> offer[r][w], amt |-> Amount(r, w)] :
     r \in {q \in Requests : status[q] \in Past /\ offer[q][w] \in Resolved}}

\* getWorkerRadar: jobs_today, and earnings_today.
Done(w) == {r \in Requests : status[r] = "completed" /\ w \in Accepted(r)}

WorkerRadar(w) ==
  [jobs |-> Cardinality(Done(w)),
   earnings |-> SumFunction([r \in Done(w) |-> Amount(r, w)])]

-----------------------------------------------------------------------------
(* What agencies, visitors and administrators see                          *)

\* getActiveJobs, and the public list.
ActiveJobs == {r \in Requests : status[r] \in Open}
PublicJobs == {r \in Requests : status[r] \in Open}

\* getRequestDetail: the worker of a request.
RequestDetail(r) == [status |-> status[r], wrk |-> Accepted(r)]

\* getCancellationStats: the worker, or else (None) the client, is charged.
CancellationStats(u) ==
  Cardinality({r \in Requests : status[r] = "cancelled" /\
    IF u = None THEN Accepted(r) = {} ELSE u \in Accepted(r)})

-----------------------------------------------------------------------------
(* Properties                                                              *)

\* "las rechazadas duplicaban el trabajo ... y mostraban como autor a
\* trabajadores que no lo hicieron" (getClientHistory): from the assignment
\* on, all screens name one and the same worker and amount, and nobody else
\* has the job in his inbox or among what he was given.
SameWinner ==
  \A r \in Intact : status[r] \in {"assigned", "completed"} =>
    \E w \in Workers :
      /\ {t.wrk : t \in Tracking(r)} = {w} /\ RequestDetail(r).wrk = {w}
      /\ RequestStatus(r).acceptedCount = 1
      /\ ClientHistory(r) = {[wrk |-> w, amt |-> Amount(r, w)]}
      /\ \A t \in Tracking(r) : t.final \in {0, t.agreed}
      /\ \A v \in Workers :
           /\ (r \in Mine(v)) = (v = w /\ status[r] = "assigned")
           /\ (\E h \in WorkerHistory(v) : h.req = r /\ h.own = "accepted")
                = (v = w)

\* What visitors, agencies or workers are invited to bid for has nobody
\* working on it yet, and an own offer in the inbox is still undecided.
InvitationsAreOpen ==
  /\ \A r \in Intact \cap (ActiveJobs \cup PublicJobs) :
       Tracking(r) = {} /\ RequestDetail(r).wrk = {} /\ ~ arrived[r]
  /\ \A w \in Workers : \A i \in Inbox(w) :
       i.req \in Intact \ Mine(w) => i.own \in {"none", "pending", "declined"}

\* Every completed job counts for one worker, at what it was settled for, and
\* every cancelled one is charged to one person.
CountedOnce ==
  overwritten = {} =>
    /\ SumFunction([w \in Workers |-> WorkerRadar(w).jobs])
         = Cardinality({r \in Requests : status[r] = "completed"})
    /\ SumFunction([w \in Workers |-> WorkerRadar(w).earnings])
         = SumFunction(settled)
    /\ SumFunction([u \in Workers \cup {None} |-> CancellationStats(u)])
         = Cardinality({r \in Requests : status[r] = "cancelled"})

\* Whoever looks, at a list, at a total or at the request itself, is shown one
\* and the same story of it (getClientHistory, getTracking, getActiveJobs,
\* getWorkerRadar, getCancellationStats).
ScreensAgree == SameWinner /\ InvitationsAreOpen /\ CountedOnce
=============================================================================
