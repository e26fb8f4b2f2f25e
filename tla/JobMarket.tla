------------------------------ MODULE JobMarket ------------------------------
(***************************************************************************)
(* The life of job requests and of the offers made on them: publication,   *)
(* offers and counter-offers, acceptance, arrival, completion, the three   *)
(* ways of cancelling, and the timeout cron                                *)
(* (mobile-offers.service.ts, mobile-requests.service.ts,                  *)
(* mobile-requests-cron.service.ts, adminCancelJob).                       *)
(*                                                                         *)
(* One SQL statement, or one transaction that locks what it reads, is one  *)
(* action. Of a handler that is several statements, `step` and `args`      *)
(* remember which one comes next and what the handler was called with, so  *)
(* that handlers interleave between their statements. An operator marked   *)
(* "Mutation" is no part of the model: it is a bug the properties find.    *)
(***************************************************************************)
EXTENDS Naturals

CONSTANTS
  Requests,   \* rows of job_requests
  Workers,    \* users of type worker
  Calls,      \* HTTP handlers that may be in flight at the same time
  MaxAmount,  \* bound: amounts are 1..MaxAmount
  None        \* an argument a handler does not have

ASSUME MaxAmountIsPositive == MaxAmount \in Nat \ {0}
ASSUME NoneIsNoArgument    == None \notin Requests /\ None \notin Workers

VARIABLES
  status,      \* job_requests.status ("unpublished": no row yet)
  budget,      \* job_requests.budget
  offer,       \* offer[r][w]: job_offers.status of the only row of (r, w)
  price,       \* price[r][w]: job_offers.amount
  arrived,     \* job_requests.worker_arrived
  confirmed,   \* job_requests.client_confirmed_arrival
  settled,     \* job_requests.settled_amount (0: not settled)
  announced,   \* last status sent to the request's realtime room
  step,        \* step[c]: the next statement of the handler c
  args,        \* args[c]: what it was called with
  cron,        \* the pass of handleRequestTimeouts in progress
  overwritten  \* history: requests hit by a write based on a stale read

workVars == <<arrived, confirmed, settled>>
callVars == <<step, args>>
vars == <<status, budget, offer, price, workVars, announced, callVars, cron,
          overwritten>>

Amounts == 1..MaxAmount
Open    == {"searching", "negotiating"}
Closed  == {"completed", "cancelled"}
Status  == Open \cup Closed \cup {"unpublished", "assigned"}

\* "lapsed" is a row still 'pending' whose expires_at has passed.
Waiting     == {"pending", "lapsed"}
Resolved    == {"accepted", "rejected"}
OfferStatus == Waiting \cup Resolved \cup {"none", "declined", "expired"}

Steps == {"idle", "offer.read", "offer.insert", "offer.update", "offer.touch",
          "counter.write", "complete.write", "cancel.write", "admin.write",
          "cancel.close", "tell.assigned", "tell.completed"}

\* A handler without a worker or an amount has None and 0.
Args == [req: Requests \cup {None}, wrk: Workers \cup {None},
         amt: 0..MaxAmount]
NoArgs == [req |-> None, wrk |-> None, amt |-> 0]

\* The pass still has the requests of `todo` to look at and is between the
\* two statements of cancelRequest for those of `closing`.
CronRecord == [todo: SUBSET Requests, closing: SUBSET Requests]
CronIdle == [todo |-> {}, closing |-> {}]

TypeOK ==
  /\ status      \in [Requests -> Status]
  /\ budget      \in [Requests -> 0..MaxAmount]
  /\ offer       \in [Requests -> [Workers -> OfferStatus]]
  /\ price       \in [Requests -> [Workers -> 0..MaxAmount]]
  /\ arrived     \in [Requests -> BOOLEAN]
  /\ confirmed   \in [Requests -> BOOLEAN]
  /\ settled     \in [Requests -> 0..MaxAmount]
  /\ announced   \in [Requests -> Status]
  /\ step        \in [Calls -> Steps]
  /\ args        \in [Calls -> Args]
  /\ cron        \in CronRecord
  /\ overwritten \in SUBSET Requests

Init ==
  /\ status      = [r \in Requests |-> "unpublished"]
  /\ budget      = [r \in Requests |-> 0]
  /\ offer       = [r \in Requests |-> [w \in Workers |-> "none"]]
  /\ price       = [r \in Requests |-> [w \in Workers |-> 0]]
  /\ arrived     = [r \in Requests |-> FALSE]
  /\ confirmed   = [r \in Requests |-> FALSE]
  /\ settled     = [r \in Requests |-> 0]
  /\ announced   = [r \in Requests |-> "unpublished"]
  /\ step        = [c \in Calls |-> "idle"]
  /\ args        = [c \in Calls |-> NoArgs]
  /\ cron        = CronIdle
  /\ overwritten = {}

-----------------------------------------------------------------------------
(* What the handlers ask of the tables                                     *)

\* Mutation: no partial unique index on accepted offers.
HasWinnerNoIndex(r) == FALSE

HasWinner(r) == \E w \in Workers : offer[r][w] = "accepted"

Working(r, w) == status[r] = "assigned" /\ offer[r][w] = "accepted"

\* Mutation: a job counts as active only once its start is confirmed.
HasStartedJobElsewhere(w, r) ==
  \E q \in Requests \ {r} : Working(q, w) /\ confirmed[q]

HasActiveJobElsewhere(w, r) == \E q \in Requests \ {r} : Working(q, w)

Expired(o) == IF o = "lapsed" THEN "expired" ELSE o

\* UPDATE job_offers SET status = 'expired' of the stale rows of R.
ExpireStale(R) ==
  offer' = [r \in Requests |-> [w \in Workers |->
              IF r \in R THEN Expired(offer[r][w]) ELSE offer[r][w]]]

\* closePendingOffers: every pending row of r, stale or not.
ClosePending(r) ==
  offer' = [offer EXCEPT ![r] = [w \in Workers |->
              IF offer[r][w] \in Waiting THEN "expired" ELSE offer[r][w]]]

Idle(c) == step[c] = "idle"

Begin(c, s, r, w, a) ==
  /\ step' = [step EXCEPT ![c] = s]
  /\ args' = [args EXCEPT ![c] = [req |-> r, wrk |-> w, amt |-> a]]

Goto(c, s) == step' = [step EXCEPT ![c] = s] /\ UNCHANGED args

Return(c) ==
  /\ step' = [step EXCEPT ![c] = "idle"]
  /\ args' = [args EXCEPT ![c] = NoArgs]

-----------------------------------------------------------------------------
(* Publishing, and time                                                    *)

CreateRequest(r, b) ==
  /\ status[r] = "unpublished"
  /\ status'    = [status EXCEPT ![r] = "searching"]
  /\ budget'    = [budget EXCEPT ![r] = b]
  /\ announced' = [announced EXCEPT ![r] = "searching"]
  /\ UNCHANGED <<offer, price, workVars, callVars, cron, overwritten>>

\* expires_at of a pending offer passes.
Lapse(r, w) ==
  /\ offer[r][w] = "pending"
  /\ offer' = [offer EXCEPT ![r][w] = "lapsed"]
  /\ UNCHANGED <<status, budget, price, workVars, announced, callVars, cron,
                 overwritten>>

\* The only write of getOffers(r), and all that is left of an upsertOffer or
\* an acceptOffer that is refused.
ExpireStaleOffers(R) ==
  /\ ExpireStale(R)
  /\ UNCHANGED <<status, budget, price, workVars, announced, callVars, cron,
                 overwritten>>

-----------------------------------------------------------------------------
(* upsertOffer, called by the worker or by the agency on the worker's      *)
(* behalf: four awaited statements, none of them guarded by what the       *)
(* others read                                                             *)

\* A new offer or counter-offer of a worker may not go below the budget.
UpsertOffer(c, r, w, a) ==
  /\ Idle(c)
  /\ status[r] \in Open
  /\ ~ HasActiveJobElsewhere(w, r)
  /\ a >= budget[r]
  /\ ExpireStale({r})
  /\ Begin(c, "offer.read", r, w, a)
  /\ UNCHANGED <<status, budget, price, workVars, announced, cron,
                 overwritten>>

\* SELECT of the existing row; an accepted or rejected one ends the call.
ReadOffer(c) ==
  LET o == offer[args[c].req][args[c].wrk] IN
  /\ step[c] = "offer.read"
  /\ o \notin Resolved
  /\ Goto(c, IF o = "none" THEN "offer.insert" ELSE "offer.update")
  /\ UNCHANGED <<status, budget, offer, price, workVars, announced, cron,
                 overwritten>>

\* INSERT (refused by the unique (request, worker) key when the row is there
\* by now) or UPDATE ... WHERE id, whatever the row has become.
WriteOffer(c) ==
  LET r == args[c].req
      w == args[c].wrk IN
  /\ \/ step[c] = "offer.insert" /\ offer[r][w] = "none"
     \/ step[c] = "offer.update"
  /\ offer' = [offer EXCEPT ![r][w] = "pending"]
  /\ price' = [price EXCEPT ![r][w] = args[c].amt]
  /\ overwritten' = IF offer[r][w] \in Resolved THEN overwritten \cup {r}
                                                ELSE overwritten
  /\ Goto(c, "offer.touch")
  /\ UNCHANGED <<status, budget, workVars, announced, cron>>

\* searching -> negotiating, decided by the statement itself; then broadcast.
TouchRequest(c) ==
  LET r == args[c].req IN
  /\ step[c] = "offer.touch"
  /\ status' = [status EXCEPT ![r] = IF @ = "searching" THEN "negotiating"
                                                        ELSE @]
  /\ announced' = [announced EXCEPT ![r] = "negotiating"]
  /\ Return(c)
  /\ UNCHANGED <<budget, offer, price, workVars, cron, overwritten>>

-----------------------------------------------------------------------------
(* clientCounterOffer: SELECT, then an UPDATE guarded by the id only       *)

CounterOffer(c, r, a) ==
  /\ Idle(c)
  /\ status[r] \in Open
  /\ a > budget[r]
  /\ Begin(c, "counter.write", r, None, a)
  /\ UNCHANGED <<status, budget, offer, price, workVars, announced, cron,
                 overwritten>>

WriteCounter(c) ==
  LET r == args[c].req IN
  /\ step[c] = "counter.write"
  /\ status' = [status EXCEPT ![r] = "negotiating"]
  /\ budget' = [budget EXCEPT ![r] = args[c].amt]
  /\ overwritten' = IF status[r] \notin Open \/ args[c].amt <= budget[r]
                    THEN overwritten \cup {r} ELSE overwritten
  /\ Return(c)
  /\ UNCHANGED <<offer, price, workVars, announced, cron>>

-----------------------------------------------------------------------------
(* acceptOffer: one transaction under row locks on the request, the offer  *)
(* and the worker, then the broadcast. The partial unique index            *)
(* idx_one_accepted_offer_per_request makes it fail if the request already *)
(* has a winner. (Whether the worker is verified and whether the offer is  *)
(* paid may refuse it too; no property here depends on them.)              *)

Accept(c, r, w) ==
  /\ Idle(c)
  /\ status[r] \in Open
  /\ offer[r][w] = "pending"
  /\ ~ HasActiveJobElsewhere(w, r)
  /\ ~ HasWinner(r)
  /\ status' = [status EXCEPT ![r] = "assigned"]
  /\ offer'  = [q \in Requests |-> [v \in Workers |->
                  IF q # r THEN Expired(offer[q][v])
                  ELSE IF v = w THEN "accepted"
                  ELSE IF offer[q][v] = "pending" THEN "rejected"
                  ELSE Expired(offer[q][v])]]
  /\ Begin(c, "tell.assigned", r, None, 0)
  /\ UNCHANGED <<budget, price, workVars, announced, cron, overwritten>>

TellAssigned(c) ==
  /\ step[c] = "tell.assigned"
  /\ announced' = [announced EXCEPT ![args[c].req] = "assigned"]
  /\ Return(c)
  /\ UNCHANGED <<status, budget, offer, price, workVars, cron, overwritten>>

-----------------------------------------------------------------------------
(* What a worker does with an offer of their own: one statement each, or   *)
(* (decline) one transaction that locks the request first                  *)

\* Mutation: the UPDATE lost its "status = 'pending'".
DiscardAnyOffer(r, w) ==
  /\ offer[r][w] # "none"
  /\ offer' = [offer EXCEPT ![r][w] = "expired"]
  /\ UNCHANGED <<status, budget, price, workVars, announced, callVars, cron,
                 overwritten>>

DiscardOffer(r, w) ==
  /\ offer[r][w] \in Waiting
  /\ offer' = [offer EXCEPT ![r][w] = "expired"]
  /\ UNCHANGED <<status, budget, price, workVars, announced, callVars, cron,
                 overwritten>>

DeclineOffer(r, w) ==
  /\ status[r] \in Open
  /\ offer[r][w] \notin Resolved
  /\ offer' = [offer EXCEPT ![r][w] = "declined"]
  /\ price' = [price EXCEPT ![r][w] = IF offer[r][w] = "none" THEN budget[r]
                                                              ELSE @]
  /\ UNCHANGED <<status, budget, workVars, announced, callVars, cron,
                 overwritten>>

ReactivateOffer(r, w) ==
  /\ offer[r][w] = "declined"
  /\ offer' = [offer EXCEPT ![r][w] = "expired"]
  /\ UNCHANGED <<status, budget, price, workVars, announced, callVars, cron,
                 overwritten>>

-----------------------------------------------------------------------------
(* The job itself                                                          *)

WorkerMarkArrived(r, w) ==
  /\ status[r] \notin Closed
  /\ offer[r][w] = "accepted"
  /\ arrived' = [arrived EXCEPT ![r] = TRUE]
  /\ UNCHANGED <<status, budget, offer, price, confirmed, settled, announced,
                 callVars, cron, overwritten>>

ClientConfirmArrival(r) ==
  /\ status[r] \notin Closed \cup {"unpublished"}
  /\ arrived[r] /\ ~ confirmed[r]
  /\ confirmed' = [confirmed EXCEPT ![r] = TRUE]
  /\ UNCHANGED <<status, budget, offer, price, arrived, settled, announced,
                 callVars, cron, overwritten>>

\* Mutation: trusts the worker's arrival instead of the client's word.
CompleteJobOnArrival(c, r, w) ==
  /\ Idle(c)
  /\ offer[r][w] = "accepted"
  /\ arrived[r]
  /\ Begin(c, "complete.write", r, w, 0)
  /\ UNCHANGED <<status, budget, offer, price, workVars, announced, cron,
                 overwritten>>

\* completeJob: reads the accepted offer and the confirmation ...
CompleteJob(c, r, w) ==
  /\ Idle(c)
  /\ offer[r][w] = "accepted"
  /\ confirmed[r]
  /\ Begin(c, "complete.write", r, w, 0)
  /\ UNCHANGED <<status, budget, offer, price, workVars, announced, cron,
                 overwritten>>

\* ... reads the commission, and updates under the guard 'assigned'.
WriteCompleted(c) ==
  LET r == args[c].req
      w == args[c].wrk IN
  /\ step[c] = "complete.write"
  /\ Working(r, w)
  /\ status'  = [status EXCEPT ![r] = "completed"]
  /\ settled' = [settled EXCEPT ![r] = price[r][w]]
  /\ Goto(c, "tell.completed")
  /\ UNCHANGED <<budget, offer, price, arrived, confirmed, announced, cron,
                 overwritten>>

TellCompleted(c) ==
  /\ step[c] = "tell.completed"
  /\ announced' = [announced EXCEPT ![args[c].req] = "completed"]
  /\ Return(c)
  /\ UNCHANGED <<status, budget, offer, price, workVars, cron, overwritten>>

-----------------------------------------------------------------------------
(* Cancelling: by the client or the accepted worker, or by the admin       *)

CancelJob(c, r) ==
  /\ Idle(c)
  /\ status[r] \notin Closed \cup {"unpublished"}
  /\ \E s \in {"cancel.write", "admin.write"} : Begin(c, s, r, None, 0)
  /\ UNCHANGED <<status, budget, offer, price, workVars, announced, cron,
                 overwritten>>

\* Mutation: the UPDATE lost its guard on the status.
WriteCancelledUnguarded(c) ==
  LET r == args[c].req IN
  /\ step[c] = "cancel.write"
  /\ status' = [status EXCEPT ![r] = "cancelled"]
  /\ Goto(c, "cancel.close")
  /\ UNCHANGED <<budget, offer, price, workVars, announced, cron, overwritten>>

WriteCancelled(c) ==
  LET r == args[c].req IN
  /\ step[c] = "cancel.write"
  /\ status[r] \notin Closed
  /\ status' = [status EXCEPT ![r] = "cancelled"]
  /\ Goto(c, "cancel.close")
  /\ UNCHANGED <<budget, offer, price, workVars, announced, cron, overwritten>>

\* adminCancelJob: the UPDATE is guarded by the id only.
AdminWriteCancelled(c) ==
  LET r == args[c].req IN
  /\ step[c] = "admin.write"
  /\ status' = [status EXCEPT ![r] = "cancelled"]
  /\ overwritten' = IF status[r] = "completed" THEN overwritten \cup {r}
                                               ELSE overwritten
  /\ Goto(c, "cancel.close")
  /\ UNCHANGED <<budget, offer, price, workVars, announced, cron>>

CancelClose(c) ==
  LET r == args[c].req IN
  /\ step[c] = "cancel.close"
  /\ ClosePending(r)
  /\ announced' = [announced EXCEPT ![r] = "cancelled"]
  /\ Return(c)
  /\ UNCHANGED <<status, budget, price, workVars, cron, overwritten>>

\* A guard that no longer holds, a thrown error, a lost connection or a
\* restart ends a handler wherever it stands.
Abort(c) ==
  /\ ~ Idle(c)
  /\ Return(c)
  /\ UNCHANGED <<status, budget, offer, price, workVars, announced, cron,
                 overwritten>>

-----------------------------------------------------------------------------
(* handleRequestTimeouts: one SELECT of the open requests, then            *)
(* cancelRequest for each that is due                                      *)

\* Mutation: forgets the requests under negotiation.
CronSelectSearching(R) ==
  /\ cron = CronIdle
  /\ R # {}
  /\ \A r \in R : status[r] = "searching"
  /\ cron' = [todo |-> R, closing |-> {}]
  /\ UNCHANGED <<status, budget, offer, price, workVars, announced, callVars,
                 overwritten>>

CronSelect(R) ==
  /\ cron = CronIdle
  /\ R # {}
  /\ \A r \in R : status[r] \in Open
  /\ cron' = [todo |-> R, closing |-> {}]
  /\ UNCHANGED <<status, budget, offer, price, workVars, announced, callVars,
                 overwritten>>

\* Mutation: cancels by id whatever the request has become.
CronCancelUnguarded(r) ==
  /\ r \in cron.todo
  /\ cron.closing = {}
  /\ status' = [status EXCEPT ![r] = "cancelled"]
  /\ cron' = [todo |-> cron.todo \ {r}, closing |-> {r}]
  /\ UNCHANGED <<budget, offer, price, workVars, announced, callVars,
                 overwritten>>

\* UPDATE ... WHERE status IN ('searching', 'negotiating'). Its result is
\* [rows, count], so the test on cancelledRows[0] never stops the pass.
CronCancel(r) ==
  /\ r \in cron.todo
  /\ cron.closing = {}
  /\ status' = [status EXCEPT ![r] = IF @ \in Open THEN "cancelled" ELSE @]
  /\ cron' = [todo |-> cron.todo \ {r}, closing |-> {r}]
  /\ UNCHANGED <<budget, offer, price, workVars, announced, callVars,
                 overwritten>>

CronClose(r) ==
  /\ r \in cron.closing
  /\ ClosePending(r)
  /\ announced' = [announced EXCEPT ![r] = "cancelled"]
  /\ cron' = [todo |-> cron.todo, closing |-> {}]
  /\ UNCHANGED <<status, budget, price, workVars, callVars, overwritten>>

CronAbort ==
  /\ cron # CronIdle
  /\ cron' = CronIdle
  /\ UNCHANGED <<status, budget, offer, price, workVars, announced, callVars,
                 overwritten>>

-----------------------------------------------------------------------------
UserBegins(c) ==
  \E r \in Requests :
    \/ CancelJob(c, r)
    \/ \E a \in Amounts : CounterOffer(c, r, a)
    \/ \E w \in Workers :
         \/ Accept(c, r, w)
         \/ CompleteJob(c, r, w)
         \/ \E a \in Amounts : UpsertOffer(c, r, w, a)

CallContinues(c) ==
  \/ ReadOffer(c) \/ WriteOffer(c) \/ TouchRequest(c)
  \/ WriteCounter(c)
  \/ TellAssigned(c)
  \/ WriteCompleted(c) \/ TellCompleted(c)
  \/ WriteCancelled(c) \/ AdminWriteCancelled(c) \/ CancelClose(c)
  \/ Abort(c)

SingleStatement(r) ==
  \/ \E b \in Amounts : CreateRequest(r, b)
  \/ ClientConfirmArrival(r)
  \/ \E w \in Workers :
       \/ Lapse(r, w)
       \/ DiscardOffer(r, w) \/ DeclineOffer(r, w) \/ ReactivateOffer(r, w)
       \/ WorkerMarkArrived(r, w)

CronStep ==
  \/ \E R \in SUBSET Requests : CronSelect(R)
  \/ \E r \in Requests : CronCancel(r) \/ CronClose(r)
  \/ CronAbort

Next ==
  \/ \E c \in Calls : UserBegins(c) \/ CallContinues(c)
  \/ \E r \in Requests : SingleStatement(r)
  \/ \E R \in {{r} : r \in Requests} \cup {Requests} : ExpireStaleOffers(R)
  \/ CronStep

Spec == Init /\ [][Next]_vars

\* The cron runs every five minutes for as long as the service lives, and once
\* a request is due every later pass selects it. Users promise nothing.
CronPicks(r) == \E R \in SUBSET Requests : r \in R /\ CronSelect(R)

FairSpec ==
  /\ Spec
  /\ \A r \in Requests :
       SF_vars(CronPicks(r)) /\ SF_vars(CronCancel(r)) /\ WF_vars(CronClose(r))

-----------------------------------------------------------------------------
(* Properties that survive every interleaving of the handlers              *)

\* A request never has two winners, although acceptOffer locks only its own
\* request and two other handlers rewrite rows without a guard.
OneAcceptedOffer ==
  \A r \in Requests, v, w \in Workers :
    offer[r][v] = "accepted" /\ offer[r][w] = "accepted" => v = w

\* "Un worker solo puede tener un trabajo asignado": a worker is never the
\* winner of two assigned requests.
OneActiveJob ==
  \A q, r \in Requests, w \in Workers :
    Working(q, w) /\ Working(r, w) => q = r

\* A settled amount is only ever the result of a job whose arrival the client
\* confirmed, although completeJob reads the confirmation before its UPDATE.
SettledWasConfirmed ==
  \A r \in Requests : settled[r] # 0 => confirmed[r] /\ arrived[r]

\* The whole marketplace implements exclusive assignment (Assignment.tla).
JobsOf == [w \in Workers |-> {r \in Requests : Working(r, w)}]

Exclusive == INSTANCE Assignment WITH jobs <- JobsOf

ImplementsAssignment == Exclusive!Spec

\* No request takes offers for ever: it is assigned, or cancelled by somebody,
\* or the timeout gets it, however often a pass of the cron is cut short.
RequestsAreResolved ==
  \A r \in Requests : status[r] \in Open ~> status[r] \notin Open

-----------------------------------------------------------------------------
(* Properties of the requests that no stale write has hit: the three       *)
(* unguarded writes of upsertOffer, clientCounterOffer and adminCancelJob  *)
(* are the only way to lose them                                           *)

Intact == Requests \ overwritten

\* An assigned or completed request has a winner; one still open has none.
WinnerMatchesStatus ==
  \A r \in Intact :
    /\ status[r] \in {"assigned", "completed"} => HasWinner(r)
    /\ status[r] \in Open \cup {"unpublished"} => ~ HasWinner(r)

\* A completed job was settled at the price of the accepted offer, and
\* nothing else is ever settled.
SettledAtAcceptedPrice ==
  \A r \in Intact :
    IF status[r] = "completed"
    THEN \E w \in Workers :
           offer[r][w] = "accepted" /\ settled[r] = price[r][w]
    ELSE settled[r] = 0

\* Work only starts for a winner, and nobody is marked as arrived on a
\* request that still takes offers.
ArrivalNeedsWinner ==
  \A r \in Intact : arrived[r] => HasWinner(r) /\ status[r] \notin Open

\* Only work whose arrival the client confirmed is ever settled, and at the
\* price he accepted (completeJob, which guards the status in
\* its UPDATE and reads all the rest before).
SettledAsAgreed == SettledWasConfirmed /\ SettledAtAcceptedPrice

\* The room is told "assigned" or "completed" only of what has happened.
AnnouncementsTrue ==
  \A r \in Intact :
    /\ announced[r] = "assigned"  => HasWinner(r)
    /\ announced[r] = "completed" => status[r] = "completed"

\* A completed or cancelled request is never opened, assigned or completed
\* again ("resucitar", mobile-requests.service.ts:1079-1081).
ClosedStaysClosed ==
  [][\A r \in Requests \ overwritten' :
       status[r] \in Closed => status'[r] = status[r]]_vars
=============================================================================
