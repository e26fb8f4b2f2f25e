--------------------------- MODULE JobMarketProofs ---------------------------
(***************************************************************************)
(* Theorems about JobMarket for every set of requests, of workers and of   *)
(* handlers in flight.                                                     *)
(***************************************************************************)
EXTENDS JobViews, FiniteSetTheorems, TLAPS

\* A handler in flight works on a request, and the handlers of an offer and
\* of a completion on a worker.
CallsHaveArguments ==
  \A c \in Calls :
    /\ step[c] # "idle" => args[c].req \in Requests
    /\ step[c] \in {"offer.read", "offer.insert", "offer.update",
                    "complete.write"} => args[c].wrk \in Workers

Typed == TypeOK /\ CallsHaveArguments

USE MaxAmountIsPositive, NoneIsNoArgument
USE DEF Open, Closed, Status, Waiting, Resolved, OfferStatus, Amounts, Steps,
        Args, NoArgs, CronRecord, CronIdle, workVars, callVars

USE DEF Typed, TypeOK, CallsHaveArguments

LEMMA InitTyped == Init => Typed
BY DEF Init

LEMMA UserBeginsTyped ==
  ASSUME Typed, NEW c \in Calls, UserBegins(c)
  PROVE  Typed'
<1> PICK r \in Requests :
       \/ CancelJob(c, r)
       \/ \E a \in Amounts : CounterOffer(c, r, a)
       \/ \E w \in Workers :
            \/ Accept(c, r, w)
            \/ CompleteJob(c, r, w)
            \/ \E a \in Amounts : UpsertOffer(c, r, w, a)
  BY DEF UserBegins
<1>1. ASSUME CancelJob(c, r) PROVE Typed'
  BY <1>1 DEF CancelJob, Begin
<1>2. ASSUME NEW a \in Amounts, CounterOffer(c, r, a) PROVE Typed'
  BY <1>2 DEF CounterOffer, Begin
<1>3. ASSUME NEW w \in Workers, Accept(c, r, w) PROVE Typed'
  BY <1>3 DEF Accept, Begin, Expired
<1>4. ASSUME NEW w \in Workers, CompleteJob(c, r, w) PROVE Typed'
  BY <1>4 DEF CompleteJob, Begin
<1>5. ASSUME NEW w \in Workers, NEW a \in Amounts, UpsertOffer(c, r, w, a)
      PROVE  Typed'
  BY <1>5 DEF UpsertOffer, Begin, ExpireStale, Expired
<1> QED  BY <1>1, <1>2, <1>3, <1>4, <1>5

LEMMA CallContinuesTyped ==
  ASSUME Typed, NEW c \in Calls, CallContinues(c)
  PROVE  Typed'
<1>1. CASE ReadOffer(c)
  BY <1>1 DEF ReadOffer, Goto
<1>2. CASE WriteOffer(c)
  BY <1>2 DEF WriteOffer, Goto
<1>3. CASE TouchRequest(c)
  BY <1>3 DEF TouchRequest, Return
<1>4. CASE WriteCounter(c)
  BY <1>4 DEF WriteCounter, Return
<1>5. CASE TellAssigned(c)
  BY <1>5 DEF TellAssigned, Return
<1>6. CASE WriteCompleted(c)
  BY <1>6 DEF WriteCompleted, Goto
<1>7. CASE TellCompleted(c)
  BY <1>7 DEF TellCompleted, Return
<1>8. CASE WriteCancelled(c)
  BY <1>8 DEF WriteCancelled, Goto
<1>9. CASE AdminWriteCancelled(c)
  BY <1>9 DEF AdminWriteCancelled, Goto
<1>10. CASE CancelClose(c)
  BY <1>10 DEF CancelClose, ClosePending, Return
<1>11. CASE Abort(c)
  BY <1>11 DEF Abort, Return, Idle
<1> QED
  BY <1>1, <1>2, <1>3, <1>4, <1>5, <1>6, <1>7, <1>8, <1>9, <1>10, <1>11
  DEF CallContinues

LEMMA SingleStatementTyped ==
  ASSUME Typed, NEW r \in Requests, SingleStatement(r)
  PROVE  Typed'
<1>1. ASSUME NEW b \in Amounts, CreateRequest(r, b) PROVE Typed'
  BY <1>1 DEF CreateRequest
<1>2. ASSUME ClientConfirmArrival(r) PROVE Typed'
  BY <1>2 DEF ClientConfirmArrival
<1>3. ASSUME NEW w \in Workers, Lapse(r, w) PROVE Typed'
  BY <1>3 DEF Lapse
<1>4. ASSUME NEW w \in Workers, DiscardOffer(r, w) PROVE Typed'
  BY <1>4 DEF DiscardOffer
<1>5. ASSUME NEW w \in Workers, DeclineOffer(r, w) PROVE Typed'
  BY <1>5 DEF DeclineOffer
<1>6. ASSUME NEW w \in Workers, ReactivateOffer(r, w) PROVE Typed'
  BY <1>6 DEF ReactivateOffer
<1>7. ASSUME NEW w \in Workers, WorkerMarkArrived(r, w) PROVE Typed'
  BY <1>7 DEF WorkerMarkArrived
<1> QED
  BY <1>1, <1>2, <1>3, <1>4, <1>5, <1>6, <1>7 DEF SingleStatement

LEMMA CronTyped ==
  ASSUME Typed, CronStep
  PROVE  Typed'
<1>1. ASSUME NEW R \in SUBSET Requests, CronSelect(R) PROVE Typed'
  BY <1>1 DEF CronSelect
<1>2. ASSUME NEW r \in Requests, CronCancel(r) PROVE Typed'
  BY <1>2 DEF CronCancel
<1>3. ASSUME NEW r \in Requests, CronClose(r) PROVE Typed'
  BY <1>3 DEF CronClose, ClosePending
<1>4. ASSUME CronAbort PROVE Typed'
  BY <1>4 DEF CronAbort
<1> QED  BY <1>1, <1>2, <1>3, <1>4 DEF CronStep

LEMMA ExpireTyped ==
  ASSUME Typed, NEW R \in SUBSET Requests, ExpireStaleOffers(R)
  PROVE  Typed'
BY DEF ExpireStaleOffers, ExpireStale, Expired

LEMMA StutterTyped ==
  ASSUME Typed, UNCHANGED vars
  PROVE  Typed'
BY DEF vars

-----------------------------------------------------------------------------
(* The inductive invariant *)

\* What the handlers in flight rely on between their statements. The two
\* announcements are only as true as the rows they were read from.
CallIsTimely(c) ==
  /\ step[c] = "complete.write" => confirmed[args[c].req]
  /\ args[c].req \in Intact =>
       /\ step[c] = "tell.assigned"  => HasWinner(args[c].req)
       /\ step[c] = "tell.completed" => status[args[c].req] = "completed"

CallsAreTimely == \A c \in Calls : CallIsTimely(c)

ConfirmedHasArrived == \A r \in Requests : confirmed[r] => arrived[r]

Safe ==
  /\ CallsAreTimely /\ ConfirmedHasArrived
  /\ OneAcceptedOffer /\ OneActiveJob /\ SettledWasConfirmed
  /\ WinnerMatchesStatus /\ SettledAtAcceptedPrice /\ ArrivalNeedsWinner
  /\ AnnouncementsTrue

IInv == Typed /\ Safe

USE DEF Typed, TypeOK, CallsHaveArguments, CallIsTimely, CallsAreTimely,
        ConfirmedHasArrived, OneAcceptedOffer, OneActiveJob,
        SettledWasConfirmed, WinnerMatchesStatus, SettledAtAcceptedPrice,
        ArrivalNeedsWinner, AnnouncementsTrue, Intact, HasWinner, Working,
        HasActiveJobElsewhere

\* An invariant cares about a statement that only rewrites offers no further
\* than its winners.
SameWinners ==
  \A r \in Requests, w \in Workers :
    offer'[r][w] = "accepted" <=> offer[r][w] = "accepted"

LEMMA InitSafe == Init => Safe
BY DEF Init, Safe

LEMMA UserBeginsSafe ==
  ASSUME Typed, Typed', Safe, NEW c \in Calls, UserBegins(c)
  PROVE  Safe'
<1> PICK r \in Requests :
       \/ CancelJob(c, r)
       \/ \E a \in Amounts : CounterOffer(c, r, a)
       \/ \E w \in Workers :
            \/ Accept(c, r, w)
            \/ CompleteJob(c, r, w)
            \/ \E a \in Amounts : UpsertOffer(c, r, w, a)
  BY DEF UserBegins
<1>1. ASSUME CancelJob(c, r) PROVE Safe'
  BY <1>1 DEF CancelJob, Begin, Safe
<1>2. ASSUME NEW a \in Amounts, CounterOffer(c, r, a) PROVE Safe'
  BY <1>2 DEF CounterOffer, Begin, Safe
<1>3. ASSUME NEW w \in Workers, Accept(c, r, w) PROVE Safe'
  <2>1. /\ \A q \in Requests, v \in Workers :
             offer'[q][v] = "accepted" <=>
               offer[q][v] = "accepted" \/ (q = r /\ v = w)
        /\ \A v \in Workers : offer[r][v] # "accepted"
        /\ status[r] \in Open
        /\ status' = [status EXCEPT ![r] = "assigned"]
        /\ UNCHANGED <<price, workVars, announced, overwritten>>
    BY <1>3 DEF Accept, Expired
  <2>2. HasWinner(r)' /\ \A q \in Requests : HasWinner(q) => HasWinner(q)'
    BY <2>1
  <2>3. CallsAreTimely'
    <3>1. /\ step'[c] = "tell.assigned" /\ args'[c].req = r
          /\ \A d \in Calls \ {c} :
               step'[d] = step[d] /\ args'[d] = args[d]
      BY <1>3 DEF Accept, Begin
    <3>2. ASSUME NEW d \in Calls, d # c
          PROVE  CallIsTimely(d)'
      BY <2>1, <2>2, <3>1, <3>2 DEF Safe
    <3>3. CallIsTimely(c)'
      BY <2>1, <2>2, <3>1 DEF Safe
    <3> QED  BY <3>2, <3>3
  <2>4. AnnouncementsTrue'
    BY <2>1, <2>2 DEF Safe
  <2>5. OneAcceptedOffer'
    <3> SUFFICES ASSUME NEW q \in Requests, NEW v \in Workers,
                        NEW x \in Workers, offer'[q][v] = "accepted",
                        offer'[q][x] = "accepted"
                 PROVE  v = x
      OBVIOUS
    <3>1. CASE q = r
      BY <2>1, <3>1
    <3>2. CASE q # r
      BY <2>1, <3>2 DEF Safe
    <3> QED  BY <3>1, <3>2
  <2>6. OneActiveJob'
    BY <1>3, <2>1 DEF Safe, Accept
  <2>7. WinnerMatchesStatus' /\ ArrivalNeedsWinner'
    BY <2>1 DEF Safe
  <2>8. SettledAtAcceptedPrice'
    BY <2>1 DEF Safe
  <2>9. ConfirmedHasArrived' /\ SettledWasConfirmed'
    BY <2>1 DEF Safe
  <2> QED  BY <2>3, <2>4, <2>5, <2>6, <2>7, <2>8, <2>9 DEF Safe
<1>4. ASSUME NEW w \in Workers, CompleteJob(c, r, w) PROVE Safe'
  BY <1>4 DEF CompleteJob, Begin, Safe
<1>5. ASSUME NEW w \in Workers, NEW a \in Amounts, UpsertOffer(c, r, w, a)
      PROVE  Safe'
  <2>1. SameWinners
    BY <1>5 DEF SameWinners, UpsertOffer, ExpireStale, Expired
  <2> QED  BY <1>5, <2>1 DEF SameWinners, Safe, UpsertOffer, Begin
<1> QED  BY <1>1, <1>2, <1>3, <1>4, <1>5

LEMMA CallContinuesSafe ==
  ASSUME Typed, Typed', Safe, NEW c \in Calls, CallContinues(c)
  PROVE  Safe'
<1>1. CASE ReadOffer(c)
  BY <1>1 DEF ReadOffer, Goto, Safe
<1>2. CASE WriteOffer(c)
  <2> DEFINE r == args[c].req
             w == args[c].wrk
  <2>1. /\ r \in Requests /\ w \in Workers
        /\ \A q \in Requests, v \in Workers :
             /\ offer'[q][v] = "accepted" <=>
                  offer[q][v] = "accepted" /\ ~ (q = r /\ v = w)
             /\ ~ (q = r /\ v = w) => price'[q][v] = price[q][v]
        /\ offer[r][w] = "accepted" => r \in overwritten'
        /\ overwritten \subseteq overwritten'
        /\ UNCHANGED <<status, workVars, announced>>
    BY <1>2 DEF WriteOffer
  <2>2. \A q \in Intact' : q \in Intact /\ (HasWinner(q) => HasWinner(q)')
    BY <2>1
  <2>3. CallsAreTimely'
    <3>1. /\ args' = args
          /\ \A d \in Calls : step'[d] = step[d] \/ step'[d] = "offer.touch"
      BY <1>2 DEF WriteOffer, Goto
    <3> QED  BY <2>1, <2>2, <3>1 DEF Safe
  <2>4. AnnouncementsTrue'
    BY <2>1, <2>2 DEF Safe
  <2>5. OneAcceptedOffer' /\ OneActiveJob'
    BY <2>1 DEF Safe
  <2>6. WinnerMatchesStatus' /\ ArrivalNeedsWinner'
    BY <2>1 DEF Safe
  <2>7. SettledAtAcceptedPrice'
    BY <2>1 DEF Safe
  <2>8. ConfirmedHasArrived' /\ SettledWasConfirmed'
    BY <2>1 DEF Safe
  <2> QED  BY <2>3, <2>4, <2>5, <2>6, <2>7, <2>8 DEF Safe
<1>3. CASE TouchRequest(c)
  BY <1>3 DEF TouchRequest, Return, Safe
<1>4. CASE WriteCounter(c)
  BY <1>4 DEF WriteCounter, Return, Safe
<1>5. CASE TellAssigned(c)
  BY <1>5 DEF TellAssigned, Return, Safe
<1>6. CASE WriteCompleted(c)
  BY <1>6 DEF WriteCompleted, Goto, Safe
<1>7. CASE TellCompleted(c)
  BY <1>7 DEF TellCompleted, Return, Safe
<1>8. CASE WriteCancelled(c)
  BY <1>8 DEF WriteCancelled, Goto, Safe
<1>9. CASE AdminWriteCancelled(c)
  BY <1>9 DEF AdminWriteCancelled, Goto, Safe
<1>10. CASE CancelClose(c)
  <2>1. SameWinners
    BY <1>10 DEF SameWinners, CancelClose, ClosePending
  <2> QED  BY <1>10, <2>1 DEF SameWinners, Safe, CancelClose, Return
<1>11. CASE Abort(c)
  BY <1>11 DEF Abort, Return, Idle, Safe
<1> QED
  BY <1>1, <1>2, <1>3, <1>4, <1>5, <1>6, <1>7, <1>8, <1>9, <1>10, <1>11
  DEF CallContinues

LEMMA SingleStatementSafe ==
  ASSUME Typed, Typed', Safe, NEW r \in Requests, SingleStatement(r)
  PROVE  Safe'
<1>1. ASSUME NEW b \in Amounts, CreateRequest(r, b) PROVE Safe'
  BY <1>1 DEF CreateRequest, Safe
<1>2. ASSUME ClientConfirmArrival(r) PROVE Safe'
  BY <1>2 DEF ClientConfirmArrival, Safe
<1>3. ASSUME NEW w \in Workers, Lapse(r, w) PROVE Safe'
  BY <1>3 DEF Lapse, Safe
<1>4. ASSUME NEW w \in Workers, DiscardOffer(r, w) PROVE Safe'
  BY <1>4 DEF DiscardOffer, Safe
<1>5. ASSUME NEW w \in Workers, DeclineOffer(r, w) PROVE Safe'
  BY <1>5 DEF DeclineOffer, Safe
<1>6. ASSUME NEW w \in Workers, ReactivateOffer(r, w) PROVE Safe'
  BY <1>6 DEF ReactivateOffer, Safe
<1>7. ASSUME NEW w \in Workers, WorkerMarkArrived(r, w) PROVE Safe'
  BY <1>7 DEF WorkerMarkArrived, Safe
<1> QED
  BY <1>1, <1>2, <1>3, <1>4, <1>5, <1>6, <1>7 DEF SingleStatement

LEMMA CronSafe ==
  ASSUME Typed, Typed', Safe, CronStep
  PROVE  Safe'
<1>1. ASSUME NEW R \in SUBSET Requests, CronSelect(R) PROVE Safe'
  BY <1>1 DEF CronSelect, Safe
<1>2. ASSUME NEW r \in Requests, CronCancel(r) PROVE Safe'
  BY <1>2 DEF CronCancel, Safe
<1>3. ASSUME NEW r \in Requests, CronClose(r) PROVE Safe'
  <2>1. SameWinners
    BY <1>3 DEF SameWinners, CronClose, ClosePending
  <2> QED  BY <1>3, <2>1 DEF SameWinners, Safe, CronClose
<1>4. ASSUME CronAbort PROVE Safe'
  BY <1>4 DEF CronAbort, Safe
<1> QED  BY <1>1, <1>2, <1>3, <1>4 DEF CronStep

LEMMA ExpireSafe ==
  ASSUME Typed, Typed', Safe, NEW R \in SUBSET Requests, ExpireStaleOffers(R)
  PROVE  Safe'
<1>1. SameWinners
  BY DEF SameWinners, ExpireStaleOffers, ExpireStale, Expired
<1> QED  BY <1>1 DEF SameWinners, Safe, ExpireStaleOffers

LEMMA StutterSafe ==
  ASSUME Typed, Typed', Safe, UNCHANGED vars
  PROVE  Safe'
BY DEF vars, Safe

-----------------------------------------------------------------------------
(* Every step keeps the invariant *)

HIDE DEF Typed, TypeOK, CallsHaveArguments, CallIsTimely, CallsAreTimely,
         ConfirmedHasArrived, OneAcceptedOffer, OneActiveJob,
         SettledWasConfirmed, WinnerMatchesStatus, SettledAtAcceptedPrice,
         ArrivalNeedsWinner, AnnouncementsTrue, Intact, HasWinner, Working,
         HasActiveJobElsewhere, Closed, Open

LEMMA NextTyped == Typed /\ [Next]_vars => Typed'
BY UserBeginsTyped, CallContinuesTyped, SingleStatementTyped, CronTyped,
   ExpireTyped, StutterTyped
DEF Next

LEMMA NextSafe == Typed /\ Typed' /\ Safe /\ [Next]_vars => Safe'
BY UserBeginsSafe, CallContinuesSafe, SingleStatementSafe, CronSafe,
   ExpireSafe, StutterSafe
DEF Next

LEMMA Invariance == Spec => []IInv
<1>1. Init => IInv
  BY InitTyped, InitSafe DEF IInv
<1>2. IInv /\ [Next]_vars => IInv'
  BY NextTyped, NextSafe DEF IInv
<1> QED  BY <1>1, <1>2, PTL DEF Spec

\* Every state is well typed: amounts and statuses stay in their ranges.
THEOREM TypeCorrect == Spec => []TypeOK
<1>1. IInv => TypeOK
  BY DEF IInv, Typed
<1> QED  BY Invariance, <1>1, PTL

\* No two workers ever hold an accepted offer on one request.
THEOREM WinnerIsUnique == Spec => []OneAcceptedOffer
<1>1. IInv => OneAcceptedOffer
  BY DEF IInv, Safe
<1> QED  BY Invariance, <1>1, PTL

\* A worker is never assigned to two requests at a time.
THEOREM WorkerIsExclusive == Spec => []OneActiveJob
<1>1. IInv => OneActiveJob
  BY DEF IInv, Safe
<1> QED  BY Invariance, <1>1, PTL

\* Money is only settled for work whose start the client confirmed.
THEOREM SettlementWasConfirmed == Spec => []SettledWasConfirmed
<1>1. IInv => SettledWasConfirmed
  BY DEF IInv, Safe
<1> QED  BY Invariance, <1>1, PTL

\* On a request no stale write has hit, status and accepted offer agree.
THEOREM StatusNamesWinner == Spec => []WinnerMatchesStatus
<1>1. IInv => WinnerMatchesStatus
  BY DEF IInv, Safe
<1> QED  BY Invariance, <1>1, PTL

\* On such a request the settlement is the price the client accepted.
THEOREM SettlementIsThePrice == Spec => []SettledAtAcceptedPrice
<1>1. IInv => SettledAtAcceptedPrice
  BY DEF IInv, Safe
<1> QED  BY Invariance, <1>1, PTL

\* Both together: what completeJob settles is what was agreed.
THEOREM SettlementIsAsAgreed == Spec => []SettledAsAgreed
<1>1. SettledWasConfirmed /\ SettledAtAcceptedPrice => SettledAsAgreed
  BY DEF SettledAsAgreed
<1> QED  BY SettlementWasConfirmed, SettlementIsThePrice, <1>1, PTL

\* On such a request nobody arrives before being chosen.
THEOREM ArrivalIsOfTheWinner == Spec => []ArrivalNeedsWinner
<1>1. IInv => ArrivalNeedsWinner
  BY DEF IInv, Safe
<1> QED  BY Invariance, <1>1, PTL

\* On such a request "assigned" and "completed" are only announced truly,
\* although they are sent after the transaction has ended.
THEOREM AnnouncementsAreTrue == Spec => []AnnouncementsTrue
<1>1. IInv => AnnouncementsTrue
  BY DEF IInv, Safe
<1> QED  BY Invariance, <1>1, PTL

-----------------------------------------------------------------------------
(* Closed requests stay closed *)

LEMMA NextClosed ==
  ASSUME Typed, [Next]_vars, NEW r \in Requests \ overwritten',
         status[r] \in Closed
  PROVE  status'[r] = status[r]
<1>1. ASSUME NEW c \in Calls, UserBegins(c) PROVE status'[r] = status[r]
  BY <1>1 DEF UserBegins, CancelJob, CounterOffer, Accept, CompleteJob,
       UpsertOffer, Open, Closed, Typed, TypeOK
<1>2. ASSUME NEW c \in Calls, CallContinues(c) PROVE status'[r] = status[r]
  BY <1>2 DEF CallContinues, ReadOffer, WriteOffer, TouchRequest,
       WriteCounter, TellAssigned, WriteCompleted, TellCompleted,
       WriteCancelled, AdminWriteCancelled, CancelClose, Abort, Open,
       Closed, Typed, TypeOK, Working
<1>3. ASSUME NEW q \in Requests, SingleStatement(q) PROVE status'[r] = status[r]
  BY <1>3 DEF SingleStatement, CreateRequest, ClientConfirmArrival, Lapse,
       DiscardOffer, DeclineOffer, ReactivateOffer, WorkerMarkArrived, Open,
       Closed, Typed, TypeOK
<1>4. CASE CronStep
  BY <1>4 DEF CronStep, CronSelect, CronCancel, CronClose, CronAbort, Open,
       Closed, Typed, TypeOK
<1>5. CASE \E R \in SUBSET Requests : ExpireStaleOffers(R)
  BY <1>5 DEF ExpireStaleOffers
<1>6. CASE UNCHANGED vars
  BY <1>6 DEF vars
<1> QED  BY <1>1, <1>2, <1>3, <1>4, <1>5, <1>6 DEF Next

\* No handler, however late, reopens, assigns or completes a closed request
\* that no stale write has hit.
THEOREM ClosedForGood == Spec => ClosedStaysClosed
<1>1. IInv /\ [Next]_vars =>
        [\A r \in Requests \ overwritten' :
           status[r] \in Closed => status'[r] = status[r]]_vars
  BY NextClosed DEF IInv
<1> QED  BY Invariance, <1>1, PTL DEF Spec, ClosedStaysClosed

-----------------------------------------------------------------------------
(* JobMarket implements Assignment *)

\* What a step that is no acceptance does to who works where: nothing, or it
\* ends the work on one request.
SameJobs == \A q \in Requests, v \in Workers : Working(q, v)' <=> Working(q, v)

EndsJob(r) ==
  \A q \in Requests, v \in Workers :
    Working(q, v)' <=> Working(q, v) /\ q # r

LEMMA SameJobsStutters == SameJobs => UNCHANGED JobsOf
BY DEF SameJobs, JobsOf

LEMMA EndsJobImplementsLeave ==
  ASSUME OneAcceptedOffer, OneActiveJob, NEW r \in Requests, EndsJob(r)
  PROVE  [Exclusive!Next]_JobsOf
<1>1. CASE \A w \in Workers : ~ Working(r, w)
  BY <1>1, SameJobsStutters DEF EndsJob, SameJobs
<1>2. ASSUME NEW w \in Workers, Working(r, w)
      PROVE  Exclusive!Leave(w)
  <2>1. JobsOf[w] = {r}
    BY <1>2 DEF JobsOf, OneActiveJob
  <2>2. JobsOf'[w] = {}
    BY <1>2 DEF JobsOf, OneActiveJob, EndsJob
  <2>3. ASSUME NEW v \in Workers, v # w PROVE JobsOf'[v] = JobsOf[v]
    BY <1>2, <2>3 DEF JobsOf, OneAcceptedOffer, EndsJob, Working
  <2> QED  BY <2>1, <2>2, <2>3 DEF Exclusive!Leave, JobsOf
<1> QED  BY <1>1, <1>2 DEF Exclusive!Next

LEMMA AcceptImplementsTake ==
  ASSUME Typed, NEW c \in Calls, NEW r \in Requests, NEW w \in Workers,
         Accept(c, r, w)
  PROVE  Exclusive!Take(w, r)
<1>1. \A q \in Requests, v \in Workers :
        Working(q, v)' <=> Working(q, v) \/ (q = r /\ v = w)
  BY DEF Accept, Working, Expired, Open, Typed, TypeOK, HasWinner
<1>2. /\ \A v \in Workers : ~ Working(r, v)
      /\ \A q \in Requests : ~ Working(q, w)
  BY DEF Accept, Working, HasActiveJobElsewhere, Open
<1>3. JobsOf[w] = {} /\ \A v \in Workers : r \notin JobsOf[v]
  BY <1>2 DEF JobsOf
<1>4. JobsOf' = [JobsOf EXCEPT ![w] = {r}]
  BY <1>1, <1>2 DEF JobsOf
<1> QED  BY <1>3, <1>4 DEF Exclusive!Take

LEMMA NextJobs ==
  ASSUME Typed, OneAcceptedOffer, [Next]_vars
  PROVE  \/ SameJobs
         \/ \E r \in Requests : EndsJob(r)
         \/ \E c \in Calls, r \in Requests, w \in Workers : Accept(c, r, w)
<1> DEFINE Goal == \/ SameJobs
                   \/ \E r \in Requests : EndsJob(r)
                   \/ \E c \in Calls, r \in Requests, w \in Workers :
                        Accept(c, r, w)
<1> USE DEF SameJobs, Working, Typed, TypeOK
<1>1. ASSUME NEW c \in Calls, UserBegins(c) PROVE Goal
  <2>1. ASSUME NEW r \in Requests, CancelJob(c, r) PROVE SameJobs
    BY <2>1 DEF CancelJob
  <2>2. ASSUME NEW r \in Requests, NEW a \in Amounts, CounterOffer(c, r, a)
        PROVE  SameJobs
    BY <2>2 DEF CounterOffer
  <2>3. ASSUME NEW r \in Requests, NEW w \in Workers, CompleteJob(c, r, w)
        PROVE  SameJobs
    BY <2>3 DEF CompleteJob
  <2>4. ASSUME NEW r \in Requests, NEW w \in Workers, NEW a \in Amounts,
               UpsertOffer(c, r, w, a)
        PROVE  SameJobs
    BY <2>4 DEF UpsertOffer, ExpireStale, Expired
  <2> HIDE DEF SameJobs, Working, Typed, TypeOK
  <2> QED  BY <1>1, <2>1, <2>2, <2>3, <2>4 DEF UserBegins
<1>2. ASSUME NEW c \in Calls, CallContinues(c)
      PROVE  SameJobs \/ EndsJob(args[c].req)
  <2> USE DEF EndsJob
  <2>1. CASE ReadOffer(c) \/ TellAssigned(c) \/ TellCompleted(c) \/ Abort(c)
    BY <2>1 DEF ReadOffer, TellAssigned, TellCompleted, Abort
  <2>2. CASE WriteOffer(c)
    BY <2>2 DEF WriteOffer, OneAcceptedOffer, CallsHaveArguments
  <2>3. CASE TouchRequest(c)
    BY <2>3 DEF TouchRequest
  <2>4. CASE WriteCounter(c) \/ WriteCompleted(c)
    BY <2>4 DEF WriteCounter, WriteCompleted
  <2>5. CASE WriteCancelled(c) \/ AdminWriteCancelled(c)
    BY <2>5 DEF WriteCancelled, AdminWriteCancelled
  <2>6. CASE CancelClose(c)
    BY <2>6 DEF CancelClose, ClosePending
  <2> QED  BY <1>2, <2>1, <2>2, <2>3, <2>4, <2>5, <2>6 DEF CallContinues
<1>3. ASSUME NEW r \in Requests, SingleStatement(r) PROVE SameJobs
  BY <1>3 DEF SingleStatement, CreateRequest, ClientConfirmArrival, Lapse,
              DiscardOffer, DeclineOffer, ReactivateOffer, WorkerMarkArrived
<1>4. ASSUME CronStep PROVE SameJobs
  <2>1. ASSUME NEW r \in Requests, CronCancel(r) PROVE SameJobs
    BY <2>1 DEF CronCancel, Open
  <2>2. ASSUME NEW r \in Requests, CronClose(r) PROVE SameJobs
    BY <2>2 DEF CronClose, ClosePending
  <2>3. CASE CronAbort \/ \E R \in SUBSET Requests : CronSelect(R)
    BY <2>3 DEF CronAbort, CronSelect
  <2> QED  BY <1>4, <2>1, <2>2, <2>3 DEF CronStep
<1>5. ASSUME NEW R \in SUBSET Requests, ExpireStaleOffers(R) PROVE SameJobs
  BY <1>5 DEF ExpireStaleOffers, ExpireStale, Expired
<1>6. CASE UNCHANGED vars
  BY <1>6 DEF vars
<1>7. \A c \in Calls : CallContinues(c) => args[c].req \in Requests
  BY DEF CallsHaveArguments, CallContinues, ReadOffer, WriteOffer, TouchRequest,
         WriteCounter, TellAssigned, WriteCompleted, TellCompleted,
         WriteCancelled, AdminWriteCancelled, CancelClose, Abort, Idle
<1> HIDE DEF SameJobs, Working, Typed, TypeOK
<1>8. ASSUME NEW c \in Calls, CallContinues(c) PROVE Goal
  BY <1>2, <1>7, <1>8
<1>9. ASSUME NEW R \in {{r} : r \in Requests} \cup {Requests},
             ExpireStaleOffers(R)
      PROVE  Goal
  BY <1>5, <1>9
<1> QED
  BY <1>1, <1>3, <1>4, <1>6, <1>8, <1>9 DEF Next

\* The marketplace implements exclusive assignment: whatever the handlers do,
\* an outside observer only ever sees one worker take one free request, or
\* somebody's job end.
THEOREM Refinement == Spec => ImplementsAssignment
<1>1. Init => Exclusive!Init
  BY DEF Init, Exclusive!Init, JobsOf, Working
<1>2. IInv /\ [Next]_vars => [Exclusive!Next]_JobsOf
  BY NextJobs, SameJobsStutters, EndsJobImplementsLeave, AcceptImplementsTake
  DEF IInv, Safe, Exclusive!Next
<1> QED  BY Invariance, <1>1, <1>2, PTL
  DEF Spec, ImplementsAssignment, Exclusive!Spec

-----------------------------------------------------------------------------
(* What the screens show (JobViews)                                        *)

\* Where bids are still taken, nobody has been accepted or turned down.
Undecided ==
  \A r \in Intact : status[r] \in Open \cup {"unpublished"} =>
    \A w \in Workers : offer[r][w] \notin Resolved

LEMMA NextUndecided ==
  ASSUME Typed, [Next]_vars, NEW r \in Requests \ overwritten', NEW w \in Workers,
         status'[r] \in Open \cup {"unpublished"}, offer'[r][w] \in Resolved
  PROVE  /\ r \notin overwritten /\ status[r] \in Open \cup {"unpublished"}
         /\ offer[r][w] \in Resolved
<1> USE DEF Open, Closed, Typed, TypeOK
<1>1. ASSUME NEW c \in Calls, UserBegins(c)
      PROVE  /\ r \notin overwritten /\ status[r] \in Open \cup {"unpublished"}
             /\ offer[r][w] \in Resolved
  BY <1>1 DEF UserBegins, CancelJob, CounterOffer, Accept, CompleteJob,
       UpsertOffer, ExpireStale, Expired
<1>2. ASSUME NEW c \in Calls, CallContinues(c)
      PROVE  /\ r \notin overwritten /\ status[r] \in Open \cup {"unpublished"}
             /\ offer[r][w] \in Resolved
  <2>1. CASE ReadOffer(c)
    BY <2>1 DEF ReadOffer
  <2>2. CASE WriteOffer(c)
    BY <2>2 DEF WriteOffer, CallsHaveArguments
  <2>3. CASE TouchRequest(c)
    BY <2>3 DEF TouchRequest, CallsHaveArguments
  <2>4. CASE WriteCounter(c)
    BY <2>4 DEF WriteCounter
  <2>5. CASE TellAssigned(c) \/ WriteCompleted(c) \/ TellCompleted(c)
    BY <2>5 DEF TellAssigned, WriteCompleted, TellCompleted, Working
  <2>6. CASE WriteCancelled(c) \/ AdminWriteCancelled(c) \/ CancelClose(c)
    BY <2>6 DEF WriteCancelled, AdminWriteCancelled, CancelClose, ClosePending
  <2>7. CASE Abort(c)
    BY <2>7 DEF Abort
  <2> QED  BY <1>2, <2>1, <2>2, <2>3, <2>4, <2>5, <2>6, <2>7 DEF CallContinues
<1>3. ASSUME NEW q \in Requests, SingleStatement(q)
      PROVE  /\ r \notin overwritten /\ status[r] \in Open \cup {"unpublished"}
             /\ offer[r][w] \in Resolved
  BY <1>3 DEF SingleStatement, CreateRequest, ClientConfirmArrival, Lapse,
       DiscardOffer, DeclineOffer, ReactivateOffer, WorkerMarkArrived
<1>4. CASE CronStep
  BY <1>4 DEF CronStep, CronSelect, CronCancel, CronClose, CronAbort, ClosePending
<1>5. CASE \E R \in SUBSET Requests : ExpireStaleOffers(R)
  BY <1>5 DEF ExpireStaleOffers, ExpireStale, Expired
<1>6. CASE UNCHANGED vars
  BY <1>6 DEF vars
<1> QED  BY <1>1, <1>2, <1>3, <1>4, <1>5, <1>6 DEF Next

LEMMA StaysUndecided == Spec => []Undecided
<1>1. Init => Undecided
  BY DEF Init, Undecided, Intact
<1>2. IInv /\ Undecided /\ [Next]_vars => Undecided'
  BY NextUndecided DEF Undecided, Intact, IInv
<1> QED  BY <1>1, <1>2, Invariance, PTL DEF Spec

\* From the assignment on, all screens name one worker and one amount.
LEMMA WinnerIsShown == IInv => SameWinner
<1> SUFFICES ASSUME IInv, NEW r \in Intact, status[r] \in {"assigned", "completed"}
             PROVE  \E w \in Workers :
      /\ {t.wrk : t \in Tracking(r)} = {w} /\ RequestDetail(r).wrk = {w}
      /\ RequestStatus(r).acceptedCount = 1
      /\ ClientHistory(r) = {[wrk |-> w, amt |-> Amount(r, w)]}
      /\ \A t \in Tracking(r) : t.final \in {0, t.agreed}
      /\ \A v \in Workers :
           /\ (r \in Mine(v)) = (v = w /\ status[r] = "assigned")
           /\ (\E h \in WorkerHistory(v) : h.req = r /\ h.own = "accepted")
                = (v = w)
  BY DEF SameWinner
<1>1. PICK w \in Workers : offer[r][w] = "accepted"
  BY DEF IInv, Safe, WinnerMatchesStatus, HasWinner
<1>2. /\ r \in Requests /\ \A v \in Workers : offer[r][v] = "accepted" <=> v = w
  BY <1>1 DEF Intact, IInv, Safe, OneAcceptedOffer
<1>3. Accepted(r) = {w}
  BY <1>2 DEF Accepted
<1>4. /\ {t.wrk : t \in Tracking(r)} = {w} /\ RequestDetail(r).wrk = {w}
      /\ \A t \in Tracking(r) : t.final = settled[r] /\ t.agreed = price[r][w]
  <2>1. Tracking(r) = {[wrk |-> w, agreed |-> price[r][w], final |-> settled[r],
                        arrived |-> arrived[r], confirmed |-> confirmed[r]]}
    BY <1>3 DEF Tracking
  <2>2. RequestDetail(r).wrk = {w}
    BY <1>3 DEF RequestDetail
  <2> QED  BY <2>1, <2>2
<1>5. RequestStatus(r).acceptedCount = 1
  BY <1>3, FS_Singleton DEF RequestStatus
<1>6. ClientHistory(r) = {[wrk |-> w, amt |-> Amount(r, w)]}
  <2>1. status[r] \in Past /\ Accepted(r) # {}
    BY <1>3 DEF Past, Closed
  <2>2. ClientHistory(r) = {[wrk |-> v, amt |-> Amount(r, v)] : v \in {w}}
    BY <1>3, <2>1 DEF ClientHistory
  <2> QED  BY <2>2
<1>7. settled[r] \in {0, price[r][w]}
  BY <1>2 DEF IInv, Safe, SettledAtAcceptedPrice
<1>8. ASSUME NEW v \in Workers
      PROVE  /\ (r \in Mine(v)) = (v = w /\ status[r] = "assigned")
             /\ (\E h \in WorkerHistory(v) : h.req = r /\ h.own = "accepted") = (v = w)
  <2>1. r \in Mine(v) <=> v = w /\ status[r] = "assigned"
    BY <1>2 DEF Mine, Working
  <2>2. ASSUME NEW h \in WorkerHistory(v), h.req = r, h.own = "accepted"
        PROVE  v = w
    BY <1>2, <2>2 DEF WorkerHistory
  <2>3. ASSUME v = w
        PROVE  \E h \in WorkerHistory(v) : h.req = r /\ h.own = "accepted"
    <3>1. [req |-> r, own |-> offer[r][v], amt |-> Amount(r, v)] \in WorkerHistory(v)
      BY <1>2, <2>3 DEF WorkerHistory, Past, Closed
    <3> QED  BY <1>2, <2>3, <3>1
  <2>4. (r \in Mine(v)) = (v = w /\ status[r] = "assigned")
    BY <2>1
  <2>5. (\E h \in WorkerHistory(v) : h.req = r /\ h.own = "accepted") = (v = w)
    BY <2>2, <2>3
  <2> QED  BY <2>4, <2>5
<1> QED  BY <1>4, <1>5, <1>6, <1>7, <1>8

\* Nobody works on what others are invited to bid for.
LEMMA InvitationsAreShown == IInv /\ Undecided => InvitationsAreOpen
<1> SUFFICES ASSUME IInv, Undecided PROVE InvitationsAreOpen
  OBVIOUS
<1>1. ASSUME NEW r \in Intact, status[r] \in Open
      PROVE  Tracking(r) = {} /\ RequestDetail(r).wrk = {} /\ ~ arrived[r]
  <2>1. Accepted(r) = {}
    BY <1>1 DEF Accepted, Undecided
  <2>2. ~ arrived[r]
    BY <1>1 DEF IInv, Safe, ArrivalNeedsWinner
  <2> QED  BY <2>1, <2>2 DEF Tracking, RequestDetail
<1>2. ASSUME NEW w \in Workers, NEW i \in Inbox(w), i.req \in Intact \ Mine(w)
      PROVE  i.own \in {"none", "pending", "declined"}
  <2>1. PICK r \in OpenTo(w) \cup Mine(w) : i = [req |-> r, own |-> OwnOffer(r, w)]
    BY DEF Inbox
  <2>2. r \in Intact /\ r \in Requests /\ status[r] \in Open
    BY <1>2, <2>1 DEF OpenTo, Intact
  <2>3. offer[r][w] \in OfferStatus /\ offer[r][w] \notin Resolved
    BY <2>2 DEF Undecided, IInv, Typed, TypeOK
  <2> QED  BY <2>1, <2>3 DEF OwnOffer
<1> QED  BY <1>1, <1>2 DEF InvitationsAreOpen, ActiveJobs, PublicJobs

-----------------------------------------------------------------------------
(* What the totals count                                                   *)

\* Induction over a set of numbers: one that is missing would let as many
\* numbers have their successors in one place less.
LEMMA NatSetInduction ==
  ASSUME NEW D, 0 \in D, \A n \in Nat : n \in D => n + 1 \in D
  PROVE  \A n \in Nat : n \in D
<1> SUFFICES ASSUME NEW m \in Nat, m \notin D PROVE FALSE
  OBVIOUS
<1> DEFINE A == {n \in 0..m : n \in D}
           B == A \ {0}
           f == [n \in A |-> n + 1]
<1>1. IsFiniteSet(0..m)
  BY FS_Interval
<1>2. IsFiniteSet(A)
  BY <1>1, FS_Subset
<1>3. 0 \in A
  OBVIOUS
<1>4. IsFiniteSet(B) /\ Cardinality(B) = Cardinality(A) - 1 /\ Cardinality(A) \in Nat
  BY <1>2, <1>3, FS_RemoveElement, FS_CardinalityType
<1>5. \A n \in A : n + 1 \in B
  OBVIOUS
<1>6. f \in [A -> B]
  BY <1>5
<1>7. \E x, y \in A : x # y /\ f[x] = f[y]
  <2> HIDE DEF A, B, f
  <2> QED  BY <1>2, <1>4, <1>6, FS_PigeonHole
<1> QED  BY <1>7

\* A sum of sizes of sets that do not meet is the size of their union. The
\* sizes of the unions themselves show that the recursion has a solution.
LEMMA SumCounts ==
  ASSUME NEW F, NEW S, IsFiniteSet(S), F = [x \in S |-> F[x]], NEW c,
         \A x \in S : IsFiniteSet(c[x]) /\ F[x] = Cardinality(c[x]),
         \A x, y \in S : x # y => c[x] \cap c[y] = {}
  PROVE  SumFunction(F) = Cardinality(UNION {c[x] : x \in S})
<1> DEFINE pick(s) == CHOOSE x \in s : TRUE
           all(s) == UNION {c[x] : x \in s}
           rest(f) == [s \in SUBSET S |->
                         IF s = {} THEN 0 ELSE F[pick(s)] + f[s \ {pick(s)}]]
           iter == CHOOSE f : f = rest(f)
           count == [s \in SUBSET S |-> Cardinality(all(s))]
<1>1. \A s \in SUBSET S : /\ IsFiniteSet(s) /\ Cardinality(s) \in Nat
                          /\ IsFiniteSet(all(s)) /\ Cardinality(all(s)) \in Nat
  <2> SUFFICES ASSUME NEW s \in SUBSET S
               PROVE  /\ IsFiniteSet(s) /\ Cardinality(s) \in Nat
                      /\ IsFiniteSet(all(s)) /\ Cardinality(all(s)) \in Nat
    OBVIOUS
  <2>1. IsFiniteSet(s)
    BY FS_Subset
  <2>2. IsFiniteSet({c[x] : x \in s})
    <3> DEFINE T == {c[x] : x \in s}
               g == [x \in s |-> c[x]]
    <3>1. g \in Surjection(s, T)
      BY DEF Surjection
    <3> QED  BY <2>1, <3>1, FS_Surjection
  <2>3. \A T \in {c[x] : x \in s} : IsFiniteSet(T)
    OBVIOUS
  <2>4. IsFiniteSet(all(s))
    BY <2>2, <2>3, FS_UNION
  <2> QED  BY <2>1, <2>4, FS_CardinalityType
<1>2. \A s \in SUBSET S : s # {} =>
        /\ pick(s) \in s /\ s \ {pick(s)} \in SUBSET S
        /\ Cardinality(s \ {pick(s)}) = Cardinality(s) - 1
        /\ Cardinality(all(s)) = F[pick(s)] + Cardinality(all(s \ {pick(s)}))
  <2> SUFFICES ASSUME NEW s \in SUBSET S, s # {}
               PROVE  /\ pick(s) \in s /\ s \ {pick(s)} \in SUBSET S
                      /\ Cardinality(s \ {pick(s)}) = Cardinality(s) - 1
                      /\ Cardinality(all(s)) = F[pick(s)] + Cardinality(all(s \ {pick(s)}))
    BY Zenon
  <2> DEFINE x == pick(s)
  <2>1. x \in s
    <3>1. \E y : y \in s
      OBVIOUS
    <3> QED  BY <3>1, Zenon
  <2> HIDE DEF x
  <2>2. all(s) = c[x] \cup all(s \ {x})
    BY <2>1
  <2>3. c[x] \cap all(s \ {x}) = {}
    BY <2>1
  <2>4. Cardinality(all(s)) =
          Cardinality(c[x]) + Cardinality(all(s \ {x})) - Cardinality({})
    <3>1. IsFiniteSet(c[x]) /\ IsFiniteSet(all(s \ {x}))
      BY <1>1, <2>1
    <3> HIDE DEF all
    <3>2. Cardinality(c[x] \cup all(s \ {x})) =
            Cardinality(c[x]) + Cardinality(all(s \ {x}))
              - Cardinality(c[x] \cap all(s \ {x}))
      BY <3>1, FS_Union
    <3> QED  BY <2>2, <2>3, <3>2
  <2>5. Cardinality(s \ {x}) = Cardinality(s) - 1
    BY <1>1, <2>1, FS_RemoveElement
  <2>6. /\ Cardinality({}) = 0 /\ Cardinality(c[x]) \in Nat
        /\ Cardinality(all(s \ {x})) \in Nat
    BY <1>1, <2>1, FS_EmptySet, FS_CardinalityType
  <2> HIDE DEF all
  <2> HIDE DEF pick
  <2>7. /\ x \in s /\ s \ {x} \in SUBSET S
        /\ Cardinality(s \ {x}) = Cardinality(s) - 1
        /\ Cardinality(all(s)) = F[x] + Cardinality(all(s \ {x}))
    BY <2>1, <2>4, <2>5, <2>6
  <2> QED  BY <2>7 DEF x
<1>3. Cardinality(all({})) = 0
  <2>1. all({}) = {}
    OBVIOUS
  <2> QED  BY <2>1, FS_EmptySet
<1>4. count = rest(count)
  <2> HIDE DEF pick, all
  <2> QED  BY <1>2, <1>3
<1>5. iter = rest(iter)
  <2> HIDE DEF rest, count
  <2> QED  BY <1>4
<1> HIDE DEF iter
<1> DEFINE D == {n \in Nat : \A s \in SUBSET S :
                   Cardinality(s) = n => iter[s] = Cardinality(all(s))}
<1>6. 0 \in D
  <2> SUFFICES ASSUME NEW s \in SUBSET S, Cardinality(s) = 0
               PROVE  iter[s] = Cardinality(all(s))
    OBVIOUS
  <2>1. s = {}
    BY <1>1, FS_EmptySet
  <2> HIDE DEF all
  <2> QED  BY <1>3, <1>5, <2>1
<1>7. \A n \in Nat : n \in D => n + 1 \in D
  <2> SUFFICES ASSUME NEW n \in Nat, n \in D,
                      NEW s \in SUBSET S, Cardinality(s) = n + 1
               PROVE  iter[s] = Cardinality(all(s))
    OBVIOUS
  <2>1. s # {}
    <3>1. Cardinality(s) # 0
      OBVIOUS
    <3> QED  BY <3>1, FS_EmptySet
  <2> HIDE DEF all, pick
  <2>2. iter[s] = F[pick(s)] + iter[s \ {pick(s)}]
    BY <1>5, <2>1
  <2>3. Cardinality(s \ {pick(s)}) = n
    <3>1. Cardinality(s \ {pick(s)}) = (n + 1) - 1
      BY <1>2, <2>1
    <3> QED  BY <3>1
  <2>4. iter[s \ {pick(s)}] = Cardinality(all(s \ {pick(s)}))
    BY <1>2, <2>1, <2>3
  <2> QED  BY <1>2, <2>1, <2>2, <2>4
<1>8. \A n \in Nat : n \in D
  <2> HIDE DEF D
  <2> QED  BY <1>6, <1>7, NatSetInduction
<1>9. iter[S] = Cardinality(all(S))
  <2>1. Cardinality(S) \in D /\ S \in SUBSET S
    BY <1>1, <1>8
  <2> HIDE DEF all
  <2> QED  BY <2>1
<1>10. SumFunction(F) = iter[S]
  BY DEF SumFunction, SumFunctionOnSet, FoldFunctionOnSet, MapThenFoldSet, iter
<1> QED  BY <1>9, <1>10

\* Money as a set of coins, so that it can be counted.
Coins(R) == UNION {{r} \X (1..settled[r]) : r \in R}

LEMMA CoinsAreCounted ==
  ASSUME TypeOK, NEW R \in SUBSET Requests, NEW F,
         F = [r \in R |-> F[r]], \A r \in R : F[r] = settled[r]
  PROVE  IsFiniteSet(Coins(R)) /\ SumFunction(F) = Cardinality(Coins(R))
<1> DEFINE c == [r \in R |-> {r} \X (1..settled[r])]
<1>1. IsFiniteSet(R)
  BY RowsAreFinite, FS_Subset
<1>2. \A r \in R : IsFiniteSet(c[r]) /\ F[r] = Cardinality(c[r])
  <2> SUFFICES ASSUME NEW r \in R
               PROVE  /\ IsFiniteSet({r} \X (1..settled[r]))
                      /\ settled[r] = Cardinality({r} \X (1..settled[r]))
    OBVIOUS
  <2>1. settled[r] \in Nat
    BY DEF TypeOK
  <2>2. IsFiniteSet(1..settled[r]) /\ Cardinality(1..settled[r]) = settled[r]
    BY <2>1, FS_Interval
  <2>3. IsFiniteSet({r}) /\ Cardinality({r}) = 1
    BY FS_Singleton
  <2>4. /\ IsFiniteSet({r} \X (1..settled[r]))
        /\ Cardinality({r} \X (1..settled[r])) = 1 * settled[r]
    <3>1. /\ IsFiniteSet({r} \X (1..settled[r]))
          /\ Cardinality({r} \X (1..settled[r])) = Cardinality({r}) * Cardinality(1..settled[r])
      BY <2>2, <2>3, FS_Product
    <3> QED  BY <2>2, <2>3, <3>1
  <2> QED  BY <2>1, <2>4
<1>3. \A q, r \in R : q # r => c[q] \cap c[r] = {}
  OBVIOUS
<1>4. Coins(R) = UNION {c[r] : r \in R}
  BY DEF Coins
<1>5. IsFiniteSet(Coins(R))
  <2>1. IsFiniteSet({c[r] : r \in R})
    <3> DEFINE T == {c[r] : r \in R}
    <3>1. c \in Surjection(R, T)
      BY DEF Surjection
    <3> QED  BY <1>1, <3>1, FS_Surjection
  <2>2. \A T \in {c[r] : r \in R} : IsFiniteSet(T)
    BY <1>2
  <2>3. IsFiniteSet(UNION {c[r] : r \in R})
    BY <2>1, <2>2, FS_UNION
  <2> QED  BY <1>4, <2>3
<1>6. SumFunction(F) = Cardinality(UNION {c[r] : r \in R})
  <2> HIDE DEF c
  <2> QED  BY <1>1, <1>2, <1>3, SumCounts
<1> QED  BY <1>4, <1>5, <1>6

\* Every completed job counts for one worker, at what it was settled for, and
\* every cancelled one is charged to one person.
LEMMA TotalsAreShown == IInv => CountedOnce
<1> SUFFICES ASSUME IInv, overwritten = {} PROVE CountedOnce
  BY DEF CountedOnce
<1> DEFINE done == {r \in Requests : status[r] = "completed"}
<1>1. TypeOK /\ Intact = Requests
  BY DEF IInv, Typed, Intact
<1>2. \A r \in Requests, v, w \in Workers :
        offer[r][v] = "accepted" /\ offer[r][w] = "accepted" => v = w
  BY DEF IInv, Safe, OneAcceptedOffer
<1>3. \A R \in SUBSET Requests : IsFiniteSet(R)
  BY RowsAreFinite, FS_Subset
<1>4. \A w \in Workers : Done(w) \in SUBSET done
  BY DEF Done
<1>5. \A v, w \in Workers : v # w => Done(v) \cap Done(w) = {}
  BY <1>2 DEF Done, Accepted
<1>6. UNION {Done(w) : w \in Workers} = done
  <2>1. \A r \in done : \E w \in Workers : offer[r][w] = "accepted"
    BY <1>1 DEF IInv, Safe, WinnerMatchesStatus, HasWinner
  <2>2. \A r \in done : \E w \in Workers : r \in Done(w)
    BY <2>1 DEF Done, Accepted
  <2> QED  BY <1>4, <2>2
<1>7. SumFunction([w \in Workers |-> WorkerRadar(w).jobs]) = Cardinality(done)
  <2> DEFINE c == [w \in Workers |-> Done(w)]
             F == [w \in Workers |-> WorkerRadar(w).jobs]
  <2>1. \A w \in Workers : IsFiniteSet(c[w]) /\ F[w] = Cardinality(c[w])
    BY <1>3, <1>4 DEF WorkerRadar
  <2>2. \A v, w \in Workers : v # w => c[v] \cap c[w] = {}
    BY <1>5
  <2>3. UNION {c[w] : w \in Workers} = done
    BY <1>6
  <2>4. F = [w \in Workers |-> F[w]]
    OBVIOUS
  <2> HIDE DEF c, F, done
  <2>5. SumFunction(F) = Cardinality(UNION {c[w] : w \in Workers})
    BY <2>1, <2>2, <2>4, RowsAreFinite, SumCounts
  <2> QED  BY <2>3, <2>5 DEF F
<1>8. ASSUME NEW w \in Workers
      PROVE  /\ IsFiniteSet(Coins(Done(w)))
             /\ WorkerRadar(w).earnings = Cardinality(Coins(Done(w)))
  <2> DEFINE F == [r \in Done(w) |-> Amount(r, w)]
  <2>1. \A r \in Done(w) : F[r] = settled[r]
    <3> SUFFICES ASSUME NEW r \in Done(w) PROVE Amount(r, w) = settled[r]
      OBVIOUS
    <3>1. r \in Requests /\ status[r] = "completed" /\ offer[r][w] = "accepted"
      BY DEF Done, Accepted
    <3>2. PICK v \in Workers : offer[r][v] = "accepted" /\ settled[r] = price[r][v]
      BY <1>1, <3>1 DEF IInv, Safe, SettledAtAcceptedPrice
    <3>3. v = w
      BY <1>2, <3>1, <3>2
    <3> QED  BY <3>2, <3>3 DEF Amount
  <2>2. F = [r \in Done(w) |-> F[r]] /\ Done(w) \in SUBSET Requests
    BY <1>4
  <2>3. WorkerRadar(w).earnings = SumFunction(F)
    BY DEF WorkerRadar
  <2> HIDE DEF F
  <2>4. IsFiniteSet(Coins(Done(w))) /\ SumFunction(F) = Cardinality(Coins(Done(w)))
    BY <1>1, <2>1, <2>2, CoinsAreCounted
  <2> QED  BY <2>3, <2>4
<1>9. SumFunction([w \in Workers |-> WorkerRadar(w).earnings]) = SumFunction(settled)
  <2> DEFINE c == [w \in Workers |-> Coins(Done(w))]
             F == [w \in Workers |-> WorkerRadar(w).earnings]
  <2>1. \A w \in Workers : IsFiniteSet(c[w]) /\ F[w] = Cardinality(c[w])
    BY <1>8
  <2>2. \A v, w \in Workers : v # w => c[v] \cap c[w] = {}
    <3> SUFFICES ASSUME NEW v \in Workers, NEW w \in Workers,
                        NEW x \in Coins(Done(v)), x \in Coins(Done(w))
                 PROVE  v = w
      OBVIOUS
    <3>1. x[1] \in Done(v) /\ x[1] \in Done(w)
      BY DEF Coins
    <3> QED  BY <1>5, <3>1
  <2>3. UNION {c[w] : w \in Workers} = Coins(done)
    <3>1. Coins(UNION {Done(w) : w \in Workers}) = UNION {c[w] : w \in Workers}
      BY DEF Coins
    <3> QED  BY <1>6, <3>1
  <2>4. F = [w \in Workers |-> F[w]]
    OBVIOUS
  <2>5. Coins(done) = Coins(Requests)
    <3>1. \A r \in Requests : r \notin done => settled[r] = 0
      BY <1>1 DEF IInv, Safe, SettledAtAcceptedPrice
    <3>2. ASSUME NEW x \in Coins(Requests) PROVE x \in Coins(done)
      <4>1. PICK r \in Requests : x \in {r} \X (1..settled[r])
        BY <3>2 DEF Coins
      <4>2. r \in done
        BY <3>1, <4>1
      <4> QED  BY <4>1, <4>2 DEF Coins
    <3>3. ASSUME NEW x \in Coins(done) PROVE x \in Coins(Requests)
      BY <3>3 DEF Coins
    <3> QED  BY <3>2, <3>3
  <2>6. settled = [r \in Requests |-> settled[r]]
    BY <1>1 DEF TypeOK
  <2> HIDE DEF c, F, done
  <2>7. SumFunction(F) = Cardinality(UNION {c[w] : w \in Workers})
    BY <2>1, <2>2, <2>4, RowsAreFinite, SumCounts
  <2>8. SumFunction(settled) = Cardinality(Coins(Requests))
    BY <1>1, <2>6, CoinsAreCounted
  <2> QED  BY <2>3, <2>5, <2>7, <2>8 DEF F
<1>10. SumFunction([u \in Workers \cup {None} |-> CancellationStats(u)])
         = Cardinality({r \in Requests : status[r] = "cancelled"})
  <2> DEFINE S == Workers \cup {None}
             c == [u \in S |-> {r \in Requests : status[r] = "cancelled" /\
                     IF u = None THEN Accepted(r) = {} ELSE u \in Accepted(r)}]
             F == [u \in S |-> CancellationStats(u)]
  <2>1. \A u \in S : IsFiniteSet(c[u]) /\ F[u] = Cardinality(c[u])
    BY <1>3 DEF CancellationStats
  <2>2. \A u, v \in S : u # v => c[u] \cap c[v] = {}
    <3> SUFFICES ASSUME NEW u \in S, NEW v \in S, NEW r \in c[u], r \in c[v]
                 PROVE  u = v
      OBVIOUS
    <3>1. /\ r \in Requests
          /\ IF u = None THEN Accepted(r) = {} ELSE u \in Accepted(r)
          /\ IF v = None THEN Accepted(r) = {} ELSE v \in Accepted(r)
      OBVIOUS
    <3> HIDE DEF c
    <3> QED  BY <1>2, <3>1 DEF Accepted
  <2>3. UNION {c[u] : u \in S} = {r \in Requests : status[r] = "cancelled"}
    <3>1. ASSUME NEW r \in Requests, status[r] = "cancelled"
          PROVE  \E u \in S : r \in c[u]
      <4>1. CASE Accepted(r) = {}
        <5>1. None \in S /\ r \in c[None]
          BY <3>1, <4>1
        <5> QED  BY <5>1
      <4>2. ASSUME NEW w \in Accepted(r) PROVE \E u \in S : r \in c[u]
        <5>1. w \in S /\ w # None
          BY <4>2 DEF Accepted
        <5>2. r \in c[w]
          BY <3>1, <4>2, <5>1
        <5> QED  BY <5>1, <5>2
      <4> QED  BY <4>1, <4>2
    <3>2. \A u \in S : c[u] \subseteq {r \in Requests : status[r] = "cancelled"}
      OBVIOUS
    <3> HIDE DEF c, S
    <3> QED  BY <3>1, <3>2
  <2>4. F = [u \in S |-> F[u]]
    OBVIOUS
  <2>5. IsFiniteSet(S)
    BY RowsAreFinite, FS_AddElement
  <2> HIDE DEF c, F, S
  <2>6. SumFunction(F) = Cardinality(UNION {c[u] : u \in S})
    BY <2>1, <2>2, <2>4, <2>5, SumCounts
  <2> QED  BY <2>3, <2>6 DEF F, S
<1> QED  BY <1>7, <1>9, <1>10 DEF CountedOnce

\* All screens tell one story of a request: who works on it and for how much,
\* that nobody does while bids are taken, and each job counts once
\* (getClientHistory, getTracking, getActiveJobs, getWorkerRadar,
\* getCancellationStats).
THEOREM ScreensStayInAgreement == Spec => []ScreensAgree
<1>1. IInv /\ Undecided => ScreensAgree
  BY WinnerIsShown, InvitationsAreShown, TotalsAreShown DEF ScreensAgree
<1> QED  BY <1>1, Invariance, StaysUndecided, PTL

=============================================================================
