------------------------------- MODULE Payments -------------------------------
(***************************************************************************)
(* Charging an offer inside the app and giving the money back              *)
(* (payments.service.ts), for the offers of one request. Payments of       *)
(* different requests never meet: every statement names a payment, an      *)
(* offer or a request.                                                     *)
(*                                                                         *)
(* The only provider of the registry is the card one (providers.ts): it    *)
(* has no webhook and its charges do not expire. `charge` is the           *)
(* provider's own state of a charge, which the service only learns by      *)
(* asking. An operator marked "Mutation" is a bug the properties find.     *)
(***************************************************************************)
EXTENDS Naturals

CONSTANTS
  Offers,     \* rows of job_offers of the request
  Payments,   \* rows of payments
  Calls,      \* handlers that may be in flight at the same time
  MaxAmount,  \* bound: amounts are 1..MaxAmount
  None        \* an argument a handler does not have

ASSUME MaxAmountIsPositive == MaxAmount \in Nat \ {0}
ASSUME NoneIsNoRow == None \notin Offers /\ None \notin Payments

VARIABLES
  request,  \* job_requests.status, "open" for searching and negotiating
  offer,    \* job_offers.status
  price,    \* job_offers.amount
  inApp,    \* resolveMethod finds a provider: the card is active
  status,   \* payments.status ("none": no row yet)
  paidFor,  \* payments.offer_id
  amount,   \* payments.amount
  charge,   \* what the provider knows of the payment's charge
  step,     \* step[c]: the next statement of the handler c
  args      \* args[c]: what it works on

jobVars  == <<request, offer, price, inApp>>
payVars  == <<status, paidFor, amount, charge>>
callVars == <<step, args>>
vars     == <<jobVars, payVars, callVars>>

Amounts == 1..MaxAmount
Refund  == {"refund_pending", "refunded", "refund_declined"}
PaymentStatus ==
  {"none", "pending", "paid", "failed", "cancelled"} \cup Refund

\* "none": the provider has no charge, or nobody holds its secret yet.
ChargeStatus == {"none", "open", "succeeded", "canceled"}

Steps == {"idle", "find", "cancel", "insert", "save", "ask", "offer.write",
          "accept.ask", "accept.commit"}

Args == [offer: Offers \cup {None}, amt: 0..MaxAmount,
         pay: Payments \cup {None}]
NoArgs == [offer |-> None, amt |-> 0, pay |-> None]

TypeOK ==
  /\ request \in {"open", "assigned", "completed", "cancelled"}
  /\ offer   \in [Offers -> {"pending", "expired", "accepted", "rejected"}]
  /\ price   \in [Offers -> Amounts]
  /\ inApp   \in BOOLEAN
  /\ status  \in [Payments -> PaymentStatus]
  /\ paidFor \in [Payments -> Offers \cup {None}]
  /\ amount  \in [Payments -> 0..MaxAmount]
  /\ charge  \in [Payments -> ChargeStatus]
  /\ step    \in [Calls -> Steps]
  /\ args    \in [Calls -> Args]

Init ==
  /\ request = "open"
  /\ offer   = [o \in Offers |-> "pending"]
  /\ price   \in [Offers -> Amounts]
  /\ inApp   = TRUE
  /\ status  = [p \in Payments |-> "none"]
  /\ paidFor = [p \in Payments |-> None]
  /\ amount  = [p \in Payments |-> 0]
  /\ charge  = [p \in Payments |-> "none"]
  /\ step    = [c \in Calls |-> "idle"]
  /\ args    = [c \in Calls |-> NoArgs]

Idle(c) == step[c] = "idle"

Begin(c, s, o, a, p) ==
  /\ step' = [step EXCEPT ![c] = s]
  /\ args' = [args EXCEPT ![c] = [offer |-> o, amt |-> a, pay |-> p]]

Goto(c, s) == step' = [step EXCEPT ![c] = s] /\ UNCHANGED args

Return(c) ==
  /\ step' = [step EXCEPT ![c] = "idle"]
  /\ args' = [args EXCEPT ![c] = NoArgs]

\* acceptOffer holds the rows of the request and of its offer from its first
\* SELECT ... FOR UPDATE to the commit; who writes them waits.
Accepting(c) == step[c] \in {"accept.ask", "accept.commit"}
RequestLocked == \E c \in Calls : Accepting(c)

\* Mutation: acceptOffer does not lock the offer it is paid for.
OfferNeverLocked(o) == FALSE

OfferLocked(o) == \E c \in Calls : Accepting(c) /\ args[c].offer = o

\* The payments of an offer that match its amount a.
Matching(o, a, S) ==
  {p \in Payments : paidFor[p] = o /\ amount[p] = a /\ status[p] \in S}

-----------------------------------------------------------------------------
(* checkout                                                                *)

Checkout(c, o) ==
  /\ Idle(c)
  /\ inApp
  /\ request = "open" /\ offer[o] = "pending"
  /\ Begin(c, "find", o, price[o], None)
  /\ UNCHANGED <<jobVars, payVars>>

\* A live payment of the same amount is used again: it is only refreshed.
FindExisting(c) ==
  LET o == args[c].offer
      a == args[c].amt
      existing == Matching(o, a, {"pending", "paid"}) IN
  /\ step[c] = "find"
  /\ \/ /\ existing = {}
        /\ Goto(c, "cancel")
     \/ \E p \in existing : status[p] = "pending" /\ Begin(c, "ask", o, a, p)
     \/ /\ \E p \in existing : status[p] = "paid"
        /\ Return(c)
  /\ UNCHANGED <<jobVars, payVars>>

CancelOlder(c) ==
  /\ step[c] = "cancel"
  /\ status' = [p \in Payments |->
                  IF paidFor[p] = args[c].offer /\ status[p] = "pending"
                  THEN "cancelled" ELSE status[p]]
  /\ Goto(c, "insert")
  /\ UNCHANGED <<jobVars, paidFor, amount, charge>>

InsertPayment(c, p) ==
  LET o == args[c].offer
      a == args[c].amt IN
  /\ step[c] = "insert"
  /\ status[p] = "none"
  /\ status'  = [status  EXCEPT ![p] = "pending"]
  /\ paidFor' = [paidFor EXCEPT ![p] = o]
  /\ amount'  = [amount  EXCEPT ![p] = a]
  /\ Begin(c, "save", o, a, p)
  /\ UNCHANGED <<jobVars, charge>>

\* provider.createCheckout answers, and its charge is saved WHERE id,
\* whatever the row has become; the client gets the secret.
SaveCheckout(c) ==
  LET p == args[c].pay IN
  /\ step[c] = "save"
  /\ status' = [status EXCEPT ![p] = "pending"]
  /\ charge' = [charge EXCEPT ![p] = "open"]
  /\ Return(c)
  /\ UNCHANGED <<jobVars, paidFor, amount>>

\* provider.createCheckout throws.
FailCheckout(c) ==
  /\ step[c] = "save"
  /\ status' = [status EXCEPT ![args[c].pay] = "failed"]
  /\ Return(c)
  /\ UNCHANGED <<jobVars, paidFor, amount, charge>>

-----------------------------------------------------------------------------
(* The provider, and asking it                                             *)

\* The client pays the charge whose secret the app holds, at any time.
ClientPays(p) ==
  /\ charge[p] = "open"
  /\ charge' = [charge EXCEPT ![p] = "succeeded"]
  /\ UNCHANGED <<jobVars, status, paidFor, amount, callVars>>

ProviderCancels(p) ==
  /\ charge[p] = "open"
  /\ charge' = [charge EXCEPT ![p] = "canceled"]
  /\ UNCHANGED <<jobVars, status, paidFor, amount, callVars>>

\* getForClient: only a payment that is pending is asked about.
GetPayment(c, p) ==
  /\ Idle(c)
  /\ status[p] = "pending"
  /\ Begin(c, "ask", None, 0, p)
  /\ UNCHANGED <<jobVars, payVars>>

\* Mutation: setStatus without its list of earlier states.
SetStatusAlways(p, s) == status' = [status EXCEPT ![p] = s]

\* setStatus: paid is written over every state but the refunds, any other
\* answer over pending alone.
SetStatus(p, s) ==
  LET from == IF s = "paid" THEN {"pending", "cancelled", "failed"}
                            ELSE {"pending"} IN
  status' = [status EXCEPT ![p] = IF @ \in from THEN s ELSE @]

\* Mutation: everything the provider did not cancel counts as paid.
AnswerUnlessCanceled(p) ==
  IF charge[p] = "canceled" THEN "cancelled" ELSE "paid"

\* refreshStatus: the provider's answer, then setStatus.
Answer(p) == CASE charge[p] = "succeeded" -> "paid"
               [] charge[p] = "canceled"  -> "cancelled"
               [] OTHER                   -> "pending"

AskProvider(c) ==
  LET p == args[c].pay IN
  /\ step[c] = "ask"
  /\ IF Answer(p) = "pending" THEN UNCHANGED status ELSE SetStatus(p, Answer(p))
  /\ Return(c)
  /\ UNCHANGED <<jobVars, paidFor, amount, charge>>

-----------------------------------------------------------------------------
(* The worker's new amount: assertOfferAmountEditable, then the UPDATE of  *)
(* upsertOffer. Of several paid payments the code looks at the newest; any *)
(* may be it here.                                                         *)

UpsertOffer(c, o, a) ==
  LET paid == {p \in Payments : paidFor[p] = o /\ status[p] = "paid"} IN
  /\ Idle(c)
  /\ request = "open" /\ offer[o] \in {"pending", "expired"}
  /\ paid = {} \/ \E p \in paid : amount[p] = a
  /\ Begin(c, "offer.write", o, a, None)
  /\ UNCHANGED <<jobVars, payVars>>

WriteOffer(c) ==
  LET o == args[c].offer IN
  /\ step[c] = "offer.write"
  /\ ~ OfferLocked(o)
  /\ offer' = [offer EXCEPT ![o] = "pending"]
  /\ price' = [price EXCEPT ![o] = args[c].amt]
  /\ Return(c)
  /\ UNCHANGED <<request, inApp, payVars>>

-----------------------------------------------------------------------------
(* acceptOffer, as far as it asks assertOfferPaid inside its transaction   *)

\* The locks are taken and the payments read: one is paid, or the provider
\* must be asked about a pending one. With another method nothing is asked.
\* Of the loop over the pending ones this is the turn of the last one asked;
\* the earlier turns write what AskProvider writes.
AcceptOffer(c, o) ==
  /\ Idle(c)
  /\ ~ RequestLocked
  /\ request = "open" /\ offer[o] = "pending"
  /\ \A v \in Offers : offer[v] # "accepted"
  /\ IF ~ inApp
     THEN Begin(c, "accept.commit", o, price[o], None)
     ELSE \/ \E p \in Matching(o, price[o], {"paid"}) :
               Begin(c, "accept.commit", o, price[o], p)
          \/ /\ Matching(o, price[o], {"paid"}) = {}
             /\ \E p \in Matching(o, price[o], {"pending"}) :
                  Begin(c, "accept.ask", o, price[o], p)
  /\ UNCHANGED <<jobVars, payVars>>

\* The refresh runs on a connection of its own: its write stays even if the
\* transaction rolls back.
AcceptAsk(c) ==
  LET p == args[c].pay IN
  /\ step[c] = "accept.ask"
  /\ IF Answer(p) = "pending" THEN UNCHANGED status ELSE SetStatus(p, Answer(p))
  /\ IF Answer(p) = "paid" THEN Goto(c, "accept.commit") ELSE Return(c)
  /\ UNCHANGED <<jobVars, paidFor, amount, charge>>

CommitAccept(c) ==
  LET o == args[c].offer IN
  /\ step[c] = "accept.commit"
  /\ request' = "assigned"
  /\ offer' = [v \in Offers |-> IF v = o THEN "accepted"
                                ELSE IF offer[v] = "pending" THEN "rejected"
                                ELSE offer[v]]
  /\ Return(c)
  /\ UNCHANGED <<price, inApp, payVars>>

\* An error, a lost connection or a restart.
Abort(c) ==
  /\ ~ Idle(c)
  /\ Return(c)
  /\ UNCHANGED <<jobVars, payVars>>

-----------------------------------------------------------------------------
(* The rest of the request's life (JobMarket), and the admin's settings    *)

CompleteJob ==
  /\ request = "assigned"
  /\ \E o \in Offers : offer[o] = "accepted"
  /\ request' = "completed"
  /\ UNCHANGED <<offer, price, inApp, payVars, callVars>>

Cancel ==
  /\ request # "cancelled" /\ ~ RequestLocked
  /\ request' = "cancelled"
  /\ UNCHANGED <<offer, price, inApp, payVars, callVars>>

\* A counter-offer written late opens the request again.
LateCounter ==
  /\ request # "open" /\ ~ RequestLocked
  /\ request' = "open"
  /\ UNCHANGED <<offer, price, inApp, payVars, callVars>>

\* An offer of the worker's is withdrawn or expires.
CloseOffer(o) ==
  /\ offer[o] = "pending" /\ ~ OfferLocked(o)
  /\ offer' = [offer EXCEPT ![o] = "expired"]
  /\ UNCHANGED <<request, price, inApp, payVars, callVars>>

ToggleMethod ==
  /\ inApp' = ~ inApp
  /\ UNCHANGED <<request, offer, price, payVars, callVars>>

-----------------------------------------------------------------------------
(* Refunds                                                                 *)

\* Mutation: keeps a payment of the accepted offer whatever its amount.
ForAcceptedAnyAmount ==
  {p \in Payments : status[p] = "paid" /\ \E o \in Offers :
                      paidFor[p] = o /\ offer[o] = "accepted"}

\* The payments that pay for the accepted offer; one of them is kept.
ForAccepted ==
  UNION {Matching(o, price[o], {"paid"}) : o \in {v \in Offers :
                                                   offer[v] = "accepted"}}

\* Mutation: the branch of the payments that bought nothing is missing.
FlagRefundsOfCancelled ==
  /\ request = "cancelled"
  /\ status' = [p \in Payments |-> IF status[p] = "paid" THEN "refund_pending"
                                                       ELSE status[p]]
  /\ UNCHANGED <<jobVars, paidFor, amount, charge, callVars>>

\* Every minute. The kept payment is the one confirmed first; any may be it.
FlagRefunds ==
  /\ request # "open"
  /\ \E keep \in SUBSET ForAccepted :
       /\ IF request = "cancelled" \/ ForAccepted = {}
          THEN keep = {}
          ELSE \E p \in ForAccepted : keep = {p}
       /\ status' = [p \in Payments |->
                       IF status[p] = "paid" /\ p \notin keep
                       THEN "refund_pending" ELSE status[p]]
  /\ UNCHANGED <<jobVars, paidFor, amount, charge, callVars>>

AdminStartRefund(p) ==
  /\ status[p] = "paid"
  /\ status' = [status EXCEPT ![p] = "refund_pending"]
  /\ UNCHANGED <<jobVars, paidFor, amount, charge, callVars>>

AdminMarkRefunded(p) ==
  /\ status[p] = "refund_pending"
  /\ status' = [status EXCEPT ![p] = "refunded"]
  /\ UNCHANGED <<jobVars, paidFor, amount, charge, callVars>>

AdminDeclineRefund(p) ==
  /\ status[p] = "refund_pending"
  /\ status' = [status EXCEPT ![p] = "refund_declined"]
  /\ UNCHANGED <<jobVars, paidFor, amount, charge, callVars>>

-----------------------------------------------------------------------------
CallStep(c) ==
  \/ \E o \in Offers : \/ Checkout(c, o) \/ AcceptOffer(c, o)
                       \/ \E a \in Amounts : UpsertOffer(c, o, a)
  \/ \E p \in Payments : GetPayment(c, p) \/ InsertPayment(c, p)
  \/ FindExisting(c) \/ CancelOlder(c) \/ SaveCheckout(c) \/ FailCheckout(c)
  \/ AskProvider(c) \/ WriteOffer(c) \/ AcceptAsk(c) \/ CommitAccept(c)
  \/ Abort(c)

PaymentStep(p) ==
  \/ ClientPays(p) \/ ProviderCancels(p)
  \/ AdminStartRefund(p) \/ AdminMarkRefunded(p) \/ AdminDeclineRefund(p)

RequestStep ==
  \/ CompleteJob \/ Cancel \/ LateCounter \/ ToggleMethod
  \/ \E o \in Offers : CloseOffer(o)

Next ==
  \/ \E c \in Calls : CallStep(c)
  \/ \E p \in Payments : PaymentStep(p)
  \/ RequestStep
  \/ FlagRefunds

Spec == Init /\ [][Next]_vars

\* The cron never stops; a pass that fails changes nothing.
FairSpec == Spec /\ WF_vars(FlagRefunds)

-----------------------------------------------------------------------------
(* Properties                                                              *)

HoldsMoney(p) == status[p] \in {"paid"} \cup Refund

\* No payment counts as paid, and none is given back, that the provider did
\* not receive: although the rows are saved, failed and cancelled without a
\* guard while the client pays.
RowsFollowProvider ==
  \A p \in Payments : HoldsMoney(p) => charge[p] = "succeeded"

\* A refund that was asked for stays one, and a refund that was settled stays
\* settled: a late answer of the provider does not make the payment paid (and
\* refundable) a second time.
RefundIsFinal ==
  [][\A p \in Payments :
       /\ status[p] \in Refund => status'[p] \in Refund
       /\ status[p] \in {"refunded", "refund_declined"} =>
            status'[p] = status[p]]_vars

\* "la oferta solo se acepta con un pago que el proveedor ya confirmó por el
\* mismo monto" (payments.service.ts:274-275): it still holds at the commit,
\* after the provider was asked in the middle of the transaction.
AcceptedWasPaid ==
  [][\A c \in Calls :
       LET p == args[c].pay
           o == args[c].offer IN
       CommitAccept(c) /\ p # None =>
         /\ charge[p] = "succeeded"
         /\ paidFor[p] = o /\ amount[p] = price'[o]]_vars

\* A pass of the cron leaves an assigned request that is paid for exactly one
\* payment, and that one pays the accepted price.
KeepsOnePayment ==
  [][\A o \in Offers :
       /\ FlagRefunds /\ request \in {"assigned", "completed"}
       /\ offer[o] = "accepted"
       /\ \E p \in Payments :
            paidFor[p] = o /\ amount[p] = price[o] /\ status[p] = "paid"
       => \E p \in Payments :
            /\ paidFor[p] = o /\ amount[p] = price[o]
            /\ \A q \in Payments : status'[q] = "paid" <=> q = p]_vars

\* The money of a request that is not open: taken for nothing, or twice.
TakenForNothing(p) ==
  /\ status[p] = "paid"
  /\ \/ request = "cancelled"
     \/ /\ request \in {"assigned", "completed"}
        /\ \A o \in Offers : ~ (/\ offer[o] = "accepted"
                                /\ paidFor[p] = o /\ amount[p] = price[o])

TakenTwice(p, q) ==
  request # "open" /\ status[p] = "paid" /\ status[q] = "paid"

\* Such money never stays where it is: it is flagged for a refund, or the
\* request changes so that it is of use again.
UselessMoneyIsFlagged ==
  \A p, q \in Payments :
    /\ TakenForNothing(p) ~> ~ TakenForNothing(p)
    /\ p # q => (TakenTwice(p, q) ~> ~ TakenTwice(p, q))
=============================================================================
