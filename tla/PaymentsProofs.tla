---------------------------- MODULE PaymentsProofs ----------------------------
(***************************************************************************)
(* Theorems about Payments for every set of offers, payments and handlers. *)
(***************************************************************************)
EXTENDS Payments, TLAPS

\* What a handler in flight works on.
CallsHaveArguments ==
  \A c \in Calls :
    /\ step[c] \in {"find", "cancel", "insert", "save", "offer.write"}
         \/ Accepting(c)
       => args[c].offer \in Offers /\ args[c].amt \in Amounts
    /\ step[c] \in {"save", "ask", "accept.ask"} => args[c].pay \in Payments

Typed == TypeOK /\ CallsHaveArguments

USE MaxAmountIsPositive, NoneIsNoRow
USE DEF Amounts, Refund, PaymentStatus, ChargeStatus, Steps, Args, NoArgs,
        jobVars, payVars, callVars, Accepting
USE DEF Typed, TypeOK, CallsHaveArguments

-----------------------------------------------------------------------------
(* Types *)

LEMMA InitTyped == Init => Typed
BY DEF Init

LEMMA CallStepTyped ==
  ASSUME Typed, NEW c \in Calls, CallStep(c)
  PROVE  Typed'
<1>1. ASSUME NEW o \in Offers, Checkout(c, o) PROVE Typed'
  BY <1>1 DEF Checkout, Begin
<1>2. ASSUME NEW o \in Offers, AcceptOffer(c, o) PROVE Typed'
  BY <1>2 DEF AcceptOffer, Matching, Begin
<1>3. ASSUME NEW o \in Offers, NEW a \in Amounts, UpsertOffer(c, o, a)
      PROVE  Typed'
  BY <1>3 DEF UpsertOffer, Begin
<1>4. ASSUME NEW p \in Payments, GetPayment(c, p) PROVE Typed'
  BY <1>4 DEF GetPayment, Begin
<1>5. ASSUME NEW p \in Payments, InsertPayment(c, p) PROVE Typed'
  BY <1>5 DEF InsertPayment, Begin
<1>6. ASSUME FindExisting(c) PROVE Typed'
  <2>1. args[c].offer \in Offers /\ args[c].amt \in Amounts
    BY <1>6 DEF FindExisting
  <2>2. CASE Goto(c, "cancel")
    BY <1>6, <2>1, <2>2 DEF FindExisting, Goto
  <2>3. ASSUME NEW p \in Payments,
               Begin(c, "ask", args[c].offer, args[c].amt, p)
        PROVE  Typed'
    BY <1>6, <2>1, <2>3 DEF FindExisting, Begin
  <2>4. CASE Return(c)
    BY <1>6, <2>4 DEF FindExisting, Return
  <2> QED  BY <1>6, <2>2, <2>3, <2>4 DEF FindExisting, Matching
<1>7. ASSUME CancelOlder(c) PROVE Typed'
  BY <1>7 DEF CancelOlder, Goto
<1>8. ASSUME SaveCheckout(c) PROVE Typed'
  BY <1>8 DEF SaveCheckout, Return
<1>9. ASSUME FailCheckout(c) PROVE Typed'
  BY <1>9 DEF FailCheckout, Return
<1>10. ASSUME AskProvider(c) PROVE Typed'
  BY <1>10 DEF AskProvider, Answer, SetStatus, Return
<1>11. ASSUME WriteOffer(c) PROVE Typed'
  BY <1>11 DEF WriteOffer, OfferLocked, Return
<1>12. ASSUME AcceptAsk(c) PROVE Typed'
  BY <1>12 DEF AcceptAsk, Answer, SetStatus, Goto, Return
<1>13. ASSUME CommitAccept(c) PROVE Typed'
  BY <1>13 DEF CommitAccept, Return
<1>14. ASSUME Abort(c) PROVE Typed'
  BY <1>14 DEF Abort, Return, Idle
<1> QED
  BY <1>1, <1>2, <1>3, <1>4, <1>5, <1>6, <1>7, <1>8, <1>9, <1>10, <1>11,
     <1>12, <1>13, <1>14
  DEF CallStep

LEMMA PaymentStepTyped ==
  ASSUME Typed, NEW p \in Payments, PaymentStep(p)
  PROVE  Typed'
<1>1. CASE ClientPays(p)
  BY <1>1 DEF ClientPays
<1>2. CASE ProviderCancels(p)
  BY <1>2 DEF ProviderCancels
<1>3. CASE AdminStartRefund(p)
  BY <1>3 DEF AdminStartRefund
<1>4. CASE AdminMarkRefunded(p)
  BY <1>4 DEF AdminMarkRefunded
<1>5. CASE AdminDeclineRefund(p)
  BY <1>5 DEF AdminDeclineRefund
<1> QED  BY <1>1, <1>2, <1>3, <1>4, <1>5 DEF PaymentStep

LEMMA OtherStepTyped ==
  ASSUME Typed, RequestStep \/ FlagRefunds \/ UNCHANGED vars
  PROVE  Typed'
<1>1. CASE CompleteJob
  BY <1>1 DEF CompleteJob
<1>2. CASE Cancel
  BY <1>2 DEF Cancel
<1>3. CASE LateCounter
  BY <1>3 DEF LateCounter
<1>4. CASE ToggleMethod
  BY <1>4 DEF ToggleMethod
<1>5. CASE \E o \in Offers : CloseOffer(o)
  BY <1>5 DEF CloseOffer
<1>6. CASE FlagRefunds
  BY <1>6 DEF FlagRefunds
<1>7. CASE UNCHANGED vars
  BY <1>7 DEF vars
<1> QED
  BY <1>1, <1>2, <1>3, <1>4, <1>5, <1>6, <1>7
  DEF RequestStep

-----------------------------------------------------------------------------
(* The inductive invariant *)

\* The provider knows nothing of a row that is not there.
RowsComeFirst == \A p \in Payments : status[p] = "none" => charge[p] = "none"

\* The row a checkout is about to save is its own, and not payable yet: this
\* is why its unguarded UPDATE cannot hit a payment that holds money.
SavingIsFresh ==
  \A c \in Calls : step[c] = "save" =>
    /\ status[args[c].pay] # "none" /\ charge[args[c].pay] = "none"
    /\ \A d \in Calls : step[d] = "save" /\ args[d].pay = args[c].pay => d = c

\* The payment an acceptance relies on matches the offer it has locked.
AcceptIsPaid ==
  \A c \in Calls : Accepting(c) /\ args[c].pay # None =>
    /\ status[args[c].pay] # "none"
    /\ paidFor[args[c].pay] = args[c].offer
    /\ amount[args[c].pay] = price[args[c].offer]
    /\ step[c] = "accept.commit" => charge[args[c].pay] = "succeeded"

Safe ==
  RowsComeFirst /\ SavingIsFresh /\ RowsFollowProvider /\ AcceptIsPaid

IInv == Typed /\ Safe

USE DEF Safe, RowsComeFirst, SavingIsFresh, RowsFollowProvider, HoldsMoney,
        AcceptIsPaid

LEMMA InitSafe == Init => Safe
BY DEF Init

LEMMA CallStepSafe ==
  ASSUME Typed, Typed', Safe, NEW c \in Calls, CallStep(c)
  PROVE  Safe'
<1>1. ASSUME NEW o \in Offers, Checkout(c, o) PROVE Safe'
  BY <1>1 DEF Checkout, Begin
<1>2. ASSUME NEW o \in Offers, AcceptOffer(c, o) PROVE Safe'
  <2>1. UNCHANGED <<jobVars, payVars>>
    BY <1>2 DEF AcceptOffer
  <2>2. CASE Begin(c, "accept.commit", o, price[o], None)
    BY <2>1, <2>2 DEF Begin
  <2>3. ASSUME NEW p \in Payments, p \in Matching(o, price[o], {"paid"}),
               Begin(c, "accept.commit", o, price[o], p)
        PROVE  Safe'
    BY <2>1, <2>3 DEF Begin, Matching
  <2>4. ASSUME NEW p \in Payments, p \in Matching(o, price[o], {"pending"}),
               Begin(c, "accept.ask", o, price[o], p)
        PROVE  Safe'
    BY <2>1, <2>4 DEF Begin, Matching
  <2> QED  BY <1>2, <2>2, <2>3, <2>4 DEF AcceptOffer, Matching
<1>3. ASSUME NEW o \in Offers, NEW a \in Amounts, UpsertOffer(c, o, a)
      PROVE  Safe'
  BY <1>3 DEF UpsertOffer, Begin
<1>4. ASSUME NEW p \in Payments, GetPayment(c, p) PROVE Safe'
  BY <1>4 DEF GetPayment, Begin
<1>5. ASSUME NEW p \in Payments, InsertPayment(c, p) PROVE Safe'
  BY <1>5 DEF InsertPayment, Begin
<1>6. ASSUME FindExisting(c) PROVE Safe'
  <2>1. UNCHANGED <<jobVars, payVars>> /\ step[c] = "find"
    BY <1>6 DEF FindExisting
  <2>2. CASE Goto(c, "cancel")
    BY <2>1, <2>2 DEF Goto
  <2>3. ASSUME NEW p \in Payments,
               Begin(c, "ask", args[c].offer, args[c].amt, p)
        PROVE  Safe'
    BY <2>1, <2>3 DEF Begin
  <2>4. CASE Return(c)
    BY <2>1, <2>4 DEF Return
  <2> QED  BY <1>6, <2>2, <2>3, <2>4 DEF FindExisting, Matching
<1>7. ASSUME CancelOlder(c) PROVE Safe'
  BY <1>7 DEF CancelOlder, Goto
<1>8. ASSUME SaveCheckout(c) PROVE Safe'
  BY <1>8 DEF SaveCheckout, Return
<1>9. ASSUME FailCheckout(c) PROVE Safe'
  BY <1>9 DEF FailCheckout, Return
<1>10. ASSUME AskProvider(c) PROVE Safe'
  BY <1>10 DEF AskProvider, Answer, SetStatus, Return
<1>11. ASSUME WriteOffer(c) PROVE Safe'
  BY <1>11 DEF WriteOffer, OfferLocked, Return
<1>12. ASSUME AcceptAsk(c) PROVE Safe'
  <2> DEFINE q == args[c].pay
  <2>1. q \in Payments /\ q # None /\ step[c] = "accept.ask"
    BY <1>12 DEF AcceptAsk
  <2>2. UNCHANGED <<jobVars, paidFor, amount, charge, offer, price>>
    BY <1>12 DEF AcceptAsk
  <2>3. /\ status[q] # "none"
        /\ paidFor[q] = args[c].offer /\ amount[q] = price[args[c].offer]
    BY <2>1
  <2>4. \A r \in Payments :
          /\ status'[r] = "none" <=> status[r] = "none"
          /\ HoldsMoney(r)' => HoldsMoney(r) \/ charge[r] = "succeeded"
    BY <1>12, <2>1 DEF AcceptAsk, Answer, SetStatus
  <2>5. RowsComeFirst' /\ RowsFollowProvider'
    BY <2>2, <2>4
  <2>6. \A d \in Calls : d # c => step'[d] = step[d] /\ args'[d] = args[d]
    BY <1>12 DEF AcceptAsk, Goto, Return
  <2>7. step'[c] \in {"accept.commit", "idle"}
    BY <1>12 DEF AcceptAsk, Goto, Return
  <2>8. step'[c] = "accept.commit" => args'[c] = args[c]
                                      /\ charge[q] = "succeeded"
    BY <1>12 DEF AcceptAsk, Answer, Goto, Return
  <2>9. SavingIsFresh'
    BY <2>2, <2>4, <2>6, <2>7
  <2>10. AcceptIsPaid'
    BY <2>1, <2>2, <2>3, <2>4, <2>6, <2>7, <2>8
  <2> QED  BY <2>5, <2>9, <2>10
<1>13. ASSUME CommitAccept(c) PROVE Safe'
  BY <1>13 DEF CommitAccept, Return
<1>14. ASSUME Abort(c) PROVE Safe'
  BY <1>14 DEF Abort, Return, Idle
<1> QED
  BY <1>1, <1>2, <1>3, <1>4, <1>5, <1>6, <1>7, <1>8, <1>9, <1>10, <1>11,
     <1>12, <1>13, <1>14
  DEF CallStep

LEMMA PaymentStepSafe ==
  ASSUME Typed, Typed', Safe, NEW p \in Payments, PaymentStep(p)
  PROVE  Safe'
<1>1. CASE ClientPays(p)
  BY <1>1 DEF ClientPays
<1>2. CASE ProviderCancels(p)
  BY <1>2 DEF ProviderCancels
<1>3. CASE AdminStartRefund(p)
  BY <1>3 DEF AdminStartRefund
<1>4. CASE AdminMarkRefunded(p)
  BY <1>4 DEF AdminMarkRefunded
<1>5. CASE AdminDeclineRefund(p)
  BY <1>5 DEF AdminDeclineRefund
<1> QED  BY <1>1, <1>2, <1>3, <1>4, <1>5 DEF PaymentStep

LEMMA OtherStepSafe ==
  ASSUME Typed, Typed', Safe, RequestStep \/ FlagRefunds \/ UNCHANGED vars
  PROVE  Safe'
<1>1. CASE CompleteJob
  BY <1>1 DEF CompleteJob
<1>2. CASE Cancel
  BY <1>2 DEF Cancel
<1>3. CASE LateCounter
  BY <1>3 DEF LateCounter
<1>4. CASE ToggleMethod
  BY <1>4 DEF ToggleMethod
<1>5. CASE \E o \in Offers : CloseOffer(o)
  BY <1>5 DEF CloseOffer
<1>6. CASE FlagRefunds
  BY <1>6 DEF FlagRefunds
<1>7. CASE UNCHANGED vars
  BY <1>7 DEF vars
<1> QED
  BY <1>1, <1>2, <1>3, <1>4, <1>5, <1>6, <1>7
  DEF RequestStep

-----------------------------------------------------------------------------
(* The theorems *)

THEOREM Invariance == Spec => []IInv
<1>1. Init => IInv
  BY InitTyped, InitSafe DEF IInv
<1>2. IInv /\ [Next]_vars => IInv'
  <2> SUFFICES ASSUME IInv, [Next]_vars PROVE IInv'
    OBVIOUS
  <2>1. Typed'
    BY CallStepTyped, PaymentStepTyped, OtherStepTyped DEF IInv, Next
  <2>2. Safe'
    BY <2>1, CallStepSafe, PaymentStepSafe, OtherStepSafe DEF IInv, Next
  <2> QED  BY <2>1, <2>2 DEF IInv
<1> QED  BY <1>1, <1>2, PTL DEF Spec

\* The state of Payments always has its types.
THEOREM TypeCorrect == Spec => []TypeOK
<1>1. IInv => TypeOK
  BY DEF IInv
<1> QED  BY <1>1, Invariance, PTL

\* No payment counts as paid, and none is given back, that the provider did
\* not receive.
THEOREM MoneyIsReal == Spec => []RowsFollowProvider
<1>1. IInv => RowsFollowProvider
  BY DEF IInv
<1> QED  BY <1>1, Invariance, PTL

\* The acceptance commits with a payment that the provider confirmed, of that
\* offer and of its price, though the price is written without asking the
\* payments and the provider is asked in the middle of the transaction.
THEOREM AcceptanceWasPaid == Spec => AcceptedWasPaid
<1>1. ASSUME IInv, NEW c \in Calls, CommitAccept(c), args[c].pay # None
      PROVE  /\ charge[args[c].pay] = "succeeded"
             /\ paidFor[args[c].pay] = args[c].offer
             /\ amount[args[c].pay] = price'[args[c].offer]
  BY <1>1 DEF IInv, CommitAccept
<1>2. IInv /\ [Next]_vars =>
        [\A c \in Calls :
           LET p == args[c].pay
               o == args[c].offer IN
           CommitAccept(c) /\ p # None =>
             /\ charge[p] = "succeeded"
             /\ paidFor[p] = o /\ amount[p] = price'[o]]_vars
  BY <1>1
<1> QED  BY <1>2, Invariance, PTL DEF Spec, AcceptedWasPaid

\* What RefundIsFinal says of one step. SaveCheckout and FailCheckout write
\* the status without a guard: only SavingIsFresh keeps them off a refund.
RefundsStay ==
  \A p \in Payments :
    /\ status[p] \in Refund => status'[p] \in Refund
    /\ status[p] \in {"refunded", "refund_declined"} => status'[p] = status[p]

LEMMA CallKeepsRefunds ==
  ASSUME IInv, NEW c \in Calls, CallStep(c)
  PROVE  RefundsStay
<1> USE DEF IInv
<1>1. CASE SaveCheckout(c)
  BY <1>1 DEF SaveCheckout, RefundsStay
<1>2. CASE FailCheckout(c)
  BY <1>2 DEF FailCheckout, RefundsStay
<1>3. CASE AskProvider(c)
  BY <1>3 DEF AskProvider, SetStatus, RefundsStay
<1>4. CASE AcceptAsk(c)
  BY <1>4 DEF AcceptAsk, SetStatus, RefundsStay
<1>5. CASE CancelOlder(c)
  BY <1>5 DEF CancelOlder, RefundsStay
<1>6. ASSUME NEW p \in Payments, InsertPayment(c, p) PROVE RefundsStay
  BY <1>6 DEF InsertPayment, RefundsStay
<1>7. CASE UNCHANGED status
  BY <1>7 DEF RefundsStay
<1>8. CASE \E o \in Offers : \/ Checkout(c, o) \/ AcceptOffer(c, o)
                             \/ \E a \in Amounts : UpsertOffer(c, o, a)
  BY <1>7, <1>8 DEF Checkout, AcceptOffer, UpsertOffer
<1>9. CASE \E p \in Payments : GetPayment(c, p)
  BY <1>7, <1>9 DEF GetPayment
<1>10. CASE FindExisting(c) \/ WriteOffer(c) \/ CommitAccept(c) \/ Abort(c)
  BY <1>7, <1>10 DEF FindExisting, WriteOffer, CommitAccept, Abort
<1> QED
  BY <1>1, <1>2, <1>3, <1>4, <1>5, <1>6, <1>8, <1>9, <1>10 DEF CallStep

LEMMA OthersKeepRefunds ==
  ASSUME IInv,
         \/ \E p \in Payments : PaymentStep(p)
         \/ RequestStep \/ FlagRefunds
  PROVE  RefundsStay
<1> USE DEF IInv
<1>1. ASSUME NEW p \in Payments, PaymentStep(p) PROVE RefundsStay
  BY <1>1 DEF PaymentStep, ClientPays, ProviderCancels, AdminStartRefund,
              AdminMarkRefunded, AdminDeclineRefund, RefundsStay
<1>2. CASE RequestStep
  BY <1>2 DEF RequestStep, CompleteJob, Cancel, LateCounter, ToggleMethod,
              CloseOffer, RefundsStay
<1>3. CASE FlagRefunds
  BY <1>3 DEF FlagRefunds, RefundsStay
<1> QED  BY <1>1, <1>2, <1>3

\* A refund that was asked for stays one and one that was settled stays
\* settled, whatever the provider answers late.
THEOREM RefundsAreFinal == Spec => RefundIsFinal
<1>1. IInv /\ [Next]_vars => [RefundsStay]_vars
  BY CallKeepsRefunds, OthersKeepRefunds DEF Next
<1> QED  BY <1>1, Invariance, PTL DEF Spec, RefundIsFinal, RefundsStay

-----------------------------------------------------------------------------
(* What the cron keeps *)

\* The lock of an acceptance: while one is in flight there is no other, and
\* nothing is accepted yet.
OneAcceptance ==
  /\ \A o, v \in Offers :
       offer[o] = "accepted" /\ offer[v] = "accepted" => o = v
  /\ \A c \in Calls : Accepting(c) =>
       /\ \A o \in Offers : offer[o] # "accepted"
       /\ \A d \in Calls : Accepting(d) => d = c

LEMMA CallKeepsOneAcceptance ==
  ASSUME IInv, OneAcceptance, NEW c \in Calls, CallStep(c)
  PROVE  OneAcceptance'
<1> USE DEF IInv, OneAcceptance
<1>1. ASSUME NEW o \in Offers, AcceptOffer(c, o) PROVE OneAcceptance'
  <2>1. \A d \in Calls : d # c => step'[d] = step[d]
    BY <1>1 DEF AcceptOffer, Begin
  <2> QED  BY <1>1, <2>1 DEF AcceptOffer, RequestLocked
<1>2. CASE CommitAccept(c)
  BY <1>2 DEF CommitAccept, Return
<1>3. CASE WriteOffer(c)
  BY <1>3 DEF WriteOffer, Return
<1>4. CASE AcceptAsk(c)
  BY <1>4 DEF AcceptAsk, Goto, Return
<1>5. ASSUME UNCHANGED offer,
             \A d \in Calls : step'[d] = step[d] \/ ~ Accepting(d)'
      PROVE  OneAcceptance'
  BY <1>5
<1>6. CASE \E o \in Offers : \/ Checkout(c, o)
                             \/ \E a \in Amounts : UpsertOffer(c, o, a)
  BY <1>5, <1>6 DEF Checkout, UpsertOffer, Begin
<1>7. CASE \E p \in Payments : GetPayment(c, p) \/ InsertPayment(c, p)
  BY <1>5, <1>7 DEF GetPayment, InsertPayment, Begin
<1>8. CASE FindExisting(c)
  BY <1>5, <1>8 DEF FindExisting, Begin, Goto, Return
<1>9. CASE \/ CancelOlder(c) \/ SaveCheckout(c) \/ FailCheckout(c)
           \/ AskProvider(c) \/ Abort(c)
  BY <1>5, <1>9 DEF CancelOlder, SaveCheckout, FailCheckout, AskProvider,
                    Abort, Goto, Return
<1> QED
  BY <1>1, <1>2, <1>3, <1>4, <1>6, <1>7, <1>8, <1>9 DEF CallStep

LEMMA OthersKeepOneAcceptance ==
  ASSUME IInv, OneAcceptance,
         \/ \E p \in Payments : PaymentStep(p)
         \/ RequestStep \/ FlagRefunds \/ UNCHANGED vars
  PROVE  OneAcceptance'
<1> USE DEF IInv, OneAcceptance
<1>1. CASE \E p \in Payments : PaymentStep(p)
  BY <1>1 DEF PaymentStep, ClientPays, ProviderCancels, AdminStartRefund,
              AdminMarkRefunded, AdminDeclineRefund
<1>2. CASE RequestStep
  BY <1>2 DEF RequestStep, CompleteJob, Cancel, LateCounter, ToggleMethod,
              CloseOffer, OfferLocked
<1>3. CASE FlagRefunds
  BY <1>3 DEF FlagRefunds
<1>4. CASE UNCHANGED vars
  BY <1>4 DEF vars
<1> QED  BY <1>1, <1>2, <1>3, <1>4

LEMMA FlagRefundsKeepsOne ==
  ASSUME IInv, OneAcceptance, FlagRefunds, NEW o \in Offers,
         request \in {"assigned", "completed"}, offer[o] = "accepted",
         \E p \in Payments :
           paidFor[p] = o /\ amount[p] = price[o] /\ status[p] = "paid"
  PROVE  \E p \in Payments :
           /\ paidFor[p] = o /\ amount[p] = price[o]
           /\ \A q \in Payments : status'[q] = "paid" <=> q = p
<1>1. ForAccepted = Matching(o, price[o], {"paid"})
  BY DEF ForAccepted, OneAcceptance
<1>2. ForAccepted # {}
  BY <1>1 DEF Matching
<1>3. PICK p \in ForAccepted :
        status' = [q \in Payments |->
                     IF status[q] = "paid" /\ q \notin {p}
                     THEN "refund_pending" ELSE status[q]]
  BY <1>2 DEF FlagRefunds
<1>4. /\ p \in Payments /\ status[p] = "paid"
      /\ paidFor[p] = o /\ amount[p] = price[o]
  BY <1>1 DEF Matching
<1>5. \A q \in Payments : status'[q] = "paid" <=> q = p
  BY <1>3, <1>4 DEF IInv
<1> QED  BY <1>4, <1>5

\* A pass of the cron over an assigned request that is paid leaves exactly one
\* payment paid, one that pays the accepted price.
THEOREM OnePaymentIsKept == Spec => KeepsOnePayment
<1>1. Init => OneAcceptance
  BY DEF Init, OneAcceptance
<1>2. IInv /\ OneAcceptance /\ [Next]_vars => OneAcceptance'
  BY CallKeepsOneAcceptance, OthersKeepOneAcceptance DEF Next
<1>3. Spec => []OneAcceptance
  BY <1>1, <1>2, Invariance, PTL DEF Spec
<1>4. IInv /\ OneAcceptance =>
        \A o \in Offers :
           /\ FlagRefunds /\ request \in {"assigned", "completed"}
           /\ offer[o] = "accepted"
           /\ \E p \in Payments :
                paidFor[p] = o /\ amount[p] = price[o] /\ status[p] = "paid"
           => \E p \in Payments :
                /\ paidFor[p] = o /\ amount[p] = price[o]
                /\ \A q \in Payments : status'[q] = "paid" <=> q = p
  BY FlagRefundsKeepsOne
<1> QED  BY <1>3, <1>4, Invariance, PTL DEF KeepsOnePayment

=============================================================================
