------------------------------ MODULE MCPayments ------------------------------
(* Instances of Payments for TLC. *)
EXTENDS Payments

\* Rows and amounts are interchangeable (amounts are only compared for
\* equality, and no row is deleted): of the behaviours that differ in their
\* names, those are looked at where First is inserted first, with amount 1.
First == CHOOSE p \in Payments : TRUE

\* Bound: while the card is switched off, one handler runs at a time.
InOrder ==
  /\ amount[First] <= 1
  /\ inApp \/ \A c, d \in Calls : c # d => Idle(c) \/ Idle(d)
  /\ (\E p \in Payments : status[p] # "none") => status[First] # "none"
=============================================================================
