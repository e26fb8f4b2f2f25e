----------------------------- MODULE Membership -----------------------------
(***************************************************************************)
(* What the agencies promise a worker, whatever the statements behind it:  *)
(* he is of one agency at a time, he enters an agency that registered him  *)
(* or to which he gave its code, and only leaving one lets him enter       *)
(* another. When an old copy of his row is saved he is again where he was: *)
(* in no agency, or in one he entered once.                                *)
(***************************************************************************)
CONSTANTS Agencies, Workers, None

VARIABLES
  account,   \* who has an account
  member,    \* the agency of each worker, or None
  consent,   \* <<a, w>>: w gave a one of its codes
  been,      \* <<a, w>>: w entered a, by his code or registered by it
  restored   \* the workers over whom an old copy was saved

Init ==
  /\ account = {}
  /\ member  = [w \in Workers |-> None]
  /\ consent = {} /\ been = {} /\ restored = {}

SignUp(w) ==
  /\ w \notin account
  /\ account' = account \cup {w}
  /\ UNCHANGED <<member, consent, been, restored>>

Hire(a, w) ==
  /\ w \notin account
  /\ account' = account \cup {w}
  /\ member'  = [member EXCEPT ![w] = a]
  /\ been'    = been \cup {<<a, w>>}
  /\ UNCHANGED <<consent, restored>>

Agree(a, w) ==
  /\ consent' = consent \cup {<<a, w>>}
  /\ UNCHANGED <<account, member, been, restored>>

Join(a, w) ==
  /\ member[w] = None /\ <<a, w>> \in consent
  /\ member' = [member EXCEPT ![w] = a]
  /\ been'   = been \cup {<<a, w>>}
  /\ UNCHANGED <<account, consent, restored>>

\* One worker is unlinked, or an agency is removed and all of its own leave.
Leave(W) ==
  /\ member' = [w \in Workers |-> IF w \in W THEN None ELSE member[w]]
  /\ UNCHANGED <<account, consent, been, restored>>

Restore(a, w) ==
  /\ a = None \/ <<a, w>> \in been
  /\ member'   = [member EXCEPT ![w] = a]
  /\ restored' = restored \cup {w}
  /\ UNCHANGED <<account, consent, been>>

Next ==
  \/ \E w \in Workers : SignUp(w)
  \/ \E a \in Agencies, w \in Workers : Hire(a, w) \/ Agree(a, w) \/ Join(a, w)
  \/ \E W \in SUBSET Workers : Leave(W)
  \/ \E a \in Agencies \cup {None}, w \in Workers : Restore(a, w)

vars == <<account, member, consent, been, restored>>
Spec == Init /\ [][Next]_vars
=============================================================================
