------------------------------- MODULE MCFleet -------------------------------
EXTENDS Fleet, TLC

Symmetry == Permutations(Agencies) \cup Permutations(Calls)

OneAtATime == Cardinality({c \in Calls : step[c] # "idle"}) <= 1

\* Where old copies come in: one call at a time and one code, which is enough
\* to be registered by one agency and to join the other, no wrong guess, nobody
\* blocked, and offers or a message, not both.
Edited == \/ copy # [w \in Workers |-> None] \/ overwritten # {}
          \/ edit # [e \in Edits |-> Admin!NoEdit]

FewBesides ==
  /\ OneAtATime /\ codes <= 1
  /\ \A w \in Workers : ~ blocked[w]
  /\ \A w \in Workers : offeredBy[w] # None => \A m \in inbox : m[3] # 0
  /\ \A p \in Agencies \X Workers : tries[p] = 0
  /\ \A a \in Agencies : agency[a] # "inactive"

\* Either codes or one announcement; one agency at most is inactive or gone;
\* and two calls at a time while nobody is blocked.
Few ==
  /\ (\E m \in inbox : m[3] = 0) => Cardinality(inbox) = 1
  /\ Cardinality({a \in Agencies : agency[a] \in {"inactive", "removed"}}) <= 1
  /\ (\E w \in Workers : blocked[w]) => OneAtATime
  /\ Edited => FewBesides
=============================================================================
