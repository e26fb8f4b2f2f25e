---------------------------- MODULE MCAgencyBooks ----------------------------
EXTENDS AgencyBooks, TLC

Symmetry == Permutations(Agencies) \cup Permutations(Calls)

\* Two calls in flight are two changes of a commission; one payout at most,
\* and none next to a confirmed payment, with which it has nothing to do.
Few ==
  /\ \A c, d \in Calls : c # d /\ step[c] # "idle" /\ step[d] # "idle" =>
       step[c] = "terms.write" /\ step[d] = "terms.write"
  /\ \A p, q \in DOMAIN paid : paid[p] > 0 =>
       (p = q \/ paid[q] = 0) /\ \A r \in Jobs : pay[r] = "pending"
=============================================================================
