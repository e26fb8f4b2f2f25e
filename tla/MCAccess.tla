------------------------------ MODULE MCAccess ------------------------------
EXTENDS Access, TLC

\* Accounts have nothing to do with each other: one is looked at.
Touched(s) ==
  \/ count[s] > 0 \/ blocked[s] \/ \E c \in Calls : args[c].sub = s
  \/ \E t \in sessions \cup resets : t.sub = s

\* Failures are counted before there are tokens, and no clock runs for them.
Few ==
  /\ Cardinality({s \in Subjects : Touched(s)}) <= 1
  /\ (faults > 0 \/ \E s \in Subjects : tries[s] > 0) =>
       /\ sessions = {} /\ resets = {} /\ now = 0
       /\ \A s \in Subjects : ~ blocked[s] /\ ~ google[s]
       /\ \A c \in Calls : step[c] # "google.link"
  /\ Cardinality(resets) <= 1
=============================================================================
