--------------------------- MODULE MCBotSimulation ---------------------------
EXTENDS BotSimulation, TLC

AllPairs == Clients \X Workers

\* Of instances that differ only in the names of scenarios and of workers, those
\* are looked at where First is the first scenario, and its worker is Someone.
First   == CHOOSE i \in Ids : TRUE
Someone == CHOOSE w \in Workers : TRUE

InOrder ==
  /\ \A i \in Ids : state[i] # "none" => state[First] # "none"
  /\ worker[First] \in {None, Someone}
=============================================================================
