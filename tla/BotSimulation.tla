---------------------------- MODULE BotSimulation ----------------------------
(***************************************************************************)
(* The simulated jobs of the admin panel (bots.service.ts): twenty stored  *)
(* profiles, a settings row, and scenarios that a periodic tick moves from *)
(* published to completed. Any number of replicas run the tick, and admins *)
(* send commands to any of them.                                           *)
(*                                                                         *)
(* Every transaction starts by locking the settings row. What it read then *)
(* (`tx`) is what it goes on with; everything else it reads at its commit, *)
(* because the database is READ COMMITTED. An operator marked "Mutation"   *)
(* is a bug the properties find.                                           *)
(***************************************************************************)
EXTENDS Naturals, FiniteSets

CONSTANTS
  Clients, Workers,  \* the simulated actors
  Ids,               \* ids of scenarios
  Txs,               \* transactions that may be in flight, of all replicas
  InitialPairs,      \* <<client, worker>> of one specialty, as provisioned
  MaxLimit,          \* bound: max_concurrent is set to 1..MaxLimit
  DailyLimits,       \* what daily_limit is set to
  MaxGeneration,     \* bound: the engine is stopped that often
  None               \* no actor, no scenario

ASSUME BoundsAreNatural ==
  /\ MaxLimit \in Nat \ {0} /\ MaxGeneration \in Nat
  /\ DailyLimits \in SUBSET Nat /\ DailyLimits # {}
ASSUME PairsArePairs == InitialPairs \subseteq Clients \X Workers
ASSUME IdsAreFinite == IsFiniteSet(Ids)
ASSUME RolesAreApart == Clients \cap Workers = {}
ASSUME NoneIsNothing == None \notin Clients \cup Workers \cup Ids

VARIABLES
  settings,     \* the settings row
  provisioned,  \* the twenty profiles are there
  pairs,        \* <<client, worker>>: both enabled, of one specialty
  place,        \* the scenario whose site the profile's coordinates are
  state,        \* scenarios.state ("none": no row)
  client, worker, manual, bornIn,  \* its columns; bornIn is `generation`
  due,          \* due_at has passed
  today,        \* the scenarios created today
  tx            \* what the transactions in flight have read

actorVars    == <<provisioned, pairs, place>>
scenarioVars == <<state, client, worker, manual, bornIn, due, today>>
vars         == <<settings, actorVars, scenarioVars, tx>>

Bots     == Clients \cup Workers
Engine   == {"off", "running", "pausing", "paused"}
Limits   == 1..MaxLimit
Settings == [engine: Engine, generation: Nat, zone: BOOLEAN, start: BOOLEAN,
             max: Limits, daily: DailyLimits]

Finished == {"completed", "cancelled"}
Stages   == {"published", "offered", "accepted", "en_route", "arrived",
             "confirmed"}
States   == {"none"} \cup Stages \cup Finished

NextState == [published |-> "offered",  offered   |-> "accepted",
              accepted  |-> "en_route", en_route  |-> "arrived",
              arrived   |-> "confirmed", confirmed |-> "completed"]

ActiveIn(st) == {i \in Ids : st[i] \in Stages}
Active(i)    == state[i] \in Stages

\* The row as the migration inserts it.
DefaultRow == [engine |-> "off", generation |-> 1, zone |-> FALSE,
               start |-> TRUE, max |-> MaxLimit,
               daily |-> CHOOSE d \in DailyLimits : TRUE]

\* seen: the state of each scenario the tick found due, "none" of the others.
Tx == [open: BOOLEAN, row: Settings, seen: [Ids -> {"none"} \cup Stages]]
Closed == [open |-> FALSE, row |-> DefaultRow,
           seen |-> [i \in Ids |-> "none"]]

TypeOK ==
  /\ settings \in Settings
  /\ provisioned \in BOOLEAN
  /\ pairs  \in SUBSET (Clients \X Workers)
  /\ place  \in [Bots -> Ids \cup {None}]
  /\ state  \in [Ids -> States]
  /\ client \in [Ids -> Clients \cup {None}]
  /\ worker \in [Ids -> Workers \cup {None}]
  /\ manual \in [Ids -> BOOLEAN]
  /\ bornIn \in [Ids -> Nat]
  /\ due    \in [Ids -> BOOLEAN]
  /\ today  \in SUBSET Ids
  /\ tx     \in [Txs -> Tx]

Init ==
  /\ settings = DefaultRow
  /\ provisioned = FALSE
  /\ pairs  = {}
  /\ place  = [b \in Bots |-> None]
  /\ state  = [i \in Ids |-> "none"]
  /\ client = [i \in Ids |-> None]
  /\ worker = [i \in Ids |-> None]
  /\ manual = [i \in Ids |-> FALSE]
  /\ bornIn = [i \in Ids |-> 0]
  /\ due    = [i \in Ids |-> FALSE]
  /\ today  = {}
  /\ tx     = [t \in Txs |-> Closed]

-----------------------------------------------------------------------------
(* The lock on the settings row, and the tick's list of due scenarios      *)

\* Mutation: the settings are read without FOR UPDATE.
NeverLocked == TRUE

LockFree == \A t \in Txs : ~ tx[t].open

\* Mutation: the tick forgets that manual scenarios run in any state.
DueWithEngine(i) ==
  /\ Active(i) /\ due[i] /\ bornIn[i] = settings.generation
  /\ settings.engine \in {"running", "pausing"}

Due(i) ==
  /\ Active(i) /\ due[i] /\ bornIn[i] = settings.generation
  /\ manual[i] \/ settings.engine \in {"running", "pausing"}

Lock(t) ==
  /\ ~ tx[t].open
  /\ LockFree
  /\ tx' = [tx EXCEPT ![t] =
       [open |-> TRUE, row |-> settings,
        seen |-> [i \in Ids |-> IF Due(i) THEN state[i] ELSE "none"]]]
  /\ UNCHANGED <<settings, actorVars, scenarioVars>>

End(t) == tx' = [tx EXCEPT ![t] = Closed]

\* A refused command, an error or a crash: everything is rolled back.
Abort(t) ==
  /\ tx[t].open
  /\ End(t)
  /\ UNCHANGED <<settings, actorVars, scenarioVars>>

-----------------------------------------------------------------------------
(* Settings and profiles                                                   *)

Editable(t) ==
  /\ tx[t].row.engine \notin {"running", "pausing"}
  /\ ActiveIn(state) = {}

Configure(t, max, daily) ==
  /\ tx[t].open /\ Editable(t)
  /\ settings' = [settings EXCEPT !.zone = TRUE, !.max = max, !.daily = daily]
  /\ place' = [b \in Bots |-> None]
  /\ End(t)
  /\ UNCHANGED <<provisioned, pairs, scenarioVars>>

\* Mutation: places all profiles again, whatever they are doing.
ProvisionAnew(t) ==
  /\ tx[t].open
  /\ provisioned' = TRUE
  /\ pairs' = IF provisioned THEN pairs ELSE InitialPairs
  /\ place' = [b \in Bots |-> None]
  /\ End(t)
  /\ UNCHANGED <<settings, scenarioVars>>

\* Creates the profiles that are missing. They are only placed, if at all,
\* while nothing runs.
Provision(t) ==
  /\ tx[t].open
  /\ provisioned' = TRUE
  /\ pairs' = IF provisioned THEN pairs ELSE InitialPairs
  /\ \/ place' = place
     \/ tx[t].row.zone /\ Editable(t) /\ place' = [b \in Bots |-> None]
  /\ End(t)
  /\ UNCHANGED <<settings, scenarioVars>>

\* Enables or disables the bot b, or changes its specialty.
EditProfile(t, b) ==
  /\ tx[t].open /\ Editable(t) /\ provisioned
  /\ pairs' \in SUBSET (Clients \X Workers)
  /\ \A p \in Clients \X Workers :
       p[1] # b /\ p[2] # b => (p \in pairs' <=> p \in pairs)
  /\ End(t)
  /\ UNCHANGED <<settings, provisioned, place, scenarioVars>>

-----------------------------------------------------------------------------
(* Commands                                                                *)

Start(t) ==
  /\ tx[t].open
  /\ tx[t].row.engine # "running"
  /\ tx[t].row.zone /\ provisioned /\ pairs # {}
  /\ settings' = [settings EXCEPT !.engine = "running", !.start = TRUE]
  /\ End(t)
  /\ UNCHANGED <<actorVars, scenarioVars>>

Pause(t) ==
  /\ tx[t].open
  /\ tx[t].row.engine = "running"
  /\ settings' = [settings EXCEPT !.engine =
                    IF ActiveIn(state) # {} THEN "pausing" ELSE "paused"]
  /\ End(t)
  /\ UNCHANGED <<actorVars, scenarioVars>>

\* next_start_at = NULL counts as passed.
Stop(t) ==
  /\ tx[t].open
  /\ settings.generation <= MaxGeneration
  /\ settings' = [settings EXCEPT !.engine = "off", !.start = TRUE,
                                  !.generation = @ + 1]
  /\ state' = [i \in Ids |-> IF Active(i) THEN "cancelled" ELSE state[i]]
  /\ End(t)
  /\ UNCHANGED <<actorVars, client, worker, manual, bornIn, due, today>>

-----------------------------------------------------------------------------
(* createScenario, over the states `st` its transaction has made so far    *)

\* Mutation: a pair is taken when either of the two is free.
EitherFree(p, st) ==
  \A i \in ActiveIn(st) : ~ (client[i] = p[1] /\ worker[i] = p[2])

Free(p, st) ==
  \A i \in ActiveIn(st) : client[i] # p[1] /\ worker[i] # p[2]

CreateScenario(row, st, onSite, i, p, isManual) ==
  /\ st[i] = "none"
  /\ Cardinality(ActiveIn(st)) < row.max
  /\ Cardinality(today) < row.daily
  /\ row.zone
  /\ p \in pairs /\ Free(p, st)
  /\ state'  = [st EXCEPT ![i] = "published"]
  /\ place'  = [onSite EXCEPT ![p[1]] = i, ![p[2]] = None]
  /\ client' = [client EXCEPT ![i] = p[1]]
  /\ worker' = [worker EXCEPT ![i] = p[2]]
  /\ manual' = [manual EXCEPT ![i] = isManual]
  /\ bornIn' = [bornIn EXCEPT ![i] = row.generation]
  /\ today'  = today \cup {i}

RunOnce(t, i, p) ==
  /\ tx[t].open
  /\ tx[t].row.engine # "pausing"
  /\ CreateScenario(tx[t].row, state, place, i, p, TRUE)
  /\ End(t)
  /\ UNCHANGED <<settings, provisioned, pairs, due>>

-----------------------------------------------------------------------------
(* tick                                                                    *)

Advanced(t) ==
  [i \in Ids |-> IF tx[t].seen[i] = "none" THEN state[i]
                                           ELSE NextState[tx[t].seen[i]]]

\* Who arrives is put on the site.
Arrived(t) ==
  [b \in Bots |->
     IF \E i \in Ids : worker[i] = b /\ tx[t].seen[i] = "en_route"
     THEN CHOOSE i \in Ids : worker[i] = b /\ tx[t].seen[i] = "en_route"
     ELSE place[b]]

\* due_at is set anew for the scenarios that moved.
Rescheduled(t) == [i \in Ids |-> due[i] /\ tx[t].seen[i] = "none"]

Tick(t) ==
  LET row == tx[t].row
      st  == Advanced(t)
      starts == row.engine = "running" /\ row.start IN
  /\ tx[t].open
  /\ due' = Rescheduled(t)
  /\ settings' = [settings EXCEPT
       !.engine = IF row.engine = "pausing" /\ ActiveIn(st) = {} THEN "paused"
                                                                 ELSE @,
       !.start = @ /\ ~ starts]
  /\ \/ /\ starts
        /\ \E i \in Ids, p \in Clients \X Workers :
             CreateScenario(row, st, Arrived(t), i, p, FALSE)
     \* nothing is to be started, or createScenario refuses: a limit, no free
     \* pair, or no client's position to centre the zone on
     \/ /\ state' = st
        /\ place' = Arrived(t)
        /\ UNCHANGED <<client, worker, manual, bornIn, today>>
  /\ End(t)
  /\ UNCHANGED <<provisioned, pairs>>

-----------------------------------------------------------------------------
(* Time                                                                    *)

BecomesDue(i) ==
  /\ Active(i) /\ ~ due[i]
  /\ due' = [due EXCEPT ![i] = TRUE]
  /\ UNCHANGED <<settings, actorVars, state, client, worker, manual, bornIn,
                 today, tx>>

StartBecomesDue ==
  /\ ~ settings.start
  /\ settings' = [settings EXCEPT !.start = TRUE]
  /\ UNCHANGED <<actorVars, scenarioVars, tx>>

Midnight ==
  /\ today # {}
  /\ today' = {}
  /\ UNCHANGED <<settings, actorVars, state, client, worker, manual, bornIn,
                 due, tx>>

-----------------------------------------------------------------------------
Command(t) ==
  \/ Start(t) \/ Pause(t) \/ Stop(t) \/ Provision(t)
  \/ \E max \in Limits, daily \in DailyLimits : Configure(t, max, daily)
  \/ \E b \in Bots : EditProfile(t, b)
  \/ \E i \in Ids, p \in Clients \X Workers : RunOnce(t, i, p)

Time == StartBecomesDue \/ Midnight \/ \E i \in Ids : BecomesDue(i)

Next ==
  \/ \E t \in Txs : Lock(t) \/ Command(t) \/ Tick(t) \/ Abort(t)
  \/ Time

Spec == Init /\ [][Next]_vars

\* @Interval(5000) runs on every replica: it gets the lock again and again,
\* and does not fail every time; and time passes.
FairSpec ==
  /\ Spec
  /\ \A t \in Txs : SF_vars(Lock(t)) /\ SF_vars(Tick(t))
  /\ \A i \in Ids : WF_vars(BecomesDue(i))

-----------------------------------------------------------------------------
(* Properties                                                              *)

\* No bot is in two active scenarios. The unique indexes one_active_client and
\* one_active_worker are not part of the model: they never have to refuse.
OneJobPerBot ==
  \A i, j \in Ids :
    /\ Active(i) /\ Active(j)
    /\ client[i] = client[j] \/ worker[i] = worker[j]
    => i = j

\* Stop is a fence: nothing of an earlier generation is active, so no tick
\* that was in flight goes on with it.
NothingOutlivesItsGeneration ==
  \A i \in Ids : Active(i) => bornIn[i] = settings.generation

\* A scenario the engine started is active only while the engine runs or
\* waits for it: none is left behind by a pause.
EngineWaitsForItsOwn ==
  \A i \in Ids :
    Active(i) /\ ~ manual[i] => settings.engine \in {"running", "pausing"}

\* Manual and automatic scenarios together keep the limit, which may be
\* changed between them but not under them.
WithinLimit == Cardinality(ActiveIn(state)) <= settings.max

\* The map shows where people are: the client of an active scenario at its
\* site, and the worker from the arrival on. Provisioning again, and starting
\* other scenarios, moves nobody who works.
EverybodyIsInPlace ==
  \A i \in Ids :
    /\ Active(i) => place[client[i]] = i
    /\ state[i] \in {"arrived", "confirmed"} => place[worker[i]] = i

\* A scenario takes the stages in order or is cancelled, and a finished one is
\* left alone, also by the ticks that saw it active.
StagesInOrder ==
  [][\A i \in Ids :
       state'[i] # state[i] =>
         \/ state[i] = "none" /\ state'[i] = "published"
         \/ state[i] \in Stages /\ state'[i] \in {NextState[state[i]],
                                                  "cancelled"}]_vars

\* Every scenario ends, in whatever state the engine is, and so does a pause.
ScenariosEnd ==
  /\ \A i \in Ids : Active(i) ~> ~ Active(i)
  /\ settings.engine = "pausing" ~> settings.engine # "pausing"
=============================================================================
