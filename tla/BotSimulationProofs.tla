------------------------- MODULE BotSimulationProofs -------------------------
(***************************************************************************)
(* Theorems about BotSimulation for every set of bots, of scenarios and of *)
(* transactions in flight.                                                 *)
(***************************************************************************)
EXTENDS BotSimulation, FiniteSetTheorems, TLAPS

\* An active scenario has its actors.
ActorsAreNamed ==
  \A i \in Ids : Active(i) => client[i] \in Clients /\ worker[i] \in Workers

\* The lock: one transaction is in flight, and what it has read still holds,
\* but for the start that may have become due.
LockHolds ==
  \A t \in Txs : tx[t].open =>
    /\ \A u \in Txs : tx[u].open => u = t
    /\ tx[t].row.engine = settings.engine
    /\ tx[t].row.generation = settings.generation
    /\ tx[t].row.max = settings.max
    /\ \A i \in Ids : tx[t].seen[i] # "none" => state[i] = tx[t].seen[i]

Typed == TypeOK /\ ActorsAreNamed

Safe ==
  /\ OneJobPerBot /\ NothingOutlivesItsGeneration /\ EngineWaitsForItsOwn
  /\ WithinLimit /\ EverybodyIsInPlace

IInv == Typed /\ LockHolds /\ Safe

USE BoundsAreNatural, PairsArePairs, IdsAreFinite, RolesAreApart, NoneIsNothing
USE DEF actorVars, scenarioVars, Bots, Engine, Limits, Settings, Finished,
        Stages, States, NextState, Active, Tx

-----------------------------------------------------------------------------
(* Types *)

LEMMA DefaultsTyped == DefaultRow \in Settings /\ Closed \in Tx
<1>1. DefaultRow \in Settings
  BY DEF DefaultRow
<1> QED  BY <1>1 DEF Closed

LEMMA InitTyped == Init => Typed
<1> SUFFICES ASSUME Init PROVE Typed
  OBVIOUS
<1>1. settings \in Settings /\ tx \in [Txs -> Tx]
  BY DefaultsTyped DEF Init
<1>2. ActorsAreNamed
  BY DEF Init, ActorsAreNamed
<1>3. /\ provisioned \in BOOLEAN /\ pairs \in SUBSET (Clients \X Workers)
      /\ place \in [Bots -> Ids \cup {None}] /\ state \in [Ids -> States]
      /\ client \in [Ids -> Clients \cup {None}]
      /\ worker \in [Ids -> Workers \cup {None}]
  BY DEF Init
<1>4. /\ manual \in [Ids -> BOOLEAN] /\ bornIn \in [Ids -> Nat]
      /\ due \in [Ids -> BOOLEAN] /\ today \in SUBSET Ids
  BY DEF Init
<1> QED  BY <1>1, <1>2, <1>3, <1>4 DEF Typed, TypeOK

\* A transaction that ends leaves nothing behind.
LEMMA EndTyped ==
  ASSUME Typed, NEW t \in Txs, End(t)
  PROVE  tx' \in [Txs -> Tx]
BY DefaultsTyped DEF Typed, TypeOK, End

LEMMA LockTyped ==
  ASSUME Typed, NEW t \in Txs, Lock(t) \/ Abort(t)
  PROVE  Typed'
<1>1. CASE Lock(t)
  <2>1. [i \in Ids |-> IF Due(i) THEN state[i] ELSE "none"]
          \in [Ids -> {"none"} \cup Stages]
    BY DEF Typed, TypeOK, Due
  <2>2. tx' \in [Txs -> Tx]
    BY <1>1, <2>1 DEF Lock, Typed, TypeOK
  <2> QED  BY <1>1, <2>2 DEF Lock, Typed, TypeOK, ActorsAreNamed
<1>2. CASE Abort(t)
  BY <1>2, EndTyped DEF Abort, Typed, TypeOK, ActorsAreNamed
<1> QED  BY <1>1, <1>2

LEMMA EditTyped ==
  ASSUME Typed, NEW t \in Txs,
         \/ Provision(t)
         \/ \E max \in Limits, daily \in DailyLimits : Configure(t, max, daily)
         \/ \E b \in Bots : EditProfile(t, b)
  PROVE  Typed'
<1>1. CASE Provision(t)
  BY <1>1, EndTyped DEF Typed, TypeOK, ActorsAreNamed, Provision
<1>2. CASE \E max \in Limits, daily \in DailyLimits : Configure(t, max, daily)
  <2>1. settings' \in Settings
    BY <1>2 DEF Typed, TypeOK, Configure
  <2>2. tx' \in [Txs -> Tx]
    BY <1>2, EndTyped DEF Configure
  <2>3. place' \in [Bots -> Ids \cup {None}]
    BY <1>2 DEF Configure
  <2>4. ActorsAreNamed'
    BY <1>2 DEF Typed, ActorsAreNamed, Configure
  <2>5. UNCHANGED <<provisioned, pairs, state, client, worker, manual, bornIn,
                    due, today>>
    BY <1>2 DEF Configure
  <2> QED  BY <2>1, <2>2, <2>3, <2>4, <2>5 DEF Typed, TypeOK
<1>3. CASE \E b \in Bots : EditProfile(t, b)
  BY <1>3, EndTyped DEF Typed, TypeOK, ActorsAreNamed, EditProfile
<1> QED  BY <1>1, <1>2, <1>3

LEMMA ControlTyped ==
  ASSUME Typed, NEW t \in Txs, Start(t) \/ Pause(t) \/ Stop(t)
  PROVE  Typed'
<1>1. CASE Start(t)
  BY <1>1, EndTyped DEF Typed, TypeOK, ActorsAreNamed, Start
<1>2. CASE Pause(t)
  BY <1>2, EndTyped DEF Typed, TypeOK, ActorsAreNamed, Pause
<1>3. CASE Stop(t)
  <2>1. settings' \in Settings
    <3>1. settings \in Settings /\ settings.generation + 1 \in Nat
      BY DEF Typed, TypeOK
    <3>2. settings' = [settings EXCEPT !.engine = "off", !.start = TRUE,
                         !.generation = settings.generation + 1]
      BY <1>3 DEF Stop
    <3> QED  BY <3>1, <3>2
  <2>2. tx' \in [Txs -> Tx]
    BY <1>3, EndTyped DEF Stop
  <2>3. state' \in [Ids -> States]
    <3>1. state \in [Ids -> States]
      BY DEF Typed, TypeOK
    <3>2. state' = [i \in Ids |-> IF state[i] \in Stages THEN "cancelled"
                                                        ELSE state[i]]
      BY <1>3 DEF Stop
    <3> QED  BY <3>1, <3>2
  <2>4. ActorsAreNamed'
    BY <1>3 DEF Typed, ActorsAreNamed, Stop
  <2>5. UNCHANGED <<provisioned, pairs, place, client, worker, manual, bornIn,
                    due, today>>
    BY <1>3 DEF Stop
  <2>6. /\ pairs' \in SUBSET (Clients \X Workers)
        /\ place' \in [Bots -> Ids \cup {None}]
        /\ client' \in [Ids -> Clients \cup {None}]
        /\ worker' \in [Ids -> Workers \cup {None}]
        /\ bornIn' \in [Ids -> Nat]
    BY <2>5 DEF Typed, TypeOK
  <2>7. /\ provisioned' \in BOOLEAN /\ manual' \in [Ids -> BOOLEAN]
        /\ due' \in [Ids -> BOOLEAN] /\ today' \in SUBSET Ids
    BY <2>5 DEF Typed, TypeOK
  <2> QED  BY <2>1, <2>2, <2>3, <2>4, <2>6, <2>7 DEF Typed, TypeOK
<1> QED  BY <1>1, <1>2, <1>3

LEMMA CreateTyped ==
  ASSUME Typed, NEW row \in Settings, NEW st \in [Ids -> States],
         NEW onSite \in [Bots -> Ids \cup {None}],
         \A j \in Ids : st[j] \in Stages => Active(j),
         NEW i \in Ids, NEW p \in Clients \X Workers, NEW m \in BOOLEAN,
         CreateScenario(row, st, onSite, i, p, m)
  PROVE  /\ state' \in [Ids -> States] /\ place' \in [Bots -> Ids \cup {None}]
         /\ client' \in [Ids -> Clients \cup {None}]
         /\ worker' \in [Ids -> Workers \cup {None}]
         /\ manual' \in [Ids -> BOOLEAN] /\ bornIn' \in [Ids -> Nat]
         /\ today' \in SUBSET Ids
         /\ ActorsAreNamed'
<1>1. p[1] \in Clients /\ p[2] \in Workers
  OBVIOUS
<1> QED  BY <1>1 DEF Typed, TypeOK, ActorsAreNamed, CreateScenario

LEMMA RunOnceTyped ==
  ASSUME Typed, NEW t \in Txs, NEW i \in Ids, NEW p \in Clients \X Workers,
         RunOnce(t, i, p)
  PROVE  Typed'
<1>1. tx[t].row \in Settings
  BY DEF Typed, TypeOK, RunOnce
<1>2. CreateScenario(tx[t].row, state, place, i, p, TRUE)
  BY DEF RunOnce
<1>3. ActorsAreNamed' /\ state' \in [Ids -> States]
  BY <1>1, <1>2, CreateTyped DEF Typed, TypeOK
<1>4. /\ place' \in [Bots -> Ids \cup {None}] /\ today' \in SUBSET Ids
      /\ client' \in [Ids -> Clients \cup {None}]
      /\ worker' \in [Ids -> Workers \cup {None}]
      /\ manual' \in [Ids -> BOOLEAN] /\ bornIn' \in [Ids -> Nat]
  BY <1>1, <1>2, CreateTyped DEF Typed, TypeOK
<1>5. tx' \in [Txs -> Tx]
  BY EndTyped DEF RunOnce
<1> QED  BY <1>3, <1>4, <1>5 DEF RunOnce, Typed, TypeOK

\* What a tick does to the scenarios it moves.
LEMMA TickMoves ==
  ASSUME Typed, LockHolds, NEW t \in Txs, tx[t].open
  PROVE  /\ tx[t].row \in Settings
         /\ Advanced(t) \in [Ids -> States]
         /\ Arrived(t) \in [Bots -> Ids \cup {None}]
         /\ Rescheduled(t) \in [Ids -> BOOLEAN]
         /\ \A i \in Ids :
              \/ Advanced(t)[i] = state[i]
              \/ state[i] \in Stages /\ Advanced(t)[i] = NextState[state[i]]
<1>1. tx[t].row \in Settings /\ tx[t].seen \in [Ids -> {"none"} \cup Stages]
  BY DEF Typed, TypeOK
<1>2. Advanced(t) \in [Ids -> States]
  BY <1>1 DEF Advanced, Typed, TypeOK
<1>3. Arrived(t) \in [Bots -> Ids \cup {None}]
  BY DEF Arrived, Typed, TypeOK
<1>4. Rescheduled(t) \in [Ids -> BOOLEAN]
  BY DEF Rescheduled, Typed, TypeOK
<1>5. ASSUME NEW i \in Ids
      PROVE  \/ Advanced(t)[i] = state[i]
             \/ state[i] \in Stages /\ Advanced(t)[i] = NextState[state[i]]
  BY <1>1 DEF Advanced, LockHolds
<1> QED  BY <1>1, <1>2, <1>3, <1>4, <1>5

LEMMA TickTyped ==
  ASSUME Typed, LockHolds, NEW t \in Txs, Tick(t)
  PROVE  Typed'
<1> DEFINE st == Advanced(t)
           at == Arrived(t)
<1>1. /\ tx[t].row \in Settings /\ st \in [Ids -> States]
      /\ at \in [Bots -> Ids \cup {None}] /\ due' \in [Ids -> BOOLEAN]
      /\ \A i \in Ids : st[i] \in Stages => Active(i)
  BY TickMoves DEF Tick
<1>2. settings' \in Settings
  BY DEF Tick, Typed, TypeOK
<1>3. tx' \in [Txs -> Tx]
  BY EndTyped DEF Tick
<1>4. provisioned' \in BOOLEAN /\ pairs' \in SUBSET (Clients \X Workers)
  BY DEF Tick, Typed, TypeOK
<1>5. ASSUME NEW i \in Ids, NEW p \in Clients \X Workers,
             CreateScenario(tx[t].row, st, at, i, p, FALSE)
      PROVE  Typed'
  <2>1. ActorsAreNamed' /\ state' \in [Ids -> States]
    BY <1>1, <1>5, CreateTyped DEF Typed, TypeOK
  <2>2. /\ place' \in [Bots -> Ids \cup {None}] /\ today' \in SUBSET Ids
        /\ client' \in [Ids -> Clients \cup {None}]
        /\ worker' \in [Ids -> Workers \cup {None}]
        /\ manual' \in [Ids -> BOOLEAN] /\ bornIn' \in [Ids -> Nat]
    BY <1>1, <1>5, CreateTyped DEF Typed, TypeOK
  <2> QED  BY <1>1, <1>2, <1>3, <1>4, <2>1, <2>2 DEF Typed, TypeOK
<1>6. ASSUME state' = st, place' = at,
             UNCHANGED <<client, worker, manual, bornIn, today>>
      PROVE  Typed'
  <2>1. ActorsAreNamed'
    BY <1>1, <1>6 DEF Typed, ActorsAreNamed
  <2> QED  BY <1>1, <1>2, <1>3, <1>4, <1>6, <2>1 DEF Typed, TypeOK
<1> QED  BY <1>5, <1>6 DEF Tick

LEMMA TimeTyped ==
  ASSUME Typed, Time
  PROVE  Typed'
<1>1. CASE StartBecomesDue
  BY <1>1 DEF StartBecomesDue, Typed, TypeOK, ActorsAreNamed
<1>2. CASE Midnight
  BY <1>2 DEF Midnight, Typed, TypeOK, ActorsAreNamed
<1>3. CASE \E i \in Ids : BecomesDue(i)
  BY <1>3 DEF BecomesDue, Typed, TypeOK, ActorsAreNamed
<1> QED  BY <1>1, <1>2, <1>3 DEF Time

LEMMA CommandTyped ==
  ASSUME Typed, NEW t \in Txs, Command(t)
  PROVE  Typed'
BY EditTyped, ControlTyped, RunOnceTyped DEF Command

-----------------------------------------------------------------------------
(* The lock *)

LEMMA EndUnlocks ==
  ASSUME Typed, LockHolds, NEW t \in Txs, tx[t].open, End(t)
  PROVE  LockHolds'
<1>1. \A u \in Txs : ~ tx'[u].open
  BY DEF End, Closed, LockHolds, Typed, TypeOK
<1> QED  BY <1>1 DEF LockHolds

LEMMA CommandUnlocks ==
  ASSUME Typed, LockHolds, NEW t \in Txs, Command(t) \/ Tick(t) \/ Abort(t)
  PROVE  LockHolds'
<1>1. tx[t].open /\ End(t)
  BY DEF Command, Start, Pause, Stop, Provision, Configure, EditProfile,
         RunOnce, Tick, Abort
<1> QED  BY <1>1, EndUnlocks

LEMMA LockLocks ==
  ASSUME Typed, NEW t \in Txs, Lock(t)
  PROVE  LockHolds'
<1>1. \A u \in Txs : tx'[u].open => u = t
  BY DEF Lock, LockFree, Typed, TypeOK
<1>2. /\ tx'[t].row = settings'
      /\ \A i \in Ids : tx'[t].seen[i] # "none" => state'[i] = tx'[t].seen[i]
  BY DEF Lock, Typed, TypeOK
<1> QED  BY <1>1, <1>2 DEF LockHolds

LEMMA TimeKeepsLock ==
  ASSUME Typed, LockHolds, Time
  PROVE  LockHolds'
BY DEF Time, StartBecomesDue, Midnight, BecomesDue, LockHolds, Typed, TypeOK

-----------------------------------------------------------------------------
(* Safety *)

\* OneJobPerBot, NothingOutlivesItsGeneration and EverybodyIsInPlace, of
\* states st and places `at` that a transaction is still working on.
SafeWith(st, at) ==
  /\ \A i, j \in Ids :
       /\ st[i] \in Stages /\ st[j] \in Stages
       /\ client[i] = client[j] \/ worker[i] = worker[j]
       => i = j
  /\ \A i \in Ids : st[i] \in Stages =>
       /\ client[i] \in Clients /\ worker[i] \in Workers
       /\ bornIn[i] = settings.generation
       /\ at[client[i]] = i
  /\ \A i \in Ids : st[i] \in {"arrived", "confirmed"} => at[worker[i]] = i

LEMMA SafeNow == ASSUME Typed, Safe PROVE SafeWith(state, place)
BY DEF Typed, ActorsAreNamed, Safe, SafeWith, OneJobPerBot,
       NothingOutlivesItsGeneration, EverybodyIsInPlace

LEMMA ActiveIsFinite ==
  ASSUME NEW st
  PROVE  IsFiniteSet(ActiveIn(st)) /\ Cardinality(ActiveIn(st)) \in Nat
BY FS_Subset, FS_CardinalityType DEF ActiveIn

\* A transaction that changes neither actors nor scenarios, and not the limit.
LEMMA Frame ==
  ASSUME Safe, UNCHANGED <<place, state, client, worker, manual, bornIn>>,
         settings'.generation = settings.generation,
         settings'.max = settings.max,
         \/ settings'.engine = settings.engine
         \/ settings'.engine \in {"running", "pausing"}
         \/ ActiveIn(state) = {}
  PROVE  Safe'
<1>1. OneJobPerBot' /\ NothingOutlivesItsGeneration' /\ EverybodyIsInPlace'
  BY DEF Safe, OneJobPerBot, NothingOutlivesItsGeneration, EverybodyIsInPlace
<1>2. WithinLimit'
  BY DEF Safe, WithinLimit, ActiveIn
<1>3. EngineWaitsForItsOwn'
  BY DEF Safe, EngineWaitsForItsOwn, ActiveIn
<1> QED  BY <1>1, <1>2, <1>3 DEF Safe

\* A transaction that leaves no scenario active.
LEMMA NoneActive ==
  ASSUME Typed', ActiveIn(state') = {}
  PROVE  Safe'
<1>1. \A i \in Ids : ~ Active(i)'
  BY DEF ActiveIn
<1>2. Cardinality(ActiveIn(state')) = 0 /\ settings'.max \in Limits
  BY FS_EmptySet DEF Typed, TypeOK
<1>3. WithinLimit'
  BY <1>2 DEF WithinLimit
<1> QED
  BY <1>1, <1>3 DEF Safe, OneJobPerBot, NothingOutlivesItsGeneration,
                    EngineWaitsForItsOwn, EverybodyIsInPlace

LEMMA CreateSafe ==
  ASSUME Typed, Typed', NEW row, row.max = settings.max,
         row.generation = settings.generation,
         settings'.max = settings.max,
         settings'.generation = settings.generation,
         NEW st \in [Ids -> States], NEW at \in [Bots -> Ids \cup {None}],
         SafeWith(st, at),
         NEW i \in Ids, NEW p \in Clients \X Workers, NEW m \in BOOLEAN,
         CreateScenario(row, st, at, i, p, m)
  PROVE  OneJobPerBot' /\ NothingOutlivesItsGeneration' /\ WithinLimit'
           /\ EverybodyIsInPlace'
<1>1. p[1] \in Clients /\ p[2] \in Workers
  OBVIOUS
<1>2. /\ state' = [st EXCEPT ![i] = "published"] /\ st[i] = "none"
      /\ client' = [client EXCEPT ![i] = p[1]]
      /\ worker' = [worker EXCEPT ![i] = p[2]]
      /\ place' = [at EXCEPT ![p[1]] = i, ![p[2]] = None]
      /\ bornIn' = [bornIn EXCEPT ![i] = settings.generation]
  BY DEF CreateScenario
<1>3. \A j \in Ids : st[j] \in Stages =>
        /\ client[j] # p[1] /\ worker[j] # p[2]
        /\ client[j] # p[2] /\ worker[j] # p[1]
  BY <1>1 DEF CreateScenario, Free, ActiveIn, SafeWith
<1>4. OneJobPerBot'
  BY <1>1, <1>2, <1>3 DEF OneJobPerBot, SafeWith, Typed, TypeOK
<1>5. NothingOutlivesItsGeneration'
  BY <1>2 DEF NothingOutlivesItsGeneration, SafeWith, Typed, TypeOK
<1>6. EverybodyIsInPlace'
  BY <1>1, <1>2, <1>3 DEF EverybodyIsInPlace, SafeWith, Typed, TypeOK
<1>7. WithinLimit'
  <2>1. ActiveIn(state') = ActiveIn(st) \cup {i} /\ i \notin ActiveIn(st)
    BY <1>2 DEF ActiveIn
  <2>2. Cardinality(ActiveIn(state')) = Cardinality(ActiveIn(st)) + 1
    BY <2>1, ActiveIsFinite, FS_AddElement
  <2>3. Cardinality(ActiveIn(st)) < settings.max /\ settings.max \in Limits
    BY DEF CreateScenario, Typed, TypeOK
  <2> QED  BY <2>2, <2>3, ActiveIsFinite DEF WithinLimit
<1> QED  BY <1>4, <1>5, <1>6, <1>7

\* The scenarios that a tick moves.
LEMMA AdvanceSafe ==
  ASSUME Typed, LockHolds, Safe, NEW t \in Txs, tx[t].open
  PROVE  SafeWith(Advanced(t), Arrived(t))
<1>1. SafeWith(state, place)
  BY SafeNow
<1>2. /\ Advanced(t) \in [Ids -> States]
      /\ \A i \in Ids :
           \/ Advanced(t)[i] = state[i]
           \/ state[i] \in Stages /\ Advanced(t)[i] = NextState[state[i]]
  BY TickMoves
<1>3. \A i \in Ids : Advanced(t)[i] \in Stages => Active(i)
  BY <1>2
<1>4. \A i \in Ids : tx[t].seen[i] = "en_route" => state[i] = "en_route"
  BY DEF LockHolds
<1>5. ASSUME NEW i \in Ids, Active(i)
      PROVE  Arrived(t)[client[i]] = i
  <2>1. client[i] \in Bots /\ place[client[i]] = i
    BY <1>1, <1>5 DEF SafeWith
  <2>2. \A j \in Ids : ~ (worker[j] = client[i] /\ tx[t].seen[j] = "en_route")
    BY <1>1, <1>4, <1>5 DEF SafeWith
  <2> QED  BY <2>1, <2>2 DEF Arrived
<1>6. ASSUME NEW i \in Ids, Advanced(t)[i] \in {"arrived", "confirmed"}
      PROVE  Arrived(t)[worker[i]] = i
  <2>1. Active(i) /\ worker[i] \in Bots
    BY <1>1, <1>3, <1>6 DEF SafeWith
  <2>2. \A j \in Ids :
          worker[j] = worker[i] /\ tx[t].seen[j] = "en_route" => j = i
    BY <1>1, <1>4, <2>1 DEF SafeWith
  <2>3. CASE tx[t].seen[i] = "en_route"
    BY <2>1, <2>2, <2>3 DEF Arrived
  <2>4. CASE tx[t].seen[i] # "en_route"
    <3>1. state[i] \in {"arrived", "confirmed"}
      BY <1>6, <2>1, <2>4 DEF Advanced, LockHolds
    <3>2. place[worker[i]] = i
      BY <1>1, <3>1 DEF SafeWith
    <3> QED  BY <2>1, <2>2, <2>4, <3>2 DEF Arrived
  <2> QED  BY <2>3, <2>4
<1> QED  BY <1>1, <1>3, <1>5, <1>6 DEF SafeWith

LEMMA TickSafe ==
  ASSUME Typed, Typed', LockHolds, Safe, NEW t \in Txs, Tick(t)
  PROVE  Safe'
<1> DEFINE st == Advanced(t)
           at == Arrived(t)
<1>1. /\ tx[t].open
      /\ settings'.max = settings.max
      /\ settings'.generation = settings.generation
      /\ tx[t].row.engine = settings.engine
      /\ tx[t].row.max = settings.max
      /\ tx[t].row.generation = settings.generation
  BY DEF Tick, LockHolds, Typed, TypeOK
<1>2. /\ SafeWith(st, at)
      /\ st \in [Ids -> States] /\ at \in [Bots -> Ids \cup {None}]
      /\ \A i \in Ids : st[i] \in Stages => Active(i)
  BY <1>1, AdvanceSafe, TickMoves
<1>3. \/ settings'.engine = settings.engine
      \/ settings'.engine = "paused" /\ ActiveIn(st) = {}
           /\ settings.engine = "pausing"
  BY <1>1 DEF Tick, Typed, TypeOK
<1>4. ASSUME NEW i \in Ids, NEW p \in Clients \X Workers,
             tx[t].row.engine = "running",
             CreateScenario(tx[t].row, st, at, i, p, FALSE)
      PROVE  Safe'
  <2>1. OneJobPerBot' /\ NothingOutlivesItsGeneration' /\ WithinLimit'
          /\ EverybodyIsInPlace'
    BY <1>1, <1>2, <1>4, CreateSafe
  <2>2. settings'.engine = "running"
    BY <1>1, <1>3, <1>4
  <2> QED  BY <2>1, <2>2 DEF Safe, EngineWaitsForItsOwn
<1>5. ASSUME state' = st, place' = at,
             UNCHANGED <<client, worker, manual, bornIn, today>>
      PROVE  Safe'
  <2>1. OneJobPerBot'
    BY <1>2, <1>5 DEF SafeWith, OneJobPerBot
  <2>2. NothingOutlivesItsGeneration'
    BY <1>1, <1>2, <1>5 DEF SafeWith, NothingOutlivesItsGeneration
  <2>3. EverybodyIsInPlace'
    BY <1>2, <1>5 DEF SafeWith, EverybodyIsInPlace
  <2>4. EngineWaitsForItsOwn'
    BY <1>2, <1>3, <1>5 DEF Safe, EngineWaitsForItsOwn, ActiveIn
  <2>5. WithinLimit'
    <3>1. ActiveIn(state') \subseteq ActiveIn(state)
      BY <1>2, <1>5 DEF ActiveIn
    <3>2. Cardinality(ActiveIn(state')) <= Cardinality(ActiveIn(state))
      BY <3>1, ActiveIsFinite, FS_Subset
    <3>3. settings.max \in Limits
      BY DEF Typed, TypeOK
    <3> QED
      BY <1>1, <3>2, <3>3, ActiveIsFinite DEF Safe, WithinLimit
  <2> QED  BY <2>1, <2>2, <2>3, <2>4, <2>5 DEF Safe
<1> QED  BY <1>4, <1>5 DEF Tick

LEMMA CommandSafe ==
  ASSUME Typed, Typed', LockHolds, Safe, NEW t \in Txs, Command(t)
  PROVE  Safe'
<1>1. CASE Start(t)
  <2>1. /\ settings'.engine = "running" /\ settings'.max = settings.max
        /\ settings'.generation = settings.generation
    BY <1>1 DEF Start, Typed, TypeOK
  <2> QED  BY <1>1, <2>1, Frame DEF Start
<1>2. CASE Pause(t)
  <2>1. /\ settings'.max = settings.max
        /\ settings'.generation = settings.generation
        /\ settings'.engine = "pausing" \/ ActiveIn(state) = {}
    BY <1>2 DEF Pause, Typed, TypeOK
  <2> QED  BY <1>2, <2>1, Frame DEF Pause
<1>3. CASE Stop(t)
  <2>1. ActiveIn(state') = {}
    BY <1>3 DEF Stop, ActiveIn
  <2> QED  BY <2>1, NoneActive
<1>4. CASE Provision(t)
  <2>1. CASE place' = place
    BY <1>4, <2>1, Frame DEF Provision
  <2>2. CASE ActiveIn(state) = {}
    BY <1>4, <2>2, NoneActive DEF Provision
  <2> QED  BY <1>4, <2>1, <2>2 DEF Provision, Editable
<1>5. CASE \E max \in Limits, daily \in DailyLimits : Configure(t, max, daily)
  BY <1>5, NoneActive DEF Configure, Editable
<1>6. CASE \E b \in Bots : EditProfile(t, b)
  BY <1>6, NoneActive DEF EditProfile, Editable
<1>7. ASSUME NEW i \in Ids, NEW p \in Clients \X Workers, RunOnce(t, i, p)
      PROVE  Safe'
  <2>1. /\ tx[t].row.max = settings.max /\ UNCHANGED settings
        /\ tx[t].row.generation = settings.generation
        /\ CreateScenario(tx[t].row, state, place, i, p, TRUE)
        /\ state \in [Ids -> States] /\ place \in [Bots -> Ids \cup {None}]
    BY <1>7 DEF RunOnce, LockHolds, Typed, TypeOK
  <2>2. OneJobPerBot' /\ NothingOutlivesItsGeneration' /\ WithinLimit'
          /\ EverybodyIsInPlace'
    BY <2>1, SafeNow, CreateSafe
  <2>3. EngineWaitsForItsOwn'
    BY <2>1 DEF CreateScenario, Safe, EngineWaitsForItsOwn, Typed, TypeOK
  <2> QED  BY <2>2, <2>3 DEF Safe
<1> QED
  BY <1>1, <1>2, <1>3, <1>4, <1>5, <1>6, <1>7 DEF Command

LEMMA OtherSafe ==
  ASSUME Typed, Safe,
         \/ \E t \in Txs : Lock(t) \/ Abort(t)
         \/ Time
         \/ UNCHANGED vars
  PROVE  Safe'
<1>1. /\ UNCHANGED <<place, state, client, worker, manual, bornIn>>
      /\ settings'.engine = settings.engine /\ settings'.max = settings.max
      /\ settings'.generation = settings.generation
  BY DEF Lock, Abort, Time, StartBecomesDue, Midnight, BecomesDue, vars,
         Typed, TypeOK
<1> QED  BY <1>1, Frame

-----------------------------------------------------------------------------
(* The theorems *)

THEOREM Invariance == Spec => []IInv
<1>1. Init => IInv
  <2> SUFFICES ASSUME Init PROVE IInv
    OBVIOUS
  <2>1. LockHolds
    BY DEF Init, LockHolds, Closed
  <2>2. \A i \in Ids : state[i] = "none"
    BY DEF Init
  <2>3. ActiveIn(state) = {}
    BY <2>2 DEF ActiveIn
  <2>4. WithinLimit
    <3>1. Cardinality(ActiveIn(state)) = 0
      BY <2>3, FS_EmptySet
    <3>2. settings.max = MaxLimit
      BY DEF Init, DefaultRow
    <3> QED  BY <3>1, <3>2 DEF WithinLimit
  <2> QED
    BY <2>1, <2>2, <2>4, InitTyped
    DEF IInv, Safe, OneJobPerBot, NothingOutlivesItsGeneration,
        EngineWaitsForItsOwn, EverybodyIsInPlace
<1>2. IInv /\ [Next]_vars => IInv'
  <2> SUFFICES ASSUME IInv, [Next]_vars PROVE IInv'
    OBVIOUS
  <2>1. Typed'
    <3>1. CASE UNCHANGED vars
      BY <3>1 DEF IInv, vars, Typed, TypeOK, ActorsAreNamed
    <3> QED
      BY <3>1, LockTyped, CommandTyped, TickTyped, TimeTyped DEF IInv, Next
  <2>2. LockHolds'
    <3>1. CASE UNCHANGED vars
      BY <3>1 DEF IInv, vars, LockHolds
    <3> QED
      BY <3>1, LockLocks, CommandUnlocks, TimeKeepsLock DEF IInv, Next
  <2>3. Safe'
    BY <2>1, CommandSafe, TickSafe, OtherSafe DEF IInv, Next
  <2> QED  BY <2>1, <2>2, <2>3 DEF IInv
<1> QED  BY <1>1, <1>2, PTL DEF Spec

\* The simulation's state always has its types.
THEOREM TypeCorrect == Spec => []TypeOK
<1>1. IInv => TypeOK
  BY DEF IInv, Typed
<1> QED  BY <1>1, Invariance, PTL

\* A bot never plays in two scenarios, whatever runs on how many replicas.
THEOREM BotsAreReserved == Spec => []OneJobPerBot
<1>1. IInv => OneJobPerBot
  BY DEF IInv, Safe
<1> QED  BY <1>1, Invariance, PTL

\* After a stop nothing of the old generation is active, nor becomes so.
THEOREM StopIsAFence == Spec => []NothingOutlivesItsGeneration
<1>1. IInv => NothingOutlivesItsGeneration
  BY DEF IInv, Safe
<1> QED  BY <1>1, Invariance, PTL

\* No automatic scenario is left behind by an engine that is off or paused.
THEOREM NoneIsLeftBehind == Spec => []EngineWaitsForItsOwn
<1>1. IInv => EngineWaitsForItsOwn
  BY DEF IInv, Safe
<1> QED  BY <1>1, Invariance, PTL

\* The limit of simultaneous scenarios holds.
THEOREM LimitIsKept == Spec => []WithinLimit
<1>1. IInv => WithinLimit
  BY DEF IInv, Safe
<1> QED  BY <1>1, Invariance, PTL

\* Clients of active scenarios, and workers who arrived, are on their site.
THEOREM PlacesAreRight == Spec => []EverybodyIsInPlace
<1>1. IInv => EverybodyIsInPlace
  BY DEF IInv, Safe
<1> QED  BY <1>1, Invariance, PTL

\* What StagesInOrder says of one step.
InOrder ==
  \A i \in Ids :
    state'[i] # state[i] =>
      \/ state[i] = "none" /\ state'[i] = "published"
      \/ state[i] \in Stages /\ state'[i] \in {NextState[state[i]], "cancelled"}

\* A scenario takes the stages in order or is cancelled, and a finished one is
\* left alone, also by the ticks that saw it active.
THEOREM StagesAreInOrder == Spec => StagesInOrder
<1>1. ASSUME IInv, NEW t \in Txs, Tick(t) PROVE InOrder
  <2>1. /\ Advanced(t) \in [Ids -> States]
        /\ \A i \in Ids :
             \/ Advanced(t)[i] = state[i]
             \/ state[i] \in Stages /\ Advanced(t)[i] = NextState[state[i]]
    BY <1>1, TickMoves DEF IInv, Tick
  <2>2. \/ state' = Advanced(t)
        \/ \E i \in Ids : /\ Advanced(t)[i] = "none"
                          /\ state' = [Advanced(t) EXCEPT ![i] = "published"]
    BY <1>1 DEF Tick, CreateScenario
  <2> QED  BY <2>1, <2>2 DEF InOrder
<1>2. ASSUME IInv, NEW t \in Txs, Command(t) PROVE InOrder
  <2>1. state \in [Ids -> States]
    BY <1>2 DEF IInv, Typed, TypeOK
  <2>2. \/ UNCHANGED state
        \/ state' = [i \in Ids |-> IF Active(i) THEN "cancelled" ELSE state[i]]
        \/ \E i \in Ids : /\ state[i] = "none"
                          /\ state' = [state EXCEPT ![i] = "published"]
    BY <1>2 DEF Command, Start, Pause, Stop, Provision, Configure,
                EditProfile, RunOnce, CreateScenario
  <2> QED  BY <2>1, <2>2 DEF InOrder
<1>3. ASSUME Time \/ \E t \in Txs : Lock(t) \/ Abort(t) PROVE InOrder
  BY <1>3 DEF Time, StartBecomesDue, Midnight, BecomesDue, Lock, Abort, InOrder
<1>4. IInv /\ [Next]_vars => [InOrder]_vars
  BY <1>1, <1>2, <1>3 DEF Next
<1> QED  BY <1>4, Invariance, PTL DEF Spec, StagesInOrder, InOrder

=============================================================================
