------------------------- MODULE NotificationProofs -------------------------
(***************************************************************************)
(* Proofs about Waves, for every number of workers, every size of a wave   *)
(* and every limit on attempts, and about Delivery, for any users, devices *)
(* and deliveries at once and any number of attempts. The two are read     *)
(* side by side: they share no variable.                                   *)
(***************************************************************************)
EXTENDS Waves, Delivery, TLAPS

(***************************************************************************)
(* The inductive invariant of the waves                                    *)
(***************************************************************************)

\* Before the query has run there are no waves, and nothing is counted.
Fresh ==
  /\ seeding \in {"none", "query"} =>
       /\ \A k \in Indexes : stage[k] = "none"
       /\ \A w \in Workers : wave[w] = NoWave
  /\ \A k \in Indexes : stage[k] = "none" => fails[k] = 0 /\ stalls[k] = 0
  /\ \A w \in Workers : wave[w] = NoWave => rings[w] = 0

\* Waves are scheduled in order, each of them once.
Unscheduled == \A k \in Indexes : k >= next => stage[k] = "none"

\* createRequest goes on, and other waves exist, only once wave 0 is done.
FirstIsAwaited ==
  /\ seeding = "schedule" => stage[0] = "done"
  /\ seeding = "published" =>
       stage[0] = "done" \/ \A w \in Workers : wave[w] = NoWave
  /\ \A k \in Indexes \ {0} : stage[k] # "none" => stage[0] = "done"

IdsAreFixed == \A m \in inbox : m[2] = 0

\* Whoever an execution does not owe the alert any more has it or is excused.
Reached ==
  \A k \in Indexes, w \in Workers :
    wave[w] = k =>
      /\ stage[k] = "deliver" =>
           w \in todo[k] \/ w \in excused \/ <<w, 0>> \in inbox
      /\ stage[k] = "done" => w \in excused \/ <<w, 0>> \in inbox

\* A wave that may still run has attempts left, and one that is not tried
\* again has never failed.
RetriesAreCounted ==
  \A k \in Indexes : stage[k] \notin {"failed", "lost"} =>
    /\ fails[k] < MaxAttempts
    /\ k = 0 \/ queued = FALSE => fails[k] = 0 /\ stalls[k] = 0

\* One socket event for each time that an execution selected its workers.
RingsAreCounted ==
  \A k \in Indexes, w \in Workers :
    wave[w] = k =>
      /\ stage[k] \in {"none", "waiting", "read", "select"} =>
           rings[w] <= fails[k] + stalls[k]
      /\ stage[k] \in {"deliver", "done"} =>
           rings[w] <= fails[k] + stalls[k] + 1
      /\ k # 0 /\ queued = TRUE => rings[w] <= MaxAttempts + MaxStalls
      /\ k = 0 \/ queued = FALSE => rings[w] <= 1

WavesSafe ==
  /\ Fresh /\ Unscheduled /\ FirstIsAwaited /\ IdsAreFixed /\ Reached
  /\ RetriesAreCounted /\ RingsAreCounted

WavesInv == WavesTypeOK /\ WavesSafe

-----------------------------------------------------------------------------
(* The initial states                                                      *)

LEMMA ZeroIsAWave == 0 \in Indexes /\ 0 # NoWave
BY BoundsAreNatural, NoWaveIsNoIndex DEF Indexes

LEMMA WavesStart == WavesInit => WavesInv
<1> SUFFICES ASSUME WavesInit PROVE WavesInv
  OBVIOUS
<1> USE BoundsAreNatural, ZeroIsAWave
<1>1. WavesTypeOK
  BY DEF WavesInit, WavesTypeOK, Stages, Running, Ended, Busy, Ids, Indexes
<1>2. Fresh /\ Unscheduled /\ FirstIsAwaited /\ IdsAreFixed
  BY DEF WavesInit, Fresh, Unscheduled, FirstIsAwaited, IdsAreFixed
<1>3. Reached /\ RetriesAreCounted
  BY DEF WavesInit, Reached, RetriesAreCounted
<1>4. RingsAreCounted
  BY NoWaveIsNoIndex DEF WavesInit, RingsAreCounted, Indexes
<1> QED
  BY <1>1, <1>2, <1>3, <1>4 DEF WavesInv, WavesSafe

-----------------------------------------------------------------------------
(* Types are kept                                                          *)

LEMMA WavesTypeStep ==
  ASSUME WavesTypeOK, RetriesAreCounted, [WavesNext]_wavesVars PROVE WavesTypeOK'
<1> USE BoundsAreNatural, ZeroIsAWave
<1> USE DEF WavesTypeOK, Stages, Running, Ended, Busy, Ids, requestVars, seedVars,
            runVars, alertVars
<1>1. CASE CreateRequest
  BY <1>1 DEF CreateRequest
<1>2. CASE QueryWorkers
  BY <1>2 DEF QueryWorkers
<1>3. CASE SeedingFails \/ Publish
  BY <1>3 DEF SeedingFails, Publish
<1>4. CASE Schedule
  <2>1. PICK s \in {"waiting", "lost"} : stage' = [stage EXCEPT ![next] = s]
    BY <1>4 DEF Schedule
  <2>2. stage' \in [Indexes -> Stages]
    BY <2>1
  <2>3. next' \in 1..(MaxWave + 1)
    BY <1>4 DEF Schedule, Indexes
  <2> QED
    BY <1>4, <2>2, <2>3 DEF Schedule
<1>5. ASSUME NEW k \in Indexes, Start(k) PROVE WavesTypeOK'
  BY <1>5 DEF Start
<1>6. ASSUME NEW k \in Indexes, ReadStatus(k) PROVE WavesTypeOK'
  BY <1>6 DEF ReadStatus, EndWith, In
<1>7. ASSUME NEW k \in Indexes, Select(k) PROVE WavesTypeOK'
  BY <1>7 DEF Select, EndWith, In
<1>8. ASSUME NEW k \in Indexes, NEW w \in Workers, Deliver(k, w)
      PROVE WavesTypeOK'
  BY <1>8 DEF Deliver, EventId
<1>9. ASSUME NEW k \in Indexes, FinishWave(k) PROVE WavesTypeOK'
  BY <1>9 DEF FinishWave, EndWith
<1>10. ASSUME NEW k \in Indexes, Throw(k) PROVE WavesTypeOK'
  <2>1. fails[k] < MaxAttempts
    BY <1>10 DEF Throw, RetriesAreCounted
  <2>2. inbox' \in SUBSET (Workers \X Ids)
    BY <1>10 DEF Throw, EventId
  <2>3. fails' \in [Indexes -> 0..MaxAttempts]
    BY <1>10, <2>1 DEF Throw
  <2> QED
    BY <1>10, <2>2, <2>3 DEF Throw, EndWith
<1>11. ASSUME NEW k \in Indexes, Stall(k) PROVE WavesTypeOK'
  <2>1. stalls' \in [Indexes -> 0..MaxStalls]
    BY <1>11 DEF Stall
  <2> QED
    BY <1>11, <2>1 DEF Stall, EndWith
<1>12. CASE Restart
  BY <1>12 DEF Restart, Volatile
<1>13. CASE ChangeStatus
  BY <1>13 DEF ChangeStatus
<1>14. ASSUME NEW w \in Workers, ChangeWorker(w) PROVE WavesTypeOK'
  BY <1>14 DEF ChangeWorker
<1>15. CASE UNCHANGED wavesVars
  BY <1>15 DEF wavesVars
<1> QED
  BY <1>1, <1>2, <1>3, <1>4, <1>5, <1>6, <1>7, <1>8, <1>9, <1>10, <1>11,
     <1>12, <1>13, <1>14, <1>15 DEF WavesNext, Seed, Execute

-----------------------------------------------------------------------------
(* Seeding keeps the invariant                                             *)

LEMMA QueryKeepsSafe ==
  ASSUME WavesInv, QueryWorkers PROVE WavesSafe'
<1> USE DEF WavesInv, WavesSafe, QueryWorkers, runVars, alertVars, requestVars
<1> USE BoundsAreNatural, ZeroIsAWave
<1>1. /\ \A k \in Indexes : stage[k] = "none" /\ fails[k] = 0 /\ stalls[k] = 0
      /\ \A w \in Workers : rings[w] = 0
  BY DEF Fresh
<1>2. wave' \in [Workers -> Indexes \cup {NoWave}]
  OBVIOUS
<1>3. \A k \in Indexes : stage'[k] \in {"none", "read"} /\ (k # 0 => stage'[k] = "none")
  BY <1>1 DEF WavesTypeOK
<1>4. stage'[0] = "none" => seeding' = "published" /\ \A w \in Workers : wave'[w] = NoWave
  BY DEF WavesTypeOK
<1>5. Fresh'
  BY <1>1 DEF Fresh
<1>6. Unscheduled'
  BY <1>3 DEF Unscheduled, WavesTypeOK, Indexes
<1>7. FirstIsAwaited'
  BY <1>3, <1>4 DEF FirstIsAwaited
<1>8. IdsAreFixed'
  BY DEF IdsAreFixed
<1>9. Reached'
  BY <1>3 DEF Reached
<1>10. RetriesAreCounted'
  BY <1>1, <1>3 DEF RetriesAreCounted
<1>11. RingsAreCounted'
  BY <1>1, <1>3 DEF RingsAreCounted
<1> QED
  BY <1>5, <1>6, <1>7, <1>8, <1>9, <1>10, <1>11

LEMMA ScheduleKeepsSafe ==
  ASSUME WavesInv, Schedule PROVE WavesSafe'
<1> USE DEF WavesInv, WavesSafe, Schedule, alertVars, requestVars
<1> USE BoundsAreNatural, ZeroIsAWave
<1>1. PICK s \in {"waiting", "lost"} : stage' = [stage EXCEPT ![next] = s]
  OBVIOUS
<1>2. next \in Indexes /\ next \in Nat /\ next # 0 /\ stage[next] = "none"
  BY DEF WavesTypeOK, Unscheduled, Indexes
<1>3. \A k \in Indexes : stage'[k] = IF k = next THEN s ELSE stage[k]
  BY <1>1, <1>2 DEF WavesTypeOK
<1>4. Fresh'
  BY <1>2, <1>3 DEF Fresh
<1>5. Unscheduled'
  BY <1>2, <1>3 DEF Unscheduled, Indexes
<1>6. FirstIsAwaited'
  BY <1>2, <1>3 DEF FirstIsAwaited
<1>7. IdsAreFixed'
  BY DEF IdsAreFixed
<1>8. Reached'
  BY <1>2, <1>3 DEF Reached
<1>9. RetriesAreCounted'
  BY <1>2, <1>3 DEF RetriesAreCounted
<1>10. RingsAreCounted'
  BY <1>2, <1>3 DEF RingsAreCounted
<1> QED
  BY <1>4, <1>5, <1>6, <1>7, <1>8, <1>9, <1>10

\* The other steps of createRequest, and what the request and workers do.
LEMMA QuietKeepsSafe ==
  ASSUME WavesInv,
         \/ CreateRequest \/ SeedingFails \/ Publish
         \/ ChangeStatus \/ (\E w \in Workers : ChangeWorker(w))
         \/ UNCHANGED wavesVars
  PROVE  WavesSafe'
<1>1. UNCHANGED <<queued, wave, next, stage, todo, fails, stalls, rings, inbox, excused>>
  BY DEF CreateRequest, SeedingFails, Publish, ChangeStatus, ChangeWorker,
         wavesVars, requestVars, seedVars, runVars, alertVars
<1>2. \/ seeding' = seeding
      \/ seeding = "none" /\ seeding' = "query"
      \/ seeding = "query" /\ seeding' = "failed"
      \/ seeding = "schedule" /\ seeding' = "published"
  BY DEF CreateRequest, SeedingFails, Publish, ChangeStatus, ChangeWorker,
         wavesVars, requestVars, seedVars, runVars, alertVars
<1> USE <1>1, <1>2 DEF WavesInv, WavesSafe
<1>3. Fresh' /\ Unscheduled' /\ IdsAreFixed'
  BY DEF Fresh, Unscheduled, IdsAreFixed
<1>4. FirstIsAwaited'
  BY DEF FirstIsAwaited
<1>5. Reached' /\ RetriesAreCounted' /\ RingsAreCounted'
  BY DEF Reached, RetriesAreCounted, RingsAreCounted
<1> QED
  BY <1>3, <1>4, <1>5

-----------------------------------------------------------------------------
(* The execution of a wave keeps the invariant                             *)

\* What an execution leaves alone, and what it needs of the wave it runs.
LEMMA Underway ==
  ASSUME WavesInv, NEW k \in Indexes, stage[k] \in {"waiting"} \cup Running
  PROVE  /\ k < next \/ k = 0
         /\ k \in Nat
         /\ k # 0 => stage[0] = "done"
         /\ seeding \notin {"none", "query"}
         /\ k = 0 => seeding # "schedule"
         /\ k = 0 /\ seeding = "published" =>
              \A w \in Workers : wave[w] = NoWave
         /\ fails[k] < MaxAttempts
         /\ k = 0 \/ queued = FALSE => fails[k] = 0 /\ stalls[k] = 0
<1> USE BoundsAreNatural, ZeroIsAWave DEF WavesInv, WavesSafe, Running
<1>1. k < next \/ k = 0
  BY DEF Unscheduled, WavesTypeOK, Indexes
<1>2. k # 0 => stage[0] = "done"
  BY DEF FirstIsAwaited
<1>3. seeding \notin {"none", "query"}
  BY DEF Fresh
<1>4. k = 0 => seeding # "schedule"
  BY DEF FirstIsAwaited
<1>5. k = 0 /\ seeding = "published" => \A w \in Workers : wave[w] = NoWave
  BY DEF FirstIsAwaited
<1>6. /\ fails[k] < MaxAttempts
      /\ k = 0 \/ queued = FALSE => fails[k] = 0 /\ stalls[k] = 0
  BY DEF RetriesAreCounted
<1> QED
  BY <1>1, <1>2, <1>3, <1>4, <1>5, <1>6 DEF Indexes

\* The parts of the invariant that only look at where the waves are.
LEMMA StageKeepsOrder ==
  ASSUME WavesInv, NEW k \in Indexes, stage[k] \in {"waiting"} \cup Running,
         NEW s \in Stages \ {"none"}, stage' = [stage EXCEPT ![k] = s],
         UNCHANGED <<wave, next, rings>> \/
           (UNCHANGED <<wave, next>> /\
            \A w \in Workers : wave[w] = NoWave => rings'[w] = rings[w]),
         \A j \in Indexes \ {k} :
           fails'[j] = fails[j] /\ stalls'[j] = stalls[j],
         \/ seeding' = seeding
         \/ k = 0 /\ seeding' = IF s = "done" THEN "schedule" ELSE "failed"
  PROVE  Fresh' /\ Unscheduled' /\ FirstIsAwaited'
<1> USE BoundsAreNatural, ZeroIsAWave
<1>1. \A j \in Indexes : stage'[j] = IF j = k THEN s ELSE stage[j]
  BY DEF WavesInv, WavesTypeOK
<1>2. seeding \notin {"none", "query"} /\ (k < next \/ k = 0) /\ k \in Nat
  BY Underway
<1>3. Fresh'
  BY <1>1, <1>2 DEF WavesInv, WavesSafe, Fresh
<1>4. Unscheduled'
  BY <1>1, <1>2 DEF WavesInv, WavesSafe, Unscheduled, WavesTypeOK, Indexes
<1>5. FirstIsAwaited'
  <2>1. /\ k # 0 => stage[0] = "done"
        /\ k = 0 => seeding # "schedule"
        /\ k = 0 /\ seeding = "published" =>
             \A w \in Workers : wave[w] = NoWave
    BY Underway
  <2>2. k = 0 => \A j \in Indexes \ {0} : stage[j] = "none"
    BY DEF WavesInv, WavesSafe, FirstIsAwaited, Running
  <2> QED
    BY <1>1, <2>1, <2>2 DEF WavesInv, WavesSafe, FirstIsAwaited
<1> QED
  BY <1>3, <1>4, <1>5

LEMMA StartKeepsSafe ==
  ASSUME WavesInv, NEW k \in Indexes, Start(k) PROVE WavesSafe'
<1> USE DEF Start, requestVars, seedVars, alertVars
<1>1. \A j \in Indexes : stage'[j] = IF j = k THEN "read" ELSE stage[j]
  BY DEF WavesInv, WavesTypeOK
<1>2. Fresh' /\ Unscheduled' /\ FirstIsAwaited'
  BY StageKeepsOrder DEF Stages, Running
<1>3. IdsAreFixed' /\ Reached'
  BY <1>1 DEF WavesInv, WavesSafe, IdsAreFixed, Reached
<1>4. RetriesAreCounted'
  BY <1>1 DEF WavesInv, WavesSafe, RetriesAreCounted
<1>5. RingsAreCounted'
  BY <1>1 DEF WavesInv, WavesSafe, RingsAreCounted
<1> QED
  BY <1>2, <1>3, <1>4, <1>5 DEF WavesSafe

LEMMA ReadStatusKeepsSafe ==
  ASSUME WavesInv, NEW k \in Indexes, ReadStatus(k) PROVE WavesSafe'
<1> USE DEF ReadStatus, EndWith, requestVars
<1>1. PICK s \in {"select", "done"} :
        /\ stage' = [stage EXCEPT ![k] = s]
        /\ s = "done" => excused' = excused \cup In(k)
        /\ s = "select" => excused' = excused
        /\ \/ seeding' = seeding
           \/ k = 0 /\ seeding' = IF s = "done" THEN "schedule" ELSE "failed"
  OBVIOUS
<1>2. \A j \in Indexes : stage'[j] = IF j = k THEN s ELSE stage[j]
  BY <1>1 DEF WavesInv, WavesTypeOK
<1>3. Fresh' /\ Unscheduled' /\ FirstIsAwaited'
  BY <1>1, StageKeepsOrder DEF Stages, Running, Ended
<1>4. IdsAreFixed'
  BY DEF WavesInv, WavesSafe, IdsAreFixed
<1>5. \A j \in Indexes \ {k} : todo'[j] = todo[j]
  BY DEF WavesInv, WavesTypeOK
<1>6. Reached'
  BY <1>1, <1>2, <1>5 DEF WavesInv, WavesSafe, Reached, In
<1>7. RetriesAreCounted'
  BY <1>2 DEF WavesInv, WavesSafe, RetriesAreCounted
<1>8. RingsAreCounted'
  BY <1>2 DEF WavesInv, WavesSafe, RingsAreCounted, WavesTypeOK
<1> QED
  BY <1>3, <1>4, <1>6, <1>7, <1>8 DEF WavesSafe

LEMMA SelectKeepsSafe ==
  ASSUME WavesInv, NEW k \in Indexes, Select(k) PROVE WavesSafe'
<1> USE DEF Select, EndWith, requestVars
<1> DEFINE ready == {w \in In(k) : able[w]}
<1>1. PICK s \in {"deliver", "done"} :
        /\ stage' = [stage EXCEPT ![k] = s]
        /\ s = "done" => ready = {}
        /\ s = "deliver" => todo' = [todo EXCEPT ![k] = ready]
        /\ \/ seeding' = seeding
           \/ k = 0 /\ seeding' = IF s = "done" THEN "schedule" ELSE "failed"
  OBVIOUS
<1>2. \A j \in Indexes : stage'[j] = IF j = k THEN s ELSE stage[j]
  BY <1>1 DEF WavesInv, WavesTypeOK
<1>3. /\ \A w \in Workers : wave[w] # k => rings'[w] = rings[w]
      /\ \A w \in Workers : rings'[w] \in {rings[w], rings[w] + 1}
  BY DEF In
<1>4. Fresh' /\ Unscheduled' /\ FirstIsAwaited'
  <2>1. \A w \in Workers : wave[w] = NoWave => rings'[w] = rings[w]
    BY <1>3, NoWaveIsNoIndex DEF Indexes
  <2> QED
    BY <1>1, <2>1, StageKeepsOrder DEF Stages, Running, Ended
<1>5. IdsAreFixed'
  BY DEF WavesInv, WavesSafe, IdsAreFixed
<1>6. Reached'
  <2>1. \A j \in Indexes \ {k} : todo'[j] = todo[j]
    BY DEF WavesInv, WavesTypeOK
  <2>2. \A w \in Workers : wave[w] # k => (w \in excused <=> w \in excused')
    BY DEF In
  <2>3. \A w \in Workers : wave[w] = k =>
          /\ s = "done" => w \in excused'
          /\ s = "deliver" => w \in todo'[k] \/ w \in excused'
    BY <1>1 DEF In, WavesInv, WavesTypeOK
  <2> QED
    BY <1>2, <2>1, <2>2, <2>3 DEF WavesInv, WavesSafe, Reached
<1>7. RetriesAreCounted'
  BY <1>2 DEF WavesInv, WavesSafe, RetriesAreCounted
<1>8. RingsAreCounted'
  <2>1. /\ fails[k] < MaxAttempts
        /\ k = 0 \/ queued = FALSE => fails[k] = 0 /\ stalls[k] = 0
    BY Underway DEF Running
  <2>2. fails[k] \in Nat /\ stalls[k] \in Nat /\ stalls[k] <= MaxStalls
    BY BoundsAreNatural DEF WavesInv, WavesTypeOK
  <2>3. \A w \in Workers : rings[w] \in Nat
    BY DEF WavesInv, WavesTypeOK
  <2>4. ASSUME NEW w \in Workers, wave[w] = k
        PROVE  /\ rings'[w] <= fails[k] + stalls[k] + 1
               /\ rings'[w] <= MaxAttempts + MaxStalls
               /\ k = 0 \/ queued = FALSE => rings'[w] <= 1
    <3>1. rings[w] <= fails[k] + stalls[k]
      BY <2>4 DEF WavesInv, WavesSafe, RingsAreCounted
    <3> QED
      BY <1>3, <2>1, <2>2, <2>3, <3>1, BoundsAreNatural
  <2> QED
    BY <1>2, <1>3, <2>4 DEF WavesInv, WavesSafe, RingsAreCounted
<1> QED
  BY <1>4, <1>5, <1>6, <1>7, <1>8 DEF WavesSafe

LEMMA DeliverKeepsSafe ==
  ASSUME WavesInv, NEW k \in Indexes, NEW v \in Workers, Deliver(k, v)
  PROVE  WavesSafe'
<1> USE DEF Deliver, EventId, requestVars, seedVars
<1>1. Fresh' /\ Unscheduled' /\ FirstIsAwaited'
  BY DEF WavesInv, WavesSafe, Fresh, Unscheduled, FirstIsAwaited
<1>2. IdsAreFixed'
  BY DEF WavesInv, WavesSafe, IdsAreFixed
<1>3. Reached'
  <2>1. \A j \in Indexes, w \in Workers :
          w \in todo[j] => w \in todo'[j] \/ w = v
    BY DEF WavesInv, WavesTypeOK
  <2>2. <<v, 0>> \in inbox' /\ inbox \subseteq inbox'
    OBVIOUS
  <2> QED
    BY <2>1, <2>2 DEF WavesInv, WavesSafe, Reached
<1>4. RetriesAreCounted' /\ RingsAreCounted'
  BY DEF WavesInv, WavesSafe, RetriesAreCounted, RingsAreCounted
<1> QED
  BY <1>1, <1>2, <1>3, <1>4 DEF WavesSafe

LEMMA FinishKeepsSafe ==
  ASSUME WavesInv, NEW k \in Indexes, FinishWave(k) PROVE WavesSafe'
<1> USE DEF FinishWave, EndWith, requestVars, alertVars
<1>1. \A j \in Indexes : /\ stage'[j] = IF j = k THEN "done" ELSE stage[j]
                         /\ todo'[j] = IF j = k THEN {} ELSE todo[j]
  BY DEF WavesInv, WavesTypeOK
<1>2. Fresh' /\ Unscheduled' /\ FirstIsAwaited'
  BY StageKeepsOrder DEF Stages, Running, Ended
<1>3. IdsAreFixed' /\ Reached'
  BY <1>1 DEF WavesInv, WavesSafe, IdsAreFixed, Reached
<1>4. RetriesAreCounted' /\ RingsAreCounted'
  BY <1>1 DEF WavesInv, WavesSafe, RetriesAreCounted, RingsAreCounted
<1> QED
  BY <1>2, <1>3, <1>4 DEF WavesSafe

\* An execution ends early: how it is counted decides whether it may be tried
\* again.
LEMMA EarlyEndKeepsSafe ==
  ASSUME WavesInv, NEW k \in Indexes, stage[k] \in Running,
         NEW s \in {"waiting", "failed"}, EndWith(k, s),
         UNCHANGED <<queued, wave, next, rings, excused>>,
         inbox \subseteq inbox', IdsAreFixed',
         \A j \in Indexes \ {k} :
           fails'[j] = fails[j] /\ stalls'[j] = stalls[j],
         fails'[k] \in Nat /\ stalls'[k] \in Nat,
         s = "waiting" => /\ k # 0 /\ queued = TRUE
                          /\ fails'[k] < MaxAttempts
                          /\ fails'[k] + stalls'[k] = fails[k] + stalls[k] + 1
  PROVE  WavesSafe'
<1> USE DEF EndWith
<1>1. \A j \in Indexes : /\ stage'[j] = IF j = k THEN s ELSE stage[j]
                         /\ todo'[j] = IF j = k THEN {} ELSE todo[j]
  BY DEF WavesInv, WavesTypeOK
<1>2. Fresh' /\ Unscheduled' /\ FirstIsAwaited'
  BY StageKeepsOrder DEF Stages, Ended
<1>3. Reached'
  BY <1>1 DEF WavesInv, WavesSafe, Reached
<1>4. RetriesAreCounted'
  BY <1>1 DEF WavesInv, WavesSafe, RetriesAreCounted
<1>5. RingsAreCounted'
  <2>1. ASSUME NEW w \in Workers, wave[w] = k
        PROVE  /\ s = "waiting" => rings[w] <= fails'[k] + stalls'[k]
               /\ k # 0 /\ queued = TRUE =>
                    rings[w] <= MaxAttempts + MaxStalls
               /\ k = 0 \/ queued = FALSE => rings[w] <= 1
    <3>1. /\ rings[w] <= fails[k] + stalls[k] + 1
          /\ k # 0 /\ queued = TRUE => rings[w] <= MaxAttempts + MaxStalls
          /\ k = 0 \/ queued = FALSE => rings[w] <= 1
      <4>1. fails[k] \in Nat /\ stalls[k] \in Nat /\ rings[w] \in Nat
        BY BoundsAreNatural DEF WavesInv, WavesTypeOK
      <4> QED
        BY <2>1, <4>1 DEF WavesInv, WavesSafe, RingsAreCounted, Running
    <3> QED
      BY <3>1
  <2> QED
    BY <1>1, <2>1 DEF WavesInv, WavesSafe, RingsAreCounted
<1> QED
  BY <1>2, <1>3, <1>4, <1>5 DEF WavesSafe

LEMMA ThrowKeepsSafe ==
  ASSUME WavesInv, NEW k \in Indexes, Throw(k) PROVE WavesSafe'
<1> USE DEF Throw, EventId, requestVars
<1>1. PICK s \in {"waiting", "failed"} :
        /\ EndWith(k, s)
        /\ s = "waiting" =>
             k # 0 /\ queued = TRUE /\ fails[k] + 1 < MaxAttempts
  BY DEF WavesInv, WavesTypeOK
<1>2. inbox \subseteq inbox' /\ IdsAreFixed'
  BY DEF WavesInv, WavesSafe, IdsAreFixed
<1>3. /\ fails[k] \in Nat /\ stalls[k] \in Nat
      /\ fails'[k] = fails[k] + 1 /\ stalls'[k] = stalls[k]
      /\ \A j \in Indexes \ {k} :
           fails'[j] = fails[j] /\ stalls'[j] = stalls[j]
  BY BoundsAreNatural DEF WavesInv, WavesTypeOK
<1>4. s = "waiting" => /\ fails'[k] < MaxAttempts
                       /\ fails'[k] + stalls'[k] = fails[k] + stalls[k] + 1
  BY <1>1, <1>3, BoundsAreNatural
<1>5. fails'[k] \in Nat /\ stalls'[k] \in Nat
  BY <1>3
<1>6. stage[k] \in Running /\ UNCHANGED <<queued, wave, next, rings, excused>>
  OBVIOUS
<1> QED
  <2> HIDE DEF Throw
  <2> QED
    BY <1>1, <1>2, <1>3, <1>4, <1>5, <1>6, EarlyEndKeepsSafe

LEMMA StallKeepsSafe ==
  ASSUME WavesInv, NEW k \in Indexes, Stall(k) PROVE WavesSafe'
<1> USE DEF Stall, requestVars, alertVars
<1>1. fails[k] < MaxAttempts
  BY Underway
<1>2. IdsAreFixed'
  BY DEF WavesInv, WavesSafe, IdsAreFixed
<1>3. /\ fails[k] \in Nat /\ stalls[k] \in Nat
      /\ fails'[k] = fails[k]
      /\ stalls'[k] = IF stalls[k] < MaxStalls THEN stalls[k] + 1
                                               ELSE stalls[k]
      /\ \A j \in Indexes \ {k} :
           fails'[j] = fails[j] /\ stalls'[j] = stalls[j]
  BY BoundsAreNatural DEF WavesInv, WavesTypeOK
<1>4. CASE stalls[k] < MaxStalls
  <2>1. EndWith(k, "waiting") /\ queued = TRUE
    BY <1>4 DEF WavesInv, WavesTypeOK
  <2> QED
    BY <1>1, <1>2, <1>3, <1>4, <2>1, EarlyEndKeepsSafe
<1>5. CASE ~(stalls[k] < MaxStalls)
  <2>1. EndWith(k, "failed")
    BY <1>5
  <2> QED
    BY <1>2, <1>3, <1>5, <2>1, EarlyEndKeepsSafe
<1> QED
  BY <1>4, <1>5

LEMMA RestartKeepsSafe ==
  ASSUME WavesInv, Restart PROVE WavesSafe'
<1> USE DEF Restart, requestVars, alertVars
<1> USE BoundsAreNatural, ZeroIsAWave
<1>1. \A j \in Indexes :
        \/ stage'[j] = stage[j] /\ (stage[j] = "deliver" => todo'[j] = todo[j])
        \/ /\ stage'[j] = "lost" /\ stage[j] \in {"waiting"} \cup Running
           /\ j \in Volatile
  BY DEF WavesInv, WavesTypeOK, Running
<1>2. seeding' = seeding \/ seeding' = "failed"
  OBVIOUS
<1>3. seeding \in {"none", "query"} => \A j \in Indexes : stage'[j] = stage[j]
  BY DEF WavesInv, WavesSafe, Fresh, WavesTypeOK, Running
<1>4. Fresh'
  BY <1>1, <1>2, <1>3 DEF WavesInv, WavesSafe, Fresh, Running
<1>5. Unscheduled'
  BY <1>1 DEF WavesInv, WavesSafe, Unscheduled, Running
<1>6. FirstIsAwaited'
  BY <1>1, <1>2 DEF WavesInv, WavesSafe, FirstIsAwaited, Running
<1>7. IdsAreFixed'
  BY DEF WavesInv, WavesSafe, IdsAreFixed
<1>8. Reached'
  BY <1>1 DEF WavesInv, WavesSafe, Reached
<1>9. RetriesAreCounted'
  BY <1>1 DEF WavesInv, WavesSafe, RetriesAreCounted, Running
<1>10. RingsAreCounted'
  BY <1>1 DEF WavesInv, WavesSafe, RingsAreCounted, Running
<1> QED
  BY <1>4, <1>5, <1>6, <1>7, <1>8, <1>9, <1>10 DEF WavesSafe

-----------------------------------------------------------------------------
(* The theorems                                                            *)

LEMMA WavesInvariance == WavesSpec => []WavesInv
<1>1. WavesInv /\ [WavesNext]_wavesVars => WavesInv'
  <2> SUFFICES ASSUME WavesInv, [WavesNext]_wavesVars PROVE WavesInv'
    OBVIOUS
  <2>1. WavesTypeOK'
    BY WavesTypeStep DEF WavesInv, WavesSafe
  <2>2. WavesSafe'
    BY QueryKeepsSafe, ScheduleKeepsSafe, QuietKeepsSafe, StartKeepsSafe,
       ReadStatusKeepsSafe, SelectKeepsSafe, DeliverKeepsSafe,
       FinishKeepsSafe, ThrowKeepsSafe, StallKeepsSafe, RestartKeepsSafe
       DEF WavesNext, Seed, Execute
  <2> QED
    BY <2>1, <2>2 DEF WavesInv
<1> QED
  BY WavesStart, <1>1, PTL DEF WavesSpec

\* Every reachable state of the waves is well typed.
THEOREM WavesTypeCorrect == WavesSpec => []WavesTypeOK
<1>1. WavesInv => WavesTypeOK
  BY DEF WavesInv
<1> QED
  BY WavesInvariance, <1>1, PTL

\* A worker is alerted once for each execution the queue allows, and once
\* where nothing is tried again.
THEOREM RingsAreBounded == WavesSpec => []AlertsAreBounded
<1>1. WavesInv => AlertsAreBounded
  <2> SUFFICES ASSUME WavesInv, NEW w \in Workers
               PROVE  rings[w] <= IF queued /\ wave[w] # 0
                                  THEN MaxAttempts + MaxStalls ELSE 1
    BY DEF AlertsAreBounded
  <2>1. queued \in {TRUE, FALSE} /\ wave[w] \in Indexes \cup {NoWave}
    BY DEF WavesInv, WavesTypeOK
  <2>2. CASE wave[w] = NoWave
    <3>1. rings[w] = 0
      BY <2>2 DEF WavesInv, WavesSafe, Fresh
    <3> QED
      BY <3>1, BoundsAreNatural
  <2>3. CASE wave[w] \in Indexes
    BY <2>1, <2>3 DEF WavesInv, WavesSafe, RingsAreCounted
  <2> QED
    BY <2>1, <2>2, <2>3
<1> QED
  BY WavesInvariance, <1>1, PTL

\* The id of the row depends on the worker and the request alone, so however
\* often a wave is executed the inbox shows the request once.
THEOREM OneRowPerWorker == WavesSpec => []InboxShowsItOnce
<1>1. WavesInv => InboxShowsItOnce
  <2> SUFFICES ASSUME WavesInv, NEW m \in inbox, NEW n \in inbox, m[1] = n[1]
               PROVE  m = n
    BY DEF InboxShowsItOnce
  <2>1. m[2] = 0 /\ n[2] = 0
    BY DEF WavesInv, WavesSafe, IdsAreFixed
  <2>2. m \in Workers \X Ids /\ n \in Workers \X Ids
    BY DEF WavesInv, WavesTypeOK
  <2> QED
    BY <2>1, <2>2
<1> QED
  BY WavesInvariance, <1>1, PTL

\* Nobody farther away is alerted while somebody of wave 0 still waits.
THEOREM NearestAreFirst == WavesSpec => []NearestFirst
<1>1. WavesInv => NearestFirst
  <2> SUFFICES ASSUME WavesInv, NEW v \in Workers, NEW w \in Workers,
                      wave[v] = 0, wave[w] \in Indexes \ {0}, rings[w] > 0
               PROVE  v \in excused \/ <<v, 0>> \in inbox
    BY DEF NearestFirst, HasIt, EventId
  <2>1. stage[wave[w]] # "none"
    <3> SUFFICES ASSUME stage[wave[w]] = "none" PROVE FALSE
      OBVIOUS
    <3>1. fails[wave[w]] = 0 /\ stalls[wave[w]] = 0
      BY DEF WavesInv, WavesSafe, Fresh
    <3>2. rings[w] <= fails[wave[w]] + stalls[wave[w]]
      BY DEF WavesInv, WavesSafe, RingsAreCounted
    <3> QED
      BY <3>1, <3>2 DEF WavesInv, WavesTypeOK
  <2>2. stage[0] = "done"
    BY <2>1 DEF WavesInv, WavesSafe, FirstIsAwaited
  <2> QED
    BY <2>2, ZeroIsAWave DEF WavesInv, WavesSafe, Reached
<1> QED
  BY WavesInvariance, <1>1, PTL

\* A wave that is done reached everybody in it who could be reached.
THEOREM DoneWavesAreDelivered == WavesSpec => []DoneIsDelivered
<1>1. WavesInv => DoneIsDelivered
  <2> SUFFICES ASSUME WavesInv, NEW w \in Workers, wave[w] # NoWave,
                      stage[wave[w]] = "done"
               PROVE  w \in excused \/ <<w, 0>> \in inbox
    BY DEF DoneIsDelivered, HasIt, EventId
  <2>1. wave[w] \in Indexes
    BY DEF WavesInv, WavesTypeOK
  <2> QED
    BY <2>1 DEF WavesInv, WavesSafe, Reached
<1> QED
  BY WavesInvariance, <1>1, PTL

\* A request announced as published has alerted its nearest workers.
THEOREM PublishedRequestsAreAlerted == WavesSpec => []PublishedIsAlerted
<1>1. WavesInv => PublishedIsAlerted
  <2> SUFFICES ASSUME WavesInv, NEW w \in Workers, seeding = "published",
                      wave[w] = 0
               PROVE  w \in excused \/ <<w, 0>> \in inbox
    BY DEF PublishedIsAlerted, HasIt, EventId
  <2>1. stage[0] = "done"
    BY ZeroIsAWave DEF WavesInv, WavesSafe, FirstIsAwaited
  <2> QED
    BY <2>1, ZeroIsAWave DEF WavesInv, WavesSafe, Reached
<1> QED
  BY WavesInvariance, <1>1, PTL

(***************************************************************************)
(* The inductive invariant of a delivery                                   *)
(***************************************************************************)

\* The table says who has a device, unless FCM knows it no more.
RowsAreHome ==
  /\ \A d \in Devices : row[d] = home[d] \/ row[d] = None
  /\ \A d \in Devices \ dead : row[d] = home[d]
  /\ \A c \in Calls : args[c].gone \subseteq dead

\* What the history knows of the devices of the recipients.
HistoryIsHome ==
  \A c \in Calls :
    /\ \A d \in Devices : home[d] \in args[c].to => d \in mine[c]
    /\ \A d \in whole[c] : d \notin dead /\ home[d] \in args[c].to

Early == {"idle", "present", "acks", "tokens"}

\* Before the tokens are read, what is known to be shown is so.
EarlyIsShown ==
  \A c \in Calls : step[c] \in Early =>
    /\ told[c] \subseteq args[c].shown /\ args[c].shown \subseteq tray[c]
    /\ args[c].tries = 0

\* Afterwards who was not served is in the batch, and nobody else.
LateIsPending ==
  \A c \in Calls : step[c] \notin Early =>
    /\ args[c].batch \cap told[c] = {}
    /\ whole[c] \subseteq tray[c] \cup refused[c] \cup args[c].batch
    /\ args[c].tries = Attempts => args[c].batch \subseteq refused[c]
    /\ step[c] = "push" => args[c].tries < Attempts
    /\ step[c] = "done" => args[c].batch \subseteq refused[c]

\* A batch holds devices of a recipient only, and is empty until it is read.
BatchIsMine ==
  \A c \in Calls :
    /\ args[c].batch \subseteq mine[c] /\ pushed[c] \subseteq mine[c]
    /\ step[c] \in Early => args[c].batch = {} /\ pushed[c] = {}

Safe ==
  /\ RowsAreHome /\ HistoryIsHome /\ EarlyIsShown /\ LateIsPending
  /\ BatchIsMine /\ NobodyIsToldTwice

IInv == TypeOK /\ Safe

-----------------------------------------------------------------------------
LEMMA InitIInv == Init => IInv
<1> SUFFICES ASSUME Init PROVE IInv
  OBVIOUS
<1> USE AttemptsArePositive, NoneIsNobody DEF Init
<1>1. NoArgs \in Args /\ "idle" \in Steps
  BY DEF NoArgs, Args, Steps
<1>2. TypeOK
  BY <1>1 DEF TypeOK, PerCall
<1>3. RowsAreHome /\ HistoryIsHome /\ BatchIsMine
  BY DEF RowsAreHome, HistoryIsHome, BatchIsMine, NoArgs
<1>4. EarlyIsShown /\ LateIsPending /\ NobodyIsToldTwice
  BY DEF EarlyIsShown, LateIsPending, NobodyIsToldTwice, NoArgs, Early
<1> QED  BY <1>2, <1>3, <1>4 DEF IInv, Safe

-----------------------------------------------------------------------------
(***************************************************************************)
(* The steps of the devices                                                *)
(***************************************************************************)

\* They leave the deliveries alone; the history of a device's owners grows.
Quiet ==
  /\ UNCHANGED <<step, args>> /\ UNCHANGED <<pushed, tray, told, twice, refused>>
  /\ \A c \in Calls : mine[c] \subseteq mine'[c] /\ whole'[c] \subseteq whole[c]

\* What Revoke and RevokeAll do: some devices are nobody's any more.
LEMMA NowHasKeeps ==
  ASSUME TypeOK, NEW h, h \in [Devices -> Users \cup {None}], NowHas(h),
         HistoryIsHome, UNCHANGED <<args, dead>>
  PROVE  /\ home' = h /\ mine' \in PerCall /\ whole' \in PerCall
         /\ \A c \in Calls :
              mine[c] \subseteq mine'[c] /\ whole'[c] \subseteq whole[c]
         /\ HistoryIsHome'
<1>1. /\ home' = h
      /\ mine'  = [c \in Calls |->
                     mine[c] \cup {d \in Devices : h[d] \in args[c].to}]
      /\ whole' = [c \in Calls |-> {d \in whole[c] : h[d] \in args[c].to}]
  BY DEF NowHas
<1>2. \A c \in Calls : mine[c] \in SUBSET Devices /\ whole[c] \in SUBSET Devices
  BY DEF TypeOK, PerCall
<1>3. mine' \in PerCall /\ whole' \in PerCall
  BY <1>1, <1>2 DEF PerCall
<1>4. HistoryIsHome'
  BY <1>1 DEF HistoryIsHome
<1> QED  BY <1>1, <1>3, <1>4

LEMMA RegisterStep ==
  ASSUME IInv, NEW u \in Users, NEW d \in Devices, Register(u, d)
  PROVE  TypeOK' /\ Quiet /\ RowsAreHome' /\ HistoryIsHome'
<1> USE DEF IInv, Safe
<1> DEFINE h == [home EXCEPT ![d] = u]
<1>1. /\ d \notin dead /\ row' = [row EXCEPT ![d] = u] /\ NowHas(h)
      /\ UNCHANGED <<dead, socket, step, args>>
      /\ UNCHANGED <<pushed, tray, told, twice, refused>>
  BY DEF Register, Owner, reportVars
<1>2. h \in [Devices -> Users \cup {None}]
  BY DEF TypeOK
<1>3. /\ home' = h /\ mine' \in PerCall /\ whole' \in PerCall
      /\ \A c \in Calls : mine[c] \subseteq mine'[c] /\ whole'[c] \subseteq whole[c]
      /\ HistoryIsHome'
  <2> HIDE DEF h
  <2> QED  BY <1>1, <1>2, NowHasKeeps
<1>4. row' \in [Devices -> Users \cup {None}]
  BY <1>1 DEF TypeOK
<1>5. TypeOK'
  BY <1>1, <1>2, <1>3, <1>4 DEF TypeOK
<1>6. RowsAreHome'
  BY <1>1, <1>3 DEF RowsAreHome, TypeOK
<1> QED  BY <1>1, <1>3, <1>5, <1>6 DEF Quiet

\* Signing out and deleting an account: D are the devices that u loses.
Loses(u, D) ==
  /\ row' = [d \in Devices |-> IF d \in D /\ row[d] = u THEN None ELSE row[d]]
  /\ NowHas([d \in Devices |-> IF d \in D /\ home[d] = u THEN None ELSE home[d]])
  /\ UNCHANGED <<dead, socket, step, args, reportVars>>

LEMMA LosesStep ==
  ASSUME IInv, NEW u \in Users, NEW D \in SUBSET Devices, Loses(u, D)
  PROVE  TypeOK' /\ Quiet /\ RowsAreHome' /\ HistoryIsHome'
<1> USE DEF IInv, Safe
<1> DEFINE h == [d \in Devices |->
                   IF d \in D /\ home[d] = u THEN None ELSE home[d]]
<1>1. /\ row' = [d \in Devices |-> IF d \in D /\ row[d] = u THEN None ELSE row[d]]
      /\ NowHas(h)
      /\ UNCHANGED <<dead, socket, step, args>>
      /\ UNCHANGED <<pushed, tray, told, twice, refused>>
  BY DEF Loses, reportVars
<1>2. h \in [Devices -> Users \cup {None}]
  BY DEF TypeOK
<1>3. /\ home' = h /\ mine' \in PerCall /\ whole' \in PerCall
      /\ \A c \in Calls : mine[c] \subseteq mine'[c] /\ whole'[c] \subseteq whole[c]
      /\ HistoryIsHome'
  <2> HIDE DEF h
  <2> QED  BY <1>1, <1>2, NowHasKeeps
<1>4. row' \in [Devices -> Users \cup {None}]
  BY <1>1 DEF TypeOK
<1>5. TypeOK'
  BY <1>1, <1>2, <1>3, <1>4 DEF TypeOK
<1>6. RowsAreHome'
  BY <1>1, <1>3 DEF RowsAreHome
<1> QED  BY <1>1, <1>3, <1>5, <1>6 DEF Quiet

LEMMA RevokesLose ==
  ASSUME IInv, NEW u \in Users
  PROVE  /\ \A d \in Devices : Revoke(u, d) => Loses(u, {d})
         /\ RevokeAll(u) => Loses(u, Devices)
<1>1. ASSUME NEW d \in Devices, Revoke(u, d) PROVE Loses(u, {d})
  <2>1. [row EXCEPT ![d] = IF @ = u THEN None ELSE @]
          = [e \in Devices |-> IF e \in {d} /\ row[e] = u THEN None ELSE row[e]]
    BY DEF IInv, TypeOK
  <2>2. [home EXCEPT ![d] = IF @ = u THEN None ELSE @]
          = [e \in Devices |-> IF e \in {d} /\ home[e] = u THEN None ELSE home[e]]
    BY DEF IInv, TypeOK
  <2> QED  BY <1>1, <2>1, <2>2 DEF Revoke, Loses
<1>2. ASSUME RevokeAll(u) PROVE Loses(u, Devices)
  <2>1. [d \in Devices |-> IF row[d] = u THEN None ELSE row[d]]
          = [d \in Devices |->
               IF d \in Devices /\ row[d] = u THEN None ELSE row[d]]
    OBVIOUS
  <2>2. [d \in Devices |-> IF home[d] = u THEN None ELSE home[d]]
          = [d \in Devices |->
               IF d \in Devices /\ home[d] = u THEN None ELSE home[d]]
    OBVIOUS
  <2> QED  BY <1>2, <2>1, <2>2 DEF RevokeAll, Loses
<1> QED  BY <1>1, <1>2

LEMMA UninstallStep ==
  ASSUME IInv, NEW d \in Devices, Uninstall(d)
  PROVE  TypeOK' /\ Quiet /\ RowsAreHome' /\ HistoryIsHome'
<1> USE DEF IInv, Safe
<1>1. /\ dead' = dead \cup {d} /\ socket' = [socket EXCEPT ![d] = None]
      /\ whole' = [c \in Calls |-> whole[c] \ {d}]
      /\ UNCHANGED <<row, home, step, args, mine>>
      /\ UNCHANGED <<pushed, tray, told, twice, refused>>
  BY DEF Uninstall, reportVars
<1>2. socket' \in [Devices -> Sockets \cup {None}]
  BY <1>1 DEF TypeOK
<1>3. whole' \in PerCall
  BY <1>1 DEF TypeOK, PerCall
<1>4. TypeOK'
  BY <1>1, <1>2, <1>3 DEF TypeOK
<1>5. RowsAreHome' /\ HistoryIsHome'
  BY <1>1 DEF RowsAreHome, HistoryIsHome
<1> QED  BY <1>1, <1>4, <1>5 DEF Quiet

\* Sockets come and go, and nothing else changes.
LEMMA SocketStep ==
  ASSUME IInv, NEW d \in Devices,
         \/ \E u \in Users : Connect(u, d)
         \/ \E visible \in BOOLEAN : Presence(d, visible)
         \/ Silence(d) \/ Disconnect(d)
  PROVE  TypeOK' /\ Quiet /\ RowsAreHome' /\ HistoryIsHome'
<1> USE DEF IInv, Safe
<1>1. /\ UNCHANGED <<row, dead, home, step, args, mine, whole>>
      /\ UNCHANGED <<pushed, tray, told, twice, refused>>
  BY DEF Connect, Presence, Silence, Disconnect, historyVars, reportVars
<1>2. socket[d] # None => socket[d] \in Sockets
  BY DEF TypeOK
<1>3. socket' \in [Devices -> Sockets \cup {None}]
  <2>1. CASE \E u \in Users : Connect(u, d)
    BY <2>1 DEF Connect, TypeOK, Sockets
  <2>2. ASSUME NEW visible \in BOOLEAN, Presence(d, visible)
        PROVE  socket' \in [Devices -> Sockets \cup {None}]
    <3>1. [socket[d] EXCEPT !.ready = visible /\ row[d] = socket[d].user]
            \in Sockets
      BY <1>2, <2>2 DEF Presence, Sockets
    <3>2. socket' = [socket EXCEPT ![d] =
                       [@ EXCEPT !.ready = visible /\ row[d] = socket[d].user]]
      BY <2>2 DEF Presence
    <3> QED  BY <3>1, <3>2 DEF TypeOK
  <2>3. CASE Silence(d)
    <3>1. [socket[d] EXCEPT !.ready = FALSE] \in Sockets
      BY <1>2, <2>3 DEF Silence, Sockets
    <3>2. socket' = [socket EXCEPT ![d] = [@ EXCEPT !.ready = FALSE]]
      BY <2>3 DEF Silence
    <3> QED  BY <3>1, <3>2 DEF TypeOK
  <2>4. CASE Disconnect(d)
    BY <2>4 DEF Disconnect, TypeOK
  <2> QED  BY <2>1, <2>2, <2>3, <2>4
<1>4. TypeOK'
  BY <1>1, <1>3 DEF TypeOK
<1>5. RowsAreHome' /\ HistoryIsHome'
  BY <1>1 DEF RowsAreHome, HistoryIsHome
<1> QED  BY <1>1, <1>4, <1>5 DEF Quiet

LEMMA QuietStep ==
  ASSUME IInv, TypeOK', RowsAreHome', HistoryIsHome', Quiet
  PROVE  IInv'
<1> USE DEF IInv, Safe
<1>1. EarlyIsShown'
  BY DEF Quiet, EarlyIsShown
<1>2. LateIsPending'
  BY DEF Quiet, LateIsPending
<1>3. BatchIsMine'
  BY DEF Quiet, BatchIsMine
<1>4. NobodyIsToldTwice'
  BY DEF Quiet, NobodyIsToldTwice
<1> QED  BY <1>1, <1>2, <1>3, <1>4

-----------------------------------------------------------------------------
(***************************************************************************)
(* The steps of a delivery                                                 *)
(***************************************************************************)

\* The other deliveries stay as they are.
LEMMA ArgsFacts ==
  ASSUME TypeOK, NEW c \in Calls
  PROVE  /\ args[c] \in Args /\ step[c] \in Steps
         /\ args[c].to \in SUBSET Users /\ args[c].ask \in SUBSET Devices
         /\ args[c].shown \in SUBSET Devices /\ args[c].gone \in SUBSET Devices
         /\ args[c].batch \in SUBSET Devices /\ args[c].tries \in 0..Attempts
         /\ mine[c] \in SUBSET Devices /\ whole[c] \in SUBSET Devices
         /\ pushed[c] \in SUBSET Devices /\ tray[c] \in SUBSET Devices
         /\ told[c] \in SUBSET Devices /\ refused[c] \in SUBSET Devices
<1>1. args[c] \in Args
  BY DEF TypeOK
<1> QED  BY <1>1 DEF TypeOK, PerCall, Args

LEMMA BeginStep ==
  ASSUME IInv, NEW c \in Calls, NEW s \in {"present", "tokens"},
         NEW U \in SUBSET Users, Begin(c, s, U)
  PROVE  IInv'
<1> USE DEF IInv, Safe
<1>1. /\ step[c] = "idle" /\ step' = [step EXCEPT ![c] = s]
      /\ args' = [args EXCEPT ![c] = [@ EXCEPT !.to = U]]
      /\ mine' = [mine EXCEPT ![c] = {d \in Devices : home[d] \in U}]
      /\ whole' = [whole EXCEPT ![c] = {d \in Devices \ dead : home[d] \in U}]
      /\ UNCHANGED <<row, dead, socket, home>>
      /\ UNCHANGED <<pushed, tray, told, twice, refused>>
  BY DEF Begin, Goto, deviceVars, reportVars
<1>2. /\ args[c] \in Args /\ [args[c] EXCEPT !.to = U] \in Args
      /\ args'[c] = [args[c] EXCEPT !.to = U]
      /\ \A e \in Calls \ {c} : args'[e] = args[e] /\ step'[e] = step[e]
                                /\ mine'[e] = mine[e] /\ whole'[e] = whole[e]
      /\ step'[c] = s /\ mine'[c] = {d \in Devices : home[d] \in U}
      /\ whole'[c] = {d \in Devices \ dead : home[d] \in U}
  <2>1. args[c] \in Args
    BY DEF TypeOK
  <2>2. [args[c] EXCEPT !.to = U] \in Args
    BY <2>1 DEF Args
  <2> QED  BY <1>1, <2>1, <2>2 DEF TypeOK, PerCall
<1>3. /\ args'[c].to = U /\ args'[c].shown = args[c].shown
      /\ args'[c].batch = args[c].batch /\ args'[c].gone = args[c].gone
      /\ args'[c].tries = args[c].tries
  BY <1>2 DEF Args
<1>4. TypeOK'
  <2>1. args' \in [Calls -> Args] /\ step' \in [Calls -> Steps]
    BY <1>1, <1>2 DEF TypeOK, Steps
  <2>2. mine' \in PerCall /\ whole' \in PerCall
    BY <1>1 DEF TypeOK, PerCall
  <2> QED  BY <1>1, <2>1, <2>2 DEF TypeOK
<1>5. RowsAreHome'
  BY <1>1, <1>2, <1>3 DEF RowsAreHome
<1>6. HistoryIsHome'
  BY <1>1, <1>2, <1>3 DEF HistoryIsHome
<1>7. EarlyIsShown'
  BY <1>1, <1>2, <1>3 DEF EarlyIsShown, Early
<1>8. LateIsPending'
  BY <1>1, <1>2, <1>3 DEF LateIsPending, Early
<1>9. BatchIsMine'
  BY <1>1, <1>2, <1>3 DEF BatchIsMine, Early
<1>10. NobodyIsToldTwice'
  BY <1>1 DEF NobodyIsToldTwice
<1> QED  BY <1>4, <1>5, <1>6, <1>7, <1>8, <1>9, <1>10

LEMMA ReturnStep ==
  ASSUME IInv, NEW c \in Calls, Return(c), UNCHANGED deviceVars
  PROVE  IInv'
<1> USE AttemptsArePositive DEF IInv, Safe
<1>1. /\ step' = [step EXCEPT ![c] = "idle"]
      /\ args' = [args EXCEPT ![c] = NoArgs]
      /\ UNCHANGED <<row, dead, socket, home>>
  BY DEF Return, Goto, deviceVars
<1>2. /\ mine' = [mine EXCEPT ![c] = {}] /\ whole' = [whole EXCEPT ![c] = {}]
      /\ tray' = [tray EXCEPT ![c] = {}] /\ pushed' = [pushed EXCEPT ![c] = {}]
      /\ told' = [told EXCEPT ![c] = {}] /\ refused' = [refused EXCEPT ![c] = {}]
      /\ twice' = [twice EXCEPT ![c] = {}]
  BY DEF Return
<1>3. TypeOK'
  <2>1. args' \in [Calls -> Args] /\ step' \in [Calls -> Steps]
    BY <1>1 DEF TypeOK, Steps, Args, NoArgs
  <2>2. /\ mine' \in PerCall /\ whole' \in PerCall /\ tray' \in PerCall
        /\ pushed' \in PerCall /\ told' \in PerCall /\ refused' \in PerCall
        /\ twice' \in PerCall
    BY <1>2 DEF TypeOK, PerCall
  <2> QED  BY <1>1, <2>1, <2>2 DEF TypeOK
<1>4. /\ args'[c] = NoArgs /\ step'[c] = "idle"
      /\ \A e \in Calls \ {c} : args'[e] = args[e] /\ step'[e] = step[e]
  BY <1>1 DEF TypeOK
<1>5. /\ mine'[c] = {} /\ whole'[c] = {} /\ tray'[c] = {} /\ pushed'[c] = {}
      /\ told'[c] = {} /\ refused'[c] = {} /\ twice'[c] = {}
      /\ \A e \in Calls \ {c} :
           /\ mine'[e] = mine[e] /\ whole'[e] = whole[e] /\ tray'[e] = tray[e]
           /\ pushed'[e] = pushed[e] /\ told'[e] = told[e]
           /\ refused'[e] = refused[e] /\ twice'[e] = twice[e]
  BY <1>2 DEF TypeOK, PerCall
<1>6. RowsAreHome' /\ HistoryIsHome'
  BY <1>1, <1>4, <1>5 DEF RowsAreHome, HistoryIsHome, NoArgs
<1>7. EarlyIsShown'
  BY <1>4, <1>5 DEF EarlyIsShown, NoArgs, Early
<1>8. LateIsPending'
  BY <1>4, <1>5 DEF LateIsPending, Early
<1>9. BatchIsMine' /\ NobodyIsToldTwice'
  BY <1>4, <1>5 DEF BatchIsMine, NobodyIsToldTwice, NoArgs
<1> QED  BY <1>3, <1>6, <1>7, <1>8, <1>9

LEMMA FetchSocketsStep ==
  ASSUME IInv, NEW c \in Calls, FetchSockets(c)
  PROVE  IInv'
<1> USE DEF IInv, Safe
<1>1. PICK A \in SUBSET Devices :
        /\ step[c] = "present" /\ step' = [step EXCEPT ![c] = "acks"]
        /\ args' = [args EXCEPT ![c] = [@ EXCEPT !.ask = A]]
        /\ UNCHANGED <<deviceVars, historyVars>>
  BY DEF FetchSockets, Goto
<1>2. /\ UNCHANGED <<row, dead, socket, home, mine, whole>>
      /\ UNCHANGED <<pushed, tray, told, twice, refused>>
  BY <1>1 DEF deviceVars, historyVars, reportVars
<1>3. args[c] \in Args
  BY DEF TypeOK
<1>4. [args[c] EXCEPT !.ask = A] \in Args
  BY <1>3 DEF Args
<1>5. /\ args'[c] = [args[c] EXCEPT !.ask = A] /\ step'[c] = "acks"
      /\ \A e \in Calls \ {c} : args'[e] = args[e] /\ step'[e] = step[e]
  BY <1>1 DEF TypeOK
<1>6. /\ args'[c].to = args[c].to /\ args'[c].shown = args[c].shown
      /\ args'[c].batch = args[c].batch /\ args'[c].gone = args[c].gone
      /\ args'[c].tries = args[c].tries
  BY <1>3, <1>5 DEF Args
<1>7. TypeOK'
  <2>1. args' \in [Calls -> Args] /\ step' \in [Calls -> Steps]
    BY <1>1, <1>4 DEF TypeOK, Steps
  <2> QED  BY <1>2, <2>1 DEF TypeOK
<1>8. RowsAreHome' /\ HistoryIsHome'
  BY <1>2, <1>5, <1>6 DEF RowsAreHome, HistoryIsHome
<1>9. EarlyIsShown' /\ LateIsPending' /\ BatchIsMine' /\ NobodyIsToldTwice'
  BY <1>1, <1>2, <1>5, <1>6
  DEF EarlyIsShown, LateIsPending, BatchIsMine, NobodyIsToldTwice, Early
<1> QED  BY <1>7, <1>8, <1>9

\* What an app says it has shown, it has shown.
LEMMA AnswerStep ==
  ASSUME IInv, NEW c \in Calls, NEW d \in Devices,
         NEW appears \in BOOLEAN, NEW acked \in BOOLEAN,
         Answer(c, d, appears, acked)
  PROVE  IInv'
<1> USE DEF IInv, Safe
<1> DEFINE more == IF acked THEN {d} ELSE {}
           a == [args[c] EXCEPT !.ask = @ \ {d}, !.shown = @ \cup more]
<1>1. /\ step[c] = "acks" /\ (acked => appears)
      /\ args' = [args EXCEPT ![c] = a]
      /\ tray' = [tray EXCEPT ![c] = IF appears THEN @ \cup {d} ELSE @]
      /\ told' = [told EXCEPT ![c] = IF acked THEN @ \cup {d} ELSE @]
      /\ UNCHANGED <<row, dead, socket, home>>
      /\ UNCHANGED <<step, mine, whole, pushed, twice, refused>>
  BY DEF Answer, Shown, deviceVars
<1>2. args[c] \in Args
  BY DEF TypeOK
<1>3. a \in Args
  BY <1>2 DEF Args
<1>4. /\ a.to = args[c].to /\ a.shown = args[c].shown \cup more
      /\ a.batch = args[c].batch /\ a.gone = args[c].gone
      /\ a.tries = args[c].tries
  BY <1>2 DEF Args
<1>5. /\ args'[c] = a /\ \A e \in Calls \ {c} : args'[e] = args[e]
      /\ told'[c] = told[c] \cup more
      /\ tray[c] \cup more \subseteq tray'[c]
      /\ \A e \in Calls \ {c} : told'[e] = told[e] /\ tray'[e] = tray[e]
  BY <1>1 DEF TypeOK, PerCall
<1>6. TypeOK'
  <2>1. args' \in [Calls -> Args]
    BY <1>1, <1>3 DEF TypeOK
  <2>2. tray' \in PerCall /\ told' \in PerCall
    BY <1>1 DEF TypeOK, PerCall
  <2> QED  BY <1>1, <2>1, <2>2 DEF TypeOK
<1> HIDE DEF more, a
<1>7. RowsAreHome' /\ HistoryIsHome'
  BY <1>1, <1>4, <1>5 DEF RowsAreHome, HistoryIsHome
<1>8. EarlyIsShown'
  BY <1>1, <1>4, <1>5 DEF EarlyIsShown, Early
<1>9. LateIsPending'
  BY <1>1, <1>4, <1>5 DEF LateIsPending, Early
<1>10. BatchIsMine' /\ NobodyIsToldTwice'
  BY <1>1, <1>4, <1>5 DEF BatchIsMine, NobodyIsToldTwice
<1> QED  BY <1>6, <1>7, <1>8, <1>9, <1>10

\* A batch that is left is for another try, or FCM refused it.
LEMMA AfterBatchIsLate ==
  ASSUME NEW batch, NEW gone, NEW tries, tries \in 0..Attempts
  PROVE  LET s == AfterBatch(batch, gone, tries) IN
         /\ s \in Steps /\ s \notin Early
         /\ s = "push" => tries < Attempts
         /\ s = "done" => batch = {} \/ tries = Attempts
BY AttemptsArePositive DEF AfterBatch, Steps, Early

\* A device that is alive and his is in the batch, unless it has shown it.
LEMMA ReadTokensStep ==
  ASSUME IInv, NEW c \in Calls, ReadTokens(c)
  PROVE  IInv'
<1> USE DEF IInv, Safe
<1> DEFINE batch == {d \in Devices : row[d] \in args[c].to} \ args[c].shown
           s == AfterBatch(batch, {}, 0)
           a == [args[c] EXCEPT !.batch = batch]
<1>1. /\ step[c] \in Early /\ step' = [step EXCEPT ![c] = s]
      /\ args' = [args EXCEPT ![c] = a]
      /\ UNCHANGED <<deviceVars, historyVars>>
  BY DEF ReadTokens, Goto, Early
<1>2. /\ UNCHANGED <<row, dead, socket, home, mine, whole>>
      /\ UNCHANGED <<pushed, tray, told, twice, refused>>
  BY <1>1 DEF deviceVars, historyVars, reportVars
<1>3. args[c] \in Args
  BY DEF TypeOK
<1>4. /\ a \in Args /\ a.to = args[c].to /\ a.shown = args[c].shown
      /\ a.batch = batch /\ a.gone = args[c].gone /\ a.tries = args[c].tries
  BY <1>3 DEF Args
<1>5. /\ s \in Steps /\ s \notin Early
      /\ s = "done" => batch = {}
  BY AfterBatchIsLate, AttemptsArePositive DEF AfterBatch, Steps, Early
<1>6. /\ args'[c] = a /\ step'[c] = s
      /\ \A e \in Calls \ {c} : args'[e] = args[e] /\ step'[e] = step[e]
  BY <1>1 DEF TypeOK
<1>7. TypeOK'
  <2>1. args' \in [Calls -> Args] /\ step' \in [Calls -> Steps]
    BY <1>1, <1>4, <1>5 DEF TypeOK
  <2> QED  BY <1>2, <2>1 DEF TypeOK
<1>8. /\ told[c] \subseteq args[c].shown /\ args[c].shown \subseteq tray[c]
      /\ args[c].tries = 0
  BY <1>1 DEF EarlyIsShown
<1>9. batch \cap told[c] = {}
  BY <1>8
<1>10. whole[c] \subseteq tray[c] \cup batch
  <2>1. \A d \in whole[c] : d \in Devices /\ row[d] \in args[c].to
    BY ArgsFacts DEF HistoryIsHome, RowsAreHome
  <2> QED  BY <1>8, <2>1
<1>11. batch \subseteq mine[c]
  <2>1. \A d \in batch : row[d] \in Users
    BY ArgsFacts
  <2>2. \A d \in batch : home[d] = row[d]
    BY <2>1, NoneIsNobody DEF RowsAreHome
  <2> QED  BY <2>2 DEF HistoryIsHome
<1> HIDE DEF batch, s, a
<1>12. RowsAreHome' /\ HistoryIsHome'
  BY <1>2, <1>4, <1>6 DEF RowsAreHome, HistoryIsHome
<1>13. EarlyIsShown' /\ NobodyIsToldTwice'
  BY <1>2, <1>5, <1>6 DEF EarlyIsShown, NobodyIsToldTwice
<1>14. LateIsPending'
  <2>1. \A e \in Calls \ {c} : UNCHANGED <<args[e], step[e]>>
    BY <1>6
  <2>2. a.tries # Attempts /\ a.tries < Attempts
    BY <1>4, <1>8, AttemptsArePositive
  <2>3. /\ args'[c].batch = batch /\ args'[c].tries < Attempts
        /\ args'[c].tries # Attempts
    BY <1>4, <1>6, <2>2
  <2>4. /\ args'[c].batch \cap told'[c] = {}
        /\ whole'[c] \subseteq tray'[c] \cup refused'[c] \cup args'[c].batch
        /\ step'[c] = "done" => args'[c].batch \subseteq refused'[c]
    BY <1>2, <1>5, <1>6, <1>9, <1>10, <2>3
  <2> QED  BY <1>2, <1>6, <2>3, <2>4 DEF LateIsPending
<1>15. BatchIsMine'
  BY <1>2, <1>4, <1>5, <1>6, <1>11 DEF BatchIsMine
<1> QED  BY <1>7, <1>12, <1>13, <1>14, <1>15

\* Whom FCM took it for is served; the busy are kept, the others refused.
LEMMA PushAnsweredStep ==
  ASSUME IInv, NEW c \in Calls, NEW ok, NEW gone, NEW busy,
         PushAnswered(c, ok, gone, busy)
  PROVE  IInv'
<1> USE DEF IInv, Safe
<1> DEFINE batch == args[c].batch
           tries == args[c].tries + 1
           s == AfterBatch(busy, gone, tries)
           a == [args[c] EXCEPT !.batch = busy, !.gone = gone, !.tries = tries]
           no == batch \ (ok \cup IF tries < Attempts THEN busy ELSE {})
<1>1. /\ step[c] = "push" /\ step' = [step EXCEPT ![c] = s]
      /\ ok \subseteq batch /\ gone \subseteq batch \cap dead
      /\ busy \subseteq batch \ ok
      /\ args' = [args EXCEPT ![c] = a]
      /\ UNCHANGED <<row, dead, socket, home, mine, whole>>
  BY DEF PushAnswered, Goto, deviceVars
<1>2. /\ pushed' = [pushed EXCEPT ![c] = @ \cup batch]
      /\ tray' = [tray EXCEPT ![c] = @ \cup ok]
      /\ twice' = [twice EXCEPT ![c] = @ \cup (ok \cap told[c])]
      /\ told' = [told EXCEPT ![c] = @ \cup ok]
      /\ refused' = [refused EXCEPT ![c] = @ \cup no]
  BY DEF PushAnswered
<1>3. args[c] \in Args /\ batch \in SUBSET Devices
  BY ArgsFacts
<1>4. /\ batch \cap told[c] = {} /\ batch \subseteq mine[c]
      /\ whole[c] \subseteq tray[c] \cup refused[c] \cup batch
      /\ args[c].tries < Attempts /\ pushed[c] \subseteq mine[c]
  BY <1>1 DEF LateIsPending, BatchIsMine, Early
<1>5. tries \in 0..Attempts
  BY <1>3, <1>4, AttemptsArePositive DEF Args
<1>6. /\ a \in Args /\ a.to = args[c].to /\ a.shown = args[c].shown
      /\ a.batch = busy /\ a.gone = gone /\ a.tries = tries
  BY <1>1, <1>3, <1>5 DEF Args
<1>7. /\ s \in Steps /\ s \notin Early
      /\ s = "push" => tries < Attempts
      /\ s = "done" => busy = {} \/ tries = Attempts
  BY <1>5, AfterBatchIsLate
<1>8. /\ args'[c] = a /\ step'[c] = s
      /\ \A e \in Calls \ {c} : args'[e] = args[e] /\ step'[e] = step[e]
  BY <1>1 DEF TypeOK
<1>9. /\ pushed'[c] = pushed[c] \cup batch /\ tray'[c] = tray[c] \cup ok
      /\ twice'[c] = twice[c] \cup (ok \cap told[c])
      /\ told'[c] = told[c] \cup ok /\ refused'[c] = refused[c] \cup no
      /\ \A e \in Calls \ {c} :
           /\ pushed'[e] = pushed[e] /\ tray'[e] = tray[e]
           /\ twice'[e] = twice[e] /\ told'[e] = told[e]
           /\ refused'[e] = refused[e]
  BY <1>2 DEF TypeOK, PerCall
<1>10. tries = Attempts => busy \subseteq no
  BY <1>1, <1>5
<1>11. batch \subseteq ok \cup busy \cup no
  OBVIOUS
<1>12. TypeOK'
  <2>1. args' \in [Calls -> Args] /\ step' \in [Calls -> Steps]
    BY <1>1, <1>6, <1>7 DEF TypeOK
  <2>2. ok \in SUBSET Devices /\ no \in SUBSET Devices
    BY <1>1, <1>3
  <2> HIDE DEF batch, no
  <2>3. /\ pushed' \in PerCall /\ tray' \in PerCall /\ twice' \in PerCall
        /\ told' \in PerCall /\ refused' \in PerCall
    BY <1>2, <1>3, <2>2 DEF TypeOK, PerCall
  <2> QED  BY <1>1, <2>1, <2>3 DEF TypeOK
<1> HIDE DEF batch, tries, s, a, no
<1>13. RowsAreHome' /\ HistoryIsHome'
  BY <1>1, <1>6, <1>8 DEF RowsAreHome, HistoryIsHome
<1>14. EarlyIsShown'
  BY <1>7, <1>8, <1>9 DEF EarlyIsShown
<1>15. NobodyIsToldTwice'
  BY <1>1, <1>4, <1>9 DEF NobodyIsToldTwice
<1>16. BatchIsMine'
  BY <1>1, <1>4, <1>6, <1>7, <1>8, <1>9 DEF BatchIsMine
<1>17. LateIsPending'
  <2>1. /\ args'[c].batch \cap told'[c] = {}
        /\ whole'[c] \subseteq tray'[c] \cup refused'[c] \cup args'[c].batch
    BY <1>1, <1>4, <1>6, <1>8, <1>9, <1>11
  <2>2. /\ args'[c].tries = Attempts => args'[c].batch \subseteq refused'[c]
        /\ step'[c] = "push" => args'[c].tries < Attempts
        /\ step'[c] = "done" => args'[c].batch \subseteq refused'[c]
    BY <1>6, <1>7, <1>8, <1>9, <1>10
  <2> QED  BY <1>1, <1>8, <1>9, <2>1, <2>2 DEF LateIsPending
<1> QED  BY <1>12, <1>13, <1>14, <1>15, <1>16, <1>17

\* Whom a call that throws has reached is not known: the batch stays.
LEMMA PushLostStep ==
  ASSUME IInv, NEW c \in Calls, NEW reached, PushLost(c, reached)
  PROVE  IInv'
<1> USE DEF IInv, Safe
<1> DEFINE a == [args[c] EXCEPT !.tries = @ + 1]
<1>1. /\ step[c] = "push" /\ args[c].tries + 1 < Attempts
      /\ reached \subseteq args[c].batch
      /\ args' = [args EXCEPT ![c] = a]
      /\ pushed' = [pushed EXCEPT ![c] = @ \cup args[c].batch]
      /\ tray' = [tray EXCEPT ![c] = @ \cup reached]
      /\ UNCHANGED <<row, dead, socket, home>>
      /\ UNCHANGED <<step, mine, whole, told, twice, refused>>
  BY DEF PushLost, deviceVars
<1>2. args[c] \in Args /\ args[c].batch \in SUBSET Devices
  BY ArgsFacts
<1>3. args[c].tries \in 0..Attempts
  BY <1>2 DEF Args
<1>4. args[c].tries + 1 \in 0..Attempts /\ args[c].tries + 1 # Attempts
  BY <1>1, <1>3, AttemptsArePositive
<1>5. /\ a \in Args /\ a.to = args[c].to /\ a.shown = args[c].shown
      /\ a.batch = args[c].batch /\ a.gone = args[c].gone
      /\ a.tries = args[c].tries + 1
  BY <1>2, <1>4 DEF Args
<1>6. /\ args'[c] = a /\ \A e \in Calls \ {c} : args'[e] = args[e]
      /\ pushed'[c] = pushed[c] \cup args[c].batch
      /\ tray[c] \subseteq tray'[c]
      /\ \A e \in Calls \ {c} : pushed'[e] = pushed[e] /\ tray'[e] = tray[e]
  BY <1>1 DEF TypeOK, PerCall
<1>7. TypeOK'
  <2>1. args' \in [Calls -> Args]
    BY <1>1, <1>5 DEF TypeOK
  <2>2. pushed' \in PerCall /\ tray' \in PerCall
    BY <1>1, <1>2 DEF TypeOK, PerCall
  <2> QED  BY <1>1, <2>1, <2>2 DEF TypeOK
<1> HIDE DEF a
<1>8. RowsAreHome' /\ HistoryIsHome'
  BY <1>1, <1>5, <1>6 DEF RowsAreHome, HistoryIsHome
<1>9. EarlyIsShown' /\ NobodyIsToldTwice'
  BY <1>1, <1>6 DEF EarlyIsShown, NobodyIsToldTwice, Early
<1>10. BatchIsMine'
  BY <1>1, <1>5, <1>6 DEF BatchIsMine, Early
<1>11. LateIsPending'
  BY <1>1, <1>4, <1>5, <1>6 DEF LateIsPending, Early
<1> QED  BY <1>7, <1>8, <1>9, <1>10, <1>11

\* Only tokens that FCM does not know are deleted.
LEMMA ForgetStep ==
  ASSUME IInv, NEW c \in Calls, NEW d \in Devices, Forget(c, d)
  PROVE  IInv'
<1> USE DEF IInv, Safe
<1> DEFINE gone == args[c].gone \ {d}
           s == AfterBatch(args[c].batch, gone, args[c].tries)
           a == [args[c] EXCEPT !.gone = gone]
<1>1. /\ step[c] = "clean" /\ d \in args[c].gone
      /\ row' = [row EXCEPT ![d] = None]
      /\ args' = [args EXCEPT ![c] = a] /\ step' = [step EXCEPT ![c] = s]
      /\ UNCHANGED <<dead, socket, home, historyVars>>
  BY DEF Forget, Goto
<1>2. UNCHANGED <<mine, whole, pushed, tray, told, twice, refused>>
  BY <1>1 DEF historyVars, reportVars
<1>3. /\ args[c] \in Args /\ gone \in SUBSET Devices
      /\ args[c].tries \in 0..Attempts
  BY ArgsFacts
<1>4. /\ a \in Args /\ a.to = args[c].to /\ a.shown = args[c].shown
      /\ a.batch = args[c].batch /\ a.gone = gone /\ a.tries = args[c].tries
  BY <1>3 DEF Args
<1>5. /\ s \in Steps /\ s \notin Early
      /\ s = "push" => args[c].tries < Attempts
      /\ s = "done" => args[c].batch = {} \/ args[c].tries = Attempts
  BY <1>3, AfterBatchIsLate
<1>6. /\ args'[c] = a /\ step'[c] = s
      /\ \A e \in Calls \ {c} : args'[e] = args[e] /\ step'[e] = step[e]
  BY <1>1 DEF TypeOK
<1>7. TypeOK'
  <2>1. args' \in [Calls -> Args] /\ step' \in [Calls -> Steps]
    BY <1>1, <1>4, <1>5 DEF TypeOK
  <2>2. row' \in [Devices -> Users \cup {None}]
    BY <1>1 DEF TypeOK
  <2> QED  BY <1>1, <1>2, <2>1, <2>2 DEF TypeOK
<1>8. d \in dead /\ gone \subseteq dead
  BY <1>1 DEF RowsAreHome
<1> HIDE DEF gone, s, a
<1>9. RowsAreHome'
  BY <1>1, <1>4, <1>6, <1>8 DEF RowsAreHome, TypeOK
<1>10. HistoryIsHome'
  BY <1>1, <1>2, <1>4, <1>6 DEF HistoryIsHome
<1>11. EarlyIsShown' /\ NobodyIsToldTwice'
  BY <1>2, <1>5, <1>6 DEF EarlyIsShown, NobodyIsToldTwice
<1>12. LateIsPending'
  BY <1>1, <1>2, <1>4, <1>5, <1>6 DEF LateIsPending, Early
<1>13. BatchIsMine'
  BY <1>2, <1>4, <1>5, <1>6 DEF BatchIsMine
<1> QED  BY <1>7, <1>9, <1>10, <1>11, <1>12, <1>13

-----------------------------------------------------------------------------
(***************************************************************************)
(* The theorems                                                            *)
(***************************************************************************)

LEMMA StepKeepsIInv == IInv /\ [Next]_vars => IInv'
<1> SUFFICES ASSUME IInv, [Next]_vars PROVE IInv'
  OBVIOUS
<1>1. ASSUME NEW d \in Devices, DeviceActs(d) PROVE IInv'
  <2>1. TypeOK' /\ Quiet /\ RowsAreHome' /\ HistoryIsHome'
    <3>1. ASSUME NEW u \in Users, Register(u, d)
          PROVE  TypeOK' /\ Quiet /\ RowsAreHome' /\ HistoryIsHome'
      BY <3>1, RegisterStep
    <3>2. ASSUME NEW u \in Users, Revoke(u, d)
          PROVE  TypeOK' /\ Quiet /\ RowsAreHome' /\ HistoryIsHome'
      BY <3>2, RevokesLose, LosesStep
    <3>3. CASE Uninstall(d)
      BY <3>3, UninstallStep
    <3> QED  BY <1>1, <3>1, <3>2, <3>3, SocketStep DEF DeviceActs
  <2> QED  BY <2>1, QuietStep
<1>2. ASSUME NEW u \in Users, RevokeAll(u) PROVE IInv'
  <2>1. TypeOK' /\ Quiet /\ RowsAreHome' /\ HistoryIsHome'
    BY <1>2, RevokesLose, LosesStep
  <2> QED  BY <2>1, QuietStep
<1>3. ASSUME NEW c \in Calls, NEW u \in Users, Notify(c, u) PROVE IInv'
  BY <1>3, BeginStep DEF Notify
<1>4. ASSUME NEW c \in Calls, NEW U \in SUBSET Users, Announce(c, U)
      PROVE  IInv'
  BY <1>4, BeginStep DEF Announce
<1>5. ASSUME NEW c \in Calls, Delivers(c) PROVE IInv'
  <2>1. CASE FetchSockets(c) \/ ReadTokens(c)
    BY <2>1, FetchSocketsStep, ReadTokensStep
  <2>2. CASE Fails(c) \/ Finish(c)
    BY <2>2, ReturnStep DEF Fails, Finish
  <2>3. CASE \E d \in Devices :
               \/ Forget(c, d)
               \/ \E appears, acked \in BOOLEAN : Answer(c, d, appears, acked)
    BY <2>3, ForgetStep, AnswerStep
  <2>4. CASE \E R \in SUBSET args[c].batch : PushLost(c, R)
    BY <2>4, PushLostStep
  <2>5. CASE \E ok, gone, busy \in SUBSET args[c].batch :
               PushAnswered(c, ok, gone, busy)
    BY <2>5, PushAnsweredStep
  <2> QED  BY <1>5, <2>1, <2>2, <2>3, <2>4, <2>5 DEF Delivers
<1>6. CASE UNCHANGED vars
  <2>1. UNCHANGED <<deviceVars, step, args, historyVars>>
    BY <1>6 DEF vars
  <2>2. /\ UNCHANGED <<row, dead, socket, home, step, args, mine, whole>>
        /\ UNCHANGED <<pushed, tray, told, twice, refused>>
    BY <2>1 DEF deviceVars, historyVars, reportVars
  <2>3. TypeOK' /\ RowsAreHome' /\ HistoryIsHome' /\ Quiet
    BY <2>2 DEF IInv, Safe, TypeOK, RowsAreHome, HistoryIsHome, Quiet
  <2> QED  BY <2>3, QuietStep
<1> QED  BY <1>1, <1>2, <1>3, <1>4, <1>5, <1>6 DEF Next

\* Every reachable state satisfies the inductive invariant: the table says who
\* has a device, and a batch holds just those who are still to be served.
THEOREM Invariance == Spec => []IInv
BY InitIInv, StepKeepsIInv, PTL DEF Spec

\* The variables keep their types: no attempt beyond the last is counted.
THEOREM TypeCorrect == Spec => []TypeOK
<1>1. IInv => TypeOK
  BY DEF IInv
<1> QED  BY <1>1, Invariance, PTL

\* A push goes only to devices that a recipient had since it began, for any
\* number of users, devices, deliveries at once and attempts.
THEOREM PushesStay == Spec => []PushesStayAtHome
<1>1. IInv => PushesStayAtHome
  BY DEF IInv, Safe, BatchIsMine, PushesStayAtHome
<1> QED  BY <1>1, Invariance, PTL

\* A delivery that ends has served every device its recipients had all the
\* while, and none of them knowingly twice.
THEOREM DevicesGetServed == Spec => []DevicesAreServed
<1>1. IInv => DevicesAreServed
  BY DEF IInv, Safe, LateIsPending, Early, DevicesAreServed, NobodyIsPassedOver
<1> QED  BY <1>1, Invariance, PTL

=============================================================================
