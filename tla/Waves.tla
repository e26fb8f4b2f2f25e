-------------------------------- MODULE Waves --------------------------------
(***************************************************************************)
(* How the workers near a new request are alerted: createRequest inserts   *)
(* the row, sorts the workers by distance into waves, delivers wave 0      *)
(* itself and schedules the others on the queue or on timers               *)
(* (seedOffersForRequest, dispatchWorkerNotificationWave,                  *)
(* WaveDispatchQueueService, WaveDispatchProcessorService.processWave,     *)
(* notifyWorkersForJobWave and deliver), for one request.                  *)
(*                                                                         *)
(* Delays are left out: a scheduled wave may start at any time, which is   *)
(* what replicas, back-offs and busy queues make of them. An operator      *)
(* marked "Mutation" is a bug the properties find.                         *)
(***************************************************************************)
EXTENDS Naturals, FiniteSets

CONSTANTS
  Workers,      \* users of type worker
  WaveSize,     \* WORKER_NOTIFICATION_WAVE_SIZE
  MaxWave,      \* bound: waves are 0..MaxWave
  MaxAttempts,  \* the queue's attempts
  MaxStalls,    \* how often the queue starts a job again whose process died
  NoWave        \* no wave

ASSUME BoundsAreNatural ==
  /\ WaveSize \in Nat \ {0} /\ MaxAttempts \in Nat \ {0}
  /\ MaxWave \in Nat /\ MaxStalls \in Nat
ASSUME NoWaveIsNoIndex == NoWave \notin 0..MaxWave

VARIABLES
  queued,   \* USE_QUEUE_DISPATCH
  status,   \* job_requests.status: "open" is searching and negotiating
  able,     \* available, verified, not blocked, no agency's, no user_block
  wave,     \* the wave of each worker, once the query has run
  seeding,  \* how far createRequest is
  next,     \* the next wave it schedules
  stage,    \* how far the execution of each wave is
  todo,     \* the workers an execution has still to deliver to
  fails,    \* executions of a wave that threw
  stalls,   \* executions of a wave whose process died
  rings,    \* how often each worker got the socket event request.new
  inbox,    \* rows of notifications: <<worker, id>>
  excused   \* history: workers whose wave found the request closed, or who
            \* were not able when it looked

requestVars == <<queued, status, able>>
seedVars    == <<wave, seeding, next>>
runVars     == <<stage, todo, fails, stalls>>
alertVars   == <<rings, inbox, excused>>
wavesVars   == <<requestVars, seedVars, runVars, alertVars>>

Indexes == 0..MaxWave
Running == {"read", "select", "deliver"}
Ended   == {"done", "failed", "lost"}
Stages  == {"none", "waiting"} \cup Running \cup Ended
Busy    == {"query", "first", "schedule"}

Ids == 0..(MaxAttempts + MaxStalls)

WavesTypeOK ==
  /\ queued  \in BOOLEAN
  /\ status  \in {"none", "open", "closed"}
  /\ able    \in [Workers -> BOOLEAN]
  /\ wave    \in [Workers -> Indexes \cup {NoWave}]
  /\ seeding \in {"none", "published", "failed"} \cup Busy
  /\ next    \in 1..(MaxWave + 1)
  /\ stage   \in [Indexes -> Stages]
  /\ todo    \in [Indexes -> SUBSET Workers]
  /\ fails   \in [Indexes -> 0..MaxAttempts]
  /\ stalls  \in [Indexes -> 0..MaxStalls]
  /\ rings   \in [Workers -> Nat]
  /\ inbox   \in SUBSET (Workers \X Ids)
  /\ excused \in SUBSET Workers

WavesInit ==
  /\ queued  \in BOOLEAN
  /\ status  = "none"
  /\ able    \in [Workers -> BOOLEAN]
  /\ wave    = [w \in Workers |-> NoWave]
  /\ seeding = "none"
  /\ next    = 1
  /\ stage   = [k \in Indexes |-> "none"]
  /\ todo    = [k \in Indexes |-> {}]
  /\ fails   = [k \in Indexes |-> 0]
  /\ stalls  = [k \in Indexes |-> 0]
  /\ rings   = [w \in Workers |-> 0]
  /\ inbox   = {}
  /\ excused = {}

-----------------------------------------------------------------------------
(* The request and the workers, seen from here                             *)

\* Assigned, completed or cancelled; a late counter-offer opens it again.
ChangeStatus ==
  /\ status # "none"
  /\ status' = IF status = "open" THEN "closed" ELSE "open"
  /\ UNCHANGED <<queued, able, seedVars, runVars, alertVars>>

\* A worker connects or disconnects, is verified, blocked, hired or blocks the
\* client.
ChangeWorker(w) ==
  /\ able' = [able EXCEPT ![w] = ~ @]
  /\ UNCHANGED <<queued, status, seedVars, runVars, alertVars>>

-----------------------------------------------------------------------------
(* createRequest and seedOffersForRequest                                  *)

In(k) == {w \in Workers : wave[w] = k}

CreateRequest ==
  /\ seeding = "none"
  /\ status'  = "open"
  /\ seeding' = "query"
  /\ UNCHANGED <<queued, able, wave, next, runVars, alertVars>>

\* Sorting by distance and slicing: the waves are full but for the last.
Slicing(f) ==
  /\ \A k \in Indexes : Cardinality({w \in Workers : f[w] = k}) <= WaveSize
  /\ \A w \in Workers, k \in Indexes :
       f[w] # NoWave /\ k < f[w] =>
         Cardinality({v \in Workers : f[v] = k}) = WaveSize

\* The query finds the workers within reach, which are any: who was not able
\* may just have become so, and who blocked the client is found too. Wave 0
\* starts at once.
QueryWorkers ==
  /\ seeding = "query"
  /\ \E f \in [Workers -> Indexes \cup {NoWave}] :
       /\ Slicing(f)
       /\ wave' = f
       /\ IF \A w \in Workers : f[w] = NoWave
          THEN seeding' = "published" /\ UNCHANGED stage
          ELSE seeding' = "first" /\ stage' = [stage EXCEPT ![0] = "read"]
  /\ UNCHANGED <<requestVars, next, todo, fails, stalls, alertVars>>

\* An awaited statement of createRequest throws.
SeedingFails ==
  /\ seeding = "query"
  /\ seeding' = "failed"
  /\ UNCHANGED <<requestVars, wave, next, runVars, alertVars>>

\* enqueueWave or setTimeout; a wave that cannot be enqueued is logged.
Schedule ==
  /\ seeding = "schedule"
  /\ next \in Indexes /\ In(next) # {}
  /\ \E s \in {"waiting"} \cup (IF queued THEN {"lost"} ELSE {}) :
       stage' = [stage EXCEPT ![next] = s]
  /\ next' = next + 1
  /\ UNCHANGED <<requestVars, wave, seeding, todo, fails, stalls, alertVars>>

\* request.published.
Publish ==
  /\ seeding = "schedule"
  /\ next \in Indexes => In(next) = {}
  /\ seeding' = "published"
  /\ UNCHANGED <<requestVars, wave, next, runVars, alertVars>>

-----------------------------------------------------------------------------
(* The execution of a wave                                                 *)

\* The queue hands out the job, or the timer fires.
Start(k) ==
  /\ stage[k] = "waiting"
  /\ stage' = [stage EXCEPT ![k] = "read"]
  /\ UNCHANGED <<requestVars, seedVars, todo, fails, stalls, alertVars>>

\* Wave 0 goes back to createRequest, which awaited it.
EndWith(k, s) ==
  /\ stage' = [stage EXCEPT ![k] = s]
  /\ todo'  = [todo EXCEPT ![k] = {}]
  /\ seeding' = IF k # 0 THEN seeding
                ELSE IF s = "done" THEN "schedule" ELSE "failed"

ReadStatus(k) ==
  /\ stage[k] = "read"
  /\ IF status = "open"
     THEN /\ stage' = [stage EXCEPT ![k] = "select"]
          /\ UNCHANGED <<todo, seeding, excused>>
     ELSE /\ EndWith(k, "done")
          /\ excused' = excused \cup In(k)
  /\ UNCHANGED <<requestVars, wave, next, fails, stalls, rings, inbox>>

\* The workers that are able now get the socket event, all in one go.
Select(k) ==
  LET ready == {w \in In(k) : able[w]} IN
  /\ stage[k] = "select"
  /\ IF ready = {}
     THEN EndWith(k, "done")
     ELSE /\ stage' = [stage EXCEPT ![k] = "deliver"]
          /\ todo'  = [todo EXCEPT ![k] = ready]
          /\ UNCHANGED seeding
  /\ rings' = [w \in Workers |-> IF w \in ready THEN rings[w] + 1
                                                ELSE rings[w]]
  /\ excused' = (excused \ In(k)) \cup (In(k) \ ready)
  /\ UNCHANGED <<requestVars, wave, next, fails, stalls, inbox>>

\* eventId hashes the request and the worker: it is the same every time.
EventId(k) == 0

\* deliver: the row of the inbox is saved, then the device gets the push.
Deliver(k, w) ==
  /\ stage[k] = "deliver" /\ w \in todo[k]
  /\ inbox' = inbox \cup {<<w, EventId(k)>>}
  /\ todo'  = [todo EXCEPT ![k] = @ \ {w}]
  /\ UNCHANGED <<requestVars, seedVars, stage, fails, stalls, rings, excused>>

FinishWave(k) ==
  /\ stage[k] = "deliver" /\ todo[k] = {}
  /\ EndWith(k, "done")
  /\ UNCHANGED <<requestVars, wave, next, fails, stalls, alertVars>>

\* Mutation: the error of a delivery is swallowed.
ThrowSwallowed(k) ==
  /\ stage[k] \in Running
  /\ EndWith(k, "done")
  /\ UNCHANGED <<requestVars, wave, next, fails, stalls, alertVars>>

\* Mutation: whatever throws is tried again.
ThrowRetried(k) ==
  /\ stage[k] \in Running
  /\ IF fails[k] + 1 < MaxAttempts
     THEN EndWith(k, "waiting") ELSE EndWith(k, "failed")
  /\ fails' = [fails EXCEPT ![k] = @ + 1]
  /\ UNCHANGED <<requestVars, wave, next, stalls, alertVars>>

\* A statement or a push throws, before or after the row of the worker in
\* turn was saved. Only the queue tries again, with the whole wave.
Throw(k) ==
  /\ stage[k] \in Running
  /\ IF k # 0 /\ queued /\ fails[k] + 1 < MaxAttempts
     THEN EndWith(k, "waiting") ELSE EndWith(k, "failed")
  /\ fails' = [fails EXCEPT ![k] = @ + 1]
  /\ \/ UNCHANGED inbox
     \/ \E w \in todo[k] : inbox' = inbox \cup {<<w, EventId(k)>>}
  /\ UNCHANGED <<requestVars, wave, next, stalls, rings, excused>>

-----------------------------------------------------------------------------
(* Processes that die                                                      *)

Volatile == IF queued THEN {0} ELSE Indexes

\* The process of createRequest dies, with its timers.
Restart ==
  /\ seeding' = IF seeding \in Busy THEN "failed" ELSE seeding
  /\ stage'   = [k \in Indexes |->
                   IF k \in Volatile /\ stage[k] \in {"waiting"} \cup Running
                   THEN "lost" ELSE stage[k]]
  /\ todo'    = [k \in Indexes |-> IF k \in Volatile THEN {} ELSE todo[k]]
  /\ UNCHANGED <<requestVars, wave, next, fails, stalls, alertVars>>

\* Mutation: a job whose process died is started again without counting.
StallUncounted(k) ==
  /\ queued /\ k # 0 /\ stage[k] \in Running
  /\ EndWith(k, "waiting")
  /\ UNCHANGED <<requestVars, wave, next, fails, stalls, alertVars>>

\* The process that works on a job dies: the queue notices that it stalled.
Stall(k) ==
  /\ queued /\ k # 0 /\ stage[k] \in Running
  /\ EndWith(k, IF stalls[k] < MaxStalls THEN "waiting" ELSE "failed")
  /\ stalls' = [stalls EXCEPT ![k] = IF @ < MaxStalls THEN @ + 1 ELSE @]
  /\ UNCHANGED <<requestVars, wave, next, fails, alertVars>>

-----------------------------------------------------------------------------
Seed == CreateRequest \/ QueryWorkers \/ SeedingFails \/ Schedule \/ Publish

Execute(k) ==
  \/ ReadStatus(k) \/ Select(k) \/ FinishWave(k) \/ Throw(k) \/ Stall(k)
  \/ \E w \in Workers : Deliver(k, w)

WavesNext ==
  \/ Seed
  \/ \E k \in Indexes : Start(k) \/ Execute(k)
  \/ Restart
  \/ ChangeStatus
  \/ \E w \in Workers : ChangeWorker(w)

WavesSpec == WavesInit /\ [][WavesNext]_wavesVars

\* The queue hands out what is due, timers fire, and a statement ends or
\* throws: nothing is promised of the processes or of the push.
FairWaves ==
  /\ WavesSpec
  /\ \A k \in Indexes : WF_wavesVars(Start(k)) /\ WF_wavesVars(Execute(k))

-----------------------------------------------------------------------------
(* Properties                                                              *)

\* A worker is alerted once for a request, or once for every attempt of the
\* queue and every process that died: the retries of a wave and the waves
\* themselves never add up.
AlertsAreBounded ==
  \A w \in Workers :
    rings[w] <= IF queued /\ wave[w] # 0 THEN MaxAttempts + MaxStalls ELSE 1

\* Whatever is retried, the inbox of a worker shows the request once.
InboxShowsItOnce ==
  \A m, n \in inbox : m[1] = n[1] => m = n

\* Nobody of a later wave is alerted before everybody of wave 0 who could be
\* alerted has it in the inbox.
HasIt(w) == <<w, EventId(wave[w])>> \in inbox

NearestFirst ==
  \A v, w \in Workers :
    wave[v] = 0 /\ wave[w] \in Indexes \ {0} /\ rings[w] > 0
      => v \in excused \/ HasIt(v)

\* A wave that is done reached everybody in it, however often it was started
\* again, except who was not able or whose request was closed when it looked.
DoneIsDelivered ==
  \A w \in Workers :
    wave[w] # NoWave /\ stage[wave[w]] = "done" => w \in excused \/ HasIt(w)

\* A request that is announced as published has alerted its nearest workers.
PublishedIsAlerted ==
  \A w \in Workers :
    seeding = "published" /\ wave[w] = 0 => w \in excused \/ HasIt(w)

\* Every wave that was scheduled ends: retries, deaths and replicas do not
\* keep it going for ever.
WavesEnd ==
  \A k \in Indexes : stage[k] \in {"waiting"} \cup Running ~> stage[k] \in Ended
=============================================================================
