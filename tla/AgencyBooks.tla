----------------------------- MODULE AgencyBooks -----------------------------
(***************************************************************************)
(* The accounts of the agencies: the commission of each worker, the ledger *)
(* that freezes it for every job done, what is owed and paid to workers,   *)
(* and the report that shows it (agency-operations.service.ts, getReports  *)
(* in agency.service.ts, the fee in completeJob).                          *)
(*                                                                         *)
(* Workers change agency as they do in Fleet, old copies that are saved    *)
(* included; the removal of an agency, which takes its books with it, is   *)
(* left out. A job is seen from its assignment on, with the only offer     *)
(* that counts for it. Every job is worth Price, a payout is worth one.    *)
(***************************************************************************)
EXTENDS Integers, FiniteSets, FiniteSetsExt

CONSTANTS
  Agencies, Workers,
  Jobs,      \* rows of job_requests
  Calls,     \* HTTP handlers that may be in flight at the same time
  Price,     \* job_requests.settled_amount
  Rates,     \* commissions, in percent
  MaxPaid,   \* bound: payouts to a worker
  None       \* no agency, no rate, no row

ASSUME RatesArePercents == Rates \subseteq 0..100 /\ 0 \in Rates
ASSUME PriceIsPositive  == Price \in Nat \ {0} /\ MaxPaid \in Nat
ASSUME NoneIsNobody     == None \notin Agencies /\ None \notin Workers
                           /\ None \notin Rates

VARIABLES
  member,      \* users.agency_id, with is_agency_worker
  general,     \* agencies.worker_commission_rate
  terms,       \* agency_worker_terms: the only row of a worker
  state,       \* job_requests.status
  worker, by,  \* job_offers: the worker, offered_by_agency_id
  accepted,    \* job_offers.status = 'accepted'
  fee,         \* job_requests.platform_fee is not NULL
  pay,         \* payments.status; "pending" is also no payment
  ledger,      \* agency_job_ledger
  paid,        \* agency_payouts of the worker
  step, args,  \* the calls in flight
  chosen       \* history: <<a, w, x>>: a set x for all its workers, or for w

rateVars  == <<member, general, terms, chosen>>
jobVars   == <<state, worker, by, accepted, fee>>
bookVars  == <<ledger, paid>>
callVars  == <<step, args>>
vars      == <<rateVars, jobVars, pay, bookVars, callVars>>

NoArgs == [ag |-> None, wrk |-> None, rate |-> None, synced |-> {},
           listed |-> {}, shown |-> [r \in Jobs |-> None]]

OptRates == Rates \cup {None}
Rows     == [ag : Agencies, wrk : Workers, rate : Rates, digital : BOOLEAN]
Terms    == [ag : Agencies, rate : Rates]
Args     == [ag : Agencies \cup {None}, wrk : Workers \cup {None},
             rate : OptRates, synced : SUBSET Jobs, listed : SUBSET Jobs,
             shown : [Jobs -> OptRates]]

ASSUME NoneIsNoRow == None \notin Rows

Steps    == {"idle", "terms.write", "payout.insert", "report.sync",
             "report.rows", "report.fleet", "report.shown"}

TypeOK ==
  /\ member   \in [Workers -> Agencies \cup {None}]
  /\ general  \in [Agencies -> Rates]
  /\ terms    \in [Workers -> Terms \cup {None}]
  /\ state    \in [Jobs -> {"open", "assigned", "completed"}]
  /\ worker   \in [Jobs -> Workers \cup {None}]
  /\ by       \in [Jobs -> Agencies \cup {None}]
  /\ accepted \in [Jobs -> BOOLEAN]
  /\ fee      \in [Jobs -> BOOLEAN]
  /\ pay      \in [Jobs -> {"pending", "paid", "refunded"}]
  /\ ledger   \in [Jobs -> Rows \cup {None}]
  /\ paid     \in [Agencies \X Workers -> 0..MaxPaid]
  /\ step     \in [Calls -> Steps]
  /\ args     \in [Calls -> Args]
  /\ chosen   \in SUBSET (Agencies \X Workers \X Rates)

Init ==
  /\ member   = [w \in Workers |-> None]
  /\ general  = [a \in Agencies |-> 0]
  /\ terms    = [w \in Workers |-> None]
  /\ state    = [r \in Jobs |-> "open"]
  /\ worker   = [r \in Jobs |-> None]
  /\ by       = [r \in Jobs |-> None]
  /\ accepted = [r \in Jobs |-> FALSE]
  /\ fee      = [r \in Jobs |-> FALSE]
  /\ pay      = [r \in Jobs |-> "pending"]
  /\ ledger   = [r \in Jobs |-> None]
  /\ paid     = [p \in Agencies \X Workers |-> 0]
  /\ step     = [c \in Calls |-> "idle"]
  /\ args     = [c \in Calls |-> NoArgs]
  /\ chosen   = Agencies \X Workers \X {0}

Ag(c)  == args[c].ag
Wrk(c) == args[c].wrk

Begin(c, s, a, w, x) ==
  /\ step[c] = "idle"
  /\ step' = [step EXCEPT ![c] = s]
  /\ args' = [args EXCEPT ![c] = [NoArgs EXCEPT !.ag = a, !.wrk = w,
                                                !.rate = x]]

Return(c) ==
  /\ step' = [step EXCEPT ![c] = "idle"]
  /\ args' = [args EXCEPT ![c] = NoArgs]

-----------------------------------------------------------------------------
(* Membership and commissions                                              *)

\* Join, Hire, Leave and Restore of Membership, of which the last may move a
\* worker from one agency to another at once; the terms stay.
Moves(w) ==
  /\ \E a \in Agencies \cup {None} : member' = [member EXCEPT ![w] = a]
  /\ UNCHANGED <<general, terms, chosen, jobVars, pay, bookVars, callVars>>

UpdateSettings(a, x) ==
  /\ general' = [general EXCEPT ![a] = x]
  /\ chosen'  = chosen \cup {<<a, w, x>> : w \in Workers}
  /\ UNCHANGED <<member, terms, jobVars, pay, bookVars, callVars>>

\* assertOwnWorker; None stands for "use the general one".
SetWorkerCommission(c, a, w, x) ==
  /\ member[w] = a
  /\ Begin(c, "terms.write", a, w, x)
  /\ UNCHANGED <<rateVars, jobVars, pay, bookVars>>

\* Both statements name the worker only: the row may be another agency's by
\* now.
WriteTerms(c) ==
  /\ step[c] = "terms.write"
  /\ Return(c)
  /\ IF args[c].rate = None
     THEN terms' = [terms EXCEPT ![Wrk(c)] = None] /\ UNCHANGED chosen
     ELSE /\ terms'  = [terms EXCEPT ![Wrk(c)] =
                          [ag |-> Ag(c), rate |-> args[c].rate]]
          /\ chosen' = chosen \cup {<<Ag(c), Wrk(c), args[c].rate>>}
  /\ UNCHANGED <<member, general, jobVars, pay, bookVars>>

\* COALESCE(t.commission_rate, a.worker_commission_rate).
RateOf(a, w) ==
  IF terms[w] # None /\ terms[w].ag = a THEN terms[w].rate ELSE general[a]

-----------------------------------------------------------------------------
(* Jobs and payments, as seen from here                                    *)

\* An offer of w, made by himself or by an agency he was in, is accepted.
Accept(r, w, a) ==
  /\ state[r] = "open" /\ a \in {None, member[w]}
  /\ state'    = [state EXCEPT ![r] = "assigned"]
  /\ worker'   = [worker EXCEPT ![r] = w]
  /\ by'       = [by EXCEPT ![r] = a]
  /\ accepted' = [accepted EXCEPT ![r] = TRUE]
  /\ UNCHANGED <<rateVars, fee, pay, bookVars, callVars>>

\* An upsertOffer that read the offer before it was accepted (see JobMarket):
\* it is pending again, and in the name of whoever made the call.
Overwrite(r, a) ==
  /\ accepted[r] /\ a \in {None, member[worker[r]]}
  /\ accepted' = [accepted EXCEPT ![r] = FALSE]
  /\ by'       = [by EXCEPT ![r] = a]
  /\ UNCHANGED <<rateVars, state, worker, fee, pay, bookVars, callVars>>

Fee(a) == a = None

\* platform_fee is NULL for the jobs of an agency.
CompleteJob(r) ==
  /\ state[r] = "assigned" /\ accepted[r]
  /\ state' = [state EXCEPT ![r] = "completed"]
  /\ fee'   = [fee EXCEPT ![r] = Fee(by[r])]
  /\ UNCHANGED <<rateVars, worker, by, accepted, pay, bookVars, callVars>>

\* The payment of the request; the provider may confirm it after the job.
Payment(r) ==
  /\ \E p \in {<<"pending", "paid">>, <<"paid", "refunded">>} :
       pay[r] = p[1] /\ pay' = [pay EXCEPT ![r] = p[2]]
  /\ UNCHANGED <<rateVars, jobVars, bookVars, callVars>>

-----------------------------------------------------------------------------
(* The ledger                                                              *)

Counts(r, a) == by[r] = a /\ accepted[r] /\ state[r] = "completed"

IsDigital(r) == pay[r] = "paid"

\* Mutation: the conflict writes the whole row anew.
EntryAnew(r, a) ==
  [ag |-> a, wrk |-> worker[r], rate |-> RateOf(a, worker[r]),
   digital |-> IsDigital(r)]

\* A row that is there only turns digital.
Entry(r, a) ==
  IF ledger[r] # None THEN [ledger[r] EXCEPT !.digital = @ \/ IsDigital(r)]
  ELSE [ag |-> a, wrk |-> worker[r], rate |-> RateOf(a, worker[r]),
        digital |-> IsDigital(r)]

\* syncLedger: one INSERT ... SELECT ... ON CONFLICT.
Synced(a) ==
  [r \in Jobs |-> IF Counts(r, a) THEN Entry(r, a) ELSE ledger[r]]

\* ledgerJobs, on behalf of getPayouts, getChambaAccount or createSettlement.
LedgerJobs(a) ==
  /\ ledger' = Synced(a)
  /\ UNCHANGED <<rateVars, jobVars, pay, paid, callVars>>

-----------------------------------------------------------------------------
(* What is owed to the workers, and paid                                   *)

\* round2(amount * workerRate / 100), and the worker's share of the job.
AgencyCut(x) == (Price * x) \div 100

WorkerShare(x) == Price - AgencyCut(x)

\* balance of getPayouts: earned less paid, as its queries find them.
Balance(a, w) ==
  MapThenSumSet(LAMBDA r : WorkerShare(ledger[r].rate),
    {r \in Jobs : ledger[r] # None /\ ledger[r].ag = a /\ ledger[r].wrk = w})
  - paid[<<a, w>>]

\* assertWorkerWithAccount: his agency, a job in the ledger, or a payout.
HasAccount(a, w) ==
  \/ member[w] = a
  \/ \E r \in Jobs : ledger[r] # None /\ ledger[r].ag = a /\ ledger[r].wrk = w
  \/ paid[<<a, w>>] > 0

CreatePayout(c, a, w) ==
  /\ HasAccount(a, w)
  /\ Begin(c, "payout.insert", a, w, None)
  /\ UNCHANGED <<rateVars, jobVars, pay, bookVars>>

InsertPayout(c) ==
  LET p == <<Ag(c), Wrk(c)>> IN
  /\ step[c] = "payout.insert"
  /\ paid[p] < MaxPaid
  /\ paid' = [paid EXCEPT ![p] = @ + 1]
  /\ Return(c)
  /\ UNCHANGED <<rateVars, jobVars, pay, ledger>>

DeletePayout(p) ==
  /\ paid[p] > 0
  /\ paid' = [paid EXCEPT ![p] = @ - 1]
  /\ UNCHANGED <<rateVars, jobVars, pay, ledger, callVars>>

-----------------------------------------------------------------------------
(* getReports: four statements, of which nothing keeps the others apart    *)

\* SELECT worker_commission_rate AS commission_rate.
GetReports(c, a) ==
  /\ Begin(c, "report.sync", a, None, general[a])
  /\ UNCHANGED <<rateVars, jobVars, pay, bookVars>>

SyncForReport(c) ==
  /\ step[c] = "report.sync"
  /\ ledger' = Synced(Ag(c))
  /\ step'   = [step EXCEPT ![c] = "report.rows"]
  /\ args'   = [args EXCEPT ![c].synced = {r \in Jobs : Counts(r, Ag(c))}]
  /\ UNCHANGED <<rateVars, jobVars, pay, paid>>

\* Mutation: the report looks at the rates of today only.
FrozenRateUnread(r) == None

\* LEFT JOIN agency_job_ledger.
FrozenRate(r) == IF ledger[r] = None THEN None ELSE ledger[r].rate

\* Of the jobs it lists, those completed count for the money.
ReadRows(c) ==
  LET mine == {r \in Jobs : Counts(r, Ag(c))} IN
  /\ step[c] = "report.rows"
  /\ step' = [step EXCEPT ![c] = "report.fleet"]
  /\ args' = [args EXCEPT ![c].listed = mine,
                          ![c].shown = [r \in Jobs |->
                            IF r \in mine THEN FrozenRate(r) ELSE None]]
  /\ UNCHANGED <<rateVars, jobVars, pay, bookVars>>

\* getWorkers has the own rates of the workers of today; what is still without
\* a rate gets one.
ReadFleet(c) ==
  LET a == Ag(c)
      own(w) == IF member[w] = a /\ terms[w] # None /\ terms[w].ag = a
                THEN terms[w].rate ELSE args[c].rate
  IN
  /\ step[c] = "report.fleet"
  /\ step' = [step EXCEPT ![c] = "report.shown"]
  /\ args' = [args EXCEPT ![c].shown = [r \in Jobs |->
                 IF r \in args[c].listed /\ args[c].shown[r] = None
                 THEN own(worker[r]) ELSE args[c].shown[r]]]
  /\ UNCHANGED <<rateVars, jobVars, pay, bookVars>>

EndReport(c) ==
  /\ step[c] = "report.shown"
  /\ Return(c)
  /\ UNCHANGED <<rateVars, jobVars, pay, bookVars>>

-----------------------------------------------------------------------------
(* Three more screens that count the same money                            *)

\* getAssignedJobs of an agency; its getDashboard counts those completed.
AssignedJobs(a) == {r \in Jobs : by[r] = a /\ accepted[r]}

Dashboard(a) == {r \in AssignedJobs(a) : state[r] = "completed"}

\* getChambaAccount: what Chamba collected for the agency.
ChambaOwes(a) ==
  {r \in Jobs : ledger[r] # None /\ ledger[r].ag = a /\ ledger[r].digital}

\* Mutation: who made the offer is not asked.
WalletOwesAnyone(w) ==
  {r \in Jobs : worker[r] = w /\ accepted[r] /\ state[r] = "completed"
                /\ pay[r] = "paid"}

\* digital_collected of getAdminWallet: what Chamba collected for a worker.
WalletOwes(w) ==
  {r \in Jobs : worker[r] = w /\ accepted[r] /\ state[r] = "completed"
                /\ by[r] = None /\ pay[r] = "paid"}

-----------------------------------------------------------------------------
CallBegins(c) ==
  \E a \in Agencies :
    \/ GetReports(c, a)
    \/ \E w \in Workers :
         \/ CreatePayout(c, a, w)
         \/ \E x \in OptRates : SetWorkerCommission(c, a, w, x)

CallContinues(c) ==
  \/ WriteTerms(c) \/ InsertPayout(c)
  \/ SyncForReport(c) \/ ReadRows(c) \/ ReadFleet(c) \/ EndReport(c)

JobSteps(r) ==
  \/ CompleteJob(r) \/ Payment(r)
  \/ \E w \in Workers, a \in Agencies \cup {None} : Accept(r, w, a)
  \/ \E a \in Agencies \cup {None} : Overwrite(r, a)

Next ==
  \/ \E c \in Calls : CallBegins(c) \/ CallContinues(c)
  \/ \E r \in Jobs : JobSteps(r)
  \/ \E w \in Workers : Moves(w)
  \/ \E a \in Agencies : LedgerJobs(a) \/ \E x \in Rates : UpdateSettings(a, x)
  \/ \E p \in Agencies \X Workers : DeletePayout(p)

Spec == Init /\ [][Next]_vars

-----------------------------------------------------------------------------
(* Properties                                                              *)

\* "Cambiar una comision despues no reescribe cuentas pasadas" (syncLedger): a
\* row of the ledger keeps all it says, and only turns from cash to digital,
\* whatever becomes of the job, of the worker and of the payment, for as long as
\* the agency is there.
LedgerIsFrozen ==
  [][\A r \in Jobs : ledger[r] # None =>
       \/ ledger'[r] = ledger[r]
       \/ ledger'[r] = [ledger[r] EXCEPT !.digital = TRUE]]_vars

\* What an agency keeps of a job is a commission that it set itself, for that
\* worker or for all of its own: never the one of another agency the worker
\* was in before or went to afterwards (syncLedger, setWorkerCommission).
RatesAreOwn ==
  \A r \in Jobs : ledger[r] # None =>
    <<ledger[r].ag, ledger[r].wrk, ledger[r].rate>> \in chosen

\* No job is billed to its worker by the platform and to an agency as well,
\* also when a late offer changes in whose name it was made (completeJob,
\* syncLedger, upsertOffer).
BilledOnce == \A r \in Jobs : ledger[r] # None => ~ fee[r]

\* What the ledger calls digital, Chamba was paid, even if it paid it back
\* since (syncLedger).
DigitalWasPaid ==
  \A r \in Jobs : ledger[r] # None /\ ledger[r].digital =>
    pay[r] \in {"paid", "refunded"}

\* "Desvincularlo no borra lo que se le debe": as long as the balance of a
\* worker is not zero, createPayout accepts him (assertWorkerWithAccount).
DebtsCanBeSettled ==
  \A a \in Agencies, w \in Workers : Balance(a, w) # 0 => HasAccount(a, w)

\* What a client paid to Chamba is owed to one side only, the agency or the
\* worker, and the revenue an agency is shown is of jobs that no ledger has
\* for another one, whoever made which offer when (getChambaAccount,
\* getAdminWallet, getDashboard).
OwedOnce ==
  \A a \in Agencies :
    /\ \A w \in Workers : ChambaOwes(a) \cap WalletOwes(w) = {}
    /\ \A r \in Dashboard(a) : ledger[r] = None \/ ledger[r].ag = a

\* A report applies the commission of the ledger to every job that was done
\* when it began, whatever is set while it reads (getReports).
ReportMatchesLedger ==
  \A c \in Calls : step[c] = "report.shown" =>
    \A r \in args[c].synced \cap args[c].listed :
      args[c].shown[r] = ledger[r].rate

\* What a job leaves to pay is owed once, by the one that got the money, at a
\* rate of the agency's own, and can be settled (syncLedger, completeJob,
\* createPayout, getAdminWallet).
DebtsAreSound ==
  RatesAreOwn /\ BilledOnce /\ DigitalWasPaid /\ DebtsCanBeSettled /\ OwedOnce
=============================================================================
