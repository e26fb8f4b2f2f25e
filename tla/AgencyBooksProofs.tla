-------------------------- MODULE AgencyBooksProofs --------------------------
(***************************************************************************)
(* Proofs about AgencyBooks, for any agencies, workers, jobs, calls at     *)
(* once, price, rates and number of payouts.                               *)
(***************************************************************************)
EXTENDS AgencyBooks, TLAPS

(***************************************************************************)
(* The inductive invariant                                                 *)
(***************************************************************************)

\* Every rate that RateOf may find was set by its agency.
RatesAreChosen ==
  /\ \A a \in Agencies, w \in Workers : <<a, w, general[a]>> \in chosen
  /\ \A w \in Workers : terms[w] # None =>
       <<terms[w].ag, w, terms[w].rate>> \in chosen

\* The fee follows who made the offer, as long as the offer is accepted.
JobsAreSound ==
  \A r \in Jobs :
    /\ state[r] # "open" => worker[r] \in Workers
    /\ accepted[r] => state[r] # "open"
    /\ accepted[r] /\ state[r] = "completed" => (fee[r] <=> by[r] = None)

\* A row is of a job that is over and cost no fee; while the offer is still
\* accepted, it is one of the agency that has the row.
EntryIsSound(r) ==
  /\ state[r] = "completed" /\ ~ fee[r]
  /\ accepted[r] => by[r] = ledger[r].ag
  /\ ledger[r].digital => pay[r] \in {"paid", "refunded"}
  /\ <<ledger[r].ag, ledger[r].wrk, ledger[r].rate>> \in chosen

LedgerIsSound == \A r \in Jobs : ledger[r] # None => EntryIsSound(r)

\* Whom a call is about, and that a report lists jobs that have a worker.
CallsAreGiven ==
  \A c \in Calls :
    /\ step[c] # "idle" => Ag(c) \in Agencies
    /\ step[c] \in {"terms.write", "payout.insert"} => Wrk(c) \in Workers
    /\ \A r \in args[c].listed : state[r] # "open"

\* From its synchronisation on, a report finds the rows, and shows them.
ReportsAreFrozen ==
  \A c \in Calls :
    /\ step[c] \in {"report.rows", "report.fleet", "report.shown"} =>
         \A r \in args[c].synced : ledger[r] # None
    /\ step[c] \in {"report.fleet", "report.shown"} =>
         \A r \in args[c].synced \cap args[c].listed :
           args[c].shown[r] = ledger[r].rate

Safe ==
  /\ RatesAreChosen /\ JobsAreSound /\ LedgerIsSound
  /\ CallsAreGiven /\ ReportsAreFrozen

IInv == TypeOK /\ Safe

-----------------------------------------------------------------------------
LEMMA NoArgsIsTyped == NoArgs \in Args
BY DEF NoArgs, Args, OptRates

LEMMA InitIInv == Init => IInv
<1> SUFFICES ASSUME Init PROVE IInv
  OBVIOUS
<1> USE RatesArePercents, PriceIsPositive, NoneIsNobody DEF Init
<1>1. TypeOK
  BY NoArgsIsTyped DEF TypeOK, Steps
<1>2. RatesAreChosen /\ JobsAreSound /\ LedgerIsSound
  BY DEF RatesAreChosen, JobsAreSound, LedgerIsSound
<1>3. CallsAreGiven /\ ReportsAreFrozen
  BY DEF CallsAreGiven, ReportsAreFrozen, NoArgs
<1> QED  BY <1>1, <1>2, <1>3 DEF IInv, Safe

-----------------------------------------------------------------------------
(***************************************************************************)
(* What does not touch the calls in flight                                 *)
(***************************************************************************)

\* Jobs are never open again, and rows of the ledger keep their rates.
MovesOn ==
  \A r \in Jobs :
    /\ state[r] # "open" => state'[r] # "open"
    /\ ledger[r] # None => ledger'[r] # None /\ ledger'[r].rate = ledger[r].rate

LEMMA CallsStay ==
  ASSUME IInv, UNCHANGED callVars, MovesOn
  PROVE  CallsAreGiven' /\ ReportsAreFrozen'
<1> USE DEF IInv, Safe
<1>1. UNCHANGED <<step, args>>
  BY DEF callVars
<1>2. \A c \in Calls : args[c].synced \in SUBSET Jobs /\ args[c].listed \in SUBSET Jobs
  <2> SUFFICES ASSUME NEW c \in Calls
               PROVE  args[c].synced \in SUBSET Jobs /\ args[c].listed \in SUBSET Jobs
    OBVIOUS
  <2>1. args[c] \in Args
    BY DEF TypeOK
  <2> QED  BY <2>1 DEF Args
<1>3. CallsAreGiven'
  BY <1>1, <1>2 DEF CallsAreGiven, MovesOn, Ag, Wrk
<1>4. ReportsAreFrozen'
  BY <1>1, <1>2 DEF ReportsAreFrozen, MovesOn
<1> QED  BY <1>3, <1>4

LEMMA MovesStep ==
  ASSUME IInv, NEW w \in Workers, Moves(w)
  PROVE  IInv'
<1> USE DEF IInv, Safe
<1>1. /\ UNCHANGED <<general, terms, chosen, state, worker, by, accepted, fee>>
      /\ UNCHANGED <<pay, ledger, paid, step, args>>
      /\ \E a \in Agencies \cup {None} : member' = [member EXCEPT ![w] = a]
  BY DEF Moves, jobVars, bookVars, callVars
<1>2. TypeOK'
  BY <1>1 DEF TypeOK
<1>3. RatesAreChosen' /\ JobsAreSound' /\ LedgerIsSound'
  BY <1>1 DEF RatesAreChosen, JobsAreSound, LedgerIsSound, EntryIsSound
<1>4. CallsAreGiven' /\ ReportsAreFrozen'
  BY <1>1, CallsStay DEF MovesOn, callVars
<1> QED  BY <1>2, <1>3, <1>4

LEMMA UpdateSettingsStep ==
  ASSUME IInv, NEW a \in Agencies, NEW x \in Rates, UpdateSettings(a, x)
  PROVE  IInv'
<1> USE DEF IInv, Safe
<1>1. /\ UNCHANGED <<member, terms, state, worker, by, accepted, fee>>
      /\ UNCHANGED <<pay, ledger, paid, step, args>>
      /\ general' = [general EXCEPT ![a] = x]
      /\ chosen'  = chosen \cup {<<a, w, x>> : w \in Workers}
  BY DEF UpdateSettings, jobVars, bookVars, callVars
<1>2. TypeOK'
  BY <1>1 DEF TypeOK
<1>3. RatesAreChosen'
  BY <1>1 DEF RatesAreChosen, TypeOK
<1>4. JobsAreSound' /\ LedgerIsSound'
  BY <1>1 DEF JobsAreSound, LedgerIsSound, EntryIsSound
<1>5. CallsAreGiven' /\ ReportsAreFrozen'
  BY <1>1, CallsStay DEF MovesOn, callVars
<1> QED  BY <1>2, <1>3, <1>4, <1>5

LEMMA AcceptStep ==
  ASSUME IInv, NEW r \in Jobs, NEW w \in Workers, NEW a \in Agencies \cup {None},
         Accept(r, w, a)
  PROVE  IInv'
<1> USE NoneIsNobody DEF IInv, Safe
<1>1. /\ UNCHANGED <<member, general, terms, chosen, fee, pay, ledger, paid>>
      /\ UNCHANGED <<step, args>> /\ state[r] = "open"
      /\ state'    = [state EXCEPT ![r] = "assigned"]
      /\ worker'   = [worker EXCEPT ![r] = w]
      /\ by'       = [by EXCEPT ![r] = a]
      /\ accepted' = [accepted EXCEPT ![r] = TRUE]
  BY DEF Accept, rateVars, bookVars, callVars
<1>2. TypeOK'
  BY <1>1 DEF TypeOK
<1>3. RatesAreChosen'
  BY <1>1 DEF RatesAreChosen
<1>4. JobsAreSound'
  BY <1>1 DEF JobsAreSound, TypeOK
<1>5. LedgerIsSound'
  BY <1>1 DEF LedgerIsSound, EntryIsSound, TypeOK
<1>6. CallsAreGiven' /\ ReportsAreFrozen'
  BY <1>1, CallsStay DEF MovesOn, callVars, TypeOK
<1> QED  BY <1>2, <1>3, <1>4, <1>5, <1>6

LEMMA OverwriteStep ==
  ASSUME IInv, NEW r \in Jobs, NEW a \in Agencies \cup {None}, Overwrite(r, a)
  PROVE  IInv'
<1> USE NoneIsNobody DEF IInv, Safe
<1>1. /\ UNCHANGED <<member, general, terms, chosen, fee, pay, ledger, paid>>
      /\ UNCHANGED <<step, args, state, worker>>
      /\ by'       = [by EXCEPT ![r] = a]
      /\ accepted' = [accepted EXCEPT ![r] = FALSE]
  BY DEF Overwrite, rateVars, bookVars, callVars
<1>2. TypeOK'
  BY <1>1 DEF TypeOK
<1>3. RatesAreChosen'
  BY <1>1 DEF RatesAreChosen
<1>4. JobsAreSound'
  BY <1>1 DEF JobsAreSound, TypeOK
<1>5. LedgerIsSound'
  BY <1>1 DEF LedgerIsSound, EntryIsSound, TypeOK
<1>6. CallsAreGiven' /\ ReportsAreFrozen'
  BY <1>1, CallsStay DEF MovesOn, callVars
<1> QED  BY <1>2, <1>3, <1>4, <1>5, <1>6

LEMMA CompleteJobStep ==
  ASSUME IInv, NEW r \in Jobs, CompleteJob(r)
  PROVE  IInv'
<1> USE NoneIsNobody DEF IInv, Safe
<1>1. /\ UNCHANGED <<member, general, terms, chosen, pay, ledger, paid>>
      /\ UNCHANGED <<step, args, worker, by, accepted>>
      /\ state[r] = "assigned"
      /\ state' = [state EXCEPT ![r] = "completed"]
      /\ fee'   = [fee EXCEPT ![r] = by[r] = None]
  BY DEF CompleteJob, Fee, rateVars, bookVars, callVars
<1>2. TypeOK'
  BY <1>1 DEF TypeOK
<1>3. RatesAreChosen'
  BY <1>1 DEF RatesAreChosen
<1>4. JobsAreSound'
  BY <1>1 DEF JobsAreSound, TypeOK
<1>5. LedgerIsSound'
  BY <1>1 DEF LedgerIsSound, EntryIsSound, TypeOK
<1>6. CallsAreGiven' /\ ReportsAreFrozen'
  BY <1>1, CallsStay DEF MovesOn, callVars, TypeOK
<1> QED  BY <1>2, <1>3, <1>4, <1>5, <1>6

LEMMA PaymentStep ==
  ASSUME IInv, NEW r \in Jobs, Payment(r)
  PROVE  IInv'
<1> USE DEF IInv, Safe
<1>1. /\ UNCHANGED <<member, general, terms, chosen, state, worker, by>>
      /\ UNCHANGED <<accepted, fee, ledger, paid, step, args>>
      /\ \/ pay[r] = "pending" /\ pay' = [pay EXCEPT ![r] = "paid"]
         \/ pay[r] = "paid" /\ pay' = [pay EXCEPT ![r] = "refunded"]
  <2>1. PICK p \in {<<"pending", "paid">>, <<"paid", "refunded">>} :
          pay[r] = p[1] /\ pay' = [pay EXCEPT ![r] = p[2]]
    BY DEF Payment
  <2>2. CASE p = <<"pending", "paid">>
    BY <2>1, <2>2 DEF Payment, rateVars, jobVars, bookVars, callVars
  <2>3. CASE p = <<"paid", "refunded">>
    BY <2>1, <2>3 DEF Payment, rateVars, jobVars, bookVars, callVars
  <2> QED  BY <2>1, <2>2, <2>3
<1>2. TypeOK'
  BY <1>1 DEF TypeOK
<1>3. RatesAreChosen' /\ JobsAreSound'
  BY <1>1 DEF RatesAreChosen, JobsAreSound
<1>4. LedgerIsSound'
  BY <1>1 DEF LedgerIsSound, EntryIsSound, TypeOK
<1>5. CallsAreGiven' /\ ReportsAreFrozen'
  BY <1>1, CallsStay DEF MovesOn, callVars
<1> QED  BY <1>2, <1>3, <1>4, <1>5

LEMMA DeletePayoutStep ==
  ASSUME IInv, NEW p \in Agencies \X Workers, DeletePayout(p)
  PROVE  IInv'
<1> USE PriceIsPositive DEF IInv, Safe
<1>1. /\ UNCHANGED <<member, general, terms, chosen, state, worker, by>>
      /\ UNCHANGED <<accepted, fee, ledger, pay, step, args>>
      /\ paid[p] > 0 /\ paid' = [paid EXCEPT ![p] = @ - 1]
  BY DEF DeletePayout, rateVars, jobVars, callVars
<1>2. paid' \in [Agencies \X Workers -> 0..MaxPaid]
  BY <1>1 DEF TypeOK
<1>3. TypeOK'
  BY <1>1, <1>2 DEF TypeOK
<1>4. RatesAreChosen' /\ JobsAreSound' /\ LedgerIsSound'
  BY <1>1 DEF RatesAreChosen, JobsAreSound, LedgerIsSound, EntryIsSound
<1>5. CallsAreGiven' /\ ReportsAreFrozen'
  BY <1>1, CallsStay DEF MovesOn, callVars
<1> QED  BY <1>3, <1>4, <1>5

-----------------------------------------------------------------------------
(***************************************************************************)
(* The ledger                                                              *)
(***************************************************************************)

\* The rate found for a worker is one of the agency's own for him.
LEMMA RateOfIsOwn ==
  ASSUME TypeOK, RatesAreChosen, NEW a \in Agencies, NEW w \in Workers
  PROVE  RateOf(a, w) \in Rates /\ <<a, w, RateOf(a, w)>> \in chosen
<1>1. CASE terms[w] # None /\ terms[w].ag = a
  <2>1. terms[w] \in Terms
    BY <1>1 DEF TypeOK
  <2> QED  BY <1>1, <2>1 DEF RateOf, RatesAreChosen, Terms
<1>2. CASE ~ (terms[w] # None /\ terms[w].ag = a)
  BY <1>2 DEF RateOf, RatesAreChosen, TypeOK
<1> QED  BY <1>1, <1>2

\* A synchronisation writes rows of jobs that count for the agency, sound
\* ones, and leaves of those that are there all but whether they are digital.
LEMMA SyncedIsSound ==
  ASSUME IInv, NEW a \in Agencies, NEW r \in Jobs
  PROVE  /\ Synced(a)[r] \in Rows \cup {None}
         /\ ledger[r] # None =>
              \/ Synced(a)[r] = ledger[r]
              \/ Synced(a)[r] = [ledger[r] EXCEPT !.digital = TRUE]
         /\ Counts(r, a) => Synced(a)[r] \in Rows
         /\ Synced(a)[r] # None =>
              /\ state[r] = "completed" /\ ~ fee[r]
              /\ accepted[r] => by[r] = Synced(a)[r].ag
              /\ Synced(a)[r].digital => pay[r] \in {"paid", "refunded"}
              /\ <<Synced(a)[r].ag, Synced(a)[r].wrk, Synced(a)[r].rate>>
                   \in chosen
<1> USE NoneIsNobody DEF IInv, Safe
<1>1. CASE ~ Counts(r, a)
  <2>1. Synced(a)[r] = ledger[r]
    BY <1>1 DEF Synced
  <2> QED  BY <1>1, <2>1 DEF TypeOK, LedgerIsSound, EntryIsSound
<1>2. CASE Counts(r, a) /\ ledger[r] # None
  <2> DEFINE e == [ledger[r] EXCEPT !.digital = @ \/ IsDigital(r)]
  <2>1. Synced(a)[r] = e
    BY <1>2 DEF Synced, Entry
  <2>2. ledger[r] \in Rows /\ ledger[r].digital \in BOOLEAN
    BY <1>2 DEF TypeOK, Rows
  <2>3. /\ e \in Rows /\ e.ag = ledger[r].ag /\ e.wrk = ledger[r].wrk
        /\ e.rate = ledger[r].rate /\ e.digital = (ledger[r].digital \/ IsDigital(r))
    BY <2>2 DEF Rows, IsDigital
  <2>4. e = ledger[r] \/ e = [ledger[r] EXCEPT !.digital = TRUE]
    BY <2>2 DEF Rows, IsDigital
  <2>5. EntryIsSound(r)
    BY <1>2 DEF LedgerIsSound
  <2> HIDE DEF e
  <2> QED  BY <1>2, <2>1, <2>3, <2>4, <2>5 DEF EntryIsSound, IsDigital
<1>3. CASE Counts(r, a) /\ ledger[r] = None
  <2> DEFINE e == [ag |-> a, wrk |-> worker[r], rate |-> RateOf(a, worker[r]),
                   digital |-> IsDigital(r)]
  <2>1. Synced(a)[r] = e
    BY <1>3 DEF Synced, Entry
  <2>2. /\ by[r] = a /\ accepted[r] /\ state[r] = "completed" /\ ~ fee[r]
        /\ worker[r] \in Workers
    BY <1>3 DEF Counts, JobsAreSound, TypeOK
  <2>3. /\ RateOf(a, worker[r]) \in Rates
        /\ <<a, worker[r], RateOf(a, worker[r])>> \in chosen
    BY <2>2, RateOfIsOwn
  <2>4. e \in Rows
    BY <2>2, <2>3 DEF Rows, IsDigital
  <2>5. /\ e.ag = a /\ e.wrk = worker[r] /\ e.rate = RateOf(a, worker[r])
        /\ e.digital => pay[r] \in {"paid", "refunded"}
    BY DEF IsDigital
  <2> HIDE DEF e
  <2> QED  BY <1>3, <2>1, <2>2, <2>3, <2>4, <2>5
<1> QED  BY <1>1, <1>2, <1>3

\* What every synchronisation keeps.
LEMMA SyncStep ==
  ASSUME IInv, NEW a \in Agencies, ledger' = Synced(a),
         UNCHANGED <<rateVars, jobVars, pay, paid>>
  PROVE  /\ ledger' \in [Jobs -> Rows \cup {None}] /\ MovesOn
         /\ RatesAreChosen' /\ JobsAreSound' /\ LedgerIsSound'
<1> USE DEF IInv, Safe
<1>1. /\ UNCHANGED <<member, general, terms, chosen, state, worker, by>>
      /\ UNCHANGED <<accepted, fee, pay, paid>>
  BY DEF rateVars, jobVars
<1>2. ledger' \in [Jobs -> Rows \cup {None}]
  BY SyncedIsSound DEF Synced
<1>3. MovesOn
  <2> SUFFICES ASSUME NEW r \in Jobs, ledger[r] # None
               PROVE  ledger'[r] # None /\ ledger'[r].rate = ledger[r].rate
    BY <1>1 DEF MovesOn
  <2>1. ledger[r] \in Rows
    BY DEF TypeOK
  <2>2. [ledger[r] EXCEPT !.digital = TRUE] \in Rows
    BY <2>1 DEF Rows
  <2>3. \/ ledger'[r] = ledger[r]
        \/ ledger'[r] = [ledger[r] EXCEPT !.digital = TRUE]
    BY SyncedIsSound
  <2> QED  BY <2>1, <2>2, <2>3, NoneIsNoRow DEF Rows
<1>4. RatesAreChosen' /\ JobsAreSound'
  BY <1>1 DEF RatesAreChosen, JobsAreSound
<1>5. LedgerIsSound'
  BY <1>1, SyncedIsSound DEF LedgerIsSound, EntryIsSound
<1> QED  BY <1>2, <1>3, <1>4, <1>5

LEMMA LedgerJobsStep ==
  ASSUME IInv, NEW a \in Agencies, LedgerJobs(a)
  PROVE  IInv'
<1> USE DEF IInv, Safe
<1>1. /\ ledger' = Synced(a) /\ UNCHANGED callVars
      /\ UNCHANGED <<rateVars, jobVars, pay, paid>>
  BY DEF LedgerJobs
<1>2. /\ ledger' \in [Jobs -> Rows \cup {None}] /\ MovesOn
      /\ RatesAreChosen' /\ JobsAreSound' /\ LedgerIsSound'
  BY <1>1, SyncStep
<1>3. TypeOK'
  BY <1>1, <1>2 DEF TypeOK, rateVars, jobVars, callVars
<1> QED  BY <1>1, <1>2, <1>3, CallsStay

-----------------------------------------------------------------------------
(***************************************************************************)
(* The calls in flight                                                     *)
(***************************************************************************)

LEMMA ArgsFacts ==
  ASSUME TypeOK, NEW c \in Calls
  PROVE  /\ args[c] \in Args /\ step[c] \in Steps
         /\ args[c].ag \in Agencies \cup {None}
         /\ args[c].wrk \in Workers \cup {None} /\ args[c].rate \in OptRates
         /\ args[c].synced \in SUBSET Jobs /\ args[c].listed \in SUBSET Jobs
         /\ args[c].shown \in [Jobs -> OptRates]
<1>1. args[c] \in Args /\ step[c] \in Steps
  BY DEF TypeOK
<1> QED  BY <1>1 DEF Args

\* What a step of a call leaves to show: its own arguments, as they are then.
CallIsSound(c) ==
  /\ step[c] # "idle" => Ag(c) \in Agencies
  /\ step[c] \in {"terms.write", "payout.insert"} => Wrk(c) \in Workers
  /\ \A r \in args[c].listed : state[r] # "open"
  /\ step[c] \in {"report.rows", "report.fleet", "report.shown"} =>
       \A r \in args[c].synced : ledger[r] # None
  /\ step[c] \in {"report.fleet", "report.shown"} =>
       \A r \in args[c].synced \cap args[c].listed :
         args[c].shown[r] = ledger[r].rate

LEMMA CallStep ==
  ASSUME IInv, NEW c \in Calls, NEW s \in Steps, NEW x \in Args, MovesOn,
         step' = [step EXCEPT ![c] = s], args' = [args EXCEPT ![c] = x],
         s # "idle" => x.ag \in Agencies,
         s \in {"terms.write", "payout.insert"} => x.wrk \in Workers,
         \A r \in x.listed : state'[r] # "open",
         s \in {"report.rows", "report.fleet", "report.shown"} =>
           \A r \in x.synced : ledger'[r] # None,
         s \in {"report.fleet", "report.shown"} =>
           \A r \in x.synced \cap x.listed : x.shown[r] = ledger'[r].rate
  PROVE  /\ step' \in [Calls -> Steps] /\ args' \in [Calls -> Args]
         /\ CallsAreGiven' /\ ReportsAreFrozen'
<1> USE DEF IInv, Safe
<1>1. step' \in [Calls -> Steps] /\ args' \in [Calls -> Args]
  BY DEF TypeOK
<1>2. ASSUME NEW d \in Calls PROVE CallIsSound(d)'
  <2>1. CASE d = c
    <3>1. step'[d] = s /\ args'[d] = x
      BY <2>1 DEF TypeOK
    <3> QED  BY <3>1 DEF CallIsSound, Ag, Wrk
  <2>2. CASE d # c
    <3>1. step'[d] = step[d] /\ args'[d] = args[d]
      BY <2>2 DEF TypeOK
    <3>2. args[d].synced \in SUBSET Jobs /\ args[d].listed \in SUBSET Jobs
      BY ArgsFacts
    <3>3. CallIsSound(d)
      BY DEF CallIsSound, CallsAreGiven, ReportsAreFrozen
    <3> QED  BY <3>1, <3>2, <3>3 DEF CallIsSound, MovesOn, Ag, Wrk
  <2> QED  BY <2>1, <2>2
<1>3. CallsAreGiven' /\ ReportsAreFrozen'
  BY <1>2 DEF CallIsSound, CallsAreGiven, ReportsAreFrozen
<1> QED  BY <1>1, <1>3

\* A call that begins or returns changes nothing else.
LEMMA CallOnlyStep ==
  ASSUME IInv, UNCHANGED <<rateVars, jobVars, pay, bookVars>>,
         step' \in [Calls -> Steps], args' \in [Calls -> Args],
         CallsAreGiven', ReportsAreFrozen'
  PROVE  IInv'
<1> USE DEF IInv, Safe
<1>1. /\ UNCHANGED <<member, general, terms, chosen, state, worker, by>>
      /\ UNCHANGED <<accepted, fee, pay, ledger, paid>>
  BY DEF rateVars, jobVars, bookVars
<1>2. TypeOK'
  BY <1>1 DEF TypeOK
<1>3. RatesAreChosen' /\ JobsAreSound' /\ LedgerIsSound'
  BY <1>1 DEF RatesAreChosen, JobsAreSound, LedgerIsSound, EntryIsSound
<1> QED  BY <1>2, <1>3

LEMMA NothingMovesOn == ASSUME UNCHANGED <<state, ledger>> PROVE MovesOn
BY DEF MovesOn

LEMMA BeginStep ==
  ASSUME IInv, NEW c \in Calls, NEW a \in Agencies, NEW w \in Workers \cup {None},
         NEW x \in OptRates,
         NEW s \in {"terms.write", "payout.insert", "report.sync"},
         s # "report.sync" => w \in Workers,
         Begin(c, s, a, w, x), UNCHANGED <<rateVars, jobVars, pay, bookVars>>
  PROVE  IInv'
<1> DEFINE y == [NoArgs EXCEPT !.ag = a, !.wrk = w, !.rate = x]
<1>1. y \in Args
  BY DEF NoArgs, Args, OptRates
<1>2. y.ag = a /\ y.wrk = w /\ y.listed = {} /\ y.synced = {}
  BY DEF NoArgs
<1>3. step' = [step EXCEPT ![c] = s] /\ args' = [args EXCEPT ![c] = y]
  BY DEF Begin
<1>4. MovesOn
  BY NothingMovesOn DEF jobVars, bookVars
<1>5. s \in Steps
  BY DEF Steps
<1>6. /\ step' \in [Calls -> Steps] /\ args' \in [Calls -> Args]
      /\ CallsAreGiven' /\ ReportsAreFrozen'
  <2> HIDE DEF y
  <2> QED  BY <1>1, <1>2, <1>3, <1>4, <1>5, CallStep
<1> QED  BY <1>6, CallOnlyStep

LEMMA ReturnKeeps ==
  ASSUME IInv, NEW c \in Calls, Return(c), MovesOn
  PROVE  /\ step' \in [Calls -> Steps] /\ args' \in [Calls -> Args]
         /\ CallsAreGiven' /\ ReportsAreFrozen'
<1>1. NoArgs.listed = {} /\ NoArgs.synced = {}
  BY DEF NoArgs
<1>2. "idle" \in Steps
  BY DEF Steps
<1> QED  BY <1>1, <1>2, NoArgsIsTyped, CallStep DEF Return

LEMMA WriteTermsStep ==
  ASSUME IInv, NEW c \in Calls, WriteTerms(c)
  PROVE  IInv'
<1> USE DEF IInv, Safe
<1>1. /\ UNCHANGED <<member, general, state, worker, by, accepted, fee>>
      /\ UNCHANGED <<pay, ledger, paid>> /\ Return(c)
  BY DEF WriteTerms, jobVars, bookVars
<1>2. Ag(c) \in Agencies /\ Wrk(c) \in Workers
  BY DEF WriteTerms, CallsAreGiven
<1>3. /\ terms' \in [Workers -> Terms \cup {None}]
      /\ chosen' \in SUBSET (Agencies \X Workers \X Rates)
      /\ chosen \subseteq chosen' /\ RatesAreChosen'
  <2>1. CASE args[c].rate = None
    <3>1. terms' = [terms EXCEPT ![Wrk(c)] = None] /\ chosen' = chosen
      BY <2>1 DEF WriteTerms
    <3> QED  BY <1>1, <1>2, <3>1 DEF TypeOK, RatesAreChosen
  <2>2. CASE args[c].rate # None
    <3> DEFINE t == [ag |-> Ag(c), rate |-> args[c].rate]
    <3>1. /\ terms' = [terms EXCEPT ![Wrk(c)] = t]
          /\ chosen' = chosen \cup {<<Ag(c), Wrk(c), args[c].rate>>}
      BY <2>2 DEF WriteTerms
    <3>2. args[c].rate \in Rates
      BY <2>2, ArgsFacts DEF OptRates
    <3>3. /\ t \in Terms /\ t.ag = Ag(c) /\ t.rate = args[c].rate
      BY <1>2, <3>2 DEF Terms
    <3> HIDE DEF t
    <3> QED  BY <1>1, <1>2, <3>1, <3>2, <3>3 DEF TypeOK, RatesAreChosen
  <2> QED  BY <2>1, <2>2
<1>4. MovesOn
  BY <1>1, NothingMovesOn
<1>5. /\ step' \in [Calls -> Steps] /\ args' \in [Calls -> Args]
      /\ CallsAreGiven' /\ ReportsAreFrozen'
  BY <1>1, <1>4, ReturnKeeps
<1>6. TypeOK'
  BY <1>1, <1>3, <1>5 DEF TypeOK
<1>7. JobsAreSound' /\ LedgerIsSound'
  BY <1>1, <1>3 DEF JobsAreSound, LedgerIsSound, EntryIsSound
<1> QED  BY <1>3, <1>5, <1>6, <1>7

LEMMA InsertPayoutStep ==
  ASSUME IInv, NEW c \in Calls, InsertPayout(c)
  PROVE  IInv'
<1> USE PriceIsPositive DEF IInv, Safe
<1> DEFINE p == <<Ag(c), Wrk(c)>>
<1>1. /\ UNCHANGED <<member, general, terms, chosen, state, worker, by>>
      /\ UNCHANGED <<accepted, fee, pay, ledger>> /\ Return(c)
      /\ paid[p] < MaxPaid /\ paid' = [paid EXCEPT ![p] = @ + 1]
  BY DEF InsertPayout, rateVars, jobVars
<1>2. p \in Agencies \X Workers
  BY DEF InsertPayout, CallsAreGiven
<1>3. paid' \in [Agencies \X Workers -> 0..MaxPaid]
  <2> HIDE DEF p
  <2> QED  BY <1>1, <1>2 DEF TypeOK
<1>4. MovesOn
  BY <1>1, NothingMovesOn
<1>5. /\ step' \in [Calls -> Steps] /\ args' \in [Calls -> Args]
      /\ CallsAreGiven' /\ ReportsAreFrozen'
  BY <1>1, <1>4, ReturnKeeps
<1>6. TypeOK'
  BY <1>1, <1>3, <1>5 DEF TypeOK
<1>7. RatesAreChosen' /\ JobsAreSound' /\ LedgerIsSound'
  BY <1>1 DEF RatesAreChosen, JobsAreSound, LedgerIsSound, EntryIsSound
<1> QED  BY <1>5, <1>6, <1>7

LEMMA SyncForReportStep ==
  ASSUME IInv, NEW c \in Calls, SyncForReport(c)
  PROVE  IInv'
<1> USE DEF IInv, Safe
<1> DEFINE mine == {r \in Jobs : Counts(r, Ag(c))}
           x == [args[c] EXCEPT !.synced = mine]
<1>1. /\ step[c] = "report.sync" /\ ledger' = Synced(Ag(c))
      /\ step' = [step EXCEPT ![c] = "report.rows"]
      /\ args' = [args EXCEPT ![c] = x]
      /\ UNCHANGED <<rateVars, jobVars, pay, paid>>
      /\ UNCHANGED <<member, general, terms, chosen, state, worker, by>>
      /\ UNCHANGED <<accepted, fee, pay, paid>>
  BY DEF SyncForReport, rateVars, jobVars
<1>2. Ag(c) \in Agencies /\ \A r \in args[c].listed : state[r] # "open"
  BY <1>1 DEF CallsAreGiven
<1>3. /\ ledger' \in [Jobs -> Rows \cup {None}] /\ MovesOn
      /\ RatesAreChosen' /\ JobsAreSound' /\ LedgerIsSound'
  BY <1>1, <1>2, SyncStep
<1>4. /\ x \in Args /\ x.ag = Ag(c) /\ x.synced = mine
      /\ x.listed = args[c].listed
  BY ArgsFacts DEF Args, Ag
<1>5. \A r \in mine : ledger'[r] # None
  BY <1>1, <1>2, SyncedIsSound, NoneIsNoRow
<1>6. "report.rows" \in Steps
  BY DEF Steps
<1>7. /\ step' \in [Calls -> Steps] /\ args' \in [Calls -> Args]
      /\ CallsAreGiven' /\ ReportsAreFrozen'
  <2> HIDE DEF x, mine
  <2> QED  BY <1>1, <1>2, <1>3, <1>4, <1>5, <1>6, CallStep
<1>8. TypeOK'
  BY <1>1, <1>3, <1>7 DEF TypeOK
<1> QED  BY <1>3, <1>7, <1>8

LEMMA ReadRowsStep ==
  ASSUME IInv, NEW c \in Calls, ReadRows(c)
  PROVE  IInv'
<1> USE NoneIsNobody DEF IInv, Safe
<1> DEFINE mine == {r \in Jobs : Counts(r, Ag(c))}
           rates == [r \in Jobs |-> IF r \in mine THEN FrozenRate(r) ELSE None]
           x == [args[c] EXCEPT !.listed = mine, !.shown = rates]
<1>1. /\ step[c] = "report.rows"
      /\ step' = [step EXCEPT ![c] = "report.fleet"]
      /\ args' = [args EXCEPT ![c] = x]
      /\ UNCHANGED <<rateVars, jobVars, pay, bookVars>>
      /\ UNCHANGED <<state, ledger>>
  BY DEF ReadRows, jobVars, bookVars
<1>2. /\ Ag(c) \in Agencies
      /\ \A r \in args[c].synced : ledger[r] # None
  BY <1>1 DEF CallsAreGiven, ReportsAreFrozen
<1>3. rates \in [Jobs -> OptRates]
  BY DEF FrozenRate, OptRates, TypeOK, Rows
<1>4. /\ x \in Args /\ x.ag = Ag(c) /\ x.synced = args[c].synced
      /\ x.listed = mine /\ x.shown = rates
  <2> HIDE DEF rates
  <2> QED  BY <1>3, ArgsFacts DEF Args, Ag
<1>5. \A r \in args[c].synced \cap mine : rates[r] = ledger[r].rate
  BY <1>2, ArgsFacts DEF FrozenRate
<1>6. \A r \in mine : state[r] # "open"
  BY DEF Counts
<1>7. MovesOn /\ "report.fleet" \in Steps
  BY <1>1, NothingMovesOn DEF Steps
<1>8. /\ step' \in [Calls -> Steps] /\ args' \in [Calls -> Args]
      /\ CallsAreGiven' /\ ReportsAreFrozen'
  <2> HIDE DEF x, mine, rates
  <2> QED  BY <1>1, <1>2, <1>4, <1>5, <1>6, <1>7, CallStep
<1> QED  BY <1>1, <1>8, CallOnlyStep

LEMMA ReadFleetStep ==
  ASSUME IInv, NEW c \in Calls, ReadFleet(c)
  PROVE  IInv'
<1> USE NoneIsNobody DEF IInv, Safe
<1> DEFINE own(w) ==
             IF member[w] = Ag(c) /\ terms[w] # None /\ terms[w].ag = Ag(c)
             THEN terms[w].rate ELSE args[c].rate
           rates == [r \in Jobs |->
                       IF r \in args[c].listed /\ args[c].shown[r] = None
                       THEN own(worker[r]) ELSE args[c].shown[r]]
           x == [args[c] EXCEPT !.shown = rates]
<1>1. /\ step[c] = "report.fleet"
      /\ step' = [step EXCEPT ![c] = "report.shown"]
      /\ args' = [args EXCEPT ![c] = x]
      /\ UNCHANGED <<rateVars, jobVars, pay, bookVars>>
      /\ UNCHANGED <<state, ledger>>
  BY DEF ReadFleet, jobVars, bookVars
<1>2. /\ Ag(c) \in Agencies
      /\ \A r \in args[c].listed : state[r] # "open"
      /\ \A r \in args[c].synced : ledger[r] # None
      /\ \A r \in args[c].synced \cap args[c].listed :
           args[c].shown[r] = ledger[r].rate
  BY <1>1 DEF CallsAreGiven, ReportsAreFrozen
<1>3. \A w \in Workers : own(w) \in OptRates
  BY ArgsFacts DEF TypeOK, Terms, OptRates
<1>4. \A r \in args[c].listed : worker[r] \in Workers
  BY <1>2, ArgsFacts DEF JobsAreSound
<1>5. rates \in [Jobs -> OptRates]
  <2> HIDE DEF own
  <2> QED  BY <1>3, <1>4, ArgsFacts
<1>6. /\ x \in Args /\ x.ag = Ag(c) /\ x.synced = args[c].synced
      /\ x.listed = args[c].listed /\ x.shown = rates
  <2> HIDE DEF rates
  <2> QED  BY <1>5, ArgsFacts DEF Args, Ag
<1>7. ASSUME NEW r \in args[c].synced \cap args[c].listed
      PROVE  rates[r] = ledger[r].rate
  <2>1. r \in Jobs /\ ledger[r] \in Rows
    BY <1>2, ArgsFacts DEF TypeOK
  <2>2. ledger[r].rate # None
    BY <2>1 DEF Rows
  <2> QED  BY <1>2, <2>1, <2>2
<1>8. MovesOn /\ "report.shown" \in Steps
  BY <1>1, NothingMovesOn DEF Steps
<1>9. /\ step' \in [Calls -> Steps] /\ args' \in [Calls -> Args]
      /\ CallsAreGiven' /\ ReportsAreFrozen'
  <2> HIDE DEF x, rates
  <2> QED  BY <1>1, <1>2, <1>6, <1>7, <1>8, CallStep
<1> QED  BY <1>1, <1>9, CallOnlyStep

LEMMA EndReportStep ==
  ASSUME IInv, NEW c \in Calls, EndReport(c)
  PROVE  IInv'
<1>1. Return(c) /\ UNCHANGED <<rateVars, jobVars, pay, bookVars>>
  BY DEF EndReport
<1>2. MovesOn
  BY <1>1, NothingMovesOn DEF jobVars, bookVars
<1> QED  BY <1>1, <1>2, ReturnKeeps, CallOnlyStep

-----------------------------------------------------------------------------
(***************************************************************************)
(* The theorems                                                            *)
(***************************************************************************)

LEMMA StepKeepsIInv == IInv /\ [Next]_vars => IInv'
<1> SUFFICES ASSUME IInv, [Next]_vars PROVE IInv'
  OBVIOUS
<1>1. ASSUME NEW c \in Calls, CallBegins(c) PROVE IInv'
  <2>1. ASSUME NEW a \in Agencies, GetReports(c, a) PROVE IInv'
    <3>1. general[a] \in OptRates
      BY DEF IInv, TypeOK, OptRates
    <3> QED  BY <2>1, <3>1, BeginStep DEF GetReports
  <2>2. ASSUME NEW a \in Agencies, NEW w \in Workers, CreatePayout(c, a, w)
        PROVE  IInv'
    <3>1. None \in OptRates
      BY DEF OptRates
    <3> QED  BY <2>2, <3>1, BeginStep DEF CreatePayout
  <2>3. ASSUME NEW a \in Agencies, NEW w \in Workers, NEW x \in OptRates,
               SetWorkerCommission(c, a, w, x)
        PROVE  IInv'
    BY <2>3, BeginStep DEF SetWorkerCommission
  <2> QED  BY <1>1, <2>1, <2>2, <2>3 DEF CallBegins
<1>2. ASSUME NEW c \in Calls, CallContinues(c) PROVE IInv'
  BY <1>2, WriteTermsStep, InsertPayoutStep, SyncForReportStep, ReadRowsStep,
     ReadFleetStep, EndReportStep DEF CallContinues
<1>3. ASSUME NEW r \in Jobs, JobSteps(r) PROVE IInv'
  BY <1>3, AcceptStep, OverwriteStep, CompleteJobStep, PaymentStep DEF JobSteps
<1>4. ASSUME NEW w \in Workers, Moves(w) PROVE IInv'
  BY <1>4, MovesStep
<1>5. ASSUME NEW a \in Agencies,
             LedgerJobs(a) \/ \E x \in Rates : UpdateSettings(a, x)
      PROVE  IInv'
  BY <1>5, LedgerJobsStep, UpdateSettingsStep
<1>6. ASSUME NEW p \in Agencies \X Workers, DeletePayout(p) PROVE IInv'
  BY <1>6, DeletePayoutStep
<1>7. CASE UNCHANGED vars
  <2>1. UNCHANGED <<rateVars, jobVars, pay, bookVars, callVars>>
    BY <1>7 DEF vars
  <2>2. /\ UNCHANGED <<member, general, terms, chosen, state, worker, by>>
        /\ UNCHANGED <<accepted, fee, pay, ledger, paid, step, args>>
    BY <2>1 DEF rateVars, jobVars, bookVars, callVars
  <2>3. step' \in [Calls -> Steps] /\ args' \in [Calls -> Args]
    BY <2>2 DEF IInv, TypeOK
  <2>4. CallsAreGiven' /\ ReportsAreFrozen'
    BY <2>1, <2>2, NothingMovesOn, CallsStay
  <2> QED  BY <2>1, <2>3, <2>4, CallOnlyStep
<1> QED  BY <1>1, <1>2, <1>3, <1>4, <1>5, <1>6, <1>7 DEF Next

\* Every reachable state satisfies the inductive invariant: rates are set by
\* their agency, a row of the ledger is of a job that is over, and a report
\* finds the rows it made.
THEOREM Invariance == Spec => []IInv
BY InitIInv, StepKeepsIInv, PTL DEF Spec

\* The variables keep their types: what is paid stays within its bound.
THEOREM TypeCorrect == Spec => []TypeOK
<1>1. IInv => TypeOK
  BY DEF IInv
<1> QED  BY <1>1, Invariance, PTL

\* As long as its agency is there (a removed one takes its rows with it), no
\* step of the handlers that share the books changes a row of the ledger but for
\* turning it from cash to digital (syncLedger).
THEOREM LedgerStaysFrozen == Spec => LedgerIsFrozen
<1> DEFINE Frozen == \A r \in Jobs : ledger[r] # None =>
             \/ ledger'[r] = ledger[r]
             \/ ledger'[r] = [ledger[r] EXCEPT !.digital = TRUE]
<1>1. IInv /\ [Next]_vars => [Frozen]_vars
  <2> SUFFICES ASSUME IInv, Next PROVE Frozen
    OBVIOUS
  <2>1. ASSUME NEW a \in Agencies, ledger' = Synced(a) PROVE Frozen
    BY <2>1, SyncedIsSound
  <2>2. CASE UNCHANGED ledger
    BY <2>2
  <2>3. ASSUME NEW c \in Calls, CallBegins(c) PROVE Frozen
    <3>1. UNCHANGED ledger
      BY <2>3 DEF CallBegins, GetReports, CreatePayout, SetWorkerCommission,
         bookVars
    <3> QED  BY <3>1, <2>2
  <2>4. ASSUME NEW c \in Calls, CallContinues(c) PROVE Frozen
    <3>1. CASE SyncForReport(c)
      <4>1. ledger' = Synced(Ag(c)) /\ Ag(c) \in Agencies
        BY <3>1 DEF SyncForReport, IInv, Safe, CallsAreGiven
      <4> QED  BY <4>1, <2>1
    <3>2. CASE ~ SyncForReport(c)
      <4>1. UNCHANGED ledger
        BY <2>4, <3>2 DEF CallContinues, WriteTerms, InsertPayout, ReadRows,
           ReadFleet, EndReport, bookVars
      <4> QED  BY <4>1, <2>2
    <3> QED  BY <3>1, <3>2
  <2>5. ASSUME NEW r \in Jobs, JobSteps(r) PROVE Frozen
    <3>1. UNCHANGED ledger
      BY <2>5 DEF JobSteps, CompleteJob, Payment, Accept, Overwrite, bookVars
    <3> QED  BY <3>1, <2>2
  <2>6. ASSUME NEW w \in Workers, Moves(w) PROVE Frozen
    <3>1. UNCHANGED ledger
      BY <2>6 DEF Moves, bookVars
    <3> QED  BY <3>1, <2>2
  <2>7. ASSUME NEW a \in Agencies, LedgerJobs(a) PROVE Frozen
    BY <2>7, <2>1 DEF LedgerJobs
  <2>8. ASSUME NEW a \in Agencies, NEW x \in Rates, UpdateSettings(a, x)
        PROVE  Frozen
    <3>1. UNCHANGED ledger
      BY <2>8 DEF UpdateSettings, bookVars
    <3> QED  BY <3>1, <2>2
  <2>9. ASSUME NEW p \in Agencies \X Workers, DeletePayout(p) PROVE Frozen
    BY <2>9, <2>2 DEF DeletePayout
  <2> HIDE DEF Frozen
  <2> QED  BY <2>3, <2>4, <2>5, <2>6, <2>7, <2>8, <2>9 DEF Next
<1> QED  BY <1>1, Invariance, PTL DEF Spec, LedgerIsFrozen

\* A report applies to every job that was done when it began the commission
\* that the ledger has, whatever is set and synchronised while it reads.
THEOREM ReportsMatchTheLedger == Spec => []ReportMatchesLedger
<1>1. IInv => ReportMatchesLedger
  BY DEF IInv, Safe, ReportsAreFrozen, ReportMatchesLedger
<1> QED  BY <1>1, Invariance, PTL

\* The sum over no job at all is zero.
LEMMA SumOfNothing ==
  ASSUME NEW F(_) PROVE MapThenSumSet(F, {}) = 0
<1> DEFINE value(f, s) == IF s = {} THEN 0
                          ELSE LET x == CHOOSE x \in s : TRUE
                               IN  F(x) + f[s \ {x}]
           sums(f) == f = [s \in SUBSET {} |-> value(f, s)]
<1>1. sums([s \in {{}} |-> 0])
  OBVIOUS
<1>2. sums(CHOOSE f : sums(f))
  <2> HIDE DEF sums
  <2> QED  BY <1>1
<1>3. (CHOOSE f : sums(f))[{}] = 0
  BY <1>2
<1>4. MapThenSumSet(F, {}) = (CHOOSE f : sums(f))[{}]
  BY DEF MapThenSumSet, MapThenFoldSet
<1> QED  BY <1>3, <1>4

\* A worker without an account with an agency has no job in its ledger and no
\* payout, so that nothing is owed either way.
LEMMA NoAccountNoBalance ==
  ASSUME TypeOK, NEW a \in Agencies, NEW w \in Workers, ~ HasAccount(a, w)
  PROVE  Balance(a, w) = 0
<1>1. paid[<<a, w>>] \in 0..MaxPaid /\ ~ paid[<<a, w>>] > 0
  BY DEF TypeOK, HasAccount
<1>2. paid[<<a, w>>] = 0
  BY <1>1, PriceIsPositive
<1>3. {r \in Jobs : ledger[r] # None /\ ledger[r].ag = a /\ ledger[r].wrk = w}
        = {}
  BY DEF HasAccount
<1>4. MapThenSumSet(LAMBDA r : WorkerShare(ledger[r].rate), {}) = 0
  BY SumOfNothing
<1> QED  BY <1>2, <1>3, <1>4 DEF Balance

\* What a job leaves to pay is owed once, by the one that got the money, at a
\* rate of the agency's own, and can be settled, for any number of agencies,
\* workers, jobs and handlers at once.
THEOREM DebtsStaySound == Spec => []DebtsAreSound
<1>1. IInv => RatesAreOwn /\ BilledOnce /\ DigitalWasPaid
  BY DEF IInv, Safe, LedgerIsSound, EntryIsSound, RatesAreOwn, BilledOnce,
     DigitalWasPaid
<1>2. IInv => DebtsCanBeSettled
  BY NoAccountNoBalance DEF IInv, DebtsCanBeSettled
<1>3. IInv => OwedOnce
  BY NoneIsNobody DEF IInv, Safe, LedgerIsSound, EntryIsSound, OwedOnce,
     ChambaOwes, WalletOwes, Dashboard, AssignedJobs
<1>4. IInv => DebtsAreSound
  BY <1>1, <1>2, <1>3 DEF DebtsAreSound
<1> QED  BY <1>4, Invariance, PTL
=============================================================================
