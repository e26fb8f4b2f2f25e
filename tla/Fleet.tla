-------------------------------- MODULE Fleet --------------------------------
(***************************************************************************)
(* Agencies and the workers they employ: the accounts an agency creates,   *)
(* the invitations by which it links an existing one, unlinking, blocking, *)
(* offers and messages in its name, and what is left when the             *)
(* administration removes it (agency.service.ts,                           *)
(* agency-operations.service.ts, admin-agencies.service.ts).               *)
(*                                                                         *)
(* As in JobMarket a statement, or a transaction, is one action, and       *)
(* `step` and `args` say what is left of a call. The check of the agency's *)
(* token goes with the first statement. The edits of the administration    *)
(* are those of UserCopies. "Mutation" marks a bug the properties find.    *)
(***************************************************************************)
EXTENDS Naturals, FiniteSets

CONSTANTS
  Agencies,     \* rows of agencies, past ones included
  Workers,      \* users of type worker, named by their email
  Calls,        \* HTTP handlers that may be in flight at the same time
  Edits,        \* edits of the administration at the same time
  MaxAttempts,  \* LINK_INVITE_MAX_ATTEMPTS
  MaxCodes,     \* bound: codes sent
  None          \* no agency, no worker, no invitation, no copy

ASSUME LimitsArePositive ==
  MaxAttempts \in Nat \ {0} /\ MaxCodes \in Nat \ {0}
ASSUME CallsAreFinite == IsFiniteSet(Calls)
ASSUME NoneIsNobody == None \notin Agencies /\ None \notin Workers

VARIABLES
  agency,     \* agencies: "none" yet, "active", "inactive" or "removed"
  account,    \* workers with a row in users
  member,     \* users.agency_id
  flag,       \* users.is_agency_worker
  blocked,    \* users.is_blocked
  invite,     \* agency_worker_invites of (agency, worker)
  codes,      \* how many codes were drawn
  inbox,      \* notifications: <<agency, worker, code>>, 0 an announcement
  offeredBy,  \* job_offers.offered_by_agency_id of the worker's offer
  step, args, \* the calls in flight
  copy, edit, \* the copies of users in Redis, and the edits in flight
  given,      \* history: <<agency, worker, code>> the worker passed on
  spent,      \* history: codes whose invitation was consumed
  tries,      \* history: guesses at the present invitation
  was,        \* history: <<agency, worker>> once linked
  overwritten \* history: workers over whom an old copy was saved

userVars    == <<account, member, flag, blocked>>
tableVars   == <<inbox, offeredBy>>
inviteVars  == <<invite, codes>>
callVars    == <<step, args>>
editVars    == <<copy, edit, overwritten>>
historyVars == <<given, spent, tries, was>>
vars == <<agency, userVars, inviteVars, tableVars, callVars, editVars,
          historyVars>>

Codes    == 1..MaxCodes
MaxTries == MaxAttempts + Cardinality(Calls)
Invites  == [code : Codes, attempts : 0..MaxTries, alive : BOOLEAN]
States   == {"none", "active", "inactive", "removed"}
Steps    == {"idle", "ask.insert", "ask.tell", "link.invite", "link.wrong",
             "link.delete", "link.write", "offer.write", "create.insert"}

\* Code 0 is no code, or one that nobody sent.
Args   == [ag : Agencies \cup {None}, wrk : Workers \cup {None},
           code : 0..MaxCodes, late : BOOLEAN]
NoArgs == [ag |-> None, wrk |-> None, code |-> 0, late |-> FALSE]

\* The columns of users that say whose worker one is.
Columns == {"agency", "flagged"}
Rows    == [agency : Agencies \cup {None}, flagged : BOOLEAN]
Row(w)  == [agency |-> member[w], flagged |-> flag[w]]

Admin == INSTANCE UserCopies WITH Users <- Workers

TypeOK ==
  /\ agency    \in [Agencies -> States]
  /\ account   \in SUBSET Workers
  /\ member    \in [Workers -> Agencies \cup {None}]
  /\ flag      \in [Workers -> BOOLEAN]
  /\ blocked   \in [Workers -> BOOLEAN]
  /\ invite    \in [Agencies \X Workers -> Invites \cup {None}]
  /\ codes     \in 0..MaxCodes
  /\ inbox     \in SUBSET (Agencies \X Workers \X (0..MaxCodes))
  /\ offeredBy \in [Workers -> Agencies \cup {None}]
  /\ step      \in [Calls -> Steps]
  /\ args      \in [Calls -> Args]
  /\ given     \in SUBSET (Agencies \X Workers \X Codes)
  /\ spent     \in SUBSET Codes
  /\ tries     \in [Agencies \X Workers -> 0..MaxTries]
  /\ was       \in SUBSET (Agencies \X Workers)
  /\ overwritten \subseteq Workers
  /\ Admin!CopiesAreRows

Init ==
  /\ agency    = [a \in Agencies |-> "none"]
  /\ account   = {}
  /\ member    = [w \in Workers |-> None]
  /\ flag      = [w \in Workers |-> FALSE]
  /\ blocked   = [w \in Workers |-> FALSE]
  /\ invite    = [p \in Agencies \X Workers |-> None]
  /\ codes     = 0
  /\ inbox     = {}
  /\ offeredBy = [w \in Workers |-> None]
  /\ step      = [c \in Calls |-> "idle"]
  /\ args      = [c \in Calls |-> NoArgs]
  /\ given     = {}
  /\ spent     = {}
  /\ tries     = [p \in Agencies \X Workers |-> 0]
  /\ was       = {}
  /\ overwritten = {}
  /\ Admin!NoCopies

Ag(c)   == args[c].ag
Wrk(c)  == args[c].wrk
Pair(c) == <<Ag(c), Wrk(c)>>

\* The agency's row is there, so that a foreign key may name it.
Stands(a) == agency[a] \in {"active", "inactive"}

\* getWorkers: what the agency sees as its fleet.
FleetOf(a) == {w \in Workers : member[w] = a /\ flag[w]}

\* The token is good: agency-jwt.strategy, validate.
Begin(c, s, a, w, n) ==
  /\ step[c] = "idle" /\ agency[a] = "active"
  /\ step' = [step EXCEPT ![c] = s]
  /\ args' = [args EXCEPT ![c] = [ag |-> a, wrk |-> w, code |-> n,
                                  late |-> n \in spent]]

Goto(c, s) == step' = [step EXCEPT ![c] = s] /\ UNCHANGED args

Return(c) ==
  /\ step' = [step EXCEPT ![c] = "idle"]
  /\ args' = [args EXCEPT ![c] = NoArgs]

-----------------------------------------------------------------------------
(* The administration and the workers, as seen from here                   *)

CreateAgency(a) ==
  /\ agency[a] = "none"
  /\ agency' = [agency EXCEPT ![a] = "active"]
  /\ UNCHANGED <<userVars, inviteVars, tableVars, callVars, historyVars>>

UpdateAgency(a) ==
  /\ Stands(a)
  /\ agency' = [agency EXCEPT ![a] = IF @ = "active" THEN "inactive"
                                                    ELSE "active"]
  /\ UNCHANGED <<userVars, inviteVars, tableVars, callVars, historyVars>>

\* DELETE FROM agencies: the foreign keys of users and of job_offers are set
\* to NULL, the rows of the agency's own tables go with it.
RemoveAgency(a) ==
  /\ Stands(a)
  /\ agency'    = [agency EXCEPT ![a] = "removed"]
  /\ member'    = [w \in Workers |-> IF member[w] = a THEN None ELSE member[w]]
  /\ offeredBy' = [w \in Workers |->
                     IF offeredBy[w] = a THEN None ELSE offeredBy[w]]
  /\ invite'    = [p \in Agencies \X Workers |->
                     IF p[1] = a THEN None ELSE invite[p]]
  /\ UNCHANGED <<account, flag, blocked, codes, inbox,
                 callVars, historyVars>>

\* The worker makes his account himself.
SignUp(w) ==
  /\ w \notin account
  /\ account' = account \cup {w}
  /\ UNCHANGED <<agency, member, flag, blocked,
                 inviteVars, tableVars, callVars, historyVars>>

\* The worker gives the agency the code he got.
PassCode(m) ==
  /\ m[3] # 0
  /\ given' = given \cup {m}
  /\ UNCHANGED <<agency, userVars, inviteVars, tableVars, callVars, spent,
                 tries, was>>

\* Fifteen minutes pass.
Expire(p) ==
  /\ invite[p] # None /\ invite[p].alive
  /\ invite' = [invite EXCEPT ![p].alive = FALSE]
  /\ UNCHANGED <<agency, userVars, codes, tableVars, callVars, historyVars>>

-----------------------------------------------------------------------------
(* linkWorker, which sends a code or consumes one                          *)

\* He is a worker, no other agency's and not yet the agency's own.
MayBeLinked(a, w) ==
  w \in account /\ member[w] \in {a, None} /\ w \notin FleetOf(a)

\* linkWorker(agencyId, email), without a code.
AskToLink(c, a, w) ==
  /\ MayBeLinked(a, w)
  /\ Begin(c, "ask.insert", a, w, 0)
  /\ UNCHANGED <<agency, userVars, inviteVars, tableVars, historyVars>>

\* With the code the worker gave, or with a guess, which misses.
LinkWithCode(c, a, w, n) ==
  /\ n = 0 \/ <<a, w, n>> \in given
  /\ MayBeLinked(a, w)
  /\ Begin(c, "link.invite", a, w, n)
  /\ UNCHANGED <<agency, userVars, inviteVars, tableVars, historyVars>>

\* The only row of the pair is written over, whatever it held.
InsertInvite(c) ==
  /\ step[c] = "ask.insert"
  /\ IF Stands(Ag(c))
     THEN /\ codes < MaxCodes
          /\ codes'  = codes + 1
          /\ invite' = [invite EXCEPT ![Pair(c)] =
               [code |-> codes + 1, attempts |-> 0, alive |-> TRUE]]
          /\ tries'  = [tries EXCEPT ![Pair(c)] = 0]
          /\ step'   = [step EXCEPT ![c] = "ask.tell"]
          /\ args'   = [args EXCEPT ![c].code = codes + 1]
     ELSE Return(c) /\ UNCHANGED <<inviteVars, tries>>
  /\ UNCHANGED <<agency, userVars, tableVars, given, spent, was>>

\* notifyAgencyLinkInvite, which may throw.
TellCode(c) ==
  /\ step[c] = "ask.tell"
  /\ Return(c)
  /\ \/ inbox' = inbox \cup {<<Ag(c), Wrk(c), args[c].code>>}
     \/ UNCHANGED inbox
  /\ UNCHANGED <<agency, userVars, inviteVars, offeredBy,
                 historyVars>>

\* Mutation: the attempts are not looked at.
RefusedUncounted(i) == i = None \/ ~ i.alive

Refused(i) == i = None \/ ~ i.alive \/ i.attempts >= MaxAttempts

\* The row is read, and the hashes compared, before anything is written.
ReadInvite(c) ==
  LET i == invite[Pair(c)] IN
  /\ step[c] = "link.invite"
  /\ IF Refused(i) THEN Return(c) /\ UNCHANGED tries
     ELSE IF i.code = args[c].code
          THEN Goto(c, "link.delete") /\ UNCHANGED tries
          ELSE /\ Goto(c, "link.wrong")
               /\ tries' = [tries EXCEPT ![Pair(c)] =
                              IF @ < MaxTries THEN @ + 1 ELSE @]
  /\ UNCHANGED <<agency, userVars, inviteVars, tableVars, given, spent, was>>

\* The attempt goes to the row there is now, a newer one too.
CountWrong(c) ==
  /\ step[c] = "link.wrong"
  /\ Return(c)
  /\ invite' = IF invite[Pair(c)] = None THEN invite
               ELSE [invite EXCEPT ![Pair(c)].attempts = @ + 1]
  /\ UNCHANGED <<agency, userVars, codes, tableVars, historyVars>>

DeleteInvite(c) ==
  /\ step[c] = "link.delete"
  /\ Goto(c, "link.write")
  /\ invite' = [invite EXCEPT ![Pair(c)] = None]
  /\ spent'  = spent \cup {args[c].code}
  /\ UNCHANGED <<agency, userVars, codes, tableVars, given, tries, was>>

\* Mutation: the WHERE names the worker only.
AnyoneMayJoin(a, w) == Stands(a)

\* WHERE agency_id IS NULL OR agency_id = $1; the foreign key fails without
\* its agency.
MayJoin(a, w) == Stands(a) /\ member[w] \in {None, a}

Link(c) ==
  /\ step[c] = "link.write"
  /\ Return(c)
  /\ IF MayJoin(Ag(c), Wrk(c))
     THEN /\ member' = [member EXCEPT ![Wrk(c)] = Ag(c)]
          /\ flag'   = [flag EXCEPT ![Wrk(c)] = TRUE]
          /\ was'    = was \cup {Pair(c)}
     ELSE UNCHANGED <<member, flag, was>>
  /\ UNCHANGED <<agency, account, blocked, inviteVars,
                 tableVars, given, spent, tries>>

-----------------------------------------------------------------------------
(* What an agency does with the workers it has                             *)

ClearAgency(w) ==
  /\ member' = [member EXCEPT ![w] = None]
  /\ flag'   = [flag EXCEPT ![w] = FALSE]

UnlinkWorker(a, w) ==
  /\ agency[a] = "active" /\ w \in FleetOf(a)
  /\ ClearAgency(w)
  /\ UNCHANGED <<agency, account, blocked, inviteVars, tableVars,
                 callVars, historyVars>>

\* A blocked worker stays blocked when the agency lets him go.
ToggleWorkerBlock(a, w) ==
  /\ agency[a] = "active" /\ w \in FleetOf(a)
  /\ blocked' = [blocked EXCEPT ![w] = ~ @]
  /\ UNCHANGED <<agency, account, member, flag, inviteVars,
                 tableVars, callVars, historyVars>>

\* The WHERE of sendOffer and of assertOwnWorker.
IsOwnWorker(a, w) == w \in FleetOf(a)

\* sendOffer reads the worker and offers afterwards; it asks, too, for a
\* verified identity.
SendOffer(c, a, w) ==
  /\ IsOwnWorker(a, w) /\ ~ blocked[w]
  /\ Begin(c, "offer.write", a, w, 0)
  /\ UNCHANGED <<agency, userVars, inviteVars, tableVars, historyVars>>

\* upsertOffer, which may refuse; what it does otherwise is in JobMarket.
UpsertOffer(c) ==
  /\ step[c] = "offer.write"
  /\ Return(c)
  /\ \/ Stands(Ag(c)) /\ offeredBy' = [offeredBy EXCEPT ![Wrk(c)] = Ag(c)]
     \/ UNCHANGED offeredBy
  /\ UNCHANGED <<agency, userVars, inviteVars, inbox, historyVars>>

\* The worker offers in his own name.
OfferAlone(w) ==
  /\ w \in account
  /\ offeredBy' = [offeredBy EXCEPT ![w] = None]
  /\ UNCHANGED <<agency, userVars, inviteVars, inbox, callVars,
                 historyVars>>

CreateWorker(c, a, w) ==
  /\ w \notin account
  /\ Begin(c, "create.insert", a, w, 0)
  /\ UNCHANGED <<agency, userVars, inviteVars, tableVars, historyVars>>

\* The unique index on the email.
IsFree(w) == w \notin account

\* The user with its credentials, in the same transaction.
InsertWorker(c) ==
  LET w == Wrk(c) IN
  /\ step[c] = "create.insert"
  /\ Return(c)
  /\ IF IsFree(w) /\ Stands(Ag(c))
     THEN /\ account' = account \cup {w}
          /\ member'  = [member EXCEPT ![w] = Ag(c)]
          /\ flag'    = [flag EXCEPT ![w] = TRUE]
          /\ was'     = was \cup {Pair(c)}
     ELSE UNCHANGED <<account, member, flag, was>>
  /\ UNCHANGED <<agency, blocked, inviteVars, tableVars, given,
                 spent, tries>>

\* Mutation: an id that is not the agency's own is not ignored.
RecipientsAny(a, W) == {w \in W \cap account : ~ blocked[w]}

Recipients(a, W) == {w \in W \cap FleetOf(a) : ~ blocked[w]}

\* sendMessage to the workers W, or to all of them: one INSERT selects who
\* gets it. The agency's own list of what it sent is left out.
SendMessage(a, W) ==
  /\ agency[a] = "active"
  /\ inbox' = inbox \cup {<<a, w, 0>> : w \in Recipients(a, W)}
  /\ UNCHANGED <<agency, userVars, inviteVars, offeredBy, callVars,
                 historyVars>>

-----------------------------------------------------------------------------
(* The administration edits a worker (update, reviewWorkerVerification)    *)

dealVars == <<agency, account, inviteVars, tableVars, callVars, historyVars>>

ReadUser(e, w) ==
  /\ w \in account
  /\ Admin!ReadUser(e, w, Row(w))
  /\ UNCHANGED <<dealVars, userVars, overwritten>>

LoadForSave(e) ==
  /\ Admin!LoadForSave(e, Row(Admin!Usr(e)))
  /\ UNCHANGED <<dealVars, userVars, overwritten>>

\* The columns of the agency come back as the copy has them, with no look at
\* who he is with now; the foreign key refuses an agency that is gone. The
\* edit sets is_blocked, or its copy does.
WriteSave(e) ==
  LET w == Admin!Usr(e)
      r == Admin!Saved(e, Row(w)) IN
  /\ Admin!SaveSucceeds(e)
  /\ r.agency \in {member[w], None} \cup {a \in Agencies : Stands(a)}
  /\ member' = [member EXCEPT ![w] = r.agency]
  /\ flag'   = [flag EXCEPT ![w] = r.flagged]
  /\ \E b \in BOOLEAN : blocked' = [blocked EXCEPT ![w] = b]
  /\ overwritten' = IF r = Row(w) THEN overwritten ELSE overwritten \cup {w}
  /\ UNCHANGED dealVars

\* The rest changes no row.
EditElsewhere(e) ==
  /\ Admin!FillCopy(e) \/ Admin!SaveFails(e) \/ Admin!ClearCopy(e)
  /\ UNCHANGED <<dealVars, userVars, overwritten>>

CopyExpires(w) ==
  /\ Admin!CopyExpires(w)
  /\ UNCHANGED <<dealVars, userVars, overwritten>>

AdminActs ==
  \/ \E e \in Edits, w \in Workers : ReadUser(e, w)
  \/ \E e \in Edits : LoadForSave(e) \/ WriteSave(e) \/ EditElsewhere(e)
  \/ \E w \in Workers : CopyExpires(w)

-----------------------------------------------------------------------------
CallBegins(c, a, w) ==
  \/ AskToLink(c, a, w) \/ SendOffer(c, a, w) \/ CreateWorker(c, a, w)
  \/ \E n \in 0..MaxCodes : LinkWithCode(c, a, w, n)

CallContinues(c) ==
  \/ InsertInvite(c) \/ TellCode(c) \/ ReadInvite(c) \/ CountWrong(c)
  \/ DeleteInvite(c) \/ Link(c) \/ UpsertOffer(c)
  \/ InsertWorker(c)

AgencyActs(a) ==
  \/ CreateAgency(a) \/ UpdateAgency(a) \/ RemoveAgency(a)
  \/ \E w \in Workers : UnlinkWorker(a, w) \/ ToggleWorkerBlock(a, w)
  \/ \E W \in SUBSET Workers : SendMessage(a, W)

WorkerActs(w) == SignUp(w) \/ OfferAlone(w)

Dealings ==
  \/ \E c \in Calls, a \in Agencies, w \in Workers : CallBegins(c, a, w)
  \/ \E c \in Calls : CallContinues(c)
  \/ \E a \in Agencies : AgencyActs(a)
  \/ \E w \in Workers : WorkerActs(w)
  \/ \E m \in inbox : PassCode(m)
  \/ \E p \in Agencies \X Workers : Expire(p)

Next ==
  \/ Dealings /\ UNCHANGED editVars
  \/ AdminActs

Spec == Init /\ [][Next]_vars

-----------------------------------------------------------------------------
(* Properties                                                              *)

\* Whatever the reads behind it, a link obeys Membership: a worker enters an
\* agency from none, and only one that registered him or that has a code from
\* him; the save of an old copy, the exception, can put him back into an agency
\* he was in, never into another (linkWorker, createWorker, unlinkWorker,
\* remove, and update in UsersService).
Contract == INSTANCE Membership WITH
  consent <- {<<m[1], m[2]>> : m \in given},
  been <- was, restored <- overwritten
ImplementsMembership == Contract!Spec

\* However many calls guess at once, an invitation stands MAX_ATTEMPTS - 1
\* wrong codes and one more for each call that read it before the others had
\* counted theirs (consumeLinkInvite).
GuessesAreBounded ==
  \A p \in Agencies \X Workers :
    tries[p] < MaxAttempts + Cardinality(Calls)

\* A call that begins when its code was already consumed links nobody: only a
\* call that raced with the one that consumed it can (consumeLinkInvite).
SpentCodesAreDead ==
  \A c \in Calls : step[c] \in {"link.delete", "link.write"} => ~ args[c].late

\* A worker with an agency is flagged as its own, and a flag without an agency,
\* which keeps him from getting jobs from anyone, is what the removal of an
\* agency he was in leaves behind; the save of an old copy may write one of the
\* two columns and not the other (unlinkWorker, linkWorker, remove, and update
\* in UsersService).
FlagFollowsAgency ==
  \A w \in Workers \ overwritten :
    /\ member[w] # None => flag[w]
    /\ flag[w] /\ member[w] = None =>
         \E a \in Agencies : agency[a] = "removed" /\ <<a, w>> \in was

\* What an agency did in the name of a worker, it did for one who was its own
\* at some time: his offer, a message. An old copy that is saved over his row
\* changes nothing of that (sendOffer, sendMessage).
DealingsFollowMembership ==
  /\ \A w \in Workers, a \in Agencies :
       offeredBy[w] = a => <<a, w>> \in was
  /\ \A m \in inbox : m[3] = 0 => <<m[1], m[2]>> \in was

\* A code admits as many guesses as the calls at once allow and one link
\* (sendLinkInvite, consumeLinkInvite).
CodesAreGuarded == GuessesAreBounded /\ SpentCodesAreDead

\* Flags, offers and messages agree with who is or was whose worker, over all
\* that links, unlinks and removes (AgencyService, AgencyOperationsService).
FleetAgrees == FlagFollowsAgency /\ DealingsFollowMembership
=============================================================================
