---------------------------- MODULE FleetProofs ----------------------------
(***************************************************************************)
(* Proofs about Fleet, for any agencies, workers and finitely many calls   *)
(* at once, any limit on attempts and any number of codes.                 *)
(***************************************************************************)
EXTENDS Fleet, FiniteSetTheorems, TLAPS

(***************************************************************************)
(* The inductive invariant                                                 *)
(***************************************************************************)

Pairs   == Agencies \X Workers
Linking == {"link.invite", "link.wrong", "link.delete", "link.write"}

\* Every call in flight is one of an agency, about a worker.
CallsHaveArguments ==
  \A c \in Calls : step[c] # "idle" => Ag(c) \in Agencies /\ Wrk(c) \in Workers

\* The calls that have read an invitation and not yet counted their guess.
Guessing(p) == {c \in Calls : step[c] = "link.wrong" /\ Pair(c) = p}

\* A guess is an attempt, counted or about to be.
GuessesAreCounted ==
  \A p \in Pairs : invite[p] # None =>
    /\ tries[p] <= invite[p].attempts + Cardinality(Guessing(p))
    /\ invite[p].attempts + Cardinality(Guessing(p)) < MaxTries

\* Wherever a code is, it was drawn for that agency and that worker.
Issued(a, w, n) ==
  \/ invite[<<a, w>>] # None /\ invite[<<a, w>>].code = n
  \/ <<a, w, n>> \in inbox \cup given
  \/ \E c \in Calls : step[c] = "ask.tell" /\ Pair(c) = <<a, w>>
                                           /\ args[c].code = n

\* No code was drawn twice.
CodesAreOwn ==
  /\ \A n \in Codes, a, b \in Agencies, v, w \in Workers :
       /\ Issued(a, v, n) => n <= codes
       /\ Issued(a, v, n) /\ Issued(b, w, n) => a = b /\ v = w
  /\ \A n \in spent : n <= codes
  /\ \A c \in Calls : step[c] = "ask.tell" => args[c].code # 0

\* What was consumed is nowhere else, and who comes with it comes in vain.
SpentAreGone ==
  /\ \A p \in Pairs : invite[p] # None => invite[p].code \notin spent
  /\ \A c \in Calls :
       step[c] = "link.invite" /\ args[c].late => args[c].code \in spent

\* A call that links has a code from the worker.
ConsentIsGiven ==
  \A c \in Calls :
    /\ step[c] \in {"link.invite", "link.delete", "link.write"} =>
         args[c].code = 0 \/ <<Ag(c), Wrk(c), args[c].code>> \in given
    /\ step[c] \in {"link.delete", "link.write"} => args[c].code # 0

\* Who is or acts as an agency's own was linked to it.
OwnWereLinked ==
  /\ \A w \in Workers : member[w] # None => <<member[w], w>> \in was
  /\ \A c \in Calls : step[c] = "offer.write" => Pair(c) \in was

\* An agency that a copy names is one the worker was in, and an edit under way
\* holds a copy of somebody's row.
WasIn(w, r) == r.agency # None => <<r.agency, w>> \in was

CopiesWereTrue ==
  /\ \A w \in Workers : copy[w] # None => WasIn(w, copy[w])
  /\ \A e \in Edits : edit[e].at # "idle" =>
       /\ Admin!Usr(e) \in Workers /\ edit[e].base \in Rows
       /\ WasIn(Admin!Usr(e), edit[e].base)

Safe ==
  /\ CallsHaveArguments /\ GuessesAreCounted /\ GuessesAreBounded
  /\ CodesAreOwn /\ SpentAreGone /\ SpentCodesAreDead /\ ConsentIsGiven
  /\ OwnWereLinked /\ FlagFollowsAgency /\ DealingsFollowMembership
  /\ CopiesWereTrue

IInv == TypeOK /\ Safe

-----------------------------------------------------------------------------
(* The initial states                                                      *)

LEMMA CallsAreCounted ==
  /\ Cardinality(Calls) \in Nat /\ MaxTries \in Nat
  /\ MaxAttempts \in Nat \ {0} /\ MaxCodes \in Nat \ {0}
  /\ MaxTries = MaxAttempts + Cardinality(Calls)
  /\ None \notin Agencies /\ None \notin Workers
BY FS_CardinalityType, CallsAreFinite, LimitsArePositive, NoneIsNobody
DEF MaxTries

LEMMA GuessingIsFinite ==
  \A p : /\ IsFiniteSet(Guessing(p)) /\ Cardinality(Guessing(p)) \in Nat
         /\ Cardinality(Guessing(p)) <= Cardinality(Calls)
<1> SUFFICES ASSUME NEW p
             PROVE  /\ IsFiniteSet(Guessing(p)) /\ Cardinality(Guessing(p)) \in Nat
                    /\ Cardinality(Guessing(p)) <= Cardinality(Calls)
  OBVIOUS
<1>1. Guessing(p) \in SUBSET Calls
  BY DEF Guessing
<1> QED  BY <1>1, FS_Subset, FS_CardinalityType, CallsAreFinite

LEMMA InitIInv == Init => IInv
<1> SUFFICES ASSUME Init PROVE IInv
  OBVIOUS
<1> USE CallsAreCounted DEF Init
<1>1. TypeOK
  <2>1. NoArgs \in Args /\ "idle" \in Steps /\ 0 \in 0..MaxTries
    BY DEF NoArgs, Args, Steps
  <2>2. Admin!CopiesAreRows
    BY DEF Admin!NoCopies, Admin!CopiesAreRows, Admin!NoEdit, Admin!Places
  <2> QED  BY <2>1, <2>2 DEF TypeOK, States
<1>2. CallsHaveArguments /\ GuessesAreCounted /\ OwnWereLinked
  BY DEF CallsHaveArguments, GuessesAreCounted, OwnWereLinked, Pairs
<1>3. GuessesAreBounded
  BY DEF GuessesAreBounded
<1>4. CodesAreOwn /\ SpentAreGone /\ SpentCodesAreDead /\ ConsentIsGiven
  BY DEF CodesAreOwn, SpentAreGone, SpentCodesAreDead, ConsentIsGiven, Issued,
         Pairs
<1>5. FlagFollowsAgency /\ DealingsFollowMembership
  BY DEF FlagFollowsAgency, DealingsFollowMembership
<1>6. CopiesWereTrue
  BY DEF CopiesWereTrue, Admin!NoCopies, Admin!NoEdit
<1> QED
  BY <1>1, <1>2, <1>3, <1>4, <1>5, <1>6 DEF IInv, Safe

-----------------------------------------------------------------------------
(* Types are kept                                                          *)

CallsTyped == step \in [Calls -> Steps] /\ args \in [Calls -> Args]

LEMMA RecordsStayTyped ==
  /\ \A x \in Args, n \in 0..MaxCodes : [x EXCEPT !.code = n] \in Args
  /\ \A i \in Invites, k \in 0..MaxTries : [i EXCEPT !.attempts = k] \in Invites
  /\ \A i \in Invites : [i EXCEPT !.alive = FALSE] \in Invites
BY DEF Args, Invites

\* How a call begins, goes on and ends is well typed.
LEMMA CallsStayTyped ==
  ASSUME CallsTyped, NEW c \in Calls
  PROVE  /\ Return(c) => CallsTyped'
         /\ \A s \in Steps : Goto(c, s) => CallsTyped'
         /\ \A s \in Steps, a \in Agencies, w \in Workers, n \in 0..MaxCodes :
              Begin(c, s, a, w, n) => CallsTyped'
<1>1. NoArgs \in Args
  BY CallsAreCounted DEF NoArgs, Args
<1>2. Return(c) => CallsTyped'
  BY <1>1 DEF Return, CallsTyped, Steps
<1>3. \A s \in Steps : Goto(c, s) => CallsTyped'
  BY DEF Goto, CallsTyped
<1>4. ASSUME NEW s \in Steps, NEW a \in Agencies, NEW w \in Workers,
             NEW n \in 0..MaxCodes, Begin(c, s, a, w, n)
      PROVE  CallsTyped'
  <2>1. [ag |-> a, wrk |-> w, code |-> n, late |-> n \in spent] \in Args
    BY DEF Args
  <2> QED  BY <1>4, <2>1 DEF Begin, CallsTyped
<1> QED  BY <1>2, <1>3, <1>4

\* What a call is about is an agency, a worker and a code.
LEMMA CallsAreAbout ==
  ASSUME CallsTyped, CallsHaveArguments, NEW c \in Calls, step[c] # "idle"
  PROVE  /\ Ag(c) \in Agencies /\ Wrk(c) \in Workers
         /\ Pair(c) \in Agencies \X Workers /\ args[c].code \in 0..MaxCodes
         /\ Pair(c) = <<Ag(c), Wrk(c)>>
BY DEF CallsTyped, Args, CallsHaveArguments, Pair

InvitesTyped == invite \in [Agencies \X Workers -> Invites \cup {None}]

\* The types of all that is not an edit's.
DealsTyped ==
  /\ agency \in [Agencies -> States] /\ account \in SUBSET Workers
  /\ member \in [Workers -> Agencies \cup {None}]
  /\ flag \in [Workers -> BOOLEAN] /\ blocked \in [Workers -> BOOLEAN]
  /\ InvitesTyped /\ codes \in 0..MaxCodes
  /\ inbox \in SUBSET (Agencies \X Workers \X (0..MaxCodes))
  /\ offeredBy \in [Workers -> Agencies \cup {None}]
  /\ CallsTyped
  /\ given \in SUBSET (Agencies \X Workers \X Codes)
  /\ spent \in SUBSET Codes
  /\ tries \in [Agencies \X Workers -> 0..MaxTries]
  /\ was \in SUBSET (Agencies \X Workers)

EditsTyped == overwritten \subseteq Workers /\ Admin!CopiesAreRows

LEMMA TypesAreParts ==
  /\ TypeOK <=> DealsTyped /\ EditsTyped
  /\ TypeOK' <=> DealsTyped' /\ EditsTyped'
BY DEF TypeOK, DealsTyped, EditsTyped, InvitesTyped, CallsTyped

LEMMA DealsStayTyped ==
  ASSUME DealsTyped, CallsHaveArguments, GuessesAreCounted, CodesAreOwn,
         ConsentIsGiven, Dealings
  PROVE  DealsTyped'
<1> USE CallsAreCounted, CallsStayTyped
<1> USE DEF DealsTyped, CallsTyped, InvitesTyped, userVars, inviteVars, tableVars, callVars,
            historyVars, States
<1>1. ASSUME NEW c \in Calls, NEW a \in Agencies, NEW w \in Workers,
             CallBegins(c, a, w)
      PROVE  DealsTyped'
  <2>1. CallsTyped'
    <3>1. \/ \E s \in {"ask.insert", "offer.write", "create.insert"} :
               Begin(c, s, a, w, 0)
          \/ \E n \in 0..MaxCodes : Begin(c, "link.invite", a, w, n)
      BY <1>1 DEF CallBegins, AskToLink, SendOffer, CreateWorker, LinkWithCode
    <3>2. 0 \in 0..MaxCodes
      OBVIOUS
    <3> HIDE DEF DealsTyped, CallsTyped
    <3>3. {"ask.insert", "offer.write", "create.insert", "link.invite"}
            \subseteq Steps
      BY DEF Steps
    <3> QED  BY <3>1, <3>2, <3>3 DEF DealsTyped, CallsTyped
  <2> QED
    BY <1>1, <2>1 DEF CallBegins, AskToLink, SendOffer, CreateWorker,
                      LinkWithCode, InvitesTyped
<1>2. ASSUME NEW c \in Calls, InsertInvite(c) PROVE DealsTyped'
  <2>1. step[c] # "idle" /\ Pair(c) \in Agencies \X Workers
    BY <1>2, CallsAreAbout DEF InsertInvite
  <2>2. CASE Stands(Ag(c))
    <3>1. codes + 1 \in Codes /\ codes + 1 \in 0..MaxCodes /\ 0 \in 0..MaxTries
      BY <1>2, <2>2 DEF InsertInvite, Codes
    <3>2. [code |-> codes + 1, attempts |-> 0, alive |-> TRUE] \in Invites
      BY <3>1 DEF Invites
    <3>3. [args[c] EXCEPT !.code = codes + 1] \in Args
      BY <3>1, RecordsStayTyped
    <3>4. CallsTyped'
      BY <1>2, <2>2, <3>3 DEF InsertInvite, CallsTyped, Steps
    <3>5. /\ invite' = [invite EXCEPT ![Pair(c)] =
                 [code |-> codes + 1, attempts |-> 0, alive |-> TRUE]]
          /\ tries' = [tries EXCEPT ![Pair(c)] = 0]
      BY <1>2, <2>2 DEF InsertInvite
    <3>6. InvitesTyped'
      BY <2>1, <3>2, <3>5
    <3>7. tries' \in [Agencies \X Workers -> 0..MaxTries]
      BY <2>1, <3>1, <3>5
    <3> QED  BY <1>2, <2>2, <3>1, <3>4, <3>6, <3>7 DEF InsertInvite
  <2>3. CASE ~ Stands(Ag(c))
    BY <1>2, <2>3 DEF InsertInvite, InvitesTyped
  <2> QED  BY <2>2, <2>3
<1>3. ASSUME NEW c \in Calls, TellCode(c) PROVE DealsTyped'
  <2>1. <<Ag(c), Wrk(c), args[c].code>> \in Agencies \X Workers \X (0..MaxCodes)
    BY <1>3, CallsAreAbout DEF TellCode
  <2> QED  BY <1>3, <2>1 DEF TellCode, InvitesTyped
<1>4. ASSUME NEW c \in Calls, ReadInvite(c) PROVE DealsTyped'
  <2>1. Pair(c) \in Agencies \X Workers
    BY <1>4, CallsAreAbout DEF ReadInvite
  <2>2. tries' \in [Agencies \X Workers -> 0..MaxTries]
    BY <1>4, <2>1 DEF ReadInvite
  <2>3. CallsTyped'
    BY <1>4 DEF ReadInvite, Steps
  <2> QED  BY <1>4, <2>2, <2>3 DEF ReadInvite, InvitesTyped
<1>5. ASSUME NEW c \in Calls, CountWrong(c) PROVE DealsTyped'
  <2> DEFINE p == Pair(c)
  <2>1. p \in Agencies \X Workers
    BY <1>5, CallsAreAbout DEF CountWrong
  <2>2. ASSUME invite[p] # None
        PROVE  [invite[p] EXCEPT !.attempts = @ + 1] \in Invites
    <3>1. invite[p] \in Invites
      BY <2>1, <2>2 DEF InvitesTyped
    <3>2. invite[p].attempts + 1 \in 0..MaxTries
      BY <2>1, <2>2, <3>1, GuessingIsFinite DEF GuessesAreCounted, Pairs, Invites
    <3> QED  BY <3>1, <3>2, RecordsStayTyped
  <2>3. InvitesTyped'
    BY <1>5, <2>1, <2>2 DEF CountWrong, InvitesTyped
  <2> QED  BY <1>5, <2>3 DEF CountWrong
<1>6. ASSUME NEW c \in Calls, DeleteInvite(c) PROVE DealsTyped'
  <2>1. Pair(c) \in Agencies \X Workers /\ args[c].code \in Codes
    BY <1>6, CallsAreAbout DEF DeleteInvite, ConsentIsGiven, Codes
  <2>2. InvitesTyped' /\ CallsTyped'
    BY <1>6, <2>1 DEF DeleteInvite, InvitesTyped, Steps
  <2> QED  BY <1>6, <2>1, <2>2 DEF DeleteInvite
<1>7. ASSUME NEW c \in Calls, Link(c) PROVE DealsTyped'
  <2>1. /\ Ag(c) \in Agencies /\ Wrk(c) \in Workers
        /\ Pair(c) \in Agencies \X Workers
    BY <1>7, CallsAreAbout DEF Link
  <2>2. member' \in [Workers -> Agencies \cup {None}]
    <3>1. member' = member \/ member' = [member EXCEPT ![Wrk(c)] = Ag(c)]
      BY <1>7 DEF Link
    <3> QED  BY <2>1, <3>1
  <2>4. flag' \in [Workers -> BOOLEAN]
    <3>1. flag' = flag \/ flag' = [flag EXCEPT ![Wrk(c)] = TRUE]
      BY <1>7 DEF Link
    <3> QED  BY <3>1
  <2>5. was' \in SUBSET (Agencies \X Workers)
    <3>1. was' = was \/ was' = was \cup {Pair(c)}
      BY <1>7 DEF Link
    <3> QED  BY <2>1, <3>1
  <2>3. CallsTyped'
    BY <1>7 DEF Link
  <2> QED  BY <1>7, <2>2, <2>3, <2>4, <2>5 DEF Link
<1>8. ASSUME NEW c \in Calls, UpsertOffer(c) \/ InsertWorker(c) PROVE DealsTyped'
  <2>1. /\ Ag(c) \in Agencies /\ Wrk(c) \in Workers
        /\ Pair(c) \in Agencies \X Workers
    BY <1>8, CallsAreAbout DEF UpsertOffer, InsertWorker
  <2>2. CallsTyped'
    BY <1>8 DEF UpsertOffer, InsertWorker
  <2>3. CASE UpsertOffer(c)
    <3>1. \/ offeredBy' = offeredBy
          \/ offeredBy' = [offeredBy EXCEPT ![Wrk(c)] = Ag(c)]
      BY <2>3 DEF UpsertOffer
    <3>2. offeredBy' \in [Workers -> Agencies \cup {None}]
      BY <2>1, <3>1
    <3> QED  BY <2>2, <2>3, <3>2 DEF UpsertOffer
  <2>4. CASE InsertWorker(c)
    <3>1. account' \in SUBSET Workers
      BY <2>1, <2>4 DEF InsertWorker
    <3>4. flag' = flag \/ flag' = [flag EXCEPT ![Wrk(c)] = TRUE]
      BY <2>4 DEF InsertWorker
    <3>5. was' = was \/ was' = was \cup {Pair(c)}
      BY <2>4 DEF InsertWorker
    <3>6. flag' \in [Workers -> BOOLEAN] /\ was' \in SUBSET (Agencies \X Workers)
      BY <2>1, <3>4, <3>5
    <3>2. member' = member \/ member' = [member EXCEPT ![Wrk(c)] = Ag(c)]
      BY <2>4 DEF InsertWorker
    <3>3. member' \in [Workers -> Agencies \cup {None}]
      BY <2>1, <3>2
    <3> QED  BY <2>2, <2>4, <3>1, <3>3, <3>6 DEF InsertWorker
  <2> QED  BY <1>8, <2>3, <2>4
<1>9. ASSUME NEW a \in Agencies, AgencyActs(a) PROVE DealsTyped'
  <2>1. CASE CreateAgency(a) \/ UpdateAgency(a)
    BY <2>1 DEF CreateAgency, UpdateAgency
  <2>2. CASE RemoveAgency(a)
    BY <2>2 DEF RemoveAgency
  <2>3. ASSUME NEW w \in Workers, UnlinkWorker(a, w) \/ ToggleWorkerBlock(a, w)
        PROVE  DealsTyped'
    BY <2>3 DEF UnlinkWorker, ClearAgency, ToggleWorkerBlock
  <2>4. ASSUME NEW W \in SUBSET Workers, SendMessage(a, W) PROVE DealsTyped'
    <3>1. {<<a, w, 0>> : w \in Recipients(a, W)}
            \in SUBSET (Agencies \X Workers \X (0..MaxCodes))
      BY DEF Recipients
    <3> QED  BY <2>4, <3>1 DEF SendMessage
  <2> QED  BY <1>9, <2>1, <2>2, <2>3, <2>4 DEF AgencyActs
<1>10. ASSUME NEW w \in Workers, WorkerActs(w) PROVE DealsTyped'
  BY <1>10 DEF WorkerActs, SignUp, OfferAlone, InvitesTyped, CallsTyped
<1>11. ASSUME NEW m \in inbox, PassCode(m) PROVE DealsTyped'
  <2>1. m \in Agencies \X Workers \X Codes
    BY <1>11 DEF PassCode, Codes
  <2> QED  BY <1>11, <2>1 DEF PassCode, InvitesTyped, CallsTyped
<1>12. ASSUME NEW p \in Agencies \X Workers, Expire(p) PROVE DealsTyped'
  <2>1. [invite[p] EXCEPT !.alive = FALSE] \in Invites
    BY <1>12, RecordsStayTyped DEF Expire
  <2>2. InvitesTyped'
    BY <1>12, <2>1 DEF Expire, InvitesTyped
  <2> QED  BY <1>12, <2>2 DEF Expire, CallsTyped
<1> HIDE CallsAreCounted, CallsStayTyped DEF DealsTyped
<1> QED
  BY <1>1, <1>2, <1>3, <1>4, <1>5, <1>6, <1>7, <1>8, <1>9, <1>10, <1>11,
     <1>12 DEF Dealings, CallContinues

\* The edits touch the worker's columns, and nothing else of the model.
LEMMA EditsTouchTheRow ==
  AdminActs => UNCHANGED dealVars
BY DEF AdminActs, ReadUser, LoadForSave, WriteSave, EditElsewhere, CopyExpires

EditRecords == [at : Admin!Places, usr : Workers \cup {None},
                base : Rows \cup {None}, diff : SUBSET Columns]

\* A step of an edit that writes no row, or writes it, keeps the copies typed
\* and true when the ones it makes are.
LEMMA CopyFrame ==
  ASSUME CopiesWereTrue, Admin!CopiesAreRows, UNCHANGED was,
         NEW w \in Workers, NEW k \in Rows \cup {None},
         NEW e \in Edits, NEW n \in EditRecords,
         copy' = copy \/ copy' = [copy EXCEPT ![w] = k],
         edit' = edit \/ edit' = [edit EXCEPT ![e] = n],
         copy' # copy /\ k # None => WasIn(w, k),
         edit' # edit /\ n.at # "idle" =>
           n.usr \in Workers /\ n.base \in Rows /\ WasIn(n.usr, n.base)
  PROVE  Admin!CopiesAreRows' /\ CopiesWereTrue'
<1>1. Admin!CopiesAreRows'
  BY DEF Admin!CopiesAreRows, EditRecords
<1>2. ASSUME NEW v \in Workers, copy'[v] # None PROVE WasIn(v, copy'[v])
  BY <1>2 DEF CopiesWereTrue, Admin!CopiesAreRows
<1>3. ASSUME NEW d \in Edits, edit'[d].at # "idle"
      PROVE  /\ edit'[d].usr \in Workers /\ edit'[d].base \in Rows
             /\ WasIn(edit'[d].usr, edit'[d].base)
  <2>1. CASE edit'[d] = edit[d]
    BY <1>3, <2>1 DEF CopiesWereTrue, Admin!Usr
  <2>2. CASE edit'[d] # edit[d]
    BY <1>3, <2>2 DEF Admin!CopiesAreRows
  <2> QED  BY <2>1, <2>2
<1> QED
  BY <1>1, <1>2, <1>3 DEF CopiesWereTrue, WasIn, Admin!Usr

\* What an edit reads and writes is well typed, and names no agency the worker
\* was not in.
LEMMA EditStep ==
  ASSUME TypeOK, CopiesWereTrue, OwnWereLinked, AdminActs
  PROVE  /\ TypeOK' /\ CopiesWereTrue' /\ OwnWereLinked'
         /\ \A w \in Workers \ overwritten' :
              member'[w] = member[w] /\ flag'[w] = flag[w]
<1> DEFINE Good == Admin!CopiesAreRows' /\ CopiesWereTrue'
           Same == UNCHANGED <<member, flag, blocked, overwritten>>
           Goal == /\ TypeOK' /\ CopiesWereTrue' /\ OwnWereLinked'
                   /\ \A w \in Workers \ overwritten' :
                        member'[w] = member[w] /\ flag'[w] = flag[w]
<1>d. UNCHANGED dealVars /\ was' = was
  BY EditsTouchTheRow DEF dealVars, historyVars
<1>t. /\ copy \in [Workers -> Rows \cup {None}]
      /\ edit \in [Edits -> EditRecords] /\ Admin!CopiesAreRows
  BY DEF TypeOK, Admin!CopiesAreRows, EditRecords
<1>r. \A w \in Workers : Row(w) \in Rows /\ WasIn(w, Row(w))
  BY DEF TypeOK, Row, Rows, OwnWereLinked, WasIn
<1>n. Admin!NoEdit \in EditRecords /\ Admin!NoEdit.at = "idle"
  BY DEF Admin!NoEdit, EditRecords, Admin!Places
<1>s. ASSUME Same, Good PROVE Goal
  <2>1. TypeOK'
    BY <1>d, <1>s DEF dealVars, TypeOK, inviteVars, tableVars, callVars,
       historyVars, States
  <2>2. OwnWereLinked'
    BY <1>d, <1>s DEF dealVars, callVars, OwnWereLinked, Pair, Ag, Wrk
  <2> QED  BY <1>s, <2>1, <2>2
<1>1. ASSUME NEW e \in Edits, NEW w \in Workers, ReadUser(e, w) PROVE Goal
  <2> DEFINE n == IF copy[w] = None
                  THEN [at |-> "fill", usr |-> w, base |-> Row(w), diff |-> {}]
                  ELSE [at |-> "load", usr |-> w, base |-> copy[w], diff |-> {}]
  <2>1. Same /\ copy' = copy /\ edit' = [edit EXCEPT ![e] = n]
    BY <1>1 DEF ReadUser, Admin!ReadUser, userVars
  <2>2. n \in EditRecords
    BY <1>t, <1>r DEF Admin!Places, EditRecords
  <2>3. n.usr = w /\ n.base \in Rows /\ WasIn(w, n.base)
    BY <1>t, <1>r DEF CopiesWereTrue
  <2> HIDE DEF n
  <2>4. Good
    BY <1>d, <1>t, <2>1, <2>2, <2>3, CopyFrame
  <2> QED  BY <1>s, <2>1, <2>4
\* An edit that goes on holds the copy it had, of the worker it had.
<1>2. ASSUME NEW e \in Edits, edit[e].at # "idle", Same,
             NEW n \in EditRecords, edit' = [edit EXCEPT ![e] = n],
             \/ n = Admin!NoEdit
             \/ n.usr = edit[e].usr /\ n.base = edit[e].base,
             \/ copy' = copy
             \/ copy' = [copy EXCEPT ![edit[e].usr] = None]
             \/ copy' = [copy EXCEPT ![edit[e].usr] = edit[e].base]
      PROVE  Goal
  <2> DEFINE w == edit[e].usr
  <2>1. w \in Workers /\ edit[e].base \in Rows /\ WasIn(w, edit[e].base)
    BY <1>2 DEF CopiesWereTrue, Admin!Usr
  <2>2. PICK k \in {None, edit[e].base} :
          copy' = copy \/ copy' = [copy EXCEPT ![w] = k]
    BY <1>2
  <2>3. k \in Rows \cup {None} /\ (k # None => WasIn(w, k))
    BY <2>1, <2>2
  <2>4. n.at # "idle" =>
          n.usr \in Workers /\ n.base \in Rows /\ WasIn(n.usr, n.base)
    BY <1>2, <1>n, <2>1
  <2>5. Good
    BY <1>2, <1>d, <1>t, <2>1, <2>2, <2>3, <2>4, CopyFrame
  <2> QED  BY <1>s, <1>2, <2>5
<1>3. ASSUME NEW e \in Edits, LoadForSave(e) \/ EditElsewhere(e) PROVE Goal
  <2>1. Same /\ edit[e].at # "idle"
    BY <1>3 DEF LoadForSave, EditElsewhere, userVars, Admin!LoadForSave,
       Admin!FillCopy, Admin!SaveFails, Admin!ClearCopy
  <2>2. CASE LoadForSave(e)
    <3> DEFINE D == {f \in Columns : edit[e].base[f] # Row(Admin!Usr(e))[f]}
               n == [edit[e] EXCEPT !.at = "write", !.diff = D]
    <3>1. edit' = [edit EXCEPT ![e] = n] /\ copy' = copy
      BY <2>2, <1>t DEF LoadForSave, Admin!LoadForSave
    <3>2. n \in EditRecords /\ n.usr = edit[e].usr /\ n.base = edit[e].base
      BY <1>t DEF EditRecords, Admin!Places
    <3> QED  BY <1>2, <2>1, <3>1, <3>2
  <2>3. CASE EditElsewhere(e)
    <3> DEFINE n == [edit[e] EXCEPT !.at = "load"]
    <3>1. n \in EditRecords /\ n.usr = edit[e].usr /\ n.base = edit[e].base
      BY <1>t DEF EditRecords, Admin!Places
    <3>2. edit' = [edit EXCEPT ![e] = n] \/ edit' = [edit EXCEPT ![e] = Admin!NoEdit]
      BY <2>3, <1>t DEF EditElsewhere, Admin!FillCopy, Admin!SaveFails,
         Admin!ClearCopy
    <3>3. \/ copy' = copy
          \/ copy' = [copy EXCEPT ![edit[e].usr] = None]
          \/ copy' = [copy EXCEPT ![edit[e].usr] = edit[e].base]
      BY <2>3 DEF EditElsewhere, Admin!FillCopy, Admin!SaveFails,
         Admin!ClearCopy, Admin!Usr
    <3> QED  BY <1>2, <1>n, <2>1, <3>1, <3>2, <3>3
  <2> QED  BY <1>3, <2>2, <2>3
<1>4. ASSUME NEW w \in Workers, CopyExpires(w) PROVE Goal
  <2>1. Same /\ edit' = edit /\ copy' = [copy EXCEPT ![w] = None]
    BY <1>4 DEF CopyExpires, Admin!CopyExpires, userVars
  <2>2. Good
    BY <1>d, <1>t, <2>1 DEF CopiesWereTrue, Admin!CopiesAreRows, WasIn, Admin!Usr
  <2> QED  BY <1>s, <2>1, <2>2
<1>5. ASSUME NEW e \in Edits, WriteSave(e) PROVE Goal
  <2> DEFINE w == Admin!Usr(e)
             v == Admin!Saved(e, Row(w))
             n == [edit[e] EXCEPT !.at = "clear"]
  <2>1. /\ edit[e].at = "write" /\ copy' = copy /\ edit' = [edit EXCEPT ![e] = n]
        /\ member' = [member EXCEPT ![w] = v.agency]
        /\ flag' = [flag EXCEPT ![w] = v.flagged]
        /\ overwritten' = IF v = Row(w) THEN overwritten ELSE overwritten \cup {w}
    BY <1>5, <1>t DEF WriteSave, Admin!SaveSucceeds
  <2>2. w \in Workers /\ edit[e].base \in Rows /\ WasIn(w, edit[e].base)
    BY <2>1 DEF CopiesWereTrue, Admin!Usr
  <2>3. n \in EditRecords /\ n.usr = w /\ n.base = edit[e].base
    BY <1>t DEF EditRecords, Admin!Places, Admin!Usr
  <2>4. /\ v.agency \in {edit[e].base.agency, member[w]}
        /\ v.flagged \in {edit[e].base.flagged, flag[w]}
    BY DEF Admin!Saved, Columns, Row
  <2>5. v.agency \in Agencies \cup {None} /\ v.flagged \in BOOLEAN
    BY <2>2, <2>4 DEF Rows, TypeOK
  <2>6. v.agency # None => <<v.agency, w>> \in was
    BY <2>2, <2>4 DEF OwnWereLinked, WasIn
  <2>7. v = Row(w) => v.agency = member[w] /\ v.flagged = flag[w]
    BY DEF Row
  <2> HIDE DEF v, n
  <2>8. Good
    BY <1>d, <1>t, <2>1, <2>2, <2>3, CopyFrame
  <2>9. blocked' \in [Workers -> BOOLEAN]
    BY <1>5 DEF WriteSave, TypeOK
  <2>10. TypeOK'
    <3>1. /\ member' \in [Workers -> Agencies \cup {None}]
          /\ flag' \in [Workers -> BOOLEAN] /\ overwritten' \subseteq Workers
      BY <2>1, <2>2, <2>5 DEF TypeOK
    <3> QED
      BY <1>d, <2>8, <2>9, <3>1 DEF dealVars, TypeOK, inviteVars, tableVars,
         callVars, historyVars, States
  <2>11. OwnWereLinked'
    BY <1>d, <2>1, <2>2, <2>6 DEF dealVars, callVars, OwnWereLinked, Pair, Ag,
       Wrk, TypeOK
  <2>12. \A u \in Workers \ overwritten' :
           member'[u] = member[u] /\ flag'[u] = flag[u]
    BY <2>1, <2>2, <2>7 DEF TypeOK
  <2> QED  BY <2>8, <2>10, <2>11, <2>12
<1> HIDE DEF Goal
<1>6. Goal
  BY <1>1, <1>3, <1>4, <1>5 DEF AdminActs
<1> QED  BY <1>6 DEF Goal

LEMMA TypeStep ==
  ASSUME TypeOK, CallsHaveArguments, GuessesAreCounted, CodesAreOwn,
         ConsentIsGiven, OwnWereLinked, CopiesWereTrue, [Next]_vars
  PROVE  TypeOK'
<1>1. CASE Dealings /\ UNCHANGED editVars
  <2>1. EditsTyped'
    BY <1>1, TypesAreParts DEF editVars, EditsTyped, Admin!CopiesAreRows
  <2> QED  BY <1>1, <2>1, TypesAreParts, DealsStayTyped
<1>2. CASE UNCHANGED vars
  BY <1>2 DEF vars, editVars, userVars, inviteVars, tableVars, callVars,
     historyVars, TypeOK, Admin!CopiesAreRows, States
<1> QED  BY <1>1, <1>2, EditStep DEF Next

-----------------------------------------------------------------------------
(* Guesses                                                                 *)

\* A call that moves leaves the others where they are.
OthersStay(c) ==
  \A d \in Calls \ {c} : step'[d] = step[d] /\ args'[d] = args[d]

LEMMA OnlyOneMoves ==
  ASSUME TypeOK
  PROVE  /\ \A c \in Calls : CallContinues(c) => OthersStay(c) /\ step[c] # "idle"
         /\ \A c \in Calls, a \in Agencies, w \in Workers :
              CallBegins(c, a, w) => OthersStay(c) /\ step[c] = "idle"
<1> USE DEF TypeOK, OthersStay, Return, Goto, Begin
<1>1. ASSUME NEW c \in Calls, CallContinues(c)
      PROVE  OthersStay(c) /\ step[c] # "idle"
  BY <1>1 DEF CallContinues, InsertInvite, TellCode, ReadInvite, CountWrong,
              DeleteInvite, Link, UpsertOffer, InsertWorker
<1>2. ASSUME NEW c \in Calls, NEW a \in Agencies, NEW w \in Workers,
             CallBegins(c, a, w)
      PROVE  OthersStay(c) /\ step[c] = "idle"
  BY <1>2 DEF CallBegins, AskToLink, SendOffer, CreateWorker, LinkWithCode
<1> QED  BY <1>1, <1>2

\* Nothing happens to the guesses when no call begins or ends one, and no
\* invitation is made or counted.
LEMMA GuessFrame ==
  ASSUME GuessesAreCounted, GuessesAreBounded, UNCHANGED tries,
         \A p \in Pairs : Guessing(p)' = Guessing(p),
         \A p \in Pairs : invite'[p] # None =>
           invite[p] # None /\ invite'[p].attempts = invite[p].attempts
  PROVE  GuessesAreCounted' /\ GuessesAreBounded'
BY DEF GuessesAreCounted, GuessesAreBounded, MaxTries

LEMMA GuessStep ==
  ASSUME TypeOK, CallsHaveArguments, GuessesAreCounted, GuessesAreBounded,
         [Next]_vars
  PROVE  GuessesAreCounted' /\ GuessesAreBounded'
<1> DEFINE Goal == GuessesAreCounted' /\ GuessesAreBounded'
<1> USE DEF userVars, inviteVars, tableVars, callVars, historyVars
<1>a. ASSUME UNCHANGED callVars PROVE \A p \in Pairs : Guessing(p)' = Guessing(p)
  BY <1>a DEF Guessing, Pair, Ag, Wrk
<1>b. ASSUME NEW c \in Calls, OthersStay(c), step[c] # "link.wrong",
             step'[c] # "link.wrong"
      PROVE  \A p \in Pairs : Guessing(p)' = Guessing(p)
  BY <1>b DEF Guessing, OthersStay, Pair, Ag, Wrk
<1>1. ASSUME NEW c \in Calls, NEW a \in Agencies, NEW w \in Workers,
             CallBegins(c, a, w)
      PROVE  Goal
  <2>1. step'[c] # "link.wrong" /\ UNCHANGED <<tries, invite>>
    BY <1>1 DEF TypeOK, CallBegins, AskToLink, SendOffer, CreateWorker,
                LinkWithCode, Begin
  <2> QED  BY <1>1, <1>b, <2>1, OnlyOneMoves, GuessFrame
<1>2. ASSUME NEW c \in Calls, InsertInvite(c) PROVE Goal
  <2>1. /\ OthersStay(c) /\ step[c] # "link.wrong" /\ step'[c] # "link.wrong"
        /\ Pair(c) \in Pairs
    BY <1>2, OnlyOneMoves, CallsAreAbout DEF CallContinues, InsertInvite,
         Return, TypeOK, CallsTyped, Pairs
  <2>2. \A p \in Pairs : Guessing(p)' = Guessing(p)
    BY <1>b, <2>1
  <2>3. CASE ~ Stands(Ag(c))
    BY <1>2, <2>2, <2>3, GuessFrame DEF InsertInvite
  <2>4. CASE Stands(Ag(c))
    <3>1. /\ invite' = [invite EXCEPT ![Pair(c)] =
                 [code |-> codes + 1, attempts |-> 0, alive |-> TRUE]]
          /\ tries' = [tries EXCEPT ![Pair(c)] = 0]
      BY <1>2, <2>4 DEF InsertInvite
    <3>2. ASSUME NEW p \in Pairs, p # Pair(c)
          PROVE  invite'[p] = invite[p] /\ tries'[p] = tries[p]
      BY <3>1, <3>2 DEF TypeOK, Pairs
    <3>3. invite'[Pair(c)].attempts = 0 /\ tries'[Pair(c)] = 0
      BY <2>1, <3>1 DEF TypeOK, Pairs
    <3>4. ASSUME NEW p \in Pairs, invite'[p] # None
          PROVE  /\ tries'[p] <= invite'[p].attempts + Cardinality(Guessing(p))
                 /\ invite'[p].attempts + Cardinality(Guessing(p)) < MaxTries
      <4>1. CASE p = Pair(c)
        BY <3>3, <4>1, GuessingIsFinite, CallsAreCounted
      <4>2. CASE p # Pair(c)
        BY <3>2, <3>4, <4>2 DEF GuessesAreCounted
      <4> QED  BY <4>1, <4>2
    <3>5. GuessesAreCounted'
      BY <2>2, <3>4 DEF GuessesAreCounted, MaxTries
    <3>6. ASSUME NEW p \in Pairs PROVE tries'[p] < MaxTries
      BY <3>2, <3>3, CallsAreCounted DEF GuessesAreBounded, Pairs
    <3> QED  BY <3>5, <3>6, CallsAreCounted DEF GuessesAreBounded, Pairs
  <2> QED  BY <2>3, <2>4
<1>3. ASSUME NEW c \in Calls, ReadInvite(c) PROVE Goal
  <2>0. Pair(c) \in Pairs
    BY <1>3, CallsAreAbout DEF ReadInvite, TypeOK, CallsTyped, Pairs
  <2> PICK q \in Pairs : q = Pair(c)
    BY <2>0
  <2>1. OthersStay(c) /\ step[c] = "link.invite"
    BY <1>3, OnlyOneMoves, CallsAreAbout DEF CallContinues, ReadInvite,
         TypeOK, CallsTyped, Pairs
  <2>2. CASE UNCHANGED tries /\ step'[c] # "link.wrong"
    BY <1>3, <1>b, <2>1, <2>2, GuessFrame DEF ReadInvite
  <2>3. CASE /\ ~ Refused(invite[q]) /\ Goto(c, "link.wrong")
             /\ tries' = [tries EXCEPT ![q] = IF @ < MaxTries THEN @ + 1 ELSE @]
    <3>1. Guessing(q)' = Guessing(q) \cup {c} /\ c \notin Guessing(q)
      BY <2>1, <2>3 DEF Guessing, OthersStay, Goto, Pair, Ag, Wrk, TypeOK
    <3>2. \A p \in Pairs : p # q => Guessing(p)' = Guessing(p)
      BY <2>1, <2>3 DEF Guessing, OthersStay, Goto, Pair, Ag, Wrk, TypeOK
    <3>3. Cardinality(Guessing(q)') = Cardinality(Guessing(q)) + 1
      BY <3>1, GuessingIsFinite, FS_AddElement
    <3>4. Guessing(q)' \in SUBSET Calls
      BY <3>1 DEF Guessing
    <3>5. Cardinality(Guessing(q)') <= Cardinality(Calls)
      BY <3>4, FS_Subset, CallsAreFinite
    <3>6. /\ invite[q] # None /\ invite[q].attempts < MaxAttempts
          /\ invite[q].attempts \in Nat
      BY <2>1, <2>3, CallsAreCounted DEF Refused, TypeOK, Invites, Pairs
    <3>7. tries[q] \in Nat /\ tries'[q] = tries[q] + 1
          /\ \A p \in Pairs : p # q => tries'[p] = tries[p]
      BY <2>1, <2>3, CallsAreCounted DEF GuessesAreBounded, TypeOK, Pairs
    <3>8. /\ tries'[q] <= invite[q].attempts + Cardinality(Guessing(q)')
          /\ invite[q].attempts + Cardinality(Guessing(q)') < MaxTries
      BY <2>1, <3>3, <3>5, <3>6, <3>7, GuessingIsFinite, CallsAreCounted
      DEF GuessesAreCounted
    <3>9. invite' = invite
      BY <1>3 DEF ReadInvite
    <3>12. ASSUME NEW p \in Pairs, invite'[p] # None
           PROVE  /\ tries'[p] <= invite'[p].attempts + Cardinality(Guessing(p)')
                  /\ invite'[p].attempts + Cardinality(Guessing(p)') < MaxTries
      <4>1. CASE p = q
        BY <3>8, <3>9, <4>1
      <4>2. CASE p # q
        BY <3>2, <3>7, <3>9, <3>12, <4>2 DEF GuessesAreCounted
      <4> QED  BY <4>1, <4>2
    <3>10. GuessesAreCounted'
      BY <3>12 DEF GuessesAreCounted, MaxTries
    <3>11. tries'[q] < MaxTries
      BY <3>3, <3>6, <3>7, <3>8, GuessingIsFinite, CallsAreCounted
    <3> QED  BY <3>7, <3>10, <3>11, CallsAreCounted DEF GuessesAreBounded, Pairs
  <2> QED  BY <1>3, <2>1, <2>2, <2>3 DEF ReadInvite, Return, Goto, TypeOK
<1>4. ASSUME NEW c \in Calls, CountWrong(c) PROVE Goal
  <2>0. Pair(c) \in Pairs
    BY <1>4, CallsAreAbout DEF CountWrong, TypeOK, CallsTyped, Pairs
  <2> PICK q \in Pairs : q = Pair(c)
    BY <2>0
  <2>1. /\ OthersStay(c) /\ step[c] = "link.wrong" /\ step'[c] = "idle"
    BY <1>4, OnlyOneMoves, CallsAreAbout DEF CallContinues, CountWrong, Return,
         TypeOK, CallsTyped, Pairs
  <2>2. Guessing(q)' = Guessing(q) \ {c} /\ c \in Guessing(q)
    BY <2>1 DEF Guessing, OthersStay, Pair, Ag, Wrk
  <2>3. \A p \in Pairs : p # q => Guessing(p)' = Guessing(p)
    BY <2>1 DEF Guessing, OthersStay, Pair, Ag, Wrk
  <2>4. Cardinality(Guessing(q)') = Cardinality(Guessing(q)) - 1
    BY <2>2, GuessingIsFinite, FS_RemoveElement
  <2>5. ASSUME NEW p \in Pairs, p # q PROVE invite'[p] = invite[p]
    BY <1>4, <2>5 DEF CountWrong, TypeOK, Pairs
  <2>6. invite'[q] # None =>
          /\ invite[q] # None
          /\ invite'[q].attempts = invite[q].attempts + 1
          /\ invite[q].attempts \in Nat
    BY <1>4, <2>1 DEF CountWrong, TypeOK, Pairs, Invites
  <2>7. tries' = tries /\ \A p \in Pairs : tries[p] \in Nat
    BY <1>4 DEF CountWrong, TypeOK, Pairs
  <2>8. GuessesAreCounted'
    <3>1. ASSUME NEW p \in Pairs, invite'[p] # None
          PROVE  /\ tries[p] <= invite'[p].attempts + Cardinality(Guessing(p)')
                 /\ invite'[p].attempts + Cardinality(Guessing(p)') < MaxTries
      <4>1. CASE p = q
        <5>1. /\ tries[q] <= invite[q].attempts + Cardinality(Guessing(q))
              /\ invite[q].attempts + Cardinality(Guessing(q)) < MaxTries
          BY <2>1, <2>6, <3>1, <4>1 DEF GuessesAreCounted
        <5>2. Cardinality(Guessing(q)) \in Nat
          BY GuessingIsFinite
        <5>3. invite'[q].attempts = invite[q].attempts + 1
              /\ invite[q].attempts \in Nat
          BY <2>6, <3>1, <4>1
        <5> QED  BY <2>1, <2>4, <2>7, <4>1, <5>1, <5>2, <5>3, CallsAreCounted
      <4>2. CASE p # q
        BY <2>3, <2>5, <3>1, <4>2 DEF GuessesAreCounted
      <4> QED  BY <4>1, <4>2
    <3> QED  BY <2>7, <3>1 DEF GuessesAreCounted, MaxTries
  <2> QED  BY <2>7, <2>8 DEF GuessesAreBounded, MaxTries
<1>5. ASSUME NEW c \in Calls,
             \/ TellCode(c) \/ DeleteInvite(c) \/ Link(c) \/ UpsertOffer(c)
             \/ InsertWorker(c)
      PROVE  Goal
  <2>1. /\ OthersStay(c) /\ step[c] # "link.wrong" /\ step'[c] # "link.wrong"
        /\ Pair(c) \in Pairs
    BY <1>5, OnlyOneMoves, CallsAreAbout DEF CallContinues, TellCode,
         DeleteInvite, Link, UpsertOffer, InsertWorker, Return, Goto,
         TypeOK, CallsTyped, Pairs
  <2>2. tries' = tries /\ \A p \in Pairs : invite'[p] \in {invite[p], None}
    BY <1>5 DEF TellCode, DeleteInvite, Link, UpsertOffer, InsertWorker,
         TypeOK, Pairs
  <2> QED  BY <1>b, <2>1, <2>2, GuessFrame
<1>6. ASSUME NEW a \in Agencies, AgencyActs(a) PROVE Goal
  <2>1. /\ UNCHANGED <<callVars, tries>>
        /\ \A p \in Pairs : invite'[p] \in {invite[p], None}
    BY <1>6 DEF AgencyActs, CreateAgency, UpdateAgency, RemoveAgency,
         UnlinkWorker, ToggleWorkerBlock, SendMessage, Pairs, TypeOK
  <2> QED  BY <1>a, <2>1, GuessFrame
<1>7. ASSUME NEW p \in Pairs, Expire(p) PROVE Goal
  <2>1. /\ UNCHANGED <<callVars, tries>>
        /\ \A q \in Pairs : q # p => invite'[q] = invite[q]
        /\ invite[p] # None /\ invite'[p].attempts = invite[p].attempts
    BY <1>7 DEF Expire, TypeOK, Pairs, Invites
  <2> QED  BY <1>a, <2>1, GuessFrame
<1>8. ASSUME UNCHANGED <<callVars, tries, invite>> PROVE Goal
  BY <1>8, <1>a, GuessFrame
<1>9. ASSUME NEW w \in Workers, WorkerActs(w) PROVE Goal
  BY <1>8, <1>9 DEF WorkerActs, SignUp, OfferAlone
<1>10. ASSUME NEW m \in inbox, PassCode(m) PROVE Goal
  BY <1>8, <1>10 DEF PassCode
<1>11. CASE UNCHANGED vars
  BY <1>8, <1>11 DEF vars
<1>12. ASSUME AdminActs PROVE Goal
  BY <1>8, <1>12, EditsTouchTheRow DEF dealVars
<1> HIDE DEF Goal
<1> QED
  BY <1>1, <1>2, <1>3, <1>4, <1>5, <1>6, <1>7, <1>9, <1>10, <1>11, <1>12
  DEF Next, Dealings, CallContinues, Pairs, Goal

-----------------------------------------------------------------------------
(* Codes                                                                   *)

\* Codes stay apart as long as none is drawn: a step issues nothing new.
LEMMA CodesFrame ==
  ASSUME CodesAreOwn, UNCHANGED codes,
         \A a \in Agencies, w \in Workers, n \in Codes :
           Issued(a, w, n)' => Issued(a, w, n),
         \A n \in spent' : n <= codes,
         \A c \in Calls : step'[c] = "ask.tell" => args'[c].code # 0
  PROVE  CodesAreOwn'
BY DEF CodesAreOwn, Codes

\* Nothing is issued where invitations, inboxes, what was given and the calls
\* that tell a code are as before, or fewer.
LEMMA IssuedFrame ==
  ASSUME \A p \in Pairs : invite'[p] # None =>
           invite[p] # None /\ invite'[p].code = invite[p].code,
         \A m \in inbox' \cup given' : m[3] # 0 => m \in inbox \cup given,
         \A c \in Calls : step'[c] = "ask.tell" =>
           step[c] = "ask.tell" /\ args'[c] = args[c]
  PROVE  \A a \in Agencies, w \in Workers, n \in Codes :
           Issued(a, w, n)' => Issued(a, w, n)
<1> SUFFICES ASSUME NEW a \in Agencies, NEW w \in Workers, NEW n \in Codes,
                    Issued(a, w, n)'
             PROVE  Issued(a, w, n)
  OBVIOUS
<1>1. CASE invite'[<<a, w>>] # None /\ invite'[<<a, w>>].code = n
  BY <1>1 DEF Issued, Pairs
<1>2. CASE <<a, w, n>> \in inbox' \cup given'
  <2>1. <<a, w, n>>[3] # 0
    BY DEF Codes
  <2> QED  BY <1>2, <2>1 DEF Issued
<1>3. ASSUME NEW c \in Calls, step'[c] = "ask.tell", Pair(c)' = <<a, w>>,
             args'[c].code = n
      PROVE  Issued(a, w, n)
  BY <1>3 DEF Issued, Pair, Ag, Wrk
<1> QED  BY <1>1, <1>2, <1>3 DEF Issued

LEMMA CodesStep ==
  ASSUME TypeOK, CallsHaveArguments, CodesAreOwn, ConsentIsGiven, [Next]_vars
  PROVE  CodesAreOwn'
<1> USE DEF userVars, inviteVars, tableVars, callVars, historyVars
<1>1. ASSUME NEW c \in Calls, NEW a \in Agencies, NEW w \in Workers,
             CallBegins(c, a, w)
      PROVE  CodesAreOwn'
  <2>1. UNCHANGED <<codes, invite, inbox, given, spent>> /\ step'[c] # "ask.tell"
    BY <1>1 DEF CallBegins, AskToLink, SendOffer, CreateWorker, LinkWithCode,
                Begin, TypeOK
  <2>2. \A d \in Calls : step'[d] = "ask.tell" =>
          step[d] = "ask.tell" /\ args'[d] = args[d]
    BY <1>1, <2>1, OnlyOneMoves DEF OthersStay
  <2>3. \A b \in Agencies, v \in Workers, n \in Codes :
          Issued(b, v, n)' => Issued(b, v, n)
    BY <2>1, <2>2, IssuedFrame
  <2> QED  BY <2>1, <2>2, <2>3, CodesFrame DEF CodesAreOwn
<1>2. ASSUME NEW c \in Calls, InsertInvite(c) PROVE CodesAreOwn'
  <2>0. Pair(c) \in Pairs /\ Ag(c) \in Agencies /\ Wrk(c) \in Workers
    BY <1>2, CallsAreAbout DEF InsertInvite, TypeOK, CallsTyped, Pairs
  <2>1. OthersStay(c) /\ step[c] = "ask.insert"
    BY <1>2, OnlyOneMoves DEF CallContinues, InsertInvite
  <2>2. CASE ~ Stands(Ag(c))
    <3>1. UNCHANGED <<codes, invite, inbox, given, spent>> /\ step'[c] # "ask.tell"
      BY <1>2, <2>2 DEF InsertInvite, Return, TypeOK
    <3>2. \A d \in Calls : step'[d] = "ask.tell" =>
            step[d] = "ask.tell" /\ args'[d] = args[d]
      BY <2>1, <3>1 DEF OthersStay
    <3>3. \A b \in Agencies, v \in Workers, n \in Codes :
            Issued(b, v, n)' => Issued(b, v, n)
      BY <3>1, <3>2, IssuedFrame
    <3> QED  BY <3>1, <3>2, <3>3, CodesFrame DEF CodesAreOwn
  <2>3. CASE Stands(Ag(c))
    <3>1. /\ codes' = codes + 1 /\ codes \in Nat /\ codes + 1 \in Codes
          /\ UNCHANGED <<inbox, given, spent>>
      BY <1>2, <2>3, CallsAreCounted DEF InsertInvite, TypeOK, Codes
    <3>2. /\ \A p \in Pairs : p # Pair(c) => invite'[p] = invite[p]
          /\ invite'[Pair(c)].code = codes + 1
      BY <1>2, <2>0, <2>3 DEF InsertInvite, TypeOK, Pairs
    <3>3. step'[c] = "ask.tell" /\ args'[c].code = codes + 1
          /\ Pair(c)' = Pair(c)
      BY <1>2, <2>3 DEF InsertInvite, TypeOK, Args, Pair, Ag, Wrk
    <3>4. ASSUME NEW b \in Agencies, NEW v \in Workers, NEW n \in Codes,
                 Issued(b, v, n)'
          PROVE  Issued(b, v, n) \/ (n = codes + 1 /\ <<b, v>> = Pair(c))
      <4>1. CASE invite'[<<b, v>>] # None /\ invite'[<<b, v>>].code = n
        BY <3>2, <4>1 DEF Issued, Pairs
      <4>2. CASE <<b, v, n>> \in inbox' \cup given'
        BY <3>1, <4>2 DEF Issued
      <4>3. ASSUME NEW d \in Calls, step'[d] = "ask.tell",
                   Pair(d)' = <<b, v>>, args'[d].code = n
            PROVE  Issued(b, v, n) \/ (n = codes + 1 /\ <<b, v>> = Pair(c))
        <5>1. CASE d = c
          BY <3>3, <4>3, <5>1
        <5>2. CASE d # c
          BY <2>1, <4>3, <5>2 DEF OthersStay, Issued, Pair, Ag, Wrk
        <5> QED  BY <5>1, <5>2
      <4> QED  BY <3>4, <4>1, <4>2, <4>3 DEF Issued
    <3>5. ASSUME NEW n \in Codes, NEW a \in Agencies, NEW b \in Agencies,
                 NEW v \in Workers, NEW w \in Workers,
                 Issued(a, v, n)', Issued(b, w, n)'
          PROVE  n <= codes' /\ a = b /\ v = w
      <4>1. n <= codes \/ n = codes + 1
        BY <3>4, <3>5 DEF CodesAreOwn
      <4>2. n \in Nat /\ ~ (n <= codes /\ n = codes + 1)
        BY <3>1 DEF Codes
      <4>3. CASE n = codes + 1
        BY <3>1, <3>4, <3>5, <4>2, <4>3 DEF CodesAreOwn
      <4>4. CASE n <= codes
        BY <3>1, <3>4, <3>5, <4>2, <4>4 DEF CodesAreOwn
      <4> QED  BY <4>1, <4>3, <4>4
    <3>6. \A n \in spent' : n <= codes'
      BY <3>1 DEF CodesAreOwn, TypeOK, Codes
    <3>7. \A d \in Calls : step'[d] = "ask.tell" => args'[d].code # 0
      BY <2>1, <3>1, <3>3 DEF OthersStay, CodesAreOwn
    <3>8. \A n \in Codes, a, b \in Agencies, v, w \in Workers :
            /\ Issued(a, v, n)' => n <= codes'
            /\ Issued(a, v, n)' /\ Issued(b, w, n)' => a = b /\ v = w
      BY <3>5
    <3> QED  BY <3>6, <3>7, <3>8 DEF CodesAreOwn, Codes
  <2> QED  BY <2>2, <2>3
<1>3. ASSUME NEW c \in Calls, TellCode(c) PROVE CodesAreOwn'
  <2>1. /\ OthersStay(c) /\ step[c] = "ask.tell" /\ step'[c] = "idle"
        /\ UNCHANGED <<codes, invite, given, spent>>
        /\ Pair(c) = <<Ag(c), Wrk(c)>>
        /\ inbox' \subseteq inbox \cup {<<Ag(c), Wrk(c), args[c].code>>}
    BY <1>3, OnlyOneMoves DEF CallContinues, TellCode, Return, TypeOK, Pair
  <2>2. ASSUME NEW b \in Agencies, NEW v \in Workers, NEW n \in Codes,
               Issued(b, v, n)'
        PROVE  Issued(b, v, n)
    <3>1. CASE <<b, v, n>> \in inbox'
      BY <2>1, <3>1 DEF Issued
    <3>2. CASE <<b, v, n>> \notin inbox'
      BY <2>1, <2>2, <3>2 DEF Issued, OthersStay, Pair, Ag, Wrk
    <3> QED  BY <3>1, <3>2
  <2>3. \A d \in Calls : step'[d] = "ask.tell" => args'[d].code # 0
    BY <2>1 DEF OthersStay, CodesAreOwn
  <2> QED  BY <2>1, <2>2, <2>3, CodesFrame DEF CodesAreOwn
<1>4. ASSUME NEW c \in Calls, DeleteInvite(c) PROVE CodesAreOwn'
  <2>1. /\ OthersStay(c) /\ step[c] = "link.delete" /\ step'[c] # "ask.tell"
        /\ UNCHANGED <<codes, inbox, given>>
        /\ spent' = spent \cup {args[c].code}
        /\ \A p \in Pairs : invite'[p] \in {invite[p], None}
    BY <1>4, OnlyOneMoves DEF CallContinues, DeleteInvite, Goto, TypeOK, Pairs
  <2>2. \A d \in Calls : step'[d] = "ask.tell" =>
          step[d] = "ask.tell" /\ args'[d] = args[d]
    BY <2>1 DEF OthersStay
  <2>3. \A b \in Agencies, v \in Workers, n \in Codes :
          Issued(b, v, n)' => Issued(b, v, n)
    BY <2>1, <2>2, IssuedFrame
  <2>4. args[c].code <= codes
    <3>1. /\ <<Ag(c), Wrk(c), args[c].code>> \in given
          /\ Ag(c) \in Agencies /\ Wrk(c) \in Workers
      BY <2>1, CallsAreAbout DEF ConsentIsGiven, TypeOK, CallsTyped
    <3>2. args[c].code \in Codes /\ Issued(Ag(c), Wrk(c), args[c].code)
      BY <3>1 DEF TypeOK, Issued
    <3> QED  BY <3>1, <3>2 DEF CodesAreOwn
  <2> QED  BY <2>1, <2>2, <2>3, <2>4, CodesFrame DEF CodesAreOwn
<1>5. ASSUME NEW c \in Calls,
             \/ ReadInvite(c) \/ CountWrong(c) \/ Link(c) \/ UpsertOffer(c)
             \/ InsertWorker(c)
      PROVE  CodesAreOwn'
  <2>1. OthersStay(c) /\ step'[c] # "ask.tell"
    BY <1>5, OnlyOneMoves DEF CallContinues, ReadInvite, CountWrong, Link,
         UpsertOffer, InsertWorker, Return, Goto, TypeOK
  <2>2. \A d \in Calls : step'[d] = "ask.tell" =>
          step[d] = "ask.tell" /\ args'[d] = args[d]
    BY <2>1 DEF OthersStay
  <2>3. UNCHANGED <<codes, inbox, given, spent>>
    BY <1>5 DEF ReadInvite, CountWrong, Link, UpsertOffer, InsertWorker
  <2>4. \A p \in Pairs : invite'[p] # None =>
          invite[p] # None /\ invite'[p].code = invite[p].code
    <3>1. CASE CountWrong(c)
      BY <3>1 DEF CountWrong, TypeOK, Pairs, Invites
    <3>2. CASE ~ CountWrong(c)
      BY <1>5, <3>2 DEF ReadInvite, Link, UpsertOffer, InsertWorker
    <3> QED  BY <3>1, <3>2
  <2>5. \A b \in Agencies, v \in Workers, n \in Codes :
          Issued(b, v, n)' => Issued(b, v, n)
    BY <2>2, <2>3, <2>4, IssuedFrame
  <2> QED  BY <2>2, <2>3, <2>5, CodesFrame DEF CodesAreOwn
<1>6. ASSUME UNCHANGED <<callVars, codes, spent>>,
             \A p \in Pairs : invite'[p] # None =>
               invite[p] # None /\ invite'[p].code = invite[p].code,
             \A m \in inbox' \cup given' : m[3] # 0 => m \in inbox \cup given
      PROVE  CodesAreOwn'
  <2>1. \A b \in Agencies, v \in Workers, n \in Codes :
          Issued(b, v, n)' => Issued(b, v, n)
    BY <1>6, IssuedFrame
  <2> QED  BY <1>6, <2>1, CodesFrame DEF CodesAreOwn
<1>7. ASSUME NEW a \in Agencies, AgencyActs(a) PROVE CodesAreOwn'
  <2>1. UNCHANGED <<callVars, codes, spent, given>>
    BY <1>7 DEF AgencyActs, CreateAgency, UpdateAgency, RemoveAgency,
         UnlinkWorker, ToggleWorkerBlock, SendMessage
  <2>2. \A p \in Pairs : invite'[p] \in {invite[p], None}
    BY <1>7 DEF AgencyActs, CreateAgency, UpdateAgency, RemoveAgency,
         UnlinkWorker, ToggleWorkerBlock, SendMessage, Pairs
  <2>3. \A m \in inbox' : m[3] # 0 => m \in inbox
    BY <1>7 DEF AgencyActs, CreateAgency, UpdateAgency, RemoveAgency,
         UnlinkWorker, ToggleWorkerBlock, SendMessage
  <2> QED  BY <1>6, <2>1, <2>2, <2>3
<1>8. ASSUME NEW p \in Pairs, Expire(p) PROVE CodesAreOwn'
  <2>1. /\ UNCHANGED <<callVars, codes, spent, given, inbox>>
        /\ \A q \in Pairs : q # p => invite'[q] = invite[q]
        /\ invite[p] # None /\ invite'[p].code = invite[p].code
    BY <1>8 DEF Expire, TypeOK, Pairs, Invites
  <2> QED  BY <1>6, <2>1
<1>9. ASSUME NEW w \in Workers, WorkerActs(w) PROVE CodesAreOwn'
  BY <1>6, <1>9 DEF WorkerActs, SignUp, OfferAlone
<1>10. ASSUME NEW m \in inbox, PassCode(m) PROVE CodesAreOwn'
  BY <1>6, <1>10 DEF PassCode
<1>11. CASE UNCHANGED vars
  BY <1>6, <1>11 DEF vars
<1>12. ASSUME AdminActs PROVE CodesAreOwn'
  BY <1>6, <1>12, EditsTouchTheRow DEF dealVars
<1> QED
  BY <1>1, <1>2, <1>3, <1>4, <1>5, <1>7, <1>8, <1>9, <1>10, <1>11, <1>12
  DEF Next, Dealings, CallContinues, Pairs

-----------------------------------------------------------------------------
(* What the calls in flight rest on                                        *)

\* How a call begins: nothing is written, and it knows what it is about.
LEMMA HowCallsBegin ==
  ASSUME TypeOK, NEW c \in Calls, NEW a \in Agencies, NEW w \in Workers,
         CallBegins(c, a, w)
  PROVE  /\ UNCHANGED <<agency, userVars, inviteVars, tableVars, historyVars>>
         /\ step'[c] \in {"ask.insert", "offer.write", "create.insert",
                           "link.invite"}
         /\ args'[c].ag = a /\ args'[c].wrk = w
         /\ args'[c].late = (args'[c].code \in spent)
         /\ step'[c] = "link.invite" =>
              args'[c].code = 0 \/ <<a, w, args'[c].code>> \in given
         /\ step'[c] = "offer.write" => IsOwnWorker(a, w)
<1>1. ASSUME NEW s, NEW n, Begin(c, s, a, w, n)
      PROVE  /\ step'[c] = s /\ args'[c].ag = a /\ args'[c].wrk = w
             /\ args'[c].code = n /\ args'[c].late = (n \in spent)
  BY <1>1 DEF Begin, TypeOK
<1>2. CASE AskToLink(c, a, w)
  BY <1>1, <1>2 DEF AskToLink
<1>3. CASE SendOffer(c, a, w)
  BY <1>1, <1>3 DEF SendOffer
<1>4. CASE CreateWorker(c, a, w)
  BY <1>1, <1>4 DEF CreateWorker
<1>5. ASSUME NEW n \in 0..MaxCodes, LinkWithCode(c, a, w, n)
      PROVE  /\ UNCHANGED <<agency, userVars, inviteVars, tableVars, historyVars>>
             /\ Begin(c, "link.invite", a, w, n)
             /\ n = 0 \/ <<a, w, n>> \in given
  BY <1>5 DEF LinkWithCode
<1>6. CASE \E n \in 0..MaxCodes : LinkWithCode(c, a, w, n)
  <2>1. PICK n \in 0..MaxCodes : LinkWithCode(c, a, w, n)
    BY <1>6
  <2>2. /\ step'[c] = "link.invite" /\ args'[c].ag = a /\ args'[c].wrk = w
        /\ args'[c].code = n /\ args'[c].late = (n \in spent)
    BY <1>1, <1>5, <2>1
  <2> QED  BY <1>5, <2>1, <2>2
<1> QED
  BY <1>2, <1>3, <1>4, <1>6 DEF CallBegins

LEMMA ArgumentsStep ==
  ASSUME TypeOK, CallsHaveArguments, [Next]_vars PROVE CallsHaveArguments'
<1> USE DEF CallsHaveArguments, OthersStay, Ag, Wrk
<1>1. ASSUME NEW c \in Calls, NEW a \in Agencies, NEW w \in Workers,
             CallBegins(c, a, w)
      PROVE  CallsHaveArguments'
  <2>1. OthersStay(c)
    BY <1>1, OnlyOneMoves
  <2>2. args'[c].ag = a /\ args'[c].wrk = w
    BY <1>1, HowCallsBegin
  <2> QED  BY <2>1, <2>2
<1>2. ASSUME NEW c \in Calls, CallContinues(c) PROVE CallsHaveArguments'
  <2>1. OthersStay(c) /\ step[c] # "idle"
    BY <1>2, OnlyOneMoves
  <2>2. \/ step'[c] = "idle"
        \/ args'[c].ag = args[c].ag /\ args'[c].wrk = args[c].wrk
    BY <1>2 DEF CallContinues, InsertInvite, TellCode, ReadInvite, CountWrong,
         DeleteInvite, Link, UpsertOffer, InsertWorker, Return, Goto, TypeOK,
         Args
  <2> QED  BY <2>1, <2>2
<1>3. CASE UNCHANGED callVars
  BY <1>3 DEF callVars
<1>4. AdminActs => UNCHANGED callVars
  BY EditsTouchTheRow DEF dealVars
<1> QED
  BY <1>1, <1>2, <1>3, <1>4 DEF Next, Dealings, vars, AgencyActs, CreateAgency,
    UpdateAgency, RemoveAgency, UnlinkWorker, ToggleWorkerBlock, SendMessage,
    WorkerActs, SignUp, OfferAlone, PassCode, Expire

LEMMA ConsentStep ==
  ASSUME TypeOK, CallsHaveArguments, ConsentIsGiven, [Next]_vars
  PROVE  ConsentIsGiven' /\ given \subseteq given'
<1> DEFINE Goal == ConsentIsGiven' /\ given \subseteq given'
<1> USE DEF ConsentIsGiven, OthersStay, Ag, Wrk
<1>1. ASSUME NEW c \in Calls, NEW a \in Agencies, NEW w \in Workers,
             CallBegins(c, a, w)
      PROVE  Goal
  <2>1. OthersStay(c) /\ given' = given
    BY <1>1, OnlyOneMoves DEF CallBegins, AskToLink, SendOffer, CreateWorker,
         LinkWithCode, historyVars
  <2>2. \/ step'[c] \in {"ask.insert", "offer.write", "create.insert"}
        \/ /\ step'[c] = "link.invite"
           /\ args'[c].code = 0 \/ <<args'[c].ag, args'[c].wrk, args'[c].code>> \in given
    BY <1>1, HowCallsBegin
  <2> QED  BY <2>1, <2>2
<1>2. ASSUME NEW c \in Calls, CallContinues(c) PROVE Goal
  <2>1. OthersStay(c) /\ given' = given
    BY <1>2, OnlyOneMoves DEF CallContinues, InsertInvite, TellCode, ReadInvite,
         CountWrong, DeleteInvite, Link, UpsertOffer, InsertWorker, historyVars
  <2>2. CASE ReadInvite(c)
    <3>1. \/ step'[c] \in {"idle", "link.wrong"}
          \/ /\ step'[c] = "link.delete" /\ args' = args /\ step[c] = "link.invite"
             /\ invite[Pair(c)] # None /\ args[c].code = invite[Pair(c)].code
      BY <2>2 DEF ReadInvite, Return, Goto, TypeOK, Refused
    <3>2. CASE step'[c] \in {"idle", "link.wrong"}
      BY <2>1, <3>2
    <3>3. CASE /\ step'[c] = "link.delete" /\ args' = args
               /\ step[c] = "link.invite" /\ invite[Pair(c)] # None
               /\ args[c].code = invite[Pair(c)].code
      <4>1. Pair(c) \in Agencies \X Workers
        BY <3>3, CallsAreAbout DEF TypeOK, CallsTyped
      <4>2. args[c].code # 0
        BY <3>3, <4>1 DEF TypeOK, Invites, Codes
      <4> QED  BY <2>1, <3>3, <4>2
    <3> QED  BY <3>1, <3>2, <3>3
  <2>3. CASE DeleteInvite(c)
    BY <2>1, <2>3 DEF DeleteInvite, Goto, TypeOK
  <2>4. CASE ~ ReadInvite(c) /\ ~ DeleteInvite(c)
    <3>1. step'[c] \in {"idle", "ask.tell"}
      BY <1>2, <2>4 DEF CallContinues, InsertInvite, TellCode, CountWrong,
           Link, UpsertOffer, InsertWorker, Return, TypeOK
    <3> QED  BY <2>1, <3>1
  <2> QED  BY <2>2, <2>3, <2>4
<1>3. CASE UNCHANGED callVars /\ given \subseteq given'
  BY <1>3 DEF callVars
<1>4. AdminActs => UNCHANGED <<callVars, given>>
  BY EditsTouchTheRow DEF dealVars, historyVars
<1> QED
  BY <1>1, <1>2, <1>3, <1>4 DEF Next, Dealings, vars, AgencyActs, CreateAgency,
    UpdateAgency, RemoveAgency, UnlinkWorker, ToggleWorkerBlock, SendMessage,
    WorkerActs, SignUp, OfferAlone, PassCode, Expire, historyVars

LEMMA SpentStep ==
  ASSUME TypeOK, CallsHaveArguments, CodesAreOwn, ConsentIsGiven, SpentAreGone,
         SpentCodesAreDead, [Next]_vars
  PROVE  SpentAreGone' /\ SpentCodesAreDead'
<1> DEFINE Goal == SpentAreGone' /\ SpentCodesAreDead'
<1> USE DEF SpentAreGone, SpentCodesAreDead
<1>a. ASSUME UNCHANGED spent,
             \A p \in Pairs : invite'[p] # None =>
               invite[p] # None /\ invite'[p].code = invite[p].code,
             \A c \in Calls :
               \/ step'[c] = step[c] /\ args'[c] = args[c]
               \/ step'[c] \notin {"link.invite", "link.delete", "link.write"}
      PROVE  Goal
  BY <1>a
<1>1. ASSUME NEW c \in Calls, NEW a \in Agencies, NEW w \in Workers,
             CallBegins(c, a, w)
      PROVE  Goal
  <2>1. OthersStay(c) /\ UNCHANGED <<spent, invite>>
    BY <1>1, OnlyOneMoves DEF CallBegins, AskToLink, SendOffer, CreateWorker,
         LinkWithCode, historyVars, inviteVars
  <2>2. /\ step'[c] \in {"ask.insert", "offer.write", "create.insert", "link.invite"}
        /\ args'[c].late = (args'[c].code \in spent)
    BY <1>1, HowCallsBegin
  <2> QED  BY <2>1, <2>2 DEF OthersStay
<1>2. ASSUME NEW c \in Calls, InsertInvite(c) PROVE Goal
  <2>1. /\ OthersStay(c) /\ step'[c] \in {"idle", "ask.tell"} /\ spent' = spent
        /\ \A p \in Pairs : \/ invite'[p] = invite[p]
                            \/ codes + 1 \in Codes /\ invite'[p].code = codes + 1
    <3>1. OthersStay(c) /\ step'[c] \in {"idle", "ask.tell"} /\ spent' = spent
      BY <1>2, OnlyOneMoves DEF CallContinues, InsertInvite, Return, TypeOK
    <3>2. \/ invite' = invite
          \/ /\ codes < MaxCodes
             /\ invite' = [invite EXCEPT ![Pair(c)] =
                   [code |-> codes + 1, attempts |-> 0, alive |-> TRUE]]
      BY <1>2 DEF InsertInvite, inviteVars
    <3> QED  BY <3>1, <3>2, CallsAreCounted DEF TypeOK, Pairs, Codes
  <2>2. codes + 1 \notin spent
    BY CallsAreCounted DEF CodesAreOwn, TypeOK
  <2> QED  BY <2>1, <2>2 DEF OthersStay
<1>3. ASSUME NEW c \in Calls, ReadInvite(c) PROVE Goal
  <2>1. OthersStay(c) /\ UNCHANGED <<spent, invite>> /\ step[c] = "link.invite"
    BY <1>3, OnlyOneMoves DEF CallContinues, ReadInvite, inviteVars
  <2>2. \/ step'[c] \in {"idle", "link.wrong"}
        \/ /\ step'[c] = "link.delete" /\ args' = args
           /\ invite[Pair(c)] # None /\ args[c].code = invite[Pair(c)].code
    BY <1>3 DEF ReadInvite, Return, Goto, TypeOK, Refused
  <2>3. Pair(c) \in Pairs
    BY <2>1, CallsAreAbout DEF TypeOK, CallsTyped, Pairs
  <2>4. CASE step'[c] \in {"idle", "link.wrong"}
    BY <2>1, <2>4, <1>a DEF OthersStay
  <2>5. CASE /\ step'[c] = "link.delete" /\ args' = args
             /\ invite[Pair(c)] # None /\ args[c].code = invite[Pair(c)].code
    <3>1. ~ args[c].late
      BY <2>1, <2>3, <2>5
    <3> QED  BY <2>1, <2>5, <3>1 DEF OthersStay
  <2> QED  BY <2>2, <2>4, <2>5
<1>4. ASSUME NEW c \in Calls, DeleteInvite(c) PROVE Goal
  <2>1. /\ OthersStay(c) /\ step[c] = "link.delete" /\ step'[c] = "link.write"
        /\ args' = args /\ spent' = spent \cup {args[c].code}
        /\ \A p \in Pairs : p # Pair(c) => invite'[p] = invite[p]
        /\ Pair(c) \in Pairs /\ invite'[Pair(c)] = None
        /\ Ag(c) \in Agencies /\ Wrk(c) \in Workers /\ Pair(c) = <<Ag(c), Wrk(c)>>
    BY <1>4, OnlyOneMoves, CallsAreAbout DEF CallContinues, DeleteInvite, Goto,
       TypeOK, CallsTyped, Pairs
  <2>2. /\ <<Ag(c), Wrk(c), args[c].code>> \in given
        /\ Issued(Ag(c), Wrk(c), args[c].code) /\ args[c].code \in Codes
    BY <2>1 DEF ConsentIsGiven, Issued, TypeOK
  <2>3. ASSUME NEW p \in Pairs, invite'[p] # None
        PROVE  invite'[p].code \notin spent'
    <3>1. PICK a \in Agencies, w \in Workers : p = <<a, w>>
      BY DEF Pairs
    <3>2. p # Pair(c) /\ invite'[p] = invite[p]
      BY <2>1, <2>3
    <3>3. Issued(a, w, invite[p].code)
      BY <2>3, <3>1, <3>2 DEF Issued
    <3>4. invite[p].code # args[c].code
      BY <2>1, <2>2, <3>1, <3>2, <3>3 DEF CodesAreOwn
    <3> QED  BY <2>1, <2>3, <3>2, <3>4
  <2>4. SpentAreGone'
    BY <2>1, <2>3 DEF OthersStay
  <2>5. SpentCodesAreDead'
    BY <2>1 DEF OthersStay
  <2> QED  BY <2>4, <2>5
<1>5. ASSUME NEW c \in Calls,
             \/ TellCode(c) \/ CountWrong(c) \/ Link(c) \/ UpsertOffer(c)
             \/ InsertWorker(c)
      PROVE  Goal
  <2>1. OthersStay(c) /\ step'[c] = "idle" /\ spent' = spent
    BY <1>5, OnlyOneMoves DEF CallContinues, TellCode, CountWrong, Link,
         UpsertOffer, InsertWorker, Return, TypeOK, historyVars
  <2>2. \A p \in Pairs : invite'[p] # None =>
          invite[p] # None /\ invite'[p].code = invite[p].code
    <3>1. CASE CountWrong(c)
      BY <3>1 DEF CountWrong, TypeOK, Pairs, Invites
    <3>2. CASE ~ CountWrong(c)
      BY <1>5, <3>2 DEF TellCode, Link, UpsertOffer, InsertWorker, inviteVars
    <3> QED  BY <3>1, <3>2
  <2> QED  BY <1>a, <2>1, <2>2 DEF OthersStay
<1>6. ASSUME NEW p \in Pairs, Expire(p) PROVE Goal
  <2>1. /\ UNCHANGED <<callVars, spent>>
        /\ \A q \in Pairs : q # p => invite'[q] = invite[q]
        /\ invite[p] # None /\ invite'[p].code = invite[p].code
    BY <1>6 DEF Expire, TypeOK, Pairs, Invites, historyVars
  <2> QED  BY <1>a, <2>1 DEF callVars
<1>7. CASE /\ UNCHANGED <<callVars, spent>>
           /\ \A p \in Pairs : invite'[p] \in {invite[p], None}
  BY <1>a, <1>7 DEF callVars
<1>8. ASSUME NEW a \in Agencies, AgencyActs(a) PROVE Goal
  BY <1>7, <1>8 DEF AgencyActs, CreateAgency, UpdateAgency, RemoveAgency,
     UnlinkWorker, ToggleWorkerBlock, SendMessage, Pairs, historyVars, inviteVars
<1>9. ASSUME AdminActs PROVE Goal
  BY <1>7, <1>9, EditsTouchTheRow DEF dealVars, historyVars, inviteVars
<1> HIDE DEF Goal
<1> QED
  BY <1>1, <1>2, <1>3, <1>4, <1>5, <1>6, <1>7, <1>8, <1>9
  DEF Next, Dealings, CallContinues, vars, WorkerActs, SignUp, OfferAlone,
      PassCode, Pairs, Goal, historyVars, inviteVars

-----------------------------------------------------------------------------
(* Who belongs to whom                                                     *)

LEMMA DealsOfOwn ==
  ASSUME TypeOK, CallsHaveArguments, CodesAreOwn, OwnWereLinked,
         FlagFollowsAgency, DealingsFollowMembership, Dealings,
         UNCHANGED overwritten
  PROVE  OwnWereLinked' /\ FlagFollowsAgency' /\ DealingsFollowMembership'
<1> DEFINE Goal == /\ OwnWereLinked' /\ FlagFollowsAgency'
                   /\ DealingsFollowMembership'
<1> USE CallsAreCounted
<1> USE DEF OwnWereLinked, FlagFollowsAgency, DealingsFollowMembership
\* Steps that change no membership and deal with nobody.
<1>a. ASSUME UNCHANGED <<member, flag, was, offeredBy>>,
             \A a \in Agencies : agency[a] = "removed" => agency'[a] = "removed",
             \A m \in inbox' : m[3] = 0 => m \in inbox \/ <<m[1], m[2]>> \in was,
             \A c \in Calls : step'[c] = "offer.write" => Pair(c)' \in was
      PROVE  Goal
  BY <1>a
<1>b. ASSUME NEW c \in Calls, OthersStay(c), step'[c] # "offer.write",
             was \subseteq was'
      PROVE  \A d \in Calls : step'[d] = "offer.write" => Pair(d)' \in was'
  BY <1>b DEF OthersStay, Pair, Ag, Wrk
<1>1. ASSUME NEW c \in Calls, NEW a \in Agencies, NEW w \in Workers,
             CallBegins(c, a, w)
      PROVE  Goal
  <2>1. /\ OthersStay(c) /\ UNCHANGED <<member, flag, was, offeredBy, agency, inbox>>
        /\ args'[c].ag = a /\ args'[c].wrk = w
        /\ step'[c] = "offer.write" => member[w] = a
    <3>1. /\ OthersStay(c)
          /\ UNCHANGED <<agency, userVars, tableVars, historyVars>>
          /\ args'[c].ag = a /\ args'[c].wrk = w
          /\ step'[c] = "offer.write" => IsOwnWorker(a, w)
      BY <1>1, OnlyOneMoves, HowCallsBegin
    <3> QED
      BY <3>1 DEF userVars, tableVars, historyVars, IsOwnWorker, FleetOf
  <2>2. \A d \in Calls : step'[d] = "offer.write" => Pair(d)' \in was
    BY <2>1 DEF OthersStay, Pair, Ag, Wrk
  <2> QED  BY <1>a, <2>1, <2>2
<1>2. ASSUME NEW c \in Calls,
             \/ InsertInvite(c) \/ ReadInvite(c) \/ CountWrong(c) \/ DeleteInvite(c)
      PROVE  Goal
  <2>1. /\ OthersStay(c) /\ step'[c] # "offer.write"
        /\ UNCHANGED <<member, flag, was, offeredBy, agency, inbox>>
    <3>1. OthersStay(c)
      BY <1>2, OnlyOneMoves DEF CallContinues
    <3>2. UNCHANGED <<member, flag, was, offeredBy, agency, inbox>>
      BY <1>2 DEF InsertInvite, ReadInvite, CountWrong, DeleteInvite,
                  userVars, tableVars, historyVars
    <3>3. step'[c] # "offer.write"
      BY <1>2 DEF InsertInvite, ReadInvite, CountWrong, DeleteInvite, Return,
                  Goto, TypeOK
    <3> QED  BY <3>1, <3>2, <3>3
  <2> QED  BY <1>a, <1>b, <2>1
<1>3. ASSUME NEW c \in Calls, TellCode(c) PROVE Goal
  <2>1. /\ OthersStay(c) /\ step'[c] # "offer.write" /\ args[c].code # 0
        /\ UNCHANGED <<member, flag, was, offeredBy, agency>>
        /\ inbox' \subseteq inbox \cup {<<Ag(c), Wrk(c), args[c].code>>}
    BY <1>3, OnlyOneMoves DEF CallContinues, TellCode, Return, TypeOK, userVars,
       historyVars, CodesAreOwn
  <2>2. <<Ag(c), Wrk(c), args[c].code>>[3] # 0
    BY <2>1
  <2> QED  BY <1>a, <1>b, <2>1, <2>2
<1>4. ASSUME NEW c \in Calls, UpsertOffer(c) PROVE Goal
  <2>1. /\ OthersStay(c) /\ step'[c] # "offer.write" /\ step[c] = "offer.write"
        /\ UNCHANGED <<member, flag, was, agency, inbox>>
        /\ \/ offeredBy' = offeredBy
           \/ offeredBy' = [offeredBy EXCEPT ![Wrk(c)] = Ag(c)]
    BY <1>4, OnlyOneMoves DEF CallContinues, UpsertOffer, Return, TypeOK,
       userVars, historyVars
  <2>2. \A w \in Workers, a \in Agencies : offeredBy'[w] = a => <<a, w>> \in was
    BY <2>1 DEF TypeOK, Pair
  <2>3. \A d \in Calls : step'[d] = "offer.write" => Pair(d)' \in was'
    BY <1>b, <2>1
  <2> QED  BY <2>1, <2>2, <2>3
<1>5. ASSUME NEW c \in Calls, Link(c) \/ InsertWorker(c) PROVE Goal
  <2>1. /\ OthersStay(c) /\ step'[c] # "offer.write"
        /\ UNCHANGED <<offeredBy, agency, inbox>>
        /\ Ag(c) \in Agencies /\ Wrk(c) \in Workers /\ Pair(c) = <<Ag(c), Wrk(c)>>
    BY <1>5, OnlyOneMoves, CallsAreAbout DEF CallContinues, Link, InsertWorker,
       Return, TypeOK, CallsTyped, tableVars
  <2>2. \/ UNCHANGED <<member, flag, was>>
        \/ /\ member' = [member EXCEPT ![Wrk(c)] = Ag(c)]
           /\ flag' = [flag EXCEPT ![Wrk(c)] = TRUE]
           /\ was' = was \cup {Pair(c)}
    BY <1>5 DEF Link, InsertWorker
  <2>3. CASE UNCHANGED <<member, flag, was>>
    BY <1>a, <1>b, <2>1, <2>3
  <2>4. CASE /\ member' = [member EXCEPT ![Wrk(c)] = Ag(c)]
             /\ flag' = [flag EXCEPT ![Wrk(c)] = TRUE]
             /\ was' = was \cup {Pair(c)}
    <3>1. \A d \in Calls : step'[d] = "offer.write" => Pair(d)' \in was'
      BY <1>b, <2>1, <2>4
    <3>2. \A w \in Workers : member'[w] # None => <<member'[w], w>> \in was'
      BY <2>1, <2>4 DEF TypeOK
    <3>3. FlagFollowsAgency'
      <4> DEFINE Left(w) == \E a \in Agencies :
                              agency[a] = "removed" /\ <<a, w>> \in was
      <4>1. \A w \in Workers : Left(w) => Left(w)'
        BY <2>1, <2>4
      <4>2. \A w \in Workers \ overwritten :
              /\ member[w] # None => flag[w]
              /\ flag[w] /\ member[w] = None => Left(w)
        BY DEF FlagFollowsAgency
      <4>3. \A w \in Workers : w # Wrk(c) =>
              member'[w] = member[w] /\ flag'[w] = flag[w]
        BY <2>4 DEF TypeOK
      <4>4. member'[Wrk(c)] # None /\ flag'[Wrk(c)]
        BY <2>1, <2>4 DEF TypeOK
      <4> HIDE DEF Left, FlagFollowsAgency
      <4>5. \A w \in Workers \ overwritten' :
              /\ member'[w] # None => flag'[w]
              /\ flag'[w] /\ member'[w] = None => Left(w)'
        BY <4>1, <4>2, <4>3, <4>4
      <4> QED  BY <4>5 DEF FlagFollowsAgency, Left
    <3>4. DealingsFollowMembership'
      BY <2>1, <2>4
    <3> QED  BY <3>1, <3>2, <3>3, <3>4
  <2> QED  BY <2>2, <2>3, <2>4
<1>6. ASSUME NEW a \in Agencies, AgencyActs(a) PROVE Goal
  <2> USE DEF userVars, tableVars, callVars, historyVars
  <2>c. ASSUME UNCHANGED callVars
        PROVE  \A d \in Calls : step'[d] = "offer.write" => Pair(d)' \in was
    BY <2>c DEF Pair, Ag, Wrk
  <2>1. CASE CreateAgency(a) \/ UpdateAgency(a)
    <3>1. \A b \in Agencies : agency[b] = "removed" => agency'[b] = "removed"
      BY <2>1 DEF CreateAgency, UpdateAgency, Stands, TypeOK
    <3> QED  BY <1>a, <2>1, <2>c, <3>1 DEF CreateAgency, UpdateAgency
  <2>2. CASE RemoveAgency(a)
    <3>1. /\ UNCHANGED <<flag, was, inbox, callVars>>
          /\ \A b \in Agencies : agency[b] = "removed" => agency'[b] = "removed"
          /\ agency'[a] = "removed"
          /\ \A w \in Workers :
               /\ member'[w] = IF member[w] = a THEN None ELSE member[w]
               /\ offeredBy'[w] \in {offeredBy[w], None}
      BY <2>2 DEF RemoveAgency, TypeOK
    <3>2. OwnWereLinked'
      BY <2>c, <3>1
    <3>3. FlagFollowsAgency'
      BY <3>1
    <3>4. DealingsFollowMembership'
      BY <3>1
    <3> QED  BY <3>2, <3>3, <3>4
  <2>3. ASSUME NEW w \in Workers, UnlinkWorker(a, w) PROVE Goal
    <3>1. /\ UNCHANGED <<agency, was, inbox, offeredBy, callVars>>
          /\ member' = [member EXCEPT ![w] = None]
          /\ flag' = [flag EXCEPT ![w] = FALSE]
      BY <2>3 DEF UnlinkWorker, ClearAgency
    <3>2. OwnWereLinked' /\ DealingsFollowMembership'
      BY <2>c, <3>1 DEF TypeOK
    <3>3. FlagFollowsAgency'
      BY <3>1 DEF TypeOK
    <3> QED  BY <3>2, <3>3
  <2>4. ASSUME NEW w \in Workers, ToggleWorkerBlock(a, w) PROVE Goal
    BY <1>a, <2>4, <2>c DEF ToggleWorkerBlock
  <2>5. ASSUME NEW W \in SUBSET Workers, SendMessage(a, W) PROVE Goal
    <3>1. ASSUME NEW m \in inbox', m \notin inbox
          PROVE  <<m[1], m[2]>> \in was
      <4>1. PICK w \in Recipients(a, W) : m = <<a, w, 0>>
        BY <2>5, <3>1 DEF SendMessage
      <4>2. w \in Workers /\ member[w] = a
        BY <4>1 DEF Recipients, FleetOf
      <4> QED  BY <4>1, <4>2
    <3> QED  BY <1>a, <2>5, <2>c, <3>1 DEF SendMessage
  <2> QED  BY <1>6, <2>1, <2>2, <2>3, <2>4, <2>5 DEF AgencyActs
<1>7. ASSUME NEW w \in Workers, WorkerActs(w) PROVE Goal
  <2>1. /\ UNCHANGED <<member, flag, was, agency, inbox, callVars>>
        /\ \A v \in Workers : offeredBy'[v] \in {offeredBy[v], None}
    BY <1>7 DEF WorkerActs, SignUp, OfferAlone, TypeOK, tableVars, userVars,
                historyVars
  <2> QED  BY <2>1 DEF callVars, Pair, Ag, Wrk
<1>8. CASE UNCHANGED <<member, flag, was, offeredBy, agency, inbox, callVars>>
  BY <1>a, <1>8 DEF callVars, Pair, Ag, Wrk
<1>9. ASSUME NEW m \in inbox, PassCode(m) PROVE Goal
  BY <1>8, <1>9 DEF PassCode, userVars, tableVars
<1>10. ASSUME NEW p \in Pairs, Expire(p) PROVE Goal
  BY <1>8, <1>10 DEF Expire, userVars, tableVars, historyVars
<1> HIDE DEF Goal
<1>12. OwnWereLinked' /\ FlagFollowsAgency' /\ DealingsFollowMembership' <=> Goal
  BY DEF Goal
<1> QED
  BY <1>1, <1>2, <1>3, <1>4, <1>5, <1>6, <1>7, <1>9, <1>10, <1>12
  DEF Dealings, CallContinues, Pairs

\* Nobody forgets an agency he was in.
LEMMA PastIsKept ==
  Dealings => was \subseteq was'
BY DEF Dealings, CallBegins, AskToLink, SendOffer, CreateWorker, LinkWithCode,
   CallContinues, InsertInvite, TellCode, ReadInvite, CountWrong, DeleteInvite,
   Link, UpsertOffer, InsertWorker, AgencyActs, CreateAgency, UpdateAgency,
   RemoveAgency, UnlinkWorker, ToggleWorkerBlock, SendMessage, WorkerActs,
   SignUp, OfferAlone, PassCode, Expire, historyVars

LEMMA OwnStep ==
  ASSUME TypeOK, CallsHaveArguments, CodesAreOwn, OwnWereLinked,
         FlagFollowsAgency, DealingsFollowMembership, CopiesWereTrue,
         [Next]_vars
  PROVE  /\ OwnWereLinked' /\ FlagFollowsAgency' /\ DealingsFollowMembership'
         /\ CopiesWereTrue'
<1>1. CASE Dealings /\ UNCHANGED editVars
  <2>1. UNCHANGED <<copy, edit, overwritten>> /\ was \subseteq was'
    BY <1>1, PastIsKept DEF editVars
  <2>2. CopiesWereTrue'
    BY <2>1 DEF CopiesWereTrue, WasIn, Admin!Usr
  <2> QED  BY <1>1, <2>1, <2>2, DealsOfOwn
<1>2. CASE AdminActs
  <2>1. UNCHANGED <<agency, was, inbox, offeredBy>>
    BY <1>2, EditsTouchTheRow DEF dealVars, historyVars, tableVars
  <2>2. DealingsFollowMembership'
    BY <2>1 DEF DealingsFollowMembership
  <2>3. overwritten \subseteq overwritten'
    BY <1>2 DEF AdminActs, ReadUser, LoadForSave, WriteSave, EditElsewhere,
       CopyExpires
  <2>4. FlagFollowsAgency'
    BY <1>2, <2>1, <2>3, EditStep DEF FlagFollowsAgency
  <2> QED  BY <1>2, <2>2, <2>4, EditStep
<1>3. CASE UNCHANGED vars
  <2>1. UNCHANGED <<agency, member, flag, inbox, offeredBy, was, callVars,
                    copy, edit, overwritten>>
    BY <1>3 DEF vars, editVars, userVars, tableVars, historyVars
  <2> QED
    BY <2>1 DEF OwnWereLinked, FlagFollowsAgency, DealingsFollowMembership,
       CopiesWereTrue, WasIn, Admin!Usr, callVars, Pair, Ag, Wrk
<1> QED  BY <1>1, <1>2, <1>3 DEF Next

-----------------------------------------------------------------------------
(* The theorems                                                            *)

LEMMA Invariance == Spec => []IInv
<1>1. IInv /\ [Next]_vars => IInv'
  BY TypeStep, ArgumentsStep, GuessStep, CodesStep, SpentStep, ConsentStep,
     OwnStep DEF IInv, Safe
<1> QED  BY InitIInv, <1>1, PTL DEF Spec

\* Every reachable state is well typed.
THEOREM TypeCorrect == Spec => []TypeOK
<1>1. IInv => TypeOK
  BY DEF IInv
<1> QED  BY Invariance, <1>1, PTL

\* However many calls guess at once, an invitation stands a bounded number of
\* wrong codes, and a call that begins with a consumed code links nobody.
THEOREM CodesStayGuarded == Spec => []CodesAreGuarded
<1>1. IInv => CodesAreGuarded
  BY DEF IInv, Safe, CodesAreGuarded
<1> QED  BY Invariance, <1>1, PTL

\* Flags, offers and messages agree with who is or was whose worker, the flag
\* except where an old copy was saved over it.
THEOREM FleetStaysInAgreement == Spec => []FleetAgrees
<1>1. IInv => FleetAgrees
  BY DEF IInv, Safe, FleetAgrees
<1> QED  BY Invariance, <1>1, PTL

-----------------------------------------------------------------------------
(* The contract of the agencies                                            *)

Consent == {<<m[1], m[2]>> : m \in given}

\* Most steps say nothing of what Membership speaks of.
Silent == UNCHANGED <<account, member, given, was, overwritten>>

LEMMA SilentMeansStutter ==
  /\ Silent => UNCHANGED <<account, member, Consent, was, overwritten>>
  /\ UNCHANGED vars => Silent
BY DEF Silent, Consent, vars, userVars, historyVars, editVars

LEMMA SilentSteps ==
  ASSUME UNCHANGED overwritten
  PROVE
  /\ \A c \in Calls :
       \/ InsertInvite(c) \/ TellCode(c) \/ ReadInvite(c) \/ CountWrong(c)
       \/ DeleteInvite(c) \/ UpsertOffer(c)
       => Silent
  /\ \A a \in Agencies : CreateAgency(a) \/ UpdateAgency(a) => Silent
  /\ \A a \in Agencies, w \in Workers : ToggleWorkerBlock(a, w) => Silent
  /\ \A a \in Agencies, W \in SUBSET Workers : SendMessage(a, W) => Silent
  /\ \A w \in Workers : OfferAlone(w) => Silent
  /\ \A p \in Agencies \X Workers : Expire(p) => Silent
<1> USE DEF Silent, userVars, historyVars
<1>2. \A c \in Calls :
        \/ InsertInvite(c) \/ TellCode(c) \/ ReadInvite(c) \/ CountWrong(c)
        \/ DeleteInvite(c) \/ UpsertOffer(c)
        => Silent
  BY DEF InsertInvite, TellCode, ReadInvite, CountWrong, DeleteInvite,
         UpsertOffer
<1>3. \A a \in Agencies : CreateAgency(a) \/ UpdateAgency(a) => Silent
  BY DEF CreateAgency, UpdateAgency
<1>4. \A a \in Agencies, w \in Workers : ToggleWorkerBlock(a, w) => Silent
  BY DEF ToggleWorkerBlock
<1>5. \A a \in Agencies, W \in SUBSET Workers : SendMessage(a, W) => Silent
  BY DEF SendMessage
<1>6. \A w \in Workers : OfferAlone(w) => Silent
  BY DEF OfferAlone
<1>7. \A p \in Agencies \X Workers : Expire(p) => Silent
  BY DEF Expire
<1> QED  BY <1>2, <1>3, <1>4, <1>5, <1>6, <1>7

\* A worker leaves when his agency lets him go, or all of them when it goes.
LEMMA LeavingIsAllowed ==
  ASSUME TypeOK, UNCHANGED overwritten, NEW a \in Agencies,
         RemoveAgency(a) \/ \E w \in Workers : UnlinkWorker(a, w)
  PROVE  \E W \in SUBSET Workers : Contract!Leave(W)
<1>1. CASE RemoveAgency(a)
  <2> DEFINE W == {w \in Workers : member[w] = a}
  <2>1. /\ UNCHANGED <<account, given, was>>
        /\ member' = [w \in Workers |->
                        IF member[w] = a THEN None ELSE member[w]]
    BY <1>1 DEF RemoveAgency, historyVars
  <2>2. member' = [w \in Workers |-> IF w \in W THEN None ELSE member[w]]
    BY <2>1
  <2>3. Contract!Leave(W)
    BY <2>1, <2>2 DEF Contract!Leave
  <2> QED  BY <2>3
<1>2. ASSUME NEW w \in Workers, UnlinkWorker(a, w)
      PROVE  Contract!Leave({w})
  <2>1. /\ UNCHANGED <<account, given, was>>
        /\ member' = [member EXCEPT ![w] = None]
    BY <1>2 DEF UnlinkWorker, ClearAgency, historyVars
  <2>2. member' = [v \in Workers |-> IF v \in {w} THEN None ELSE member[v]]
    BY <2>1 DEF TypeOK
  <2> QED  BY <2>1, <2>2 DEF Contract!Leave
<1> QED  BY <1>1, <1>2

\* Who is linked, or registered, comes from no agency and agreed to this one.
LEMMA JoiningIsAllowed ==
  ASSUME IInv, UNCHANGED overwritten, NEW c \in Calls,
         Link(c) \/ InsertWorker(c)
  PROVE  \/ Silent
         \/ \E a \in Agencies, w \in Workers :
              Contract!Hire(a, w) \/ Contract!Join(a, w)
<1> USE DEF IInv, Safe
<1>1. Ag(c) \in Agencies /\ Wrk(c) \in Workers /\ Pair(c) = <<Ag(c), Wrk(c)>>
  BY DEF Link, InsertWorker, CallsHaveArguments, Pair
<1>2. CASE InsertWorker(c)
  BY <1>1, <1>2 DEF InsertWorker, IsFree, Contract!Hire, Silent
<1>3. CASE Link(c)
  <2>1. UNCHANGED <<account, given>>
    BY <1>3 DEF Link
  <2>2. CASE ~ MayJoin(Ag(c), Wrk(c)) \/ member[Wrk(c)] = Ag(c)
    <3>1. CASE ~ MayJoin(Ag(c), Wrk(c))
      BY <1>3, <2>1, <3>1 DEF Link, Silent
    <3>2. CASE MayJoin(Ag(c), Wrk(c)) /\ member[Wrk(c)] = Ag(c)
      <4>1. member' = member
        BY <1>1, <1>3, <3>2 DEF Link, TypeOK
      <4>2. Pair(c) \in was
        BY <1>1, <3>2, CallsAreCounted DEF OwnWereLinked
      <4>3. was' = was
        BY <1>3, <4>2 DEF Link
      <4> QED  BY <2>1, <4>1, <4>3 DEF Silent
    <3> QED  BY <2>2, <3>1, <3>2
  <2>3. CASE MayJoin(Ag(c), Wrk(c)) /\ member[Wrk(c)] = None
    <3>1. <<Ag(c), Wrk(c), args[c].code>> \in given
      BY <1>3 DEF Link, ConsentIsGiven
    <3>2. <<Ag(c), Wrk(c)>> \in Consent
      BY <3>1 DEF Consent
    <3>3. /\ member' = [member EXCEPT ![Wrk(c)] = Ag(c)]
          /\ was' = was \cup {<<Ag(c), Wrk(c)>>}
      BY <1>1, <1>3, <2>3 DEF Link
    <3> QED  BY <1>1, <2>1, <2>3, <3>2, <3>3 DEF Contract!Join, Consent
  <2> QED  BY <2>2, <2>3 DEF MayJoin
<1> QED  BY <1>2, <1>3

\* A code passed on is an agreement.
LEMMA PassingIsAgreeing ==
  ASSUME TypeOK, UNCHANGED overwritten, NEW m \in inbox, PassCode(m)
  PROVE  Contract!Agree(m[1], m[2]) /\ m[1] \in Agencies /\ m[2] \in Workers
<1>1. /\ UNCHANGED <<account, member, was>> /\ given' = given \cup {m}
      /\ m[1] \in Agencies /\ m[2] \in Workers
  BY DEF PassCode, userVars, TypeOK
<1>2. Consent' = Consent \cup {<<m[1], m[2]>>}
  BY <1>1 DEF Consent
<1> QED  BY <1>1, <1>2 DEF Contract!Agree, Consent

\* An old copy that is saved puts the worker where he was.
LEMMA RestoringIsAllowed ==
  ASSUME IInv, AdminActs
  PROVE  \/ Silent
         \/ \E a \in Agencies \cup {None}, w \in Workers : Contract!Restore(a, w)
<1> USE DEF IInv, Safe
<1>1. UNCHANGED <<account, given, was>>
  BY EditsTouchTheRow DEF dealVars, historyVars
<1>2. ASSUME NEW e \in Edits, WriteSave(e)
      PROVE  \/ Silent
             \/ \E a \in Agencies \cup {None}, w \in Workers :
                  Contract!Restore(a, w)
  <2> DEFINE w == Admin!Usr(e)
             v == Admin!Saved(e, Row(w))
  <2>1. /\ member' = [member EXCEPT ![w] = v.agency]
        /\ overwritten' = IF v = Row(w) THEN overwritten ELSE overwritten \cup {w}
        /\ w \in Workers
    BY <1>2 DEF WriteSave, Admin!SaveSucceeds, CopiesWereTrue
  <2>2. CASE v = Row(w)
    <3>1. member' = member
      BY <2>1, <2>2 DEF TypeOK, Row
    <3> QED  BY <1>1, <2>1, <2>2, <3>1 DEF Silent
  <2>3. CASE v # Row(w)
    <3>1. <<member'[w], w>> \in was \/ member'[w] = None
      BY <1>1, <2>1, EditStep DEF OwnWereLinked
    <3>2. member'[w] = v.agency /\ v.agency \in Agencies \cup {None}
      BY <2>1, EditStep DEF TypeOK
    <3>3. Contract!Restore(v.agency, w)
      BY <1>1, <2>1, <2>3, <3>1, <3>2 DEF Contract!Restore, Consent
    <3> QED  BY <2>1, <3>2, <3>3
  <2> QED  BY <2>2, <2>3
<1>3. CASE ~ \E e \in Edits : WriteSave(e)
  BY <1>1, <1>3 DEF AdminActs, ReadUser, LoadForSave, EditElsewhere,
     CopyExpires, userVars, Silent
<1> QED  BY <1>2, <1>3

\* Whatever the statements behind it, a worker is of one agency at a time,
\* enters one that registered him or to which he gave its code, and only
\* leaving it lets him enter another; the save of an old copy of his row puts
\* him into no agency or into one he was in (agency.service.ts,
\* users.service.ts).
THEOREM Refinement == Spec => ImplementsMembership
<1>1. Init => Contract!Init
  BY DEF Init, Contract!Init
<1>2. IInv /\ [Next]_vars
        => [Contract!Next]_<<account, member, Consent, was, overwritten>>
  <2> SUFFICES ASSUME IInv, [Next]_vars
               PROVE  [Contract!Next]_<<account, member, Consent, was,
                                        overwritten>>
    OBVIOUS
  <2> USE DEF Contract!Next
  <2>t. TypeOK
    BY DEF IInv
  <2>1. ASSUME NEW c \in Calls, NEW a \in Agencies, NEW w \in Workers,
               CallBegins(c, a, w), UNCHANGED overwritten
        PROVE  Silent
    BY <2>t, <2>1, HowCallsBegin DEF Silent, userVars, historyVars
  <2>2. ASSUME NEW c \in Calls, CallContinues(c), UNCHANGED overwritten
        PROVE  Silent \/ Contract!Next
    BY <2>2, SilentSteps, JoiningIsAllowed DEF CallContinues
  <2>3. ASSUME NEW a \in Agencies, AgencyActs(a), UNCHANGED overwritten
        PROVE  Silent \/ Contract!Next
    BY <2>t, <2>3, SilentSteps, LeavingIsAllowed DEF AgencyActs
  <2>4. ASSUME NEW w \in Workers, WorkerActs(w), UNCHANGED overwritten
        PROVE  Silent \/ Contract!Next
    <3>1. CASE SignUp(w)
      BY <2>4, <3>1 DEF SignUp, historyVars, Contract!SignUp
    <3>2. CASE OfferAlone(w)
      BY <2>4, <3>2, SilentSteps
    <3> QED  BY <2>4, <3>1, <3>2 DEF WorkerActs
  <2>5. ASSUME NEW m \in inbox, PassCode(m), UNCHANGED overwritten
        PROVE  Contract!Next
    BY <2>t, <2>5, PassingIsAgreeing
  <2>6. ASSUME NEW p \in Agencies \X Workers, Expire(p), UNCHANGED overwritten
        PROVE  Silent
    BY <2>6, SilentSteps
  <2>7. AdminActs => Silent \/ Contract!Next
    BY RestoringIsAllowed
  <2> HIDE DEF Contract!Next
  <2>8. Silent \/ Contract!Next
    BY <2>1, <2>2, <2>3, <2>4, <2>5, <2>6, <2>7, SilentMeansStutter
    DEF Next, Dealings, editVars
  <2> QED  BY <2>8, SilentMeansStutter
<1> QED
  BY Invariance, <1>1, <1>2, PTL
  DEF Spec, ImplementsMembership, Contract!Spec, Contract!vars, Consent
=============================================================================
