--------------------------- MODULE AccountsProofs ---------------------------
(***************************************************************************)
(* Proofs about Accounts and Gallery, for any users, requests, calls at    *)
(* once, edits of the administration and number of photos, and about       *)
(* Access, for any subjects, passwords, limit of attempts and faults. The  *)
(* two are read side by side: only the calls and the users are in both.    *)
(***************************************************************************)
EXTENDS Gallery, Access, FiniteSetTheorems, TLAPS

(***************************************************************************)
(* The inductive invariant of the accounts                                 *)
(***************************************************************************)

CallsHaveUsers == \A c \in Calls : step[c] # "idle" => Usr(c) \in Users

\* A date is set because the user asked, or an old copy was saved; and so is
\* what is erased. The rest is what is promised of an account.
UserIsSound(u) ==
  /\ row[u].sched # "no" \/ row[u].gone = "erased" => wish[u] \/ overwritten[u]
  /\ row[u].gone = "erased" /\ ~ late[u] /\ ~ overwritten[u] =>
       row[u].docs = 0 /\ ~ cred[u] /\ ~ token[u]
  /\ row[u].status = "verified" /\ row[u].docs > 0 /\ ~ overwritten[u] =>
       row[u].docs \in seen[u]

AccountsInv == TypeOK /\ CallsHaveUsers /\ \A u \in Users : UserIsSound(u)

-----------------------------------------------------------------------------
LEMMA NoArgsIsTyped == NoArgs \in Args /\ NewRow \in Rows
<1>1. NewRow \in Rows
  BY DocsAreFew DEF NewRow, Rows, Opinions, Statuses
<1> QED  BY <1>1 DEF NoArgs, Args

LEMMA InitAccounts == Init => AccountsInv
<1> SUFFICES ASSUME Init PROVE AccountsInv
  OBVIOUS
<1>1. TypeOK
  BY NoArgsIsTyped DEF Init, TypeOK, Steps
<1>2. CallsHaveUsers
  BY DEF Init, CallsHaveUsers
<1>3. \A u \in Users : UserIsSound(u)
  BY DEF Init, UserIsSound, NewRow
<1> QED  BY <1>1, <1>2, <1>3 DEF AccountsInv

-----------------------------------------------------------------------------
(***************************************************************************)
(* Rows                                                                    *)
(***************************************************************************)

LEMMA RowFacts ==
  ASSUME NEW r \in Rows
  PROVE  /\ r.sched \in {"no", "set", "due"} /\ r.docs \in 0..MaxDocs
         /\ r.gone \in {"no", "deleted", "erased"} /\ r.status \in Statuses
         /\ r.idOk \in Opinions /\ r.faceOk \in Opinions
BY DEF Rows

LEMMA UnderReviewFacts ==
  ASSUME NEW r \in Rows
  PROVE  /\ UnderReview(r) \in Rows
         /\ UnderReview(r).status = "pending"
         /\ UnderReview(r).sched = r.sched /\ UnderReview(r).gone = r.gone
<1>1. NewDocs(r) \in 0..MaxDocs
  BY DocsAreFew, RowFacts DEF NewDocs
<1> QED  BY <1>1, RowFacts DEF UnderReview, Rows, Opinions, Statuses

\* An edit touches neither the date nor the end of an account.
LEMMA EditedFacts ==
  ASSUME NEW r \in Rows, NEW e \in Edits \cup {NoEdit}
  PROVE  /\ Edited(r, e) \in Rows
         /\ Edited(r, e).sched = r.sched /\ Edited(r, e).gone = r.gone
<1>1. /\ e.op \in EditOps /\ e.id \in Opinions /\ e.face \in Opinions
      /\ e.to \in Statuses
  BY EditsAreEdits DEF NoEdit, EditOps, Opinions, Statuses
<1>2. CASE e.op = "review"
  <2> DEFINE i == Or(e.id, r.idOk)
             f == Or(e.face, r.faceOk)
  <2>1. i \in Opinions /\ f \in Opinions
    BY <1>1, RowFacts DEF Or
  <2>2. Resolve(i, f) \in Statuses
    BY DEF Resolve, Statuses
  <2>3. Edited(r, e) = [r EXCEPT !.idOk = i, !.faceOk = f,
                                 !.status = Resolve(i, f)]
    BY <1>2 DEF Edited
  <2> HIDE DEF i, f
  <2> QED  BY <2>1, <2>2, <2>3 DEF Rows
<1>3. CASE e.op = "photos"
  BY <1>3, UnderReviewFacts DEF Edited
<1>4. CASE e.op = "status"
  <2>1. Edited(r, e) = [r EXCEPT !.status = e.to]
    BY <1>4 DEF Edited
  <2> QED  BY <1>1, <2>1 DEF Rows
<1>5. CASE e.op \notin {"review", "photos", "status"}
  BY <1>5 DEF Edited
<1> QED  BY <1>2, <1>3, <1>4, <1>5

\* What a save leaves is a row, column by column of one or the other.
LEMMA MergeFacts ==
  ASSUME NEW r \in Rows, NEW n \in Rows, NEW D \in SUBSET Fields
  PROVE  LET m == [f \in Fields |-> IF f \in D THEN n[f] ELSE r[f]] IN
         /\ m \in Rows
         /\ m.sched = IF "sched" \in D THEN n.sched ELSE r.sched
         /\ m.gone = IF "gone" \in D THEN n.gone ELSE r.gone
         /\ m.docs = IF "docs" \in D THEN n.docs ELSE r.docs
         /\ m.status = IF "status" \in D THEN n.status ELSE r.status
         /\ D = {} => m = r
         /\ D = {f \in Fields : n[f] # r[f]} => m = n
<1> DEFINE m == [f \in Fields |-> IF f \in D THEN n[f] ELSE r[f]]
<1>1. \A x \in Rows : x = [f \in Fields |-> x[f]]
  BY DEF Rows, Fields
<1>2. m = [sched |-> m["sched"], gone |-> m["gone"], docs |-> m["docs"],
           idOk |-> m["idOk"], faceOk |-> m["faceOk"], status |-> m["status"]]
  BY DEF Fields
<1>3. /\ m["sched"] = IF "sched" \in D THEN n.sched ELSE r.sched
      /\ m["gone"] = IF "gone" \in D THEN n.gone ELSE r.gone
      /\ m["docs"] = IF "docs" \in D THEN n.docs ELSE r.docs
      /\ m["idOk"] = IF "idOk" \in D THEN n.idOk ELSE r.idOk
      /\ m["faceOk"] = IF "faceOk" \in D THEN n.faceOk ELSE r.faceOk
      /\ m["status"] = IF "status" \in D THEN n.status ELSE r.status
  BY DEF Fields
<1>4. m \in Rows
  <2> HIDE DEF m
  <2> QED  BY <1>2, <1>3, RowFacts DEF Rows
<1>5. D = {} => m = r
  <2>1. D = {} => m = [f \in Fields |-> r[f]]
    OBVIOUS
  <2> QED  BY <1>1, <2>1
<1>6. D = {f \in Fields : n[f] # r[f]} => m = n
  <2>1. D = {f \in Fields : n[f] # r[f]} => m = [f \in Fields |-> n[f]]
    OBVIOUS
  <2> QED  BY <1>1, <2>1
<1> QED  BY <1>3, <1>4, <1>5, <1>6

-----------------------------------------------------------------------------
(***************************************************************************)
(* The calls in flight                                                     *)
(***************************************************************************)

LEMMA ArgsFacts ==
  ASSUME TypeOK, NEW c \in Calls
  PROVE  /\ args[c] \in Args /\ step[c] \in Steps /\ Usr(c) \in Users \cup {None}
         /\ args[c].usr \in Users \cup {None} /\ args[c].base \in Rows
         /\ args[c].edit \in Edits \cup {NoEdit} /\ args[c].diff \in SUBSET Fields
<1>1. args[c] \in Args /\ step[c] \in Steps
  BY DEF TypeOK
<1> QED  BY <1>1 DEF Args, Usr

\* The call stands at s with the arguments x, and all others where they were.
CallsKept ==
  step' \in [Calls -> Steps] /\ args' \in [Calls -> Args] /\ CallsHaveUsers'

LEMMA CallStep ==
  ASSUME AccountsInv, NEW c \in Calls, NEW s \in Steps, NEW x \in Args,
         step' = [step EXCEPT ![c] = s], args' = [args EXCEPT ![c] = x],
         s # "idle" => x.usr \in Users
  PROVE  CallsKept
<1> USE DEF AccountsInv
<1>1. step' \in [Calls -> Steps] /\ args' \in [Calls -> Args]
  BY DEF TypeOK
<1>2. CallsHaveUsers'
  BY DEF CallsHaveUsers, Usr, TypeOK
<1> QED  BY <1>1, <1>2 DEF CallsKept

LEMMA BeginKeeps ==
  ASSUME AccountsInv, NEW c \in Calls, NEW s \in Steps, NEW u \in Users,
         Begin(c, s, u)
  PROVE  CallsKept
<1> DEFINE x == [args[c] EXCEPT !.usr = u]
<1>1. x \in Args /\ x.usr = u
  BY ArgsFacts DEF AccountsInv, Args
<1>2. step' = [step EXCEPT ![c] = s] /\ args' = [args EXCEPT ![c] = x]
  BY DEF Begin
<1> HIDE DEF x
<1> QED  BY <1>1, <1>2, CallStep

LEMMA GotoKeeps ==
  ASSUME AccountsInv, NEW c \in Calls, NEW s \in Steps, step[c] # "idle",
         Goto(c, s)
  PROVE  CallsKept
<1>1. step' = [step EXCEPT ![c] = s] /\ args' = [args EXCEPT ![c] = args[c]]
  BY DEF Goto, AccountsInv, TypeOK
<1>2. args[c] \in Args /\ args[c].usr \in Users
  BY ArgsFacts DEF AccountsInv, CallsHaveUsers, Usr
<1> QED  BY <1>1, <1>2, CallStep

LEMMA ReturnKeeps ==
  ASSUME AccountsInv, NEW c \in Calls, Return(c)
  PROVE  CallsKept
<1>1. "idle" \in Steps
  BY DEF Steps
<1> QED  BY <1>1, NoArgsIsTyped, CallStep DEF Return, Answered

\* A step of a call that leaves the accounts as they are.
LEMMA CallOnlyStep ==
  ASSUME AccountsInv, CallsKept,
         UNCHANGED <<tableVars, cache, cronVars, historyVars>>
  PROVE  AccountsInv'
<1> USE DEF AccountsInv
<1>1. /\ UNCHANGED <<row, cred, token, busy, cache, purge, todo>>
      /\ UNCHANGED <<wish, seen, overwritten, late>>
  BY DEF tableVars, cronVars, historyVars
<1>2. TypeOK'
  BY <1>1 DEF CallsKept, TypeOK
<1>3. \A u \in Users : UserIsSound(u)'
  BY <1>1 DEF UserIsSound
<1> QED  BY <1>2, <1>3 DEF CallsKept

LEMMA BeginStep ==
  ASSUME AccountsInv, NEW c \in Calls, NEW u \in Users,
         \/ RequestDeletion(c, u) \/ CancelDeletion(c, u)
         \/ SubmitVerification(c, u) \/ PushToken(c, u)
  PROVE  AccountsInv'
<1>1. PICK s \in Steps : Begin(c, s, u)
  BY DEF RequestDeletion, CancelDeletion, SubmitVerification, PushToken, Steps
<1>2. UNCHANGED <<tableVars, cache, cronVars, historyVars>>
  BY DEF RequestDeletion, CancelDeletion, SubmitVerification, PushToken
<1> QED  BY <1>1, <1>2, BeginKeeps, CallOnlyStep

LEMMA AfterReadFacts ==
  ASSUME NEW r, NEW e
  PROVE  AfterRead(r, e) \in Steps
BY DEF AfterRead, Steps

LEMMA ReadUserStep ==
  ASSUME AccountsInv, NEW c \in Calls, NEW u \in Users, NEW e \in Edits,
         ReadUser(c, u, e)
  PROVE  AccountsInv'
<1> USE DEF AccountsInv
<1> DEFINE hit == cache[u] # None
           r == IF hit THEN cache[u] ELSE row[u]
           s == IF hit THEN AfterRead(r, e) ELSE "edit.cache"
           x == [usr |-> u, edit |-> e, base |-> r, diff |-> {}]
<1>1. step' = [step EXCEPT ![c] = s] /\ args' = [args EXCEPT ![c] = x]
  BY DEF ReadUser
<1>2. r \in Rows
  BY DEF TypeOK
<1>3. x \in Args /\ x.usr \in Users
  BY <1>2 DEF Args
<1>4. s \in Steps
  BY AfterReadFacts DEF Steps
<1>5. CallsKept
  <2> HIDE DEF s, x
  <2> QED  BY <1>1, <1>3, <1>4, CallStep
<1>6. UNCHANGED <<tableVars, cache, cronVars, historyVars>>
  BY DEF ReadUser
<1> QED  BY <1>5, <1>6, CallOnlyStep

LEMMA LoadForSaveStep ==
  ASSUME AccountsInv, NEW c \in Calls, LoadForSave(c)
  PROVE  AccountsInv'
<1> DEFINE x == [args[c] EXCEPT !.diff = Differs(args[c])]
<1>1. step' = [step EXCEPT ![c] = "save.write"] /\ args' = [args EXCEPT ![c] = x]
  BY DEF LoadForSave
<1>2. x \in Args /\ x.usr = args[c].usr
  BY ArgsFacts DEF AccountsInv, Args, Differs
<1>3. args[c].usr \in Users /\ "save.write" \in Steps
  BY DEF LoadForSave, AccountsInv, CallsHaveUsers, Usr, Steps
<1>4. CallsKept
  <2> HIDE DEF x
  <2> QED  BY <1>1, <1>2, <1>3, CallStep
<1>5. UNCHANGED <<tableVars, cache, cronVars, historyVars>>
  BY DEF LoadForSave
<1> QED  BY <1>4, <1>5, CallOnlyStep

LEMMA RequestCheckStep ==
  ASSUME AccountsInv, NEW c \in Calls, RequestCheck(c)
  PROVE  AccountsInv'
<1>1. CallsKept
  <2>1. step[c] # "idle" /\ "request.write" \in Steps
    BY DEF RequestCheck, Steps
  <2> QED  BY <2>1, GotoKeeps, ReturnKeeps DEF RequestCheck
<1>2. UNCHANGED <<tableVars, cache, cronVars, historyVars>>
  BY DEF RequestCheck
<1> QED  BY <1>1, <1>2, CallOnlyStep

-----------------------------------------------------------------------------
(***************************************************************************)
(* The steps that write                                                    *)
(***************************************************************************)

LEMMA RequestWriteStep ==
  ASSUME AccountsInv, NEW c \in Calls, RequestWrite(c)
  PROVE  AccountsInv'
<1> USE DEF AccountsInv
<1> DEFINE u == Usr(c)
<1>1. /\ UNCHANGED <<cred, token, busy, cache, purge, todo>>
      /\ UNCHANGED <<seen, overwritten, late>> /\ Return(c)
      /\ \/ /\ row[u].gone = "no" /\ row' = [row EXCEPT ![u].sched = "set"]
            /\ wish' = [wish EXCEPT ![u] = TRUE]
         \/ UNCHANGED <<row, wish>>
  BY DEF RequestWrite, cronVars
<1>2. u \in Users
  BY DEF RequestWrite, CallsHaveUsers
<1>3. CallsKept
  BY <1>1, ReturnKeeps
<1>4. /\ row' \in [Users -> Rows] /\ wish' \in [Users -> BOOLEAN]
      /\ \A v \in Users : UserIsSound(v)'
  <2>1. CASE UNCHANGED <<row, wish>>
    BY <1>1, <2>1 DEF TypeOK, UserIsSound
  <2>2. CASE /\ row[u].gone = "no" /\ row' = [row EXCEPT ![u].sched = "set"]
             /\ wish' = [wish EXCEPT ![u] = TRUE]
    <3> DEFINE r == [row[u] EXCEPT !.sched = "set"]
    <3>1. row[u] \in Rows
      BY <1>2 DEF TypeOK
    <3>2. /\ r \in Rows /\ r.docs = row[u].docs /\ r.status = row[u].status
          /\ r.gone = row[u].gone
      BY <3>1 DEF Rows
    <3>3. row' = [row EXCEPT ![u] = r]
      BY <2>2
    <3> HIDE DEF r, u
    <3> QED  BY <1>1, <1>2, <2>2, <3>1, <3>2, <3>3 DEF TypeOK, UserIsSound
  <2> QED  BY <1>1, <2>1, <2>2
<1>5. TypeOK'
  BY <1>1, <1>3, <1>4 DEF TypeOK, CallsKept
<1> QED  BY <1>3, <1>4, <1>5 DEF CallsKept

LEMMA CancelWriteStep ==
  ASSUME AccountsInv, NEW c \in Calls, CancelWrite(c)
  PROVE  AccountsInv'
<1> USE DEF AccountsInv
<1> DEFINE u == Usr(c)
<1>1. /\ UNCHANGED <<cred, token, busy, cache, purge, todo>>
      /\ UNCHANGED <<seen, overwritten, late>> /\ Return(c)
      /\ \/ /\ row[u].gone = "no" /\ row' = [row EXCEPT ![u].sched = "no"]
            /\ wish' = [wish EXCEPT ![u] = FALSE]
         \/ UNCHANGED <<row, wish>>
  BY DEF CancelWrite, cronVars
<1>2. u \in Users
  BY DEF CancelWrite, CallsHaveUsers
<1>3. CallsKept
  BY <1>1, ReturnKeeps
<1>4. /\ row' \in [Users -> Rows] /\ wish' \in [Users -> BOOLEAN]
      /\ \A v \in Users : UserIsSound(v)'
  <2>1. CASE UNCHANGED <<row, wish>>
    BY <1>1, <2>1 DEF TypeOK, UserIsSound
  <2>2. CASE /\ row[u].gone = "no" /\ row' = [row EXCEPT ![u].sched = "no"]
             /\ wish' = [wish EXCEPT ![u] = FALSE]
    <3> DEFINE r == [row[u] EXCEPT !.sched = "no"]
    <3>1. row[u] \in Rows
      BY <1>2 DEF TypeOK
    <3>2. /\ r \in Rows /\ r.docs = row[u].docs /\ r.status = row[u].status
          /\ r.gone = row[u].gone /\ r.sched = "no"
      BY <3>1 DEF Rows
    <3>3. row' = [row EXCEPT ![u] = r]
      BY <2>2
    <3> HIDE DEF r, u
    <3> QED  BY <1>1, <1>2, <2>2, <3>1, <3>2, <3>3 DEF TypeOK, UserIsSound
  <2> QED  BY <1>1, <2>1, <2>2
<1>5. TypeOK'
  BY <1>1, <1>3, <1>4 DEF TypeOK, CallsKept
<1> QED  BY <1>3, <1>4, <1>5 DEF CallsKept

LEMMA VerifyWriteStep ==
  ASSUME AccountsInv, NEW c \in Calls, VerifyWrite(c)
  PROVE  AccountsInv'
<1> USE DEF AccountsInv
<1> DEFINE u == Usr(c)
           r == UnderReview(row[u])
<1>1. /\ UNCHANGED <<cred, token, busy, cache, purge, todo>>
      /\ UNCHANGED <<wish, seen, overwritten>> /\ Return(c)
      /\ row' = [row EXCEPT ![u] = r]
      /\ late' = [late EXCEPT ![u] = @ \/ row[u].gone # "no"]
  BY DEF VerifyWrite, cronVars, NoteLate
<1>2. u \in Users /\ row[u] \in Rows
  BY DEF VerifyWrite, CallsHaveUsers, TypeOK
<1>3. /\ r \in Rows /\ r.status = "pending" /\ r.sched = row[u].sched
      /\ r.gone = row[u].gone
  BY <1>2, UnderReviewFacts
<1>4. CallsKept
  BY <1>1, ReturnKeeps
<1>5. /\ row' \in [Users -> Rows] /\ late' \in [Users -> BOOLEAN]
      /\ \A v \in Users : UserIsSound(v)'
  <2> HIDE DEF r, u
  <2> QED  BY <1>1, <1>2, <1>3 DEF TypeOK, UserIsSound
<1>6. TypeOK'
  BY <1>1, <1>4, <1>5 DEF TypeOK, CallsKept
<1> QED  BY <1>4, <1>5, <1>6 DEF CallsKept

LEMMA PushWriteStep ==
  ASSUME AccountsInv, NEW c \in Calls, PushWrite(c)
  PROVE  AccountsInv'
<1> USE DEF AccountsInv
<1>1. /\ UNCHANGED <<row, cred, busy, cache, purge, todo>>
      /\ UNCHANGED <<wish, seen, overwritten>> /\ Return(c)
      /\ token' = [token EXCEPT ![Usr(c)] = TRUE]
      /\ late' = [late EXCEPT ![Usr(c)] = @ \/ row[Usr(c)].gone # "no"]
  BY DEF PushWrite, cronVars, NoteLate
<1>2. Usr(c) \in Users
  BY DEF PushWrite, CallsHaveUsers
<1>3. CallsKept
  BY <1>1, ReturnKeeps
<1>4. TypeOK'
  BY <1>1, <1>3 DEF TypeOK, CallsKept
<1>5. \A v \in Users : UserIsSound(v)'
  BY <1>1, <1>2 DEF TypeOK, UserIsSound
<1> QED  BY <1>3, <1>4, <1>5 DEF CallsKept

LEMMA ElapseStep ==
  ASSUME AccountsInv, NEW u \in Users, Elapse(u)
  PROVE  AccountsInv'
<1> USE DEF AccountsInv
<1> DEFINE r == [row[u] EXCEPT !.sched = "due"]
<1>1. /\ UNCHANGED <<cred, token, busy, cache, purge, todo, step, args>>
      /\ UNCHANGED <<wish, seen, overwritten, late>>
      /\ row[u].sched = "set" /\ row' = [row EXCEPT ![u] = r]
  BY DEF Elapse, callVars, cronVars, historyVars
<1>2. row[u] \in Rows
  BY DEF TypeOK
<1>3. /\ r \in Rows /\ r.docs = row[u].docs /\ r.status = row[u].status
      /\ r.gone = row[u].gone
  BY <1>2 DEF Rows
<1> HIDE DEF r
<1>4. TypeOK'
  BY <1>1, <1>3 DEF TypeOK
<1>5. \A v \in Users : UserIsSound(v)'
  BY <1>1, <1>3 DEF TypeOK, UserIsSound
<1>6. CallsHaveUsers'
  BY <1>1 DEF CallsHaveUsers, Usr
<1> QED  BY <1>4, <1>5, <1>6

LEMMA WorkStep ==
  ASSUME AccountsInv, NEW u \in Users,
         StartWork(u) \/ EndWork(u) \/ CacheExpires(u)
  PROVE  AccountsInv'
<1> USE DEF AccountsInv
<1>1. /\ UNCHANGED <<row, cred, token, purge, todo, step, args>>
      /\ UNCHANGED <<wish, seen, overwritten, late>>
  BY DEF StartWork, EndWork, CacheExpires, callVars, cronVars, historyVars,
     tableVars
<1>2. busy' \in [Users -> BOOLEAN] /\ cache' \in [Users -> Rows \cup {None}]
  BY DEF StartWork, EndWork, CacheExpires, tableVars, TypeOK
<1>3. TypeOK'
  BY <1>1, <1>2 DEF TypeOK
<1>4. CallsHaveUsers' /\ \A v \in Users : UserIsSound(v)'
  BY <1>1 DEF CallsHaveUsers, Usr, UserIsSound
<1> QED  BY <1>3, <1>4

LEMMA PurgeStep ==
  ASSUME AccountsInv, PurgeMoves \/ \E u \in Users : Erase(u)
  PROVE  AccountsInv'
<1> USE DEF AccountsInv
<1>1. UNCHANGED <<busy, cache, step, args, wish, seen, overwritten, late>>
  BY DEF PurgeMoves, PurgeDue, PurgeEnds, PurgeCheck, Erase, EraseFails, tableVars,
     callVars, historyVars
<1>2. purge' \in {"idle", "next"} \cup Users /\ todo' \in SUBSET Users
  BY DEF PurgeMoves, PurgeDue, PurgeEnds, PurgeCheck, Erase, EraseFails, TypeOK
<1>3. /\ row' \in [Users -> Rows] /\ cred' \in [Users -> BOOLEAN]
      /\ token' \in [Users -> BOOLEAN] /\ \A v \in Users : UserIsSound(v)'
  <2>1. ASSUME NEW u \in Users, Erase(u)
        PROVE  /\ row' \in [Users -> Rows] /\ cred' \in [Users -> BOOLEAN]
               /\ token' \in [Users -> BOOLEAN]
               /\ \A v \in Users : UserIsSound(v)'
    <3> DEFINE r == ErasedRow(row[u])
    <3>1. row[u] \in Rows
      BY DEF TypeOK
    <3>2. /\ r \in Rows /\ r.docs = 0 /\ r.status = row[u].status
          /\ r.gone = "erased" /\ r.sched = "no"
      <4>1. r = [row[u] EXCEPT !.gone = "erased", !.sched = "no", !.docs = 0]
        BY DEF ErasedRow
      <4>2. 0 \in 0..MaxDocs
        BY DocsAreFew
      <4> HIDE DEF r
      <4> QED  BY <3>1, <4>1, <4>2 DEF Rows
    <3>3. /\ \/ /\ row[u].gone = "no" /\ row[u].sched = "due"
                /\ row' = [row EXCEPT ![u] = r]
             \/ row' = row
          /\ cred' = [cred EXCEPT ![u] = FALSE]
          /\ token' = [token EXCEPT ![u] = FALSE]
      BY <2>1 DEF Erase, MayErase, IsDue
    <3> HIDE DEF r
    <3> QED  BY <1>1, <3>1, <3>2, <3>3 DEF TypeOK, UserIsSound
  <2>2. CASE UNCHANGED <<row, cred, token>>
    BY <1>1, <2>2 DEF TypeOK, UserIsSound
  <2> QED  BY <2>1, <2>2 DEF PurgeMoves, PurgeDue, PurgeEnds, PurgeCheck, EraseFails,
              tableVars
<1>4. TypeOK'
  BY <1>1, <1>2, <1>3 DEF TypeOK
<1>5. CallsHaveUsers'
  BY <1>1 DEF CallsHaveUsers, Usr
<1> QED  BY <1>3, <1>4, <1>5

LEMMA FillCacheStep ==
  ASSUME AccountsInv, NEW c \in Calls, FillCache(c)
  PROVE  AccountsInv'
<1> USE DEF AccountsInv
<1>1. /\ UNCHANGED <<row, cred, token, busy, purge, todo>>
      /\ UNCHANGED <<wish, seen, overwritten, late>>
      /\ step[c] = "edit.cache"
      /\ cache' = [cache EXCEPT ![args[c].usr] = args[c].base]
  BY DEF FillCache, tableVars, cronVars, historyVars
<1>2. args[c].base \in Rows
  BY ArgsFacts
<1>3. CallsKept
  <2>1. \/ Goto(c, AfterRead(args[c].base, args[c].edit)) \/ Return(c)
    BY DEF FillCache
  <2> QED  BY <1>1, <2>1, AfterReadFacts, GotoKeeps, ReturnKeeps
<1>4. TypeOK'
  BY <1>1, <1>2, <1>3 DEF TypeOK, CallsKept
<1>5. \A v \in Users : UserIsSound(v)'
  BY <1>1 DEF UserIsSound
<1> QED  BY <1>3, <1>4, <1>5 DEF CallsKept

\* A save either leaves a row nobody touched since it was read, as edited, or
\* the history says that it was saved over.
LEMMA WriteSaveStep ==
  ASSUME AccountsInv, NEW c \in Calls, WriteSave(c)
  PROVE  AccountsInv'
<1> USE DEF AccountsInv
<1> DEFINE a == args[c]
           u == a.usr
           n == Edited(a.base, a.edit)
           m == [f \in Fields |-> IF f \in a.diff THEN n[f] ELSE row[u][f]]
<1>1. /\ UNCHANGED <<cred, token, busy, cache, purge, todo, wish>>
      /\ step[c] = "save.write"
      /\ row' = [row EXCEPT ![u] = m]
      /\ overwritten' = [overwritten EXCEPT ![u] =
                           @ \/ row[u] # a.base \/ a.diff # Differs(a)]
      /\ seen' = [seen EXCEPT ![u] =
                    IF n.status = "verified" /\ n.docs > 0
                    THEN @ \cup {n.docs} ELSE @]
      /\ IF a.diff = {} THEN late' = late
         ELSE late' = [late EXCEPT ![u] = @ \/ row[u].gone # "no"]
  BY DEF WriteSave, cronVars, NoteLate
<1>2. u \in Users /\ row[u] \in Rows
  BY <1>1 DEF CallsHaveUsers, Usr, TypeOK
<1>3. /\ a.base \in Rows /\ n \in Rows /\ a.diff \in SUBSET Fields
      /\ n.sched = a.base.sched /\ n.gone = a.base.gone
  BY ArgsFacts, EditedFacts
<1>4. CallsKept
  <2>1. PICK s \in {"save.password", "save.clear"} : Goto(c, s)
    BY DEF WriteSave
  <2>2. s \in Steps
    BY DEF Steps
  <2> QED  BY <1>1, <2>1, <2>2, GotoKeeps
<1>5. /\ m \in Rows
      /\ a.diff = {} => m = row[u]
      /\ a.diff = {f \in Fields : n[f] # row[u][f]} => m = n
  BY <1>2, <1>3, MergeFacts
<1>6. a.diff = Differs(a) => m = n
  <2>1. Differs(a) = {f \in Fields : n[f] # row[u][f]}
    BY DEF Differs
  <2> HIDE DEF m, n, u, a
  <2> QED  BY <1>5, <2>1
<1>7. n.docs \in 0..MaxDocs
  BY <1>3, RowFacts
<1>8. /\ row' \in [Users -> Rows] /\ overwritten' \in [Users -> BOOLEAN]
      /\ seen' \in [Users -> SUBSET (1..MaxDocs)] /\ late' \in [Users -> BOOLEAN]
  <2> HIDE DEF a, u, n, m
  <2>1. n.docs > 0 => n.docs \in 1..MaxDocs
    BY <1>7, DocsAreFew
  <2>2. row' \in [Users -> Rows] /\ late' \in [Users -> BOOLEAN]
    BY <1>1, <1>2, <1>5 DEF TypeOK
  <2>3. seen' \in [Users -> SUBSET (1..MaxDocs)]
    BY <1>1, <1>2, <2>1 DEF TypeOK
  <2>4. overwritten' \in [Users -> BOOLEAN]
    BY <1>1, <1>2 DEF TypeOK
  <2> QED  BY <2>2, <2>3, <2>4
<1>9. TypeOK'
  BY <1>1, <1>4, <1>8 DEF TypeOK, CallsKept
<1>10. ASSUME NEW v \in Users PROVE UserIsSound(v)'
  <2>1. CASE v # u
    <3> HIDE DEF a, u, n, m
    <3> QED  BY <1>1, <1>2, <2>1 DEF TypeOK, UserIsSound
  <2>2. CASE v = u /\ (overwritten[u] \/ row[u] # a.base \/ a.diff # Differs(a))
    <3>1. overwritten'[v]
      <4> HIDE DEF a, u
      <4> QED  BY <1>1, <1>2, <2>2 DEF TypeOK
    <3> QED  BY <3>1 DEF UserIsSound
  <2>3. CASE v = u /\ ~ overwritten[u] /\ row[u] = a.base /\ a.diff = Differs(a)
    <3> HIDE DEF a, u, n, m
    <3>1. /\ row'[v] = n /\ wish'[v] = wish[u] /\ cred'[v] = cred[u]
          /\ token'[v] = token[u] /\ ~ overwritten'[v]
      BY <1>1, <1>2, <1>6, <2>3 DEF TypeOK
    <3>2. n.sched = row[u].sched /\ n.gone = row[u].gone
      BY <1>3, <2>3
    <3>3. n.status = "verified" /\ n.docs > 0 => n.docs \in seen'[v]
      BY <1>1, <1>2, <2>3 DEF TypeOK
    <3>4. n.gone = "erased" /\ ~ late'[v] => n = row[u] /\ ~ late[u]
      <4>1. CASE a.diff = {}
        BY <1>1, <1>2, <1>5, <1>6, <2>3, <4>1
      <4>2. CASE a.diff # {}
        BY <1>1, <1>2, <2>3, <3>2, <4>2 DEF TypeOK
      <4> QED  BY <4>1, <4>2
    <3>5. UserIsSound(u)
      BY <1>2
    <3>6. /\ n.sched # "no" \/ n.gone = "erased" => wish'[v]
          /\ n.gone = "erased" /\ ~ late'[v] =>
               n.docs = 0 /\ ~ cred'[v] /\ ~ token'[v]
      BY <2>3, <3>1, <3>2, <3>4, <3>5 DEF UserIsSound
    <3> QED  BY <3>1, <3>3, <3>6 DEF UserIsSound
  <2> QED  BY <2>1, <2>2, <2>3
<1> QED  BY <1>4, <1>9, <1>10 DEF CallsKept

LEMMA WritePasswordStep ==
  ASSUME AccountsInv, NEW c \in Calls, WritePassword(c)
  PROVE  AccountsInv'
<1> USE DEF AccountsInv
<1>1. /\ UNCHANGED <<row, token, busy, cache, purge, todo>>
      /\ UNCHANGED <<wish, seen, overwritten>>
      /\ step[c] = "save.password" /\ Goto(c, "save.clear")
      /\ cred' = [cred EXCEPT ![Usr(c)] = TRUE]
      /\ late' = [late EXCEPT ![Usr(c)] = @ \/ row[Usr(c)].gone # "no"]
  BY DEF WritePassword, cronVars, NoteLate
<1>2. Usr(c) \in Users
  BY <1>1 DEF CallsHaveUsers
<1>3. CallsKept
  BY <1>1, GotoKeeps DEF Steps
<1>4. TypeOK'
  BY <1>1, <1>3 DEF TypeOK, CallsKept
<1>5. \A v \in Users : UserIsSound(v)'
  BY <1>1, <1>2 DEF TypeOK, UserIsSound
<1> QED  BY <1>3, <1>4, <1>5 DEF CallsKept

LEMMA DeleteWriteStep ==
  ASSUME AccountsInv, NEW c \in Calls, DeleteWrite(c)
  PROVE  AccountsInv'
<1> USE DEF AccountsInv
<1> DEFINE u == Usr(c)
           r == [row[u] EXCEPT !.gone = IF @ = "no" THEN "deleted" ELSE @]
<1>1. /\ UNCHANGED <<cred, token, busy, cache, purge, todo>>
      /\ UNCHANGED <<wish, seen, overwritten, late>>
      /\ step[c] = "delete.write" /\ Goto(c, "delete.tokens")
      /\ row' = [row EXCEPT ![u] = r]
  BY DEF DeleteWrite, cronVars, historyVars
<1>2. u \in Users /\ row[u] \in Rows
  BY <1>1 DEF CallsHaveUsers, TypeOK
<1>3. /\ r \in Rows /\ r.docs = row[u].docs /\ r.status = row[u].status
      /\ r.sched = row[u].sched
      /\ r.gone = "erased" <=> row[u].gone = "erased"
  BY <1>2 DEF Rows
<1>4. CallsKept
  BY <1>1, GotoKeeps DEF Steps
<1> HIDE DEF u, r
<1>5. TypeOK'
  BY <1>1, <1>2, <1>3, <1>4 DEF TypeOK, CallsKept
<1>6. \A v \in Users : UserIsSound(v)'
  BY <1>1, <1>2, <1>3 DEF TypeOK, UserIsSound
<1> QED  BY <1>4, <1>5, <1>6 DEF CallsKept

LEMMA DeleteTokensStep ==
  ASSUME AccountsInv, NEW c \in Calls, DeleteTokens(c)
  PROVE  AccountsInv'
<1> USE DEF AccountsInv
<1>1. /\ UNCHANGED <<row, cred, busy, cache, purge, todo>>
      /\ UNCHANGED <<wish, seen, overwritten, late>>
      /\ step[c] = "delete.tokens" /\ Goto(c, "save.clear")
      /\ token' = [token EXCEPT ![Usr(c)] = FALSE]
  BY DEF DeleteTokens, cronVars, historyVars
<1>2. CallsKept
  BY <1>1, GotoKeeps DEF Steps
<1>3. TypeOK'
  BY <1>1, <1>2 DEF TypeOK, CallsKept
<1>4. \A v \in Users : UserIsSound(v)'
  BY <1>1 DEF TypeOK, UserIsSound
<1> QED  BY <1>2, <1>3, <1>4 DEF CallsKept

LEMMA ClearCacheStep ==
  ASSUME AccountsInv, NEW c \in Calls, ClearCache(c)
  PROVE  AccountsInv'
<1> USE DEF AccountsInv
<1>1. /\ UNCHANGED <<row, cred, token, busy, purge, todo>>
      /\ UNCHANGED <<wish, seen, overwritten, late>>
      /\ Return(c) /\ cache' = [cache EXCEPT ![Usr(c)] = None]
  BY DEF ClearCache, tableVars, cronVars, historyVars
<1>2. CallsKept
  BY <1>1, ReturnKeeps
<1>3. TypeOK'
  BY <1>1, <1>2 DEF TypeOK, CallsKept
<1>4. \A v \in Users : UserIsSound(v)'
  BY <1>1 DEF UserIsSound
<1> QED  BY <1>2, <1>3, <1>4 DEF CallsKept

LEMMA StepKeepsAccounts == AccountsInv /\ [Next]_vars => AccountsInv'
<1> SUFFICES ASSUME AccountsInv, [Next]_vars PROVE AccountsInv'
  OBVIOUS
<1>1. CASE AccountMoves
  <2>1. ASSUME NEW c \in Calls, NEW u \in Users, UserCalls(c, u)
        PROVE  AccountsInv'
    BY <2>1, BeginStep DEF UserCalls
  <2>2. ASSUME NEW c \in Calls, CallContinues(c) PROVE AccountsInv'
    BY <2>2, RequestCheckStep, RequestWriteStep, CancelWriteStep,
       VerifyWriteStep, PushWriteStep, WritePasswordStep, DeleteWriteStep,
       DeleteTokensStep DEF CallContinues
  <2>3. ASSUME NEW u \in Users, StartWork(u) \/ EndWork(u) \/ Elapse(u)
        PROVE  AccountsInv'
    BY <2>3, WorkStep, ElapseStep
  <2>4. CASE PurgeMoves
    BY <2>4, PurgeStep
  <2> QED  BY <1>1, <2>1, <2>2, <2>3, <2>4 DEF AccountMoves
<1>2. ASSUME NEW c \in Calls, CopyMoves(c) PROVE AccountsInv'
  BY <1>2, ReadUserStep, FillCacheStep, LoadForSaveStep, WriteSaveStep,
     ClearCacheStep DEF CopyMoves
<1>3. ASSUME NEW u \in Users, Erase(u) \/ CacheExpires(u)
      PROVE  AccountsInv'
  BY <1>3, WorkStep, PurgeStep
<1>5. CASE UNCHANGED vars
  <2>1. /\ UNCHANGED <<tableVars, cache, cronVars, historyVars>>
        /\ UNCHANGED <<step, args>>
    BY <1>5 DEF vars, callVars
  <2>2. CallsKept
    BY <2>1 DEF AccountsInv, TypeOK, CallsKept, CallsHaveUsers, Usr
  <2> QED  BY <2>1, <2>2, CallOnlyStep
<1> QED  BY <1>1, <1>2, <1>3, <1>5 DEF Next

-----------------------------------------------------------------------------
(***************************************************************************)
(* The inductive invariant of the pictures                                 *)
(***************************************************************************)

\* A row names the image.
Shows(i) ==
  \/ \E u \in Users : face[u] = i \/ i \in album[u]
  \/ \E q \in Posts : i \in posted[q]

\* The call has an image of its own that no row names yet, or goes on to
\* delete the one that its user had when it began.
Fresh(c)    == hand[c] \in {"add.save", "face.write"} /\ photo[c].img # 0
Replaces(c) == hand[c] \in {"face.upload", "face.write"} /\ photo[c].old # 0

HandsAreSound ==
  \A c \in Calls :
    /\ hand[c] \in {"idle", "add.upload", "face.upload", "ticket.upload"} =>
         photo[c].img = 0
    /\ hand[c] \in {"add.upload", "add.save", "face.upload", "face.write"} =>
         photo[c].usr \in Users
    /\ hand[c] \in {"add.save", "unpost.delete", "cleanup"} => photo[c].img # 0
    /\ hand[c] = "unpost.delete" => photo[c].usr \in Posts

\* An image that was not made yet is nowhere.
ImagesAreMade ==
  /\ \A u \in Users : face[u] <= made /\ \A i \in album[u] : i <= made
  /\ \A q \in Posts : \A i \in posted[q] : i <= made
  /\ \A i \in tickets \cup images : i <= made
  /\ \A c \in Calls : photo[c].img <= made /\ photo[c].old <= made

\* An image is the profile photo of one, or in the portfolio of one, or of
\* requests; of two requests only if its comprobante was used again.
PlacesAreApart ==
  /\ \A u, v \in Users :
       /\ u # v /\ face[u] # 0 => face[u] # face[v]
       /\ u # v => album[u] \cap album[v] = {}
       /\ face[u] \notin album[v]
  /\ \A u \in Users, q \in Posts :
       face[u] \notin posted[q] /\ album[u] \cap posted[q] = {}
  /\ \A u \in Users : face[u] \notin tickets /\ album[u] \cap tickets = {}
  /\ \A p, q \in Posts : p # q => posted[p] \cap posted[q] \subseteq twice

FreshIsNew ==
  \A c \in Calls : Fresh(c) =>
    /\ photo[c].img \in images /\ ~ Shows(photo[c].img)
    /\ photo[c].img \notin tickets /\ photo[c].old # photo[c].img
    /\ \A d \in Calls \ {c} :
         photo[d].img # photo[c].img /\ photo[d].old # photo[c].img

OldWasAFace ==
  \A c \in Calls : Replaces(c) =>
    /\ \A v \in Users : photo[c].old \notin album[v]
    /\ \A v \in Users \ {photo[c].usr} : face[v] # photo[c].old
    /\ \A q \in Posts : photo[c].old \notin posted[q]
    /\ photo[c].old \notin tickets

\* What is about to be deleted is not shown, or for a known reason.
DoomedIsHidden ==
  \A c \in Calls :
    /\ hand[c] = "cleanup" /\ Shows(photo[c].img) =>
         photo[c].img \in lost \cup twice \cup revived
    /\ hand[c] = "unpost.delete" =>
         /\ \A u \in Users : face[u] # photo[c].img /\ photo[c].img \notin album[u]
         /\ \A q \in Posts \ {photo[c].usr} :
              photo[c].img \in posted[q] => photo[c].img \in twice

ShownAreThere ==
  \A i \in Images : Shows(i) => i \in images \cup lost \cup twice \cup revived

ImagesAreKnown ==
  \A i \in images : \/ Shows(i) \/ i \in tickets \cup strays
                    \/ \E c \in Calls : photo[c].img = i

PicturesInv ==
  /\ GalleryTypeOK /\ HandsAreSound /\ ImagesAreMade /\ PlacesAreApart
  /\ FreshIsNew /\ OldWasAFace /\ DoomedIsHidden /\ ShownAreThere
  /\ ImagesAreKnown /\ AlbumWithinLimit

\* An edit under way holds a copy of the row.
Holds(c) == step[c] \in {"edit.cache", "save.load", "save.write"}

\* Redis, or an edit, holds the image as the profile photo of the user.
Keeps(u, i) ==
  \/ faceCopy[u] = i
  \/ \E c \in Calls : Holds(c) /\ Usr(c) = u /\ kept[c].img = i

\* Whatever shows the image shows it as the profile photo of the user, and so
\* it was when a call took it to be replaced.
OnlyFaceOf(u, i) ==
  /\ i <= made /\ i \notin tickets
  /\ \A v \in Users : i \notin album[v]
  /\ \A v \in Users \ {u} : face[v] # i
  /\ \A q \in Posts : i \notin posted[q]
  /\ \A c \in Calls :
       /\ Fresh(c) \/ hand[c] = "unpost.delete" => photo[c].img # i
       /\ Replaces(c) /\ photo[c].usr # u => photo[c].old # i

\* Whatever is kept of a user is, or was, his own profile photo.
CopiesWereFaces ==
  \A u \in Users, i \in Images : Keeps(u, i) =>
    OnlyFaceOf(u, i) /\ \A v \in Users \ {u} : ~ Keeps(v, i)

GalleryInv == AccountsInv /\ PicturesInv /\ CopiesWereFaces

-----------------------------------------------------------------------------
Photos == [usr : Users \cup Posts \cup {None}, img : 0..MaxImages,
           old : 0..MaxImages]

LEMMA PhotoFacts ==
  ASSUME GalleryTypeOK, NEW c \in Calls
  PROVE  /\ photo[c] \in Photos /\ hand[c] \in Hands
         /\ photo[c].usr \in Users \cup Posts \cup {None}
         /\ photo[c].img \in 0..MaxImages /\ photo[c].old \in 0..MaxImages
<1>1. photo[c] \in Photos /\ hand[c] \in Hands
  BY DEF GalleryTypeOK, Photos
<1> QED  BY <1>1 DEF Photos

LEMMA NoPhotoFacts ==
  NoPhoto \in Photos /\ NoPhoto.img = 0 /\ NoPhoto.old = 0
BY GalleryAssumption DEF NoPhoto, Photos

\* The call stands at h with the picture p, and all others where they were.
HandMoves(c, h, p) ==
  /\ hand' \in [Calls -> Hands] /\ photo' \in [Calls -> Photos]
  /\ hand'[c] = h /\ photo'[c] = p
  /\ \A d \in Calls \ {c} : hand'[d] = hand[d] /\ photo'[d] = photo[d]

LEMMA StartMoves ==
  ASSUME GalleryTypeOK, NEW c \in Calls, NEW h \in Hands,
         NEW who \in Users \cup Posts \cup {None}, NEW i \in 0..MaxImages,
         NEW o \in 0..MaxImages, Start(c, h, who, i, o)
  PROVE  HandMoves(c, h, [usr |-> who, img |-> i, old |-> o])
<1>1. [usr |-> who, img |-> i, old |-> o] \in Photos
  BY DEF Photos
<1> QED  BY <1>1 DEF Start, HandMoves, GalleryTypeOK, Photos

LEMMA AnswerMoves ==
  ASSUME GalleryTypeOK, NEW c \in Calls, Answer(c)
  PROVE  HandMoves(c, "idle", NoPhoto)
BY NoPhotoFacts DEF Answer, HandMoves, GalleryTypeOK, Photos, Hands

LEMMA ProceedMoves ==
  ASSUME GalleryTypeOK, NEW c \in Calls, NEW h \in Hands,
         NEW i \in 0..MaxImages, Proceed(c, h, i)
  PROVE  /\ HandMoves(c, h, [photo[c] EXCEPT !.img = i])
         /\ [photo[c] EXCEPT !.img = i].img = i
         /\ [photo[c] EXCEPT !.img = i].usr = photo[c].usr
         /\ [photo[c] EXCEPT !.img = i].old = photo[c].old
<1>1. photo[c] \in Photos
  BY PhotoFacts
<1>2. /\ [photo[c] EXCEPT !.img = i] \in Photos
      /\ [photo[c] EXCEPT !.img = i].img = i
      /\ [photo[c] EXCEPT !.img = i].usr = photo[c].usr
      /\ [photo[c] EXCEPT !.img = i].old = photo[c].old
  BY <1>1 DEF Photos
<1> QED  BY <1>2 DEF Proceed, HandMoves, GalleryTypeOK, Photos

LEMMA InitPictures == GalleryInit => PicturesInv
<1> SUFFICES ASSUME GalleryInit PROVE PicturesInv
  OBVIOUS
<1>1. /\ \A u \in Users : face[u] = 0 /\ album[u] = {}
      /\ \A q \in Posts : posted[q] = {}
      /\ tickets = {} /\ images = {} /\ made = 0
      /\ \A c \in Calls : hand[c] = "idle" /\ photo[c] = NoPhoto
  BY DEF GalleryInit
<1>2. GalleryTypeOK
  BY GalleryAssumption, NoPhotoFacts
     DEF GalleryInit, GalleryTypeOK, Hands, Photos, NoFace
<1>3. HandsAreSound /\ FreshIsNew /\ OldWasAFace /\ DoomedIsHidden
  BY <1>1, NoPhotoFacts
     DEF HandsAreSound, FreshIsNew, OldWasAFace, DoomedIsHidden, Fresh, Replaces
<1>4. ImagesAreMade /\ PlacesAreApart /\ ShownAreThere /\ ImagesAreKnown
  BY <1>1, NoPhotoFacts
     DEF ImagesAreMade, PlacesAreApart, ShownAreThere, ImagesAreKnown, Shows, Images
<1>5. AlbumWithinLimit
  BY <1>1, FS_EmptySet, GalleryAssumption DEF AlbumWithinLimit
<1> QED  BY <1>2, <1>3, <1>4, <1>5 DEF PicturesInv

\* Only the call moves: what is shown stays, and images that nothing may
\* show any more are deleted.
LEMMA HandStep ==
  ASSUME PicturesInv, UNCHANGED copyVars,
         NEW c \in Calls, NEW h, NEW p, HandMoves(c, h, p),
         UNCHANGED <<shown, made, lost, twice>>,
         strays \subseteq strays', strays' \subseteq Images,
         images' \subseteq images,
         p.img <= made, p.old <= made,
         h \in {"idle", "add.upload", "face.upload", "ticket.upload"} =>
           p.img = 0,
         h \in {"add.upload", "face.upload", "face.write"} => p.usr \in Users,
         h = "add.save" => FALSE,
         h = "face.write" => p.img = 0,
         h \in {"face.upload", "face.write"} => p.old = 0 \/ p.old = face[p.usr],
         h = "unpost.delete" => p.usr \in Posts /\ p.img \in posted[p.usr],
         h = "cleanup" => p.img # 0 /\ ~ Shows(p.img),
         \A d \in Calls \ {c} : Fresh(d) =>
           p.img # photo[d].img /\ p.old # photo[d].img,
         \A j \in images \ images' :
           /\ Shows(j) => j \in lost \cup twice \cup revived
           /\ \A d \in Calls \ {c} : Fresh(d) => photo[d].img # j,
         photo[c].img \in images' =>
           photo[c].img \in strays' \/ p.img = photo[c].img
  PROVE  PicturesInv'
<1> USE DEF PicturesInv
<1>0. UNCHANGED <<faceCopy, kept, revived>>
  BY DEF copyVars
<1>1. /\ UNCHANGED <<face, album, posted, tickets, made, lost, twice>>
      /\ \A j : Shows(j)' <=> Shows(j)
  BY DEF shown, Shows
<1>2. /\ hand' \in [Calls -> Hands] /\ photo' \in [Calls -> Photos]
      /\ hand'[c] = h /\ photo'[c] = p
      /\ \A d \in Calls \ {c} : hand'[d] = hand[d] /\ photo'[d] = photo[d]
  BY DEF HandMoves
<1>3. GalleryTypeOK'
  BY <1>0, <1>1, <1>2 DEF GalleryTypeOK, Photos
<1>4. HandsAreSound'
  BY <1>2, PhotoFacts DEF HandsAreSound, ImagesAreMade, PlacesAreApart, GalleryTypeOK, Images
<1>5. ImagesAreMade'
  BY <1>1, <1>2 DEF ImagesAreMade
<1>6. PlacesAreApart'
  BY <1>1 DEF PlacesAreApart
<1>7. FreshIsNew'
  BY <1>1, <1>2 DEF FreshIsNew, Fresh
<1>8. OldWasAFace'
  BY <1>1, <1>2 DEF OldWasAFace, Replaces, PlacesAreApart
<1>9. DoomedIsHidden'
  BY <1>0, <1>1, <1>2 DEF DoomedIsHidden, PlacesAreApart
<1>10. ShownAreThere'
  BY <1>0, <1>1 DEF ShownAreThere
<1>11. ImagesAreKnown'
  BY <1>1, <1>2 DEF ImagesAreKnown
<1>12. AlbumWithinLimit'
  BY <1>1 DEF AlbumWithinLimit
<1> QED
  BY <1>3, <1>4, <1>5, <1>6, <1>7, <1>8, <1>9, <1>10, <1>11, <1>12

\* The actions that start a call which changes nothing yet.
LEMMA BeginPhotoStep ==
  ASSUME PicturesInv, UNCHANGED copyVars,
         NEW c \in Calls,
         \/ UploadForRequest(c)
         \/ \E u \in Users : \/ AddPhoto(c, u)
                             \/ \E h \in {"face.upload", "face.write"} :
                                  ChangeFace(c, u, h)
         \/ \E q \in Posts : \E i \in posted[q] : DeleteRequestPhoto(c, q, i)
  PROVE  PicturesInv'
<1> USE DEF PicturesInv
<1>1. /\ UNCHANGED <<shown, images, made, lost, twice, strays>>
      /\ hand[c] = "idle" /\ photo[c].img = 0
  BY DEF UploadForRequest, AddPhoto, ChangeFace, DeleteRequestPhoto, histVars,
         Start, HandsAreSound
<1>2. /\ strays \subseteq Images /\ images \subseteq Images /\ made \in Nat
      /\ 0 \notin Images
  BY GalleryAssumption DEF GalleryTypeOK, Images
<1>3. PICK h \in Hands, w \in Users \cup Posts \cup {None},
           i \in 0..MaxImages, o \in 0..MaxImages :
        /\ Start(c, h, w, i, o)
        /\ i <= made /\ o <= made
        /\ h \in {"add.upload", "face.upload", "face.write", "ticket.upload",
                  "unpost.delete"}
        /\ h # "unpost.delete" => i = 0
        /\ h \in {"add.upload", "face.upload", "face.write"} => w \in Users
        /\ o = 0 \/ (w \in Users /\ o = face[w])
        /\ h = "unpost.delete" => w \in Posts /\ i \in posted[w]
  <2>1. CASE UploadForRequest(c)
    BY <2>1, <1>2, GalleryAssumption DEF UploadForRequest, Hands
  <2>2. CASE \E u \in Users : AddPhoto(c, u)
    BY <2>2, <1>2, GalleryAssumption DEF AddPhoto, Hands
  <2>3. ASSUME NEW u \in Users, NEW h \in {"face.upload", "face.write"},
               ChangeFace(c, u, h)
        PROVE  \E x \in Hands, w \in Users \cup Posts \cup {None},
                  i \in 0..MaxImages, o \in 0..MaxImages :
                 /\ Start(c, x, w, i, o)
                 /\ i <= made /\ o <= made
                 /\ x \in {"face.upload", "face.write"} /\ i = 0
                 /\ w \in Users /\ o = face[w]
    <3>1. face[u] \in 0..MaxImages /\ face[u] <= made /\ h \in Hands
      BY DEF GalleryTypeOK, ImagesAreMade, Hands
    <3> QED  BY <3>1, <2>3, <1>2, GalleryAssumption DEF ChangeFace
  <2>4. CASE \E q \in Posts : \E i \in posted[q] : DeleteRequestPhoto(c, q, i)
    <3>1. PICK q \in Posts : \E i \in posted[q] : DeleteRequestPhoto(c, q, i)
      BY <2>4
    <3>2. PICK i \in posted[q] : DeleteRequestPhoto(c, q, i)
      BY <3>1
    <3>3. i \in 0..MaxImages /\ i <= made
      BY DEF GalleryTypeOK, ImagesAreMade, Images
    <3> QED  BY <3>2, <3>3, <1>2, GalleryAssumption DEF DeleteRequestPhoto, Hands
  <2> QED  BY <2>1, <2>2, <2>3, <2>4
<1> DEFINE p == [usr |-> w, img |-> i, old |-> o]
<1>4. HandMoves(c, h, p)
  BY <1>3, StartMoves
<1>5. p.usr = w /\ p.img = i /\ p.old = o
  OBVIOUS
<1> HIDE DEF p
<1>6. \A d \in Calls \ {c} : Fresh(d) =>
        p.img # photo[d].img /\ p.old # photo[d].img
  BY <1>3, <1>5 DEF FreshIsNew, Shows, Fresh
<1>7. h \in {"face.upload", "face.write"} => p.old = 0 \/ p.old = face[p.usr]
  BY <1>3, <1>5
<1>8. photo[c].img \notin images
  BY <1>1, <1>2
<1> QED  BY <1>1, <1>2, <1>3, <1>4, <1>5, <1>6, <1>7, <1>8, HandStep

\* The image of a call that cleans up is not shown, or for a known reason, and
\* it is nobody's.
LEMMA CleanupStep ==
  ASSUME PicturesInv, UNCHANGED copyVars,
         NEW c \in Calls, Cleanup(c) \/ CleanupFails(c)
  PROVE  PicturesInv'
<1> USE DEF PicturesInv
<1>1. /\ UNCHANGED <<shown, made, lost, twice>>
      /\ hand[c] = "cleanup" /\ Answer(c)
      /\ \/ images' = images \ {photo[c].img} /\ strays' = strays
         \/ images' = images /\ strays' = strays \cup {photo[c].img}
  BY DEF Cleanup, CleanupFails, histVars
<1>2. /\ strays \subseteq Images /\ images \subseteq Images /\ made \in Nat
      /\ photo[c].img \in Images
  BY <1>1, GalleryAssumption, PhotoFacts DEF GalleryTypeOK, Images, HandsAreSound
<1>3. HandMoves(c, "idle", NoPhoto)
  BY <1>1, AnswerMoves
<1>4. \A d \in Calls \ {c} : Fresh(d) =>
        photo[d].img # photo[c].img /\ photo[d].img # 0
  BY DEF FreshIsNew, Fresh
<1>5. Shows(photo[c].img) => photo[c].img \in lost \cup twice \cup revived
  BY <1>1 DEF DoomedIsHidden
<1>6. \A j \in images \ images' : j = photo[c].img
  BY <1>1
<1>7. strays \subseteq strays' /\ strays' \subseteq Images /\ images' \subseteq images
  BY <1>1, <1>2
<1>8. photo[c].img \in images' => photo[c].img \in strays'
  BY <1>1
<1> QED
  BY <1>1, <1>2, <1>3, <1>4, <1>5, <1>6, <1>7, <1>8, NoPhotoFacts, HandStep

LEMMA WriteFaceFailsStep ==
  ASSUME PicturesInv, UNCHANGED copyVars,
         NEW c \in Calls, WriteFaceFails(c)
  PROVE  PicturesInv'
<1> USE DEF PicturesInv
<1>1. /\ UNCHANGED <<shown, images, made, lost, twice>>
      /\ hand[c] = "face.write" /\ Answer(c)
      /\ strays' = strays \cup ({photo[c].img} \ {0})
  BY DEF WriteFaceFails
<1>2. /\ strays \subseteq Images /\ images \subseteq Images /\ made \in Nat
      /\ photo[c].img # 0 => photo[c].img \in Images
      /\ 0 \notin Images
  BY GalleryAssumption, PhotoFacts DEF GalleryTypeOK, Images
<1>3. HandMoves(c, "idle", NoPhoto)
  BY <1>1, AnswerMoves
<1>4. \A d \in Calls \ {c} : Fresh(d) => photo[d].img # 0
  BY DEF Fresh
<1>5. /\ strays \subseteq strays' /\ strays' \subseteq Images
      /\ photo[c].img \in images' => photo[c].img \in strays'
  BY <1>1, <1>2
<1> QED  BY <1>1, <1>2, <1>3, <1>4, <1>5, NoPhotoFacts, HandStep

\* The next image is in no place.
LEMMA NextIsNew ==
  ASSUME PicturesInv, made < MaxImages
  PROVE  /\ made + 1 \in Images /\ made + 1 # 0
         /\ made + 1 \notin tickets \cup images
         /\ \A u \in Users : face[u] # made + 1 /\ made + 1 \notin album[u]
         /\ \A q \in Posts : made + 1 \notin posted[q]
         /\ ~ Shows(made + 1)
         /\ \A d \in Calls : /\ photo[d].img # made + 1
                             /\ photo[d].old # made + 1
<1>1. made \in Nat /\ made + 1 \in Images
  BY GalleryAssumption DEF PicturesInv, GalleryTypeOK, Images
<1>2. ~ (made + 1 <= made)
  BY <1>1
<1> QED  BY <1>1, <1>2 DEF PicturesInv, ImagesAreMade, Shows

\* What the upload of an image leaves alone.
LEMMA UploadKeeps ==
  ASSUME PicturesInv, UNCHANGED copyVars,
         made < MaxImages, made' = made + 1,
         images' = images \cup {made'}, UNCHANGED <<face, album, posted>>
  PROVE  /\ \A i : Shows(i)' <=> Shows(i)
         /\ ShownAreThere' <=> \A i \in Images :
              Shows(i) => i \in images \cup {made + 1} \cup lost' \cup twice'
                                 \cup revived
         /\ \A u \in Users : face[u] <= made' /\ \A i \in album[u] : i <= made'
         /\ \A q \in Posts : \A i \in posted[q] : i <= made'
         /\ \A i \in tickets \cup images' : i <= made'
         /\ \A d \in Calls : photo[d].img <= made' /\ photo[d].old <= made'
         /\ AlbumWithinLimit'
<1> USE DEF PicturesInv
<1>0. UNCHANGED <<faceCopy, kept, revived>>
  BY DEF copyVars
<1>1. /\ made \in Nat /\ \A i \in Nat : i <= made => i <= made'
      /\ made' <= made'
  BY DEF GalleryTypeOK
<1>2. /\ \A u \in Users : face[u] \in Nat /\ album[u] \subseteq Nat
      /\ \A q \in Posts : posted[q] \subseteq Nat
      /\ tickets \subseteq Nat /\ images \subseteq Nat
      /\ \A d \in Calls : photo[d].img \in Nat /\ photo[d].old \in Nat
  BY PhotoFacts, GalleryAssumption DEF GalleryTypeOK, Images
<1>3. /\ \A u \in Users : face[u] <= made' /\ \A i \in album[u] : i <= made'
      /\ \A q \in Posts : \A i \in posted[q] : i <= made'
      /\ \A d \in Calls : photo[d].img <= made' /\ photo[d].old <= made'
  BY <1>1, <1>2 DEF ImagesAreMade
<1>4. \A i \in tickets \cup images' : i <= made'
  BY <1>1, <1>2 DEF ImagesAreMade
<1>5. \A i : Shows(i)' <=> Shows(i)
  BY DEF Shows
<1>6. AlbumWithinLimit'
  BY DEF AlbumWithinLimit
<1> QED  BY <1>0, <1>3, <1>4, <1>5, <1>6 DEF ShownAreThere

\* An image is stored: its call goes on with it, or its client has it, or
\* nobody has.
LEMMA StoredStep ==
  ASSUME PicturesInv, UNCHANGED copyVars,
         made < MaxImages, made' = made + 1,
         images' = images \cup {made'},
         UNCHANGED <<face, album, posted, lost, twice>>,
         NEW c \in Calls, NEW h, NEW p, HandMoves(c, h, p),
         hand[c] \in {"add.upload", "face.upload", "ticket.upload"},
         \/ /\ h = "idle" /\ p = NoPhoto
            /\ \/ tickets' = tickets \cup {made'} /\ strays' = strays
               \/ tickets' = tickets /\ strays' = strays \cup {made'}
         \/ /\ tickets' = tickets /\ strays' = strays
            /\ \/ hand[c] = "add.upload" /\ h = "add.save"
               \/ hand[c] = "face.upload" /\ h = "face.write"
            /\ p.img = made' /\ p.usr = photo[c].usr /\ p.old = photo[c].old
  PROVE  PicturesInv'
<1> USE DEF PicturesInv
<1>0. UNCHANGED <<faceCopy, kept, revived>>
  BY DEF copyVars
<1> DEFINE i == made + 1
<1>1. /\ i \in Images /\ i # 0 /\ i \notin tickets \cup images /\ ~ Shows(i)
      /\ \A u \in Users : face[u] # i /\ i \notin album[u]
      /\ \A q \in Posts : i \notin posted[q]
      /\ \A d \in Calls : photo[d].img # i /\ photo[d].old # i
  BY NextIsNew
<1>2. /\ \A j : Shows(j)' <=> Shows(j)
      /\ \A u \in Users : face[u] <= made' /\ \A j \in album[u] : j <= made'
      /\ \A q \in Posts : \A j \in posted[q] : j <= made'
      /\ \A j \in tickets \cup images' : j <= made'
      /\ \A d \in Calls : photo[d].img <= made' /\ photo[d].old <= made'
      /\ AlbumWithinLimit'
  BY UploadKeeps
<1>3. /\ hand' \in [Calls -> Hands] /\ photo' \in [Calls -> Photos]
      /\ hand'[c] = h /\ photo'[c] = p
      /\ \A d \in Calls \ {c} : hand'[d] = hand[d] /\ photo'[d] = photo[d]
  BY DEF HandMoves
<1>4. /\ made' = i /\ images' = images \cup {i} /\ photo[c].img = 0
      /\ tickets' \subseteq tickets \cup {i} /\ strays' \subseteq strays \cup {i}
      /\ tickets \subseteq tickets' /\ strays \subseteq strays'
  BY DEF HandsAreSound
<1> HIDE DEF i
<1>5. GalleryTypeOK'
  <2>1. made' \in 0..MaxImages
    BY <1>1, <1>4 DEF Images
  <2> QED  BY <1>0, <1>1, <1>3, <1>4, <2>1 DEF GalleryTypeOK, Photos
<1>6. HandsAreSound'
  BY <1>1, <1>3, <1>4, NoPhotoFacts DEF HandsAreSound
<1>7. ImagesAreMade'
  <2>1. \A j \in tickets' \cup images' : j <= made'
    BY <1>2, <1>4 DEF GalleryTypeOK
  <2>2. p.img <= made' /\ p.old <= made'
    BY <1>2, <1>4, NoPhotoFacts DEF GalleryTypeOK
  <2> QED  BY <1>2, <1>3, <2>1, <2>2 DEF ImagesAreMade
<1>8. PlacesAreApart'
  BY <1>1, <1>4 DEF PlacesAreApart
<1>9. FreshIsNew'
  BY <1>1, <1>2, <1>3, <1>4, NoPhotoFacts DEF FreshIsNew, Fresh
<1>10. OldWasAFace'
  BY <1>1, <1>3, <1>4, NoPhotoFacts DEF OldWasAFace, Replaces
<1>11. DoomedIsHidden'
  BY <1>0, <1>2, <1>3 DEF DoomedIsHidden
<1>12. ShownAreThere'
  BY <1>0, <1>2, <1>4 DEF ShownAreThere
<1>13. ImagesAreKnown'
  <2>1. 0 \notin images
    BY DEF GalleryTypeOK, Images
  <2> QED  BY <1>1, <1>2, <1>3, <1>4, <2>1 DEF ImagesAreKnown
<1> QED
  BY <1>2, <1>5, <1>6, <1>7, <1>8, <1>9, <1>10, <1>11, <1>12, <1>13

LEMMA UploadStep ==
  ASSUME PicturesInv, UNCHANGED copyVars,
         NEW c \in Calls, Upload(c)
  PROVE  PicturesInv'
<1> USE DEF PicturesInv
<1>1. /\ made < MaxImages /\ made' = made + 1 /\ images' = images \cup {made'}
      /\ UNCHANGED <<face, album, posted, lost, twice, strays>>
      /\ hand[c] \in {"add.upload", "face.upload", "ticket.upload"}
  BY DEF Upload, histVars
<1>2. made' \in 0..MaxImages
  BY <1>1, NextIsNew DEF Images
<1>3. CASE hand[c] = "ticket.upload"
  <2>1. Answer(c) /\ tickets' = tickets \cup {made'}
    BY <1>3 DEF Upload, AfterUpload
  <2>2. HandMoves(c, "idle", NoPhoto)
    BY <2>1, AnswerMoves
  <2> QED  BY <1>1, <2>1, <2>2, StoredStep
<1>4. CASE hand[c] = "add.upload"
  <2>1. Proceed(c, "add.save", made') /\ UNCHANGED tickets
    BY <1>4 DEF Upload, AfterUpload
  <2> DEFINE p == [photo[c] EXCEPT !.img = made']
  <2>2. HandMoves(c, "add.save", p) /\ p.img = made'
        /\ p.usr = photo[c].usr /\ p.old = photo[c].old
    BY <1>2, <2>1, ProceedMoves DEF Hands
  <2> HIDE DEF p
  <2> QED  BY <1>1, <1>4, <2>1, <2>2, StoredStep
<1>5. CASE hand[c] = "face.upload"
  <2>1. Proceed(c, "face.write", made') /\ UNCHANGED tickets
    BY <1>5 DEF Upload, AfterUpload
  <2> DEFINE p == [photo[c] EXCEPT !.img = made']
  <2>2. HandMoves(c, "face.write", p) /\ p.img = made'
        /\ p.usr = photo[c].usr /\ p.old = photo[c].old
    BY <1>2, <2>1, ProceedMoves DEF Hands
  <2> HIDE DEF p
  <2> QED  BY <1>1, <1>5, <2>1, <2>2, StoredStep
<1> QED  BY <1>1, <1>3, <1>4, <1>5

LEMMA UploadFailsStep ==
  ASSUME PicturesInv, UNCHANGED copyVars,
         NEW c \in Calls, UploadFails(c)
  PROVE  PicturesInv'
<1> USE DEF PicturesInv
<1>1. /\ UNCHANGED <<shown, lost, twice>> /\ Answer(c)
      /\ hand[c] \in {"add.upload", "face.upload", "ticket.upload"}
  BY DEF UploadFails
<1>2. HandMoves(c, "idle", NoPhoto)
  BY <1>1, AnswerMoves
<1>3. CASE UNCHANGED <<made, images, strays>>
  <2>1. /\ strays \subseteq Images /\ images \subseteq Images /\ made \in Nat
        /\ 0 \notin Images /\ photo[c].img = 0
    BY <1>1, GalleryAssumption DEF GalleryTypeOK, Images, HandsAreSound
  <2>2. \A d \in Calls \ {c} : Fresh(d) => photo[d].img # 0
    BY DEF Fresh
  <2> QED  BY <1>1, <1>2, <1>3, <2>1, <2>2, NoPhotoFacts, HandStep
<1>4. CASE /\ made < MaxImages /\ made' = made + 1
           /\ images' = images \cup {made'} /\ strays' = strays \cup {made'}
  BY <1>1, <1>2, <1>4, StoredStep DEF shown
<1> QED  BY <1>3, <1>4 DEF UploadFails

\* The row of the image is inserted: the call answers, or cleans up since it
\* does not know.
LEMMA InsertStep ==
  ASSUME PicturesInv, UNCHANGED copyVars,
         NEW c \in Calls, hand[c] = "add.save",
         NEW u, u = photo[c].usr, MayAdd(u),
         NEW i, i = photo[c].img,
         album' = [album EXCEPT ![u] = @ \cup {i}],
         UNCHANGED <<face, posted, tickets, images, made, twice, strays>>,
         NEW h, NEW p, HandMoves(c, h, p),
         \/ h = "idle" /\ p = NoPhoto /\ lost' = lost
         \/ /\ h = "cleanup" /\ lost' = lost \cup {i}
            /\ p.img = i /\ p.usr = u /\ p.old = photo[c].old
  PROVE  PicturesInv'
<1> USE DEF PicturesInv
<1>0. UNCHANGED <<faceCopy, kept, revived>>
  BY DEF copyVars
<1>1. /\ u \in Users /\ i # 0 /\ i \in Images /\ album[u] \subseteq Images
      /\ i \in images /\ i \notin tickets /\ ~ Shows(i) /\ i <= made
      /\ \A d \in Calls \ {c} : photo[d].img # i /\ photo[d].old # i
  BY PhotoFacts DEF HandsAreSound, FreshIsNew, Fresh, GalleryTypeOK, Images,
     ImagesAreMade
<1>2. /\ album' \in [Users -> SUBSET Images]
      /\ album'[u] = album[u] \cup {i}
      /\ \A v \in Users \ {u} : album'[v] = album[v]
  BY <1>1 DEF GalleryTypeOK
<1>3. /\ hand' \in [Calls -> Hands] /\ photo' \in [Calls -> Photos]
      /\ hand'[c] = h /\ photo'[c] = p
      /\ \A d \in Calls \ {c} : hand'[d] = hand[d] /\ photo'[d] = photo[d]
  BY DEF HandMoves
<1>4. \A j : Shows(j)' <=> Shows(j) \/ j = i
  BY <1>1, <1>2 DEF Shows
<1>5. /\ \A v \in Users : face[v] # i /\ i \notin album[v]
      /\ \A q \in Posts : i \notin posted[q]
  BY <1>1 DEF Shows
<1>6. GalleryTypeOK'
  BY <1>0, <1>1, <1>2, <1>3 DEF GalleryTypeOK, Photos
<1>7. HandsAreSound'
  BY <1>1, <1>3, NoPhotoFacts DEF HandsAreSound
<1>8. ImagesAreMade'
  BY <1>1, <1>2, <1>3, NoPhotoFacts, GalleryAssumption
     DEF ImagesAreMade, GalleryTypeOK
<1>9. PlacesAreApart'
  BY <1>1, <1>2, <1>5 DEF PlacesAreApart
<1>10. FreshIsNew'
  <2>1. \A d \in Calls \ {c} : Fresh(d)' <=> Fresh(d)
    BY <1>3 DEF Fresh
  <2>2. ~ Fresh(c)'
    BY <1>3 DEF Fresh
  <2>3. \A d \in Calls \ {c} : Fresh(d) => photo[d].img # 0
    BY DEF Fresh
  <2>4. p.img \in {0, i} /\ (p.old = 0 \/ p.old = photo[c].old)
    BY NoPhotoFacts
  <2> QED  BY <1>1, <1>3, <1>4, <2>1, <2>2, <2>3, <2>4 DEF FreshIsNew
<1>11. OldWasAFace'
  BY <1>1, <1>2, <1>3 DEF OldWasAFace, Replaces
<1>12. DoomedIsHidden'
  BY <1>0, <1>1, <1>2, <1>3, <1>4 DEF DoomedIsHidden
<1>13. ShownAreThere'
  BY <1>0, <1>1, <1>4 DEF ShownAreThere
<1>14. ImagesAreKnown'
  BY <1>1, <1>3, <1>4 DEF ImagesAreKnown
<1>15. AlbumWithinLimit'
  <2>1. IsFiniteSet(Images)
    BY GalleryAssumption, FS_Interval DEF Images
  <2>2. IsFiniteSet(album[u])
    BY <1>1, <2>1, FS_Subset
  <2>3. i \notin album[u]
    BY <1>1, <1>5
  <2>4. Cardinality(album[u] \cup {i}) = Cardinality(album[u]) + 1
    BY <2>2, <2>3, FS_AddElement
  <2>5. Cardinality(album[u]) \in Nat /\ Cardinality(album[u]) < MaxPhotos
    BY <2>2, FS_CardinalityType DEF MayAdd, HasRoom
  <2>6. Cardinality(album[u]) + 1 <= MaxPhotos
    BY <2>5, GalleryAssumption
  <2>7. Cardinality(album'[u]) = Cardinality(album[u]) + 1
    BY <1>2, <2>4
  <2> QED  BY <1>2, <2>6, <2>7 DEF AlbumWithinLimit
<1> QED
  BY <1>6, <1>7, <1>8, <1>9, <1>10, <1>11, <1>12, <1>13, <1>14, <1>15

LEMMA SaveStep ==
  ASSUME PicturesInv, UNCHANGED copyVars,
         NEW c \in Calls, SaveAdded(c) \/ SaveUnanswered(c)
  PROVE  PicturesInv'
<1> USE DEF PicturesInv
<1> DEFINE i == photo[c].img
           p == [photo[c] EXCEPT !.img = i]
<1>1. /\ hand[c] = "add.save" /\ i \in 0..MaxImages /\ i # 0
      /\ UNCHANGED <<face, posted, tickets, images, made, twice, strays>>
  BY PhotoFacts DEF SaveAdded, SaveUnanswered, HandsAreSound, histVars
<1>2. Proceed(c, "cleanup", i) =>
        HandMoves(c, "cleanup", p) /\ p.img = i /\ p.usr = photo[c].usr
          /\ p.old = photo[c].old
  BY <1>1, ProceedMoves DEF Hands
<1>3. CASE SaveUnanswered(c)
  <2>1. /\ MayAdd(photo[c].usr) /\ Proceed(c, "cleanup", i)
        /\ album' = [album EXCEPT ![photo[c].usr] = @ \cup {i}]
        /\ lost' = lost \cup {i}
    BY <1>3 DEF SaveUnanswered
  <2> HIDE DEF p
  <2> QED  BY <1>1, <1>2, <2>1, InsertStep
<1>4. CASE SaveAdded(c)
  <2>1. CASE /\ MayAdd(photo[c].usr) /\ Answer(c)
             /\ album' = [album EXCEPT ![photo[c].usr] = @ \cup {i}]
    <3>1. lost' = lost /\ HandMoves(c, "idle", NoPhoto)
      BY <1>4, <2>1, AnswerMoves DEF SaveAdded, histVars
    <3> QED  BY <1>1, <2>1, <3>1, InsertStep
  <2>2. CASE Proceed(c, "cleanup", i) /\ UNCHANGED album
    <3>1. UNCHANGED <<shown, images, made, lost, twice, strays>>
      BY <1>1, <1>4, <2>2 DEF SaveAdded, histVars, shown
    <3>2. /\ strays \subseteq Images /\ i <= made /\ photo[c].old <= made
      BY DEF GalleryTypeOK, ImagesAreMade
    <3>3. Fresh(c)
      BY <1>1 DEF Fresh
    <3>4. /\ ~ Shows(i)
          /\ \A d \in Calls \ {c} : Fresh(d) =>
               i # photo[d].img /\ photo[c].old # photo[d].img
      BY <3>3 DEF FreshIsNew
    <3> HIDE DEF p, i
    <3>5. photo[c].img \in images' => p.img = photo[c].img
      BY <1>2, <2>2 DEF i
    <3> QED  BY <1>1, <1>2, <2>2, <3>1, <3>2, <3>4, <3>5, HandStep
  <2> QED  BY <1>4, <2>1, <2>2 DEF SaveAdded
<1> QED  BY <1>3, <1>4

\* The row of i is deleted, and its call goes on to delete the image.
LEMMA RemovePhotoStep ==
  ASSUME PicturesInv, UNCHANGED copyVars,
         NEW c \in Calls, NEW u \in Users, NEW i \in album[u],
         RemovePhoto(c, u, i)
  PROVE  PicturesInv'
<1> USE DEF PicturesInv
<1>0. UNCHANGED <<faceCopy, kept, revived>>
  BY DEF copyVars
<1> DEFINE p == [usr |-> u, img |-> i, old |-> 0]
<1>1. /\ album' = [album EXCEPT ![u] = @ \ {i}]
      /\ UNCHANGED <<face, posted, tickets, images, made, lost, twice, strays>>
      /\ Start(c, "cleanup", u, i, 0)
      /\ hand[c] = "idle" /\ photo[c].img = 0
  BY DEF RemovePhoto, AfterDelete, histVars, Start, HandsAreSound
<1>2. i \in Images /\ i \in 0..MaxImages /\ i # 0 /\ i <= made /\ made \in Nat
  BY GalleryAssumption DEF GalleryTypeOK, Images, ImagesAreMade
<1>3. HandMoves(c, "cleanup", p) /\ p.usr = u /\ p.img = i /\ p.old = 0
  BY <1>1, <1>2, GalleryAssumption, StartMoves DEF Hands
<1> HIDE DEF p
<1>4. /\ hand' \in [Calls -> Hands] /\ photo' \in [Calls -> Photos]
      /\ hand'[c] = "cleanup" /\ photo'[c] = p
      /\ \A d \in Calls \ {c} : hand'[d] = hand[d] /\ photo'[d] = photo[d]
  BY <1>3 DEF HandMoves
<1>5. /\ album' \in [Users -> SUBSET Images] /\ album'[u] = album[u] \ {i}
      /\ \A v \in Users \ {u} : album'[v] = album[v]
  BY <1>1 DEF GalleryTypeOK
<1>6. /\ \A v \in Users : face[v] # i /\ (v # u => i \notin album[v])
      /\ \A q \in Posts : i \notin posted[q]
  BY DEF PlacesAreApart
<1>7. \A j : Shows(j)' <=> Shows(j) /\ j # i
  BY <1>1, <1>5, <1>6 DEF Shows
<1>8. GalleryTypeOK'
  BY <1>0, <1>1, <1>4, <1>5 DEF GalleryTypeOK, Photos
<1>9. HandsAreSound'
  BY <1>2, <1>3, <1>4 DEF HandsAreSound
<1>10. ImagesAreMade'
  BY <1>1, <1>2, <1>3, <1>4, <1>5 DEF ImagesAreMade
<1>11. PlacesAreApart'
  <2>1. \A v \in Users : album'[v] \subseteq album[v]
    BY <1>5
  <2> QED  BY <1>1, <2>1 DEF PlacesAreApart
<1>12. FreshIsNew'
  <2>1. \A d \in Calls \ {c} : Fresh(d) => photo[d].img # i /\ photo[d].img # 0
    BY DEF FreshIsNew, Shows, Fresh
  <2> QED  BY <1>1, <1>3, <1>4, <1>7, <2>1 DEF FreshIsNew, Fresh
<1>13. OldWasAFace'
  BY <1>1, <1>4, <1>5 DEF OldWasAFace, Replaces
<1>14. DoomedIsHidden'
  BY <1>0, <1>1, <1>3, <1>4, <1>5, <1>7 DEF DoomedIsHidden
<1>15. ShownAreThere'
  BY <1>0, <1>1, <1>7 DEF ShownAreThere
<1>16. ImagesAreKnown'
  <2>1. 0 \notin images
    BY DEF GalleryTypeOK, Images
  <2> QED  BY <1>1, <1>3, <1>4, <1>7, <2>1 DEF ImagesAreKnown
<1>17. AlbumWithinLimit'
  <2>1. IsFiniteSet(Images)
    BY GalleryAssumption, FS_Interval DEF Images
  <2>2. IsFiniteSet(album[u])
    BY <2>1, FS_Subset DEF GalleryTypeOK
  <2>3. /\ Cardinality(album'[u]) \in Nat /\ Cardinality(album[u]) \in Nat
        /\ Cardinality(album'[u]) <= Cardinality(album[u])
    <3>1. album'[u] \subseteq album[u]
      BY <1>5
    <3> QED  BY <2>2, <3>1, FS_Subset, FS_CardinalityType
  <2>4. Cardinality(album[u]) <= MaxPhotos
    BY DEF AlbumWithinLimit
  <2>5. Cardinality(album'[u]) <= MaxPhotos
    BY <2>3, <2>4, GalleryAssumption
  <2> QED  BY <1>5, <2>5 DEF AlbumWithinLimit
<1> QED
  BY <1>8, <1>9, <1>10, <1>11, <1>12, <1>13, <1>14, <1>15, <1>16, <1>17

\* The same for a photo of a request, whether or not the row is still there.
LEMMA UnpostStep ==
  ASSUME PicturesInv, UNCHANGED copyVars,
         NEW c \in Calls, UnpostPhoto(c)
  PROVE  PicturesInv'
<1> USE DEF PicturesInv
<1>0. UNCHANGED <<faceCopy, kept, revived>>
  BY DEF copyVars
<1> DEFINE q == photo[c].usr
           i == photo[c].img
           p == [photo[c] EXCEPT !.img = i]
<1>1. /\ posted' = [posted EXCEPT ![q] = @ \ {i}]
      /\ UNCHANGED <<face, album, tickets, images, made, lost, twice, strays>>
      /\ Proceed(c, "cleanup", i) /\ hand[c] = "unpost.delete"
  BY DEF UnpostPhoto, AfterDelete, histVars
<1>2. q \in Posts /\ i # 0 /\ i \in 0..MaxImages
  BY <1>1, PhotoFacts DEF HandsAreSound
<1>3. HandMoves(c, "cleanup", p) /\ p.img = i /\ p.usr = q /\ p.old = photo[c].old
  BY <1>1, <1>2, ProceedMoves DEF Hands
<1> HIDE DEF p
<1>4. /\ hand' \in [Calls -> Hands] /\ photo' \in [Calls -> Photos]
      /\ hand'[c] = "cleanup" /\ photo'[c] = p
      /\ \A d \in Calls \ {c} : hand'[d] = hand[d] /\ photo'[d] = photo[d]
  BY <1>3 DEF HandMoves
<1>5. /\ posted' \in [Posts -> SUBSET Images] /\ posted'[q] = posted[q] \ {i}
      /\ \A r \in Posts \ {q} : posted'[r] = posted[r]
      /\ \A r \in Posts : posted'[r] \subseteq posted[r]
  BY <1>1, <1>2 DEF GalleryTypeOK
<1>6. \A j : /\ Shows(j)' => Shows(j)
             /\ Shows(j) /\ j # i => Shows(j)'
  BY <1>1, <1>5 DEF Shows
<1>7. \A j : j = i /\ Shows(j)' => j \in twice
  BY <1>1, <1>5 DEF DoomedIsHidden, Shows
<1>8. GalleryTypeOK'
  BY <1>0, <1>1, <1>4, <1>5 DEF GalleryTypeOK, Photos
<1>9. HandsAreSound'
  BY <1>2, <1>3, <1>4 DEF HandsAreSound
<1>10. ImagesAreMade'
  BY <1>1, <1>3, <1>4, <1>5 DEF ImagesAreMade
<1>11. PlacesAreApart'
  BY <1>1, <1>5 DEF PlacesAreApart
<1>12. FreshIsNew'
  BY <1>1, <1>3, <1>4, <1>6 DEF FreshIsNew, Fresh
<1>13. OldWasAFace'
  BY <1>1, <1>4, <1>5 DEF OldWasAFace, Replaces
<1>14. DoomedIsHidden'
  BY <1>0, <1>1, <1>3, <1>4, <1>5, <1>6, <1>7 DEF DoomedIsHidden
<1>15. ShownAreThere'
  BY <1>0, <1>1, <1>6 DEF ShownAreThere
<1>16. ImagesAreKnown'
  BY <1>1, <1>3, <1>4, <1>6 DEF ImagesAreKnown
<1>17. AlbumWithinLimit'
  BY <1>1 DEF AlbumWithinLimit
<1> QED
  BY <1>8, <1>9, <1>10, <1>11, <1>12, <1>13, <1>14, <1>15, <1>16, <1>17

LEMMA CreateRequestStep ==
  ASSUME PicturesInv, UNCHANGED copyVars,
         NEW q \in Posts, NEW S \in SUBSET tickets,
         CreateRequest(q, S)
  PROVE  PicturesInv'
<1> USE DEF PicturesInv
<1>0. UNCHANGED <<faceCopy, kept, revived>>
  BY DEF copyVars
<1> DEFINE named == {photo[c].img : c \in {d \in Calls :
                      hand[d] \in {"unpost.delete", "cleanup"}
                        /\ photo[d].img \in S}}
<1>1. /\ posted[q] = {} /\ posted' = [posted EXCEPT ![q] = S]
      /\ UNCHANGED <<face, album, tickets, images, made, hand, photo, lost, strays>>
      /\ twice' = twice \cup {i \in S : i \notin images \/
                                \E p \in Posts : i \in posted[p]} \cup named
  BY DEF CreateRequest
<1>2. S \subseteq Images /\ named \subseteq S
  BY DEF GalleryTypeOK
<1>3. /\ posted' \in [Posts -> SUBSET Images] /\ posted'[q] = S
      /\ \A r \in Posts \ {q} : posted'[r] = posted[r]
  BY <1>1, <1>2 DEF GalleryTypeOK
<1>4. \A j : Shows(j)' <=> Shows(j) \/ j \in S
  BY <1>1, <1>3 DEF Shows
<1>5. /\ twice \subseteq twice' /\ twice' \subseteq Images
      /\ \A i \in S : i \notin images => i \in twice'
      /\ \A i \in S, r \in Posts : i \in posted[r] => i \in twice'
  BY <1>1, <1>2 DEF GalleryTypeOK
<1>6. \A d \in Calls : hand[d] \in {"unpost.delete", "cleanup"} /\ photo[d].img \in S
                         => photo[d].img \in twice'
  BY <1>1
<1> HIDE DEF named
<1>7. GalleryTypeOK'
  BY <1>0, <1>1, <1>3, <1>5 DEF GalleryTypeOK
<1>8. HandsAreSound'
  BY <1>1 DEF HandsAreSound
<1>9. ImagesAreMade'
  BY <1>1, <1>3 DEF ImagesAreMade
<1>10. PlacesAreApart'
  <2>1. \A u \in Users : face'[u] \notin S /\ album'[u] \cap S = {}
    BY <1>1 DEF PlacesAreApart
  <2>2. \A r, s \in Posts : r # s => posted'[r] \cap posted'[s] \subseteq twice'
    BY <1>3, <1>5 DEF PlacesAreApart
  <2> QED  BY <1>1, <1>3, <2>1, <2>2 DEF PlacesAreApart
<1>11. FreshIsNew'
  BY <1>1, <1>4 DEF FreshIsNew, Fresh
<1>12. OldWasAFace'
  BY <1>1, <1>3 DEF OldWasAFace, Replaces
<1>13. DoomedIsHidden'
  BY <1>0, <1>1, <1>3, <1>4, <1>5, <1>6 DEF DoomedIsHidden
<1>14. ShownAreThere'
  BY <1>0, <1>1, <1>4, <1>5 DEF ShownAreThere
<1>15. ImagesAreKnown'
  BY <1>1, <1>4 DEF ImagesAreKnown
<1>16. AlbumWithinLimit'
  BY <1>1 DEF AlbumWithinLimit
<1> QED
  BY <1>7, <1>8, <1>9, <1>10, <1>11, <1>12, <1>13, <1>14, <1>15, <1>16

LEMMA TicketExpiresStep ==
  ASSUME PicturesInv, UNCHANGED copyVars,
         NEW i \in tickets, TicketExpires(i)
  PROVE  PicturesInv'
<1> USE DEF PicturesInv
<1>0. UNCHANGED <<faceCopy, kept, revived>>
  BY DEF copyVars
<1>1. /\ tickets' = tickets \ {i}
      /\ strays' = strays \cup ({i} \ (UNION {posted[q] : q \in Posts}))
      /\ UNCHANGED <<face, album, posted, images, made, hand, photo, lost, twice>>
  BY DEF TicketExpires
<1>2. /\ i \in Images /\ strays \subseteq strays' /\ strays' \subseteq Images
      /\ i \in strays' \/ \E q \in Posts : i \in posted[q]
  BY <1>1 DEF GalleryTypeOK
<1>3. \A j : Shows(j)' <=> Shows(j)
  BY <1>1 DEF Shows
<1>4. i \in strays' \/ Shows(i)
  BY <1>2 DEF Shows
<1>5. GalleryTypeOK'
  BY <1>0, <1>1, <1>2 DEF GalleryTypeOK
<1>6. HandsAreSound'
  BY <1>1 DEF HandsAreSound
<1>7. ImagesAreMade' /\ PlacesAreApart'
  BY <1>1 DEF ImagesAreMade, PlacesAreApart
<1>8. FreshIsNew' /\ OldWasAFace'
  BY <1>1, <1>3 DEF FreshIsNew, OldWasAFace, Fresh, Replaces
<1>9. DoomedIsHidden' /\ ShownAreThere'
  BY <1>0, <1>1, <1>3 DEF DoomedIsHidden, ShownAreThere
<1>10. ImagesAreKnown'
  BY <1>1, <1>2, <1>3, <1>4 DEF ImagesAreKnown
<1>11. AlbumWithinLimit'
  BY <1>1 DEF AlbumWithinLimit
<1> QED  BY <1>5, <1>6, <1>7, <1>8, <1>9, <1>10, <1>11

\* The new photo is the call's own, the old one is shown no more, and what
\* another call put there meanwhile is a stray.
LEMMA WriteFaceStep ==
  ASSUME PicturesInv, UNCHANGED copyVars,
         NEW c \in Calls, WriteFace(c)
  PROVE  PicturesInv'
<1> USE DEF PicturesInv
<1>0. UNCHANGED <<faceCopy, kept, revived>>
  BY DEF copyVars
<1> DEFINE u == photo[c].usr
           i == photo[c].img
           o == photo[c].old
           h == IF o = 0 THEN "idle" ELSE "cleanup"
           p == IF o = 0 THEN NoPhoto ELSE [photo[c] EXCEPT !.img = o]
<1>1. /\ hand[c] = "face.write"
      /\ face' = [face EXCEPT ![u] = i]
      /\ strays' = strays \cup ({face[u]} \ {0, o, i})
      /\ IF o = 0 THEN Answer(c) ELSE Proceed(c, "cleanup", o)
      /\ UNCHANGED <<album, posted, tickets, images, made, lost, twice>>
  BY DEF WriteFace, NewFace
<1>2. /\ u \in Users /\ i \in 0..MaxImages /\ o \in 0..MaxImages
      /\ i <= made /\ o <= made /\ face[u] \in 0..MaxImages
  BY <1>1, PhotoFacts DEF HandsAreSound, ImagesAreMade, GalleryTypeOK
<1>3. HandMoves(c, h, p) /\ p.img = o /\ (o = 0 => p.old = 0)
      /\ (o # 0 => p.usr = u /\ p.old = o)
  BY <1>1, <1>2, AnswerMoves, ProceedMoves, NoPhotoFacts DEF Hands
<1>4. (h = "idle" /\ o = 0) \/ (h = "cleanup" /\ o # 0)
  OBVIOUS
<1>5. i # 0 => /\ i \in images /\ i \notin tickets /\ o # i
               /\ \A v \in Users : face[v] # i /\ i \notin album[v]
               /\ \A q \in Posts : i \notin posted[q]
               /\ \A d \in Calls \ {c} : photo[d].img # i /\ photo[d].old # i
  BY <1>1 DEF FreshIsNew, Fresh, Shows
<1>6. o # 0 => /\ \A v \in Users : o \notin album[v]
               /\ \A v \in Users \ {u} : face[v] # o
               /\ \A q \in Posts : o \notin posted[q]
  BY <1>1 DEF OldWasAFace, Replaces
<1> HIDE DEF u, i, o, h, p
<1>7. /\ hand' \in [Calls -> Hands] /\ photo' \in [Calls -> Photos]
      /\ hand'[c] = h /\ photo'[c] = p
      /\ \A d \in Calls \ {c} : hand'[d] = hand[d] /\ photo'[d] = photo[d]
  BY <1>3 DEF HandMoves
<1>8. /\ face' \in [Users -> 0..MaxImages] /\ face'[u] = i
      /\ \A v \in Users \ {u} : face'[v] = face[v]
  BY <1>1, <1>2 DEF GalleryTypeOK
<1>9. /\ 0 \notin images /\ 0 \notin tickets
      /\ \A v \in Users : 0 \notin album[v]
      /\ \A q \in Posts : 0 \notin posted[q]
      /\ \A j \in Images : j # 0
  BY DEF GalleryTypeOK, Images
<1>10. /\ \A j : Shows(j)' => Shows(j) \/ j = i
       /\ \A j : Shows(j) /\ j # face[u] => Shows(j)'
       /\ \A j : j = i => Shows(j)'
  BY <1>1, <1>2, <1>8 DEF Shows
<1>11. o # 0 => \A j : j = o => ~ Shows(j)'
  BY <1>1, <1>2, <1>5, <1>6, <1>8 DEF Shows
<1>12. strays \subseteq strays' /\ strays' \subseteq Images
       /\ face[u] \in {0, o, i} \cup strays'
  <2>1. strays \subseteq Images /\ {face[u]} \ {0, o, i} \subseteq Images
    BY <1>2 DEF GalleryTypeOK, Images
  <2> QED  BY <1>1, <2>1
<1>13. GalleryTypeOK'
  BY <1>0, <1>1, <1>7, <1>8, <1>12 DEF GalleryTypeOK, Photos
<1>14. HandsAreSound'
  BY <1>3, <1>4, <1>7, <1>1 DEF HandsAreSound
<1>15. ImagesAreMade'
  BY <1>1, <1>2, <1>3, <1>7, <1>8 DEF ImagesAreMade, GalleryTypeOK
<1>16. PlacesAreApart'
  <2>1. \A v, w \in Users :
          /\ v # w /\ face'[v] # 0 => face'[v] # face'[w]
          /\ v # w => album[v] \cap album[w] = {}
          /\ face'[v] \notin album[w]
    BY <1>2, <1>5, <1>8, <1>9 DEF PlacesAreApart
  <2>2. \A v \in Users, q \in Posts :
          face'[v] \notin posted[q] /\ album[v] \cap posted[q] = {}
    BY <1>2, <1>5, <1>8, <1>9 DEF PlacesAreApart
  <2>3. \A v \in Users : face'[v] \notin tickets /\ album[v] \cap tickets = {}
    BY <1>2, <1>5, <1>8, <1>9 DEF PlacesAreApart
  <2> QED  BY <1>1, <2>1, <2>2, <2>3 DEF PlacesAreApart
<1>17. FreshIsNew'
  <2>1. \A d \in Calls \ {c} :
          /\ Fresh(d)' <=> Fresh(d)
          /\ Fresh(d) => photo[d].img # i /\ photo[d].img # o
    BY <1>5, <1>7 DEF Fresh, FreshIsNew, i, o
  <2>2. ~ Fresh(c)' /\ p.img = o /\ p.old \in {0, o}
    BY <1>3, <1>4, <1>7 DEF Fresh
  <2>3. \A d \in Calls \ {c} : Fresh(d) => photo[d].img # 0
    BY DEF Fresh
  <2>4. \A d \in Calls \ {c} : Fresh(d) =>
          \A j : j = photo[d].img => ~ Shows(j)'
    BY <2>1, <1>10 DEF FreshIsNew
  <2> QED  BY <1>1, <1>7, <2>1, <2>2, <2>3, <2>4 DEF FreshIsNew
<1>18. OldWasAFace'
  BY <1>1, <1>4, <1>5, <1>7, <1>8 DEF OldWasAFace, Replaces
<1>19. DoomedIsHidden'
  <2>1. \A d \in Calls \ {c} : photo[d].img # 0 => photo[d].img # i
    BY <1>5
  <2>2. \A d \in Calls \ {c} : hand[d] \in {"cleanup", "unpost.delete"} =>
          photo[d].img # 0
    BY DEF HandsAreSound
  <2> QED
    BY <1>0, <1>1, <1>3, <1>4, <1>7, <1>8, <1>10, <1>11, <2>1, <2>2 DEF DoomedIsHidden
<1>20. ShownAreThere'
  <2>1. i # 0 => i \in images
    BY <1>5
  <2> SUFFICES ASSUME NEW j \in Images, Shows(j)'
               PROVE  j \in images \cup lost \cup twice \cup revived
    BY <1>0, <1>1 DEF ShownAreThere
  <2>2. CASE j = i
    BY <2>1, <2>2, <1>9
  <2>3. CASE j # i
    BY <2>3, <1>10 DEF ShownAreThere
  <2> QED  BY <2>2, <2>3
<1>21. ImagesAreKnown'
  <2> SUFFICES ASSUME NEW j \in images
               PROVE  \/ Shows(j)' \/ j \in tickets \cup strays'
                      \/ \E d \in Calls : photo'[d].img = j
    BY <1>1 DEF ImagesAreKnown
  <2>1. CASE Shows(j) /\ j = face[u]
    BY <2>1, <1>3, <1>7, <1>9, <1>10, <1>12
  <2>2. CASE Shows(j) /\ j # face[u]
    BY <2>2, <1>10
  <2>3. CASE j \in tickets \cup strays
    BY <2>3, <1>12
  <2>4. CASE \E d \in Calls : photo[d].img = j
    BY <2>4, <1>7, <1>10 DEF i
  <2> QED  BY <2>1, <2>2, <2>3, <2>4 DEF ImagesAreKnown
<1>22. AlbumWithinLimit'
  BY <1>1 DEF AlbumWithinLimit
<1> QED
  BY <1>13, <1>14, <1>15, <1>16, <1>17, <1>18, <1>19, <1>20, <1>21, <1>22

\* An erased account has no profile photo; the image is a stray.
LEMMA ForgetFaceStep ==
  ASSUME PicturesInv, NEW x \in Users, ForgetFace(x)
  PROVE  PicturesInv'
<1> USE DEF PicturesInv
<1> DEFINE E == IF MayErase(x) THEN {x} ELSE {}
<1>0. UNCHANGED <<faceCopy, kept, revived>>
  BY DEF ForgetFace, copyVars
<1>1. /\ face' = [u \in Users |-> IF u \in E THEN 0 ELSE face[u]]
      /\ strays' = strays \cup ({face[u] : u \in E} \ {0})
      /\ UNCHANGED <<album, posted, tickets, images, made, hand, photo, lost, twice>>
  BY DEF ForgetFace, GalleryTypeOK
<1>2. E \subseteq Users
  OBVIOUS
<1> HIDE DEF E
<1>3. /\ 0 \notin images /\ 0 \notin tickets /\ made \in Nat
      /\ \A v \in Users : 0 \notin album[v]
      /\ \A q \in Posts : 0 \notin posted[q]
      /\ \A j \in Images : j # 0
  BY DEF GalleryTypeOK, Images
<1>4. /\ face' \in [Users -> 0..MaxImages]
      /\ \A u \in Users : face'[u] \in {0, face[u]}
  BY <1>1, GalleryAssumption DEF GalleryTypeOK
<1>5. \A u \in Users : face[u] \in 0..MaxImages
  BY DEF GalleryTypeOK
<1>6. /\ strays \subseteq strays' /\ strays' \subseteq Images
      /\ \A u \in Users : face'[u] # face[u] => face[u] \in strays' \cup {0}
  <2>1. {face[u] : u \in E} \ {0} \subseteq Images
    BY <1>2, <1>5, GalleryAssumption DEF Images
  <2>2. strays \subseteq Images
    BY DEF GalleryTypeOK
  <2> QED  BY <1>1, <2>1, <2>2
<1>7. /\ \A j : j # 0 /\ Shows(j)' => Shows(j)
      /\ \A j \in Images : Shows(j) => Shows(j)' \/ j \in strays'
  BY <1>1, <1>3, <1>4, <1>6 DEF Shows
<1>8. GalleryTypeOK'
  BY <1>0, <1>1, <1>4, <1>6 DEF GalleryTypeOK
<1>9. HandsAreSound'
  BY <1>1 DEF HandsAreSound
<1>10. ImagesAreMade'
  <2>1. \A u \in Users : face'[u] <= made
    BY <1>3, <1>4 DEF ImagesAreMade
  <2> QED  BY <1>1, <2>1 DEF ImagesAreMade
<1>11. PlacesAreApart'
  <2>1. \A v, w \in Users : /\ v # w /\ face'[v] # 0 => face'[v] # face'[w]
                            /\ face'[v] \notin album[w]
    BY <1>3, <1>4 DEF PlacesAreApart
  <2>2. \A v \in Users, q \in Posts : face'[v] \notin posted[q]
    BY <1>3, <1>4 DEF PlacesAreApart
  <2>3. \A v \in Users : face'[v] \notin tickets
    BY <1>3, <1>4 DEF PlacesAreApart
  <2> QED  BY <1>1, <2>1, <2>2, <2>3 DEF PlacesAreApart
<1>12. FreshIsNew'
  BY <1>1, <1>7 DEF FreshIsNew, Fresh
<1>13. OldWasAFace'
  BY <1>1, <1>4 DEF OldWasAFace, Replaces
<1>14. DoomedIsHidden'
  <2>1. \A d \in Calls : hand[d] \in {"cleanup", "unpost.delete"} =>
          photo[d].img # 0
    BY DEF HandsAreSound
  <2> QED  BY <1>0, <1>1, <1>4, <1>7, <2>1 DEF DoomedIsHidden
<1>15. ShownAreThere'
  BY <1>0, <1>1, <1>3, <1>7 DEF ShownAreThere
<1>16. ImagesAreKnown'
  BY <1>1, <1>6, <1>7 DEF ImagesAreKnown, GalleryTypeOK
<1>17. AlbumWithinLimit'
  BY <1>1 DEF AlbumWithinLimit
<1> QED
  BY <1>8, <1>9, <1>10, <1>11, <1>12, <1>13, <1>14, <1>15, <1>16, <1>17

LEMMA PhotoStepKeepsPictures ==
  ASSUME PicturesInv, PhotoStep, UNCHANGED copyVars PROVE PicturesInv'
<1>1. ASSUME NEW c \in Calls, Upload(c) \/ UploadFails(c) PROVE PicturesInv'
  BY <1>1, UploadStep, UploadFailsStep
<1>2. ASSUME NEW c \in Calls, Cleanup(c) \/ CleanupFails(c) PROVE PicturesInv'
  BY <1>2, CleanupStep
<1>3. ASSUME NEW c \in Calls, SaveAdded(c) \/ SaveUnanswered(c)
      PROVE  PicturesInv'
  BY <1>3, SaveStep
<1>4. ASSUME NEW c \in Calls, WriteFace(c) \/ WriteFaceFails(c)
      PROVE  PicturesInv'
  BY <1>4, WriteFaceStep, WriteFaceFailsStep
<1>5. ASSUME NEW c \in Calls, UnpostPhoto(c) PROVE PicturesInv'
  BY <1>5, UnpostStep
<1>6. ASSUME NEW c \in Calls, NEW u \in Users, NEW i \in album[u],
             RemovePhoto(c, u, i)
      PROVE  PicturesInv'
  BY <1>6, RemovePhotoStep
<1>7. ASSUME NEW c \in Calls,
             \/ UploadForRequest(c)
             \/ \E u \in Users : \/ AddPhoto(c, u)
                                 \/ \E h \in {"face.upload", "face.write"} :
                                      ChangeFace(c, u, h)
             \/ \E q \in Posts : \E i \in posted[q] : DeleteRequestPhoto(c, q, i)
      PROVE  PicturesInv'
  BY <1>7, BeginPhotoStep
<1>8. ASSUME NEW q \in Posts, NEW S \in SUBSET tickets, CreateRequest(q, S)
      PROVE  PicturesInv'
  BY <1>8, CreateRequestStep
<1>9. ASSUME NEW i \in tickets, TicketExpires(i) PROVE PicturesInv'
  BY <1>9, TicketExpiresStep
<1> QED
  BY <1>1, <1>2, <1>3, <1>4, <1>5, <1>6, <1>7, <1>8, <1>9 DEF PhotoStep

LEMMA StillPictures ==
  ASSUME PicturesInv, UNCHANGED galleryVars PROVE PicturesInv'
<1>1. /\ UNCHANGED <<face, album, posted, tickets, images, made, hand, photo>>
      /\ UNCHANGED <<lost, twice, strays, faceCopy, kept, revived>>
  BY DEF galleryVars, shown, histVars, copyVars
<1> QED
  BY <1>1 DEF PicturesInv, GalleryTypeOK, HandsAreSound, ImagesAreMade,
     PlacesAreApart, FreshIsNew, OldWasAFace, DoomedIsHidden, ShownAreThere,
     ImagesAreKnown, AlbumWithinLimit, Shows, Fresh, Replaces

-----------------------------------------------------------------------------
(***************************************************************************)
(* The copies of the profile photo                                         *)
(***************************************************************************)

LEMMA KeptFacts ==
  ASSUME GalleryTypeOK, NEW c \in Calls
  PROVE  /\ kept[c].img \in 0..MaxImages
         /\ kept[c].img # 0 => kept[c].img \in Images
         /\ \A u \in Users : face[u] # 0 => face[u] \in Images
<1>1. kept[c] \in [img : 0..MaxImages, differs : BOOLEAN]
  BY DEF GalleryTypeOK
<1>2. \A u \in Users : face[u] \in 0..MaxImages
  BY DEF GalleryTypeOK
<1> QED  BY <1>1, <1>2, GalleryAssumption DEF Images

LEMMA InitCopies == GalleryInit => CopiesWereFaces
<1> SUFFICES ASSUME GalleryInit PROVE CopiesWereFaces
  OBVIOUS
<1>1. /\ \A u \in Users : faceCopy[u] = 0
      /\ \A c \in Calls : step[c] = "idle"
  BY DEF GalleryInit, Init
<1>2. \A i \in Images : i # 0
  BY DEF Images
<1> QED  BY <1>1, <1>2 DEF CopiesWereFaces, Keeps, Holds

\* Nothing new is kept, and what is kept stays what it was.
LEMMA CopiesKept ==
  ASSUME CopiesWereFaces,
         \A u \in Users, i \in Images : Keeps(u, i)' => Keeps(u, i),
         \A u \in Users, i \in Images :
           Keeps(u, i) /\ OnlyFaceOf(u, i) => OnlyFaceOf(u, i)'
  PROVE  CopiesWereFaces'
<1>1. Users' = Users /\ Images' = Images
  BY DEF Images
<1> QED  BY <1>1 DEF CopiesWereFaces

\* It does, when the call c moves to h with the picture p.
LEMMA OnlyFaceStays ==
  ASSUME NEW u \in Users, NEW i \in Images, OnlyFaceOf(u, i),
         NEW c \in Calls, NEW h, NEW p, HandMoves(c, h, p),
         i <= made', i \notin tickets',
         \A v \in Users : i \notin album'[v],
         \A v \in Users \ {u} : face'[v] # i,
         \A q \in Posts : i \notin posted'[q],
         h \in {"add.save", "face.write", "unpost.delete"} => p.img # i,
         h \in {"face.upload", "face.write"} /\ p.usr # u => p.old # i
  PROVE  OnlyFaceOf(u, i)'
BY DEF OnlyFaceOf, HandMoves, Fresh, Replaces

\* No call on pictures gives the image to anybody else.
LEMMA OnlyFaceWhileHandling ==
  ASSUME PicturesInv, PhotoStep, NEW u \in Users, NEW i \in Images,
         OnlyFaceOf(u, i)
  PROVE  OnlyFaceOf(u, i)'
<1> USE DEF PicturesInv
<1>1. /\ i # 0 /\ i <= made /\ made \in Nat /\ i \in Nat /\ i \notin tickets
      /\ \A v \in Users : i \notin album[v]
      /\ \A v \in Users \ {u} : face[v] # i
      /\ \A q \in Posts : i \notin posted[q]
      /\ \A c \in Calls :
           /\ Fresh(c) \/ hand[c] = "unpost.delete" => photo[c].img # i
           /\ Replaces(c) /\ photo[c].usr # u => photo[c].old # i
  BY GalleryAssumption DEF OnlyFaceOf, GalleryTypeOK, Images
<1>2. ASSUME NEW c \in Calls,
             Cleanup(c) \/ CleanupFails(c) \/ WriteFaceFails(c)
      PROVE  OnlyFaceOf(u, i)'
  <2>1. UNCHANGED <<face, album, posted, tickets, made>> /\ Answer(c)
    BY <1>2 DEF Cleanup, CleanupFails, WriteFaceFails, shown
  <2>2. HandMoves(c, "idle", NoPhoto)
    BY <2>1, AnswerMoves
  <2> QED  BY <1>1, <2>1, <2>2, OnlyFaceStays
<1>3. ASSUME NEW c \in Calls, UploadFails(c) PROVE OnlyFaceOf(u, i)'
  <2>1. /\ UNCHANGED <<face, album, posted, tickets>> /\ Answer(c)
        /\ made' = made \/ made' = made + 1
    BY <1>3 DEF UploadFails, shown
  <2>2. HandMoves(c, "idle", NoPhoto)
    BY <2>1, AnswerMoves
  <2>3. i <= made'
    BY <1>1, <2>1
  <2> QED  BY <1>1, <2>1, <2>2, <2>3, OnlyFaceStays
<1>4. ASSUME NEW c \in Calls, Upload(c) PROVE OnlyFaceOf(u, i)'
  <2>1. /\ UNCHANGED <<face, album, posted>> /\ made' = made + 1
        /\ made < MaxImages
        /\ hand[c] \in {"add.upload", "face.upload", "ticket.upload"}
        /\ \/ Answer(c) /\ tickets' = tickets \cup {made'}
           \/ /\ Proceed(c, AfterUpload(hand[c]), made')
              /\ UNCHANGED tickets
              /\ hand[c] = "add.upload" \/ hand[c] = "face.upload"
    BY <1>4 DEF Upload, AfterUpload
  <2>2. i <= made' /\ i # made' /\ made' \in 0..MaxImages
    BY <1>1, <2>1, NextIsNew DEF Images
  <2>3. CASE Answer(c) /\ tickets' = tickets \cup {made'}
    <3>1. HandMoves(c, "idle", NoPhoto)
      BY <2>3, AnswerMoves
    <3> QED  BY <1>1, <2>1, <2>2, <2>3, <3>1, OnlyFaceStays
  <2>4. CASE /\ Proceed(c, AfterUpload(hand[c]), made') /\ UNCHANGED tickets
             /\ hand[c] = "add.upload" \/ hand[c] = "face.upload"
    <3> DEFINE h == AfterUpload(hand[c])
               p == [photo[c] EXCEPT !.img = made']
    <3>1. /\ h = "add.save" \/ (h = "face.write" /\ hand[c] = "face.upload")
          /\ h \in Hands
      BY <2>4 DEF AfterUpload, Hands
    <3>2. /\ HandMoves(c, h, p) /\ p.img = made'
          /\ p.usr = photo[c].usr /\ p.old = photo[c].old
      BY <2>2, <2>4, <3>1, ProceedMoves
    <3>3. h = "face.write" /\ photo[c].usr # u => photo[c].old # i
      BY <1>1, <3>1 DEF Replaces
    <3> HIDE DEF h, p
    <3>4. h \in {"face.upload", "face.write"} /\ p.usr # u => p.old # i
      BY <3>1, <3>2, <3>3
    <3> QED  BY <1>1, <2>1, <2>2, <2>4, <3>2, <3>4, OnlyFaceStays
  <2> QED  BY <2>1, <2>3, <2>4
<1>5. ASSUME NEW c \in Calls, SaveAdded(c) \/ SaveUnanswered(c)
      PROVE  OnlyFaceOf(u, i)'
  <2> DEFINE k == photo[c].img
             p == [photo[c] EXCEPT !.img = k]
  <2>1. /\ hand[c] = "add.save" /\ k \in 0..MaxImages /\ k # i
        /\ UNCHANGED <<face, posted, tickets, made>>
        /\ \/ album' = [album EXCEPT ![photo[c].usr] = @ \cup {k}]
           \/ album' = album
        /\ Answer(c) \/ Proceed(c, "cleanup", k)
    BY <1>1, <1>5, PhotoFacts DEF SaveAdded, SaveUnanswered, Fresh, histVars,
       HandsAreSound
  <2>2. \A v \in Users : i \notin album'[v]
    BY <1>1, <2>1 DEF GalleryTypeOK
  <2>3. Answer(c) => HandMoves(c, "idle", NoPhoto)
    BY AnswerMoves
  <2>4. Proceed(c, "cleanup", k) => HandMoves(c, "cleanup", p)
    BY <2>1, ProceedMoves DEF Hands
  <2> HIDE DEF k, p
  <2>5. \E h, x : HandMoves(c, h, x) /\ h \in {"idle", "cleanup"}
    BY <2>1, <2>3, <2>4
  <2> QED  BY <1>1, <2>1, <2>2, <2>5, OnlyFaceStays
<1>6. ASSUME NEW c \in Calls, WriteFace(c) PROVE OnlyFaceOf(u, i)'
  <2> DEFINE k == photo[c].img
             o == photo[c].old
             p == [photo[c] EXCEPT !.img = o]
  <2>1. /\ hand[c] = "face.write" /\ k # i /\ o \in 0..MaxImages
        /\ UNCHANGED <<album, posted, tickets, made>>
        /\ face' = [face EXCEPT ![photo[c].usr] = k]
        /\ Answer(c) \/ Proceed(c, "cleanup", o)
    BY <1>1, <1>6, PhotoFacts DEF WriteFace, NewFace, Fresh
  <2>2. \A v \in Users \ {u} : face'[v] # i
    BY <1>1, <2>1 DEF GalleryTypeOK
  <2>3. Answer(c) => HandMoves(c, "idle", NoPhoto)
    BY AnswerMoves
  <2>4. Proceed(c, "cleanup", o) => HandMoves(c, "cleanup", p)
    BY <2>1, ProceedMoves DEF Hands
  <2> HIDE DEF k, o, p
  <2>5. \E h, x : HandMoves(c, h, x) /\ h \in {"idle", "cleanup"}
    BY <2>1, <2>3, <2>4
  <2> QED  BY <1>1, <2>1, <2>2, <2>5, OnlyFaceStays
<1>7. ASSUME NEW c \in Calls, UnpostPhoto(c) PROVE OnlyFaceOf(u, i)'
  <2> DEFINE k == photo[c].img
             p == [photo[c] EXCEPT !.img = k]
  <2>1. /\ UNCHANGED <<face, album, tickets, made>>
        /\ posted' = [posted EXCEPT ![photo[c].usr] = @ \ {k}]
        /\ Proceed(c, "cleanup", k) /\ k \in 0..MaxImages
    BY <1>7, PhotoFacts DEF UnpostPhoto, AfterDelete, histVars
  <2>2. \A q \in Posts : i \notin posted'[q]
    BY <1>1, <2>1 DEF GalleryTypeOK
  <2>3. HandMoves(c, "cleanup", p)
    BY <2>1, ProceedMoves DEF Hands
  <2> HIDE DEF k, p
  <2> QED  BY <1>1, <2>1, <2>2, <2>3, OnlyFaceStays
<1>8. ASSUME NEW c \in Calls, NEW v \in Users, NEW j \in album[v],
             RemovePhoto(c, v, j)
      PROVE  OnlyFaceOf(u, i)'
  <2> DEFINE p == [usr |-> v, img |-> j, old |-> 0]
  <2>1. /\ UNCHANGED <<face, posted, tickets, made>>
        /\ album' = [album EXCEPT ![v] = @ \ {j}]
        /\ Start(c, "cleanup", v, j, 0) /\ j \in 0..MaxImages
    BY <1>8 DEF RemovePhoto, AfterDelete, histVars, GalleryTypeOK, Images
  <2>2. \A w \in Users : i \notin album'[w]
    BY <1>1, <2>1 DEF GalleryTypeOK
  <2>3. HandMoves(c, "cleanup", p)
    BY <2>1, GalleryAssumption, StartMoves DEF Hands
  <2> HIDE DEF p
  <2> QED  BY <1>1, <2>1, <2>2, <2>3, OnlyFaceStays
<1>9. ASSUME NEW c \in Calls, NEW h \in Hands,
             NEW w \in Users \cup Posts \cup {None},
             NEW j \in 0..MaxImages, NEW o \in 0..MaxImages,
             Start(c, h, w, j, o), UNCHANGED <<shown, made>>,
             h \in {"add.save", "face.write", "unpost.delete"} => j # i,
             h \in {"face.upload", "face.write"} /\ w # u => o # i
      PROVE  OnlyFaceOf(u, i)'
  <2> DEFINE p == [usr |-> w, img |-> j, old |-> o]
  <2>1. HandMoves(c, h, p)
    BY <1>9, StartMoves
  <2>2. UNCHANGED <<face, album, posted, tickets, made>>
    BY <1>9 DEF shown
  <2>3. p.usr = w /\ p.img = j /\ p.old = o
    OBVIOUS
  <2> HIDE DEF p
  <2> QED  BY <1>1, <1>9, <2>1, <2>2, <2>3, OnlyFaceStays
<1>10. ASSUME NEW c \in Calls,
              UploadForRequest(c) \/ \E v \in Users : AddPhoto(c, v)
       PROVE  OnlyFaceOf(u, i)'
  BY <1>9, <1>10, GalleryAssumption DEF UploadForRequest, AddPhoto, Hands
<1>11. ASSUME NEW c \in Calls, NEW v \in Users,
              NEW h \in {"face.upload", "face.write"}, ChangeFace(c, v, h)
       PROVE  OnlyFaceOf(u, i)'
  <2>1. face[v] \in 0..MaxImages /\ h \in Hands /\ (v # u => face[v] # i)
    BY <1>1 DEF GalleryTypeOK, Hands
  <2> QED  BY <1>1, <1>9, <1>11, <2>1, GalleryAssumption DEF ChangeFace
<1>12. ASSUME NEW c \in Calls, NEW q \in Posts, NEW j \in posted[q],
              DeleteRequestPhoto(c, q, j)
       PROVE  OnlyFaceOf(u, i)'
  <2>1. j \in 0..MaxImages /\ j # i
    BY <1>1 DEF GalleryTypeOK, Images
  <2> QED  BY <1>9, <1>12, <2>1, GalleryAssumption DEF DeleteRequestPhoto, Hands
<1>13. ASSUME NEW q \in Posts, NEW S \in SUBSET tickets, CreateRequest(q, S)
       PROVE  OnlyFaceOf(u, i)'
  <2>1. /\ posted' = [posted EXCEPT ![q] = S]
        /\ UNCHANGED <<face, album, tickets, made, hand, photo>>
    BY <1>13 DEF CreateRequest
  <2>2. \A r \in Posts : i \notin posted'[r]
    BY <1>1, <2>1 DEF GalleryTypeOK
  <2> QED  BY <1>1, <2>1, <2>2 DEF OnlyFaceOf, Fresh, Replaces
<1>14. ASSUME NEW j \in tickets, TicketExpires(j) PROVE OnlyFaceOf(u, i)'
  BY <1>1, <1>14 DEF TicketExpires, OnlyFaceOf, Fresh, Replaces
<1> QED
  BY <1>2, <1>3, <1>4, <1>5, <1>6, <1>7, <1>8, <1>10, <1>11, <1>12, <1>13,
     <1>14 DEF PhotoStep

\* A call that is not an edit comes to hold no copy, and disturbs none.
LEMMA OthersHoldNone ==
  ASSUME AccountsInv, NEW c \in Calls, Holds(c)',
         \/ AccountMoves \/ UNCHANGED vars
         \/ \E u \in Users : Erase(u) \/ CacheExpires(u)
  PROVE  Holds(c) /\ Usr(c)' = Usr(c)
<1>1. /\ DOMAIN step = Calls /\ DOMAIN args = Calls
      /\ step'[c] \in {"edit.cache", "save.load", "save.write"}
  BY DEF AccountsInv, TypeOK, Holds
<1>2. CASE UNCHANGED <<step, args>>
  BY <1>1, <1>2 DEF Holds, Usr
<1>3. ASSUME NEW d \in Calls, NEW s, NEW u, Begin(d, s, u),
             s \notin {"edit.cache", "save.load", "save.write"}
      PROVE  Holds(c) /\ Usr(c)' = Usr(c)
  BY <1>1, <1>3 DEF Begin, Holds, Usr, AccountsInv, TypeOK
<1>4. ASSUME NEW d \in Calls, NEW s, Goto(d, s),
             s \notin {"edit.cache", "save.load", "save.write"}
      PROVE  Holds(c) /\ Usr(c)' = Usr(c)
  BY <1>1, <1>4 DEF Goto, Holds, Usr, AccountsInv, TypeOK
<1>5. ASSUME NEW d \in Calls, Return(d)
      PROVE  Holds(c) /\ Usr(c)' = Usr(c)
  BY <1>1, <1>5 DEF Return, Answered, Holds, Usr, AccountsInv, TypeOK
<1>6. ASSUME NEW d \in Calls, NEW u \in Users, UserCalls(d, u)
      PROVE  Holds(c) /\ Usr(c)' = Usr(c)
  BY <1>3, <1>6 DEF UserCalls, RequestDeletion, CancelDeletion,
     SubmitVerification, PushToken
<1>7. ASSUME NEW d \in Calls, CallContinues(d)
      PROVE  Holds(c) /\ Usr(c)' = Usr(c)
  BY <1>4, <1>5, <1>7 DEF CallContinues, RequestCheck, RequestWrite, CancelWrite,
     VerifyWrite, PushWrite, WritePassword, DeleteWrite, DeleteTokens
<1>8. CASE \/ PurgeMoves
           \/ \E u \in Users : \/ StartWork(u) \/ EndWork(u) \/ Elapse(u)
                               \/ Erase(u) \/ CacheExpires(u)
           \/ UNCHANGED vars
  BY <1>2, <1>8 DEF PurgeMoves, PurgeDue, PurgeEnds, PurgeCheck, EraseFails,
     StartWork, EndWork, Elapse, Erase, CacheExpires, callVars, vars
<1> QED  BY <1>6, <1>7, <1>8 DEF AccountMoves

\* Only copies change.
LEMMA CopyOnlyStep ==
  ASSUME PicturesInv,
         UNCHANGED <<shown, images, made, hand, photo, histVars, revived>>,
         faceCopy' \in [Users -> 0..MaxImages],
         kept' \in [Calls -> [img : 0..MaxImages, differs : BOOLEAN]]
  PROVE  /\ PicturesInv'
         /\ \A u \in Users, i \in Images : OnlyFaceOf(u, i) => OnlyFaceOf(u, i)'
<1>1. /\ UNCHANGED <<face, album, posted, tickets, images, made, hand, photo>>
      /\ UNCHANGED <<lost, twice, strays, revived>>
  BY DEF shown, histVars
<1>2. PicturesInv'
  BY <1>1 DEF PicturesInv, GalleryTypeOK, HandsAreSound, ImagesAreMade,
     PlacesAreApart, FreshIsNew, OldWasAFace, DoomedIsHidden, ShownAreThere,
     ImagesAreKnown, AlbumWithinLimit, Shows, Fresh, Replaces
<1>3. \A u \in Users, i \in Images : OnlyFaceOf(u, i) => OnlyFaceOf(u, i)'
  BY <1>1 DEF OnlyFaceOf, Fresh, Replaces
<1> QED  BY <1>2, <1>3

\* The photo of a row is nobody else's.
LEMMA FaceIsOnlyHis ==
  ASSUME PicturesInv, CopiesWereFaces, NEW u \in Users, face[u] # 0
  PROVE  /\ OnlyFaceOf(u, face[u])
         /\ \A v \in Users \ {u} : ~ Keeps(v, face[u])
<1>1. face[u] \in Images
  BY KeptFacts DEF PicturesInv, GalleryTypeOK, Images
<1>2. /\ face[u] <= made /\ face[u] \notin tickets
      /\ \A v \in Users : face[u] \notin album[v]
      /\ \A v \in Users \ {u} : face[v] # face[u]
      /\ \A q \in Posts : face[u] \notin posted[q]
  BY DEF PicturesInv, ImagesAreMade, PlacesAreApart
<1>3. \A c \in Calls :
        /\ Fresh(c) => photo[c].img # face[u]
        /\ hand[c] = "unpost.delete" => photo[c].img # face[u]
        /\ Replaces(c) /\ photo[c].usr # u => photo[c].old # face[u]
  BY DEF PicturesInv, FreshIsNew, Shows, DoomedIsHidden, OldWasAFace
<1>4. \A v \in Users \ {u} : Keeps(v, face[u]) => FALSE
  BY <1>1 DEF CopiesWereFaces, OnlyFaceOf
<1> QED  BY <1>2, <1>3, <1>4 DEF OnlyFaceOf

LEMMA ReadFaceStep ==
  ASSUME GalleryInv, NEW c \in Calls, NEW u \in Users, NEW e \in Edits,
         ReadUser(c, u, e), ReadFace(c, u)
  PROVE  PicturesInv' /\ CopiesWereFaces'
<1> USE DEF GalleryInv
<1> DEFINE f == IF cache[u] = None THEN face[u] ELSE faceCopy[u]
<1>1. /\ kept' = [kept EXCEPT ![c].img = f] /\ UNCHANGED faceCopy
      /\ UNCHANGED <<shown, images, made, hand, photo, histVars, revived>>
  BY DEF ReadFace
<1>2. f \in 0..MaxImages
  BY DEF PicturesInv, GalleryTypeOK
<1>3. f # 0 => OnlyFaceOf(u, f) /\ \A v \in Users \ {u} : ~ Keeps(v, f)
  <2>1. CASE f = face[u]
    BY <2>1, FaceIsOnlyHis
  <2>2. CASE f = faceCopy[u]
    <3>1. Keeps(u, f)
      BY <2>2 DEF Keeps
    <3> QED  BY <1>2, <3>1, GalleryAssumption DEF CopiesWereFaces, Images
  <2> QED  BY <2>1, <2>2
<1> HIDE DEF f
<1>4. /\ kept' \in [Calls -> [img : 0..MaxImages, differs : BOOLEAN]]
      /\ kept'[c].img = f /\ \A d \in Calls \ {c} : kept'[d] = kept[d]
  BY <1>1, <1>2 DEF PicturesInv, GalleryTypeOK
<1>5. /\ PicturesInv'
      /\ \A v \in Users, i \in Images : OnlyFaceOf(v, i) => OnlyFaceOf(v, i)'
  BY <1>1, <1>4, CopyOnlyStep DEF PicturesInv, GalleryTypeOK
<1>6. /\ Usr(c)' = u
      /\ \A d \in Calls \ {c} : Usr(d)' = Usr(d) /\ (Holds(d)' <=> Holds(d))
  BY DEF ReadUser, Usr, Holds, AccountsInv, TypeOK
<1>7. \A v \in Users, i \in Images :
        Keeps(v, i)' => Keeps(v, i) \/ (v = u /\ i = f)
  BY <1>1, <1>4, <1>6 DEF Keeps
<1>8. \A i \in Images : i # 0
  BY DEF Images
<1>9. Images' = Images
  BY DEF Images
<1> QED  BY <1>3, <1>5, <1>7, <1>8, <1>9 DEF CopiesWereFaces

\* The other steps keep nothing that was not kept.
LEMMA FillFaceStep ==
  ASSUME GalleryInv, NEW c \in Calls, FillCache(c), FillFace(c)
  PROVE  PicturesInv' /\ CopiesWereFaces'
<1> USE DEF GalleryInv
<1>1. /\ faceCopy' = [faceCopy EXCEPT ![Usr(c)] = kept[c].img]
      /\ kept' = kept \/ (kept' = [kept EXCEPT ![c] = NoFace])
      /\ UNCHANGED <<shown, images, made, hand, photo, histVars, revived>>
  BY DEF FillFace
<1>2. Holds(c) /\ kept[c].img \in 0..MaxImages
  BY KeptFacts DEF FillCache, Holds, PicturesInv
<1>3. /\ \A d \in Calls \ {c} : Usr(d)' = Usr(d) /\ (Holds(d)' <=> Holds(d))
      /\ Holds(c)' => Usr(c)' = Usr(c)
  BY DEF FillCache, Goto, Return, Answered, Usr, Holds, AccountsInv, TypeOK
<1>4. /\ faceCopy' \in [Users -> 0..MaxImages]
      /\ kept' \in [Calls -> [img : 0..MaxImages, differs : BOOLEAN]]
      /\ \A d \in Calls : kept'[d].img = kept[d].img \/ kept'[d].img = 0
  <2>1. NoFace \in [img : 0..MaxImages, differs : BOOLEAN] /\ NoFace.img = 0
    BY GalleryAssumption DEF NoFace
  <2> QED  BY <1>1, <1>2, <2>1 DEF PicturesInv, GalleryTypeOK
<1>5. /\ PicturesInv'
      /\ \A v \in Users, i \in Images : OnlyFaceOf(v, i) => OnlyFaceOf(v, i)'
  BY <1>1, <1>4, CopyOnlyStep
<1>6. \A i \in Images : i # 0
  BY DEF Images
<1>7. \A v \in Users, i \in Images : Keeps(v, i)' => Keeps(v, i)
  <2> SUFFICES ASSUME NEW v \in Users, NEW i \in Images, Keeps(v, i)'
               PROVE  Keeps(v, i)
    BY DEF Images
  <2>1. CASE faceCopy'[v] = i
    <3>1. faceCopy[v] = i \/ (v = Usr(c) /\ kept[c].img = i)
      BY <1>1, <2>1 DEF PicturesInv, GalleryTypeOK
    <3> QED  BY <1>2, <3>1 DEF Keeps
  <2>2. CASE \E d \in Calls : Holds(d)' /\ Usr(d)' = v /\ kept'[d].img = i
    BY <1>2, <1>3, <1>4, <1>6, <2>2 DEF Keeps
  <2> QED  BY <2>1, <2>2 DEF Keeps
<1> QED  BY <1>5, <1>7, CopiesKept

LEMMA LoadFaceStep ==
  ASSUME GalleryInv, NEW c \in Calls, LoadForSave(c), LoadFace(c)
  PROVE  PicturesInv' /\ CopiesWereFaces'
<1> USE DEF GalleryInv
<1>1. /\ kept' = [kept EXCEPT ![c].differs = kept[c].img # face[Usr(c)]]
      /\ UNCHANGED faceCopy
      /\ UNCHANGED <<shown, images, made, hand, photo, histVars, revived>>
  BY DEF LoadFace
<1>2. /\ kept' \in [Calls -> [img : 0..MaxImages, differs : BOOLEAN]]
      /\ \A d \in Calls : kept'[d].img = kept[d].img
  BY <1>1 DEF PicturesInv, GalleryTypeOK
<1>3. /\ PicturesInv'
      /\ \A v \in Users, i \in Images : OnlyFaceOf(v, i) => OnlyFaceOf(v, i)'
  BY <1>1, <1>2, CopyOnlyStep DEF PicturesInv, GalleryTypeOK
<1>4. \A d \in Calls : Usr(d)' = Usr(d) /\ (Holds(d)' => Holds(d))
  <2>1. /\ step[c] = "save.load" /\ step' = [step EXCEPT ![c] = "save.write"]
        /\ args' = [args EXCEPT ![c].diff = Differs(args[c])]
    BY DEF LoadForSave
  <2>2. args[c] \in Args
    BY DEF AccountsInv, TypeOK
  <2> QED  BY <2>1, <2>2 DEF Usr, Holds, AccountsInv, TypeOK, Args
<1>5. \A v \in Users, i \in Images : Keeps(v, i)' => Keeps(v, i)
  BY <1>1, <1>2, <1>4 DEF Keeps
<1> QED  BY <1>3, <1>5, CopiesKept

LEMMA ClearFaceStep ==
  ASSUME GalleryInv,
         \/ \E c \in Calls : ClearCache(c) /\ ClearFace(c)
         \/ \E u \in Users : CacheExpires(u) /\ FaceExpires(u)
  PROVE  PicturesInv' /\ CopiesWereFaces'
<1> USE DEF GalleryInv
<1>1. /\ UNCHANGED <<shown, images, made, hand, photo, histVars, revived>>
      /\ \E u : faceCopy' = [faceCopy EXCEPT ![u] = 0]
      /\ kept' = kept \/ \E c \in Calls : kept' = [kept EXCEPT ![c] = NoFace]
  BY DEF ClearFace, FaceExpires
<1>2. NoFace \in [img : 0..MaxImages, differs : BOOLEAN] /\ NoFace.img = 0
  BY GalleryAssumption DEF NoFace
<1>3. /\ faceCopy' \in [Users -> 0..MaxImages]
      /\ \A u \in Users : faceCopy'[u] \in {0, faceCopy[u]}
  <2>1. 0 \in 0..MaxImages /\ faceCopy \in [Users -> 0..MaxImages]
    BY GalleryAssumption DEF PicturesInv, GalleryTypeOK
  <2>2. PICK u : faceCopy' = [faceCopy EXCEPT ![u] = 0]
    BY <1>1
  <2> QED  BY <2>1, <2>2
<1>4. /\ kept' \in [Calls -> [img : 0..MaxImages, differs : BOOLEAN]]
      /\ \A d \in Calls : kept'[d].img \in {0, kept[d].img}
  BY <1>1, <1>2 DEF PicturesInv, GalleryTypeOK
<1>5. /\ PicturesInv'
      /\ \A v \in Users, i \in Images : OnlyFaceOf(v, i) => OnlyFaceOf(v, i)'
  BY <1>1, <1>3, <1>4, CopyOnlyStep
<1>6. \A d \in Calls : Holds(d)' => Holds(d) /\ Usr(d)' = Usr(d)
  BY DEF ClearCache, CacheExpires, callVars, Return, Answered, Usr, Holds,
     AccountsInv, TypeOK
<1>7. \A v \in Users, i \in Images : Keeps(v, i)' => Keeps(v, i)
  <2>1. \A i \in Images : i # 0
    BY DEF Images
  <2> QED  BY <1>3, <1>4, <1>6, <2>1 DEF Keeps, Images
<1> QED  BY <1>5, <1>7, CopiesKept

\* The photo of the copy was the user's own: nobody else shows it, and no call
\* has it that could make it somebody else's.
LEMMA SaveFaceStep ==
  ASSUME GalleryInv, NEW c \in Calls, WriteSave(c), SaveFace(c)
  PROVE  PicturesInv' /\ CopiesWereFaces'
<1> USE DEF GalleryInv, PicturesInv
<1> DEFINE u == Usr(c)
           i == IF kept[c].differs THEN kept[c].img ELSE face[u]
<1>1. /\ face' = [face EXCEPT ![u] = i]
      /\ revived' = revived \cup ({i} \ {0, face[u]})
      /\ strays'  = strays \cup ({face[u]} \ {0, i})
      /\ kept'    = [kept EXCEPT ![c] = NoFace]
      /\ UNCHANGED <<album, posted, tickets, images, made, hand, photo, lost,
                     twice, faceCopy>>
  BY DEF SaveFace
<1>2. step[c] = "save.write" /\ u \in Users /\ Holds(c)
  BY DEF WriteSave, AccountsInv, CallsHaveUsers, Holds
<1>3. /\ i \in 0..MaxImages /\ face[u] \in 0..MaxImages
      /\ i # 0 => i \in Images
      /\ face[u] # 0 => face[u] \in Images
      /\ \A j \in Images : j # 0
  BY <1>2, KeptFacts DEF GalleryTypeOK, Images
<1>4. i # 0 => OnlyFaceOf(u, i) /\ \A v \in Users \ {u} : ~ Keeps(v, i)
  <2>1. CASE i = face[u]
    BY <1>2, <2>1, FaceIsOnlyHis
  <2>2. CASE i = kept[c].img
    <3>1. Keeps(u, i)
      BY <1>2, <2>2 DEF Keeps
    <3> QED  BY <1>2, <1>3, <3>1 DEF CopiesWereFaces
  <2> QED  BY <2>1, <2>2
<1>5. \A d \in Calls : Holds(d)' => Holds(d) /\ Usr(d)' = Usr(d)
  BY DEF WriteSave, Goto, Holds, Usr, AccountsInv, TypeOK
<1> HIDE DEF u, i
<1>6. i # 0 => /\ i <= made /\ i \notin tickets
               /\ \A v \in Users : i \notin album[v]
               /\ \A v \in Users \ {u} : face[v] # i
               /\ \A q \in Posts : i \notin posted[q]
               /\ \A d \in Calls :
                    /\ Fresh(d) \/ hand[d] = "unpost.delete" => photo[d].img # i
                    /\ Replaces(d) /\ photo[d].usr # u => photo[d].old # i
  BY <1>4 DEF OnlyFaceOf
<1>7. /\ face' \in [Users -> 0..MaxImages] /\ face'[u] = i
      /\ \A v \in Users \ {u} : face'[v] = face[v]
  BY <1>1, <1>2, <1>3 DEF GalleryTypeOK
<1>8. /\ 0 \notin images /\ 0 \notin tickets /\ made \in Nat
      /\ \A v \in Users : 0 \notin album[v]
      /\ \A q \in Posts : 0 \notin posted[q]
  BY DEF GalleryTypeOK, Images
<1>9. /\ \A j : Shows(j)' => Shows(j) \/ j = i
      /\ \A j : Shows(j) /\ j # face[u] => Shows(j)'
      /\ \A j : j = i => Shows(j)'
      /\ \A j : j = face[u] => Shows(j)
  BY <1>1, <1>2, <1>7 DEF Shows
<1>10. /\ strays \subseteq strays' /\ strays' \subseteq Images
       /\ revived \subseteq revived' /\ revived' \subseteq Images
       /\ face[u] \in {0, i} \cup strays'
       /\ i \in {0, face[u]} \cup revived'
  BY <1>1, <1>3 DEF GalleryTypeOK
<1>11. GalleryTypeOK'
  <2>1. NoFace \in [img : 0..MaxImages, differs : BOOLEAN]
    BY GalleryAssumption DEF NoFace
  <2>2. kept' \in [Calls -> [img : 0..MaxImages, differs : BOOLEAN]]
    BY <1>1, <2>1 DEF GalleryTypeOK
  <2> QED  BY <1>1, <1>7, <1>10, <2>2 DEF GalleryTypeOK
<1>12. HandsAreSound'
  BY <1>1 DEF HandsAreSound
<1>13. ImagesAreMade'
  <2>1. i <= made
    BY <1>6, <1>8
  <2> QED  BY <1>1, <1>7, <2>1 DEF ImagesAreMade
<1>14. PlacesAreApart'
  <2>1. \A v, w \in Users :
          /\ v # w /\ face'[v] # 0 => face'[v] # face'[w]
          /\ face'[v] \notin album[w]
    BY <1>6, <1>7, <1>8 DEF PlacesAreApart
  <2>2. \A v \in Users, q \in Posts : face'[v] \notin posted[q]
    BY <1>6, <1>7, <1>8 DEF PlacesAreApart
  <2>3. \A v \in Users : face'[v] \notin tickets
    BY <1>6, <1>7, <1>8 DEF PlacesAreApart
  <2> QED  BY <1>1, <2>1, <2>2, <2>3 DEF PlacesAreApart
<1>15. FreshIsNew'
  <2>1. \A d \in Calls : Fresh(d) =>
          /\ photo[d].img # i
          /\ \A j : j = photo[d].img => ~ Shows(j)'
    BY <1>6, <1>9 DEF Fresh, FreshIsNew
  <2>2. \A d \in Calls : Fresh(d)' <=> Fresh(d)
    BY <1>1 DEF Fresh
  <2> QED  BY <1>1, <2>1, <2>2 DEF FreshIsNew
<1>16. OldWasAFace'
  <2>1. \A d \in Calls : (Replaces(d)' <=> Replaces(d)) /\ (Replaces(d) => photo[d].old # 0)
    BY <1>1 DEF Replaces
  <2> QED  BY <1>1, <1>6, <1>7, <2>1 DEF OldWasAFace
<1>17. DoomedIsHidden'
  <2>1. \A d \in Calls : hand[d] \in {"cleanup", "unpost.delete"} =>
          photo[d].img # 0
    BY DEF HandsAreSound
  <2>2. \A d \in Calls : hand[d] = "cleanup" =>
          \A j : j = photo[d].img /\ Shows(j)' =>
            j \in lost \cup twice \cup revived'
    BY <1>9, <1>10, <2>1 DEF DoomedIsHidden
  <2>3. \A d \in Calls, v \in Users : hand[d] = "unpost.delete" =>
          face'[v] # photo[d].img
    BY <1>6, <1>7, <2>1 DEF DoomedIsHidden
  <2> QED  BY <1>1, <2>2, <2>3 DEF DoomedIsHidden
<1>18. ShownAreThere'
  <2> SUFFICES ASSUME NEW j \in Images, Shows(j)'
               PROVE  j \in images \cup lost \cup twice \cup revived'
    BY <1>1 DEF ShownAreThere, Images
  <2> QED  BY <1>3, <1>9, <1>10 DEF ShownAreThere
<1>19. ImagesAreKnown'
  BY <1>1, <1>8, <1>9, <1>10 DEF ImagesAreKnown
<1>20. AlbumWithinLimit'
  BY <1>1 DEF AlbumWithinLimit
<1>21. CopiesWereFaces'
  <2>1. \A d \in Calls : kept'[d].img \in {0, kept[d].img}
    BY <1>1 DEF GalleryTypeOK, NoFace
  <2>2. \A v \in Users, j \in Images : Keeps(v, j)' => Keeps(v, j)
    BY <1>1, <1>3, <1>5, <2>1 DEF Keeps
  <2>3. \A v \in Users, j \in Images :
          Keeps(v, j) /\ OnlyFaceOf(v, j) => OnlyFaceOf(v, j)'
    <3> SUFFICES ASSUME NEW v \in Users, NEW j \in Images, Keeps(v, j),
                        OnlyFaceOf(v, j)
                 PROVE  OnlyFaceOf(v, j)'
      OBVIOUS
    <3>1. \A w \in Users \ {v} : face'[w] # j
      BY <1>2, <1>3, <1>4, <1>7 DEF OnlyFaceOf
    <3> QED  BY <1>1, <3>1 DEF OnlyFaceOf, Fresh, Replaces
  <2> QED  BY <2>2, <2>3, CopiesKept
<1> QED
  BY <1>11, <1>12, <1>13, <1>14, <1>15, <1>16, <1>17, <1>18, <1>19, <1>20, <1>21

\* What is kept of the user whose photo is forgotten stays kept.
LEMMA ForgottenIsKept ==
  ASSUME GalleryInv, NEW u \in Users, Erase(u), ForgetFace(u)
  PROVE  CopiesWereFaces'
<1>1. /\ face' = [face EXCEPT ![u] = IF MayErase(u) THEN 0 ELSE @]
      /\ UNCHANGED <<album, posted, tickets, made, hand, photo>>
      /\ UNCHANGED <<faceCopy, kept>>
  BY DEF ForgetFace, copyVars
<1>2. \A c \in Calls : Holds(c)' => Holds(c) /\ Usr(c)' = Usr(c)
  BY OthersHoldNone DEF GalleryInv
<1>3. \A v \in Users, i \in Images : Keeps(v, i)' => Keeps(v, i)
  BY <1>1, <1>2 DEF Keeps
<1>4. \A v \in Users, i \in Images : OnlyFaceOf(v, i) => OnlyFaceOf(v, i)'
  <2>1. \A i \in Images : i # 0
    BY DEF Images
  <2>2. \A w \in Users : face'[w] \in {0, face[w]}
    BY <1>1 DEF GalleryInv, PicturesInv, GalleryTypeOK
  <2> QED  BY <1>1, <2>1, <2>2 DEF OnlyFaceOf, Fresh, Replaces
<1> QED  BY <1>3, <1>4, CopiesKept DEF GalleryInv

\* Calls on pictures keep no copy.
LEMMA HandlingKeepsCopies ==
  ASSUME GalleryInv, PhotoStep, UNCHANGED <<vars, copyVars>>
  PROVE  CopiesWereFaces'
<1>1. UNCHANGED <<step, args, faceCopy, kept>>
  BY DEF vars, callVars, copyVars
<1>2. \A u \in Users, i \in Images : Keeps(u, i)' => Keeps(u, i)
  BY <1>1 DEF Keeps, Holds, Usr
<1> QED  BY <1>2, OnlyFaceWhileHandling, CopiesKept DEF GalleryInv

LEMMA AccountsKeepCopies ==
  ASSUME GalleryInv, AccountMoves \/ UNCHANGED vars, UNCHANGED galleryVars
  PROVE  PicturesInv' /\ CopiesWereFaces'
<1>1. /\ UNCHANGED <<face, album, posted, tickets, made, hand, photo>>
      /\ UNCHANGED <<faceCopy, kept>>
  BY DEF galleryVars, shown, copyVars
<1>2. \A c \in Calls : Holds(c)' => Holds(c) /\ Usr(c)' = Usr(c)
  BY OthersHoldNone DEF GalleryInv
<1>3. \A u \in Users, i \in Images : Keeps(u, i)' => Keeps(u, i)
  BY <1>1, <1>2 DEF Keeps
<1>4. \A u \in Users, i \in Images : OnlyFaceOf(u, i) => OnlyFaceOf(u, i)'
  BY <1>1 DEF OnlyFaceOf, Fresh, Replaces
<1> QED  BY <1>3, <1>4, CopiesKept, StillPictures DEF GalleryInv

LEMMA StepKeepsGallery ==
  GalleryInv /\ [GalleryNext]_<<vars, galleryVars>> => GalleryInv'
<1> SUFFICES ASSUME GalleryInv, [GalleryNext]_<<vars, galleryVars>>
             PROVE  GalleryInv'
  OBVIOUS
<1>1. [Next]_vars
  BY DEF GalleryNext, FacesMove, Next, CopyMoves
<1>2. AccountsInv'
  BY <1>1, StepKeepsAccounts DEF GalleryInv
<1>3. CASE FacesMove
  <2>1. ASSUME NEW u \in Users, Erase(u), ForgetFace(u)
        PROVE  PicturesInv' /\ CopiesWereFaces'
    BY <2>1, ForgetFaceStep, ForgottenIsKept DEF GalleryInv
  <2> QED
    BY <1>2, <1>3, <2>1, ReadFaceStep, FillFaceStep, LoadFaceStep, SaveFaceStep,
       ClearFaceStep DEF FacesMove, GalleryInv
<1>4. CASE PhotoStep /\ UNCHANGED <<vars, copyVars>>
  BY <1>2, <1>4, PhotoStepKeepsPictures, HandlingKeepsCopies DEF GalleryInv
<1>5. CASE (AccountMoves /\ UNCHANGED galleryVars) \/ UNCHANGED <<vars, galleryVars>>
  BY <1>2, <1>5, AccountsKeepCopies DEF GalleryInv
<1> QED  BY <1>3, <1>4, <1>5 DEF GalleryNext

-----------------------------------------------------------------------------
(***************************************************************************)
(* Theorems                                                                *)
(***************************************************************************)

\* The inductive invariant of the accounts alone.
THEOREM AccountsInvariance == Spec => []AccountsInv
<1>1. Init => AccountsInv
  BY InitAccounts
<1>2. AccountsInv /\ [Next]_vars => AccountsInv'
  BY StepKeepsAccounts
<1> QED  BY <1>1, <1>2, PTL DEF Spec

\* The inductive invariant of the accounts and their pictures.
THEOREM GalleryInvariance == GallerySpec => []GalleryInv
<1>1. GalleryInit => GalleryInv
  BY InitAccounts, InitPictures, InitCopies DEF GalleryInit, GalleryInv
<1>2. GalleryInv /\ [GalleryNext]_<<vars, galleryVars>> => GalleryInv'
  BY StepKeepsGallery
<1> QED  BY <1>1, <1>2, PTL DEF GallerySpec

\* Both state spaces are typed.
THEOREM TypeCorrect == GallerySpec => [](TypeOK /\ GalleryTypeOK)
<1>1. GalleryInv => TypeOK /\ GalleryTypeOK
  BY DEF GalleryInv, AccountsInv, PicturesInv
<1> QED  BY <1>1, GalleryInvariance, PTL

\* An admin's verification is of the documents it looked at: an account is
\* verified with documents only if they were under review at the look
\* (verifyWorker, save), or the row was overwritten by a call that had read it
\* before.
THEOREM VerifiedStaySeen == Spec => []VerifiedWereSeen
<1>1. AccountsInv => VerifiedWereSeen
  BY DEF AccountsInv, UserIsSound, VerifiedWereSeen, TypeOK
<1> QED  BY <1>1, AccountsInvariance, PTL

LEMMA PublishedAreShown ==
  ASSUME GalleryTypeOK, NEW i
  PROVE  /\ i \in Published => i \in Images /\ Shows(i)
         /\ i # 0 /\ Shows(i) => i \in Published
<1>1. /\ \A u \in Users : /\ face[u] # 0 => face[u] \in Images
                         /\ album[u] \subseteq Images /\ 0 \notin album[u]
      /\ \A q \in Posts : posted[q] \subseteq Images
  BY GalleryAssumption DEF GalleryTypeOK, Images
<1>2. i \in Published <=>
        \/ i # 0 /\ \E u \in Users : i \in {face[u]} \cup album[u]
        \/ \E q \in Posts : i \in posted[q]
  <2> DEFINE A == UNION {{face[u]} \cup album[u] : u \in Users}
             P == UNION {posted[q] : q \in Posts}
  <2>1. i \in A <=> \E u \in Users : i \in {face[u]} \cup album[u]
    OBVIOUS
  <2>2. i \in P <=> \E q \in Posts : i \in posted[q]
    OBVIOUS
  <2>3. Published = (A \ {0}) \cup P
    BY DEF Published
  <2> HIDE DEF A, P
  <2> QED  BY <2>1, <2>2, <2>3
<1> QED  BY <1>1, <1>2 DEF Shows

\* The album keeps its limit, whatever calls add and remove side by side, and
\* no call deletes an image that a row names: only a COMMIT without an answer,
\* a comprobante used again and the save of an old copy of the row make a row
\* name an image that is gone (MobileWorkerPortfolioService.add,
\* uploadProfilePhoto, cleanup, deleteRequestPhoto, and update in
\* UsersService).
THEOREM PicturesStayKept == GallerySpec => []PicturesAreKept
<1>1. GalleryInv => PicturesAreKept
  BY PublishedAreShown
     DEF GalleryInv, PicturesInv, PicturesAreKept, ShownIsThere, ShownAreThere
<1> QED  BY <1>1, GalleryInvariance, PTL

\* Only what its user wished to be erased is, nothing of an erased account is
\* left but its images, and an image that no row, no comprobante and no call
\* knows is one whose upload, row or deletion failed, which another call or the
\* save of an old copy wrote over, or which was of an erased account or never
\* used (anonymize, cleanup, and update in UsersService).
THEOREM NothingIsLeftBehind == GallerySpec => []NothingStaysBehind
<1>1. GalleryInv => ErasedAsWished /\ ErasedLeavesNothing
  BY DEF GalleryInv, AccountsInv, UserIsSound, ErasedAsWished,
     ErasedLeavesNothing, TypeOK
<1>2. GalleryInv => NoImageStaysBehind
  <2> SUFFICES ASSUME GalleryInv, NEW i \in images
               PROVE  i \in Published \cup tickets \cup strays \cup
                              {photo[c].img : c \in Calls}
    BY DEF NoImageStaysBehind
  <2>1. i # 0 /\ GalleryTypeOK
    BY DEF GalleryInv, PicturesInv, GalleryTypeOK, Images
  <2> QED
    BY <2>1, PublishedAreShown DEF GalleryInv, PicturesInv, ImagesAreKnown
<1>3. GalleryInv => NothingStaysBehind
  BY <1>1, <1>2 DEF NothingStaysBehind
<1> QED  BY <1>3, GalleryInvariance, PTL

(***************************************************************************)
(* The inductive invariant of the access                                   *)
(***************************************************************************)

CallsHaveSubjects == \A c \in Calls : step[c] # "idle" => Sub(c) \in Subjects

\* The calls about the subject that are at a statement: those that have
\* compared a wrong password and not counted it yet, and those that were let
\* through and have not compared yet.
At(h, s)    == {c \in Calls : step[c] = h /\ Sub(c) = s}
Counting(s) == Cardinality(At("fail.incr", s))
Reading(s)  == Cardinality(At("office.read", s))
Bound       == MaxAttempts - 1 + Cardinality(Calls) + faults

\* A wrong password was counted, will be, or could not be; who is let through
\* saw the counter below the limit, and there are only so many calls.
CounterIsSound(s) ==
  /\ tries[s] <= count[s] + Counting(s) + faults
  /\ tries[s] + Reading(s) <= Bound
  /\ count[s] + Counting(s) + Reading(s) <= Bound

\* No date of closing is in the future, and none is older than what it closed
\* or than the recovery that set it.
CutoffsAreSound ==
  /\ \A s \in Subjects : cutoff[s] # None => cutoff[s] <= now
  /\ \A x \in closed \cup used :
       cutoff[x[1].sub] # None /\ x[2] <= cutoff[x[1].sub]

AccessInv ==
  /\ AccessTypeOK /\ CallsHaveSubjects
  /\ \A s \in Subjects : CounterIsSound(s)
  /\ CutoffsAreSound

-----------------------------------------------------------------------------
LEMMA NoLoginIsTyped == NoLogin \in Logins /\ NoLogin.sub = None
BY BoundsAreNaturals DEF NoLogin, Logins, Secrets, Times

LEMMA AtIsFinite ==
  ASSUME NEW h, NEW s
  PROVE  /\ IsFiniteSet(At(h, s)) /\ Cardinality(At(h, s)) \in Nat
         /\ Cardinality(Calls) \in Nat
<1>1. IsFiniteSet(At(h, s))
  BY CallsAreFinite, FS_Subset DEF At
<1> QED  BY <1>1, CallsAreFinite, FS_CardinalityType

\* A call that is at neither of the two statements is one more.
LEMMA RoomForOne ==
  ASSUME NEW c \in Calls, NEW s, step[c] \notin {"fail.incr", "office.read"}
  PROVE  Counting(s) + Reading(s) + 1 <= Cardinality(Calls)
<1> DEFINE F == At("fail.incr", s)
           O == At("office.read", s)
<1>1. /\ F \cap O = {} /\ c \notin F \cup O
      /\ (F \cup O) \cup {c} \subseteq Calls
  BY DEF At
<1>2. /\ IsFiniteSet(F) /\ Cardinality(F) \in Nat
      /\ IsFiniteSet(O) /\ Cardinality(O) \in Nat
  BY AtIsFinite
<1> HIDE DEF F, O
<1>3. /\ IsFiniteSet(F \cup O)
      /\ Cardinality(F \cup O) = Cardinality(F) + Cardinality(O)
  BY <1>1, <1>2, FS_Union, FS_EmptySet
<1>4. Cardinality((F \cup O) \cup {c}) = Cardinality(F \cup O) + 1
  BY <1>1, <1>3, FS_AddElement
<1>5. Cardinality((F \cup O) \cup {c}) <= Cardinality(Calls)
  BY <1>1, CallsAreFinite, FS_Subset
<1> QED  BY <1>3, <1>4, <1>5 DEF Counting, Reading, F, O

\* The call stands at h with the arguments a, and all others where they were.
CallMoves(c, h, a) ==
  /\ step' \in [Calls -> AccessSteps] /\ args' \in [Calls -> Logins]
  /\ step'[c] = h /\ args'[c] = a
  /\ \A d \in Calls \ {c} : step'[d] = step[d] /\ args'[d] = args[d]

LEMMA AtMoves ==
  ASSUME NEW c \in Calls, NEW h, NEW a, CallMoves(c, h, a), NEW x, NEW s
  PROVE  LET was == step[c] = x /\ Sub(c) = s
             is  == h = x /\ a.sub = s
         IN  Cardinality(At(x, s))' =
               Cardinality(At(x, s)) + (IF is THEN 1 ELSE 0)
                                     - (IF was THEN 1 ELSE 0)
<1> DEFINE A == At(x, s)
           B == At(x, s)'
           was == step[c] = x /\ Sub(c) = s
           is  == h = x /\ a.sub = s
<1>1. \A d \in Calls \ {c} : d \in A <=> d \in B
  BY DEF At, CallMoves, Sub
<1>2. (c \in A <=> was) /\ (c \in B <=> is)
  BY DEF At, CallMoves, Sub
<1>3. A \subseteq Calls /\ B \subseteq Calls
  BY DEF At
<1>4. IsFiniteSet(A) /\ Cardinality(A) \in Nat
  BY AtIsFinite
<1>5. Cardinality(At(x, s))' = Cardinality(B)
  OBVIOUS
<1> HIDE DEF A, B, was, is
<1>6. CASE was /\ is
  <2>1. B = A
    BY <1>1, <1>2, <1>3, <1>6
  <2> QED  BY <1>4, <1>5, <1>6, <2>1 DEF A, was, is
<1>7. CASE ~ was /\ ~ is
  <2>1. B = A
    BY <1>1, <1>2, <1>3, <1>7
  <2> QED  BY <1>4, <1>5, <1>7, <2>1 DEF A, was, is
<1>8. CASE ~ was /\ is
  <2>1. B = A \cup {c} /\ c \notin A
    BY <1>1, <1>2, <1>3, <1>8
  <2>2. Cardinality(B) = Cardinality(A) + 1
    BY <1>4, <2>1, FS_AddElement
  <2> QED  BY <1>4, <1>5, <1>8, <2>2 DEF A, was, is
<1>9. CASE was /\ ~ is
  <2>1. B = A \ {c} /\ c \in A
    BY <1>1, <1>2, <1>3, <1>9
  <2>2. Cardinality(B) = Cardinality(A) - 1
    BY <1>4, <2>1, FS_RemoveElement
  <2> QED  BY <1>4, <1>5, <1>9, <2>2 DEF A, was, is
<1> QED  BY <1>6, <1>7, <1>8, <1>9

LEMMA CountersKept ==
  ASSUME AccessInv, faults' \in Nat, faults <= faults',
         \A s \in Subjects :
           /\ Counting(s)' = Counting(s)
           /\ Reading(s)' \in Nat /\ Reading(s)' <= Reading(s)
           /\ \/ count'[s] = count[s] /\ tries'[s] = tries[s]
              \/ count'[s] = 0 /\ tries'[s] = 0
  PROVE  \A s \in Subjects : CounterIsSound(s)'
<1> SUFFICES ASSUME NEW s \in Subjects PROVE CounterIsSound(s)'
  OBVIOUS
<1>1. /\ Counting(s) \in Nat /\ Reading(s) \in Nat /\ Cardinality(Calls) \in Nat
  BY AtIsFinite DEF Counting, Reading
<1>2. count[s] \in Nat /\ tries[s] \in Nat /\ faults \in Nat
  BY DEF AccessInv, AccessTypeOK
<1>3. CounterIsSound(s)
  BY DEF AccessInv
<1> QED
  BY <1>1, <1>2, <1>3, AttemptsAreSeveral DEF CounterIsSound, Bound

LEMMA ReadingIsNat ==
  ASSUME NEW s
  PROVE  /\ Counting(s) \in Nat /\ Reading(s) \in Nat
         /\ Counting(s)' \in Nat /\ Reading(s)' \in Nat
<1>1. Counting(s) \in Nat /\ Reading(s) \in Nat
  BY AtIsFinite DEF Counting, Reading
<1>2. Counting(s)' \in Nat /\ Reading(s)' \in Nat
  <2>1. /\ IsFiniteSet(At("fail.incr", s)')
        /\ IsFiniteSet(At("office.read", s)')
    BY CallsAreFinite, FS_Subset DEF At
  <2> QED  BY <2>1, FS_CardinalityType DEF Counting, Reading
<1> QED  BY <1>1, <1>2

\* A call that counts no failure and was not let through moves on.
LEMMA QuietMove ==
  ASSUME AccessInv, NEW c \in Calls, NEW h, NEW a, CallMoves(c, h, a),
         h \notin {"fail.incr", "office.read"}, step[c] # "fail.incr",
         h # "idle" => a.sub \in Subjects,
         faults' \in Nat, faults <= faults',
         \A s \in Subjects : \/ count'[s] = count[s] /\ tries'[s] = tries[s]
                             \/ count'[s] = 0 /\ tries'[s] = 0
  PROVE  CallsHaveSubjects' /\ \A s \in Subjects : CounterIsSound(s)'
<1>1. CallsHaveSubjects'
  BY DEF AccessInv, CallsHaveSubjects, CallMoves, Sub
<1>2. ASSUME NEW s \in Subjects
      PROVE  /\ Counting(s)' = Counting(s)
             /\ Reading(s)' \in Nat /\ Reading(s)' <= Reading(s)
  BY AtMoves, ReadingIsNat DEF Counting, Reading
<1>3. \A s \in Subjects : CounterIsSound(s)'
  BY <1>2, CountersKept
<1> QED  BY <1>1, <1>3

LEMMA LoginGoes ==
  ASSUME AccessTypeOK, NEW c \in Calls, NEW h \in AccessSteps, Goto(c, h)
  PROVE  CallMoves(c, h, args[c])
BY DEF Goto, CallMoves, AccessTypeOK

LEMMA LoginLeaves ==
  ASSUME AccessTypeOK, NEW c \in Calls, Leave(c)
  PROVE  CallMoves(c, "idle", NoLogin)
BY NoLoginIsTyped DEF Leave, Answered, CallMoves, AccessTypeOK, AccessSteps

LEMMA LoginStarts ==
  ASSUME AccessTypeOK, NEW c \in Calls, NEW h \in AccessSteps, NEW a \in Logins,
         step' = [step EXCEPT ![c] = h], args' = [args EXCEPT ![c] = a]
  PROVE  CallMoves(c, h, a)
BY DEF CallMoves, AccessTypeOK

LEMMA LoginBeginsStep ==
  ASSUME AccessInv, NEW c \in Calls,
         \/ \E u \in Users : GoogleLogin(c, u) \/ \E p \in Secrets : Login(c, u, p)
         \/ \E s \in Offices, p \in Passwords : ChangePassword(c, s, p)
         \/ \E t \in resets, p \in Passwords : CompletePasswordReset(c, t, p)
  PROVE  AccessInv'
<1> USE DEF AccessInv
<1>1. /\ UNCHANGED <<secret, plain, google, blocked, cutoff>>
      /\ UNCHANGED <<count, ttl, faults, tries>>
      /\ UNCHANGED <<sessions, resets, closed, used, now>>
      /\ step[c] = "idle"
  BY DEF GoogleLogin, Login, ChangePassword, CompletePasswordReset,
     accountVars, redisVars, tokenVars
<1>2. \E h \in AccessSteps \ {"fail.incr", "office.read"}, a \in Logins :
        /\ step' = [step EXCEPT ![c] = h] /\ args' = [args EXCEPT ![c] = a]
        /\ a.sub \in Subjects
  <2>1. ASSUME NEW u \in Users, NEW p \in Secrets, Login(c, u, p)
        PROVE  \E h \in AccessSteps \ {"fail.incr", "office.read"}, a \in Logins :
                 /\ step' = [step EXCEPT ![c] = h]
                 /\ args' = [args EXCEPT ![c] = a] /\ a.sub \in Subjects
    <3> DEFINE a == [sub |-> u, typed |-> p, read |-> secret[u],
                     plain |-> plain[u], blocked |-> blocked[u], iat |-> 0]
    <3>1. a \in Logins /\ a.sub \in Subjects
      BY BoundsAreNaturals DEF Logins, Subjects, AccessTypeOK, Times
    <3> QED  BY <2>1, <3>1 DEF Login, AccessSteps
  <2>2. ASSUME NEW u \in Users, GoogleLogin(c, u)
        PROVE  \E h \in AccessSteps \ {"fail.incr", "office.read"}, a \in Logins :
                 /\ step' = [step EXCEPT ![c] = h]
                 /\ args' = [args EXCEPT ![c] = a] /\ a.sub \in Subjects
    <3> DEFINE a == [NoLogin EXCEPT !.sub = u, !.read = secret[u]]
    <3>1. a \in Logins /\ a.sub \in Subjects
      BY NoLoginIsTyped DEF Logins, Subjects, AccessTypeOK
    <3> QED  BY <2>2, <3>1 DEF GoogleLogin, AccessSteps
  <2>3. ASSUME NEW s \in Offices, NEW p \in Passwords, ChangePassword(c, s, p)
        PROVE  \E h \in AccessSteps \ {"fail.incr", "office.read"}, a \in Logins :
                 /\ step' = [step EXCEPT ![c] = h]
                 /\ args' = [args EXCEPT ![c] = a] /\ a.sub \in Subjects
    <3> DEFINE a == [NoLogin EXCEPT !.sub = s, !.typed = p]
    <3>1. a \in Logins /\ a.sub \in Subjects
      BY NoLoginIsTyped DEF Logins, Subjects, Secrets
    <3> QED  BY <2>3, <3>1 DEF ChangePassword, AccessSteps
  <2>4. ASSUME NEW t \in resets, NEW p \in Passwords, CompletePasswordReset(c, t, p)
        PROVE  \E h \in AccessSteps \ {"fail.incr", "office.read"}, a \in Logins :
                 /\ step' = [step EXCEPT ![c] = h]
                 /\ args' = [args EXCEPT ![c] = a] /\ a.sub \in Subjects
    <3> DEFINE a == [NoLogin EXCEPT !.sub = t.sub, !.typed = p, !.iat = t.iat]
    <3>1. t \in Tokens
      BY DEF AccessTypeOK
    <3>2. a \in Logins /\ a.sub \in Subjects
      BY <3>1, NoLoginIsTyped DEF Logins, Secrets, Tokens
    <3> QED  BY <2>4, <3>2 DEF CompletePasswordReset, AccessSteps
  <2> QED  BY <2>1, <2>2, <2>3, <2>4
<1>3. PICK h \in AccessSteps \ {"fail.incr", "office.read"}, a \in Logins :
        /\ step' = [step EXCEPT ![c] = h] /\ args' = [args EXCEPT ![c] = a]
        /\ a.sub \in Subjects
  BY <1>2
<1>4. CallMoves(c, h, a)
  BY <1>3, LoginStarts
<1>5. CallsHaveSubjects' /\ \A s \in Subjects : CounterIsSound(s)'
  BY <1>1, <1>3, <1>4, QuietMove DEF AccessTypeOK
<1>6. AccessTypeOK'
  BY <1>1, <1>4 DEF AccessTypeOK, CallMoves
<1>7. CutoffsAreSound'
  BY <1>1 DEF CutoffsAreSound
<1> QED  BY <1>5, <1>6, <1>7

\* Who is let through saw the counter below the limit, or a fault.
LEMMA MayTryFacts ==
  ASSUME AccessInv, NEW s \in Subjects, MayTry(s)
  PROVE  /\ faults' \in 0..MaxFaults /\ faults' \in Nat /\ faults \in Nat
         /\ \/ faults' = faults /\ count[s] <= MaxAttempts - 1
            \/ faults' = faults + 1
<1>1. count[s] \in Nat /\ faults \in 0..MaxFaults
  BY DEF AccessInv, AccessTypeOK
<1> QED  BY <1>1, AttemptsAreSeveral, BoundsAreNaturals DEF MayTry, Locked, RedisFails

LEMMA OfficeLoginStep ==
  ASSUME AccessInv, NEW c \in Calls, NEW s \in Offices, NEW p \in Secrets,
         OfficeLogin(c, s, p)
  PROVE  AccessInv'
<1> USE DEF AccessInv
<1> DEFINE a == [NoLogin EXCEPT !.sub = s, !.typed = p]
<1>1. /\ UNCHANGED <<secret, plain, google, blocked, cutoff>>
      /\ UNCHANGED <<count, ttl, tries>>
      /\ UNCHANGED <<sessions, resets, closed, used, now>>
      /\ step[c] = "idle" /\ MayTry(s)
  BY DEF OfficeLogin, accountVars, tokenVars
<1>2. s \in Subjects /\ a \in Logins /\ a.sub = s
  BY NoLoginIsTyped DEF Logins, Subjects, Secrets
<1>3. CallMoves(c, "office.read", a)
  BY <1>2, LoginStarts DEF OfficeLogin, AccessSteps
<1> HIDE DEF a
<1>4. /\ faults' \in 0..MaxFaults /\ faults' \in Nat /\ faults \in Nat
      /\ \/ faults' = faults /\ count[s] <= MaxAttempts - 1
         \/ faults' = faults + 1
  BY <1>1, <1>2, MayTryFacts
<1>5. ASSUME NEW r \in Subjects PROVE CounterIsSound(r)'
  <2>1. /\ Counting(r)' = Counting(r)
        /\ Reading(r)' = Reading(r) + (IF r = s THEN 1 ELSE 0)
    BY <1>1, <1>2, <1>3, AtMoves, ReadingIsNat DEF Counting, Reading
  <2>2. /\ Counting(r) \in Nat /\ Reading(r) \in Nat
        /\ Cardinality(Calls) \in Nat
        /\ Counting(r) + Reading(r) + 1 <= Cardinality(Calls)
    BY <1>1, ReadingIsNat, AtIsFinite, RoomForOne
  <2>3. count[r] \in Nat /\ tries[r] \in Nat /\ CounterIsSound(r)
    BY DEF AccessTypeOK
  <2> QED
    BY <1>1, <1>4, <2>1, <2>2, <2>3, AttemptsAreSeveral DEF CounterIsSound, Bound
<1>6. AccessTypeOK'
  BY <1>1, <1>3, <1>4 DEF AccessTypeOK, CallMoves
<1>7. CallsHaveSubjects'
  BY <1>2, <1>3 DEF CallsHaveSubjects, CallMoves, Sub
<1>8. CutoffsAreSound'
  BY <1>1 DEF CutoffsAreSound
<1> QED  BY <1>5, <1>6, <1>7, <1>8

\* A wrong password is compared, and will be counted.
LEMMA WrongStep ==
  ASSUME AccessInv, NEW c \in Calls, NEW s \in Subjects, s = Sub(c),
         \/ step[c] = "login.allowed" /\ MayTry(s)
         \/ step[c] = "office.read" /\ faults' = faults,
         AfterWrong(c),
         UNCHANGED <<secret, plain, google, blocked, cutoff>>,
         UNCHANGED <<count, ttl, sessions, resets, closed, used, now>>
  PROVE  AccessInv'
<1> USE DEF AccessInv
<1>1. /\ CallMoves(c, "fail.incr", args[c]) /\ args[c].sub = s
      /\ tries' = [tries EXCEPT ![s] = IF @ < MaxCount THEN @ + 1 ELSE @]
  BY LoginGoes DEF AfterWrong, NoteTry, AccessSteps, Sub
<1>2. /\ faults' \in 0..MaxFaults /\ faults' \in Nat /\ faults \in Nat
      /\ step[c] = "login.allowed" =>
           \/ faults' = faults /\ count[s] <= MaxAttempts - 1
           \/ faults' = faults + 1
      /\ step[c] # "login.allowed" => faults' = faults
  BY MayTryFacts DEF AccessTypeOK
<1>3. /\ Cardinality(Calls) \in Nat /\ MaxCount \in Nat
      /\ \A r \in Subjects : tries[r] \in 0..MaxCount
  BY AtIsFinite, AttemptsAreSeveral, BoundsAreNaturals DEF MaxCount, AccessTypeOK
<1>4. /\ tries' \in [Subjects -> 0..MaxCount]
      /\ tries'[s] \in Nat /\ tries'[s] <= tries[s] + 1
      /\ \A r \in Subjects \ {s} : tries'[r] = tries[r]
  BY <1>1, <1>3 DEF AccessTypeOK
<1>5. ASSUME NEW r \in Subjects PROVE CounterIsSound(r)'
  <2>1. /\ Counting(r)' = Counting(r) + (IF r = s THEN 1 ELSE 0)
        /\ Reading(r)' = Reading(r)
             - (IF step[c] = "office.read" /\ r = s THEN 1 ELSE 0)
    BY <1>1, AtMoves, ReadingIsNat DEF Counting, Reading
  <2>2. /\ Counting(r) \in Nat /\ Reading(r) \in Nat
        /\ step[c] = "login.allowed" =>
             Counting(r) + Reading(r) + 1 <= Cardinality(Calls)
    BY ReadingIsNat, RoomForOne
  <2>3. count[r] \in Nat /\ tries[r] \in Nat /\ CounterIsSound(r)
    BY <1>3 DEF AccessTypeOK
  <2>4. /\ tries[r] <= count[r] + Counting(r) + faults
        /\ tries[r] + Reading(r) <= MaxAttempts - 1 + Cardinality(Calls) + faults
        /\ count[r] + Counting(r) + Reading(r)
             <= MaxAttempts - 1 + Cardinality(Calls) + faults
    BY <2>3 DEF CounterIsSound, Bound
  <2>5. SUFFICES
          /\ tries'[r] <= count[r] + Counting(r)' + faults'
          /\ tries'[r] + Reading(r)' <= MaxAttempts - 1 + Cardinality(Calls) + faults'
          /\ count[r] + Counting(r)' + Reading(r)'
               <= MaxAttempts - 1 + Cardinality(Calls) + faults'
    BY DEF CounterIsSound, Bound
  <2>6. CASE r # s
    BY <1>2, <1>3, <1>4, <2>1, <2>2, <2>3, <2>4, <2>6, AttemptsAreSeveral
  <2>7. CASE r = s
    BY <1>2, <1>3, <1>4, <2>1, <2>2, <2>3, <2>4, <2>7, AttemptsAreSeveral
  <2> QED  BY <2>6, <2>7
<1>6. AccessTypeOK'
  BY <1>1, <1>2, <1>4 DEF AccessTypeOK, CallMoves
<1>7. CallsHaveSubjects'
  BY <1>1 DEF CallsHaveSubjects, CallMoves, Sub
<1>8. CutoffsAreSound'
  BY DEF CutoffsAreSound
<1> QED  BY <1>5, <1>6, <1>7, <1>8

\* The steps of a login that compare nothing wrong and count nothing: the
\* counter may be forgotten, and the account changes elsewhere.
LEMMA OtherLoginStep ==
  ASSUME AccessInv, NEW c \in Calls, NEW h, NEW a, CallMoves(c, h, a),
         h \notin {"fail.incr", "office.read"}, step[c] # "fail.incr",
         h # "idle" => a.sub \in Subjects,
         faults' \in 0..MaxFaults, faults <= faults',
         \/ UNCHANGED <<count, ttl, tries>>
         \/ UNCHANGED <<count, tries>> /\ \E x \in BOOLEAN :
              ttl' = [ttl EXCEPT ![Sub(c)] = x]
         \/ Forget(Sub(c)),
         secret' \in [Subjects -> Secrets], plain' \in [Subjects -> BOOLEAN],
         google' \in [Subjects -> BOOLEAN], blocked' = blocked,
         cutoff' \in [Subjects -> Times \cup {None}],
         sessions' \subseteq Tokens, resets' = resets, now' = now,
         closed' \subseteq Tokens \X Times, used' \subseteq Tokens \X Times,
         CutoffsAreSound'
  PROVE  AccessInv'
<1> USE DEF AccessInv
<1>1. faults' \in Nat /\ faults \in Nat
  BY BoundsAreNaturals DEF AccessTypeOK
<1>2. \A s \in Subjects : \/ count'[s] = count[s] /\ tries'[s] = tries[s]
                          \/ count'[s] = 0 /\ tries'[s] = 0
  BY DEF Forget, AccessTypeOK
<1>3. CallsHaveSubjects' /\ \A s \in Subjects : CounterIsSound(s)'
  BY <1>1, <1>2, QuietMove
<1>4. /\ count' \in [Subjects -> 0..MaxCount] /\ tries' \in [Subjects -> 0..MaxCount]
      /\ ttl' \in [Subjects -> BOOLEAN]
  <2>1. 0 \in 0..MaxCount
    BY AtIsFinite, AttemptsAreSeveral, BoundsAreNaturals DEF MaxCount
  <2>2. /\ count \in [Subjects -> 0..MaxCount] /\ tries \in [Subjects -> 0..MaxCount]
        /\ ttl \in [Subjects -> BOOLEAN]
    BY DEF AccessTypeOK
  <2>3. CASE Forget(Sub(c))
    BY <2>1, <2>2, <2>3 DEF Forget
  <2>4. CASE \E x \in BOOLEAN : ttl' = [ttl EXCEPT ![Sub(c)] = x]
    BY <2>2, <2>3, <2>4
  <2> QED  BY <2>2, <2>3, <2>4
<1>5. AccessTypeOK'
  BY <1>4 DEF AccessTypeOK, CallMoves
<1> QED  BY <1>3, <1>5

LEMMA CheckPasswordStep ==
  ASSUME AccessInv, NEW c \in Calls, CheckPassword(c)
  PROVE  AccessInv'
<1> USE DEF AccessInv
<1>1. /\ UNCHANGED <<secret, plain, google, blocked, cutoff, count, ttl>>
      /\ UNCHANGED <<sessions, resets, closed, used, now>>
      /\ step[c] = "login.allowed" /\ Sub(c) \in Subjects
  BY DEF CheckPassword, accountVars, tokenVars, CallsHaveSubjects
<1>2. CASE MayTry(Sub(c)) /\ AfterWrong(c)
  BY <1>1, <1>2, WrongStep
<1>3. CASE UNCHANGED tries /\ (\/ MayTry(Sub(c)) /\ (Leave(c) \/ Goto(c, "login.reset"))
                               \/ Leave(c) /\ UNCHANGED faults)
  <2>1. faults' \in 0..MaxFaults /\ faults <= faults'
    BY <1>1, <1>3, MayTryFacts DEF AccessTypeOK
  <2>2. CutoffsAreSound'
    BY <1>1 DEF CutoffsAreSound
  <2>3. CASE Goto(c, "login.reset")
    <3>1. CallMoves(c, "login.reset", args[c]) /\ args[c].sub \in Subjects
      BY <1>1, <2>3, LoginGoes DEF AccessSteps, Sub
    <3> QED
      BY <1>1, <1>3, <2>1, <2>2, <3>1, OtherLoginStep DEF AccessTypeOK
  <2>4. CASE Leave(c)
    BY <1>1, <1>3, <2>1, <2>2, <2>4, LoginLeaves, OtherLoginStep DEF AccessTypeOK
  <2> QED  BY <1>3, <2>3, <2>4
<1> QED  BY <1>2, <1>3 DEF CheckPassword

LEMMA OfficeCheckStep ==
  ASSUME AccessInv, NEW c \in Calls, OfficeCheck(c)
  PROVE  AccessInv'
<1> USE DEF AccessInv
<1>1. /\ UNCHANGED <<secret, plain, google, blocked, cutoff, count, ttl, faults>>
      /\ UNCHANGED <<sessions, resets, closed, used, now>>
      /\ step[c] = "office.read" /\ Sub(c) \in Subjects
  BY DEF OfficeCheck, accountVars, tokenVars, CallsHaveSubjects
<1>2. CASE AfterWrong(c)
  BY <1>1, <1>2, WrongStep
<1>3. CASE UNCHANGED tries /\ (Leave(c) \/ Goto(c, "login.reset"))
  <2>1. faults' \in 0..MaxFaults /\ faults <= faults'
    BY <1>1 DEF AccessTypeOK
  <2>2. CutoffsAreSound'
    BY <1>1 DEF CutoffsAreSound
  <2>3. CASE Goto(c, "login.reset")
    <3>1. CallMoves(c, "login.reset", args[c]) /\ args[c].sub \in Subjects
      BY <1>1, <2>3, LoginGoes DEF AccessSteps, Sub
    <3> QED
      BY <1>1, <1>3, <2>1, <2>2, <3>1, OtherLoginStep DEF AccessTypeOK
  <2>4. CASE Leave(c)
    BY <1>1, <1>3, <2>1, <2>2, <2>4, LoginLeaves, OtherLoginStep DEF AccessTypeOK
  <2> QED  BY <1>3, <2>3, <2>4
<1> QED  BY <1>2, <1>3 DEF OfficeCheck

\* A failure is counted, or the command fails.
LEMMA FailIncrStep ==
  ASSUME AccessInv, NEW c \in Calls, FailIncr(c)
  PROVE  AccessInv'
<1> USE DEF AccessInv
<1> DEFINE s == Sub(c)
<1>1. /\ UNCHANGED <<secret, plain, google, blocked, cutoff, ttl, tries>>
      /\ UNCHANGED <<sessions, resets, closed, used, now>>
      /\ step[c] = "fail.incr" /\ s \in Subjects
  BY DEF FailIncr, accountVars, tokenVars, CallsHaveSubjects
<1>2. PICK h \in {"idle", "fail.expire"}, a \in Logins :
        CallMoves(c, h, a) /\ (h # "idle" => a.sub \in Subjects)
  <2>1. Goto(c, "fail.expire") => CallMoves(c, "fail.expire", args[c])
    BY LoginGoes DEF AccessSteps
  <2>2. Leave(c) => CallMoves(c, "idle", NoLogin)
    BY LoginLeaves
  <2>3. args[c] \in Logins /\ args[c].sub \in Subjects
    BY <1>1 DEF AccessTypeOK, Sub
  <2> QED  BY <2>1, <2>2, <2>3, NoLoginIsTyped DEF FailIncr
<1>3. \/ count' = [count EXCEPT ![s] = @ + 1] /\ faults' = faults
      \/ count' = count /\ faults' = faults + 1 /\ faults < MaxFaults
  BY DEF FailIncr, RedisFails
<1> HIDE DEF s
<1>4. /\ count'[s] + faults' = count[s] + faults + 1
      /\ faults' \in 0..MaxFaults /\ faults \in Nat /\ faults' \in Nat
      /\ faults <= faults' /\ count'[s] <= count[s] + 1 /\ count'[s] \in Nat
      /\ \A r \in Subjects \ {s} : count'[r] = count[r]
  BY <1>1, <1>3, BoundsAreNaturals DEF AccessTypeOK
<1>5. \A r \in Subjects :
        /\ Counting(r)' = Counting(r) - (IF r = s THEN 1 ELSE 0)
        /\ Reading(r)' = Reading(r)
        /\ Counting(r) \in Nat /\ Reading(r) \in Nat
        /\ Counting(r)' \in Nat /\ Cardinality(Calls) \in Nat
  BY <1>1, <1>2, AtMoves, ReadingIsNat, AtIsFinite DEF Counting, Reading, s
<1>6. ASSUME NEW r \in Subjects PROVE CounterIsSound(r)'
  <2>1. count[r] \in Nat /\ tries[r] \in Nat /\ CounterIsSound(r)
    BY DEF AccessTypeOK
  <2>2. CASE r = s
    BY <1>1, <1>3, <1>4, <1>5, <2>1, <2>2, AttemptsAreSeveral DEF CounterIsSound, Bound
  <2>3. CASE r # s
    BY <1>1, <1>4, <1>5, <2>1, <2>3, AttemptsAreSeveral DEF CounterIsSound, Bound
  <2> QED  BY <2>2, <2>3
<1>7. count' \in [Subjects -> 0..MaxCount]
  <2>1. \A r \in Subjects : count'[r] <= MaxCount
    <3> SUFFICES ASSUME NEW r \in Subjects PROVE count'[r] <= MaxCount
      OBVIOUS
    <3>1. count'[r] \in Nat
      BY <1>1, <1>3, <1>4 DEF AccessTypeOK
    <3>2. CounterIsSound(r)' /\ Counting(r)' \in Nat /\ Reading(r)' \in Nat
      BY <1>5, <1>6
    <3>3. count'[r] <= MaxAttempts - 1 + Cardinality(Calls) + faults'
      BY <1>4, <1>5, <3>1, <3>2, AttemptsAreSeveral DEF CounterIsSound, Bound
    <3> QED
      BY <1>4, <1>5, <3>1, <3>3, AttemptsAreSeveral, BoundsAreNaturals DEF MaxCount
  <2>2. MaxCount \in Nat
    BY AtIsFinite, AttemptsAreSeveral, BoundsAreNaturals DEF MaxCount
  <2> QED  BY <1>1, <1>3, <1>4, <2>1, <2>2 DEF AccessTypeOK
<1>8. AccessTypeOK'
  BY <1>1, <1>2, <1>4, <1>7 DEF AccessTypeOK, CallMoves
<1>9. CallsHaveSubjects'
  BY <1>2 DEF CallsHaveSubjects, CallMoves, Sub
<1>10. CutoffsAreSound'
  BY <1>1 DEF CutoffsAreSound
<1> QED  BY <1>6, <1>8, <1>9, <1>10

\* The steps of a login that leave the dates of closing alone.
LEMMA PlainLoginSteps ==
  ASSUME AccessInv, NEW c \in Calls,
         \/ FailExpire(c) \/ LoginReset(c) \/ LoginRehash(c) \/ IssueSession(c)
         \/ ResetClear(c) \/ ChangeWrite(c)
  PROVE  AccessInv'
<1> USE DEF AccessInv
<1> DEFINE s == Sub(c)
<1>1. /\ UNCHANGED <<google, blocked, cutoff, resets, closed, used, now>>
      /\ step[c] \in {"fail.expire", "login.reset", "login.rehash",
                      "login.token", "reset.clear", "change.write"}
      /\ s \in Subjects
  BY DEF FailExpire, LoginReset, LoginRehash, IssueSession, ResetClear,
     ChangeWrite, accountVars, tokenVars, redisVars, Issue, CallsHaveSubjects
<1>2. /\ secret' \in [Subjects -> Secrets] /\ plain' \in [Subjects -> BOOLEAN]
      /\ sessions' \subseteq Tokens
  <2>1. args[c].typed \in Secrets /\ [sub |-> s, iat |-> now] \in Tokens
    BY <1>1 DEF AccessTypeOK, Logins, Tokens
  <2> QED
    BY <1>1, <2>1 DEF FailExpire, LoginReset, LoginRehash, IssueSession, ResetClear,
       ChangeWrite, accountVars, tokenVars, Issue, AccessTypeOK
<1>3. /\ faults' \in 0..MaxFaults /\ faults <= faults'
      /\ \/ UNCHANGED <<count, ttl, tries>>
         \/ UNCHANGED <<count, tries>> /\ \E x \in BOOLEAN :
              ttl' = [ttl EXCEPT ![s] = x]
         \/ Forget(s)
  <2>1. faults \in 0..MaxFaults /\ (count[s] > 0) \in BOOLEAN
    BY DEF AccessTypeOK
  <2>2. CASE LoginRehash(c) \/ IssueSession(c) \/ ChangeWrite(c)
    BY <2>1, <2>2 DEF LoginRehash, IssueSession, ChangeWrite, redisVars
  <2>3. CASE LoginReset(c) \/ ResetClear(c)
    BY <2>1, <2>3, BoundsAreNaturals DEF LoginReset, ResetClear, RedisFails
  <2>4. CASE FailExpire(c)
    <3>1. CASE ttl' = [ttl EXCEPT ![s] = count[s] > 0] /\ UNCHANGED <<faults, count, tries>>
      <4> DEFINE x == count[s] > 0
      <4>1. x \in BOOLEAN /\ ttl' = [ttl EXCEPT ![s] = x]
        BY <3>1
      <4>2. faults' \in 0..MaxFaults /\ faults <= faults'
        BY <2>1, <3>1, BoundsAreNaturals
      <4> HIDE DEF x
      <4> QED  BY <3>1, <4>1, <4>2
    <3>2. CASE RedisFails /\ UNCHANGED <<ttl, count, tries>>
      BY <2>1, <3>2, BoundsAreNaturals DEF RedisFails
    <3> QED  BY <2>4, <3>1, <3>2 DEF FailExpire
  <2> QED  BY <2>2, <2>3, <2>4
<1>4. PICK h \in {"idle", "login.rehash", "login.token"}, a \in Logins :
        CallMoves(c, h, a) /\ (h # "idle" => a.sub \in Subjects)
  <2>1. /\ Goto(c, "login.rehash") => CallMoves(c, "login.rehash", args[c])
        /\ Goto(c, "login.token") => CallMoves(c, "login.token", args[c])
    BY LoginGoes DEF AccessSteps
  <2>2. Leave(c) => CallMoves(c, "idle", NoLogin)
    BY LoginLeaves
  <2>3. args[c] \in Logins /\ args[c].sub \in Subjects
    BY <1>1 DEF AccessTypeOK, Sub
  <2>4. Leave(c) \/ Goto(c, "login.rehash") \/ Goto(c, "login.token")
    BY DEF FailExpire, LoginReset, LoginRehash, IssueSession, ResetClear, ChangeWrite
  <2> QED  BY <2>1, <2>2, <2>3, <2>4, NoLoginIsTyped
<1>5. CutoffsAreSound'
  BY <1>1 DEF CutoffsAreSound
<1> QED
  BY <1>1, <1>2, <1>3, <1>4, <1>5, OtherLoginStep DEF AccessTypeOK

\* Closing moves the date forward, past everything of the account's.
LEMMA ClosingIsSound ==
  ASSUME AccessInv, NEW u \in Subjects, CloseSessions(u), now' = now,
         \/ used' = used
         \/ \E i \in Times : used' = used \cup {<<[sub |-> u, iat |-> i], now>>}
  PROVE  /\ CutoffsAreSound' /\ cutoff' \in [Subjects -> Times \cup {None}]
         /\ closed' \subseteq Tokens \X Times /\ used' \subseteq Tokens \X Times
<1> USE DEF AccessInv
<1>1. /\ cutoff' = [cutoff EXCEPT ![u] = now]
      /\ closed' = closed \cup {<<t, now>> : t \in {x \in sessions : x.sub = u}}
      /\ now \in Times /\ now \in Nat /\ now # None
  BY BoundsAreNaturals, NoneIsNobody DEF CloseSessions, NoteClosed, AccessTypeOK, Times
<1>2. /\ closed' \subseteq Tokens \X Times /\ used' \subseteq Tokens \X Times
      /\ cutoff' \in [Subjects -> Times \cup {None}]
  BY <1>1 DEF AccessTypeOK, Tokens
<1>3. cutoff'[u] = now /\ \A s \in Subjects \ {u} : cutoff'[s] = cutoff[s]
  BY <1>1 DEF AccessTypeOK
<1>4. \A s \in Subjects : cutoff'[s] # None => cutoff'[s] <= now
  BY <1>1, <1>3 DEF CutoffsAreSound
<1>5. ASSUME NEW x \in closed' \cup used'
      PROVE  cutoff'[x[1].sub] # None /\ x[2] <= cutoff'[x[1].sub]
  <2>1. x[1].sub \in Subjects /\ x[2] \in Times /\ x[2] \in Nat
    BY <1>2, BoundsAreNaturals DEF Tokens, Times
  <2>2. CASE x \in closed \cup used
    <3>1. cutoff[x[1].sub] # None /\ x[2] <= cutoff[x[1].sub]
      BY <2>2 DEF CutoffsAreSound
    <3>2. CASE x[1].sub = u
      <4>1. cutoff[u] \in Nat /\ cutoff[u] <= now /\ x[2] <= cutoff[u]
        BY <3>1, <3>2, BoundsAreNaturals DEF CutoffsAreSound, AccessTypeOK, Times
      <4> QED  BY <1>1, <1>3, <2>1, <3>2, <4>1
    <3> QED  BY <1>3, <2>1, <3>1, <3>2
  <2>3. CASE x \notin closed \cup used
    <3>1. x[1].sub = u /\ x[2] = now
      BY <1>1, <2>3
    <3> QED  BY <1>1, <1>3, <3>1
  <2> QED  BY <2>2, <2>3
<1> QED  BY <1>2, <1>4, <1>5 DEF CutoffsAreSound

LEMMA GoogleLinkStep ==
  ASSUME AccessInv, NEW c \in Calls, GoogleLink(c)
  PROVE  AccessInv'
<1> USE DEF AccessInv
<1> DEFINE u == Sub(c)
<1>1. /\ UNCHANGED <<blocked, count, ttl, faults, tries, sessions, resets, used, now>>
      /\ step[c] = "google.link" /\ u \in Subjects /\ Goto(c, "login.token")
      /\ google' = [google EXCEPT ![u] = TRUE]
  BY DEF GoogleLink, redisVars, CallsHaveSubjects
<1>2. CallMoves(c, "login.token", args[c]) /\ args[c].sub \in Subjects
  BY <1>1, LoginGoes DEF AccessSteps, Sub
<1>3. /\ secret' \in [Subjects -> Secrets] /\ plain' \in [Subjects -> BOOLEAN]
      /\ google' \in [Subjects -> BOOLEAN]
  BY <1>1 DEF GoogleLink, AccessTypeOK, Secrets
<1>4. /\ CutoffsAreSound' /\ cutoff' \in [Subjects -> Times \cup {None}]
      /\ closed' \subseteq Tokens \X Times /\ used' \subseteq Tokens \X Times
  <2>1. CASE CloseSessions(u)
    BY <1>1, <2>1, ClosingIsSound
  <2>2. CASE UNCHANGED <<cutoff, closed>>
    BY <1>1, <2>2 DEF CutoffsAreSound, AccessTypeOK
  <2> QED  BY <2>1, <2>2 DEF GoogleLink
<1> QED  BY <1>1, <1>2, <1>3, <1>4, OtherLoginStep DEF AccessTypeOK

LEMMA ResetWriteStep ==
  ASSUME AccessInv, NEW c \in Calls, ResetWrite(c)
  PROVE  AccessInv'
<1> USE DEF AccessInv
<1> DEFINE u == Sub(c)
<1>1. /\ UNCHANGED <<blocked, count, ttl, faults, tries, sessions, resets, now>>
      /\ step[c] = "reset.write" /\ u \in Subjects /\ Goto(c, "reset.clear")
      /\ CloseSessions(u)
      /\ used' = used \cup {<<[sub |-> u, iat |-> args[c].iat], now>>}
  BY DEF ResetWrite, redisVars, CallsHaveSubjects
<1>2. CallMoves(c, "reset.clear", args[c]) /\ args[c].sub \in Subjects
  BY <1>1, LoginGoes DEF AccessSteps, Sub
<1>3. args[c].typed \in Secrets /\ args[c].iat \in Times
  BY DEF AccessTypeOK, Logins
<1>4. /\ secret' \in [Subjects -> Secrets] /\ plain' \in [Subjects -> BOOLEAN]
      /\ google' \in [Subjects -> BOOLEAN]
  BY <1>1, <1>3 DEF ResetWrite, AccessTypeOK
<1>5. /\ CutoffsAreSound' /\ cutoff' \in [Subjects -> Times \cup {None}]
      /\ closed' \subseteq Tokens \X Times /\ used' \subseteq Tokens \X Times
  BY <1>1, <1>3, ClosingIsSound
<1> QED  BY <1>1, <1>2, <1>4, <1>5, OtherLoginStep DEF AccessTypeOK

LEMMA CounterExpiresStep ==
  ASSUME AccessInv, NEW r \in Subjects, CounterExpires(r)
  PROVE  AccessInv'
<1> USE DEF AccessInv
<1>1. /\ UNCHANGED <<secret, plain, google, blocked, cutoff, faults>>
      /\ UNCHANGED <<sessions, resets, closed, used, step, args, now>>
      /\ Forget(r)
  BY DEF CounterExpires, accountVars, tokenVars, callVars
<1>2. /\ count' \in [Subjects -> 0..MaxCount] /\ tries' \in [Subjects -> 0..MaxCount]
      /\ ttl' \in [Subjects -> BOOLEAN]
  <2>1. 0 \in 0..MaxCount
    BY AtIsFinite, AttemptsAreSeveral, BoundsAreNaturals DEF MaxCount
  <2> QED  BY <1>1, <2>1 DEF Forget, AccessTypeOK
<1>3. \A s \in Subjects : CounterIsSound(s)'
  <2>1. \A s \in Subjects :
          /\ Counting(s)' = Counting(s) /\ Reading(s)' = Reading(s)
          /\ \/ count'[s] = count[s] /\ tries'[s] = tries[s]
             \/ count'[s] = 0 /\ tries'[s] = 0
    BY <1>1 DEF Counting, Reading, At, Sub, Forget, AccessTypeOK
  <2>2. \A s \in Subjects : Reading(s)' \in Nat /\ Reading(s)' <= Reading(s)
    BY <2>1, ReadingIsNat
  <2>3. faults' \in Nat /\ faults <= faults'
    BY <1>1, BoundsAreNaturals DEF AccessTypeOK
  <2> QED  BY <2>1, <2>2, <2>3, CountersKept
<1>4. AccessTypeOK'
  BY <1>1, <1>2 DEF AccessTypeOK
<1>5. CallsHaveSubjects' /\ CutoffsAreSound'
  BY <1>1 DEF CallsHaveSubjects, CutoffsAreSound, Sub
<1> QED  BY <1>3, <1>4, <1>5

LEMMA ElsewhereStep ==
  ASSUME AccessInv, Environment \/ UNCHANGED accessVars
  PROVE  AccessInv'
<1> USE DEF AccessInv
<1>1. /\ UNCHANGED <<cutoff, count, ttl, faults, tries, closed, used, step, args>>
      /\ now' \in Times /\ now' >= now
  BY BoundsAreNaturals DEF Environment, StartPasswordReset, SetPassword,
     ResetExpires, Block, Tick, accessVars, accountVars, redisVars, tokenVars,
     callVars, AccessTypeOK, Times
<1>2. /\ secret' \in [Subjects -> Secrets] /\ plain' \in [Subjects -> BOOLEAN]
      /\ google' \in [Subjects -> BOOLEAN] /\ blocked' \in [Subjects -> BOOLEAN]
      /\ sessions' \subseteq Tokens /\ resets' \subseteq Tokens
  <2>1. CASE \E u \in Users : StartPasswordReset(u)
    BY <2>1 DEF StartPasswordReset, accountVars, AccessTypeOK, Tokens, Subjects
  <2>2. CASE \E u \in Users, p \in Passwords : SetPassword(u, p)
    BY <2>2 DEF SetPassword, tokenVars, AccessTypeOK, Secrets
  <2>3. CASE \E t \in resets : ResetExpires(t)
    BY <2>3 DEF ResetExpires, accountVars, AccessTypeOK
  <2>4. CASE \E s \in Subjects : Block(s)
    BY <2>4 DEF Block, tokenVars, AccessTypeOK
  <2>5. CASE Tick \/ UNCHANGED accessVars
    BY <2>5 DEF Tick, accessVars, accountVars, tokenVars, AccessTypeOK
  <2> QED  BY <2>1, <2>2, <2>3, <2>4, <2>5 DEF Environment
<1>3. \A s \in Subjects : CounterIsSound(s)'
  BY <1>1 DEF CounterIsSound, Bound, Counting, Reading, At, Sub
<1>4. AccessTypeOK'
  BY <1>1, <1>2 DEF AccessTypeOK
<1>5. CallsHaveSubjects'
  BY <1>1 DEF CallsHaveSubjects, Sub
<1>6. CutoffsAreSound'
  <2>1. \A s \in Subjects : cutoff'[s] # None => cutoff'[s] <= now'
    <3>1. ASSUME NEW s \in Subjects, cutoff[s] # None PROVE cutoff[s] <= now'
      <4>1. cutoff[s] \in Nat /\ cutoff[s] <= now /\ now \in Nat /\ now' \in Nat
        BY <1>1, <3>1, BoundsAreNaturals DEF CutoffsAreSound, AccessTypeOK, Times
      <4> QED  BY <1>1, <4>1
    <3> QED  BY <1>1, <3>1
  <2> QED  BY <1>1, <2>1 DEF CutoffsAreSound
<1> QED  BY <1>3, <1>4, <1>5, <1>6

LEMMA AccessStep == AccessInv /\ [AccessNext]_accessVars => AccessInv'
<1> SUFFICES ASSUME AccessInv, [AccessNext]_accessVars PROVE AccessInv'
  OBVIOUS
<1>1. ASSUME NEW c \in Calls, LoginBegins(c) PROVE AccessInv'
  BY <1>1, LoginBeginsStep, OfficeLoginStep DEF LoginBegins
<1>2. ASSUME NEW c \in Calls, LoginContinues(c) PROVE AccessInv'
  BY <1>2, FailIncrStep, CheckPasswordStep, OfficeCheckStep, PlainLoginSteps,
     GoogleLinkStep, ResetWriteStep DEF LoginContinues
<1>3. CASE Environment \/ UNCHANGED accessVars
  BY <1>3, ElsewhereStep
<1>4. CASE Expiry
  BY <1>4, CounterExpiresStep DEF Expiry
<1> QED  BY <1>1, <1>2, <1>3, <1>4 DEF AccessNext

LEMMA AccessStarts == AccessInit => AccessInv
<1> SUFFICES ASSUME AccessInit PROVE AccessInv
  OBVIOUS
<1> USE DEF AccessInit
<1>1. 0 \in 0..MaxCount /\ 0 \in Times /\ 0 \in 0..MaxFaults
  BY AtIsFinite, AttemptsAreSeveral, BoundsAreNaturals DEF MaxCount, Times
<1>2. AccessTypeOK
  BY <1>1, NoLoginIsTyped DEF AccessTypeOK, Secrets, AccessSteps
<1>3. CallsHaveSubjects
  BY DEF CallsHaveSubjects
<1>4. ASSUME NEW s \in Subjects PROVE CounterIsSound(s)
  <2>1. At("fail.incr", s) = {} /\ At("office.read", s) = {}
    BY DEF At
  <2>2. Counting(s) = 0 /\ Reading(s) = 0
    BY <2>1, FS_EmptySet DEF Counting, Reading
  <2> QED
    BY <2>2, AtIsFinite, AttemptsAreSeveral DEF CounterIsSound, Bound
<1>5. CutoffsAreSound
  BY DEF CutoffsAreSound
<1> QED  BY <1>2, <1>3, <1>4, <1>5 DEF AccessInv

LEMMA AccessInvariance == AccessSpec => []AccessInv
<1> QED  BY AccessStarts, AccessStep, PTL DEF AccessSpec

-----------------------------------------------------------------------------
(* What follows                                                            *)

\* What the rows, the keys of Redis, the tokens and the calls hold is what
\* the code writes there, and the counter never passes what the limit, the
\* calls in flight and the faults of Redis add up to (login-attempts.service.ts).
THEOREM AccessTypeCorrect == AccessSpec => []AccessTypeOK
<1>1. AccessInv => AccessTypeOK
  BY DEF AccessInv
<1> QED  BY <1>1, AccessInvariance, PTL

\* In a window no more wrong passwords are compared than MaxAttempts - 1, one
\* for each call and one for each fault of Redis (assertAllowed,
\* recordFailure).
THEOREM GuessesStayBounded == AccessSpec => []GuessesAreBounded
<1>1. AccessInv => GuessesAreBounded
  <2> SUFFICES ASSUME AccessInv, NEW s \in Subjects
               PROVE tries[s] <= MaxAttempts - 1 + Cardinality(Calls) + faults
    BY DEF GuessesAreBounded
  <2>1. /\ tries[s] + Reading(s) <= MaxAttempts - 1 + Cardinality(Calls) + faults
        /\ tries[s] \in Nat /\ faults \in Nat
    BY BoundsAreNaturals DEF AccessInv, AccessTypeOK, CounterIsSound, Bound
  <2> QED  BY <2>1, ReadingIsNat, AtIsFinite, AttemptsAreSeveral
<1> QED  BY <1>1, AccessInvariance, PTL

\* What was closed is not accepted again: the date of closing only moves
\* forward (issuedBeforeRevocation).
THEOREM ClosedSessionsStayClosed == AccessSpec => []ClosedStayClosed
<1>1. AccessInv => ClosedStayClosed
  <2> SUFFICES ASSUME AccessInv, NEW x \in closed, Accepted(x[1])
               PROVE x[1].iat >= x[2]
    BY DEF ClosedStayClosed
  <2>1. /\ cutoff[x[1].sub] # None /\ x[2] <= cutoff[x[1].sub]
        /\ x[1].sub \in Subjects /\ x[1].iat \in Nat /\ x[2] \in Nat
    BY BoundsAreNaturals DEF AccessInv, CutoffsAreSound, AccessTypeOK, Tokens, Times
  <2>2. cutoff[x[1].sub] \in Nat /\ ~ x[1].iat < cutoff[x[1].sub]
    BY <2>1, BoundsAreNaturals
    DEF Accepted, IssuedBeforeRevocation, AccessInv, AccessTypeOK, Times
  <2> QED  BY <2>1, <2>2
<1> QED  BY <1>1, AccessInvariance, PTL

\* A recovery that set a password starts no other: the date of closing that
\* it wrote is past its own (verifyPasswordReset).
THEOREM SpentResetsStaySpent == AccessSpec => ResetsAreSpent
<1> DEFINE Spends ==
      \A c \in Calls, x \in used :
        step[c] = "idle" /\ step'[c] = "reset.write"
          /\ args'[c].sub = x[1].sub /\ args'[c].iat = x[1].iat
        => x[1].iat >= x[2]
<1>1. AccessInv /\ [AccessNext]_accessVars => Spends
  <2> SUFFICES ASSUME AccessInv, AccessNext, NEW c \in Calls, NEW x \in used,
                      step[c] = "idle", step'[c] = "reset.write",
                      args'[c].sub = x[1].sub, args'[c].iat = x[1].iat
               PROVE  x[1].iat >= x[2]
    BY DEF accessVars, callVars
  <2>1. step \in [Calls -> AccessSteps] /\ args \in [Calls -> Logins]
    BY DEF AccessInv, AccessTypeOK
  <2>2. \E t \in resets, p \in Passwords : CompletePasswordReset(c, t, p)
    <3>1. ~ Environment /\ ~ Expiry
      BY <2>1 DEF Environment, StartPasswordReset, SetPassword, ResetExpires, Block,
         Tick, Expiry, CounterExpires, callVars
    <3>2. ASSUME NEW d \in Calls, LoginContinues(d) PROVE FALSE
      <4>1. step[d] # "idle" /\ \A e \in Calls \ {d} : step'[e] = step[e]
        BY <2>1, <3>2 DEF LoginContinues, FailIncr, FailExpire, CheckPassword,
           OfficeCheck, LoginReset, LoginRehash, IssueSession, GoogleLink,
           ResetWrite, ResetClear, ChangeWrite, AfterWrong, Goto, Leave, Answered
      <4> QED  BY <4>1
    <3>3. ASSUME NEW d \in Calls, LoginBegins(d)
          PROVE  \E t \in resets, p \in Passwords : CompletePasswordReset(c, t, p)
      <4>1. \A e \in Calls \ {d} : step'[e] = step[e]
        BY <2>1, <3>3 DEF LoginBegins, GoogleLogin, Login, OfficeLogin,
           ChangePassword, CompletePasswordReset
      <4>2. d = c
        BY <4>1
      <4> QED
        BY <2>1, <3>3, <4>2 DEF LoginBegins, GoogleLogin, Login, OfficeLogin,
           ChangePassword
    <3> QED  BY <3>1, <3>2, <3>3 DEF AccessNext
  <2>3. PICK t \in resets, p \in Passwords : CompletePasswordReset(c, t, p)
    BY <2>2
  <2>4. MayReset(t) /\ t \in Tokens /\ t.sub = x[1].sub /\ t.iat = x[1].iat
    <3>1. t \in Tokens
      BY DEF AccessInv, AccessTypeOK
    <3>2. args'[c].sub = t.sub /\ args'[c].iat = t.iat
      BY <2>1, <2>3 DEF CompletePasswordReset, NoLogin
    <3> QED  BY <2>3, <3>1, <3>2 DEF CompletePasswordReset
  <2>5. /\ cutoff[x[1].sub] # None /\ x[2] <= cutoff[x[1].sub]
        /\ x[1].sub \in Subjects /\ x[1].iat \in Nat /\ x[2] \in Nat
    BY BoundsAreNaturals DEF AccessInv, CutoffsAreSound, AccessTypeOK, Tokens, Times
  <2>6. cutoff[x[1].sub] \in Nat /\ ~ x[1].iat < cutoff[x[1].sub]
    BY <2>4, <2>5, BoundsAreNaturals
    DEF MayReset, IssuedBeforeRevocation, AccessInv, AccessTypeOK, Times
  <2> QED  BY <2>5, <2>6
<1>2. AccessSpec => [][Spends]_accessVars
  BY <1>1, AccessInvariance, PTL DEF AccessSpec
<1> QED  BY <1>2 DEF ResetsAreSpent

=============================================================================
