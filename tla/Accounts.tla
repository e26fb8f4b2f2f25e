------------------------------ MODULE Accounts ------------------------------
(***************************************************************************)
(* The users table: the two-step deletion of an account with its nightly   *)
(* purge, the verification of a worker's identity, push tokens, and the    *)
(* edits of the administration, which save a row copied earlier, perhaps   *)
(* from Redis (mobile-account.service.ts, users.service.ts,                *)
(* mobile-users.service.ts).                                               *)
(*                                                                         *)
(* As in JobMarket a statement, or a transaction, is one action, and the   *)
(* check of the session goes with the first statement of a call. A deleted *)
(* account is a blocked one; blocking alone is left to Fleet.              *)
(***************************************************************************)
EXTENDS Handlers \* whose users are all workers

CONSTANTS
  MaxDocs,   \* bound: pairs of verification photos sent by a worker
  Edits      \* what the administration may ask of a row

Opinions == {"none", "yes", "no"}    \* NULL, true, false
Statuses == {"not_verified", "pending", "verified"}
EditOps  == {"review", "photos", "status", "password", "delete"}

ASSUME DocsAreFew == MaxDocs \in Nat
ASSUME EditsAreEdits ==
  Edits \subseteq [op : EditOps, id : Opinions, face : Opinions, to : Statuses]

VARIABLES
  row,         \* users: what the properties tell apart
  cred, token, \* auth_credentials and push_tokens have rows of the user
  busy,        \* hasActiveWork would find something
  cache,       \* Redis, users:<id>
  purge, todo, \* purgeDueAccounts: where it stands, and the accounts left
  wish,        \* history: the user's last word was to delete
  seen,        \* history: photos an administrator decided on
  overwritten, \* history: an edit was saved over a row changed since its read
  late         \* history: something was written for a deleted account

tableVars   == <<row, cred, token, busy>>
cronVars    == <<purge, todo>>
historyVars == <<wish, seen, overwritten, late>>
vars == <<tableVars, cache, callVars, cronVars, historyVars>>

Fields == {"sched", "gone", "docs", "idOk", "faceOk", "status"}
Rows   == [sched  : {"no", "set", "due"},    \* deletion_scheduled_for
           gone   : {"no", "deleted", "erased"},
           docs   : 0..MaxDocs,              \* id_ and face_photo_url
           idOk   : Opinions, faceOk : Opinions, status : Statuses]
NewRow == [sched |-> "no", gone |-> "no", docs |-> 0,
           idOk |-> "none", faceOk |-> "none", status |-> "not_verified"]

NoEdit == [op |-> "review", id |-> "none", face |-> "none",
           to |-> "pending"]
NoArgs == [usr |-> None, edit |-> NoEdit, base |-> NewRow, diff |-> {}]
Args   == [usr : Users \cup {None}, edit : Edits \cup {NoEdit}, base : Rows,
           diff : SUBSET Fields]
Steps  == {"idle", "edit.cache", "save.load", "save.write", "save.password",
           "save.clear", "delete.write", "delete.tokens", "request.work",
           "request.write", "cancel.write", "verify.write", "push.write"}

TypeOK ==
  /\ row   \in [Users -> Rows]
  /\ cred  \in [Users -> BOOLEAN] /\ token \in [Users -> BOOLEAN]
  /\ busy  \in [Users -> BOOLEAN]
  /\ cache \in [Users -> Rows \cup {None}]
  /\ step  \in [Calls -> Steps]
  /\ args  \in [Calls -> Args]
  /\ purge \in {"idle", "next"} \cup Users /\ todo \subseteq Users
  /\ wish  \in [Users -> BOOLEAN] /\ seen \in [Users -> SUBSET (1..MaxDocs)]
  /\ overwritten \in [Users -> BOOLEAN] /\ late \in [Users -> BOOLEAN]

Init ==
  /\ row   = [u \in Users |-> NewRow]
  /\ cred  = [u \in Users |-> TRUE] /\ token = [u \in Users |-> FALSE]
  /\ busy  = [u \in Users |-> FALSE]
  /\ cache = [u \in Users |-> None]
  /\ step  = [c \in Calls |-> "idle"] /\ args = [c \in Calls |-> NoArgs]
  /\ purge = "idle" /\ todo = {}
  /\ wish  = [u \in Users |-> FALSE] /\ seen = [u \in Users |-> {}]
  /\ overwritten = [u \in Users |-> FALSE] /\ late = [u \in Users |-> FALSE]

Usr(c) == args[c].usr

Begin(c, s, u) ==
  /\ step[c] = "idle"
  /\ step' = [step EXCEPT ![c] = s]
  /\ args' = [args EXCEPT ![c].usr = u]

Return(c) == Answered(c, NoArgs)

\* The session is good: is_blocked is false.
SignedIn(u) == row[u].gone = "no"

\* The call outlived the account.
NoteLate(u) == late' = [late EXCEPT ![u] = @ \/ row[u].gone # "no"]

-----------------------------------------------------------------------------
(* What a user does with the account                                       *)

\* requestDeletion: nothing is done for one that is programmed already.
RequestDeletion(c, u) ==
  /\ SignedIn(u) /\ row[u].sched = "no"
  /\ Begin(c, "request.work", u)
  /\ UNCHANGED <<tableVars, cache, cronVars, historyVars>>

RequestCheck(c) ==
  /\ step[c] = "request.work"
  /\ IF busy[Usr(c)] THEN Return(c) ELSE Goto(c, "request.write")
  /\ UNCHANGED <<tableVars, cache, cronVars, historyVars>>

RequestWrite(c) ==
  LET u == Usr(c) IN
  /\ step[c] = "request.write"
  /\ Return(c)
  /\ IF row[u].gone = "no" /\ row[u].sched = "no"
     THEN /\ row'  = [row EXCEPT ![u].sched = "set"]
          /\ wish' = [wish EXCEPT ![u] = TRUE]
     ELSE UNCHANGED <<row, wish>>
  /\ UNCHANGED <<cred, token, busy, cache, cronVars, seen, overwritten, late>>

CancelDeletion(c, u) ==
  /\ SignedIn(u)
  /\ Begin(c, "cancel.write", u)
  /\ UNCHANGED <<tableVars, cache, cronVars, historyVars>>

\* The answer is the same when the account is gone by now.
CancelWrite(c) ==
  LET u == Usr(c) IN
  /\ step[c] = "cancel.write"
  /\ Return(c)
  /\ IF row[u].gone = "no"
     THEN /\ row'  = [row EXCEPT ![u].sched = "no"]
          /\ wish' = [wish EXCEPT ![u] = FALSE]
     ELSE UNCHANGED <<row, wish>>
  /\ UNCHANGED <<cred, token, busy, cache, cronVars, seen, overwritten, late>>

\* submitWorkerVerification reads the user, then uploads the photos.
SubmitVerification(c, u) ==
  /\ SignedIn(u) /\ row[u].docs < MaxDocs
  /\ Begin(c, "verify.write", u)
  /\ UNCHANGED <<tableVars, cache, cronVars, historyVars>>

\* A pair of photos that was not there before.
NewDocs(r) == IF r.docs < MaxDocs THEN r.docs + 1 ELSE r.docs

\* Mutation: the decisions on the former photos stay.
UnderReviewKept(r) == [r EXCEPT !.docs = NewDocs(r)]

UnderReview(r) ==
  [r EXCEPT !.docs = NewDocs(r), !.status = "pending",
            !.idOk = "none", !.faceOk = "none"]

\* One UPDATE by id, whatever became of the account; Redis is left alone.
VerifyWrite(c) ==
  LET u == Usr(c) IN
  /\ step[c] = "verify.write"
  /\ Return(c)
  /\ row' = [row EXCEPT ![u] = UnderReview(@)]
  /\ NoteLate(u)
  /\ UNCHANGED <<cred, token, busy, cache, cronVars, wish, seen, overwritten>>

PushToken(c, u) ==
  /\ SignedIn(u)
  /\ Begin(c, "push.write", u)
  /\ UNCHANGED <<tableVars, cache, cronVars, historyVars>>

PushWrite(c) ==
  LET u == Usr(c) IN
  /\ step[c] = "push.write"
  /\ Return(c)
  /\ token' = [token EXCEPT ![u] = TRUE]
  /\ NoteLate(u)
  /\ UNCHANGED <<row, cred, busy, cache, cronVars, wish, seen, overwritten>>

\* Work begins and ends (JobMarket); a blocked worker is assigned no more.
StartWork(u) ==
  /\ SignedIn(u) /\ ~ busy[u]
  /\ busy' = [busy EXCEPT ![u] = TRUE]
  /\ UNCHANGED <<row, cred, token, cache, callVars, cronVars, historyVars>>

EndWork(u) ==
  /\ busy[u]
  /\ busy' = [busy EXCEPT ![u] = FALSE]
  /\ UNCHANGED <<row, cred, token, cache, callVars, cronVars, historyVars>>

\* The thirty days are over.
Elapse(u) ==
  /\ row[u].sched = "set"
  /\ row' = [row EXCEPT ![u].sched = "due"]
  /\ UNCHANGED <<cred, token, busy, cache, callVars, cronVars, historyVars>>

-----------------------------------------------------------------------------
(* purgeDueAccounts, every night                                           *)

IsDue(u) == row[u].gone = "no" /\ row[u].sched = "due"

PurgeDue ==
  /\ purge = "idle"
  /\ todo'  = {u \in Users : IsDue(u)}
  /\ purge' = "next"
  /\ UNCHANGED <<tableVars, cache, callVars, historyVars>>

\* Work that began in the meantime puts the deletion off.
PurgeCheck(u) ==
  /\ purge = "next" /\ u \in todo
  /\ todo'  = todo \ {u}
  /\ purge' = IF busy[u] THEN "next" ELSE u
  /\ UNCHANGED <<tableVars, cache, callVars, historyVars>>

\* hasActiveWork is outside the try: when it throws, the night is over.
PurgeEnds ==
  /\ purge = "next"
  /\ purge' = "idle" /\ todo' = {}
  /\ UNCHANGED <<tableVars, cache, callVars, historyVars>>

ErasedRow(r) == [r EXCEPT !.gone = "erased", !.sched = "no", !.docs = 0]

MayErase(u) == IsDue(u)

\* anonymize, a transaction. The driver answers [rows, count], so that the
\* return for an empty answer is never taken: the credentials and the tokens
\* go in any case.
Erase(u) ==
  /\ purge = u
  /\ purge' = "next" /\ UNCHANGED todo
  /\ row'   = IF MayErase(u) THEN [row EXCEPT ![u] = ErasedRow(@)] ELSE row
  /\ cred'  = [cred EXCEPT ![u] = FALSE]
  /\ token' = [token EXCEPT ![u] = FALSE]
  /\ UNCHANGED <<busy, cache, callVars, historyVars>>

\* The transaction is rolled back and the error logged.
EraseFails(u) ==
  /\ purge = u
  /\ purge' = "next"
  /\ UNCHANGED <<tableVars, cache, callVars, todo, historyVars>>

PurgeMoves ==
  \/ PurgeDue \/ PurgeEnds
  \/ \E u \in Users : PurgeCheck(u) \/ EraseFails(u)

-----------------------------------------------------------------------------
(* The administration                                                      *)

\* resolveVerificationStatus
Resolve(i, f) ==
  IF i = "yes" /\ f = "yes" THEN "verified"
  ELSE IF "no" \in {i, f} THEN "not_verified" ELSE "pending"

\* A decision that is not given stays what it was.
Or(new, old) == IF new = "none" THEN old ELSE new

\* The copy r with the change e, which is what save() gets.
Edited(r, e) ==
  CASE e.op = "review" ->
         LET i == Or(e.id, r.idOk)
             f == Or(e.face, r.faceOk) IN
         [r EXCEPT !.idOk = i, !.faceOk = f, !.status = Resolve(i, f)]
    [] e.op = "photos" -> UnderReview(r)
    [] e.op = "status" -> [r EXCEPT !.status = e.to]
    [] OTHER -> r

\* Only photos that are there can be reviewed.
IsEditable(r, e) == e.op = "review" => r.docs > 0

\* Where an edit goes once the row is read.
AfterRead(r, e) ==
  IF ~ IsEditable(r, e) THEN "idle"
  ELSE IF e.op = "delete" THEN "delete.write" ELSE "save.load"

\* findOne: the copy in Redis if there is one, of whatever age.
ReadUser(c, u, e) ==
  LET hit == cache[u] # None
      r   == IF hit THEN cache[u] ELSE row[u] IN
  /\ step[c] = "idle"
  /\ hit => IsEditable(r, e)
  /\ step' = [step EXCEPT ![c] = IF hit THEN AfterRead(r, e)
                                        ELSE "edit.cache"]
  /\ args' = [args EXCEPT ![c] = [usr |-> u, edit |-> e, base |-> r,
                                  diff |-> {}]]
  /\ UNCHANGED <<tableVars, cache, cronVars, historyVars>>

\* Redis gets the row that was read, which may have changed since.
FillCache(c) ==
  LET a == args[c] IN
  /\ step[c] = "edit.cache"
  /\ cache' = [cache EXCEPT ![a.usr] = a.base]
  /\ IF IsEditable(a.base, a.edit)
     THEN Goto(c, AfterRead(a.base, a.edit)) ELSE Return(c)
  /\ UNCHANGED <<tableVars, cronVars, historyVars>>

\* The columns in which the edited copy differs from the row.
Differs(a) == {f \in Fields : Edited(a.base, a.edit)[f] # row[a.usr][f]}

\* TypeORM's save() loads the row and keeps the columns that differ from it.
LoadForSave(c) ==
  /\ step[c] = "save.load"
  /\ step' = [step EXCEPT ![c] = "save.write"]
  /\ args' = [args EXCEPT ![c].diff = Differs(args[c])]
  /\ UNCHANGED <<tableVars, cache, cronVars, historyVars>>

\* Those columns are written, with what the copy held. A row that changed and
\* changed back shows in columns that differ now and did not then.
WriteSave(c) ==
  LET a   == args[c]
      new == Edited(a.base, a.edit) IN
  /\ step[c] = "save.write"
  /\ Goto(c, IF a.edit.op = "password" THEN "save.password" ELSE "save.clear")
  /\ row' = [row EXCEPT ![a.usr] =
               [f \in Fields |-> IF f \in a.diff THEN new[f] ELSE @[f]]]
  /\ overwritten' = [overwritten EXCEPT ![a.usr] =
                      @ \/ row[a.usr] # a.base \/ a.diff # Differs(a)]
  /\ seen' = [seen EXCEPT ![a.usr] =
               IF new.status = "verified" /\ new.docs > 0
               THEN @ \cup {new.docs} ELSE @]
  /\ IF a.diff = {} THEN UNCHANGED late ELSE NoteLate(a.usr)
  /\ UNCHANGED <<cred, token, busy, cache, cronVars, wish>>

\* update with a password: the credentials come back if they were gone.
WritePassword(c) ==
  /\ step[c] = "save.password"
  /\ Goto(c, "save.clear")
  /\ cred' = [cred EXCEPT ![Usr(c)] = TRUE]
  /\ NoteLate(Usr(c))
  /\ UNCHANGED <<row, token, busy, cache, cronVars, wish, seen, overwritten>>

\* softDelete: the account is blocked, its data stays.
DeleteWrite(c) ==
  LET u == Usr(c) IN
  /\ step[c] = "delete.write"
  /\ Goto(c, "delete.tokens")
  /\ row' = [row EXCEPT ![u].gone = IF @ = "no" THEN "deleted" ELSE @]
  /\ UNCHANGED <<cred, token, busy, cache, cronVars, historyVars>>

DeleteTokens(c) ==
  /\ step[c] = "delete.tokens"
  /\ Goto(c, "save.clear")
  /\ token' = [token EXCEPT ![Usr(c)] = FALSE]
  /\ UNCHANGED <<row, cred, busy, cache, cronVars, historyVars>>

ClearCache(c) ==
  /\ step[c] = "save.clear"
  /\ Return(c)
  /\ cache' = [cache EXCEPT ![Usr(c)] = None]
  /\ UNCHANGED <<tableVars, cronVars, historyVars>>

\* Two minutes pass.
CacheExpires(u) ==
  /\ cache[u] # None
  /\ cache' = [cache EXCEPT ![u] = None]
  /\ UNCHANGED <<tableVars, callVars, cronVars, historyVars>>

-----------------------------------------------------------------------------
UserCalls(c, u) ==
  \/ RequestDeletion(c, u) \/ CancelDeletion(c, u)
  \/ SubmitVerification(c, u) \/ PushToken(c, u)

CallContinues(c) ==
  \/ RequestCheck(c) \/ RequestWrite(c) \/ CancelWrite(c)
  \/ VerifyWrite(c) \/ PushWrite(c)
  \/ WritePassword(c) \/ DeleteWrite(c) \/ DeleteTokens(c)

\* Nothing is copied, no copy is saved and no account is erased.
AccountMoves ==
  \/ \E c \in Calls, u \in Users : UserCalls(c, u)
  \/ \E c \in Calls : CallContinues(c)
  \/ \E u \in Users : StartWork(u) \/ EndWork(u) \/ Elapse(u)
  \/ PurgeMoves

CopyMoves(c) ==
  \/ \E u \in Users, e \in Edits : ReadUser(c, u, e)
  \/ FillCache(c) \/ LoadForSave(c) \/ WriteSave(c) \/ ClearCache(c)

Next ==
  \/ AccountMoves
  \/ \E c \in Calls : CopyMoves(c)
  \/ \E u \in Users : Erase(u) \/ CacheExpires(u)

Spec == Init /\ [][Next]_vars

-----------------------------------------------------------------------------
(* Properties                                                              *)

\* An account is erased only when the last thing its user said was to delete
\* it: a request and a cancellation may cross, and cross the night's purge,
\* in any order. Only the save of an old copy can bring a date back
\* (requestDeletion, cancelDeletion, anonymize, and update in UsersService).
ErasedAsWished ==
  \A u \in Users : row[u].gone = "erased" => wish[u] \/ overwritten[u]

\* Of an erased account no photos, no credentials and no token are left,
\* unless a call that was in flight, or an edit, wrote them afterwards
\* (anonymize, upsertPushToken, submitWorkerVerification).
ErasedLeavesNothing ==
  \A u \in Users :
    row[u].gone = "erased" /\ ~ late[u] /\ ~ overwritten[u] =>
      row[u].docs = 0 /\ ~ cred[u] /\ ~ token[u]

\* A worker stands verified with the very photos an administrator decided
\* on, never with photos sent since, unless an edit was saved over them
\* (submitWorkerVerification, reviewWorkerVerification).
VerifiedWereSeen ==
  \A u \in Users :
    row[u].status = "verified" /\ row[u].docs > 0 /\ ~ overwritten[u] =>
      row[u].docs \in seen[u]

\* "Se canceló justo antes del borrado: no se toca nada." (anonymize): an
\* account that is not erased keeps its credentials.
CancelledIsKept ==
  \A u \in Users : row[u].gone = "no" /\ ~ overwritten[u] => cred[u]
=============================================================================
