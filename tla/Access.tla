------------------------------- MODULE Access -------------------------------
(***************************************************************************)
(* Passwords, sessions and the limit of attempts: login of users, agencies *)
(* and administrators, login with Google, the recovery of a password with  *)
(* Google, password changes, and the check of a session                    *)
(* (mobile.service.ts, access.service.ts, login-attempts.service.ts,       *)
(* agency-auth.service.ts, auth.service.ts).                               *)
(*                                                                         *)
(* A statement, a transaction or a Redis command is one action. Time is    *)
(* counted in seconds, as the issue date of a token is. Every user has one *)
(* Google account.                                                         *)
(***************************************************************************)
EXTENDS Handlers

CONSTANTS
  Offices,      \* rows of agencies and of admin_users
  Passwords,
  MaxAttempts,  \* MAX_LOGIN_ATTEMPTS
  MaxTime,      \* bound: seconds that pass
  MaxFaults     \* bound: Redis commands that fail

Subjects == Users \cup Offices

ASSUME AttemptsAreSeveral == MaxAttempts \in Nat /\ MaxAttempts > 1
ASSUME BoundsAreNaturals  == MaxTime \in Nat /\ MaxFaults \in Nat
ASSUME NoneIsNobody       == None \notin Subjects /\ None \notin Passwords
                             /\ None \notin Nat

VARIABLES
  secret,     \* auth_credentials.password, or password_hash
  plain,      \* it is not hashed yet (users of long ago)
  google,     \* users.google_id is set
  blocked,    \* users.is_blocked; is_active is false
  cutoff,     \* users.tokens_valid_after, in seconds
  count,      \* Redis: login:fail:<scope>:<subject>, 0 when there is none
  ttl,        \* the key expires
  sessions,   \* session tokens issued
  resets,     \* password-reset tokens issued
  now, faults,
  tries,      \* history: wrong passwords compared since the key is there
  closed,     \* history: sessions that were to be closed, and when
  used        \* history: reset tokens that set a password, and when

accountVars == <<secret, plain, google, blocked, cutoff>>
redisVars   == <<count, ttl, faults, tries>>
tokenVars   == <<sessions, resets, closed, used>>
accessVars == <<accountVars, redisVars, tokenVars, callVars, now>>

Times    == 0..MaxTime
Tokens   == [sub : Subjects, iat : Times]
MaxCount == MaxAttempts + Cardinality(Calls) + MaxFaults
Secrets  == Passwords \cup {None}
NoLogin  == [sub |-> None, typed |-> None, read |-> None, plain |-> FALSE,
             blocked |-> FALSE, iat |-> 0]
Logins   == [sub : Subjects \cup {None}, typed : Secrets, read : Secrets,
             plain : BOOLEAN, blocked : BOOLEAN, iat : Times]
AccessSteps ==
  {"idle", "login.allowed", "office.read", "fail.incr", "fail.expire",
   "login.reset", "login.rehash", "login.token", "google.link", "reset.write",
   "reset.clear", "change.write"}

AccessTypeOK ==
  /\ secret \in [Subjects -> Secrets] /\ plain \in [Subjects -> BOOLEAN]
  /\ google \in [Subjects -> BOOLEAN] /\ blocked \in [Subjects -> BOOLEAN]
  /\ cutoff \in [Subjects -> Times \cup {None}]
  /\ count  \in [Subjects -> 0..MaxCount] /\ ttl \in [Subjects -> BOOLEAN]
  /\ tries  \in [Subjects -> 0..MaxCount]
  /\ sessions \subseteq Tokens /\ resets \subseteq Tokens
  /\ closed \subseteq Tokens \X Times /\ used \subseteq Tokens \X Times
  /\ step \in [Calls -> AccessSteps] /\ args \in [Calls -> Logins]
  /\ now \in Times /\ faults \in 0..MaxFaults

AccessInit ==
  /\ secret \in [Subjects -> Passwords] /\ google = [s \in Subjects |-> FALSE]
  /\ plain  \in {p \in [Subjects -> BOOLEAN] : \A s \in Offices : ~ p[s]}
  /\ blocked = [s \in Subjects |-> FALSE] /\ cutoff = [s \in Subjects |-> None]
  /\ count = [s \in Subjects |-> 0] /\ ttl = [s \in Subjects |-> FALSE]
  /\ tries = [s \in Subjects |-> 0]
  /\ sessions = {} /\ resets = {} /\ closed = {} /\ used = {}
  /\ step = [c \in Calls |-> "idle"] /\ args = [c \in Calls |-> NoLogin]
  /\ now = 0 /\ faults = 0

Sub(c) == args[c].sub

Leave(c) == Answered(c, NoLogin)

Issue(s) == sessions' = sessions \cup {[sub |-> s, iat |-> now]}

\* issuedBeforeRevocation: the date is cut to the second.
IssuedBeforeRevocation(t) ==
  cutoff[t.sub] # None /\ t.iat < cutoff[t.sub]

\* authenticate, and the strategies of agencies and administrators.
Accepted(t) == ~ blocked[t.sub] /\ ~ IssuedBeforeRevocation(t)

-----------------------------------------------------------------------------
(* LoginAttemptsService                                                    *)

Locked(s) == count[s] >= MaxAttempts

RedisFails == faults < MaxFaults /\ faults' = faults + 1

\* A counter that ends takes the window of attempts with it.
Forget(s) ==
  /\ count' = [count EXCEPT ![s] = 0]
  /\ ttl'   = [ttl EXCEPT ![s] = FALSE]
  /\ tries' = [tries EXCEPT ![s] = 0]

\* Mutation: only a new key gets a date.
NeedsDateOnce(n) == n = 1

NeedsDate(n) == n = 1 \/ n >= MaxAttempts

\* recordFailure, first command. INCR keeps the date the key had.
FailIncr(c) ==
  LET s == Sub(c) IN
  /\ step[c] = "fail.incr"
  /\ \/ /\ count' = [count EXCEPT ![s] = @ + 1]
        /\ IF NeedsDate(count[s] + 1)
           THEN Goto(c, "fail.expire") ELSE Leave(c)
        /\ UNCHANGED faults
     \/ RedisFails /\ Leave(c) /\ UNCHANGED count
  /\ UNCHANGED <<accountVars, ttl, tries, tokenVars, now>>

\* Second command; a process that stops in between is a command that fails.
FailExpire(c) ==
  /\ step[c] = "fail.expire"
  /\ Leave(c)
  /\ \/ ttl' = [ttl EXCEPT ![Sub(c)] = count[Sub(c)] > 0] /\ UNCHANGED faults
     \/ RedisFails /\ UNCHANGED ttl
  /\ UNCHANGED <<accountVars, count, tries, tokenVars, now>>

\* Fifteen minutes pass.
CounterExpires(s) ==
  /\ ttl[s]
  /\ Forget(s)
  /\ UNCHANGED <<accountVars, faults, tokenVars, callVars, now>>

\* assertAllowed, which lets everybody pass when Redis does not answer. A
\* wrong password is counted afterwards, by another command.
MayTry(s) == (~ Locked(s) /\ UNCHANGED faults) \/ RedisFails

NoteTry(s) ==
  tries' = [tries EXCEPT ![s] = IF @ < MaxCount THEN @ + 1 ELSE @]

-----------------------------------------------------------------------------
(* login                                                                   *)

\* None typed is a password that is nobody's; none stored fits nothing.
Fits(typed, stored) == typed # None /\ typed = stored

\* The row of the user is read first, whoever he is.
Login(c, u, p) ==
  /\ step[c] = "idle"
  /\ step' = [step EXCEPT ![c] = "login.allowed"]
  /\ args' = [args EXCEPT ![c] =
       [sub |-> u, typed |-> p, read |-> secret[u], plain |-> plain[u],
        blocked |-> blocked[u], iat |-> 0]]
  /\ UNCHANGED <<accountVars, redisVars, tokenVars, now>>

\* Mutation: failures are not counted.
AfterWrongUncounted(c) == Leave(c) /\ NoteTry(Sub(c))

AfterWrong(c) == Goto(c, "fail.incr") /\ NoteTry(Sub(c))

\* assertAllowed, then the comparison with what was read.
CheckPassword(c) ==
  LET a == args[c] IN
  /\ step[c] = "login.allowed"
  /\ \/ /\ MayTry(Sub(c))
        /\ \/ ~ Fits(a.typed, a.read) /\ AfterWrong(c)
           \/ /\ Fits(a.typed, a.read)
              /\ IF a.blocked THEN Leave(c) ELSE Goto(c, "login.reset")
              /\ UNCHANGED tries
     \/ Locked(Sub(c)) /\ Leave(c) /\ UNCHANGED <<faults, tries>>
  /\ UNCHANGED <<accountVars, count, ttl, tokenVars, now>>

\* Agencies and administrators: the counter is looked at before the row.
OfficeLogin(c, s, p) ==
  /\ step[c] = "idle"
  /\ MayTry(s)
  /\ step' = [step EXCEPT ![c] = "office.read"]
  /\ args' = [args EXCEPT ![c] = [NoLogin EXCEPT !.sub = s, !.typed = p]]
  /\ UNCHANGED <<accountVars, count, ttl, tries, tokenVars, now>>

OfficeCheck(c) ==
  LET s == Sub(c) IN
  /\ step[c] = "office.read"
  /\ \/ ~ Fits(args[c].typed, secret[s]) /\ AfterWrong(c)
     \/ /\ Fits(args[c].typed, secret[s])
        /\ IF blocked[s] THEN Leave(c) ELSE Goto(c, "login.reset")
        /\ UNCHANGED tries
  /\ UNCHANGED <<accountVars, count, ttl, faults, tokenVars, now>>

\* reset: the counter is deleted, or stays when Redis fails.
LoginReset(c) ==
  /\ step[c] = "login.reset"
  /\ Goto(c, IF args[c].plain THEN "login.rehash" ELSE "login.token")
  /\ \/ Forget(Sub(c)) /\ UNCHANGED faults
     \/ RedisFails /\ UNCHANGED <<count, ttl, tries>>
  /\ UNCHANGED <<accountVars, tokenVars, now>>

\* A password in the clear is hashed, over whatever the row holds by now.
LoginRehash(c) ==
  LET s == Sub(c) IN
  /\ step[c] = "login.rehash"
  /\ Goto(c, "login.token")
  /\ secret' = [secret EXCEPT ![s] = args[c].typed]
  /\ plain'  = [plain EXCEPT ![s] = FALSE]
  /\ UNCHANGED <<google, blocked, cutoff, redisVars, tokenVars, now>>

\* The token is signed last, for login, Google and recovery alike.
IssueSession(c) ==
  /\ step[c] = "login.token"
  /\ Leave(c)
  /\ Issue(Sub(c))
  /\ UNCHANGED <<accountVars, redisVars, resets, closed, used, now>>

-----------------------------------------------------------------------------
(* Google                                                                  *)

NoteClosed(u) ==
  closed' = closed \cup {<<t, now>> : t \in {x \in sessions : x.sub = u}}

\* Mutation: the sessions are left alone.
CloseSessionsForgotten(u) == UNCHANGED cutoff /\ NoteClosed(u)

CloseSessions(u) ==
  /\ cutoff' = [cutoff EXCEPT ![u] = now]
  /\ NoteClosed(u)

\* googleLogin: the row is read; the first time the accounts are linked.
GoogleLogin(c, u) ==
  /\ step[c] = "idle" /\ ~ blocked[u]
  /\ step' = [step EXCEPT ![c] = IF google[u] THEN "login.token"
                                              ELSE "google.link"]
  /\ args' = [args EXCEPT ![c] = [NoLogin EXCEPT !.sub = u,
                                                 !.read = secret[u]]]
  /\ UNCHANGED <<accountVars, redisVars, tokenVars, now>>

\* A password the row had when it was read was not the owner's perhaps: it is
\* cleared, and the sessions are closed.
GoogleLink(c) ==
  LET u == Sub(c) IN
  /\ step[c] = "google.link"
  /\ Goto(c, "login.token")
  /\ google' = [google EXCEPT ![u] = TRUE]
  /\ IF args[c].read # None
     THEN /\ secret' = [secret EXCEPT ![u] = None]
          /\ plain'  = [plain EXCEPT ![u] = FALSE]
          /\ CloseSessions(u)
     ELSE UNCHANGED <<secret, plain, cutoff, closed>>
  /\ UNCHANGED <<blocked, redisVars, sessions, resets, used,
                 now>>

StartPasswordReset(u) ==
  /\ ~ blocked[u]
  /\ resets' = resets \cup {[sub |-> u, iat |-> now]}
  /\ UNCHANGED <<accountVars, redisVars, sessions, closed, used, callVars,
                 now>>

\* Ten minutes pass.
ResetExpires(t) ==
  /\ resets' = resets \ {t}
  /\ UNCHANGED <<accountVars, redisVars, sessions, closed, used, callVars,
                 now>>

\* Mutation: a token is good until it expires.
MayResetAgain(t) == ~ blocked[t.sub]

MayReset(t) == ~ blocked[t.sub] /\ ~ IssuedBeforeRevocation(t)

\* completeGooglePasswordReset: the row is read, the password hashed.
CompletePasswordReset(c, t, p) ==
  /\ step[c] = "idle" /\ MayReset(t)
  /\ step' = [step EXCEPT ![c] = "reset.write"]
  /\ args' = [args EXCEPT ![c] = [NoLogin EXCEPT !.sub = t.sub, !.typed = p,
                                                 !.iat = t.iat]]
  /\ UNCHANGED <<accountVars, redisVars, tokenVars, now>>

\* One transaction stores the password, links Google, closes the sessions.
ResetWrite(c) ==
  LET u == Sub(c) IN
  /\ step[c] = "reset.write"
  /\ Goto(c, "reset.clear")
  /\ secret' = [secret EXCEPT ![u] = args[c].typed]
  /\ plain'  = [plain EXCEPT ![u] = FALSE]
  /\ google' = [google EXCEPT ![u] = TRUE]
  /\ CloseSessions(u)
  /\ used' = used \cup {<<[sub |-> u, iat |-> args[c].iat], now>>}
  /\ UNCHANGED <<blocked, redisVars, sessions, resets, now>>

ResetClear(c) ==
  /\ step[c] = "reset.clear"
  /\ Goto(c, "login.token")
  /\ \/ Forget(Sub(c)) /\ UNCHANGED faults
     \/ RedisFails /\ UNCHANGED <<count, ttl, tries>>
  /\ UNCHANGED <<accountVars, tokenVars, now>>

-----------------------------------------------------------------------------
(* Other changes                                                           *)

\* resetWorkerPassword, and an administrator's edit of a user: the sessions
\* stay open.
SetPassword(u, p) ==
  /\ secret' = [secret EXCEPT ![u] = p]
  /\ plain'  = [plain EXCEPT ![u] = FALSE]
  /\ UNCHANGED <<google, blocked, cutoff, redisVars, tokenVars, callVars, now>>

\* changePassword of an agency or an administrator: compared, then written.
ChangePassword(c, s, p) ==
  /\ step[c] = "idle"
  /\ \E t \in sessions : t.sub = s /\ Accepted(t)
  /\ step' = [step EXCEPT ![c] = "change.write"]
  /\ args' = [args EXCEPT ![c] = [NoLogin EXCEPT !.sub = s, !.typed = p]]
  /\ UNCHANGED <<accountVars, redisVars, tokenVars, now>>

ChangeWrite(c) ==
  /\ step[c] = "change.write"
  /\ Leave(c)
  /\ secret' = [secret EXCEPT ![Sub(c)] = args[c].typed]
  /\ UNCHANGED <<plain, google, blocked, cutoff, redisVars, tokenVars, now>>

Block(s) ==
  /\ blocked' = [blocked EXCEPT ![s] = ~ @]
  /\ UNCHANGED <<secret, plain, google, cutoff, redisVars, tokenVars,
                 callVars, now>>

Tick ==
  /\ now < MaxTime
  /\ now' = now + 1
  /\ UNCHANGED <<accountVars, redisVars, tokenVars, callVars>>

-----------------------------------------------------------------------------
LoginBegins(c) ==
  \/ \E u \in Users :
       GoogleLogin(c, u) \/ \E p \in Secrets : Login(c, u, p)
  \/ \E s \in Offices, p \in Secrets : OfficeLogin(c, s, p)
  \/ \E s \in Offices, p \in Passwords : ChangePassword(c, s, p)
  \/ \E t \in resets, p \in Passwords : CompletePasswordReset(c, t, p)

LoginContinues(c) ==
  \/ FailIncr(c) \/ FailExpire(c) \/ CheckPassword(c) \/ OfficeCheck(c)
  \/ LoginReset(c) \/ LoginRehash(c) \/ IssueSession(c) \/ GoogleLink(c)
  \/ ResetWrite(c) \/ ResetClear(c) \/ ChangeWrite(c)

Environment ==
  \/ \E u \in Users :
       StartPasswordReset(u) \/ \E p \in Passwords : SetPassword(u, p)
  \/ \E t \in resets : ResetExpires(t)
  \/ \E s \in Subjects : Block(s)
  \/ Tick

Expiry == \E s \in Subjects : CounterExpires(s)

AccessNext ==
  \/ \E c \in Calls : LoginBegins(c) \/ LoginContinues(c)
  \/ Environment
  \/ Expiry

AccessSpec == AccessInit /\ [][AccessNext]_accessVars

\* Handlers go on, and Redis deletes keys whose time has come.
FairAccess ==
  /\ AccessSpec
  /\ \A c \in Calls : WF_accessVars(LoginContinues(c))
  /\ \A s \in Subjects : WF_accessVars(CounterExpires(s))

-----------------------------------------------------------------------------
(* Properties                                                              *)

\* Calls compare passwords side by side before any of them has counted its
\* failure, and a Redis that fails lets a guess through: still no more than
\* MaxAttempts - 1 wrong passwords are compared in a window, and one more for
\* each call and for each fault (assertAllowed, recordFailure).
GuessesAreBounded ==
  \A s \in Subjects : tries[s] <= MaxAttempts - 1 + Cardinality(Calls) + faults

\* Nobody is locked out for good: the date is set with the first failure and
\* again with the one that locks, so that one lost EXPIRE does no harm, in
\* whatever order the failures are counted (recordFailure).
LocksEnd == \A s \in Subjects : []<>(~ Locked(s))

\* A session that was open when the others were closed is not accepted
\* again, whatever is written to the account afterwards; only one of the very
\* second stays (googleLogin, completeGooglePasswordReset).
ClosedStayClosed ==
  \A x \in closed : Accepted(x[1]) => x[1].iat >= x[2]

\* A recovery that set a password sets no other, however long it has to run
\* and whatever came in between; but for calls already under way and for the
\* very second (verifyPasswordReset, issuedBeforeRevocation).
ResetsAreSpent ==
  [][\A c \in Calls, x \in used :
       step[c] = "idle" /\ step'[c] = "reset.write"
         /\ args'[c].sub = x[1].sub /\ args'[c].iat = x[1].iat
       => x[1].iat >= x[2]]_accessVars
=============================================================================
