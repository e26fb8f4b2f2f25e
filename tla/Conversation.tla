---------------------------- MODULE Conversation ----------------------------
(***************************************************************************)
(* What the two parties of a job say to each other and about each other:   *)
(* the chat and its photos (mobile-chat.service.ts,                        *)
(* job-chat-photo.service.ts), the complaints and their support chat       *)
(* (mobile-disputes.service.ts), and the review that sets a worker's       *)
(* rating (createReview of mobile-requests.service.ts), which an edit of   *)
(* the administration may overwrite (UserCopies).                          *)
(*                                                                         *)
(* All jobs are the same worker's. A statement or a request to the store   *)
(* of images is one action; the transaction that stores a message is two.  *)
(* NOW() is a clock that no two statements read at the same value.         *)
(***************************************************************************)
EXTENDS Naturals, FiniteSets

CONSTANTS
  Jobs,         \* jobs of one worker, each with a thread
  Disputes,     \* complaints, each about one job
  Calls,        \* HTTP handlers that may be in flight at the same time
  Edits,        \* edits of the administration at the same time
  Millisecond,  \* instants of the database in a millisecond of JavaScript
  Limit,        \* entries on a page of the chat
  HelpLimit,    \* messages of a complaint that are shown, 500
  MaxTime,      \* bound: instants
  MaxFaults,    \* bound: requests that fail, processes that stop
  None          \* nobody, no image, no job, no copy

ASSUME ScalesArePositive == Millisecond \in Nat \ {0} /\ Limit \in Nat \ {0}
                            /\ HelpLimit \in Nat \ {0}
ASSUME BoundsAreNaturals == MaxTime \in Nat /\ MaxTime > 1 /\ MaxFaults \in Nat
ASSUME NoneIsNothing     == None \notin Calls /\ None \notin Nat

VARIABLES
  status,     \* job_requests.status
  accepted,   \* the worker's offer is the accepted one
  deal,       \* instants of the job: the deal, the start, the end
  holder,     \* the call whose transaction holds the row of the job
  sent,       \* chat_messages
  read,       \* client_last_read_at, worker_last_read_at; 0 for NULL
  busy,       \* JobChatPhotoService.busy
  store,      \* images that are stored
  reviewed,   \* the jobs in worker_reviews
  rating,     \* the reviews users.average_rating is the average of
  complaint,  \* disputes: none, "open", "resolved"
  support,    \* dispute_messages
  userRead,   \* disputes.user_last_read_at
  step, args, \* the calls in flight
  copy, edit, \* the worker's copy in Redis, and the edits in flight
  now, faults,
  seen,       \* history: the messages there when a party last marked them
  heard,      \* history: the support messages shown to a party
  lost        \* history: what a fault, or an old copy, left behind

jobVars    == <<status, accepted, deal, holder>>
chatVars   == <<sent, read, busy, store, seen>>
reviewVars == <<reviewed, rating>>
helpVars   == <<complaint, support, userRead, heard>>
callVars   == <<step, args>>
editVars   == <<copy, edit>>
faultVars  == <<faults, lost>>
vars == <<jobVars, chatVars, reviewVars, helpVars, callVars, editVars,
          faultVars, now>>

Parties  == {"client", "worker"}
Sides    == Parties \cup {"staff"}
Writable == {"assigned"}   \* CHAT_WRITABLE_STATUSES; nobody sets in_progress
Instants == 0..MaxTime
Images   == 1..MaxTime     \* an image is named by the instant of its upload
Steps    == {"idle", "mark.write", "photo.check", "photo.review",
             "photo.upload", "send.lock", "send.insert", "photo.delete",
             "review.insert", "review.read", "review.write", "help.read"}
Messages == [from : Sides, at : Instants, pic : Images \cup {None},
             crossed : SUBSET Parties]
Args     == [job : Jobs \cup Disputes \cup {None}, who : Sides \cup {None},
             photo : BOOLEAN, pic : Images \cup {None}, at : Instants,
             crossed : SUBSET Parties, found : SUBSET Jobs]
NoArgs   == [job |-> None, who |-> None, photo |-> FALSE, pic |-> None,
             at |-> 0, crossed |-> {}, found |-> {}]
Losses   == [photos : SUBSET Images, helps : SUBSET Disputes,
             review : BOOLEAN, average : BOOLEAN]

\* The worker's row, of which only average_rating matters here.
Columns == {"average"}
Rows    == [average : SUBSET Jobs]
Row     == [average |-> rating]

Admin == INSTANCE UserCopies WITH Users <- {"worker"}

TypeOK ==
  /\ status   \in [Jobs -> {"assigned", "completed", "cancelled"}]
  /\ accepted \in [Jobs -> BOOLEAN]
  /\ deal     \in [Jobs -> [made : Instants, started : Instants,
                            ended : Instants]]
  /\ holder \in [Jobs -> Calls \cup {None}]
  /\ sent   \in [Jobs -> SUBSET Messages]
  /\ read   \in [Jobs -> [Parties -> Instants]]
  /\ seen   \in [Jobs -> [Parties -> SUBSET Instants]]
  /\ busy   \in BOOLEAN /\ store \subseteq Images
  /\ reviewed \subseteq Jobs /\ rating \subseteq Jobs
  /\ complaint \in [Disputes -> {"none", "open", "resolved"}]
  /\ support   \in [Disputes -> SUBSET Messages]
  /\ userRead  \in [Disputes -> Instants]
  /\ heard     \in [Disputes -> SUBSET Instants]
  /\ step \in [Calls -> Steps] /\ args \in [Calls -> Args]
  /\ now \in 1..MaxTime /\ faults \in 0..MaxFaults
  /\ lost \in Losses /\ Admin!CopiesAreRows

\* acceptOffer has made the deals and their threads.
Init ==
  /\ status   = [j \in Jobs |-> "assigned"]
  /\ accepted = [j \in Jobs |-> TRUE]
  /\ deal     = [j \in Jobs |-> [made |-> 1, started |-> 0, ended |-> 0]]
  /\ holder   = [j \in Jobs |-> None]
  /\ sent     = [j \in Jobs |-> {}] /\ store = {} /\ busy = FALSE
  /\ read     = [j \in Jobs |-> [p \in Parties |-> 0]]
  /\ seen     = [j \in Jobs |-> [p \in Parties |-> {}]]
  /\ reviewed = {} /\ rating = {}
  /\ complaint = [d \in Disputes |-> "none"]
  /\ support   = [d \in Disputes |-> {}]
  /\ userRead  = [d \in Disputes |-> 0]
  /\ heard     = [d \in Disputes |-> {}]
  /\ step = [c \in Calls |-> "idle"] /\ args = [c \in Calls |-> NoArgs]
  /\ now = 2 /\ faults = 0
  /\ lost = [photos |-> {}, helps |-> {}, review |-> FALSE, average |-> FALSE]
  /\ Admin!NoCopies

Begin(c, s, a) ==
  /\ step[c] = "idle"
  /\ step' = [step EXCEPT ![c] = s]
  /\ args' = [args EXCEPT ![c] = a]

Goto(c, s) == step' = [step EXCEPT ![c] = s] /\ UNCHANGED args

Return(c) ==
  /\ step' = [step EXCEPT ![c] = "idle"]
  /\ args' = [args EXCEPT ![c] = NoArgs]

\* NOW(): the statement reads now, and the clock goes on.
Stamp  == now < MaxTime /\ now' = now + 1

Fault == faults < MaxFaults /\ faults' = faults + 1

Pics(c) == {args[c].pic} \ {None}

LosePhotos(pics) == lost' = [lost EXCEPT !.photos = @ \cup pics]

Ats(ms) == {m.at : m \in ms}

-----------------------------------------------------------------------------
(* The job goes on. Whoever updates its row waits for a message under way. *)

StartWork(j) ==
  /\ status[j] = "assigned" /\ deal[j].started = 0 /\ holder[j] = None
  /\ Stamp
  /\ deal' = [deal EXCEPT ![j].started = now]
  /\ UNCHANGED <<status, accepted, holder, chatVars, reviewVars, helpVars,
                 callVars, faultVars>>

\* completeJob, cancelRequest; adminCancelJob cancels whatever there is.
EndJob(j, s) ==
  /\ status[j] = "assigned" \/ (status[j] = "completed" /\ s = "cancelled")
  /\ holder[j] = None
  /\ Stamp
  /\ status' = [status EXCEPT ![j] = s]
  /\ deal'   = [deal EXCEPT ![j].ended = now]
  /\ UNCHANGED <<accepted, holder, chatVars, reviewVars, helpVars, callVars,
                 faultVars>>

\* An upsertOffer that read the offer before it was accepted (JobMarket).
Overwrite(j) ==
  /\ accepted[j]
  /\ accepted' = [accepted EXCEPT ![j] = FALSE]
  /\ UNCHANGED <<status, deal, holder, chatVars, reviewVars, helpVars,
                 callVars, faultVars, now>>

Tick ==
  /\ Stamp
  /\ UNCHANGED <<jobVars, chatVars, reviewVars, helpVars, callVars,
                 faultVars>>

-----------------------------------------------------------------------------
(* Chat                                                                    *)

\* getContext: every status there is after the deal is one of history.
InThread(j, p) == accepted[j] /\ p \in Parties

Mark(r, p, t) == [r EXCEPT ![p] = t]

MarkThreadRead(c, j, p) ==
  /\ InThread(j, p)
  /\ Begin(c, "mark.write", [NoArgs EXCEPT !.job = j, !.who = p])
  /\ UNCHANGED <<jobVars, chatVars, reviewVars, helpVars, faultVars, now>>

\* A message whose transaction has begun is older than this mark.
MarkWrite(c) ==
  LET j == args[c].job
      p == args[c].who
      Under(d) == d # c /\ step[d] \in {"send.lock", "send.insert"}
                        /\ args[d].job = j
  IN
  /\ step[c] = "mark.write"
  /\ Stamp
  /\ step' = [step EXCEPT ![c] = "idle"]
  /\ args' = [d \in Calls |->
       IF d = c THEN NoArgs
       ELSE IF Under(d) THEN [args[d] EXCEPT !.crossed = @ \cup {p}]
       ELSE args[d]]
  /\ read' = [read EXCEPT ![j] = Mark(@, p, now)]
  /\ seen' = [seen EXCEPT ![j][p] = Ats(sent[j])]
  /\ UNCHANGED <<jobVars, sent, busy, store, reviewVars, helpVars,
                 faultVars>>

\* sendMessage: its transaction, and so its created_at, begins here.
SendMessage(c, j, p) ==
  /\ Stamp
  /\ Begin(c, "send.lock", [NoArgs EXCEPT !.job = j, !.who = p, !.at = now])
  /\ UNCHANGED <<jobVars, chatVars, reviewVars, helpVars, faultVars>>

\* sendPhoto: a first look at the job, without holding it.
SendPhoto(c, j, p) ==
  /\ InThread(j, p) /\ status[j] \in Writable
  /\ Begin(c, "photo.check", [NoArgs EXCEPT !.job = j, !.who = p,
                                            !.photo = TRUE])
  /\ UNCHANGED <<jobVars, chatVars, reviewVars, helpVars, faultVars, now>>

\* validate: one photo at a time, whoever sends it.
CheckPhoto(c) ==
  /\ step[c] = "photo.check"
  /\ busy' = TRUE
  /\ IF busy THEN Return(c) ELSE Goto(c, "photo.review")
  /\ UNCHANGED <<jobVars, sent, read, store, seen, reviewVars, helpVars,
                 faultVars, now>>

\* Mutation: the flag is only put down when the photo is fine.
StillBusyUnlessFine(fine) == ~ fine

StillBusy(fine) == FALSE

ReviewPhoto(c) ==
  /\ step[c] = "photo.review"
  /\ \E fine \in BOOLEAN :
       /\ busy' = StillBusy(fine)
       /\ IF fine THEN Goto(c, "photo.upload") ELSE Return(c)
  /\ UNCHANGED <<jobVars, sent, read, store, seen, reviewVars, helpVars,
                 faultVars, now>>

\* The upload, after which the transaction begins, or its failure; it may be
\* stored although the request was given up after 45 seconds.
UploadPhoto(c) ==
  /\ step[c] = "photo.upload"
  /\ \/ /\ Stamp
        /\ store' = store \cup {now}
        /\ step' = [step EXCEPT ![c] = "send.lock"]
        /\ args' = [args EXCEPT ![c].pic = now, ![c].at = now]
        /\ UNCHANGED faultVars
     \/ Return(c) /\ UNCHANGED <<store, now, faultVars>>
     \/ /\ Stamp /\ Fault
        /\ store' = store \cup {now}
        /\ Return(c) /\ LosePhotos({now})
  /\ UNCHANGED <<jobVars, sent, read, busy, seen, reviewVars, helpVars>>

\* Mutation: the photo that found no place is left where it is.
AfterRefusalKept(c) == Return(c)

\* The catch of sendPhoto.
AfterRefusal(c) ==
  IF args[c].photo THEN Goto(c, "photo.delete") ELSE Return(c)

\* Mutation: the row of the job is read, not locked.
HoldNothing(c) == UNCHANGED holder

Hold(c) == holder' = [holder EXCEPT ![args[c].job] = c]

\* getContext ... FOR UPDATE OF jr, and the status it read.
LockJob(c) ==
  LET j == args[c].job IN
  /\ step[c] = "send.lock" /\ holder[j] = None
  /\ IF InThread(j, args[c].who) /\ status[j] \in Writable
     THEN Hold(c) /\ Goto(c, "send.insert")
     ELSE AfterRefusal(c) /\ UNCHANGED holder
  /\ UNCHANGED <<status, accepted, deal, chatVars, reviewVars, helpVars,
                 faultVars, now>>

Message(c) == [from |-> args[c].who, at |-> args[c].at, pic |-> args[c].pic,
               crossed |-> args[c].crossed]

\* Mutation: the photo is deleted in a finally.
AfterInsertDeleted(c) == AfterRefusal(c)

AfterInsert(c) == Return(c)

\* INSERT and COMMIT; the answer of the COMMIT may get lost, or all of it.
InsertMessage(c) ==
  LET j == args[c].job IN
  /\ step[c] = "send.insert"
  /\ holder' = [holder EXCEPT ![j] = IF @ = c THEN None ELSE @]
  /\ \/ /\ sent' = [sent EXCEPT ![j] = @ \cup {Message(c)}]
        /\ \/ AfterInsert(c) /\ UNCHANGED faultVars
           \/ AfterRefusal(c) /\ Fault /\ LosePhotos(Pics(c))
     \/ UNCHANGED sent /\ AfterRefusal(c) /\ Fault /\ UNCHANGED lost
  /\ UNCHANGED <<status, accepted, deal, read, busy, store, seen, reviewVars,
                 helpVars, now>>

\* deleteImage; nobody learns of its failure.
DeletePhoto(c) ==
  /\ step[c] = "photo.delete"
  /\ Return(c)
  /\ \/ store' = store \ Pics(c) /\ UNCHANGED faultVars
     \/ Fault /\ LosePhotos(Pics(c)) /\ UNCHANGED store
  /\ UNCHANGED <<jobVars, sent, read, busy, seen, reviewVars, helpVars, now>>

\* getMessages: unread_count.
UnreadCount(j, p) ==
  Cardinality({m \in sent[j] : m.from # p /\ m.at > read[j][p]})

-----------------------------------------------------------------------------
(* getThreadMessages, read page by page                                    *)

\* What JavaScript keeps of an instant of the database.
Milli(t) == t \div Millisecond

\* jobChatEvents: what the job itself says in the chat.
Events(j) ==
  {e \in {[key |-> "deal", at |-> deal[j].made],
          [key |-> "start", at |-> deal[j].started],
          [key |-> "end", at |-> deal[j].ended]} : e.at # 0}

Entries(j) == {[key |-> "message", at |-> m.at] : m \in sent[j]} \cup Events(j)

\* The newest n of a set of entries, by their instants.
Newest(n, es) ==
  {e \in es : Cardinality({f \in es : f.at > e.at}) < n}

\* What is older than a millisecond: rows are compared as the database has
\* them, events as they are shown. (Entries of one millisecond are shown in
\* the order of their ids, which says nothing; here it is that of time.)
Older(j, before) ==
  Newest(Limit + 1, {e \in Entries(j) : e.key = "message"
                                       /\ e.at < before * Millisecond})
    \cup {e \in Events(j) : Milli(e.at) < before}

Page(j, before) == Newest(Limit, Older(j, before))

\* Mutation: only messages count.
HasMoreRows(j, before) ==
  Cardinality({e \in Older(j, before) : e.key = "message"}) > Limit

HasMore(j, before) == Cardinality(Older(j, before)) > Limit

Oldest(es) == CHOOSE t \in {Milli(e.at) : e \in es} :
                \A e \in es : t <= Milli(e.at)

\* All pages, from the first, which is asked for without a date.
AllPages(j) ==
  LET From[before \in 0..MaxTime + 1] ==
        LET page == Page(j, before) IN
        IF HasMore(j, before) THEN page \cup From[Oldest(page)] ELSE page
  IN From[MaxTime + 1]

-----------------------------------------------------------------------------
(* Reviews                                                                 *)

\* createReview: the three checks of the job and of its worker.
CreateReview(c, j) ==
  /\ status[j] = "completed" /\ accepted[j]
  /\ Begin(c, "review.insert", [NoArgs EXCEPT !.job = j])
  /\ UNCHANGED <<jobVars, chatVars, reviewVars, helpVars, faultVars, now>>

\* Another review that has read and not written will not know of this one.
Overlaps == \E d \in Calls : step[d] = "review.write"

\* ON CONFLICT (request_id) DO NOTHING.
InsertReview(c) ==
  LET j == args[c].job IN
  /\ step[c] = "review.insert"
  /\ IF j \in reviewed
     THEN Return(c) /\ UNCHANGED <<reviewed, lost>>
     ELSE /\ reviewed' = reviewed \cup {j}
          /\ Goto(c, "review.read")
          /\ lost' = [lost EXCEPT !.review = @ \/ Overlaps]
  /\ UNCHANGED <<jobVars, chatVars, rating, helpVars, faults, now>>

\* Mutation: the average leaves out the review that is being made.
AveragedBefore(c) == reviewed \ {args[c].job}

Averaged(c) == reviewed

ReadReviews(c) ==
  /\ step[c] = "review.read"
  /\ step' = [step EXCEPT ![c] = "review.write"]
  /\ args' = [args EXCEPT ![c].found = Averaged(c)]
  /\ UNCHANGED <<jobVars, chatVars, reviewVars, helpVars, faultVars, now>>

WriteRating(c) ==
  /\ step[c] = "review.write"
  /\ Return(c)
  /\ rating' = args[c].found
  /\ lost' = [lost EXCEPT !.average = FALSE]
  /\ UNCHANGED <<jobVars, chatVars, reviewed, helpVars, faults, now>>

-----------------------------------------------------------------------------
(* The administration edits the worker (update, reviewWorkerVerification)  *)

restVars == <<jobVars, chatVars, reviewed, helpVars, callVars, faults, now>>

ReadUser(e) ==
  /\ Admin!ReadUser(e, "worker", Row)
  /\ UNCHANGED <<restVars, rating, lost>>

LoadForSave(e) ==
  /\ Admin!LoadForSave(e, Row)
  /\ UNCHANGED <<restVars, rating, lost>>

\* No review clears the copy, and its average comes back with it.
WriteSave(e) ==
  /\ Admin!SaveSucceeds(e)
  /\ rating' = Admin!Saved(e, Row).average
  /\ lost' = [lost EXCEPT !.average = @ \/ rating' # rating]
  /\ UNCHANGED restVars

\* The rest changes no row.
EditElsewhere(e) ==
  /\ Admin!FillCopy(e) \/ Admin!SaveFails(e) \/ Admin!ClearCopy(e)
  /\ UNCHANGED <<restVars, rating, lost>>

CopyExpires ==
  /\ Admin!CopyExpires("worker")
  /\ UNCHANGED <<restVars, rating, lost>>

AdminActs ==
  \/ \E e \in Edits : \/ ReadUser(e) \/ LoadForSave(e)
                     \/ WriteSave(e) \/ EditElsewhere(e)
  \/ CopyExpires

-----------------------------------------------------------------------------
(* Complaints                                                              *)

CreateDispute(d) ==
  /\ complaint[d] = "none"
  /\ complaint' = [complaint EXCEPT ![d] = "open"]
  /\ UNCHANGED <<jobVars, chatVars, reviewVars, support, userRead, heard,
                 callVars, faultVars, now>>

\* By id: a complaint that is resolved is resolved once more.
ResolveDispute(d) ==
  /\ complaint[d] # "none"
  /\ complaint' = [complaint EXCEPT ![d] = "resolved"]
  /\ UNCHANGED <<jobVars, chatVars, reviewVars, support, userRead, heard,
                 callVars, faultVars, now>>

\* Nor does a resolution end the conversation.
SendDisputeMessage(d, s) ==
  /\ complaint[d] # "none"
  /\ Stamp
  /\ support' = [support EXCEPT ![d] = @ \cup
       {[from |-> s, at |-> now, pic |-> None, crossed |-> {}]}]
  /\ UNCHANGED <<jobVars, chatVars, reviewVars, complaint, userRead, heard,
                 callVars, faultVars>>

\* getDisputeMessages: one mark serves both parties ...
GetDisputeMessages(c, d) ==
  /\ complaint[d] # "none"
  /\ Stamp
  /\ Begin(c, "help.read", [NoArgs EXCEPT !.job = d])
  /\ userRead' = [userRead EXCEPT ![d] = now]
  /\ UNCHANGED <<jobVars, chatVars, reviewVars, complaint, support, heard,
                 faultVars>>

\* ORDER BY created_at ASC LIMIT 500: the oldest are shown.
Shown(d) ==
  {m \in support[d] : Cardinality({n \in support[d] : n.at < m.at}) < HelpLimit}

\* ... and then the messages are read.
ReadHelp(c) ==
  LET d == args[c].job IN
  /\ step[c] = "help.read"
  /\ Return(c)
  /\ heard' = [heard EXCEPT ![d] = @ \cup Ats(Shown(d))]
  /\ UNCHANGED <<jobVars, chatVars, reviewVars, complaint, support, userRead,
                 faultVars, now>>

\* getUserActiveDisputes: unread_count.
UnreadHelp(d, p) == {m \in support[d] : m.from # p /\ m.at > userRead[d]}

-----------------------------------------------------------------------------
\* The process stops, and what it has in memory is gone; not Redis.
Crash ==
  /\ (\E c \in Calls : step[c] # "idle") \/ edit # [e \in Edits |-> Admin!NoEdit]
  /\ Fault
  /\ lost' = [lost EXCEPT
       !.photos = @ \cup UNION {Pics(c) : c \in Calls},
       !.helps  = @ \cup
                  {args[c].job : c \in {d \in Calls : step[d] = "help.read"}},
       !.review = @ \/ \E c \in Calls : step[c] \in {"review.read",
                                                     "review.write"}]
  /\ edit' = [e \in Edits |-> Admin!NoEdit]
  /\ step' = [c \in Calls |-> "idle"] /\ args' = [c \in Calls |-> NoArgs]
  /\ holder' = [j \in Jobs |-> None] /\ busy' = FALSE
  /\ UNCHANGED <<status, accepted, deal, sent, read, store, seen, reviewVars,
                 helpVars, copy, now>>

CallBegins(c) ==
  \/ \E j \in Jobs : CreateReview(c, j) \/ \E p \in Parties :
       MarkThreadRead(c, j, p) \/ SendMessage(c, j, p) \/ SendPhoto(c, j, p)
  \/ \E d \in Disputes : GetDisputeMessages(c, d)

CallContinues(c) ==
  \/ MarkWrite(c) \/ CheckPhoto(c) \/ ReviewPhoto(c) \/ UploadPhoto(c)
  \/ LockJob(c) \/ InsertMessage(c) \/ DeletePhoto(c)
  \/ InsertReview(c) \/ ReadReviews(c) \/ WriteRating(c) \/ ReadHelp(c)

Environment ==
  \/ \E j \in Jobs : \/ StartWork(j) \/ Overwrite(j)
                     \/ EndJob(j, "completed") \/ EndJob(j, "cancelled")
  \/ \E d \in Disputes : \/ CreateDispute(d) \/ ResolveDispute(d)
                         \/ \E s \in Sides : SendDisputeMessage(d, s)
  \/ Tick

Next ==
  \/ \E c \in Calls : CallBegins(c) /\ UNCHANGED editVars
  \/ \E c \in Calls : CallContinues(c) /\ UNCHANGED editVars
  \/ Environment /\ UNCHANGED editVars
  \/ AdminActs \/ Crash

Spec == Init /\ [][Next]_vars

\* Handlers go on.
FairSpec ==
  Spec /\ \A c \in Calls : WF_vars(CallContinues(c) /\ UNCHANGED editVars)

-----------------------------------------------------------------------------
(* Properties                                                              *)

\* "completing/cancelling cannot race a send" (persistMessage): nothing is
\* said in a job that has ended, not even by a message or a photo that was
\* under way when it did.
SaidInTime ==
  [][\A j \in Jobs : sent'[j] # sent[j] => status[j] \in Writable]_vars

\* A photo in the chat is there to be seen, and a photo that is stored is in
\* the chat or on its way; but for those that a lost answer, of the store or of
\* the COMMIT, a failed deletion or a process that stopped left behind
\* (sendPhoto, uploadBase64Image).
PhotosAreKept ==
  LET shown == (UNION {{m.pic : m \in sent[j]} : j \in Jobs}) \ {None} IN
  /\ shown \subseteq store \cup lost.photos
  /\ store \subseteq shown \cup lost.photos \cup UNION {Pics(c) : c \in Calls}

\* The one flag that all photos of a process wait for is put down again,
\* whatever a photo turns out to be (validate).
PhotosGoOn == []<>(~ busy)

\* A message that came after a party last marked the thread is counted as
\* unread, and nothing else is; a message whose transaction had begun at that
\* mark is the exception, and never counted (getMessages, markThreadRead).
UnreadIsUnseen ==
  \A j \in Jobs, p \in Parties :
    UnreadCount(j, p) =
      Cardinality({m \in sent[j] : /\ m.from # p /\ m.at \notin seen[j][p]
                                   /\ p \notin m.crossed})

\* Who reads a chat back page by page sees every message and every event of
\* the job, as long as no two are of one millisecond (getThreadMessages).
PagesShowAll ==
  \A j \in Jobs :
    (\A x, y \in Entries(j) : x # y => Milli(x.at) # Milli(y.at))
      => AllPages(j) = Entries(j)

\* When no review is being made, a worker's rating is the average of all
\* reviews; but for a review that was inserted while another had read and not
\* written, for a process that stopped half way, and, until the next review,
\* for an edit of the worker that saved an old copy (createReview, update).
RatingIsFresh ==
  (\A c \in Calls : step[c] \notin {"review.read", "review.write"})
    => rating = reviewed \/ lost.review \/ lost.average

\* A message of a complaint that counts as read has been shown to a party, or
\* is about to be; only the first HelpLimit ever are (getDisputeMessages).
SupportIsSeen ==
  \A d \in Disputes : \A m \in support[d] \ UnreadHelp(d, "nobody") :
    \/ m.at \in heard[d] \/ d \in lost.helps
    \/ \E c \in Calls : step[c] = "help.read" /\ args[c].job = d
    \/ Cardinality({n \in support[d] : n.at < m.at}) >= HelpLimit

\* No message is passed over: unread until seen, on a page, shown before it
\* counts as read (getMessages, getThreadMessages, getDisputeMessages).
NothingIsPassedOver == UnreadIsUnseen /\ PagesShowAll /\ SupportIsSeen
=============================================================================
