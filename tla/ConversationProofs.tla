------------------------- MODULE ConversationProofs -------------------------
(***************************************************************************)
(* Proofs about Conversation, for any jobs, complaints and calls at once,  *)
(* any length of a page and any grain of the clock that pages are cut by.  *)
(***************************************************************************)
EXTENDS Conversation, FiniteSetTheorems, TLAPS

(***************************************************************************)
(* The inductive invariant                                                 *)
(***************************************************************************)

ThreadSteps == {"mark.write", "photo.check", "photo.review", "photo.upload",
                "send.lock", "send.insert", "photo.delete"}
PhotoSteps  == {"photo.check", "photo.review", "photo.upload"}
ReviewSteps == {"review.insert", "review.read", "review.write"}
Sending     == {"send.lock", "send.insert"}
Rating      == {"review.read", "review.write"}

\* What a call is about, and that its message is of the past. Only a message
\* that is under way, or was refused, has a picture or has been passed by.
CallIsSound(c) ==
  /\ step[c] \in ThreadSteps => args[c].job \in Jobs /\ args[c].who \in Parties
  /\ step[c] \in ReviewSteps => args[c].job \in Jobs
  /\ step[c] = "help.read"   => args[c].job \in Disputes
  /\ args[c].at < now
  /\ step[c] \notin Sending \cup {"photo.delete"} =>
       args[c].pic = None /\ args[c].crossed = {}
  /\ args[c].pic # None \/ step[c] \in PhotoSteps => args[c].photo

CallsAreSound == \A c \in Calls : CallIsSound(c)

\* Who is about to insert a message holds the row of the job, which is open.
LockIsHeld ==
  \A c \in Calls : step[c] = "send.insert" =>
    holder[args[c].job] = c /\ status[args[c].job] \in Writable

\* A message is older than a mark if the mark saw it, or passed it by while it
\* was under way.
MarksAreSound ==
  \A j \in Jobs, p \in Parties :
    /\ read[j][p] < now
    /\ \A t \in seen[j][p] : t <= read[j][p]
    /\ \A m \in sent[j] :
         /\ m.at < now
         /\ m.at <= read[j][p] <=> m.at \in seen[j][p] \/ p \in m.crossed
    /\ \A c \in Calls : step[c] \in Sending /\ args[c].job = j =>
         (args[c].at <= read[j][p] <=> p \in args[c].crossed)

Posted(i) == \E j \in Jobs : \E m \in sent[j] : m.pic = i

\* No two calls have the same picture. It is stored and not posted while its
\* message is under way, and one that is to be deleted was not posted, or the
\* answer was lost.
PhotosAreSound ==
  /\ \A j \in Jobs : \A m \in sent[j] :
       m.pic # None => m.pic < now /\ m.pic \in store \cup lost.photos
  /\ \A i \in store :
       i < now /\ (Posted(i) \/ i \in lost.photos \/ \E c \in Calls : args[c].pic = i)
  /\ \A c \in Calls : args[c].pic # None =>
       /\ args[c].pic < now
       /\ \A d \in Calls \ {c} : args[d].pic # args[c].pic
       /\ step[c] \in Sending => args[c].pic \in store /\ ~ Posted(args[c].pic)
       /\ step[c] = "photo.delete" =>
            (Posted(args[c].pic) => args[c].pic \in lost.photos)

\* What a review has read and not written is all there is, and what it wrote
\* stays until an old copy is saved.
RatingIsSound ==
  \/ lost.review
  \/ /\ \A c \in Calls : step[c] = "review.write" => args[c].found = reviewed
     /\ (\A c \in Calls : step[c] \notin Rating) =>
          rating = reviewed \/ lost.average

HelpIsSound ==
  \A d \in Disputes :
    /\ userRead[d] < now
    /\ \A m \in support[d] :
         /\ m.at < now
         /\ m.at <= userRead[d] =>
              \/ m.at \in heard[d] \/ d \in lost.helps
              \/ \E c \in Calls : step[c] = "help.read" /\ args[c].job = d
              \/ Cardinality({n \in support[d] : n.at < m.at}) >= HelpLimit

\* The types of all but the edits, which no call touches.
DealsTyped ==
  /\ status   \in [Jobs -> {"assigned", "completed", "cancelled"}]
  /\ accepted \in [Jobs -> BOOLEAN]
  /\ deal     \in [Jobs -> [made : Instants, started : Instants,
                            ended : Instants]]
  /\ holder \in [Jobs -> Calls \cup {None}]
  /\ sent   \in [Jobs -> SUBSET Messages]
  /\ read   \in [Jobs -> [Parties -> Instants]]
  /\ seen   \in [Jobs -> [Parties -> SUBSET Instants]]
  /\ busy   \in BOOLEAN /\ store \subseteq Images
  /\ reviewed \subseteq Jobs /\ rating \subseteq Jobs
  /\ complaint \in [Disputes -> {"none", "open", "resolved"}]
  /\ support   \in [Disputes -> SUBSET Messages]
  /\ userRead  \in [Disputes -> Instants]
  /\ heard     \in [Disputes -> SUBSET Instants]
  /\ step \in [Calls -> Steps] /\ args \in [Calls -> Args]
  /\ now \in 1..MaxTime /\ faults \in 0..MaxFaults
  /\ lost \in Losses

Safe ==
  /\ CallsAreSound /\ LockIsHeld /\ MarksAreSound /\ PhotosAreSound
  /\ RatingIsSound /\ HelpIsSound

Sound == DealsTyped /\ Safe

EditRecords == [at : Admin!Places, usr : {"worker"} \cup {None},
                base : Rows \cup {None}, diff : SUBSET Columns]

\* An edit in flight is of the worker and holds a row.
EditsAreSound ==
  /\ Admin!CopiesAreRows
  /\ \A e \in Edits : edit[e].at # "idle" =>
       edit[e].usr = "worker" /\ edit[e].base \in Rows

IInv == Sound /\ EditsAreSound

-----------------------------------------------------------------------------
(* The initial states                                                      *)

LEMMA ConstantsAreTyped ==
  /\ NoArgs \in Args /\ NoArgs.pic = None /\ NoArgs.crossed = {} /\ NoArgs.at = 0
  /\ 0 \in Instants /\ Instants \subseteq Nat /\ Images \subseteq Nat
  /\ None \notin Images /\ None \notin Nat /\ None \notin Calls
  /\ MaxTime \in Nat /\ MaxTime > 1
<1>1. 0 \in Instants /\ Instants \subseteq Nat /\ Images \subseteq Nat
  BY BoundsAreNaturals DEF Instants, Images
<1>2. None \notin Images /\ None \notin Nat /\ None \notin Calls
  BY <1>1, NoneIsNothing
<1> QED  BY <1>1, <1>2, BoundsAreNaturals DEF NoArgs, Args

LEMMA InstantsAreTyped ==
  ASSUME DealsTyped
  PROVE  /\ now \in Nat /\ now \in Instants
         /\ \A j \in Jobs, p \in Parties :
              read[j][p] \in Nat /\ \A t \in seen[j][p] : t \in Nat
         /\ \A j \in Jobs : \A m \in sent[j] :
              m \in Messages /\ m.at \in Nat /\ (m.pic # None => m.pic \in Images)
         /\ \A d \in Disputes : userRead[d] \in Nat
         /\ \A d \in Disputes : \A m \in support[d] : m \in Messages /\ m.at \in Nat
         /\ \A c \in Calls : /\ args[c] \in Args /\ args[c].at \in Nat
                             /\ args[c].pic # None => args[c].pic \in Images
<1> USE ConstantsAreTyped
<1>1. now \in Nat /\ now \in Instants
  BY DEF DealsTyped, Instants
<1>2. \A j \in Jobs, p \in Parties :
        read[j][p] \in Nat /\ \A t \in seen[j][p] : t \in Nat
  <2> SUFFICES ASSUME NEW j \in Jobs, NEW p \in Parties
               PROVE  read[j][p] \in Nat /\ \A t \in seen[j][p] : t \in Nat
    OBVIOUS
  <2>1. read[j] \in [Parties -> Instants] /\ seen[j] \in [Parties -> SUBSET Instants]
    BY DEF DealsTyped
  <2> QED  BY <2>1
<1>3. \A m \in Messages : m.at \in Nat /\ (m.pic # None => m.pic \in Images)
  BY DEF Messages
<1>4. /\ \A j \in Jobs : \A m \in sent[j] : m \in Messages
      /\ \A d \in Disputes : \A m \in support[d] : m \in Messages
  BY DEF DealsTyped
<1>5. \A a \in Args : a.at \in Nat /\ (a.pic # None => a.pic \in Images)
  BY DEF Args
<1>6. \A c \in Calls : args[c] \in Args
  BY DEF DealsTyped
<1>7. \A d \in Disputes : userRead[d] \in Nat
  BY DEF DealsTyped
<1> QED  BY <1>1, <1>2, <1>3, <1>4, <1>5, <1>6, <1>7

LEMMA InitSound == Init => Sound
<1> SUFFICES ASSUME Init PROVE Sound
  OBVIOUS
<1> USE DEF Init
<1>1. DealsTyped
  <2>1. now \in 1..MaxTime /\ 1 \in Instants /\ 0 \in Instants /\ faults \in 0..MaxFaults
    BY ConstantsAreTyped, BoundsAreNaturals DEF Instants
  <2>2. step \in [Calls -> Steps] /\ args \in [Calls -> Args]
    BY ConstantsAreTyped DEF Steps
  <2>3. /\ deal \in [Jobs -> [made : Instants, started : Instants, ended : Instants]]
        /\ read \in [Jobs -> [Parties -> Instants]]
        /\ seen \in [Jobs -> [Parties -> SUBSET Instants]]
    BY <2>1
  <2> QED
    BY <2>1, <2>2, <2>3 DEF DealsTyped, Losses
<1>2. CallsAreSound
  BY ConstantsAreTyped DEF CallsAreSound, CallIsSound, ThreadSteps, ReviewSteps,
     PhotoSteps
<1>3. LockIsHeld /\ MarksAreSound
  BY DEF LockIsHeld, MarksAreSound, Sending
<1>4. PhotosAreSound
  BY ConstantsAreTyped DEF PhotosAreSound
<1>5. RatingIsSound /\ HelpIsSound
  BY DEF RatingIsSound, HelpIsSound
<1> QED  BY <1>1, <1>2, <1>3, <1>4, <1>5 DEF Sound, Safe

-----------------------------------------------------------------------------
(* What a step leaves alone                                                *)

\* The call stands at h with the arguments a, and all others where they were.
Moves(c, h, a) ==
  /\ step' \in [Calls -> Steps] /\ args' \in [Calls -> Args]
  /\ step'[c] = h /\ args'[c] = a
  /\ \A d \in Calls \ {c} : step'[d] = step[d] /\ args'[d] = args[d]

LEMMA BeginMoves ==
  ASSUME DealsTyped, NEW c \in Calls, NEW h \in Steps, NEW a \in Args, Begin(c, h, a)
  PROVE  Moves(c, h, a) /\ step[c] = "idle"
BY DEF Begin, Moves, DealsTyped

LEMMA GotoMoves ==
  ASSUME DealsTyped, NEW c \in Calls, NEW h \in Steps, Goto(c, h)
  PROVE  Moves(c, h, args[c])
BY DEF Goto, Moves, DealsTyped

LEMMA ReturnMoves ==
  ASSUME DealsTyped, NEW c \in Calls, Return(c)
  PROVE  Moves(c, "idle", NoArgs)
BY ConstantsAreTyped DEF Return, Moves, DealsTyped, Steps

\* The clock does not go back.
LaterOn == now' \in 1..MaxTime /\ now \in Nat /\ now' \in Nat /\ now <= now'

LEMMA StampIsLater == DealsTyped /\ (Stamp \/ now' = now) => LaterOn
BY BoundsAreNaturals DEF DealsTyped, Stamp, LaterOn

LEMMA CallsKept ==
  ASSUME DealsTyped, CallsAreSound, LaterOn, NEW c \in Calls, NEW h, NEW a,
         Moves(c, h, a), CallIsSound(c)'
  PROVE  CallsAreSound'
<1> SUFFICES ASSUME NEW d \in Calls PROVE CallIsSound(d)'
  BY DEF CallsAreSound
<1>1. CASE d = c
  BY <1>1
<1>2. CASE d # c
  <2>1. step'[d] = step[d] /\ args'[d] = args[d] /\ CallIsSound(d)
    BY <1>2 DEF Moves, CallsAreSound
  <2>2. args[d].at \in Nat
    BY ConstantsAreTyped DEF DealsTyped, Args
  <2> QED  BY <2>1, <2>2 DEF CallIsSound, LaterOn
<1> QED  BY <1>1, <1>2

LEMMA LockKept ==
  ASSUME LockIsHeld,
         \A d \in Calls : step'[d] = "send.insert" =>
           /\ step[d] = "send.insert" /\ args'[d].job = args[d].job
           /\ holder'[args[d].job] = holder[args[d].job]
           /\ status'[args[d].job] = status[args[d].job]
  PROVE  LockIsHeld'
BY DEF LockIsHeld, Writable

LEMMA MarksKept ==
  ASSUME DealsTyped, MarksAreSound, LaterOn, UNCHANGED <<sent, read, seen>>,
         \A d \in Calls : step'[d] \in Sending =>
           \/ /\ step[d] \in Sending /\ args'[d].at = args[d].at
              /\ args'[d].job = args[d].job /\ args'[d].crossed = args[d].crossed
           \/ args'[d].at = now /\ args'[d].crossed = {}
  PROVE  MarksAreSound'
<1> SUFFICES ASSUME NEW j \in Jobs, NEW p \in Parties
             PROVE  /\ read[j][p] < now'
                    /\ \A t \in seen[j][p] : t <= read[j][p]
                    /\ \A m \in sent[j] :
                         /\ m.at < now'
                         /\ m.at <= read[j][p] <=> m.at \in seen[j][p] \/ p \in m.crossed
                    /\ \A c \in Calls : step'[c] \in Sending /\ args'[c].job = j =>
                         (args'[c].at <= read[j][p] <=> p \in args'[c].crossed)
  BY DEF MarksAreSound
<1>1. read[j][p] \in Nat /\ \A m \in sent[j] : m.at \in Nat
  BY InstantsAreTyped
<1>2. /\ read[j][p] < now
      /\ \A t \in seen[j][p] : t <= read[j][p]
      /\ \A m \in sent[j] :
           /\ m.at < now
           /\ m.at <= read[j][p] <=> m.at \in seen[j][p] \/ p \in m.crossed
      /\ \A c \in Calls : step[c] \in Sending /\ args[c].job = j =>
           (args[c].at <= read[j][p] <=> p \in args[c].crossed)
  BY DEF MarksAreSound
<1>3. ASSUME NEW c \in Calls, step'[c] \in Sending, args'[c].job = j
      PROVE  args'[c].at <= read[j][p] <=> p \in args'[c].crossed
  <2>1. CASE args'[c].at = now /\ args'[c].crossed = {}
    BY <1>1, <1>2, <2>1 DEF LaterOn
  <2> QED  BY <1>2, <1>3, <2>1
<1> QED  BY <1>1, <1>2, <1>3 DEF LaterOn

LEMMA PhotosKept ==
  ASSUME DealsTyped, PhotosAreSound, LaterOn, UNCHANGED <<sent, store>>,
         lost'.photos = lost.photos,
         \A d \in Calls :
           /\ args'[d].pic = args[d].pic
           /\ args[d].pic # None =>
                /\ step'[d] \in Sending => step[d] \in Sending
                /\ step'[d] = "photo.delete" => step[d] \in Sending \cup {"photo.delete"}
  PROVE  PhotosAreSound'
<1>1. \A i : Posted(i)' <=> Posted(i)
  BY DEF Posted
<1>2. \A j \in Jobs : \A m \in sent'[j] :
        m.pic # None => m.pic < now' /\ m.pic \in store' \cup lost'.photos
  <2> SUFFICES ASSUME NEW j \in Jobs, NEW m \in sent[j], m.pic # None
               PROVE  m.pic < now' /\ m.pic \in store \cup lost.photos
    OBVIOUS
  <2>1. m.pic \in Nat
    BY ConstantsAreTyped, InstantsAreTyped
  <2> QED  BY <2>1 DEF PhotosAreSound, LaterOn
<1>3. \A i \in store' : i < now' /\ (Posted(i)' \/ i \in lost'.photos
                                      \/ \E c \in Calls : args'[c].pic = i)
  <2> SUFFICES ASSUME NEW i \in store
               PROVE  i < now' /\ (Posted(i) \/ i \in lost.photos
                                    \/ \E c \in Calls : args[c].pic = i)
    BY <1>1
  <2>1. i \in Nat
    BY ConstantsAreTyped DEF DealsTyped
  <2> QED  BY <2>1 DEF PhotosAreSound, LaterOn
<1>4. ASSUME NEW c \in Calls, args'[c].pic # None
      PROVE  /\ args'[c].pic < now'
             /\ \A d \in Calls \ {c} : args'[d].pic # args'[c].pic
             /\ step'[c] \in Sending =>
                  \A i : i = args'[c].pic => i \in store' /\ ~ Posted(i)'
             /\ step'[c] = "photo.delete" =>
                  \A i : i = args'[c].pic => (Posted(i)' => i \in lost'.photos)
  <2>1. args[c].pic \in Nat /\ args[c].pic # None /\ args'[c].pic = args[c].pic
    BY <1>4, ConstantsAreTyped DEF DealsTyped, Args
  <2>2. /\ args[c].pic < now
        /\ \A d \in Calls \ {c} : args[d].pic # args[c].pic
        /\ step[c] \in Sending => args[c].pic \in store /\ ~ Posted(args[c].pic)
        /\ step[c] = "photo.delete" =>
             (Posted(args[c].pic) => args[c].pic \in lost.photos)
    BY <2>1 DEF PhotosAreSound
  <2> QED  BY <1>1, <2>1, <2>2 DEF LaterOn
<1> QED  BY <1>2, <1>3, <1>4 DEF PhotosAreSound

LEMMA RatingKept ==
  ASSUME RatingIsSound, UNCHANGED <<reviewed, rating>>, lost'.review = lost.review,
         lost'.average = lost.average,
         \A d \in Calls : /\ step'[d] \in Rating <=> step[d] \in Rating
                          /\ step'[d] = "review.write" =>
                               step[d] = "review.write" /\ args'[d] = args[d]
  PROVE  RatingIsSound'
BY DEF RatingIsSound

LEMMA HelpKept ==
  ASSUME DealsTyped, HelpIsSound, LaterOn, UNCHANGED <<support, userRead, heard>>,
         lost.helps \subseteq lost'.helps,
         \A d \in Calls : step[d] = "help.read" =>
           step'[d] = "help.read" /\ args'[d] = args[d]
  PROVE  HelpIsSound'
<1> SUFFICES ASSUME NEW d \in Disputes
             PROVE  /\ userRead[d] < now'
                    /\ \A m \in support[d] :
                         /\ m.at < now'
                         /\ m.at <= userRead[d] =>
                              \/ m.at \in heard[d] \/ d \in lost'.helps
                              \/ \E c \in Calls : step'[c] = "help.read" /\ args'[c].job = d
                              \/ Cardinality({n \in support[d] : n.at < m.at}) >= HelpLimit
  BY DEF HelpIsSound
<1>1. userRead[d] \in Nat /\ \A m \in support[d] : m.at \in Nat
  BY InstantsAreTyped
<1>2. userRead[d] < now'
  BY <1>1 DEF HelpIsSound, LaterOn
<1>3. ASSUME NEW m \in support[d]
      PROVE  /\ m.at < now'
             /\ m.at <= userRead[d] =>
                  \/ m.at \in heard[d] \/ d \in lost'.helps
                  \/ \E c \in Calls : step'[c] = "help.read" /\ args'[c].job = d
                  \/ Cardinality({n \in support[d] : n.at < m.at}) >= HelpLimit
  <2>1. m.at < now /\ m.at \in Nat
    BY <1>1 DEF HelpIsSound
  <2>2. m.at <= userRead[d] =>
          \/ m.at \in heard[d] \/ d \in lost.helps
          \/ \E c \in Calls : step[c] = "help.read" /\ args[c].job = d
          \/ Cardinality({n \in support[d] : n.at < m.at}) >= HelpLimit
    BY DEF HelpIsSound
  <2>3. m.at < now'
    BY <2>1 DEF LaterOn
  <2> QED  BY <2>2, <2>3
<1> QED  BY <1>2, <1>3

-----------------------------------------------------------------------------
(* Steps of a call that only its own position shows                        *)

LEMMA QuietStep ==
  ASSUME Sound, NEW c \in Calls, NEW h, NEW a, Moves(c, h, a), LaterOn,
         UNCHANGED <<status, accepted, deal, holder>>,
         UNCHANGED <<sent, read, store, seen, reviewed, rating>>,
         UNCHANGED <<complaint, support, userRead, heard, faults, lost>>,
         busy' \in BOOLEAN,
         step[c] \notin Rating \cup {"help.read"},
         h \notin Rating \cup {"help.read", "send.insert"},
         h \in ThreadSteps => a.job \in Jobs /\ a.who \in Parties,
         h \in ReviewSteps => a.job \in Jobs,
         a.at < now',
         h \in Sending => a.at = now /\ a.pic = None /\ a.crossed = {},
         h \notin Sending \cup {"photo.delete"} => a.pic = None /\ a.crossed = {},
         a.pic = args[c].pic, h \in PhotoSteps => a.photo,
         a.pic # None => a.photo /\ step[c] \in Sending
  PROVE  Sound'
<1> USE DEF Sound, Safe
<1>1. DealsTyped'
  BY DEF DealsTyped, Moves, LaterOn
<1>2. CallIsSound(c)'
  BY DEF CallIsSound, Moves, ReviewSteps, Rating
<1>3. CallsAreSound'
  BY <1>2, CallsKept
<1>4. LockIsHeld'
  BY LockKept DEF Moves
<1>5. MarksAreSound'
  BY MarksKept DEF Moves
<1>6. PhotosAreSound'
  BY PhotosKept DEF Moves
<1>7. RatingIsSound'
  BY RatingKept DEF Moves, Rating
<1>8. HelpIsSound'
  BY HelpKept DEF Moves
<1> QED  BY <1>1, <1>3, <1>4, <1>5, <1>6, <1>7, <1>8

LEMMA ChatBegins ==
  ASSUME Sound, NEW c \in Calls, NEW j \in Jobs, NEW p \in Parties,
         MarkThreadRead(c, j, p) \/ SendMessage(c, j, p) \/ SendPhoto(c, j, p)
           \/ CreateReview(c, j)
  PROVE  Sound'
<1> USE DEF Sound, Safe
<1>1. /\ UNCHANGED <<status, accepted, deal, holder>>
      /\ UNCHANGED <<sent, read, store, seen, reviewed, rating>>
      /\ UNCHANGED <<complaint, support, userRead, heard, faults, lost, busy>>
      /\ step[c] = "idle" /\ LaterOn
  BY StampIsLater DEF MarkThreadRead, SendMessage, SendPhoto, CreateReview, Begin,
     jobVars, chatVars, reviewVars, helpVars, faultVars
<1>2. args[c].pic = None /\ now \in Nat /\ now \in Instants /\ busy \in BOOLEAN
  BY <1>1, InstantsAreTyped DEF CallsAreSound, CallIsSound, Sending, DealsTyped
<1>3. CASE SendMessage(c, j, p)
  <2> DEFINE a == [NoArgs EXCEPT !.job = j, !.who = p, !.at = now]
  <2>1. /\ a \in Args /\ a.job = j /\ a.who = p /\ a.pic = None /\ a.crossed = {}
        /\ a.at = now
    BY <1>2, ConstantsAreTyped DEF Args, NoArgs, Sides
  <2>2. Begin(c, "send.lock", a) /\ now < now'
    BY <1>2, <1>3 DEF SendMessage, Stamp
  <2> HIDE DEF a
  <2>3. Moves(c, "send.lock", a)
    BY <2>1, <2>2, BeginMoves DEF Steps
  <2> QED
    BY <1>1, <1>2, <2>1, <2>2, <2>3, QuietStep DEF Rating, Sending, ThreadSteps,
       ReviewSteps, PhotoSteps
<1>4. CASE MarkThreadRead(c, j, p) \/ SendPhoto(c, j, p) \/ CreateReview(c, j)
  <2>1. PICK h \in {"mark.write", "photo.check", "review.insert"}, a \in Args :
          /\ Begin(c, h, a) /\ a.job = j /\ a.pic = None /\ a.crossed = {}
          /\ a.at = 0 /\ (h # "review.insert" => a.who = p)
          /\ (h = "photo.check" => a.photo)
    <3>1. CASE MarkThreadRead(c, j, p)
      <4> DEFINE a == [NoArgs EXCEPT !.job = j, !.who = p]
      <4>1. /\ a \in Args /\ a.job = j /\ a.who = p /\ a.pic = None
            /\ a.crossed = {} /\ a.at = 0
        BY ConstantsAreTyped DEF Args, NoArgs, Sides
      <4> QED  BY <3>1, <4>1 DEF MarkThreadRead
    <3>2. CASE SendPhoto(c, j, p)
      <4> DEFINE a == [NoArgs EXCEPT !.job = j, !.who = p, !.photo = TRUE]
      <4>1. /\ a \in Args /\ a.job = j /\ a.who = p /\ a.pic = None
            /\ a.crossed = {} /\ a.at = 0 /\ a.photo
        BY ConstantsAreTyped DEF Args, NoArgs, Sides
      <4> QED  BY <3>2, <4>1 DEF SendPhoto
    <3>3. CASE CreateReview(c, j)
      <4> DEFINE a == [NoArgs EXCEPT !.job = j]
      <4>1. /\ a \in Args /\ a.job = j /\ a.pic = None
            /\ a.crossed = {} /\ a.at = 0
        BY ConstantsAreTyped DEF Args, NoArgs, Sides
      <4> QED  BY <3>3, <4>1 DEF CreateReview
    <3> QED  BY <1>4, <3>1, <3>2, <3>3
  <2>2. Moves(c, h, a)
    BY <2>1, BeginMoves DEF Steps
  <2>3. 0 < now'
    BY <1>1 DEF LaterOn
  <2> QED
    BY <1>1, <1>2, <2>1, <2>2, <2>3, QuietStep DEF Rating, Sending, ThreadSteps,
       ReviewSteps, PhotoSteps
<1> QED  BY <1>3, <1>4

LEMMA AfterRefusalMoves ==
  ASSUME DealsTyped, CallsAreSound, NEW c \in Calls, AfterRefusal(c)
  PROVE  \/ Moves(c, "photo.delete", args[c])
         \/ Moves(c, "idle", NoArgs) /\ args[c].pic = None
BY GotoMoves, ReturnMoves DEF AfterRefusal, CallsAreSound, CallIsSound, Steps

LEMMA QuietChat ==
  ASSUME Sound, NEW c \in Calls,
         \/ CheckPhoto(c) \/ ReviewPhoto(c)
         \/ /\ step[c] = "photo.upload" /\ Return(c)
            /\ UNCHANGED <<jobVars, chatVars, reviewVars, helpVars, faultVars, now>>
         \/ /\ step[c] = "send.lock" /\ AfterRefusal(c)
            /\ UNCHANGED <<jobVars, chatVars, reviewVars, helpVars, faultVars, now>>
  PROVE  Sound'
<1> USE DEF Sound, Safe
<1>1. /\ UNCHANGED <<status, accepted, deal, holder>>
      /\ UNCHANGED <<sent, read, store, seen, reviewed, rating>>
      /\ UNCHANGED <<complaint, support, userRead, heard, faults, lost, now>>
      /\ step[c] \in {"photo.check", "photo.review", "photo.upload", "send.lock"}
      /\ LaterOn
  BY StampIsLater DEF CheckPhoto, ReviewPhoto, jobVars, chatVars, reviewVars,
     helpVars, faultVars
<1>2. busy' \in BOOLEAN
  BY DEF CheckPhoto, ReviewPhoto, StillBusy, chatVars, DealsTyped
<1>3. /\ args[c].job \in Jobs /\ args[c].who \in Parties /\ args[c].at < now
      /\ args[c].pic # None => args[c].photo /\ step[c] = "send.lock"
      /\ step[c] # "send.lock" => args[c].crossed = {} /\ args[c].photo
      /\ 0 < now /\ now' = now
  <2>1. CallIsSound(c)
    BY DEF CallsAreSound
  <2>2. step[c] # "send.lock" =>
          args[c].pic = None /\ args[c].crossed = {} /\ args[c].photo
    BY <1>1, <2>1 DEF CallIsSound, Sending, PhotoSteps
  <2>3. 0 < now
    BY <1>1 DEF LaterOn
  <2> QED  BY <1>1, <2>1, <2>2, <2>3 DEF CallIsSound, ThreadSteps
<1>4. CASE step[c] = "send.lock" /\ Moves(c, "photo.delete", args[c])
  BY <1>1, <1>2, <1>3, <1>4, QuietStep DEF Rating, Sending, ThreadSteps, ReviewSteps, PhotoSteps
<1>5. CASE Moves(c, "idle", NoArgs) /\ args[c].pic = None
  BY <1>1, <1>2, <1>3, <1>5, ConstantsAreTyped, QuietStep
  DEF Rating, Sending, ThreadSteps, ReviewSteps, PhotoSteps
<1>6. CASE step[c] # "send.lock" /\ \E h \in {"photo.review", "photo.upload"} : Goto(c, h)
  <2>1. PICK h \in {"photo.review", "photo.upload"} : Moves(c, h, args[c])
    BY <1>6, GotoMoves DEF Steps
  <2> QED
    BY <1>1, <1>2, <1>3, <1>6, <2>1, QuietStep
    DEF Rating, Sending, ThreadSteps, ReviewSteps, PhotoSteps
<1>7. CASE step[c] # "send.lock" /\ Return(c)
  BY <1>3, <1>5, <1>7, ReturnMoves
<1>8. CASE step[c] = "send.lock" /\ AfterRefusal(c)
  BY <1>4, <1>5, <1>8, AfterRefusalMoves
<1> QED  BY <1>6, <1>7, <1>8 DEF CheckPhoto, ReviewPhoto

-----------------------------------------------------------------------------
(* The message and its photo                                               *)

LEMMA LockJobStep ==
  ASSUME Sound, NEW c \in Calls, LockJob(c)
  PROVE  Sound'
<1> USE DEF Sound, Safe
<1> DEFINE j == args[c].job
<1>1. CASE AfterRefusal(c) /\ UNCHANGED holder
  BY <1>1, QuietChat DEF LockJob, jobVars
<1>2. CASE holder[j] = None /\ status[j] \in Writable /\ Hold(c) /\ Goto(c, "send.insert")
  <2>1. /\ UNCHANGED <<status, accepted, deal, sent, read, busy, store, seen>>
        /\ UNCHANGED <<reviewed, rating, complaint, support, userRead, heard>>
        /\ UNCHANGED <<faults, lost, now>>
        /\ step[c] = "send.lock" /\ LaterOn
    BY StampIsLater DEF LockJob, chatVars, reviewVars, helpVars, faultVars
  <2>2. Moves(c, "send.insert", args[c]) /\ CallIsSound(c) /\ j \in Jobs
    BY <1>2, <2>1, GotoMoves DEF Steps, CallsAreSound, CallIsSound, ThreadSteps
  <2>3. holder' = [holder EXCEPT ![j] = c]
    BY <1>2 DEF Hold
  <2>4. DealsTyped'
    <3>1. holder' \in [Jobs -> Calls \cup {None}]
      BY <2>3 DEF DealsTyped
    <3> QED  BY <2>1, <2>2, <3>1 DEF DealsTyped, Moves
  <2>5. CallsAreSound'
    <3>1. CallIsSound(c)'
      BY <2>1, <2>2 DEF CallIsSound, Moves, ThreadSteps, Sending, ReviewSteps,
         PhotoSteps
    <3> QED  BY <2>1, <2>2, <3>1, CallsKept
  <2>6. LockIsHeld'
    <3>1. holder'[j] = c /\ status'[j] \in Writable
      BY <1>2, <2>1, <2>2, <2>3 DEF DealsTyped
    <3>2. ASSUME NEW d \in Calls \ {c}, step'[d] = "send.insert"
          PROVE  holder'[args'[d].job] = d /\ status'[args'[d].job] \in Writable
      <4>1. /\ step[d] = "send.insert" /\ args'[d] = args[d]
            /\ holder[args[d].job] = d /\ status[args[d].job] \in Writable
        BY <2>2, <3>2 DEF Moves, LockIsHeld
      <4>2. args[d].job # j /\ args[d].job \in Jobs
        BY <1>2, <4>1, ConstantsAreTyped DEF CallsAreSound, CallIsSound, ThreadSteps
      <4>3. holder'[args[d].job] = holder[args[d].job]
        BY <2>3, <4>2 DEF DealsTyped
      <4> QED  BY <2>1, <4>1, <4>3
    <3> QED  BY <2>2, <3>1, <3>2 DEF LockIsHeld, Moves
  <2>7. MarksAreSound'
    BY <2>1, <2>2, MarksKept DEF Moves, Sending
  <2>8. PhotosAreSound'
    BY <2>1, <2>2, PhotosKept DEF Moves, Sending
  <2>9. RatingIsSound'
    BY <2>1, <2>2, RatingKept DEF Moves, Rating
  <2>10. HelpIsSound'
    BY <2>1, <2>2, HelpKept DEF Moves
  <2> QED  BY <2>4, <2>5, <2>6, <2>7, <2>8, <2>9, <2>10
<1> QED  BY <1>1, <1>2 DEF LockJob

LEMMA UploadPhotoStep ==
  ASSUME Sound, NEW c \in Calls, UploadPhoto(c)
  PROVE  Sound'
<1> USE DEF Sound, Safe
<1>1. CASE Return(c) /\ UNCHANGED <<store, now, faultVars>>
  BY <1>1, QuietChat DEF UploadPhoto, chatVars
<1>2. CASE /\ Stamp
           /\ store' = store \cup {now}
           /\ step' = [step EXCEPT ![c] = "send.lock"]
           /\ args' = [args EXCEPT ![c].pic = now, ![c].at = now]
           /\ UNCHANGED faultVars
  <2> DEFINE a == [args[c] EXCEPT !.pic = now, !.at = now]
  <2>1. /\ UNCHANGED <<status, accepted, deal, holder, sent, read, busy, seen>>
        /\ UNCHANGED <<reviewed, rating, complaint, support, userRead, heard>>
        /\ UNCHANGED <<faults, lost>>
        /\ step[c] = "photo.upload" /\ LaterOn /\ now < now' /\ now \in Images
        /\ now \in Instants /\ now # None
    BY <1>2, StampIsLater, InstantsAreTyped, ConstantsAreTyped
    DEF UploadPhoto, jobVars, reviewVars, helpVars, faultVars, Stamp, Images, DealsTyped
  <2>2. /\ args[c].job \in Jobs /\ args[c].who \in Parties /\ args[c].pic = None
        /\ args[c].crossed = {} /\ args[c] \in Args
    BY <2>1, InstantsAreTyped DEF CallsAreSound, CallIsSound, ThreadSteps, Sending
  <2>3. /\ a \in Args /\ a.job = args[c].job /\ a.who = args[c].who /\ a.pic = now
        /\ a.at = now /\ a.crossed = {} /\ a.photo = args[c].photo
    BY <2>1, <2>2 DEF Args
  <2>4. args'[c] = a /\ \A d \in Calls \ {c} : args'[d] = args[d]
    BY <1>2 DEF DealsTyped
  <2> HIDE DEF a
  <2>5. Moves(c, "send.lock", a)
    <3>1. args' \in [Calls -> Args]
      <4>1. args' = [args EXCEPT ![c] = args'[c]]
        BY <1>2 DEF DealsTyped
      <4> QED  BY <2>3, <2>4, <4>1 DEF DealsTyped
    <3> QED  BY <1>2, <2>4, <3>1 DEF Moves, DealsTyped, Steps
  <2>6. DealsTyped'
    <3>1. store' \subseteq Images
      BY <1>2, <2>1 DEF DealsTyped
    <3> QED  BY <2>1, <2>5, <3>1 DEF DealsTyped, Moves, LaterOn
  <2>7. CallsAreSound'
    <3>1. args[c].photo
      BY <2>1 DEF CallsAreSound, CallIsSound, PhotoSteps
    <3>2. CallIsSound(c)'
      BY <2>1, <2>2, <2>3, <2>5, <3>1 DEF CallIsSound, Moves, ReviewSteps, Sending
    <3> QED  BY <2>1, <2>5, <3>2, CallsKept
  <2>8. LockIsHeld'
    BY <2>1, <2>5, LockKept DEF Moves
  <2>9. MarksAreSound'
    BY <2>1, <2>3, <2>5, MarksKept DEF Moves
  <2>10. PhotosAreSound'
    <3>1. \A i : Posted(i)' <=> Posted(i)
      BY <2>1 DEF Posted
    <3>2. /\ ~ Posted(now) /\ now \notin store
          /\ \A d \in Calls : args[d].pic # now
      <4>1. \A j \in Jobs : \A m \in sent[j] : m.pic # None => m.pic < now
        BY DEF PhotosAreSound
      <4>2. ~ Posted(now)
        BY <2>1, <4>1, InstantsAreTyped DEF Posted
      <4> QED  BY <2>1, <4>2, InstantsAreTyped DEF PhotosAreSound
    <3>3. \A j \in Jobs : \A m \in sent'[j] :
            m.pic # None => m.pic < now' /\ m.pic \in store' \cup lost'.photos
      <4> SUFFICES ASSUME NEW j \in Jobs, NEW m \in sent[j], m.pic # None
                   PROVE  m.pic < now' /\ m.pic \in store' \cup lost.photos
        BY <2>1
      <4>1. m.pic \in Nat /\ m.pic < now /\ m.pic \in store \cup lost.photos
        BY ConstantsAreTyped, InstantsAreTyped DEF PhotosAreSound
      <4> QED  BY <1>2, <2>1, <4>1 DEF LaterOn
    <3>4. ASSUME NEW i \in store'
          PROVE  i < now' /\ (Posted(i) \/ i \in lost.photos
                               \/ \E d \in Calls : args'[d].pic = i)
      <4>1. CASE i = now
        BY <2>1, <2>3, <2>5, <4>1 DEF Moves
      <4>2. CASE i # now
        <5>1. i \in store /\ i \in Nat
          BY <1>2, <4>2, ConstantsAreTyped DEF DealsTyped
        <5>2. i < now /\ (Posted(i) \/ i \in lost.photos
                           \/ \E d \in Calls : args[d].pic = i)
          BY <5>1 DEF PhotosAreSound
        <5>3. \A d \in Calls : args[d].pic = i => args'[d].pic = i
          BY <2>2, <2>5, <5>1, ConstantsAreTyped DEF Moves
        <5> QED  BY <2>1, <5>1, <5>2, <5>3 DEF LaterOn
      <4> QED  BY <4>1, <4>2
    <3>5. ASSUME NEW d \in Calls, args'[d].pic # None
          PROVE  /\ args'[d].pic < now'
                 /\ \A e \in Calls \ {d} : args'[e].pic # args'[d].pic
                 /\ step'[d] \in Sending =>
                      \A i : i = args'[d].pic => i \in store' /\ ~ Posted(i)
                 /\ step'[d] = "photo.delete" =>
                      \A i : i = args'[d].pic => (Posted(i) => i \in lost.photos)
      <4>1. CASE d = c
        BY <1>2, <2>1, <2>3, <2>5, <3>2, <4>1 DEF Moves
      <4>2. CASE d # c
        <5>1. /\ step'[d] = step[d] /\ args'[d] = args[d]
              /\ args[d].pic \in Nat /\ args[d].pic # now
          BY <2>5, <3>2, <3>5, <4>2, InstantsAreTyped, ConstantsAreTyped DEF Moves
        <5>2. /\ args[d].pic < now
              /\ \A e \in Calls \ {d} : args[e].pic # args[d].pic
              /\ step[d] \in Sending => args[d].pic \in store /\ ~ Posted(args[d].pic)
              /\ step[d] = "photo.delete" =>
                   (Posted(args[d].pic) => args[d].pic \in lost.photos)
          BY <3>5, <5>1 DEF PhotosAreSound
        <5>3. \A e \in Calls \ {d} : args'[e].pic # args[d].pic
          BY <2>3, <2>5, <5>1, <5>2 DEF Moves
        <5>4. args[d].pic < now'
          BY <2>1, <5>1, <5>2 DEF LaterOn
        <5> QED  BY <1>2, <5>1, <5>2, <5>3, <5>4
      <4> QED  BY <4>1, <4>2
    <3> QED  BY <2>1, <3>1, <3>3, <3>4, <3>5 DEF PhotosAreSound
  <2>11. RatingIsSound'
    BY <2>1, <2>5, RatingKept DEF Moves, Rating
  <2>12. HelpIsSound'
    BY <2>1, <2>5, HelpKept DEF Moves
  <2> QED  BY <2>6, <2>7, <2>8, <2>9, <2>10, <2>11, <2>12
\* The image of a request that was given up is the newest, and it is lost.
<1>3. CASE /\ Stamp /\ Fault
           /\ store' = store \cup {now}
           /\ Return(c) /\ LosePhotos({now})
  <2>1. /\ UNCHANGED <<status, accepted, deal, holder, sent, read, busy, seen>>
        /\ UNCHANGED <<reviewed, rating, complaint, support, userRead, heard>>
        /\ step[c] = "photo.upload" /\ LaterOn /\ now < now' /\ now \in Images
        /\ Moves(c, "idle", NoArgs) /\ args[c].pic = None
        /\ lost' = [lost EXCEPT !.photos = @ \cup {now}]
    <3>1. step[c] = "photo.upload" /\ args[c].pic = None
      BY DEF UploadPhoto, CallsAreSound, CallIsSound, Sending
    <3>2. LaterOn /\ now < now' /\ now \in Images
      BY <1>3, StampIsLater, InstantsAreTyped DEF Stamp, Images, DealsTyped
    <3> QED
      BY <1>3, <3>1, <3>2, ReturnMoves DEF UploadPhoto, jobVars, reviewVars, helpVars,
         LosePhotos
  <2>2. /\ lost' \in Losses /\ lost'.photos = lost.photos \cup {now}
        /\ lost'.helps = lost.helps /\ lost'.review = lost.review
        /\ lost'.average = lost.average
    BY <2>1 DEF DealsTyped, Losses
  <2>3. DealsTyped'
    <3>1. faults' \in 0..MaxFaults
      BY <1>3, BoundsAreNaturals DEF Fault, DealsTyped
    <3> QED  BY <1>3, <2>1, <2>2, <3>1 DEF DealsTyped, Moves, LaterOn
  <2>4. CallsAreSound'
    <3>1. CallIsSound(c)'
      BY <2>1, ConstantsAreTyped DEF CallIsSound, Moves, ThreadSteps, ReviewSteps,
         PhotoSteps, Sending, LaterOn
    <3> QED  BY <2>1, <3>1, CallsKept
  <2>5. LockIsHeld'
    BY <2>1, LockKept DEF Moves
  <2>6. MarksAreSound'
    BY <2>1, MarksKept DEF Moves, Sending
  <2>7. PhotosAreSound'
    <3>1. \A x : Posted(x)' <=> Posted(x)
      BY <2>1 DEF Posted
    <3>2. \A d \in Calls : args'[d].pic = args[d].pic
      BY <2>1, ConstantsAreTyped DEF Moves
    <3>3. \A j \in Jobs : \A m \in sent'[j] :
            m.pic # None => m.pic < now' /\ m.pic \in store' \cup lost'.photos
      <4> SUFFICES ASSUME NEW j \in Jobs, NEW m \in sent[j], m.pic # None
                   PROVE  m.pic < now' /\ m.pic \in store' \cup lost'.photos
        BY <2>1
      <4>1. m.pic \in Nat /\ m.pic < now /\ m.pic \in store \cup lost.photos
        BY ConstantsAreTyped, InstantsAreTyped DEF PhotosAreSound
      <4> QED  BY <1>3, <2>1, <2>2, <4>1 DEF LaterOn
    <3>4. ASSUME NEW x \in store'
          PROVE  x < now' /\ (Posted(x) \/ x \in lost'.photos
                               \/ \E d \in Calls : args'[d].pic = x)
      <4>1. CASE x = now
        BY <2>1, <2>2, <4>1
      <4>2. CASE x # now
        <5>1. x \in store /\ x \in Nat
          BY <1>3, <4>2, ConstantsAreTyped DEF DealsTyped
        <5>2. x < now /\ (Posted(x) \/ x \in lost.photos
                            \/ \E d \in Calls : args[d].pic = x)
          BY <5>1 DEF PhotosAreSound
        <5>3. x < now'
          BY <2>1, <5>1, <5>2 DEF LaterOn
        <5> QED  BY <2>2, <3>2, <5>2, <5>3
      <4> QED  BY <4>1, <4>2
    <3>5. ASSUME NEW d \in Calls, args'[d].pic # None
          PROVE  /\ args'[d].pic < now'
                 /\ \A e \in Calls \ {d} : args'[e].pic # args'[d].pic
                 /\ step'[d] \in Sending =>
                      \A i : i = args'[d].pic => i \in store' /\ ~ Posted(i)
                 /\ step'[d] = "photo.delete" =>
                      \A i : i = args'[d].pic => (Posted(i) => i \in lost'.photos)
      <4>1. d # c /\ step'[d] = step[d] /\ args'[d] = args[d] /\ args[d].pic \in Nat
        BY <2>1, <3>5, InstantsAreTyped, ConstantsAreTyped DEF Moves
      <4>2. /\ args[d].pic < now
            /\ \A e \in Calls \ {d} : args[e].pic # args[d].pic
            /\ step[d] \in Sending => args[d].pic \in store /\ ~ Posted(args[d].pic)
            /\ step[d] = "photo.delete" =>
                 (Posted(args[d].pic) => args[d].pic \in lost.photos)
        BY <3>5, <4>1 DEF PhotosAreSound
      <4>3. args[d].pic < now'
        BY <2>1, <4>1, <4>2 DEF LaterOn
      <4> QED  BY <1>3, <2>2, <3>2, <4>1, <4>2, <4>3
    <3> QED  BY <3>1, <3>3, <3>4, <3>5 DEF PhotosAreSound
  <2>8. RatingIsSound'
    BY <2>1, <2>2, RatingKept DEF Moves, Rating
  <2>9. HelpIsSound'
    BY <2>1, <2>2, HelpKept DEF Moves
  <2> QED  BY <2>3, <2>4, <2>5, <2>6, <2>7, <2>8, <2>9
<1> QED  BY <1>1, <1>2, <1>3 DEF UploadPhoto

LEMMA InsertMessageStep ==
  ASSUME Sound, NEW c \in Calls, InsertMessage(c)
  PROVE  Sound'
<1> USE DEF Sound, Safe
<1> DEFINE j == args[c].job
           i == args[c].pic
           m == Message(c)
           Added == sent' = [sent EXCEPT ![j] = @ \cup {m}]
<1>1. /\ UNCHANGED <<status, accepted, deal, read, busy, store, seen>>
      /\ UNCHANGED <<reviewed, rating, complaint, support, userRead, heard, now>>
      /\ step[c] = "send.insert" /\ LaterOn
      /\ holder' = [holder EXCEPT ![j] = IF @ = c THEN None ELSE @]
  BY StampIsLater DEF InsertMessage, reviewVars, helpVars
<1>2. /\ j \in Jobs /\ args[c].who \in Parties /\ args[c].at < now
      /\ i # None => args[c].photo
      /\ holder[j] = c /\ args[c] \in Args /\ CallIsSound(c)
  BY <1>1, InstantsAreTyped DEF CallsAreSound, CallIsSound, ThreadSteps, LockIsHeld
<1>3. /\ m \in Messages /\ m.at = args[c].at /\ m.pic = i
      /\ m.crossed = args[c].crossed
  BY <1>2 DEF Message, Messages, Args, Sides
<1>4. /\ Added \/ sent' = sent
      /\ faults' \in 0..MaxFaults /\ lost'.helps = lost.helps
      /\ lost'.review = lost.review /\ lost'.average = lost.average
      /\ lost' \in Losses
      /\ lost'.photos = lost.photos \/ (Added /\ lost'.photos = lost.photos \cup Pics(c))
      /\ \/ Moves(c, "idle", NoArgs) /\ (Added \/ i = None)
         \/ /\ Moves(c, "photo.delete", args[c])
            /\ ~ Added \/ Pics(c) \subseteq lost'.photos
  <2>1. Pics(c) \subseteq Images
    BY InstantsAreTyped DEF Pics
  <2>2. lost \in Losses
        /\ faults \in 0..MaxFaults
    BY DEF DealsTyped
  <2>3. CASE Added /\ Return(c) /\ UNCHANGED <<faults, lost>>
    BY <2>2, <2>3, ReturnMoves
  <2>4. CASE Added /\ AfterRefusal(c) /\ Fault /\ LosePhotos(Pics(c))
    <3>1. lost' = [lost EXCEPT !.photos = @ \cup Pics(c)]
      BY <2>4 DEF LosePhotos
    <3>2. /\ lost' \in Losses
          /\ lost'.helps = lost.helps /\ lost'.review = lost.review
          /\ lost'.average = lost.average
          /\ lost'.photos = lost.photos \cup Pics(c)
      BY <2>1, <2>2, <3>1 DEF Losses
    <3>3. faults' \in 0..MaxFaults
      BY <2>2, <2>4, BoundsAreNaturals DEF Fault
    <3> HIDE DEF Added
    <3> QED  BY <2>4, <3>2, <3>3, AfterRefusalMoves
  <2>5. CASE sent' = sent /\ AfterRefusal(c) /\ Fault /\ UNCHANGED lost
    <3>1. faults' \in 0..MaxFaults
      BY <2>2, <2>5, BoundsAreNaturals DEF Fault
    <3>2. ~ Added \/ m \in sent[j]
      BY <1>2, <2>5 DEF DealsTyped
    <3>3. m \in sent[j] => i = None
      BY <1>1, <1>2, <1>3 DEF PhotosAreSound, Sending, Posted
    <3>4. i = None => Pics(c) = {}
      BY DEF Pics
    <3> HIDE DEF Added, m
    <3> QED  BY <2>2, <2>5, <3>1, <3>2, <3>3, <3>4, AfterRefusalMoves
  <2> QED
    BY <2>3, <2>4, <2>5 DEF InsertMessage, AfterInsert, faultVars
<1>5. PICK h \in {"idle", "photo.delete"}, a \in Args :
        /\ Moves(c, h, a) /\ (h = "photo.delete" => a = args[c])
        /\ h = "idle" => a.pic = None /\ a.crossed = {} /\ a.at = 0
  BY <1>2, <1>4, ConstantsAreTyped
<1>6. /\ \A k \in Jobs \ {j} : sent'[k] = sent[k]
      /\ sent'[j] = sent[j] \/ sent'[j] = sent[j] \cup {m}
      /\ sent' \in [Jobs -> SUBSET Messages]
      /\ Added => m \in sent'[j]
      /\ ~ Added => sent' = sent
  <2>1. sent \in [Jobs -> SUBSET Messages]
    BY DEF DealsTyped
  <2>2. CASE Added
    <3> HIDE DEF m, j
    <3> QED  BY <1>2, <1>3, <2>1, <2>2
  <2>3. CASE sent' = sent
    <3>1. Added => m \in sent'[j]
      <4> HIDE DEF m, j
      <4> QED  BY <1>2, <2>1
    <3> HIDE DEF Added, m, j
    <3> QED  BY <2>1, <2>3, <3>1
  <2> HIDE DEF Added, m, j
  <2> QED  BY <1>4, <2>2, <2>3
<1> HIDE DEF Added, m, j
<1>7. DealsTyped'
  <2>1. holder' \in [Jobs -> Calls \cup {None}]
    BY <1>1 DEF DealsTyped
  <2> QED  BY <1>1, <1>4, <1>5, <1>6, <2>1 DEF DealsTyped, Moves, LaterOn
<1>8. CallsAreSound'
  <2>1. CallIsSound(c)'
    BY <1>1, <1>2, <1>5 DEF CallIsSound, Moves, ThreadSteps, ReviewSteps, PhotoSteps,
       Sending, LaterOn, j
  <2> QED  BY <1>1, <1>5, <2>1, CallsKept
<1>9. LockIsHeld'
  <2> SUFFICES ASSUME NEW d \in Calls, step'[d] = "send.insert"
               PROVE  /\ step[d] = "send.insert" /\ args'[d].job = args[d].job
                      /\ holder'[args[d].job] = holder[args[d].job]
                      /\ status'[args[d].job] = status[args[d].job]
    BY LockKept
  <2>1. d # c /\ step[d] = "send.insert" /\ args'[d] = args[d]
    BY <1>5 DEF Moves
  <2>2. holder[args[d].job] = d /\ args[d].job \in Jobs
    BY <2>1 DEF LockIsHeld, CallsAreSound, CallIsSound, ThreadSteps
  <2>3. args[d].job # j
    BY <1>2, <2>1, <2>2
  <2> QED  BY <1>1, <2>1, <2>2, <2>3 DEF DealsTyped
<1>10. MarksAreSound'
  <2> SUFFICES ASSUME NEW k \in Jobs, NEW p \in Parties
               PROVE  /\ read[k][p] < now
                      /\ \A t \in seen[k][p] : t <= read[k][p]
                      /\ \A n \in sent'[k] :
                           /\ n.at < now
                           /\ n.at <= read[k][p] <=> n.at \in seen[k][p] \/ p \in n.crossed
                      /\ \A d \in Calls : step'[d] \in Sending /\ args'[d].job = k =>
                           (args'[d].at <= read[k][p] <=> p \in args'[d].crossed)
    BY <1>1 DEF MarksAreSound
  <2>1. /\ read[k][p] < now
        /\ \A t \in seen[k][p] : t <= read[k][p]
        /\ \A n \in sent[k] :
             /\ n.at < now
             /\ n.at <= read[k][p] <=> n.at \in seen[k][p] \/ p \in n.crossed
        /\ \A d \in Calls : step[d] \in Sending /\ args[d].job = k =>
             (args[d].at <= read[k][p] <=> p \in args[d].crossed)
    BY DEF MarksAreSound
  <2>2. ASSUME NEW d \in Calls, step'[d] \in Sending, args'[d].job = k
        PROVE  args'[d].at <= read[k][p] <=> p \in args'[d].crossed
    BY <1>5, <2>1, <2>2 DEF Moves, Sending
  <2>3. ASSUME NEW n \in sent'[k]
        PROVE  /\ n.at < now
               /\ n.at <= read[k][p] <=> n.at \in seen[k][p] \/ p \in n.crossed
    <3>1. CASE n \in sent[k]
      BY <2>1, <3>1
    <3>2. CASE n \notin sent[k]
      <4>1. k = j /\ n = m
        BY <1>6, <2>3, <3>2
      <4>2. m.at <= read[k][p] <=> p \in m.crossed
        BY <1>1, <1>3, <2>1, <4>1 DEF Sending, j
      <4> QED  BY <1>2, <1>3, <2>1, <4>1, <4>2
    <3> QED  BY <3>1, <3>2
  <2> QED  BY <2>1, <2>2, <2>3
<1>11. PhotosAreSound'
  <2>1. /\ i # None => /\ i \in store /\ ~ Posted(i) /\ i < now
                       /\ \A d \in Calls \ {c} : args[d].pic # i
        /\ i # None => i \in Pics(c)
    BY <1>1 DEF PhotosAreSound, Sending, Pics
  <2>2. /\ \A x : Posted(x)' => Posted(x) \/ (Added /\ x = i)
        /\ \A x : Posted(x) => Posted(x)'
        /\ Added => \A x : x = i => Posted(x)'
    <3>1. ASSUME NEW x, Posted(x)' PROVE Posted(x) \/ (Added /\ x = i)
      <4>1. PICK k \in Jobs : \E n \in sent'[k] : n.pic = x
        BY <3>1 DEF Posted
      <4>2. PICK n \in sent'[k] : n.pic = x
        BY <4>1
      <4> QED  BY <1>3, <1>6, <4>2 DEF Posted
    <3>2. ASSUME NEW x, Posted(x) PROVE Posted(x)'
      <4>1. PICK k \in Jobs : \E n \in sent[k] : n.pic = x
        BY <3>2 DEF Posted
      <4>2. PICK n \in sent[k] : n.pic = x
        BY <4>1
      <4>3. n \in sent'[k]
        BY <1>6, <4>2
      <4> QED  BY <4>2, <4>3 DEF Posted
    <3>3. ASSUME Added, NEW x, x = i PROVE Posted(x)'
      <4>1. \E k \in Jobs : \E n \in sent'[k] : n.pic = x
        BY <1>2, <1>3, <1>6, <3>3
      <4> QED  BY <4>1 DEF Posted
    <3> QED  BY <3>1, <3>2, <3>3
  <2>3. lost.photos \subseteq lost'.photos /\ store' = store /\ now' = now
    BY <1>1, <1>4
  <2>4. \A k \in Jobs : \A n \in sent'[k] :
          n.pic # None => n.pic < now' /\ n.pic \in store' \cup lost'.photos
    <3> SUFFICES ASSUME NEW k \in Jobs, NEW n \in sent'[k], n.pic # None
                 PROVE  n.pic < now /\ n.pic \in store \cup lost'.photos
      BY <2>3
    <3>1. CASE n \in sent[k]
      BY <2>3, <3>1 DEF PhotosAreSound
    <3>2. CASE n = m
      BY <1>3, <2>1, <3>2
    <3> QED  BY <1>6, <3>1, <3>2
  <2>5. ASSUME NEW x \in store'
        PROVE  x < now' /\ (Posted(x)' \/ x \in lost'.photos
                              \/ \E d \in Calls : args'[d].pic = x)
    <3>1. x < now /\ x # None /\ (Posted(x) \/ x \in lost.photos
                                    \/ \E d \in Calls : args[d].pic = x)
      BY <2>3, ConstantsAreTyped DEF PhotosAreSound, DealsTyped
    <3>2. CASE Posted(x) \/ x \in lost.photos
      BY <2>2, <2>3, <3>1, <3>2
    <3>3. CASE x = i
      BY <1>4, <2>2, <2>3, <3>1, <3>3 DEF Moves
    <3>4. ASSUME NEW d \in Calls \ {c}, args[d].pic = x
          PROVE  args'[d].pic = x
      BY <1>5, <3>4 DEF Moves
    <3> QED  BY <2>3, <3>1, <3>2, <3>3, <3>4
  <2>6. ASSUME NEW d \in Calls, args'[d].pic # None
        PROVE  /\ args'[d].pic < now'
               /\ \A e \in Calls \ {d} : args'[e].pic # args'[d].pic
               /\ step'[d] \in Sending =>
                    \A x : x = args'[d].pic => x \in store' /\ ~ Posted(x)'
               /\ step'[d] = "photo.delete" =>
                    \A x : x = args'[d].pic => (Posted(x)' => x \in lost'.photos)
    <3>1. /\ args'[d].pic = args[d].pic
          /\ \A e \in Calls : args'[e].pic \in {None, args[e].pic}
          /\ d # c => step'[d] = step[d]
      BY <1>5, <2>6 DEF Moves
    <3>2. /\ args[d].pic < now
          /\ \A e \in Calls \ {d} : args[e].pic # args[d].pic
          /\ step[d] \in Sending => args[d].pic \in store /\ ~ Posted(args[d].pic)
          /\ step[d] = "photo.delete" =>
               (Posted(args[d].pic) => args[d].pic \in lost.photos)
      BY <2>6, <3>1 DEF PhotosAreSound
    <3>3. \A e \in Calls \ {d} : args'[e].pic # args'[d].pic
      BY <2>6, <3>1, <3>2
    <3>4. CASE d = c
      BY <1>4, <2>1, <2>2, <2>3, <2>6, <3>1, <3>2, <3>3, <3>4 DEF Moves, Sending
    <3>5. CASE d # c
      <4>1. args[d].pic # i
        BY <2>6, <3>1, <3>2, <3>5
      <4> QED  BY <2>2, <2>3, <3>1, <3>2, <3>3, <3>5, <4>1
    <3> QED  BY <3>4, <3>5
  <2> QED  BY <2>4, <2>5, <2>6 DEF PhotosAreSound
<1>12. RatingIsSound'
  BY <1>1, <1>4, <1>5, RatingKept DEF Moves, Rating
<1>13. HelpIsSound'
  BY <1>1, <1>4, <1>5, HelpKept DEF Moves
<1> QED  BY <1>7, <1>8, <1>9, <1>10, <1>11, <1>12, <1>13

LEMMA DeletePhotoStep ==
  ASSUME Sound, NEW c \in Calls, DeletePhoto(c)
  PROVE  Sound'
<1> USE DEF Sound, Safe
<1> DEFINE i == args[c].pic
<1>1. /\ UNCHANGED <<status, accepted, deal, holder, sent, read, busy, seen>>
      /\ UNCHANGED <<reviewed, rating, complaint, support, userRead, heard, now>>
      /\ step[c] = "photo.delete" /\ LaterOn /\ Moves(c, "idle", NoArgs)
  BY StampIsLater, ReturnMoves DEF DeletePhoto, jobVars, reviewVars, helpVars
<1>2. /\ Pics(c) = {i} \ {None} /\ Pics(c) \subseteq Images
      /\ i # None => /\ Posted(i) => i \in lost.photos
                     /\ \A d \in Calls \ {c} : args[d].pic # i
  BY <1>1, InstantsAreTyped DEF Pics, PhotosAreSound
<1>3. /\ faults' \in 0..MaxFaults
      /\ lost' \in Losses
      /\ lost'.helps = lost.helps /\ lost'.review = lost.review
      /\ lost'.average = lost.average
      /\ lost.photos \subseteq lost'.photos /\ store' \subseteq store
      /\ \/ i \notin store' \/ i = None \/ i \in lost'.photos
      /\ \A x \in store : x # i => x \in store'
      /\ \/ store' = store \/ i \notin store'
  <2>1. lost \in Losses
        /\ faults \in 0..MaxFaults
    BY DEF DealsTyped
  <2>2. CASE store' = store \ Pics(c) /\ UNCHANGED <<faults, lost>>
    BY <1>2, <2>1, <2>2
  <2>3. CASE Fault /\ LosePhotos(Pics(c)) /\ UNCHANGED store
    <3>1. lost' = [lost EXCEPT !.photos = @ \cup Pics(c)]
      BY <2>3 DEF LosePhotos
    <3>2. faults' \in 0..MaxFaults
      BY <2>1, <2>3, BoundsAreNaturals DEF Fault
    <3> QED  BY <1>2, <2>1, <2>3, <3>1, <3>2 DEF Losses
  <2> QED  BY <2>2, <2>3 DEF DeletePhoto, faultVars
<1>4. DealsTyped'
  BY <1>1, <1>3 DEF DealsTyped, Moves, LaterOn
<1>5. CallsAreSound'
  <2>1. CallIsSound(c)'
    BY <1>1, ConstantsAreTyped DEF CallIsSound, Moves, ThreadSteps, ReviewSteps,
       PhotoSteps, Sending, LaterOn
  <2> QED  BY <1>1, <2>1, CallsKept
<1>6. LockIsHeld'
  BY <1>1, LockKept DEF Moves
<1>7. MarksAreSound'
  BY <1>1, MarksKept DEF Moves, Sending
<1>8. PhotosAreSound'
  <2>1. \A x : Posted(x)' <=> Posted(x)
    BY <1>1 DEF Posted
  <2>2. \A k \in Jobs : \A n \in sent'[k] :
          n.pic # None => n.pic < now' /\ n.pic \in store' \cup lost'.photos
    <3> SUFFICES ASSUME NEW k \in Jobs, NEW n \in sent[k], n.pic # None
                 PROVE  n.pic < now /\ n.pic \in store' \cup lost'.photos
      BY <1>1
    <3>1. n.pic < now /\ n.pic \in store \cup lost.photos /\ Posted(n.pic)
      BY DEF PhotosAreSound, Posted
    <3> QED  BY <1>2, <1>3, <3>1
  <2>3. ASSUME NEW x \in store'
        PROVE  x < now' /\ (Posted(x) \/ x \in lost'.photos
                              \/ \E d \in Calls : args'[d].pic = x)
    <3>1. x < now /\ x # None /\ (Posted(x) \/ x \in lost.photos
                                    \/ \E d \in Calls : args[d].pic = x)
      BY <1>3, ConstantsAreTyped DEF PhotosAreSound, DealsTyped
    <3>2. ASSUME NEW d \in Calls \ {c}, args[d].pic = x
          PROVE  args'[d].pic = x
      BY <1>1, <3>2 DEF Moves
    <3> QED  BY <1>1, <1>3, <3>1, <3>2
  <2>4. ASSUME NEW d \in Calls, args'[d].pic # None
        PROVE  /\ args'[d].pic < now'
               /\ \A e \in Calls \ {d} : args'[e].pic # args'[d].pic
               /\ step'[d] \in Sending =>
                    \A x : x = args'[d].pic => x \in store' /\ ~ Posted(x)
               /\ step'[d] = "photo.delete" =>
                    \A x : x = args'[d].pic => (Posted(x) => x \in lost'.photos)
    <3>1. d # c /\ args'[d] = args[d] /\ step'[d] = step[d]
      BY <1>1, <2>4, ConstantsAreTyped DEF Moves
    <3>2. /\ args[d].pic < now
          /\ \A e \in Calls \ {d} : args[e].pic # args[d].pic
          /\ step[d] \in Sending => args[d].pic \in store /\ ~ Posted(args[d].pic)
          /\ step[d] = "photo.delete" =>
               (Posted(args[d].pic) => args[d].pic \in lost.photos)
      BY <2>4, <3>1 DEF PhotosAreSound
    <3>3. \A e \in Calls \ {d} : args'[e].pic # args'[d].pic
      BY <1>1, <2>4, <3>1, <3>2, ConstantsAreTyped DEF Moves
    <3> QED  BY <1>1, <1>2, <1>3, <2>4, <3>1, <3>2, <3>3
  <2> QED  BY <2>1, <2>2, <2>3, <2>4 DEF PhotosAreSound
<1>9. RatingIsSound'
  BY <1>1, <1>3, RatingKept DEF Moves, Rating
<1>10. HelpIsSound'
  BY <1>1, <1>3, HelpKept DEF Moves
<1> QED  BY <1>4, <1>5, <1>6, <1>7, <1>8, <1>9, <1>10

-----------------------------------------------------------------------------
(* The mark of a party passes by what is under way                         *)

LEMMA MarkWriteStep ==
  ASSUME Sound, NEW c \in Calls, MarkWrite(c)
  PROVE  Sound'
<1> USE DEF Sound, Safe
<1> DEFINE j == args[c].job
           p == args[c].who
           Under(d) == d # c /\ step[d] \in Sending /\ args[d].job = j
<1>1. /\ UNCHANGED <<status, accepted, deal, holder, sent, busy, store>>
      /\ UNCHANGED <<reviewed, rating, complaint, support, userRead, heard>>
      /\ UNCHANGED <<faults, lost>>
      /\ step[c] = "mark.write" /\ LaterOn /\ now < now' /\ now \in Instants
      /\ step' = [step EXCEPT ![c] = "idle"]
      /\ args' = [d \in Calls |->
           IF d = c THEN NoArgs
           ELSE IF Under(d) THEN [args[d] EXCEPT !.crossed = @ \cup {p}]
           ELSE args[d]]
      /\ read' = [read EXCEPT ![j] = Mark(@, p, now)]
      /\ seen' = [seen EXCEPT ![j][p] = Ats(sent[j])]
  BY StampIsLater, InstantsAreTyped DEF MarkWrite, jobVars, reviewVars, helpVars,
     faultVars, Stamp, Sending
<1>2. j \in Jobs /\ p \in Parties
  BY <1>1 DEF CallsAreSound, CallIsSound, ThreadSteps
<1> HIDE DEF j, p, Under
<1>3. /\ step' \in [Calls -> Steps] /\ args' \in [Calls -> Args]
      /\ step'[c] = "idle" /\ args'[c] = NoArgs
      /\ \A d \in Calls \ {c} :
           /\ step'[d] = step[d] /\ args'[d].job = args[d].job
           /\ args'[d].who = args[d].who /\ args'[d].at = args[d].at
           /\ args'[d].pic = args[d].pic /\ args'[d].photo = args[d].photo
           /\ args'[d].found = args[d].found
           /\ Under(d) => args'[d].crossed = args[d].crossed \cup {p}
           /\ ~ Under(d) => args'[d] = args[d]
  <2>1. step' \in [Calls -> Steps] /\ step'[c] = "idle" /\ args'[c] = NoArgs
        /\ \A d \in Calls \ {c} : step'[d] = step[d]
    BY <1>1 DEF DealsTyped, Steps
  <2>2. ASSUME NEW d \in Calls \ {c}
        PROVE  /\ args'[d] \in Args /\ args'[d].job = args[d].job
               /\ args'[d].who = args[d].who /\ args'[d].at = args[d].at
               /\ args'[d].pic = args[d].pic /\ args'[d].photo = args[d].photo
               /\ args'[d].found = args[d].found
               /\ Under(d) => args'[d].crossed = args[d].crossed \cup {p}
               /\ ~ Under(d) => args'[d] = args[d]
    <3>1. args[d] \in Args
      BY DEF DealsTyped
    <3>2. CASE Under(d)
      <4>1. args'[d] = [args[d] EXCEPT !.crossed = @ \cup {p}]
        BY <1>1, <3>2
      <4> QED  BY <1>2, <3>1, <3>2, <4>1 DEF Args
    <3>3. CASE ~ Under(d)
      <4>1. args'[d] = args[d]
        BY <1>1, <3>3
      <4> QED  BY <3>1, <3>3, <4>1
    <3> QED  BY <3>2, <3>3
  <2>3. args' \in [Calls -> Args]
    <3>1. \A d \in Calls : args'[d] \in Args
      BY <2>1, <2>2, ConstantsAreTyped
    <3> QED  BY <1>1, <3>1
  <2> QED  BY <2>1, <2>2, <2>3
<1>4. /\ \A k \in Jobs, q \in Parties : k # j \/ q # p =>
           read'[k][q] = read[k][q] /\ seen'[k][q] = seen[k][q]
      /\ read'[j][p] = now /\ seen'[j][p] = Ats(sent[j])
      /\ read' \in [Jobs -> [Parties -> Instants]]
      /\ seen' \in [Jobs -> [Parties -> SUBSET Instants]]
  <2>1. Ats(sent[j]) \subseteq Instants
    BY <1>2, InstantsAreTyped DEF Ats, Messages
  <2>2. /\ read \in [Jobs -> [Parties -> Instants]]
        /\ seen \in [Jobs -> [Parties -> SUBSET Instants]]
    BY DEF DealsTyped
  <2>3. read' = [read EXCEPT ![j] = [read[j] EXCEPT ![p] = now]]
    BY <1>1, <1>2, <2>2 DEF Mark
  <2>4. /\ read'[j][p] = now /\ read' \in [Jobs -> [Parties -> Instants]]
        /\ \A k \in Jobs, q \in Parties : k # j \/ q # p => read'[k][q] = read[k][q]
    BY <1>1, <1>2, <2>2, <2>3
  <2>5. /\ seen'[j][p] = Ats(sent[j])
        /\ seen' \in [Jobs -> [Parties -> SUBSET Instants]]
        /\ \A k \in Jobs, q \in Parties : k # j \/ q # p => seen'[k][q] = seen[k][q]
    BY <1>1, <1>2, <2>1, <2>2
  <2> QED  BY <2>4, <2>5
<1>5. DealsTyped'
  BY <1>1, <1>3, <1>4 DEF DealsTyped, LaterOn
<1>6. CallsAreSound'
  <2> SUFFICES ASSUME NEW d \in Calls PROVE CallIsSound(d)'
    BY DEF CallsAreSound
  <2>1. CASE d = c
    BY <1>1, <1>3, <2>1, ConstantsAreTyped DEF CallIsSound, ThreadSteps, ReviewSteps,
       PhotoSteps, LaterOn
  <2>2. CASE d # c
    <3>1. CallIsSound(d) /\ args[d].at \in Nat
      BY InstantsAreTyped DEF CallsAreSound
    <3>2. args'[d].at < now'
      BY <1>1, <1>3, <2>2, <3>1 DEF CallIsSound, LaterOn
    <3>3. step[d] \notin Sending => args'[d] = args[d]
      BY <1>3, <2>2 DEF Under
    <3> QED  BY <1>3, <2>2, <3>1, <3>2, <3>3 DEF CallIsSound
  <2> QED  BY <2>1, <2>2
<1>7. LockIsHeld'
  BY <1>1, <1>3, LockKept
<1>8. MarksAreSound'
  <2> SUFFICES ASSUME NEW k \in Jobs, NEW q \in Parties
               PROVE  /\ read'[k][q] < now'
                      /\ \A t \in seen'[k][q] : t <= read'[k][q]
                      /\ \A n \in sent[k] :
                           /\ n.at < now'
                           /\ n.at <= read'[k][q] <=> n.at \in seen'[k][q] \/ q \in n.crossed
                      /\ \A d \in Calls : step'[d] \in Sending /\ args'[d].job = k =>
                           (args'[d].at <= read'[k][q] <=> q \in args'[d].crossed)
    BY <1>1 DEF MarksAreSound
  <2>1. /\ read[k][q] < now
        /\ \A t \in seen[k][q] : t <= read[k][q]
        /\ \A n \in sent[k] :
             /\ n.at < now
             /\ n.at <= read[k][q] <=> n.at \in seen[k][q] \/ q \in n.crossed
        /\ \A d \in Calls : step[d] \in Sending /\ args[d].job = k =>
             (args[d].at <= read[k][q] <=> q \in args[d].crossed)
    BY DEF MarksAreSound
  <2>2. /\ read[k][q] \in Nat /\ now \in Nat /\ now' \in Nat
        /\ \A n \in sent[k] : n.at \in Nat
        /\ \A d \in Calls : args[d].at \in Nat /\ args[d].at < now
    BY <1>1, InstantsAreTyped DEF CallsAreSound, CallIsSound, LaterOn
  <2>3. CASE k = j /\ q = p
    <3>1. ASSUME NEW n \in sent[k]
          PROVE  n.at < now' /\ n.at <= read'[k][q] /\ n.at \in seen'[k][q]
      BY <1>1, <1>4, <2>1, <2>2, <2>3 DEF Ats
    <3>2. \A t \in seen'[k][q] : t <= read'[k][q]
      BY <1>4, <2>1, <2>2, <2>3 DEF Ats
    <3>3. ASSUME NEW d \in Calls, step'[d] \in Sending, args'[d].job = k
          PROVE  args'[d].at <= read'[k][q] /\ q \in args'[d].crossed
      <4>1. d # c
        BY <1>3, <3>3 DEF Sending
      <4>2. Under(d)
        BY <1>3, <2>3, <3>3, <4>1 DEF Under
      <4> QED  BY <1>3, <1>4, <2>2, <2>3, <4>1, <4>2
    <3> QED  BY <1>1, <1>4, <2>2, <2>3, <3>1, <3>2, <3>3
  <2>4. CASE k # j \/ q # p
    <3>1. read'[k][q] = read[k][q] /\ seen'[k][q] = seen[k][q]
      BY <1>4, <2>4
    <3>2. ASSUME NEW d \in Calls, step'[d] \in Sending, args'[d].job = k
          PROVE  args'[d].at <= read[k][q] <=> q \in args'[d].crossed
      <4>1. d # c
        BY <1>3, <3>2 DEF Sending
      <4>2. q \in args'[d].crossed <=> q \in args[d].crossed
        BY <1>3, <2>4, <3>2, <4>1 DEF Under
      <4> QED  BY <1>3, <2>1, <3>2, <4>1, <4>2
    <3>3. \A n \in sent[k] : n.at < now'
      BY <1>1, <2>1, <2>2
    <3>4. read[k][q] < now'
      BY <1>1, <2>1, <2>2
    <3> QED  BY <2>1, <3>1, <3>2, <3>3, <3>4
  <2> QED  BY <2>3, <2>4
<1>9. PhotosAreSound'
  <2>1. args[c].pic = None
    BY <1>1 DEF CallsAreSound, CallIsSound, Sending
  <2> QED  BY <1>1, <1>3, <2>1, ConstantsAreTyped, PhotosKept
<1>10. RatingIsSound'
  <2>1. \A d \in Calls : step[d] = "review.write" => ~ Under(d)
    BY DEF Under, Sending
  <2> QED  BY <1>1, <1>3, <2>1, RatingKept DEF Rating
<1>11. HelpIsSound'
  <2>1. \A d \in Calls : step[d] = "help.read" => ~ Under(d)
    BY DEF Under, Sending
  <2> QED  BY <1>1, <1>3, <2>1, HelpKept
<1> QED  BY <1>5, <1>6, <1>7, <1>8, <1>9, <1>10, <1>11

-----------------------------------------------------------------------------
(* Reviews and complaints                                                  *)

\* A step of a call that has nothing to do with the chat.
LEMMA ChatKept ==
  ASSUME Sound, NEW c \in Calls, NEW h, NEW a, Moves(c, h, a), LaterOn,
         UNCHANGED <<status, holder, sent, read, store, seen>>,
         lost'.photos = lost.photos,
         step[c] \notin ThreadSteps, h \notin ThreadSteps,
         h \in ReviewSteps => a.job \in Jobs, h = "help.read" => a.job \in Disputes,
         a.at < now', a.pic = None, a.crossed = {}
  PROVE  CallsAreSound' /\ LockIsHeld' /\ MarksAreSound' /\ PhotosAreSound'
<1> USE DEF Sound, Safe
<1>1. CallsAreSound'
  <2>1. CallIsSound(c)'
    BY DEF CallIsSound, Moves, ThreadSteps, PhotoSteps
  <2> QED  BY <2>1, CallsKept
<1>2. LockIsHeld'
  BY LockKept DEF Moves, ThreadSteps
<1>3. MarksAreSound'
  BY MarksKept DEF Moves, ThreadSteps, Sending
<1>4. PhotosAreSound'
  <2>1. args[c].pic = None
    BY DEF CallsAreSound, CallIsSound, ThreadSteps, Sending
  <2>2. \A d \in Calls :
           /\ args'[d].pic = args[d].pic
           /\ args[d].pic # None => step'[d] = step[d]
    BY <2>1 DEF Moves
  <2> QED  BY <2>2, PhotosKept
<1> QED  BY <1>1, <1>2, <1>3, <1>4

LEMMA ReviewStep ==
  ASSUME Sound, NEW c \in Calls,
         InsertReview(c) \/ ReadReviews(c) \/ WriteRating(c)
  PROVE  Sound'
<1> USE DEF Sound, Safe
<1> DEFINE j == args[c].job
<1>1. /\ UNCHANGED <<status, accepted, deal, holder, sent, read, busy, store, seen>>
      /\ UNCHANGED <<complaint, support, userRead, heard, faults, now>>
      /\ step[c] \in ReviewSteps /\ LaterOn
      /\ lost'.photos = lost.photos /\ lost'.helps = lost.helps
  BY StampIsLater DEF InsertReview, ReadReviews, WriteRating, jobVars, chatVars,
     helpVars, faultVars, ReviewSteps, DealsTyped, Losses
<1>2. /\ j \in Jobs /\ args[c] \in Args /\ args[c].at < now /\ args[c].pic = None
      /\ args[c].crossed = {}
  BY <1>1, InstantsAreTyped DEF CallsAreSound, CallIsSound, ReviewSteps, Sending
<1>3. /\ reviewed \subseteq Jobs /\ rating \subseteq Jobs
      /\ lost \in Losses
  BY DEF DealsTyped
<1>4. PICK h \in {"idle", "review.read", "review.write"}, a \in Args :
        /\ Moves(c, h, a) /\ a.at < now /\ a.pic = None /\ a.crossed = {}
        /\ h # "idle" => a.job \in Jobs
        /\ reviewed' \subseteq Jobs /\ rating' \subseteq Jobs
        /\ lost' \in Losses
        /\ RatingIsSound'
  <2>1. CASE InsertReview(c) /\ j \in reviewed
    <3>1. Moves(c, "idle", NoArgs) /\ step[c] = "review.insert"
          /\ UNCHANGED <<reviewed, rating, lost>>
      BY <2>1, ReturnMoves DEF InsertReview
    <3>2. RatingIsSound'
      BY <3>1, RatingKept DEF Moves, Rating
    <3> QED  BY <1>1, <1>3, <3>1, <3>2, ConstantsAreTyped DEF LaterOn
  <2>2. CASE InsertReview(c) /\ j \notin reviewed
    <3>1. /\ Moves(c, "review.read", args[c]) /\ step[c] = "review.insert"
          /\ reviewed' = reviewed \cup {j} /\ rating' = rating
          /\ lost' = [lost EXCEPT !.review = @ \/ Overlaps]
      BY <2>2, GotoMoves DEF InsertReview, Steps
    <3>2. /\ lost' \in Losses
          /\ lost'.review = (lost.review \/ Overlaps)
      BY <1>3, <3>1 DEF Overlaps, Losses
    <3>3. RatingIsSound'
      <4>1. CASE lost.review \/ Overlaps
        BY <3>2, <4>1 DEF RatingIsSound
      <4>2. CASE ~ Overlaps
        BY <3>1, <4>2 DEF RatingIsSound, Moves, Overlaps, Rating
      <4> QED  BY <4>1, <4>2
    <3> QED  BY <1>2, <1>3, <3>1, <3>2, <3>3
  <2>3. CASE ReadReviews(c)
    <3> DEFINE a == [args[c] EXCEPT !.found = reviewed]
    <3>1. /\ a \in Args /\ a.at = args[c].at /\ a.pic = None /\ a.crossed = {}
          /\ a.job = j /\ a.found = reviewed
      BY <1>2, <1>3 DEF Args
    <3>2. /\ step' = [step EXCEPT ![c] = "review.write"]
          /\ args' = [args EXCEPT ![c] = a] /\ step[c] = "review.read"
          /\ UNCHANGED <<reviewed, rating, lost>>
      BY <2>3 DEF ReadReviews, Averaged, reviewVars, faultVars
    <3> HIDE DEF a
    <3>3. Moves(c, "review.write", a)
      BY <3>1, <3>2 DEF Moves, DealsTyped, Steps
    <3>4. RatingIsSound'
      BY <3>1, <3>2, <3>3 DEF RatingIsSound, Moves, Rating
    <3> QED  BY <1>2, <1>3, <3>1, <3>2, <3>3, <3>4
  <2>4. CASE WriteRating(c)
    <3>1. /\ Moves(c, "idle", NoArgs) /\ step[c] = "review.write"
          /\ rating' = args[c].found /\ reviewed' = reviewed
          /\ lost' \in Losses /\ lost'.review = lost.review
      BY <1>3, <2>4, ReturnMoves DEF WriteRating, Losses
    <3>2. args[c].found \subseteq Jobs
      BY <1>2 DEF Args
    <3>3. RatingIsSound'
      BY <3>1 DEF RatingIsSound, Moves, Rating
    <3> QED  BY <1>1, <1>3, <3>1, <3>2, <3>3, ConstantsAreTyped DEF LaterOn
  <2> QED  BY <2>1, <2>2, <2>3, <2>4
<1>5. DealsTyped'
  BY <1>1, <1>4 DEF DealsTyped, Moves, LaterOn
<1>6. CallsAreSound' /\ LockIsHeld' /\ MarksAreSound' /\ PhotosAreSound'
  BY <1>1, <1>4, ChatKept DEF ReviewSteps, ThreadSteps
<1>7. HelpIsSound'
  BY <1>1, <1>4, HelpKept DEF Moves, ReviewSteps
<1> QED  BY <1>4, <1>5, <1>6, <1>7

LEMMA GetDisputeMessagesStep ==
  ASSUME Sound, NEW c \in Calls, NEW d \in Disputes, GetDisputeMessages(c, d)
  PROVE  Sound'
<1> USE DEF Sound, Safe
<1> DEFINE a == [NoArgs EXCEPT !.job = d]
<1>1. /\ UNCHANGED <<status, accepted, deal, holder, sent, read, busy, store, seen>>
      /\ UNCHANGED <<reviewed, rating, complaint, support, heard, faults, lost>>
      /\ userRead' = [userRead EXCEPT ![d] = now]
      /\ step[c] = "idle" /\ LaterOn /\ now < now' /\ now \in Instants
      /\ Begin(c, "help.read", a)
  BY StampIsLater, InstantsAreTyped DEF GetDisputeMessages, Begin, jobVars, chatVars,
     reviewVars, faultVars, Stamp
<1>2. /\ a \in Args /\ a.job = d /\ a.at = 0 /\ a.pic = None /\ a.crossed = {}
  BY ConstantsAreTyped DEF Args, NoArgs
<1> HIDE DEF a
<1>3. Moves(c, "help.read", a)
  BY <1>1, <1>2, BeginMoves DEF Steps
<1>4. DealsTyped'
  BY <1>1, <1>3 DEF DealsTyped, Moves, LaterOn
<1>5. CallsAreSound' /\ LockIsHeld' /\ MarksAreSound' /\ PhotosAreSound'
  BY <1>1, <1>2, <1>3, ChatKept DEF ReviewSteps, ThreadSteps, LaterOn
<1>6. RatingIsSound'
  BY <1>1, <1>3, RatingKept DEF Moves, Rating
<1>7. HelpIsSound'
  <2> SUFFICES ASSUME NEW e \in Disputes
               PROVE  /\ userRead'[e] < now'
                      /\ \A m \in support[e] :
                           /\ m.at < now'
                           /\ m.at <= userRead'[e] =>
                                \/ m.at \in heard[e] \/ e \in lost.helps
                                \/ \E b \in Calls : step'[b] = "help.read" /\ args'[b].job = e
                                \/ Cardinality({n \in support[e] : n.at < m.at}) >= HelpLimit
    BY <1>1 DEF HelpIsSound
  <2>1. /\ userRead[e] < now
        /\ \A m \in support[e] :
             /\ m.at < now
             /\ m.at <= userRead[e] =>
                  \/ m.at \in heard[e] \/ e \in lost.helps
                  \/ \E b \in Calls : step[b] = "help.read" /\ args[b].job = e
                  \/ Cardinality({n \in support[e] : n.at < m.at}) >= HelpLimit
    BY DEF HelpIsSound
  <2>2. userRead[e] \in Nat /\ \A m \in support[e] : m.at \in Nat
    BY InstantsAreTyped
  <2>3. \A m \in support[e] : m.at < now'
    <3>1. \A m \in support[e] : m.at < now
      BY <2>1
    <3>2. now \in Nat /\ now' \in Nat /\ now <= now'
      BY <1>1 DEF LaterOn
    <3> QED  BY <2>2, <3>1, <3>2
  <2>4. CASE e = d
    <3>1. userRead'[e] = now /\ step'[c] = "help.read" /\ args'[c].job = e
      BY <1>1, <1>2, <1>3, <2>4 DEF DealsTyped, Moves
    <3> QED  BY <1>1, <2>3, <3>1
  <2>5. CASE e # d
    <3>1. userRead'[e] = userRead[e]
      BY <1>1, <2>5 DEF DealsTyped
    <3>2. \A b \in Calls : step[b] = "help.read" =>
            step'[b] = "help.read" /\ args'[b] = args[b]
      BY <1>1, <1>3 DEF Moves
    <3>3. userRead[e] < now'
      <4>1. now \in Nat /\ now' \in Nat /\ now <= now'
        BY <1>1 DEF LaterOn
      <4> QED  BY <2>1, <2>2, <4>1
    <3> QED  BY <2>1, <2>3, <3>1, <3>2, <3>3
  <2> QED  BY <2>4, <2>5
<1> QED  BY <1>4, <1>5, <1>6, <1>7

LEMMA MessagesAreFinite == \A ms \in SUBSET Messages : \A t :
  IsFiniteSet({m \in ms : m.at < t})
<1> DEFINE P == (Sides \X Instants) \X ((Images \cup {None}) \X SUBSET Parties)
           f == [m \in Messages |-> <<<<m.from, m.at>>, <<m.pic, m.crossed>>>>]
<1>1. IsFiniteSet(Sides) /\ IsFiniteSet(Parties)
  <2>1. IsFiniteSet({"client"})
    BY FS_Singleton
  <2>2. IsFiniteSet({"client"} \cup {"worker"})
    BY <2>1, FS_AddElement
  <2>3. Parties = {"client"} \cup {"worker"}
    BY DEF Parties
  <2> QED  BY <2>2, <2>3, FS_AddElement DEF Sides
<1>2. IsFiniteSet(Instants) /\ IsFiniteSet(Images \cup {None})
  <2>1. IsFiniteSet(0..MaxTime) /\ IsFiniteSet(1..MaxTime)
    BY ConstantsAreTyped, FS_Interval
  <2> QED  BY <2>1, FS_AddElement DEF Instants, Images
<1>3. IsFiniteSet(SUBSET Parties)
  BY <1>1, FS_SUBSET
<1>4. IsFiniteSet(P)
  <2>1. IsFiniteSet(Sides \X Instants) /\ IsFiniteSet((Images \cup {None}) \X SUBSET Parties)
    BY <1>1, <1>2, <1>3, FS_Product
  <2> QED  BY <2>1, FS_Product
<1>5. f \in Injection(Messages, P)
  <2>1. f \in [Messages -> P]
    BY DEF Messages
  <2>2. \A m, n \in Messages : f[m] = f[n] => m = n
    BY DEF Messages
  <2> QED  BY <2>1, <2>2 DEF Injection, IsInjective
<1>6. IsFiniteSet(Messages)
  <2> HIDE DEF P, f
  <2> QED  BY <1>4, <1>5, FS_Injection
<1> QED  BY <1>6, FS_Subset

LEMMA ReadHelpStep ==
  ASSUME Sound, NEW c \in Calls, ReadHelp(c)
  PROVE  Sound'
<1> USE DEF Sound, Safe
<1> DEFINE d == args[c].job
<1>1. /\ UNCHANGED <<status, accepted, deal, holder, sent, read, busy, store, seen>>
      /\ UNCHANGED <<reviewed, rating, complaint, support, userRead, faults, lost, now>>
      /\ heard' = [heard EXCEPT ![d] = @ \cup Ats(Shown(d))]
      /\ step[c] = "help.read" /\ LaterOn /\ Moves(c, "idle", NoArgs)
  BY StampIsLater, ReturnMoves DEF ReadHelp, jobVars, chatVars, reviewVars, faultVars
<1>2. d \in Disputes
  BY <1>1 DEF CallsAreSound, CallIsSound
<1>3. heard' \in [Disputes -> SUBSET Instants]
  <2>1. Ats(Shown(d)) \subseteq Instants
    BY <1>2, InstantsAreTyped DEF Ats, Shown, Messages
  <2> QED  BY <1>1, <1>2, <2>1 DEF DealsTyped
<1>4. DealsTyped'
  BY <1>1, <1>3 DEF DealsTyped, Moves, LaterOn
<1>5. CallsAreSound' /\ LockIsHeld' /\ MarksAreSound' /\ PhotosAreSound'
  BY <1>1, ChatKept, ConstantsAreTyped DEF ReviewSteps, ThreadSteps, LaterOn
<1>6. RatingIsSound'
  BY <1>1, RatingKept DEF Moves, Rating
<1>7. HelpIsSound'
  <2> SUFFICES ASSUME NEW e \in Disputes
               PROVE  /\ userRead[e] < now
                      /\ \A m \in support[e] :
                           /\ m.at < now
                           /\ m.at <= userRead[e] =>
                                \/ m.at \in heard'[e] \/ e \in lost.helps
                                \/ \E b \in Calls : step'[b] = "help.read" /\ args'[b].job = e
                                \/ Cardinality({n \in support[e] : n.at < m.at}) >= HelpLimit
    BY <1>1 DEF HelpIsSound
  <2>1. /\ userRead[e] < now
        /\ \A m \in support[e] :
             /\ m.at < now
             /\ m.at <= userRead[e] =>
                  \/ m.at \in heard[e] \/ e \in lost.helps
                  \/ \E b \in Calls : step[b] = "help.read" /\ args[b].job = e
                  \/ Cardinality({n \in support[e] : n.at < m.at}) >= HelpLimit
    BY DEF HelpIsSound
  <2>2. CASE e = d
    <3>1. heard'[e] = heard[e] \cup Ats(Shown(e))
      BY <1>1, <1>2, <2>2 DEF DealsTyped
    <3>2. ASSUME NEW m \in support[e]
          PROVE  \/ m.at \in heard'[e]
                 \/ Cardinality({n \in support[e] : n.at < m.at}) >= HelpLimit
      <4>1. CASE Cardinality({n \in support[e] : n.at < m.at}) < HelpLimit
        BY <3>1, <4>1 DEF Ats, Shown
      <4>2. CASE ~ Cardinality({n \in support[e] : n.at < m.at}) < HelpLimit
        <5>1. Cardinality({n \in support[e] : n.at < m.at}) \in Nat
          <6>1. support[e] \in SUBSET Messages
            BY DEF DealsTyped
          <6>2. \A t : IsFiniteSet({n \in support[e] : n.at < t})
            BY <6>1, MessagesAreFinite
          <6> QED  BY <6>2, FS_CardinalityType
        <5> QED  BY <4>2, <5>1, ScalesArePositive
      <4> QED  BY <4>1, <4>2
    <3> QED  BY <2>1, <3>2
  <2>3. CASE e # d
    <3>1. heard'[e] = heard[e]
      BY <1>1, <2>3 DEF DealsTyped
    <3>2. \A b \in Calls : step[b] = "help.read" /\ args[b].job = e =>
            step'[b] = "help.read" /\ args'[b] = args[b]
      BY <1>1, <2>3 DEF Moves
    <3> QED  BY <2>1, <3>1, <3>2
  <2> QED  BY <2>2, <2>3
<1> QED  BY <1>4, <1>5, <1>6, <1>7

-----------------------------------------------------------------------------
(* The environment                                                         *)

\* A step that moves no call, and touches a job only while nobody holds it.
LEMMA CallsStay ==
  ASSUME Sound, LaterOn,
         UNCHANGED <<sent, read, store, seen, reviewed, rating, step, args, lost>>,
         \A j \in Jobs : /\ holder'[j] = holder[j]
                         /\ holder[j] # None => status'[j] = status[j]
  PROVE  /\ CallsAreSound' /\ LockIsHeld' /\ MarksAreSound' /\ PhotosAreSound'
         /\ RatingIsSound'
<1> USE DEF Sound, Safe
<1>1. CallsAreSound'
  <2> SUFFICES ASSUME NEW d \in Calls PROVE CallIsSound(d)'
    BY DEF CallsAreSound
  <2>1. CallIsSound(d) /\ args[d].at \in Nat
    BY InstantsAreTyped DEF CallsAreSound
  <2>2. args[d].at < now'
    BY <2>1 DEF CallIsSound, LaterOn
  <2> QED  BY <2>1, <2>2 DEF CallIsSound
<1>2. LockIsHeld'
  <2> SUFFICES ASSUME NEW d \in Calls, step[d] = "send.insert"
               PROVE  /\ holder'[args[d].job] = holder[args[d].job]
                      /\ status'[args[d].job] = status[args[d].job]
    BY LockKept
  <2>1. args[d].job \in Jobs /\ holder[args[d].job] = d
    BY DEF CallsAreSound, CallIsSound, ThreadSteps, LockIsHeld
  <2> QED  BY <2>1, ConstantsAreTyped
<1>3. MarksAreSound'
  BY MarksKept
<1>4. PhotosAreSound'
  BY PhotosKept
<1>5. RatingIsSound'
  BY RatingKept
<1> QED  BY <1>1, <1>2, <1>3, <1>4, <1>5

LEMMA JobGoesOn ==
  ASSUME Sound, NEW j \in Jobs,
         \/ StartWork(j) \/ Overwrite(j)
         \/ \E s \in {"completed", "cancelled"} : EndJob(j, s)
  PROVE  Sound'
<1> USE DEF Sound, Safe
<1>1. /\ UNCHANGED <<holder, sent, read, busy, store, seen, reviewed, rating, complaint>>
      /\ UNCHANGED <<support, userRead, heard, step, args, faults, lost>> /\ LaterOn
  BY StampIsLater DEF StartWork, Overwrite, EndJob, chatVars, reviewVars, helpVars,
     callVars, faultVars
<1>2. now \in Instants
  BY InstantsAreTyped
<1>3. /\ status' \in [Jobs -> {"assigned", "completed", "cancelled"}]
      /\ accepted' \in [Jobs -> BOOLEAN]
      /\ deal' \in [Jobs -> [made : Instants, started : Instants, ended : Instants]]
      /\ \A k \in Jobs : holder[k] # None => status'[k] = status[k]
  <2>1. CASE StartWork(j)
    <3>1. [deal[j] EXCEPT !.started = now] \in
            [made : Instants, started : Instants, ended : Instants]
      <4>1. deal[j] \in [made : Instants, started : Instants, ended : Instants]
        BY DEF DealsTyped
      <4> HIDE DEF Sound, Safe
      <4> QED  BY <1>2, <4>1
    <3>2. deal' = [deal EXCEPT ![j] = [deal[j] EXCEPT !.started = now]]
      BY <2>1 DEF StartWork
    <3>3. UNCHANGED <<status, accepted>>
      BY <2>1 DEF StartWork
    <3> QED  BY <3>1, <3>2, <3>3 DEF DealsTyped
  <2>2. CASE Overwrite(j)
    BY <2>2 DEF Overwrite, DealsTyped
  <2>3. ASSUME NEW s \in {"completed", "cancelled"}, EndJob(j, s)
        PROVE  <1>3!1 /\ <1>3!2 /\ <1>3!3 /\ <1>3!4
    <3>1. [deal[j] EXCEPT !.ended = now] \in
            [made : Instants, started : Instants, ended : Instants]
      <4>1. deal[j] \in [made : Instants, started : Instants, ended : Instants]
        BY DEF DealsTyped
      <4> HIDE DEF Sound, Safe
      <4> QED  BY <1>2, <4>1
    <3>2. deal' = [deal EXCEPT ![j] = [deal[j] EXCEPT !.ended = now]]
      BY <2>3 DEF EndJob
    <3>3. /\ status' = [status EXCEPT ![j] = s] /\ accepted' = accepted
          /\ holder[j] = None
      BY <2>3 DEF EndJob
    <3> QED  BY <3>1, <3>2, <3>3 DEF DealsTyped
  <2> QED  BY <2>1, <2>2, <2>3
<1>4. DealsTyped'
  BY <1>1, <1>3 DEF DealsTyped, LaterOn
<1>5. HelpIsSound'
  BY <1>1, HelpKept
<1> QED  BY <1>1, <1>3, <1>4, <1>5, CallsStay

LEMMA ComplaintGoesOn ==
  ASSUME Sound, NEW d \in Disputes, CreateDispute(d) \/ ResolveDispute(d)
  PROVE  Sound'
<1> USE DEF Sound, Safe
<1>1. /\ UNCHANGED <<status, accepted, deal, holder, sent, read, busy, store, seen>>
      /\ UNCHANGED <<reviewed, rating, support, userRead, heard, step, args>>
      /\ UNCHANGED <<faults, lost, now>> /\ LaterOn
      /\ complaint' \in [Disputes -> {"none", "open", "resolved"}]
  BY StampIsLater DEF CreateDispute, ResolveDispute, jobVars, chatVars, reviewVars,
     callVars, faultVars, DealsTyped
<1>2. DealsTyped'
  BY <1>1 DEF DealsTyped
<1> QED  BY <1>1, <1>2, CallsStay, HelpKept

LEMMA SendDisputeMessageStep ==
  ASSUME Sound, NEW d \in Disputes, NEW s \in Sides, SendDisputeMessage(d, s)
  PROVE  Sound'
<1> USE DEF Sound, Safe
<1> DEFINE new == [from |-> s, at |-> now, pic |-> None, crossed |-> {}]
<1>1. /\ UNCHANGED <<status, accepted, deal, holder, sent, read, busy, store, seen>>
      /\ UNCHANGED <<reviewed, rating, complaint, userRead, heard, step, args>>
      /\ UNCHANGED <<faults, lost>> /\ LaterOn /\ now < now'
      /\ support' = [support EXCEPT ![d] = @ \cup {new}]
  BY StampIsLater DEF SendDisputeMessage, jobVars, chatVars, reviewVars, callVars,
     faultVars, Stamp, LaterOn
<1>2. new \in Messages /\ new.at = now
  BY InstantsAreTyped DEF Messages
<1> HIDE DEF new
<1>3. DealsTyped'
  <2>1. support' \in [Disputes -> SUBSET Messages]
    BY <1>1, <1>2 DEF DealsTyped
  <2> QED  BY <1>1, <2>1 DEF DealsTyped, LaterOn
<1>4. HelpIsSound'
  <2> SUFFICES ASSUME NEW e \in Disputes
               PROVE  /\ userRead[e] < now'
                      /\ \A m \in support'[e] :
                           /\ m.at < now'
                           /\ m.at <= userRead[e] =>
                                \/ m.at \in heard[e] \/ e \in lost.helps
                                \/ \E b \in Calls : step[b] = "help.read" /\ args[b].job = e
                                \/ Cardinality({n \in support'[e] : n.at < m.at}) >= HelpLimit
    BY <1>1 DEF HelpIsSound
  <2>1. /\ userRead[e] < now
        /\ \A m \in support[e] :
             /\ m.at < now
             /\ m.at <= userRead[e] =>
                  \/ m.at \in heard[e] \/ e \in lost.helps
                  \/ \E b \in Calls : step[b] = "help.read" /\ args[b].job = e
                  \/ Cardinality({n \in support[e] : n.at < m.at}) >= HelpLimit
    BY DEF HelpIsSound
  <2>2. /\ userRead[e] \in Nat /\ now \in Nat /\ now' \in Nat
        /\ \A m \in support[e] : m.at \in Nat
    BY <1>1, InstantsAreTyped DEF LaterOn
  <2>3. \A m \in support'[e] : m \in support[e] \/ m.at = now
    BY <1>1, <1>2 DEF DealsTyped
  <2>4. support[e] \subseteq support'[e]
    BY <1>1 DEF DealsTyped
  <2>5. \A m \in support[e] : ~ now < m.at
    <3>1. \A m \in support[e] : m.at < now
      BY <2>1
    <3> QED  BY <2>2, <3>1
  <2>6. \A m \in support[e] :
          {n \in support'[e] : n.at < m.at} = {n \in support[e] : n.at < m.at}
    BY <2>3, <2>4, <2>5
  <2>7. userRead[e] < now' /\ ~ now <= userRead[e]
    <3>1. userRead[e] < now
      BY <2>1
    <3> QED  BY <1>1, <2>2, <3>1
  <2>8. \A m \in support'[e] : m.at < now'
    <3>1. \A m \in support[e] : m.at < now
      BY <2>1
    <3> QED  BY <1>1, <2>2, <2>3, <3>1
  <2> QED  BY <2>1, <2>3, <2>6, <2>7, <2>8
<1> QED  BY <1>1, <1>3, <1>4, CallsStay

LEMMA TickStep ==
  ASSUME Sound, Tick
  PROVE  Sound'
<1> USE DEF Sound, Safe
<1>1. /\ UNCHANGED <<status, accepted, deal, holder, sent, read, busy, store, seen>>
      /\ UNCHANGED <<reviewed, rating, complaint, support, userRead, heard, step, args>>
      /\ UNCHANGED <<faults, lost>> /\ LaterOn
  BY StampIsLater DEF Tick, jobVars, chatVars, reviewVars, helpVars, callVars, faultVars
<1>2. DealsTyped'
  BY <1>1 DEF DealsTyped, LaterOn
<1> QED  BY <1>1, <1>2, CallsStay, HelpKept

LEMMA CrashStep ==
  ASSUME Sound, Crash
  PROVE  Sound'
<1> USE DEF Sound, Safe
<1> DEFINE helped == {args[c].job : c \in {d \in Calls : step[d] = "help.read"}}
           late == \E c \in Calls : step[c] \in Rating
           pics == UNION {Pics(c) : c \in Calls}
<1>1. /\ UNCHANGED <<status, accepted, deal, sent, read, store, seen>>
      /\ UNCHANGED <<reviewed, rating, complaint, support, userRead, heard, now>>
      /\ faults' \in 0..MaxFaults /\ LaterOn /\ busy' = FALSE
      /\ holder' = [j \in Jobs |-> None]
      /\ step' = [c \in Calls |-> "idle"] /\ args' = [c \in Calls |-> NoArgs]
      /\ lost' = [lost EXCEPT !.photos = @ \cup pics, !.helps = @ \cup helped,
                              !.review = @ \/ late]
  <2>1. faults' \in 0..MaxFaults
    BY BoundsAreNaturals DEF Crash, Fault, DealsTyped
  <2>2. now' = now /\ LaterOn
    BY StampIsLater DEF Crash
  <2>3. lost' = [lost EXCEPT !.photos = @ \cup pics, !.helps = @ \cup helped,
                             !.review = @ \/ late]
    BY DEF Crash, Rating
  <2> QED  BY <2>1, <2>2, <2>3 DEF Crash, reviewVars, helpVars
<1>2. /\ lost'.photos = lost.photos \cup pics /\ lost'.helps = lost.helps \cup helped
      /\ lost'.review = (lost.review \/ late) /\ lost'.average = lost.average
  BY <1>1 DEF DealsTyped, Losses
<1>3. pics \subseteq Images /\ helped \subseteq Disputes
      /\ \A c \in Calls : args[c].pic # None => args[c].pic \in pics
  <2>1. pics \subseteq Images /\ \A c \in Calls : args[c].pic # None => args[c].pic \in pics
    BY InstantsAreTyped DEF Pics
  <2>2. helped \subseteq Disputes
    BY DEF CallsAreSound, CallIsSound
  <2> QED  BY <2>1, <2>2
<1> HIDE DEF pics
<1>4. DealsTyped'
  <2>1. lost' \in Losses
    BY <1>1, <1>3 DEF DealsTyped, Losses
  <2>2. /\ step' \in [Calls -> Steps] /\ args' \in [Calls -> Args]
        /\ holder' \in [Jobs -> Calls \cup {None}] /\ busy' \in BOOLEAN
    BY <1>1, ConstantsAreTyped DEF Steps
  <2> QED  BY <1>1, <2>1, <2>2 DEF DealsTyped
<1>5. CallsAreSound'
  <2>1. 0 < now
    BY BoundsAreNaturals DEF DealsTyped
  <2> QED
    BY <1>1, <2>1, ConstantsAreTyped DEF CallsAreSound, CallIsSound, ThreadSteps,
       ReviewSteps, PhotoSteps
<1>6. LockIsHeld'
  BY <1>1 DEF LockIsHeld
<1>7. MarksAreSound'
  BY <1>1 DEF MarksAreSound, Sending
<1>8. PhotosAreSound'
  <2>1. \A i : Posted(i)' <=> Posted(i)
    BY <1>1 DEF Posted
  <2>2. \A i \in store : i < now /\ (Posted(i) \/ i \in lost'.photos)
    <3> SUFFICES ASSUME NEW i \in store PROVE i < now /\ (Posted(i) \/ i \in lost'.photos)
      OBVIOUS
    <3>1. i # None
      BY ConstantsAreTyped DEF DealsTyped
    <3> QED  BY <1>2, <1>3, <3>1 DEF PhotosAreSound
  <2>3. \A j \in Jobs : \A m \in sent[j] :
          m.pic # None => m.pic < now /\ m.pic \in store \cup lost'.photos
    BY <1>2 DEF PhotosAreSound
  <2>4. \A c \in Calls : args'[c].pic = None
    BY <1>1, ConstantsAreTyped
  <2> QED  BY <1>1, <2>1, <2>2, <2>3, <2>4 DEF PhotosAreSound
<1>9. RatingIsSound'
  <2>1. CASE late
    BY <1>2, <2>1 DEF RatingIsSound
  <2>2. CASE ~ late
    BY <1>1, <1>2, <2>2 DEF RatingIsSound, Rating
  <2> QED  BY <2>1, <2>2
<1>10. HelpIsSound'
  <2> SUFFICES ASSUME NEW d \in Disputes, NEW m \in support[d]
               PROVE  m.at <= userRead[d] =>
                        \/ m.at \in heard[d] \/ d \in lost'.helps
                        \/ Cardinality({n \in support[d] : n.at < m.at}) >= HelpLimit
    BY <1>1 DEF HelpIsSound
  <2>1. \A c \in Calls : step[c] = "help.read" /\ args[c].job = d => d \in lost'.helps
    BY <1>2
  <2> QED  BY <1>2, <2>1 DEF HelpIsSound
<1> QED  BY <1>4, <1>5, <1>6, <1>7, <1>8, <1>9, <1>10

-----------------------------------------------------------------------------
(* The edits of the administration                                         *)

\* Where an edit stands shows in nothing but itself and the copy.
LEMMA EditMoves ==
  ASSUME EditsAreSound, NEW e \in Edits, NEW n \in EditRecords,
         edit' = [edit EXCEPT ![e] = n],
         n.at # "idle" => n.usr = "worker" /\ n.base \in Rows,
         copy' \in [{"worker"} -> Rows \cup {None}]
  PROVE  EditsAreSound'
<1>1. edit \in [Edits -> EditRecords]
  BY DEF EditsAreSound, Admin!CopiesAreRows, EditRecords
<1>2. edit' \in [Edits -> EditRecords]
  BY <1>1
<1>3. \A d \in Edits : edit'[d] = IF d = e THEN n ELSE edit[d]
  BY <1>1
<1>4. Admin!CopiesAreRows'
  BY <1>2 DEF Admin!CopiesAreRows, EditRecords
<1> QED  BY <1>3, <1>4 DEF EditsAreSound

LEMMA AdminStep ==
  ASSUME IInv, AdminActs
  PROVE  IInv'
<1> USE DEF IInv
<1>t. /\ copy \in [{"worker"} -> Rows \cup {None}]
      /\ edit \in [Edits -> EditRecords]
      /\ \A e \in Edits : edit[e].at # "idle" =>
           edit[e].usr = "worker" /\ edit[e].base \in Rows
  BY DEF EditsAreSound, Admin!CopiesAreRows, EditRecords
<1>r. Row \in Rows /\ rating \subseteq Jobs
  BY DEF Sound, DealsTyped, Row, Rows
<1>n. Admin!NoEdit \in EditRecords /\ Admin!NoEdit.at = "idle"
  BY DEF Admin!NoEdit, EditRecords, Admin!Places
<1>u. /\ UNCHANGED <<status, accepted, deal, holder, sent, read, busy, store, seen>>
      /\ UNCHANGED <<reviewed, complaint, support, userRead, heard, step, args>>
      /\ UNCHANGED <<faults, now>> /\ LaterOn
  BY StampIsLater DEF AdminActs, ReadUser, LoadForSave, WriteSave, EditElsewhere,
     CopyExpires, restVars, jobVars, chatVars, helpVars, callVars, Sound
\* Most of an edit writes no row.
<1>s. ASSUME UNCHANGED <<rating, lost>> PROVE Sound'
  <2>1. DealsTyped'
    BY <1>u, <1>s DEF Sound, DealsTyped
  <2>2. HelpIsSound'
    BY <1>u, <1>s, HelpKept DEF Sound, Safe
  <2> QED  BY <1>u, <1>s, <2>1, <2>2, CallsStay DEF Sound, Safe
<1>1. ASSUME NEW e \in Edits, ReadUser(e) PROVE IInv'
  <2> DEFINE n == IF copy["worker"] = None
                  THEN [at |-> "fill", usr |-> "worker", base |-> Row, diff |-> {}]
                  ELSE [at |-> "load", usr |-> "worker", base |-> copy["worker"],
                        diff |-> {}]
  <2>1. /\ UNCHANGED <<rating, lost>> /\ copy' = copy
        /\ edit' = [edit EXCEPT ![e] = n]
    BY <1>1 DEF ReadUser, Admin!ReadUser
  <2>2. n \in EditRecords /\ n.usr = "worker" /\ n.base \in Rows
    BY <1>t, <1>r DEF EditRecords, Admin!Places
  <2> HIDE DEF n
  <2> QED  BY <1>s, <1>t, <2>1, <2>2, EditMoves
<1>2. ASSUME NEW e \in Edits, LoadForSave(e) PROVE IInv'
  <2> DEFINE D == {f \in Columns : edit[e].base[f] # Row[f]}
             n == [edit[e] EXCEPT !.at = "write", !.diff = D]
  <2>1. /\ UNCHANGED <<rating, lost>> /\ copy' = copy /\ edit[e].at = "load"
        /\ edit' = [edit EXCEPT ![e] = n]
    BY <1>2, <1>t DEF LoadForSave, Admin!LoadForSave
  <2>2. n \in EditRecords /\ n.usr = edit[e].usr /\ n.base = edit[e].base
    BY <1>t DEF EditRecords, Admin!Places
  <2> HIDE DEF n
  <2> QED  BY <1>s, <1>t, <2>1, <2>2, EditMoves
<1>3. ASSUME NEW e \in Edits, EditElsewhere(e) PROVE IInv'
  <2> DEFINE n == [edit[e] EXCEPT !.at = "load"]
  <2>1. UNCHANGED <<rating, lost>> /\ edit[e].at # "idle"
    BY <1>3 DEF EditElsewhere, Admin!FillCopy, Admin!SaveFails, Admin!ClearCopy
  <2>2. n \in EditRecords /\ n.usr = edit[e].usr /\ n.base = edit[e].base
    BY <1>t DEF EditRecords, Admin!Places
  <2>3. \/ edit' = [edit EXCEPT ![e] = n]
        \/ edit' = [edit EXCEPT ![e] = Admin!NoEdit]
    BY <1>3, <1>t DEF EditElsewhere, Admin!FillCopy, Admin!SaveFails,
       Admin!ClearCopy
  <2>4. copy' \in [{"worker"} -> Rows \cup {None}]
    <3>1. edit[e].usr = "worker" /\ edit[e].base \in Rows
      BY <1>t, <2>1
    <3>2. \/ copy' = copy
          \/ copy' = [copy EXCEPT !["worker"] = None]
          \/ copy' = [copy EXCEPT !["worker"] = edit[e].base]
      BY <1>3, <3>1 DEF EditElsewhere, Admin!FillCopy, Admin!SaveFails,
         Admin!ClearCopy, Admin!Usr
    <3> QED  BY <1>t, <3>1, <3>2
  <2> HIDE DEF n
  <2>5. CASE edit' = [edit EXCEPT ![e] = n]
    BY <1>s, <1>t, <2>1, <2>2, <2>4, <2>5, EditMoves
  <2>6. CASE edit' = [edit EXCEPT ![e] = Admin!NoEdit]
    BY <1>s, <1>n, <2>1, <2>4, <2>6, EditMoves
  <2> QED  BY <2>3, <2>5, <2>6
<1>4. CASE CopyExpires
  <2>1. /\ UNCHANGED <<rating, lost>> /\ edit' = edit
        /\ copy' = [copy EXCEPT !["worker"] = None]
    BY <1>4 DEF CopyExpires, Admin!CopyExpires
  <2>2. EditsAreSound'
    BY <1>t, <2>1 DEF EditsAreSound, Admin!CopiesAreRows
  <2> QED  BY <1>s, <2>1, <2>2
\* The save takes the average of the copy, or the present one.
<1>5. ASSUME NEW e \in Edits, WriteSave(e) PROVE IInv'
  <2> DEFINE n == [edit[e] EXCEPT !.at = "clear"]
  <2>1. /\ edit[e].at = "write" /\ copy' = copy /\ edit' = [edit EXCEPT ![e] = n]
        /\ rating' = Admin!Saved(e, Row).average
        /\ lost' = [lost EXCEPT !.average = @ \/ rating' # rating]
    BY <1>5, <1>t DEF WriteSave, Admin!SaveSucceeds
  <2>2. rating' \in {edit[e].base.average, rating}
    BY <2>1 DEF Admin!Saved, Columns, Row
  <2>3. rating' \subseteq Jobs
    BY <1>t, <1>r, <2>1, <2>2 DEF Rows
  <2>4. /\ lost' \in Losses /\ lost'.photos = lost.photos
        /\ lost'.helps = lost.helps /\ lost'.review = lost.review
        /\ lost'.average = (lost.average \/ rating' # rating)
    BY <2>1 DEF Sound, DealsTyped, Losses
  <2>5. n \in EditRecords /\ n.usr = edit[e].usr /\ n.base = edit[e].base
    BY <1>t DEF EditRecords, Admin!Places
  <2> HIDE DEF n
  <2>6. EditsAreSound'
    BY <1>t, <2>1, <2>5, EditMoves
  <2>7. DealsTyped'
    BY <1>u, <2>3, <2>4 DEF Sound, DealsTyped
  <2>8. RatingIsSound'
    BY <1>u, <2>4 DEF Sound, Safe, RatingIsSound
  <2>9. CallsAreSound' /\ LockIsHeld'
    BY <1>u DEF Sound, Safe, CallsAreSound, CallIsSound, LockIsHeld
  <2>10. MarksAreSound' /\ PhotosAreSound'
    BY <1>u, <2>4, MarksKept, PhotosKept DEF Sound, Safe
  <2>11. HelpIsSound'
    BY <1>u, <2>4, HelpKept DEF Sound, Safe
  <2> QED  BY <2>6, <2>7, <2>8, <2>9, <2>10, <2>11 DEF Sound, Safe
<1> QED  BY <1>1, <1>2, <1>3, <1>4, <1>5 DEF AdminActs

-----------------------------------------------------------------------------
(* The invariant, and what follows from it                                 *)

LEMMA InitIInv == Init => IInv
<1> SUFFICES ASSUME Init PROVE IInv
  OBVIOUS
<1>1. copy = [u \in {"worker"} |-> None] /\ edit = [e \in Edits |-> Admin!NoEdit]
  BY DEF Init, Admin!NoCopies
<1>2. Admin!NoEdit \in EditRecords /\ Admin!NoEdit.at = "idle"
  BY DEF Admin!NoEdit, EditRecords, Admin!Places
<1>3. EditsAreSound
  BY <1>1, <1>2 DEF EditsAreSound, Admin!CopiesAreRows, EditRecords
<1> QED  BY <1>3, InitSound DEF IInv

LEMMA StepIInv == IInv /\ [Next]_vars => IInv'
<1> SUFFICES ASSUME IInv, [Next]_vars PROVE IInv'
  OBVIOUS
<1> USE DEF IInv
<1>1. ASSUME NEW c \in Calls, CallBegins(c)
      PROVE  Sound'
  <2>1. ASSUME NEW j \in Jobs, NEW p \in Parties,
               \/ MarkThreadRead(c, j, p) \/ SendMessage(c, j, p)
               \/ SendPhoto(c, j, p) \/ CreateReview(c, j)
        PROVE  Sound'
    BY <2>1, ChatBegins
  <2>2. ASSUME NEW d \in Disputes, GetDisputeMessages(c, d)
        PROVE  Sound'
    BY <2>2, GetDisputeMessagesStep
  <2>3. "client" \in Parties
    BY DEF Parties
  <2> QED  BY <1>1, <2>1, <2>2, <2>3 DEF CallBegins
<1>2. ASSUME NEW c \in Calls, CallContinues(c)
      PROVE  Sound'
  <2>1. CASE MarkWrite(c)
    BY <2>1, MarkWriteStep
  <2>2. CASE UploadPhoto(c)
    BY <2>2, UploadPhotoStep
  <2>3. CASE LockJob(c)
    BY <2>3, LockJobStep
  <2>4. CASE InsertMessage(c)
    BY <2>4, InsertMessageStep
  <2>5. CASE DeletePhoto(c)
    BY <2>5, DeletePhotoStep
  <2>6. CASE InsertReview(c) \/ ReadReviews(c) \/ WriteRating(c)
    BY <2>6, ReviewStep
  <2>7. CASE ReadHelp(c)
    BY <2>7, ReadHelpStep
  <2>8. CASE CheckPhoto(c) \/ ReviewPhoto(c)
    BY <2>8, QuietChat
  <2> QED  BY <1>2, <2>1, <2>2, <2>3, <2>4, <2>5, <2>6, <2>7, <2>8 DEF CallContinues
<1>3. ASSUME Environment PROVE Sound'
  <2>1. ASSUME NEW j \in Jobs,
               \/ StartWork(j) \/ Overwrite(j)
               \/ EndJob(j, "completed") \/ EndJob(j, "cancelled")
        PROVE  Sound'
    BY <2>1, JobGoesOn
  <2>2. ASSUME NEW d \in Disputes, CreateDispute(d) \/ ResolveDispute(d)
        PROVE  Sound'
    BY <2>2, ComplaintGoesOn
  <2>3. ASSUME NEW d \in Disputes, NEW s \in Sides, SendDisputeMessage(d, s)
        PROVE  Sound'
    BY <2>3, SendDisputeMessageStep
  <2> QED  BY <1>3, <2>1, <2>2, <2>3, TickStep DEF Environment
<1>4. ASSUME UNCHANGED vars PROVE Sound'
  <2>1. /\ UNCHANGED <<status, accepted, deal, holder, sent, read, busy, store, seen>>
        /\ UNCHANGED <<reviewed, rating, complaint, support, userRead, heard>>
        /\ UNCHANGED <<step, args, faults, lost, now>> /\ LaterOn
    BY <1>4, StampIsLater DEF vars, jobVars, chatVars, reviewVars, helpVars, callVars,
       faultVars, Sound
  <2>2. DealsTyped'
    BY <2>1 DEF Sound, DealsTyped
  <2>3. HelpIsSound'
    BY <2>1, HelpKept DEF Sound, Safe
  <2> QED  BY <2>1, <2>2, <2>3, CallsStay DEF Sound, Safe
<1>5. ASSUME UNCHANGED editVars PROVE EditsAreSound'
  BY <1>5 DEF editVars, EditsAreSound, Admin!CopiesAreRows
<1>6. ASSUME Crash PROVE IInv'
  <2>1. copy' = copy /\ edit' = [e \in Edits |-> Admin!NoEdit]
    BY <1>6 DEF Crash
  <2>2. Admin!NoEdit \in EditRecords /\ Admin!NoEdit.at = "idle"
    BY DEF Admin!NoEdit, EditRecords, Admin!Places
  <2>3. EditsAreSound'
    BY <2>1, <2>2 DEF EditsAreSound, Admin!CopiesAreRows, EditRecords
  <2> QED  BY <1>6, <2>3, CrashStep
<1>7. CASE UNCHANGED vars
  BY <1>4, <1>5, <1>7 DEF vars
<1> QED  BY <1>1, <1>2, <1>3, <1>5, <1>6, <1>7, AdminStep DEF Next

\* Conversation: what its calls rely on holds in every state it reaches.
THEOREM Invariance == Spec => []IInv
BY InitIInv, StepIInv, PTL DEF Spec

\* Every variable has its type (Conversation).
THEOREM TypeCorrect == Spec => []TypeOK
<1>1. IInv => TypeOK
  BY DEF IInv, Sound, DealsTyped, EditsAreSound, TypeOK
<1> QED  BY <1>1, Invariance, PTL

\* Nothing is said in a job that has ended, not even by what was under way
\* when it did (persistMessage).
THEOREM NothingIsSaidTooLate == Spec => SaidInTime
<1>1. IInv /\ [Next]_vars =>
        [\A j \in Jobs : sent'[j] # sent[j] => status[j] \in Writable]_vars
  <2> SUFFICES ASSUME IInv, [Next]_vars, NEW j \in Jobs, sent'[j] # sent[j]
               PROVE  status[j] \in Writable
    OBVIOUS
  <2>1. PICK c \in Calls : InsertMessage(c)
    BY DEF Next, CallBegins, CallContinues, Environment, MarkThreadRead, SendMessage,
       SendPhoto, CreateReview, GetDisputeMessages, MarkWrite, CheckPhoto, ReviewPhoto,
       UploadPhoto, LockJob, DeletePhoto, InsertReview, ReadReviews, WriteRating,
       ReadHelp, StartWork, Overwrite, EndJob, CreateDispute, ResolveDispute,
       SendDisputeMessage, Tick, Crash, AdminActs, ReadUser, LoadForSave, WriteSave,
       EditElsewhere, CopyExpires, restVars, vars, chatVars
  <2>2. j = args[c].job
    BY <2>1 DEF InsertMessage, IInv, Sound, DealsTyped
  <2> QED  BY <2>1, <2>2 DEF InsertMessage, IInv, Sound, Safe, LockIsHeld
<1> QED  BY <1>1, Invariance, PTL DEF Spec, SaidInTime

\* A photo of the chat is there to be seen, and one that is stored is in the
\* chat or on its way, but for those that a fault left behind, an upload that
\* was given up among them (sendPhoto, uploadBase64Image).
THEOREM PhotosStayKept == Spec => []PhotosAreKept
<1>1. IInv => PhotosAreKept
  <2> SUFFICES ASSUME IInv PROVE PhotosAreKept
    OBVIOUS
  <2> DEFINE shown == (UNION {{m.pic : m \in sent[j]} : j \in Jobs}) \ {None}
  <2>1. \A i : i \in shown <=> i # None /\ Posted(i)
    BY DEF Posted
  <2>2. shown \subseteq store \cup lost.photos
    BY <2>1 DEF IInv, Sound, Safe, PhotosAreSound, Posted
  <2>3. \A i \in store : i # None
    BY ConstantsAreTyped DEF IInv, Sound, DealsTyped
  <2>4. store \subseteq shown \cup lost.photos \cup UNION {Pics(c) : c \in Calls}
    BY <2>1, <2>3 DEF IInv, Sound, Safe, PhotosAreSound, Pics
  <2> QED  BY <2>2, <2>4 DEF PhotosAreKept
<1> QED  BY <1>1, Invariance, PTL

\* A rating is the average of all reviews when none is being made, unless two
\* were made at once, the process stopped, or an edit saved an old copy since
\* the last (createReview, update).
THEOREM RatingStaysFresh == Spec => []RatingIsFresh
<1>1. IInv => RatingIsFresh
  BY DEF IInv, Sound, Safe, RatingIsSound, RatingIsFresh, Rating
<1> QED  BY <1>1, Invariance, PTL

\* What is unread is what came after the party last marked the thread, but for
\* what was under way at that mark (getMessages, markThreadRead).
THEOREM UnreadStaysUnseen == Spec => []UnreadIsUnseen
<1>1. IInv => UnreadIsUnseen
  <2> SUFFICES ASSUME IInv, NEW j \in Jobs, NEW p \in Parties
               PROVE  {m \in sent[j] : m.from # p /\ m.at > read[j][p]} =
                      {m \in sent[j] : /\ m.from # p /\ m.at \notin seen[j][p]
                                       /\ p \notin m.crossed}
    BY DEF UnreadIsUnseen, UnreadCount
  <2>1. \A m \in sent[j] : m.at <= read[j][p] <=> m.at \in seen[j][p] \/ p \in m.crossed
    BY DEF IInv, Sound, Safe, MarksAreSound
  <2>2. read[j][p] \in Nat /\ \A m \in sent[j] : m.at \in Nat
    BY InstantsAreTyped DEF IInv, Sound
  <2>3. \A m \in sent[j] : m.at > read[j][p] <=> ~ m.at <= read[j][p]
    BY <2>2
  <2> QED  BY <2>1, <2>3
<1> QED  BY <1>1, Invariance, PTL

\* A message of a complaint that counts as read has been shown, or is about to
\* be, unless it is beyond the first HelpLimit (getDisputeMessages).
THEOREM SupportStaysSeen == Spec => []SupportIsSeen
<1>1. IInv => SupportIsSeen
  <2> SUFFICES ASSUME IInv, NEW d \in Disputes,
                      NEW m \in support[d] \ UnreadHelp(d, "nobody")
               PROVE  \/ m.at \in heard[d] \/ d \in lost.helps
                      \/ \E c \in Calls : step[c] = "help.read" /\ args[c].job = d
                      \/ Cardinality({n \in support[d] : n.at < m.at}) >= HelpLimit
    BY DEF SupportIsSeen
  <2>1. m.from # "nobody"
    BY DEF IInv, Sound, DealsTyped, Messages, Sides, Parties
  <2>2. userRead[d] \in Nat /\ m.at \in Nat
    BY InstantsAreTyped DEF IInv, Sound
  <2>3. ~ m.at > userRead[d]
    BY <2>1 DEF UnreadHelp
  <2>4. m.at <= userRead[d]
    BY <2>2, <2>3
  <2> QED  BY <2>4 DEF IInv, Sound, Safe, HelpIsSound
<1> QED  BY <1>1, Invariance, PTL

-----------------------------------------------------------------------------
(* The pages of a thread. From here on nothing is about a step: from any    *)
(* state of the right types, the pages give back what there is to show.    *)

\* Induction over a set of numbers: one that is missing would let as many
\* numbers have their successors in one place less.
LEMMA NatSetInduction ==
  ASSUME NEW D, 0 \in D, \A n \in Nat : n \in D => n + 1 \in D
  PROVE  \A n \in Nat : n \in D
<1> SUFFICES ASSUME NEW m \in Nat, m \notin D PROVE FALSE
  OBVIOUS
<1> DEFINE A == {n \in 0..m : n \in D}
           B == A \ {0}
           f == [n \in A |-> n + 1]
<1>1. IsFiniteSet(0..m)
  BY FS_Interval
<1>2. IsFiniteSet(A)
  BY <1>1, FS_Subset
<1>3. 0 \in A
  OBVIOUS
<1>4. IsFiniteSet(B) /\ Cardinality(B) = Cardinality(A) - 1 /\ Cardinality(A) \in Nat
  BY <1>2, <1>3, FS_RemoveElement, FS_CardinalityType
<1>5. \A n \in A : n + 1 \in B
  OBVIOUS
<1>6. f \in [A -> B]
  BY <1>5
<1>7. \E x, y \in A : x # y /\ f[x] = f[y]
  <2> HIDE DEF A, B, f
  <2> QED  BY <1>2, <1>4, <1>6, FS_PigeonHole
<1> QED  BY <1>7

LEMMA HasLeast ==
  ASSUME NEW T \in SUBSET Nat, T # {}
  PROVE  \E t \in T : \A u \in T : t <= u
<1> SUFFICES ASSUME \A t \in T : \E u \in T : ~ t <= u PROVE FALSE
  OBVIOUS
<1> DEFINE D == {n \in Nat : \A t \in T : n <= t}
<1>1. 0 \in D
  OBVIOUS
<1>2. \A n \in Nat : n \in D => n + 1 \in D
  <2> SUFFICES ASSUME NEW n \in Nat, n \in D, NEW t \in T PROVE n + 1 <= t
    OBVIOUS
  <2>1. PICK u \in T : ~ t <= u
    OBVIOUS
  <2>2. n <= u
    OBVIOUS
  <2> QED  BY <2>1, <2>2
<1>3. \A n \in Nat : n \in D
  <2> HIDE DEF D
  <2> QED  BY <1>1, <1>2, NatSetInduction
<1>4. PICK t \in T : TRUE
  OBVIOUS
<1>5. t + 1 \in D
  BY <1>3
<1> QED  BY <1>5

LEMMA HasGreatest ==
  ASSUME NEW T \in SUBSET Nat, T # {}, NEW b \in Nat, \A t \in T : t <= b
  PROVE  \E t \in T : \A u \in T : u <= t
<1> DEFINE R == {b - t : t \in T}
<1>1. R \in SUBSET Nat /\ R # {}
  <2>1. \A t \in T : b - t \in Nat
    OBVIOUS
  <2>2. PICK t \in T : TRUE
    OBVIOUS
  <2>3. b - t \in R
    OBVIOUS
  <2> QED  BY <2>1, <2>3
<1>2. \E r \in R : \A u \in R : r <= u
  <2> HIDE DEF R
  <2> QED  BY <1>1, HasLeast
<1>3. PICK t \in T : \A u \in T : b - t <= b - u
  BY <1>2
<1> QED  BY <1>3

LEMMA Division ==
  ASSUME NEW t \in Nat, NEW b \in Nat
  PROVE  Milli(t) \in Nat /\ (Milli(t) < b <=> t < b * Millisecond)
<1> USE ScalesArePositive
<1> DEFINE M == Millisecond
           q == Milli(t)
<1>1. q \in Nat /\ q * M <= t /\ t < (q + 1) * M
  BY DEF Milli
<1> HIDE DEF q
<1>2. CASE q < b
  <2>1. (q + 1) * M <= b * M /\ (q + 1) * M \in Nat /\ b * M \in Nat
    BY <1>1, <1>2
  <2>2. t < b * M
    BY <1>1, <2>1
  <2> QED  BY <1>1, <1>2, <2>2 DEF q
<1>3. CASE ~ q < b
  <2>1. b * M <= q * M /\ b * M \in Nat /\ q * M \in Nat
    BY <1>1, <1>3
  <2>2. ~ t < b * M
    BY <1>1, <2>1
  <2> QED  BY <1>1, <1>3, <2>2 DEF q
<1> QED  BY <1>2, <1>3

\* Instants keep their order when they are cut.
LEMMA CutsKeepOrder ==
  ASSUME NEW t \in Nat, NEW u \in Nat, Milli(t) < Milli(u)
  PROVE  t < u
<1>1. Milli(u) \in Nat /\ t < Milli(u) * Millisecond /\ ~ u < Milli(u) * Millisecond
  BY Division
<1>2. Milli(u) * Millisecond \in Nat
  BY <1>1, ScalesArePositive
<1> QED  BY <1>1, <1>2

EntrySet == [key : {"message", "deal", "start", "end"}, at : Instants]

LEMMA EntriesAreFinite ==
  \A es \in SUBSET EntrySet : IsFiniteSet(es) /\ Cardinality(es) \in Nat
<1> DEFINE K == ({"message"} \cup {"deal"}) \cup ({"start"} \cup {"end"})
           f == [e \in EntrySet |-> <<e.key, e.at>>]
<1>1. IsFiniteSet(K)
  <2>1. \A x : IsFiniteSet({x})
    BY FS_Singleton
  <2>2. /\ IsFiniteSet({"message"} \cup {"deal"})
        /\ IsFiniteSet({"start"} \cup {"end"})
    BY <2>1, FS_AddElement
  <2> QED  BY <2>2, FS_Union
<1>2. IsFiniteSet(Instants)
  BY ConstantsAreTyped, FS_Interval DEF Instants
<1>3. IsFiniteSet(K \X Instants)
  BY <1>1, <1>2, FS_Product
<1>4. f \in Injection(EntrySet, K \X Instants)
  <2>1. f \in [EntrySet -> K \X Instants]
    BY DEF EntrySet
  <2>2. \A m, n \in EntrySet : f[m] = f[n] => m = n
    BY DEF EntrySet
  <2> QED  BY <2>1, <2>2 DEF Injection, IsInjective
<1>5. IsFiniteSet(EntrySet)
  <2> HIDE DEF K, f
  <2> QED  BY <1>3, <1>4, FS_Injection
<1>6. \A es \in SUBSET EntrySet : IsFiniteSet(es)
  BY <1>5, FS_Subset
<1> QED  BY <1>6, FS_CardinalityType

LEMMA EntriesAreTyped ==
  ASSUME DealsTyped, NEW j \in Jobs
  PROVE  /\ Entries(j) \in SUBSET EntrySet
         /\ Events(j) = {e \in Entries(j) : e.key # "message"}
<1>1. deal[j] \in [made : Instants, started : Instants, ended : Instants]
  BY DEF DealsTyped
<1>2. \A m \in sent[j] : m.at \in Instants
  BY InstantsAreTyped DEF Messages
<1>3. Events(j) \in SUBSET EntrySet /\ \A e \in Events(j) : e.key # "message"
  BY <1>1 DEF Events, EntrySet
<1>4. {[key |-> "message", at |-> m.at] : m \in sent[j]} \in SUBSET EntrySet
  BY <1>2 DEF EntrySet
<1>5. \A e \in {[key |-> "message", at |-> m.at] : m \in sent[j]} : e.key = "message"
  <2> SUFFICES ASSUME NEW m \in sent[j]
               PROVE  [key |-> "message", at |-> m.at].key = "message"
    OBVIOUS
  <2> QED  OBVIOUS
<1> QED  BY <1>3, <1>4, <1>5 DEF Entries

\* What is left out of the newest n is older than n that are not.
LEMMA NewestAreMany ==
  ASSUME NEW es \in SUBSET EntrySet, NEW n \in Nat,
         NEW e \in es, e \notin Newest(n, es)
  PROVE  \E g \in SUBSET Newest(n, es) :
           Cardinality(g) >= n /\ \A f \in g : f.at > e.at
<1> DEFINE A == {x \in es : x \notin Newest(n, es)}
           T == {x.at : x \in A}
<1>1. \A x \in es : x.at \in Nat /\ x.at <= MaxTime
  BY ConstantsAreTyped DEF EntrySet, Instants
<1>2. T \in SUBSET Nat /\ T # {} /\ \A t \in T : t <= MaxTime
  BY <1>1
<1>3. \E t \in T : \A u \in T : u <= t
  <2> HIDE DEF T
  <2> QED  BY <1>2, ConstantsAreTyped, HasGreatest
<1>4. PICK x \in A : \A y \in A : y.at <= x.at
  BY <1>3
<1> DEFINE g == {f \in es : f.at > x.at}
<1>5. Cardinality(g) \in Nat /\ ~ Cardinality(g) < n
  BY <1>4, EntriesAreFinite DEF Newest
<1>6. g \in SUBSET Newest(n, es)
  <2> SUFFICES ASSUME NEW f \in g, f \in A PROVE FALSE
    OBVIOUS
  <2> QED  BY <1>1, <1>4
<1>7. \A f \in g : f.at > e.at
  BY <1>1, <1>4
<1>8. Cardinality(g) >= n
  <2> HIDE DEF g
  <2> QED  BY <1>5
<1> QED  BY <1>6, <1>7, <1>8

\* What is older than a millisecond, all of it.
Below(j, b) == {e \in Entries(j) : Milli(e.at) < b}

Distinct(j) == \A x, y \in Entries(j) : x # y => Milli(x.at) # Milli(y.at)

MessageRows(j, b) == {e \in Entries(j) : e.key = "message" /\ e.at < b * Millisecond}

LEMMA OlderIsTyped ==
  ASSUME DealsTyped, NEW j \in Jobs, NEW b \in Nat
  PROVE  /\ MessageRows(j, b) \in SUBSET EntrySet
         /\ Older(j, b) = Newest(Limit + 1, MessageRows(j, b))
                            \cup {e \in Below(j, b) : e.key # "message"}
         /\ MessageRows(j, b) = {e \in Below(j, b) : e.key = "message"}
         /\ Older(j, b) \subseteq Below(j, b)
         /\ Older(j, b) \in SUBSET EntrySet
         /\ \A e \in Entries(j) : e.at \in Nat /\ Milli(e.at) \in Nat
<1>1. /\ Entries(j) \in SUBSET EntrySet
      /\ Events(j) = {e \in Entries(j) : e.key # "message"}
  BY EntriesAreTyped
<1>2. \A e \in Entries(j) : e.at \in Nat
  BY <1>1, ConstantsAreTyped DEF EntrySet
<1>3. \A e \in Entries(j) :
        Milli(e.at) \in Nat /\ (Milli(e.at) < b <=> e.at < b * Millisecond)
  BY <1>2, Division
<1>4. MessageRows(j, b) = {e \in Below(j, b) : e.key = "message"}
  BY <1>3 DEF MessageRows, Below
<1>5. {e \in Events(j) : Milli(e.at) < b} = {e \in Below(j, b) : e.key # "message"}
  BY <1>1 DEF Below
<1>6. Older(j, b) = Newest(Limit + 1, MessageRows(j, b))
                      \cup {e \in Below(j, b) : e.key # "message"}
  BY <1>5 DEF Older, MessageRows
<1>7. Newest(Limit + 1, MessageRows(j, b)) \subseteq MessageRows(j, b)
  BY DEF Newest
<1>8. Older(j, b) \subseteq Below(j, b) /\ Below(j, b) \subseteq Entries(j)
  BY <1>4, <1>6, <1>7 DEF Below
<1> QED  BY <1>1, <1>2, <1>3, <1>4, <1>6, <1>8 DEF MessageRows

\* Whoever is left out is older than Limit + 1 of those that are not.
LEMMA LeftOutIsOlder ==
  ASSUME DealsTyped, NEW j \in Jobs, NEW b \in Nat,
         NEW e \in Below(j, b), e \notin Older(j, b)
  PROVE  \E g \in SUBSET Older(j, b) :
           Cardinality(g) >= Limit + 1 /\ \A f \in g : f.at > e.at
<1>1. e \in MessageRows(j, b) /\ e \notin Newest(Limit + 1, MessageRows(j, b))
  BY OlderIsTyped
<1>2. \E g \in SUBSET Newest(Limit + 1, MessageRows(j, b)) :
        Cardinality(g) >= Limit + 1 /\ \A f \in g : f.at > e.at
  <2>1. Limit + 1 \in Nat
    BY ScalesArePositive
  <2> QED  BY <1>1, <2>1, OlderIsTyped, NewestAreMany
<1> QED  BY <1>2, OlderIsTyped

\* The last page.
LEMMA LastPageIsAll ==
  ASSUME DealsTyped, NEW j \in Jobs, NEW b \in Nat, ~ HasMore(j, b)
  PROVE  Page(j, b) = Below(j, b)
<1> DEFINE O == Older(j, b)
<1>1. O \in SUBSET EntrySet /\ O \subseteq Below(j, b)
  BY OlderIsTyped
<1>2. Cardinality(O) \in Nat /\ Cardinality(O) <= Limit /\ Limit \in Nat
  BY <1>1, EntriesAreFinite, ScalesArePositive DEF HasMore
<1>3. Below(j, b) \subseteq O
  <2> SUFFICES ASSUME NEW e \in Below(j, b), e \notin O PROVE FALSE
    OBVIOUS
  <2>1. PICK g \in SUBSET O : Cardinality(g) >= Limit + 1
    BY LeftOutIsOlder
  <2>2. Cardinality(g) \in Nat /\ Cardinality(g) <= Cardinality(O)
    BY <1>1, EntriesAreFinite, FS_Subset
  <2> QED  BY <1>2, <2>1, <2>2
<1>4. ASSUME NEW e \in O
      PROVE  Cardinality({f \in O : f.at > e.at}) < Limit
  <2>1. IsFiniteSet(O \ {e}) /\ Cardinality(O \ {e}) = Cardinality(O) - 1
    BY <1>1, EntriesAreFinite, FS_RemoveElement
  <2>2. {f \in O : f.at > e.at} \in SUBSET (O \ {e})
    BY <1>1, OlderIsTyped DEF Below
  <2>3. /\ Cardinality({f \in O : f.at > e.at}) <= Cardinality(O \ {e})
        /\ Cardinality({f \in O : f.at > e.at}) \in Nat
    BY <2>1, <2>2, FS_Subset, FS_CardinalityType
  <2> QED  BY <1>2, <2>1, <2>3
<1>5. Page(j, b) = O
  BY <1>4 DEF Page, Newest
<1> QED  BY <1>1, <1>3, <1>5

\* A page that is not the last is not empty, and what it leaves out is older
\* than all of it: the next page is asked for from its oldest entry on.
LEMMA PageAndTheRest ==
  ASSUME DealsTyped, NEW j \in Jobs, Distinct(j), NEW b \in Nat, HasMore(j, b)
  PROVE  \A o : o = Oldest(Page(j, b)) =>
           /\ o \in Nat /\ o < b
           /\ Page(j, b) \cup Below(j, o) = Below(j, b)
<1> DEFINE O == Older(j, b)
           P == Page(j, b)
           T == {Milli(e.at) : e \in P}
<1>1. /\ O \in SUBSET EntrySet /\ O \subseteq Below(j, b) /\ P \subseteq O
      /\ \A e \in Below(j, b) : e \in Entries(j) /\ e.at \in Nat /\ Milli(e.at) \in Nat
                                /\ Milli(e.at) < b
  BY OlderIsTyped DEF Page, Newest, Below
<1>2. Cardinality(O) \in Nat /\ Cardinality(O) > Limit /\ Limit \in Nat /\ Limit > 0
  BY <1>1, EntriesAreFinite, ScalesArePositive DEF HasMore
<1>3. P # {}
  <2> SUFFICES ASSUME P = {} PROVE FALSE
    OBVIOUS
  <2>1. PICK e \in O : TRUE
    <3>1. O # {}
      BY <1>2, FS_EmptySet
    <3> QED  BY <3>1
  <2>2. PICK g \in SUBSET P : Cardinality(g) >= Limit
    <3>1. e \notin Newest(Limit, O)
      BY DEF Page
    <3>2. \E g \in SUBSET Newest(Limit, O) :
            Cardinality(g) >= Limit /\ \A f \in g : f.at > e.at
      BY <1>1, <1>2, <3>1, NewestAreMany
    <3> QED  BY <3>2 DEF Page
  <2>3. g = {}
    OBVIOUS
  <2> QED  BY <1>2, <2>2, <2>3, FS_EmptySet
<1>4. \E t \in T : \A e \in P : t <= Milli(e.at)
  <2>1. T \in SUBSET Nat /\ T # {}
    BY <1>1, <1>3
  <2>2. \E t \in T : \A u \in T : t <= u
    <3> HIDE DEF T
    <3> QED  BY <2>1, HasLeast
  <2> QED  BY <2>2
<1> SUFFICES ASSUME NEW o, o = Oldest(P)
             PROVE  o \in Nat /\ o < b /\ P \cup Below(j, o) = Below(j, b)
  OBVIOUS
<1>5. o \in T /\ \A e \in P : o <= Milli(e.at)
  BY <1>4 DEF Oldest
<1>6. PICK p \in P : o = Milli(p.at)
  BY <1>5
<1>7. o \in Nat /\ o < b /\ p \in Below(j, b)
  BY <1>1, <1>6
<1>8. ASSUME NEW e \in Below(j, b), e # p, ~ Milli(e.at) < o
      PROVE  e \in P
  <2>1. e.at \in Nat /\ p.at \in Nat /\ p.at < e.at
    <3>1. Milli(p.at) < Milli(e.at)
      <4>1. Milli(e.at) # Milli(p.at) /\ Milli(e.at) \in Nat
        BY <1>1, <1>7, <1>8 DEF Distinct
      <4> QED  BY <1>6, <1>7, <1>8, <4>1
    <3> QED  BY <1>1, <1>7, <3>1, CutsKeepOrder
  <2>2. {f \in O : f.at > p.at} \in SUBSET EntrySet
    BY <1>1
  <2>3. /\ Cardinality({f \in O : f.at > p.at}) \in Nat
        /\ Cardinality({f \in O : f.at > p.at}) < Limit
    BY <1>6, <2>2, EntriesAreFinite DEF Page, Newest
  <2>4. \A g \in SUBSET O : (\A f \in g : f.at > e.at) =>
          Cardinality(g) \in Nat /\ Cardinality(g) < Limit
    <3> SUFFICES ASSUME NEW g \in SUBSET O, \A f \in g : f.at > e.at
                 PROVE  Cardinality(g) \in Nat /\ Cardinality(g) < Limit
      OBVIOUS
    <3>1. g \in SUBSET {f \in O : f.at > p.at} /\ g \in SUBSET EntrySet
      BY <1>1, <2>1
    <3>2. /\ Cardinality(g) <= Cardinality({f \in O : f.at > p.at})
          /\ Cardinality(g) \in Nat
      BY <2>2, <3>1, EntriesAreFinite, FS_Subset
    <3> QED  BY <1>2, <2>3, <3>2
  <2>5. e \in O
    <3> SUFFICES ASSUME e \notin O PROVE FALSE
      OBVIOUS
    <3>1. PICK g \in SUBSET O : Cardinality(g) >= Limit + 1 /\ \A f \in g : f.at > e.at
      BY LeftOutIsOlder
    <3>2. Cardinality(g) \in Nat /\ Cardinality(g) < Limit
      BY <2>4, <3>1
    <3> QED  BY <1>2, <3>1, <3>2
  <2>6. Cardinality({f \in O : f.at > e.at}) < Limit
    BY <2>4
  <2> QED  BY <2>5, <2>6 DEF Page, Newest
<1>9. Below(j, o) \subseteq Below(j, b)
  BY <1>1, <1>7, OlderIsTyped DEF Below
<1>10. \A e \in Below(j, b) : e \in P \cup Below(j, o)
  BY <1>1, <1>8 DEF Below
<1> QED  BY <1>1, <1>7, <1>9, <1>10

LEMMA PagesAreComplete == DealsTyped => PagesShowAll
<1> SUFFICES ASSUME DealsTyped, NEW j \in Jobs, Distinct(j)
             PROVE  AllPages(j) = Entries(j)
  BY DEF PagesShowAll, Distinct
<1> DEFINE Dom == 0..MaxTime + 1
           Rest(f) == [before \in Dom |->
             LET page == Page(j, before) IN
             IF HasMore(j, before) THEN page \cup f[Oldest(page)] ELSE page]
           From == CHOOSE f : f = Rest(f)
           all == [b \in Dom |-> Below(j, b)]
<1>1. MaxTime \in Nat /\ MaxTime + 1 \in Dom /\ \A b \in Dom : b \in Nat /\ b <= MaxTime + 1
  BY ConstantsAreTyped
<1>2. AllPages(j) = From[MaxTime + 1]
  BY DEF AllPages
<1>3. \A b \in Dom : HasMore(j, b) =>
        /\ Oldest(Page(j, b)) \in Dom /\ Oldest(Page(j, b)) < b
        /\ Page(j, b) \cup Below(j, Oldest(Page(j, b))) = Below(j, b)
  <2> SUFFICES ASSUME NEW b \in Dom, HasMore(j, b), NEW o, o = Oldest(Page(j, b))
               PROVE  o \in Dom /\ o < b /\ Page(j, b) \cup Below(j, o) = Below(j, b)
    OBVIOUS
  <2>1. o \in Nat /\ o < b /\ Page(j, b) \cup Below(j, o) = Below(j, b)
    BY <1>1, PageAndTheRest
  <2> QED  BY <1>1, <2>1
<1>4. \A b \in Dom : ~ HasMore(j, b) => Page(j, b) = Below(j, b)
  BY <1>1, LastPageIsAll
<1>5. all = Rest(all)
  BY <1>3, <1>4
<1>6. From = Rest(From)
  BY <1>5
<1> HIDE DEF From
<1> DEFINE D == {n \in Nat : \A b \in Dom : b < n => From[b] = Below(j, b)}
<1>7. 0 \in D
  BY <1>1
<1>8. \A n \in Nat : n \in D => n + 1 \in D
  <2> SUFFICES ASSUME NEW n \in Nat, n \in D, NEW b \in Dom, b < n + 1
               PROVE  From[b] = Below(j, b)
    OBVIOUS
  <2>1. From[b] = IF HasMore(j, b) THEN Page(j, b) \cup From[Oldest(Page(j, b))]
                  ELSE Page(j, b)
    BY <1>6
  <2>2. CASE HasMore(j, b)
    <3>1. Oldest(Page(j, b)) \in Dom /\ Oldest(Page(j, b)) < b
      BY <1>3, <2>2
    <3>2. Oldest(Page(j, b)) < n
      BY <1>1, <3>1
    <3>3. From[Oldest(Page(j, b))] = Below(j, Oldest(Page(j, b)))
      BY <3>1, <3>2
    <3> QED  BY <1>3, <2>1, <2>2, <3>3
  <2>3. CASE ~ HasMore(j, b)
    BY <1>4, <2>1, <2>3
  <2> QED  BY <2>2, <2>3
<1>9. \A n \in Nat : n \in D
  <2> HIDE DEF D
  <2> QED  BY <1>7, <1>8, NatSetInduction
<1>10. From[MaxTime + 1] = Below(j, MaxTime + 1)
  <2>1. MaxTime + 2 \in D
    BY <1>1, <1>9
  <2> QED  BY <1>1, <2>1
<1>11. Below(j, MaxTime + 1) = Entries(j)
  <2> SUFFICES ASSUME NEW e \in Entries(j) PROVE Milli(e.at) < MaxTime + 1
    BY DEF Below
  <2>1. e.at \in Nat /\ e.at <= MaxTime
    BY <1>1, EntriesAreTyped DEF EntrySet, Instants
  <2>2. e.at < (MaxTime + 1) * Millisecond
    <3>1. MaxTime + 1 <= (MaxTime + 1) * Millisecond
      BY <1>1, ScalesArePositive
    <3> QED  BY <1>1, <2>1, <3>1, ScalesArePositive
  <2> QED  BY <1>1, <2>1, <2>2, Division
<1> QED  BY <1>2, <1>10, <1>11

\* Who reads a chat back page by page is shown every message and every event
\* of the job, if no two are of one millisecond (getThreadMessages).
THEOREM PagesStayComplete == Spec => []PagesShowAll
<1>1. TypeOK => PagesShowAll
  BY PagesAreComplete DEF TypeOK, DealsTyped
<1> QED  BY <1>1, TypeCorrect, PTL

\* No message is passed over: it is unread until it is seen, on a page, and
\* shown before it counts as read (getMessages, getThreadMessages,
\* getDisputeMessages).
THEOREM NobodyIsPassedOver == Spec => []NothingIsPassedOver
<1>1. UnreadIsUnseen /\ PagesShowAll /\ SupportIsSeen => NothingIsPassedOver
  BY DEF NothingIsPassedOver
<1> QED  BY <1>1, UnreadStaysUnseen, PagesStayComplete, SupportStaysSeen, PTL

=============================================================================
