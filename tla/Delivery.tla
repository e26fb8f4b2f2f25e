------------------------------ MODULE Delivery ------------------------------
(***************************************************************************)
(* How a notification gets to the devices of a user: first over the socket *)
(* of an app that is on the screen, which has 1.2 seconds to acknowledge,  *)
(* then by push to every other device registered for him, in up to three   *)
(* attempts (NotificationsService, RealtimeGateway, PushService), while    *)
(* devices sign in, change hands and go.                                   *)
(*                                                                         *)
(* A device stands for its push token, and FCM is configured. What Waves   *)
(* knows of a delivery is whether it throws; here is what it does.         *)
(* "Mutation" marks a bug the properties find.                             *)
(***************************************************************************)
EXTENDS Naturals, FiniteSets

CONSTANTS
  Users,
  Devices,
  Calls,      \* deliveries that may be in flight at the same time
  Attempts,   \* how often deliverTokens tries a batch
  None        \* nobody, no socket

ASSUME AttemptsArePositive == Attempts \in Nat \ {0}
ASSUME NoneIsNobody == None \notin Users

VARIABLES
  row,        \* push_tokens.user_id of the device's token, or None
  dead,       \* devices whose token FCM does not know any more
  socket,     \* the app's socket: whose, and whether it may present
  step, args, \* the deliveries in flight
  home,       \* history: who registered the device last and did not revoke it
  mine,       \* history: devices that were a recipient's during the delivery
  whole,      \* history: devices that were his, and alive, all the time
  pushed,     \* history: devices the delivery addressed by push
  tray,       \* history: devices on which it appeared
  told,       \* history: devices known to have shown it
  twice,      \* history: devices that became known so once more
  refused     \* history: devices FCM did not take it for

deviceVars  == <<row, dead, socket, home>>
reportVars  == <<pushed, tray, told, twice, refused>>
historyVars == <<mine, whole, reportVars>>
vars == <<deviceVars, step, args, historyVars>>

Sockets == [user : Users, ready : BOOLEAN]
Steps   == {"idle", "present", "acks", "tokens", "push", "clean", "done"}
Args    == [to : SUBSET Users, ask : SUBSET Devices, shown : SUBSET Devices,
            batch : SUBSET Devices, gone : SUBSET Devices, tries : 0..Attempts]
NoArgs  == [to |-> {}, ask |-> {}, shown |-> {}, batch |-> {}, gone |-> {},
            tries |-> 0]
PerCall == [Calls -> SUBSET Devices]

TypeOK ==
  /\ row    \in [Devices -> Users \cup {None}]
  /\ home   \in [Devices -> Users \cup {None}]
  /\ dead   \in SUBSET Devices
  /\ socket \in [Devices -> Sockets \cup {None}]
  /\ step   \in [Calls -> Steps]
  /\ args   \in [Calls -> Args]
  /\ mine   \in PerCall /\ whole \in PerCall /\ pushed  \in PerCall
  /\ tray   \in PerCall /\ told  \in PerCall /\ refused \in PerCall
  /\ twice  \in PerCall

Init ==
  /\ row    = [d \in Devices |-> None]
  /\ home   = [d \in Devices |-> None]
  /\ dead   = {}
  /\ socket = [d \in Devices |-> None]
  /\ step   = [c \in Calls |-> "idle"]
  /\ args   = [c \in Calls |-> NoArgs]
  /\ mine   = [c \in Calls |-> {}] /\ whole = mine /\ pushed  = mine
  /\ tray   = mine /\ told = mine  /\ twice = mine /\ refused = mine

Goto(c, s) == step' = [step EXCEPT ![c] = s]

-----------------------------------------------------------------------------
(* Devices                                                                 *)

\* History: who has which device now, for every delivery in flight.
NowHas(h) ==
  /\ home'  = h
  /\ mine'  = [c \in Calls |->
                 mine[c] \cup {d \in Devices : h[d] \in args[c].to}]
  /\ whole' = [c \in Calls |-> {d \in whole[c] : h[d] \in args[c].to}]

\* Mutation: a token that is there already stays whose it is.
OwnerKept(old, u) == IF old = None THEN u ELSE old

\* ON CONFLICT (token) DO UPDATE SET user_id.
Owner(old, u) == u

Register(u, d) ==
  /\ d \notin dead
  /\ row' = [row EXCEPT ![d] = Owner(@, u)]
  /\ NowHas([home EXCEPT ![d] = u])
  /\ UNCHANGED <<dead, socket, step, args, reportVars>>

\* Signing out, which may arrive when somebody else has signed in.
Revoke(u, d) ==
  /\ row' = [row EXCEPT ![d] = IF @ = u THEN None ELSE @]
  /\ NowHas([home EXCEPT ![d] = IF @ = u THEN None ELSE @])
  /\ UNCHANGED <<dead, socket, step, args, reportVars>>

\* The account of u is deleted, by the administration or at his wish.
RevokeAll(u) ==
  /\ row' = [d \in Devices |-> IF row[d] = u THEN None ELSE row[d]]
  /\ NowHas([d \in Devices |-> IF home[d] = u THEN None ELSE home[d]])
  /\ UNCHANGED <<dead, socket, step, args, reportVars>>

\* The app is removed, and its token with it.
Uninstall(d) ==
  /\ d \notin dead
  /\ dead'   = dead \cup {d}
  /\ socket' = [socket EXCEPT ![d] = None]
  /\ whole'  = [c \in Calls |-> whole[c] \ {d}]
  /\ UNCHANGED <<row, home, step, args, mine, reportVars>>

Connect(u, d) ==
  /\ d \notin dead /\ socket[d] = None
  /\ socket' = [socket EXCEPT ![d] = [user |-> u, ready |-> FALSE]]
  /\ UNCHANGED <<row, dead, home, step, args, historyVars>>

\* presence.update: visible or not, and with a token that is its user's.
Presence(d, visible) ==
  /\ socket[d] # None
  /\ socket' = [socket EXCEPT ![d].ready = visible /\ row[d] = socket[d].user]
  /\ UNCHANGED <<row, dead, home, step, args, historyVars>>

\* 45 seconds without a word.
Silence(d) ==
  /\ socket[d] # None
  /\ socket' = [socket EXCEPT ![d].ready = FALSE]
  /\ UNCHANGED <<row, dead, home, step, args, historyVars>>

\* The connection is lost, or its token is not good any more.
Disconnect(d) ==
  /\ socket[d] # None
  /\ socket' = [socket EXCEPT ![d] = None]
  /\ UNCHANGED <<row, dead, home, step, args, historyVars>>

-----------------------------------------------------------------------------
(* A delivery                                                              *)

Begin(c, s, U) ==
  /\ step[c] = "idle"
  /\ Goto(c, s)
  /\ args'  = [args EXCEPT ![c].to = U]
  /\ mine'  = [mine EXCEPT ![c] = {d \in Devices : home[d] \in U}]
  /\ whole' = [whole EXCEPT ![c] = {d \in Devices \ dead : home[d] \in U}]
  /\ UNCHANGED <<deviceVars, reportVars>>

\* The notification of u is in his inbox, unless it is of a chat; a save that
\* throws delivers nothing.
Notify(c, u) == Begin(c, "present", {u})

\* An announcement to all of U goes by push only.
Announce(c, U) == U # {} /\ Begin(c, "tokens", U)

\* What a call leaves behind is read at "done"; afterwards it is forgotten.
Return(c) ==
  /\ Goto(c, "idle")
  /\ args' = [args EXCEPT ![c] = NoArgs]
  /\ mine' = [mine EXCEPT ![c] = {}] /\ whole'   = [whole EXCEPT ![c] = {}]
  /\ tray' = [tray EXCEPT ![c] = {}] /\ pushed'  = [pushed EXCEPT ![c] = {}]
  /\ told' = [told EXCEPT ![c] = {}] /\ refused' = [refused EXCEPT ![c] = {}]
  /\ twice' = [twice EXCEPT ![c] = {}]

\* Who may present it, or nobody when the sockets cannot be listed.
FetchSockets(c) ==
  LET room == {d \in Devices : socket[d] # None
                 /\ socket[d].user \in args[c].to /\ socket[d].ready} IN
  /\ step[c] = "present"
  /\ Goto(c, "acks")
  /\ \E A \in {room, {}} : args' = [args EXCEPT ![c].ask = A]
  /\ UNCHANGED <<deviceVars, historyVars>>

\* Mutation: an app that is on the screen is taken to have shown it.
ShownUnlessHidden(acked, d) == {d}

\* Only what is acknowledged as displayed counts; the rest is left to FCM.
Shown(acked, d) == IF acked THEN {d} ELSE {}

\* The app shows it or not, and its answer comes in time or not.
Answer(c, d, appears, acked) ==
  /\ step[c] = "acks" /\ d \in args[c].ask
  /\ acked => appears /\ socket[d] # None
  /\ args' = [args EXCEPT ![c].ask = @ \ {d},
                          ![c].shown = @ \cup Shown(acked, d)]
  /\ tray' = [tray EXCEPT ![c] = IF appears THEN @ \cup {d} ELSE @]
  /\ told' = [told EXCEPT ![c] = IF acked THEN @ \cup {d} ELSE @]
  /\ UNCHANGED <<deviceVars, step, mine, whole, pushed, twice, refused>>

\* What is left to do for a batch.
AfterBatch(batch, gone, tries) ==
  IF gone # {} THEN "clean"
  ELSE IF batch = {} \/ tries = Attempts THEN "done" ELSE "push"

ReadTokens(c) ==
  LET batch == {d \in Devices : row[d] \in args[c].to} \ args[c].shown IN
  /\ \/ step[c] = "acks" /\ args[c].ask = {}
     \/ step[c] = "tokens"
  /\ Goto(c, AfterBatch(batch, {}, 0))
  /\ args' = [args EXCEPT ![c].batch = batch]
  /\ UNCHANGED <<deviceVars, historyVars>>

\* sendEachForMulticast answers: it took the message for ok, does not know
\* gone, has no time for busy, who are tried again, and refuses the others.
PushAnswered(c, ok, gone, busy) ==
  LET batch == args[c].batch
      tries == args[c].tries + 1 IN
  /\ step[c] = "push"
  /\ ok \subseteq batch \ dead /\ gone \subseteq batch \cap dead
  /\ busy \subseteq batch \ (ok \cup gone)
  /\ Goto(c, AfterBatch(busy, gone, tries))
  /\ args'    = [args EXCEPT ![c].batch = busy, ![c].gone = gone,
                             ![c].tries = tries]
  /\ pushed'  = [pushed EXCEPT ![c] = @ \cup batch]
  /\ tray'    = [tray EXCEPT ![c] = @ \cup ok]
  /\ twice'   = [twice EXCEPT ![c] = @ \cup (ok \cap told[c])]
  /\ told'    = [told EXCEPT ![c] = @ \cup ok]
  /\ refused' = [refused EXCEPT ![c] = @ \cup
                   (batch \ (ok \cup IF tries < Attempts THEN busy ELSE {}))]
  /\ UNCHANGED <<deviceVars, mine, whole>>

\* It throws, and nobody knows whom it reached: all are tried again, until the
\* last attempt throws to the caller.
PushLost(c, reached) ==
  /\ step[c] = "push" /\ args[c].tries + 1 < Attempts
  /\ reached \subseteq args[c].batch \ dead
  /\ args'   = [args EXCEPT ![c].tries = @ + 1]
  /\ pushed' = [pushed EXCEPT ![c] = @ \cup args[c].batch]
  /\ tray'   = [tray EXCEPT ![c] = @ \cup reached]
  /\ UNCHANGED <<deviceVars, step, mine, whole, told, twice, refused>>

\* So does every other error, of FCM or of a statement.
Fails(c) ==
  /\ step[c] \in {"acks", "tokens", "push", "clean"}
  /\ Return(c)
  /\ UNCHANGED deviceVars

\* DELETE FROM push_tokens WHERE token, one after the other.
Forget(c, d) ==
  LET gone == args[c].gone \ {d} IN
  /\ step[c] = "clean" /\ d \in args[c].gone
  /\ row'  = [row EXCEPT ![d] = None]
  /\ args' = [args EXCEPT ![c].gone = gone]
  /\ Goto(c, AfterBatch(args[c].batch, gone, args[c].tries))
  /\ UNCHANGED <<dead, socket, home, historyVars>>

Finish(c) ==
  /\ step[c] = "done"
  /\ Return(c)
  /\ UNCHANGED deviceVars

-----------------------------------------------------------------------------
DeviceActs(d) ==
  \/ \E u \in Users : Register(u, d) \/ Revoke(u, d) \/ Connect(u, d)
  \/ \E visible \in BOOLEAN : Presence(d, visible)
  \/ Uninstall(d) \/ Silence(d) \/ Disconnect(d)

Delivers(c) ==
  \/ FetchSockets(c) \/ ReadTokens(c) \/ Fails(c) \/ Finish(c)
  \/ \E d \in Devices :
       \/ Forget(c, d)
       \/ \E appears, acked \in BOOLEAN : Answer(c, d, appears, acked)
  \/ \E R \in SUBSET args[c].batch : PushLost(c, R)
  \/ \E ok, gone, busy \in SUBSET args[c].batch : PushAnswered(c, ok, gone, busy)

Next ==
  \/ \E d \in Devices : DeviceActs(d)
  \/ \E u \in Users : RevokeAll(u)
  \/ \E c \in Calls, u \in Users : Notify(c, u)
  \/ \E c \in Calls, U \in SUBSET Users : Announce(c, U)
  \/ \E c \in Calls : Delivers(c)

Spec == Init /\ [][Next]_vars

-----------------------------------------------------------------------------
(* Properties                                                              *)

\* A push goes to a device only if a recipient had it at some time since the
\* delivery began, however often it changes hands while sockets are awaited
\* and batches retried: the last registration counts (upsertPushToken, deliver).
PushesStayAtHome == \A c \in Calls : pushed[c] \subseteq mine[c]

\* A delivery passes over no device its recipient has all the while: it
\* appears there or FCM would not take it. A lost acknowledgement, an app that
\* hides, a late sign-out or the token of another device changes nothing
\* (presentNotification, deliver, deliverTokens, revokePushToken).
NobodyIsPassedOver ==
  \A c \in Calls :
    step[c] = "done" => whole[c] \subseteq tray[c] \cup refused[c]

\* What is known to have been shown by a device is not sent to it again; only
\* an answer that is lost makes it appear twice (deliver, deliverTokens).
NobodyIsToldTwice == \A c \in Calls : twice[c] = {}

\* Every device of a recipient is served, and knowingly only once.
DevicesAreServed == NobodyIsPassedOver /\ NobodyIsToldTwice
=============================================================================
