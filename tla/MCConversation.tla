--------------------------- MODULE MCConversation ---------------------------
EXTENDS Conversation, TLC

\* Chat, reviews and complaints do not meet: one of them is looked at. The
\* edits of the administration meet the reviews.
Chatting  == \E j \in Jobs : sent[j] # {} \/ read[j] # [p \in Parties |-> 0]
Editing   == copy["worker"] # None \/ \E e \in Edits : edit[e].at # "idle"
Reviewing == reviewed # {} \/ Editing
Helping   == \E d \in Disputes : complaint[d] # "none"
About(c) ==
  CASE step[c] = "idle" -> "nothing"
    [] step[c] \in {"review.insert", "review.read", "review.write"} -> "review"
    [] step[c] = "help.read" -> "help"
    [] OTHER -> "chat"
Topics ==
  ({About(c) : c \in Calls} \ {"nothing"})
    \cup (IF Chatting  THEN {"chat"} ELSE {})
    \cup (IF Reviewing THEN {"review"} ELSE {})
    \cup (IF Helping   THEN {"help"} ELSE {})

\* The chat of one job: either a long one, without incidents, or a short one.
Talk == CHOOSE j \in Jobs : TRUE

Untouched(j) ==
  /\ sent[j] = {} /\ accepted[j] /\ deal[j].started = 0
  /\ read[j] = [p \in Parties |-> 0] /\ \A c \in Calls : args[c].job # j

Long ==
  /\ \A p \in Parties : read[Talk][p] = 0
  /\ Cardinality({c \in Calls : step[c] # "idle"}) <= 1
  /\ \A c \in Calls : step[c] # "mark.write" /\ ~ args[c].photo
  /\ store = {} /\ faults = 0 /\ accepted[Talk]

Short ==
  /\ now <= 5 /\ deal[Talk].started = 0 /\ status[Talk] # "cancelled"
  /\ Cardinality(sent[Talk]) <= 1 /\ Cardinality(store) <= 1
  /\ Cardinality({p \in Parties : read[Talk][p] # 0}) <= 1

Few ==
  /\ Cardinality(Topics) <= 1
  /\ "chat" \in Topics =>
       (Long \/ Short) /\ \A j \in Jobs \ {Talk} : Untouched(j)
                                                    /\ status[j] = "assigned"
  /\ "chat" \notin Topics =>
       \A j \in Jobs : accepted[j] /\ deal[j].started = 0
  /\ Editing => now <= 4 /\ \A j \in Jobs : status[j] # "cancelled"
  /\ "help" \in Topics => \A j \in Jobs : status[j] = "assigned"
=============================================================================
