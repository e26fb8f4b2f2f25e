----------------------------- MODULE MCAccounts -----------------------------
EXTENDS Gallery, TLC

Edit(o, i, f) == [op |-> o, id |-> i, face |-> f, to |-> "verified"]

\* An approval, one photo refused, new photos, a password, a deletion.
SomeEdits ==
  {Edit("review", "yes", "yes"), Edit("review", "none", "no")} \cup
  {Edit(o, "none", "none") : o \in {"photos", "password", "delete"}}

\* One edit at a time, beside a call of the user and the purge; a second
\* pair of photos only where no deletion is under way; nothing is looked at
\* after an old copy was saved, which every property excuses.
FewCalls ==
  /\ \E c \in Calls : \A d \in Calls \ {c} :
       step[d] \in {"idle", "request.work", "request.write", "cancel.write",
                   "verify.write", "push.write"}
  /\ \A u \in Users :
       /\ row[u].docs > 1 => row[u].sched = "no" /\ ~ busy[u] /\ purge = "idle"
       /\ ~ overwritten[u]

\* Pictures of one kind at a time, with at most one failure. Only the profile
\* photo is handled while the account is being deleted or edited; it is edited
\* with a password alone, so that what is saved is the copy as it was.
FewPhotos ==
  /\ Cardinality(strays \cup lost) < 2
  /\ \A u \in Users :
       LET faces  == face[u] # 0 \/ \E c \in Calls : hand[c] \in {"face.upload", "face.write"}
           albums == album[u] # {} \/ \E c \in Calls : hand[c] \in {"add.upload", "add.save"}
           posts  == tickets # {} \/ \E q \in Posts : posted[q] # {}
           calls  == \E c \in Calls : hand[c] # "idle"
           edits  == \E c \in Calls : step[c] # "idle" /\ args[c].edit.op = "password"
           asWas  == row[u] = NewRow /\ cred[u] /\ ~ wish[u] /\ purge = "idle"
           alone  == asWas /\ cache[u] = None /\ \A c \in Calls : step[c] = "idle"
       IN
       made > 0 \/ calls =>
         /\ \/ \A c \in Calls : step[c] \in {"idle", "request.work", "request.write"}
            \/ edits /\ asWas
         /\ row[u].docs = 0 /\ ~ token[u] /\ ~ busy[u]
         /\ cache[u] # None => asWas
         /\ albums => ~ faces
         /\ posts => ~ faces /\ ~ albums
         /\ ~ alone =>
              /\ ~ albums /\ ~ posts /\ lost = {}
              /\ \E c \in Calls : hand[c] = "idle"
              /\ calls => edits \/ cache[u] # None \/ \A c \in Calls : step[c] = "idle"

Few == FewCalls /\ FewPhotos

Symmetry == Permutations(Calls)
=============================================================================
