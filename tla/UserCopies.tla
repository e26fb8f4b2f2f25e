------------------------------ MODULE UserCopies ------------------------------
(***************************************************************************)
(* How the administration edits a user (users.service.ts). findOne takes   *)
(* the copy of the row that Redis has, up to two minutes old, or reads the *)
(* row and leaves a copy of it. save() loads the row once more and writes  *)
(* every column in which what it was given differs from it: those the edit *)
(* sets, and those that somebody else wrote after the copy was made. No    *)
(* other service clears a copy.                                            *)
(*                                                                         *)
(* The rows are those of the module that takes this one as an instance: it *)
(* hands over the present row r, with the columns it models, and writes    *)
(* what Saved returns. No edit sets one of these columns itself.           *)
(***************************************************************************)
CONSTANTS
  Users,
  Edits,    \* edits in flight at the same time
  Columns,  \* the modelled columns of users
  Rows,     \* the values a row takes in them
  None      \* no copy, no user

VARIABLES
  copy,     \* Redis, users:<id>
  edit      \* where an edit stands, the copy it holds, what it will write

Places == {"idle", "fill", "load", "write", "clear"}
NoEdit == [at |-> "idle", usr |-> None, base |-> None, diff |-> {}]

CopiesAreRows ==
  /\ copy \in [Users -> Rows \cup {None}]
  /\ edit \in [Edits -> [at : Places, usr : Users \cup {None},
                         base : Rows \cup {None}, diff : SUBSET Columns]]

NoCopies ==
  /\ copy = [u \in Users |-> None]
  /\ edit = [e \in Edits |-> NoEdit]

Usr(e) == edit[e].usr

\* findOne: the copy, of whatever age, or the row.
ReadUser(e, u, r) ==
  /\ edit[e].at = "idle"
  /\ edit' = [edit EXCEPT ![e] =
       IF copy[u] = None
       THEN [at |-> "fill", usr |-> u, base |-> r, diff |-> {}]
       ELSE [at |-> "load", usr |-> u, base |-> copy[u], diff |-> {}]]
  /\ UNCHANGED copy

\* Redis gets the row that was read, which may have changed since. It ends
\* there for who only wanted to see it, or whose edit is refused.
FillCopy(e) ==
  /\ edit[e].at = "fill"
  /\ copy' = [copy EXCEPT ![Usr(e)] = edit[e].base]
  /\ \/ edit' = [edit EXCEPT ![e].at = "load"]
     \/ edit' = [edit EXCEPT ![e] = NoEdit]

\* save() loads the row and keeps the columns that differ.
LoadForSave(e, r) ==
  /\ edit[e].at = "load"
  /\ edit' = [edit EXCEPT ![e].at   = "write",
                          ![e].diff = {f \in Columns : edit[e].base[f] # r[f]}]
  /\ UNCHANGED copy

\* What becomes of the row r when they are written.
Saved(e, r) ==
  [f \in Columns |-> IF f \in edit[e].diff THEN edit[e].base[f] ELSE r[f]]

SaveSucceeds(e) ==
  /\ edit[e].at = "write"
  /\ edit' = [edit EXCEPT ![e].at = "clear"]
  /\ UNCHANGED copy

\* A constraint of the table refuses the row; the copy stays.
SaveFails(e) ==
  /\ edit[e].at = "write"
  /\ edit' = [edit EXCEPT ![e] = NoEdit]
  /\ UNCHANGED copy

ClearCopy(e) ==
  /\ edit[e].at = "clear"
  /\ copy' = [copy EXCEPT ![Usr(e)] = None]
  /\ edit' = [edit EXCEPT ![e] = NoEdit]

\* Two minutes pass.
CopyExpires(u) ==
  /\ copy[u] # None
  /\ copy' = [copy EXCEPT ![u] = None]
  /\ UNCHANGED edit
=============================================================================
