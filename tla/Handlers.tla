------------------------------ MODULE Handlers ------------------------------
(***************************************************************************)
(* What Accounts and Access have in common: the rows of users, and the     *)
(* calls in flight, each of which remembers which statement comes next and *)
(* what it was called with and has read so far.                            *)
(***************************************************************************)
EXTENDS Naturals, FiniteSets

CONSTANTS
  Users,  \* rows of users
  Calls,  \* HTTP handlers that may be in flight at the same time
  None    \* no row, no account, no date

ASSUME CallsAreFinite == IsFiniteSet(Calls)

VARIABLES
  step,   \* step[c]: the next statement of the handler c
  args    \* args[c]: what it was called with, and what it has read

callVars == <<step, args>>

Goto(c, s) == step' = [step EXCEPT ![c] = s] /\ UNCHANGED args

\* The handler answers; none is what an idle one has.
Answered(c, none) ==
  /\ step' = [step EXCEPT ![c] = "idle"]
  /\ args' = [args EXCEPT ![c] = none]
=============================================================================
