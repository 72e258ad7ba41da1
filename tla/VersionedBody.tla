---------------------------- MODULE VersionedBody ----------------------------
(***************************************************************************)
(* What versions and revisions promise of a body that many clients edit,   *)
(* without rows, statements or transactions: the history only grows at its *)
(* end, and a client who says what it expects to replace writes by one     *)
(* atomic comparison with the end of the history.                          *)
(***************************************************************************)
EXTENDS Integers, Sequences

CONSTANTS
  Clients,  \* those who edit
  Bodies,   \* what a body may be
  First     \* the body to begin with

VARIABLES
  history,  \* every body there was, the current one last
  expects   \* the version each client expects to replace, 0 for none

vars == <<history, expects>>

Init ==
  /\ history = <<First>>
  /\ expects = [c \in Clients |-> 0]

\* A client takes note of the version it has read.
Expect(c) ==
  /\ expects[c] = 0
  /\ expects' = [expects EXCEPT ![c] = Len(history)]
  /\ UNCHANGED history

\* Compare and swap.
Replace(c) ==
  /\ expects[c] = Len(history)
  /\ \E b \in Bodies : history' = Append(history, b)
  /\ expects' = [expects EXCEPT ![c] = 0]

\* A client that expects nothing replaces whatever there is.
Overwrite ==
  /\ \E b \in Bodies : history' = Append(history, b)
  /\ UNCHANGED expects

GiveUp(c) ==
  /\ expects' = [expects EXCEPT ![c] = 0]
  /\ UNCHANGED history

Next == Overwrite \/ \E c \in Clients : Expect(c) \/ Replace(c) \/ GiveUp(c)

Spec == Init /\ [][Next]_vars
=============================================================================
