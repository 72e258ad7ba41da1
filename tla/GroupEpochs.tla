---------------------------- MODULE GroupEpochs ----------------------------
(***************************************************************************)
(* What the key management of a sharing group promises, without rows,      *)
(* locks or transactions: people come and go, each expulsion starts a new  *)
(* epoch, those who stay get its key and the expelled keep an older one    *)
(* for good.                                                               *)
(***************************************************************************)
EXTENDS Integers

CONSTANT Users

VARIABLES
  owner,      \* who administers the group
  epoch,      \* the current epoch
  insiders,   \* the members
  outsiders,  \* those who were members and were expelled
  keyOf       \* the epoch of the last key each person was given, 0 for none

vars == <<owner, epoch, insiders, outsiders, keyOf>>

Init ==
  \E u \in Users :
    /\ owner = u
    /\ epoch = 1
    /\ insiders = {u}
    /\ outsiders = {}
    /\ keyOf = [m \in Users |-> IF m = u THEN 1 ELSE 0]

\* A newcomer may be given the key of an epoch that has ended meanwhile, never
\* one that has not begun.
Admit(u) ==
  /\ u \notin insiders \cup outsiders
  /\ insiders' = insiders \cup {u}
  /\ \E e \in 1..epoch : keyOf' = [keyOf EXCEPT ![u] = e]
  /\ UNCHANGED <<owner, epoch, outsiders>>

\* The owner stays.  Expelling a person who is no member starts an epoch too.
Expel(u) ==
  /\ u # owner
  /\ epoch' = epoch + 1
  /\ insiders' = insiders \ {u}
  /\ outsiders' = outsiders \cup ({u} \cap insiders)
  /\ keyOf' = [m \in Users |-> IF m \in insiders' THEN epoch + 1 ELSE keyOf[m]]
  /\ UNCHANGED owner

HandOver(u) ==
  /\ u \in insiders
  /\ owner' = u
  /\ UNCHANGED <<epoch, insiders, outsiders, keyOf>>

Next == \E u \in Users : Admit(u) \/ Expel(u) \/ HandOver(u)

Spec == Init /\ [][Next]_vars
=============================================================================
