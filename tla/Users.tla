-------------------------------- MODULE Users --------------------------------
(***************************************************************************)
(* The user registry (src/users/api.ts): the login through Google, which   *)
(* makes the first user an admin and later ones members when they were     *)
(* invited, and the push of user state from approval2.                     *)
(*                                                                         *)
(* Each is one transaction of several statements that read without locks,  *)
(* READ COMMITTED, and then write what they decided from what they had     *)
(* read.  The email is unique, and so is the external id.                  *)
(***************************************************************************)
EXTENDS Integers, FiniteSets

CONSTANTS
  Emails,     \* email addresses, each of one Google account
  Logins,     \* logins that can be under way at the same time
  Syncs,      \* pushes that can be under way at the same time
  Ids,        \* users.id of approval2, here external_id
  NoId,       \* external_id is null
  Bootstrap,  \* BOOTSTRAP_ADMIN_EMAIL
  NoEmail,    \* it is not set
  Older,      \* the users there are before the first call, without external_id
  Invited,    \* the emails with an invite
  MaxCalls    \* bound: the calls of a behaviour

ASSUME UserAssumption ==
  /\ Emails # {} /\ Ids # {}
  /\ NoId \notin Ids /\ NoEmail \notin Emails /\ Bootstrap \in Emails \cup {NoEmail}
  /\ Older \subseteq Emails /\ Invited \subseteq Emails /\ MaxCalls \in Nat

VARIABLES
  user,    \* users, by email
  invite,  \* invites, by email
  login,   \* progress of each login
  sync,    \* progress of each push
  calls,   \* number of calls so far
  first,   \* history: the emails that a login has made admin
  met      \* history: pairs of those whose logins overlapped

userVars == <<user, invite, login, sync, calls, first, met>>

Status == {"active", "suspended", "erased"}
User   == [status : Status \cup {"none"}, role : {"member", "admin"},
           linked : BOOLEAN,  \* google_sub is set
           ext    : Ids \cup {NoId}]
Login  == [at : {"idle", "found", "absent", "inviting", "bootstrap", "invited"}, email : Emails]
Sync   == [at : {"idle", "creating", "patching"}, email : Emails, id : Ids, status : Status,
           saw : User]

NoUser    == [status |-> "none", role |-> "member", linked |-> FALSE, ext |-> NoId]
NoLogin   == [at |-> "idle", email |-> CHOOSE e \in Emails : TRUE]
NoSync    == [at |-> "idle", email |-> CHOOSE e \in Emails : TRUE,
              id |-> CHOOSE i \in Ids : TRUE, status |-> "active", saw |-> NoUser]
Exists(e) == user[e].status # "none"

UsersInit ==
  /\ user = [e \in Emails |-> IF e \in Older THEN [NoUser EXCEPT !.status = "active"] ELSE NoUser]
  /\ invite = [e \in Emails |-> IF e \in Invited THEN "open" ELSE "none"]
  /\ login = [l \in Logins |-> NoLogin]
  /\ sync = [s \in Syncs |-> NoSync]
  /\ calls = 0 /\ first = {} /\ met = {}

NewCall == calls < MaxCalls /\ calls' = calls + 1

-----------------------------------------------------------------------------
(* provisionFromGoogleLogin *)

\* The row by email.  Only an active user may come in, and an admin without a
\* Google account must be the one named in the environment.
LoginRead(l, e) ==
  /\ login[l].at = "idle"
  /\ NewCall
  /\ login' = [login EXCEPT ![l] =
       IF ~Exists(e) THEN [at |-> "absent", email |-> e]
       ELSE IF /\ user[e].status = "active"
               /\ user[e].linked \/ user[e].role = "member" \/ e = Bootstrap
            THEN [at |-> "found", email |-> e] ELSE NoLogin]
  /\ UNCHANGED <<user, invite, sync, first, met>>

\* The row is updated by its id, whatever has become of it.
LoginUpdate(l) ==
  /\ login[l].at = "found"
  /\ user' = [user EXCEPT ![login[l].email].linked = TRUE]
  /\ login' = [login EXCEPT ![l] = NoLogin]
  /\ UNCHANGED <<invite, sync, calls, first, met>>

\* Mutant: whether the table is empty is not asked.
LoginTrusts(l) ==
  /\ login[l].at = "absent"
  /\ login' = [login EXCEPT ![l].at = "bootstrap"]
  /\ UNCHANGED <<user, invite, sync, calls, first, met>>

\* Is the table empty?  Then this is the first admin.
LoginLooks(l) ==
  /\ login[l].at = "absent"
  /\ login' = [login EXCEPT ![l].at =
       IF /\ \A e \in Emails : ~Exists(e)
          /\ Bootstrap \in {NoEmail, login[l].email}
       THEN "bootstrap" ELSE "inviting"]
  /\ UNCHANGED <<user, invite, sync, calls, first, met>>

FindInvite(l) ==
  /\ login[l].at = "inviting"
  /\ login' = [login EXCEPT ![l] = IF invite[@.email] = "open"
                                   THEN [@ EXCEPT !.at = "invited"] ELSE NoLogin]
  /\ UNCHANGED <<user, invite, sync, calls, first, met>>

\* INSERT, use of the invite, COMMIT; the unique email refuses a second row.
LoginInsert(l) ==
  LET e == login[l].email IN
  /\ login[l].at \in {"bootstrap", "invited"}
  /\ IF Exists(e)
     THEN UNCHANGED <<user, invite, first, met>>
     ELSE /\ user' = [user EXCEPT ![e] =
               [NoUser EXCEPT !.status = "active", !.linked = TRUE,
                  !.role = IF login[l].at = "bootstrap" THEN "admin" ELSE "member"]]
          /\ invite' = [invite EXCEPT ![e] = IF login[l].at = "invited" THEN "used" ELSE @]
          /\ first' = IF login[l].at = "bootstrap" THEN first \cup {e} ELSE first
          /\ met' = met \cup {{e, login[k].email} : k \in {m \in Logins \ {l} : login[m].at = "bootstrap"}}
  /\ login' = [login EXCEPT ![l] = NoLogin]
  /\ UNCHANGED <<sync, calls>>

InviteExpires(e) ==
  /\ invite[e] = "open"
  /\ invite' = [invite EXCEPT ![e] = "expired"]
  /\ UNCHANGED <<user, login, sync, calls, first, met>>

-----------------------------------------------------------------------------
(* syncFromApproval2 *)

\* Mutant: an erased row is patched like any other.
RefusedUnlessErased(u, i, status) ==
  \/ u.ext \notin {NoId, i}
  \/ u.status = "suspended" /\ status = "active"

\* What the push may not do to the row it reads: take it over, revive it.
Refused(u, i, status) ==
  \/ u.ext \notin {NoId, i}
  \/ u.status = "erased"
  \/ u.status = "suspended" /\ status = "active"

SyncRead(s, e, i, status) ==
  /\ sync[s].at = "idle"
  /\ NewCall
  /\ sync' = [sync EXCEPT ![s] =
       IF Exists(e) /\ Refused(user[e], i, status) THEN NoSync
       ELSE [at |-> IF Exists(e) THEN "patching" ELSE "creating",
             email |-> e, id |-> i, status |-> status, saw |-> user[e]]]
  /\ UNCHANGED <<user, invite, login, first, met>>

Taken(i, e) == \E f \in Emails \ {e} : user[f].ext = i

\* Mutant: an upsert.
SyncUpserts(s) ==
  LET e == sync[s].email IN
  /\ sync[s].at = "creating"
  /\ user' = IF Taken(sync[s].id, e) THEN user
             ELSE [user EXCEPT ![e] = [NoUser EXCEPT !.status = sync[s].status, !.ext = sync[s].id]]
  /\ sync' = [sync EXCEPT ![s] = NoSync]
  /\ UNCHANGED <<invite, login, calls, first, met>>

SyncCreate(s) ==
  LET e == sync[s].email IN
  /\ sync[s].at = "creating"
  /\ user' = IF Exists(e) \/ Taken(sync[s].id, e) THEN user
             ELSE [user EXCEPT ![e] = [NoUser EXCEPT !.status = sync[s].status, !.ext = sync[s].id]]
  /\ sync' = [sync EXCEPT ![s] = NoSync]
  /\ UNCHANGED <<invite, login, calls, first, met>>

\* The patch has the fields that differ from the row as it was read.
SyncUpdate(s) ==
  LET e == sync[s].email
      p == [user[e] EXCEPT !.status = IF sync[s].saw.status # sync[s].status THEN sync[s].status ELSE @,
                           !.ext = IF sync[s].saw.ext = NoId THEN sync[s].id ELSE @]
  IN
  /\ sync[s].at = "patching"
  /\ user' = IF Taken(p.ext, e) /\ p.ext # NoId THEN user ELSE [user EXCEPT ![e] = p]
  /\ sync' = [sync EXCEPT ![s] = NoSync]
  /\ UNCHANGED <<invite, login, calls, first, met>>

\* The transaction fails.
UserCallFails ==
  /\ \/ \E l \in Logins : /\ login[l].at # "idle" /\ login' = [login EXCEPT ![l] = NoLogin]
                          /\ UNCHANGED sync
     \/ \E s \in Syncs : /\ sync[s].at # "idle" /\ sync' = [sync EXCEPT ![s] = NoSync]
                         /\ UNCHANGED login
  /\ UNCHANGED <<user, invite, calls, first, met>>

UsersNext ==
  \/ \E l \in Logins :
       \/ \E e \in Emails : LoginRead(l, e)
       \/ LoginUpdate(l) \/ LoginLooks(l) \/ FindInvite(l) \/ LoginInsert(l)
  \/ \E s \in Syncs :
       \/ \E e \in Emails, i \in Ids, status \in Status : SyncRead(s, e, i, status)
       \/ SyncCreate(s) \/ SyncUpdate(s)
  \/ \E e \in Emails : InviteExpires(e)
  \/ UserCallFails

-----------------------------------------------------------------------------
UsersTypeOK ==
  /\ user \in [Emails -> User]
  /\ invite \in [Emails -> {"none", "open", "used", "expired"}]
  /\ login \in [Logins -> Login]
  /\ sync \in [Syncs -> Sync]
  /\ calls \in 0 .. MaxCalls
  /\ first \subseteq Emails

(* "First-Login-First-Admin": a login makes an admin only of an empty table.
   Nothing locks the table between the question and the INSERT, so there can
   be several first admins, but only of logins that overlapped. *)
FirstAdminsOverlapped ==
  /\ \A e, f \in first : e = f \/ {e, f} \in met
  /\ first \cap Older = {} /\ (Older # {} => first = {})

(* The external id of a user never changes once it is set, unless two pushes
   with different ids had both read it as not set. *)
ExternalIdIsKept ==
  [][\A e \in Emails : user[e].ext # NoId /\ user'[e].ext # user[e].ext =>
       \E s \in Syncs : sync[s].email = e /\ sync[s].at = "patching" /\ sync[s].saw.ext = NoId]_user

(* "erased rows are not resurrected": no push that began after the erasure
   changes it; one that had read the row before can, the read takes no lock. *)
ErasedByLaterIsFinal ==
  [][\A e \in Emails : user[e].status = "erased" /\ user'[e].status # "erased" =>
       \E s \in Syncs : /\ sync[s].email = e /\ sync[s].at = "patching"
                        /\ sync[s].saw.status # "erased"]_user
=============================================================================
