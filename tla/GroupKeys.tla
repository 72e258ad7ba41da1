----------------------------- MODULE GroupKeys -----------------------------
(***************************************************************************)
(* The key hierarchy of one sharing group (src/storage/groups.ts,          *)
(* shares.ts, group-crypto.ts, rewrap.ts).                                 *)
(*                                                                         *)
(* A group has a master key.  Every member row holds the master wrapped    *)
(* for that member, and every grant of an object to the group holds the    *)
(* object's key wrapped with the master.  Rows carry the number of the     *)
(* master version they were wrapped for.  Removing a member rotates the    *)
(* master and re-wraps the rows that stay.                                 *)
(*                                                                         *)
(* removeMember, transferGroupOwnership and archiveGroup hold the row lock *)
(* of the group for as long as they change anything, so each is one step   *)
(* here.  addMember and createShareWithGroup read the group without a lock *)
(* and meet the lock only when the foreign key of the row they insert is   *)
(* checked, after its row-level security was; so each is four steps and    *)
(* the others run in between.                                              *)
(*                                                                         *)
(* Master keys are identified by the version they were generated for.  A   *)
(* row says in `ver` which version it is labelled with and in `key` which  *)
(* master it really holds (members) or is really wrapped with (grants).    *)
(***************************************************************************)
EXTENDS Integers, FiniteSets

CONSTANTS
  Users,         \* people who may own, join or leave the group
  Objects,       \* documents that may be shared with it
  ObjectOwner,   \* who owns each document
  AddRoles,      \* the roles addMember is called with
  SyncLimit,     \* MAX_GRANTS_PER_GROUP_FOR_SYNC_ROTATION
  MaxVersion,    \* bound: rotations stop at this master version
  MaxInFlight    \* bound: requests that are under way at once

ASSUME RoleAssumption    == AddRoles \subseteq {"admin", "member"}
ASSUME OwnerAssumption   == ObjectOwner \in [Objects -> Users]
ASSUME BoundsAssumption  == /\ SyncLimit \in Nat
                            /\ MaxVersion \in Nat \ {0}
                            /\ MaxInFlight \in Nat

VARIABLES
  owner,          \* groups.owner_id
  masterVersion,  \* groups.master_version
  archived,       \* groups.archived_at IS NOT NULL
  member,         \* group_members, one row per user
  grant,          \* share_grants to this group, the latest row per object
  jobs,           \* rewrap_jobs of this group
  adds,           \* addMember requests under way
  shares          \* createShareWithGroup requests under way

vars == <<owner, masterVersion, archived, member, grant, jobs, adds, shares>>

MemberRow == [status : {"none", "active", "removed"}, role : {"admin", "member"},
              ver : Nat, key : Nat]
GrantRow  == [status : {"none", "active", "revoked"}, ver : Nat, key : Nat]
Job       == [old : Nat, new : Nat, status : {"pending", "failed"}]
Stages    == {"read", "wrapped", "admitted"}
AddTx     == [by : Users, user : Users, role : AddRoles, stage : Stages,
              ver : Nat, key : Nat]
ShareTx   == [by : Users, obj : Objects, stage : Stages, ver : Nat, key : Nat]

NoMember == [status |-> "none", role |-> "member", ver |-> 0, key |-> 0]
NoGrant  == [status |-> "none", ver |-> 0, key |-> 0]

IsActive(u) == member[u].status = "active"
ActiveGrants == {o \in Objects : grant[o].status = "active"}

\* AES-GCM with the version in the AAD: the row opens only for its own label.
UnwrapsAt(u, v) == IsActive(u) /\ member[u].ver = v

\* createGroup: the group and its first member appear in one transaction.
Init ==
  \E u \in Users :
    /\ owner = u
    /\ masterVersion = 1
    /\ archived = FALSE
    /\ member = [m \in Users |->
                   IF m = u THEN [status |-> "active", role |-> "admin", ver |-> 1, key |-> 1]
                            ELSE NoMember]
    /\ grant = [o \in Objects |-> NoGrant]
    /\ jobs = {}
    /\ adds = {}
    /\ shares = {}

-----------------------------------------------------------------------------
(* addMember *)

\* The group row is read without FOR UPDATE.
AddRead(by, u, role) ==
  /\ Cardinality(adds) + Cardinality(shares) < MaxInFlight
  /\ owner = by
  /\ ~archived
  /\ adds' = adds \cup {[by |-> by, user |-> u, role |-> role, stage |-> "read",
                         ver |-> masterVersion, key |-> 0]}
  /\ UNCHANGED <<owner, masterVersion, archived, member, grant, jobs, shares>>

\* The caller's own row is read by a later statement, and opened at the
\* version the group row showed; the master it yields is wrapped for the user.
AddWrap(t) ==
  /\ t.stage = "read"
  /\ UnwrapsAt(t.by, t.ver)
  /\ adds' = (adds \ {t}) \cup {[t EXCEPT !.stage = "wrapped", !.key = member[t.by].key]}
  /\ UNCHANGED <<owner, masterVersion, archived, member, grant, jobs, shares>>

\* The INSERT passes row-level security only for the group's owner.
AddAdmit(t) ==
  /\ t.stage = "wrapped"
  /\ owner = t.by
  /\ adds' = (adds \ {t}) \cup {[t EXCEPT !.stage = "admitted"]}
  /\ UNCHANGED <<owner, masterVersion, archived, member, grant, jobs, shares>>

\* Mutant: the insert overwrites the row of a removed user (an upsert).
AddUpsert(t) ==
  /\ t.stage = "admitted"
  /\ ~IsActive(t.user)
  /\ member' = [member EXCEPT ![t.user] =
                  [status |-> "active", role |-> t.role, ver |-> t.ver, key |-> t.key]]
  /\ adds' = adds \ {t}
  /\ UNCHANGED <<owner, masterVersion, archived, grant, jobs, shares>>

\* Then its foreign key waits for whoever holds the group's lock.  The primary
\* key (group, user) refuses a user who has a row, removed or not.
AddInsert(t) ==
  /\ t.stage = "admitted"
  /\ member[t.user].status = "none"
  /\ member' = [member EXCEPT ![t.user] =
                  [status |-> "active", role |-> t.role, ver |-> t.ver, key |-> t.key]]
  /\ adds' = adds \ {t}
  /\ UNCHANGED <<owner, masterVersion, archived, grant, jobs, shares>>

\* A failed check, a failed unwrap, a refused INSERT or a lost process.
AddRollback(t) ==
  /\ adds' = adds \ {t}
  /\ UNCHANGED <<owner, masterVersion, archived, member, grant, jobs, shares>>

-----------------------------------------------------------------------------
(* removeMember: the rotation, one transaction under the group's row lock *)

\* Mutant: the leaving member is not left out of the loop over the rows.
RewrapsTheLeaver(u, v) ==
  [m \in Users |->
     IF IsActive(m) THEN [member[m] EXCEPT !.status = IF m = u THEN "removed" ELSE @,
                                           !.ver = v, !.key = v]
     ELSE member[m]]

\* Mutant: only the admins' rows are re-wrapped.
RewrapsAdmins(u, v) ==
  [m \in Users |->
     IF m = u /\ IsActive(m) THEN [member[m] EXCEPT !.status = "removed"]
     ELSE IF IsActive(m) /\ member[m].role = "admin" THEN [member[m] EXCEPT !.ver = v, !.key = v]
     ELSE member[m]]

\* Every row that stays gets the new master; the leaving one keeps its wrap.
RewrappedMembers(u, v) ==
  [m \in Users |->
     IF m = u /\ IsActive(m) THEN [member[m] EXCEPT !.status = "removed"]
     ELSE IF IsActive(m) THEN [member[m] EXCEPT !.ver = v, !.key = v]
     ELSE member[m]]

RewrappedGrants(v) ==
  [o \in Objects |-> IF o \in ActiveGrants THEN [grant[o] EXCEPT !.ver = v, !.key = v]
                                           ELSE grant[o]]

\* Within the limit the grants are re-wrapped at once, and the transaction
\* fails when one of them does not open with the old master.  Beyond it they
\* are left to a job.
RewrapGrantsNow(by) ==
  /\ Cardinality(ActiveGrants) <= SyncLimit
  /\ \A o \in ActiveGrants : grant[o].key = member[by].key
  /\ grant' = RewrappedGrants(masterVersion + 1)
  /\ UNCHANGED jobs

\* Mutant: the job is given the version the group has after its update.
JobsFromNewMaster ==
  /\ Cardinality(ActiveGrants) > SyncLimit
  /\ jobs' = jobs \cup {[old |-> masterVersion + 1, new |-> masterVersion + 1,
                         status |-> "pending"]}
  /\ UNCHANGED grant

RewrapGrantsLater ==
  /\ Cardinality(ActiveGrants) > SyncLimit
  /\ jobs' = jobs \cup {[old |-> masterVersion, new |-> masterVersion + 1,
                         status |-> "pending"]}
  /\ UNCHANGED grant

RemoveMember(by, u) ==
  /\ masterVersion < MaxVersion
  /\ u # by
  /\ owner = by
  /\ UnwrapsAt(by, masterVersion)
  /\ masterVersion' = masterVersion + 1
  /\ member' = RewrappedMembers(u, masterVersion + 1)
  /\ RewrapGrantsNow(by) \/ RewrapGrantsLater
  /\ UNCHANGED <<owner, archived, adds, shares>>

-----------------------------------------------------------------------------
(* transferGroupOwnership and archiveGroup *)

\* group_members_owner_modify: rows are updatable for the owner the database
\* sees, and the statements that set the roles come after owner_id changed.
MayModifyMembers(caller, currentOwner) == caller = currentOwner

\* Mutant: the new owner need not be a member.
TransferToAnyone(by, u) ==
  /\ u # by
  /\ owner = by
  /\ ~archived
  /\ owner' = u
  /\ UNCHANGED <<masterVersion, archived, member, grant, jobs, adds, shares>>

TransferGroupOwnership(by, u) ==
  /\ u # by
  /\ owner = by
  /\ ~archived
  /\ IsActive(u)
  /\ owner' = u
  /\ member' = [m \in Users |->
                  IF m \in {by, u} /\ IsActive(m) /\ MayModifyMembers(by, u)
                    THEN [member[m] EXCEPT !.role = "admin"]
                    ELSE member[m]]
  /\ UNCHANGED <<masterVersion, archived, grant, jobs, adds, shares>>

ArchiveGroup(by) ==
  /\ owner = by
  /\ archived' = TRUE
  /\ UNCHANGED <<owner, masterVersion, member, grant, jobs, adds, shares>>

-----------------------------------------------------------------------------
(* createShareWithGroup and revokeShare *)

\* The object row is locked, the group row is only read.
ShareRead(by, o) ==
  /\ Cardinality(adds) + Cardinality(shares) < MaxInFlight
  /\ \A t \in shares : t.obj # o
  /\ ObjectOwner[o] = by
  /\ owner = by \/ IsActive(by)
  /\ ~archived
  /\ shares' = shares \cup {[by |-> by, obj |-> o, stage |-> "read",
                             ver |-> masterVersion, key |-> 0]}
  /\ UNCHANGED <<owner, masterVersion, archived, member, grant, jobs, adds>>

\* Mutant: a stale caller's row is used all the same.
ShareWrapStale(t) ==
  /\ t.stage = "read"
  /\ IsActive(t.by)
  /\ shares' = (shares \ {t}) \cup {[t EXCEPT !.stage = "wrapped", !.key = member[t.by].key]}
  /\ UNCHANGED <<owner, masterVersion, archived, member, grant, jobs, adds>>

\* The caller's row opens at its own label, which must be the group's version.
ShareWrap(t) ==
  /\ t.stage = "read"
  /\ IsActive(t.by)
  /\ member[t.by].ver = t.ver
  /\ shares' = (shares \ {t}) \cup {[t EXCEPT !.stage = "wrapped", !.key = member[t.by].key]}
  /\ UNCHANGED <<owner, masterVersion, archived, member, grant, jobs, adds>>

\* Row-level security admits only the group's owner.
ShareAdmit(t) ==
  /\ t.stage = "wrapped"
  /\ owner = t.by
  /\ shares' = (shares \ {t}) \cup {[t EXCEPT !.stage = "admitted"]}
  /\ UNCHANGED <<owner, masterVersion, archived, member, grant, jobs, adds>>

\* An active grant of the same object stays as it is (ON CONFLICT DO NOTHING).
ShareInsert(t) ==
  /\ t.stage = "admitted"
  /\ grant' = IF t.obj \in ActiveGrants THEN grant
              ELSE [grant EXCEPT ![t.obj] = [status |-> "active", ver |-> t.ver, key |-> t.key]]
  /\ shares' = shares \ {t}
  /\ UNCHANGED <<owner, masterVersion, archived, member, jobs, adds>>

ShareRollback(t) ==
  /\ shares' = shares \ {t}
  /\ UNCHANGED <<owner, masterVersion, archived, member, grant, jobs, adds>>

\* Whom grants_self lets update the row: the granter, a member, the owner.
RevokeShare(by, o) ==
  /\ o \in ActiveGrants
  /\ by = ObjectOwner[o] \/ IsActive(by) \/ owner = by
  /\ grant' = [grant EXCEPT ![o].status = "revoked"]
  /\ UNCHANGED <<owner, masterVersion, archived, member, jobs, adds, shares>>

-----------------------------------------------------------------------------
(* The rewrap worker.  processOneJob indexes the result of db.execute as an  *)
(* array; with node-postgres that result is an object with a `rows` field    *)
(* (search/hybrid.ts reads it so), the group row is undefined, the           *)
(* transaction throws and the tick records the job as failed.                *)
RewrapTick(j) ==
  /\ j.status = "pending"
  /\ jobs' = (jobs \ {j}) \cup {[j EXCEPT !.status = "failed"]}
  /\ UNCHANGED <<owner, masterVersion, archived, member, grant, adds, shares>>

Next ==
  \/ \E by, u \in Users :
       \/ \E role \in AddRoles : AddRead(by, u, role)
       \/ RemoveMember(by, u)
       \/ TransferGroupOwnership(by, u)
  \/ \E by \in Users : ArchiveGroup(by)
  \/ \E t \in adds : AddWrap(t) \/ AddAdmit(t) \/ AddInsert(t) \/ AddRollback(t)
  \/ \E by \in Users, o \in Objects : ShareRead(by, o) \/ RevokeShare(by, o)
  \/ \E t \in shares : ShareWrap(t) \/ ShareAdmit(t) \/ ShareInsert(t) \/ ShareRollback(t)
  \/ \E j \in jobs : RewrapTick(j)

Spec == Init /\ [][Next]_vars

-----------------------------------------------------------------------------
(* Properties *)

TypeOK ==
  /\ owner \in Users
  /\ masterVersion \in Nat \ {0}
  /\ archived \in BOOLEAN
  /\ member \in [Users -> MemberRow]
  /\ grant \in [Objects -> GrantRow]
  /\ jobs \subseteq Job
  /\ adds \subseteq AddTx
  /\ shares \subseteq ShareTx

\* The version number stored beside a wrap is the master the wrap is about, for
\* members, grants and for the wraps of requests under way.  readObject,
\* createShareWithGroup and the rotation all decide by the number alone.
LabelsAreTrue ==
  /\ \A u \in Users : member[u].status # "none" => member[u].key = member[u].ver
  /\ \A o \in Objects : grant[o].status # "none" => grant[o].key = grant[o].ver
  /\ \A t \in adds \cup shares : t.stage # "read" => t.key = t.ver

\* Nobody, and no request under way, is labelled with a version that the group
\* has not reached: a stale-membership answer always means an older wrap.
NoLabelFromTheFuture ==
  /\ \A u \in Users : member[u].ver <= masterVersion
  /\ \A o \in Objects : grant[o].ver <= masterVersion
  /\ \A t \in adds \cup shares : t.ver <= masterVersion

\* A removed member's row never holds the master the group uses now, whatever
\* add was under way when the removal rotated it.
RemovedLostTheMaster ==
  \A u \in Users : member[u].status = "removed" => member[u].key < masterVersion

\* The owner has an active member row: addMember and removeMember need it to
\* open the master and raise an internal error without it, and transfers and
\* removals by two owners in a row must not lose it.
OwnerIsMember == IsActive(owner)

\* A rotation that commits leaves no member behind; a grant stays behind only
\* when a job for exactly this rotation is waiting.
RotationIsComplete ==
  [][masterVersion' # masterVersion =>
       /\ \A u \in Users : IsActive(u)' => member'[u].ver = masterVersion'
       /\ \/ \A o \in ActiveGrants' : grant'[o].ver = masterVersion'
          \/ \E j \in jobs' : /\ j.status = "pending"
                             /\ j.old = masterVersion
                             /\ j.new = masterVersion'
    ]_vars

\* The row of a removed member is frozen: neither a late addMember nor a later
\* rotation or transfer brings it back or gives it another wrap.
RemovedRowsAreFrozen ==
  [][\A u \in Users : member[u].status = "removed" => member'[u] = member[u]]_vars

\* The group implements the abstract epochs: keys follow membership.
Epochs == INSTANCE GroupEpochs
            WITH epoch     <- masterVersion,
                 insiders  <- {u \in Users : IsActive(u)},
                 outsiders <- {u \in Users : member[u].status = "removed"},
                 keyOf     <- [u \in Users |-> member[u].key]
ImplementsEpochs == Epochs!Spec

-----------------------------------------------------------------------------
(* What the documents say of the program, and the program does not do        *)

\* Whoever was removed cannot open a grant: those that existed were re-wrapped
\* and those made after the removal use the new master
\* (CRYPTO-REVIEW-GROUP-SHARING-2026-05-17.md, section 6).
GrantsExcludeTheRemoved ==
  \A u \in Users, o \in ActiveGrants :
    member[u].status = "removed" => grant[o].key # member[u].key

\* The owner of the group can open the group's master: that is why a new owner
\* must be a member (transferGroupOwnership).
OwnerOpensTheMaster == UnwrapsAt(owner, masterVersion)

\* A rewrap job fails only when the key service fails, which it never does here.
JobsDoNotFail == \A j \in jobs : j.status # "failed"
=============================================================================
