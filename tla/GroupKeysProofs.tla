-------------------------- MODULE GroupKeysProofs --------------------------
(***************************************************************************)
(* What GroupKeys guarantees for every number of people, documents,        *)
(* rotations and requests under way.  IInv is inductive; the invariants    *)
(* the runs check follow from it, and so does the step simulation of       *)
(* GroupEpochs.                                                            *)
(***************************************************************************)
EXTENDS GroupKeys, TLAPS

\* A request under way carries a version the group once had.
InFlightVersions == \A t \in adds \cup shares : t.ver \in 1..masterVersion

IInv ==
  /\ TypeOK
  /\ LabelsAreTrue
  /\ NoLabelFromTheFuture
  /\ RemovedLostTheMaster
  /\ OwnerIsMember
  /\ InFlightVersions

\* The state right after createGroup satisfies the invariant.
LEMMA InitInv == Init => IInv
  <1> SUFFICES ASSUME Init PROVE IInv
    OBVIOUS
  <1>1. PICK u \in Users :
          /\ owner = u
          /\ masterVersion = 1
          /\ archived = FALSE
          /\ member = [m \in Users |->
                         IF m = u THEN [status |-> "active", role |-> "admin",
                                        ver |-> 1, key |-> 1]
                                  ELSE NoMember]
          /\ grant = [o \in Objects |-> NoGrant]
          /\ jobs = {}
          /\ adds = {}
          /\ shares = {}
    BY DEF Init
  <1>2. TypeOK
    <2>1. [status |-> "active", role |-> "admin", ver |-> 1, key |-> 1] \in MemberRow
      BY DEF MemberRow
    <2>2. NoMember \in MemberRow /\ NoGrant \in GrantRow
      BY DEF NoMember, MemberRow, NoGrant, GrantRow
    <2> DEFINE first == [status |-> "active", role |-> "admin", ver |-> 1, key |-> 1]
    <2>3. member = [m \in Users |-> IF m = u THEN first ELSE NoMember]
      BY <1>1
    <2>4. first \in MemberRow
      BY <2>1
    <2> HIDE DEF first
    <2>5. member \in [Users -> MemberRow]
      BY <2>2, <2>3, <2>4
    <2>6. grant \in [Objects -> GrantRow]
      BY <1>1, <2>2
    <2>7. owner \in Users /\ masterVersion \in Nat \ {0} /\ archived \in BOOLEAN
      <3>1. owner = u /\ masterVersion = 1 /\ archived = FALSE
        BY <1>1
      <3>2. owner \in Users /\ masterVersion \in Nat \ {0}
        BY <3>1
      <3>3. archived \in BOOLEAN
        BY <3>1, Zenon
      <3>4. QED
        BY <3>2, <3>3
    <2>8. jobs \subseteq Job /\ adds \subseteq AddTx /\ shares \subseteq ShareTx
      BY <1>1
    <2>9. QED
      BY <2>5, <2>6, <2>7, <2>8 DEF TypeOK
  <1>3. LabelsAreTrue /\ NoLabelFromTheFuture /\ InFlightVersions
    BY <1>1 DEF LabelsAreTrue, NoLabelFromTheFuture, InFlightVersions, NoMember, NoGrant
  <1>4. RemovedLostTheMaster /\ OwnerIsMember
    BY <1>1 DEF RemovedLostTheMaster, OwnerIsMember, IsActive, NoMember
  <1>5. QED
    BY <1>2, <1>3, <1>4 DEF IInv

\* addMember preserves the invariant at each of its statements.
LEMMA AddInv ==
  ASSUME IInv, NEW t,
         \/ \E by, u \in Users, role \in AddRoles : AddRead(by, u, role)
         \/ t \in adds /\ (AddWrap(t) \/ AddAdmit(t) \/ AddInsert(t) \/ AddRollback(t))
  PROVE  IInv'
  <1> USE RoleAssumption
  <1>1. ASSUME NEW by \in Users, NEW u \in Users, NEW role \in AddRoles, AddRead(by, u, role)
        PROVE  IInv'
    <2>1. TypeOK'
      BY <1>1 DEF IInv, TypeOK, AddRead, AddTx, Stages
    <2>2. LabelsAreTrue'
      BY <1>1 DEF IInv, LabelsAreTrue, AddRead
    <2>3. NoLabelFromTheFuture' /\ InFlightVersions'
      BY <1>1 DEF IInv, TypeOK, NoLabelFromTheFuture, InFlightVersions, AddRead
    <2>4. RemovedLostTheMaster' /\ OwnerIsMember'
      BY <1>1 DEF IInv, RemovedLostTheMaster, OwnerIsMember, IsActive, AddRead
    <2>5. QED
      BY <2>1, <2>2, <2>3, <2>4 DEF IInv
  <1>2. ASSUME t \in adds, AddWrap(t)
        PROVE  IInv'
    <2> DEFINE w == [t EXCEPT !.stage = "wrapped", !.key = member[t.by].key]
    <2>1. t \in AddTx /\ t.by \in Users
      BY <1>2 DEF IInv, TypeOK, AddTx
    <2>2. member[t.by].key = t.ver /\ member[t.by].key \in Nat
      BY <1>2, <2>1 DEF IInv, TypeOK, MemberRow, LabelsAreTrue, AddWrap, UnwrapsAt, IsActive
    <2>3. /\ w \in AddTx
          /\ w.ver = t.ver
          /\ w.key = t.ver
      BY <2>1, <2>2 DEF AddTx, Stages
    <2>4. adds' = (adds \ {t}) \cup {w}
      BY <1>2 DEF AddWrap
    <2> HIDE DEF w
    <2>5. TypeOK'
      BY <1>2, <2>3, <2>4 DEF IInv, TypeOK, AddWrap
    <2>6. LabelsAreTrue'
      BY <1>2, <2>3, <2>4 DEF IInv, LabelsAreTrue, AddWrap
    <2>7. NoLabelFromTheFuture' /\ InFlightVersions'
      BY <1>2, <2>3, <2>4 DEF IInv, NoLabelFromTheFuture, InFlightVersions, AddWrap
    <2>8. RemovedLostTheMaster' /\ OwnerIsMember'
      BY <1>2 DEF IInv, RemovedLostTheMaster, OwnerIsMember, IsActive, AddWrap
    <2>9. QED
      BY <2>5, <2>6, <2>7, <2>8 DEF IInv
  <1>3. ASSUME t \in adds, AddInsert(t)
        PROVE  IInv'
    <2>1. /\ t \in AddTx
          /\ t.key = t.ver
          /\ t.ver \in 1..masterVersion
          /\ t.role \in {"admin", "member"}
      BY <1>3 DEF IInv, TypeOK, AddTx, LabelsAreTrue, InFlightVersions, AddInsert
    <2>2. /\ t.user \in Users
          /\ masterVersion \in Nat
          /\ member \in [Users -> MemberRow]
          /\ member' = [member EXCEPT ![t.user] =
                          [status |-> "active", role |-> t.role, ver |-> t.ver, key |-> t.key]]
      BY <1>3, <2>1 DEF IInv, TypeOK, AddTx, AddInsert
    <2>3. TypeOK'
      BY <1>3, <2>1, <2>2 DEF IInv, TypeOK, MemberRow, AddInsert
    <2>4. LabelsAreTrue'
      BY <1>3, <2>1, <2>2 DEF IInv, LabelsAreTrue, AddInsert
    <2>5. NoLabelFromTheFuture' /\ InFlightVersions'
      BY <1>3, <2>1, <2>2 DEF IInv, NoLabelFromTheFuture, InFlightVersions, AddInsert
    <2>6. RemovedLostTheMaster' /\ OwnerIsMember'
      BY <1>3, <2>1, <2>2 DEF IInv, RemovedLostTheMaster, OwnerIsMember, IsActive, AddInsert
    <2>7. QED
      BY <2>3, <2>4, <2>5, <2>6 DEF IInv
  <1>4. ASSUME t \in adds, AddRollback(t)
        PROVE  IInv'
    BY <1>4 DEF IInv, TypeOK, LabelsAreTrue, NoLabelFromTheFuture, RemovedLostTheMaster,
                OwnerIsMember, IsActive, InFlightVersions, AddRollback
  <1>5. ASSUME t \in adds, AddAdmit(t)
        PROVE  IInv'
    <2> DEFINE w == [t EXCEPT !.stage = "admitted"]
    <2>1. t \in AddTx /\ t.key = t.ver /\ t.ver \in 1..masterVersion
      BY <1>5 DEF IInv, TypeOK, LabelsAreTrue, InFlightVersions, AddAdmit
    <2>2. /\ w \in AddTx
          /\ w.ver = t.ver
          /\ w.key = t.ver
      BY <2>1 DEF AddTx, Stages
    <2>3. adds' = (adds \ {t}) \cup {w}
      BY <1>5 DEF AddAdmit
    <2> HIDE DEF w
    <2>4. TypeOK'
      BY <1>5, <2>2, <2>3 DEF IInv, TypeOK, AddAdmit
    <2>5. LabelsAreTrue'
      BY <1>5, <2>2, <2>3 DEF IInv, LabelsAreTrue, AddAdmit
    <2>6. NoLabelFromTheFuture' /\ InFlightVersions'
      BY <1>5, <2>1, <2>2, <2>3 DEF IInv, TypeOK, NoLabelFromTheFuture, InFlightVersions, AddAdmit
    <2>7. RemovedLostTheMaster' /\ OwnerIsMember'
      BY <1>5 DEF IInv, RemovedLostTheMaster, OwnerIsMember, IsActive, AddAdmit
    <2>8. QED
      BY <2>4, <2>5, <2>6, <2>7 DEF IInv
  <1>6. QED
    BY <1>1, <1>2, <1>3, <1>4, <1>5

\* createShareWithGroup and revokeShare preserve the invariant.
LEMMA ShareInv ==
  ASSUME IInv, NEW t,
         \/ \E by \in Users, o \in Objects : ShareRead(by, o) \/ RevokeShare(by, o)
         \/ t \in shares /\ (ShareWrap(t) \/ ShareAdmit(t) \/ ShareInsert(t) \/ ShareRollback(t))
  PROVE  IInv'
  <1>1. ASSUME NEW by \in Users, NEW o \in Objects, ShareRead(by, o)
        PROVE  IInv'
    <2>1. TypeOK'
      BY <1>1 DEF IInv, TypeOK, ShareRead, ShareTx, Stages
    <2>2. LabelsAreTrue'
      BY <1>1 DEF IInv, LabelsAreTrue, ShareRead
    <2>3. NoLabelFromTheFuture' /\ InFlightVersions'
      BY <1>1 DEF IInv, TypeOK, NoLabelFromTheFuture, InFlightVersions, ShareRead
    <2>4. RemovedLostTheMaster' /\ OwnerIsMember'
      BY <1>1 DEF IInv, RemovedLostTheMaster, OwnerIsMember, IsActive, ShareRead
    <2>5. QED
      BY <2>1, <2>2, <2>3, <2>4 DEF IInv
  <1>2. ASSUME NEW by \in Users, NEW o \in Objects, RevokeShare(by, o)
        PROVE  IInv'
    <2>1. /\ grant \in [Objects -> GrantRow]
          /\ grant[o].status = "active"
          /\ grant' = [grant EXCEPT ![o].status = "revoked"]
      BY <1>2 DEF IInv, TypeOK, RevokeShare, ActiveGrants
    <2>2. grant' \in [Objects -> GrantRow]
      BY <2>1 DEF GrantRow
    <2>3. \A p \in Objects : /\ grant'[p].ver = grant[p].ver
                            /\ grant'[p].key = grant[p].key
                            /\ grant'[p].status # "none" => grant[p].status # "none"
      BY <2>1 DEF GrantRow
    <2>4. TypeOK'
      BY <1>2, <2>2 DEF IInv, TypeOK, RevokeShare
    <2>5. LabelsAreTrue'
      BY <1>2, <2>3 DEF IInv, LabelsAreTrue, RevokeShare
    <2>6. NoLabelFromTheFuture' /\ InFlightVersions'
      BY <1>2, <2>3 DEF IInv, NoLabelFromTheFuture, InFlightVersions, RevokeShare
    <2>7. RemovedLostTheMaster' /\ OwnerIsMember'
      BY <1>2 DEF IInv, RemovedLostTheMaster, OwnerIsMember, IsActive, RevokeShare
    <2>8. QED
      BY <2>4, <2>5, <2>6, <2>7 DEF IInv
  <1>3. ASSUME t \in shares, ShareWrap(t)
        PROVE  IInv'
    <2> DEFINE w == [t EXCEPT !.stage = "wrapped", !.key = member[t.by].key]
    <2>1. t \in ShareTx /\ t.by \in Users
      BY <1>3 DEF IInv, TypeOK, ShareTx
    <2>2. member[t.by].key = t.ver /\ member[t.by].key \in Nat
      BY <1>3, <2>1 DEF IInv, TypeOK, MemberRow, LabelsAreTrue, ShareWrap, IsActive
    <2>3. /\ w \in ShareTx
          /\ w.ver = t.ver
          /\ w.key = t.ver
      BY <2>1, <2>2 DEF ShareTx, Stages
    <2>4. shares' = (shares \ {t}) \cup {w}
      BY <1>3 DEF ShareWrap
    <2> HIDE DEF w
    <2>5. TypeOK'
      BY <1>3, <2>3, <2>4 DEF IInv, TypeOK, ShareWrap
    <2>6. LabelsAreTrue'
      BY <1>3, <2>3, <2>4 DEF IInv, LabelsAreTrue, ShareWrap
    <2>7. NoLabelFromTheFuture' /\ InFlightVersions'
      BY <1>3, <2>3, <2>4 DEF IInv, NoLabelFromTheFuture, InFlightVersions, ShareWrap
    <2>8. RemovedLostTheMaster' /\ OwnerIsMember'
      BY <1>3 DEF IInv, RemovedLostTheMaster, OwnerIsMember, IsActive, ShareWrap
    <2>9. QED
      BY <2>5, <2>6, <2>7, <2>8 DEF IInv
  <1>4. ASSUME t \in shares, ShareInsert(t)
        PROVE  IInv'
    <2>1. /\ t \in ShareTx
          /\ t.key = t.ver
          /\ t.ver \in 1..masterVersion
          /\ t.obj \in Objects
      BY <1>4 DEF IInv, TypeOK, ShareTx, LabelsAreTrue, InFlightVersions, ShareInsert
    <2>2. grant \in [Objects -> GrantRow] /\ masterVersion \in Nat
      BY DEF IInv, TypeOK
    <2>3. \A p \in Objects :
            \/ grant'[p] = grant[p]
            \/ grant'[p] = [status |-> "active", ver |-> t.ver, key |-> t.key]
      BY <1>4, <2>1, <2>2 DEF ShareInsert
    <2>4. grant' \in [Objects -> GrantRow]
      BY <1>4, <2>1, <2>2 DEF ShareInsert, GrantRow
    <2>5. TypeOK'
      BY <1>4, <2>4 DEF IInv, TypeOK, ShareInsert
    <2>6. LabelsAreTrue'
      BY <1>4, <2>1, <2>3 DEF IInv, LabelsAreTrue, ShareInsert
    <2>7. NoLabelFromTheFuture' /\ InFlightVersions'
      BY <1>4, <2>1, <2>2, <2>3 DEF IInv, NoLabelFromTheFuture, InFlightVersions, ShareInsert
    <2>8. RemovedLostTheMaster' /\ OwnerIsMember'
      BY <1>4 DEF IInv, RemovedLostTheMaster, OwnerIsMember, IsActive, ShareInsert
    <2>9. QED
      BY <2>5, <2>6, <2>7, <2>8 DEF IInv
  <1>5. ASSUME t \in shares, ShareRollback(t)
        PROVE  IInv'
    BY <1>5 DEF IInv, TypeOK, LabelsAreTrue, NoLabelFromTheFuture, RemovedLostTheMaster,
                OwnerIsMember, IsActive, InFlightVersions, ShareRollback
  <1>6. ASSUME t \in shares, ShareAdmit(t)
        PROVE  IInv'
    <2> DEFINE w == [t EXCEPT !.stage = "admitted"]
    <2>1. t \in ShareTx /\ t.key = t.ver /\ t.ver \in 1..masterVersion
      BY <1>6 DEF IInv, TypeOK, LabelsAreTrue, InFlightVersions, ShareAdmit
    <2>2. /\ w \in ShareTx
          /\ w.ver = t.ver
          /\ w.key = t.ver
      BY <2>1 DEF ShareTx, Stages
    <2>3. shares' = (shares \ {t}) \cup {w}
      BY <1>6 DEF ShareAdmit
    <2> HIDE DEF w
    <2>4. TypeOK'
      BY <1>6, <2>2, <2>3 DEF IInv, TypeOK, ShareAdmit
    <2>5. LabelsAreTrue'
      BY <1>6, <2>2, <2>3 DEF IInv, LabelsAreTrue, ShareAdmit
    <2>6. NoLabelFromTheFuture' /\ InFlightVersions'
      BY <1>6, <2>1, <2>2, <2>3 DEF IInv, TypeOK, NoLabelFromTheFuture, InFlightVersions, ShareAdmit
    <2>7. RemovedLostTheMaster' /\ OwnerIsMember'
      BY <1>6 DEF IInv, RemovedLostTheMaster, OwnerIsMember, IsActive, ShareAdmit
    <2>8. QED
      BY <2>4, <2>5, <2>6, <2>7 DEF IInv
  <1>7. QED
    BY <1>1, <1>2, <1>3, <1>4, <1>5, <1>6

\* What a rotation does to the member rows: who stays gets the new master,
\* who leaves and who had left keep the wrap they have.
LEMMA RotationOfMembers ==
  ASSUME IInv, NEW by \in Users, NEW u \in Users, RemoveMember(by, u)
  PROVE  /\ masterVersion' = masterVersion + 1
         /\ member' \in [Users -> MemberRow]
         /\ \A m \in Users :
              \/ /\ IsActive(m)
                 /\ m # u
                 /\ member'[m].status = "active"
                 /\ member'[m].ver = masterVersion'
                 /\ member'[m].key = masterVersion'
              \/ /\ IsActive(m)
                 /\ m = u
                 /\ member'[m].status = "removed"
                 /\ member'[m].ver = member[m].ver
                 /\ member'[m].key = member[m].key
              \/ ~IsActive(m) /\ member'[m] = member[m]
  <1>1. /\ masterVersion \in Nat
        /\ member \in [Users -> MemberRow]
        /\ masterVersion' = masterVersion + 1
        /\ member' = RewrappedMembers(u, masterVersion + 1)
    BY DEF IInv, TypeOK, RemoveMember
  <1>2. ASSUME NEW m \in Users
        PROVE  /\ [member[m] EXCEPT !.status = "removed"] \in MemberRow
               /\ [member[m] EXCEPT !.ver = masterVersion + 1,
                                    !.key = masterVersion + 1] \in MemberRow
    <2>1. member[m] \in MemberRow /\ masterVersion + 1 \in Nat
      BY <1>1
    <2>2. QED
      BY <2>1 DEF MemberRow
  <1>3. member' \in [Users -> MemberRow]
    <2> DEFINE out(m) == [member[m] EXCEPT !.status = "removed"]
               new(m) == [member[m] EXCEPT !.ver = masterVersion + 1,
                                           !.key = masterVersion + 1]
    <2>1. member' = [m \in Users |-> IF m = u /\ IsActive(m) THEN out(m)
                                     ELSE IF IsActive(m) THEN new(m)
                                     ELSE member[m]]
      BY <1>1 DEF RewrappedMembers
    <2>2. \A m \in Users : /\ out(m) \in MemberRow
                           /\ new(m) \in MemberRow
                           /\ member[m] \in MemberRow
      BY <1>1, <1>2
    <2> HIDE DEF out, new
    <2>3. QED
      BY <2>1, <2>2
  <1>4. ASSUME NEW m \in Users, IsActive(m), m # u
        PROVE  /\ member'[m].status = "active"
               /\ member'[m].ver = masterVersion'
               /\ member'[m].key = masterVersion'
    BY <1>1, <1>4 DEF RewrappedMembers, MemberRow, IsActive
  <1>5. ASSUME NEW m \in Users, IsActive(m), m = u
        PROVE  /\ member'[m].status = "removed"
               /\ member'[m].ver = member[m].ver
               /\ member'[m].key = member[m].key
    BY <1>1, <1>5 DEF RewrappedMembers, MemberRow, IsActive
  <1>6. ASSUME NEW m \in Users, ~IsActive(m)
        PROVE  member'[m] = member[m]
    BY <1>1, <1>6 DEF RewrappedMembers
  <1>7. QED
    BY <1>1, <1>3, <1>4, <1>5, <1>6

\* What a rotation does to the grants: each stays as it is, or is re-wrapped
\* and relabelled together.
LEMMA RotationOfGrants ==
  ASSUME IInv, NEW by \in Users, NEW u \in Users, RemoveMember(by, u)
  PROVE  /\ grant' \in [Objects -> GrantRow]
         /\ jobs' \subseteq Job
         /\ \A o \in Objects :
              /\ grant'[o].status = grant[o].status
              /\ \/ grant'[o] = grant[o]
                 \/ /\ grant'[o].ver = masterVersion'
                    /\ grant'[o].key = masterVersion'
  <1>1. /\ masterVersion \in Nat
        /\ grant \in [Objects -> GrantRow]
        /\ jobs \subseteq Job
        /\ masterVersion' = masterVersion + 1
        /\ RewrapGrantsNow(by) \/ RewrapGrantsLater
    BY DEF IInv, TypeOK, RemoveMember
  <1>2. CASE RewrapGrantsNow(by)
    <2>1. grant' = RewrappedGrants(masterVersion + 1) /\ jobs' = jobs
      BY <1>2 DEF RewrapGrantsNow
    <2>2. ASSUME NEW o \in Objects
          PROVE  [grant[o] EXCEPT !.ver = masterVersion + 1,
                                  !.key = masterVersion + 1] \in GrantRow
      <3>1. grant[o] \in GrantRow /\ masterVersion + 1 \in Nat
        BY <1>1
      <3>2. QED
        BY <3>1 DEF GrantRow
    <2>3. grant' \in [Objects -> GrantRow]
      <3> DEFINE new(o) == [grant[o] EXCEPT !.ver = masterVersion + 1,
                                            !.key = masterVersion + 1]
      <3>1. grant' = [o \in Objects |-> IF o \in ActiveGrants THEN new(o) ELSE grant[o]]
        BY <2>1 DEF RewrappedGrants
      <3>2. \A o \in Objects : new(o) \in GrantRow /\ grant[o] \in GrantRow
        BY <1>1, <2>2
      <3> HIDE DEF new
      <3>3. QED
        BY <3>1, <3>2
    <2>4. ASSUME NEW o \in Objects
          PROVE  /\ grant'[o].status = grant[o].status
                 /\ \/ grant'[o] = grant[o]
                    \/ /\ grant'[o].ver = masterVersion'
                       /\ grant'[o].key = masterVersion'
      BY <1>1, <2>1 DEF RewrappedGrants, GrantRow
    <2>5. QED
      BY <1>1, <2>1, <2>3, <2>4
  <1>3. CASE RewrapGrantsLater
    BY <1>1, <1>3 DEF RewrapGrantsLater, Job
  <1>4. QED
    BY <1>1, <1>2, <1>3

\* removeMember preserves the invariant.
LEMMA RemoveInv ==
  ASSUME IInv, NEW by \in Users, NEW u \in Users, RemoveMember(by, u)
  PROVE  IInv'
  <1>1. /\ masterVersion \in Nat \ {0}
        /\ masterVersion' = masterVersion + 1
        /\ u # owner
        /\ UNCHANGED <<owner, archived, adds, shares>>
    BY DEF IInv, TypeOK, RemoveMember
  <1>2. TypeOK'
    BY <1>1, RotationOfMembers, RotationOfGrants DEF IInv, TypeOK
  <1>3. LabelsAreTrue'
    <2>1. \A m \in Users : member'[m].status # "none" => member'[m].key = member'[m].ver
      BY RotationOfMembers DEF IInv, LabelsAreTrue, IsActive
    <2>2. \A o \in Objects : grant'[o].status # "none" => grant'[o].key = grant'[o].ver
      BY RotationOfGrants DEF IInv, LabelsAreTrue
    <2>3. QED
      BY <1>1, <2>1, <2>2 DEF IInv, LabelsAreTrue
  <1>4. NoLabelFromTheFuture'
    <2>1. \A m \in Users : member[m].ver \in Nat
      BY DEF IInv, TypeOK, MemberRow
    <2>2. \A m \in Users : member'[m].ver <= masterVersion'
      BY <1>1, <2>1, RotationOfMembers DEF IInv, NoLabelFromTheFuture
    <2>3. \A o \in Objects : grant[o].ver \in Nat
      BY DEF IInv, TypeOK, GrantRow
    <2>4. \A o \in Objects : grant'[o].ver <= masterVersion'
      BY <1>1, <2>3, RotationOfGrants DEF IInv, NoLabelFromTheFuture
    <2>5. \A t \in adds' \cup shares' : t.ver <= masterVersion'
      BY <1>1 DEF IInv, InFlightVersions
    <2>6. QED
      BY <2>2, <2>4, <2>5 DEF NoLabelFromTheFuture
  <1>5. RemovedLostTheMaster'
    <2>1. ASSUME NEW m \in Users, member'[m].status = "removed"
          PROVE  member'[m].key < masterVersion'
      <3>1. member[m].key \in Nat
        BY DEF IInv, TypeOK, MemberRow
      <3>2. member'[m].key = member[m].key
        BY <2>1, RotationOfMembers
      <3>3. member[m].key <= masterVersion
        <4>1. CASE IsActive(m)
          BY <4>1 DEF IInv, LabelsAreTrue, NoLabelFromTheFuture, IsActive
        <4>2. CASE ~IsActive(m)
          <5>1. member[m].status = "removed"
            BY <2>1, <4>2, RotationOfMembers
          <5>2. QED
            BY <1>1, <3>1, <5>1 DEF IInv, RemovedLostTheMaster
        <4>3. QED
          BY <4>1, <4>2
      <3>4. QED
        BY <1>1, <3>1, <3>2, <3>3
    <2>2. QED
      BY <2>1 DEF RemovedLostTheMaster
  <1>6. OwnerIsMember'
    <2>1. owner \in Users /\ IsActive(owner)
      BY DEF IInv, TypeOK, OwnerIsMember
    <2>2. member'[owner].status = "active"
      BY <1>1, <2>1, RotationOfMembers
    <2>3. QED
      BY <1>1, <2>2 DEF OwnerIsMember, IsActive
  <1>7. InFlightVersions'
    BY <1>1 DEF IInv, InFlightVersions
  <1>8. QED
    BY <1>2, <1>3, <1>4, <1>5, <1>6, <1>7 DEF IInv

\* transferGroupOwnership and archiveGroup preserve the invariant.
LEMMA OwnerInv ==
  ASSUME IInv, NEW by \in Users,
         \/ \E u \in Users : TransferGroupOwnership(by, u)
         \/ ArchiveGroup(by)
  PROVE  IInv'
  <1>1. ASSUME NEW u \in Users, TransferGroupOwnership(by, u)
        PROVE  IInv'
    <2>1. /\ member \in [Users -> MemberRow]
          /\ owner' = u
          /\ IsActive(u)
          /\ u # by
          /\ UNCHANGED <<masterVersion, archived, grant, jobs, adds, shares>>
      BY <1>1 DEF IInv, TypeOK, TransferGroupOwnership
    <2>2. member' = member
      BY <1>1, <2>1 DEF TransferGroupOwnership, MayModifyMembers
    <2>3. TypeOK'
      BY <2>1, <2>2 DEF IInv, TypeOK
    <2>4. LabelsAreTrue' /\ NoLabelFromTheFuture' /\ InFlightVersions'
      BY <2>1, <2>2 DEF IInv, LabelsAreTrue, NoLabelFromTheFuture, InFlightVersions
    <2>5. RemovedLostTheMaster' /\ OwnerIsMember'
      BY <2>1, <2>2 DEF IInv, RemovedLostTheMaster, OwnerIsMember, IsActive
    <2>6. QED
      BY <2>3, <2>4, <2>5 DEF IInv
  <1>2. ASSUME ArchiveGroup(by)
        PROVE  IInv'
    BY <1>2 DEF IInv, TypeOK, LabelsAreTrue, NoLabelFromTheFuture, RemovedLostTheMaster,
                OwnerIsMember, IsActive, InFlightVersions, ArchiveGroup
  <1>3. QED
    BY <1>1, <1>2

\* The rewrap worker preserves the invariant.
LEMMA WorkerInv ==
  ASSUME IInv, NEW j \in jobs, RewrapTick(j)
  PROVE  IInv'
  <1>1. jobs' \subseteq Job
    BY DEF IInv, TypeOK, RewrapTick, Job
  <1>2. QED
    BY <1>1 DEF IInv, TypeOK, LabelsAreTrue, NoLabelFromTheFuture, RemovedLostTheMaster,
                OwnerIsMember, IsActive, InFlightVersions, RewrapTick

LEMMA NextInv == IInv /\ [Next]_vars => IInv'
  <1> SUFFICES ASSUME IInv, [Next]_vars
               PROVE  IInv'
    OBVIOUS
  <1>1. ASSUME NEW by \in Users, NEW u \in Users, NEW role \in AddRoles,
               AddRead(by, u, role)
        PROVE  IInv'
    BY <1>1, AddInv
  <1>2. ASSUME NEW by \in Users, NEW u \in Users, RemoveMember(by, u)
        PROVE  IInv'
    BY <1>2, RemoveInv
  <1>3. ASSUME NEW by \in Users, NEW u \in Users, TransferGroupOwnership(by, u)
        PROVE  IInv'
    BY <1>3, OwnerInv
  <1>4. ASSUME NEW by \in Users, ArchiveGroup(by)
        PROVE  IInv'
    BY <1>4, OwnerInv
  <1>5. ASSUME NEW t \in adds, AddWrap(t) \/ AddAdmit(t) \/ AddInsert(t) \/ AddRollback(t)
        PROVE  IInv'
    BY <1>5, AddInv
  <1>6. ASSUME NEW by \in Users, NEW o \in Objects, ShareRead(by, o) \/ RevokeShare(by, o)
        PROVE  IInv'
    BY <1>6, ShareInv
  <1>7. ASSUME NEW t \in shares, ShareWrap(t) \/ ShareAdmit(t) \/ ShareInsert(t) \/ ShareRollback(t)
        PROVE  IInv'
    BY <1>7, ShareInv
  <1>8. ASSUME NEW j \in jobs, RewrapTick(j)
        PROVE  IInv'
    BY <1>8, WorkerInv
  <1>9. CASE UNCHANGED vars
    BY <1>9 DEF vars, IInv, TypeOK, LabelsAreTrue, NoLabelFromTheFuture,
                RemovedLostTheMaster, OwnerIsMember, IsActive, InFlightVersions
  <1>10. QED
    BY <1>1, <1>2, <1>3, <1>4, <1>5, <1>6, <1>7, <1>8, <1>9 DEF Next

\* The inductive invariant holds in every reachable state.
THEOREM InvHolds == Spec => []IInv
  BY InitInv, NextInv, PTL DEF Spec

\* The state has its type in every reachable state.
THEOREM TypeCorrect == Spec => []TypeOK
  <1>1. IInv => TypeOK
    BY DEF IInv
  <1>2. QED
    BY InvHolds, <1>1, PTL

\* Version labels never lie, whatever requests overlap with rotations.
THEOREM LabelsCorrect == Spec => []LabelsAreTrue
  <1>1. IInv => LabelsAreTrue
    BY DEF IInv
  <1>2. QED
    BY InvHolds, <1>1, PTL

\* A label never runs ahead of the group.
THEOREM LabelsBounded == Spec => []NoLabelFromTheFuture
  <1>1. IInv => NoLabelFromTheFuture
    BY DEF IInv
  <1>2. QED
    BY InvHolds, <1>1, PTL

\* Removal takes the current master away for good.
THEOREM RemovalWorks == Spec => []RemovedLostTheMaster
  <1>1. IInv => RemovedLostTheMaster
    BY DEF IInv
  <1>2. QED
    BY InvHolds, <1>1, PTL

\* The group never loses its owner's membership.
THEOREM OwnerStays == Spec => []OwnerIsMember
  <1>1. IInv => OwnerIsMember
    BY DEF IInv
  <1>2. QED
    BY InvHolds, <1>1, PTL

-----------------------------------------------------------------------------
(* Action properties and the refinement *)

\* No step changes the row of a removed member.
LEMMA RemovedRowsStep ==
  ASSUME IInv, [Next]_vars, NEW u \in Users, member[u].status = "removed"
  PROVE  member'[u] = member[u]
  <1>1. ASSUME NEW by \in Users, NEW w \in Users, RemoveMember(by, w)
        PROVE  member'[u] = member[u]
    BY <1>1, RotationOfMembers DEF IsActive
  <1>2. ASSUME NEW by \in Users, NEW w \in Users, TransferGroupOwnership(by, w)
        PROVE  member'[u] = member[u]
    BY <1>2 DEF TransferGroupOwnership, IsActive
  <1>3. ASSUME NEW t \in adds, AddInsert(t)
        PROVE  member'[u] = member[u]
    BY <1>3 DEF IInv, TypeOK, AddInsert
  <1>4. CASE UNCHANGED member
    BY <1>4
  <1>5. QED
    BY <1>1, <1>2, <1>3, <1>4
    DEF Next, vars, AddRead, ArchiveGroup, AddWrap, AddAdmit, AddRollback, ShareRead, RevokeShare,
        ShareWrap, ShareAdmit, ShareInsert, ShareRollback, RewrapTick

\* A removed member's row is never written again.
THEOREM RemovedRowsStayFrozen == Spec => RemovedRowsAreFrozen
  <1>1. IInv /\ [Next]_vars
          => [\A u \in Users : member[u].status = "removed" => member'[u] = member[u]]_vars
    BY RemovedRowsStep
  <1>2. QED
    BY InvHolds, <1>1, PTL DEF Spec, RemovedRowsAreFrozen

\* A rotation that commits re-wraps every member that stays, and every active
\* grant unless it leaves them to a job of its own.
LEMMA RotationStep ==
  ASSUME IInv, [Next]_vars, masterVersion' # masterVersion
  PROVE  /\ \A u \in Users : IsActive(u)' => member'[u].ver = masterVersion'
         /\ \/ \A o \in ActiveGrants' : grant'[o].ver = masterVersion'
            \/ \E j \in jobs' : /\ j.status = "pending"
                               /\ j.old = masterVersion
                               /\ j.new = masterVersion'
  <1>1. PICK by \in Users, w \in Users : RemoveMember(by, w)
    BY DEF Next, vars, AddRead, AddInsert, ArchiveGroup, AddWrap, AddAdmit, AddRollback, ShareRead,
           RevokeShare, ShareWrap, ShareAdmit, ShareInsert, ShareRollback, RewrapTick,
           TransferGroupOwnership
  <1>2. ASSUME NEW u \in Users, IsActive(u)'
        PROVE  member'[u].ver = masterVersion'
    BY <1>1, <1>2, RotationOfMembers DEF IsActive
  <1>3. CASE RewrapGrantsNow(by)
    <2>1. /\ grant' = RewrappedGrants(masterVersion + 1)
          /\ masterVersion' = masterVersion + 1
          /\ grant \in [Objects -> GrantRow]
      BY <1>1, <1>3 DEF RewrapGrantsNow, RemoveMember, IInv, TypeOK
    <2>2. ASSUME NEW o \in ActiveGrants'
          PROVE  grant'[o].ver = masterVersion'
      <3>1. o \in Objects /\ grant'[o].status = "active"
        BY DEF ActiveGrants
      <3>2. o \in ActiveGrants
        BY <1>1, <3>1, RotationOfGrants DEF ActiveGrants
      <3>3. QED
        BY <2>1, <3>1, <3>2 DEF RewrappedGrants, GrantRow
    <2>3. QED
      BY <1>2, <2>2
  <1>4. CASE RewrapGrantsLater
    <2> DEFINE j == [old |-> masterVersion, new |-> masterVersion + 1, status |-> "pending"]
    <2>1. j \in jobs' /\ masterVersion' = masterVersion + 1
      BY <1>1, <1>4 DEF RewrapGrantsLater, RemoveMember
    <2>2. j.status = "pending" /\ j.old = masterVersion /\ j.new = masterVersion'
      BY <2>1
    <2>3. QED
      BY <1>2, <2>1, <2>2
  <1>5. QED
    BY <1>1, <1>3, <1>4 DEF RemoveMember

\* Rotations are complete in every behaviour.
THEOREM RotationsComplete == Spec => RotationIsComplete
  <1>1. IInv /\ [Next]_vars =>
          [masterVersion' # masterVersion =>
             /\ \A u \in Users : IsActive(u)' => member'[u].ver = masterVersion'
             /\ \/ \A o \in ActiveGrants' : grant'[o].ver = masterVersion'
                \/ \E j \in jobs' : /\ j.status = "pending"
                                   /\ j.old = masterVersion
                                   /\ j.new = masterVersion']_vars
    BY RotationStep
  <1>2. QED
    BY InvHolds, <1>1, PTL DEF Spec, RotationIsComplete

\* A new group is a new epoch one.
LEMMA EpochInit == Init => Epochs!Init
  <1> SUFFICES ASSUME Init PROVE Epochs!Init
    OBVIOUS
  <1>1. PICK u \in Users :
          /\ owner = u
          /\ masterVersion = 1
          /\ member = [m \in Users |->
                         IF m = u THEN [status |-> "active", role |-> "admin",
                                        ver |-> 1, key |-> 1]
                                  ELSE NoMember]
    BY DEF Init
  <1>2. {m \in Users : IsActive(m)} = {u}
    BY <1>1 DEF IsActive, NoMember
  <1>3. {m \in Users : member[m].status = "removed"} = {}
    BY <1>1 DEF NoMember
  <1>4. [m \in Users |-> member[m].key] = [m \in Users |-> IF m = u THEN 1 ELSE 0]
    BY <1>1 DEF NoMember
  <1>5. QED
    BY <1>1, <1>2, <1>3, <1>4 DEF Epochs!Init

\* An inserted member row admits its user to the epoch it was wrapped for.
LEMMA AdmitStep ==
  ASSUME IInv, NEW t \in adds, AddInsert(t)
  PROVE  Epochs!Admit(t.user)
  <1>1. /\ t.user \in Users
        /\ t.key \in 1..masterVersion
        /\ member \in [Users -> MemberRow]
        /\ member[t.user].status = "none"
        /\ member' = [member EXCEPT ![t.user] =
                        [status |-> "active", role |-> t.role, ver |-> t.ver, key |-> t.key]]
        /\ UNCHANGED <<owner, masterVersion>>
    BY DEF IInv, TypeOK, AddTx, LabelsAreTrue, InFlightVersions, AddInsert
  <1>2. t.user \notin {m \in Users : IsActive(m)} \cup {m \in Users : member[m].status = "removed"}
    BY <1>1 DEF IsActive
  <1>3. {m \in Users : IsActive(m)}' = {m \in Users : IsActive(m)} \cup {t.user}
    BY <1>1 DEF IsActive
  <1>4. {m \in Users : member[m].status = "removed"}' = {m \in Users : member[m].status = "removed"}
    BY <1>1
  <1>5. [m \in Users |-> member[m].key]'
          = [[m \in Users |-> member[m].key] EXCEPT ![t.user] = t.key]
    BY <1>1
  <1>6. QED
    BY <1>1, <1>2, <1>3, <1>4, <1>5 DEF Epochs!Admit

\* A rotation expels the removed user and re-keys the others.
LEMMA ExpelStep ==
  ASSUME IInv, NEW by \in Users, NEW u \in Users, RemoveMember(by, u)
  PROVE  Epochs!Expel(u)
  <1> DEFINE In   == {m \in Users : IsActive(m)}
             Out  == {m \in Users : member[m].status = "removed"}
             Keys == [m \in Users |-> member[m].key]
  <1>1. u # owner /\ masterVersion' = masterVersion + 1 /\ UNCHANGED owner
    BY DEF RemoveMember
  <1>2. In' = In \ {u}
    BY RotationOfMembers DEF IsActive
  <1>3. Out' = Out \cup ({u} \cap In)
    BY RotationOfMembers DEF IsActive
  <1>4. Keys' = [m \in Users |-> IF m \in In' THEN masterVersion + 1 ELSE Keys[m]]
    <2>1. ASSUME NEW m \in Users
          PROVE  member'[m].key = IF m \in In' THEN masterVersion + 1 ELSE member[m].key
      BY <1>1, <1>2, RotationOfMembers DEF IsActive
    <2>2. QED
      BY <2>1
  <1>5. QED
    BY <1>1, <1>2, <1>3, <1>4 DEF Epochs!Expel

\* A transfer hands the group to an insider and touches no row.
LEMMA HandOverStep ==
  ASSUME IInv, NEW by \in Users, NEW u \in Users, TransferGroupOwnership(by, u)
  PROVE  Epochs!HandOver(u)
  <1>1. /\ member \in [Users -> MemberRow]
        /\ u # by
        /\ IsActive(u)
        /\ owner' = u
        /\ masterVersion' = masterVersion
    BY DEF IInv, TypeOK, TransferGroupOwnership
  <1>2. member' = member
    BY <1>1 DEF TransferGroupOwnership, MayModifyMembers
  <1>3. QED
    BY <1>1, <1>2 DEF Epochs!HandOver, IsActive

\* Every step of the group is a step of the epochs or none at all.
LEMMA EpochStep == IInv /\ [Next]_vars => [Epochs!Next]_(Epochs!vars)
  <1> SUFFICES ASSUME IInv, [Next]_vars
               PROVE  [Epochs!Next]_(Epochs!vars)
    OBVIOUS
  <1>1. ASSUME NEW t \in adds, AddInsert(t)
        PROVE  Epochs!Next
    <2>1. t.user \in Users
      BY DEF IInv, TypeOK, AddTx
    <2>2. QED
      BY <1>1, <2>1, AdmitStep DEF Epochs!Next
  <1>2. ASSUME NEW by \in Users, NEW u \in Users, RemoveMember(by, u)
        PROVE  Epochs!Next
    BY <1>2, ExpelStep DEF Epochs!Next
  <1>3. ASSUME NEW by \in Users, NEW u \in Users, TransferGroupOwnership(by, u)
        PROVE  Epochs!Next
    BY <1>3, HandOverStep DEF Epochs!Next
  <1>4. CASE UNCHANGED <<owner, masterVersion, member>>
    BY <1>4 DEF Epochs!vars, IsActive
  <1>5. QED
    BY <1>1, <1>2, <1>3, <1>4
    DEF Next, vars, AddRead, ArchiveGroup, AddWrap, AddAdmit, AddRollback, ShareRead, RevokeShare,
        ShareWrap, ShareAdmit, ShareInsert, ShareRollback, RewrapTick

\* The group's rows implement the abstract epochs.
THEOREM GroupImplementsEpochs == Spec => ImplementsEpochs
  BY InvHolds, EpochInit, EpochStep, PTL DEF Spec, ImplementsEpochs, Epochs!Spec
=============================================================================
