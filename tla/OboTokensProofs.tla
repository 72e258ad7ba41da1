--------------------------- MODULE OboTokensProofs ---------------------------
(***************************************************************************)
(* The registry and the tokens that name its users, for every number of    *)
(* users, calls and tokens.  RegistryInv is inductive for the calls on the *)
(* registry, SpentInv for the ids of tokens: an id that was let through is *)
(* in the table, or the sweep has removed it, and then every request that  *)
(* was verified before the token expired is late.                          *)
(***************************************************************************)
EXTENDS OboTokens, TLAPS

AbsentHaveNoId == \A e \in Emails : ~Exists(e) => user[e].ext = NoId

OlderAreThere == \A e \in Older : Exists(e)

FirstAreThere == \A e \in first : Exists(e) /\ e \notin Older

\* A login that saw an empty table has met whoever was made admin since.
BootstrapsMet ==
  \A l \in Logins : login[l].at = "bootstrap" =>
    Older = {} /\ \A e \in first : e = login[l].email \/ {e, login[l].email} \in met

PushesRead ==
  \A s \in Syncs : sync[s].at = "patching" =>
    Exists(sync[s].email) /\ sync[s].saw.status # "erased"

RegistryInv ==
  /\ UsersTypeOK
  /\ AbsentHaveNoId
  /\ OlderAreThere
  /\ FirstAreThere
  /\ BootstrapsMet
  /\ PushesRead
  /\ FirstAdminsOverlapped

\* The records that stand for no user, no login and no push have their types.
LEMMA Blanks == NoUser \in User /\ NoLogin \in Login /\ NoSync \in Sync
  <1>1. NoUser \in User
    BY DEF NoUser, User
  <1>2. (CHOOSE e \in Emails : TRUE) \in Emails /\ (CHOOSE i \in Ids : TRUE) \in Ids
    BY UserAssumption
  <1>3. NoLogin \in Login
    BY <1>2 DEF NoLogin, Login
  <1>4. NoSync \in Sync
    BY <1>1, <1>2 DEF NoSync, Sync, Status
  <1>5. QED
    BY <1>1, <1>3, <1>4

\* What the registry begins with satisfies the invariant.
LEMMA RegistryInit == UsersInit => RegistryInv
  <1> SUFFICES ASSUME UsersInit PROVE RegistryInv
    OBVIOUS
  <1>1. /\ \A e \in Emails : user[e] = IF e \in Older THEN [NoUser EXCEPT !.status = "active"] ELSE NoUser
        /\ [NoUser EXCEPT !.status = "active"] \in User
        /\ [NoUser EXCEPT !.status = "active"].status = "active"
        /\ NoUser.status = "none" /\ NoUser.ext = NoId
    BY Blanks DEF UsersInit, User, Status, NoUser
  <1>2. UsersTypeOK
    BY <1>1, Blanks, UserAssumption DEF UsersTypeOK, UsersInit
  <1>3. AbsentHaveNoId /\ OlderAreThere
    BY <1>1, UserAssumption DEF AbsentHaveNoId, OlderAreThere, Exists
  <1>4. FirstAreThere /\ BootstrapsMet /\ FirstAdminsOverlapped
    BY DEF UsersInit, FirstAreThere, BootstrapsMet, FirstAdminsOverlapped, NoLogin
  <1>5. PushesRead
    BY DEF UsersInit, PushesRead, NoSync
  <1>6. QED
    BY <1>2, <1>3, <1>4, <1>5 DEF RegistryInv

\* A step that only moves one login, to a stage other than "bootstrap".
LEMMA LoginMoves ==
  ASSUME RegistryInv, NEW l \in Logins, NEW new \in Login, new.at # "bootstrap",
         login' = [login EXCEPT ![l] = new], calls' \in 0 .. MaxCalls,
         invite' \in [Emails -> {"none", "open", "used", "expired"}],
         UNCHANGED <<user, sync, first, met>>
  PROVE  RegistryInv'
  BY DEF RegistryInv, UsersTypeOK, AbsentHaveNoId, OlderAreThere, FirstAreThere, BootstrapsMet,
         PushesRead, FirstAdminsOverlapped, Exists

\* A step that only moves one push.
LEMMA PushMoves ==
  ASSUME RegistryInv, NEW s \in Syncs, NEW new \in Sync,
         new.at = "patching" => Exists(new.email) /\ new.saw.status # "erased",
         sync' = [sync EXCEPT ![s] = new], calls' \in 0 .. MaxCalls,
         UNCHANGED <<user, invite, login, first, met>>
  PROVE  RegistryInv'
  BY DEF RegistryInv, UsersTypeOK, AbsentHaveNoId, OlderAreThere, FirstAreThere, BootstrapsMet,
         PushesRead, FirstAdminsOverlapped, Exists

\* A step that changes rows, none of them from there to not there, and ends a
\* login or a push.
LEMMA RowsChange ==
  ASSUME RegistryInv, user' \in [Emails -> User], AbsentHaveNoId',
         \A e \in Emails : Exists(e) => Exists(e)',
         invite' \in [Emails -> {"none", "open", "used", "expired"}],
         login' \in [Logins -> Login], sync' \in [Syncs -> Sync],
         \A l \in Logins : login'[l] = login[l] \/ login'[l].at = "idle",
         \A s \in Syncs : sync'[s] = sync[s] \/ sync'[s].at = "idle",
         UNCHANGED <<calls, first, met>>
  PROVE  RegistryInv'
  <1>1. UsersTypeOK' /\ OlderAreThere' /\ FirstAreThere' /\ PushesRead'
    BY UserAssumption DEF RegistryInv, UsersTypeOK, OlderAreThere, FirstAreThere, PushesRead, Exists, Sync
  <1>2. BootstrapsMet'
    BY DEF RegistryInv, BootstrapsMet
  <1>3. FirstAdminsOverlapped'
    BY DEF RegistryInv, FirstAdminsOverlapped
  <1>4. QED
    BY <1>1, <1>2, <1>3 DEF RegistryInv

\* The call counter stays within its bound.
LEMMA CallsCount == UsersTypeOK /\ NewCall => calls' \in 0 .. MaxCalls
  BY UserAssumption DEF UsersTypeOK, NewCall

\* provisionFromGoogleLogin up to its decision.
LEMMA LoginSteps ==
  ASSUME RegistryInv, NEW l \in Logins, NEW e \in Emails,
         LoginRead(l, e) \/ FindInvite(l)
  PROVE  RegistryInv'
  <1>1. CASE LoginRead(l, e)
    <2> DEFINE new == IF ~Exists(e) THEN [at |-> "absent", email |-> e]
                      ELSE IF /\ user[e].status = "active"
                              /\ user[e].linked \/ user[e].role = "member" \/ e = Bootstrap
                           THEN [at |-> "found", email |-> e] ELSE NoLogin
    <2>1. new \in Login /\ new.at # "bootstrap"
      BY Blanks DEF Login, NoLogin
    <2>2. /\ login' = [login EXCEPT ![l] = new] /\ calls' \in 0 .. MaxCalls
          /\ invite' \in [Emails -> {"none", "open", "used", "expired"}]
          /\ UNCHANGED <<user, sync, first, met>>
      BY <1>1, CallsCount DEF LoginRead, RegistryInv, UsersTypeOK
    <2> HIDE DEF new
    <2>3. QED
      BY <2>1, <2>2, LoginMoves
  <1>2. CASE FindInvite(l)
    <2> DEFINE new == IF invite[login[l].email] = "open"
                      THEN [login[l] EXCEPT !.at = "invited"] ELSE NoLogin
    <2>1. new \in Login /\ new.at # "bootstrap"
      BY Blanks DEF Login, NoLogin, RegistryInv, UsersTypeOK
    <2>2. /\ login' = [login EXCEPT ![l] = new] /\ calls' \in 0 .. MaxCalls
          /\ invite' \in [Emails -> {"none", "open", "used", "expired"}]
          /\ UNCHANGED <<user, sync, first, met>>
      BY <1>2 DEF FindInvite, RegistryInv, UsersTypeOK
    <2> HIDE DEF new
    <2>3. QED
      BY <2>1, <2>2, LoginMoves
  <1>3. QED
    BY <1>1, <1>2

\* The question whether the table is empty: if it is, nobody is an admin yet.
LEMMA LooksStep ==
  ASSUME RegistryInv, NEW l \in Logins, LoginLooks(l)
  PROVE  RegistryInv'
  <1>1. UsersTypeOK'
    BY DEF LoginLooks, RegistryInv, UsersTypeOK, Login
  <1>2. BootstrapsMet'
    <2> SUFFICES ASSUME NEW m \in Logins, login'[m].at = "bootstrap"
                 PROVE  Older = {} /\ \A e \in first : e = login'[m].email \/ {e, login'[m].email} \in met
      BY DEF BootstrapsMet, LoginLooks
    <2>1. CASE m # l
      BY <2>1 DEF LoginLooks, RegistryInv, BootstrapsMet, UsersTypeOK
    <2>2. CASE m = l
      <3>1. \A e \in Emails : ~Exists(e)
        BY <2>2 DEF LoginLooks, RegistryInv, UsersTypeOK, Login
      <3>2. QED
        BY <3>1, UserAssumption DEF RegistryInv, OlderAreThere, FirstAreThere, UsersTypeOK
    <2>3. QED
      BY <2>1, <2>2
  <1>3. AbsentHaveNoId' /\ OlderAreThere' /\ FirstAreThere' /\ PushesRead' /\ FirstAdminsOverlapped'
    BY DEF LoginLooks, RegistryInv, AbsentHaveNoId, OlderAreThere, FirstAreThere, PushesRead,
           FirstAdminsOverlapped, Exists
  <1>4. QED
    BY <1>1, <1>2, <1>3 DEF RegistryInv


\* A Google account is entered in a row that may have changed since it was read.
LEMMA UpdateStep ==
  ASSUME RegistryInv, NEW l \in Logins, LoginUpdate(l)
  PROVE  RegistryInv'
  <1>1. PICK e \in Emails : e = login[l].email
    BY DEF RegistryInv, UsersTypeOK, Login
  <1>2. user' = [user EXCEPT ![e].linked = TRUE]
    BY <1>1 DEF LoginUpdate
  <1>3. /\ user' \in [Emails -> User]
        /\ \A f \in Emails : user'[f].status = user[f].status /\ user'[f].ext = user[f].ext
    BY <1>2 DEF RegistryInv, UsersTypeOK, User
  <1>4. /\ login' \in [Logins -> Login]
        /\ \A m \in Logins : login'[m] = login[m] \/ login'[m].at = "idle"
    BY Blanks DEF LoginUpdate, RegistryInv, UsersTypeOK, NoLogin
  <1>5. /\ AbsentHaveNoId'
        /\ \A f \in Emails : Exists(f) => Exists(f)'
    BY <1>3 DEF RegistryInv, AbsentHaveNoId, Exists
  <1>6. /\ invite' \in [Emails -> {"none", "open", "used", "expired"}]
        /\ sync' \in [Syncs -> Sync] /\ \A s \in Syncs : sync'[s] = sync[s]
        /\ UNCHANGED <<calls, first, met>>
    BY DEF LoginUpdate, RegistryInv, UsersTypeOK
  <1>7. QED
    BY <1>3, <1>4, <1>5, <1>6, RowsChange

\* The new row of a login.
LEMMA InsertStep ==
  ASSUME RegistryInv, NEW l \in Logins, LoginInsert(l)
  PROVE  RegistryInv'
  <1>1. PICK e \in Emails : e = login[l].email
    BY DEF RegistryInv, UsersTypeOK, Login
  <1>2. /\ login' \in [Logins -> Login]
        /\ \A m \in Logins : login'[m] = login[m] \/ login'[m].at = "idle"
        /\ \A m \in Logins : login'[m].at = "bootstrap" => m # l /\ login'[m] = login[m]
    BY Blanks DEF LoginInsert, RegistryInv, UsersTypeOK, NoLogin
  <1>3. /\ sync' \in [Syncs -> Sync] /\ \A s \in Syncs : sync'[s] = sync[s]
        /\ calls' = calls /\ calls' \in 0 .. MaxCalls
    BY DEF LoginInsert, RegistryInv, UsersTypeOK
  <1>4. CASE Exists(e)
    <2>1. UNCHANGED <<user, invite, first, met>>
      BY <1>1, <1>4 DEF LoginInsert
    <2>2. AbsentHaveNoId' /\ \A f \in Emails : Exists(f) => Exists(f)'
      BY <2>1 DEF RegistryInv, AbsentHaveNoId, Exists
    <2>3. QED
      BY <1>2, <1>3, <2>1, <2>2, RowsChange DEF RegistryInv, UsersTypeOK
  <1>5. CASE ~Exists(e)
    <2> DEFINE fresh == [NoUser EXCEPT !.status = "active", !.linked = TRUE,
                           !.role = IF login[l].at = "bootstrap" THEN "admin" ELSE "member"]
    <2>1. /\ user' = [user EXCEPT ![e] = fresh]
          /\ invite' = [invite EXCEPT ![e] = IF login[l].at = "invited" THEN "used" ELSE @]
          /\ first' = IF login[l].at = "bootstrap" THEN first \cup {e} ELSE first
          /\ met' = met \cup {{e, login[k].email} : k \in {m \in Logins \ {l} : login[m].at = "bootstrap"}}
      BY <1>1, <1>5 DEF LoginInsert
    <2>2. fresh \in User /\ fresh.status = "active"
      BY Blanks DEF User, Status
    <2>3. /\ user' \in [Emails -> User]
          /\ \A f \in Emails \ {e} : user'[f] = user[f]
          /\ Exists(e)'
      <3> HIDE DEF fresh
      <3>1. QED
        BY <2>1, <2>2 DEF RegistryInv, UsersTypeOK, Exists
    <2>4. UsersTypeOK'
      BY <1>2, <1>3, <2>1, <2>3 DEF RegistryInv, UsersTypeOK
    <2>5. AbsentHaveNoId' /\ OlderAreThere' /\ PushesRead'
      BY <1>3, <2>3, UserAssumption DEF RegistryInv, AbsentHaveNoId, OlderAreThere, PushesRead, Exists,
         UsersTypeOK, Sync
    <2>6. first' \subseteq first \cup {e} /\ (e \in first' => login[l].at = "bootstrap")
      BY <1>5, <2>1 DEF RegistryInv, FirstAreThere
    <2>7. e \notin Older
      BY <1>5 DEF RegistryInv, OlderAreThere
    <2>8. FirstAreThere'
      BY <2>3, <2>6, <2>7 DEF RegistryInv, FirstAreThere, UsersTypeOK, Exists
    <2>9. BootstrapsMet'
      <3> SUFFICES ASSUME NEW m \in Logins, login'[m].at = "bootstrap"
                   PROVE  Older = {} /\ \A f \in first' : f = login'[m].email \/ {f, login'[m].email} \in met'
        BY DEF BootstrapsMet, LoginInsert
      <3>1. m # l /\ login'[m] = login[m] /\ login[m].at = "bootstrap"
        BY <1>2
      <3>2. {e, login[m].email} \in met'
        BY <2>1, <3>1
      <3>3. QED
        BY <2>1, <2>6, <3>1, <3>2 DEF RegistryInv, BootstrapsMet
    <2>10. FirstAdminsOverlapped'
      <3>1. ASSUME NEW f \in first', NEW g \in first' PROVE f = g \/ {f, g} \in met'
        <4>1. CASE f \in first /\ g \in first
          BY <2>1, <4>1 DEF RegistryInv, FirstAdminsOverlapped
        <4>2. CASE f = e /\ g \in first
          <5>1. {g, e} \in met \/ g = e
            BY <1>1, <2>6, <4>2 DEF RegistryInv, BootstrapsMet
          <5>2. {g, e} = {f, g}
            BY <4>2
          <5>3. QED
            BY <2>1, <4>2, <5>1, <5>2
        <4>3. CASE g = e /\ f \in first
          <5>1. {f, e} \in met \/ f = e
            BY <1>1, <2>6, <4>3 DEF RegistryInv, BootstrapsMet
          <5>2. QED
            BY <2>1, <4>3, <5>1
        <4>4. CASE f = e /\ g = e
          BY <4>4
        <4>5. QED
          BY <2>6, <4>1, <4>2, <4>3, <4>4
      <3>2. first' \cap Older = {} /\ (Older # {} => first' = {})
        BY <2>1, <2>6, <2>7 DEF RegistryInv, FirstAdminsOverlapped, BootstrapsMet
      <3>3. QED
        BY <3>1, <3>2 DEF FirstAdminsOverlapped
    <2>11. QED
      BY <2>4, <2>5, <2>8, <2>9, <2>10 DEF RegistryInv
  <1>6. QED
    BY <1>4, <1>5

\* syncFromApproval2: the read and its refusals.
LEMMA PushReads ==
  ASSUME RegistryInv, NEW s \in Syncs, NEW e \in Emails, NEW i \in Ids, NEW status \in Status,
         SyncRead(s, e, i, status)
  PROVE  RegistryInv'
  <1> DEFINE new == IF Exists(e) /\ Refused(user[e], i, status) THEN NoSync
                    ELSE [at |-> IF Exists(e) THEN "patching" ELSE "creating",
                          email |-> e, id |-> i, status |-> status, saw |-> user[e]]
  <1>1. new \in Sync
    BY Blanks DEF Sync, RegistryInv, UsersTypeOK
  <1>2. new.at = "patching" => Exists(new.email) /\ new.saw.status # "erased"
    BY DEF Refused, NoSync
  <1>3. /\ sync' = [sync EXCEPT ![s] = new] /\ calls' \in 0 .. MaxCalls
        /\ UNCHANGED <<user, invite, login, first, met>>
    BY CallsCount DEF SyncRead, RegistryInv
  <1> HIDE DEF new
  <1>4. QED
    BY <1>1, <1>2, <1>3, PushMoves

\* syncFromApproval2: the row it inserts or patches.
LEMMA PushWrites ==
  ASSUME RegistryInv, NEW s \in Syncs, SyncCreate(s) \/ SyncUpdate(s)
  PROVE  RegistryInv'
  <1>1. PICK e \in Emails, i \in Ids, status \in Status :
          e = sync[s].email /\ i = sync[s].id /\ status = sync[s].status
    BY DEF RegistryInv, UsersTypeOK, Sync
  <1>2. /\ sync' \in [Syncs -> Sync] /\ \A r \in Syncs : sync'[r] = sync[r] \/ sync'[r].at = "idle"
        /\ login' \in [Logins -> Login] /\ \A l \in Logins : login'[l] = login[l]
        /\ invite' \in [Emails -> {"none", "open", "used", "expired"}]
        /\ UNCHANGED <<calls, first, met>>
    <2>1. sync' = [sync EXCEPT ![s] = NoSync] /\ UNCHANGED <<invite, login, calls, first, met>>
      BY Zenon DEF SyncCreate, SyncUpdate
    <2>2. NoSync.at = "idle"
      BY DEF NoSync
    <2>3. QED
      BY <2>1, <2>2, Blanks DEF RegistryInv, UsersTypeOK
  <1>3. CASE user' = user
    <2>1. AbsentHaveNoId' /\ \A f \in Emails : Exists(f) => Exists(f)'
      BY <1>3 DEF RegistryInv, AbsentHaveNoId, Exists
    <2>2. QED
      BY <1>2, <1>3, <2>1, RowsChange DEF RegistryInv, UsersTypeOK
  <1>4. ASSUME NEW p \in User, p.status # "none", user' = [user EXCEPT ![e] = p] PROVE RegistryInv'
    <2>1. user' \in [Emails -> User] /\ Exists(e)' /\ \A f \in Emails \ {e} : user'[f] = user[f]
      BY <1>4 DEF RegistryInv, UsersTypeOK, Exists
    <2>2. AbsentHaveNoId' /\ \A f \in Emails : Exists(f) => Exists(f)'
      BY <2>1 DEF RegistryInv, AbsentHaveNoId, Exists
    <2>3. QED
      BY <1>2, <2>1, <2>2, RowsChange
  <1>5. CASE SyncCreate(s)
    <2> DEFINE p == [NoUser EXCEPT !.status = status, !.ext = i]
    <2>1. p \in User /\ p.status = status /\ status # "none"
      BY Blanks DEF User, Status
    <2>2. user' = user \/ user' = [user EXCEPT ![e] = p]
      BY <1>1, <1>5 DEF SyncCreate
    <2> HIDE DEF p
    <2>3. QED
      BY <1>3, <1>4, <2>1, <2>2
  <1>6. CASE SyncUpdate(s)
    <2> DEFINE p == [user[e] EXCEPT !.status = IF sync[s].saw.status # status THEN status ELSE @,
                                    !.ext = IF sync[s].saw.ext = NoId THEN i ELSE @]
    <2>1. p \in User /\ p.status \in {status, user[e].status}
      BY DEF User, RegistryInv, UsersTypeOK
    <2>2. user' = user \/ user' = [user EXCEPT ![e] = p]
      BY <1>1, <1>6 DEF SyncUpdate
    <2>3. Exists(e) /\ status # "none"
      BY <1>1, <1>6 DEF SyncUpdate, RegistryInv, PushesRead, Status
    <2> HIDE DEF p
    <2>4. QED
      BY <1>3, <1>4, <2>1, <2>2, <2>3 DEF Exists
  <1>7. QED
    BY <1>5, <1>6

\* Every step on the registry keeps its invariant.
LEMMA RegistryStep == RegistryInv /\ (UsersNext \/ UNCHANGED userVars) => RegistryInv'
  <1> SUFFICES ASSUME RegistryInv, UsersNext \/ UNCHANGED userVars PROVE RegistryInv'
    OBVIOUS
  <1>1. ASSUME NEW l \in Logins, NEW e \in Emails, LoginRead(l, e) PROVE RegistryInv'
    BY <1>1, LoginSteps
  <1>2. ASSUME NEW l \in Logins, FindInvite(l) PROVE RegistryInv'
    <2>1. PICK e \in Emails : TRUE
      BY UserAssumption
    <2>2. QED
      BY <1>2, <2>1, LoginSteps
  <1>3. ASSUME NEW l \in Logins, LoginUpdate(l) \/ LoginLooks(l) \/ LoginInsert(l) PROVE RegistryInv'
    BY <1>3, UpdateStep, LooksStep, InsertStep
  <1>4. ASSUME NEW s \in Syncs, NEW e \in Emails, NEW i \in Ids, NEW status \in Status,
               SyncRead(s, e, i, status)
        PROVE  RegistryInv'
    BY <1>4, PushReads
  <1>5. ASSUME NEW s \in Syncs, SyncCreate(s) \/ SyncUpdate(s) PROVE RegistryInv'
    BY <1>5, PushWrites
  <1>6. ASSUME NEW e \in Emails, InviteExpires(e) PROVE RegistryInv'
    BY <1>6 DEF InviteExpires, RegistryInv, UsersTypeOK, AbsentHaveNoId, OlderAreThere,
       FirstAreThere, BootstrapsMet, PushesRead, FirstAdminsOverlapped, Exists
  <1>7. ASSUME NEW l \in Logins, login' = [login EXCEPT ![l] = NoLogin], UNCHANGED sync,
               UNCHANGED <<user, invite, calls, first, met>>
        PROVE  RegistryInv'
    <2>1. NoLogin \in Login /\ NoLogin.at # "bootstrap"
      BY Blanks DEF NoLogin
    <2>2. QED
      BY <1>7, <2>1, LoginMoves DEF RegistryInv, UsersTypeOK
  <1>8. ASSUME NEW s \in Syncs, sync' = [sync EXCEPT ![s] = NoSync], UNCHANGED login,
               UNCHANGED <<user, invite, calls, first, met>>
        PROVE  RegistryInv'
    <2>1. NoSync \in Sync /\ NoSync.at # "patching"
      BY Blanks DEF NoSync
    <2>2. QED
      BY <1>8, <2>1, PushMoves DEF RegistryInv, UsersTypeOK
  <1>9. CASE UserCallFails
    BY <1>7, <1>8, <1>9 DEF UserCallFails
  <1>10. CASE UNCHANGED userVars
    BY <1>10 DEF userVars, RegistryInv, UsersTypeOK, AbsentHaveNoId, OlderAreThere,
       FirstAreThere, BootstrapsMet, PushesRead, FirstAdminsOverlapped, Exists
  <1>11. QED
    BY <1>1, <1>2, <1>3, <1>4, <1>5, <1>6, <1>9, <1>10 DEF UsersNext

-----------------------------------------------------------------------------
(* The ids of tokens *)

OboTypeOK ==
  /\ now \in 0 .. MaxTime
  /\ seen \subseteq Signed \ Legacy
  /\ req \in [Requests -> Request]
  /\ accepted \in [Signed -> 0 .. 2]
  /\ slow \subseteq Signed

SpentAreRemembered ==
  /\ \A t \in Tokens \ Legacy : accepted[t] > 0 => t \in seen \/ now > Expiry[t] + Grace
  /\ \A t \in Receipts : accepted[t] > 0 => t \in seen

VerifiedInTime ==
  \A r \in Requests : req[r].at # "idle" /\ req[r].token \notin Legacy =>
    req[r].since < Expiry[req[r].token]

SpentInv == OboTypeOK /\ SpentAreRemembered /\ VerifiedInTime /\ TokensAreSpentOnce

\* The record that stands for no request has its type.
LEMMA BlankRequest == NoRequest \in Request /\ NoRequest.at = "idle"
  <1>1. NoToken \in Signed
    BY TokenAssumption DEF NoToken
  <1>2. QED
    BY <1>1, TokenAssumption DEF NoRequest, Request

\* In the beginning no token has been seen.
LEMMA SpentInit == Init => SpentInv
  BY BlankRequest, TokenAssumption
  DEF Init, SpentInv, OboTypeOK, SpentAreRemembered, VerifiedInTime, TokensAreSpentOnce, Signed

\* A step that only moves one request.
LEMMA RequestMoves ==
  ASSUME SpentInv, NEW r \in Requests, NEW new \in Request, req' = [req EXCEPT ![r] = new],
         new.at # "idle" /\ new.token \notin Legacy => new.since < Expiry[new.token],
         UNCHANGED <<now, seen, accepted, slow>>
  PROVE  SpentInv'
  BY DEF SpentInv, OboTypeOK, SpentAreRemembered, VerifiedInTime, TokensAreSpentOnce

\* The end of a request, whatever its outcome.
LEMMA EndStep ==
  ASSUME SpentInv, NEW r \in Requests, End(r), UNCHANGED <<now, seen, accepted, slow>>
  PROVE  SpentInv'
  BY BlankRequest, RequestMoves DEF End

\* The token's time is checked when the request begins.
LEMMA VerifyStep ==
  ASSUME SpentInv, NEW r \in Requests, NEW t \in Signed, NEW write \in BOOLEAN,
         VerifyToken(r, t, write)
  PROVE  SpentInv'
  <1> DEFINE new == [at |-> IF t \in Receipts THEN "resolved" ELSE "verified",
                     token |-> t, write |-> write, since |-> now]
  <1>1. new \in Request
    BY DEF Request, SpentInv, OboTypeOK
  <1>2. new.token \notin Legacy => new.since < Expiry[new.token]
    BY TokenAssumption DEF VerifyToken, Expired, SpentInv, OboTypeOK
  <1>3. req' = [req EXCEPT ![r] = new] /\ UNCHANGED <<now, seen, accepted, slow>>
    BY DEF VerifyToken
  <1> HIDE DEF new
  <1>4. QED
    BY <1>1, <1>2, <1>3, RequestMoves

\* The user is looked up by the token's email.
LEMMA ResolveStep ==
  ASSUME SpentInv, NEW r \in Requests, ResolveUser(r)
  PROVE  SpentInv'
  <1>1. UNCHANGED <<now, seen, accepted, slow>>
    BY DEF ResolveUser
  <1>2. CASE End(r)
    BY <1>1, <1>2, EndStep
  <1>3. CASE req' = [req EXCEPT ![r].at = "resolved"]
    <2> DEFINE new == [req[r] EXCEPT !.at = "resolved"]
    <2>1. new \in Request /\ new.token = req[r].token /\ new.since = req[r].since
      BY DEF SpentInv, OboTypeOK, Request
    <2>2. req' = [req EXCEPT ![r] = new] /\ req[r].at # "idle"
      BY <1>3 DEF ResolveUser
    <2> HIDE DEF new
    <2>3. QED
      BY <1>1, <2>1, <2>2, RequestMoves DEF SpentInv, VerifiedInTime
  <1>4. QED
    BY <1>2, <1>3 DEF ResolveUser

\* An id that is not in the table either was never let through, or its row was
\* swept, and then this request was verified longer ago than the grace period.
LEMMA SpendStep ==
  ASSUME SpentInv, NEW r \in Requests, SpendId(r)
  PROVE  SpentInv'
  <1>1. PICK t \in Signed : t = req[r].token
    BY DEF SpentInv, OboTypeOK, Request
  <1>2. CASE t \in seen
    BY <1>1, <1>2, EndStep DEF SpendId
  <1>3. CASE t \notin seen
    <2>1. /\ seen' = IF t \in Legacy THEN seen ELSE seen \cup {t}
          /\ slow' = IF now - req[r].since > Grace THEN slow \cup {t} ELSE slow
          /\ now' = now /\ End(r)
      BY <1>1, <1>3 DEF SpendId
    <2>2. /\ accepted' \in [Signed -> 0 .. 2]
          /\ \A u \in Signed \ {t} : accepted'[u] = accepted[u]
          /\ accepted'[t] \in {accepted[t], accepted[t] + 1}
      <3>1. accepted' = accepted \/ accepted' = [accepted EXCEPT ![t] = IF @ < 2 THEN @ + 1 ELSE @]
        BY <1>1, <1>3 DEF SpendId, Accept
      <3>2. QED
        BY <3>1 DEF SpentInv, OboTypeOK
    <2>3. OboTypeOK'
      BY <2>1, <2>2, BlankRequest DEF SpentInv, OboTypeOK, End
    <2>4. SpentAreRemembered'
      BY <2>1, <2>2, TokenAssumption DEF SpentInv, SpentAreRemembered, Signed
    <2>5. VerifiedInTime'
      BY <2>1, BlankRequest DEF SpentInv, OboTypeOK, VerifiedInTime, End
    <2>6. ASSUME t \in Tokens \ Legacy, accepted'[t] > 1 PROVE t \in slow'
      <3>1. CASE accepted[t] > 1
        BY <2>1, <2>6, <3>1 DEF SpentInv, TokensAreSpentOnce
      <3>2. CASE accepted[t] = 1
        <4>1. now > Expiry[t] + Grace
          BY <1>3, <2>6, <3>2 DEF SpentInv, SpentAreRemembered
        <4>2. req[r].since < Expiry[t]
          BY <1>1, <2>6 DEF SpentInv, VerifiedInTime, SpendId
        <4>3. req[r].since \in Nat /\ now \in Nat /\ Expiry[t] \in Nat /\ Grace \in Nat
          BY TokenAssumption DEF SpentInv, OboTypeOK, Request
        <4>4. QED
          BY <2>1, <4>1, <4>2, <4>3
      <3>3. CASE accepted[t] = 0
        BY <2>2, <2>6, <3>3
      <3>4. QED
        BY <3>1, <3>2, <3>3 DEF SpentInv, OboTypeOK
    <2>7. ASSUME t \in Receipts PROVE accepted'[t] <= 1
      BY <1>3, <2>2, <2>7 DEF SpentInv, SpentAreRemembered, OboTypeOK
    <2>8. TokensAreSpentOnce'
      BY <2>1, <2>2, <2>6, <2>7 DEF SpentInv, TokensAreSpentOnce, Signed
    <2>9. QED
      BY <2>3, <2>4, <2>5, <2>8 DEF SpentInv
  <1>4. QED
    BY <1>2, <1>3

\* The sweep and the clock.
LEMMA SweepStep ==
  ASSUME SpentInv, Sweep \/ Tick
  PROVE  SpentInv'
  <1>1. CASE Sweep
    <2>1. SpentAreRemembered'
      BY <1>1, TokenAssumption DEF Sweep, SpentInv, SpentAreRemembered, OboTypeOK, Signed
    <2>2. QED
      BY <1>1, <2>1 DEF Sweep, SpentInv, OboTypeOK, VerifiedInTime, TokensAreSpentOnce
  <1>2. CASE Tick
    BY <1>2, TokenAssumption
    DEF Tick, SpentInv, OboTypeOK, SpentAreRemembered, VerifiedInTime, TokensAreSpentOnce, Signed
  <1>3. QED
    BY <1>1, <1>2

\* Every step keeps both invariants.
LEMMA OboStep == RegistryInv /\ SpentInv /\ [Next]_vars => RegistryInv' /\ SpentInv'
  <1> SUFFICES ASSUME RegistryInv, SpentInv, [Next]_vars PROVE RegistryInv' /\ SpentInv'
    OBVIOUS
  <1>1. ASSUME UNCHANGED oboVars PROVE SpentInv'
    BY <1>1 DEF oboVars, SpentInv, OboTypeOK, SpentAreRemembered, VerifiedInTime, TokensAreSpentOnce
  <1>2. ASSUME UNCHANGED userVars PROVE RegistryInv'
    BY <1>2, RegistryStep
  <1>3. CASE UsersNext /\ UNCHANGED oboVars
    BY <1>1, <1>3, RegistryStep
  <1>4. ASSUME NEW r \in Requests, NEW t \in Signed, NEW write \in BOOLEAN, VerifyToken(r, t, write)
        PROVE  RegistryInv' /\ SpentInv'
    <2>1. calls' \in 0 .. MaxCalls /\ UNCHANGED <<user, invite, login, sync, first, met>>
      BY <1>4, CallsCount DEF VerifyToken, RegistryInv
    <2>2. RegistryInv'
      BY <2>1 DEF RegistryInv, UsersTypeOK, AbsentHaveNoId, OlderAreThere, FirstAreThere,
         BootstrapsMet, PushesRead, FirstAdminsOverlapped, Exists
    <2>3. QED
      BY <1>4, <2>2, VerifyStep
  <1>5. ASSUME NEW r \in Requests, ResolveUser(r) \/ SpendId(r) PROVE RegistryInv' /\ SpentInv'
    BY <1>2, <1>5, ResolveStep, SpendStep DEF ResolveUser, SpendId
  <1>6. ASSUME NEW r \in Requests, RequestFails(r) PROVE RegistryInv' /\ SpentInv'
    BY <1>2, <1>6, EndStep DEF RequestFails
  <1>7. CASE Sweep \/ Tick
    BY <1>2, <1>7, SweepStep DEF Sweep, Tick
  <1>8. CASE UNCHANGED vars
    BY <1>1, <1>2, <1>8 DEF vars
  <1>9. QED
    BY <1>3, <1>4, <1>5, <1>6, <1>7, <1>8 DEF Next

\* Both invariants hold throughout.
LEMMA OboInvariant == Spec => [](RegistryInv /\ SpentInv)
  <1>1. Init => RegistryInv /\ SpentInv
    BY RegistryInit, SpentInit DEF Init
  <1>2. QED
    BY <1>1, OboStep, PTL DEF Spec

\* Registry, invites, calls, requests and the table of ids keep their types for
\* all sets of users, calls and tokens (users/api.ts, on_behalf_of.ts).
THEOREM OboTypes == Spec => []TypeOK
  <1>1. RegistryInv /\ SpentInv => TypeOK
    BY DEF RegistryInv, SpentInv, OboTypeOK, TypeOK
  <1>2. QED
    BY <1>1, OboInvariant, PTL

\* Two first admins come only of logins that overlapped (provisionFromGoogleLogin
\* asks whether the table is empty without a lock).
THEOREM OneFirstAdminButForOverlaps == Spec => []FirstAdminsOverlapped
  <1>1. RegistryInv /\ SpentInv => FirstAdminsOverlapped
    BY DEF RegistryInv
  <1>2. QED
    BY <1>1, OboInvariant, PTL

\* A token with an id is let through once unless a request outlasted the grace
\* period of obo_jti_seen, and a receipt once in any case.
THEOREM IdsAreSpentOnce == Spec => []TokensAreSpentOnce
  <1>1. RegistryInv /\ SpentInv => TokensAreSpentOnce
    BY DEF SpentInv
  <1>2. QED
    BY <1>1, OboInvariant, PTL

\* How a step on the registry may change a row: a status or an external id only
\* through a push, and a push only as far as it knows.
LEMMA RowsChangeByPushes ==
  ASSUME RegistryInv, [Next]_vars, NEW e \in Emails, user[e].status # "none",
         user'[e].status # user[e].status \/ user'[e].ext # user[e].ext
  PROVE  \E s \in Syncs :
           /\ sync[s].email = e /\ sync[s].at = "patching"
           /\ user'[e].ext # user[e].ext => sync[s].saw.ext = NoId
           /\ sync[s].saw.status # "erased"
  <1>1. ASSUME NEW s \in Syncs, SyncUpdate(s) PROVE
           \/ user'[e] = user[e]
           \/ /\ sync[s].email = e /\ sync[s].at = "patching"
              /\ user'[e].ext # user[e].ext => sync[s].saw.ext = NoId
              /\ sync[s].saw.status # "erased"
    <2>1. sync[s].at = "patching" /\ sync[s].saw.status # "erased" /\ sync[s].email \in Emails
      BY <1>1 DEF SyncUpdate, RegistryInv, PushesRead, UsersTypeOK, Sync
    <2>2. CASE sync[s].email # e
      BY <1>1, <2>1, <2>2 DEF SyncUpdate, RegistryInv, UsersTypeOK
    <2>3. CASE sync[s].email = e
      BY <1>1, <2>1, <2>3 DEF SyncUpdate, RegistryInv, UsersTypeOK, User
    <2>4. QED
      BY <2>2, <2>3
  <1>2. ASSUME NEW s \in Syncs, SyncCreate(s) PROVE user'[e] = user[e]
    BY <1>2 DEF SyncCreate, Exists, RegistryInv, UsersTypeOK, Sync
  <1>3. ASSUME NEW l \in Logins, LoginInsert(l) PROVE user'[e] = user[e]
    BY <1>3 DEF LoginInsert, Exists, RegistryInv, UsersTypeOK, Login
  <1>4. ASSUME NEW l \in Logins, LoginUpdate(l)
        PROVE  user'[e].status = user[e].status /\ user'[e].ext = user[e].ext
    BY <1>4 DEF LoginUpdate, RegistryInv, UsersTypeOK, Login, User
  <1>5. ASSUME ~(\E s \in Syncs : SyncCreate(s) \/ SyncUpdate(s)),
               ~(\E l \in Logins : LoginInsert(l) \/ LoginUpdate(l))
        PROVE  user' = user
    BY <1>5 DEF Next, UsersNext, vars, userVars, LoginRead, LoginLooks, FindInvite, SyncRead,
       InviteExpires, UserCallFails, VerifyToken, ResolveUser, SpendId, RequestFails, Sweep, Tick
  <1>6. QED
    BY <1>1, <1>2, <1>3, <1>4, <1>5

\* An external id that is set stays, but for a push that had read it as not set
\* (syncFromApproval2).
THEOREM ExternalIdsStay == Spec => ExternalIdIsKept
  <1> DEFINE Kept == \A e \in Emails : user[e].ext # NoId /\ user'[e].ext # user[e].ext =>
                       \E s \in Syncs : sync[s].email = e /\ sync[s].at = "patching" /\ sync[s].saw.ext = NoId
  <1>1. RegistryInv /\ [Next]_vars => Kept
    BY RowsChangeByPushes DEF RegistryInv, AbsentHaveNoId, Exists
  <1>2. RegistryInv /\ [Next]_vars => [Kept]_user
    BY <1>1
  <1>3. QED
    BY <1>2, OboInvariant, PTL DEF Spec, ExternalIdIsKept

\* An erased row is revived by no push that began after the erasure
\* (syncFromApproval2).
THEOREM ErasedStays == Spec => ErasedByLaterIsFinal
  <1> DEFINE Final == \A e \in Emails : user[e].status = "erased" /\ user'[e].status # "erased" =>
                        \E s \in Syncs : /\ sync[s].email = e /\ sync[s].at = "patching"
                                         /\ sync[s].saw.status # "erased"
  <1>1. RegistryInv /\ [Next]_vars => Final
    BY RowsChangeByPushes
  <1>2. RegistryInv /\ [Next]_vars => [Final]_user
    BY <1>1
  <1>3. QED
    BY <1>2, OboInvariant, PTL DEF Spec, ErasedByLaterIsFinal
=============================================================================
