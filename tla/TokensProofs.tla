---------------------------- MODULE TokensProofs ----------------------------
(***************************************************************************)
(* The token endpoint and its signing keys, for every number of processes, *)
(* requests, keys and tokens.  KeysInv is inductive for the keys: what a   *)
(* transaction that stores a key will not turn off, it has met.  ChainInv  *)
(* is inductive for the tokens: a token under rotation is live and held by *)
(* one request, so that it gets one successor.                             *)
(***************************************************************************)
EXTENDS Tokens, TLAPS

Under(r) == signer[r].at \in {"storing", "stored"}

KidsAreKeys ==
  \A r \in Requests : signer[r].at \notin {"away", "asking", "looking"} => signer[r].kid \in Kids

LoadedArePublished == \A r \in Requests : signer[r].at = "loading" => signer[r].kid \in published

LeftActiveAreMet ==
  \A r \in Requests : Under(r) => \A j \in active : j \in signer[r].old \/ {j, signer[r].kid} \in met

StorersMet ==
  \A r, s \in Requests : Under(r) /\ Under(s) /\ r # s => {signer[r].kid, signer[s].kid} \in met

KeysInv ==
  /\ KeysTypeOK
  /\ KidsAreKeys
  /\ LoadedArePublished
  /\ LeftActiveAreMet
  /\ StorersMet
  /\ SignedKeysArePublished
  /\ ActiveKeysOverlapped

\* The record of a request that does not sign has its type.
LEMMA AwaySigner == Away \in Signer /\ Away.at = "away" /\ Away.kid = NoKid /\ Away.old = {}
  BY DEF Away, Signer, Steps

\* No keys, no caches, no requests.
LEMMA KeysStart == KeysInit => KeysInv
  BY AwaySigner
  DEF KeysInit, KeysInv, KeysTypeOK, KidsAreKeys, LoadedArePublished, LeftActiveAreMet, StorersMet,
      Under, SignedKeysArePublished, ActiveKeysOverlapped, Is

\* A step that moves one request, neither into nor within the transaction that
\* stores a key, and changes caches to published keys at most.
LEMMA SignerMoves ==
  ASSUME KeysInv, NEW r \in Requests, NEW new \in Signer,
         signer' = [signer EXCEPT ![r] = new],
         new.at \notin {"storing", "stored"},
         new.at \notin {"away", "asking", "looking"} => new.kid \in Kids,
         new.at \in {"loading", "signed"} => new.kid \in published,
         cache' \in [Procs -> Kids \cup {NoKid}],
         \A p \in Procs : cache'[p] \in published \cup {NoKid},
         UNCHANGED <<published, active, met>>
  PROVE  KeysInv'
  <1>1. \A s \in Requests : signer'[s] = IF s = r THEN new ELSE signer[s]
    BY DEF KeysInv, KeysTypeOK
  <1>2. KeysTypeOK'
    BY DEF KeysInv, KeysTypeOK
  <1>3. KidsAreKeys' /\ LoadedArePublished' /\ SignedKeysArePublished'
    BY <1>1 DEF KeysInv, KidsAreKeys, LoadedArePublished, SignedKeysArePublished, Is
  <1>4. LeftActiveAreMet' /\ StorersMet'
    BY <1>1 DEF KeysInv, LeftActiveAreMet, StorersMet, Under
  <1>5. ActiveKeysOverlapped'
    BY DEF KeysInv, ActiveKeysOverlapped
  <1>6. QED
    BY <1>2, <1>3, <1>4, <1>5 DEF KeysInv

\* getActiveSigningKey up to the key it uses or makes.
LEMMA AskingSteps ==
  ASSUME KeysInv, NEW r \in Requests,
         UseCached(r) \/ LookUp(r) \/ LoadActive(r) \/ CacheLoaded(r) \/ Bootstrap(r)
  PROVE  KeysInv'
  <1>1. ProcOf[r] \in Procs /\ cache \in [Procs -> Kids \cup {NoKid}] /\ signer[r] \in Signer
        /\ published \subseteq Kids /\ active \subseteq published
        /\ \A p \in Procs : cache[p] \in published \cup {NoKid}
    BY ProcAssumption DEF KeysInv, KeysTypeOK, SignedKeysArePublished
  <1>2. CASE UseCached(r)
    <2> DEFINE new == [Away EXCEPT !.at = "signed", !.kid = cache[ProcOf[r]]]
    <2>1. cache[ProcOf[r]] \in published
      BY <1>1, <1>2 DEF UseCached
    <2>2. new \in Signer /\ new.at = "signed" /\ new.kid = cache[ProcOf[r]]
      BY <1>1, AwaySigner DEF Signer, Steps
    <2>3. signer' = [signer EXCEPT ![r] = new] /\ UNCHANGED <<published, active, cache, met>>
      BY <1>2 DEF UseCached, Set
    <2> HIDE DEF new
    <2>4. QED
      BY <1>1, <2>1, <2>2, <2>3, SignerMoves
  <1>3. CASE LoadActive(r)
    <2>1. PICK k \in active : Set(r, [Away EXCEPT !.at = "loading", !.kid = k])
      BY <1>3 DEF LoadActive
    <2> DEFINE new == [Away EXCEPT !.at = "loading", !.kid = k]
    <2>2. new \in Signer /\ new.at = "loading" /\ new.kid = k
      BY <1>1, AwaySigner DEF Signer, Steps
    <2>3. signer' = [signer EXCEPT ![r] = new] /\ UNCHANGED <<published, active, cache, met>>
      BY <1>3, <2>1 DEF LoadActive, Set
    <2> HIDE DEF new
    <2>4. QED
      BY <1>1, <2>2, <2>3, SignerMoves
  <1>4. CASE CacheLoaded(r)
    <2> DEFINE new == [signer[r] EXCEPT !.at = "signed"]
    <2>1. signer[r].kid \in published
      BY <1>4 DEF CacheLoaded, KeysInv, LoadedArePublished, Is
    <2>2. new \in Signer /\ new.at = "signed" /\ new.kid = signer[r].kid
      BY <1>1 DEF Signer, Steps
    <2>3. /\ signer' = [signer EXCEPT ![r] = new] /\ UNCHANGED <<published, active, met>>
          /\ cache' = [cache EXCEPT ![ProcOf[r]] = signer[r].kid]
      BY <1>4 DEF CacheLoaded, Set
    <2>4. cache' \in [Procs -> Kids \cup {NoKid}] /\ \A p \in Procs : cache'[p] \in published \cup {NoKid}
      BY <1>1, <2>1, <2>3
    <2> HIDE DEF new
    <2>5. QED
      BY <1>1, <2>1, <2>2, <2>3, <2>4, SignerMoves
  <1>5. CASE Bootstrap(r)
    <2>1. PICK k \in Kids : Set(r, [Away EXCEPT !.at = "making", !.kid = k, !.keep = TRUE])
      BY <1>5 DEF Bootstrap, Generate
    <2> DEFINE new == [Away EXCEPT !.at = "making", !.kid = k, !.keep = TRUE]
    <2>2. new \in Signer /\ new.at = "making" /\ new.kid = k
      BY <1>1, AwaySigner DEF Signer, Steps
    <2>3. signer' = [signer EXCEPT ![r] = new] /\ UNCHANGED <<published, active, cache, met>>
      BY <1>5, <2>1 DEF Bootstrap, Set
    <2> HIDE DEF new
    <2>4. QED
      BY <1>1, <2>2, <2>3, SignerMoves
  <1>6. CASE LookUp(r)
    <2> DEFINE new == [Away EXCEPT !.at = "looking"]
    <2>1. new \in Signer /\ new.at = "looking"
      BY AwaySigner DEF Signer, Steps
    <2>2. signer' = [signer EXCEPT ![r] = new] /\ UNCHANGED <<published, active, cache, met>>
      BY <1>6 DEF LookUp, Set
    <2> HIDE DEF new
    <2>3. QED
      BY <1>1, <2>1, <2>2, SignerMoves
  <1>7. QED
    BY <1>2, <1>3, <1>4, <1>5, <1>6

\* rotateSigningKey, a request that begins or ends, and a restart.
LEMMA RotateStep ==
  ASSUME KeysInv, NEW r \in Requests, Rotate(r)
  PROVE  KeysInv'
  <1>1. ProcOf[r] \in Procs /\ cache \in [Procs -> Kids \cup {NoKid}]
        /\ \A p \in Procs : cache[p] \in published \cup {NoKid}
    BY ProcAssumption DEF KeysInv, KeysTypeOK, SignedKeysArePublished
  <1>2. PICK k \in Kids : Set(r, [Away EXCEPT !.at = "making", !.kid = k, !.keep = FALSE])
    BY DEF Rotate, Generate
  <1> DEFINE new == [Away EXCEPT !.at = "making", !.kid = k, !.keep = FALSE]
  <1>3. new \in Signer /\ new.at = "making" /\ new.kid = k
    BY AwaySigner DEF Signer, Steps
  <1>4. /\ signer' = [signer EXCEPT ![r] = new] /\ UNCHANGED <<published, active, met>>
        /\ cache' = [cache EXCEPT ![ProcOf[r]] = NoKid]
    BY <1>2 DEF Rotate, Set
  <1> HIDE DEF new
  <1>5. QED
    BY <1>1, <1>3, <1>4, SignerMoves

\* A request that begins to ask, or is away again.
LEMMA IdleSteps ==
  ASSUME KeysInv, NEW r \in Requests, NEW at \in {"away", "asking"},
         Set(r, [Away EXCEPT !.at = at]) \/ Set(r, Away),
         UNCHANGED <<published, active, cache, met>>
  PROVE  KeysInv'
  <1> DEFINE new == [Away EXCEPT !.at = at]
  <1>1. new \in Signer /\ new.at = at
    BY AwaySigner DEF Signer, Steps
  <1>2. cache \in [Procs -> Kids \cup {NoKid}] /\ \A p \in Procs : cache[p] \in published \cup {NoKid}
    BY DEF KeysInv, KeysTypeOK, SignedKeysArePublished
  <1>3. CASE Set(r, new)
    <2>1. signer' = [signer EXCEPT ![r] = new]
      BY <1>3 DEF Set
    <2> HIDE DEF new
    <2>2. QED
      BY <1>1, <1>2, <2>1, SignerMoves
  <1>4. CASE Set(r, Away)
    BY <1>2, <1>4, AwaySigner, SignerMoves DEF Set
  <1>5. QED
    BY <1>3, <1>4

\* The UPDATE of generateAndStoreKey begins: the transaction meets the others.
LEMMA DeactivateStep ==
  ASSUME KeysInv, NEW r \in Requests, Deactivate(r)
  PROVE  KeysInv'
  <1> DEFINE new == [signer[r] EXCEPT !.at = "storing", !.old = active]
  <1>1. signer[r].at = "making" /\ signer[r].kid \in Kids /\ signer[r] \in Signer /\ active \subseteq Kids
    BY DEF Deactivate, Is, KeysInv, KeysTypeOK, KidsAreKeys
  <1>2. new \in Signer /\ new.at = "storing" /\ new.kid = signer[r].kid /\ new.old = active
    BY <1>1 DEF Signer, Steps
  <1>3. /\ \A s \in Requests : signer'[s] = IF s = r THEN new ELSE signer[s]
        /\ signer' \in [Requests -> Signer]
        /\ UNCHANGED <<published, active, cache>>
    BY <1>2 DEF Deactivate, Set, KeysInv, KeysTypeOK
  <1>4. /\ met' = met \cup {{signer[r].kid, signer[s].kid} :
                              s \in {q \in Requests \ {r} : signer[q].at \in {"storing", "stored"}}}
    BY DEF Deactivate
  <1> HIDE DEF new
  <1>5. met' \subseteq SUBSET Kids
    BY <1>1, <1>4 DEF KeysInv, KeysTypeOK, KidsAreKeys
  <1>6. KeysTypeOK'
    BY <1>3, <1>5 DEF KeysInv, KeysTypeOK
  <1>7. KidsAreKeys' /\ LoadedArePublished' /\ SignedKeysArePublished'
    BY <1>1, <1>2, <1>3 DEF KeysInv, KidsAreKeys, LoadedArePublished, SignedKeysArePublished, Is
  <1>8. LeftActiveAreMet'
    BY <1>2, <1>3, <1>4 DEF KeysInv, LeftActiveAreMet, Under
  <1>9. StorersMet'
    <2> SUFFICES ASSUME NEW s \in Requests, NEW q \in Requests, s # q, Under(s)', Under(q)'
                 PROVE  {signer'[s].kid, signer'[q].kid} \in met'
      BY DEF StorersMet
    <2>1. CASE s # r /\ q # r
      BY <1>3, <1>4, <2>1 DEF KeysInv, StorersMet, Under
    <2>2. CASE s = r
      BY <1>2, <1>3, <1>4, <2>2 DEF Under
    <2>3. CASE q = r
      <3>1. {signer'[q].kid, signer'[s].kid} \in met'
        BY <1>2, <1>3, <1>4, <2>3 DEF Under
      <3>2. {signer'[q].kid, signer'[s].kid} = {signer'[s].kid, signer'[q].kid}
        OBVIOUS
      <3>3. QED
        BY <3>1, <3>2
    <2>4. QED
      BY <2>1, <2>2, <2>3
  <1>10. ActiveKeysOverlapped'
    BY <1>3, <1>4 DEF KeysInv, ActiveKeysOverlapped
  <1>11. QED
    BY <1>6, <1>7, <1>8, <1>9, <1>10 DEF KeysInv

\* The UPDATE has its locks: rows that are off already stay off.
LEMMA LockStep ==
  ASSUME KeysInv, NEW r \in Requests, LockRows(r)
  PROVE  KeysInv'
  <1> DEFINE new == [signer[r] EXCEPT !.at = "stored", !.old = @ \cap active]
  <1>1. signer[r].at = "storing" /\ signer[r].kid \in Kids /\ signer[r] \in Signer
    BY DEF LockRows, Is, KeysInv, KeysTypeOK, KidsAreKeys
  <1>2. /\ new \in Signer /\ new.at = "stored" /\ new.kid = signer[r].kid
        /\ new.old = signer[r].old \cap active
    BY <1>1 DEF Signer, Steps
  <1>3. /\ \A s \in Requests : signer'[s] = IF s = r THEN new ELSE signer[s]
        /\ signer' \in [Requests -> Signer]
        /\ UNCHANGED <<published, active, cache, met>>
    BY <1>2 DEF LockRows, Set, KeysInv, KeysTypeOK
  <1> HIDE DEF new
  <1>4. KeysTypeOK' /\ ActiveKeysOverlapped'
    BY <1>3 DEF KeysInv, KeysTypeOK, ActiveKeysOverlapped
  <1>5. KidsAreKeys' /\ LoadedArePublished' /\ SignedKeysArePublished'
    BY <1>1, <1>2, <1>3 DEF KeysInv, KidsAreKeys, LoadedArePublished, SignedKeysArePublished, Is
  <1>6. LeftActiveAreMet' /\ StorersMet'
    BY <1>1, <1>2, <1>3 DEF KeysInv, LeftActiveAreMet, StorersMet, Under
  <1>7. QED
    BY <1>4, <1>5, <1>6 DEF KeysInv

\* The new key is inserted and those it turns off are off.
LEMMA StoreStep ==
  ASSUME KeysInv, NEW r \in Requests, StoreKey(r)
  PROVE  KeysInv'
  <1> DEFINE k   == signer[r].kid
             new == IF signer[r].keep THEN [signer[r] EXCEPT !.at = "signed", !.old = {}] ELSE Away
  <1>1. /\ signer[r].at = "stored" /\ k \in Kids /\ signer[r] \in Signer /\ ProcOf[r] \in Procs
        /\ published \subseteq Kids /\ active \subseteq published
    BY ProcAssumption DEF StoreKey, Is, KeysInv, KeysTypeOK, KidsAreKeys
  <1>2. new \in Signer /\ new.at \in {"signed", "away"} /\ (new.at = "signed" => new.kid = k)
    BY <1>1, AwaySigner DEF Signer, Steps
  <1>3. /\ \A s \in Requests : signer'[s] = IF s = r THEN new ELSE signer[s]
        /\ signer' \in [Requests -> Signer]
    BY <1>2 DEF StoreKey, Set, KeysInv, KeysTypeOK
  <1>4. /\ published' = published \cup {k} /\ active' = (active \ signer[r].old) \cup {k}
        /\ met' = met
        /\ cache' = cache \/ cache' = [cache EXCEPT ![ProcOf[r]] = k]
    BY DEF StoreKey
  <1> HIDE DEF new
  <1>5. KeysTypeOK'
    BY <1>1, <1>3, <1>4 DEF KeysInv, KeysTypeOK
  <1>6. KidsAreKeys' /\ LoadedArePublished'
    BY <1>1, <1>2, <1>3, <1>4 DEF KeysInv, KidsAreKeys, LoadedArePublished
  <1>7. SignedKeysArePublished'
    BY <1>1, <1>2, <1>3, <1>4 DEF KeysInv, KeysTypeOK, SignedKeysArePublished, Is
  <1>8. LeftActiveAreMet'
    <2> SUFFICES ASSUME NEW s \in Requests, Under(s)', NEW j \in active'
                 PROVE  j \in signer'[s].old \/ {j, signer'[s].kid} \in met'
      BY DEF LeftActiveAreMet
    <2>1. s # r /\ signer'[s] = signer[s] /\ Under(s) /\ Under(r)
      BY <1>1, <1>2, <1>3 DEF Under
    <2>2. CASE j \in active
      BY <1>4, <2>1, <2>2 DEF KeysInv, LeftActiveAreMet
    <2>3. CASE j = k
      BY <1>4, <2>1, <2>3 DEF KeysInv, StorersMet
    <2>4. QED
      BY <1>4, <2>2, <2>3
  <1>9. StorersMet'
    BY <1>2, <1>3, <1>4 DEF KeysInv, StorersMet, Under
  <1>10. ActiveKeysOverlapped'
    <2>1. \A j \in active \ signer[r].old : {j, k} \in met /\ {k, j} \in met
      <3>1. ASSUME NEW j \in active \ signer[r].old PROVE {j, k} \in met
        BY <1>1 DEF KeysInv, LeftActiveAreMet, Under
      <3>2. \A j : {k, j} = {j, k}
        OBVIOUS
      <3>3. QED
        BY <3>1, <3>2
    <2>2. QED
      BY <1>4, <2>1 DEF KeysInv, ActiveKeysOverlapped
  <1>11. QED
    BY <1>5, <1>6, <1>7, <1>8, <1>9, <1>10 DEF KeysInv

\* A restart empties one cache and ends the requests of its process.
LEMMA RestartStep ==
  ASSUME KeysInv, NEW p \in Procs, RestartKeys(p)
  PROVE  KeysInv'
  <1>1. /\ \A s \in Requests : signer'[s] = IF ProcOf[s] = p THEN Away ELSE signer[s]
        /\ signer' \in [Requests -> Signer]
        /\ cache' \in [Procs -> Kids \cup {NoKid}]
        /\ \A q \in Procs : cache'[q] \in {cache[q], NoKid}
        /\ UNCHANGED <<published, active, met>>
    BY AwaySigner DEF RestartKeys, KeysInv, KeysTypeOK
  <1>2. KeysTypeOK' /\ ActiveKeysOverlapped'
    BY <1>1 DEF KeysInv, KeysTypeOK, ActiveKeysOverlapped
  <1>3. KidsAreKeys' /\ LoadedArePublished' /\ SignedKeysArePublished'
    BY <1>1, AwaySigner DEF KeysInv, KidsAreKeys, LoadedArePublished, SignedKeysArePublished, Is
  <1>4. LeftActiveAreMet' /\ StorersMet'
    BY <1>1, AwaySigner DEF KeysInv, LeftActiveAreMet, StorersMet, Under
  <1>5. QED
    BY <1>2, <1>3, <1>4 DEF KeysInv

\* Every step keeps the invariant of the keys.
LEMMA KeysStep == KeysInv /\ [Next]_vars => KeysInv'
  <1> SUFFICES ASSUME KeysInv, [Next]_vars PROVE KeysInv'
    OBVIOUS
  <1>1. ASSUME UNCHANGED keyVars PROVE KeysInv'
    BY <1>1 DEF keyVars, KeysInv, KeysTypeOK, KidsAreKeys, LoadedArePublished, LeftActiveAreMet,
       StorersMet, Under, SignedKeysArePublished, ActiveKeysOverlapped, Is
  <1>2. ASSUME NEW r \in Requests, Signing(r) PROVE KeysInv'
    BY <1>2, AskingSteps, DeactivateStep, LockStep, StoreStep DEF Signing
  <1>3. ASSUME NEW r \in Requests, Refresh(r) PROVE KeysInv'
    <2>1. CASE AskForKey(r)
      BY <2>1, IdleSteps DEF AskForKey
    <2>2. CASE AnswerTokens(r)
      BY <2>2, IdleSteps DEF AnswerTokens
    <2>3. CASE KeyFails(r)
      BY <2>3, IdleSteps DEF KeyFails, StoreFails
    <2>4. CASE ~AskForKey(r) /\ ~AnswerTokens(r) /\ ~KeyFails(r)
      BY <1>1, <1>3, <2>4 DEF Refresh, SelectToken, RefuseToken, ReplayToken, RotateToken, WrongClient,
         TouchClient, RequestFails
    <2>5. QED
      BY <2>1, <2>2, <2>3, <2>4
  <1>4. ASSUME NEW r \in Requests, Operator(r) PROVE KeysInv'
    BY <1>4, RotateStep DEF Operator
  <1>5. ASSUME NEW p \in Procs, Restart(p) PROVE KeysInv'
    BY <1>5, RestartStep DEF Restart
  <1>6. ASSUME NEW c \in Codes, MintAuthCode(c) \/ CodeExpires(c) \/ \E r \in Requests : ConsumeAuthCode(r, c)
        PROVE  KeysInv'
    BY <1>1, <1>6 DEF MintAuthCode, CodeExpires, ConsumeAuthCode
  <1>7. ASSUME NEW t \in RefreshTokens, TokenExpires(t) PROVE KeysInv'
    BY <1>1, <1>7 DEF TokenExpires
  <1>8. CASE UNCHANGED vars
    BY <1>1, <1>8 DEF vars
  <1>9. QED
    BY <1>2, <1>3, <1>4, <1>5, <1>6, <1>7, <1>8 DEF Next

-----------------------------------------------------------------------------
(* The refresh tokens *)

TokenTypeOK ==
  /\ row \in [RefreshTokens -> Row]
  /\ code \in [Codes -> Code]
  /\ req \in [Requests -> Request]
  /\ replayed \subseteq RefreshTokens

SuccessorsAreThere ==
  \A t \in RefreshTokens : row[t].rotatedTo # NoToken =>
    row[t].state = "revoked" /\ row[row[t].rotatedTo].state # "none"

HeldAreLive ==
  /\ \A r \in Requests : req[r].at = "locked" => req[r].token \in RefreshTokens /\ Live(req[r].token)
  /\ \A r, s \in Requests :
       req[r].at = "locked" /\ req[s].at = "locked" /\ req[r].token = req[s].token => r = s

\* A request past the check of its client has a token of that client.
Rightful(q) == q.new # NoToken /\ ClientOf[row[q.new].family] = q.client

IssuedAreThere ==
  \A r \in Requests :
    /\ req[r].new # NoToken => row[req[r].new].state # "none"
    /\ req[r].at = "rotated" => req[r].new # NoToken
    /\ req[r].answer = "tokens" => req[r].at = "done"
    /\ req[r].at \in {"touched", "signing"} \/ req[r].answer = "tokens" => Rightful(req[r])

ChainInv ==
  /\ TokenTypeOK
  /\ SuccessorsAreThere
  /\ HeldAreLive
  /\ IssuedAreThere
  /\ FamiliesAreChains
  /\ IssuedOnce

\* The tokens of the beginning are families of one.
LEMMA ChainStart == Init => ChainInv
  <1> SUFFICES ASSUME Init PROVE ChainInv
    OBVIOUS
  <1>1. (CHOOSE t \in Earlier : TRUE) \in Earlier /\ (CHOOSE c \in Clients : TRUE) \in Clients
    BY TokenAssumption
  <1>2. NoRow \in Row /\ NoRow.rotatedTo = NoToken /\ NoRow.state = "none"
    BY <1>1 DEF NoRow, Row
  <1>3. \A t \in RefreshTokens :
          /\ row[t] \in Row /\ row[t].rotatedTo = NoToken /\ row[t].state \in {"none", "live"}
          /\ row[t].state = "live" => row[t].family = t
    <2>1. ASSUME NEW t \in Earlier
          PROVE  LET n == [NoRow EXCEPT !.state = "live", !.family = t]
                 IN  n \in Row /\ n.rotatedTo = NoToken /\ n.state = "live" /\ n.family = t
      BY <1>2 DEF Row
    <2>2. QED
      BY <1>2, <2>1 DEF Init
  <1>4. \A r \in Requests : req[r] \in Request /\ req[r].at = "idle" /\ req[r].new = NoToken
                            /\ req[r].answer = "none"
    BY <1>1 DEF Init, Request
  <1>5. TokenTypeOK
    BY <1>3, <1>4 DEF Init, TokenTypeOK, Code
  <1>6. SuccessorsAreThere /\ HeldAreLive /\ IssuedAreThere /\ FamiliesAreChains /\ IssuedOnce
    BY <1>3, <1>4 DEF SuccessorsAreThere, HeldAreLive, IssuedAreThere, FamiliesAreChains, IssuedOnce, Live
  <1>7. QED
    BY <1>5, <1>6 DEF ChainInv

\* A step that changes no token and moves one request.
LEMMA TokenRequestMoves ==
  ASSUME ChainInv, NEW r \in Requests, NEW new \in Request,
         req' = [req EXCEPT ![r] = new], row' = row,
         code' \in [Codes -> Code], replayed' \subseteq RefreshTokens,
         new.at = "locked" => /\ new.token \in RefreshTokens /\ Live(new.token)
                              /\ ~Locked(new.token),
         new.new = req[r].new,
         new.at = "rotated" => new.new # NoToken,
         new.answer = "tokens" => new.at = "done",
         new.at \in {"touched", "signing"} \/ new.answer = "tokens" => Rightful(new)
  PROVE  ChainInv'
  <1>1. \A s \in Requests : req'[s] = IF s = r THEN new ELSE req[s]
    BY DEF ChainInv, TokenTypeOK
  <1>2. TokenTypeOK'
    BY DEF ChainInv, TokenTypeOK
  <1>3. SuccessorsAreThere' /\ FamiliesAreChains'
    BY DEF ChainInv, SuccessorsAreThere, FamiliesAreChains, Live, Family
  <1>4. HeldAreLive'
    BY <1>1 DEF ChainInv, HeldAreLive, Live, Locked
  <1>5. IssuedAreThere'
    BY <1>1 DEF ChainInv, IssuedAreThere, Rightful
  <1>6. IssuedOnce'
    BY <1>1 DEF ChainInv, IssuedOnce, Rightful
  <1>7. QED
    BY <1>2, <1>3, <1>4, <1>5, <1>6 DEF ChainInv

\* An answer other than tokens.
LEMMA AnswerStep ==
  ASSUME ChainInv, NEW r \in Requests, NEW a \in {"none", "refused", "replay", "race", "failed"},
         Answer(r, a), row' = row, code' = code, replayed' \subseteq RefreshTokens
  PROVE  ChainInv'
  <1> DEFINE new == [req[r] EXCEPT !.at = "done", !.answer = a]
  <1>1. new \in Request /\ new.at = "done" /\ new.answer = a /\ new.new = req[r].new
    BY DEF ChainInv, TokenTypeOK, Request
  <1>2. req' = [req EXCEPT ![r] = new]
    BY DEF Answer, ChainInv, TokenTypeOK
  <1>3. code' \in [Codes -> Code]
    BY DEF ChainInv, TokenTypeOK
  <1> HIDE DEF new
  <1>4. QED
    BY <1>1, <1>2, <1>3, TokenRequestMoves

\* The SELECT ... FOR UPDATE of rotateRefreshToken.
LEMMA SelectTokenStep ==
  ASSUME ChainInv, NEW r \in Requests, NEW t \in RefreshTokens, NEW client \in Clients,
         SelectToken(r, t, client)
  PROVE  ChainInv'
  <1> DEFINE new == [req[r] EXCEPT !.at = "locked", !.token = t, !.client = client]
  <1>1. req[r] \in Request /\ req[r].at = "idle"
    BY DEF ChainInv, TokenTypeOK, SelectToken
  <1>2. new \in Request /\ new.at = "locked" /\ new.token = t /\ new.new = req[r].new
        /\ new.answer = req[r].answer /\ new.client = client
    BY <1>1 DEF Request
  <1>3. req' = [req EXCEPT ![r] = new] /\ row' = row /\ code' = code /\ replayed' = replayed
    BY DEF SelectToken, ChainInv, TokenTypeOK
  <1>4. new.answer # "tokens"
    BY <1>1, <1>2 DEF ChainInv, IssuedAreThere
  <1>5. code' \in [Codes -> Code] /\ replayed' \subseteq RefreshTokens
    BY <1>3 DEF ChainInv, TokenTypeOK
  <1>6. ~Locked(t) /\ Live(t)
    BY DEF SelectToken
  <1> HIDE DEF new
  <1>7. QED
    BY <1>2, <1>3, <1>4, <1>5, <1>6, TokenRequestMoves

\* The client is the one the token was issued to.
LEMMA TouchClientStep ==
  ASSUME ChainInv, NEW r \in Requests, TouchClient(r)
  PROVE  ChainInv'
  <1> DEFINE new == [req[r] EXCEPT !.at = "touched"]
  <1>1. req[r] \in Request /\ req[r].at = "rotated"
    BY DEF ChainInv, TokenTypeOK, TouchClient
  <1>2. new \in Request /\ new.at = "touched" /\ new.new = req[r].new
        /\ new.answer = req[r].answer /\ new.client = req[r].client
    BY <1>1 DEF Request
  <1>3. req' = [req EXCEPT ![r] = new] /\ row' = row /\ code' = code /\ replayed' = replayed
    BY DEF TouchClient, ChainInv, TokenTypeOK
  <1>4. new.answer # "tokens" /\ Rightful(new)
    BY <1>1, <1>2 DEF ChainInv, IssuedAreThere, Rightful, TouchClient
  <1>5. code' \in [Codes -> Code] /\ replayed' \subseteq RefreshTokens
    BY <1>3 DEF ChainInv, TokenTypeOK
  <1> HIDE DEF new
  <1>6. QED
    BY <1>2, <1>3, <1>4, <1>5, TokenRequestMoves

\* A request goes to sign; its tokens are what they were.
LEMMA AskForKeyStep ==
  ASSUME ChainInv, NEW r \in Requests, AskForKey(r)
  PROVE  ChainInv'
  <1> DEFINE new == [req[r] EXCEPT !.at = "signing"]
  <1>1. req[r] \in Request /\ req[r].at = "touched"
    BY DEF ChainInv, TokenTypeOK, AskForKey
  <1>2. new \in Request /\ new.at = "signing" /\ new.new = req[r].new
        /\ new.answer = req[r].answer /\ new.client = req[r].client
    BY <1>1 DEF Request
  <1>3. req' = [req EXCEPT ![r] = new] /\ row' = row /\ code' = code /\ replayed' = replayed
    BY DEF AskForKey, ChainInv, TokenTypeOK
  <1>4. new.answer # "tokens" /\ Rightful(new)
    BY <1>1, <1>2 DEF ChainInv, IssuedAreThere, Rightful
  <1>5. code' \in [Codes -> Code] /\ replayed' \subseteq RefreshTokens
    BY <1>3 DEF ChainInv, TokenTypeOK
  <1> HIDE DEF new
  <1>6. QED
    BY <1>2, <1>3, <1>4, <1>5, TokenRequestMoves

\* The answer carries the access token and the new refresh token.
LEMMA AnswerTokensStep ==
  ASSUME ChainInv, NEW r \in Requests, AnswerTokens(r)
  PROVE  ChainInv'
  <1> DEFINE new == [req[r] EXCEPT !.at = "done", !.answer = "tokens"]
  <1>1. req[r] \in Request /\ req[r].at = "signing"
    BY DEF ChainInv, TokenTypeOK, AnswerTokens
  <1>2. new \in Request /\ new.at = "done" /\ new.new = req[r].new /\ new.client = req[r].client
    BY <1>1 DEF Request
  <1>3. req' = [req EXCEPT ![r] = new] /\ row' = row /\ code' = code /\ replayed' = replayed
    BY DEF AnswerTokens, Answer, ChainInv, TokenTypeOK
  <1>4. Rightful(new)
    BY <1>1, <1>2 DEF ChainInv, IssuedAreThere, Rightful
  <1>5. code' \in [Codes -> Code] /\ replayed' \subseteq RefreshTokens
    BY <1>3 DEF ChainInv, TokenTypeOK
  <1> HIDE DEF new
  <1>6. QED
    BY <1>2, <1>3, <1>4, <1>5, TokenRequestMoves

\* The rotation: the successor takes the place of the one live token.
LEMMA RotateTokenStep ==
  ASSUME ChainInv, NEW r \in Requests, RotateToken(r)
  PROVE  ChainInv'
  <1> DEFINE t == req[r].token
  <1>1. req[r] \in Request /\ req[r].at = "locked" /\ t \in RefreshTokens /\ Live(t)
    BY DEF ChainInv, TokenTypeOK, RotateToken, HeldAreLive
  <1>2. PICK n \in RefreshTokens :
          /\ row[n].state = "none"
          /\ row' = [row EXCEPT ![n] = [NoRow EXCEPT !.state = "live", !.family = row[t].family],
                                ![t].state = "revoked", ![t].rotatedTo = n]
          /\ req' = [req EXCEPT ![r].at = "rotated", ![r].new = n]
    BY DEF RotateToken
  <1>3. n # t /\ row[t] \in Row /\ row[n] \in Row /\ n # NoToken
    BY <1>1, <1>2, TokenAssumption DEF Live, ChainInv, TokenTypeOK
  <1>4. NoRow \in Row /\ NoRow.rotatedTo = NoToken
    BY TokenAssumption DEF NoRow, Row
  <1>5. /\ row'[n] \in Row /\ row'[n].state = "live" /\ row'[n].family = row[t].family
        /\ row'[n].rotatedTo = NoToken
        /\ row'[t] \in Row /\ row'[t].state = "revoked" /\ row'[t].family = row[t].family
        /\ row'[t].rotatedTo = n
        /\ \A u \in RefreshTokens \ {n, t} : row'[u] = row[u]
    <2>1. row' = [row EXCEPT ![n] = [NoRow EXCEPT !.state = "live", !.family = row[t].family],
                            ![t] = [row[t] EXCEPT !.state = "revoked", !.rotatedTo = n]]
      BY <1>2, <1>3 DEF ChainInv, TokenTypeOK
    <2> DEFINE a == [NoRow EXCEPT !.state = "live", !.family = row[t].family]
               b == [row[t] EXCEPT !.state = "revoked", !.rotatedTo = n]
    <2>2. a \in Row /\ a.state = "live" /\ a.family = row[t].family /\ a.rotatedTo = NoToken
      BY <1>3, <1>4 DEF Row
    <2>3. b \in Row /\ b.state = "revoked" /\ b.family = row[t].family /\ b.rotatedTo = n
      BY <1>3 DEF Row
    <2> HIDE DEF a, b
    <2>4. row' = [row EXCEPT ![n] = a, ![t] = b]
      BY <2>1 DEF a, b
    <2>5. row'[n] = a /\ row'[t] = b /\ \A u \in RefreshTokens \ {n, t} : row'[u] = row[u]
      BY <1>1, <1>3, <2>4 DEF ChainInv, TokenTypeOK
    <2>6. QED
      BY <2>2, <2>3, <2>5
  <1>6. DOMAIN row' = RefreshTokens /\ row' \in [RefreshTokens -> Row]
    BY <1>2, <1>5 DEF ChainInv, TokenTypeOK
  <1> DEFINE new == [req[r] EXCEPT !.at = "rotated", !.new = n]
  <1>7. /\ new \in Request /\ new.at = "rotated" /\ new.new = n
        /\ new.answer = req[r].answer /\ new.token = t
    BY <1>1, <1>2 DEF Request
  <1>8. \A s \in Requests : req'[s] = IF s = r THEN new ELSE req[s]
    BY <1>2 DEF ChainInv, TokenTypeOK
  <1>9. TokenTypeOK'
    BY <1>2, <1>6, <1>7, <1>8 DEF ChainInv, TokenTypeOK, RotateToken
  <1> HIDE DEF new, t
  <1>10. \A u \in RefreshTokens : row[u].state # "none" =>
            row'[u].state # "none" /\ row'[u].family = row[u].family /\ u # n
    BY <1>2, <1>5
  <1>11. row[t].rotatedTo = NoToken /\ row[n].rotatedTo = NoToken
    BY <1>1, <1>2, <1>3 DEF ChainInv, SuccessorsAreThere, Live
  <1>12. \A u \in RefreshTokens : row[u].rotatedTo # n
    BY <1>2, <1>3 DEF ChainInv, SuccessorsAreThere
  <1>13. SuccessorsAreThere'
    BY <1>3, <1>5, <1>10, <1>12 DEF ChainInv, SuccessorsAreThere, TokenTypeOK, Row
  <1>14. \A s \in Requests : req'[s].at = "locked" =>
            s # r /\ req[s].at = "locked" /\ req'[s].token = req[s].token
            /\ req[s].token \in RefreshTokens \ {n, t}
    <2>1. \A s \in Requests : req[s].at = "locked" /\ req[s].token = t => s = r
      BY <1>1 DEF ChainInv, HeldAreLive, t
    <2>2. \A s \in Requests : req[s].at = "locked" =>
            req[s].token \in RefreshTokens /\ req[s].token # n
      BY <1>2 DEF ChainInv, HeldAreLive, Live
    <2>3. QED
      BY <1>7, <1>8, <2>1, <2>2
  <1>15. HeldAreLive'
    BY <1>5, <1>14 DEF ChainInv, HeldAreLive, Live
  <1>16. \A s \in Requests : s # r /\ req[s].new # NoToken =>
            /\ req[s].new # n /\ row'[req[s].new].state # "none"
            /\ row'[req[s].new].family = row[req[s].new].family
    BY <1>2, <1>10 DEF ChainInv, IssuedAreThere, TokenTypeOK, Request
  <1>17. req[r].answer # "tokens"
    BY <1>1 DEF ChainInv, IssuedAreThere
  <1>18. IssuedAreThere'
    BY <1>3, <1>5, <1>7, <1>8, <1>16, <1>17 DEF ChainInv, IssuedAreThere, Rightful
  <1>19. FamiliesAreChains'
    <2>1. \A u, v \in RefreshTokens : Live(u)' /\ Live(v)' /\ row'[u].family = row'[v].family => u = v
      BY <1>1, <1>5 DEF ChainInv, FamiliesAreChains, Live
    <2>2. \A u, v \in RefreshTokens :
            row'[u].rotatedTo = row'[v].rotatedTo /\ row'[u].rotatedTo # NoToken => u = v
      BY <1>5, <1>12 DEF ChainInv, FamiliesAreChains
    <2>3. \A u \in RefreshTokens : row'[u].state = "revoked" =>
            row'[u].rotatedTo \in {w \in RefreshTokens : row'[w].state # "none" /\ row'[w].family = row'[u].family} \ {u}
      <3>1. ASSUME NEW u \in RefreshTokens \ {n, t}, row'[u].state = "revoked"
            PROVE  LET w == row'[u].rotatedTo
                   IN  /\ w \in RefreshTokens \ {u} /\ row'[w].state # "none"
                       /\ row'[w].family = row'[u].family
        <4>1. row'[u] = row[u] /\ row[u].rotatedTo \in Family(u) \ {u}
          BY <1>5, <3>1 DEF ChainInv, FamiliesAreChains
        <4>2. QED
          BY <1>10, <4>1 DEF Family
      <3>2. n \in RefreshTokens \ {t} /\ row'[t].rotatedTo = n /\ row'[n].state = "live"
            /\ row'[n].family = row'[t].family
        BY <1>3, <1>5
      <3>3. QED
        BY <3>1, <3>2
    <2>4. QED
      BY <2>1, <2>2, <2>3 DEF FamiliesAreChains, Family, Live
  <1>20. IssuedOnce'
    BY <1>3, <1>7, <1>8, <1>16, <1>17 DEF ChainInv, IssuedOnce, IssuedAreThere, Rightful
  <1>21. QED
    BY <1>9, <1>13, <1>15, <1>18, <1>19, <1>20 DEF ChainInv

\* A restart ends requests; the tokens stay.
LEMMA RestartTokens ==
  ASSUME ChainInv, NEW p \in Procs, Restart(p)
  PROVE  ChainInv'
  <1>1. /\ DOMAIN req' = Requests
        /\ \A s \in Requests :
             req'[s] = req[s] \/ req'[s] = [req[s] EXCEPT !.at = "done", !.answer = "failed"]
    BY DEF Restart
  <1>2. \A s \in Requests :
          /\ req'[s] \in Request /\ req'[s].new = req[s].new /\ req'[s].token = req[s].token
          /\ req'[s].client = req[s].client
          /\ req'[s] = req[s] \/ (req'[s].at = "done" /\ req'[s].answer = "failed")
    <2> TAKE s \in Requests
    <2> DEFINE new == [req[s] EXCEPT !.at = "done", !.answer = "failed"]
    <2>1. req[s] \in Request
      BY DEF ChainInv, TokenTypeOK
    <2>2. /\ new \in Request /\ new.new = req[s].new /\ new.token = req[s].token
          /\ new.client = req[s].client /\ new.at = "done" /\ new.answer = "failed"
      BY <2>1 DEF Request
    <2>3. req'[s] = req[s] \/ req'[s] = new
      BY <1>1
    <2> HIDE DEF new
    <2>4. QED
      BY <2>1, <2>2, <2>3
  <1>3. row' = row /\ code' = code /\ replayed' = replayed
    BY DEF Restart
  <1>4. TokenTypeOK'
    BY <1>2, <1>3 DEF ChainInv, TokenTypeOK, Restart
  <1>5. SuccessorsAreThere' /\ FamiliesAreChains'
    BY <1>3 DEF ChainInv, SuccessorsAreThere, FamiliesAreChains, Live, Family
  <1>6. HeldAreLive'
    BY <1>2, <1>3 DEF ChainInv, HeldAreLive, Live
  <1>7. IssuedAreThere'
    BY <1>2, <1>3 DEF ChainInv, IssuedAreThere, Rightful
  <1>8. IssuedOnce'
    BY <1>2, <1>3 DEF ChainInv, IssuedOnce
  <1>9. QED
    BY <1>4, <1>5, <1>6, <1>7, <1>8 DEF ChainInv

\* Expiry changes neither the state, the family nor the successor of a token.
LEMMA ExpiryStep ==
  ASSUME ChainInv, NEW t \in RefreshTokens, TokenExpires(t)
  PROVE  ChainInv'
  <1>1. row[t] \in Row
    BY DEF ChainInv, TokenTypeOK
  <1>2. \A u \in RefreshTokens :
          /\ row'[u] \in Row /\ row'[u].state = row[u].state
          /\ row'[u].family = row[u].family /\ row'[u].rotatedTo = row[u].rotatedTo
    BY <1>1 DEF TokenExpires, ChainInv, TokenTypeOK, Row
  <1>3. code' = code /\ req' = req /\ replayed' = replayed
    BY DEF TokenExpires
  <1>4. TokenTypeOK'
    BY <1>2, <1>3 DEF ChainInv, TokenTypeOK, TokenExpires
  <1>5. SuccessorsAreThere'
    BY <1>2 DEF ChainInv, SuccessorsAreThere, TokenTypeOK, Row
  <1>6. FamiliesAreChains'
    BY <1>2 DEF ChainInv, FamiliesAreChains, Live, Family
  <1>7. HeldAreLive'
    BY <1>2, <1>3 DEF ChainInv, HeldAreLive, Live
  <1>8. \A r \in Requests : req[r].new # NoToken => req[r].new \in RefreshTokens
    BY DEF ChainInv, TokenTypeOK, Request
  <1>9. IssuedAreThere'
    BY <1>2, <1>3, <1>8 DEF ChainInv, IssuedAreThere, Rightful
  <1>10. IssuedOnce'
    BY <1>2, <1>3, <1>8 DEF ChainInv, IssuedOnce, IssuedAreThere, Rightful
  <1>11. QED
    BY <1>4, <1>5, <1>6, <1>7, <1>9, <1>10 DEF ChainInv

\* A step that leaves the tokens, the requests and the replays alone.
LEMMA TokensStand ==
  ASSUME ChainInv, row' = row, req' = req, replayed' = replayed, code' \in [Codes -> Code]
  PROVE  ChainInv'
  BY DEF ChainInv, TokenTypeOK, SuccessorsAreThere, HeldAreLive, IssuedAreThere, Rightful,
         FamiliesAreChains, IssuedOnce, Live, Family

\* A failure to store a key ends the request that asked for it.
LEMMA KeyFailsStep ==
  ASSUME ChainInv, NEW r \in Requests, KeyFails(r)
  PROVE  ChainInv'
  <1>1. code' \in [Codes -> Code] /\ row' = row /\ code' = code /\ replayed' = replayed
        /\ replayed' \subseteq RefreshTokens
    BY DEF KeyFails, ChainInv, TokenTypeOK
  <1>2. CASE req[r].at = "signing"
    BY <1>1, <1>2, AnswerStep DEF KeyFails
  <1>3. CASE req[r].at # "signing"
    BY <1>1, <1>3, TokensStand DEF KeyFails
  <1>4. QED
    BY <1>2, <1>3

\* Every step keeps the chains.
LEMMA ChainStep == ChainInv /\ [Next]_vars => ChainInv'
  <1> SUFFICES ASSUME ChainInv, [Next]_vars PROVE ChainInv'
    OBVIOUS
  <1>1. replayed \subseteq RefreshTokens /\ code \in [Codes -> Code]
    BY DEF ChainInv, TokenTypeOK
  <1>2. ASSUME NEW c \in Codes, MintAuthCode(c) \/ CodeExpires(c) PROVE ChainInv'
    <2>1. code' \in [Codes -> Code]
      BY <1>1, <1>2 DEF MintAuthCode, CodeExpires, Code
    <2>2. QED
      BY <1>2, <2>1, TokensStand DEF MintAuthCode, CodeExpires
  <1>3. ASSUME NEW r \in Requests, NEW c \in Codes, ConsumeAuthCode(r, c) PROVE ChainInv'
    <2>1. CASE code[c].minted /\ ~code[c].consumed /\ ~code[c].expired
      BY <1>1, <1>3, <2>1, AnswerStep DEF ConsumeAuthCode
    <2>2. CASE ~(code[c].minted /\ ~code[c].consumed /\ ~code[c].expired)
      BY <1>1, <1>3, <2>2, AnswerStep DEF ConsumeAuthCode
    <2>3. QED
      BY <2>1, <2>2
  <1>4. ASSUME NEW r \in Requests, Refresh(r) PROVE ChainInv'
    <2>1. ASSUME NEW t \in RefreshTokens, NEW client \in Clients, SelectToken(r, t, client)
          PROVE  ChainInv'
      BY <2>1, SelectTokenStep
    <2>2. ASSUME NEW t \in RefreshTokens, RefuseToken(r, t) \/ ReplayToken(r, t) PROVE ChainInv'
      BY <1>1, <2>2, AnswerStep DEF RefuseToken, ReplayToken
    <2>3. ASSUME RotateToken(r) PROVE ChainInv'
      BY <2>3, RotateTokenStep
    <2>4. ASSUME WrongClient(r) \/ RequestFails(r) PROVE ChainInv'
      BY <1>1, <2>4, AnswerStep DEF WrongClient, RequestFails
    <2>5. ASSUME TouchClient(r) \/ AskForKey(r) \/ AnswerTokens(r) \/ KeyFails(r) PROVE ChainInv'
      BY <2>5, TouchClientStep, AskForKeyStep, AnswerTokensStep, KeyFailsStep
    <2>6. QED
      BY <1>4, <2>1, <2>2, <2>3, <2>4, <2>5 DEF Refresh
  <1>5. ASSUME NEW r \in Requests, Operator(r) PROVE ChainInv'
    BY <1>1, <1>5, AnswerStep DEF Operator
  <1>6. ASSUME NEW r \in Requests, Signing(r), UNCHANGED tokenVars PROVE ChainInv'
    BY <1>1, <1>6, TokensStand DEF tokenVars
  <1>7. ASSUME NEW p \in Procs, Restart(p) PROVE ChainInv'
    BY <1>7, RestartTokens
  <1>8. ASSUME NEW t \in RefreshTokens, TokenExpires(t) PROVE ChainInv'
    BY <1>8, ExpiryStep
  <1>9. CASE UNCHANGED vars
    BY <1>1, <1>9, TokensStand DEF vars, tokenVars
  <1>10. QED
    BY <1>2, <1>3, <1>4, <1>5, <1>6, <1>7, <1>8, <1>9 DEF Next

-----------------------------------------------------------------------------
(* What follows of the specification *)

\* Both invariants hold of every behaviour.
LEMMA TokensInvariant == Spec => [](KeysInv /\ ChainInv)
  <1>1. Init => KeysInv /\ ChainInv
    BY KeysStart, ChainStart DEF Init
  <1>2. (KeysInv /\ ChainInv) /\ [Next]_vars => (KeysInv /\ ChainInv)'
    BY KeysStep, ChainStep
  <1>3. QED
    BY <1>1, <1>2, PTL DEF Spec

\* Rows, codes, requests and keys stay of their types.
THEOREM TokenTypes == Spec => []TypeOK
  <1>1. KeysInv /\ ChainInv => TypeOK
    BY DEF KeysInv, ChainInv, TokenTypeOK, TypeOK
  <1>2. QED
    BY <1>1, TokensInvariant, PTL

\* The families of rotateRefreshToken: whatever requests do with a token at
\* the same time, its family keeps one live token and one line of successors.
THEOREM FamiliesStayChains == Spec => []FamiliesAreChains
  <1>1. ChainInv => FamiliesAreChains
    BY DEF ChainInv
  <1>2. QED
    BY <1>1, TokensInvariant, PTL

\* POST /oauth/token compares the client after it has rotated the token, and
\* still answers a token to the client of its family only, and to one request.
THEOREM TokensGoToTheirClient == Spec => []IssuedOnce
  <1>1. ChainInv => IssuedOnce
    BY DEF ChainInv
  <1>2. QED
    BY <1>1, TokensInvariant, PTL

\* getActiveSigningKey: no process signs with a key its row does not hold.
THEOREM SigningKeysArePublished == Spec => []SignedKeysArePublished
  <1>1. KeysInv => SignedKeysArePublished
    BY DEF KeysInv
  <1>2. QED
    BY <1>1, TokensInvariant, PTL

\* Two keys are active together only if two bootstraps overlapped.
THEOREM KeysOverlapped == Spec => []ActiveKeysOverlapped
  <1>1. KeysInv => ActiveKeysOverlapped
    BY DEF KeysInv
  <1>2. QED
    BY <1>1, TokensInvariant, PTL
=============================================================================
