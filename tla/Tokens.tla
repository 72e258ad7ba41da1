------------------------------- MODULE Tokens -------------------------------
(***************************************************************************)
(* The token endpoint of the OAuth facade (src/auth/oauth_facade/): the    *)
(* authorization codes its callback mints, and refresh tokens, which are   *)
(* single use: each use revokes a token and issues its successor, and the  *)
(* tokens that descend from one are its family.  Signing is the module     *)
(* SigningKeys.                                                            *)
(*                                                                         *)
(* A request authenticates its client, rotates the token in one            *)
(* transaction, compares the token's client with its own, notes the use of *)
(* the client, signs and answers.  Between the steps it can fail, and the  *)
(* client, which did not get an answer, has lost the new token.            *)
(***************************************************************************)
EXTENDS SigningKeys

CONSTANTS
  RefreshTokens,  \* token hashes
  Earlier,        \* those that exist in the beginning, each a family
  Clients,        \* registered clients
  ClientOf,       \* the client of each family
  Codes,          \* authorization codes
  NoToken         \* rotated_to of a token that was not rotated

ASSUME TokenAssumption == /\ Earlier # {} /\ Clients # {}
                          /\ Earlier \subseteq RefreshTokens /\ NoToken \notin RefreshTokens
                          /\ ClientOf \in [Earlier -> Clients]

VARIABLES
  row,      \* oauth_refresh_tokens
  code,     \* oauth_auth_codes: does it exist, has it been consumed, has it expired
  req,      \* progress of each token request
  replayed  \* history: tokens whose family the endpoint has reported revoked

tokenVars == <<row, code, req, replayed>>
vars == <<keyVars, tokenVars>>

Row     == [state     : {"none", "live", "revoked"},
            family    : Earlier,
            rotatedTo : RefreshTokens \cup {NoToken},
            expired   : BOOLEAN]
Code    == [minted : BOOLEAN, consumed : BOOLEAN, expired : BOOLEAN]
Request == [at     : {"idle", "locked", "rotated", "touched", "signing", "done"},
            token  : RefreshTokens \cup {NoToken},  \* the token presented
            new    : RefreshTokens \cup {NoToken},  \* the token issued
            client : Clients,
            answer : {"none", "tokens", "refused", "replay", "race", "failed"}]
NoRow   == [state |-> "none", family |-> CHOOSE t \in Earlier : TRUE,
            rotatedTo |-> NoToken, expired |-> FALSE]

Init ==
  /\ KeysInit
  /\ row = [t \in RefreshTokens |->
             IF t \in Earlier THEN [NoRow EXCEPT !.state = "live", !.family = t] ELSE NoRow]
  /\ code = [c \in Codes |-> [minted |-> FALSE, consumed |-> FALSE, expired |-> FALSE]]
  /\ req = [r \in Requests |-> [at |-> "idle", token |-> NoToken, new |-> NoToken,
                                client |-> CHOOSE c \in Clients : TRUE, answer |-> "none"]]
  /\ replayed = {}

Family(t)   == {u \in RefreshTokens : row[u].state # "none" /\ row[u].family = row[t].family}
Live(t)     == row[t].state = "live"
\* SELECT ... FOR UPDATE: the row of a token one request works on.
Locked(t)   == \E r \in Requests : req[r].at = "locked" /\ req[r].token = t
Answer(r, a) == req' = [req EXCEPT ![r].at = "done", ![r].answer = a]

-----------------------------------------------------------------------------
(* Authorization codes *)

\* callback: the user comes back from Google and gets a code.
MintAuthCode(c) ==
  /\ ~code[c].minted
  /\ code' = [code EXCEPT ![c].minted = TRUE]
  /\ UNCHANGED <<keyVars, row, req, replayed>>

CodeExpires(c) ==
  /\ code[c].minted /\ ~code[c].expired
  /\ code' = [code EXCEPT ![c].expired = TRUE]
  /\ UNCHANGED <<keyVars, row, req, replayed>>

\* What an UPDATE with consumed_at = NULL in its WHERE finds: nothing, as
\* NULL equals nothing.
MatchedByUpdate(c) == FALSE

\* The code grant: consumeAuthCode reads the row and then updates it on the
\* condition that it is not consumed; no row updated means a lost race.
ConsumeAuthCode(r, c) ==
  /\ req[r].at = "idle" /\ Is(r, "away")
  /\ ~MatchedByUpdate(c)
  /\ Answer(r, IF code[c].minted /\ ~code[c].consumed /\ ~code[c].expired
               THEN "race" ELSE "refused")
  /\ UNCHANGED <<keyVars, row, code, replayed>>

-----------------------------------------------------------------------------
(* rotateRefreshToken *)

\* Mutant: SELECT without FOR UPDATE, as before SEC-K-013.
SelectUnlocked(r, t, client) ==
  /\ req[r].at = "idle" /\ Is(r, "away")
  /\ Live(t) /\ ~row[t].expired
  /\ req' = [req EXCEPT ![r].at = "locked", ![r].token = t, ![r].client = client]
  /\ UNCHANGED <<keyVars, row, code, replayed>>

\* SELECT ... FOR UPDATE: a live token is held until its successor is there.
SelectToken(r, t, client) ==
  /\ req[r].at = "idle" /\ Is(r, "away")
  /\ ~Locked(t)
  /\ Live(t) /\ ~row[t].expired
  /\ req' = [req EXCEPT ![r].at = "locked", ![r].token = t, ![r].client = client]
  /\ UNCHANGED <<keyVars, row, code, replayed>>

\* Unknown, or expired.
RefuseToken(r, t) ==
  /\ req[r].at = "idle" /\ Is(r, "away")
  /\ ~Locked(t)
  /\ row[t].state = "none" \/ row[t].expired
  /\ Answer(r, "refused")
  /\ UNCHANGED <<keyVars, row, code, replayed>>

\* A revoked token: revokeRefreshFamily walks the family by rotated_to in
\* both directions and revokes it, waiting for rows that are held, and the
\* exception thrown next rolls the transaction back.
ReplayToken(r, t) ==
  /\ req[r].at = "idle" /\ Is(r, "away")
  /\ row[t].state = "revoked" /\ ~row[t].expired
  /\ \A u \in Family(t) : ~Locked(u)
  /\ Answer(r, "replay")
  /\ replayed' = replayed \cup {t}
  /\ UNCHANGED <<keyVars, row, code>>

\* INSERT of the successor, UPDATE of the token, COMMIT.
RotateToken(r) ==
  LET t == req[r].token IN
  /\ req[r].at = "locked"
  /\ \E n \in {u \in RefreshTokens : row[u].state = "none"} :
       /\ row' = [row EXCEPT ![n] = [NoRow EXCEPT !.state = "live", !.family = row[t].family],
                             ![t].state = "revoked", ![t].rotatedTo = n]
       /\ req' = [req EXCEPT ![r].at = "rotated", ![r].new = n]
  /\ UNCHANGED <<keyVars, code, replayed>>

\* The client of the token is compared after the rotation has committed.
WrongClient(r) ==
  /\ req[r].at = "rotated"
  /\ ClientOf[row[req[r].new].family] # req[r].client
  /\ Answer(r, "refused")
  /\ UNCHANGED <<keyVars, row, code, replayed>>

\* Mutant: any client's request goes on.
TouchUnchecked(r) ==
  /\ req[r].at = "rotated"
  /\ req' = [req EXCEPT ![r].at = "touched"]
  /\ UNCHANGED <<keyVars, row, code, replayed>>

TouchClient(r) ==
  /\ req[r].at = "rotated"
  /\ ClientOf[row[req[r].new].family] = req[r].client
  /\ req' = [req EXCEPT ![r].at = "touched"]
  /\ UNCHANGED <<keyVars, row, code, replayed>>

\* signAccessToken asks for the active key.
AskForKey(r) ==
  /\ req[r].at = "touched"
  /\ Set(r, [Away EXCEPT !.at = "asking"])
  /\ req' = [req EXCEPT ![r].at = "signing"]
  /\ UNCHANGED <<published, active, cache, met, row, code, replayed>>

AnswerTokens(r) ==
  /\ req[r].at = "signing" /\ Is(r, "signed")
  /\ Answer(r, "tokens")
  /\ Set(r, Away)
  /\ UNCHANGED <<published, active, cache, met, row, code, replayed>>

\* A step fails, or storing a new key does: the rotation stays.
RequestFails(r) ==
  /\ req[r].at \in {"locked", "rotated", "touched"}
  /\ Answer(r, "failed")
  /\ UNCHANGED <<keyVars, row, code, replayed>>

KeyFails(r) ==
  /\ StoreFails(r)
  /\ IF req[r].at = "signing" THEN Answer(r, "failed") ELSE UNCHANGED req
  /\ UNCHANGED <<row, code, replayed>>

\* A process restarts; what it was serving is lost.
Restart(p) ==
  /\ \E r \in Requests : ProcOf[r] = p /\ req[r].at \notin {"idle", "done"}
  /\ RestartKeys(p)
  /\ req' = [r \in Requests |->
       IF ProcOf[r] = p /\ req[r].at \notin {"idle", "done"}
       THEN [req[r] EXCEPT !.at = "done", !.answer = "failed"] ELSE req[r]]
  /\ UNCHANGED <<row, code, replayed>>

TokenExpires(t) ==
  /\ row[t].state # "none" /\ ~row[t].expired
  /\ row' = [row EXCEPT ![t].expired = TRUE]
  /\ UNCHANGED <<keyVars, code, req, replayed>>

Refresh(r) ==
  \/ \E t \in RefreshTokens :
       \/ \E client \in Clients : SelectToken(r, t, client)
       \/ RefuseToken(r, t) \/ ReplayToken(r, t)
  \/ RotateToken(r) \/ WrongClient(r) \/ TouchClient(r) \/ AskForKey(r) \/ AnswerTokens(r)
  \/ RequestFails(r) \/ KeyFails(r)

\* rotateSigningKey is called by no request.
Operator(r) == req[r].at = "idle" /\ Rotate(r) /\ Answer(r, "none") /\ UNCHANGED <<row, code, replayed>>

Next ==
  \/ \E c \in Codes : MintAuthCode(c) \/ CodeExpires(c) \/ \E r \in Requests : ConsumeAuthCode(r, c)
  \/ \E r \in Requests : Refresh(r) \/ Operator(r) \/ (Signing(r) /\ UNCHANGED tokenVars)
  \/ \E p \in Procs : Restart(p)
  \/ \E t \in RefreshTokens : TokenExpires(t)

Spec == Init /\ [][Next]_vars

-----------------------------------------------------------------------------
TypeOK ==
  /\ KeysTypeOK
  /\ row \in [RefreshTokens -> Row]
  /\ code \in [Codes -> Code]
  /\ req \in [Requests -> Request]
  /\ replayed \subseteq RefreshTokens

(* However requests with the same token interleave, fail or are repeated, a
   family never forks: it has at most one live token, every other one has been
   rotated into exactly one successor of the family. *)
FamiliesAreChains ==
  /\ \A t, u \in RefreshTokens : Live(t) /\ Live(u) /\ row[t].family = row[u].family => t = u
  /\ \A t, u \in RefreshTokens :
       row[t].rotatedTo = row[u].rotatedTo /\ row[t].rotatedTo # NoToken => t = u
  /\ \A t \in RefreshTokens : row[t].state = "revoked" => row[t].rotatedTo \in Family(t) \ {t}

(* A token is issued to one request, and a request that is answered with
   tokens is of the client the family belongs to. *)
IssuedOnce ==
  \A r, s \in Requests :
    /\ req[r].new # NoToken /\ req[r].new = req[s].new => r = s
    /\ req[r].answer = "tokens" => ClientOf[row[req[r].new].family] = req[r].client

(* "refresh token replay - token family revoked": the answer says that no
   token of the family is live any more. *)
ReplayRevokesTheFamily ==
  \A t \in replayed : \A u \in Family(t) : ~Live(u)
=============================================================================
