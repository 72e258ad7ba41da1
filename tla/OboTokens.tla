------------------------------ MODULE OboTokens ------------------------------
(***************************************************************************)
(* Requests on behalf of a user (src/auth/on_behalf_of.ts, combined in     *)
(* require_jwt_or_obo.ts) and erase receipts (src/auth/erase_receipt.ts):  *)
(* tokens signed by approval2, each with an id, the jti, that the table    *)
(* obo_jti_seen lets through once.  The sweep (src/crons/sweep.ts) deletes *)
(* the ids of tokens that expired.                                         *)
(*                                                                         *)
(* The token's signature and time are checked first, then the user, and    *)
(* the id last, each in a step of its own, while the clock goes on.        *)
(***************************************************************************)
EXTENDS Users

CONSTANTS
  Requests,  \* requests that can be under way at the same time
  Tokens,    \* on-behalf-of tokens, named by their jti
  Receipts,  \* erase receipts
  Legacy,    \* on-behalf-of tokens without jti or exp
  Approved,  \* tokens with an approval_id
  Claims,    \* the email and the sub of each on-behalf-of token
  Expiry,    \* exp of each token
  Grace,     \* what the row of a token outlives it, 60 s
  MaxTime    \* bound: of the clock

Signed == Tokens \cup Receipts

ASSUME TokenAssumption ==
  /\ Signed # {} /\ Tokens \cap Receipts = {} /\ Legacy \subseteq Tokens /\ Approved \subseteq Tokens
  /\ Claims \in [Tokens -> [email : Emails, sub : Ids]]
  /\ Expiry \in [Signed -> Nat] /\ Grace \in Nat /\ MaxTime \in Nat

VARIABLES
  now,       \* the clock, in units of time
  seen,      \* obo_jti_seen: the ids it holds
  req,       \* progress of each request
  accepted,  \* history: how often a token was let through, up to 2
  slow       \* history: tokens whose id was inserted late in some request

oboVars == <<now, seen, req, accepted, slow>>
vars == <<userVars, oboVars>>

NoToken == CHOOSE t \in Signed : TRUE
Request == [at : {"idle", "verified", "resolved"}, token : Signed, write : BOOLEAN, since : 0 .. MaxTime]
NoRequest == [at |-> "idle", token |-> NoToken, write |-> FALSE, since |-> 0]

Init ==
  /\ UsersInit
  /\ now = 0 /\ seen = {} /\ slow = {}
  /\ req = [r \in Requests |-> NoRequest]
  /\ accepted = [t \in Signed |-> 0]

End(r)      == req' = [req EXCEPT ![r] = NoRequest]
Accept(t)   == accepted' = [accepted EXCEPT ![t] = IF @ < 2 THEN @ + 1 ELSE @]
Expired(t)  == now >= Expiry[t] /\ t \notin Legacy

\* jwtVerify: signature, issuer, audience, exp.
VerifyToken(r, t, write) ==
  /\ req[r].at = "idle"
  /\ NewCall
  /\ ~Expired(t)
  /\ req' = [req EXCEPT ![r] = [at |-> IF t \in Receipts THEN "resolved" ELSE "verified",
                                token |-> t, write |-> write, since |-> now]]
  /\ UNCHANGED <<user, invite, login, sync, first, met, now, seen, accepted, slow>>

\* resolveByEmail: an active user, with the token's sub unless that is not known.
ResolveUser(r) ==
  LET claim == Claims[req[r].token]
      u     == user[claim.email]
  IN
  /\ req[r].at = "verified"
  /\ IF u.status = "active" /\ u.ext \in {NoId, claim.sub}
     THEN req' = [req EXCEPT ![r].at = "resolved"]
     ELSE End(r)
  /\ UNCHANGED <<userVars, now, seen, accepted, slow>>

\* A write needs an approval id.  That is asked when the id is spent already.
Permitted(r) == req[r].write /\ req[r].token \in Tokens => req[r].token \in Approved

\* INSERT ... ON CONFLICT DO NOTHING of the id, or a unique violation in case
\* of a receipt; no row inserted means a replay.  A token without an id passes.
SpendId(r) ==
  LET t == req[r].token IN
  /\ req[r].at = "resolved"
  /\ IF t \in seen THEN UNCHANGED <<seen, accepted, slow>>
     ELSE /\ seen' = IF t \in Legacy THEN seen ELSE seen \cup {t}
          /\ slow' = IF now - req[r].since > Grace THEN slow \cup {t} ELSE slow
          /\ IF Permitted(r) THEN Accept(t) ELSE UNCHANGED accepted
  /\ End(r)
  /\ UNCHANGED <<userVars, now>>

RequestFails(r) ==
  /\ req[r].at # "idle"
  /\ End(r)
  /\ UNCHANGED <<userVars, now, seen, accepted, slow>>

\* Mutant: the row goes when the token expires.
SweepAtExpiry ==
  /\ seen' = {t \in seen : t \in Receipts \/ ~(Expiry[t] < now)}
  /\ seen' # seen
  /\ UNCHANGED <<userVars, now, req, accepted, slow>>

\* sweepOboJtiSeen compares seconds.  Receipts write milliseconds into the
\* same column, so that their rows stay.
Sweep ==
  /\ seen' = {t \in seen : t \in Receipts \/ ~(Expiry[t] + Grace < now)}
  /\ seen' # seen
  /\ UNCHANGED <<userVars, now, req, accepted, slow>>

Tick ==
  /\ now < MaxTime
  /\ now' = now + 1
  /\ UNCHANGED <<userVars, seen, req, accepted, slow>>

Next ==
  \/ UsersNext /\ UNCHANGED oboVars
  \/ \E r \in Requests :
       \/ \E t \in Signed, write \in BOOLEAN : VerifyToken(r, t, write)
       \/ ResolveUser(r) \/ SpendId(r) \/ RequestFails(r)
  \/ Sweep \/ Tick

Spec == Init /\ [][Next]_vars

-----------------------------------------------------------------------------
TypeOK ==
  /\ UsersTypeOK
  /\ now \in 0 .. MaxTime
  /\ seen \subseteq Signed \ Legacy
  /\ req \in [Requests -> Request]
  /\ accepted \in [Signed -> 0 .. 2]
  /\ slow \subseteq Signed

(* A token with an id is let through once, although the sweep forgets the id:
   twice only if a request took longer than the grace period from the check of
   the token's time to the check of its id.  A receipt is good for one erasure
   in any case. *)
TokensAreSpentOnce ==
  /\ \A t \in Tokens \ Legacy : accepted[t] > 1 => t \in slow
  /\ \A t \in Receipts : accepted[t] <= 1
=============================================================================
