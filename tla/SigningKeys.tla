----------------------------- MODULE SigningKeys -----------------------------
(***************************************************************************)
(* The keys that sign access tokens (src/auth/signing_keys.ts), shared by  *)
(* several processes.  Each process caches the active key for its          *)
(* lifetime.  A request that finds no active key makes one; nothing keeps  *)
(* two requests, of one process or of two, from doing so at once, and the  *)
(* index on active rows is not unique.                                     *)
(*                                                                         *)
(* A request is at a stage of its own here; the module Tokens starts it    *)
(* and goes on from "signed".                                              *)
(***************************************************************************)
EXTENDS Integers, FiniteSets

CONSTANTS
  Procs,     \* server processes
  Requests,  \* requests that sign, and calls of rotateSigningKey
  ProcOf,    \* the process that serves each
  Kids,      \* key ids
  NoKid      \* no key

ASSUME ProcAssumption == ProcOf \in [Requests -> Procs]
ASSUME KidAssumption  == NoKid \notin Kids

VARIABLES
  published,  \* signing_keys: the key ids that have a row
  active,     \* those whose row is active
  cache,      \* cachedActive of each process
  signer,     \* progress of each request
  met         \* history: pairs of keys whose transactions overlapped

keyVars == <<published, active, cache, signer, met>>

Steps  == {"away", "asking", "looking", "loading", "making", "storing", "stored", "signed"}
Signer == [at   : Steps,
           kid  : Kids \cup {NoKid},  \* the key it loaded or made
           old  : SUBSET Kids,        \* the rows its UPDATE turns off
           keep : BOOLEAN]            \* it caches the key it has made
Away   == [at |-> "away", kid |-> NoKid, old |-> {}, keep |-> TRUE]

KeysInit ==
  /\ published = {} /\ active = {} /\ met = {}
  /\ cache = [p \in Procs |-> NoKid]
  /\ signer = [r \in Requests |-> Away]

Inventing   == {"making", "storing", "stored"}
InUse       == published \cup {signer[r].kid : r \in Requests}
Set(r, f)   == signer' = [signer EXCEPT ![r] = f]
Is(r, stage) == signer[r].at = stage

\* getActiveSigningKey: the cached key ...
UseCached(r) ==
  /\ Is(r, "asking")
  /\ cache[ProcOf[r]] # NoKid
  /\ Set(r, [Away EXCEPT !.at = "signed", !.kid = cache[ProcOf[r]]])
  /\ UNCHANGED <<published, active, cache, met>>

\* ... or, for a request that found none cached, whatever is cached since, ...
LookUp(r) ==
  /\ Is(r, "asking")
  /\ cache[ProcOf[r]] = NoKid
  /\ Set(r, [Away EXCEPT !.at = "looking"])
  /\ UNCHANGED <<published, active, cache, met>>

\* ... one of the active rows, which is decrypted after the SELECT ...
LoadActive(r) ==
  /\ Is(r, "looking")
  /\ \E k \in active : Set(r, [Away EXCEPT !.at = "loading", !.kid = k])
  /\ UNCHANGED <<published, active, cache, met>>

CacheLoaded(r) ==
  /\ Is(r, "loading")
  /\ cache' = [cache EXCEPT ![ProcOf[r]] = signer[r].kid]
  /\ Set(r, [signer[r] EXCEPT !.at = "signed"])
  /\ UNCHANGED <<published, active, met>>

\* ... or, when there is none, a new key.
Generate(r, keep) ==
  \E k \in Kids \ InUse : Set(r, [Away EXCEPT !.at = "making", !.kid = k, !.keep = keep])

\* Mutant: the key is cached before its transaction has committed.
CachedUnstored(r) ==
  /\ Is(r, "looking")
  /\ active = {}
  /\ \E k \in Kids \ InUse :
       /\ Set(r, [Away EXCEPT !.at = "making", !.kid = k, !.keep = TRUE])
       /\ cache' = [cache EXCEPT ![ProcOf[r]] = k]
  /\ UNCHANGED <<published, active, met>>

Bootstrap(r) ==
  /\ Is(r, "looking")
  /\ active = {}
  /\ Generate(r, TRUE)
  /\ UNCHANGED <<published, active, cache, met>>

\* rotateSigningKey clears the cache and does not fill it.
Rotate(r) ==
  /\ Is(r, "away")
  /\ Generate(r, FALSE)
  /\ cache' = [cache EXCEPT ![ProcOf[r]] = NoKid]
  /\ UNCHANGED <<published, active, met>>

\* generateAndStoreKey, one transaction.  The UPDATE takes the rows that are
\* active when it starts ...
Deactivate(r) ==
  /\ Is(r, "making")
  /\ Set(r, [signer[r] EXCEPT !.at = "storing", !.old = active])
  /\ met' = met \cup {{signer[r].kid, signer[s].kid} :
                       s \in {q \in Requests \ {r} : signer[q].at \in {"storing", "stored"}}}
  /\ UNCHANGED <<published, active, cache>>

\* ... and waits for those that another transaction is turning off.
LockRows(r) ==
  /\ Is(r, "storing")
  /\ \A q \in Requests \ {r} : Is(q, "stored") => signer[q].old \cap signer[r].old = {}
  /\ Set(r, [signer[r] EXCEPT !.at = "stored", !.old = @ \cap active])
  /\ UNCHANGED <<published, active, cache, met>>

\* Mutant: the INSERT commits first, the old rows are left to a later call.
InsertOnly(r) ==
  /\ Is(r, "stored")
  /\ published' = published \cup {signer[r].kid}
  /\ active' = active \cup {signer[r].kid}
  /\ cache' = IF signer[r].keep THEN [cache EXCEPT ![ProcOf[r]] = signer[r].kid] ELSE cache
  /\ Set(r, IF signer[r].keep THEN [signer[r] EXCEPT !.at = "signed", !.old = {}] ELSE Away)
  /\ UNCHANGED met

\* INSERT and COMMIT; a bootstrap then fills the cache and goes on to sign.
StoreKey(r) ==
  /\ Is(r, "stored")
  /\ published' = published \cup {signer[r].kid}
  /\ active' = (active \ signer[r].old) \cup {signer[r].kid}
  /\ cache' = IF signer[r].keep THEN [cache EXCEPT ![ProcOf[r]] = signer[r].kid] ELSE cache
  /\ Set(r, IF signer[r].keep THEN [signer[r] EXCEPT !.at = "signed", !.old = {}] ELSE Away)
  /\ UNCHANGED met

\* The transaction fails: rolled back, and the request with it.
StoreFails(r) ==
  /\ signer[r].at \in Inventing
  /\ Set(r, Away)
  /\ UNCHANGED <<published, active, cache, met>>

\* A restart empties the process's cache and ends its requests.
RestartKeys(p) ==
  /\ cache' = [cache EXCEPT ![p] = NoKid]
  /\ signer' = [r \in Requests |-> IF ProcOf[r] = p THEN Away ELSE signer[r]]
  /\ UNCHANGED <<published, active, met>>

Signing(r) ==
  \/ UseCached(r) \/ LookUp(r) \/ LoadActive(r) \/ CacheLoaded(r) \/ Bootstrap(r)
  \/ Deactivate(r) \/ LockRows(r) \/ StoreKey(r)

-----------------------------------------------------------------------------
KeysTypeOK ==
  /\ published \subseteq Kids /\ active \subseteq published
  /\ cache \in [Procs -> Kids \cup {NoKid}]
  /\ signer \in [Requests -> Signer]
  /\ met \subseteq SUBSET Kids

(* A token is signed only with a key whose public half is in the published
   set, so that every verifier that fetches the set can check it; and the set
   never loses a key. *)
SignedKeysArePublished ==
  /\ \A r \in Requests : Is(r, "signed") => signer[r].kid \in published
  /\ \A p \in Procs : cache[p] \in published \cup {NoKid}

(* Each new key turns off the ones before it.  Several active keys therefore
   come only from transactions that overlapped, and once there is a key there
   is an active one, across rotations, failures and restarts. *)
ActiveKeysOverlapped ==
  /\ published # {} => active # {}
  /\ \A j, k \in active : j = k \/ {j, k} \in met
=============================================================================
