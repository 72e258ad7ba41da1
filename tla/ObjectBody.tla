----------------------------- MODULE ObjectBody -----------------------------
(***************************************************************************)
(* The encrypted body of one object (src/storage/objects.ts,               *)
(* lazy-migration.ts, shares.ts, group-ownership-crypto.ts).               *)
(*                                                                         *)
(* The row holds the nonce of the current ciphertext and, when the body is *)
(* small, the ciphertext; a large one is in the bucket under objects/<id>, *)
(* always the same key, put there before the transaction commits.  A body  *)
(* is sealed with the owner's key until the object is first shared with a  *)
(* group: lazyMigrateToPerObject then seals it with a random key of its    *)
(* own, under the row lock createShareWithGroup took.  updateObject reads  *)
(* the row without a lock and decides by what it read; it meets the lock   *)
(* when it inserts the old body into object_revisions.                     *)
(***************************************************************************)
EXTENDS Integers

CONSTANTS
  Writers,  \* the updateObject calls that replace the body
  Groups,   \* whom the object may be shared with
  MaxKeys   \* bound: how many random keys are generated

ASSUME WritersAssumption == "first" \notin Writers
ASSUME KeysAssumption    == MaxKeys \in Nat

VARIABLES
  row,        \* objects: key of the body, its ciphertext by nonce, place, version
  blob,       \* the ciphertext the bucket holds
  revisions,  \* object_revisions
  writer,     \* progress of each updateObject call, and the row it read
  share,      \* the call that holds the row lock: createShareWithGroup, or a move
  grant,      \* share_grants: the key wrapped for each group, NoKey if none
  keys,       \* how many random keys were generated
  acked,      \* history: writers whose update committed
  clashed     \* history: a put was rolled back, or an update outlived a migration

vars == <<row, blob, revisions, writer, share, grant, keys, acked, clashed>>

\* Key 0 is the owner's (dek_scheme owner_hkdf), the others are random
\* (per_object).  A ciphertext is told by its body and key: nothing is sealed
\* twice with one key, so different ciphertexts have different nonces.
OwnerKey == 0
NoKey    == -1
Keys     == 0..MaxKeys
Bodies   == Writers \cup {"first"}
Cipher   == [body : Bodies, key : Keys]
NoCipher == [body |-> "none", key |-> NoKey]
Seal(b, k) == [body |-> b, key |-> k]

Places  == {"inline", "blob"}
Row     == [key : Keys, cipher : Cipher, place : Places, version : Nat \ {0}]
Revision == [version : Nat \ {0}, cipher : Cipher, place : Places]
Unlocked == [at |-> "idle", key |-> NoKey]

\* What readObject decrypts, and whether the row's nonce and key fit it.
Held  == IF row.place = "inline" THEN row.cipher ELSE blob
Opens == Held = row.cipher /\ row.cipher.key = row.key

\* createObject has committed.
Init ==
  /\ \E place \in Places :
       /\ row = [key |-> OwnerKey, cipher |-> Seal("first", OwnerKey),
                 place |-> place, version |-> 1]
       /\ blob = IF place = "blob" THEN Seal("first", OwnerKey) ELSE NoCipher
  /\ revisions = {}
  /\ writer = [w \in Writers |-> [at |-> "idle", seen |-> row]]
  /\ share = Unlocked
  /\ grant = [g \in Groups |-> NoKey]
  /\ keys = 0
  /\ acked = {}
  /\ clashed = FALSE

-----------------------------------------------------------------------------
(* updateObject with a body, by the owner *)

UpdateRead(w) ==
  /\ writer[w].at = "idle"
  /\ writer' = [writer EXCEPT ![w] = [at |-> "read", seen |-> row]]
  /\ UNCHANGED <<row, blob, revisions, share, grant, keys, acked, clashed>>

\* A large body is put in the bucket, over whatever is there.
UpdatePut(w) ==
  /\ writer[w].at = "read"
  /\ blob' = Seal(w, writer[w].seen.key)
  /\ writer' = [writer EXCEPT ![w].at = "put"]
  /\ UNCHANGED <<row, revisions, share, grant, keys, acked, clashed>>

\* Mutant: a revision that exists already is left as it is.
UpdateCommitsOver(w) ==
  /\ writer[w].at \in {"read", "put"}
  /\ share = Unlocked
  /\ LET seen == writer[w].seen IN
       /\ revisions' = revisions \cup
            IF \A r \in revisions : r.version # seen.version
              THEN {[version |-> seen.version, cipher |-> seen.cipher, place |-> seen.place]}
              ELSE {}
       /\ row' = [row EXCEPT !.cipher  = Seal(w, seen.key),
                             !.place   = IF writer[w].at = "put" THEN "blob" ELSE "inline",
                             !.version = seen.version + 1]
       /\ clashed' = (clashed \/ row.key # seen.key)
  /\ writer' = [writer EXCEPT ![w].at = "ok"]
  /\ acked' = acked \cup {w}
  /\ UNCHANGED <<blob, share, grant, keys>>

\* The old body goes to object_revisions under the version that was read: the
\* foreign key waits for the row lock, the primary key refuses a version that
\* is there.  The final UPDATE sets neither dek_scheme nor owner_wrapped_dek.
UpdateCommit(w) ==
  /\ writer[w].at \in {"read", "put"}
  /\ share = Unlocked
  /\ LET seen == writer[w].seen IN
       /\ \A r \in revisions : r.version # seen.version
       /\ revisions' = revisions \cup {[version |-> seen.version, cipher |-> seen.cipher,
                                          place |-> seen.place]}
       /\ row' = [row EXCEPT !.cipher  = Seal(w, seen.key),
                             !.place   = IF writer[w].at = "put" THEN "blob" ELSE "inline",
                             !.version = seen.version + 1]
       /\ clashed' = (clashed \/ row.key # seen.key)
  /\ writer' = [writer EXCEPT ![w].at = "ok"]
  /\ acked' = acked \cup {w}
  /\ UNCHANGED <<blob, share, grant, keys>>

\* A failed check or service, a refused statement or a lost process.  The
\* bucket keeps what was put.
UpdateFails(w) ==
  /\ writer[w].at \in {"read", "put"}
  /\ writer' = [writer EXCEPT ![w].at = "failed"]
  /\ clashed' = (clashed \/ writer[w].at = "put")
  /\ UNCHANGED <<row, blob, revisions, share, grant, keys, acked>>

-----------------------------------------------------------------------------
(* createShareWithGroup, one call at a time: it starts with the row lock.     *)
(* moveObjectToGroup and transferObjectOwnership take the same lock and make  *)
(* the same migration, and the database refuses their last UPDATE, so they    *)
(* are calls that end in ShareFails: the first always (a CHECK of migration   *)
(* 0019), the second because the new row is not the caller's (row-level       *)
(* security, 0028), unless a grant to write is left to the caller.  That one  *)
(* case is not modelled, and the owner stays the owner.                       *)

ShareLock ==
  /\ share = Unlocked
  /\ share' = [at |-> "locked", key |-> row.key]
  /\ UNCHANGED <<row, blob, revisions, writer, grant, keys, acked, clashed>>

\* Mutant: an object that has a key of its own is migrated once more.
OpensAnyKey ==
  /\ share.at = "locked"
  /\ Opens
  /\ share' = [share EXCEPT !.at = "opened"]
  /\ UNCHANGED <<row, blob, revisions, writer, grant, keys, acked, clashed>>

\* lazyMigrateToPerObject: the body is read and opened with the owner's key,
MigrateOpen ==
  /\ share.at = "locked"
  /\ row.key = OwnerKey
  /\ Opens
  /\ share' = [share EXCEPT !.at = "opened"]
  /\ UNCHANGED <<row, blob, revisions, writer, grant, keys, acked, clashed>>

\* sealed with a new one, and put back where it was found.
MigratePut ==
  /\ share.at = "opened"
  /\ keys < MaxKeys
  /\ keys' = keys + 1
  /\ share' = [at |-> "migrated", key |-> keys + 1]
  /\ blob' = IF row.place = "blob" THEN Seal(row.cipher.body, keys + 1) ELSE blob
  /\ UNCHANGED <<row, revisions, writer, grant, acked, clashed>>

\* Mutant: the row's nonce is not set with its key.
ShareKeepsNonce(g) ==
  /\ share.at = "migrated" \/ (share.at = "locked" /\ row.key # OwnerKey)
  /\ row' = [row EXCEPT !.key = share.key]
  /\ grant' = IF grant[g] = NoKey THEN [grant EXCEPT ![g] = share.key] ELSE grant
  /\ share' = Unlocked
  /\ UNCHANGED <<blob, revisions, writer, keys, acked, clashed>>

\* The row gets key, nonce and ciphertext together, and the group its grant,
\* unless it has one (ON CONFLICT DO NOTHING).
ShareCommit(g) ==
  /\ share.at = "migrated" \/ (share.at = "locked" /\ row.key # OwnerKey)
  /\ row' = IF share.at = "migrated"
              THEN [row EXCEPT !.key = share.key, !.cipher.key = share.key]
              ELSE row
  /\ grant' = IF grant[g] = NoKey THEN [grant EXCEPT ![g] = share.key] ELSE grant
  /\ share' = Unlocked
  /\ UNCHANGED <<blob, revisions, writer, keys, acked, clashed>>

ShareFails ==
  /\ share # Unlocked
  /\ share' = Unlocked
  /\ clashed' = (clashed \/ (share.at = "migrated" /\ row.place = "blob"))
  /\ UNCHANGED <<row, blob, revisions, writer, grant, keys, acked>>

RevokeShare(g) ==
  /\ grant[g] # NoKey
  /\ grant' = [grant EXCEPT ![g] = NoKey]
  /\ UNCHANGED <<row, blob, revisions, writer, share, keys, acked, clashed>>

Next ==
  \/ \E w \in Writers : UpdateRead(w) \/ UpdatePut(w) \/ UpdateCommit(w) \/ UpdateFails(w)
  \/ ShareLock \/ MigrateOpen \/ MigratePut \/ ShareFails
  \/ \E g \in Groups : ShareCommit(g) \/ RevokeShare(g)

Spec == Init /\ [][Next]_vars

-----------------------------------------------------------------------------
(* Properties *)

TypeOK ==
  /\ row \in Row
  /\ blob \in Cipher \cup {NoCipher}
  /\ revisions \subseteq Revision
  /\ writer \in [Writers -> [at : {"idle", "read", "put", "ok", "failed"}, seen : Row]]
  /\ share \in [at : {"idle", "locked", "opened", "migrated"}, key : Keys \cup {NoKey}]
  /\ grant \in [Groups -> Keys \cup {NoKey}]
  /\ keys \in Keys
  /\ acked \subseteq Writers
  /\ clashed \in BOOLEAN

\* Every group was given the key the row is under now, however many groups the
\* object was shared with, one after the other or at once.
GrantsHoldTheKey == \A g \in Groups : grant[g] # NoKey => grant[g] = row.key

\* Although updates read the row without a lock, none that was acknowledged is
\* overwritten as if it had never been (a lost update): it is the row's version
\* or went on record as a revision.  What the bucket holds for either is another
\* matter: see ReadableUnlessClashed and RevisionsAreHeld.
AckedUpdatesAreOnRecord ==
  \A w \in acked : row.cipher.body = w \/ \E r \in revisions : r.cipher.body = w

\* Once no call is between its put and its commit, the owner can read the body,
\* except after a put was rolled back or an update outlived a migration: those
\* two, and nothing else, make a body unreadable.
ReadableUnlessClashed ==
  ~clashed /\ share.at # "migrated" /\ (\A w \in Writers : writer[w].at # "put") => Opens

\* Every body there was: those on record in the revisions, then the row's.
Recorded(v) == (CHOOSE r \in revisions : r.version = v).cipher.body
History     == [v \in 1 .. row.version |->
                 IF v < row.version THEN Recorded(v) ELSE row.cipher.body]

(* An update compares nothing with the row when it writes, and migrations seal
   the body again under its hands.  All the same it replaces the body it read
   and no other, by one atomic comparison with the end of the history, and a
   migration, its failure or a revoked grant rewrites no history. *)
Versioned == INSTANCE VersionedBody
             WITH Clients <- Writers,
                  First   <- "first",
                  history <- History,
                  expects <- [w \in Writers |-> IF writer[w].at \in {"read", "put"}
                                                  THEN writer[w].seen.version ELSE 0]
ImplementsVersioned == Versioned!Spec

-----------------------------------------------------------------------------
(* What a document says of the program, and the program does not do          *)

\* An update that runs into a migration waits for its row lock and then sees
\* dek_scheme per_object (CRYPTO-REVIEW-GROUP-SHARING-2026-05-17.md, section
\* 3.2): the row's ciphertext is under the key the row names.
CipherFitsTheKey == row.cipher.key = row.key

\* updateObject's comment on the revision it writes: it is decryptable as the
\* live row was.  For that its ciphertext must at least be there still, in the
\* revision or under the blob key the revision names.
RevisionsAreHeld == \A r \in revisions : r.place = "blob" => blob = r.cipher
=============================================================================
