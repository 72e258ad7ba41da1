-------------------------- MODULE ObjectBodyProofs --------------------------
(***************************************************************************)
(* One object's body, for every number of updates, groups and keys.  BInv  *)
(* adds to the properties that the versions below the row's are exactly    *)
(* the revisions, so that the primary key of object_revisions tells an     *)
(* update whether the row is still the one it read; and that a share under *)
(* way holds a lock, so the row's key cannot change between its steps.     *)
(***************************************************************************)
EXTENDS ObjectBody, Sequences, TLAPS

\* A version below the row's has a revision, and one a writer read is no later.
VersionsAreKept ==
  /\ \A v \in Nat \ {0} : v < row.version => \E r \in revisions : r.version = v
  /\ \A w \in Writers :
       /\ writer[w].seen.version <= row.version
       /\ writer[w].seen.version = row.version => writer[w].seen.cipher.body = row.cipher.body

\* The row has a key of its own once it has a grant; a migration under way found
\* it under the owner's key.
ShareHoldsTheRow ==
  /\ \A g \in Groups : grant[g] # NoKey => row.key # OwnerKey
  /\ share.at = "locked" => share.key = row.key
  /\ share.at \in {"opened", "migrated"} => row.key = OwnerKey
  /\ share.at = "migrated" => share.key \in Keys \ {OwnerKey}

BInv ==
  /\ TypeOK
  /\ GrantsHoldTheKey
  /\ AckedUpdatesAreOnRecord
  /\ VersionsAreKept
  /\ ShareHoldsTheRow

\* Bodies sealed with a key are ciphertexts.
LEMMA SealIsCipher ==
  ASSUME NEW b \in Bodies, NEW k \in Keys
  PROVE  Seal(b, k) \in Cipher /\ Seal(b, k).body = b /\ Seal(b, k).key = k
  BY DEF Seal, Cipher

LEMMA BodyInit == Init => BInv
  <1> SUFFICES ASSUME Init PROVE BInv
    OBVIOUS
  <1>1. Seal("first", OwnerKey) \in Cipher /\ OwnerKey \in Keys
    BY KeysAssumption DEF Seal, Cipher, Bodies, Keys, OwnerKey
  <1>2. row \in Row /\ row.version = 1 /\ row.key = OwnerKey
    BY <1>1 DEF Init, Row, Places
  <1>3. TypeOK
    <2>1. blob \in Cipher \cup {NoCipher}
      BY <1>1 DEF Init
    <2>2. writer \in [Writers -> [at : {"idle", "read", "put", "ok", "failed"}, seen : Row]]
      BY <1>2 DEF Init
    <2>3. /\ share \in [at : {"idle", "locked", "opened", "migrated"}, key : Keys \cup {NoKey}]
          /\ grant \in [Groups -> Keys \cup {NoKey}] /\ keys \in Keys
      BY KeysAssumption DEF Init, Unlocked, Keys
    <2>4. QED
      BY <1>2, <2>1, <2>2, <2>3 DEF Init, TypeOK
  <1>4. GrantsHoldTheKey /\ AckedUpdatesAreOnRecord
    BY DEF Init, GrantsHoldTheKey, AckedUpdatesAreOnRecord
  <1>5. VersionsAreKept /\ ShareHoldsTheRow
    BY <1>2 DEF Init, VersionsAreKept, ShareHoldsTheRow, Unlocked
  <1>6. QED
    BY <1>3, <1>4, <1>5 DEF BInv

-----------------------------------------------------------------------------

\* A step of one writer before its commit.
LEMMA WriterMoves ==
  ASSUME BInv, NEW w \in Writers,
         UpdateRead(w) \/ UpdatePut(w) \/ UpdateFails(w)
  PROVE  BInv'
  <1>1. row' = row /\ UNCHANGED <<revisions, share, grant, keys, acked>>
    BY DEF UpdateRead, UpdatePut, UpdateFails
  <1>2. /\ \A u \in Writers : writer'[u].seen \in {writer[u].seen, row}
        /\ writer' \in [Writers -> [at : {"idle", "read", "put", "ok", "failed"}, seen : Row]]
    BY DEF UpdateRead, UpdatePut, UpdateFails, BInv, TypeOK
  <1>3. blob' \in Cipher \cup {NoCipher} /\ clashed' \in BOOLEAN
    <2>1. writer[w].seen.key \in Keys
      BY DEF BInv, TypeOK, Row
    <2>2. Seal(w, writer[w].seen.key) \in Cipher
      BY <2>1, SealIsCipher DEF Bodies
    <2>3. blob' \in Cipher \cup {NoCipher}
      BY <2>2 DEF UpdateRead, UpdatePut, UpdateFails, BInv, TypeOK
    <2>4. clashed' \in BOOLEAN
      BY DEF UpdateRead, UpdatePut, UpdateFails, BInv, TypeOK
    <2>5. QED
      BY <2>3, <2>4
  <1>4. TypeOK'
    BY <1>1, <1>2, <1>3 DEF BInv, TypeOK
  <1>5. VersionsAreKept'
    <2>1. row.version \in Nat
      BY DEF BInv, TypeOK, Row
    <2>2. QED
      BY <1>1, <1>2, <2>1 DEF BInv, VersionsAreKept
  <1>6. QED
    BY <1>1, <1>4, <1>5 DEF BInv, GrantsHoldTheKey, AckedUpdatesAreOnRecord, ShareHoldsTheRow

\* An update that commits found no revision of the version it read, so the row
\* still holds the body it read, and that body is kept as the revision.
LEMMA UpdateCommits ==
  ASSUME BInv, NEW w \in Writers, UpdateCommit(w)
  PROVE  BInv'
  <1> DEFINE seen == writer[w].seen
             old  == [version |-> seen.version, cipher |-> seen.cipher, place |-> seen.place]
  <1>1. /\ seen \in Row /\ row \in Row
        /\ seen.version \in Nat \ {0} /\ row.version \in Nat \ {0}
        /\ seen.key \in Keys /\ seen.cipher \in Cipher /\ seen.place \in Places
    BY DEF BInv, TypeOK, Row
  <1>2. \A r \in revisions : r.version # seen.version
    BY DEF UpdateCommit
  <1>3. seen.version = row.version /\ seen.cipher.body = row.cipher.body
    BY <1>1, <1>2 DEF BInv, VersionsAreKept
  <1>4. /\ revisions' = revisions \cup {old}
        /\ acked' = acked \cup {w}
        /\ writer' = [writer EXCEPT ![w].at = "ok"]
        /\ UNCHANGED <<blob, share, grant, keys>>
        /\ share = Unlocked
    BY DEF UpdateCommit
  <1>5. /\ Seal(w, seen.key) \in Cipher /\ Seal(w, seen.key).body = w
    BY <1>1, SealIsCipher DEF Bodies
  <1>6. PICK place \in Places :
          row' = [row EXCEPT !.cipher = Seal(w, seen.key), !.place = place,
                             !.version = seen.version + 1]
    BY DEF UpdateCommit, Places
  <1>7. /\ row' \in Row
        /\ row'.cipher.body = w /\ row'.version = row.version + 1 /\ row'.key = row.key
    <2>1. row' = [key |-> row.key, cipher |-> Seal(w, seen.key), place |-> place,
                  version |-> row.version + 1]
      BY <1>1, <1>3, <1>6 DEF Row
    <2> HIDE DEF seen
    <2>2. QED
      BY <1>1, <1>5, <2>1 DEF Row
  <1>8. /\ writer' \in [Writers -> [at : {"idle", "read", "put", "ok", "failed"}, seen : Row]]
        /\ \A u \in Writers : writer'[u].seen = writer[u].seen
    BY <1>4 DEF BInv, TypeOK
  <1>9. TypeOK'
    <2>1. clashed' \in BOOLEAN
      BY DEF UpdateCommit, BInv, TypeOK
    <2>2. revisions' \subseteq Revision
      BY <1>1, <1>4 DEF BInv, TypeOK, Revision
    <2>3. QED
      BY <1>4, <1>7, <1>8, <2>1, <2>2 DEF BInv, TypeOK
  <1>10. AckedUpdatesAreOnRecord'
    <2> SUFFICES ASSUME NEW u \in acked', u # w
                 PROVE  \E r \in revisions' : r.cipher.body = u
      BY <1>7 DEF AckedUpdatesAreOnRecord
    <2>1. row.cipher.body = u \/ \E r \in revisions : r.cipher.body = u
      BY <1>4 DEF BInv, AckedUpdatesAreOnRecord
    <2>2. old \in revisions' /\ old.cipher.body = row.cipher.body
      BY <1>3, <1>4
    <2>3. QED
      BY <1>4, <2>1, <2>2
  <1>11. VersionsAreKept'
    <2>1. ASSUME NEW v \in Nat \ {0}, v < row'.version
          PROVE  \E r \in revisions' : r.version = v
      <3>1. CASE v = row.version
        <4>1. old \in revisions' /\ old.version = v
          BY <1>3, <1>4, <3>1
        <4>2. QED
          BY <4>1
      <3>2. CASE v < row.version
        BY <1>4, <3>2 DEF BInv, VersionsAreKept
      <3>3. QED
        BY <1>1, <1>7, <2>1, <3>1, <3>2
    <2>2. \A u \in Writers : writer[u].seen.version \in Nat /\ writer[u].seen.version <= row.version
      BY DEF BInv, TypeOK, Row, VersionsAreKept
    <2>3. QED
      BY <1>1, <1>7, <1>8, <2>1, <2>2 DEF VersionsAreKept
  <1>12. GrantsHoldTheKey' /\ ShareHoldsTheRow'
    BY <1>4, <1>7 DEF BInv, GrantsHoldTheKey, ShareHoldsTheRow
  <1>13. QED
    BY <1>9, <1>10, <1>11, <1>12 DEF BInv

-----------------------------------------------------------------------------

\* A step of a share that leaves the row and the grants alone.
LEMMA ShareMoves ==
  ASSUME BInv, ShareLock \/ MigrateOpen \/ MigratePut \/ ShareFails
  PROVE  BInv'
  <1>1. UNCHANGED <<row, revisions, writer, grant, acked>>
    BY DEF ShareLock, MigrateOpen, MigratePut, ShareFails
  <1>2. row.key \in Keys /\ row.cipher.body \in Bodies /\ keys \in Keys
    BY DEF BInv, TypeOK, Row, Cipher
  <1>3. /\ share' \in [at : {"idle", "locked", "opened", "migrated"}, key : Keys \cup {NoKey}]
        /\ blob' \in Cipher \cup {NoCipher} /\ keys' \in Keys /\ clashed' \in BOOLEAN
        /\ ShareHoldsTheRow'
    <2>1. CASE ShareLock
      BY <1>1, <1>2, <2>1 DEF ShareLock, BInv, TypeOK, ShareHoldsTheRow
    <2>2. CASE MigrateOpen
      BY <1>1, <1>2, <2>2 DEF MigrateOpen, BInv, TypeOK, ShareHoldsTheRow
    <2>3. CASE MigratePut
      <3>1. keys + 1 \in Keys \ {OwnerKey}
        BY <1>2, <2>3, KeysAssumption DEF MigratePut, Keys, OwnerKey
      <3>2. Seal(row.cipher.body, keys + 1) \in Cipher
        BY <1>2, <3>1, SealIsCipher
      <3>3. QED
        BY <1>1, <2>3, <3>1, <3>2 DEF MigratePut, BInv, TypeOK, ShareHoldsTheRow
    <2>4. CASE ShareFails
      BY <1>1, <2>4 DEF ShareFails, Unlocked, BInv, TypeOK, ShareHoldsTheRow
    <2>5. QED
      BY <2>1, <2>2, <2>3, <2>4
  <1>4. QED
    BY <1>1, <1>3 DEF BInv, TypeOK, GrantsHoldTheKey, AckedUpdatesAreOnRecord, VersionsAreKept

\* The grant that is added holds the row's key; the key changes only while there
\* is no grant yet.
LEMMA ShareCommits ==
  ASSUME BInv, NEW g \in Groups, ShareCommit(g)
  PROVE  BInv'
  <1>1. /\ row \in Row /\ row.key \in Keys /\ row.cipher \in Cipher
        /\ share.key \in Keys \ {OwnerKey} \/ share.at = "locked"
    BY DEF BInv, TypeOK, Row, ShareHoldsTheRow, ShareCommit
  <1>2. UNCHANGED <<blob, revisions, writer, keys, acked, clashed>> /\ share' = Unlocked
    BY DEF ShareCommit
  <1>3. /\ row' \in Row /\ row'.key = share.key /\ share.key \in Keys \ {OwnerKey}
        /\ row'.version = row.version /\ row'.cipher.body = row.cipher.body
    <2>1. CASE share.at = "migrated"
      <3>1. share.key \in Keys \ {OwnerKey}
        BY <2>1 DEF BInv, ShareHoldsTheRow
      <3>2. row' = [row EXCEPT !.key = share.key, !.cipher.key = share.key]
        BY <2>1 DEF ShareCommit
      <3>3. QED
        BY <1>1, <3>1, <3>2 DEF Row, Cipher
    <2>2. CASE share.at = "locked" /\ row.key # OwnerKey
      BY <1>1, <2>2 DEF ShareCommit, BInv, ShareHoldsTheRow
    <2>3. QED
      BY <2>1, <2>2 DEF ShareCommit
  <1>4. \A h \in Groups : grant'[h] # NoKey => grant'[h] = share.key
    <2>1. \A h \in Groups : grant[h] # NoKey => grant[h] = share.key
      BY DEF ShareCommit, BInv, GrantsHoldTheKey, ShareHoldsTheRow
    <2>2. QED
      BY <2>1 DEF ShareCommit, BInv, TypeOK
  <1>5. grant' \in [Groups -> Keys \cup {NoKey}]
    BY <1>3 DEF ShareCommit, BInv, TypeOK
  <1>6. TypeOK'
    BY <1>2, <1>3, <1>5 DEF BInv, TypeOK, Unlocked
  <1>7. VersionsAreKept' /\ AckedUpdatesAreOnRecord'
    BY <1>2, <1>3 DEF BInv, VersionsAreKept, AckedUpdatesAreOnRecord
  <1>8. GrantsHoldTheKey' /\ ShareHoldsTheRow'
    BY <1>2, <1>3, <1>4 DEF GrantsHoldTheKey, ShareHoldsTheRow, Unlocked
  <1>9. QED
    BY <1>6, <1>7, <1>8 DEF BInv

LEMMA BodyStep == BInv /\ [Next]_vars => BInv'
  <1> SUFFICES ASSUME BInv, [Next]_vars PROVE BInv'
    OBVIOUS
  <1>1. ASSUME NEW w \in Writers,
               UpdateRead(w) \/ UpdatePut(w) \/ UpdateCommit(w) \/ UpdateFails(w)
        PROVE  BInv'
    BY <1>1, WriterMoves, UpdateCommits
  <1>2. CASE ShareLock \/ MigrateOpen \/ MigratePut \/ ShareFails
    BY <1>2, ShareMoves
  <1>3. ASSUME NEW g \in Groups, ShareCommit(g)
        PROVE  BInv'
    BY <1>3, ShareCommits
  <1>4. ASSUME NEW g \in Groups, RevokeShare(g)
        PROVE  BInv'
    BY <1>4 DEF RevokeShare, BInv, TypeOK, GrantsHoldTheKey, AckedUpdatesAreOnRecord,
                VersionsAreKept, ShareHoldsTheRow
  <1>5. CASE UNCHANGED vars
    BY <1>5 DEF vars, BInv, TypeOK, GrantsHoldTheKey, AckedUpdatesAreOnRecord, VersionsAreKept,
                ShareHoldsTheRow
  <1>6. QED
    BY <1>1, <1>2, <1>3, <1>4, <1>5 DEF Next

\* The invariant holds in every run of updates and shares.
THEOREM BodyInvHolds == Spec => []BInv
  BY BodyInit, BodyStep, PTL DEF Spec

\* Row, bucket, revisions and grants keep their types; no version is ever 0
\* (src/db/schema.ts).
THEOREM BodyTypes == Spec => []TypeOK
  <1>1. BInv => TypeOK
    BY DEF BInv
  <1>2. QED
    BY <1>1, BodyInvHolds, PTL

\* All grants of an object hold the key its row is under (shares.ts,
\* lazy-migration.ts).
THEOREM GrantsOpenTheRow == Spec => []GrantsHoldTheKey
  <1>1. BInv => GrantsHoldTheKey
    BY DEF BInv
  <1>2. QED
    BY <1>1, BodyInvHolds, PTL

\* The primary key of object_revisions makes updates that read the same row
\* exclude each other: no acknowledged update is lost (objects.ts updateObject).
THEOREM UpdatesAreKept == Spec => []AckedUpdatesAreOnRecord
  <1>1. BInv => AckedUpdatesAreOnRecord
    BY DEF BInv
  <1>2. QED
    BY <1>1, BodyInvHolds, PTL

-----------------------------------------------------------------------------
(* When the body can be read *)

Putters    == {w \in Writers : writer[w].at = "put"}
Current(w) == writer[w].seen.version = row.version /\ writer[w].seen.key = row.key

\* As long as nothing clashed: the bucket holds the row's ciphertext, or the one
\* a migration under way will give it, when no update is between its put and its
\* commit; and when one is that may still commit, it holds what one such update put.
BucketInv ==
  /\ \A w \in Writers : writer[w].seen.key \in {OwnerKey, row.key}
  /\ ~clashed =>
       /\ row.cipher.key = row.key
       /\ row.place = "blob" /\ Putters = {} =>
            blob = IF share.at = "migrated" THEN Seal(row.cipher.body, share.key) ELSE row.cipher
       /\ (share.at # "migrated" \/ row.place = "inline") /\ (\E w \in Putters : Current(w)) =>
            \E w \in Putters : blob = Seal(w, writer[w].seen.key)

\* The body createObject put is the row's.
LEMMA BucketStart == Init => BucketInv
  BY DEF Init, BucketInv, Putters, Seal, Unlocked

\* An update's commit: the primary key of object_revisions lets it pass only if
\* the row is the one it read.
LEMMA CommitKeepsBucket ==
  ASSUME BInv, BucketInv, NEW w \in Writers, UpdateCommit(w)
  PROVE  BucketInv'
  <1> DEFINE seen == writer[w].seen
  <1>1. seen \in Row /\ writer[w].at \in {"read", "put"} /\ row \in Row /\ w \in Bodies
    BY DEF BInv, TypeOK, UpdateCommit, Bodies
  <1>2. Seal(w, seen.key) \in Cipher /\ Seal(w, seen.key).body = w /\ Seal(w, seen.key).key = seen.key
    BY <1>1, SealIsCipher DEF Row
  <1>3. /\ row'.key = row.key /\ row'.cipher = Seal(w, seen.key)
        /\ row'.place = IF writer[w].at = "put" THEN "blob" ELSE "inline"
        /\ row'.version = seen.version + 1
    BY <1>1 DEF UpdateCommit, Row
  <1>4. seen.version = row.version
    BY <1>1 DEF BInv, VersionsAreKept, UpdateCommit, Row
  <1>5. \A v \in Writers : /\ writer'[v].seen = writer[v].seen
                           /\ v # w => writer'[v] = writer[v]
                           /\ writer'[w].at = "ok"
    BY DEF UpdateCommit, BInv, TypeOK
  <1>6. Putters' = Putters \ {w}
    BY <1>5 DEF Putters
  <1>7. blob' = blob /\ share' = share /\ share.at # "migrated"
    BY DEF UpdateCommit, Unlocked
  <1>8. \A v \in Writers : ~Current(v)'
    BY <1>1, <1>3, <1>4, <1>5 DEF Current, BInv, VersionsAreKept, TypeOK, Row
  <1>9. ~clashed' => ~clashed /\ row.key = seen.key
    BY DEF UpdateCommit
  <1>10. ASSUME ~clashed', row'.place = "blob", Putters' = {} PROVE blob' = row'.cipher
    <2>1. writer[w].at = "put" /\ Putters = {w}
      BY <1>3, <1>6, <1>10 DEF Putters
    <2>2. Current(w)
      BY <1>4, <1>9, <1>10 DEF Current
    <2>3. blob = Seal(w, seen.key)
      BY <1>7, <1>9, <1>10, <2>1, <2>2 DEF BucketInv
    <2>4. QED
      BY <1>3, <1>7, <2>3
  <1> HIDE DEF seen
  <1>11. \A v \in Writers : writer'[v].seen.key \in {OwnerKey, row'.key}
    BY <1>3, <1>5 DEF BucketInv
  <1>12. Putters' \subseteq Writers
    BY <1>6 DEF Putters
  <1>13. ~clashed' => row'.cipher.key = row'.key
    BY <1>2, <1>3, <1>9
  <1>14. QED
    BY <1>7, <1>8, <1>10, <1>11, <1>12, <1>13 DEF BucketInv

\* The other steps of an update: a put becomes the last one, a failed one clashes.
LEMMA WritersKeepBucket ==
  ASSUME BInv, BucketInv, NEW w \in Writers, UpdateRead(w) \/ UpdatePut(w) \/ UpdateFails(w)
  PROVE  BucketInv'
  <1>1. CASE UpdateRead(w)
    <2>1. \A v \in Writers : v # w => writer'[v] = writer[v]
      BY <1>1 DEF UpdateRead, BInv, TypeOK
    <2>2. writer'[w].at = "read" /\ writer'[w].seen = row /\ writer[w].at # "put"
      BY <1>1 DEF UpdateRead, BInv, TypeOK
    <2>3. Putters' = Putters
      BY <2>1, <2>2 DEF Putters
    <2>4. row' = row /\ blob' = blob /\ share' = share /\ clashed' = clashed
      BY <1>1 DEF UpdateRead
    <2>5. \A v \in Putters : v \in Writers /\ writer'[v] = writer[v] /\ Current(v)' = Current(v)
      BY <2>1, <2>2, <2>4 DEF Putters, Current
    <2>6. \A v \in Writers : writer'[v].seen.key \in {OwnerKey, row'.key}
      BY <2>1, <2>2, <2>4 DEF BucketInv
    <2>7. QED
      BY <2>3, <2>4, <2>5, <2>6 DEF BucketInv
  <1>2. CASE UpdatePut(w)
    <2>1. \A v \in Writers : writer'[v].seen = writer[v].seen
      BY <1>2 DEF UpdatePut, BInv, TypeOK
    <2>2. w \in Putters'
      BY <1>2 DEF UpdatePut, BInv, TypeOK, Putters
    <2>3. row' = row /\ blob' = Seal(w, writer'[w].seen.key) /\ share' = share /\ clashed' = clashed
      BY <1>2, <2>1 DEF UpdatePut
    <2>4. QED
      BY <2>1, <2>2, <2>3 DEF BucketInv
  <1>3. CASE UpdateFails(w)
    <2>1. \A v \in Writers : writer'[v].seen = writer[v].seen
      BY <1>3 DEF UpdateFails, BInv, TypeOK
    <2>2. ~clashed' => ~clashed /\ writer[w].at = "read"
      BY <1>3 DEF UpdateFails
    <2>3. ~clashed' => Putters' = Putters
      BY <1>3, <2>2 DEF UpdateFails, Putters, BInv, TypeOK
    <2>4. row' = row /\ blob' = blob /\ share' = share
      BY <1>3 DEF UpdateFails
    <2>5. \A v \in Writers : Current(v)' = Current(v)
      BY <2>1, <2>4 DEF Current
    <2>6. Putters \subseteq Writers
      BY DEF Putters
    <2>7. QED
      BY <2>1, <2>2, <2>3, <2>4, <2>5, <2>6 DEF BucketInv
  <1>4. QED
    BY <1>1, <1>2, <1>3

\* A share: its lock keeps updates from committing, and the key it gives the row
\* is one no update read.
LEMMA SharesKeepBucket ==
  ASSUME BInv, BucketInv,
         ShareLock \/ MigrateOpen \/ MigratePut \/ ShareFails
           \/ \E g \in Groups : ShareCommit(g) \/ RevokeShare(g)
  PROVE  BucketInv'
  <1>1. /\ row \in Row /\ row.cipher \in Cipher /\ row.place \in {"inline", "blob"}
        /\ share.at \in {"idle", "locked", "opened", "migrated"}
    BY DEF BInv, TypeOK, Row, Places
  <1>2. writer' = writer /\ Putters' = Putters
    BY DEF ShareLock, MigrateOpen, MigratePut, ShareFails, ShareCommit, RevokeShare, Putters
  <1>3. CASE row' = row /\ blob' = blob /\ clashed' = clashed
             /\ share.at # "migrated" /\ share'.at # "migrated"
    BY <1>2, <1>3 DEF BucketInv, Current
  <1>4. CASE ShareLock
    BY <1>3, <1>4 DEF ShareLock, Unlocked
  <1>5. CASE MigrateOpen
    <2>1. share'.at = "opened"
      BY <1>5 DEF MigrateOpen, BInv, TypeOK
    <2>2. QED
      BY <1>3, <1>5, <2>1 DEF MigrateOpen
  <1>6. CASE \E g \in Groups : RevokeShare(g)
    BY <1>2, <1>6 DEF RevokeShare, BucketInv, Current
  <1>7. CASE MigratePut
    <2>1. share.at = "opened" /\ share'.at = "migrated" /\ share'.key = keys + 1
      BY <1>7 DEF MigratePut
    <2>2. row' = row /\ clashed' = clashed
          /\ blob' = IF row.place = "blob" THEN Seal(row.cipher.body, share'.key) ELSE blob
      BY <1>7, <2>1 DEF MigratePut
    <2>3. QED
      BY <1>1, <1>2, <2>1, <2>2 DEF BucketInv, Current
  <1>8. CASE ShareFails
    <2>1. share'.at = "idle" /\ row' = row /\ blob' = blob
          /\ clashed' = (clashed \/ (share.at = "migrated" /\ row.place = "blob"))
      BY <1>8 DEF ShareFails, Unlocked
    <2>2. QED
      BY <1>1, <1>2, <2>1 DEF BucketInv, Current
  <1>9. ASSUME NEW g \in Groups, ShareCommit(g) PROVE BucketInv'
    <2>1. share'.at = "idle" /\ blob' = blob /\ clashed' = clashed
      BY <1>9 DEF ShareCommit, Unlocked
    <2>2. CASE share.at # "migrated"
      BY <1>2, <1>9, <2>1, <2>2 DEF ShareCommit, BucketInv, Current
    <2>3. CASE share.at = "migrated"
      <3>1. row.key = OwnerKey /\ share.key \in Keys \ {OwnerKey}
        BY <2>3 DEF BInv, ShareHoldsTheRow
      <3>2. row' = [row EXCEPT !.key = share.key, !.cipher = [row.cipher EXCEPT !.key = share.key]]
        BY <1>1, <1>9, <2>3 DEF ShareCommit, Row
      <3> DEFINE c == [row.cipher EXCEPT !.key = share.key]
      <3>3. c = Seal(row.cipher.body, share.key) /\ c.key = share.key
        BY <1>1 DEF Cipher, Seal
      <3> HIDE DEF c
      <3>4. row'.key = share.key /\ row'.cipher = c /\ row'.place = row.place
        BY <1>1, <3>2 DEF Row, c
      <3>5. \A w \in Writers : writer[w].seen.key = OwnerKey
        BY <3>1 DEF BucketInv
      <3>6. \A w \in Putters' : ~Current(w)'
        BY <1>2, <3>1, <3>4, <3>5 DEF Current, Putters
      <3>7. \A w \in Writers : writer'[w].seen.key \in {OwnerKey, row'.key}
        BY <1>2, <3>5
      <3>8. ~clashed' /\ row'.place = "blob" /\ Putters' = {} => blob' = row'.cipher
        BY <1>2, <2>1, <2>3, <3>3, <3>4 DEF BucketInv
      <3>9. row'.cipher.key = row'.key
        BY <3>3, <3>4
      <3>10. QED
        BY <2>1, <3>6, <3>7, <3>8, <3>9 DEF BucketInv
    <2>4. QED
      BY <2>2, <2>3
  <1>10. QED
    BY <1>4, <1>5, <1>6, <1>7, <1>8, <1>9

\* updateObject, createShareWithGroup and their failures: a body cannot be read
\* only after a put was rolled back or an update outlived a migration.
THEOREM ReadableButForClashes == Spec => []ReadableUnlessClashed
  <1>1. BInv /\ BucketInv /\ [Next]_vars => BucketInv'
    <2> SUFFICES ASSUME BInv, BucketInv, [Next]_vars PROVE BucketInv'
      OBVIOUS
    <2>1. CASE UNCHANGED vars
      BY <2>1 DEF vars, BucketInv, Putters, Current
    <2>2. QED
      BY <2>1, CommitKeepsBucket, WritersKeepBucket, SharesKeepBucket DEF Next
  <1>2. BInv /\ BucketInv => ReadableUnlessClashed
    <2> SUFFICES ASSUME BInv, BucketInv, ~clashed, share.at # "migrated",
                        \A w \in Writers : writer[w].at # "put"
                 PROVE  Opens
      BY DEF ReadableUnlessClashed
    <2>1. Putters = {} /\ row.place \in {"inline", "blob"}
      BY DEF Putters, BInv, TypeOK, Row, Places
    <2>2. QED
      BY <2>1 DEF BucketInv, Opens, Held
  <1>3. QED
    BY BucketStart, BodyInvHolds, <1>1, <1>2, PTL DEF Spec

-----------------------------------------------------------------------------
(* The history of the body *)

\* What a writer under way has read, and that nothing is on record twice.
OneRecordEach ==
  /\ \A r, s \in revisions : r.version = s.version => r = s
  /\ \A r \in revisions : r.version < row.version

\* Only a commit adds to the record, and what it adds is the row it read.
LEMMA RecordsStay == BInv /\ OneRecordEach /\ [Next]_vars => OneRecordEach'
  <1> SUFFICES ASSUME BInv, OneRecordEach, [Next]_vars PROVE OneRecordEach'
    OBVIOUS
  <1>1. row \in Row /\ row.version \in Nat /\ row'.version \in Nat
    BY BodyStep DEF BInv, TypeOK, Row
  <1>2. CASE revisions' = revisions /\ row'.version = row.version
    BY <1>2 DEF OneRecordEach
  <1>3. ASSUME NEW w \in Writers, UpdateCommit(w) PROVE OneRecordEach'
    <2> DEFINE seen == writer[w].seen
               old  == [version |-> seen.version, cipher |-> seen.cipher, place |-> seen.place]
    <2>1. seen \in Row /\ seen.version \in Nat \ {0}
      BY DEF BInv, TypeOK, Row
    <2>2. seen.version = row.version
      BY <1>1, <1>3, <2>1 DEF BInv, VersionsAreKept, UpdateCommit
    <2>3. /\ revisions' = revisions \cup {old} /\ old.version = row.version
          /\ row'.version = row.version + 1
      BY <1>1, <1>3, <2>2 DEF UpdateCommit, Row
    <2> HIDE DEF old
    <2>4. \A r \in revisions : r.version \in Nat /\ r.version < row.version
      BY DEF BInv, TypeOK, Revision, OneRecordEach
    <2>5. \A r \in revisions' : r.version < row'.version
      BY <1>1, <2>3, <2>4
    <2>6. \A r, s \in revisions' : r.version = s.version => r = s
      BY <1>1, <2>3, <2>4 DEF OneRecordEach
    <2>7. QED
      BY <2>5, <2>6 DEF OneRecordEach
  <1>4. ASSUME NEW w \in Writers, UpdateRead(w) \/ UpdatePut(w) \/ UpdateFails(w)
        PROVE  OneRecordEach'
    BY <1>2, <1>4 DEF UpdateRead, UpdatePut, UpdateFails
  <1>5. CASE ShareLock \/ MigrateOpen \/ MigratePut \/ ShareFails
    BY <1>2, <1>5 DEF ShareLock, MigrateOpen, MigratePut, ShareFails
  <1>6. ASSUME NEW g \in Groups, ShareCommit(g) \/ RevokeShare(g) PROVE OneRecordEach'
    BY <1>1, <1>2, <1>6 DEF ShareCommit, RevokeShare, Row
  <1>7. CASE UNCHANGED vars
    BY <1>2, <1>7 DEF vars
  <1>8. QED
    BY <1>3, <1>4, <1>5, <1>6, <1>7 DEF Next

\* What is on record only once is what a look at the record finds.
LEMMA FoundOnce ==
  ASSUME NEW R, \A q, s \in R : q.version = s.version => q = s, NEW r \in R
  PROVE  (CHOOSE s \in R : s.version = r.version) = r
  OBVIOUS

LEMMA RecordedIs ==
  ASSUME NEW r
  PROVE  /\ OneRecordEach /\ r \in revisions => Recorded(r.version) = r.cipher.body
         /\ OneRecordEach' /\ r \in revisions' => Recorded(r.version)' = r.cipher.body
  BY FoundOnce DEF OneRecordEach, Recorded

\* The history is read off the revisions, the row's version and its body.
LEMMA HistoryStays ==
  ASSUME UNCHANGED revisions, row'.version = row.version, row'.cipher.body = row.cipher.body
  PROVE  History' = History
  BY DEF History, Recorded

LEMMA AppendIs ==
  ASSUME NEW S, NEW s \in Seq(S), NEW x \in S
  PROVE  Append(s, x) = [i \in 1 .. Len(s) + 1 |-> IF i = Len(s) + 1 THEN x ELSE s[i]]
  <1>1. Append(s, x) \in Seq(S) /\ Len(Append(s, x)) = Len(s) + 1 /\ Len(s) \in Nat
    OBVIOUS
  <1>2. \A i \in 1 .. Len(s) + 1 : Append(s, x)[i] = IF i = Len(s) + 1 THEN x ELSE s[i]
    OBVIOUS
  <1>3. \A q \in Seq(S) : q = [i \in 1 .. Len(q) |-> q[i]]
    OBVIOUS
  <1> DEFINE t == Append(s, x)
             n == Len(s) + 1
  <1>4. t \in Seq(S) /\ Len(t) = n /\ \A i \in 1 .. n : t[i] = IF i = n THEN x ELSE s[i]
    BY <1>1, <1>2
  <1> HIDE DEF t, n
  <1>5. t = [i \in 1 .. n |-> t[i]]
    BY <1>3, <1>4
  <1>6. t = [i \in 1 .. n |-> IF i = n THEN x ELSE s[i]]
    BY <1>4, <1>5
  <1>7. QED
    BY <1>6 DEF t, n

\* A commit appends the writer's body and replaces the body the writer read.
LEMMA CommitAppends ==
  ASSUME BInv, OneRecordEach, NEW w \in Writers, UpdateCommit(w)
  PROVE  /\ History' = Append(History, w)
         /\ Len(History) = writer[w].seen.version
  <1> DEFINE seen == writer[w].seen
  <1>1. /\ row \in Row /\ row.version \in Nat \ {0} /\ seen \in Row
        /\ seen.key \in Keys /\ w \in Bodies
    BY DEF BInv, TypeOK, Row, Bodies
  <1>2. seen.version = row.version /\ seen.cipher.body = row.cipher.body
    BY <1>1 DEF BInv, VersionsAreKept, UpdateCommit, Row
  <1>3. PICK old : old = [version |-> seen.version, cipher |-> seen.cipher, place |-> seen.place]
    OBVIOUS
  <1>4. /\ revisions' = revisions \cup {old} /\ old.version = row.version
        /\ old.cipher.body = row.cipher.body
        /\ row'.version = row.version + 1 /\ row'.cipher = Seal(w, seen.key)
    BY <1>1, <1>2, <1>3 DEF UpdateCommit, Row
  <1>5. row'.cipher.body = w
    BY <1>1, <1>4, SealIsCipher
  <1>6. OneRecordEach'
    BY RecordsStay DEF Next
  <1>7. ASSUME NEW v \in 1 .. row.version
        PROVE  Recorded(v)' = IF v = row.version THEN row.cipher.body ELSE Recorded(v)
    <2>1. CASE v = row.version
      <3>1. old \in revisions' /\ old.version = v
        BY <1>4, <2>1
      <3>2. Recorded(old.version)' = old.cipher.body
        BY <1>6, <3>1, RecordedIs
      <3>3. QED
        BY <1>4, <2>1, <3>1, <3>2
    <2>2. CASE v # row.version
      <3>1. PICK r \in revisions : r.version = v
        BY <1>1, <2>2 DEF BInv, VersionsAreKept
      <3>2. Recorded(v) = r.cipher.body
        BY <3>1, RecordedIs
      <3>3. r \in revisions' /\ r.version = v
        BY <1>4, <3>1
      <3>4. Recorded(v)' = r.cipher.body
        BY <1>6, <3>3, RecordedIs
      <3>5. QED
        BY <2>2, <3>2, <3>4
    <2>3. QED
      BY <2>1, <2>2
  <1>8. Len(History) = row.version /\ DOMAIN History = 1 .. row.version
    BY <1>1 DEF History
  <1>9. History' = [v \in 1 .. row.version + 1 |-> IF v = row.version + 1 THEN w ELSE History[v]]
    <2>1. History' = [v \in 1 .. row.version + 1 |-> IF v < row.version + 1 THEN Recorded(v)' ELSE w]
      BY <1>4, <1>5 DEF History
    <2>2. \A v \in 1 .. row.version : Recorded(v)' = History[v]
      BY <1>1, <1>7 DEF History
    <2>3. QED
      BY <1>1, <2>1, <2>2
  <1>10. Append(History, w) = [v \in 1 .. row.version + 1 |->
                               IF v = row.version + 1 THEN w ELSE History[v]]
    <2>1. \A v \in 1 .. row.version : History[v] \in Bodies
      <3> SUFFICES ASSUME NEW v \in 1 .. row.version, v < row.version PROVE Recorded(v) \in Bodies
        BY <1>1 DEF History, Row, Cipher
      <3>1. PICK r \in revisions : r.version = v
        BY <1>1 DEF BInv, VersionsAreKept
      <3>2. r.cipher.body \in Bodies
        BY DEF BInv, TypeOK, Revision, Cipher
      <3>3. QED
        BY <3>1, <3>2, RecordedIs
    <2>2. History = [v \in 1 .. row.version |-> History[v]]
      BY DEF History
    <2>3. History \in Seq(Bodies)
      BY <1>1, <2>1, <2>2
    <2>4. QED
      BY <1>1, <1>8, <2>3, AppendIs
  <1>11. QED
    BY <1>1, <1>2, <1>8, <1>9, <1>10

\* SELECT, INSERT of the revision and UPDATE of updateObject, and the migrations
\* that seal the body again, implement one atomic comparison with the end of a
\* history that only grows.
THEOREM BodyImplementsVersioned == Spec => ImplementsVersioned
  <1> DEFINE hopes == [w \in Writers |-> IF writer[w].at \in {"read", "put"}
                                          THEN writer[w].seen.version ELSE 0]
  <1>1. Init => OneRecordEach /\ Versioned!Init
    <2> SUFFICES ASSUME Init PROVE OneRecordEach /\ Versioned!Init
      OBVIOUS
    <2>1. row.version = 1 /\ row.cipher.body = "first" /\ revisions = {}
      BY DEF Init, Seal
    <2>2. History = <<"first">>
      BY <2>1 DEF History
    <2>3. hopes = [w \in Writers |-> 0]
      BY DEF Init
    <2>4. QED
      BY <2>1, <2>2, <2>3 DEF OneRecordEach, Versioned!Init
  <1>2. BInv /\ OneRecordEach /\ [Next]_vars => [Versioned!Next]_Versioned!vars
    <2> SUFFICES ASSUME BInv, OneRecordEach, [Next]_vars PROVE [Versioned!Next]_Versioned!vars
      OBVIOUS
    <2>1. row \in Row /\ row.version \in Nat /\ Len(History) = row.version
      BY DEF BInv, TypeOK, Row, History
    <2>2. ASSUME NEW w \in Writers, UpdateRead(w) PROVE Versioned!Expect(w)
      <3>1. hopes[w] = 0 /\ hopes' = [hopes EXCEPT ![w] = row.version]
        BY <2>2 DEF UpdateRead, BInv, TypeOK
      <3>2. History' = History
        BY <2>2, HistoryStays DEF UpdateRead
      <3>3. QED
        BY <2>1, <3>1, <3>2 DEF Versioned!Expect
    <2>3. ASSUME NEW w \in Writers, UpdatePut(w) PROVE UNCHANGED <<History, hopes>>
      <3>1. hopes' = hopes
        BY <2>3 DEF UpdatePut, BInv, TypeOK
      <3>2. QED
        BY <2>3, <3>1, HistoryStays DEF UpdatePut
    <2>4. ASSUME NEW w \in Writers, UpdateFails(w) PROVE Versioned!GiveUp(w)
      <3>1. hopes' = [hopes EXCEPT ![w] = 0]
        BY <2>4 DEF UpdateFails, BInv, TypeOK
      <3>2. QED
        BY <2>4, <3>1, HistoryStays DEF UpdateFails, Versioned!GiveUp
    <2>5. ASSUME NEW w \in Writers, UpdateCommit(w) PROVE Versioned!Replace(w)
      <3>1. hopes[w] = writer[w].seen.version /\ hopes' = [hopes EXCEPT ![w] = 0]
        BY <2>5 DEF UpdateCommit, BInv, TypeOK
      <3>2. w \in Bodies /\ History' = Append(History, w) /\ Len(History) = hopes[w]
        BY <2>5, <3>1, CommitAppends DEF Bodies
      <3>3. QED
        BY <3>1, <3>2 DEF Versioned!Replace
    <2>6. CASE ShareLock \/ MigrateOpen \/ MigratePut \/ ShareFails \/ \E g \in Groups : RevokeShare(g)
      <3>1. UNCHANGED <<row, revisions, writer>>
        BY <2>6 DEF ShareLock, MigrateOpen, MigratePut, ShareFails, RevokeShare
      <3>2. QED
        BY <3>1, HistoryStays DEF Versioned!vars
    <2>7. ASSUME NEW g \in Groups, ShareCommit(g) PROVE UNCHANGED <<History, hopes>>
      <3>1. row'.version = row.version /\ row'.cipher.body = row.cipher.body
        BY <2>1, <2>7 DEF ShareCommit, Row, Cipher
      <3>2. QED
        BY <2>7, <3>1, HistoryStays DEF ShareCommit
    <2>8. CASE UNCHANGED vars
      BY <2>8, HistoryStays DEF vars, Versioned!vars
    <2>9. QED
      BY <2>2, <2>3, <2>4, <2>5, <2>6, <2>7, <2>8 DEF Next, Versioned!Next, Versioned!vars
  <1>3. QED
    BY <1>1, <1>2, RecordsStay, BodyInvHolds, PTL
       DEF Spec, ImplementsVersioned, Versioned!Spec
=============================================================================
