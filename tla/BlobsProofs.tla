----------------------------- MODULE BlobsProofs -----------------------------
(***************************************************************************)
(* The two components that decide what the bucket holds.                   *)
(*                                                                         *)
(* One upload, for every number of PUTs and finalizeUpload calls.  UInv is *)
(* inductive: a successful call pins the status, a purge under way has     *)
(* seen the row expired, and a call that sealed the blob of a pending row  *)
(* left a blob behind that nothing but a purge can remove.                 *)
(*                                                                         *)
(* Erasure for any set of objects, any cap and any batch.  EInv is         *)
(* inductive: every key that a delete is still to act on belongs to an     *)
(* erased row, and an erased row never returns.  QInv, proved on top of    *)
(* it, accounts for every body that no row names.                          *)
(***************************************************************************)
EXTENDS Uploads, Erasure, TLAPS

-----------------------------------------------------------------------------
(* Uploads *)


WinnerPinsStatus == \A c \in Calls : call[c].at = "ok" => status \in {"finalized", "erased"}

PurgeSawExpired == purge # "idle" => status \in {"expired", "erased"}

SealedIsThere ==
  \A c \in Calls : /\ call[c].at = "got" => call[c].plain # NoBlob
                   /\ call[c].at = "sealed" /\ status = "pending" => blob # NoBlob

UInv ==
  /\ UploadsTypeOK
  /\ OneFinalizeWins
  /\ FinalizedKeepsItsBlob
  /\ WinnerPinsStatus
  /\ PurgeSawExpired
  /\ SealedIsThere

\* A sealed blob and a fresh body are blobs, and neither is mistaken for none.
LEMMA BlobOps ==
  /\ \A p \in Puts : Raw(p) \in Blob /\ Raw(p) # NoBlob
  /\ \A b \in Blob : Seal(b) \in Blob /\ Seal(b) # NoBlob
  <1>1. ASSUME NEW p \in Puts
        PROVE  Raw(p) \in Blob /\ Raw(p) # NoBlob
    BY PutsAssumption DEF Raw, Blob, NoBlob
  <1>2. ASSUME NEW b \in Blob
        PROVE  Seal(b) \in Blob /\ Seal(b) # NoBlob
    BY PutsAssumption DEF Seal, Blob, NoBlob
  <1>3. QED
    BY <1>1, <1>2

\* The upload that initUpload hands out satisfies the invariant.
LEMMA UploadInit == UploadsInit => UInv
  BY DEF UploadsInit, UInv, UploadsTypeOK, OneFinalizeWins, FinalizedKeepsItsBlob, WinnerPinsStatus,
         PurgeSawExpired, SealedIsThere, Idle

\* A step of a call that only changes that call's progress, to neither of the
\* stages the invariant speaks of.
LEMMA CallMoves ==
  ASSUME UInv, NEW c \in Calls, NEW at \in {"loaded", "failed"},
         call' = [call EXCEPT ![c].at = at],
         UNCHANGED <<status, recorded, blob, put, purge, clock>>
  PROVE  UInv'
  <1>1. \A d \in Calls : /\ call'[d].at # "ok" \/ call'[d] = call[d]
                         /\ call'[d].at \in {"got", "sealed"} => call'[d] = call[d]
    BY DEF UInv, UploadsTypeOK
  <1>2. UploadsTypeOK'
    <2> DEFINE new == [call[c] EXCEPT !.at = at]
    <2>1. new \in [at : {"start", "loaded", "got", "sealed", "ok", "failed"},
                   plain : Blob \cup {NoBlob}]
      BY DEF UInv, UploadsTypeOK
    <2>2. call' = [call EXCEPT ![c] = new]
      OBVIOUS
    <2> HIDE DEF new
    <2>3. QED
      BY <2>1, <2>2 DEF UInv, UploadsTypeOK
  <1>3. OneFinalizeWins' /\ WinnerPinsStatus'
    BY <1>1 DEF UInv, OneFinalizeWins, WinnerPinsStatus
  <1>4. FinalizedKeepsItsBlob' /\ PurgeSawExpired'
    BY DEF UInv, FinalizedKeepsItsBlob, PurgeSawExpired
  <1>5. SealedIsThere'
    BY <1>1 DEF UInv, SealedIsThere
  <1>6. QED
    BY <1>2, <1>3, <1>4, <1>5 DEF UInv

\* finalizeUpload preserves the invariant at each of its steps.
LEMMA FinalizeInv ==
  ASSUME UInv, NEW c \in Calls,
         \/ FinalizeLoad(c) \/ FinalizeGet(c) \/ FinalizePut(c)
         \/ FinalizeMark(c) \/ FinalizeFails(c)
  PROVE  UInv'
  <1>1. CASE FinalizeLoad(c)
    BY <1>1, CallMoves DEF FinalizeLoad
  <1>2. CASE FinalizeGet(c)
    <2>1. \A d \in Calls : \/ call'[d] = call[d]
                           \/ call'[d].at = "got" /\ call'[d].plain = blob
      BY <1>2 DEF UInv, UploadsTypeOK, FinalizeGet
    <2>2. blob # NoBlob /\ UNCHANGED <<status, recorded, blob, put, purge, clock>>
      BY <1>2 DEF FinalizeGet
    <2>3. UploadsTypeOK'
      BY <1>2 DEF UInv, UploadsTypeOK, FinalizeGet
    <2>4. OneFinalizeWins' /\ WinnerPinsStatus'
      BY <2>1, <2>2 DEF UInv, OneFinalizeWins, WinnerPinsStatus
    <2>5. FinalizedKeepsItsBlob' /\ PurgeSawExpired'
      BY <2>2 DEF UInv, FinalizedKeepsItsBlob, PurgeSawExpired
    <2>6. SealedIsThere'
      BY <2>1, <2>2 DEF UInv, SealedIsThere
    <2>7. QED
      BY <2>3, <2>4, <2>5, <2>6 DEF UInv
  <1>3. CASE FinalizePut(c)
    <2>1. call[c].plain \in Blob
      BY <1>3 DEF UInv, UploadsTypeOK, SealedIsThere, FinalizePut
    <2>2. blob' \in Blob /\ blob' # NoBlob
      BY <1>3, <2>1, BlobOps DEF FinalizePut
    <2>3. /\ UNCHANGED <<status, recorded, put, purge, clock>>
          /\ call' = [call EXCEPT ![c].at = "sealed"]
      BY <1>3 DEF FinalizePut
    <2>4. \A d \in Calls : call'[d] = call[d] \/ call'[d].at = "sealed"
      BY <2>3 DEF UInv, UploadsTypeOK
    <2>5. UploadsTypeOK'
      <3> DEFINE new == [call[c] EXCEPT !.at = "sealed"]
      <3>1. new \in [at : {"start", "loaded", "got", "sealed", "ok", "failed"},
                     plain : Blob \cup {NoBlob}]
        BY DEF UInv, UploadsTypeOK
      <3>2. call' = [call EXCEPT ![c] = new]
        BY <2>3
      <3> HIDE DEF new
      <3>3. QED
        BY <2>2, <2>3, <3>1, <3>2 DEF UInv, UploadsTypeOK
    <2>6. OneFinalizeWins' /\ WinnerPinsStatus'
      BY <2>3, <2>4 DEF UInv, OneFinalizeWins, WinnerPinsStatus
    <2>7. FinalizedKeepsItsBlob' /\ PurgeSawExpired'
      BY <2>2, <2>3 DEF UInv, FinalizedKeepsItsBlob, PurgeSawExpired
    <2>8. SealedIsThere'
      BY <2>2, <2>4 DEF UInv, SealedIsThere
    <2>9. QED
      BY <2>5, <2>6, <2>7, <2>8 DEF UInv
  <1>4. CASE FinalizeMark(c)
    <2>1. /\ call[c].at = "sealed"
          /\ status = "pending"
          /\ status' = "finalized"
          /\ recorded' = call[c].plain
          /\ call' = [call EXCEPT ![c].at = "ok"]
          /\ UNCHANGED <<blob, put, purge, clock>>
      BY <1>4 DEF FinalizeMark
    <2>2. \A d \in Calls : call[d].at # "ok"
      BY <2>1 DEF UInv, WinnerPinsStatus
    <2>3. \A d \in Calls : \/ d = c /\ call'[d].at = "ok"
                           \/ d # c /\ call'[d] = call[d]
      BY <2>1 DEF UInv, UploadsTypeOK
    <2>4. UploadsTypeOK'
      <3> DEFINE new == [call[c] EXCEPT !.at = "ok"]
      <3>1. new \in [at : {"start", "loaded", "got", "sealed", "ok", "failed"},
                     plain : Blob \cup {NoBlob}]
        BY DEF UInv, UploadsTypeOK
      <3>2. call' = [call EXCEPT ![c] = new]
        BY <2>1
      <3>3. call[c].plain \in Blob \cup {NoBlob}
        BY DEF UInv, UploadsTypeOK
      <3> HIDE DEF new
      <3>4. QED
        BY <2>1, <3>1, <3>2, <3>3 DEF UInv, UploadsTypeOK
    <2>5. OneFinalizeWins' /\ WinnerPinsStatus'
      BY <2>1, <2>2, <2>3 DEF UInv, OneFinalizeWins, WinnerPinsStatus
    <2>6. FinalizedKeepsItsBlob'
      BY <2>1 DEF UInv, SealedIsThere, FinalizedKeepsItsBlob
    <2>7. PurgeSawExpired'
      BY <2>1 DEF UInv, PurgeSawExpired
    <2>8. SealedIsThere'
      BY <2>1, <2>3 DEF UInv, SealedIsThere
    <2>9. QED
      BY <2>4, <2>5, <2>6, <2>7, <2>8 DEF UInv
  <1>5. CASE FinalizeFails(c)
    BY <1>5, CallMoves DEF FinalizeFails
  <1>6. QED
    BY <1>1, <1>2, <1>3, <1>4, <1>5

\* PUTs, time, the cron jobs and erase-user preserve the invariant.
LEMMA OthersInv ==
  ASSUME UInv,
         \/ \E p \in Puts : PutStart(p) \/ PutArrives(p)
         \/ Tick \/ SweepExpiredUploads \/ Purge \/ EraseUser
  PROVE  UInv'
  <1>1. ASSUME NEW p \in Puts, PutStart(p)
        PROVE  UInv'
    BY <1>1 DEF UInv, UploadsTypeOK, OneFinalizeWins, FinalizedKeepsItsBlob, WinnerPinsStatus,
                PurgeSawExpired, SealedIsThere, PutStart
  <1>2. ASSUME NEW p \in Puts, PutArrives(p)
        PROVE  UInv'
    <2>1. blob' \in Blob /\ blob' # NoBlob
      BY <1>2, BlobOps DEF PutArrives
    <2>2. QED
      BY <1>2, <2>1 DEF UInv, UploadsTypeOK, OneFinalizeWins, FinalizedKeepsItsBlob,
                        WinnerPinsStatus, PurgeSawExpired, SealedIsThere, PutArrives
  <1>3. CASE Tick
    BY <1>3 DEF UInv, UploadsTypeOK, OneFinalizeWins, FinalizedKeepsItsBlob, WinnerPinsStatus,
                PurgeSawExpired, SealedIsThere, Tick
  <1>4. CASE SweepExpiredUploads
    BY <1>4 DEF UInv, UploadsTypeOK, OneFinalizeWins, FinalizedKeepsItsBlob, WinnerPinsStatus,
                PurgeSawExpired, SealedIsThere, SweepExpiredUploads
  <1>5. CASE PurgeSelect \/ PurgeAborts
    BY <1>5 DEF UInv, UploadsTypeOK, OneFinalizeWins, FinalizedKeepsItsBlob, WinnerPinsStatus,
                PurgeSawExpired, SealedIsThere, PurgeSelect, PurgeAborts
  <1>6. CASE PurgeDelete
    <2>1. status \in {"expired", "erased"} /\ blob' \in Blob \cup {NoBlob}
      BY <1>6 DEF UInv, UploadsTypeOK, PurgeSawExpired, PurgeDelete
    <2>2. QED
      BY <1>6, <2>1 DEF UInv, UploadsTypeOK, OneFinalizeWins, FinalizedKeepsItsBlob,
                        WinnerPinsStatus, PurgeSawExpired, SealedIsThere, PurgeDelete
  <1>7. CASE PurgeCommit
    BY <1>7 DEF UInv, UploadsTypeOK, OneFinalizeWins, FinalizedKeepsItsBlob, WinnerPinsStatus,
                PurgeSawExpired, SealedIsThere, PurgeCommit
  <1>8. CASE EraseUser
    BY <1>8 DEF UInv, UploadsTypeOK, OneFinalizeWins, FinalizedKeepsItsBlob, WinnerPinsStatus,
                PurgeSawExpired, SealedIsThere, EraseUser
  <1>9. QED
    BY <1>1, <1>2, <1>3, <1>4, <1>5, <1>6, <1>7, <1>8 DEF Purge

LEMMA UploadStep == UInv /\ [UploadsNext]_uploadVars => UInv'
  <1> SUFFICES ASSUME UInv, [UploadsNext]_uploadVars
               PROVE  UInv'
    OBVIOUS
  <1>1. CASE \/ \E p \in Puts : PutStart(p) \/ PutArrives(p)
             \/ Tick \/ SweepExpiredUploads \/ Purge \/ EraseUser
    BY <1>1, OthersInv
  <1>2. ASSUME NEW c \in Calls,
               \/ FinalizeLoad(c) \/ FinalizeGet(c) \/ FinalizePut(c)
               \/ FinalizeMark(c) \/ FinalizeFails(c)
        PROVE  UInv'
    BY <1>2, FinalizeInv
  <1>3. CASE UNCHANGED uploadVars
    BY <1>3 DEF uploadVars, UInv, UploadsTypeOK, OneFinalizeWins, FinalizedKeepsItsBlob,
                WinnerPinsStatus, PurgeSawExpired, SealedIsThere
  <1>4. QED
    BY <1>1, <1>2, <1>3 DEF UploadsNext

\* The inductive invariant holds in every reachable state.
THEOREM UploadInvHolds == UploadsSpec => []UInv
  BY UploadInit, UploadStep, PTL DEF UploadsSpec

\* Row, blob and calls stay of their types.
THEOREM UploadTypes == UploadsSpec => []UploadsTypeOK
  <1>1. UInv => UploadsTypeOK
    BY DEF UInv
  <1>2. QED
    BY UploadInvHolds, <1>1, PTL

\* Any number of overlapping and repeated finalize calls has one winner.
THEOREM FinalizeHasOneWinner == UploadsSpec => []OneFinalizeWins
  <1>1. UInv => OneFinalizeWins
    BY DEF UInv
  <1>2. QED
    BY UploadInvHolds, <1>1, PTL

\* No purge takes a finalized upload's blob.
THEOREM FinalizedBlobStays == UploadsSpec => []FinalizedKeepsItsBlob
  <1>1. UInv => FinalizedKeepsItsBlob
    BY DEF UInv
  <1>2. QED
    BY UploadInvHolds, <1>1, PTL

\* The status never goes back.
THEOREM UploadLifeIsOneWay == UploadsSpec => LifeIsOneWay
  <1>1. UInv /\ [UploadsNext]_uploadVars
          => [status' # status =>
                 <<status, status'>> \in {<<"pending", "finalized">>, <<"pending", "expired">>,
                                          <<"expired", "hard_deleted">>}
                 \/ status' = "erased"]_uploadVars
    BY DEF UInv, PurgeSawExpired, UploadsNext, uploadVars, PutStart, PutArrives, FinalizeLoad,
           FinalizeGet, FinalizePut, FinalizeMark, FinalizeFails, Tick, SweepExpiredUploads,
           Purge, PurgeSelect, PurgeDelete, PurgeCommit, PurgeAborts, EraseUser
  <1>2. QED
    BY UploadInvHolds, <1>1, PTL DEF UploadsSpec, LifeIsOneWay

-----------------------------------------------------------------------------
(* Erasure *)


InHand == cron.todo \cup cron.hand

\* A write under way has put what its commit will make the row name.
WritesInv ==
  \A o \in Objects :
    /\ write[o] = "create" => row[o] = "none" /\ o \in bucket
    /\ write[o] \in {"read", "update"} => row[o] \in {"inline", "blob", "erased"}
    /\ write[o] = "update" /\ row[o] # "erased" => o \in bucket

\* What is queued, or in the hands of erase-user or of the job, is erased.
ErasedInv ==
  /\ \A o \in queued : row[o] = "erased"
  /\ \A e \in InHand : row[e.key] = "erased"
  /\ \A o \in erase.todo : \/ row[o] = "erased"
                           \/ erase.at = "selected" /\ row[o] \in {"inline", "blob"}
  /\ \A o \in erase.done : row[o] = "erased"

\* The job counts on the attempts it selected, one entry for each key.
EntriesInv ==
  /\ \A e \in InHand : e.attempts = attempts[e.key]
  /\ \A e, f \in InHand : e.key = f.key => e = f
  /\ cron.hand \cap cron.todo = {}
  /\ \A o \in Objects : attempts[o] < MaxAttempts

EInv == TypeOK /\ LiveRowKeepsBody /\ WritesInv /\ ErasedInv /\ EntriesInv

\* A key whose queue row is about to go has been deleted; what the bucket holds
\* of it, an update has put since.
Settled(o) == o \in bucket => write[o] = "update" \/ o \in astray

SettledInv ==
  /\ \A o \in erase.done : Settled(o)
  /\ cron.went = "well" => \A e \in cron.hand : Settled(e.key)

\* A body that no row names is accounted for, and erase-user, once it has read
\* the keys, knows of every body that a row names.
NamedInv ==
  \A o \in bucket :
    /\ write[o] = "no" => row[o] # "none"
    /\ write[o] # "update" /\ row[o] = "inline" => o \in astray
    /\ write[o] # "update" /\ row[o] = "erased" => o \in queued \cup gaveUp \cup astray
    /\ erase.at = "selected" /\ row[o] = "blob" => o \in erase.todo \cup astray

QInv == SettledInv /\ NamedInv

LEMMA ErasureInit == Init => EInv
<1>1. MaxAttempts \in Nat \ {0} /\ 0 \in 0..MaxAttempts
  BY QueueAssumption
<1> QED
  BY <1>1 DEF Init, EInv, TypeOK, LiveRowKeepsBody, WritesInv, ErasedInv, EntriesInv,
              InHand, NoErase, NoCron, Entry

-----------------------------------------------------------------------------
(* The steps, by who takes them *)

LEMMA WriteStep ==
  ASSUME EInv, NEW o \in Objects,
         \/ CreateInline(o) \/ CreatePut(o) \/ CreateInsert(o)
         \/ UpdateRead(o) \/ UpdatePut(o) \/ UpdateCommit(o) \/ WriteFails(o)
  PROVE  EInv'
<1> USE DEF EInv, queueVars
<1>1. TypeOK'
  BY DEF TypeOK, CreateInline, CreatePut, CreateInsert, UpdateRead, UpdatePut, UpdateCommit,
         WriteFails
<1>2. LiveRowKeepsBody' /\ WritesInv'
  BY DEF TypeOK, LiveRowKeepsBody, WritesInv, CreateInline, CreatePut, CreateInsert, UpdateRead,
         UpdatePut, UpdateCommit, WriteFails
<1>3. UNCHANGED <<queued, attempts, erase, cron>>
  BY DEF CreateInline, CreatePut, CreateInsert, UpdateRead, UpdatePut, UpdateCommit, WriteFails
<1>4. \A k \in Objects : \/ row'[k] = row[k]
                         \/ row[k] \in {"inline", "blob"} /\ row'[k] \in {"inline", "blob"}
                         \/ row[k] \notin {"inline", "blob", "erased"}
  BY DEF TypeOK, WritesInv, CreateInline, CreatePut, CreateInsert, UpdateRead, UpdatePut,
         UpdateCommit, WriteFails
<1>5. ErasedInv'
  <2>1. \A k \in Objects : row[k] = "erased" => row'[k] = "erased"
    BY <1>4
  <2>2. \A e \in InHand : e.key \in Objects
    BY DEF TypeOK, Entry, InHand
  <2>3. queued \subseteq Objects /\ erase.todo \subseteq Objects /\ erase.done \subseteq Objects
    BY DEF TypeOK
  <2>4. \A k \in erase.todo : \/ row'[k] = "erased"
                              \/ erase.at = "selected" /\ row'[k] \in {"inline", "blob"}
    BY <1>4, <2>1, <2>3 DEF ErasedInv
  <2> QED
    BY <1>3, <2>1, <2>2, <2>3, <2>4 DEF ErasedInv, InHand
<1>6. EntriesInv'
  BY <1>3 DEF EntriesInv, InHand
<1> QED
  BY <1>1, <1>2, <1>5, <1>6

LEMMA EraseStep ==
  ASSUME EInv,
         \/ EraseSelect \/ EraseCommit \/ EraseDequeue \/ EraseEnds
         \/ \E o \in Objects : EraseDelete(o) \/ EraseSkips(o)
  PROVE  EInv'
<1> USE DEF EInv, objectVars, NoErase
<1>1. CASE EraseSelect
  <2>1. TypeOK'
    BY <1>1 DEF TypeOK, EraseSelect
  <2>2. (LiveRowKeepsBody /\ WritesInv /\ ErasedInv)'
    BY <1>1 DEF EraseSelect, LiveRowKeepsBody, WritesInv, ErasedInv, InHand
  <2>3. EntriesInv'
    BY <1>1 DEF EraseSelect, EntriesInv, InHand
  <2> QED
    BY <2>1, <2>2, <2>3
<1>2. CASE EraseCommit
  <2>1. TypeOK'
    BY <1>2 DEF TypeOK, EraseCommit
  <2>2. (LiveRowKeepsBody /\ WritesInv)'
    BY <1>2 DEF EraseCommit, TypeOK, LiveRowKeepsBody, WritesInv
  <2>3. ErasedInv'
    <3>1. \A k \in Objects : row[k] \in {"inline", "blob", "erased"} => row'[k] = "erased"
      BY <1>2 DEF EraseCommit, TypeOK
    <3>2. /\ queued \subseteq Objects
          /\ erase.todo \subseteq Objects
          /\ erase.done \subseteq Objects
          /\ \A e \in InHand : e.key \in Objects
      BY DEF TypeOK, Entry, InHand
    <3>3. /\ \A k \in queued \cup erase.todo \cup erase.done : row'[k] = "erased"
          /\ \A e \in InHand : row'[e.key] = "erased"
      BY <3>1, <3>2 DEF ErasedInv
    <3>4. /\ queued' = queued \cup erase.todo
          /\ erase'.todo = erase.todo
          /\ erase'.done = erase.done
          /\ cron' = cron
      BY <1>2 DEF EraseCommit, TypeOK
    <3> QED
      BY <3>3, <3>4 DEF ErasedInv, InHand
  <2>4. EntriesInv'
    BY <1>2 DEF EraseCommit, EntriesInv, InHand, TypeOK
  <2> QED
    BY <2>1, <2>2, <2>3, <2>4
<1>3. CASE EraseDequeue \/ EraseEnds
  <2>1. TypeOK'
    BY <1>3 DEF TypeOK, EraseDequeue, EraseEnds
  <2>2. (LiveRowKeepsBody /\ WritesInv)'
    BY <1>3 DEF EraseDequeue, EraseEnds, LiveRowKeepsBody, WritesInv
  <2>3. ErasedInv'
    BY <1>3 DEF EraseDequeue, EraseEnds, ErasedInv, InHand, TypeOK
  <2>4. EntriesInv'
    BY <1>3 DEF EraseDequeue, EraseEnds, EntriesInv, InHand, TypeOK
  <2> QED
    BY <2>1, <2>2, <2>3, <2>4
<1>4. ASSUME NEW o \in Objects, EraseDelete(o) \/ EraseSkips(o)
      PROVE  EInv'
  <2>0. /\ erase'.at = erase.at
        /\ erase'.todo = erase.todo \ {o}
        /\ erase'.done \in {{}, {o}}
        /\ erase' = [at |-> erase'.at, todo |-> erase'.todo, done |-> erase'.done]
        /\ UNCHANGED <<row, write, queued, cron>>
        /\ o \in erase.todo \cup erase.done
        /\ EraseSkips(o) => erase'.done = {}
    BY <1>4 DEF TypeOK, EraseDelete, EraseSkips
  <2>1. TypeOK'
    <3>1. erase' \in [at : {"idle", "selected", "cleaning"}, todo : SUBSET Objects,
                      done : SUBSET Objects]
      <4>1. /\ erase.at \in {"idle", "selected", "cleaning"}
            /\ erase.todo \in SUBSET Objects
        BY DEF TypeOK
      <4>2. erase'.todo \in SUBSET Objects /\ erase'.done \in SUBSET Objects
        BY <4>1, <2>0
      <4> HIDE DEF EInv
      <4> QED
        BY <4>1, <4>2, <2>0
    <3>2. /\ bucket' \subseteq Objects
          /\ astray' \subseteq Objects
          /\ UNCHANGED <<attempts, aged, gaveUp>>
      BY <1>4 DEF TypeOK, EraseDelete, EraseSkips
    <3> QED
      BY <2>0, <3>1, <3>2 DEF TypeOK
  <2>2. o \in erase.todo /\ EraseDelete(o) => row[o] = "erased"
    BY <1>4 DEF EraseDelete, ErasedInv
  <2>3. (LiveRowKeepsBody /\ WritesInv)'
    BY <1>4, <2>2 DEF EraseDelete, EraseSkips, LiveRowKeepsBody, WritesInv, TypeOK
  <2>4. ErasedInv'
    <3>1. \A k \in erase'.done : row[k] = "erased"
      <4>1. EraseDelete(o) => row[o] = "erased"
        BY <2>2 DEF EraseDelete
      <4>2. erase'.done \in {{}, {o}} /\ (EraseSkips(o) => erase'.done = {})
        BY <2>0
      <4> QED
        BY <1>4, <4>1, <4>2
    <3> QED
      BY <2>0, <3>1 DEF ErasedInv, InHand
  <2>5. EntriesInv'
    BY <1>4 DEF EraseDelete, EraseSkips, EntriesInv, InHand, TypeOK
  <2> QED
    BY <2>1, <2>3, <2>4, <2>5
<1> QED
  BY <1>1, <1>2, <1>3, <1>4

LEMMA CronStep ==
  ASSUME EInv,
         \/ CronSelect \/ CronTries \/ CronSettles \/ CronCrashes
         \/ \E e \in cron.hand : CronDequeueFails(e)
         \/ \E o \in Objects : Age(o)
  PROVE  EInv'
<1> USE DEF EInv, objectVars, NoCron
<1>1. UNCHANGED <<row, write, erase>>
  BY DEF CronSelect, CronTries, CronDelete, CronDeleteFails, CronSettles, CronDequeue, CronGivesUp,
         CronRetries, CronCrashes, CronDequeueFails, Age
<1>2. CASE CronSelect
  <2>1. PICK batch \in SUBSET queued :
          cron' = [NoCron EXCEPT !.todo =
                     {[key |-> o, attempts |-> attempts[o], aged |-> o \in aged] : o \in batch}]
    BY <1>2 DEF CronSelect
  <2>2. /\ cron' = [todo |-> {[key |-> o, attempts |-> attempts[o], aged |-> o \in aged] : o \in batch},
                    hand |-> {}, went |-> "well"]
        /\ InHand' = {[key |-> o, attempts |-> attempts[o], aged |-> o \in aged] : o \in batch}
    BY <2>1 DEF InHand
  <2>3. \A o \in batch : [key |-> o, attempts |-> attempts[o], aged |-> o \in aged] \in Entry
    BY DEF Entry, TypeOK
  <2>4. UNCHANGED <<bucket, queued, attempts, aged, gaveUp, astray>>
    BY <1>2 DEF CronSelect
  <2>5. TypeOK'
    BY <1>1, <2>2, <2>3, <2>4 DEF TypeOK
  <2>6. (LiveRowKeepsBody /\ WritesInv /\ ErasedInv)'
    BY <1>1, <2>2, <2>4 DEF LiveRowKeepsBody, WritesInv, ErasedInv
  <2>7. EntriesInv'
    BY <1>1, <2>2, <2>4 DEF EntriesInv
  <2> QED
    BY <2>5, <2>6, <2>7
<1>3. ASSUME NEW e \in cron.todo, CronDelete(e) \/ CronDeleteFails(e)
      PROVE  EInv'
  <2>1. e \in Entry /\ e.key \in Objects /\ row[e.key] = "erased"
    BY DEF TypeOK, Entry, ErasedInv, InHand
  <2>2. cron.hand = {} /\ cron'.todo = cron.todo \ {e} /\ cron'.hand = {e} /\ InHand' = InHand
    BY <1>3 DEF CronDelete, CronDeleteFails, InHand
  <2>3. TypeOK'
    BY <1>1, <1>3, <2>1 DEF TypeOK, CronDelete, CronDeleteFails
  <2>4. (LiveRowKeepsBody /\ WritesInv)'
    BY <1>1, <1>3, <2>1 DEF CronDelete, CronDeleteFails, LiveRowKeepsBody, WritesInv
  <2>5. ErasedInv'
    BY <1>1, <1>3, <2>2 DEF CronDelete, CronDeleteFails, ErasedInv
  <2>6. EntriesInv'
    BY <1>1, <1>3, <2>2 DEF CronDelete, CronDeleteFails, EntriesInv
  <2> QED
    BY <2>3, <2>4, <2>5, <2>6
<1>4. ASSUME NEW e \in cron.hand, CronDequeue(e) \/ CronGivesUp(e) \/ CronRetries(e)
      PROVE  EInv'
  <2>1. /\ e \in Entry
        /\ e.key \in Objects
        /\ e.attempts = attempts[e.key]
        /\ MaxAttempts \in Nat
        /\ \A o \in Objects : attempts[o] \in 0..MaxAttempts
    BY QueueAssumption DEF TypeOK, Entry, EntriesInv, InHand
  <2>2. /\ cron'.todo = cron.todo
        /\ cron'.hand = {}
        /\ cron' \in [todo : SUBSET Entry, hand : SUBSET Entry, went : {"well", "badly"}]
    BY <1>4 DEF CronDequeue, CronGivesUp, CronRetries, TypeOK
  <2>3. /\ attempts' \in [Objects -> 0..MaxAttempts]
        /\ \A o \in Objects : attempts'[o] < MaxAttempts
        /\ \A o \in Objects \ {e.key} : attempts'[o] = attempts[o]
    <3>1. CASE CronRetries(e)
      <4>1. attempts[e.key] + 1 < MaxAttempts
        BY <2>1, <3>1 DEF CronRetries, Exhausted
      <4> QED
        BY <2>1, <3>1, <4>1 DEF CronRetries, TypeOK, EntriesInv
    <3>2. CASE CronDequeue(e) \/ CronGivesUp(e)
      BY <2>1, <3>2 DEF CronDequeue, CronGivesUp, TypeOK, EntriesInv
    <3> QED
      BY <1>4, <3>1, <3>2
  <2>4. TypeOK'
    BY <1>1, <1>4, <2>1, <2>2, <2>3 DEF TypeOK, CronDequeue, CronGivesUp, CronRetries
  <2>5. (LiveRowKeepsBody /\ WritesInv)'
    BY <1>1, <1>4 DEF CronDequeue, CronGivesUp, CronRetries, LiveRowKeepsBody, WritesInv
  <2>6. queued' \subseteq queued
    BY <1>4 DEF CronDequeue, CronGivesUp, CronRetries
  <2>7. ErasedInv'
    BY <1>1, <2>2, <2>6 DEF ErasedInv, InHand
  <2>8. \A f \in cron.todo : f.key \in Objects \ {e.key}
    BY DEF EntriesInv, InHand, TypeOK, Entry
  <2>9. EntriesInv'
    BY <2>2, <2>3, <2>8 DEF EntriesInv, InHand
  <2> QED
    BY <2>4, <2>5, <2>7, <2>9
<1>5. CASE CronCrashes \/ \E o \in Objects : Age(o)
  <2>1. TypeOK'
    BY <1>1, <1>5 DEF TypeOK, CronCrashes, Age
  <2>2. (LiveRowKeepsBody /\ WritesInv /\ ErasedInv)'
    BY <1>1, <1>5 DEF CronCrashes, Age, LiveRowKeepsBody, WritesInv, ErasedInv, InHand
  <2>3. EntriesInv'
    BY <1>1, <1>5 DEF CronCrashes, Age, EntriesInv, InHand
  <2> QED
    BY <2>1, <2>2, <2>3
<1>6. CASE \E e \in cron.hand : CronDequeueFails(e)
  <2>1. TypeOK'
    BY <1>1, <1>6 DEF TypeOK, CronDequeueFails
  <2>2. (LiveRowKeepsBody /\ WritesInv /\ ErasedInv)'
    BY <1>1, <1>6 DEF CronDequeueFails, LiveRowKeepsBody, WritesInv, ErasedInv, InHand, TypeOK
  <2>3. EntriesInv'
    BY <1>1, <1>6 DEF CronDequeueFails, EntriesInv, InHand, TypeOK
  <2> QED
    BY <2>1, <2>2, <2>3
<1> QED
  BY <1>2, <1>3, <1>4, <1>5, <1>6 DEF CronTries, CronSettles

LEMMA ErasureStep == EInv /\ [Next]_vars => EInv'
<1> SUFFICES ASSUME EInv, [Next]_vars PROVE EInv'
  OBVIOUS
<1>1. CASE Next
  BY <1>1, WriteStep, EraseStep, CronStep DEF Next
<1>2. CASE UNCHANGED vars
  BY <1>2 DEF vars, EInv, TypeOK, LiveRowKeepsBody, WritesInv, ErasedInv, EntriesInv,
              InHand
<1> QED
  BY <1>1, <1>2

-----------------------------------------------------------------------------
(* The theorems *)

\* The whole of it: no reachable state breaks the inductive invariant.
THEOREM ErasureInvHolds == Spec => []EInv
  BY ErasureInit, ErasureStep, PTL DEF Spec

\* The variables keep their types; the attempts of a queue row stay below the
\* cap of cleanupOrphanBlobs.
THEOREM ErasureTypes == Spec => []TypeOK
<1>1. EInv => TypeOK
  BY DEF EInv
<1> QED
  BY <1>1, ErasureInvHolds, PTL

\* No delete of erase-user or of the job takes a body that a row still names.
THEOREM LiveRowsKeepTheirBody == Spec => []LiveRowKeepsBody
<1>1. EInv => LiveRowKeepsBody
  BY DEF EInv
<1> QED
  BY <1>1, ErasureInvHolds, PTL

-----------------------------------------------------------------------------
(* The queue forgets nothing: QInv, step by step *)

LEMMA QueueInit == Init => QInv
  BY DEF Init, QInv, SettledInv, NamedInv, Settled, NoErase, NoCron

\* Neither the bodies nor the writes, nor what is to be erased, have moved.
LEMMA QueueFrame ==
  ASSUME QInv, UNCHANGED <<row, bucket, write, astray>>,
         queued \cup gaveUp \subseteq queued' \cup gaveUp',
         erase'.at = "selected" => erase'.at = erase.at /\ erase.todo \subseteq erase'.todo,
         \A o \in erase'.done : Settled(o),
         cron'.went = "well" => \A e \in cron'.hand : Settled(e.key)
  PROVE  QInv'
<1>1. \A o : Settled(o) <=> Settled(o)'
  BY DEF Settled
<1>2. SettledInv'
  BY <1>1 DEF SettledInv
<1>3. NamedInv'
  BY DEF QInv, NamedInv
<1> QED
  BY <1>2, <1>3 DEF QInv

LEMMA WriteKeepsQueue ==
  ASSUME EInv, QInv, NEW o \in Objects,
         \/ CreateInline(o) \/ CreatePut(o) \/ CreateInsert(o)
         \/ UpdateRead(o) \/ UpdatePut(o) \/ UpdateCommit(o) \/ WriteFails(o)
  PROVE  QInv'
<1>1. UNCHANGED <<queued, erase, cron, gaveUp>>
  BY DEF queueVars, CreateInline, CreatePut, CreateInsert, UpdateRead, UpdatePut, UpdateCommit,
         WriteFails
<1>2. \A k \in Objects : row[k] = "erased" /\ Settled(k) => Settled(k)'
  BY DEF EInv, TypeOK, WritesInv, Settled, CreateInline, CreatePut, CreateInsert, UpdateRead,
         UpdatePut, UpdateCommit, WriteFails
<1>3. SettledInv'
  <2>1. \A k \in erase.done : k \in Objects /\ row[k] = "erased" /\ Settled(k)
    BY DEF EInv, TypeOK, ErasedInv, QInv, SettledInv
  <2>2. \A e \in cron.hand : e.key \in Objects /\ row[e.key] = "erased"
    BY DEF EInv, TypeOK, Entry, ErasedInv, InHand
  <2>3. cron.went = "well" => \A e \in cron.hand : Settled(e.key)
    BY DEF QInv, SettledInv
  <2> QED
    BY <1>1, <1>2, <2>1, <2>2, <2>3 DEF SettledInv
<1>4. NamedInv'
  <2>1. CASE CreateInline(o)
    BY <2>1, <1>1 DEF CreateInline, EInv, TypeOK, QInv, NamedInv
  <2>2. CASE CreatePut(o) \/ CreateInsert(o)
    BY <2>2, <1>1 DEF CreatePut, CreateInsert, Overtakes, EInv, TypeOK, WritesInv, QInv, NamedInv
  <2>3. CASE UpdateRead(o)
    <3>1. /\ UNCHANGED <<row, bucket, astray>>
          /\ write[o] = "no" /\ write'[o] = "read" /\ row[o] # "none"
          /\ \A k \in Objects \ {o} : write'[k] = write[k]
      BY <2>3 DEF UpdateRead, EInv, TypeOK
    <3> QED
      BY <3>1, <1>1 DEF EInv, TypeOK, QInv, NamedInv
  <2>4. CASE UpdatePut(o)
    <3>1. /\ UNCHANGED <<row, astray>>
          /\ bucket' = bucket \cup {o} /\ write'[o] = "update"
          /\ \A k \in Objects \ {o} : write'[k] = write[k]
      BY <2>4 DEF UpdatePut, EInv, TypeOK
    <3>2. row[o] = "blob" => o \in bucket
      BY DEF EInv, LiveRowKeepsBody
    <3> QED
      BY <3>1, <3>2, <1>1 DEF EInv, TypeOK, QInv, NamedInv
  <2>5. CASE UpdateCommit(o)
    <3>1. /\ bucket' = bucket /\ write'[o] = "no"
          /\ row'[o] = IF write[o] = "update" THEN "blob" ELSE "inline"
          /\ \A k \in Objects \ {o} : row'[k] = row[k] /\ write'[k] = write[k]
          /\ astray' \ {o} = astray \ {o}
          /\ write[o] = "read" /\ o \in bucket => o \in astray'
          /\ erase.at = "selected" /\ o \notin erase.todo /\ o \in bucket => o \in astray'
          /\ write[o] \in {"read", "update"} /\ bucket \subseteq Objects
      BY <2>5 DEF UpdateCommit, Overtakes, EInv, TypeOK
    <3>2. \A k \in bucket \ {o} : k \in astray' <=> k \in astray
      BY <3>1
    <3> QED
      BY <3>1, <3>2, <1>1 DEF QInv, NamedInv
  <2>6. CASE WriteFails(o)
    BY <2>6, <1>1 DEF WriteFails, EInv, TypeOK, WritesInv, QInv, NamedInv
  <2> QED
    BY <2>1, <2>2, <2>3, <2>4, <2>5, <2>6
<1> QED
  BY <1>3, <1>4 DEF QInv

\* A delete in the bucket settles its key, and disturbs no other.
LEMMA DeleteSettles ==
  ASSUME QInv, NEW o, bucket' = bucket \ {o}, astray' = astray \ {o},
         UNCHANGED <<row, write, queued, gaveUp>>,
         erase'.at = erase.at, erase.todo \subseteq erase'.todo \cup {o}
  PROVE  /\ NamedInv' /\ Settled(o)'
         /\ \A k : Settled(k) => Settled(k)'
  BY DEF QInv, NamedInv, Settled

LEMMA EraseKeepsQueue ==
  ASSUME EInv, QInv,
         \/ EraseSelect \/ EraseCommit \/ EraseDequeue \/ EraseEnds
         \/ \E o \in Objects : EraseDelete(o) \/ EraseSkips(o)
  PROVE  QInv'
<1>1. CASE EraseSelect
  <2>1. /\ erase'.done = {} /\ UNCHANGED <<row, bucket, write, queued, cron, gaveUp>>
        /\ erase'.todo = {o \in Objects : row[o] = "blob"}
        /\ astray' = {o \in astray : row[o] # "blob"}
    BY <1>1 DEF EraseSelect, NoErase
  <2>2. SettledInv'
    BY <2>1 DEF QInv, SettledInv, Settled, EInv, ErasedInv, InHand
  <2>3. NamedInv'
    BY <2>1 DEF QInv, NamedInv, EInv, TypeOK
  <2> QED
    BY <2>2, <2>3 DEF QInv
<1>2. CASE EraseCommit
  <2>1. /\ erase.at = "selected" /\ erase'.at = "cleaning" /\ erase'.done = erase.done
        /\ queued' = queued \cup erase.todo /\ UNCHANGED <<bucket, write, cron, gaveUp, astray>>
        /\ \A o \in Objects : row'[o] = IF row[o] \in {"inline", "blob"} THEN "erased" ELSE row[o]
    BY <1>2 DEF EraseCommit, EInv, TypeOK
  <2>2. SettledInv'
    BY <2>1 DEF QInv, SettledInv, Settled
  <2>3. NamedInv'
    BY <2>1 DEF QInv, NamedInv, EInv, TypeOK
  <2> QED
    BY <2>2, <2>3 DEF QInv
<1>3. CASE EraseDequeue
  <2>1. /\ queued' = queued \ erase.done /\ erase'.at = erase.at /\ erase'.todo = erase.todo
        /\ erase'.done = {} /\ UNCHANGED <<row, bucket, write, cron, gaveUp, astray>>
    BY <1>3 DEF EraseDequeue, objectVars, EInv, TypeOK
  <2>2. SettledInv'
    BY <2>1 DEF QInv, SettledInv, Settled
  <2>3. NamedInv'
    BY <2>1 DEF QInv, SettledInv, Settled, NamedInv
  <2> QED
    BY <2>2, <2>3 DEF QInv
<1>4. CASE EraseEnds
  <2>1. /\ erase'.at = "idle" /\ erase'.done = {}
        /\ UNCHANGED <<row, bucket, write, astray, queued, cron, gaveUp>>
    BY <1>4 DEF EraseEnds, objectVars, NoErase
  <2> QED
    BY <2>1, QueueFrame DEF QInv, SettledInv
<1>5. ASSUME NEW o \in Objects, EraseDelete(o)
      PROVE  QInv'
  <2>1. /\ bucket' = bucket \ {o} /\ astray' = astray \ {o}
        /\ UNCHANGED <<row, write, queued, gaveUp, cron>>
        /\ erase'.at = erase.at /\ erase'.todo = erase.todo \ {o} /\ erase'.done = {o}
    BY <1>5 DEF EraseDelete, EInv, TypeOK
  <2>2. NamedInv' /\ Settled(o)' /\ \A k : Settled(k) => Settled(k)'
    BY <2>1, DeleteSettles
  <2> QED
    BY <2>1, <2>2 DEF QInv, SettledInv
<1>6. ASSUME NEW o \in Objects, EraseSkips(o)
      PROVE  QInv'
  <2>1. /\ UNCHANGED <<row, bucket, write, astray, queued, gaveUp, cron>>
        /\ erase.at = "cleaning" /\ erase'.at = erase.at /\ erase'.done = {}
    BY <1>6 DEF EraseSkips, objectVars, EInv, TypeOK
  <2> QED
    BY <2>1, QueueFrame DEF QInv, SettledInv
<1> QED
  BY <1>1, <1>2, <1>3, <1>4, <1>5, <1>6

LEMMA CronKeepsQueue ==
  ASSUME EInv, QInv,
         \/ CronSelect \/ CronTries \/ CronSettles \/ CronCrashes
         \/ \E e \in cron.hand : CronDequeueFails(e)
         \/ \E o \in Objects : Age(o)
  PROVE  QInv'
<1>1. UNCHANGED <<row, write, erase>>
  BY DEF CronSelect, CronTries, CronDelete, CronDeleteFails, CronSettles, CronDequeue, CronGivesUp,
         CronRetries, CronCrashes, CronDequeueFails, Age, objectVars
<1>2. CASE CronSelect \/ CronCrashes \/ \E o \in Objects : Age(o)
  <2>1. /\ UNCHANGED <<row, bucket, write, astray, queued, gaveUp, erase>>
        /\ cron' = cron \/ cron'.hand = {}
    BY <1>2 DEF CronSelect, CronCrashes, Age, objectVars, NoCron
  <2> QED
    BY <2>1, QueueFrame DEF QInv, SettledInv
<1>3. ASSUME NEW e \in cron.todo, CronDelete(e)
      PROVE  QInv'
  <2>1. /\ bucket' = bucket \ {e.key} /\ astray' = astray \ {e.key}
        /\ UNCHANGED <<queued, gaveUp>> /\ cron'.hand = {e}
    BY <1>3 DEF CronDelete
  <2>2. NamedInv' /\ Settled(e.key)' /\ \A k : Settled(k) => Settled(k)'
    BY <1>1, <2>1, DeleteSettles
  <2> QED
    BY <1>1, <2>1, <2>2 DEF QInv, SettledInv
<1>4. ASSUME NEW e \in cron.todo \cup cron.hand,
             CronDeleteFails(e) \/ CronDequeueFails(e)
      PROVE  QInv'
  <2>1. UNCHANGED <<row, bucket, write, astray, queued, gaveUp, erase>> /\ cron'.went = "badly"
    BY <1>1, <1>4 DEF CronDeleteFails, CronDequeueFails, objectVars, EInv, TypeOK
  <2> QED
    BY <2>1, QueueFrame DEF QInv, SettledInv
<1>5. ASSUME NEW e \in cron.hand, CronDequeue(e)
      PROVE  QInv'
  <2>1. /\ queued' = queued \ {e.key} /\ UNCHANGED <<bucket, gaveUp, astray>>
        /\ cron'.hand = {} /\ Settled(e.key)
    BY <1>5 DEF CronDequeue, objectVars, EInv, TypeOK, QInv, SettledInv
  <2>2. SettledInv'
    BY <1>1, <2>1 DEF QInv, SettledInv, Settled
  <2>3. NamedInv'
    BY <1>1, <2>1 DEF QInv, Settled, NamedInv
  <2> QED
    BY <2>2, <2>3 DEF QInv
<1>6. ASSUME NEW e \in cron.hand, CronGivesUp(e) \/ CronRetries(e)
      PROVE  QInv'
  <2>1. /\ UNCHANGED <<row, bucket, write, astray, erase>>
        /\ queued \cup gaveUp \subseteq queued' \cup gaveUp' /\ cron'.hand = {}
    BY <1>1, <1>6 DEF CronGivesUp, CronRetries, objectVars, EInv, TypeOK
  <2> QED
    BY <2>1, QueueFrame DEF QInv, SettledInv
<1> QED
  BY <1>2, <1>3, <1>4, <1>5, <1>6 DEF CronTries, CronSettles

LEMMA QueueStep == EInv /\ QInv /\ [Next]_vars => QInv'
<1> SUFFICES ASSUME EInv, QInv, [Next]_vars PROVE QInv'
  OBVIOUS
<1>1. CASE Next
  BY <1>1, WriteKeepsQueue, EraseKeepsQueue, CronKeepsQueue DEF Next
<1>2. CASE UNCHANGED vars
  BY <1>2, QueueFrame DEF vars, QInv, SettledInv
<1> QED
  BY <1>1, <1>2

\* Failed deletes, a lost job and two at work on one key leave no body of an
\* erased user behind: it is in the queue until deleted or given up.  Only an
\* update can: one that shrank the body, or failed after its put, or came between
\* the two statements of erase-user.
THEOREM QueueForgetsNothing == Spec => []ErasedBodiesAreQueued
<1>1. Spec => []QInv
  BY QueueInit, QueueStep, ErasureInvHolds, PTL DEF Spec
<1>2. QInv => ErasedBodiesAreQueued
  BY DEF QInv, NamedInv, ErasedBodiesAreQueued
<1> QED
  BY <1>1, <1>2, PTL
=============================================================================
