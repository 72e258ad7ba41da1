------------------------------ MODULE Uploads ------------------------------
(***************************************************************************)
(* One presigned upload (src/storage/uploads.ts, src/crons/sweep.ts): a    *)
(* row of `uploads`, its blob, and everyone who touches them.  The client  *)
(* puts the body through a presigned URL, finalizeUpload calls read the    *)
(* blob, seal it in place and mark the row, cron jobs expire and purge     *)
(* what nobody finalized, and erase-user deletes the row.                  *)
(*                                                                         *)
(* The row lives in the database and the blob in a bucket, so a finalize   *)
(* is four steps (load the row, get the blob, put it back sealed, mark the *)
(* row) and may stop between any two; the purge is one transaction around  *)
(* a delete that the transaction cannot undo.                              *)
(***************************************************************************)
EXTENDS Integers

CONSTANTS
  Puts,   \* the client's PUTs; a PUT's name stands for the body it carries
  Calls   \* the finalizeUpload calls, retries included

ASSUME PutsAssumption == "none" \notin Puts

VARIABLES
  status,    \* uploads.status, "erased" when the row is gone
  recorded,  \* what body_size and body_hash were measured on
  blob,      \* what the bucket holds under uploads/<id>
  put,       \* progress of each PUT
  call,      \* progress of each finalizeUpload call and the blob it read
  purge,     \* progress of the purge job on this row
  clock      \* before expires_at, after it, more than PURGE_AFTER_MS after it

uploadVars == <<status, recorded, blob, put, call, purge, clock>>

\* A blob is somebody's body, sealed a number of times.
NoBlob == [body |-> "none", seals |-> 0]
Blob   == [body : Puts, seals : Nat]
Raw(p) == [body |-> p, seals |-> 0]
Seal(b) == [b EXCEPT !.seals = @ + 1]

Idle == [at |-> "start", plain |-> NoBlob]

\* initUpload has committed the row and returned the URL.
UploadsInit ==
  /\ status = "pending"
  /\ recorded = NoBlob
  /\ blob = NoBlob
  /\ put = [p \in Puts |-> "unsent"]
  /\ call = [c \in Calls |-> Idle]
  /\ purge = "idle"
  /\ clock = "live"

-----------------------------------------------------------------------------
(* The client's PUTs: the URL is checked when a PUT starts *)

PutStart(p) ==
  /\ put[p] = "unsent"
  /\ clock = "live"
  /\ put' = [put EXCEPT ![p] = "sent"]
  /\ UNCHANGED <<status, recorded, blob, call, purge, clock>>

PutArrives(p) ==
  /\ put[p] = "sent"
  /\ blob' = Raw(p)
  /\ put' = [put EXCEPT ![p] = "done"]
  /\ UNCHANGED <<status, recorded, call, purge, clock>>

-----------------------------------------------------------------------------
(* finalizeUpload *)

\* Only the status is checked here, not expires_at.
FinalizeLoad(c) ==
  /\ call[c].at = "start"
  /\ status = "pending"
  /\ call' = [call EXCEPT ![c].at = "loaded"]
  /\ UNCHANGED <<status, recorded, blob, put, purge, clock>>

FinalizeGet(c) ==
  /\ call[c].at = "loaded"
  /\ blob # NoBlob
  /\ call' = [call EXCEPT ![c] = [at |-> "got", plain |-> blob]]
  /\ UNCHANGED <<status, recorded, blob, put, purge, clock>>

\* What was read is taken for plaintext, encrypted and put under the same key.
FinalizePut(c) ==
  /\ call[c].at = "got"
  /\ blob' = Seal(call[c].plain)
  /\ call' = [call EXCEPT ![c].at = "sealed"]
  /\ UNCHANGED <<status, recorded, put, purge, clock>>

\* Mutant: the row is marked whatever its status is by now.
FinalizeMarkAlways(c) ==
  /\ call[c].at = "sealed"
  /\ status # "erased"
  /\ status' = "finalized"
  /\ recorded' = call[c].plain
  /\ call' = [call EXCEPT ![c].at = "ok"]
  /\ UNCHANGED <<blob, put, purge, clock>>

FinalizeMark(c) ==
  /\ call[c].at = "sealed"
  /\ status = "pending"
  /\ status' = "finalized"
  /\ recorded' = call[c].plain
  /\ call' = [call EXCEPT ![c].at = "ok"]
  /\ UNCHANGED <<blob, put, purge, clock>>

\* No row, wrong status, no blob, too large, a failed service, a finalize race,
\* or the process is lost; what was put stays put.
FinalizeFails(c) ==
  /\ call[c].at \notin {"ok", "failed"}
  /\ call' = [call EXCEPT ![c].at = "failed"]
  /\ UNCHANGED <<status, recorded, blob, put, purge, clock>>

-----------------------------------------------------------------------------
(* Time, the cron jobs, and erase-user *)

Tick ==
  /\ clock # "aged"
  /\ clock' = IF clock = "live" THEN "over" ELSE "aged"
  /\ UNCHANGED <<status, recorded, blob, put, call, purge>>

\* Mutant: the sweep expires everything that is over its time.
SweepAllUploads ==
  /\ clock # "live"
  /\ status \in {"pending", "finalized"}
  /\ status' = "expired"
  /\ UNCHANGED <<recorded, blob, put, call, purge, clock>>

SweepExpiredUploads ==
  /\ clock # "live"
  /\ status = "pending"
  /\ status' = "expired"
  /\ UNCHANGED <<recorded, blob, put, call, purge, clock>>

\* Mutant: the purge does not wait for the sweep.
PurgeSelectsPending ==
  /\ purge = "idle"
  /\ status \in {"pending", "expired"}
  /\ clock = "aged"
  /\ purge' = "selected"
  /\ UNCHANGED <<status, recorded, blob, put, call, clock>>

PurgeSelect ==
  /\ purge = "idle"
  /\ status = "expired"
  /\ clock = "aged"
  /\ purge' = "selected"
  /\ UNCHANGED <<status, recorded, blob, put, call, clock>>

\* A failed delete is logged and the purge goes on.
PurgeDelete ==
  /\ purge = "selected"
  /\ blob' \in {NoBlob, blob}
  /\ purge' = "deleted"
  /\ UNCHANGED <<status, recorded, put, call, clock>>

\* Mutant: a purge with nothing to do leaves the row as it is.
PurgeCommitsIfBlobGone ==
  /\ purge = "deleted"
  /\ status' = IF status = "erased" \/ blob # NoBlob THEN status ELSE "hard_deleted"
  /\ purge' = "idle"
  /\ UNCHANGED <<recorded, blob, put, call, clock>>

\* The rows are updated by id, whatever their status; an erased row is gone.
PurgeCommit ==
  /\ purge = "deleted"
  /\ status' = IF status = "erased" THEN status ELSE "hard_deleted"
  /\ purge' = "idle"
  /\ UNCHANGED <<recorded, blob, put, call, clock>>

PurgeAborts ==
  /\ purge # "idle"
  /\ purge' = "idle"
  /\ UNCHANGED <<status, recorded, blob, put, call, clock>>

EraseUser ==
  /\ status # "erased"
  /\ status' = "erased"
  /\ UNCHANGED <<recorded, blob, put, call, purge, clock>>

Purge == PurgeSelect \/ PurgeDelete \/ PurgeCommit \/ PurgeAborts

UploadsNext ==
  \/ \E p \in Puts : PutStart(p) \/ PutArrives(p)
  \/ \E c \in Calls : \/ FinalizeLoad(c)
                      \/ FinalizeGet(c)
                      \/ FinalizePut(c)
                      \/ FinalizeMark(c)
                      \/ FinalizeFails(c)
  \/ Tick
  \/ SweepExpiredUploads
  \/ Purge
  \/ EraseUser

UploadsSpec == UploadsInit /\ [][UploadsNext]_uploadVars

\* Time passes, the scheduled jobs run, and the database does not fail a purge
\* for ever.  Nothing is asked of clients and callers.
FairUploadsSpec ==
  /\ UploadsSpec
  /\ WF_uploadVars(Tick)
  /\ WF_uploadVars(SweepExpiredUploads)
  /\ WF_uploadVars(PurgeSelect)
  /\ SF_uploadVars(PurgeDelete)
  /\ SF_uploadVars(PurgeCommit)

-----------------------------------------------------------------------------
(* Properties *)

UploadsTypeOK ==
  /\ status \in {"pending", "finalized", "expired", "hard_deleted", "erased"}
  /\ recorded \in Blob \cup {NoBlob}
  /\ blob \in Blob \cup {NoBlob}
  /\ put \in [Puts -> {"unsent", "sent", "done"}]
  /\ call \in [Calls -> [at : {"start", "loaded", "got", "sealed", "ok", "failed"},
                         plain : Blob \cup {NoBlob}]]
  /\ purge \in {"idle", "selected", "deleted"}
  /\ clock \in {"live", "over", "aged"}

\* Of all the calls that saw the row pending, sealed the blob and came to mark
\* it, one succeeds at most: the others get 'finalize race detected'.
OneFinalizeWins ==
  \A c, d \in Calls : call[c].at = "ok" /\ call[d].at = "ok" => c = d

\* A purge never takes the blob of a finalized upload, although it deletes from
\* the bucket long after it selected the row and finalize checks no expiry.
FinalizedKeepsItsBlob == status = "finalized" => blob # NoBlob

\* The row's life is one-way: what a sweep, a late finalize or the purge's
\* update by id find is never set back or taken elsewhere.
LifeIsOneWay ==
  [][status' # status =>
       <<status, status'>> \in {<<"pending", "finalized">>, <<"pending", "expired">>,
                                <<"expired", "hard_deleted">>}
       \/ status' = "erased"]_uploadVars

\* Every upload is settled for good in the end, although deletes may fail,
\* purges may abort and callers may never come back.
EventuallySettled == <>[](status \in {"finalized", "hard_deleted", "erased"})

\* What finalizeUpload's comment says of body_size and body_hash: they are
\* measured on the plaintext, not on a cipher.
RecordedIsThePlaintext == status = "finalized" => recorded.seals = 0
=============================================================================
