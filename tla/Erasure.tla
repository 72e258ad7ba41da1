------------------------------ MODULE Erasure ------------------------------
(***************************************************************************)
(* The bodies of one user's objects in the bucket, from the request that   *)
(* puts them to the queue that deletes them (src/storage/objects.ts,       *)
(* src/routes/internal.ts, src/crons/sweep.ts).                            *)
(*                                                                         *)
(* createObject and updateObject put a large body under objects/<id>       *)
(* before their transaction commits.  erase-user deletes the rows, queues  *)
(* the keys it read from them and tries each delete once; the weekly job   *)
(* cleanupOrphanBlobs works the queue off.  None of the deletes in the     *)
(* bucket is in the transaction that decides on it.                        *)
(***************************************************************************)
EXTENDS Integers, FiniteSets

CONSTANTS
  Objects,      \* the user's objects; an object stands for its blob key too
  MaxAttempts,  \* BLOB_QUEUE_MAX_ATTEMPTS
  BatchLimit    \* how many queue rows one run of the job takes

ASSUME QueueAssumption == MaxAttempts \in Nat \ {0} /\ BatchLimit \in Nat \ {0}

VARIABLES
  row,       \* objects: not yet, body inline or in the bucket, never, erased
  bucket,    \* the keys the bucket holds
  write,     \* the createObject or updateObject call under way on each object
  queued,    \* blob_deletion_queue: the keys in it
  attempts,  \* their attempts column
  aged,      \* keys queued at least BLOB_QUEUE_MAX_AGE_MS ago
  erase,     \* the erase-user call: stage, keys to do, key deleted just now
  cron,      \* the job: queue rows to do, the one in hand, how its delete went
  gaveUp,    \* history: keys the job dropped from the queue undone
  astray     \* history: objects a write put or left in the bucket behind erase-user's back

vars == <<row, bucket, write, queued, attempts, aged, erase, cron, gaveUp, astray>>

Entry   == [key : Objects, attempts : 0..MaxAttempts, aged : BOOLEAN]
NoErase == [at |-> "idle", todo |-> {}, done |-> {}]
NoCron  == [todo |-> {}, hand |-> {}, went |-> "well"]

Init ==
  /\ row = [o \in Objects |-> "none"]
  /\ bucket = {}
  /\ write = [o \in Objects |-> "no"]
  /\ queued = {}
  /\ attempts = [o \in Objects |-> 0]
  /\ aged = {}
  /\ erase = NoErase
  /\ cron = NoCron
  /\ gaveUp = {}
  /\ astray = {}

-----------------------------------------------------------------------------
(* createObject and updateObject, where they touch the bucket.  One call at   *)
(* a time on each object; a failed create leaves an id nobody uses again.     *)

queueVars == <<queued, attempts, aged, erase, cron, gaveUp>>

CreateInline(o) ==
  /\ row[o] = "none" /\ write[o] = "no"
  /\ row' = [row EXCEPT ![o] = "inline"]
  /\ UNCHANGED <<bucket, write, astray, queueVars>>

CreatePut(o) ==
  /\ row[o] = "none" /\ write[o] = "no"
  /\ bucket' = bucket \cup {o}
  /\ write' = [write EXCEPT ![o] = "create"]
  /\ UNCHANGED <<row, astray, queueVars>>

\* erase-user has read the keys without this one, and has not deleted the rows.
Overtakes(o) == erase.at = "selected" /\ o \notin erase.todo

CreateInsert(o) ==
  /\ write[o] = "create"
  /\ row' = [row EXCEPT ![o] = "blob"]
  /\ write' = [write EXCEPT ![o] = "no"]
  /\ astray' = IF Overtakes(o) THEN astray \cup {o} ELSE astray
  /\ UNCHANGED <<bucket, queueVars>>

UpdateRead(o) ==
  /\ row[o] \in {"inline", "blob"} /\ write[o] = "no"
  /\ write' = [write EXCEPT ![o] = "read"]
  /\ UNCHANGED <<row, bucket, astray, queueVars>>

UpdatePut(o) ==
  /\ write[o] = "read"
  /\ bucket' = bucket \cup {o}
  /\ write' = [write EXCEPT ![o] = "update"]
  /\ UNCHANGED <<row, astray, queueVars>>

\* The revision's foreign key and the final UPDATE both need the row.  A body
\* that has shrunk is inline, and what was in the bucket stays there.
UpdateCommit(o) ==
  /\ write[o] \in {"read", "update"}
  /\ row[o] # "erased"
  /\ row' = [row EXCEPT ![o] = IF write[o] = "update" THEN "blob" ELSE "inline"]
  /\ write' = [write EXCEPT ![o] = "no"]
  /\ astray' = IF o \in bucket /\ (write[o] = "read" \/ Overtakes(o))
               THEN astray \cup {o} ELSE astray \ {o}
  /\ UNCHANGED <<bucket, queueVars>>

\* What an update has put stays in the bucket, whether or not the row names it.
WriteFails(o) ==
  /\ write[o] # "no"
  /\ row' = [row EXCEPT ![o] = IF write[o] = "create" THEN "never" ELSE @]
  /\ write' = [write EXCEPT ![o] = "no"]
  /\ astray' = IF write[o] = "update" /\ o \in bucket /\ row[o] # "blob"
               THEN astray \cup {o} ELSE astray
  /\ UNCHANGED <<bucket, queueVars>>

-----------------------------------------------------------------------------
(* erase-user *)

objectVars == <<row, bucket, write, astray>>

\* hardDeleteByOwner reads the keys, and deletes the rows in a later statement.
EraseSelect ==
  /\ erase.at = "idle"
  /\ erase' = [NoErase EXCEPT !.at = "selected", !.todo = {o \in Objects : row[o] = "blob"}]
  /\ astray' = {o \in astray : row[o] # "blob"}
  /\ UNCHANGED <<row, bucket, write, queued, attempts, aged, cron, gaveUp>>

EraseCommit ==
  /\ erase.at = "selected"
  /\ row' = [o \in Objects |-> IF row[o] \in {"inline", "blob"} THEN "erased" ELSE row[o]]
  /\ queued' = queued \cup erase.todo
  /\ erase' = [erase EXCEPT !.at = "cleaning"]
  /\ UNCHANGED <<bucket, write, attempts, aged, cron, gaveUp, astray>>

\* Mutant: the immediate pass runs before the transaction commits.
EraseDeletesEarly(o) ==
  /\ erase.at \in {"selected", "cleaning"} /\ erase.done = {}
  /\ o \in erase.todo
  /\ bucket' = bucket \ {o} /\ astray' = astray \ {o}
  /\ erase' = [erase EXCEPT !.todo = @ \ {o}, !.done = {o}]
  /\ UNCHANGED <<row, write, queued, attempts, aged, cron, gaveUp>>

\* One delete succeeds; its queue row goes in a transaction of its own.
EraseDelete(o) ==
  /\ erase.at = "cleaning" /\ erase.done = {}
  /\ o \in erase.todo
  /\ bucket' = bucket \ {o} /\ astray' = astray \ {o}
  /\ erase' = [erase EXCEPT !.todo = @ \ {o}, !.done = {o}]
  /\ UNCHANGED <<row, write, queued, attempts, aged, cron, gaveUp>>

EraseDequeue ==
  /\ erase.done # {}
  /\ queued' = queued \ erase.done
  /\ erase' = [erase EXCEPT !.done = {}]
  /\ UNCHANGED <<objectVars, attempts, aged, cron, gaveUp>>

\* The delete failed, or the transaction that dequeues the key did.
EraseSkips(o) ==
  /\ erase.at = "cleaning"
  /\ o \in erase.todo \cup erase.done
  /\ erase' = [erase EXCEPT !.todo = @ \ {o}, !.done = {}]
  /\ UNCHANGED <<objectVars, queued, attempts, aged, cron, gaveUp>>

\* The answer is sent, or the transaction or the process fails.
EraseEnds ==
  /\ erase.at # "idle"
  /\ erase' = NoErase
  /\ UNCHANGED <<objectVars, queued, attempts, aged, cron, gaveUp>>

-----------------------------------------------------------------------------
(* cleanupOrphanBlobs.  It runs once a week and no backoff is longer than a   *)
(* day, so what one run leaves in the queue is due again at the next.         *)

\* The first rows the database returns, in no particular order.
CronSelect ==
  /\ cron = NoCron /\ queued # {}
  /\ \E batch \in SUBSET queued :
       /\ \/ Cardinality(batch) = BatchLimit
          \/ batch = queued /\ Cardinality(queued) < BatchLimit
       /\ cron' = [NoCron EXCEPT !.todo =
                     {[key |-> o, attempts |-> attempts[o], aged |-> o \in aged] : o \in batch}]
  /\ UNCHANGED <<objectVars, queued, attempts, aged, erase, gaveUp>>

CronDelete(e) ==
  /\ e \in cron.todo /\ cron.hand = {}
  /\ bucket' = bucket \ {e.key} /\ astray' = astray \ {e.key}
  /\ cron' = [todo |-> cron.todo \ {e}, hand |-> {e}, went |-> "well"]
  /\ UNCHANGED <<row, write, queued, attempts, aged, erase, gaveUp>>

CronDeleteFails(e) ==
  /\ e \in cron.todo /\ cron.hand = {}
  /\ cron' = [todo |-> cron.todo \ {e}, hand |-> {e}, went |-> "badly"]
  /\ UNCHANGED <<objectVars, queued, attempts, aged, erase, gaveUp>>

\* Mutant: the queue row goes whether or not the delete succeeded.
CronDequeuesAnyway(e) ==
  /\ e \in cron.hand
  /\ queued' = queued \ {e.key}
  /\ cron' = [cron EXCEPT !.hand = {}]
  /\ UNCHANGED <<objectVars, attempts, aged, erase, gaveUp>>

CronDequeue(e) ==
  /\ e \in cron.hand /\ cron.went = "well"
  /\ queued' = queued \ {e.key}
  /\ cron' = [cron EXCEPT !.hand = {}]
  /\ UNCHANGED <<objectVars, attempts, aged, erase, gaveUp>>

\* The same catch takes a failed delete and a failed dequeue.
CronDequeueFails(e) ==
  /\ e \in cron.hand /\ cron.went = "well"
  /\ cron' = [cron EXCEPT !.went = "badly"]
  /\ UNCHANGED <<objectVars, queued, attempts, aged, erase, gaveUp>>

\* The cap is decided on the row as it was selected.
Exhausted(e) == e.attempts + 1 >= MaxAttempts \/ e.aged

\* Mutant: giving up is logged and the queue row stays.
CronOnlyLogs(e) ==
  /\ e \in cron.hand /\ cron.went = "badly"
  /\ Exhausted(e)
  /\ cron' = [cron EXCEPT !.hand = {}, !.went = "well"]
  /\ UNCHANGED <<objectVars, queued, attempts, aged, erase, gaveUp>>

CronGivesUp(e) ==
  /\ e \in cron.hand /\ cron.went = "badly"
  /\ Exhausted(e)
  /\ queued' = queued \ {e.key}
  /\ gaveUp' = gaveUp \cup {e.key}
  /\ cron' = [cron EXCEPT !.hand = {}, !.went = "well"]
  /\ UNCHANGED <<objectVars, attempts, aged, erase>>

CronRetries(e) ==
  /\ e \in cron.hand /\ cron.went = "badly"
  /\ ~Exhausted(e)
  /\ attempts' = [attempts EXCEPT ![e.key] = @ + 1]
  /\ cron' = [cron EXCEPT !.hand = {}, !.went = "well"]
  /\ UNCHANGED <<objectVars, queued, aged, erase, gaveUp>>

CronCrashes ==
  /\ cron # NoCron
  /\ cron' = NoCron
  /\ UNCHANGED <<objectVars, queued, attempts, aged, erase, gaveUp>>

Age(o) ==
  /\ o \in queued \ aged
  /\ aged' = aged \cup {o}
  /\ UNCHANGED <<objectVars, queued, attempts, erase, cron, gaveUp>>

CronTries   == \E e \in cron.todo : CronDelete(e) \/ CronDeleteFails(e)
CronSettles == \E e \in cron.hand : CronDequeue(e) \/ CronGivesUp(e) \/ CronRetries(e)

Next ==
  \/ \E o \in Objects : \/ CreateInline(o)
                        \/ CreatePut(o)
                        \/ CreateInsert(o)
                        \/ UpdateRead(o)
                        \/ UpdatePut(o)
                        \/ UpdateCommit(o)
                        \/ WriteFails(o)
                        \/ EraseDelete(o)
                        \/ EraseSkips(o)
                        \/ Age(o)
  \/ EraseSelect \/ EraseCommit \/ EraseDequeue \/ EraseEnds
  \/ CronSelect \/ CronTries \/ CronSettles \/ CronCrashes
  \/ \E e \in cron.hand : CronDequeueFails(e)

Spec == Init /\ [][Next]_vars

\* The schedule runs the job again and again, and it does not fail at the same
\* point for ever.  The bucket may refuse every delete.
FairSpec ==
  /\ Spec
  /\ SF_vars(CronSelect)
  /\ SF_vars(CronTries)
  /\ SF_vars(CronSettles)

-----------------------------------------------------------------------------
(* Properties *)

TypeOK ==
  /\ row \in [Objects -> {"none", "inline", "blob", "never", "erased"}]
  /\ bucket \subseteq Objects
  /\ write \in [Objects -> {"no", "create", "read", "update"}]
  /\ queued \subseteq Objects
  /\ attempts \in [Objects -> 0..MaxAttempts]
  /\ aged \subseteq Objects
  /\ erase \in [at : {"idle", "selected", "cleaning"}, todo : SUBSET Objects,
                done : SUBSET Objects]
  /\ cron \in [todo : SUBSET Entry, hand : SUBSET Entry, went : {"well", "badly"}]
  /\ gaveUp \subseteq Objects
  /\ astray \subseteq Objects

\* No delete, of erase-user or of the job, ever takes a body that a row still
\* names: deletes act on keys read long before, while updates put under the
\* same keys.
LiveRowKeepsBody == \A o \in Objects : row[o] = "blob" => o \in bucket

\* A body of an erased user that is still in the bucket is in the queue until it
\* is deleted or given up: failed deletes, a lost job and two at work on one key
\* leave none behind.  The exceptions are those of updates alone: one shrank the
\* body, one put a body and failed, one came between erase-user's two statements.
ErasedBodiesAreQueued ==
  \A o \in bucket : row[o] = "erased" /\ write[o] = "no" => o \in queued \cup gaveUp \cup astray

\* The queue is emptied again and again, although the bucket may refuse every
\* delete, a batch is any rows of the queue and the job may crash.
QueueDrains == []<>(queued = {})

\* What erase-user's comment says: every blob is queued before the caller is
\* told.  A body whose row erase-user deleted is in the queue until deleted.
EraseQueuesEveryBlob ==
  \A o \in bucket : row[o] = "erased" /\ write[o] = "no" => o \in queued \cup gaveUp
=============================================================================
