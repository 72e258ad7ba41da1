------------------------------ MODULE Creates -------------------------------
(***************************************************************************)
(* POST /v1/objects by one user: the Idempotency-Key middleware            *)
(* (src/middleware/idempotency.ts), the quotas (src/quota/check.ts) and    *)
(* the handler around createObject (src/routes/objects.ts).                *)
(*                                                                         *)
(* A request looks its key up, is charged for the object and, if it wants  *)
(* an embedding, for a call, creates the object, and stores the answer     *)
(* under its key.  Each of these is a transaction of its own and nothing   *)
(* is held in between, so requests interleave at every step.  A create     *)
(* that fails gives the object's charge back.                              *)
(***************************************************************************)
EXTENDS Integers, FiniteSets

CONSTANTS
  Requests,    \* the requests, retries included
  Keys,        \* the values of the Idempotency-Key header
  KeyOf,       \* the header of each request
  Embeds,      \* the requests with embed: true
  MaxObjects,  \* user_quotas.object_count_max
  EmbedCap,    \* user_quotas.embed_calls_per_day
  Day,         \* ONE_DAY_MS and IDEM_TTL_MS
  MaxTime      \* bound: the clock stops here

ASSUME RequestsAssumption == IsFiniteSet(Requests) /\ Embeds \subseteq Requests
ASSUME KeyAssumption      == KeyOf \in [Requests -> Keys]
ASSUME NoRequestAssumption == "nobody" \notin Requests
ASSUME LimitsAssumption   == /\ MaxObjects \in Nat /\ EmbedCap \in Nat \ {0}
                             /\ Day \in Nat \ {0} /\ MaxTime \in Nat

VARIABLES
  req,      \* progress of each request, the clock it read, the window it used
  objects,  \* the requests whose object is committed
  lost,     \* history: those whose COMMIT took effect and was answered by an error
  record,   \* idempotency_records: whose answer is stored, and until when
  quota,    \* user_quotas: objects charged for, calls counted, end of the window
  now

createVars == <<req, objects, lost, record, quota, now>>

Stages   == {"idle", "execute", "charged", "embed", "counting", "ready", "releasing",
             "created", "replayed", "answered", "failed"}
Request  == [at : Stages, clock : Nat, window : Nat]
Record   == [by : Requests \cup {"nobody"}, expires : Nat]
NoRecord == [by |-> "nobody", expires |-> 0]

\* Requests that are charged for an object they have not created yet.
Charged == {r \in Requests : req[r].at \in {"charged", "embed", "counting", "ready", "releasing"}}

At(r, stage) == [req EXCEPT ![r].at = stage]

\* ensureQuotaRow has inserted the user's row.
CreatesInit ==
  /\ req = [r \in Requests |-> [at |-> "idle", clock |-> 0, window |-> 0]]
  /\ objects = {}
  /\ lost = {}
  /\ record = [k \in Keys |-> NoRecord]
  /\ quota = [used |-> 0, calls |-> 0, resetAt |-> Day]
  /\ now = 0

-----------------------------------------------------------------------------
(* idempotency: before the handler *)

Replay(r) ==
  /\ req[r].at = "idle"
  /\ record[KeyOf[r]] # NoRecord
  /\ record[KeyOf[r]].expires >= now
  /\ req' = At(r, "replayed")
  /\ UNCHANGED <<objects, lost, record, quota, now>>

\* No record, an expired one, or one whose decryption fails.
Execute(r) ==
  /\ req[r].at = "idle"
  /\ req' = At(r, "execute")
  /\ UNCHANGED <<objects, lost, record, quota, now>>

-----------------------------------------------------------------------------
(* the quotas *)

\* assertObjectQuota: one UPDATE that checks and increments.
ChargeObject(r) ==
  /\ req[r].at = "execute"
  /\ quota.used + 1 <= MaxObjects
  /\ quota' = [quota EXCEPT !.used = @ + 1]
  /\ req' = At(r, "charged")
  /\ UNCHANGED <<objects, lost, record, now>>

\* assertEmbedQuota reads the clock once, before its transaction.
EmbedStart(r) ==
  /\ req[r].at = "charged"
  /\ r \in Embeds
  /\ req' = [req EXCEPT ![r].at = "embed", ![r].clock = now]
  /\ UNCHANGED <<objects, lost, record, quota, now>>

\* Mutant: the window is reset by the clock alone, whoever reset it before.
EmbedResetsAgain(r) ==
  /\ req[r].at = "embed"
  /\ req[r].clock >= Day
  /\ quota' = [quota EXCEPT !.calls = 1, !.resetAt = req[r].clock + Day]
  /\ req' = [req EXCEPT ![r].at = "ready", ![r].window = req[r].clock + Day]
  /\ UNCHANGED <<objects, lost, record, now>>

\* First UPDATE: the window has ended, a new one starts with this call.
EmbedReset(r) ==
  /\ req[r].at = "embed"
  /\ quota.resetAt <= req[r].clock
  /\ quota' = [quota EXCEPT !.calls = 1, !.resetAt = req[r].clock + Day]
  /\ req' = [req EXCEPT ![r].at = "ready", ![r].window = req[r].clock + Day]
  /\ UNCHANGED <<objects, lost, record, now>>

EmbedNoReset(r) ==
  /\ req[r].at = "embed"
  /\ quota.resetAt > req[r].clock
  /\ req' = At(r, "counting")
  /\ UNCHANGED <<objects, lost, record, quota, now>>

\* Second UPDATE: the call is counted in the window there is by then.
EmbedCount(r) ==
  /\ req[r].at = "counting"
  /\ quota.calls + 1 <= EmbedCap
  /\ quota' = [quota EXCEPT !.calls = @ + 1]
  /\ req' = [req EXCEPT ![r].at = "ready", ![r].window = quota.resetAt]
  /\ UNCHANGED <<objects, lost, record, now>>

\* A request without embedding goes on; a refused one has left the handler
\* before its try block, and the object's charge stays.
SkipEmbed(r) ==
  /\ req[r].at = "charged"
  /\ r \notin Embeds
  /\ req' = At(r, "ready")
  /\ UNCHANGED <<objects, lost, record, quota, now>>

-----------------------------------------------------------------------------
(* the handler *)

\* createObject's transaction commits.
Create(r) ==
  /\ req[r].at = "ready"
  /\ objects' = objects \cup {r}
  /\ req' = At(r, "created")
  /\ UNCHANGED <<lost, record, quota, now>>

\* It commits, and the connection is lost before the answer: to the handler
\* that is an error.
CreateUnanswered(r) ==
  /\ req[r].at = "ready"
  /\ objects' = objects \cup {r}
  /\ lost' = lost \cup {r}
  /\ req' = At(r, "releasing")
  /\ UNCHANGED <<record, quota, now>>

CreateFails(r) ==
  /\ req[r].at = "ready"
  /\ req' = At(r, "releasing")
  /\ UNCHANGED <<objects, lost, record, quota, now>>

\* Mutant: the charge is given back twice.
ReleaseTwice(r) ==
  /\ req[r].at = "releasing"
  /\ quota' = [quota EXCEPT !.used = IF @ > 1 THEN @ - 2 ELSE 0]
  /\ req' = At(r, "failed")
  /\ UNCHANGED <<objects, lost, record, now>>

\* releaseObjectQuota
Release(r) ==
  /\ req[r].at = "releasing"
  /\ quota' = [quota EXCEPT !.used = IF @ > 0 THEN @ - 1 ELSE 0]
  /\ req' = At(r, "failed")
  /\ UNCHANGED <<objects, lost, record, now>>

\* Any step may fail, and the process may be lost: nothing is given back.
Fails(r) ==
  /\ req[r].at \in {"execute", "charged", "embed", "counting", "ready", "releasing"}
  /\ req' = At(r, "failed")
  /\ UNCHANGED <<objects, lost, record, quota, now>>

-----------------------------------------------------------------------------
(* idempotency: after the handler *)

\* Mutant: the record is stored over the one that is there.
StoresOver(r) ==
  /\ req[r].at = "created"
  /\ record' = [record EXCEPT ![KeyOf[r]] = [by |-> r, expires |-> now + Day]]
  /\ req' = At(r, "answered")
  /\ UNCHANGED <<objects, lost, quota, now>>

\* Mutant: error answers are stored too.
StoresErrors(r) ==
  /\ req[r].at \in {"created", "failed"}
  /\ record' = IF record[KeyOf[r]] # NoRecord THEN record
               ELSE [record EXCEPT ![KeyOf[r]] = [by |-> r, expires |-> now + Day]]
  /\ req' = At(r, "answered")
  /\ UNCHANGED <<objects, lost, quota, now>>

\* ON CONFLICT DO NOTHING, even when the record that is there has expired.
StoreRecord(r) ==
  /\ req[r].at = "created"
  /\ record' = IF record[KeyOf[r]] # NoRecord THEN record
               ELSE [record EXCEPT ![KeyOf[r]] = [by |-> r, expires |-> now + Day]]
  /\ req' = At(r, "answered")
  /\ UNCHANGED <<objects, lost, quota, now>>

\* The failure is logged and the answer goes out; or the process is lost.
StoreFails(r) ==
  /\ req[r].at = "created"
  /\ req' = At(r, "answered")
  /\ UNCHANGED <<objects, lost, record, quota, now>>

\* The hourly job deletes what has expired.
GcIdempotency ==
  /\ record' = [k \in Keys |-> IF record[k].expires < now THEN NoRecord ELSE record[k]]
  /\ record' # record
  /\ UNCHANGED <<req, objects, lost, quota, now>>

Tick ==
  /\ now < MaxTime
  /\ now' = now + 1
  /\ UNCHANGED <<req, objects, lost, record, quota>>

CreatesNext ==
  \/ \E r \in Requests :
       \/ Replay(r) \/ Execute(r)
       \/ ChargeObject(r) \/ SkipEmbed(r)
       \/ EmbedStart(r) \/ EmbedReset(r) \/ EmbedNoReset(r) \/ EmbedCount(r)
       \/ Create(r) \/ CreateUnanswered(r) \/ CreateFails(r) \/ Release(r) \/ Fails(r)
       \/ StoreRecord(r) \/ StoreFails(r)
  \/ GcIdempotency
  \/ Tick

CreatesSpec == CreatesInit /\ [][CreatesNext]_createVars

-----------------------------------------------------------------------------
(* Properties *)

CreatesTypeOK ==
  /\ req \in [Requests -> Request]
  /\ objects \subseteq Requests
  /\ lost \subseteq Requests
  /\ record \in [Keys -> Record]
  /\ quota \in [used : 0..MaxObjects, calls : 0..EmbedCap, resetAt : Nat]
  /\ now \in Nat

\* The user is charged for every object that is stored or being created, unless
\* the answer to its COMMIT was lost: parallel creates, refusals and releases in
\* any order never let a user store more than the quota counts.
QuotaCoversObjects ==
  Cardinality(objects \ lost) + Cardinality(Charged) <= quota.used

\* In every window, however requests with old clocks race at its end, no more
\* embedding calls are let through than the cap.
WindowsKeepTheCap ==
  \A w \in {req[r].window : r \in Requests} \ {0} :
    Cardinality({r \in Requests : req[r].window = w}) <= EmbedCap

\* A stored answer belongs to a create that committed under the same key, so a
\* replay never reports an object that does not exist or another key's.
RecordsTellTheTruth ==
  \A k \in Keys : record[k] # NoRecord =>
    record[k].by \in objects \ lost /\ KeyOf[record[k].by] = k

\* An answer that may be replayed is not replaced and does not disappear before
\* its day is over: all replays of a key agree, whichever of several racing
\* requests stored its answer first.
LiveRecordsAreStable ==
  [][\A k \in Keys : record[k] # NoRecord /\ record[k].expires >= now
                       => record'[k] = record[k]]_createVars
=============================================================================
