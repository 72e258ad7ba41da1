-------------------------------- MODULE Lists --------------------------------
(***************************************************************************)
(* One text object that several calls edit: the list tools                 *)
(* (src/mcp/tools/lists.ts), which read the whole body, change it and      *)
(* write it back, and the writers of a whole body, notes.update, docs.put, *)
(* objects.update and PATCH /objects/:id, whose client read it before and  *)
(* may say which version it expects to replace.                            *)
(*                                                                         *)
(* Reading and writing are two transactions.  The writing one selects the  *)
(* row without a lock, compares the version when one is expected, puts a   *)
(* body too large for the row under objects/<id>, inserts the old body as  *)
(* a revision under the version it read, which is the primary key, and     *)
(* updates the row (src/storage/objects.ts).  The key in the bucket is the *)
(* same for every version, and no rollback undoes a put.                   *)
(*                                                                         *)
(* The object is not shared: the migration of a shared one, which puts its *)
(* body too, and the keys of the ciphertexts are in ObjectBody.            *)
(***************************************************************************)
EXTENDS Integers, Sequences

CONSTANTS
  Calls,      \* calls that can be under way at the same time
  Texts,      \* item texts
  MaxItems,   \* MAX_ITEMS of a list
  InlineMax,  \* INLINE_BODY_MAX, in items
  MaxVersion  \* bound: of the object's version

ASSUME ListAssumption == MaxItems \in Nat \ {0} /\ InlineMax \in Nat /\ MaxVersion \in Nat \ {0}

VARIABLES
  body,       \* the body the row is for, as its items
  version,    \* objects.current_version
  revisions,  \* object_revisions: for each version that was replaced, its body
  blob,       \* the version whose ciphertext objects/<id> holds, 0 for that of none
  putter,     \* the call under way whose ciphertext it holds, if any
  call,       \* progress of each call
  acked,      \* history: the bodies that calls were told they had written
  struck      \* history: the last version that a put out of turn may have hit

vars == <<body, version, revisions, blob, putter, call, acked, struck>>
rows == <<body, version, revisions, acked>>

Item  == [text : Texts, done : BOOLEAN]
Body  == UNION {[1 .. n -> Item] : n \in 0 .. MaxItems}
Versions == 1 .. MaxVersion
Call  == [at     : {"idle", "computed", "selected", "put"},
          next   : Body,                   \* the body to write
          seen   : Body,                   \* the body the caller had read ...
          read   : Versions,               \* ... and its version
          expect : Versions \cup {0},      \* expected_version, 0 for none
          base   : Versions]               \* the version its UPDATE is based on
Idle  == [at |-> "idle", next |-> <<>>, seen |-> <<>>, read |-> 1, expect |-> 0, base |-> 1]

Init ==
  /\ body = <<>>
  /\ version = 1
  /\ revisions = [v \in {} |-> <<>>]
  /\ blob = 0
  /\ putter = {}
  /\ call = [c \in Calls |-> Idle]
  /\ acked = {}
  /\ struck = 0

Large(b) == Len(b) > InlineMax

\* The bucket holds what the row says it holds, so that it can be decrypted.
Readable == Large(body) => blob = version

\* The first transaction: the body as it is, and what to make of it.
Edit(c, next, expect) ==
  /\ call[c].at = "idle"
  /\ call' = [call EXCEPT ![c] = [Idle EXCEPT !.at = "computed", !.next = next, !.seen = body,
                                              !.read = version, !.expect = expect]]
  /\ UNCHANGED <<rows, blob, putter, struck>>

\* lists.add_item: a full list is refused.
AddItem(c, t) ==
  /\ Readable
  /\ Len(body) < MaxItems
  /\ Edit(c, Append(body, [text |-> t, done |-> FALSE]), 0)

\* resolveTargetLineIndex: a position, or the first item with the text.
TargetOf(t) == {n \in DOMAIN body : body[n].text = t /\ \A m \in 1 .. n - 1 : body[m].text # t}
Targets     == DOMAIN body \cup UNION {TargetOf(t) : t \in Texts}

\* lists.tick, lists.untick.
Toggle(c, n, to) ==
  /\ Readable
  /\ n \in Targets
  /\ Edit(c, [body EXCEPT ![n].done = to], 0)

\* A client that read or wrote the body comes back without one of its items.
Put(c, n, checked) ==
  /\ n \in DOMAIN body
  /\ Edit(c, SubSeq(body, 1, n - 1) \o SubSeq(body, n + 1, Len(body)),
          IF checked THEN version ELSE 0)

\* The call is over and its transaction rolled back; what it put stays put.
Fail(c) ==
  /\ call' = [call EXCEPT ![c] = Idle]
  /\ putter' = putter \ {c}
  /\ struck' = IF call[c].at = "put" THEN version ELSE struck
  /\ UNCHANGED <<rows, blob>>

\* Mutant: the expected version is not compared.
SelectUnchecked(c) ==
  /\ call[c].at = "computed"
  /\ call' = [call EXCEPT ![c].at = "selected", ![c].base = version]
  /\ UNCHANGED <<rows, blob, putter, struck>>

\* updateObject: the SELECT and the comparison of versions.
SelectRow(c) ==
  /\ call[c].at = "computed"
  /\ IF call[c].expect \in {0, version}
     THEN /\ call' = [call EXCEPT ![c].at = "selected", ![c].base = version]
          /\ UNCHANGED <<rows, blob, putter, struck>>
     ELSE Fail(c)

\* A large body is put over whatever is there, before any row is written.
PutBlob(c) ==
  /\ call[c].at = "selected" /\ Large(call[c].next)
  /\ blob' = 0
  /\ putter' = {c}
  /\ call' = [call EXCEPT ![c].at = "put"]
  /\ UNCHANGED <<rows, struck>>

\* Mutant: the size of the old body decides whether there is a put.
ReadyByOldSize(c) == call[c].at = IF Large(body) THEN "put" ELSE "selected"

Ready(c) == call[c].at = IF Large(call[c].next) THEN "put" ELSE "selected"

\* The row names what this call has put, or what was put over it since.
Commit(c) ==
  /\ blob' = IF c \in putter THEN version' ELSE blob
  /\ struck' = IF call[c].at = "put" /\ c \notin putter THEN version' ELSE struck
  /\ putter' = putter \ {c}
  /\ acked' = acked \cup {[version |-> version', body |-> body']}
  /\ call' = [call EXCEPT ![c] = Idle]

\* Mutant: a revision that is there already is no reason to stop.
WriteAnyway(c) ==
  /\ Ready(c) /\ call[c].base < MaxVersion
  /\ revisions' = [v \in DOMAIN revisions \cup {call[c].base} |->
                    IF v \in DOMAIN revisions THEN revisions[v] ELSE body]
  /\ body' = call[c].next
  /\ version' = call[c].base + 1
  /\ Commit(c)

\* Mutant: the body is replaced in place.
WriteUnversioned(c) ==
  /\ Ready(c) /\ call[c].base < MaxVersion
  /\ body' = call[c].next
  /\ UNCHANGED <<version, revisions>>
  /\ Commit(c)

\* INSERT of the revision, UPDATE, COMMIT.  Another call that selected the
\* same version and committed has inserted that revision.
WriteBody(c) ==
  /\ Ready(c) /\ call[c].base < MaxVersion
  /\ IF call[c].base \in DOMAIN revisions
     THEN Fail(c)
     ELSE /\ revisions' = [v \in DOMAIN revisions \cup {call[c].base} |->
                            IF v = call[c].base THEN body ELSE revisions[v]]
          /\ body' = call[c].next
          /\ version' = call[c].base + 1
          /\ Commit(c)

\* A step fails, or the process is lost.
CallFails(c) == call[c].at # "idle" /\ Fail(c)

Next ==
  \E c \in Calls :
    \/ \E t \in Texts : AddItem(c, t)
    \/ \E n \in 1 .. MaxItems, b \in BOOLEAN : Toggle(c, n, b) \/ Put(c, n, b)
    \/ SelectRow(c) \/ PutBlob(c) \/ WriteBody(c) \/ CallFails(c)

Spec == Init /\ [][Next]_vars

-----------------------------------------------------------------------------
TypeOK ==
  /\ body \in Body
  /\ version \in Versions
  /\ DOMAIN revisions \subseteq Versions
  /\ \A v \in DOMAIN revisions : revisions[v] \in Body
  /\ blob \in 0 .. MaxVersion
  /\ putter \subseteq Calls
  /\ call \in [Calls -> Call]
  /\ acked \subseteq [version : Versions, body : Body]
  /\ struck \in 0 .. MaxVersion

\* What body each version was: the revisions on record, and the current one.
History == [v \in 1 .. version |-> IF v < version THEN revisions[v] ELSE body]

\* A put has gone over the ciphertext of v: that of a later large version, that
\* of a call under way, or one that came to nothing or crossed another's.
PutOver(v) ==
  \/ \E w \in v + 1 .. version : Large(History[w])
  \/ \E c \in Calls : call[c].at = "put"
  \/ v <= struck

(* What a call was told it had written is the current body or on record as the
   revision of its version, and one that fits the row stays for good.  The
   ciphertext of a large one is in the bucket until another large one is put:
   by the update that makes a revision of it or by a later one, or by a call
   that is then refused or fails. *)
AcknowledgedIsKept ==
  \A a \in acked :
    /\ a.version \in DOMAIN History /\ History[a.version] = a.body
    /\ Large(a.body) => blob = a.version \/ PutOver(a.version)

(* The row is compared with the expected version by a SELECT that takes no
   lock.  A call that expects a version replaces exactly the body that its
   client had seen all the same. *)
ExpectedBodyIsReplaced ==
  [][\A c \in Calls :
       call[c].expect # 0 /\ WriteBody(c) /\ version' # version => body = call[c].seen]_vars

(* The list tools expect no version, and one of two that overlap undoes the
   other's edit.  Without an overlap nothing is undone: the body an edit
   replaces is the one it was made from, or was written since. *)
UndoneOnlyByOverlap ==
  [][\A c \in Calls :
       call[c].at \in {"selected", "put"} /\ call'[c].at = "idle" /\ body' # body
         => body = call[c].seen \/ version > call[c].read]_vars

(* SELECT, comparison, INSERT of the revision and UPDATE, none of which takes
   a lock before it, amount to one atomic comparison with the current version.
   The history is of what is on record, which body each version was; whether
   its ciphertext is still in the bucket is what AcknowledgedIsKept says. *)
Versioned == INSTANCE VersionedBody
             WITH Clients <- Calls,
                  Bodies  <- Body,
                  First   <- <<>>,
                  history <- History,
                  expects <- [c \in Calls |-> call[c].expect]
ImplementsVersioned == Versioned!Spec
=============================================================================
