-------------------------------- MODULE Refs --------------------------------
(***************************************************************************)
(* The graph of references between objects, the counters it keeps on its   *)
(* targets and the shares that follow it: addRef and removeRef             *)
(* (src/storage/refs.ts) and the tools that call them, skills.put,         *)
(* skills.attach_resource, skills.detach_resource, docs.attach_to,         *)
(* docs.delete and skills.delete (src/mcp/tools/).                         *)
(*                                                                         *)
(* The database runs READ COMMITTED: each statement sees what is committed *)
(* when it starts.  A row that a transaction has written stays locked      *)
(* until it ends.  The tools string several transactions together and hold *)
(* nothing in between.  All calls are by one user.                         *)
(***************************************************************************)
EXTENDS Integers, FiniteSets

CONSTANTS
  Calls,       \* tool calls that can be under way at the same time
  Docs,        \* objects of the user that are no skills
  Skills,      \* objects of subtype skill_manifest, with cascade_on_share
  NewSkills,   \* the skills that do not exist in the beginning
  Foreign,     \* objects shared with the user read-only
  Groups,      \* the groups the user shares with
  Edges,       \* the references [from, to, role] the calls ask for
  Disposable,  \* bound: the objects that calls delete and restore
  MaxTools,    \* bound: the tool calls of a behaviour
  Listed,      \* meta.resource_ids of each skill in the beginning
  CycleDepth,  \* CYCLE_DETECTION_DEPTH
  Direct,      \* via_cascade_from_object_id of a grant made by hand: null
  Nobody       \* no call

Objects == Docs \cup Skills \cup Foreign
Roles   == {"resource", "references", "depends_on"}

ASSUME CallsAssumption  == Nobody \notin Calls
ASSUME ObjectAssumption == /\ IsFiniteSet(Objects) /\ NewSkills \subseteq Skills
                           /\ Direct \notin Objects /\ Disposable \subseteq Objects
                           /\ Listed \in [Skills -> SUBSET Objects]
ASSUME EdgeAssumption   == /\ Edges \subseteq [from : Objects, to : Objects, role : Roles]
                           /\ Edges # {} /\ IsFiniteSet(Edges)
                           /\ \A e \in Edges : e.from # e.to
ASSUME DepthAssumption  == CycleDepth \in Nat /\ MaxTools \in Nat

VARIABLES
  refs,    \* object_refs: the committed references
  object,  \* objects: state, refcount, is_subdoc
  grants,  \* share_grants to groups that are not revoked
  listed,  \* meta.resource_ids
  call,    \* progress of each call
  lock,    \* who holds the row of an object
  begun,   \* number of tool calls so far
  missed,  \* history: the refs committed while the call that added one was looking
  strays   \* history: cascade shares that outlived their reference, by failures

vars == <<refs, object, grants, listed, call, lock, begun, missed, strays>>

States == {"absent", "live", "deleted"}
Stages == {"idle", "outgoing", "loop", "walk", "inserted", "counted", "cascade",
           "removed", "uncounted", "scanned", "revoke", "delete"}
Object == [state : States, refcount : Nat, isSubdoc : BOOLEAN]
Grant  == [to : Objects, group : Groups, via : Objects \cup {Direct}]
Call   == [at       : Stages,
           tool     : {"one", "each", "put"},  \* how it goes on after a failure
           target   : Objects,                 \* the object it is about
           rest     : SUBSET Edges,            \* references still to add
           edge     : Edges,                   \* the one being added or removed
           seen     : SUBSET Objects,
           frontier : SUBSET Objects,
           depth    : 0 .. CycleDepth,
           groups   : SUBSET Groups,           \* cascadeTargets
           any      : BOOLEAN,                 \* stillAny
           late     : SUBSET Edges]            \* history: refs committed since it looked

Resource(s, d) == [from |-> s, to |-> d, role |-> "resource"]
Into(o, E)     == {e \in E : e.to = o}
IsResource(e)  == e.role = "resource"
Own(o)         == o \notin Foreign
Visible(o)     == object[o].state # "absent"
Live(o)        == object[o].state = "live"
Bundles(e)     == IsResource(e) /\ e.from \in Skills
At(c, stage)   == [call EXCEPT ![c].at = stage]
Idle           == [at |-> "idle", tool |-> "one", target |-> CHOOSE o \in Objects : TRUE,
                   rest |-> {}, edge |-> CHOOSE e \in Edges : TRUE, seen |-> {},
                   frontier |-> {}, depth |-> 0, groups |-> {}, any |-> FALSE, late |-> {}]
Done(c)        == [call EXCEPT ![c] = Idle]

\* The uncommitted row of object_refs a call has inserted or deleted.
Writes(c)  == call[c].at \in {"inserted", "counted", "removed", "uncounted", "scanned"}
RefFree(c, e) == \A b \in Calls \ {c} : Writes(b) => call[b].edge # e
RowFree(o) == lock[o] = Nobody
Released(c) == [o \in Objects |-> IF lock[o] = c THEN Nobody ELSE lock[o]]

Init ==
  /\ refs = {}
  /\ object = [o \in Objects |-> [state |-> IF o \in NewSkills THEN "absent" ELSE "live",
                                  refcount |-> 0, isSubdoc |-> FALSE]]
  /\ grants = {}
  /\ listed = Listed
  /\ call = [c \in Calls |-> Idle]
  /\ lock = [o \in Objects |-> Nobody]
  /\ begun = 0
  /\ missed = [e \in Edges |-> {}]
  /\ strays = {}

-----------------------------------------------------------------------------
(* The tools that add references *)

Free(c) == call[c].at = "idle" /\ begun < MaxTools

Begin(c, tool, target, wanted, stage) ==
  /\ Free(c)
  /\ begun' = begun + 1
  /\ call' = [call EXCEPT ![c] = [Idle EXCEPT !.at = stage, !.tool = tool,
                                              !.target = target, !.rest = wanted]]

\* objects.add_ref, skills.attach_resource.
Attach(c, e) ==
  /\ Begin(c, "one", Idle.target, {e}, "loop")
  /\ UNCHANGED <<refs, object, grants, listed, lock, missed, strays>>

\* docs.attach_to: one addRef per skill, a failure does not stop the rest.
AttachTo(c, d) ==
  /\ \E wanted \in SUBSET {e \in Into(d, Edges) : IsResource(e)} :
       Cardinality(wanted) > 1 /\ Begin(c, "each", Idle.target, wanted, "loop")
  /\ UNCHANGED <<refs, object, grants, listed, lock, missed, strays>>

\* skills.put without an id: the row first, then its seeds; the first
\* failure ends the call, and the skill stays.
PutCreate(c, s) ==
  /\ call[c].at = "idle"
  /\ object[s].state = "absent"
  /\ \E wanted \in SUBSET {e \in Edges : e.from = s /\ IsResource(e)} :
       IF wanted = {} THEN UNCHANGED <<call, begun>>
                      ELSE Begin(c, "one", Idle.target, wanted, "loop")
  /\ object' = [object EXCEPT ![s].state = "live"]
  /\ UNCHANGED <<refs, grants, listed, lock, missed, strays>>

\* skills.put with an id reads the list kept by earlier releases ...
PutRead(c, s) ==
  /\ Visible(s)
  /\ Begin(c, "put", s, {e \in Edges : e.from = s /\ IsResource(e) /\ e.to \in listed[s]},
           "outgoing")
  /\ UNCHANGED <<refs, object, grants, listed, lock, missed, strays>>

\* ... and, in another transaction, which of it is attached already ...
PutOutgoing(c) ==
  /\ call[c].at = "outgoing"
  /\ call' = [call EXCEPT ![c].at = "loop", ![c].rest = @ \ refs]
  /\ UNCHANGED <<refs, object, grants, listed, lock, missed, strays, begun>>

\* ... and in the end updates the skill, a deleted one too.  The list goes only
\* when the input has groups: an empty meta leaves the stored one as it is.
PutUpdate(c) ==
  /\ call[c].at = "loop" /\ call[c].tool = "put" /\ call[c].rest = {}
  /\ RowFree(call[c].target)
  /\ listed' \in {listed, [listed EXCEPT ![call[c].target] = {}]}
  /\ call' = Done(c)
  /\ UNCHANGED <<refs, object, grants, lock, missed, strays, begun>>

-----------------------------------------------------------------------------
(* addRef *)

\* On to the references that are left, or to the end of the tool.
Continue(c, left) ==
  IF left = {} /\ call[c].tool # "put"
  THEN Done(c)
  ELSE [call EXCEPT ![c] = [Idle EXCEPT !.at = "loop", !.tool = call[c].tool,
                                        !.target = call[c].target, !.rest = left]]

\* What the caller does with an exception of addRef.
Failed(c, e) ==
  IF call[c].tool = "one" THEN Done(c) ELSE Continue(c, call[c].rest \ {e})

\* The next reference: both ends must be visible, deleted ones are.
AddRef(c) ==
  /\ call[c].at = "loop"
  /\ \E e \in call[c].rest :
       call' = IF Visible(e.from) /\ Visible(e.to)
               THEN [call EXCEPT ![c] = [@ EXCEPT !.at = "walk", !.edge = e, !.seen = {e.to},
                                                  !.frontier = {e.to}, !.depth = 0]]
               ELSE Failed(c, e)
  /\ UNCHANGED <<refs, object, grants, listed, lock, missed, strays, begun>>

Hop(c) == {e.to : e \in {m \in refs : m.from \in call[c].frontier}}

\* Mutant: the walk does not look for the start of the new reference.
WalkOnly(c) ==
  /\ call[c].at = "walk"
  /\ call[c].frontier # {} /\ call[c].depth < CycleDepth
  /\ call' = [call EXCEPT ![c].seen = @ \cup Hop(c),
                          ![c].frontier = Hop(c) \ call[c].seen, ![c].depth = @ + 1]
  /\ UNCHANGED <<refs, object, grants, listed, lock, missed, strays, begun>>

\* One level of the search for a cycle, one SELECT.
Walk(c) ==
  /\ call[c].at = "walk"
  /\ call[c].frontier # {} /\ call[c].depth < CycleDepth
  /\ call' = IF call[c].edge.from \in Hop(c)
             THEN Failed(c, call[c].edge)
             ELSE [call EXCEPT ![c].seen = @ \cup Hop(c),
                               ![c].frontier = Hop(c) \ call[c].seen, ![c].depth = @ + 1]
  /\ UNCHANGED <<refs, object, grants, listed, lock, missed, strays, begun>>

WalkEnds(c) == call[c].at = "walk" /\ (call[c].frontier = {} \/ call[c].depth = CycleDepth)

\* INSERT ... ON CONFLICT DO NOTHING waits for another writer of the same row.
\* Nothing is counted and nothing cascades when the reference is there already.
InsertRef(c) ==
  /\ WalkEnds(c)
  /\ RefFree(c, call[c].edge)
  /\ call' = IF call[c].edge \in refs
             THEN Continue(c, call[c].rest \ {call[c].edge})
             ELSE At(c, "inserted")
  /\ UNCHANGED <<refs, object, grants, listed, lock, missed, strays, begun>>

\* Mutant: the counter is written at the end, so that its row is not locked.
CountUnlocked(c, from, to) ==
  /\ call[c].at = from
  /\ call' = At(c, to)
  /\ UNCHANGED <<refs, object, grants, listed, lock, missed, strays, begun>>

\* The UPDATE of the counter locks the target's row.  Row-level security
\* hides a row shared read-only from it: no row, no lock, no error.
LockTarget(c, from, to) ==
  /\ call[c].at = from
  /\ IF Own(call[c].edge.to)
     THEN /\ RowFree(call[c].edge.to)
          /\ lock' = [lock EXCEPT ![call[c].edge.to] = c]
     ELSE UNCHANGED lock
  /\ call' = At(c, to)
  /\ UNCHANGED <<refs, object, grants, listed, missed, strays, begun>>

CountUp(c) == LockTarget(c, "inserted", "counted")

CascadeOf(e) == {g \in grants : g.to = e.to /\ g.via = e.from /\ IsResource(e)}
Attached     == {g \in grants : Resource(g.via, g.to) \in refs}
GroupsOf(o)  == {g.group : g \in {h \in grants : h.to = o}}

\* History: the calls that have begun to look and are not done miss e.
Seen(e, next) ==
  [b \in Calls |-> IF \/ next[b].at \in {"walk", "inserted", "counted"}
                     \/ (next[b].at = "delete" /\ next[b].target = e.to)
                   THEN [next[b] EXCEPT !.late = @ \cup {e}] ELSE next[b]]

\* is_subdoc, the groups the parent is shared with, COMMIT.
CommitAdd(c) ==
  LET e       == call[c].edge
      targets == IF Bundles(e) THEN GroupsOf(e.from) ELSE {}
  IN
  /\ call[c].at = "counted"
  /\ refs' = refs \cup {e}
  /\ object' = IF Own(e.to)
               THEN [object EXCEPT ![e.to].refcount = @ + 1,
                                   ![e.to].isSubdoc = @ \/ IsResource(e)]
               ELSE object
  /\ missed' = [missed EXCEPT ![e] = call[c].late]
  /\ strays' = strays \ CascadeOf(e)
  /\ call' = Seen(e, IF targets = {}
                     THEN Continue(c, call[c].rest \ {e})
                     ELSE [call EXCEPT ![c] = [@ EXCEPT !.at = "cascade", !.groups = targets,
                             !.seen = {}, !.frontier = {}, !.depth = 0, !.late = {}]])
  /\ lock' = Released(c)
  /\ UNCHANGED <<grants, listed, begun>>

\* After one group is done: the next one, or the next reference.
NextGroup(c, g) ==
  IF call[c].groups = {g}
  THEN Continue(c, call[c].rest \ {call[c].edge})
  ELSE [call EXCEPT ![c].groups = @ \ {g}]

\* createShareWithGroup for one group, after the commit: the child's row must
\* be free and its owner the caller.
CascadeShare(c, g) ==
  LET e     == call[c].edge
      share == [to |-> e.to, group |-> g, via |-> e.from]
  IN
  /\ call[c].at = "cascade" /\ g \in call[c].groups
  /\ Own(e.to) /\ RowFree(e.to)
  /\ grants' = grants \cup {share}
  /\ strays' = IF e \in refs THEN strays ELSE strays \cup {share}
  /\ call' = NextGroup(c, g)
  /\ UNCHANGED <<refs, object, listed, lock, missed, begun>>

\* A share that fails becomes a warning.
CascadeFails(c, g) ==
  /\ call[c].at = "cascade" /\ g \in call[c].groups
  /\ call' = NextGroup(c, g)
  /\ UNCHANGED <<refs, object, grants, listed, lock, missed, strays, begun>>

-----------------------------------------------------------------------------
(* removeRef: objects.remove_ref, skills.detach_resource *)

DeleteRef(c, e) ==
  /\ Free(c)
  /\ begun' = begun + 1
  /\ e \in refs
  /\ RefFree(c, e)
  /\ call' = [call EXCEPT ![c] = [Idle EXCEPT !.at = "removed", !.edge = e]]
  /\ UNCHANGED <<refs, object, grants, listed, lock, missed, strays>>

CountDown(c) == LockTarget(c, "removed", "uncounted")

\* A fresh look for another resource reference, behind the row's lock.
Scan(c) ==
  /\ call[c].at = "uncounted"
  /\ call' = [call EXCEPT ![c].at = "scanned",
                ![c].any = \E m \in Into(call[c].edge.to, refs) \ {call[c].edge} : IsResource(m)]
  /\ UNCHANGED <<refs, object, grants, listed, lock, missed, strays, begun>>

CommitRemove(c) ==
  LET e == call[c].edge IN
  /\ call[c].at = "scanned"
  /\ refs' = refs \ {e}
  /\ object' = IF Own(e.to)
               THEN [object EXCEPT ![e.to].refcount = IF @ > 0 THEN @ - 1 ELSE 0,
                                   ![e.to].isSubdoc = @ /\ (IsResource(e) => call[c].any)]
               ELSE object
  /\ missed' = [m \in Edges |-> IF m = e THEN {} ELSE missed[m] \ {e}]
  /\ call' = [b \in Calls |->
       IF b = c THEN [Idle EXCEPT !.at = IF IsResource(e) THEN "revoke" ELSE "idle",
                                  !.edge = IF IsResource(e) THEN e ELSE @]
                ELSE [call[b] EXCEPT !.late = @ \ {e}]]
  /\ lock' = Released(c)
  /\ UNCHANGED <<grants, listed, strays, begun>>

\* Mutant: parent and child are swapped in the call.
RevokeSwapped(c) ==
  /\ call[c].at = "revoke"
  /\ grants' = grants \ {g \in grants : g.to = call[c].edge.from /\ g.via = call[c].edge.to}
  /\ strays' = strays \ CascadeOf(call[c].edge)
  /\ call' = Done(c)
  /\ UNCHANGED <<refs, object, listed, lock, missed, begun>>

\* revokeCascadeSharesFrom, after the commit.
RevokeCascade(c) ==
  /\ call[c].at = "revoke"
  /\ grants' = grants \ CascadeOf(call[c].edge)
  /\ strays' = strays \ CascadeOf(call[c].edge)
  /\ call' = Done(c)
  /\ UNCHANGED <<refs, object, listed, lock, missed, begun>>

\* Its failure is logged.
RevokeFails(c) ==
  /\ call[c].at = "revoke"
  /\ strays' = strays \cup (CascadeOf(call[c].edge) \ Attached)
  /\ call' = Done(c)
  /\ UNCHANGED <<refs, object, grants, listed, lock, missed, begun>>

-----------------------------------------------------------------------------
(* Deletion, restoring, sharing by hand, failures *)

\* Mutant: the count is not looked at.
DeleteUnchecked(c, o) ==
  /\ Free(c)
  /\ begun' = begun + 1
  /\ Live(o) /\ o \in Disposable
  /\ call' = [call EXCEPT ![c] = [Idle EXCEPT !.at = "delete", !.target = o]]
  /\ UNCHANGED <<refs, object, grants, listed, lock, missed, strays>>

\* docs.delete and skills.delete without force: the count is read first.
DeleteCheck(c, o) ==
  /\ Free(c)
  /\ begun' = begun + 1
  /\ Live(o) /\ o \in Disposable
  /\ object[o].refcount = 0
  /\ call' = [call EXCEPT ![c] = [Idle EXCEPT !.at = "delete", !.target = o]]
  /\ UNCHANGED <<refs, object, grants, listed, lock, missed, strays>>

\* softDeleteObject in a transaction of its own; another owner's row is not found.
DeleteCommit(c) ==
  /\ call[c].at = "delete"
  /\ RowFree(call[c].target)
  /\ object' = IF Live(call[c].target) /\ Own(call[c].target)
               THEN [object EXCEPT ![call[c].target].state = "deleted"]
               ELSE object
  /\ call' = Done(c)
  /\ UNCHANGED <<refs, grants, listed, lock, missed, strays, begun>>

\* force: true, objects.delete, notes.delete.
DeleteForced(o) ==
  /\ Live(o) /\ Own(o) /\ RowFree(o)
  /\ object' = [object EXCEPT ![o].state = "deleted"]
  /\ UNCHANGED <<refs, grants, listed, call, lock, missed, strays, begun>>

Restore(o) ==
  /\ object[o].state = "deleted" /\ RowFree(o)
  /\ object' = [object EXCEPT ![o].state = "live"]
  /\ UNCHANGED <<refs, grants, listed, call, lock, missed, strays, begun>>

\* skills.share_with_group: the skill alone.
Share(s, g) ==
  /\ Visible(s) /\ Own(s) /\ RowFree(s)
  /\ grants' = grants \cup {[to |-> s, group |-> g, via |-> Direct]}
  /\ UNCHANGED <<refs, object, listed, call, lock, missed, strays, begun>>

\* shares.revoke: one grant by its id, of whatever origin.
Revoke(h) ==
  /\ h \in grants
  /\ grants' = grants \ {h}
  /\ strays' = strays \ {h}
  /\ UNCHANGED <<refs, object, listed, call, lock, missed, begun>>

\* The process dies or the connection is lost: the open transaction rolls
\* back, what the call still had to do is not done.
Drop(c) ==
  /\ call[c].at # "idle"
  /\ strays' = IF call[c].at = "revoke"
               THEN strays \cup (CascadeOf(call[c].edge) \ Attached) ELSE strays
  /\ call' = Done(c)
  /\ lock' = Released(c)
  /\ UNCHANGED <<refs, object, grants, listed, missed, begun>>

-----------------------------------------------------------------------------
AddStep(c) ==
  \/ AddRef(c) \/ Walk(c) \/ InsertRef(c) \/ CountUp(c) \/ CommitAdd(c)
  \/ \E g \in Groups : CascadeShare(c, g) \/ CascadeFails(c, g)

RemoveStep(c) ==
  \/ CountDown(c) \/ Scan(c) \/ CommitRemove(c) \/ RevokeCascade(c) \/ RevokeFails(c)

Tool(c) ==
  \/ \E e \in Edges : Attach(c, e) \/ DeleteRef(c, e)
  \/ \E o \in Objects : AttachTo(c, o) \/ DeleteCheck(c, o)
  \/ \E s \in Skills : PutCreate(c, s) \/ PutRead(c, s)
  \/ PutOutgoing(c) \/ PutUpdate(c) \/ DeleteCommit(c) \/ Drop(c)

Next ==
  \/ \E c \in Calls : AddStep(c) \/ RemoveStep(c) \/ Tool(c)
  \/ \E o \in Disposable : DeleteForced(o) \/ Restore(o)
  \/ \E s \in Skills, g \in Groups : Share(s, g)
  \/ \E h \in grants : Revoke(h)

Spec == Init /\ [][Next]_vars

-----------------------------------------------------------------------------
(* Type *)
TypeOK ==
  /\ refs \subseteq Edges
  /\ object \in [Objects -> Object]
  /\ grants \subseteq Grant
  /\ listed \in [Skills -> SUBSET Objects]
  /\ call \in [Calls -> Call]
  /\ lock \in [Objects -> Calls \cup {Nobody}]
  /\ begun \in 0 .. MaxTools
  /\ missed \in [Edges -> SUBSET Edges]
  /\ strays \subseteq grants

(* refcount and is_subdoc of every object of the user say what object_refs
   says, however adds, removes and rollbacks interleave: the lock of the
   counter's UPDATE orders the scan for another resource reference too. *)
CountsAreExact ==
  \A o \in Objects : Own(o) =>
    /\ object[o].refcount = Cardinality(Into(o, refs))
    /\ object[o].isSubdoc <=> \E e \in Into(o, refs) : IsResource(e)

(* The search for a cycle sees only what is committed, so two calls that add
   references at the same time can close a cycle that neither finds.  That is
   the only way: a cycle within the searched length holds two references, one
   of which was committed while the call that added the other was looking. *)
CyclesComeFromOverlaps ==
  \A C \in SUBSET refs :
    /\ C # {} /\ Cardinality(C) <= CycleDepth + 1
    /\ \A e \in C : \E m \in C : m.from = e.to
    => \E e, m \in C : m \in missed[e]

(* A share that came with a reference goes with it, unless the revocation
   failed or was lost, or the share was made after the reference had gone. *)
CascadeGrantsHaveACause ==
  \A g \in grants :
    g.via # Direct =>
      \/ Resource(g.via, g.to) \in refs
      \/ g \in strays
      \/ \E c \in Calls : call[c].at = "revoke" /\ call[c].edge = Resource(g.via, g.to)

(* docs.delete and skills.delete check the counter in one transaction and
   delete in the next.  Whatever was added in between, an object is not
   deleted under a reference that was there when the counter was read. *)
DeletedUnderNoOlderRef ==
  [][\A c \in Calls, o \in Objects :
       DeleteCommit(c) /\ object[o].state = "live" /\ object'[o].state = "deleted"
         => Into(o, refs) \subseteq call[c].late]_vars
=============================================================================
