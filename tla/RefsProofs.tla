----------------------------- MODULE RefsProofs -----------------------------
(***************************************************************************)
(* The graph of references, for every set of calls, objects, groups and    *)
(* references and every depth of the search for cycles.  RInv is           *)
(* inductive; what it says of one call is CallInv, a predicate of the      *)
(* call's record, the committed references and the locks.                  *)
(***************************************************************************)
EXTENDS Refs, FiniteSetTheorems, TLAPS

\* An uncommitted INSERT is of a reference that is not there, a DELETE of one that is.
WritesFit(k, R) ==
  /\ k.at \in {"inserted", "counted"} => k.edge \notin R
  /\ k.at \in {"removed", "uncounted", "scanned"} => k.edge \in R

\* Who has written the counter holds its row; what the scan saw is still so.
Holds(c, k, L) ==
  k.at \in {"counted", "uncounted", "scanned"} /\ Own(k.edge.to) => L[k.edge.to] = c
ScanIsTrue(k, R) ==
  k.at = "scanned" /\ Own(k.edge.to) =>
    (k.any <=> \E m \in Into(k.edge.to, R) \ {k.edge} : IsResource(m))

\* Cascades are of resource references.
CascadeFits(k) == k.at = "cascade" => IsResource(k.edge)

\* A delete knows of every reference that has come since the counter was 0.
DeleteKnows(k, R) ==
  k.at = "delete" /\ Own(k.target) => Into(k.target, R) \subseteq k.late

\* The search for a cycle from the target of the new reference, over the
\* references that were there all the time: it has not met the start, it has
\* followed all of them from the objects behind the frontier, and within any
\* set of them it has either followed every path to its end or has used as many
\* of them as levels it has made.
Closed(E, X) == \A m \in E : m.from \in X => m.to \in X
Inside(E, X) == {m \in E : m.from \in X /\ m.to \in X}
ReachesFar(k, E) ==
  \E X \in SUBSET k.seen :
    k.edge.to \in X /\ (Closed(E, X) \/ Cardinality(Inside(E, X)) >= k.depth)
Thorough(k, R) ==
  k.at \in {"walk", "inserted", "counted"} =>
    /\ k.edge.to \in k.seen /\ k.edge.from \notin k.seen
    /\ \A m \in R \ k.late : m.from \in k.seen \ k.frontier => m.to \in k.seen
    /\ \A E \in SUBSET (R \ k.late) : ReachesFar(k, E)
    /\ k.at # "walk" => k.frontier = {} \/ k.depth = CycleDepth

CallInv(c, k, R, L) ==
  /\ WritesFit(k, R) /\ Holds(c, k, L) /\ ScanIsTrue(k, R)
  /\ CascadeFits(k) /\ DeleteKnows(k, R) /\ Thorough(k, R)
CallsInv == \A c \in Calls : CallInv(c, call[c], refs, lock)

\* Two calls never have the same reference uncommitted.
WritersAreApart ==
  \A b, c \in Calls : b # c /\ Writes(b) /\ Writes(c) => call[b].edge # call[c].edge

RInv ==
  /\ TypeOK /\ CallsInv /\ WritersAreApart
  /\ CountsAreExact /\ CyclesComeFromOverlaps /\ CascadeGrantsHaveACause

-----------------------------------------------------------------------------
(* Records of calls *)

Quiet == {"idle", "outgoing", "loop"}

\* A call that is over is a call.
LEMMA IdleIsCall == Idle \in Call /\ Idle.at = "idle"
  <1>1. PICK e \in Edges : TRUE
    BY EdgeAssumption
  <1>2. e.from \in Objects
    BY <1>1, EdgeAssumption
  <1>3. (CHOOSE o \in Objects : TRUE) \in Objects
    BY <1>2
  <1>4. (CHOOSE x \in Edges : TRUE) \in Edges
    BY <1>1
  <1>5. QED
    BY <1>3, <1>4, DepthAssumption DEF Idle, Call, Stages

\* A call that has no uncommitted write, search, delete or cascade asks for nothing.
LEMMA QuietCall ==
  ASSUME NEW c, NEW k, NEW R, NEW L, k.at \in Quiet \cup {"revoke"}
  PROVE  CallInv(c, k, R, L)
  BY DEF CallInv, WritesFit, Holds, ScanIsTrue, CascadeFits, DeleteKnows, Thorough, Quiet

\* Fewer references to follow, and the same search, are as thoroughly searched.
LEMMA ThoroughStays ==
  ASSUME NEW k, NEW R, NEW k2, NEW R2, Thorough(k, R),
         k2.edge = k.edge, k2.seen = k.seen, k2.frontier = k.frontier, k2.depth = k.depth,
         k2.at \in {"walk", "inserted", "counted"} => k.at \in {"walk", "inserted", "counted"},
         k2.at \in {"inserted", "counted"} =>
           k.at # "walk" \/ k.frontier = {} \/ k.depth = CycleDepth,
         R2 \ k2.late \subseteq R \ k.late
  PROVE  Thorough(k2, R2)
  BY DEF Thorough, ReachesFar

\* What the search has to begin with.
LEMMA WalkBegins ==
  ASSUME NEW k \in Call, NEW R, R \subseteq Edges,
         k.at = "walk", k.seen = {k.edge.to}, k.frontier = {k.edge.to}, k.depth = 0
  PROVE  Thorough(k, R)
  <1>1. k.edge \in Edges /\ k.edge.from # k.edge.to
    BY EdgeAssumption DEF Call
  <1>2. ASSUME NEW E \in SUBSET (R \ k.late) PROVE ReachesFar(k, E)
    <2>1. IsFiniteSet(Inside(E, {k.edge.to}))
      BY EdgeAssumption, FS_Subset DEF Inside
    <2>2. Cardinality(Inside(E, {k.edge.to})) >= 0
      BY <2>1, FS_CardinalityType
    <2>3. QED
      BY <2>2 DEF ReachesFar
  <1>3. QED
    BY <1>1, <1>2 DEF Thorough

\* One level more.
LEMMA WalkGoesOn ==
  ASSUME NEW k \in Call, NEW R, R \subseteq Edges, Thorough(k, R), k.at = "walk",
         k.depth < CycleDepth,
         NEW hop, hop = {m.to : m \in {n \in R : n.from \in k.frontier}},
         k.edge.from \notin hop,
         NEW k2, k2.at = "walk", k2.edge = k.edge, k2.late = k.late, k2.depth = k.depth + 1,
         k2.seen = k.seen \cup hop, k2.frontier = hop \ k.seen
  PROVE  Thorough(k2, R)
  <1> DEFINE old == R \ k.late
  <1>1. ASSUME NEW m \in old, m.from \in k.seen PROVE m.to \in k2.seen
    BY <1>1 DEF Thorough
  <1>2. ASSUME NEW E \in SUBSET old PROVE ReachesFar(k2, E)
    <2>1. PICK X \in SUBSET k.seen :
            k.edge.to \in X /\ (Closed(E, X) \/ Cardinality(Inside(E, X)) >= k.depth)
      BY <1>2 DEF Thorough, ReachesFar
    <2>2. CASE Closed(E, X)
      BY <2>1, <2>2 DEF ReachesFar
    <2>3. CASE ~Closed(E, X)
      <3> DEFINE Y == X \cup {m.to : m \in {n \in E : n.from \in X}}
      <3>1. Y \in SUBSET k2.seen
        BY <1>1
      <3>2. PICK m \in E : m.from \in X /\ m.to \notin X
        BY <2>3 DEF Closed
      <3>3. IsFiniteSet(Inside(E, X)) /\ IsFiniteSet(Inside(E, Y))
        <4>1. Inside(E, X) \in SUBSET Edges /\ Inside(E, Y) \in SUBSET Edges
          BY DEF Inside
        <4>2. QED
          BY <4>1, EdgeAssumption, FS_Subset
      <3>4. Inside(E, X) \cup {m} \in SUBSET Inside(E, Y) /\ m \notin Inside(E, X)
        BY <3>2 DEF Inside
      <3>5. Cardinality(Inside(E, X) \cup {m}) = Cardinality(Inside(E, X)) + 1
        BY <3>3, <3>4, FS_AddElement
      <3>6. Cardinality(Inside(E, X) \cup {m}) <= Cardinality(Inside(E, Y))
        BY <3>3, <3>4, FS_Subset
      <3>7. /\ Cardinality(Inside(E, X)) \in Nat /\ Cardinality(Inside(E, Y)) \in Nat
            /\ k.depth \in Nat
        BY <3>3, FS_CardinalityType, DepthAssumption DEF Call
      <3>8. Cardinality(Inside(E, Y)) >= k.depth + 1
        BY <2>1, <2>3, <3>5, <3>6, <3>7
      <3>9. k.edge.to \in Y
        BY <2>1
      <3> HIDE DEF Y
      <3>10. QED
        BY <3>1, <3>8, <3>9 DEF ReachesFar
    <2>4. QED
      BY <2>2, <2>3
  <1>3. \A m \in old : m.from \in k2.seen \ k2.frontier => m.to \in k2.seen
    BY <1>1
  <1>4. k2.edge.to \in k2.seen /\ k2.edge.from \notin k2.seen
    BY DEF Thorough
  <1>5. QED
    BY <1>2, <1>3, <1>4 DEF Thorough

\* What a set of references is that cannot be left.
Cyclic(C) == C # {} /\ \A e \in C : \E m \in C : m.from = e.to

\* A set that cannot be left and holds the new reference, and nothing else that
\* the search could have missed, holds one without the new reference.
LEMMA OlderCycle ==
  ASSUME NEW k \in Call, NEW R, R \subseteq Edges, Thorough(k, R), k.at = "counted",
         NEW C, C \subseteq R \cup {k.edge}, k.edge \in C, Cyclic(C),
         Cardinality(C) <= CycleDepth + 1, (C \ {k.edge}) \cap k.late = {}
  PROVE  \E D \in SUBSET (C \ {k.edge}) : Cyclic(D) /\ Cardinality(D) <= CycleDepth + 1
  <1> DEFINE E == C \ {k.edge}
  <1>1. E \in SUBSET (R \ k.late)
    OBVIOUS
  <1>2. k.edge \in Edges /\ k.depth \in Nat /\ CycleDepth \in Nat
    BY DepthAssumption DEF Call
  <1>3. /\ IsFiniteSet(C) /\ IsFiniteSet(E)
        /\ Cardinality(E) = Cardinality(C) - 1 /\ Cardinality(C) \in Nat
    <2>1. C \in SUBSET Edges
      BY <1>2
    <2>2. IsFiniteSet(C)
      BY <2>1, EdgeAssumption, FS_Subset
    <2>3. QED
      BY <2>2, FS_RemoveElement, FS_CardinalityType
  <1>4. PICK X \in SUBSET k.seen : k.edge.to \in X /\ Closed(E, X)
    <2>1. CASE k.frontier = {}
      <3>1. Closed(E, k.seen) /\ k.edge.to \in k.seen
        BY <1>1, <2>1 DEF Closed, Thorough
      <3>2. QED
        BY <3>1
    <2>2. CASE k.depth = CycleDepth
      <3>1. PICK X \in SUBSET k.seen :
              k.edge.to \in X /\ (Closed(E, X) \/ Cardinality(Inside(E, X)) >= k.depth)
        BY <1>1 DEF Thorough, ReachesFar
      <3>2. ASSUME Cardinality(Inside(E, X)) >= k.depth PROVE Closed(E, X)
        <4>1. Inside(E, X) \in SUBSET E
          BY DEF Inside
        <4>2. /\ Cardinality(Inside(E, X)) <= Cardinality(E)
              /\ Cardinality(E) = Cardinality(Inside(E, X)) => E = Inside(E, X)
              /\ IsFiniteSet(Inside(E, X))
          BY <1>3, <4>1, FS_Subset
        <4>3. Cardinality(Inside(E, X)) \in Nat /\ Cardinality(E) \in Nat
          BY <1>3, <4>2, FS_CardinalityType
        <4> HIDE DEF E
        <4>4. E = Inside(E, X)
          BY <1>2, <1>3, <2>2, <3>2, <4>2, <4>3
        <4>5. \A m \in Inside(E, X) : m.to \in X
          BY DEF Inside
        <4>6. QED
          BY <4>4, <4>5 DEF Closed
      <3>3. QED
        BY <3>1, <3>2
    <2>3. QED
      BY <2>1, <2>2 DEF Thorough
  <1> DEFINE D == {m \in E : m.from \in X}
  <1>5. k.edge.from \notin X
    BY DEF Thorough
  <1>6. D # {}
    BY <1>4, <1>5 DEF Cyclic
  <1>7. \A e \in D : \E m \in D : m.from = e.to
    BY <1>4, <1>5 DEF Cyclic, Closed
  <1>8. Cardinality(D) <= CycleDepth + 1
    <2>1. D \in SUBSET C
      OBVIOUS
    <2>2. Cardinality(D) <= Cardinality(C) /\ IsFiniteSet(D)
      BY <1>3, <2>1, FS_Subset
    <2>3. Cardinality(D) \in Nat
      BY <2>2, FS_CardinalityType
    <2>4. QED
      BY <1>2, <1>3, <2>2, <2>3
  <1>9. D \in SUBSET (C \ {k.edge})
    OBVIOUS
  <1> HIDE DEF D
  <1>10. QED
    BY <1>6, <1>7, <1>8, <1>9 DEF Cyclic

-----------------------------------------------------------------------------
(* Steps that leave the references as they are *)

\* Nothing has happened yet.
LEMMA RefsInit == Init => RInv
  <1> SUFFICES ASSUME Init PROVE RInv
    OBVIOUS
  <1>1. TypeOK
    BY IdleIsCall, ObjectAssumption, DepthAssumption DEF Init, TypeOK, Object, States
  <1>2. CallsInv
    BY IdleIsCall, QuietCall DEF Init, CallsInv, Quiet
  <1>3. WritersAreApart
    BY IdleIsCall DEF Init, WritersAreApart, Writes
  <1>4. CountsAreExact
    <2>1. \A o \in Objects : Into(o, refs) = {}
      BY DEF Init, Into
    <2>2. QED
      BY <2>1, FS_EmptySet DEF Init, CountsAreExact
  <1>5. CyclesComeFromOverlaps /\ CascadeGrantsHaveACause
    BY DEF Init, CyclesComeFromOverlaps, CascadeGrantsHaveACause
  <1>6. QED
    BY <1>1, <1>2, <1>3, <1>4, <1>5 DEF RInv

\* A step of one call that changes no reference, no counter and no lock of another.
LEMMA OneCall ==
  ASSUME RInv, TypeOK', NEW c \in Calls, NEW k \in Call, call' = [call EXCEPT ![c] = k],
         UNCHANGED <<refs, missed>>,
         \A o \in Objects : object'[o].refcount = object[o].refcount
                            /\ object'[o].isSubdoc = object[o].isSubdoc,
         \A o \in Objects : lock[o] \in Calls \ {c} => lock'[o] = lock[o],
         CallInv(c, k, refs, lock'),
         k.at \in {"inserted", "counted", "removed", "uncounted", "scanned"} =>
           \A b \in Calls \ {c} : Writes(b) => call[b].edge # k.edge,
         CascadeGrantsHaveACause'
  PROVE  RInv'
  <1>1. call \in [Calls -> Call] /\ refs \subseteq Edges
    BY DEF RInv, TypeOK
  <1>2. call'[c] = k /\ \A b \in Calls \ {c} : call'[b] = call[b]
    BY <1>1
  <1>3. CallsInv'
    <2>1. ASSUME NEW b \in Calls, b # c PROVE CallInv(b, call[b], refs, lock')
      <3>1. CallInv(b, call[b], refs, lock)
        BY DEF RInv, CallsInv
      <3>2. call[b].edge.to \in Objects
        BY <1>1, EdgeAssumption DEF Call
      <3>3. Holds(b, call[b], lock')
        BY <2>1, <3>1, <3>2 DEF CallInv, Holds
      <3>4. QED
        BY <3>1, <3>3 DEF CallInv
    <2>2. ASSUME NEW b \in Calls PROVE CallInv(b, call'[b], refs', lock')
      BY <1>2, <2>1
    <2>3. QED
      BY <2>2 DEF CallsInv
  <1>4. WritersAreApart'
    BY <1>2 DEF RInv, WritersAreApart, Writes
  <1>5. CountsAreExact'
    BY DEF RInv, CountsAreExact
  <1>6. CyclesComeFromOverlaps'
    BY DEF RInv, CyclesComeFromOverlaps
  <1>7. QED
    BY <1>3, <1>4, <1>5, <1>6 DEF RInv

\* A call that does not revoke keeps the causes of all grants.
LEMMA CausesStay ==
  ASSUME RInv, NEW c \in Calls, NEW k, call' = [call EXCEPT ![c] = k],
         UNCHANGED <<refs, grants, strays>>, call[c].at # "revoke"
  PROVE  CascadeGrantsHaveACause'
  BY DEF RInv, TypeOK, CascadeGrantsHaveACause

\* A step that changes the record of one call, and may count it.
LEMMA Ordinary ==
  ASSUME RInv, NEW c \in Calls, NEW k \in Call, call' = [call EXCEPT ![c] = k],
         UNCHANGED <<refs, object, grants, listed, lock, missed, strays>>,
         begun' \in 0 .. MaxTools, call[c].at # "revoke", CallInv(c, k, refs, lock),
         k.at \in {"inserted", "counted", "removed", "uncounted", "scanned"} =>
           \A b \in Calls \ {c} : Writes(b) => call[b].edge # k.edge
  PROVE  RInv'
  <1>1. TypeOK'
    BY DEF RInv, TypeOK
  <1>2. CascadeGrantsHaveACause'
    BY CausesStay
  <1>3. QED
    BY <1>1, <1>2, OneCall

\* The next reference or the end of the tool: a quiet record.
LEMMA ContinueCall ==
  ASSUME TypeOK, NEW c \in Calls, NEW left \in SUBSET Edges
  PROVE  \E k \in Call : k.at \in Quiet /\ Continue(c, left) = [call EXCEPT ![c] = k]
  <1>1. call[c] \in Call
    BY DEF TypeOK
  <1> DEFINE k == [Idle EXCEPT !.at = "loop", !.tool = call[c].tool,
                               !.target = call[c].target, !.rest = left]
  <1>2. k \in Call /\ k.at = "loop"
    BY <1>1, IdleIsCall DEF Call, Stages
  <1>3. CASE left = {} /\ call[c].tool # "put"
    BY <1>3, IdleIsCall DEF Continue, Done, Quiet
  <1>4. CASE ~(left = {} /\ call[c].tool # "put")
    BY <1>2, <1>4 DEF Continue, Quiet
  <1>5. QED
    BY <1>3, <1>4

LEMMA FailedCall ==
  ASSUME TypeOK, NEW c \in Calls, NEW e
  PROVE  \E k \in Call : k.at \in Quiet /\ Failed(c, e) = [call EXCEPT ![c] = k]
  <1>1. CASE call[c].tool = "one"
    BY <1>1, IdleIsCall DEF Failed, Done, Quiet
  <1>2. CASE call[c].tool # "one"
    <2>1. call[c].rest \ {e} \in SUBSET Edges
      BY DEF TypeOK, Call
    <2>2. QED
      BY <1>2, <2>1, ContinueCall DEF Failed
  <1>3. QED
    BY <1>1, <1>2

\* A step that ends in a quiet record.
LEMMA QuietStep ==
  ASSUME RInv, NEW c \in Calls, NEW k \in Call, k.at \in Quiet, call' = [call EXCEPT ![c] = k],
         UNCHANGED <<refs, object, grants, listed, lock, missed, strays>>,
         begun' \in 0 .. MaxTools, call[c].at # "revoke"
  PROVE  RInv'
  <1>1. CallInv(c, k, refs, lock)
    BY QuietCall
  <1>2. QED
    BY <1>1, Ordinary DEF Quiet

\* There is room for one more tool call.
LEMMA FreeCall ==
  ASSUME RInv, NEW c \in Calls, Free(c)
  PROVE  begun + 1 \in 0 .. MaxTools /\ call[c].at = "idle"
  BY DepthAssumption DEF Free, RInv, TypeOK

\* The record a tool begins with.
LEMMA BeginCall ==
  ASSUME RInv, NEW c \in Calls, NEW tool \in {"one", "each", "put"}, NEW target \in Objects,
         NEW wanted \in SUBSET Edges, NEW stage \in {"loop", "outgoing"},
         Begin(c, tool, target, wanted, stage)
  PROVE  /\ \E k \in Call : k.at \in Quiet /\ call' = [call EXCEPT ![c] = k]
         /\ begun' \in 0 .. MaxTools /\ call[c].at # "revoke"
  <1> DEFINE k == [Idle EXCEPT !.at = stage, !.tool = tool, !.target = target, !.rest = wanted]
  <1>1. k \in Call /\ k.at = stage
    BY IdleIsCall DEF Call, Stages
  <1>2. call' = [call EXCEPT ![c] = k]
    BY DEF Begin
  <1>3. begun' \in 0 .. MaxTools /\ call[c].at # "revoke"
    BY FreeCall DEF Begin
  <1>4. QED
    BY <1>1, <1>2, <1>3 DEF Quiet

\* objects.add_ref, skills.attach_resource, docs.attach_to, skills.put with an id.
LEMMA BeginSteps ==
  ASSUME RInv, NEW c \in Calls,
         \/ \E e \in Edges : Attach(c, e)
         \/ \E d \in Objects : AttachTo(c, d)
         \/ \E s \in Skills : PutRead(c, s)
  PROVE  RInv'
  <1>1. Idle.target \in Objects
    BY IdleIsCall DEF Call
  <1>2. CASE \E e \in Edges : Attach(c, e)
    BY <1>1, <1>2, BeginCall, QuietStep DEF Attach
  <1>3. CASE \E d \in Objects : AttachTo(c, d)
    <2>1. PICK d \in Objects, wanted \in SUBSET Edges :
            /\ Begin(c, "each", Idle.target, wanted, "loop")
            /\ UNCHANGED <<refs, object, grants, listed, lock, missed, strays>>
      BY <1>3 DEF AttachTo, Into
    <2>2. QED
      BY <1>1, <2>1, BeginCall, QuietStep
  <1>4. CASE \E s \in Skills : PutRead(c, s)
    <2>1. PICK s \in Skills : PutRead(c, s)
      BY <1>4
    <2>2. s \in Objects
      BY DEF Objects
    <2>3. QED
      BY <2>1, <2>2, BeginCall, QuietStep DEF PutRead
  <1>5. QED
    BY <1>2, <1>3, <1>4

\* skills.put without an id: the new row has no references and no count.
LEMMA PutCreateStep ==
  ASSUME RInv, NEW c \in Calls, NEW s \in Skills, PutCreate(c, s)
  PROVE  RInv'
  <1>1. s \in Objects /\ Idle.target \in Objects
    BY IdleIsCall DEF Objects, Call
  <1>2. PICK k \in Call : /\ k.at \in Quiet /\ call' = [call EXCEPT ![c] = k]
                          /\ begun' \in 0 .. MaxTools /\ call[c].at # "revoke"
    <2>1. PICK wanted \in SUBSET Edges :
            IF wanted = {} THEN UNCHANGED <<call, begun>>
                           ELSE Begin(c, "one", Idle.target, wanted, "loop")
      BY DEF PutCreate
    <2>2. CASE wanted = {}
      <3>1. call[c] \in Call /\ call[c].at = "idle" /\ call' = [call EXCEPT ![c] = call[c]]
        BY <2>1, <2>2 DEF PutCreate, RInv, TypeOK
      <3>2. begun' \in 0 .. MaxTools
        BY <2>1, <2>2 DEF RInv, TypeOK
      <3>3. QED
        BY <3>1, <3>2 DEF Quiet
    <2>3. CASE wanted # {}
      BY <1>1, <2>1, <2>3, BeginCall
    <2>4. QED
      BY <2>2, <2>3
  <1>3. TypeOK'
    BY <1>1, <1>2 DEF PutCreate, RInv, TypeOK, Object, States
  <1>4. \A o \in Objects : object'[o].refcount = object[o].refcount
                           /\ object'[o].isSubdoc = object[o].isSubdoc
    BY DEF PutCreate, RInv, TypeOK, Object
  <1>5. CallInv(c, k, refs, lock') /\ CascadeGrantsHaveACause'
    BY <1>2, QuietCall, CausesStay DEF PutCreate
  <1>6. UNCHANGED <<refs, missed, lock>>
    BY DEF PutCreate
  <1>7. QED
    BY <1>2, <1>3, <1>4, <1>5, <1>6, OneCall DEF Quiet

\* skills.put with an id, after its first transaction.
LEMMA PutSteps ==
  ASSUME RInv, NEW c \in Calls, PutOutgoing(c) \/ PutUpdate(c)
  PROVE  RInv'
  <1>1. CASE PutOutgoing(c)
    <2> DEFINE k == [call[c] EXCEPT !.at = "loop", !.rest = @ \ refs]
    <2>1. k \in Call /\ k.at \in Quiet
      <3>1. call[c] \in Call /\ call[c].rest \ refs \in SUBSET Edges
        BY DEF RInv, TypeOK, Call
      <3>2. QED
        BY <3>1 DEF Call, Stages, Quiet
    <2>2. call' = [call EXCEPT ![c] = k] /\ begun' \in 0 .. MaxTools /\ call[c].at # "revoke"
      BY <1>1 DEF PutOutgoing, RInv, TypeOK
    <2> HIDE DEF k
    <2>3. QED
      BY <1>1, <2>1, <2>2, QuietStep DEF PutOutgoing
  <1>2. CASE PutUpdate(c)
    <2>1. Idle \in Call /\ Idle.at \in Quiet /\ call' = [call EXCEPT ![c] = Idle]
      BY <1>2, IdleIsCall DEF PutUpdate, Done, Quiet
    <2>2. TypeOK'
      <3>1. listed' \in [Skills -> SUBSET Objects]
        BY <1>2 DEF PutUpdate, RInv, TypeOK
      <3>2. QED
        BY <1>2, <2>1, <3>1 DEF PutUpdate, RInv, TypeOK
    <2>3. CallInv(c, Idle, refs, lock') /\ CascadeGrantsHaveACause'
      BY <1>2, <2>1, QuietCall, CausesStay DEF PutUpdate
    <2>4. QED
      BY <1>2, <2>1, <2>2, <2>3, OneCall DEF PutUpdate, Quiet
  <1>3. QED
    BY <1>1, <1>2

\* The next reference: the search begins, or a failure.
LEMMA AddRefStep ==
  ASSUME RInv, NEW c \in Calls, AddRef(c)
  PROVE  RInv'
  <1>1. PICK e \in call[c].rest :
          call' = IF Visible(e.from) /\ Visible(e.to)
                  THEN [call EXCEPT ![c] = [@ EXCEPT !.at = "walk", !.edge = e, !.seen = {e.to},
                                                     !.frontier = {e.to}, !.depth = 0]]
                  ELSE Failed(c, e)
    BY DEF AddRef
  <1>2. /\ call[c].at = "loop" /\ begun' \in 0 .. MaxTools
        /\ UNCHANGED <<refs, object, grants, listed, lock, missed, strays>>
        /\ call \in [Calls -> Call] /\ refs \subseteq Edges
    BY DEF AddRef, RInv, TypeOK
  <1>3. CASE Visible(e.from) /\ Visible(e.to)
    <2> DEFINE k == [call[c] EXCEPT !.at = "walk", !.edge = e, !.seen = {e.to},
                                    !.frontier = {e.to}, !.depth = 0]
    <2>1. e \in Edges /\ e.to \in Objects
      BY <1>2, EdgeAssumption DEF Call
    <2>2. k \in Call /\ k.at = "walk" /\ k.seen = {k.edge.to} /\ k.frontier = {k.edge.to}
          /\ k.depth = 0
      <3>1. {e.to} \in SUBSET Objects /\ 0 \in 0 .. CycleDepth /\ call[c] \in Call
        BY <1>2, <2>1, DepthAssumption
      <3>2. QED
        BY <2>1, <3>1 DEF Call, Stages
    <2>3. call' = [call EXCEPT ![c] = k]
      BY <1>1, <1>2, <1>3
    <2> HIDE DEF k
    <2>4. Thorough(k, refs)
      BY <1>2, <2>2, WalkBegins
    <2>5. CallInv(c, k, refs, lock)
      BY <2>2, <2>4 DEF CallInv, WritesFit, Holds, ScanIsTrue, CascadeFits, DeleteKnows
    <2>6. QED
      BY <1>2, <2>2, <2>3, <2>5, Ordinary
  <1>4. CASE ~(Visible(e.from) /\ Visible(e.to))
    <2>1. PICK k \in Call : k.at \in Quiet /\ Failed(c, e) = [call EXCEPT ![c] = k]
      BY FailedCall DEF RInv
    <2>2. QED
      BY <1>1, <1>2, <1>4, <2>1, QuietStep
  <1>5. QED
    BY <1>3, <1>4

\* One level of the search.
LEMMA WalkStep ==
  ASSUME RInv, NEW c \in Calls, Walk(c)
  PROVE  RInv'
  <1>1. /\ call[c].at = "walk" /\ begun' \in 0 .. MaxTools /\ call[c].depth < CycleDepth
        /\ UNCHANGED <<refs, object, grants, listed, lock, missed, strays>>
        /\ call \in [Calls -> Call] /\ refs \subseteq Edges /\ call[c] \in Call
    BY DEF Walk, RInv, TypeOK
  <1>2. CASE call[c].edge.from \in Hop(c)
    <2>1. PICK k \in Call : k.at \in Quiet /\ Failed(c, call[c].edge) = [call EXCEPT ![c] = k]
      BY FailedCall DEF RInv
    <2>2. call' = [call EXCEPT ![c] = k]
      BY <1>2, <2>1 DEF Walk
    <2>3. QED
      BY <1>1, <2>1, <2>2, QuietStep
  <1>3. CASE call[c].edge.from \notin Hop(c)
    <2> DEFINE k == [call[c] EXCEPT !.seen = @ \cup Hop(c), !.frontier = Hop(c) \ call[c].seen,
                                    !.depth = @ + 1]
    <2>1. Hop(c) \subseteq Objects
      BY <1>1, EdgeAssumption DEF Hop
    <2>2. k \in Call
      <3>1. /\ call[c].seen \cup Hop(c) \in SUBSET Objects
            /\ Hop(c) \ call[c].seen \in SUBSET Objects
            /\ call[c].depth + 1 \in 0 .. CycleDepth
        BY <1>1, <2>1, DepthAssumption DEF Call
      <3>2. QED
        BY <1>1, <3>1 DEF Call
    <2>3. /\ k.at = "walk" /\ k.edge = call[c].edge /\ k.late = call[c].late
          /\ k.depth = call[c].depth + 1 /\ k.seen = call[c].seen \cup Hop(c)
          /\ k.frontier = Hop(c) \ call[c].seen
      BY <1>1 DEF Call
    <2>4. call' = [call EXCEPT ![c] = k]
      BY <1>1, <1>3 DEF Walk
    <2> HIDE DEF k
    <2>5. Thorough(call[c], refs)
      BY DEF RInv, CallsInv, CallInv
    <2>6. Hop(c) = {m.to : m \in {n \in refs : n.from \in call[c].frontier}}
      BY DEF Hop
    <2>7. Thorough(k, refs)
      BY <1>1, <1>3, <2>3, <2>5, <2>6, WalkGoesOn
    <2>8. CallInv(c, k, refs, lock)
      BY <2>3, <2>7 DEF CallInv, WritesFit, Holds, ScanIsTrue, CascadeFits, DeleteKnows
    <2>9. QED
      BY <1>1, <2>2, <2>3, <2>4, <2>8, Ordinary
  <1>4. QED
    BY <1>2, <1>3

\* The INSERT: no other call has this reference uncommitted.
LEMMA InsertStep ==
  ASSUME RInv, NEW c \in Calls, InsertRef(c)
  PROVE  RInv'
  <1>1. /\ call[c].at = "walk" /\ begun' \in 0 .. MaxTools
        /\ UNCHANGED <<refs, object, grants, listed, lock, missed, strays>>
        /\ call \in [Calls -> Call] /\ call[c] \in Call
    BY DEF InsertRef, WalkEnds, RInv, TypeOK
  <1>2. CASE call[c].edge \in refs
    <2>1. call[c].rest \ {call[c].edge} \in SUBSET Edges
      BY <1>1 DEF Call
    <2>2. PICK k \in Call : /\ k.at \in Quiet
                            /\ Continue(c, call[c].rest \ {call[c].edge}) = [call EXCEPT ![c] = k]
      BY <2>1, ContinueCall DEF RInv
    <2>3. QED
      BY <1>1, <1>2, <2>2, QuietStep DEF InsertRef
  <1>3. CASE call[c].edge \notin refs
    <2> DEFINE k == [call[c] EXCEPT !.at = "inserted"]
    <2>1. /\ k \in Call /\ k.at = "inserted" /\ k.edge = call[c].edge /\ k.seen = call[c].seen
          /\ k.frontier = call[c].frontier /\ k.depth = call[c].depth /\ k.late = call[c].late
      BY <1>1 DEF Call, Stages
    <2>2. call' = [call EXCEPT ![c] = k]
      BY <1>1, <1>3 DEF InsertRef, At
    <2> HIDE DEF k
    <2>3. Thorough(call[c], refs)
      BY DEF RInv, CallsInv, CallInv
    <2>4. Thorough(k, refs)
      BY <1>1, <2>1, <2>3, ThoroughStays DEF InsertRef, WalkEnds
    <2>5. CallInv(c, k, refs, lock)
      BY <1>3, <2>1, <2>4 DEF CallInv, WritesFit, Holds, ScanIsTrue, CascadeFits, DeleteKnows
    <2>6. \A b \in Calls \ {c} : Writes(b) => call[b].edge # k.edge
      BY <2>1 DEF InsertRef, RefFree
    <2>7. QED
      BY <1>1, <2>1, <2>2, <2>5, <2>6, Ordinary
  <1>4. QED
    BY <1>2, <1>3

\* The UPDATE of the counter takes the lock of a row that nobody holds.
LEMMA LockStep ==
  ASSUME RInv, NEW c \in Calls, CountUp(c) \/ CountDown(c)
  PROVE  RInv'
  <1>1. PICK to \in {"counted", "uncounted"} :
          /\ to = "counted" => call[c].at = "inserted"
          /\ to = "uncounted" => call[c].at = "removed"
          /\ call' = At(c, to)
          /\ IF Own(call[c].edge.to)
             THEN RowFree(call[c].edge.to) /\ lock' = [lock EXCEPT ![call[c].edge.to] = c]
             ELSE UNCHANGED lock
          /\ UNCHANGED <<refs, object, grants, listed, missed, strays, begun>>
    BY DEF CountUp, CountDown, LockTarget
  <1>2. call \in [Calls -> Call] /\ call[c] \in Call /\ lock \in [Objects -> Calls \cup {Nobody}]
    BY DEF RInv, TypeOK
  <1> DEFINE k == [call[c] EXCEPT !.at = to]
  <1>3. /\ k \in Call /\ k.at = to /\ k.edge = call[c].edge /\ k.seen = call[c].seen
        /\ k.frontier = call[c].frontier /\ k.depth = call[c].depth /\ k.late = call[c].late
    BY <1>2 DEF Call, Stages
  <1>4. call' = [call EXCEPT ![c] = k]
    BY <1>1, <1>2 DEF At
  <1> HIDE DEF k
  <1>5. call[c].edge.to \in Objects
    BY <1>2, EdgeAssumption DEF Call
  <1>6. /\ \A o \in Objects : lock[o] \in Calls \ {c} => lock'[o] = lock[o]
        /\ Own(call[c].edge.to) => lock'[call[c].edge.to] = c
    BY <1>1, <1>2, <1>5, CallsAssumption DEF RowFree
  <1>7. CallInv(c, k, refs, lock')
    <2>1. CallInv(c, call[c], refs, lock)
      BY DEF RInv, CallsInv
    <2>2. Thorough(k, refs)
      BY <1>1, <1>3, <2>1, ThoroughStays DEF CallInv
    <2>3. WritesFit(k, refs)
      BY <1>1, <1>3, <2>1 DEF CallInv, WritesFit
    <2>4. QED
      BY <1>3, <1>6, <2>2, <2>3 DEF CallInv, Holds, ScanIsTrue, CascadeFits, DeleteKnows
  <1>8. TypeOK'
    BY <1>1, <1>2, <1>3, <1>4 DEF RInv, TypeOK
  <1>9. \A b \in Calls \ {c} : Writes(b) => call[b].edge # k.edge
    BY <1>1, <1>3 DEF RInv, WritersAreApart, Writes
  <1>10. CascadeGrantsHaveACause'
    BY <1>1, <1>4, CausesStay
  <1>11. QED
    BY <1>1, <1>3, <1>4, <1>6, <1>7, <1>8, <1>9, <1>10, OneCall

\* After one group: another one, or the next reference.
LEMMA NextGroupCall ==
  ASSUME RInv, NEW c \in Calls, NEW g, call[c].at = "cascade"
  PROVE  \E k \in Call : /\ NextGroup(c, g) = [call EXCEPT ![c] = k]
                         /\ k.at \in Quiet \cup {"cascade"}
                         /\ CallInv(c, k, refs, lock)
  <1>1. call \in [Calls -> Call] /\ call[c] \in Call
    BY DEF RInv, TypeOK
  <1>2. CASE call[c].groups = {g}
    <2>1. call[c].rest \ {call[c].edge} \in SUBSET Edges
      BY <1>1 DEF Call
    <2>2. PICK k \in Call : /\ k.at \in Quiet
                            /\ Continue(c, call[c].rest \ {call[c].edge}) = [call EXCEPT ![c] = k]
      BY <2>1, ContinueCall DEF RInv
    <2>3. QED
      BY <1>2, <2>2, QuietCall DEF NextGroup
  <1>3. CASE call[c].groups # {g}
    <2> DEFINE k == [call[c] EXCEPT !.groups = @ \ {g}]
    <2>1. k \in Call
      <3>1. call[c].groups \ {g} \in SUBSET Groups
        BY <1>1 DEF Call
      <3>2. QED
        BY <1>1, <3>1 DEF Call
    <2>2. k.at = "cascade" /\ k.edge = call[c].edge
      BY <1>1 DEF Call
    <2>3. NextGroup(c, g) = [call EXCEPT ![c] = k]
      BY <1>1, <1>3 DEF NextGroup
    <2> HIDE DEF k
    <2>4. CallInv(c, call[c], refs, lock)
      BY DEF RInv, CallsInv
    <2>5. CallInv(c, k, refs, lock)
      BY <2>2, <2>4
      DEF CallInv, WritesFit, Holds, ScanIsTrue, CascadeFits, DeleteKnows, Thorough
    <2>6. QED
      BY <2>1, <2>2, <2>3, <2>5
  <1>4. QED
    BY <1>2, <1>3

\* The shares that follow a reference, and those that fail.
LEMMA CascadeSteps ==
  ASSUME RInv, NEW c \in Calls, NEW g \in Groups, CascadeShare(c, g) \/ CascadeFails(c, g)
  PROVE  RInv'
  <1>1. /\ call[c].at = "cascade" /\ g \in call[c].groups /\ call' = NextGroup(c, g)
        /\ UNCHANGED <<refs, object, listed, lock, missed, begun>>
    BY DEF CascadeShare, CascadeFails
  <1>2. PICK k \in Call : /\ NextGroup(c, g) = [call EXCEPT ![c] = k]
                          /\ k.at \in Quiet \cup {"cascade"}
                          /\ CallInv(c, k, refs, lock)
    BY <1>1, NextGroupCall
  <1>3. CASE CascadeFails(c, g)
    <2>1. begun' \in 0 .. MaxTools
      BY <1>1 DEF RInv, TypeOK
    <2>2. QED
      BY <1>1, <1>2, <1>3, <2>1, Ordinary DEF CascadeFails, Quiet
  <1>4. CASE CascadeShare(c, g)
    <2> DEFINE e     == call[c].edge
               share == [to |-> e.to, group |-> g, via |-> e.from]
    <2>1. e \in Edges /\ e.from \in Objects /\ e.to \in Objects /\ IsResource(e)
      <3>1. CallInv(c, call[c], refs, lock) /\ call[c] \in Call
        BY DEF RInv, CallsInv, TypeOK
      <3>2. QED
        BY <1>1, <3>1, EdgeAssumption DEF Call, CallInv, CascadeFits
    <2>2. share \in Grant /\ share.via # Direct
      BY <2>1, ObjectAssumption DEF Grant
    <2>3. /\ grants' = grants \cup {share}
          /\ strays' = IF e \in refs THEN strays ELSE strays \cup {share}
      BY <1>4 DEF CascadeShare
    <2>4. e = Resource(share.via, share.to)
      BY <2>1, EdgeAssumption DEF Resource, IsResource
    <2> HIDE DEF e, share
    <2>5. TypeOK'
      BY <1>1, <1>2, <2>2, <2>3 DEF RInv, TypeOK
    <2>6. CascadeGrantsHaveACause'
      <3>1. \A b \in Calls : call[b].at = "revoke" =>
              call'[b].at = "revoke" /\ call'[b].edge = call[b].edge
        BY <1>1, <1>2 DEF RInv, TypeOK
      <3>2. QED
        BY <1>1, <2>3, <2>4, <3>1 DEF RInv, CascadeGrantsHaveACause
    <2>7. QED
      BY <1>1, <1>2, <2>5, <2>6, OneCall DEF Quiet
  <1>5. QED
    BY <1>3, <1>4 DEF CascadeShare

\* The DELETE of a reference that no other call has uncommitted, and the scan
\* behind the lock.
LEMMA RemoveSteps ==
  ASSUME RInv, NEW c \in Calls, (\E e \in Edges : DeleteRef(c, e)) \/ Scan(c)
  PROVE  RInv'
  <1>1. call \in [Calls -> Call] /\ call[c] \in Call /\ refs \subseteq Edges
    BY DEF RInv, TypeOK
  <1>2. CASE \E e \in Edges : DeleteRef(c, e)
    <2>1. PICK e \in Edges : DeleteRef(c, e)
      BY <1>2
    <2> DEFINE k == [Idle EXCEPT !.at = "removed", !.edge = e]
    <2>2. k \in Call /\ k.at = "removed" /\ k.edge = e
      BY IdleIsCall DEF Call, Stages
    <2>3. /\ call' = [call EXCEPT ![c] = k] /\ begun' \in 0 .. MaxTools /\ call[c].at # "revoke"
          /\ e \in refs /\ \A b \in Calls \ {c} : Writes(b) => call[b].edge # e
          /\ UNCHANGED <<refs, object, grants, listed, lock, missed, strays>>
      <3>1. begun' \in 0 .. MaxTools
        BY <2>1, FreeCall DEF DeleteRef
      <3>2. QED
        BY <2>1, <3>1 DEF DeleteRef, Free, RefFree
    <2> HIDE DEF k
    <2>4. CallInv(c, k, refs, lock)
      BY <2>2, <2>3 DEF CallInv, WritesFit, Holds, ScanIsTrue, CascadeFits, DeleteKnows, Thorough
    <2>5. QED
      BY <2>2, <2>3, <2>4, Ordinary
  <1>3. CASE Scan(c)
    <2> DEFINE any == \E m \in Into(call[c].edge.to, refs) \ {call[c].edge} : IsResource(m)
               k   == [call[c] EXCEPT !.at = "scanned", !.any = any]
    <2>1. any \in BOOLEAN
      OBVIOUS
    <2>2. /\ k.at = "scanned" /\ k.edge = call[c].edge /\ k.any = any
          /\ call' = [call EXCEPT ![c] = k]
      BY <1>1, <1>3, Zenon DEF Scan, Call
    <2>3. k \in Call
      <3> HIDE DEF any
      <3>1. QED
        BY <1>1, <2>1 DEF Call, Stages
    <2>4. /\ call[c].at = "uncounted" /\ begun' \in 0 .. MaxTools
          /\ UNCHANGED <<refs, object, grants, listed, lock, missed, strays>>
      BY <1>3 DEF Scan, RInv, TypeOK
    <2>5. CallInv(c, call[c], refs, lock)
      BY DEF RInv, CallsInv
    <2> HIDE DEF k
    <2>6. ScanIsTrue(k, refs)
      BY <2>2 DEF ScanIsTrue
    <2> HIDE DEF any
    <2>7. CallInv(c, k, refs, lock)
      BY <2>2, <2>4, <2>5, <2>6
      DEF CallInv, WritesFit, Holds, CascadeFits, DeleteKnows, Thorough
    <2>8. \A b \in Calls \ {c} : Writes(b) => call[b].edge # k.edge
      BY <2>2, <2>4 DEF RInv, WritersAreApart, Writes
    <2>9. QED
      BY <2>2, <2>3, <2>4, <2>7, <2>8, Ordinary
  <1>4. QED
    BY <1>2, <1>3

\* The end of removeRef: the cascade shares of the reference are revoked, or
\* those that nothing keeps any more go astray.
LEMMA RevokeSteps ==
  ASSUME RInv, NEW c \in Calls, RevokeCascade(c) \/ RevokeFails(c)
  PROVE  RInv'
  <1>1. /\ call[c].at = "revoke" /\ call' = [call EXCEPT ![c] = Idle]
        /\ UNCHANGED <<refs, object, listed, lock, missed, begun>>
    BY DEF RevokeCascade, RevokeFails, Done
  <1>2. TypeOK'
    BY <1>1, IdleIsCall DEF RevokeCascade, RevokeFails, RInv, TypeOK, CascadeOf
  <1>3. \A b \in Calls \ {c} : call'[b] = call[b]
    BY <1>1 DEF RInv, TypeOK
  <1>4. CascadeGrantsHaveACause'
    <2>1. ASSUME NEW h \in grants, call[c].edge = Resource(h.via, h.to)
          PROVE  h \in CascadeOf(call[c].edge)
      BY <2>1 DEF CascadeOf, Resource, IsResource
    <2>2. CASE RevokeCascade(c)
      <3>1. /\ grants' = grants \ CascadeOf(call[c].edge)
            /\ strays' = strays \ CascadeOf(call[c].edge)
        BY <2>2 DEF RevokeCascade
      <3>2. QED
        BY <1>1, <1>3, <2>1, <3>1 DEF RInv, CascadeGrantsHaveACause
    <2>3. CASE RevokeFails(c)
      <3>1. grants' = grants /\ strays' = strays \cup (CascadeOf(call[c].edge) \ Attached)
        BY <2>3 DEF RevokeFails
      <3>2. \A h \in Attached : Resource(h.via, h.to) \in refs
        BY DEF Attached
      <3>3. QED
        BY <1>1, <1>3, <2>1, <3>1, <3>2 DEF RInv, CascadeGrantsHaveACause
    <2>4. QED
      BY <2>2, <2>3
  <1>5. CallInv(c, Idle, refs, lock') /\ Idle \in Call /\ Idle.at \in Quiet
    BY IdleIsCall, QuietCall DEF Quiet
  <1>6. QED
    BY <1>1, <1>2, <1>4, <1>5, OneCall DEF Quiet

\* docs.delete and skills.delete: an object whose counter is 0 has no reference.
LEMMA DeleteSteps ==
  ASSUME RInv, NEW c \in Calls, (\E o \in Objects : DeleteCheck(c, o)) \/ DeleteCommit(c)
  PROVE  RInv'
  <1>1. call \in [Calls -> Call] /\ call[c] \in Call /\ refs \subseteq Edges
    BY DEF RInv, TypeOK
  <1>2. CASE \E o \in Objects : DeleteCheck(c, o)
    <2>1. PICK o \in Objects : DeleteCheck(c, o)
      BY <1>2
    <2> DEFINE k == [Idle EXCEPT !.at = "delete", !.target = o]
    <2>2. k \in Call /\ k.at = "delete" /\ k.target = o
      BY IdleIsCall DEF Call, Stages
    <2>3. /\ call' = [call EXCEPT ![c] = k] /\ begun' \in 0 .. MaxTools /\ call[c].at # "revoke"
          /\ object[o].refcount = 0
          /\ UNCHANGED <<refs, object, grants, listed, lock, missed, strays>>
      <3>1. begun' \in 0 .. MaxTools
        BY <2>1, FreeCall DEF DeleteCheck
      <3>2. QED
        BY <2>1, <3>1 DEF DeleteCheck, Free
    <2> HIDE DEF k
    <2>4. Own(o) => Into(o, refs) = {}
      <3>1. Into(o, refs) \in SUBSET Edges
        BY <1>1 DEF Into
      <3>2. IsFiniteSet(Into(o, refs))
        BY <3>1, EdgeAssumption, FS_Subset
      <3>3. QED
        BY <2>3, <3>2, FS_EmptySet DEF RInv, CountsAreExact
    <2>5. CallInv(c, k, refs, lock)
      BY <2>2, <2>4 DEF CallInv, WritesFit, Holds, ScanIsTrue, CascadeFits, DeleteKnows, Thorough
    <2>6. QED
      BY <2>2, <2>3, <2>5, Ordinary
  <1>3. CASE DeleteCommit(c)
    <2>1. Idle \in Call /\ Idle.at \in Quiet /\ call' = [call EXCEPT ![c] = Idle]
      BY <1>3, IdleIsCall DEF DeleteCommit, Done, Quiet
    <2>2. call[c].target \in Objects /\ object \in [Objects -> Object]
      BY <1>1 DEF Call, RInv, TypeOK
    <2>3. TypeOK'
      BY <1>3, <2>1, <2>2 DEF DeleteCommit, RInv, TypeOK, Object, States
    <2>4. \A o \in Objects : object'[o].refcount = object[o].refcount
                             /\ object'[o].isSubdoc = object[o].isSubdoc
      BY <1>3, <2>2 DEF DeleteCommit, Object
    <2>5. CallInv(c, Idle, refs, lock') /\ CascadeGrantsHaveACause'
      BY <1>3, <2>1, QuietCall, CausesStay DEF DeleteCommit
    <2>6. QED
      BY <1>3, <2>1, <2>3, <2>4, <2>5, OneCall DEF DeleteCommit, Quiet
  <1>4. QED
    BY <1>2, <1>3

\* A call that dies: its locks go, and the shares it was about to revoke stray.
LEMMA DropStep ==
  ASSUME RInv, NEW c \in Calls, Drop(c)
  PROVE  RInv'
  <1>1. Idle \in Call /\ Idle.at \in Quiet /\ call' = [call EXCEPT ![c] = Idle]
    BY IdleIsCall DEF Drop, Done, Quiet
  <1>2. /\ \A o \in Objects : lock[o] \in Calls \ {c} => lock'[o] = lock[o]
        /\ lock' \in [Objects -> Calls \cup {Nobody}]
    BY DEF Drop, Released, RInv, TypeOK
  <1>3. strays \subseteq strays' /\ strays' \subseteq grants
    BY DEF Drop, CascadeOf, RInv, TypeOK
  <1>4. TypeOK'
    BY <1>1, <1>2, <1>3 DEF Drop, RInv, TypeOK
  <1>5. \A b \in Calls \ {c} : call'[b] = call[b]
    BY <1>1 DEF RInv, TypeOK
  <1>6. CascadeGrantsHaveACause'
    <2>1. ASSUME NEW h \in grants, call[c].at = "revoke", call[c].edge = Resource(h.via, h.to)
          PROVE  h \in strays' \/ Resource(h.via, h.to) \in refs
      <3>1. h \in CascadeOf(call[c].edge)
        BY <2>1 DEF CascadeOf, Resource, IsResource
      <3>2. h \in Attached => Resource(h.via, h.to) \in refs
        BY DEF Attached
      <3>3. QED
        BY <2>1, <3>1, <3>2 DEF Drop
    <2>2. UNCHANGED <<refs, grants>>
      BY DEF Drop
    <2>3. QED
      BY <1>3, <1>5, <2>1, <2>2 DEF RInv, CascadeGrantsHaveACause
  <1>7. CallInv(c, Idle, refs, lock')
    BY <1>1, QuietCall
  <1>8. UNCHANGED <<refs, missed, object>>
    BY DEF Drop
  <1>9. QED
    BY <1>1, <1>2, <1>4, <1>6, <1>7, <1>8, OneCall DEF Quiet

\* Steps of no call: deleting by force, restoring, sharing and revoking by hand.
LEMMA OtherSteps ==
  ASSUME RInv,
         \/ \E o \in Disposable : DeleteForced(o) \/ Restore(o)
         \/ \E s \in Skills, g \in Groups : Share(s, g)
         \/ \E h \in grants : Revoke(h)
  PROVE  RInv'
  <1>1. UNCHANGED <<refs, listed, call, lock, missed, begun>>
    BY DEF DeleteForced, Restore, Share, Revoke
  <1>2. CallsInv' /\ WritersAreApart' /\ CyclesComeFromOverlaps'
    BY <1>1 DEF RInv, CallsInv, WritersAreApart, Writes, CyclesComeFromOverlaps
  <1>3. CASE \E o \in Disposable : DeleteForced(o) \/ Restore(o)
    <2>1. PICK o \in Objects, s \in States :
            object' = [object EXCEPT ![o].state = s] /\ UNCHANGED <<grants, strays>>
      BY <1>3, ObjectAssumption DEF DeleteForced, Restore, States
    <2>2. /\ object' \in [Objects -> Object]
          /\ \A b \in Objects : object'[b].refcount = object[b].refcount
                                /\ object'[b].isSubdoc = object[b].isSubdoc
      BY <2>1 DEF RInv, TypeOK, Object
    <2>3. TypeOK' /\ CountsAreExact' /\ CascadeGrantsHaveACause'
      BY <1>1, <2>1, <2>2 DEF RInv, TypeOK, CountsAreExact, CascadeGrantsHaveACause
    <2>4. QED
      BY <1>2, <2>3 DEF RInv
  <1>4. CASE \E s \in Skills, g \in Groups : Share(s, g)
    <2>1. PICK s \in Skills, g \in Groups : Share(s, g)
      BY <1>4
    <2> DEFINE share == [to |-> s, group |-> g, via |-> Direct]
    <2>2. grants' = grants \cup {share} /\ UNCHANGED <<object, strays>>
      BY <2>1 DEF Share
    <2>3. share \in Grant /\ share.via = Direct
      BY DEF Grant, Objects
    <2> HIDE DEF share
    <2>4. TypeOK' /\ CountsAreExact' /\ CascadeGrantsHaveACause'
      BY <1>1, <2>2, <2>3 DEF RInv, TypeOK, CountsAreExact, CascadeGrantsHaveACause
    <2>5. QED
      BY <1>2, <2>4 DEF RInv
  <1>5. CASE \E h \in grants : Revoke(h)
    <2>1. PICK h \in grants :
            grants' = grants \ {h} /\ strays' = strays \ {h} /\ UNCHANGED object
      BY <1>5 DEF Revoke
    <2>2. TypeOK' /\ CountsAreExact' /\ CascadeGrantsHaveACause'
      BY <1>1, <2>1 DEF RInv, TypeOK, CountsAreExact, CascadeGrantsHaveACause
    <2>3. QED
      BY <1>2, <2>2 DEF RInv
  <1>6. QED
    BY <1>3, <1>4, <1>5

-----------------------------------------------------------------------------
(* The two commits *)

\* What another call knows when c commits.  The lock on the counter of the target
\* keeps the scans of the same target apart.
LEMMA OtherCall ==
  ASSUME RInv, NEW c \in Calls, call[c].at \in {"counted", "scanned"},
         NEW b \in Calls, b # c, NEW q, NEW R,
         R \in {refs \cup {call[c].edge}, refs \ {call[c].edge}},
         q.at = call[b].at, q.edge = call[b].edge, q.seen = call[b].seen, q.any = call[b].any,
         q.frontier = call[b].frontier, q.depth = call[b].depth,
         q.at \in {"walk", "inserted", "counted"} => R \ q.late \subseteq refs \ call[b].late,
         DeleteKnows(q, R)
  PROVE  CallInv(b, q, R, Released(c))
  <1>1. CallInv(b, call[b], refs, lock) /\ CallInv(c, call[c], refs, lock)
    BY DEF RInv, CallsInv
  <1>2. call[b].edge.to \in Objects /\ call[c].edge.to \in Objects
    BY EdgeAssumption DEF RInv, TypeOK, Call
  <1>3. WritesFit(q, R)
    BY <1>1 DEF CallInv, WritesFit, RInv, WritersAreApart, Writes
  <1>4. Holds(b, q, Released(c))
    BY <1>1, <1>2 DEF CallInv, Holds, Released
  <1>5. ScanIsTrue(q, R)
    <2>1. ASSUME q.at = "scanned", Own(q.edge.to) PROVE Into(q.edge.to, R) = Into(q.edge.to, refs)
      <3>1. call[c].edge.to # call[b].edge.to
        BY <1>1, <2>1 DEF CallInv, Holds
      <3>2. QED
        BY <3>1 DEF Into
    <2>2. QED
      BY <1>1, <2>1 DEF CallInv, ScanIsTrue
  <1>6. Thorough(q, R)
    <2>1. Thorough(call[b], refs)
      BY <1>1 DEF CallInv
    <2>2. q.at \in {"inserted", "counted"} =>
            call[b].at # "walk" \/ call[b].frontier = {} \/ call[b].depth = CycleDepth
      OBVIOUS
    <2>3. CASE q.at \in {"walk", "inserted", "counted"}
      BY <2>1, <2>2, <2>3, ThoroughStays
    <2>4. QED
      BY <2>3 DEF Thorough
  <1>7. QED
    BY <1>1, <1>3, <1>4, <1>5, <1>6 DEF CallInv, CascadeFits

\* The counter and the flag of the target, when its references become R.
LEMMA IntoFinite ==
  ASSUME TypeOK, NEW o
  PROVE  IsFiniteSet(Into(o, refs)) /\ Cardinality(Into(o, refs)) \in Nat
  <1>1. Into(o, refs) \in SUBSET Edges
    BY DEF TypeOK, Into
  <1>2. QED
    BY <1>1, EdgeAssumption, FS_Subset, FS_CardinalityType

\* The COMMIT of addRef.
LEMMA CommitAddStep ==
  ASSUME RInv, NEW c \in Calls, CommitAdd(c)
  PROVE  RInv'
  <1> DEFINE e == call[c].edge
             targets == IF Bundles(e) THEN GroupsOf(e.from) ELSE {}
             over == IF targets = {} THEN Continue(c, call[c].rest \ {e})
                     ELSE [call EXCEPT ![c] = [@ EXCEPT !.at = "cascade", !.groups = targets,
                             !.seen = {}, !.frontier = {}, !.depth = 0, !.late = {}]]
  <1>1. /\ call[c].at = "counted" /\ refs' = refs \cup {e}
        /\ object' = IF Own(e.to)
                     THEN [object EXCEPT ![e.to].refcount = @ + 1,
                                         ![e.to].isSubdoc = @ \/ IsResource(e)]
                     ELSE object
        /\ missed' = [missed EXCEPT ![e] = call[c].late]
        /\ strays' = strays \ CascadeOf(e)
        /\ call' = Seen(e, over) /\ lock' = Released(c)
        /\ UNCHANGED <<grants, listed, begun>>
    BY DEF CommitAdd
  <1>2. /\ call \in [Calls -> Call] /\ call[c] \in Call /\ refs \subseteq Edges /\ e \in Edges
        /\ e.to \in Objects /\ e.from \in Objects
        /\ CallInv(c, call[c], refs, lock) /\ e \notin refs
    <2>1. call \in [Calls -> Call] /\ CallInv(c, call[c], refs, lock) /\ refs \subseteq Edges
      BY DEF RInv, TypeOK, CallsInv
    <2>2. QED
      BY <1>1, <2>1, EdgeAssumption DEF Call, CallInv, WritesFit
  <1>3. PICK k \in Call : /\ over = [call EXCEPT ![c] = k]
                          /\ k.at \in Quiet \/ (k.at = "cascade" /\ IsResource(k.edge))
    <2>1. CASE targets = {}
      <3>1. call[c].rest \ {e} \in SUBSET Edges
        BY <1>2 DEF Call
      <3>2. QED
        BY <2>1, <3>1, ContinueCall DEF RInv
    <2>2. CASE targets # {}
      <3> DEFINE k == [call[c] EXCEPT !.at = "cascade", !.groups = targets,
                         !.seen = {}, !.frontier = {}, !.depth = 0, !.late = {}]
      <3>1. targets \in SUBSET Groups
        BY DEF GroupsOf, RInv, TypeOK, Grant
      <3>2. IsResource(e)
        BY <2>2 DEF Bundles
      <3>3. k \in Call /\ k.at = "cascade" /\ k.edge = e
        <4> HIDE DEF targets
        <4>1. 0 \in 0 .. CycleDepth /\ {} \in SUBSET Objects /\ {} \in SUBSET Edges
          BY DepthAssumption
        <4>2. QED
          BY <1>2, <3>1, <4>1 DEF Call, Stages
      <3>4. over = [call EXCEPT ![c] = k]
        BY <1>2, <2>2
      <3> HIDE DEF k, over
      <3>5. QED
        BY <3>2, <3>3, <3>4
    <2>3. QED
      BY <2>1, <2>2
  <1> HIDE DEF over
  <1>4. /\ call'[c] = k
        /\ \A b \in Calls \ {c} :
             call'[b] = IF \/ call[b].at \in {"walk", "inserted", "counted"}
                           \/ call[b].at = "delete" /\ call[b].target = e.to
                        THEN [call[b] EXCEPT !.late = @ \cup {e}] ELSE call[b]
    BY <1>1, <1>2, <1>3 DEF Seen, Quiet
  <1>5. \A b \in Calls \ {c} :
          /\ call'[b] \in Call /\ call'[b].at = call[b].at /\ call'[b].edge = call[b].edge
          /\ call'[b].seen = call[b].seen /\ call'[b].any = call[b].any
          /\ call'[b].frontier = call[b].frontier /\ call'[b].depth = call[b].depth
          /\ call'[b].target = call[b].target
          /\ call'[b].late \in {call[b].late, call[b].late \cup {e}}
          /\ \/ call[b].at \in {"walk", "inserted", "counted"}
             \/ call[b].at = "delete" /\ call[b].target = e.to
             => call'[b].late = call[b].late \cup {e}
    <2> SUFFICES ASSUME NEW b \in Calls \ {c}
                 PROVE  /\ call'[b] \in Call /\ call'[b].at = call[b].at
                        /\ call'[b].edge = call[b].edge
                        /\ call'[b].seen = call[b].seen /\ call'[b].any = call[b].any
                        /\ call'[b].frontier = call[b].frontier
                        /\ call'[b].depth = call[b].depth /\ call'[b].target = call[b].target
                        /\ call'[b].late \in {call[b].late, call[b].late \cup {e}}
                        /\ \/ call[b].at \in {"walk", "inserted", "counted"}
                           \/ call[b].at = "delete" /\ call[b].target = e.to
                           => call'[b].late = call[b].late \cup {e}
      OBVIOUS
    <2> DEFINE q == [call[b] EXCEPT !.late = @ \cup {e}]
    <2>1. call[b] \in Call /\ call[b].late \cup {e} \in SUBSET Edges
      BY <1>2 DEF Call
    <2>2. q \in Call
      BY <2>1 DEF Call
    <2>3. /\ q.at = call[b].at /\ q.edge = call[b].edge /\ q.seen = call[b].seen
          /\ q.any = call[b].any /\ q.frontier = call[b].frontier /\ q.depth = call[b].depth
          /\ q.target = call[b].target /\ q.late = call[b].late \cup {e}
      BY <2>1 DEF Call
    <2>4. call'[b] = IF \/ call[b].at \in {"walk", "inserted", "counted"}
                        \/ call[b].at = "delete" /\ call[b].target = e.to
                     THEN q ELSE call[b]
      BY <1>4
    <2> HIDE DEF q, e
    <2>5. QED
      BY <2>1, <2>2, <2>3, <2>4
  <1>6. TypeOK'
    <2>1. call' \in [Calls -> Call]
      <3>1. \A b \in Calls : call'[b] \in Call
        BY <1>3, <1>4, <1>5
      <3>2. call' = [b \in Calls |-> call'[b]]
        BY <1>1 DEF Seen
      <3>3. QED
        BY <3>1, <3>2
    <2>2. object' \in [Objects -> Object]
      BY <1>1, <1>2 DEF RInv, TypeOK, Object
    <2>3. missed' \in [Edges -> SUBSET Edges]
      BY <1>1, <1>2 DEF RInv, TypeOK, Call
    <2>4. lock' \in [Objects -> Calls \cup {Nobody}]
      BY <1>1 DEF RInv, TypeOK, Released
    <2>5. QED
      BY <1>1, <1>2, <2>1, <2>2, <2>3, <2>4 DEF RInv, TypeOK
  <1>a. e = call[c].edge
    OBVIOUS
  <1> HIDE DEF e, targets
  <1>7. CallsInv'
    <2>1. ASSUME NEW b \in Calls, b # c PROVE CallInv(b, call'[b], refs', lock')
      <3>1. call'[b].at \in {"walk", "inserted", "counted"} =>
              refs' \ call'[b].late \subseteq refs \ call[b].late
        BY <1>1, <1>5, <2>1
      <3>2. DeleteKnows(call'[b], refs')
        <4>1. DeleteKnows(call[b], refs)
          BY DEF RInv, CallsInv, CallInv
        <4>2. ASSUME call[b].at = "delete", Own(call[b].target)
              PROVE  Into(call[b].target, refs') \subseteq call'[b].late
          <5>1. Into(call[b].target, refs) \subseteq call'[b].late
            BY <1>5, <2>1, <4>1, <4>2 DEF DeleteKnows
          <5>2. CASE call[b].target = e.to
            BY <1>1, <1>5, <2>1, <4>2, <5>1, <5>2 DEF Into
          <5>3. CASE call[b].target # e.to
            BY <1>1, <5>1, <5>3 DEF Into
          <5>4. QED
            BY <5>2, <5>3
        <4>3. QED
          BY <1>5, <2>1, <4>2 DEF DeleteKnows
      <3>3. refs' \in {refs \cup {call[c].edge}, refs \ {call[c].edge}}
        BY <1>1, <1>a
      <3>4. QED
        BY <1>1, <1>5, <2>1, <3>1, <3>2, <3>3, OtherCall
    <2>2. CallInv(c, call'[c], refs', lock')
      <3>1. CASE k.at \in Quiet
        BY <1>4, <3>1, QuietCall
      <3>2. CASE k.at = "cascade" /\ IsResource(k.edge)
        BY <1>4, <3>2
        DEF CallInv, WritesFit, Holds, ScanIsTrue, CascadeFits, DeleteKnows, Thorough
      <3>3. QED
        BY <1>3, <3>1, <3>2
    <2>3. QED
      BY <2>1, <2>2 DEF CallsInv
  <1>8. WritersAreApart'
    BY <1>3, <1>4, <1>5 DEF RInv, WritersAreApart, Writes, Quiet
  <1>9. CountsAreExact'
    <2>1. ASSUME NEW o \in Objects, Own(o), o # e.to
          PROVE  Into(o, refs') = Into(o, refs) /\ object'[o] = object[o]
      BY <1>1, <2>1 DEF Into, RInv, TypeOK
    <2>2. ASSUME Own(e.to)
          PROVE  /\ object'[e.to].refcount = Cardinality(Into(e.to, refs'))
                 /\ object'[e.to].isSubdoc <=> \E m \in Into(e.to, refs') : IsResource(m)
      <3>1. Into(e.to, refs') = Into(e.to, refs) \cup {e} /\ e \notin Into(e.to, refs)
        BY <1>1, <1>2 DEF Into
      <3>2. Cardinality(Into(e.to, refs')) = Cardinality(Into(e.to, refs)) + 1
        BY <3>1, IntoFinite, FS_AddElement DEF RInv
      <3>3. object'[e.to] = [object[e.to] EXCEPT !.refcount = @ + 1, !.isSubdoc = @ \/ IsResource(e)]
        BY <1>1, <1>2, <2>2 DEF RInv, TypeOK
      <3>4. object[e.to] \in Object
        BY <1>2 DEF RInv, TypeOK
      <3>5. /\ object[e.to].refcount = Cardinality(Into(e.to, refs))
            /\ object[e.to].isSubdoc <=> \E m \in Into(e.to, refs) : IsResource(m)
        BY <1>2, <2>2 DEF RInv, CountsAreExact
      <3>6. /\ object'[e.to].refcount = object[e.to].refcount + 1
            /\ object'[e.to].isSubdoc <=> object[e.to].isSubdoc \/ IsResource(e)
        BY <3>3, <3>4 DEF Object
      <3>7. object'[e.to].isSubdoc <=> \E m \in Into(e.to, refs') : IsResource(m)
        BY <3>1, <3>5, <3>6
      <3>8. QED
        BY <3>2, <3>5, <3>6, <3>7
    <2>3. ASSUME NEW o \in Objects, Own(o)
          PROVE  /\ object'[o].refcount = Cardinality(Into(o, refs'))
                 /\ object'[o].isSubdoc <=> \E m \in Into(o, refs') : IsResource(m)
      <3>1. CASE o = e.to
        BY <2>2, <2>3, <3>1
      <3>2. CASE o # e.to
        BY <2>1, <2>3, <3>2 DEF RInv, CountsAreExact
      <3>3. QED
        BY <3>1, <3>2
    <2>4. QED
      BY <2>3 DEF CountsAreExact
  <1>10. CyclesComeFromOverlaps'
    <2>1. missed'[e] = call[c].late /\ \A m \in Edges \ {e} : missed'[m] = missed[m]
      BY <1>1, <1>2 DEF RInv, TypeOK
    <2>2. ASSUME NEW D \in SUBSET refs, Cyclic(D), Cardinality(D) <= CycleDepth + 1
          PROVE  \E n, m \in D : m \in missed'[n]
      <3>1. \E n, m \in D : m \in missed[n]
        BY <2>2 DEF RInv, CyclesComeFromOverlaps, Cyclic
      <3>2. \A n \in D : missed'[n] = missed[n]
        BY <1>2, <2>1
      <3>3. QED
        BY <3>1, <3>2
    <2>3. ASSUME NEW C \in SUBSET refs', Cyclic(C), Cardinality(C) <= CycleDepth + 1
          PROVE  \E n, m \in C : m \in missed'[n]
      <3>1. CASE e \notin C
        <4>1. C \in SUBSET refs
          BY <1>1, <3>1
        <4>2. QED
          BY <2>2, <2>3, <4>1
      <3>2. CASE e \in C /\ (C \ {e}) \cap call[c].late # {}
        BY <2>1, <3>2
      <3>3. CASE e \in C /\ (C \ {e}) \cap call[c].late = {}
        <4>1. Thorough(call[c], refs)
          BY <1>2 DEF CallInv
        <4>2. C \subseteq refs \cup {e}
          BY <1>1
        <4>3. PICK D \in SUBSET (C \ {e}) : Cyclic(D) /\ Cardinality(D) <= CycleDepth + 1
          BY <1>1, <1>2, <1>a, <2>3, <3>3, <4>1, <4>2, OlderCycle
        <4>4. D \in SUBSET refs
          BY <4>2, <4>3
        <4>5. QED
          BY <2>2, <4>3, <4>4
      <3>4. QED
        BY <3>1, <3>2, <3>3
    <2>4. QED
      BY <2>3 DEF CyclesComeFromOverlaps, Cyclic
  <1>11. CascadeGrantsHaveACause'
    <2> SUFFICES ASSUME NEW g \in grants', g.via # Direct
                 PROVE  \/ Resource(g.via, g.to) \in refs' \/ g \in strays'
                        \/ \E b \in Calls : call'[b].at = "revoke"
                                              /\ call'[b].edge = Resource(g.via, g.to)
      BY DEF CascadeGrantsHaveACause
    <2>1. CASE g \in CascadeOf(e)
      <3>1. e = Resource(g.via, g.to)
        BY <1>2, <2>1, EdgeAssumption DEF CascadeOf, Resource, IsResource
      <3>2. QED
        BY <1>1, <3>1
    <2>2. CASE Resource(g.via, g.to) \in refs
      BY <1>1, <2>2
    <2>3. CASE g \in strays /\ g \notin CascadeOf(e)
      BY <1>1, <2>3
    <2>4. ASSUME NEW b \in Calls, call[b].at = "revoke", call[b].edge = Resource(g.via, g.to)
          PROVE  call'[b].at = "revoke" /\ call'[b].edge = Resource(g.via, g.to)
      BY <1>1, <1>5, <2>4
    <2>5. QED
      BY <1>1, <2>1, <2>2, <2>3, <2>4 DEF RInv, CascadeGrantsHaveACause
  <1>12. QED
    BY <1>6, <1>7, <1>8, <1>9, <1>10, <1>11 DEF RInv

\* The COMMIT of removeRef.
LEMMA CommitRemoveStep ==
  ASSUME RInv, NEW c \in Calls, CommitRemove(c)
  PROVE  RInv'
  <1> DEFINE e == call[c].edge
             k == [Idle EXCEPT !.at = IF IsResource(e) THEN "revoke" ELSE "idle",
                               !.edge = IF IsResource(e) THEN e ELSE @]
  <1>1. /\ call[c].at = "scanned" /\ refs' = refs \ {e}
        /\ object' = IF Own(e.to)
                     THEN [object EXCEPT ![e.to].refcount = IF @ > 0 THEN @ - 1 ELSE 0,
                            ![e.to].isSubdoc = @ /\ (IsResource(e) => call[c].any)]
                     ELSE object
        /\ missed' = [m \in Edges |-> IF m = e THEN {} ELSE missed[m] \ {e}]
        /\ call' = [b \in Calls |-> IF b = c THEN k ELSE [call[b] EXCEPT !.late = @ \ {e}]]
        /\ lock' = Released(c)
        /\ UNCHANGED <<grants, listed, strays, begun>>
    BY DEF CommitRemove
  <1>2. /\ call \in [Calls -> Call] /\ call[c] \in Call /\ refs \subseteq Edges /\ e \in Edges
        /\ e.to \in Objects /\ e.from \in Objects
        /\ CallInv(c, call[c], refs, lock) /\ e \in refs
    <2>1. call \in [Calls -> Call] /\ CallInv(c, call[c], refs, lock) /\ refs \subseteq Edges
      BY DEF RInv, TypeOK, CallsInv
    <2>2. QED
      BY <1>1, <2>1, EdgeAssumption DEF Call, CallInv, WritesFit
  <1>3. /\ k \in Call /\ k.at \in Quiet \cup {"revoke"}
        /\ IsResource(e) => k.at = "revoke" /\ k.edge = e
    <2>1. Idle \in Call
      BY IdleIsCall
    <2>2. CASE IsResource(e)
      <3>1. k = [Idle EXCEPT !.at = "revoke", !.edge = e]
        BY <2>1, <2>2 DEF Call
      <3> HIDE DEF k
      <3>2. QED
        BY <1>2, <2>1, <3>1 DEF Call, Stages
    <2>3. CASE ~IsResource(e)
      <3>1. k = [Idle EXCEPT !.at = "idle"]
        BY <2>1, <2>3 DEF Call
      <3> HIDE DEF k
      <3>2. QED
        BY <2>1, <2>3, <3>1 DEF Call, Stages, Quiet
    <2>4. QED
      BY <2>2, <2>3
  <1>4. \A b \in Calls \ {c} :
          /\ call'[b] \in Call /\ call'[b].at = call[b].at /\ call'[b].edge = call[b].edge
          /\ call'[b].seen = call[b].seen /\ call'[b].any = call[b].any
          /\ call'[b].frontier = call[b].frontier /\ call'[b].depth = call[b].depth
          /\ call'[b].target = call[b].target /\ call'[b].late = call[b].late \ {e}
    <2> SUFFICES ASSUME NEW b \in Calls \ {c}
                 PROVE  /\ call'[b] \in Call /\ call'[b].at = call[b].at
                        /\ call'[b].edge = call[b].edge
                        /\ call'[b].seen = call[b].seen /\ call'[b].any = call[b].any
                        /\ call'[b].frontier = call[b].frontier
                        /\ call'[b].depth = call[b].depth /\ call'[b].target = call[b].target
                        /\ call'[b].late = call[b].late \ {e}
      OBVIOUS
    <2>1. call[b] \in Call /\ call[b].late \ {e} \in SUBSET Edges
      BY <1>2 DEF Call
    <2>2. call'[b] = [call[b] EXCEPT !.late = @ \ {e}]
      BY <1>1
    <2> HIDE DEF e
    <2>3. QED
      BY <2>1, <2>2 DEF Call
  <1>5. call'[c] = k /\ e = call[c].edge
    BY <1>1
  <1> HIDE DEF k, e
  <1>6. TypeOK'
    <2>1. call' \in [Calls -> Call]
      <3>1. \A b \in Calls : call'[b] \in Call
        BY <1>3, <1>4, <1>5
      <3>2. call' = [b \in Calls |-> call'[b]]
        BY <1>1
      <3>3. QED
        BY <3>1, <3>2
    <2>2. object' \in [Objects -> Object]
      <3>1. object \in [Objects -> Object]
        BY DEF RInv, TypeOK
      <3>2. object[e.to].refcount \in Nat
        BY <1>2, <3>1 DEF Object
      <3>3. (IF object[e.to].refcount > 0 THEN object[e.to].refcount - 1 ELSE 0) \in Nat
        BY <3>2
      <3>4. QED
        BY <1>1, <1>2, <3>1, <3>3 DEF Object
    <2>3. missed' \in [Edges -> SUBSET Edges]
      BY <1>1 DEF RInv, TypeOK
    <2>4. lock' \in [Objects -> Calls \cup {Nobody}]
      BY <1>1 DEF RInv, TypeOK, Released
    <2>5. QED
      BY <1>1, <2>1, <2>2, <2>3, <2>4 DEF RInv, TypeOK
  <1>7. CallsInv'
    <2>1. ASSUME NEW b \in Calls, b # c PROVE CallInv(b, call'[b], refs', lock')
      <3>1. call'[b].at \in {"walk", "inserted", "counted"} =>
              refs' \ call'[b].late \subseteq refs \ call[b].late
        BY <1>1, <1>4, <2>1
      <3>2. DeleteKnows(call'[b], refs')
        <4>1. DeleteKnows(call[b], refs)
          BY DEF RInv, CallsInv, CallInv
        <4>2. ASSUME call[b].at = "delete", Own(call[b].target)
              PROVE  Into(call[b].target, refs') \subseteq call'[b].late
          <5>1. Into(call[b].target, refs) \subseteq call[b].late
            BY <4>1, <4>2 DEF DeleteKnows
          <5>2. Into(call[b].target, refs') \subseteq Into(call[b].target, refs) \ {e}
            BY <1>1 DEF Into
          <5>3. QED
            BY <1>4, <2>1, <5>1, <5>2
        <4>3. QED
          BY <1>4, <2>1, <4>2 DEF DeleteKnows
      <3>3. refs' \in {refs \cup {call[c].edge}, refs \ {call[c].edge}}
        BY <1>1, <1>5
      <3>4. /\ call'[b].at = call[b].at /\ call'[b].edge = call[b].edge
            /\ call'[b].seen = call[b].seen /\ call'[b].any = call[b].any
            /\ call'[b].frontier = call[b].frontier /\ call'[b].depth = call[b].depth
        BY <1>4, <2>1
      <3>5. call[c].at \in {"counted", "scanned"} /\ lock' = Released(c)
        BY <1>1
      <3>6. CallInv(b, call'[b], refs', Released(c))
        BY <2>1, <3>1, <3>2, <3>3, <3>4, <3>5, OtherCall
      <3>7. QED
        BY <3>5, <3>6
    <2>2. CallInv(c, call'[c], refs', lock')
      BY <1>3, <1>5, QuietCall
    <2>3. QED
      BY <2>1, <2>2 DEF CallsInv
  <1>8. WritersAreApart'
    BY <1>3, <1>4, <1>5 DEF RInv, WritersAreApart, Writes, Quiet
  <1>9. CountsAreExact'
    <2>1. ASSUME NEW o \in Objects, Own(o), o # e.to
          PROVE  Into(o, refs') = Into(o, refs) /\ object'[o] = object[o]
      BY <1>1, <2>1 DEF Into, RInv, TypeOK
    <2>2. ASSUME Own(e.to)
          PROVE  /\ object'[e.to].refcount = Cardinality(Into(e.to, refs'))
                 /\ object'[e.to].isSubdoc <=> \E m \in Into(e.to, refs') : IsResource(m)
      <3>1. Into(e.to, refs') = Into(e.to, refs) \ {e} /\ e \in Into(e.to, refs)
        BY <1>1, <1>2 DEF Into
      <3>2. /\ Cardinality(Into(e.to, refs')) = Cardinality(Into(e.to, refs)) - 1
            /\ Cardinality(Into(e.to, refs)) \in Nat
        BY <3>1, IntoFinite, FS_RemoveElement DEF RInv
      <3>3. Cardinality(Into(e.to, refs)) > 0
        <4>1. Cardinality(Into(e.to, refs)) # 0
          BY <3>1, IntoFinite, FS_EmptySet DEF RInv
        <4>2. QED
          BY <3>2, <4>1
      <3>4. object[e.to] \in Object
        BY <1>2 DEF RInv, TypeOK
      <3>5. /\ object[e.to].refcount = Cardinality(Into(e.to, refs))
            /\ object[e.to].isSubdoc <=> \E m \in Into(e.to, refs) : IsResource(m)
        BY <1>2, <2>2 DEF RInv, CountsAreExact
      <3>6. object'[e.to] = [object[e.to] EXCEPT !.refcount = IF @ > 0 THEN @ - 1 ELSE 0,
                               !.isSubdoc = @ /\ (IsResource(e) => call[c].any)]
        BY <1>1, <1>2, <2>2 DEF RInv, TypeOK
      <3>7. /\ object'[e.to].refcount = IF object[e.to].refcount > 0
                                        THEN object[e.to].refcount - 1 ELSE 0
            /\ object'[e.to].isSubdoc <=> object[e.to].isSubdoc /\ (IsResource(e) => call[c].any)
        BY <3>4, <3>6 DEF Object
      <3>8. object'[e.to].refcount = Cardinality(Into(e.to, refs'))
        BY <3>2, <3>3, <3>5, <3>7
      <3>9. call[c].any <=> \E m \in Into(e.to, refs) \ {e} : IsResource(m)
        BY <1>1, <1>2, <1>5, <2>2 DEF CallInv, ScanIsTrue
      <3>10. object'[e.to].isSubdoc <=> \E m \in Into(e.to, refs') : IsResource(m)
        BY <3>1, <3>5, <3>7, <3>9
      <3>11. QED
        BY <3>8, <3>10
    <2>3. ASSUME NEW o \in Objects, Own(o)
          PROVE  /\ object'[o].refcount = Cardinality(Into(o, refs'))
                 /\ object'[o].isSubdoc <=> \E m \in Into(o, refs') : IsResource(m)
      <3>1. CASE o = e.to
        BY <2>2, <2>3, <3>1
      <3>2. CASE o # e.to
        BY <2>1, <2>3, <3>2 DEF RInv, CountsAreExact
      <3>3. QED
        BY <3>1, <3>2
    <2>4. QED
      BY <2>3 DEF CountsAreExact
  <1>10. CyclesComeFromOverlaps'
    <2> SUFFICES ASSUME NEW C \in SUBSET refs', Cyclic(C), Cardinality(C) <= CycleDepth + 1
                 PROVE  \E n, m \in C : m \in missed'[n]
      BY DEF CyclesComeFromOverlaps, Cyclic
    <2>1. C \in SUBSET refs /\ e \notin C
      BY <1>1
    <2>2. \E n, m \in C : m \in missed[n]
      BY <2>1 DEF RInv, CyclesComeFromOverlaps, Cyclic
    <2>3. \A n \in C : missed'[n] = missed[n] \ {e}
      BY <1>1, <1>2, <2>1
    <2>4. QED
      BY <2>1, <2>2, <2>3
  <1>11. CascadeGrantsHaveACause'
    <2> SUFFICES ASSUME NEW g \in grants', g.via # Direct
                 PROVE  \/ Resource(g.via, g.to) \in refs' \/ g \in strays'
                        \/ \E b \in Calls : call'[b].at = "revoke"
                                              /\ call'[b].edge = Resource(g.via, g.to)
      BY DEF CascadeGrantsHaveACause
    <2>1. CASE Resource(g.via, g.to) = e
      BY <1>3, <1>5, <2>1 DEF Resource, IsResource
    <2>2. CASE Resource(g.via, g.to) \in refs /\ Resource(g.via, g.to) # e
      BY <1>1, <2>2
    <2>3. ASSUME NEW b \in Calls, call[b].at = "revoke", call[b].edge = Resource(g.via, g.to)
          PROVE  call'[b].at = "revoke" /\ call'[b].edge = Resource(g.via, g.to)
      BY <1>1, <1>4, <2>3
    <2>4. QED
      BY <1>1, <2>1, <2>2, <2>3 DEF RInv, CascadeGrantsHaveACause
  <1>12. QED
    BY <1>6, <1>7, <1>8, <1>9, <1>10, <1>11 DEF RInv

-----------------------------------------------------------------------------
(* Every step *)

LEMMA RefsStep == RInv /\ [Next]_vars => RInv'
  <1> SUFFICES ASSUME RInv, [Next]_vars PROVE RInv'
    OBVIOUS
  <1>1. ASSUME NEW c \in Calls, AddStep(c) PROVE RInv'
    BY <1>1, AddRefStep, WalkStep, InsertStep, LockStep, CommitAddStep, CascadeSteps DEF AddStep
  <1>2. ASSUME NEW c \in Calls, RemoveStep(c) PROVE RInv'
    BY <1>2, LockStep, RemoveSteps, CommitRemoveStep, RevokeSteps DEF RemoveStep
  <1>3. ASSUME NEW c \in Calls, Tool(c) PROVE RInv'
    BY <1>3, BeginSteps, RemoveSteps, DeleteSteps, PutCreateStep, PutSteps, DropStep DEF Tool
  <1>4. CASE UNCHANGED vars
    <2>1. /\ refs' = refs /\ object' = object /\ grants' = grants /\ listed' = listed
          /\ call' = call /\ lock' = lock /\ begun' = begun /\ missed' = missed
          /\ strays' = strays
      BY <1>4 DEF vars
    <2>2. TypeOK'
      BY <2>1 DEF RInv, TypeOK
    <2>3. CallsInv'
      BY <2>1 DEF RInv, CallsInv
    <2>4. WritersAreApart' /\ CountsAreExact'
      BY <2>1 DEF RInv, WritersAreApart, Writes, CountsAreExact
    <2>5. CyclesComeFromOverlaps'
      BY <2>1 DEF RInv, CyclesComeFromOverlaps
    <2>6. CascadeGrantsHaveACause'
      BY <2>1 DEF RInv, CascadeGrantsHaveACause
    <2>7. QED
      BY <2>2, <2>3, <2>4, <2>5, <2>6 DEF RInv
  <1>5. CASE \/ \E o \in Disposable : DeleteForced(o) \/ Restore(o)
             \/ \E s \in Skills, g \in Groups : Share(s, g)
             \/ \E h \in grants : Revoke(h)
    BY <1>5, OtherSteps
  <1>6. CASE \E c \in Calls : AddStep(c) \/ RemoveStep(c) \/ Tool(c)
    BY <1>1, <1>2, <1>3, <1>6
  <1>7. QED
    BY <1>4, <1>5, <1>6 DEF Next

LEMMA RefsInvariant == Spec => []RInv
  BY RefsInit, RefsStep, PTL DEF Spec

-----------------------------------------------------------------------------
(* Theorems *)

\* The types of the rows and of the progress of every call.
THEOREM RefTypes == Spec => []TypeOK
  <1>1. RInv => TypeOK
    BY DEF RInv
  <1>2. QED
    BY <1>1, RefsInvariant, PTL

\* refcount and is_subdoc of every object of the user are what object_refs
\* says, for any number of addRef and removeRef calls in any order: the lock
\* of the counter's UPDATE keeps the scan for another resource reference true
\* until the COMMIT.
THEOREM CountsStayExact == Spec => []CountsAreExact
  <1>1. RInv => CountsAreExact
    BY DEF RInv
  <1>2. QED
    BY <1>1, RefsInvariant, PTL

\* Whatever the graph and the depth, a cycle of at most CYCLE_DETECTION_DEPTH + 1
\* references that addRef lets in holds one that was committed while the call
\* that added another of them was searching: a search alone misses none.
THEOREM CyclesNeedOverlaps == Spec => []CyclesComeFromOverlaps
  <1>1. RInv => CyclesComeFromOverlaps
    BY DEF RInv
  <1>2. QED
    BY <1>1, RefsInvariant, PTL

\* A cascade share has its reference, or its revocation is under way, or it is
\* one of the known leftovers (a revocation that failed or was lost, a share
\* made after removeRef).
THEOREM CascadesAreAccountedFor == Spec => []CascadeGrantsHaveACause
  <1>1. RInv => CascadeGrantsHaveACause
    BY DEF RInv
  <1>2. QED
    BY <1>1, RefsInvariant, PTL

\* docs.delete and skills.delete without force delete an object under
\* references only when these came after the counter was read as 0.
THEOREM DeletesMissOnlyLaterRefs == Spec => DeletedUnderNoOlderRef
  <1> DEFINE Knows == \A c \in Calls, o \in Objects :
        DeleteCommit(c) /\ object[o].state = "live" /\ object'[o].state = "deleted"
          => Into(o, refs) \subseteq call[c].late
  <1>1. RInv => Knows
    <2> SUFFICES ASSUME RInv, NEW c \in Calls, NEW o \in Objects, DeleteCommit(c),
                        object[o].state = "live", object'[o].state = "deleted"
                 PROVE  Into(o, refs) \subseteq call[c].late
      OBVIOUS
    <2>1. o = call[c].target /\ Own(o) /\ call[c].at = "delete"
      BY DEF DeleteCommit, RInv, TypeOK
    <2>2. QED
      BY <2>1 DEF RInv, CallsInv, CallInv, DeleteKnows
  <1>2. RInv => [Knows]_vars
    BY <1>1
  <1>3. QED
    BY <1>2, RefsInvariant, PTL DEF DeletedUnderNoOlderRef
=============================================================================
