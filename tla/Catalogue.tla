------------------------------ MODULE Catalogue ------------------------------
(***************************************************************************)
(* What the reading requests of src/search/hybrid.ts and                   *)
(* src/storage/refs.ts see of the database, and the writers that commit    *)
(* between two of their statements: objects that are deleted, restored,    *)
(* shared with the reader, withdrawn from them or rewritten, and resource  *)
(* references that are added and removed.                                  *)
(***************************************************************************)
EXTENDS Integers, FiniteSets, SequencesExt

CONSTANTS
  Objects,     \* the objects in question
  Wanted,      \* the resource references <<from, to>> that may be added
  Sizes,       \* body sizes
  Beginnings,  \* the sequences of references to begin with, oldest first
  MaxOut,      \* bound: the objects deleted or hidden to begin with
  MaxChanges   \* bound: the writes committed during a request

ASSUME CatalogueAssumption ==
  /\ Wanted \subseteq Objects \X Objects /\ \A e \in Wanted : e[1] # e[2]
  /\ Beginnings \subseteq Seq(Wanted) /\ \A s \in Beginnings : IsInjective(s)
  /\ Sizes \subseteq Nat /\ MaxOut \in Nat /\ MaxChanges \in Nat

VARIABLES
  state,    \* of each object, as row-level security shows it to the reader
  size,     \* objects.body_size
  refs,     \* object_refs with role "resource", oldest first
  changes,  \* number of writes so far
  touched   \* history: objects rewritten or shared since a request looked

catalogue == <<state, size, refs, changes, touched>>

States == {"shown", "deleted", "hidden"}

CatalogueTypeOK ==
  /\ state \in [Objects -> States]
  /\ size \in [Objects -> Sizes]
  /\ refs \in Seq(Wanted) /\ IsInjective(refs)
  /\ changes \in 0 .. MaxChanges
  /\ touched \subseteq Objects

CatalogueInit ==
  /\ state \in [Objects -> States] /\ Cardinality({o \in Objects : state[o] # "shown"}) <= MaxOut
  /\ size \in [Objects -> Sizes]
  /\ refs \in Beginnings
  /\ changes = 0
  /\ touched = {}

Visible(o) == state[o] # "hidden"

\* The domain of ahead as a sequence; ahead says of each element which come before.
InOrder(ahead) ==
  [n \in 1 .. Cardinality(DOMAIN ahead) |->
     CHOOSE x \in DOMAIN ahead : Cardinality(ahead[x]) = n - 1]

\* What is left of a sequence at some of its places (SelectSeq of the library is
\* recursive, which no proof can follow).
Kept(s, places) ==
  LET order == InOrder([m \in places |-> {k \in places : k < m}])
  IN  [n \in DOMAIN order |-> s[order[n]]]

\* Row-level security shows a reference when both ends are visible.
SeenRefs == Kept(refs, {n \in DOMAIN refs : Visible(refs[n][1]) /\ Visible(refs[n][2])})

\* objects.is_subdoc, which addRef and removeRef keep (CountsAreExact of Refs).
IsSubdoc(o) == \E e \in ToSet(refs) : e[2] = o

Change == changes < MaxChanges /\ changes' = changes + 1

Become(o, from, to) ==
  /\ Change
  /\ state[o] \in from
  /\ state' = [state EXCEPT ![o] = to]
  /\ UNCHANGED <<size, refs>>

SoftDelete(o) == Become(o, {"shown"}, "deleted") /\ UNCHANGED touched
Restore(o)    == Become(o, {"deleted"}, "shown") /\ UNCHANGED touched
Withdraw(o)   == Become(o, {"shown", "deleted"}, "hidden") /\ UNCHANGED touched
Share(o)      == Become(o, {"hidden"}, "shown") /\ touched' = touched \cup {o}

Rewrite(o, n) ==
  /\ Change
  /\ size[o] # n
  /\ size' = [size EXCEPT ![o] = n]
  /\ touched' = touched \cup {o}
  /\ UNCHANGED <<state, refs>>

Attach(e) ==
  /\ Change
  /\ e \notin ToSet(refs)
  /\ refs' = Append(refs, e)
  /\ UNCHANGED <<state, size, touched>>

Detach(e) ==
  /\ Change
  /\ e \in ToSet(refs)
  /\ refs' = Kept(refs, {n \in DOMAIN refs : refs[n] # e})
  /\ UNCHANGED <<state, size, touched>>

Write ==
  \/ \E o \in Objects : SoftDelete(o) \/ Restore(o) \/ Withdraw(o) \/ Share(o)
  \/ \E e \in Wanted : Attach(e) \/ Detach(e)
=============================================================================
