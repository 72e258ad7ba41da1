------------------------------- MODULE Search -------------------------------
(***************************************************************************)
(* hybridSearch (src/search/hybrid.ts) and memorize.search, which ranks    *)
(* its result again (src/mcp/tools/memorize.ts).                           *)
(*                                                                         *)
(* A search is six statements.  The database runs READ COMMITTED, so each  *)
(* sees the catalogue as it is by then: the full-text select, the vector   *)
(* select, the rows of the fused list, their is_subdoc flags, the parents  *)
(* of the subdocs and, for memos, their scope and age.  The scores are     *)
(* reciprocal ranks, multiples of 1 / RankUnit.                            *)
(***************************************************************************)
EXTENDS Catalogue

CONSTANTS
  Limits,       \* the limits a caller asks for
  PageCap,      \* the greatest of them: 50
  FtsLimit,     \* rows of the full-text select
  VectorLimit,  \* rows of the vector select
  InScope,      \* the memos whose meta.scope is the one asked for
  Freshness,    \* of each memo: its decay factor
  RankUnit,     \* a common multiple of the ranks' denominators
  NoParent      \* no linked_parent

K             == 60  \* of reciprocal rank fusion
MaxChildHits  == 2   \* MAX_CHILD_HITS_PER_PARENT

ASSUME SearchAssumption ==
  /\ Limits \subseteq 1 .. PageCap /\ FtsLimit \in Nat /\ VectorLimit \in Nat
  /\ PageCap \in Nat /\ RankUnit \in Nat /\ \A r \in 1 .. FtsLimit + VectorLimit : RankUnit % (K + r) = 0
  /\ InScope \subseteq Objects /\ Freshness \in [Objects -> Nat \ {0}]
  /\ NoParent \notin Objects

VARIABLE search

Least(m, n)  == IF m < n THEN m ELSE n
Most(m, n)   == IF m > n THEN m ELSE n
Take(s, n)   == SubSeq(s, 1, Least(n, Len(s)))
IdsOf(s)     == {s[n].id : n \in DOMAIN s}

NotSearching == [at |-> "idle", memos |-> FALSE, limit |-> 1, fts |-> <<>>, vec |-> <<>>,
                 hits |-> <<>>, subs |-> {}, parent |-> <<>>, answer |-> <<>>]
SearchStages == {"idle", "fts", "vec", "meta", "subs", "parents", "memos", "answered"}

SearchTypeOK ==
  /\ search.at \in SearchStages /\ search.limit \in Limits \cup {1}
  /\ IdsOf(search.hits) \cup IdsOf(search.answer) \subseteq Objects
  /\ search.subs \subseteq Objects /\ DOMAIN search.parent \subseteq search.subs

\* Array.sort by descending score, which is stable.
ByScore(s) ==
  LET order == InOrder([m \in DOMAIN s |->
        {k \in DOMAIN s : s[k].score > s[m].score \/ (s[k].score = s[m].score /\ k < m)}])
  IN  [n \in DOMAIN s |-> s[order[n]]]

\* The limit of the hybrid search below memorize.search.
PageLimit == IF search.memos THEN Least(3 * search.limit, PageCap) ELSE search.limit

\* rrfFuse: a Map keeps the order in which ids are first met.
Contribution(list, o) ==
  IF o \in ToSet(list) THEN RankUnit \div (K + CHOOSE n \in DOMAIN list : list[n] = o) ELSE 0
Fused(fts, vec, limit) ==
  LET Hit(o) == [id |-> o, score |-> Contribution(fts, o) + Contribution(vec, o)]
      rest   == Kept(vec, {n \in DOMAIN vec : vec[n] \notin ToSet(fts)})
  IN  Take(ByScore([n \in DOMAIN fts |-> Hit(fts[n])] \o [n \in DOMAIN rest |-> Hit(rest[n])]),
           limit)

\* What a ranking select returns: some of the rows that match and are neither
\* deleted nor archived, best first.
Rankings(limit) ==
  {s \in UNION {[1 .. n -> {o \in Objects : state[o] = "shown"}] : n \in 0 .. limit} : IsInjective(s)}

HitIds == IdsOf(search.hits)

\* Mutant: a subdoc goes under its parent whether or not that is a hit.
IsChildOfAny(h, parent) == h.id \in DOMAIN parent

IsChild(h, parent) == h.id \in DOMAIN parent /\ parent[h.id] \in HitIds

ChildHits(p, parent) ==
  Take(Kept(search.hits, {n \in DOMAIN search.hits :
              IsChild(search.hits[n], parent) /\ parent[search.hits[n].id] = p}), MaxChildHits)

\* groupByParent: children move under their parent, which takes the score of
\* the best one if that is higher.
TopLevel(parent) ==
  LET tops == Kept(search.hits, {n \in DOMAIN search.hits : ~IsChild(search.hits[n], parent)})
  IN  [n \in DOMAIN tops |->
        LET h    == tops[n]
            kids == ChildHits(h.id, parent)
        IN  [id     |-> h.id,
             score  |-> IF kids = <<>> THEN h.score ELSE Most(h.score, kids[1].score),
             kids   |-> kids,
             linked |-> IF h.id \in DOMAIN parent THEN parent[h.id] ELSE NoParent]]

\* Mutant: the list is not sorted again.
GroupedUnsorted(parent) == Take(TopLevel(parent), PageLimit)

Grouped(parent) == Take(ByScore(TopLevel(parent)), PageLimit)

SearchInit == search = NotSearching

Look(step) == step /\ UNCHANGED catalogue

SearchBegin(limit, memos) ==
  /\ search.at = "idle"
  /\ search' = [search EXCEPT !.at = "fts", !.limit = limit, !.memos = memos]

FtsSelect ==
  /\ search.at = "fts"
  /\ \E rows \in Rankings(FtsLimit) : search' = [search EXCEPT !.at = "vec", !.fts = rows]

\* Without an embedding of the query there is no vector select.
VectorSelect ==
  /\ search.at = "vec"
  /\ \E rows \in Rankings(VectorLimit) : search' = [search EXCEPT !.at = "meta", !.vec = rows]

\* The fused ids are read again; a deleted object is still visible to its owner.
MetaSelect ==
  /\ search.at = "meta"
  /\ LET fused == Fused(search.fts, search.vec, Least(2 * PageLimit, PageCap))
     IN  search' = [search EXCEPT !.at = "subs",
                                  !.hits = Kept(fused, {n \in DOMAIN fused : Visible(fused[n].id)})]

SubdocSelect ==
  /\ search.at = "subs"
  /\ search' = [search EXCEPT !.at = "parents",
                  !.subs = {o \in HitIds : Visible(o) /\ IsSubdoc(o)}]

\* Of several parents the first row counts, and the rows come in no order.
ParentSelect ==
  /\ search.at = "parents"
  /\ LET ParentsOf(o) == {e[1] : e \in {r \in ToSet(SeenRefs) : r[2] = o}}
         found == {o \in search.subs : ParentsOf(o) # {}}
     IN  \E parent \in {f \in [found -> Objects] : \A o \in found : f[o] \in ParentsOf(o)} :
           search' = [search EXCEPT !.at = IF search.memos THEN "memos" ELSE "answered",
                                    !.parent = parent, !.answer = Grouped(parent)]

\* memorize.search: in another transaction, the memos of the scope, aged.
MemoSelect ==
  /\ search.at = "memos"
  /\ LET scoped == Kept(search.answer, {n \in DOMAIN search.answer :
                     Visible(search.answer[n].id) /\ search.answer[n].id \in InScope})
         aged   == [n \in DOMAIN scoped |->
                     [scoped[n] EXCEPT !.score = @ * Freshness[scoped[n].id]]]
     IN  search' = [search EXCEPT !.at = "answered",
                                  !.answer = Take(ByScore(aged), search.limit)]

SearchNext ==
  Look(\/ \E limit \in Limits, memos \in BOOLEAN : SearchBegin(limit, memos)
       \/ FtsSelect \/ VectorSelect \/ MetaSelect
       \/ SubdocSelect \/ ParentSelect \/ MemoSelect)

-----------------------------------------------------------------------------

Answered == search.at = "answered"
TopFor(o) == {a \in ToSet(search.answer) : a.id = o}
Placed    == IdsOf(search.answer) \cup UNION {IdsOf(a.kids) : a \in ToSet(search.answer)}

\* A hit that was read and is not in the answer was cut by the limit, or lost
\* to two better children of its parent, or its parent is itself the child of
\* another hit, under which nothing is grouped.
OnlyKnownLosses ==
  (Answered /\ ~search.memos) =>
    \A h \in ToSet(search.hits) : h.id \notin Placed =>
      \/ Len(search.answer) = search.limit /\ Last(search.answer).score >= h.score
      \/ /\ h.id \in DOMAIN search.parent
         /\ \/ \E a \in TopFor(search.parent[h.id]) :
                   /\ Len(a.kids) = MaxChildHits
                   /\ \A n \in DOMAIN a.kids : a.kids[n].score >= h.score
            \/ /\ search.parent[h.id] \in DOMAIN search.parent
               /\ search.parent[search.parent[h.id]] \in HitIds

\* An answer is in the order of its scores, within the limit, holds no object
\* twice, and a parent ranks no lower than the children shown under it, unless
\* age has moved it.
AnswersAreRanked ==
  Answered =>
    LET answer == search.answer
    IN  /\ Len(answer) <= search.limit
        /\ \A m, n \in DOMAIN answer : m < n =>
              /\ answer[m].score >= answer[n].score
              /\ answer[m].id # answer[n].id
              /\ IdsOf(answer[m].kids) \cap IdsOf(answer[n].kids) = {}
        /\ IdsOf(answer) \cap UNION {IdsOf(answer[n].kids) : n \in DOMAIN answer} = {}
        /\ ~search.memos => \A n \in DOMAIN answer : \A m \in DOMAIN answer[n].kids :
              answer[n].score >= answer[n].kids[m].score
=============================================================================
