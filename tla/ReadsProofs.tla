---------------------------- MODULE ReadsProofs ----------------------------
(***************************************************************************)
(* Searches and bundles, for any catalogue, any limits and any number of   *)
(* writes between two statements.                                          *)
(***************************************************************************)
EXTENDS Reads, FiniteSetTheorems, SequenceTheorems, WellFoundedInduction, TLAPS

-----------------------------------------------------------------------------
(* Sequences by rank *)

\* A finite set with a strict order is put in a row.
LEMMA InOrderIs ==
  ASSUME NEW S, IsFiniteSet(S), NEW ahead \in [S -> SUBSET S],
         \A x \in S : x \notin ahead[x],
         \A x \in S : \A y \in ahead[x] : ahead[y] \subseteq ahead[x],
         \A x, y \in S : x # y => x \in ahead[y] \/ y \in ahead[x]
  PROVE  /\ Cardinality(S) \in Nat
         /\ InOrder(ahead) \in [1 .. Cardinality(S) -> S]
         /\ \A x \in S : \E n \in 1 .. Cardinality(S) : InOrder(ahead)[n] = x
         /\ \A m, n \in 1 .. Cardinality(S) :
              m < n => InOrder(ahead)[m] \in ahead[InOrder(ahead)[n]]
  <1> DEFINE N == Cardinality(S)
             rank == [x \in S |-> Cardinality(ahead[x]) + 1]
  <1>1. N \in Nat
    BY FS_CardinalityType
  <1>2. \A x \in S : IsFiniteSet(ahead[x]) /\ Cardinality(ahead[x]) \in Nat
    BY FS_Subset, FS_CardinalityType
  <1>3. ASSUME NEW x \in S, NEW y \in ahead[x] PROVE y \in S /\ rank[y] < rank[x]
    <2>1. y \in S /\ ahead[y] \cup {y} \in SUBSET ahead[x] /\ y \notin ahead[y]
      OBVIOUS
    <2>2. Cardinality(ahead[y] \cup {y}) = Cardinality(ahead[y]) + 1
      BY <1>2, <2>1, FS_AddElement
    <2>3. Cardinality(ahead[y] \cup {y}) <= Cardinality(ahead[x])
      BY <1>2, <2>1, FS_Subset
    <2>4. QED
      BY <1>2, <2>1, <2>2, <2>3
  <1>4. ASSUME NEW x \in S PROVE rank[x] \in 1 .. N
    <2>1. ahead[x] \cup {x} \in SUBSET S /\ x \notin ahead[x]
      OBVIOUS
    <2>2. Cardinality(ahead[x] \cup {x}) = Cardinality(ahead[x]) + 1
      BY <1>2, <2>1, FS_AddElement
    <2>3. Cardinality(ahead[x] \cup {x}) <= N
      BY <2>1, FS_Subset
    <2>4. QED
      BY <1>1, <1>2, <2>2, <2>3
  <1>5. rank \in Injection(S, 1 .. N)
    <2>1. rank \in [S -> 1 .. N]
      BY <1>4
    <2>2. ASSUME NEW x \in S, NEW y \in S, rank[x] = rank[y] PROVE x = y
      <3>1. rank[x] \in Nat
        BY <1>4
      <3> HIDE DEF rank
      <3>2. QED
        BY <1>3, <2>2, <3>1
    <2> HIDE DEF rank
    <2>3. QED
      BY <2>1, <2>2 DEF Injection, IsInjective
  <1>6. ASSUME NEW n \in 1 .. N PROVE \E x \in S : rank[x] = n
    <2>1. IsFiniteSet(1 .. N) /\ Cardinality(1 .. N) = N
      BY <1>1, FS_Interval
    <2> HIDE DEF rank
    <2>2. rank \in Surjection(S, 1 .. N)
      BY <1>5, <2>1, FS_Injection
    <2>3. QED
      BY <2>2 DEF Surjection
  <1> DEFINE o == InOrder(ahead)
  <1>7. ASSUME NEW n \in 1 .. N PROVE o[n] \in S /\ rank[o[n]] = n
    <2>1. o[n] = CHOOSE x \in S : Cardinality(ahead[x]) = n - 1
      BY DEF InOrder
    <2>2. \E x \in S : Cardinality(ahead[x]) = n - 1
      BY <1>2, <1>6
    <2>3. o[n] \in S /\ Cardinality(ahead[o[n]]) = n - 1
      BY <2>1, <2>2
    <2> HIDE DEF o
    <2>4. QED
      BY <2>3
  <1>8. o \in [1 .. N -> S]
    <2>1. o = [n \in 1 .. N |-> o[n]]
      BY DEF InOrder
    <2> HIDE DEF o
    <2>2. QED
      BY <1>7, <2>1
  <1> HIDE DEF o, rank
  <1>9. ASSUME NEW x \in S PROVE o[rank[x]] = x
    BY <1>4, <1>5, <1>7 DEF Injection, IsInjective
  <1>10. ASSUME NEW m \in 1 .. N, NEW n \in 1 .. N, m < n PROVE o[m] \in ahead[o[n]]
    <2>1. o[m] # o[n] /\ o[n] \notin ahead[o[m]]
      BY <1>3, <1>7, <1>10
    <2>2. QED
      BY <1>7, <2>1
  <1>11. QED
    BY <1>1, <1>4, <1>8, <1>9, <1>10 DEF o

\* r holds what s has at the places, in the same order.
Picks(r, s, places, order) ==
  /\ order \in [DOMAIN r -> places]
  /\ \A n \in DOMAIN r : r[n] = s[order[n]]
  /\ \A m, n \in DOMAIN r : m < n => order[m] < order[n]
  /\ \A k \in places : \E n \in DOMAIN r : order[n] = k

LEMMA KeptIs ==
  ASSUME NEW T, NEW s \in Seq(T), NEW places \in SUBSET DOMAIN s
  PROVE  /\ Kept(s, places) \in Seq(T)
         /\ \E order : Picks(Kept(s, places), s, places, order)
  <1> DEFINE before == [m \in places |-> {k \in places : k < m}]
             order == InOrder(before)
             N == Cardinality(places)
  <1>1. IsFiniteSet(places) /\ places \subseteq Nat
    <2>1. IsFiniteSet(1 .. Len(s)) /\ places \in SUBSET (1 .. Len(s))
      BY FS_Interval
    <2>2. QED
      BY <2>1, FS_Subset
  <1>2. /\ N \in Nat /\ order \in [1 .. N -> places]
        /\ \A k \in places : \E n \in 1 .. N : order[n] = k
        /\ \A m, n \in 1 .. N : m < n => order[m] \in before[order[n]]
    <2>1. before \in [places -> SUBSET places]
      OBVIOUS
    <2>2. \A x \in places : x \notin before[x]
      BY <1>1
    <2>3. \A x \in places : \A y \in before[x] : before[y] \subseteq before[x]
      BY <1>1
    <2>4. \A x, y \in places : x # y => x \in before[y] \/ y \in before[x]
      BY <1>1
    <2> HIDE DEF before
    <2>5. QED
      BY <1>1, <2>1, <2>2, <2>3, <2>4, InOrderIs
  <1>3. Kept(s, places) = [n \in 1 .. N |-> s[order[n]]]
    <2>1. Kept(s, places) = [n \in DOMAIN order |-> s[order[n]]]
      BY DEF Kept
    <2>2. DOMAIN order = 1 .. N
      BY <1>2
    <2> HIDE DEF order
    <2>3. QED
      BY <2>1, <2>2
  <1>4. \A m, n \in 1 .. N : m < n => order[m] < order[n]
    <2>1. \A x, y \in places : x \in before[y] => x < y
      OBVIOUS
    <2> HIDE DEF order, before
    <2>2. QED
      BY <1>2, <2>1
  <1> HIDE DEF order, before
  <1>5. \A n \in 1 .. N : s[order[n]] \in T
    BY <1>2
  <1>6. Kept(s, places) \in Seq(T)
    BY <1>2, <1>3, <1>5
  <1>7. DOMAIN Kept(s, places) = 1 .. N
    BY <1>3
  <1> HIDE DEF N
  <1>8. Picks(Kept(s, places), s, places, order)
    BY <1>2, <1>3, <1>4, <1>7 DEF Picks
  <1>9. QED
    BY <1>6, <1>8

\* r is s in descending order of score.
Sorts(r, s, order) ==
  /\ order \in [DOMAIN s -> DOMAIN s]
  /\ DOMAIN r = DOMAIN s /\ \A n \in DOMAIN s : r[n] = s[order[n]]
  /\ \A m, n \in DOMAIN s : m # n => order[m] # order[n]
  /\ \A k \in DOMAIN s : \E n \in DOMAIN s : order[n] = k
  /\ \A m, n \in DOMAIN s : m < n => r[m].score >= r[n].score

LEMMA ByScoreIs ==
  ASSUME NEW T, NEW s \in Seq(T), \A n \in DOMAIN s : s[n].score \in Nat
  PROVE  /\ ByScore(s) \in Seq(T)
         /\ \E order : Sorts(ByScore(s), s, order)
  <1> DEFINE D == DOMAIN s
             ahead == [m \in D |->
               {k \in D : s[k].score > s[m].score \/ (s[k].score = s[m].score /\ k < m)}]
             order == InOrder(ahead)
  <1>1. D = 1 .. Len(s) /\ Len(s) \in Nat /\ IsFiniteSet(D) /\ Cardinality(D) = Len(s)
    <2>1. Len(s) \in Nat
      OBVIOUS
    <2> HIDE DEF order
    <2>2. IsFiniteSet(1 .. Len(s)) /\ Cardinality(1 .. Len(s)) = Len(s)
      BY <2>1, FS_Interval
    <2>3. QED
      BY <2>1, <2>2
  <1>2. /\ order \in [D -> D]
        /\ \A k \in D : \E n \in D : order[n] = k
        /\ \A m, n \in D : m < n => order[m] \in ahead[order[n]]
    <2>1. ahead \in [D -> SUBSET D]
      OBVIOUS
    <2>2. \A x \in D : x \notin ahead[x]
      BY <1>1
    <2>3. \A x \in D : \A y \in ahead[x] : ahead[y] \subseteq ahead[x]
      BY <1>1
    <2>4. \A x, y \in D : x # y => x \in ahead[y] \/ y \in ahead[x]
      BY <1>1
    <2>5. D = 1 .. Cardinality(D)
      BY <1>1
    <2>6. IsFiniteSet(D)
      BY <1>1
    <2> HIDE DEF ahead, D
    <2>7. /\ InOrder(ahead) \in [1 .. Cardinality(D) -> D]
          /\ \A x \in D : \E n \in 1 .. Cardinality(D) : InOrder(ahead)[n] = x
          /\ \A m, n \in 1 .. Cardinality(D) :
               m < n => InOrder(ahead)[m] \in ahead[InOrder(ahead)[n]]
      BY <2>1, <2>2, <2>3, <2>4, <2>6, InOrderIs
    <2>8. order \in [D -> D]
      BY <2>5, <2>7
    <2>9. \A k \in D : \E n \in D : order[n] = k
      BY <2>5, <2>7
    <2>10. \A m, n \in D : m < n => order[m] \in ahead[order[n]]
      BY <2>5, <2>7
    <2>11. QED
      BY <2>8, <2>9, <2>10
  <1>3. ByScore(s) = [n \in D |-> s[order[n]]]
    BY DEF ByScore
  <1>4. \A x, y \in D : x \in ahead[y] => s[x].score >= s[y].score /\ x # y
    BY <1>1
  <1> HIDE DEF order, ahead
  <1>5. ASSUME NEW m \in D, NEW n \in D, m # n PROVE order[m] # order[n]
    <2>1. m < n \/ n < m
      BY <1>1, <1>5
    <2>2. QED
      BY <1>2, <1>4, <2>1
  <1>6. \A m, n \in D : m < n => s[order[m]].score >= s[order[n]].score
    BY <1>2, <1>4
  <1>7. \A n \in D : s[order[n]] \in T
    BY <1>2
  <1>8. Sorts(ByScore(s), s, order)
    BY <1>2, <1>3, <1>5, <1>6 DEF Sorts
  <1>9. ByScore(s) \in Seq(T)
    BY <1>1, <1>3, <1>7
  <1>10. QED
    BY <1>8, <1>9

\* The first n elements.
LEMMA TakeIs ==
  ASSUME NEW T, NEW s \in Seq(T), NEW n \in Nat
  PROVE  /\ Take(s, n) \in Seq(T) /\ Len(Take(s, n)) = Least(n, Len(s))
         /\ DOMAIN Take(s, n) = 1 .. Least(n, Len(s)) /\ Least(n, Len(s)) \in 0 .. Len(s)
         /\ \A i \in DOMAIN Take(s, n) : i \in DOMAIN s /\ Take(s, n)[i] = s[i]
  <1> DEFINE k == Least(n, Len(s))
  <1>1. k \in 0 .. Len(s) /\ Len(s) \in Nat
    BY DEF Least
  <1> HIDE DEF k
  <1>2. /\ SubSeq(s, 1, k) \in Seq(T) /\ Len(SubSeq(s, 1, k)) = k
        /\ \A i \in 1 .. k : SubSeq(s, 1, k)[i] = s[i]
    BY <1>1, SubSeqProperties
  <1>3. Take(s, n) = SubSeq(s, 1, k)
    BY DEF Take, k
  <1>4. QED
    BY <1>1, <1>2, <1>3 DEF k

-----------------------------------------------------------------------------
(* Hits and answers *)

Parents == UNION {[D -> Objects] : D \in SUBSET Objects}
Hit   == [id : Objects, score : Nat]
Entry == [id : Objects, score : Nat, kids : Seq(Hit), linked : Objects \cup {NoParent}]
Request ==
  [at : SearchStages, memos : BOOLEAN, limit : 1 .. PageCap \cup {1},
   fts : Seq(Objects), vec : Seq(Objects), hits : Seq(Hit), subs : SUBSET Objects,
   parent : Parents, answer : Seq(Entry)]

Distinct(s) == \A m, n \in DOMAIN s : m # n => s[m].id # s[n].id
Falling(s)  == \A m, n \in DOMAIN s : m < n => s[m].score >= s[n].score

\* The children under p: at most two, the best of those that go there.
LEMMA ChildrenAre ==
  ASSUME search \in Request, Falling(search.hits), NEW parent, NEW p
  PROVE  LET H == search.hits
             C == ChildHits(p, parent)
             Goes(k) == IsChild(H[k], parent) /\ parent[H[k].id] = p
         IN  /\ C \in Seq(Hit) /\ Falling(C)
             /\ \A i \in DOMAIN C : \E k \in DOMAIN H : Goes(k) /\ C[i] = H[k]
             /\ \A k \in DOMAIN H : Goes(k) =>
                  /\ 1 \in DOMAIN C /\ C[1].score >= H[k].score
                  /\ \/ \E i \in DOMAIN C : C[i] = H[k]
                     \/ Len(C) = MaxChildHits /\ \A i \in DOMAIN C : C[i].score >= H[k].score
  <1> DEFINE H == search.hits
             places == {n \in DOMAIN H : IsChild(H[n], parent) /\ parent[H[n].id] = p}
             Row == Kept(H, places)
             C == ChildHits(p, parent)
  <1>1. H \in Seq(Hit) /\ places \in SUBSET DOMAIN H /\ Falling(H)
    BY DEF Request
  <1>2. C = Take(Row, MaxChildHits)
    BY DEF ChildHits
  <1> HIDE DEF H, places, C, Row
  <1>3. Row \in Seq(Hit)
    BY <1>1, KeptIs DEF Row
  <1>4. PICK order : Picks(Row, H, places, order)
    BY <1>1, KeptIs DEF Row
  <1>5. /\ C \in Seq(Hit) /\ Len(C) = Least(2, Len(Row)) /\ DOMAIN C = 1 .. Least(2, Len(Row))
        /\ \A i \in DOMAIN C : i \in DOMAIN Row /\ C[i] = Row[i]
    BY <1>2, <1>3, TakeIs DEF MaxChildHits
  <1>6. \A n \in DOMAIN Row : order[n] \in places /\ Row[n] = H[order[n]] /\ order[n] \in DOMAIN H
    BY <1>1, <1>4 DEF Picks
  <1>7. Falling(Row)
    BY <1>1, <1>4, <1>6 DEF Falling, Picks
  <1>8. Falling(C)
    BY <1>5, <1>7 DEF Falling
  <1>9. \A i \in DOMAIN C : order[i] \in places /\ C[i] = H[order[i]]
    BY <1>5, <1>6
  <1>10. ASSUME NEW k \in places
         PROVE  /\ 1 \in DOMAIN C /\ C[1].score >= H[k].score
                /\ \/ \E i \in DOMAIN C : C[i] = H[k]
                   \/ Len(C) = 2 /\ \A i \in DOMAIN C : C[i].score >= H[k].score
    <2>1. PICK n \in DOMAIN Row : order[n] = k
      BY <1>4 DEF Picks
    <2>2. n \in 1 .. Len(Row) /\ Row[n] = H[k] /\ Len(Row) \in Nat /\ DOMAIN Row = 1 .. Len(Row)
      BY <1>3, <1>6, <2>1
    <2>3. Row[n] \in Hit
      BY <1>3, <2>2
    <2>20. Row[n].score \in Nat
      BY <2>3 DEF Hit
    <2>4. \A i \in DOMAIN C : i <= n => C[i].score >= H[k].score
      BY <1>5, <1>7, <2>2, <2>20 DEF Falling
    <2>5. 1 \in DOMAIN C
      BY <1>5, <2>2 DEF Least
    <2>6. C[1].score >= H[k].score
      BY <2>2, <2>4, <2>5
    <2>7. CASE n <= 2
      <3>1. n \in DOMAIN C
        BY <1>5, <2>2, <2>7 DEF Least
      <3>2. QED
        BY <1>5, <2>2, <2>5, <2>6, <3>1
    <2>8. CASE n > 2
      <3>1. Len(C) = 2 /\ DOMAIN C = 1 .. 2
        BY <1>5, <2>2, <2>8 DEF Least
      <3>2. \A i \in DOMAIN C : C[i].score >= H[k].score
        BY <2>2, <2>4, <2>8, <3>1
      <3>3. QED
        BY <2>5, <2>6, <3>1, <3>2
    <2>9. QED
      BY <2>2, <2>7, <2>8
  <1>11. \A k : k \in places <=> k \in DOMAIN H /\ IsChild(H[k], parent) /\ parent[H[k].id] = p
    BY DEF places
  <1>12. QED
    BY <1>1, <1>5, <1>8, <1>9, <1>10, <1>11 DEF MaxChildHits, C, H

\* The entries: one for each hit that goes under no other, with its children.
LEMMA TopsAre ==
  ASSUME search \in Request, Falling(search.hits), Distinct(search.hits), NEW parent \in Parents
  PROVE  LET H == search.hits
             T == TopLevel(parent)
         IN  /\ T \in Seq(Entry) /\ Distinct(T)
             /\ \A n \in DOMAIN T :
                  /\ \E k \in DOMAIN H : ~IsChild(H[k], parent) /\ T[n].id = H[k].id
                  /\ T[n].kids = ChildHits(T[n].id, parent)
                  /\ \A i \in DOMAIN T[n].kids : T[n].score >= T[n].kids[i].score
             /\ \A k \in DOMAIN H : ~IsChild(H[k], parent) =>
                  \E n \in DOMAIN T : T[n].id = H[k].id /\ T[n].score >= H[k].score
  <1> DEFINE H == search.hits
             places == {n \in DOMAIN H : ~IsChild(H[n], parent)}
             Row == Kept(H, places)
             T == TopLevel(parent)
             Made(h) == [id     |-> h.id,
                         score  |-> IF ChildHits(h.id, parent) = <<>> THEN h.score
                                    ELSE Most(h.score, ChildHits(h.id, parent)[1].score),
                         kids   |-> ChildHits(h.id, parent),
                         linked |-> IF h.id \in DOMAIN parent THEN parent[h.id] ELSE NoParent]
  <1>1. H \in Seq(Hit) /\ places \in SUBSET DOMAIN H
    BY DEF Request
  <1>2. T = [n \in DOMAIN Row |-> Made(Row[n])]
    BY DEF TopLevel
  <1>3. \A k : k \in places <=> k \in DOMAIN H /\ ~IsChild(H[k], parent)
    OBVIOUS
  <1>4. ASSUME NEW h \in Hit
        PROVE  /\ Made(h) \in Entry /\ Made(h).id = h.id /\ Made(h).score >= h.score
               /\ Made(h).kids = ChildHits(h.id, parent)
               /\ \A i \in DOMAIN Made(h).kids : Made(h).score >= Made(h).kids[i].score
    <2> DEFINE C == ChildHits(h.id, parent)
    <2>1. C \in Seq(Hit) /\ Falling(C)
      BY ChildrenAre
    <2> HIDE DEF C
    <2>2. h.id \in Objects /\ h.score \in Nat
      BY DEF Hit
    <2>3. \A i \in DOMAIN C : C[i] \in Hit
      BY <2>1
    <2>4. \A i \in DOMAIN C : C[i].score \in Nat
      BY <2>3 DEF Hit
    <2>5. C # <<>> => 1 \in DOMAIN C
      BY <2>1
    <2>6. \A i \in DOMAIN C : i \in Nat /\ 1 \in DOMAIN C /\ (i = 1 \/ 1 < i)
      BY <2>1
    <2>7. \A i \in DOMAIN C : C[1].score >= C[i].score
      BY <2>1, <2>4, <2>6 DEF Falling
    <2> DEFINE top == IF C = <<>> THEN h.score ELSE Most(h.score, C[1].score)
    <2>8. top \in Nat /\ top >= h.score /\ \A i \in DOMAIN C : top >= C[i].score
      <3>1. CASE C = <<>>
        BY <2>2, <3>1
      <3>2. CASE C # <<>>
        <4>1. C[1].score \in Nat
          BY <2>4, <2>5, <3>2
        <4>2. top \in Nat /\ top >= h.score /\ top >= C[1].score
          BY <2>2, <3>2, <4>1 DEF Most
        <4> HIDE DEF top
        <4>3. QED
          BY <2>4, <2>7, <4>1, <4>2
      <3>3. QED
        BY <3>1, <3>2
    <2>9. h.id \in DOMAIN parent => parent[h.id] \in Objects
      BY DEF Parents
    <2> DEFINE linked == IF h.id \in DOMAIN parent THEN parent[h.id] ELSE NoParent
    <2>10. linked \in Objects \cup {NoParent}
      BY <2>9
    <2>11. Made(h) = [id |-> h.id, score |-> top, kids |-> C, linked |-> linked]
      BY DEF C
    <2> HIDE DEF top, linked, Made
    <2>12. Made(h) \in Entry
      BY <2>1, <2>2, <2>8, <2>10, <2>11 DEF Entry
    <2>13. QED
      BY <2>8, <2>11, <2>12 DEF C
  <1> HIDE DEF H, places, Row, T, Made
  <1>5. Row \in Seq(Hit)
    BY <1>1, KeptIs DEF Row
  <1>6. PICK order : Picks(Row, H, places, order)
    BY <1>1, KeptIs DEF Row
  <1>7. \A n \in DOMAIN Row : Row[n] \in Hit
    BY <1>5
  <1>8. \A n \in DOMAIN Row : T[n] \in Entry
    BY <1>2, <1>4, <1>7
  <1>9. DOMAIN T = DOMAIN Row /\ T \in Seq(Entry)
    BY <1>2, <1>5, <1>8
  <1>10. \A n \in DOMAIN T : T[n] = Made(Row[n]) /\ Row[n] \in Hit
    BY <1>2, <1>7, <1>9
  <1>11. \A n \in DOMAIN T : order[n] \in places /\ order[n] \in DOMAIN H /\ Row[n] = H[order[n]]
    BY <1>3, <1>6, <1>9 DEF Picks
  <1>12. ASSUME NEW n \in DOMAIN T
         PROVE  /\ ~IsChild(H[order[n]], parent) /\ T[n].id = H[order[n]].id
                /\ T[n].kids = ChildHits(T[n].id, parent)
                /\ \A i \in DOMAIN T[n].kids : T[n].score >= T[n].kids[i].score
                /\ T[n].score >= Row[n].score
    BY <1>3, <1>4, <1>10, <1>11
  <1>13. ASSUME NEW m \in DOMAIN T, NEW n \in DOMAIN T, m # n PROVE T[m].id # T[n].id
    <2>1. m < n \/ n < m
      BY <1>9, <1>13
    <2>2. order[m] # order[n] /\ order[m] \in DOMAIN H /\ order[n] \in DOMAIN H
      <3>1. order[m] \in Nat /\ order[n] \in Nat
        BY <1>1, <1>11
      <3>2. order[m] < order[n] \/ order[n] < order[m]
        BY <1>6, <1>9, <2>1 DEF Picks
      <3>3. QED
        BY <1>11, <3>1, <3>2
    <2>3. H[order[m]].id # H[order[n]].id
      BY <2>2 DEF Distinct, H
    <2>4. QED
      BY <1>12, <2>3
  <1>14. ASSUME NEW k \in DOMAIN H, ~IsChild(H[k], parent)
         PROVE  \E n \in DOMAIN T : T[n].id = H[k].id /\ T[n].score >= H[k].score
    <2>1. k \in places
      BY <1>3, <1>14
    <2>2. PICK n \in DOMAIN T : order[n] = k
      BY <1>6, <1>9, <2>1 DEF Picks
    <2>3. QED
      BY <1>11, <1>12, <2>2
  <1>15. Distinct(T)
    BY <1>13 DEF Distinct
  <1>16. QED
    BY <1>9, <1>11, <1>12, <1>14, <1>15 DEF T, H

\* g holds elements of s, each at most once.
Drawn(g, s) ==
  \E from \in [DOMAIN g -> DOMAIN s] :
    /\ \A i \in DOMAIN g : g[i] = s[from[i]]
    /\ \A i, j \in DOMAIN g : i # j => from[i] # from[j]

\* The best n of a list.
LEMMA BestIs ==
  ASSUME NEW T, NEW s \in Seq(T), \A i \in DOMAIN s : s[i].score \in Nat, NEW n \in Nat, n > 0
  PROVE  LET g == Take(ByScore(s), n)
         IN  /\ g \in Seq(T) /\ Len(g) <= n /\ Falling(g) /\ Drawn(g, s)
             /\ \A k \in DOMAIN s :
                  \/ \E i \in DOMAIN g : g[i] = s[k]
                  \/ Len(g) = n /\ g[Len(g)].score >= s[k].score
  <1> DEFINE r == ByScore(s)
             g == Take(r, n)
  <1>1. r \in Seq(T)
    BY ByScoreIs
  <1>2. PICK order : Sorts(r, s, order)
    BY ByScoreIs
  <1> HIDE DEF r
  <1>3. /\ g \in Seq(T) /\ Len(g) = Least(n, Len(r)) /\ DOMAIN g = 1 .. Least(n, Len(r))
        /\ \A i \in DOMAIN g : i \in DOMAIN r /\ g[i] = r[i]
    BY <1>1, TakeIs
  <1> HIDE DEF g
  <1>4. Len(r) \in Nat /\ DOMAIN r = 1 .. Len(r)
    BY <1>1
  <1>5. \A i \in DOMAIN g : order[i] \in DOMAIN s /\ g[i] = s[order[i]] /\ g[i].score \in Nat
    BY <1>2, <1>3 DEF Sorts
  <1>6. Falling(g)
    BY <1>2, <1>3 DEF Falling, Sorts
  <1>7. Len(g) <= n
    BY <1>3, <1>4 DEF Least
  <1> DEFINE from == [i \in DOMAIN g |-> order[i]]
  <1>8. /\ from \in [DOMAIN g -> DOMAIN s]
        /\ \A i \in DOMAIN g : g[i] = s[from[i]]
        /\ \A i, j \in DOMAIN g : i # j => from[i] # from[j]
    BY <1>2, <1>3, <1>5 DEF Sorts
  <1> HIDE DEF from
  <1>9. ASSUME NEW k \in DOMAIN s, ~ \E i \in DOMAIN g : g[i] = s[k]
        PROVE  Len(g) = n /\ g[Len(g)].score >= s[k].score
    <2>1. PICK m \in DOMAIN s : order[m] = k
      BY <1>2 DEF Sorts
    <2>2. m \in 1 .. Len(r) /\ r[m] = s[k]
      BY <1>2, <1>4, <2>1 DEF Sorts
    <2>3. m \notin DOMAIN g
      BY <1>3, <1>9, <2>2
    <2>4. Least(n, Len(r)) = n /\ n < m
      <3>1. ~(m <= Least(n, Len(r))) /\ m \in Nat /\ m <= Len(r)
        BY <1>3, <1>4, <2>2, <2>3
      <3>2. CASE n < Len(r)
        <4>1. Least(n, Len(r)) = n
          BY <3>2 DEF Least
        <4>2. QED
          BY <3>1, <4>1
      <3>3. CASE ~(n < Len(r))
        <4>1. Least(n, Len(r)) = Len(r)
          BY <3>3 DEF Least
        <4>2. QED
          BY <3>1, <4>1
      <3>4. QED
        BY <3>2, <3>3
    <2>5. Len(g) = n /\ n \in DOMAIN g /\ n \in DOMAIN s
      <3>1. DOMAIN r = DOMAIN s
        BY <1>2 DEF Sorts
      <3>2. QED
        BY <1>3, <1>4, <2>2, <2>4, <3>1
    <2>6. r[n].score >= r[m].score
      BY <1>2, <2>1, <2>4, <2>5 DEF Sorts
    <2>7. QED
      BY <1>3, <2>2, <2>5, <2>6
  <1>10. Drawn(g, s)
    BY <1>8 DEF Drawn
  <1>11. QED
    BY <1>3, <1>6, <1>7, <1>9, <1>10 DEF g, r

\* An answer in order: within the limit, falling, and no object in two places.
Apart(a) ==
  /\ Distinct(a)
  /\ \A m, n \in DOMAIN a : \A i \in DOMAIN a[n].kids :
       /\ a[m].id # a[n].kids[i].id
       /\ m # n => \A j \in DOMAIN a[m].kids : a[m].kids[j].id # a[n].kids[i].id

Orderly(a, limit) == Len(a) <= limit /\ Falling(a) /\ Apart(a)

KidsBelow(a) == \A n \in DOMAIN a : \A i \in DOMAIN a[n].kids : a[n].score >= a[n].kids[i].score

\* Where a hit is, or how it was lost.
Shown(h, a) ==
  \E n \in DOMAIN a : a[n].id = h.id \/ \E i \in DOMAIN a[n].kids : a[n].kids[i].id = h.id
CutOff(h, a, limit) == Len(a) = limit /\ a[Len(a)].score >= h.score
Crowded(h, a, parent) ==
  /\ h.id \in DOMAIN parent
  /\ \E n \in DOMAIN a :
       /\ a[n].id = parent[h.id] /\ Len(a[n].kids) = MaxChildHits
       /\ \A i \in DOMAIN a[n].kids : a[n].kids[i].score >= h.score
Grandchild(h, parent) ==
  /\ h.id \in DOMAIN parent /\ parent[h.id] \in DOMAIN parent
  /\ parent[parent[h.id]] \in HitIds
Accounted(a, limit, parent) ==
  \A k \in DOMAIN search.hits :
    LET h == search.hits[k]
    IN  \/ Shown(h, a) \/ CutOff(h, a, limit)
        \/ Crowded(h, a, parent) \/ Grandchild(h, parent)

\* groupByParent gives such an answer.
LEMMA GroupedIs ==
  ASSUME search \in Request, Falling(search.hits), Distinct(search.hits), NEW parent \in Parents,
         PageLimit \in Nat, PageLimit > 0
  PROVE  LET a == Grouped(parent)
         IN  a \in Seq(Entry) /\ Orderly(a, PageLimit) /\ KidsBelow(a)
             /\ Accounted(a, PageLimit, parent)
  <1> DEFINE H == search.hits
             T == TopLevel(parent)
             a == Grouped(parent)
             Goes(k, p) == IsChild(H[k], parent) /\ parent[H[k].id] = p
  <1>1. /\ T \in Seq(Entry) /\ Distinct(T)
        /\ \A n \in DOMAIN T : \E k \in DOMAIN H : ~IsChild(H[k], parent) /\ T[n].id = H[k].id
        /\ \A n \in DOMAIN T : T[n].kids = ChildHits(T[n].id, parent)
        /\ \A n \in DOMAIN T : \A i \in DOMAIN T[n].kids : T[n].score >= T[n].kids[i].score
        /\ \A k \in DOMAIN H : ~IsChild(H[k], parent) =>
             \E n \in DOMAIN T : T[n].id = H[k].id /\ T[n].score >= H[k].score
    BY TopsAre
  <1>2. \A p : /\ ChildHits(p, parent) \in Seq(Hit)
               /\ \A i \in DOMAIN ChildHits(p, parent) :
                    \E k \in DOMAIN H : Goes(k, p) /\ ChildHits(p, parent)[i] = H[k]
               /\ \A k \in DOMAIN H : Goes(k, p) =>
                    /\ 1 \in DOMAIN ChildHits(p, parent)
                    /\ ChildHits(p, parent)[1].score >= H[k].score
                    /\ \/ \E i \in DOMAIN ChildHits(p, parent) : ChildHits(p, parent)[i] = H[k]
                       \/ /\ Len(ChildHits(p, parent)) = MaxChildHits
                          /\ \A i \in DOMAIN ChildHits(p, parent) :
                               ChildHits(p, parent)[i].score >= H[k].score
    BY ChildrenAre
  <1>3. \A n \in DOMAIN T : T[n] \in Entry
    BY <1>1
  <1>4. \A n \in DOMAIN T : T[n].score \in Nat /\ T[n].kids \in Seq(Hit)
    BY <1>3 DEF Entry
  <1>5. a = Take(ByScore(T), PageLimit)
    BY DEF Grouped
  <1>6. H \in Seq(Hit)
    BY DEF Request
  <1>7. \A k \in DOMAIN H : H[k] \in Hit
    BY <1>6
  <1>8. \A k \in DOMAIN H : H[k].score \in Nat
    BY <1>7 DEF Hit
  <1> HIDE DEF T, H, a, Goes
  <1>9. /\ a \in Seq(Entry) /\ Len(a) <= PageLimit /\ Falling(a) /\ Drawn(a, T)
        /\ \A k \in DOMAIN T :
             \/ \E i \in DOMAIN a : a[i] = T[k]
             \/ Len(a) = PageLimit /\ a[Len(a)].score >= T[k].score
    BY <1>1, <1>4, <1>5, BestIs
  <1>10. PICK from \in [DOMAIN a -> DOMAIN T] :
           /\ \A i \in DOMAIN a : a[i] = T[from[i]]
           /\ \A i, j \in DOMAIN a : i # j => from[i] # from[j]
    BY <1>9 DEF Drawn
  <1>11. Distinct(a)
    BY <1>1, <1>10 DEF Distinct
  <1>12. \A n \in DOMAIN a : a[n].kids = ChildHits(a[n].id, parent)
    BY <1>1, <1>10
  <1>13. ASSUME NEW n \in DOMAIN a, NEW i \in DOMAIN a[n].kids
         PROVE  \E k \in DOMAIN H : Goes(k, a[n].id) /\ a[n].kids[i] = H[k]
    BY <1>2, <1>12
  <1>14. ASSUME NEW m \in DOMAIN a, NEW n \in DOMAIN a, NEW i \in DOMAIN a[n].kids
         PROVE  a[m].id # a[n].kids[i].id
    <2>1. PICK k \in DOMAIN H : IsChild(H[k], parent) /\ a[n].kids[i] = H[k]
      BY <1>13 DEF Goes
    <2>2. PICK j \in DOMAIN H : ~IsChild(H[j], parent) /\ a[m].id = H[j].id
      BY <1>1, <1>10
    <2>3. H[k].id # H[j].id
      BY <2>1, <2>2 DEF IsChild
    <2>4. QED
      BY <2>1, <2>2, <2>3
  <1>15. ASSUME NEW m \in DOMAIN a, NEW n \in DOMAIN a, m # n,
                NEW i \in DOMAIN a[n].kids, NEW j \in DOMAIN a[m].kids
         PROVE  a[m].kids[j].id # a[n].kids[i].id
    <2>1. PICK k \in DOMAIN H : parent[H[k].id] = a[n].id /\ a[n].kids[i] = H[k]
      BY <1>13 DEF Goes
    <2>2. PICK l \in DOMAIN H : parent[H[l].id] = a[m].id /\ a[m].kids[j] = H[l]
      BY <1>13 DEF Goes
    <2>3. a[m].id # a[n].id
      BY <1>11, <1>15 DEF Distinct
    <2>4. QED
      BY <2>1, <2>2, <2>3
  <1>16. Apart(a)
    BY <1>11, <1>14, <1>15 DEF Apart
  <1>17. KidsBelow(a)
    BY <1>1, <1>10 DEF KidsBelow
  <1>18. ASSUME NEW k \in DOMAIN H, ~IsChild(H[k], parent)
         PROVE  Shown(H[k], a) \/ CutOff(H[k], a, PageLimit)
    <2>1. PICK n \in DOMAIN T : T[n].id = H[k].id /\ T[n].score >= H[k].score
      BY <1>1, <1>18
    <2>2. CASE \E i \in DOMAIN a : a[i] = T[n]
      BY <2>1, <2>2 DEF Shown
    <2>3. CASE Len(a) = PageLimit /\ a[Len(a)].score >= T[n].score
      <3>1. Len(a) \in DOMAIN a
        BY <1>9, <2>3
      <3>2. a[Len(a)].score \in Nat
        BY <1>4, <1>10, <3>1
      <3>3. QED
        BY <1>4, <1>8, <2>1, <2>3, <3>2 DEF CutOff
    <2>4. QED
      BY <1>9, <2>2, <2>3
  <1>19. ASSUME NEW k \in DOMAIN H, IsChild(H[k], parent)
         PROVE  \/ Shown(H[k], a) \/ CutOff(H[k], a, PageLimit)
                \/ Crowded(H[k], a, parent) \/ Grandchild(H[k], parent)
    <2> DEFINE p == parent[H[k].id]
               C == ChildHits(p, parent)
    <2>1. H[k].id \in DOMAIN parent /\ p \in HitIds
      BY <1>19 DEF IsChild
    <2>2. PICK j \in DOMAIN H : H[j].id = p
      BY <2>1 DEF HitIds, IdsOf, H
    <2>3. Goes(k, p)
      BY <1>19 DEF Goes
    <2> HIDE DEF p
    <2>4. CASE IsChild(H[j], parent)
      BY <2>1, <2>2, <2>4 DEF Grandchild, IsChild, p
    <2>5. CASE ~IsChild(H[j], parent)
      <3>1. PICK n \in DOMAIN T : T[n].id = p
        BY <1>1, <2>2, <2>5
      <3>2. T[n].kids = C
        BY <1>1, <3>1
      <3>3. /\ 1 \in DOMAIN C /\ C[1].score >= H[k].score
            /\ \/ \E i \in DOMAIN C : C[i] = H[k]
               \/ Len(C) = MaxChildHits /\ \A i \in DOMAIN C : C[i].score >= H[k].score
        BY <1>2, <2>3
      <3> HIDE DEF C
      <3>4. CASE \E i \in DOMAIN a : a[i] = T[n]
        <4>1. PICK i \in DOMAIN a : a[i].id = p /\ a[i].kids = C
          BY <3>1, <3>2, <3>4
        <4>2. CASE \E l \in DOMAIN C : C[l] = H[k]
          BY <4>1, <4>2 DEF Shown
        <4>3. CASE Len(C) = MaxChildHits /\ \A l \in DOMAIN C : C[l].score >= H[k].score
          BY <2>1, <4>1, <4>3 DEF Crowded, p
        <4>4. QED
          BY <3>3, <4>2, <4>3
      <3>5. CASE Len(a) = PageLimit /\ a[Len(a)].score >= T[n].score
        <4>1. Len(a) \in DOMAIN a
          BY <1>9, <3>5
        <4>2. a[Len(a)].score \in Nat /\ T[n].score \in Nat
          BY <1>4, <1>10, <4>1
        <4>3. C[1].score \in Nat
          <5>1. C \in Seq(Hit)
            BY <1>2 DEF C
          <5>2. C[1] \in Hit
            BY <3>3, <5>1
          <5>3. QED
            BY <5>2 DEF Hit
        <4>4. T[n].score >= C[1].score
          BY <1>1, <3>2, <3>3
        <4>5. QED
          BY <1>8, <3>3, <3>5, <4>2, <4>3, <4>4 DEF CutOff
      <3>6. QED
        BY <1>9, <3>4, <3>5
    <2>6. QED
      BY <2>4, <2>5
  <1>20. Accounted(a, PageLimit, parent)
    BY <1>18, <1>19 DEF Accounted, H
  <1>21. QED
    BY <1>9, <1>16, <1>17, <1>20 DEF Orderly, a

-----------------------------------------------------------------------------
(* A search *)

\* What is kept is drawn, and in the order it had.
LEMMA KeptDrawn ==
  ASSUME NEW T, NEW s \in Seq(T), NEW places \in SUBSET DOMAIN s
  PROVE  /\ Kept(s, places) \in Seq(T) /\ Drawn(Kept(s, places), s)
         /\ Falling(s) => Falling(Kept(s, places))
         /\ \A n \in DOMAIN Kept(s, places) : \E k \in places : Kept(s, places)[n] = s[k]
         /\ \A k \in places : \E n \in DOMAIN Kept(s, places) : Kept(s, places)[n] = s[k]
  <1> DEFINE r == Kept(s, places)
  <1>1. r \in Seq(T)
    BY KeptIs
  <1>2. PICK order : Picks(r, s, places, order)
    BY KeptIs
  <1> HIDE DEF r
  <1>3. order \in [DOMAIN r -> DOMAIN s] /\ \A n \in DOMAIN r : r[n] = s[order[n]]
    BY <1>2 DEF Picks
  <1>4. \A m, n \in DOMAIN r : m # n => order[m] # order[n]
    <2>1. DOMAIN r \subseteq Nat /\ DOMAIN s \subseteq Nat
      BY <1>1
    <2>2. \A m, n \in DOMAIN r : m < n => order[m] < order[n]
      BY <1>2 DEF Picks
    <2>3. \A m, n \in DOMAIN r : order[m] \in Nat /\ (m # n => m < n \/ n < m)
      BY <1>3, <2>1
    <2>4. QED
      BY <2>1, <2>2, <2>3
  <1>5. Drawn(r, s)
    BY <1>3, <1>4 DEF Drawn
  <1>6. Falling(s) => Falling(r)
    BY <1>2, <1>3 DEF Falling, Picks
  <1>7. \A k \in places : \E n \in DOMAIN r : r[n] = s[k]
    BY <1>2 DEF Picks
  <1>8. \A n \in DOMAIN r : \E k \in places : r[n] = s[k]
    BY <1>2 DEF Picks
  <1>9. QED
    BY <1>1, <1>5, <1>6, <1>7, <1>8 DEF r

LEMMA DrawnDistinct ==
  ASSUME NEW s, NEW g, Drawn(g, s)
  PROVE  (Distinct(s) => Distinct(g)) /\ (Apart(s) => Apart(g))
  <1>1. PICK from \in [DOMAIN g -> DOMAIN s] :
          /\ \A i \in DOMAIN g : g[i] = s[from[i]]
          /\ \A i, j \in DOMAIN g : i # j => from[i] # from[j]
    BY DEF Drawn
  <1>2. Distinct(s) => Distinct(g)
    BY <1>1 DEF Distinct
  <1>3. ASSUME Apart(s) PROVE Apart(g)
    <2>1. Distinct(g)
      BY <1>2, <1>3 DEF Apart
    <2>2. ASSUME NEW m \in DOMAIN g, NEW n \in DOMAIN g, NEW i \in DOMAIN g[n].kids
          PROVE  /\ g[m].id # g[n].kids[i].id
                 /\ m # n => \A j \in DOMAIN g[m].kids : g[m].kids[j].id # g[n].kids[i].id
      <3>1. g[m] = s[from[m]] /\ g[n] = s[from[n]] /\ (m # n => from[m] # from[n])
            /\ from[m] \in DOMAIN s /\ from[n] \in DOMAIN s
        BY <1>1
      <3>2. QED
        BY <1>3, <3>1 DEF Apart
    <2>3. QED
      BY <2>1, <2>2 DEF Apart
  <1>4. QED
    BY <1>2, <1>3

\* The score of an object in a ranking is a natural number.
LEMMA ContributionIs ==
  ASSUME NEW list \in Seq(Objects), NEW o PROVE Contribution(list, o) \in Nat
  <1>1. RankUnit \in Nat
    BY SearchAssumption
  <1>2. CASE o \in ToSet(list)
    <2> DEFINE n == CHOOSE m \in DOMAIN list : list[m] = o
    <2>1. n \in DOMAIN list
      BY <1>2 DEF ToSet
    <2>2. n \in Nat
      BY <2>1
    <2> HIDE DEF n
    <2>3. \A x \in Nat, y \in Nat \ {0} : x \div y \in Nat
      OBVIOUS
    <2>4. K + n \in Nat \ {0}
      BY <2>2 DEF K
    <2>5. RankUnit \div (K + n) \in Nat
      BY <1>1, <2>3, <2>4
    <2>6. QED
      BY <1>2, <2>5 DEF Contribution, n
  <1>3. CASE o \notin ToSet(list)
    BY <1>3 DEF Contribution
  <1>4. QED
    BY <1>2, <1>3

\* The fused list is in order and names no object twice.
LEMMA FusedIs ==
  ASSUME NEW fts \in Seq(Objects), NEW vec \in Seq(Objects), IsInjective(fts), IsInjective(vec),
         NEW limit \in Nat, limit > 0
  PROVE  LET f == Fused(fts, vec, limit)
         IN  f \in Seq(Hit) /\ Falling(f) /\ Distinct(f)
  <1> DEFINE Scored(o) == [id |-> o, score |-> Contribution(fts, o) + Contribution(vec, o)]
             places == {n \in DOMAIN vec : vec[n] \notin ToSet(fts)}
             rest == Kept(vec, places)
             first == [n \in DOMAIN fts |-> Scored(fts[n])]
             second == [n \in DOMAIN rest |-> Scored(rest[n])]
             s == first \o second
             f == Fused(fts, vec, limit)
  <1>1. \A o \in Objects : Scored(o) \in Hit /\ Scored(o).id = o
    <2> SUFFICES ASSUME NEW o \in Objects PROVE Scored(o) \in Hit /\ Scored(o).id = o
      OBVIOUS
    <2>1. Contribution(fts, o) \in Nat /\ Contribution(vec, o) \in Nat
      BY ContributionIs
    <2>2. Contribution(fts, o) + Contribution(vec, o) \in Nat
      BY <2>1
    <2>3. QED
      BY <2>2 DEF Hit
  <1>2. f = Take(ByScore(s), limit)
    BY DEF Fused
  <1>3. places \in SUBSET DOMAIN vec
    OBVIOUS
  <1> HIDE DEF Scored
  <1>4. /\ rest \in Seq(Objects) /\ Drawn(rest, vec)
        /\ \A n \in DOMAIN rest : \E k \in places : rest[n] = vec[k]
    BY <1>3, KeptDrawn
  <1>5. \A n \in DOMAIN rest : rest[n] \notin ToSet(fts)
    BY <1>4
  <1> HIDE DEF rest, places
  <1>6. \A m, n \in DOMAIN rest : m # n => rest[m] # rest[n]
    BY <1>4 DEF Drawn, IsInjective
  <1>7. \A m, n \in DOMAIN fts : m # n => fts[m] # fts[n]
    BY DEF IsInjective
  <1>8. first \in Seq(Hit) /\ Len(first) = Len(fts) /\ Len(fts) \in Nat /\ DOMAIN fts = 1 .. Len(fts)
    <2>1. \A n \in DOMAIN fts : Scored(fts[n]) \in Hit
      BY <1>1
    <2>2. QED
      BY <2>1
  <1>9. second \in Seq(Hit) /\ Len(second) = Len(rest) /\ Len(rest) \in Nat /\ DOMAIN rest = 1 .. Len(rest)
    <2>1. \A n \in DOMAIN rest : Scored(rest[n]) \in Hit
      BY <1>1, <1>4
    <2>2. QED
      BY <1>4, <2>1
  <1>10. \A n \in DOMAIN fts : first[n].id = fts[n]
    BY <1>1
  <1>11. \A n \in DOMAIN rest : second[n].id = rest[n]
    BY <1>1, <1>4
  <1> HIDE DEF first, second, f
  <1>12. /\ s \in Seq(Hit) /\ Len(s) = Len(fts) + Len(rest)
         /\ \A n \in 1 .. Len(s) : s[n] = IF n <= Len(fts) THEN first[n] ELSE second[n - Len(fts)]
    <2>1. first \in Seq(Hit) /\ second \in Seq(Hit)
      BY <1>8, <1>9
    <2>2. /\ s \in Seq(Hit) /\ Len(s) = Len(first) + Len(second)
          /\ \A n \in 1 .. Len(first) + Len(second) :
               s[n] = IF n <= Len(first) THEN first[n] ELSE second[n - Len(first)]
      BY <2>1, ConcatProperties
    <2>3. Len(first) = Len(fts) /\ Len(second) = Len(rest)
      BY <1>8, <1>9
    <2>4. Len(s) = Len(first) + Len(second)
      BY <2>2
    <2> HIDE DEF s
    <2>5. \A n \in 1 .. Len(s) : s[n] = IF n <= Len(fts) THEN first[n] ELSE second[n - Len(fts)]
      BY <2>2, <2>3, <2>4
    <2>6. QED
      BY <2>2, <2>3, <2>4, <2>5
  <1> HIDE DEF s
  <1>13. DOMAIN s = 1 .. Len(s)
    BY <1>12
  <1>14. \A n \in DOMAIN s :
           \/ n \in DOMAIN fts /\ s[n].id = fts[n]
           \/ n > Len(fts) /\ n - Len(fts) \in DOMAIN rest /\ s[n].id = rest[n - Len(fts)]
    <2> SUFFICES ASSUME NEW n \in DOMAIN s
                 PROVE  \/ n \in DOMAIN fts /\ s[n].id = fts[n]
                        \/ n > Len(fts) /\ n - Len(fts) \in DOMAIN rest /\ s[n].id = rest[n - Len(fts)]
      OBVIOUS
    <2>1. n \in 1 .. Len(fts) + Len(rest) /\ n \in Nat
      BY <1>8, <1>9, <1>12, <1>13
    <2>2. CASE n <= Len(fts)
      <3>1. s[n] = first[n] /\ n \in DOMAIN fts
        BY <1>8, <1>12, <1>13, <2>1, <2>2
      <3>2. QED
        BY <1>10, <3>1
    <2>3. CASE n > Len(fts)
      <3>1. n - Len(fts) \in DOMAIN rest
        BY <1>8, <1>9, <2>1, <2>3
      <3>2. ~(n <= Len(fts))
        BY <1>8, <2>1, <2>3
      <3>3. s[n] = second[n - Len(fts)]
        BY <1>12, <1>13, <3>2
      <3>4. QED
        BY <1>11, <2>3, <3>1, <3>3
    <2>4. QED
      BY <1>8, <2>1, <2>2, <2>3
  <1>15. \A n \in DOMAIN fts : fts[n] \in ToSet(fts)
    BY DEF ToSet
  <1>16. Distinct(s)
    <2> SUFFICES ASSUME NEW m \in DOMAIN s, NEW n \in DOMAIN s, m # n PROVE s[m].id # s[n].id
      BY DEF Distinct
    <2>1. m \in Nat /\ n \in Nat /\ Len(fts) \in Nat
      BY <1>8, <1>13
    <2>2. CASE m \in DOMAIN fts /\ s[m].id = fts[m]
      BY <1>5, <1>7, <1>14, <1>15, <2>2
    <2>3. CASE n \in DOMAIN fts /\ s[n].id = fts[n]
      BY <1>5, <1>7, <1>14, <1>15, <2>3
    <2>4. CASE /\ m - Len(fts) \in DOMAIN rest /\ s[m].id = rest[m - Len(fts)]
               /\ n - Len(fts) \in DOMAIN rest /\ s[n].id = rest[n - Len(fts)]
      <3>1. m - Len(fts) # n - Len(fts)
        BY <2>1
      <3>2. QED
        BY <1>6, <2>4, <3>1
    <2>5. QED
      BY <1>14, <2>2, <2>3, <2>4
  <1>17. \A n \in DOMAIN s : s[n] \in Hit
    BY <1>12
  <1>18. \A n \in DOMAIN s : s[n].score \in Nat
    BY <1>17 DEF Hit
  <1>19. f \in Seq(Hit) /\ Falling(f) /\ Drawn(f, s)
    BY <1>2, <1>12, <1>18, BestIs
  <1>20. QED
    BY <1>16, <1>19, DrawnDistinct DEF f

\* The invariant of a search.
SearchInv ==
  /\ search \in Request
  /\ IF search.at = "idle" THEN search.limit = 1 ELSE search.limit \in Limits
  /\ IsInjective(search.fts) /\ IsInjective(search.vec)
  /\ Falling(search.hits) /\ Distinct(search.hits)
  /\ search.at \notin {"memos", "answered"} => search.parent = <<>>
  /\ DOMAIN search.parent \subseteq search.subs
  /\ search.at = "memos" => search.memos = TRUE /\ Apart(search.answer)
  /\ search.at = "answered" => Orderly(search.answer, search.limit)
  /\ search.at = "answered" /\ ~search.memos =>
       KidsBelow(search.answer) /\ Accounted(search.answer, search.limit, search.parent)

LEMMA PageLimitIs ==
  ASSUME search \in Request, search.limit \in Limits
  PROVE  /\ PageLimit \in Nat /\ PageLimit > 0
         /\ Least(2 * PageLimit, PageCap) \in Nat /\ Least(2 * PageLimit, PageCap) > 0
         /\ search.limit \in Nat /\ search.limit > 0
         /\ ~search.memos => PageLimit = search.limit
  <1>1. search.limit \in 1 .. PageCap /\ PageCap \in Nat
    BY SearchAssumption
  <1>2. PageLimit \in Nat /\ PageLimit > 0
    BY <1>1 DEF PageLimit, Least
  <1>3. ~search.memos => PageLimit = search.limit
    BY DEF PageLimit
  <1> HIDE DEF PageLimit
  <1>4. QED
    BY <1>1, <1>2, <1>3 DEF Least

\* A statement that leaves the hits and the answer alone.
LEMMA RankingSteps ==
  ASSUME SearchInv,
         \/ \E limit \in Limits, memos \in BOOLEAN : SearchBegin(limit, memos)
         \/ FtsSelect \/ VectorSelect \/ SubdocSelect
  PROVE  SearchInv'
  <1>1. search \in Request
    BY DEF SearchInv
  <1>2. CASE \E limit \in Limits, memos \in BOOLEAN : SearchBegin(limit, memos)
    <2>1. PICK limit \in Limits, memos \in BOOLEAN : SearchBegin(limit, memos)
      BY <1>2
    <2>2. limit \in 1 .. PageCap \cup {1}
      BY SearchAssumption
    <2>3. /\ search.at = "idle"
          /\ search' = [search EXCEPT !.at = "fts", !.limit = limit, !.memos = memos]
      BY <2>1 DEF SearchBegin
    <2>4. /\ search' \in Request /\ search'.at = "fts" /\ search'.limit = limit
          /\ search'.fts = search.fts /\ search'.vec = search.vec /\ search'.hits = search.hits
          /\ search'.parent = search.parent /\ search'.subs = search.subs
      BY <1>1, <2>2, <2>3 DEF Request, SearchStages
    <2>5. QED
      BY <2>3, <2>4 DEF SearchInv
  <1>3. CASE FtsSelect
    <2>1. PICK rows \in Rankings(FtsLimit) : search' = [search EXCEPT !.at = "vec", !.fts = rows]
      BY <1>3 DEF FtsSelect
    <2>2. rows \in Seq(Objects) /\ IsInjective(rows)
      BY DEF Rankings
    <2>3. /\ search' \in Request /\ search'.at = "vec" /\ search'.limit = search.limit
          /\ search'.fts = rows /\ search'.vec = search.vec /\ search'.hits = search.hits
          /\ search'.parent = search.parent /\ search'.subs = search.subs
      BY <1>1, <2>1, <2>2 DEF Request, SearchStages
    <2>4. search.at = "fts"
      BY <1>3 DEF FtsSelect
    <2>5. QED
      BY <2>2, <2>3, <2>4 DEF SearchInv
  <1>4. CASE VectorSelect
    <2>1. PICK rows \in Rankings(VectorLimit) : search' = [search EXCEPT !.at = "meta", !.vec = rows]
      BY <1>4 DEF VectorSelect
    <2>2. rows \in Seq(Objects) /\ IsInjective(rows)
      BY DEF Rankings
    <2>3. /\ search' \in Request /\ search'.at = "meta" /\ search'.limit = search.limit
          /\ search'.fts = search.fts /\ search'.vec = rows /\ search'.hits = search.hits
          /\ search'.parent = search.parent /\ search'.subs = search.subs
      BY <1>1, <2>1, <2>2 DEF Request, SearchStages
    <2>4. search.at = "vec"
      BY <1>4 DEF VectorSelect
    <2>5. QED
      BY <2>2, <2>3, <2>4 DEF SearchInv
  <1>5. CASE SubdocSelect
    <2> DEFINE found == {o \in HitIds : Visible(o) /\ IsSubdoc(o)}
    <2>1. search.at = "subs" /\ search' = [search EXCEPT !.at = "parents", !.subs = found]
      BY <1>5 DEF SubdocSelect
    <2>2. search.hits \in Seq(Hit)
      BY <1>1 DEF Request
    <2>3. \A n \in DOMAIN search.hits : search.hits[n] \in Hit
      BY <2>2
    <2>4. HitIds \subseteq Objects
      BY <2>3 DEF HitIds, IdsOf, Hit
    <2>5. found \subseteq Objects
      BY <2>4
    <2> HIDE DEF found
    <2>6. /\ search' \in Request /\ search'.at = "parents" /\ search'.limit = search.limit
          /\ search'.fts = search.fts /\ search'.vec = search.vec /\ search'.hits = search.hits
          /\ search'.parent = search.parent
      BY <1>1, <2>1, <2>5 DEF Request, SearchStages
    <2>7. search.parent = <<>>
      BY <2>1 DEF SearchInv
    <2>8. DOMAIN search'.parent = {}
      BY <2>6, <2>7
    <2>9. QED
      BY <2>1, <2>6, <2>7, <2>8 DEF SearchInv
  <1>6. QED
    BY <1>2, <1>3, <1>4, <1>5

\* The rows of the fused list.
LEMMA MetaStep ==
  ASSUME SearchInv, MetaSelect
  PROVE  SearchInv'
  <1> DEFINE fused == Fused(search.fts, search.vec, Least(2 * PageLimit, PageCap))
             places == {n \in DOMAIN fused : Visible(fused[n].id)}
             hits == Kept(fused, places)
  <1>1. search \in Request /\ search.at = "meta" /\ search.limit \in Limits
    BY DEF SearchInv, MetaSelect
  <1>2. search' = [search EXCEPT !.at = "subs", !.hits = hits]
    BY DEF MetaSelect
  <1>3. search.fts \in Seq(Objects) /\ search.vec \in Seq(Objects)
    BY <1>1 DEF Request
  <1>4. IsInjective(search.fts) /\ IsInjective(search.vec)
    BY DEF SearchInv
  <1>5. fused \in Seq(Hit) /\ Falling(fused) /\ Distinct(fused)
    BY <1>1, <1>3, <1>4, FusedIs, PageLimitIs
  <1>6. places \in SUBSET DOMAIN fused
    OBVIOUS
  <1> HIDE DEF fused, places
  <1>7. hits \in Seq(Hit) /\ Falling(hits) /\ Drawn(hits, fused)
    BY <1>5, <1>6, KeptDrawn
  <1>8. Distinct(hits)
    BY <1>5, <1>7, DrawnDistinct
  <1> HIDE DEF hits
  <1>9. /\ search' \in Request /\ search'.at = "subs" /\ search'.limit = search.limit
        /\ search'.fts = search.fts /\ search'.vec = search.vec /\ search'.hits = hits
        /\ search'.parent = search.parent /\ search'.subs = search.subs
    BY <1>1, <1>2, <1>7 DEF Request, SearchStages
  <1>10. QED
    BY <1>1, <1>4, <1>7, <1>8, <1>9 DEF SearchInv

\* The parents of the subdocs, and the grouping.
LEMMA ParentStep ==
  ASSUME SearchInv, ParentSelect
  PROVE  SearchInv'
  <1> DEFINE ParentsOf(o) == {e[1] : e \in {r \in ToSet(SeenRefs) : r[2] = o}}
             found == {o \in search.subs : ParentsOf(o) # {}}
             stage == IF search.memos THEN "memos" ELSE "answered"
  <1>1. search \in Request /\ search.at = "parents" /\ search.limit \in Limits
    BY DEF SearchInv, ParentSelect
  <1>2. PICK parent \in [found -> Objects] :
          search' = [search EXCEPT !.at = stage, !.parent = parent, !.answer = Grouped(parent)]
    BY DEF ParentSelect
  <1>3. search.subs \subseteq Objects
    BY <1>1 DEF Request
  <1>4. found \subseteq search.subs
    OBVIOUS
  <1> HIDE DEF found
  <1>5. parent \in Parents /\ DOMAIN parent \subseteq search.subs
    BY <1>3, <1>4 DEF Parents
  <1> DEFINE a == Grouped(parent)
  <1>6. PageLimit \in Nat /\ PageLimit > 0 /\ (~search.memos => PageLimit = search.limit)
    BY <1>1, PageLimitIs
  <1>7. Falling(search.hits) /\ Distinct(search.hits) /\ IsInjective(search.fts) /\ IsInjective(search.vec)
    BY DEF SearchInv
  <1>8. a \in Seq(Entry) /\ Orderly(a, PageLimit) /\ KidsBelow(a) /\ Accounted(a, PageLimit, parent)
    BY <1>1, <1>5, <1>6, <1>7, GroupedIs
  <1> HIDE DEF a
  <1>9. search' = [search EXCEPT !.at = stage, !.parent = parent, !.answer = a]
    BY <1>2 DEF a
  <1>10. /\ search' \in Request /\ search'.at = stage /\ search'.limit = search.limit
         /\ search'.memos = search.memos
         /\ search'.fts = search.fts /\ search'.vec = search.vec /\ search'.hits = search.hits
         /\ search'.parent = parent /\ search'.subs = search.subs /\ search'.answer = a
    BY <1>1, <1>5, <1>8, <1>9 DEF Request, SearchStages
  <1>11. Apart(a)
    BY <1>8 DEF Orderly
  <1>12. ~search.memos => Orderly(a, search'.limit) /\ Accounted(a, search'.limit, parent)
    BY <1>6, <1>8, <1>10
  <1>13. HitIds' = HitIds
    BY <1>10 DEF HitIds
  <1>14. Accounted(a, search'.limit, parent) => Accounted(search.answer, search.limit, search.parent)'
    BY <1>10, <1>13 DEF Accounted, Grandchild
  <1>15. QED
    BY <1>1, <1>5, <1>7, <1>8, <1>10, <1>11, <1>12, <1>14 DEF SearchInv

\* The memos of the scope, with their age.
LEMMA MemoStep ==
  ASSUME SearchInv, MemoSelect
  PROVE  SearchInv'
  <1> DEFINE places == {n \in DOMAIN search.answer :
                         Visible(search.answer[n].id) /\ search.answer[n].id \in InScope}
             scoped == Kept(search.answer, places)
             aged == [n \in DOMAIN scoped |->
                       [scoped[n] EXCEPT !.score = @ * Freshness[scoped[n].id]]]
             a == Take(ByScore(aged), search.limit)
  <1>1. search \in Request /\ search.at = "memos" /\ search.limit \in Limits
    BY DEF SearchInv, MemoSelect
  <1>2. search' = [search EXCEPT !.at = "answered", !.answer = a]
    BY DEF MemoSelect
  <1>3. search.answer \in Seq(Entry) /\ Apart(search.answer)
    BY <1>1 DEF Request, SearchInv
  <1>4. places \in SUBSET DOMAIN search.answer
    OBVIOUS
  <1> HIDE DEF places
  <1>5. scoped \in Seq(Entry) /\ Drawn(scoped, search.answer)
    BY <1>3, <1>4, KeptDrawn
  <1>6. Apart(scoped)
    BY <1>3, <1>5, DrawnDistinct
  <1> HIDE DEF scoped
  <1>7. \A n \in DOMAIN scoped : scoped[n] \in Entry
    BY <1>5
  <1>8. \A n \in DOMAIN scoped :
          aged[n] \in Entry /\ aged[n].id = scoped[n].id /\ aged[n].kids = scoped[n].kids
    <2> SUFFICES ASSUME NEW n \in DOMAIN scoped
                 PROVE  /\ aged[n] \in Entry /\ aged[n].id = scoped[n].id
                        /\ aged[n].kids = scoped[n].kids
      OBVIOUS
    <2> DEFINE factor == Freshness[scoped[n].id]
    <2>1. scoped[n] \in Entry
      BY <1>7
    <2>2. scoped[n].score \in Nat /\ factor \in Nat
      BY <2>1, SearchAssumption DEF Entry
    <2>3. \A x, y \in Nat : x * y \in Nat
      OBVIOUS
    <2>4. scoped[n].score * factor \in Nat
      BY <2>2, <2>3
    <2>5. aged[n] = [scoped[n] EXCEPT !.score = scoped[n].score * factor]
      OBVIOUS
    <2> HIDE DEF factor, aged
    <2>6. QED
      BY <2>1, <2>4, <2>5 DEF Entry
  <1>9. aged \in Seq(Entry) /\ DOMAIN aged = DOMAIN scoped
    <2>1. DOMAIN aged = DOMAIN scoped /\ DOMAIN scoped = 1 .. Len(scoped) /\ Len(scoped) \in Nat
      BY <1>5
    <2>2. aged = [n \in DOMAIN scoped |-> aged[n]]
      OBVIOUS
    <2> HIDE DEF aged
    <2>3. QED
      BY <1>8, <2>1, <2>2
  <1> HIDE DEF aged
  <1>10. Apart(aged)
    BY <1>6, <1>8, <1>9 DEF Apart, Distinct
  <1>11. \A n \in DOMAIN aged : aged[n].score \in Nat
    BY <1>8, <1>9 DEF Entry
  <1>12. search.limit \in Nat /\ search.limit > 0
    BY <1>1, PageLimitIs
  <1>13. a \in Seq(Entry) /\ Len(a) <= search.limit /\ Falling(a) /\ Drawn(a, aged)
    BY <1>9, <1>11, <1>12, BestIs
  <1>14. Orderly(a, search.limit)
    BY <1>10, <1>13, DrawnDistinct DEF Orderly
  <1> HIDE DEF a
  <1>15. /\ search' \in Request /\ search'.at = "answered" /\ search'.limit = search.limit
         /\ search'.memos = search.memos
         /\ search'.fts = search.fts /\ search'.vec = search.vec /\ search'.hits = search.hits
         /\ search'.parent = search.parent /\ search'.subs = search.subs /\ search'.answer = a
    BY <1>1, <1>2, <1>13 DEF Request, SearchStages
  <1>16. search.memos = TRUE
    BY <1>1 DEF SearchInv
  <1>17. QED
    BY <1>1, <1>14, <1>15, <1>16 DEF SearchInv

LEMMA SearchInit_Inv == SearchInit => SearchInv
  <1> SUFFICES ASSUME SearchInit PROVE SearchInv
    OBVIOUS
  <1>1. search = NotSearching
    BY DEF SearchInit
  <1>2. <<>> \in Parents /\ DOMAIN <<>> = {}
    <2>1. <<>> \in [{} -> Objects] /\ {} \in SUBSET Objects
      OBVIOUS
    <2>2. QED
      BY <2>1 DEF Parents
  <1>3. <<>> \in Seq(Objects) /\ <<>> \in Seq(Hit) /\ <<>> \in Seq(Entry)
    OBVIOUS
  <1>4. /\ search.at = "idle" /\ search.limit = 1
        /\ search.fts = <<>> /\ search.vec = <<>> /\ search.hits = <<>>
        /\ search.parent = <<>> /\ search.subs = {}
    BY <1>1 DEF NotSearching
  <1>5. search \in Request
    BY <1>1, <1>2, <1>3 DEF NotSearching, Request, SearchStages
  <1>6. QED
    BY <1>2, <1>4, <1>5 DEF SearchInv, IsInjective, Falling, Distinct

LEMMA SearchInvStep == SearchInv /\ [Next]_vars => SearchInv'
  <1> SUFFICES ASSUME SearchInv, [Next]_vars PROVE SearchInv'
    OBVIOUS
  <1>1. CASE UNCHANGED search
    BY <1>1 DEF SearchInv, Accounted, Grandchild, HitIds
  <1>2. CASE SearchNext
    BY <1>2, RankingSteps, MetaStep, ParentStep, MemoStep DEF SearchNext, Look
  <1>3. QED
    BY <1>1, <1>2 DEF Next, vars

LEMMA SearchInvHolds == Spec => []SearchInv
  <1>1. Init => SearchInv
    BY SearchInit_Inv DEF Init
  <1>2. QED
    BY <1>1, SearchInvStep, PTL DEF Spec

\* A hit that was read and does not appear was cut by the limit, lost to two
\* better children of its parent, or has a parent that is itself a child:
\* hybridSearch drops nothing else, whatever is deleted, shared or attached
\* between its statements.
THEOREM NoHitIsLost == Spec => []OnlyKnownLosses
  <1>1. SearchInv => OnlyKnownLosses
    <2> SUFFICES ASSUME SearchInv, Answered, ~search.memos,
                        NEW h \in ToSet(search.hits), h.id \notin Placed
                 PROVE  \/ Len(search.answer) = search.limit /\ Last(search.answer).score >= h.score
                        \/ /\ h.id \in DOMAIN search.parent
                           /\ \/ \E a \in TopFor(search.parent[h.id]) :
                                     /\ Len(a.kids) = MaxChildHits
                                     /\ \A n \in DOMAIN a.kids : a.kids[n].score >= h.score
                              \/ /\ search.parent[h.id] \in DOMAIN search.parent
                                 /\ search.parent[search.parent[h.id]] \in HitIds
      BY DEF OnlyKnownLosses
    <2> DEFINE a == search.answer
    <2>1. PICK k \in DOMAIN search.hits : h = search.hits[k]
      BY DEF ToSet
    <2>2. Accounted(a, search.limit, search.parent)
      BY DEF SearchInv, Answered
    <2>3. \/ Shown(h, a) \/ CutOff(h, a, search.limit)
          \/ Crowded(h, a, search.parent) \/ Grandchild(h, search.parent)
      BY <2>1, <2>2 DEF Accounted
    <2>4. \A n \in DOMAIN a : a[n] \in ToSet(a)
      BY DEF ToSet
    <2> HIDE DEF a
    <2>5. CASE Shown(h, a)
      <3>1. PICK n \in DOMAIN a : a[n].id = h.id \/ \E i \in DOMAIN a[n].kids : a[n].kids[i].id = h.id
        BY <2>5 DEF Shown
      <3>2. CASE a[n].id = h.id
        <4>1. h.id \in IdsOf(a)
          BY <3>2 DEF IdsOf
        <4>2. QED
          BY <4>1 DEF Placed, a
      <3>3. CASE \E i \in DOMAIN a[n].kids : a[n].kids[i].id = h.id
        <4>1. h.id \in IdsOf(a[n].kids)
          BY <3>3 DEF IdsOf
        <4>2. h.id \in UNION {IdsOf(e.kids) : e \in ToSet(a)}
          BY <2>4, <4>1
        <4>3. QED
          BY <4>2 DEF Placed, a
      <3>4. QED
        BY <3>1, <3>2, <3>3
    <2>6. CASE CutOff(h, a, search.limit)
      BY <2>6 DEF CutOff, Last, a
    <2>7. CASE Crowded(h, a, search.parent)
      <3>1. PICK n \in DOMAIN a :
              /\ a[n].id = search.parent[h.id] /\ Len(a[n].kids) = MaxChildHits
              /\ \A i \in DOMAIN a[n].kids : a[n].kids[i].score >= h.score
        BY <2>7 DEF Crowded
      <3>2. a[n] \in TopFor(search.parent[h.id])
        BY <2>4, <3>1 DEF TopFor, a
      <3>3. h.id \in DOMAIN search.parent
        BY <2>7 DEF Crowded
      <3>4. QED
        BY <3>1, <3>2, <3>3
    <2>8. CASE Grandchild(h, search.parent)
      BY <2>8 DEF Grandchild
    <2>9. QED
      BY <2>3, <2>5, <2>6, <2>7, <2>8
  <1>2. QED
    BY <1>1, SearchInvHolds, PTL

\* Every answer is in the order of its scores and within the limit, shows no
\* object in two places, and ranks a parent no lower than the children under
\* it, unless memorize.search has aged the scores.
THEOREM AnswersStayRanked == Spec => []AnswersAreRanked
  <1>1. SearchInv => AnswersAreRanked
    <2> SUFFICES ASSUME SearchInv, Answered
                 PROVE  LET answer == search.answer
                        IN  /\ Len(answer) <= search.limit
                            /\ \A m, n \in DOMAIN answer : m < n =>
                                 /\ answer[m].score >= answer[n].score
                                 /\ answer[m].id # answer[n].id
                                 /\ IdsOf(answer[m].kids) \cap IdsOf(answer[n].kids) = {}
                            /\ IdsOf(answer) \cap UNION {IdsOf(answer[n].kids) : n \in DOMAIN answer} = {}
                            /\ ~search.memos => \A n \in DOMAIN answer : \A m \in DOMAIN answer[n].kids :
                                 answer[n].score >= answer[n].kids[m].score
      BY DEF AnswersAreRanked
    <2> DEFINE a == search.answer
    <2>1. Len(a) <= search.limit /\ Falling(a) /\ Apart(a) /\ (~search.memos => KidsBelow(a))
      BY DEF SearchInv, Answered, Orderly
    <2>2. DOMAIN a \subseteq Nat
      <3>1. a \in Seq(Entry)
        BY DEF SearchInv, Request
      <3>2. QED
        BY <3>1
    <2> HIDE DEF a
    <2>3. ASSUME NEW m \in DOMAIN a, NEW n \in DOMAIN a, m < n
          PROVE  /\ a[m].score >= a[n].score /\ a[m].id # a[n].id
                 /\ IdsOf(a[m].kids) \cap IdsOf(a[n].kids) = {}
      <3>1. m # n
        BY <2>2, <2>3
      <3>2. a[m].score >= a[n].score
        BY <2>1, <2>3 DEF Falling
      <3>3. a[m].id # a[n].id
        BY <2>1, <3>1 DEF Apart, Distinct
      <3>4. \A j \in DOMAIN a[m].kids, i \in DOMAIN a[n].kids : a[m].kids[j].id # a[n].kids[i].id
        BY <2>1, <3>1 DEF Apart
      <3>5. IdsOf(a[m].kids) \cap IdsOf(a[n].kids) = {}
        BY <3>4 DEF IdsOf
      <3>6. QED
        BY <3>2, <3>3, <3>5
    <2>4. IdsOf(a) \cap UNION {IdsOf(a[n].kids) : n \in DOMAIN a} = {}
      <3>1. \A m, n \in DOMAIN a : \A i \in DOMAIN a[n].kids : a[m].id # a[n].kids[i].id
        BY <2>1 DEF Apart
      <3>2. QED
        BY <3>1 DEF IdsOf
    <2>5. ~search.memos => \A n \in DOMAIN a : \A m \in DOMAIN a[n].kids : a[n].score >= a[n].kids[m].score
      BY <2>1 DEF KidsBelow
    <2>6. QED
      BY <2>1, <2>3, <2>4, <2>5 DEF a
  <1>2. QED
    BY <1>1, SearchInvHolds, PTL

-----------------------------------------------------------------------------
(* Sums *)

\* A set of natural numbers has a least one.
LEMMA LeastOne ==
  ASSUME NEW T \in SUBSET Nat, T # {}
  PROVE  \E x \in T : \A y \in T : x <= y
  <1> DEFINE R == {ss \in Nat \X Nat : ss[1] < ss[2]}
  <1>1. IsWellFoundedOn(R, Nat)
    BY NatLessThanWellFounded, Zenon DEF OpToRel
  <1>2. PICK x \in T : \A y \in T : ~(<<y, x>> \in R)
    <2> HIDE DEF R
    <2>1. QED
      BY <1>1, WFMin
  <1>3. ASSUME NEW y \in T PROVE x <= y
    <2>1. x \in Nat /\ y \in Nat
      OBVIOUS
    <2>2. y < x => <<y, x>> \in R
      BY <2>1
    <2> HIDE DEF R
    <2>3. QED
      BY <1>2, <2>1, <2>2
  <1>4. QED
    BY <1>3

\* S holds the sums of the first numbers of v, up to k.
Adds(S, v, k) == S = [n \in 0 .. k |-> IF n = 0 THEN 0 ELSE S[n - 1] + v[n]]

LEMMA AddsAt ==
  ASSUME NEW k \in Nat, NEW S, NEW v, Adds(S, v, k)
  PROVE  DOMAIN S = 0 .. k /\ S[0] = 0 /\ \A n \in 1 .. k : S[n] = S[n - 1] + v[n]
  <1> DEFINE F == [n \in 0 .. k |-> IF n = 0 THEN 0 ELSE S[n - 1] + v[n]]
  <1>1. S = F
    BY DEF Adds
  <1>2. DOMAIN F = 0 .. k /\ F[0] = 0 /\ \A n \in 1 .. k : F[n] = S[n - 1] + v[n]
    OBVIOUS
  <1> HIDE DEF F
  <1>3. QED
    BY <1>1, <1>2

\* The sums exist, by the least length for which they would not.
LEMMA SumsExist ==
  ASSUME NEW v, NEW len \in Nat
  PROVE  \E S : Adds(S, v, len)
  <1> DEFINE Bad == {k \in Nat : ~ \E S : Adds(S, v, k)}
  <1>1. SUFFICES ASSUME Bad # {} PROVE FALSE
    OBVIOUS
  <1>2. PICK k \in Bad : \A j \in Bad : k <= j
    BY <1>1, LeastOne
  <1>3. k \in Nat /\ ~ \E S : Adds(S, v, k)
    OBVIOUS
  <1>4. CASE k = 0
    <2> DEFINE Z == [n \in 0 .. 0 |-> 0]
    <2>1. Z = [n \in 0 .. 0 |-> IF n = 0 THEN 0 ELSE Z[n - 1] + v[n]]
      OBVIOUS
    <2> HIDE DEF Z
    <2>2. Adds(Z, v, 0)
      BY <2>1 DEF Adds
    <2>3. QED
      BY <1>3, <1>4, <2>2
  <1>5. CASE k > 0
    <2>1. k - 1 \in Nat /\ k - 1 \notin Bad
      BY <1>2, <1>3, <1>5
    <2>2. PICK S : Adds(S, v, k - 1)
      BY <2>1
    <2>3. DOMAIN S = 0 .. k - 1 /\ S[0] = 0 /\ \A n \in 1 .. k - 1 : S[n] = S[n - 1] + v[n]
      BY <2>1, <2>2, AddsAt
    <2> DEFINE N == [n \in 0 .. k |-> IF n = k THEN S[k - 1] + v[k] ELSE S[n]]
               M == [n \in 0 .. k |-> IF n = 0 THEN 0 ELSE N[n - 1] + v[n]]
    <2>4. ASSUME NEW n \in 0 .. k PROVE N[n] = M[n]
      <3>1. CASE n = 0
        BY <1>5, <2>3, <3>1
      <3>2. CASE n = k
        <4>1. N[n] = S[k - 1] + v[k] /\ M[n] = N[k - 1] + v[k] /\ k - 1 \in 0 .. k /\ k - 1 # k
          BY <1>3, <1>5, <3>2
        <4>2. N[k - 1] = S[k - 1]
          BY <4>1
        <4>3. QED
          BY <4>1, <4>2
      <3>3. CASE n # 0 /\ n # k
        <4>1. n \in 1 .. k - 1 /\ n - 1 \in 0 .. k /\ n - 1 # k
          BY <1>3, <3>3
        <4>2. N[n] = S[n] /\ N[n - 1] = S[n - 1] /\ M[n] = N[n - 1] + v[n]
          BY <3>3, <4>1
        <4>3. QED
          BY <2>3, <4>1, <4>2
      <3>4. QED
        BY <3>1, <3>2, <3>3
    <2>5. N = M
      <3>1. N = [n \in 0 .. k |-> N[n]] /\ M = [n \in 0 .. k |-> M[n]]
        OBVIOUS
      <3> HIDE DEF N, M
      <3>2. QED
        BY <2>4, <3>1
    <2>6. Adds(N, v, k)
      <3>1. M = [n \in 0 .. k |-> IF n = 0 THEN 0 ELSE N[n - 1] + v[n]]
        OBVIOUS
      <3> HIDE DEF N, M
      <3>2. QED
        BY <2>5, <3>1 DEF Adds
    <2>7. QED
      BY <1>3, <2>6
  <1>6. QED
    BY <1>3, <1>4, <1>5

LEMMA SumsAre ==
  ASSUME NEW v, Len(v) \in Nat
  PROVE  Sums(v)[0] = 0 /\ \A n \in 1 .. Len(v) : Sums(v)[n] = Sums(v)[n - 1] + v[n]
  <1>1. Sums(v) = CHOOSE S : Adds(S, v, Len(v))
    BY DEF Sums, Adds
  <1>2. Adds(Sums(v), v, Len(v))
    BY <1>1, SumsExist
  <1>3. QED
    BY <1>2, AddsAt

\* What is appended changes no sum before it.
LEMMA SumsOfPrefix ==
  ASSUME NEW v, NEW w, Len(v) \in Nat, Len(w) \in Nat, Len(v) <= Len(w),
         \A n \in 1 .. Len(v) : v[n] = w[n]
  PROVE  \A n \in 0 .. Len(v) : Sums(v)[n] = Sums(w)[n]
  <1> DEFINE Bad == {n \in 0 .. Len(v) : Sums(v)[n] # Sums(w)[n]}
  <1>1. SUFFICES ASSUME Bad # {} PROVE FALSE
    OBVIOUS
  <1>2. Bad \in SUBSET Nat
    OBVIOUS
  <1>3. PICK n \in Bad : \A m \in Bad : n <= m
    <2> HIDE DEF Bad
    <2>1. QED
      BY <1>1, <1>2, LeastOne
  <1>4. n \in 0 .. Len(v) /\ Sums(v)[n] # Sums(w)[n]
    OBVIOUS
  <1>5. Sums(v)[0] = 0 /\ \A k \in 1 .. Len(v) : Sums(v)[k] = Sums(v)[k - 1] + v[k]
    BY SumsAre
  <1>6. Sums(w)[0] = 0 /\ \A k \in 1 .. Len(w) : Sums(w)[k] = Sums(w)[k - 1] + w[k]
    BY SumsAre
  <1>7. n # 0
    BY <1>4, <1>5, <1>6
  <1>8. n \in 1 .. Len(v) /\ n \in 1 .. Len(w) /\ n - 1 \in 0 .. Len(v) /\ ~(n <= n - 1)
    BY <1>4, <1>7
  <1>9. n - 1 \notin Bad
    BY <1>3, <1>8
  <1>10. Sums(v)[n - 1] = Sums(w)[n - 1]
    BY <1>8, <1>9
  <1>11. QED
    BY <1>4, <1>5, <1>6, <1>8, <1>10

-----------------------------------------------------------------------------
(* The catalogue *)

LEMMA CatalogueStart == CatalogueInit => CatalogueTypeOK
  BY CatalogueAssumption DEF CatalogueInit, CatalogueTypeOK

LEMMA CatalogueStays ==
  ASSUME CatalogueTypeOK, [Next]_vars
  PROVE  CatalogueTypeOK'
  <1>1. /\ state \in [Objects -> States] /\ size \in [Objects -> Sizes]
        /\ refs \in Seq(Wanted) /\ IsInjective(refs) /\ changes \in 0 .. MaxChanges
        /\ touched \subseteq Objects
    BY DEF CatalogueTypeOK
  <1>2. MaxChanges \in Nat
    BY CatalogueAssumption
  <1>3. Change => changes' \in 0 .. MaxChanges
    BY <1>1, <1>2 DEF Change
  <1>4. ASSUME NEW o \in Objects, SoftDelete(o) \/ Restore(o) \/ Withdraw(o) \/ Share(o)
        PROVE  CatalogueTypeOK'
    BY <1>1, <1>3, <1>4
    DEF SoftDelete, Restore, Withdraw, Share, Become, CatalogueTypeOK, States
  <1>5. ASSUME NEW e \in Wanted, Attach(e) PROVE CatalogueTypeOK'
    <2>1. refs' = Append(refs, e) /\ e \notin ToSet(refs) /\ UNCHANGED <<state, size, touched>> /\ Change
      BY <1>5 DEF Attach
    <2>2. \A n \in DOMAIN refs : refs[n] # e
      BY <2>1 DEF ToSet
    <2>3. refs' \in Seq(Wanted) /\ Len(refs') = Len(refs) + 1 /\ Len(refs) \in Nat
      BY <1>1, <2>1
    <2>4. /\ DOMAIN refs' = 1 .. Len(refs) + 1 /\ DOMAIN refs = 1 .. Len(refs)
          /\ \A n \in DOMAIN refs : refs'[n] = refs[n]
          /\ refs'[Len(refs) + 1] = e
      BY <1>1, <2>1
    <2>5. IsInjective(refs')
      <3> SUFFICES ASSUME NEW m \in DOMAIN refs', NEW n \in DOMAIN refs', refs'[m] = refs'[n]
                   PROVE  m = n
        BY DEF IsInjective
      <3>1. m \in DOMAIN refs \/ m = Len(refs) + 1
        BY <2>3, <2>4
      <3>2. n \in DOMAIN refs \/ n = Len(refs) + 1
        BY <2>3, <2>4
      <3>3. QED
        BY <1>1, <2>2, <2>4, <3>1, <3>2 DEF IsInjective
    <2>6. QED
      BY <1>1, <1>3, <2>1, <2>3, <2>5 DEF CatalogueTypeOK
  <1>6. ASSUME NEW e \in Wanted, Detach(e) PROVE CatalogueTypeOK'
    <2> DEFINE places == {n \in DOMAIN refs : refs[n] # e}
    <2>1. refs' = Kept(refs, places) /\ UNCHANGED <<state, size, touched>> /\ Change
      BY <1>6 DEF Detach
    <2>2. Kept(refs, places) \in Seq(Wanted) /\ Drawn(Kept(refs, places), refs)
      BY <1>1, KeptDrawn
    <2> HIDE DEF places
    <2>3. IsInjective(refs')
      BY <1>1, <2>1, <2>2 DEF Drawn, IsInjective
    <2>4. QED
      BY <1>1, <1>3, <2>1, <2>2, <2>3 DEF CatalogueTypeOK
  <1>7. ASSUME NEW o \in Objects, NEW n \in Sizes, Rewrite(o, n) PROVE CatalogueTypeOK'
    BY <1>1, <1>3, <1>7 DEF Rewrite, CatalogueTypeOK
  <1>8. CASE UNCHANGED catalogue
    BY <1>1, <1>8 DEF catalogue, CatalogueTypeOK
  <1>9. CASE BundleNext
    <2>1. UNCHANGED <<state, size, refs, changes>>
      BY <1>9 DEF BundleNext, Peek
    <2>2. touched' = touched \/ touched' = {}
      BY <1>9 DEF BundleNext, Peek, BundleBegin, RefsSelect, SizesSelect, NextBody,
                  AttachmentSelect, ReadAttached
    <2>3. QED
      BY <1>1, <2>1, <2>2 DEF CatalogueTypeOK
  <1>10. SearchNext => UNCHANGED catalogue
    BY DEF SearchNext, Look
  <1>11. QED
    BY <1>4, <1>5, <1>6, <1>7, <1>8, <1>9, <1>10 DEF Next, Write, vars

-----------------------------------------------------------------------------
(* A bundle *)

Item == [id : Objects, what : {"body", "oversized", "budget", "none"}, bytes : Nat]
Reading ==
  [at : BundleStages, of : Objects \cup {CHOOSE o \in Objects : TRUE}, limit : Nat,
   all : Seq(Objects), sizeOf : UNION {[D -> Nat] : D \in SUBSET Objects},
   used : Nat, out : Seq(Item), truncated : BOOLEAN]

SizeKnown(b, o) == IF o \in DOMAIN b.sizeOf THEN b.sizeOf[o] ELSE 0

KnownOf(b) == [n \in DOMAIN b.out |-> IF b.out[n].what = "body" THEN SizeKnown(b, b.out[n].id) ELSE 0]

\* The sizes that were read hold for an object that nobody touched since, and
\* one without a size stays out of view.
SizesHold(b) ==
  b.at = "bodies" =>
    \A o \in Objects \ touched :
      IF o \in DOMAIN b.sizeOf THEN b.sizeOf[o] = size[o]
      ELSE o \in ToSet(b.all) => ~Visible(o)

\* A body that nobody touched is as long as was known.
BodiesAreKnown(b) ==
  DOMAIN b.sizeOf # {} =>
    \A n \in DOMAIN b.out :
      b.out[n].what = "body" /\ b.out[n].id \notin touched => b.out[n].bytes = SizeKnown(b, b.out[n].id)

\* What is used is the sum of the sizes known, and within the budget; a body
\* left out would not have fitted.
BudgetKept(b) ==
  /\ b.used <= Budget /\ b.used = Sums(KnownOf(b))[Len(b.out)]
  /\ \A n \in DOMAIN b.out : b.out[n].what = "budget" =>
       /\ b.out[n].id \in DOMAIN b.sizeOf
       /\ Sums(KnownOf(b))[n - 1] + b.sizeOf[b.out[n].id] > Budget

Staged(b) ==
  /\ b.at # "idle" => b.of \in Objects
  /\ b.at \in {"idle", "refs", "sizes", "attached"} => b.out = <<>> /\ b.used = 0 /\ b.sizeOf = <<>>
  /\ b.at = "refs" => b.limit > 0
  /\ b.at = "attached" => Len(b.all) = 1
  /\ b.at \in {"sizes", "bodies", "attached"} => Len(b.out) < Len(b.all)
  /\ Len(b.out) <= Len(b.all)

BundleInv ==
  /\ bundle \in Reading /\ Staged(bundle)
  /\ SizesHold(bundle) /\ BodiesAreKnown(bundle) /\ BudgetKept(bundle)

LEMMA NoneSummed == Sums(<<>>)[0] = 0
  <1>1. Len(<<>>) \in Nat
    OBVIOUS
  <1>2. QED
    BY <1>1, SumsAre

\* A bundle of which nothing is read yet keeps to its budget.
LEMMA NothingRead ==
  ASSUME NEW b, b.out = <<>>, b.used = 0
  PROVE  BudgetKept(b)
  <1>1. Budget \in Nat /\ Len(b.out) = 0 /\ DOMAIN b.out = {}
    BY BundleAssumption
  <1>2. KnownOf(b) = <<>>
    BY <1>1 DEF KnownOf
  <1>3. b.used = Sums(KnownOf(b))[Len(b.out)]
    BY <1>1, <1>2, NoneSummed
  <1>4. QED
    BY <1>1, <1>3 DEF BudgetKept

\* One more item: what it adds to the budget is its known size if it is a body.
LEMMA OneMore ==
  ASSUME NEW b \in Reading, NEW c \in Reading, NEW x \in Item, NEW used \in Nat,
         BudgetKept(b), c.out = Append(b.out, x), c.sizeOf = b.sizeOf, c.used = b.used + used,
         used = IF x.what = "body" THEN SizeKnown(b, x.id) ELSE 0,
         b.used + used <= Budget,
         x.what = "budget" => x.id \in DOMAIN b.sizeOf /\ b.used + b.sizeOf[x.id] > Budget
  PROVE  BudgetKept(c)
  <1> DEFINE v == KnownOf(b)
             w == KnownOf(c)
             k == Len(b.out)
  <1>1. b.out \in Seq(Item) /\ b.used \in Nat
    BY DEF Reading
  <1>2. k \in Nat /\ DOMAIN b.out = 1 .. k /\ DOMAIN c.out = 1 .. k + 1 /\ Len(c.out) = k + 1
        /\ (\A n \in 1 .. k : c.out[n] = b.out[n]) /\ c.out[k + 1] = x
    BY <1>1
  <1>3. v = [n \in 1 .. k |-> v[n]] /\ w = [n \in 1 .. k + 1 |-> w[n]]
    BY <1>2 DEF KnownOf
  <1>4. w[k + 1] = used
    BY <1>2 DEF KnownOf, SizeKnown
  <1>5. \A n \in 1 .. k : v[n] = w[n]
    BY <1>2 DEF KnownOf, SizeKnown
  <1> HIDE DEF v, w, k
  <1>6. Len(v) = k /\ Len(w) = k + 1
    BY <1>2, <1>3
  <1>7. \A n \in 0 .. k : Sums(v)[n] = Sums(w)[n]
    <2>1. Len(v) \in Nat /\ Len(w) \in Nat /\ Len(v) <= Len(w) /\ \A n \in 1 .. Len(v) : v[n] = w[n]
      BY <1>2, <1>5, <1>6
    <2>2. QED
      BY <1>6, <2>1, SumsOfPrefix
  <1>8. Sums(w)[k + 1] = Sums(w)[k] + used
    <2>1. Len(w) \in Nat /\ k + 1 \in 1 .. Len(w) /\ (k + 1) - 1 = k
      BY <1>2, <1>6
    <2>2. Sums(w)[k + 1] = Sums(w)[(k + 1) - 1] + w[k + 1]
      BY <2>1, SumsAre
    <2>3. QED
      BY <1>4, <2>1, <2>2
  <1>9. b.used = Sums(v)[k]
    BY DEF BudgetKept, v, k
  <1>10. c.used = Sums(w)[k + 1]
    BY <1>2, <1>7, <1>8, <1>9
  <1>11. ASSUME NEW n \in 1 .. k + 1, c.out[n].what = "budget"
         PROVE  /\ c.out[n].id \in DOMAIN c.sizeOf
                /\ Sums(w)[n - 1] + c.sizeOf[c.out[n].id] > Budget
    <2>1. CASE n \in 1 .. k
      <3>1. n - 1 \in 0 .. k
        BY <1>2, <2>1
      <3>2. c.out[n] = b.out[n] /\ n \in DOMAIN b.out
        BY <1>2, <2>1
      <3>3. /\ b.out[n].id \in DOMAIN b.sizeOf
            /\ Sums(v)[n - 1] + b.sizeOf[b.out[n].id] > Budget
        BY <1>11, <3>2 DEF BudgetKept, v
      <3>4. QED
        BY <1>7, <3>1, <3>2, <3>3
    <2>2. CASE n = k + 1
      <3>1. c.out[n] = x /\ n - 1 = k /\ k \in 0 .. k
        BY <1>2, <2>2
      <3>2. Sums(w)[n - 1] = b.used
        BY <1>7, <1>9, <3>1
      <3>3. QED
        BY <1>11, <3>1, <3>2
    <2>3. QED
      BY <1>2, <2>1, <2>2
  <1>12. QED
    BY <1>2, <1>10, <1>11 DEF BudgetKept, w

\* A step that reads no body.
LEMMA BundleLooks ==
  ASSUME CatalogueTypeOK, BundleInv,
         \/ \E o \in Objects, limit \in RefsLimits : BundleBegin(o, limit)
         \/ RefsSelect \/ SizesSelect \/ \E e \in Wanted : AttachmentSelect(e),
         UNCHANGED <<state, size, refs>>
  PROVE  BundleInv'
  <1>1. bundle \in Reading /\ Staged(bundle) /\ BudgetKept(bundle)
    BY DEF BundleInv
  <1>2. refs \in Seq(Wanted) /\ Wanted \subseteq Objects \X Objects
    BY CatalogueAssumption DEF CatalogueTypeOK
  <1>3. SeenRefs \in Seq(Wanted)
    <2>1. {n \in DOMAIN refs : Visible(refs[n][1]) /\ Visible(refs[n][2])} \in SUBSET DOMAIN refs
      OBVIOUS
    <2>2. QED
      BY <1>2, <2>1, KeptDrawn DEF SeenRefs
  <1>4. CASE \E o \in Objects, limit \in RefsLimits : BundleBegin(o, limit)
    <2>1. PICK o \in Objects, limit \in RefsLimits : BundleBegin(o, limit)
      BY <1>4
    <2> DEFINE stage == IF limit > 0 THEN "refs" ELSE "read"
    <2>2. /\ bundle.at = "idle" /\ limit \in Nat /\ stage \in {"refs", "read"}
          /\ bundle' = [bundle EXCEPT !.of = o, !.limit = limit, !.at = stage]
      BY <2>1, BundleAssumption DEF BundleBegin
    <2>3. stage = "refs" => limit > 0
      OBVIOUS
    <2> HIDE DEF stage
    <2>4. /\ bundle' \in Reading /\ bundle'.at = stage /\ bundle'.of = o /\ bundle'.limit = limit
          /\ bundle'.all = bundle.all /\ bundle'.out = bundle.out /\ bundle'.used = bundle.used
          /\ bundle'.sizeOf = bundle.sizeOf
      BY <1>1, <2>2 DEF Reading, BundleStages
    <2>5. bundle.out = <<>> /\ bundle.used = 0 /\ bundle.sizeOf = <<>> /\ Len(bundle.out) <= Len(bundle.all)
      BY <1>1, <2>2 DEF Staged
    <2>6. Staged(bundle')
      BY <2>2, <2>3, <2>4, <2>5 DEF Staged
    <2>7. BudgetKept(bundle')
      BY <2>4, <2>5, NothingRead
    <2>8. SizesHold(bundle)' /\ BodiesAreKnown(bundle)'
      BY <2>2, <2>4, <2>5 DEF SizesHold, BodiesAreKnown
    <2>9. QED
      BY <2>4, <2>6, <2>7, <2>8 DEF BundleInv
  <1>5. CASE RefsSelect
    <2> DEFINE seen == SeenRefs
               places == {n \in DOMAIN seen : seen[n][1] = bundle.of /\ state[seen[n][2]] # "deleted"}
               out == Kept(seen, places)
               rows == Reverse([n \in DOMAIN out |-> out[n][2]])
               k == IF Len(rows) < bundle.limit THEN Len(rows) ELSE bundle.limit
               stage == IF rows = <<>> THEN "read" ELSE "sizes"
               all == SubSeq(rows, 1, k)
               more == Len(rows) > bundle.limit
    <2>1. /\ bundle.at = "refs"
          /\ bundle' = [bundle EXCEPT !.at = stage, !.all = all, !.truncated = more]
      BY <1>5 DEF RefsSelect
    <2>2. places \in SUBSET DOMAIN seen
      OBVIOUS
    <2> HIDE DEF seen, places
    <2>3. out \in Seq(Wanted)
      BY <1>3, <2>2, KeptDrawn DEF seen
    <2> HIDE DEF out
    <2>4. \A n \in DOMAIN out : out[n][2] \in Objects
      BY <1>2, <2>3
    <2> DEFINE ends == [n \in DOMAIN out |-> out[n][2]]
    <2>5. ends \in Seq(Objects)
      BY <2>3, <2>4
    <2>6. rows = Reverse(ends)
      OBVIOUS
    <2> HIDE DEF ends, rows
    <2>7. rows \in Seq(Objects) /\ Len(rows) \in Nat
      BY <2>5, <2>6 DEF Reverse
    <2>8. bundle.limit \in Nat /\ bundle.limit > 0
      BY <1>1, <2>1 DEF Reading, Staged
    <2>9. k \in 0 .. Len(rows) /\ (rows # <<>> => k > 0)
      BY <2>7, <2>8
    <2> HIDE DEF k
    <2>10. all \in Seq(Objects) /\ Len(all) = k
      BY <2>7, <2>9, SubSeqProperties
    <2>11. more \in BOOLEAN /\ stage \in {"read", "sizes"} /\ (stage = "sizes" => k > 0)
      BY <2>9
    <2> HIDE DEF all, more, stage
    <2>12. /\ bundle' \in Reading /\ bundle'.at = stage /\ bundle'.of = bundle.of
           /\ bundle'.all = all /\ bundle'.out = bundle.out /\ bundle'.used = bundle.used
           /\ bundle'.sizeOf = bundle.sizeOf
      BY <1>1, <2>1, <2>10, <2>11 DEF Reading, BundleStages
    <2>13. bundle.out = <<>> /\ bundle.used = 0 /\ bundle.sizeOf = <<>> /\ Len(bundle.out) = 0
           /\ bundle.of \in Objects
      BY <1>1, <2>1 DEF Staged
    <2>14. Staged(bundle')
      BY <2>7, <2>9, <2>10, <2>11, <2>12, <2>13 DEF Staged
    <2>15. BudgetKept(bundle')
      BY <2>12, <2>13, NothingRead
    <2>16. SizesHold(bundle)' /\ BodiesAreKnown(bundle)'
      BY <2>11, <2>12, <2>13 DEF SizesHold, BodiesAreKnown
    <2>17. QED
      BY <2>12, <2>14, <2>15, <2>16 DEF BundleInv
  <1>6. CASE SizesSelect
    <2> DEFINE found == {t \in ToSet(bundle.all) : Visible(t)}
               sizes == [o \in found |-> size[o]]
    <2>1. /\ bundle.at = "sizes" /\ touched' = {}
          /\ bundle' = [bundle EXCEPT !.at = "bodies", !.sizeOf = sizes]
      BY <1>6 DEF SizesSelect
    <2>2. found \subseteq Objects
      <3>1. bundle.all \in Seq(Objects)
        BY <1>1 DEF Reading
      <3>2. QED
        BY <3>1 DEF ToSet
    <2>3. \A o \in Objects : size[o] \in Nat
      BY CatalogueAssumption DEF CatalogueTypeOK
    <2>4. sizes \in UNION {[D -> Nat] : D \in SUBSET Objects}
      <3>1. sizes \in [found -> Nat] /\ found \in SUBSET Objects
        BY <2>2, <2>3
      <3> HIDE DEF sizes, found
      <3>2. QED
        BY <3>1
    <2>5. DOMAIN sizes = found /\ \A o \in found : sizes[o] = size[o]
      OBVIOUS
    <2> HIDE DEF sizes
    <2>6. /\ bundle' \in Reading /\ bundle'.at = "bodies" /\ bundle'.of = bundle.of
          /\ bundle'.all = bundle.all /\ bundle'.out = bundle.out /\ bundle'.used = bundle.used
          /\ bundle'.sizeOf = sizes
      BY <1>1, <2>1, <2>4 DEF Reading, BundleStages
    <2>7. bundle.out = <<>> /\ bundle.used = 0 /\ Len(bundle.out) < Len(bundle.all)
          /\ Len(bundle.out) <= Len(bundle.all) /\ bundle.of \in Objects
      BY <1>1, <2>1 DEF Staged
    <2>8. Staged(bundle')
      BY <2>6, <2>7 DEF Staged
    <2>9. BudgetKept(bundle')
      BY <2>6, <2>7, NothingRead
    <2>10. SizesHold(bundle)'
      <3> SUFFICES ASSUME NEW o \in Objects
                   PROVE  IF o \in found THEN sizes[o] = size'[o]
                          ELSE o \in ToSet(bundle.all) => ~Visible(o)'
        BY <2>5, <2>6 DEF SizesHold
      <3>1. size' = size /\ (Visible(o)' <=> Visible(o))
        BY DEF Visible
      <3>2. QED
        BY <2>5, <3>1
    <2>11. BodiesAreKnown(bundle)'
      BY <2>6, <2>7 DEF BodiesAreKnown
    <2>12. QED
      BY <2>6, <2>8, <2>9, <2>10, <2>11 DEF BundleInv
  <1>7. CASE \E e \in Wanted : AttachmentSelect(e)
    <2>1. PICK e \in Wanted : AttachmentSelect(e)
      BY <1>7
    <2>2. /\ bundle.at = "idle"
          /\ bundle' = [bundle EXCEPT !.at = "attached", !.of = e[1], !.all = <<e[2]>>]
      BY <2>1 DEF AttachmentSelect
    <2>3. e[1] \in Objects /\ e[2] \in Objects
      BY <1>2
    <2>4. <<e[2]>> \in Seq(Objects) /\ Len(<<e[2]>>) = 1
      BY <2>3
    <2>5. /\ bundle' \in Reading /\ bundle'.at = "attached" /\ bundle'.of = e[1]
          /\ bundle'.all = <<e[2]>> /\ bundle'.out = bundle.out /\ bundle'.used = bundle.used
          /\ bundle'.sizeOf = bundle.sizeOf
      BY <1>1, <2>2, <2>3, <2>4 DEF Reading, BundleStages
    <2>6. bundle.out = <<>> /\ bundle.used = 0 /\ bundle.sizeOf = <<>> /\ Len(bundle.out) = 0
      BY <1>1, <2>2 DEF Staged
    <2>7. Staged(bundle')
      BY <2>3, <2>4, <2>5, <2>6 DEF Staged
    <2>8. BudgetKept(bundle')
      BY <2>5, <2>6, NothingRead
    <2>9. SizesHold(bundle)' /\ BodiesAreKnown(bundle)'
      BY <2>5, <2>6 DEF SizesHold, BodiesAreKnown
    <2>10. QED
      BY <2>5, <2>7, <2>8, <2>9 DEF BundleInv
  <1>8. QED
    BY <1>4, <1>5, <1>6, <1>7

\* One item is added to the bundle.
LEMMA EmbedIs ==
  ASSUME bundle \in Reading, Len(bundle.out) < Len(bundle.all),
         NEW what \in {"body", "oversized", "budget", "none"}, NEW bytes \in Nat, NEW used \in Nat,
         Embed(what, bytes, used)
  PROVE  LET x == [id |-> Next1, what |-> what, bytes |-> bytes]
         IN  /\ bundle' \in Reading /\ x \in Item /\ Next1 \in Objects /\ Next1 \in ToSet(bundle.all)
             /\ bundle'.out = Append(bundle.out, x) /\ Len(bundle'.out) = Len(bundle.out) + 1
             /\ Len(bundle.out) \in Nat /\ Len(bundle.all) \in Nat
             /\ bundle'.used = bundle.used + used /\ bundle'.sizeOf = bundle.sizeOf
             /\ bundle'.all = bundle.all /\ bundle'.of = bundle.of /\ bundle'.limit = bundle.limit
             /\ bundle'.at = IF Len(bundle.out) + 1 = Len(bundle.all) THEN "read" ELSE "bodies"
  <1> DEFINE x == [id |-> Next1, what |-> what, bytes |-> bytes]
             out == Append(bundle.out, x)
             stage == IF Len(bundle.out) + 1 = Len(bundle.all) THEN "read" ELSE "bodies"
             sum == bundle.used + used
  <1>1. bundle' = [bundle EXCEPT !.out = out, !.used = sum, !.at = stage]
    BY DEF Embed
  <1>2. bundle.out \in Seq(Item) /\ bundle.all \in Seq(Objects) /\ bundle.used \in Nat
    BY DEF Reading
  <1>3. Len(bundle.out) \in Nat /\ Len(bundle.all) \in Nat /\ Len(bundle.out) + 1 \in DOMAIN bundle.all
    BY <1>2
  <1>4. Next1 \in Objects
    BY <1>2, <1>3 DEF Next1
  <1>5. Next1 \in ToSet(bundle.all)
    BY <1>3 DEF Next1, ToSet
  <1>6. x \in Item
    BY <1>4 DEF Item
  <1> HIDE DEF x
  <1>7. out \in Seq(Item) /\ Len(out) = Len(bundle.out) + 1
    BY <1>2, <1>6
  <1>8. stage \in {"read", "bodies"} /\ sum \in Nat
    BY <1>2
  <1> HIDE DEF out, stage, sum
  <1>9. /\ bundle' \in Reading /\ bundle'.out = out /\ bundle'.used = sum /\ bundle'.at = stage
        /\ bundle'.sizeOf = bundle.sizeOf /\ bundle'.all = bundle.all /\ bundle'.of = bundle.of
        /\ bundle'.limit = bundle.limit
    BY <1>1, <1>7, <1>8 DEF Reading, BundleStages
  <1>10. QED
    BY <1>3, <1>4, <1>5, <1>6, <1>7, <1>9 DEF x, out, stage, sum

\* A step that reads a body, or finds why there is none.
LEMMA BodySteps ==
  ASSUME CatalogueTypeOK, BundleInv, NextBody \/ ReadAttached, UNCHANGED catalogue
  PROVE  BundleInv'
  <1>1. /\ bundle \in Reading /\ Staged(bundle) /\ SizesHold(bundle)
        /\ BodiesAreKnown(bundle) /\ BudgetKept(bundle)
    BY DEF BundleInv
  <1>2. size \in [Objects -> Nat] /\ UNCHANGED <<state, size, touched>>
    BY CatalogueAssumption DEF CatalogueTypeOK, catalogue
  <1>3. Budget \in Nat /\ PerRefMax \in Nat
    BY BundleAssumption
  <1>4. bundle.at \in {"bodies", "attached"} /\ Len(bundle.out) < Len(bundle.all) /\ bundle.of \in Objects
    BY <1>1 DEF NextBody, ReadAttached, Staged
  <1>5. bundle.out \in Seq(Item) /\ bundle.used \in Nat /\ bundle.used <= Budget
    BY <1>1 DEF Reading, BudgetKept
  <1>6. KnownSize(Next1) \in Nat /\ KnownSize(Next1) = SizeKnown(bundle, Next1)
    <2>1. bundle.sizeOf \in UNION {[D -> Nat] : D \in SUBSET Objects}
      BY <1>1 DEF Reading
    <2>2. PICK D \in SUBSET Objects : bundle.sizeOf \in [D -> Nat]
      BY <2>1
    <2>3. QED
      BY <2>2 DEF KnownSize, SizeKnown
  <1>7. Next1 \in Objects
    <2>1. bundle.all \in Seq(Objects)
      BY <1>1 DEF Reading
    <2>2. Len(bundle.out) + 1 \in DOMAIN bundle.all
      BY <1>4, <1>5, <2>1
    <2>3. QED
      BY <2>1, <2>2 DEF Next1
  <1>8. size[Next1] \in Nat
    BY <1>2, <1>7
  <1>9. ASSUME NEW what \in {"body", "oversized", "budget", "none"}, NEW bytes \in Nat, NEW used \in Nat,
               Embed(what, bytes, used), bundle.used + used <= Budget,
               used = IF what = "body" THEN SizeKnown(bundle, Next1) ELSE 0,
               what = "body" /\ DOMAIN bundle.sizeOf # {} /\ Next1 \notin touched =>
                 bytes = SizeKnown(bundle, Next1),
               what = "budget" =>
                 Next1 \in DOMAIN bundle.sizeOf /\ bundle.used + bundle.sizeOf[Next1] > Budget
        PROVE  BundleInv'
    <2> DEFINE x == [id |-> Next1, what |-> what, bytes |-> bytes]
    <2>1. /\ bundle' \in Reading /\ x \in Item /\ Next1 \in ToSet(bundle.all)
          /\ bundle'.out = Append(bundle.out, x) /\ Len(bundle'.out) = Len(bundle.out) + 1
          /\ Len(bundle.out) \in Nat /\ Len(bundle.all) \in Nat
          /\ bundle'.used = bundle.used + used /\ bundle'.sizeOf = bundle.sizeOf
          /\ bundle'.all = bundle.all /\ bundle'.of = bundle.of /\ bundle'.limit = bundle.limit
          /\ bundle'.at = IF Len(bundle.out) + 1 = Len(bundle.all) THEN "read" ELSE "bodies"
      BY <1>1, <1>4, <1>9, EmbedIs
    <2>2. x.id = Next1 /\ x.what = what /\ x.bytes = bytes
      OBVIOUS
    <2> HIDE DEF x
    <2>3. BudgetKept(bundle')
      BY <1>1, <1>9, <2>1, <2>2, OneMore
    <2>4. Staged(bundle')
      BY <1>4, <2>1 DEF Staged
    <2>5. SizesHold(bundle)'
      <3>1. bundle'.at = "bodies" => bundle.at = "bodies"
        <4>1. bundle.at = "attached" => Len(bundle.all) = 1 /\ Len(bundle.out) + 1 = 1
          BY <1>1 DEF Staged
        <4>2. QED
          BY <1>4, <2>1, <4>1
      <3>2. QED
        BY <1>1, <1>2, <2>1, <3>1 DEF SizesHold, Visible
    <2>6. BodiesAreKnown(bundle)'
      <3> SUFFICES ASSUME DOMAIN bundle.sizeOf # {}, NEW n \in DOMAIN bundle'.out,
                          bundle'.out[n].what = "body", bundle'.out[n].id \notin touched
                   PROVE  bundle'.out[n].bytes = SizeKnown(bundle', bundle'.out[n].id)
        BY <1>2, <2>1 DEF BodiesAreKnown
      <3>1. /\ DOMAIN bundle'.out = 1 .. Len(bundle.out) + 1 /\ DOMAIN bundle.out = 1 .. Len(bundle.out)
            /\ \A m \in 1 .. Len(bundle.out) : bundle'.out[m] = bundle.out[m]
            /\ bundle'.out[Len(bundle.out) + 1] = x
        BY <1>5, <2>1
      <3>2. n \in DOMAIN bundle.out \/ n = Len(bundle.out) + 1
        BY <2>1, <3>1
      <3>3. \A o : SizeKnown(bundle', o) = SizeKnown(bundle, o)
        BY <2>1 DEF SizeKnown
      <3>4. CASE n \in DOMAIN bundle.out
        BY <1>1, <3>1, <3>3, <3>4 DEF BodiesAreKnown
      <3>5. CASE n = Len(bundle.out) + 1
        BY <1>9, <2>2, <3>1, <3>3, <3>5
      <3>6. QED
        BY <3>2, <3>4, <3>5
    <2>7. QED
      BY <2>1, <2>3, <2>4, <2>5, <2>6 DEF BundleInv
  <1>10. CASE NextBody
    <2>1. bundle.at = "bodies"
      BY <1>10 DEF NextBody
    <2>2. CASE Embed("oversized", 0, 0)
      BY <1>5, <1>9, <2>2
    <2>3. CASE ~Fits(Next1) /\ Embed("budget", 0, 0)
      <3>1. ~(bundle.used + KnownSize(Next1) <= Budget)
        BY <2>3 DEF Fits
      <3>2. bundle.used + KnownSize(Next1) > Budget /\ KnownSize(Next1) # 0
        BY <1>3, <1>5, <1>6, <3>1
      <3>3. Next1 \in DOMAIN bundle.sizeOf /\ KnownSize(Next1) = bundle.sizeOf[Next1]
        BY <3>2 DEF KnownSize
      <3>4. QED
        BY <1>5, <1>9, <2>3, <3>2, <3>3
    <2>4. CASE Fits(Next1) /\ Readable(Next1) /\ Embed("body", size[Next1], KnownSize(Next1))
      <3>1. bundle.used + KnownSize(Next1) <= Budget
        BY <2>4 DEF Fits
      <3>2. Visible(Next1)
        BY <2>4 DEF Readable
      <3>3. Next1 \in ToSet(bundle.all)
        BY <1>1, <1>4, <1>6, <1>8, <2>4, EmbedIs
      <3>4. Next1 \notin touched => size[Next1] = SizeKnown(bundle, Next1)
        BY <1>1, <1>7, <2>1, <3>2, <3>3 DEF SizesHold, SizeKnown
      <3>5. QED
        BY <1>6, <1>8, <1>9, <2>4, <3>1, <3>4
    <2>5. CASE Embed("none", 0, 0)
      BY <1>5, <1>9, <2>5
    <2>6. QED
      BY <1>10, <2>2, <2>3, <2>4, <2>5 DEF NextBody
  <1>11. CASE ReadAttached
    <2>1. bundle.at = "attached" /\ bundle.sizeOf = <<>> /\ DOMAIN bundle.sizeOf = {}
      <3>1. bundle.at = "attached" /\ bundle.sizeOf = <<>>
        BY <1>1, <1>11 DEF ReadAttached, Staged
      <3>2. QED
        BY <3>1
    <2>2. CASE Embed("body", size[Next1], 0)
      <3>1. SizeKnown(bundle, Next1) = 0
        BY <2>1 DEF SizeKnown
      <3>2. QED
        BY <1>5, <1>8, <1>9, <2>1, <2>2, <3>1
    <2>3. CASE bundle' = [bundle EXCEPT !.at = "read"]
      <3>1. /\ bundle' \in Reading /\ bundle'.at = "read" /\ bundle'.of = bundle.of
            /\ bundle'.all = bundle.all /\ bundle'.out = bundle.out /\ bundle'.used = bundle.used
            /\ bundle'.sizeOf = bundle.sizeOf
        BY <1>1, <2>3 DEF Reading, BundleStages
      <3>2. Staged(bundle')
        BY <1>1, <1>4, <3>1 DEF Staged
      <3>3. bundle.out = <<>> /\ bundle.used = 0
        BY <1>1, <2>1 DEF Staged
      <3>4. BudgetKept(bundle')
        BY <3>1, <3>3, NothingRead
      <3>5. SizesHold(bundle)' /\ BodiesAreKnown(bundle)'
        BY <2>1, <3>1 DEF SizesHold, BodiesAreKnown
      <3>6. QED
        BY <3>1, <3>2, <3>4, <3>5 DEF BundleInv
    <2>4. QED
      BY <1>11, <2>2, <2>3 DEF ReadAttached
  <1>12. QED
    BY <1>10, <1>11

\* A write between two statements.
LEMMA WriteSteps ==
  ASSUME CatalogueTypeOK, BundleInv, UNCHANGED bundle,
         \/ Write \/ UNCHANGED catalogue
         \/ \E o \in Objects, n \in Sizes : Rewrite(o, n)
  PROVE  BundleInv'
  <1>1. bundle' = bundle /\ bundle \in Reading /\ Staged(bundle) /\ BudgetKept(bundle)
    BY DEF BundleInv
  <1>2. /\ touched \subseteq touched'
        /\ \A o \in Objects \ touched' : size'[o] = size[o] /\ (~Visible(o) => ~Visible(o)')
    <2>1. size \in [Objects -> Sizes] /\ state \in [Objects -> States]
      BY DEF CatalogueTypeOK
    <2>2. CASE \E o \in Objects : SoftDelete(o) \/ Restore(o) \/ Withdraw(o)
      BY <2>1, <2>2 DEF SoftDelete, Restore, Withdraw, Become, Visible
    <2>3. CASE \E o \in Objects : Share(o)
      BY <2>1, <2>3 DEF Share, Become, Visible
    <2>4. CASE \E e \in Wanted : Attach(e) \/ Detach(e)
      BY <2>4 DEF Attach, Detach, Visible
    <2>5. CASE \E o \in Objects, n \in Sizes : Rewrite(o, n)
      BY <2>1, <2>5 DEF Rewrite, Visible
    <2>6. CASE UNCHANGED catalogue
      BY <2>6 DEF catalogue, Visible
    <2>7. QED
      BY <2>2, <2>3, <2>4, <2>5, <2>6 DEF Write
  <1>3. SizesHold(bundle)'
    BY <1>1, <1>2 DEF BundleInv, SizesHold
  <1>4. BodiesAreKnown(bundle)'
    BY <1>1, <1>2 DEF BundleInv, BodiesAreKnown
  <1>5. QED
    BY <1>1, <1>3, <1>4 DEF BundleInv

LEMMA BundleStart == BundleInit => BundleInv
  <1> SUFFICES ASSUME BundleInit PROVE BundleInv
    OBVIOUS
  <1>1. bundle = NoBundle
    BY DEF BundleInit
  <1>2. <<>> \in UNION {[D -> Nat] : D \in SUBSET Objects} /\ DOMAIN <<>> = {}
    <2>1. <<>> \in [{} -> Nat] /\ {} \in SUBSET Objects
      OBVIOUS
    <2>2. QED
      BY <2>1
  <1>3. <<>> \in Seq(Objects) /\ <<>> \in Seq(Item) /\ Len(<<>>) = 0
    OBVIOUS
  <1>4. bundle \in Reading
    BY <1>1, <1>2, <1>3 DEF NoBundle, Reading, BundleStages
  <1>5. bundle.at = "idle" /\ bundle.out = <<>> /\ bundle.all = <<>> /\ bundle.used = 0 /\ bundle.sizeOf = <<>>
    BY <1>1 DEF NoBundle
  <1>6. Staged(bundle)
    BY <1>3, <1>5 DEF Staged
  <1>7. BudgetKept(bundle)
    BY <1>5, NothingRead
  <1>8. SizesHold(bundle) /\ BodiesAreKnown(bundle)
    BY <1>2, <1>5 DEF SizesHold, BodiesAreKnown
  <1>9. QED
    BY <1>4, <1>6, <1>7, <1>8 DEF BundleInv

\* The invariant of both requests.
ReadsInv == CatalogueTypeOK /\ SearchInv /\ BundleInv

LEMMA ReadsInvHolds == Spec => []ReadsInv
  <1>1. Init => ReadsInv
    BY CatalogueStart, SearchInit_Inv, BundleStart DEF Init, ReadsInv
  <1>2. ReadsInv /\ [Next]_vars => ReadsInv'
    <2> SUFFICES ASSUME ReadsInv, [Next]_vars PROVE ReadsInv'
      OBVIOUS
    <2>1. CatalogueTypeOK /\ SearchInv /\ BundleInv
      BY DEF ReadsInv
    <2>2. CatalogueTypeOK'
      BY <2>1, CatalogueStays
    <2>3. SearchInv'
      BY <2>1, SearchInvStep
    <2>4. BundleInv'
      <3>1. CASE UNCHANGED vars
        BY <2>1, <3>1, WriteSteps DEF vars
      <3>2. CASE SearchNext /\ UNCHANGED bundle
        BY <2>1, <3>2, WriteSteps DEF SearchNext, Look
      <3>3. CASE BundleNext
        <4>1. UNCHANGED <<state, size, refs, changes>>
          BY <3>3 DEF BundleNext, Peek
        <4>2. CASE \/ \E o \in Objects, limit \in RefsLimits : BundleBegin(o, limit)
                   \/ RefsSelect \/ SizesSelect \/ \E e \in Wanted : AttachmentSelect(e)
          BY <2>1, <4>1, <4>2, BundleLooks
        <4>3. CASE NextBody \/ ReadAttached
          <5>1. UNCHANGED catalogue
            BY <4>1, <4>3 DEF NextBody, ReadAttached, catalogue
          <5>2. QED
            BY <2>1, <4>3, <5>1, BodySteps
        <4>4. QED
          BY <3>3, <4>2, <4>3 DEF BundleNext, Peek
      <3>4. CASE Write /\ UNCHANGED <<search, bundle>>
        BY <2>1, <3>4, WriteSteps
      <3>5. CASE (\E o \in Objects, n \in Sizes : Rewrite(o, n)) /\ UNCHANGED <<search, bundle>>
        BY <2>1, <3>5, WriteSteps
      <3>6. QED
        BY <3>1, <3>2, <3>3, <3>4, <3>5 DEF Next
    <2>5. QED
      BY <2>2, <2>3, <2>4 DEF ReadsInv
  <1>3. QED
    BY <1>1, <1>2, PTL DEF Spec

\* The catalogue, the search and the bundle keep their types, whatever writes
\* commit between the statements of hybridSearch and expandOutgoingRefBodies.
THEOREM ReadsTypes == Spec => []TypeOK
  <1>1. ReadsInv => TypeOK
    <2> SUFFICES ASSUME ReadsInv PROVE TypeOK
      OBVIOUS
    <2>1. search \in Request /\ bundle \in Reading /\ Staged(bundle)
      BY DEF ReadsInv, SearchInv, BundleInv
    <2>2. search.hits \in Seq(Hit) /\ search.answer \in Seq(Entry)
      BY <2>1 DEF Request
    <2>3. (\A n \in DOMAIN search.hits : search.hits[n] \in Hit)
          /\ \A n \in DOMAIN search.answer : search.answer[n] \in Entry
      BY <2>2
    <2>4. IdsOf(search.hits) \cup IdsOf(search.answer) \subseteq Objects
      BY <2>3 DEF IdsOf, Hit, Entry
    <2>5. search.limit \in Limits \cup {1}
      <3>1. search.at = "idle" => search.limit = 1
        BY DEF ReadsInv, SearchInv
      <3>2. QED
        BY <3>1 DEF ReadsInv, SearchInv
    <2>6. SearchTypeOK
      BY <2>1, <2>4, <2>5 DEF SearchTypeOK, ReadsInv, SearchInv, Request
    <2>7. ToSet(bundle.all) \subseteq Objects
      <3>1. bundle.all \in Seq(Objects)
        BY <2>1 DEF Reading
      <3>2. QED
        BY <3>1 DEF ToSet
    <2>8. DOMAIN bundle.sizeOf \subseteq Objects
      <3>1. bundle.sizeOf \in UNION {[D -> Nat] : D \in SUBSET Objects}
        BY <2>1 DEF Reading
      <3>2. PICK D \in SUBSET Objects : bundle.sizeOf \in [D -> Nat]
        BY <3>1
      <3>3. QED
        BY <3>2
    <2>9. BundleTypeOK
      BY <2>1, <2>7, <2>8 DEF BundleTypeOK, Reading, Staged
    <2>10. QED
      BY <2>6, <2>9 DEF TypeOK, ReadsInv
  <1>2. QED
    BY <1>1, ReadsInvHolds, PTL

\* The bodies that expandOutgoingRefBodies embeds exceed the budget only if one
\* of them was rewritten or shared after the sizes were read, and a body left
\* out for the budget would not have fitted after those before it.
THEOREM BudgetsAreKept == Spec => []OverBudgetOnlyIfTouched
  <1>1. BundleInv => OverBudgetOnlyIfTouched
    <2> SUFFICES ASSUME BundleInv, bundle.at = "read", DOMAIN bundle.sizeOf # {}
                 PROVE  /\ Sums(Bytes)[Len(bundle.out)] > Budget =>
                             touched \cap {bundle.out[n].id : n \in Embedded} # {}
                        /\ \A n \in DOMAIN bundle.out : bundle.out[n].what = "budget" =>
                             Sums(Known)[n - 1] + bundle.sizeOf[bundle.out[n].id] > Budget
      BY DEF OverBudgetOnlyIfTouched
    <2>1. BudgetKept(bundle) /\ BodiesAreKnown(bundle) /\ bundle.used \in Nat /\ Budget \in Nat
      BY BundleAssumption DEF BundleInv, Reading
    <2>2. Known = KnownOf(bundle)
      BY DEF Known, KnownOf, KnownSize, SizeKnown, Embedded
    <2>3. ASSUME touched \cap {bundle.out[n].id : n \in Embedded} = {} PROVE Bytes = Known
      <3>1. \A n \in Embedded : /\ n \in DOMAIN bundle.out /\ bundle.out[n].what = "body"
                                /\ bundle.out[n].id \notin touched
        BY <2>3 DEF Embedded
      <3>2. \A n \in Embedded : bundle.out[n].bytes = KnownSize(bundle.out[n].id)
        BY <2>1, <3>1 DEF BodiesAreKnown, KnownSize, SizeKnown
      <3>3. QED
        BY <3>2 DEF Bytes, Known
    <2>4. bundle.used = Sums(Known)[Len(bundle.out)] /\ ~(bundle.used > Budget)
      BY <2>1, <2>2 DEF BudgetKept
    <2>5. \A n \in DOMAIN bundle.out : bundle.out[n].what = "budget" =>
            Sums(Known)[n - 1] + bundle.sizeOf[bundle.out[n].id] > Budget
      BY <2>1, <2>2 DEF BudgetKept
    <2>6. QED
      BY <2>3, <2>4, <2>5
  <1>2. QED
    BY <1>1, ReadsInvHolds, PTL DEF ReadsInv
=============================================================================
