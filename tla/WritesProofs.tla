---------------------------- MODULE WritesProofs -----------------------------
(***************************************************************************)
(* The requests that write: creating objects and editing one.              *)
(*                                                                         *)
(* Creates, for every finite set of requests, every assignment of keys to  *)
(* them and every limit.  The inductive invariant adds to the properties   *)
(* what a request's stage says about its object (StagesTell), that an      *)
(* answer is stored by a request that has answered (RecordsAreAnswers),    *)
(* and that the calls of the running window are the ones the quota row     *)
(* counts (WindowIsCounted).                                               *)
(*                                                                         *)
(* Edits of one list, for every number of calls, texts, items and          *)
(* versions, and every size from which a body is put into the bucket.      *)
(* LInv is inductive.  Its heart is that the revisions are exactly the     *)
(* versions below the current one: a call whose base is not a revision yet *)
(* has selected the current row, although it took no lock.  LargeAreHeld   *)
(* says it of the bucket: the ciphertext of a large version is there, or   *)
(* something has been put over it.                                         *)
(***************************************************************************)
EXTENDS Creates, Lists, FiniteSetTheorems, TLAPS

-----------------------------------------------------------------------------
(* Creating objects *)


StagesTell ==
  \A r \in Requests :
    /\ req[r].at \in {"created", "answered"} => r \in objects \ lost
    /\ r \in lost => req[r].at \in {"releasing", "failed"}

RecordsAreAnswers ==
  \A k \in Keys : record[k] # NoRecord =>
    /\ record[k].by \in Requests
    /\ req[record[k].by].at = "answered"
    /\ KeyOf[record[k].by] = k

InWindow(w) == {r \in Requests : req[r].window = w}

WindowIsCounted ==
  /\ \A r \in Requests : req[r].window <= quota.resetAt
  /\ Cardinality(InWindow(quota.resetAt)) <= quota.calls
  /\ \A w \in Nat \ {0} : Cardinality(InWindow(w)) <= EmbedCap

CInv ==
  /\ CreatesTypeOK
  /\ QuotaCoversObjects
  /\ StagesTell
  /\ RecordsAreAnswers
  /\ WindowIsCounted

-----------------------------------------------------------------------------

LEMMA SetsAreFinite ==
  ASSUME CreatesTypeOK
  PROVE  /\ IsFiniteSet(Charged) /\ Cardinality(Charged) \in Nat
         /\ IsFiniteSet(objects \ lost) /\ Cardinality(objects \ lost) \in Nat
         /\ \A w : IsFiniteSet(InWindow(w)) /\ Cardinality(InWindow(w)) \in Nat
  <1>1. \A S \in SUBSET Requests : IsFiniteSet(S) /\ Cardinality(S) \in Nat
    BY RequestsAssumption, FS_Subset, FS_CardinalityType
  <1>2. Charged \in SUBSET Requests /\ objects \ lost \in SUBSET Requests
    BY DEF CreatesTypeOK, Charged
  <1>3. \A w : InWindow(w) \in SUBSET Requests
    BY DEF InWindow
  <1>4. QED
    BY <1>1, <1>2, <1>3

LEMMA CreatesStart == CreatesInit => CInv
  <1> SUFFICES ASSUME CreatesInit PROVE CInv
    OBVIOUS
  <1>1. CreatesTypeOK
    BY LimitsAssumption DEF CreatesInit, CreatesTypeOK, Request, Stages, Record, NoRecord
  <1>2. Charged = {} /\ objects \ lost = {}
    BY DEF CreatesInit, Charged
  <1>3. InWindow(Day) = {}
    BY LimitsAssumption DEF CreatesInit, InWindow
  <1>4. \A w \in Nat \ {0} : InWindow(w) = {}
    BY DEF CreatesInit, InWindow
  <1>5. Cardinality({}) = 0
    BY FS_EmptySet
  <1>6. QuotaCoversObjects
    BY <1>2, <1>5 DEF CreatesInit, QuotaCoversObjects
  <1>7. WindowIsCounted
    <2>1. quota.resetAt = Day /\ quota.calls = 0 /\ \A r \in Requests : req[r].window = 0
      BY DEF CreatesInit
    <2>2. Cardinality(InWindow(quota.resetAt)) <= quota.calls
      BY <1>3, <1>5, <2>1
    <2>3. \A w \in Nat \ {0} : Cardinality(InWindow(w)) <= EmbedCap
      BY <1>4, <1>5, LimitsAssumption
    <2>4. QED
      BY <2>1, <2>2, <2>3, LimitsAssumption DEF WindowIsCounted
  <1>8. QED
    BY <1>1, <1>6, <1>7 DEF CreatesInit, CInv, StagesTell, RecordsAreAnswers

\* What a step does to one request's record, and to no other's.
LEMMA Moved ==
  ASSUME CreatesTypeOK, NEW r \in Requests, NEW stage \in Stages, req' = At(r, stage)
  PROVE  /\ req' \in [Requests -> Request]
         /\ req'[r].at = stage
         /\ \A q \in Requests : q # r => req'[q] = req[q]
         /\ \A q \in Requests : req'[q].window = req[q].window
  BY DEF CreatesTypeOK, At, Request

LEMMA StepKeepsTypes ==
  ASSUME CreatesTypeOK, QuotaCoversObjects, CreatesNext
  PROVE  CreatesTypeOK'
  <1> USE LimitsAssumption
  <1>1. ASSUME NEW r \in Requests, Replay(r) \/ Execute(r)
        PROVE  CreatesTypeOK'
    BY <1>1, Moved, Zenon DEF Replay, Execute, CreatesTypeOK, Stages
  <1>2. ASSUME NEW r \in Requests, ChargeObject(r)
        PROVE  CreatesTypeOK'
    <2>1. quota' \in [used : 0..MaxObjects, calls : 0..EmbedCap, resetAt : Nat]
      BY <1>2 DEF ChargeObject, CreatesTypeOK
    <2>2. req' \in [Requests -> Request]
      BY <1>2, Moved DEF ChargeObject, Stages
    <2>3. QED
      BY <1>2, <2>1, <2>2 DEF ChargeObject, CreatesTypeOK
  <1>3. ASSUME NEW r \in Requests, SkipEmbed(r) \/ EmbedNoReset(r) \/ CreateFails(r) \/ Fails(r)
        PROVE  CreatesTypeOK'
    <2>1. req' \in [Requests -> Request]
      BY <1>3, Moved DEF SkipEmbed, EmbedNoReset, CreateFails, Fails, Stages
    <2>2. QED
      BY <1>3, <2>1 DEF SkipEmbed, EmbedNoReset, CreateFails, Fails, CreatesTypeOK
  <1>4. ASSUME NEW r \in Requests, EmbedStart(r)
        PROVE  CreatesTypeOK'
    BY <1>4 DEF EmbedStart, CreatesTypeOK, Request, Stages
  <1>5. ASSUME NEW r \in Requests, EmbedReset(r)
        PROVE  CreatesTypeOK'
    <2>1. req[r].clock + Day \in Nat
      BY DEF CreatesTypeOK, Request
    <2>2. req' \in [Requests -> Request]
      BY <1>5, <2>1 DEF EmbedReset, CreatesTypeOK, Request, Stages
    <2>3. quota' \in [used : 0..MaxObjects, calls : 0..EmbedCap, resetAt : Nat]
      <3>1. 1 \in 0..EmbedCap /\ quota.used \in 0..MaxObjects
        BY DEF CreatesTypeOK
      <3>2. quota' = [used |-> quota.used, calls |-> 1, resetAt |-> req[r].clock + Day]
        BY <1>5 DEF EmbedReset, CreatesTypeOK
      <3>3. QED
        BY <2>1, <3>1, <3>2
    <2>4. QED
      BY <1>5, <2>2, <2>3 DEF EmbedReset, CreatesTypeOK
  <1>6. ASSUME NEW r \in Requests, EmbedCount(r)
        PROVE  CreatesTypeOK'
    <2>1. req' \in [Requests -> Request]
      BY <1>6 DEF EmbedCount, CreatesTypeOK, Request, Stages
    <2>2. quota' \in [used : 0..MaxObjects, calls : 0..EmbedCap, resetAt : Nat]
      BY <1>6 DEF EmbedCount, CreatesTypeOK
    <2>3. QED
      BY <1>6, <2>1, <2>2 DEF EmbedCount, CreatesTypeOK
  <1>7. ASSUME NEW r \in Requests, Create(r) \/ CreateUnanswered(r)
        PROVE  CreatesTypeOK'
    <2>1. req' \in [Requests -> Request]
      BY <1>7, Moved DEF Create, CreateUnanswered, Stages
    <2>2. QED
      BY <1>7, <2>1 DEF Create, CreateUnanswered, CreatesTypeOK
  <1>8. ASSUME NEW r \in Requests, Release(r)
        PROVE  CreatesTypeOK'
    <2>1. quota' \in [used : 0..MaxObjects, calls : 0..EmbedCap, resetAt : Nat]
      BY <1>8 DEF Release, CreatesTypeOK
    <2>2. req' \in [Requests -> Request]
      BY <1>8, Moved DEF Release, Stages
    <2>3. QED
      BY <1>8, <2>1, <2>2 DEF Release, CreatesTypeOK
  <1>9. ASSUME NEW r \in Requests, StoreRecord(r) \/ StoreFails(r)
        PROVE  CreatesTypeOK'
    <2>1. req' \in [Requests -> Request]
      BY <1>9, Moved DEF StoreRecord, StoreFails, Stages
    <2>2. now + Day \in Nat
      BY DEF CreatesTypeOK
    <2>3. record' \in [Keys -> Record]
      BY <1>9, <2>2, KeyAssumption DEF StoreRecord, StoreFails, CreatesTypeOK, Record
    <2>4. QED
      BY <1>9, <2>1, <2>3 DEF StoreRecord, StoreFails, CreatesTypeOK
  <1>10. CASE GcIdempotency
    BY <1>10 DEF GcIdempotency, CreatesTypeOK, Record, NoRecord
  <1>11. CASE Tick
    BY <1>11 DEF Tick, CreatesTypeOK
  <1>12. QED
    BY <1>1, <1>2, <1>3, <1>4, <1>5, <1>6, <1>7, <1>8, <1>9, <1>10, <1>11 DEF CreatesNext

\* A set within another one and one more element has at most one more.
LEMMA OneMore ==
  ASSUME NEW S, IsFiniteSet(S), NEW x, NEW T, T \subseteq S \cup {x}
  PROVE  Cardinality(T) <= Cardinality(S) + 1
  <1>1. IsFiniteSet(S \cup {x}) /\ T \in SUBSET (S \cup {x})
    BY FS_AddElement
  <1>2. /\ Cardinality(S) \in Nat /\ Cardinality(S \cup {x}) \in Nat
        /\ IsFiniteSet(T) /\ Cardinality(T) <= Cardinality(S \cup {x})
    BY <1>1, FS_Subset, FS_CardinalityType
  <1>3. Cardinality(T) \in Nat
    BY <1>2, FS_CardinalityType
  <1>4. Cardinality(S \cup {x}) = IF x \in S THEN Cardinality(S) ELSE Cardinality(S) + 1
    BY FS_AddElement
  <1>5. QED
    BY <1>2, <1>3, <1>4

\* The sum that the quota covers, whatever moves between its parts.
LEMMA StepKeepsCharges ==
  ASSUME CreatesTypeOK, CreatesTypeOK', QuotaCoversObjects, CreatesNext
  PROVE  QuotaCoversObjects'
  <1> DEFINE stored == objects \ lost
  <1>1. /\ IsFiniteSet(Charged) /\ Cardinality(Charged) \in Nat
        /\ IsFiniteSet(stored) /\ Cardinality(stored) \in Nat
        /\ Cardinality(Charged') \in Nat /\ Cardinality(stored') \in Nat
        /\ quota.used \in Nat /\ quota'.used \in Nat
    <2>1. /\ Cardinality(Charged') \in Nat /\ Cardinality(stored') \in Nat
      <3>1. Charged' \in SUBSET Requests /\ stored' \in SUBSET Requests
        BY DEF CreatesTypeOK, Charged
      <3>2. QED
        BY <3>1, RequestsAssumption, FS_Subset, FS_CardinalityType
    <2>2. quota.used \in Nat /\ quota'.used \in Nat
      BY LimitsAssumption DEF CreatesTypeOK
    <2>3. QED
      BY SetsAreFinite, <2>1, <2>2
  <1>2. Cardinality(stored) + Cardinality(Charged) <= quota.used
    BY DEF QuotaCoversObjects
  <1>3. ASSUME Charged' \subseteq Charged, stored' \subseteq stored, quota'.used >= quota.used
        PROVE  QuotaCoversObjects'
    <2>1. Cardinality(Charged') <= Cardinality(Charged) /\ Cardinality(stored') <= Cardinality(stored)
      BY <1>1, <1>3, FS_Subset
    <2> HIDE DEF stored
    <2>2. Cardinality(stored') + Cardinality(Charged') <= quota'.used
      BY <1>1, <1>2, <1>3, <2>1
    <2>3. QED
      BY <2>2 DEF stored, QuotaCoversObjects
  <1>4. ASSUME NEW r \in Requests, ChargeObject(r)
        PROVE  QuotaCoversObjects'
    <2>1. stored' = stored
      BY <1>4 DEF ChargeObject
    <2>2. Charged' \subseteq Charged \cup {r}
      BY <1>4, Moved DEF ChargeObject, Charged, Stages
    <2>3. Cardinality(Charged') <= Cardinality(Charged) + 1
      BY <1>1, <2>2, OneMore
    <2>4. quota'.used = quota.used + 1
      BY <1>4 DEF ChargeObject, CreatesTypeOK
    <2> HIDE DEF stored
    <2>5. Cardinality(stored') + Cardinality(Charged') <= quota'.used
      BY <1>1, <1>2, <2>1, <2>3, <2>4
    <2>6. QED
      BY <2>5 DEF stored, QuotaCoversObjects
  <1>5. ASSUME NEW r \in Requests, Create(r)
        PROVE  QuotaCoversObjects'
    <2>1. Cardinality(Charged') = Cardinality(Charged) - 1
      <3>1. Charged' = Charged \ {r} /\ r \in Charged
        BY <1>5, Moved DEF Create, Charged, Stages
      <3>2. QED
        BY <1>1, <3>1, FS_RemoveElement
    <2>2. Cardinality(stored') <= Cardinality(stored) + 1
      <3>1. stored' \subseteq stored \cup {r}
        BY <1>5 DEF Create
      <3>2. QED
        BY <1>1, <3>1, OneMore
    <2>3. quota'.used = quota.used
      BY <1>5 DEF Create
    <2> HIDE DEF stored
    <2>4. Cardinality(stored') + Cardinality(Charged') <= quota'.used
      BY <1>1, <1>2, <2>1, <2>2, <2>3
    <2>5. QED
      BY <2>4 DEF stored, QuotaCoversObjects
  <1>6. ASSUME NEW r \in Requests, Release(r)
        PROVE  QuotaCoversObjects'
    <2>1. Cardinality(Charged') = Cardinality(Charged) - 1
      <3>1. Charged' = Charged \ {r} /\ r \in Charged
        BY <1>6, Moved DEF Release, Charged, Stages
      <3>2. QED
        BY <1>1, <3>1, FS_RemoveElement
    <2>2. stored' = stored
      BY <1>6 DEF Release
    <2>3. quota'.used >= quota.used - 1
      BY <1>1, <1>6 DEF Release, CreatesTypeOK
    <2> HIDE DEF stored
    <2>4. Cardinality(stored') + Cardinality(Charged') <= quota'.used
      BY <1>1, <1>2, <2>1, <2>2, <2>3
    <2>5. QED
      BY <2>4 DEF stored, QuotaCoversObjects
  <1>7. ASSUME NEW r \in Requests,
               \/ CreateUnanswered(r) \/ CreateFails(r) \/ Fails(r) \/ SkipEmbed(r)
               \/ EmbedNoReset(r) \/ Replay(r) \/ Execute(r)
               \/ StoreRecord(r) \/ StoreFails(r)
        PROVE  QuotaCoversObjects'
    <2>1. Charged' \subseteq Charged
      BY <1>7, Moved DEF CreateUnanswered, CreateFails, Fails, SkipEmbed, EmbedNoReset, Replay,
                         Execute, StoreRecord, StoreFails, Charged, Stages
    <2>2. stored' \subseteq stored /\ quota' = quota
      BY <1>7 DEF CreateUnanswered, CreateFails, Fails, SkipEmbed, EmbedNoReset, Replay,
                  Execute, StoreRecord, StoreFails
    <2>3. QED
      BY <1>1, <1>3, <2>1, <2>2
  <1>8. ASSUME NEW r \in Requests, EmbedStart(r) \/ EmbedReset(r) \/ EmbedCount(r)
        PROVE  QuotaCoversObjects'
    <2>1. Charged' \subseteq Charged
      BY <1>8 DEF EmbedStart, EmbedReset, EmbedCount, CreatesTypeOK, Request, Charged
    <2>2. stored' = stored /\ quota'.used = quota.used
      BY <1>8 DEF EmbedStart, EmbedReset, EmbedCount, CreatesTypeOK
    <2>3. QED
      BY <1>1, <1>3, <2>1, <2>2
  <1>9. CASE GcIdempotency \/ Tick
    <2>1. Charged' = Charged /\ stored' = stored /\ quota' = quota
      BY <1>9 DEF GcIdempotency, Tick, Charged
    <2>2. QED
      BY <1>1, <1>3, <2>1
  <1>10. QED
    BY <1>4, <1>5, <1>6, <1>7, <1>8, <1>9 DEF CreatesNext

\* A call is counted in the window that runs, and a reset starts one that is
\* later than every window used so far, however old the clock it goes by.
LEMMA StepCountsTheWindow ==
  ASSUME CreatesTypeOK, CreatesTypeOK', WindowIsCounted, CreatesNext
  PROVE  WindowIsCounted'
  <1> USE LimitsAssumption
  <1>1. /\ \A w : IsFiniteSet(InWindow(w)) /\ Cardinality(InWindow(w)) \in Nat
        /\ \A w : Cardinality(InWindow(w)') \in Nat
    <2>1. \A w : InWindow(w)' \in SUBSET Requests
      BY DEF InWindow
    <2>2. \A w : Cardinality(InWindow(w)') \in Nat
      BY <2>1, RequestsAssumption, FS_Subset, FS_CardinalityType
    <2>3. QED
      BY <2>2, SetsAreFinite
  <1>2. /\ quota.calls \in 0..EmbedCap /\ quota.resetAt \in Nat
        /\ quota'.calls \in 0..EmbedCap /\ quota'.resetAt \in Nat
        /\ \A r \in Requests : req[r].window \in Nat /\ req[r].clock \in Nat
    BY DEF CreatesTypeOK, Request
  <1>3. ASSUME \A q \in Requests : req'[q].window = req[q].window,
               quota'.calls = quota.calls, quota'.resetAt = quota.resetAt
        PROVE  WindowIsCounted'
    <2>1. \A w : InWindow(w)' = InWindow(w)
      BY <1>3 DEF InWindow
    <2>2. InWindow(quota.resetAt)' = InWindow(quota.resetAt)
      BY <1>3 DEF InWindow
    <2>3. QED
      BY <1>3, <2>1, <2>2 DEF WindowIsCounted
  <1>4. ASSUME NEW r \in Requests, EmbedReset(r)
        PROVE  WindowIsCounted'
    <2>0. PICK new \in Nat : new = req[r].clock + Day
      BY <1>2
    <2>1. /\ req'[r].window = new /\ quota'.resetAt = new /\ quota'.calls = 1
          /\ \A q \in Requests : q # r => req'[q].window = req[q].window
          /\ quota.resetAt < new
      <3>1. quota.resetAt < new
        BY <1>2, <1>4, <2>0 DEF EmbedReset
      <3>2. quota'.resetAt = new /\ quota'.calls = 1
        BY <1>4, <2>0 DEF EmbedReset, CreatesTypeOK
      <3>3. /\ req'[r].window = new
            /\ \A q \in Requests : q # r => req'[q].window = req[q].window
        BY <1>4, <2>0 DEF EmbedReset, CreatesTypeOK, Request
      <3>4. QED
        BY <3>1, <3>2, <3>3
    <2>2. \A q \in Requests : req'[q].window <= new
      BY <1>2, <2>1 DEF WindowIsCounted
    <2>3. InWindow(new) = {}
      BY <1>2, <2>1 DEF InWindow, WindowIsCounted
    <2>4. \A w : w # new => InWindow(w)' \subseteq InWindow(w)
      BY <2>1 DEF InWindow
    <2>5. Cardinality(InWindow(new)') <= 1
      <3>1. InWindow(new)' \subseteq InWindow(new) \cup {r}
        BY <2>1 DEF InWindow
      <3>2. Cardinality(InWindow(new)') <= Cardinality(InWindow(new)) + 1
        BY <1>1, <3>1, OneMore
      <3>3. QED
        BY <2>3, <3>2, FS_EmptySet
    <2>6. InWindow(quota.resetAt)' = InWindow(new)'
      BY <2>1 DEF InWindow
    <2>7. ASSUME NEW w \in Nat \ {0}
          PROVE  Cardinality(InWindow(w)') <= EmbedCap
      <3>1. CASE w = new
        BY <1>1, <2>5, <3>1
      <3>2. CASE w # new
        <4>1. Cardinality(InWindow(w)') <= Cardinality(InWindow(w))
          BY <1>1, <2>4, <3>2, FS_Subset
        <4>2. QED
          BY <1>1, <4>1 DEF WindowIsCounted
      <3>3. QED
        BY <3>1, <3>2
    <2>8. QED
      BY <2>1, <2>2, <2>5, <2>6, <2>7 DEF WindowIsCounted
  <1>5. ASSUME NEW r \in Requests, EmbedCount(r)
        PROVE  WindowIsCounted'
    <2>0. PICK cur \in Nat : cur = quota.resetAt
      BY <1>2
    <2>1. /\ req'[r].window = cur /\ quota'.resetAt = cur /\ quota'.calls = quota.calls + 1
          /\ \A q \in Requests : q # r => req'[q].window = req[q].window
      BY <1>2, <1>5, <2>0 DEF EmbedCount, CreatesTypeOK, Request
    <2>2. Cardinality(InWindow(cur)) <= quota.calls
      BY <2>0 DEF WindowIsCounted
    <2>3. Cardinality(InWindow(cur)') <= quota.calls + 1
      <3>1. InWindow(cur)' \subseteq InWindow(cur) \cup {r}
        BY <2>1 DEF InWindow
      <3>2. Cardinality(InWindow(cur)') <= Cardinality(InWindow(cur)) + 1
        BY <1>1, <3>1, OneMore
      <3>3. QED
        BY <1>1, <1>2, <2>2, <3>2
    <2>4. \A w : w # cur => InWindow(w)' \subseteq InWindow(w)
      BY <2>1 DEF InWindow
    <2>5. \A q \in Requests : req'[q].window <= cur
      BY <1>2, <2>0, <2>1 DEF WindowIsCounted
    <2>6. InWindow(quota.resetAt)' = InWindow(cur)'
      BY <2>1 DEF InWindow
    <2>7. ASSUME NEW w \in Nat \ {0}
          PROVE  Cardinality(InWindow(w)') <= EmbedCap
      <3>1. CASE w = cur
        BY <1>1, <1>2, <2>1, <2>3, <3>1
      <3>2. CASE w # cur
        <4>1. Cardinality(InWindow(w)') <= Cardinality(InWindow(w))
          BY <1>1, <2>4, <3>2, FS_Subset
        <4>2. QED
          BY <1>1, <4>1 DEF WindowIsCounted
      <3>3. QED
        BY <3>1, <3>2
    <2>8. QED
      BY <2>1, <2>3, <2>5, <2>6, <2>7 DEF WindowIsCounted
  <1>6. ASSUME NEW r \in Requests, EmbedStart(r)
        PROVE  WindowIsCounted'
    BY <1>3, <1>6 DEF EmbedStart, CreatesTypeOK, Request
  <1>7. ASSUME NEW r \in Requests, ChargeObject(r) \/ Release(r)
        PROVE  WindowIsCounted'
    <2>1. quota'.calls = quota.calls /\ quota'.resetAt = quota.resetAt
      BY <1>7 DEF ChargeObject, Release, CreatesTypeOK
    <2>2. \A q \in Requests : req'[q].window = req[q].window
      BY <1>7, Moved DEF ChargeObject, Release, Stages
    <2>3. QED
      BY <1>3, <2>1, <2>2
  <1>8. ASSUME NEW r \in Requests,
               \/ Create(r) \/ CreateUnanswered(r) \/ CreateFails(r) \/ Fails(r)
               \/ SkipEmbed(r) \/ EmbedNoReset(r) \/ Replay(r) \/ Execute(r)
               \/ StoreRecord(r) \/ StoreFails(r)
        PROVE  WindowIsCounted'
    <2>1. quota' = quota
      BY <1>8 DEF Create, CreateUnanswered, CreateFails, Fails, SkipEmbed, EmbedNoReset,
                  Replay, Execute, StoreRecord, StoreFails
    <2>2. \A q \in Requests : req'[q].window = req[q].window
      BY <1>8, Moved DEF Create, CreateUnanswered, CreateFails, Fails, SkipEmbed, EmbedNoReset,
                         Replay, Execute, StoreRecord, StoreFails, Stages
    <2>3. QED
      BY <1>3, <2>1, <2>2
  <1>9. CASE GcIdempotency \/ Tick
    BY <1>3, <1>9 DEF GcIdempotency, Tick
  <1>10. QED
    BY <1>4, <1>5, <1>6, <1>7, <1>8, <1>9 DEF CreatesNext

-----------------------------------------------------------------------------

\* A stored answer stays one: nothing moves a request that has answered.
LEMMA StepKeepsRecords ==
  ASSUME CreatesTypeOK, CreatesTypeOK', StagesTell, RecordsAreAnswers, CreatesNext
  PROVE  StagesTell' /\ RecordsAreAnswers'
  <1>1. ASSUME NEW r \in Requests, NEW stage \in Stages \ {"created", "answered"},
               req[r].at \notin {"answered", "releasing", "failed"},
               req' = At(r, stage), UNCHANGED <<objects, lost, record>>
        PROVE  StagesTell' /\ RecordsAreAnswers'
    BY <1>1, Moved DEF StagesTell, RecordsAreAnswers
  <1>2. ASSUME NEW r \in Requests,
               \/ Replay(r) \/ Execute(r) \/ ChargeObject(r) \/ SkipEmbed(r)
               \/ EmbedNoReset(r) \/ CreateFails(r)
        PROVE  StagesTell' /\ RecordsAreAnswers'
    BY <1>1, <1>2 DEF Replay, Execute, ChargeObject, SkipEmbed, EmbedNoReset, CreateFails, Stages
  <1>3. ASSUME NEW r \in Requests, EmbedStart(r) \/ EmbedReset(r) \/ EmbedCount(r)
        PROVE  StagesTell' /\ RecordsAreAnswers'
    <2>1. /\ req[r].at \in {"charged", "embed", "counting"}
          /\ req'[r].at \in {"embed", "ready"}
          /\ \A q \in Requests : q # r => req'[q].at = req[q].at
          /\ UNCHANGED <<objects, lost, record>>
      BY <1>3 DEF EmbedStart, EmbedReset, EmbedCount, CreatesTypeOK, Request
    <2>2. QED
      BY <2>1 DEF StagesTell, RecordsAreAnswers
  <1>4. ASSUME NEW r \in Requests, Create(r) \/ CreateUnanswered(r)
        PROVE  StagesTell' /\ RecordsAreAnswers'
    <2>1. /\ req[r].at = "ready" /\ req'[r].at \in {"created", "releasing"}
          /\ \A q \in Requests : q # r => req'[q].at = req[q].at
          /\ UNCHANGED record
      BY <1>4, Moved DEF Create, CreateUnanswered, Stages
    <2>2. /\ req'[r].at = "created" => objects' = objects \cup {r} /\ lost' = lost
          /\ req'[r].at = "releasing" => objects' = objects \cup {r} /\ lost' = lost \cup {r}
      BY <1>4, Moved DEF Create, CreateUnanswered, Stages
    <2>3. QED
      BY <2>1, <2>2 DEF StagesTell, RecordsAreAnswers
  <1>5. ASSUME NEW r \in Requests, Release(r) \/ Fails(r)
        PROVE  StagesTell' /\ RecordsAreAnswers'
    <2>1. /\ req[r].at # "answered" /\ req'[r].at = "failed"
          /\ \A q \in Requests : q # r => req'[q].at = req[q].at
          /\ UNCHANGED <<objects, lost, record>>
      BY <1>5, Moved DEF Release, Fails, Stages
    <2>2. QED
      BY <2>1 DEF StagesTell, RecordsAreAnswers
  <1>6. ASSUME NEW r \in Requests, StoreRecord(r) \/ StoreFails(r)
        PROVE  StagesTell' /\ RecordsAreAnswers'
    <2>1. /\ req[r].at = "created" /\ req'[r].at = "answered"
          /\ \A q \in Requests : q # r => req'[q].at = req[q].at
          /\ UNCHANGED <<objects, lost>>
      BY <1>6, Moved DEF StoreRecord, StoreFails, Stages
    <2>2. \A k \in Keys : \/ record'[k] = record[k]
                          \/ record'[k].by = r /\ KeyOf[r] = k
      BY <1>6 DEF StoreRecord, StoreFails, CreatesTypeOK
    <2>3. QED
      BY <2>1, <2>2 DEF StagesTell, RecordsAreAnswers
  <1>7. CASE GcIdempotency \/ Tick
    <2>1. /\ UNCHANGED <<req, objects, lost>>
          /\ \A k \in Keys : record'[k] = NoRecord \/ record'[k] = record[k]
      BY <1>7 DEF GcIdempotency, Tick
    <2>2. QED
      BY <2>1 DEF StagesTell, RecordsAreAnswers
  <1>8. QED
    BY <1>2, <1>3, <1>4, <1>5, <1>6, <1>7 DEF CreatesNext

LEMMA CreatesStep == CInv /\ [CreatesNext]_createVars => CInv'
  <1> SUFFICES ASSUME CInv, [CreatesNext]_createVars PROVE CInv'
    OBVIOUS
  <1>1. CASE CreatesNext
    <2>1. CreatesTypeOK'
      BY <1>1, StepKeepsTypes DEF CInv
    <2>2. QED
      BY <1>1, <2>1, StepKeepsCharges, StepCountsTheWindow, StepKeepsRecords DEF CInv
  <1>2. CASE UNCHANGED createVars
    BY <1>2 DEF createVars, CInv, CreatesTypeOK, QuotaCoversObjects, Charged, StagesTell, RecordsAreAnswers,
                WindowIsCounted, InWindow
  <1>3. QED
    BY <1>1, <1>2

\* The invariant holds in every run of the requests.
THEOREM CreatesInvHolds == CreatesSpec => []CInv
  BY CreatesStart, CreatesStep, PTL DEF CreatesSpec

\* The quota row never leaves its limits: no interleaving of creates charges a
\* user beyond MaxObjects or counts more than EmbedCap calls (quota/check.ts).
THEOREM QuotaTypes == CreatesSpec => []CreatesTypeOK
  <1>1. CInv => CreatesTypeOK
    BY DEF CInv
  <1>2. QED
    BY <1>1, CreatesInvHolds, PTL

\* However creates, refusals and releases interleave, the user is charged for
\* every object stored whose COMMIT was answered (quota/check.ts).
THEOREM QuotaCounts == CreatesSpec => []QuotaCoversObjects
  <1>1. CInv => QuotaCoversObjects
    BY DEF CInv
  <1>2. QED
    BY <1>1, CreatesInvHolds, PTL

\* No window lets more embedding calls through than the cap, although each
\* request goes by a clock it read before (assertEmbedQuota).
THEOREM WindowsHold == CreatesSpec => []WindowsKeepTheCap
  <1>1. CInv => WindowsKeepTheCap
    <2> SUFFICES ASSUME CInv, NEW w \in {req[r].window : r \in Requests} \ {0}
                 PROVE  Cardinality({r \in Requests : req[r].window = w}) <= EmbedCap
      BY DEF WindowsKeepTheCap
    <2>1. w \in Nat \ {0}
      BY DEF CInv, CreatesTypeOK, Request
    <2>2. Cardinality(InWindow(w)) <= EmbedCap
      BY <2>1 DEF CInv, WindowIsCounted
    <2>3. QED
      BY <2>2 DEF InWindow
  <1>2. QED
    BY <1>1, CreatesInvHolds, PTL

\* What the middleware may replay is the answer to a committed create under the
\* same key (middleware/idempotency.ts).
THEOREM ReplaysAreTrue == CreatesSpec => []RecordsTellTheTruth
  <1>1. CInv => RecordsTellTheTruth
    BY DEF CInv, StagesTell, RecordsAreAnswers, RecordsTellTheTruth
  <1>2. QED
    BY <1>1, CreatesInvHolds, PTL

\* A live answer is neither replaced nor deleted (middleware/idempotency.ts,
\* crons/idempotency_gc.ts).
THEOREM LiveRecordsStay == CreatesSpec => LiveRecordsAreStable
  <1> DEFINE Stay == \A k \in Keys : record[k] # NoRecord /\ record[k].expires >= now
                                       => record'[k] = record[k]
  <1>1. CInv /\ [CreatesNext]_createVars => [Stay]_createVars
    <2> SUFFICES ASSUME CInv, CreatesNext PROVE Stay
      OBVIOUS
    <2>1. ASSUME NEW r \in Requests, StoreRecord(r)
          PROVE  Stay
      BY <2>1 DEF StoreRecord, CInv, CreatesTypeOK
    <2>2. CASE GcIdempotency
      <3>1. \A k \in Keys : record[k].expires \in Nat /\ now \in Nat
        BY DEF CInv, CreatesTypeOK, Record
      <3>2. QED
        BY <2>2, <3>1 DEF GcIdempotency
    <2>3. CASE UNCHANGED record
      BY <2>3
    <2>4. QED
      BY <2>1, <2>2, <2>3 DEF CreatesNext, Replay, Execute, ChargeObject, SkipEmbed, EmbedStart,
         EmbedReset, EmbedNoReset, EmbedCount, Create, CreateUnanswered, CreateFails, Release,
         Fails, StoreFails, Tick
  <1>2. QED
    BY <1>1, CreatesInvHolds, PTL DEF CreatesSpec, LiveRecordsAreStable

-----------------------------------------------------------------------------
(* Editing one *)


RevisionsAreThePast == DOMAIN revisions = 1 .. version - 1

CallsKnowThePast ==
  \A c \in Calls : call[c].at # "idle" =>
    /\ call[c].read <= version
    /\ call[c].read = version => body = call[c].seen
    /\ call[c].expect \in {0, call[c].read}
    /\ call[c].at \in {"selected", "put"} =>
         /\ call[c].base <= version
         /\ call[c].expect # 0 => call[c].base = call[c].expect

IdleExpectsNothing == \A c \in Calls : call[c].at = "idle" => call[c].expect = 0

AcknowledgedIsOnRecord ==
  \A a \in acked : a.version \in 1 .. version /\ History[a.version] = a.body

PuttersHavePut == \A c \in putter : call[c].at = "put"

LargeAreHeld == \A v \in 1 .. version : Large(History[v]) => blob = v \/ PutOver(v)

LInv == /\ TypeOK /\ RevisionsAreThePast /\ CallsKnowThePast /\ IdleExpectsNothing
        /\ AcknowledgedIsOnRecord /\ PuttersHavePut /\ LargeAreHeld

\* The bodies are the sequences of items up to the limit.
LEMMA BodiesAreSequences == Body = {s \in Seq(Item) : Len(s) <= MaxItems}
  <1>1. ASSUME NEW s \in Body PROVE s \in Seq(Item) /\ Len(s) <= MaxItems
    <2>1. PICK n \in 0 .. MaxItems : s \in [1 .. n -> Item]
      BY DEF Body
    <2>2. s \in Seq(Item)
      BY <2>1
    <2>3. QED
      BY <2>1, <2>2, ListAssumption
  <1>2. ASSUME NEW s \in Seq(Item), Len(s) <= MaxItems PROVE s \in Body
    <2>1. s \in [1 .. Len(s) -> Item] /\ Len(s) \in 0 .. MaxItems
      BY <1>2, ListAssumption
    <2>2. QED
      BY <2>1 DEF Body
  <1>3. QED
    BY <1>1, <1>2

\* A call that is over is a call.
LEMMA IdleCall == Idle \in Call /\ Idle.at = "idle" /\ Idle.expect = 0
  BY BodiesAreSequences, ListAssumption DEF Idle, Call, Versions

\* The list that lists.create makes satisfies the invariant.
LEMMA ListInit == Init => LInv
  <1> SUFFICES ASSUME Init PROVE LInv
    OBVIOUS
  <1>1. <<>> \in Body
    BY BodiesAreSequences, ListAssumption
  <1>2. TypeOK
    BY <1>1, IdleCall, ListAssumption DEF Init, TypeOK, Versions
  <1>3. LargeAreHeld
    <2>1. \A v \in 1 .. version : History[v] = <<>>
      BY DEF Init, History
    <2>2. ~Large(<<>>)
      BY ListAssumption DEF Large
    <2>3. QED
      BY <2>1, <2>2 DEF LargeAreHeld
  <1>4. QED
    BY <1>2, <1>3, IdleCall
    DEF Init, LInv, RevisionsAreThePast, CallsKnowThePast, IdleExpectsNothing,
        AcknowledgedIsOnRecord, PuttersHavePut

\* A step that leaves the rows alone and changes one call keeps what does not
\* mention that call.
LEMMA CallStep ==
  ASSUME LInv, NEW c \in Calls, NEW new \in Call, call' = [call EXCEPT ![c] = new],
         UNCHANGED rows,
         new.at = "idle" => new.expect = 0,
         new.at # "idle" =>
           /\ new.read <= version
           /\ new.read = version => body = new.seen
           /\ new.expect \in {0, new.read}
           /\ new.at \in {"selected", "put"} =>
                new.base <= version /\ (new.expect # 0 => new.base = new.expect),
         blob' \in 0 .. MaxVersion, putter' \subseteq Calls, struck' \in 0 .. MaxVersion,
         PuttersHavePut', LargeAreHeld'
  PROVE  LInv'
  <1>1. TypeOK'
    BY DEF LInv, TypeOK, rows
  <1>2. CallsKnowThePast'
    BY DEF LInv, TypeOK, CallsKnowThePast, rows
  <1>3. AcknowledgedIsOnRecord'
    BY DEF LInv, AcknowledgedIsOnRecord, History, rows
  <1>4. QED
    BY <1>1, <1>2, <1>3 DEF LInv, TypeOK, RevisionsAreThePast, IdleExpectsNothing, rows

\* The bucket is as it was when a call moves on that has put nothing.
LEMMA BucketStays ==
  ASSUME LInv, NEW c \in Calls, NEW new, call' = [call EXCEPT ![c] = new],
         call[c].at # "put", UNCHANGED <<rows, blob, putter, struck>>
  PROVE  PuttersHavePut' /\ LargeAreHeld'
  <1>1. History' = History
    BY DEF History, rows
  <1>2. \A b \in Calls : call[b].at = "put" => call'[b].at = "put"
    BY DEF LInv, TypeOK
  <1>3. \A v \in 1 .. version : PutOver(v) => PutOver(v)'
    BY <1>1, <1>2 DEF PutOver, rows
  <1>4. QED
    BY <1>1, <1>2, <1>3 DEF LInv, TypeOK, PuttersHavePut, LargeAreHeld, rows

\* The first transaction of a call, whatever it makes of the body.
LEMMA EditStep ==
  ASSUME LInv, NEW c \in Calls, NEW next \in Body, NEW expect \in {0, version},
         Edit(c, next, expect)
  PROVE  LInv'
  <1> DEFINE new == [Idle EXCEPT !.at = "computed", !.next = next, !.seen = body,
                                 !.read = version, !.expect = expect]
  <1>1. new \in Call
    BY IdleCall DEF Call, LInv, TypeOK, Versions
  <1>2. call' = [call EXCEPT ![c] = new] /\ UNCHANGED <<rows, blob, putter, struck>>
    BY DEF Edit
  <1>3. new.at # "idle" /\
          /\ new.read <= version
          /\ new.read = version => body = new.seen
          /\ new.expect \in {0, new.read}
          /\ new.at \in {"selected", "put"} =>
               new.base <= version /\ (new.expect # 0 => new.base = new.expect)
    BY IdleCall DEF Call, LInv, TypeOK, Versions
  <1> HIDE DEF new
  <1>4. PuttersHavePut' /\ LargeAreHeld'
    BY <1>2, BucketStays DEF Edit
  <1>5. blob' \in 0 .. MaxVersion /\ putter' \subseteq Calls /\ struck' \in 0 .. MaxVersion
    BY <1>2 DEF LInv, TypeOK
  <1>6. QED
    BY <1>1, <1>2, <1>3, <1>4, <1>5, CallStep

\* A call that is refused or fails.  What it put has struck every version.
LEMMA FailStep ==
  ASSUME LInv, NEW c \in Calls, Fail(c)
  PROVE  LInv'
  <1>1. PuttersHavePut'
    BY DEF Fail, LInv, TypeOK, PuttersHavePut
  <1>2. LargeAreHeld'
    <2>1. version \in Nat /\ History' = History
      BY DEF Fail, History, rows, LInv, TypeOK, Versions
    <2>2. CASE call[c].at = "put"
      <3>1. \A v \in 1 .. version : PutOver(v)'
        BY <2>1, <2>2 DEF Fail, PutOver
      <3>2. QED
        BY <3>1 DEF LargeAreHeld, Fail, rows
    <2>3. CASE call[c].at # "put"
      <3>1. \A b \in Calls : call[b].at = "put" => call'[b].at = "put"
        BY <2>3 DEF Fail, LInv, TypeOK
      <3>2. version' = version /\ struck' = struck /\ blob' = blob
        BY <2>3 DEF Fail, rows
      <3>3. \A v \in 1 .. version : PutOver(v) => PutOver(v)'
        BY <2>1, <3>1, <3>2 DEF PutOver
      <3>4. QED
        BY <2>1, <3>2, <3>3 DEF LInv, LargeAreHeld
    <2>4. QED
      BY <2>2, <2>3
  <1>3. blob' \in 0 .. MaxVersion /\ putter' \subseteq Calls /\ struck' \in 0 .. MaxVersion
    BY ListAssumption DEF Fail, LInv, TypeOK, Versions
  <1>4. QED
    BY <1>1, <1>2, <1>3, IdleCall, CallStep DEF Fail

\* The SELECT of updateObject and its comparison of versions.
LEMMA SelectStep ==
  ASSUME LInv, NEW c \in Calls, SelectRow(c)
  PROVE  LInv'
  <1>1. CASE call[c].expect \in {0, version}
    <2> DEFINE new == [call[c] EXCEPT !.at = "selected", !.base = version]
    <2>1. new \in Call
      BY DEF LInv, TypeOK, Call
    <2>2. call' = [call EXCEPT ![c] = new] /\ UNCHANGED <<rows, blob, putter, struck>>
      BY <1>1 DEF SelectRow, LInv, TypeOK
    <2>3. /\ new.read = call[c].read /\ new.seen = call[c].seen /\ new.expect = call[c].expect
          /\ new.base = version /\ version \in Nat /\ call[c].at # "idle"
          /\ new.at = "selected"
      BY DEF LInv, TypeOK, Call, SelectRow, Versions
    <2>4. /\ new.read <= version
          /\ new.read = version => body = new.seen
          /\ new.expect \in {0, new.read}
          /\ new.base <= version /\ (new.expect # 0 => new.base = new.expect)
          /\ new.at = "selected"
      <3> HIDE DEF new
      <3>1. QED
        BY <1>1, <2>3 DEF LInv, CallsKnowThePast
    <2> HIDE DEF new
    <2>5. PuttersHavePut' /\ LargeAreHeld'
      BY <2>2, BucketStays DEF SelectRow
    <2>6. blob' \in 0 .. MaxVersion /\ putter' \subseteq Calls /\ struck' \in 0 .. MaxVersion
      BY <2>2 DEF LInv, TypeOK
    <2>7. QED
      BY <2>1, <2>2, <2>4, <2>5, <2>6, CallStep
  <1>2. CASE call[c].expect \notin {0, version}
    BY <1>2, FailStep DEF SelectRow
  <1>3. QED
    BY <1>1, <1>2

\* The put of a large body goes over what every version had there.
LEMMA PutStep ==
  ASSUME LInv, NEW c \in Calls, PutBlob(c)
  PROVE  LInv'
  <1> DEFINE new == [call[c] EXCEPT !.at = "put"]
  <1>1. call[c] \in Call /\ call[c].at = "selected" /\ new \in Call
    BY DEF PutBlob, LInv, TypeOK, Call
  <1>2. /\ new.at = "put" /\ new.read = call[c].read /\ new.seen = call[c].seen
        /\ new.expect = call[c].expect /\ new.base = call[c].base
    BY <1>1 DEF Call
  <1>3. call' = [call EXCEPT ![c] = new] /\ UNCHANGED rows /\ blob' = 0 /\ putter' = {c}
        /\ struck' = struck
    BY DEF PutBlob
  <1> HIDE DEF new
  <1>4. call'[c].at = "put"
    BY <1>2, <1>3 DEF LInv, TypeOK
  <1>5. PuttersHavePut' /\ LargeAreHeld'
    BY <1>3, <1>4 DEF PuttersHavePut, LargeAreHeld, PutOver
  <1>6. /\ new.read <= version
        /\ new.read = version => body = new.seen
        /\ new.expect \in {0, new.read}
        /\ new.base <= version /\ (new.expect # 0 => new.base = new.expect)
    BY <1>1, <1>2 DEF LInv, CallsKnowThePast
  <1>7. blob' \in 0 .. MaxVersion /\ putter' \subseteq Calls /\ struck' \in 0 .. MaxVersion
    BY <1>3, ListAssumption DEF LInv, TypeOK
  <1>8. QED
    BY <1>1, <1>2, <1>3, <1>5, <1>6, <1>7, CallStep

\* A body that is written replaces the current one: its base is the version.
LEMMA BaseIsCurrent ==
  ASSUME LInv, NEW c \in Calls, call[c].at \in {"selected", "put"},
         call[c].base \notin DOMAIN revisions
  PROVE  call[c].base = version
  BY DEF LInv, TypeOK, Call, Versions, RevisionsAreThePast, CallsKnowThePast

\* A write appends to the history and forgets what the call expected.
LEMMA WriteAppends ==
  ASSUME LInv, NEW c \in Calls, WriteBody(c), call[c].base \notin DOMAIN revisions
  PROVE  /\ call[c].next \in Body
         /\ History' = Append(History, call[c].next)
         /\ Len(History) = version
         /\ call[c].expect \in {0, version}
         /\ [b \in Calls |-> call[b].expect]'
              = [[b \in Calls |-> call[b].expect] EXCEPT ![c] = 0]
  <1>1. call[c].at \in {"selected", "put"} /\ call[c].base = version
    BY BaseIsCurrent DEF WriteBody, Ready
  <1>2. /\ version \in Nat /\ version > 0 /\ body \in Body /\ call[c].next \in Body
        /\ DOMAIN revisions = 1 .. version - 1
        /\ \A v \in DOMAIN revisions : revisions[v] \in Body
    BY ListAssumption DEF LInv, TypeOK, Versions, Call, RevisionsAreThePast
  <1>3. /\ version' = version + 1 /\ body' = call[c].next
        /\ revisions' = [v \in 1 .. version |-> IF v = version THEN body ELSE revisions[v]]
    <2>1. DOMAIN revisions \cup {version} = 1 .. version
      BY <1>2
    <2>2. QED
      BY <1>1, <2>1 DEF WriteBody
  <1>4. History' = Append(History, call[c].next)
    <2>1. History \in Seq(Body) /\ Len(History) = version
      BY <1>2 DEF History
    <2>2. History' = [v \in 1 .. version + 1 |-> IF v < version + 1 THEN revisions'[v] ELSE body']
      BY <1>3 DEF History
    <2>3. ASSUME NEW v \in 1 .. version + 1
          PROVE  History'[v] = IF v = version + 1 THEN call[c].next ELSE History[v]
      <3>1. CASE v = version + 1
        BY <1>2, <1>3, <2>2, <3>1
      <3>2. CASE v \in 1 .. version
        BY <1>2, <1>3, <2>2, <3>2 DEF History
      <3>3. QED
        BY <1>2, <3>1, <3>2
    <2>4. Append(History, call[c].next) = [v \in 1 .. version + 1 |->
            IF v = version + 1 THEN call[c].next ELSE History[v]]
      BY <1>2, <2>1
    <2>5. QED
      BY <2>2, <2>3, <2>4
  <1>5. Len(History) = version
    BY <1>2 DEF History
  <1>6. call[c].expect \in {0, version}
    BY <1>1, <1>2 DEF LInv, CallsKnowThePast
  <1>7. call' = [call EXCEPT ![c] = Idle] /\ call \in [Calls -> Call]
    BY DEF WriteBody, Commit, LInv, TypeOK
  <1>8. QED
    BY <1>2, <1>4, <1>5, <1>6, <1>7 DEF Idle

\* The history is read off the body, its version and its revisions.
LEMMA HistoryStays ==
  ASSUME UNCHANGED <<body, version, revisions>>
  PROVE  History' = History
  BY DEF History

\* The row that is committed names what its call has put, or its call was put
\* over; the older versions were put over by this call or by none.
LEMMA BucketAfterWrite ==
  ASSUME LInv, NEW c \in Calls, Ready(c), Commit(c),
         version' = version + 1,
         History'[version + 1] = call[c].next,
         \A v \in 1 .. version : History'[v] = History[v]
  PROVE  LargeAreHeld'
  <1>1. version \in Nat /\ version > 0
    BY DEF LInv, TypeOK, Versions
  <1>2. \A b \in Calls : b # c /\ call[b].at = "put" => call'[b].at = "put"
    BY DEF Commit, LInv, TypeOK
  <1>3. CASE call[c].at = "put" /\ c \in putter
    <2>1. blob' = version + 1 /\ Large(History'[version + 1])
      BY <1>3 DEF Commit, Ready
    <2>2. \A v \in 1 .. version : PutOver(v)'
      BY <1>1, <2>1 DEF PutOver
    <2>3. QED
      BY <1>1, <2>1, <2>2 DEF LargeAreHeld
  <1>4. CASE call[c].at = "put" /\ c \notin putter
    BY <1>1, <1>4 DEF LargeAreHeld, PutOver, Commit
  <1>5. CASE call[c].at # "put"
    <2>1. c \notin putter /\ ~Large(call[c].next)
      BY <1>5 DEF LInv, PuttersHavePut, Ready
    <2>2. blob' = blob /\ struck' = struck
      BY <1>5, <2>1 DEF Commit
    <2>3. ASSUME NEW v \in 1 .. version, PutOver(v) PROVE PutOver(v)'
      <3>1. CASE \E w \in v + 1 .. version : Large(History[w])
        <4>1. PICK w \in v + 1 .. version : Large(History[w])
          BY <3>1
        <4>2. w \in 1 .. version /\ w \in v + 1 .. version + 1
          BY <1>1, <4>1
        <4>3. Large(History'[w])
          BY <4>1, <4>2
        <4>4. QED
          BY <4>2, <4>3 DEF PutOver
      <3>2. CASE \E b \in Calls : call[b].at = "put"
        BY <1>2, <1>5, <3>2 DEF PutOver
      <3>3. CASE v <= struck
        BY <2>2, <3>3 DEF PutOver
      <3>4. QED
        BY <2>3, <3>1, <3>2, <3>3 DEF PutOver
    <2>4. ASSUME NEW v \in 1 .. version, Large(History'[v])
          PROVE  blob' = v \/ PutOver(v)'
      BY <2>2, <2>3, <2>4 DEF LInv, LargeAreHeld
    <2>5. QED
      BY <1>1, <2>1, <2>4 DEF LargeAreHeld
  <1>6. QED
    BY <1>3, <1>4, <1>5

\* The revision and the row, or the key violation that rolls both back.
LEMMA WriteStep ==
  ASSUME LInv, NEW c \in Calls, WriteBody(c)
  PROVE  LInv'
  <1>1. CASE call[c].base \in DOMAIN revisions
    BY <1>1, FailStep DEF WriteBody
  <1>2. CASE call[c].base \notin DOMAIN revisions
    <2>1. call[c].base = version /\ version < MaxVersion
      BY <1>2, BaseIsCurrent DEF WriteBody, Ready
    <2>2. /\ version \in Versions /\ version \in Nat /\ version > 0 /\ MaxVersion \in Nat
          /\ DOMAIN revisions = 1 .. version - 1
      BY ListAssumption DEF LInv, TypeOK, Versions, RevisionsAreThePast
    <2>3. /\ version' = version + 1
          /\ body' = call[c].next /\ body' \in Body
          /\ DOMAIN revisions' = 1 .. version
          /\ revisions'[version] = body
          /\ \A v \in 1 .. version - 1 : revisions'[v] = revisions[v]
          /\ acked' = acked \cup {[version |-> version', body |-> body']}
      <3>1. revisions' = [v \in DOMAIN revisions \cup {version} |->
                            IF v = version THEN body ELSE revisions[v]]
        BY <1>2, <2>1 DEF WriteBody
      <3>2. call[c].next \in Body
        BY DEF LInv, TypeOK, Call
      <3>3. QED
        BY <1>2, <2>1, <2>2, <3>1, <3>2 DEF WriteBody, Commit
    <2>4. /\ call' \in [Calls -> Call]
          /\ \A b \in Calls : call'[b].at # "idle" => b # c /\ call'[b] = call[b]
      BY <1>2, IdleCall DEF WriteBody, Commit, LInv, TypeOK
    <2>5. TypeOK'
      <3>1. version' \in Versions
        BY <2>1, <2>2, <2>3 DEF Versions
      <3>2. DOMAIN revisions' \subseteq Versions
        BY <2>2, <2>3 DEF Versions
      <3>3. \A v \in DOMAIN revisions' : revisions'[v] \in Body
        BY <2>2, <2>3 DEF LInv, TypeOK
      <3>4. acked' \subseteq [version : Versions, body : Body]
        BY <2>3, <3>1 DEF LInv, TypeOK
      <3>5. blob' \in 0 .. MaxVersion /\ putter' \subseteq Calls /\ struck' \in 0 .. MaxVersion
        BY <1>2, <3>1, <2>2 DEF WriteBody, Commit, LInv, TypeOK, Versions
      <3>6. QED
        BY <2>3, <2>4, <3>1, <3>2, <3>3, <3>4, <3>5 DEF TypeOK
    <2>6. RevisionsAreThePast'
      BY <2>2, <2>3 DEF RevisionsAreThePast
    <2>7. CallsKnowThePast'
      BY <2>2, <2>3, <2>4 DEF CallsKnowThePast, LInv, TypeOK, Call, Versions
    <2>8. /\ History[version] = body
          /\ History'[version + 1] = call[c].next
          /\ \A v \in 1 .. version : History'[v] = History[v]
      BY <2>2, <2>3 DEF History
    <2>9. AcknowledgedIsOnRecord'
      <3>1. ASSUME NEW a \in acked
            PROVE  a.version \in 1 .. version' /\ History'[a.version] = a.body
        BY <2>2, <2>3, <2>8 DEF LInv, AcknowledgedIsOnRecord
      <3>2. QED
        BY <2>2, <2>3, <2>8, <3>1 DEF AcknowledgedIsOnRecord
    <2>10. PuttersHavePut'
      BY <1>2, <2>4 DEF WriteBody, Commit, LInv, TypeOK, PuttersHavePut
    <2>11. LargeAreHeld'
      BY <1>2, <2>1, <2>2, <2>3, <2>8, BucketAfterWrite DEF WriteBody
    <2>12. IdleExpectsNothing'
      BY <1>2, <2>4, IdleCall DEF WriteBody, Commit, IdleExpectsNothing, LInv, TypeOK
    <2>13. QED
      BY <2>5, <2>6, <2>7, <2>9, <2>10, <2>11, <2>12 DEF LInv
  <1>3. QED
    BY <1>1, <1>2

\* Every step keeps the invariant.
LEMMA ListStep == LInv /\ [Next]_vars => LInv'
  <1> SUFFICES ASSUME LInv, [Next]_vars PROVE LInv'
    OBVIOUS
  <1>1. ASSUME NEW c \in Calls, NEW t \in Texts, AddItem(c, t) PROVE LInv'
    <2>1. Append(body, [text |-> t, done |-> FALSE]) \in Body
      BY <1>1, BodiesAreSequences, ListAssumption DEF AddItem, LInv, TypeOK, Item
    <2>2. QED
      BY <1>1, <2>1, EditStep DEF AddItem
  <1>2. ASSUME NEW c \in Calls, NEW n \in 1 .. MaxItems, NEW to \in BOOLEAN, Toggle(c, n, to)
        PROVE  LInv'
    <2>1. [body EXCEPT ![n].done = to] \in Body
      <3>1. PICK m \in 0 .. MaxItems : body \in [1 .. m -> Item]
        BY DEF LInv, TypeOK, Body
      <3>2. [body EXCEPT ![n].done = to] \in [1 .. m -> Item]
        BY <3>1 DEF Item
      <3>3. QED
        BY <3>2 DEF Body
    <2>2. QED
      BY <1>2, <2>1, EditStep DEF Toggle
  <1>3. ASSUME NEW c \in Calls, NEW n \in 1 .. MaxItems, NEW b \in BOOLEAN, Put(c, n, b)
        PROVE  LInv'
    <2> DEFINE left  == SubSeq(body, 1, n - 1)
               right == SubSeq(body, n + 1, Len(body))
    <2>1. body \in Seq(Item) /\ Len(body) <= MaxItems /\ n \in 1 .. Len(body)
      BY <1>3, BodiesAreSequences DEF Put, LInv, TypeOK
    <2>2. left \in Seq(Item) /\ Len(left) = n - 1
      BY <2>1
    <2>3. right \in Seq(Item) /\ Len(right) = Len(body) - n
      BY <2>1
    <2>4. left \o right \in Body
      <3> HIDE DEF left, right
      <3>1. left \o right \in Seq(Item) /\ Len(left \o right) = Len(left) + Len(right)
        BY <2>2, <2>3
      <3>2. QED
        BY <2>1, <2>2, <2>3, <3>1, BodiesAreSequences, ListAssumption
    <2>5. (IF b THEN version ELSE 0) \in {0, version}
      OBVIOUS
    <2>6. QED
      BY <1>3, <2>4, <2>5, EditStep DEF Put
  <1>4. ASSUME NEW c \in Calls, SelectRow(c) PROVE LInv'
    BY <1>4, SelectStep
  <1>5. ASSUME NEW c \in Calls, PutBlob(c) PROVE LInv'
    BY <1>5, PutStep
  <1>6. ASSUME NEW c \in Calls, WriteBody(c) PROVE LInv'
    BY <1>6, WriteStep
  <1>7. ASSUME NEW c \in Calls, CallFails(c) PROVE LInv'
    BY <1>7, FailStep DEF CallFails
  <1>8. CASE UNCHANGED vars
    BY <1>8 DEF vars, LInv, TypeOK, RevisionsAreThePast, CallsKnowThePast, IdleExpectsNothing,
                AcknowledgedIsOnRecord, PuttersHavePut, LargeAreHeld, PutOver, History
  <1>9. QED
    BY <1>1, <1>2, <1>3, <1>4, <1>5, <1>6, <1>7, <1>8 DEF Next

\* The invariant holds throughout.
LEMMA ListInvariant == Spec => []LInv
  BY ListInit, ListStep, PTL DEF Spec

\* The list, its revisions and the calls on it (lists.ts, updateObject) keep
\* their types for all numbers of calls, items and versions.
THEOREM ListTypes == Spec => []TypeOK
  BY ListInvariant, PTL DEF LInv

\* The body of every acknowledged write is the current one or on record as the
\* revision of its version (the INSERT into object_revisions of updateObject).
\* The ciphertext of a large one, which is under objects/<id> and not in a row,
\* is there until another is put over it, by whatever comes of that call.
THEOREM AcknowledgedStays == Spec => []AcknowledgedIsKept
  <1>1. LInv => AcknowledgedIsKept
    <2> SUFFICES ASSUME LInv, NEW a \in acked
                 PROVE  /\ a.version \in DOMAIN History /\ History[a.version] = a.body
                        /\ Large(a.body) => blob = a.version \/ PutOver(a.version)
      BY DEF AcknowledgedIsKept
    <2>1. a.version \in 1 .. version /\ History[a.version] = a.body
      BY DEF LInv, AcknowledgedIsOnRecord
    <2>2. DOMAIN History = 1 .. version
      BY DEF History
    <2>3. Large(a.body) => blob = a.version \/ PutOver(a.version)
      BY <2>1 DEF LInv, LargeAreHeld
    <2>4. QED
      BY <2>1, <2>2, <2>3
  <1>2. QED
    BY <1>1, ListInvariant, PTL

\* A write that expects a version replaces the body its client had seen, though
\* updateObject compares the versions without a lock.
THEOREM ExpectedIsReplaced == Spec => ExpectedBodyIsReplaced
  <1> DEFINE Replaces == \A c \in Calls :
        call[c].expect # 0 /\ WriteBody(c) /\ version' # version => body = call[c].seen
  <1>1. LInv => Replaces
    <2> SUFFICES ASSUME LInv, NEW c \in Calls, call[c].expect # 0, WriteBody(c), version' # version
                 PROVE  body = call[c].seen
      OBVIOUS
    <2>1. call[c].at \in {"selected", "put"} /\ call[c].base \notin DOMAIN revisions
      BY DEF WriteBody, Ready, Fail, rows
    <2>2. QED
      BY <2>1, BaseIsCurrent DEF LInv, CallsKnowThePast
  <1>2. LInv => [Replaces]_vars
    BY <1>1
  <1>3. QED
    BY <1>2, ListInvariant, PTL DEF ExpectedBodyIsReplaced

\* An edit that nothing overlapped replaces the body it was made from
\* (lists.add_item, lists.tick, lists.untick).
THEOREM UndoneByOverlap == Spec => UndoneOnlyByOverlap
  <1> DEFINE Undoes == \A c \in Calls :
        call[c].at \in {"selected", "put"} /\ call'[c].at = "idle" /\ body' # body
          => body = call[c].seen \/ version > call[c].read
  <1>1. LInv => Undoes
    <2> SUFFICES ASSUME LInv, NEW c \in Calls, call[c].at \in {"selected", "put"}
                 PROVE  body = call[c].seen \/ version > call[c].read
      OBVIOUS
    <2>1. version \in Int /\ call[c].read \in Int
      BY DEF LInv, TypeOK, Call, Versions
    <2>2. call[c].read <= version /\ (call[c].read = version => body = call[c].seen)
      BY DEF LInv, CallsKnowThePast
    <2>3. QED
      BY <2>1, <2>2
  <1>2. LInv => [Undoes]_vars
    BY <1>1
  <1>3. QED
    BY <1>2, ListInvariant, PTL DEF UndoneOnlyByOverlap

\* SELECT, comparison, INSERT and UPDATE of updateObject implement an atomic
\* comparison with the end of a history that only grows, of what is on record:
\* which body each version was, not whether the bucket still has its ciphertext.
THEOREM ListImplementsVersioned == Spec => ImplementsVersioned
  <1> DEFINE hopes == [c \in Calls |-> call[c].expect]
  <1>1. Init => Versioned!Init
    <2> SUFFICES ASSUME Init PROVE Versioned!Init
      OBVIOUS
    <2>1. History = <<<<>>>>
      BY DEF Init, History
    <2>2. hopes = [c \in Calls |-> 0]
      BY DEF Init, Idle
    <2>3. QED
      BY <2>1, <2>2 DEF Versioned!Init
  <1>2. LInv /\ [Next]_vars => [Versioned!Next]_Versioned!vars
    <2> SUFFICES ASSUME LInv, [Next]_vars PROVE [Versioned!Next]_Versioned!vars
      OBVIOUS
    <2>1. ASSUME NEW c \in Calls, Fail(c) PROVE Versioned!GiveUp(c)
      <3>1. hopes' = [hopes EXCEPT ![c] = 0]
        BY <2>1 DEF Fail, Idle, LInv, TypeOK
      <3>2. QED
        BY <2>1, <3>1, HistoryStays DEF Fail, rows, Versioned!GiveUp
    <2>2. ASSUME NEW c \in Calls, NEW next, NEW expect \in {0, version}, Edit(c, next, expect)
          PROVE  Versioned!Next
      <3>1. /\ hopes[c] = 0
            /\ hopes' = [hopes EXCEPT ![c] = expect]
            /\ History' = History
        BY <2>2, HistoryStays DEF Edit, rows, Idle, LInv, TypeOK, IdleExpectsNothing
      <3>2. Len(History) = version
        BY DEF History, LInv, TypeOK, Versions
      <3>3. CASE expect = 0
        BY <3>1, <3>3 DEF Versioned!Next, Versioned!GiveUp
      <3>4. CASE expect = version
        BY <3>1, <3>2, <3>4 DEF Versioned!Next, Versioned!Expect
      <3>5. QED
        BY <3>3, <3>4
    <2>3. ASSUME NEW c \in Calls, NEW t \in Texts, AddItem(c, t) PROVE Versioned!Next
      BY <2>2, <2>3 DEF AddItem
    <2>4. ASSUME NEW c \in Calls, NEW n \in 1 .. MaxItems, NEW to \in BOOLEAN, Toggle(c, n, to)
          PROVE  Versioned!Next
      BY <2>2, <2>4 DEF Toggle
    <2>5. ASSUME NEW c \in Calls, NEW n \in 1 .. MaxItems, NEW b \in BOOLEAN, Put(c, n, b)
          PROVE  Versioned!Next
      BY <2>2, <2>5 DEF Put
    <2>6. ASSUME NEW c \in Calls, SelectRow(c) PROVE [Versioned!Next]_Versioned!vars
      <3>1. CASE call[c].expect \in {0, version}
        <4>1. hopes' = hopes
          BY <2>6, <3>1 DEF SelectRow, LInv, TypeOK, Call
        <4>2. QED
          BY <2>6, <3>1, <4>1, HistoryStays DEF SelectRow, rows, Versioned!vars
      <3>2. CASE call[c].expect \notin {0, version}
        BY <2>1, <2>6, <3>2 DEF SelectRow, Versioned!Next
      <3>3. QED
        BY <3>1, <3>2
    <2>7. ASSUME NEW c \in Calls, PutBlob(c) PROVE UNCHANGED Versioned!vars
      <3>1. hopes' = hopes
        BY <2>7 DEF PutBlob, LInv, TypeOK, Call
      <3>2. QED
        BY <2>7, <3>1, HistoryStays DEF PutBlob, rows, Versioned!vars
    <2>8. ASSUME NEW c \in Calls, WriteBody(c) PROVE Versioned!Next
      <3>1. CASE call[c].base \in DOMAIN revisions
        BY <2>1, <2>8, <3>1 DEF WriteBody, Versioned!Next
      <3>2. CASE call[c].base \notin DOMAIN revisions
        <4>1. /\ call[c].next \in Body /\ History' = Append(History, call[c].next)
              /\ Len(History) = version /\ hopes[c] \in {0, version}
              /\ hopes' = [hopes EXCEPT ![c] = 0]
          BY <2>8, <3>2, WriteAppends
        <4>2. CASE hopes[c] = 0
          <5>1. hopes' = hopes
            BY <4>1, <4>2
          <5>2. QED
            BY <4>1, <5>1 DEF Versioned!Next, Versioned!Overwrite
        <4>3. CASE hopes[c] = version
          BY <4>1, <4>3 DEF Versioned!Next, Versioned!Replace
        <4>4. QED
          BY <4>1, <4>2, <4>3
      <3>3. QED
        BY <3>1, <3>2
    <2>9. ASSUME NEW c \in Calls, CallFails(c) PROVE Versioned!Next
      BY <2>1, <2>9 DEF CallFails, Versioned!Next
    <2>10. CASE UNCHANGED vars
      BY <2>10, HistoryStays DEF vars, Versioned!vars
    <2>11. QED
      BY <2>3, <2>4, <2>5, <2>6, <2>7, <2>8, <2>9, <2>10 DEF Next
  <1>3. QED
    BY <1>1, <1>2, ListInvariant, PTL DEF Spec, ImplementsVersioned, Versioned!Spec
=============================================================================
