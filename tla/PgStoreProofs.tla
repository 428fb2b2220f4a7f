---------------------------- MODULE PgStoreProofs ---------------------------
(***************************************************************************)
(* What the store adapter guarantees whoever calls it, for every corpus,   *)
(* batch size and bound.                                                   *)
(***************************************************************************)
EXTENDS PgStore, FiniteSetTheorems, FunctionTheorems, NaturalsInduction, TLAPS

\* A row of content t that was written for content h, which has the same text.
Holding(t, h, p) == [text |-> t, vec |-> VectorOf(h, p), hash |-> h, prov |-> p]

\* A row is either unembedded or was written for the text it still has.
WellFormed(r) ==
  \/ \E t \in Texts \cup {Null} : r = Unembedded(t)
  \/ \E t, h \in Texts, p \in Provenances :
       TextOf(t) = TextOf(h) /\ TextOf(t) # Null /\ r = Holding(t, h, p)

StoreInv ==
  /\ StoreTypeOK
  /\ \A d \in Docs : Present(d) => WellFormed(rows[d])

\* The vector of a content that has a text, and that of one that has none.
LEMMA VectorType ==
  ASSUME NEW t \in Texts \cup {Null}, NEW p \in Provenances
  PROVE  /\ TextOf(t) # Null => /\ VectorOf(t, p) \in Vectors /\ VectorOf(t, p) # Null
                              /\ VectorOf(t, p).text = TextOf(t)
                              /\ VectorOf(t, p).by = p
         /\ TextOf(t) = Null => VectorOf(t, p) = Null
  BY TextsAssumption, VectorAssumption DEF VectorOf, Vectors

\* The rows AppCommit makes are well formed (prepare's trigger, pgvector.py:218-227).
LEMMA AfterTriggerWellFormed ==
  ASSUME NEW r \in RowType \cup {Absent}, r # Absent => WellFormed(r),
         NEW t \in Contents
  PROVE  /\ AfterTrigger(r, t) \in RowType
         /\ WellFormed(AfterTrigger(r, t))
<1> USE StoreAssumption, TextsAssumption DEF RowType
<1>1. CASE r = Absent \/ TextOf(r.text) # TextOf(t)
  <2>1. AfterTrigger(r, t) = Unembedded(t)
    BY <1>1 DEF AfterTrigger
  <2> QED BY <2>1 DEF WellFormed, Unembedded, Provenances
<1>2. CASE r # Absent /\ TextOf(r.text) = TextOf(t)
  <2>1. AfterTrigger(r, t) = [r EXCEPT !.text = t]
    BY <1>2 DEF AfterTrigger
  <2>2. CASE \E u \in Texts \cup {Null} : r = Unembedded(u)
    <3>1. AfterTrigger(r, t) = Unembedded(t)
      BY <2>1, <2>2 DEF Unembedded
    <3> QED BY <3>1 DEF WellFormed, Unembedded, Provenances
  <2>3. CASE \E u, h \in Texts, p \in Provenances :
               TextOf(u) = TextOf(h) /\ TextOf(u) # Null /\ r = Holding(u, h, p)
    <3>1. PICK u \in Texts, h \in Texts, p \in Provenances :
            TextOf(u) = TextOf(h) /\ TextOf(u) # Null /\ r = Holding(u, h, p)
      BY <2>3
    <3>2. TextOf(t) = TextOf(u) /\ t \in Texts
      BY <1>2, <3>1 DEF Holding
    <3>3. AfterTrigger(r, t) = Holding(t, h, p)
      BY <2>1, <3>1, <3>2 DEF Holding
    <3>4. VectorOf(h, p) \in Vectors
      BY <3>1, VectorType
    <3> QED BY <3>1, <3>2, <3>3, <3>4 DEF WellFormed, Holding
  <2> QED BY <1>2, <2>2, <2>3 DEF WellFormed
<1> QED BY <1>1, <1>2

\* The rows UpsertVectors makes are well formed (pgvector.py:322-330).
LEMMA WrittenWellFormed ==
  ASSUME NEW t \in Texts, TextOf(t) # Null, NEW p \in Provenances
  PROVE  Written(t, p) \in RowType /\ WellFormed(Written(t, p))
<1>1. VectorOf(t, p) \in Vectors
  BY VectorType
<1> QED BY <1>1, TextsAssumption DEF WellFormed, Holding, Written, RowType

\* With the guard, the SET clause completes the row.
LEMMA EmbeddedIsWritten ==
  ASSUME NEW r \in RowType, NEW t \in Texts, r.text = t, NEW p \in Provenances
  PROVE  Embedded(r, t, p) = Written(t, p)
  BY DEF Embedded, Written, RowType

\* The initial rows are well formed.
LEMMA StoreInitInv == StoreInit => StoreInv
<1> SUFFICES ASSUME StoreInit PROVE StoreInv
  OBVIOUS
<1>1. ASSUME NEW d \in Docs
      PROVE  rows[d] \in RowType \cup {Absent} /\ (Present(d) => WellFormed(rows[d]))
  <2>1. CASE rows[d] = Absent
    BY <2>1 DEF Present
  <2>2. CASE \E t \in Contents : rows[d] = Unembedded(t)
    BY <2>2, StoreAssumption DEF WellFormed, Unembedded, RowType, Provenances
  <2>3. CASE \E t \in WithText : rows[d] = Written(t, "projected")
    <3>1. PICK t \in WithText : rows[d] = Written(t, "projected")
      BY <2>3
    <3>2. t \in Texts /\ TextOf(t) # Null /\ "projected" \in Provenances
      BY StoreAssumption, TextsAssumption DEF WithText, Provenances
    <3> QED BY <3>1, <3>2, WrittenWellFormed
  <2> QED BY <2>1, <2>2, <2>3 DEF StoreInit
<1>2. rows \in [Docs -> RowType \cup {Absent}]
  BY <1>1 DEF StoreInit
<1>3. open \in [Docs -> Contents \cup {Absent, NoWrite}] /\ writes \in 0 .. MaxWrites
  BY StoreAssumption DEF StoreInit
<1> QED BY <1>1, <1>2, <1>3 DEF StoreInv, StoreTypeOK

\* Every step of the store and its clients keeps its rows well formed.
LEMMA StoreNextInv == StoreInv /\ [StoreNext]_storeVars => StoreInv'
<1> SUFFICES ASSUME StoreInv, [StoreNext]_storeVars PROVE StoreInv'
  OBVIOUS
<1> USE DEF StoreInv
<1>1. ASSUME NEW b \in Embeddable, NEW p \in Provenances, UpsertVectors(b, p)
      PROVE  StoreInv'
  <2>1. ASSUME NEW d \in Docs
        PROVE  rows'[d] \in RowType \cup {Absent} /\ (Present(d)' => WellFormed(rows'[d]))
    <3>1. CASE d \in Matching(b)
      <4>1. b[d] \in Texts /\ TextOf(b[d]) # Null /\ rows[d] \in RowType /\ rows[d].text = b[d]
        BY <3>1 DEF Matching, Embeddable, Batches, StoreTypeOK, Present
      <4>2. rows'[d] = Written(b[d], p)
        BY <1>1, <3>1, <4>1, EmbeddedIsWritten DEF UpsertVectors
      <4> QED BY <4>1, <4>2, WrittenWellFormed
    <3>2. CASE d \notin Matching(b)
      <4>1. rows'[d] = rows[d]
        BY <1>1, <3>2 DEF UpsertVectors
      <4> QED BY <4>1 DEF StoreTypeOK, Present
    <3> QED BY <3>1, <3>2
  <2> QED BY <1>1, <2>1 DEF UpsertVectors, StoreTypeOK
<1>2. ASSUME NEW d \in Docs, NEW c \in Contents \cup {Absent}, AppOpen(d, c)
      PROVE  StoreInv'
  BY <1>2, StoreAssumption DEF AppOpen, StoreTypeOK, Present
<1>3. ASSUME NEW d \in Docs, AppCommit(d)
      PROVE  StoreInv'
  <2>1. open[d] \in Contents \cup {Absent}
    BY <1>3 DEF AppCommit, StoreTypeOK
  <2>2. rows'[d] \in RowType \cup {Absent} /\ (rows'[d] # Absent => WellFormed(rows'[d]))
    <3>1. CASE open[d] = Absent
      BY <1>3, <3>1 DEF AppCommit, StoreTypeOK
    <3>2. CASE open[d] # Absent
      <4>1. open[d] \in Contents /\ rows[d] \in RowType \cup {Absent}
            /\ (rows[d] # Absent => WellFormed(rows[d]))
        BY <2>1, <3>2 DEF StoreTypeOK, Present
      <4>2. rows'[d] = AfterTrigger(rows[d], open[d])
        BY <1>3, <3>2 DEF AppCommit, StoreTypeOK
      <4> QED BY <4>1, <4>2, AfterTriggerWellFormed
    <3> QED BY <3>1, <3>2
  <2>3. \A e \in Docs \ {d} : rows'[e] = rows[e]
    BY <1>3 DEF AppCommit, StoreTypeOK
  <2>4. rows' \in [Docs -> RowType \cup {Absent}]
    BY <1>3, <2>2, <2>3 DEF AppCommit, StoreTypeOK
  <2>5. open' \in [Docs -> Contents \cup {Absent, NoWrite}] /\ writes' \in 0 .. MaxWrites
    BY <1>3 DEF AppCommit, StoreTypeOK
  <2> QED BY <2>2, <2>3, <2>4, <2>5 DEF StoreTypeOK, Present
<1>4. ASSUME NEW d \in Docs, AppRollback(d)
      PROVE  StoreInv'
  BY <1>4 DEF AppRollback, StoreTypeOK, Present
<1>5. CASE UNCHANGED storeVars
  BY <1>5 DEF storeVars, StoreTypeOK, Present
<1> QED BY <1>1, <1>2, <1>3, <1>4, <1>5 DEF StoreNext

\* The invariant holds of every behaviour of the store.
THEOREM StoreInvariant == StoreSpec => []StoreInv
  BY StoreInitInv, StoreNextInv, PTL DEF StoreSpec

\* A well-formed row has no vector but that of its text.
LEMMA WellFormedNotStale ==
  ASSUME StoreInv
  PROVE  NoStaleVector
<1> SUFFICES ASSUME NEW d \in Docs, Present(d)
             PROVE  /\ rows[d].vec # Null => rows[d].vec.text = TextOf(rows[d].text)
                    /\ rows[d].vec = VectorOf(rows[d].hash, rows[d].prov)
  BY DEF NoStaleVector
<1>1. CASE \E t \in Texts \cup {Null} : rows[d] = Unembedded(t)
  BY <1>1, TextsAssumption DEF Unembedded, VectorOf
<1>2. CASE \E t, h \in Texts, p \in Provenances :
             TextOf(t) = TextOf(h) /\ TextOf(t) # Null /\ rows[d] = Holding(t, h, p)
  <2>1. PICK t \in Texts, h \in Texts, p \in Provenances :
          TextOf(t) = TextOf(h) /\ TextOf(t) # Null /\ rows[d] = Holding(t, h, p)
    BY <1>2
  <2>2. rows[d].vec = VectorOf(h, p) /\ rows[d].text = t /\ rows[d].hash = h /\ rows[d].prov = p
    BY <2>1 DEF Holding
  <2> QED BY <2>1, <2>2, VectorType
<1> QED BY <1>1, <1>2 DEF StoreInv, WellFormed

\* No row ever carries a vector of another text, whoever writes (I4).
THEOREM NoStaleVectorTheorem == StoreSpec => []NoStaleVector
  BY StoreInvariant, WellFormedNotStale, PTL

\* One step of the store makes rows appear only by an application's insert (I3).
LEMMA StepKeepsDeletes ==
  ASSUME StoreInv, [StoreNext]_storeVars, NEW d \in Docs, ~Present(d), Present(d)'
  PROVE  open[d] = rows'[d].text /\ rows'[d].vec = Null
<1> USE DEF StoreInv
<1>1. ASSUME NEW b \in Embeddable, NEW p \in Provenances, UpsertVectors(b, p)
      PROVE  FALSE
  BY <1>1 DEF UpsertVectors, Matching, Present
<1>2. ASSUME NEW e \in Docs, AppCommit(e)
      PROVE  open[d] = rows'[d].text /\ rows'[d].vec = Null
  <2>1. e = d
    BY <1>2 DEF AppCommit, StoreTypeOK, Present
  <2>2. rows'[d] = AfterTrigger(rows[d], open[d])
    BY <1>2, <2>1 DEF AppCommit, StoreTypeOK, Present
  <2> QED BY <2>2 DEF AfterTrigger, Unembedded, Present
<1>3. ~ UNCHANGED rows
  BY DEF Present
<1> QED BY <1>1, <1>2, <1>3 DEF StoreNext, AppOpen, AppRollback, storeVars

\* A late upsert never brings a deleted row back (I3).
THEOREM DeletesWinTheorem == StoreSpec => DeletesWin
<1>1. StoreInv /\ [StoreNext]_storeVars =>
        [\A d \in Docs : ~Present(d) /\ Present(d)'
           => open[d] = rows'[d].text /\ rows'[d].vec = Null]_storeVars
  BY StepKeepsDeletes
<1> QED BY <1>1, StoreInvariant, PTL DEF StoreSpec, DeletesWin

-----------------------------------------------------------------------------
(* What a claim takes (pgvector.py:273-300).                               *)

\* LIMIT: no claim takes more than BatchSize rows.
LEMMA ClaimWithinLimit ==
  ASSUME NEW D
  PROVE  Cardinality(DOMAIN ClaimBatch(D)) <= BatchSize
<1> DEFINE C == Claimable(D)
           S == FirstClaimable(D)
           Below(d) == { e \in C : e < d }
           rank == [d \in S |-> Cardinality(Below(d))]
<1>1. C \subseteq Docs /\ S \subseteq C /\ C \subseteq Nat
  BY DocsAssumption DEF Claimable, PendingDocs, FirstClaimable
<1>2. IsFiniteSet(C)
  BY <1>1, DocsAssumption, FS_Subset
<1>3. \A d \in C : IsFiniteSet(Below(d)) /\ Cardinality(Below(d)) \in Nat
  <2> SUFFICES ASSUME NEW d \in C
               PROVE  IsFiniteSet(Below(d)) /\ Cardinality(Below(d)) \in Nat
    OBVIOUS
  <2>1. Below(d) \in SUBSET C
    OBVIOUS
  <2> QED BY <1>2, <2>1, FS_Subset, FS_CardinalityType
<1>4. rank \in [S -> 0 .. BatchSize - 1]
  <2> SUFFICES ASSUME NEW d \in S PROVE Cardinality(Below(d)) \in 0 .. BatchSize - 1
    OBVIOUS
  <2>1. Cardinality(Below(d)) < BatchSize
    BY DEF FirstClaimable
  <2> QED BY <1>1, <1>3, <2>1, StoreAssumption
<1>5. ASSUME NEW d \in S, NEW e \in S, d < e PROVE rank[d] < rank[e]
  <2>1. Below(d) \in SUBSET Below(e) /\ d \in Below(e) /\ d \notin Below(d)
    BY <1>1, <1>5
  <2>2. /\ Cardinality(Below(d)) <= Cardinality(Below(e))
        /\ Cardinality(Below(d)) # Cardinality(Below(e))
    BY <1>1, <1>3, <2>1, FS_Subset
  <2> QED BY <1>1, <1>3, <2>2
<1>6. \A d, e \in S : rank[d] = rank[e] => d = e
  <2> SUFFICES ASSUME NEW d \in S, NEW e \in S, d # e PROVE rank[d] # rank[e]
    OBVIOUS
  <2>1. rank[d] \in Nat /\ rank[e] \in Nat /\ d \in Nat /\ e \in Nat
    BY <1>1, <1>3
  <2>2. CASE d < e
    BY <1>5, <2>1, <2>2
  <2>3. CASE e < d
    BY <1>5, <2>1, <2>3
  <2> QED BY <2>1, <2>2, <2>3
<1>7. rank \in Injection(S, 0 .. BatchSize - 1)
  <2> HIDE DEF rank
  <2> QED BY <1>4, <1>6, Fun_IsInj
<1>8. IsFiniteSet(0 .. BatchSize - 1) /\ Cardinality(0 .. BatchSize - 1) = BatchSize
  BY FS_Interval, StoreAssumption
<1>9. Cardinality(S) <= BatchSize
  BY <1>7, <1>8, FS_Injection
<1>10. DOMAIN ClaimBatch(D) = S
  BY DEF ClaimBatch
<1> QED BY <1>9, <1>10

\* A claim takes the claimable rows of least id, as many as there are up to BatchSize, and
\* is empty, which sends the worker to the completion check, only when no row is claimable.
THEOREM ClaimTheorem ==
  ASSUME NEW D
  PROVE  /\ DOMAIN ClaimBatch(D) \subseteq Claimable(D)
         /\ \A d \in DOMAIN ClaimBatch(D), e \in Claimable(D) \ DOMAIN ClaimBatch(D) : d < e
         /\ \/ DOMAIN ClaimBatch(D) = Claimable(D)
            \/ Cardinality(DOMAIN ClaimBatch(D)) = BatchSize
         /\ ClaimBatch(D) = NoBatch <=> Claimable(D) = {}
<1> DEFINE C == Claimable(D)
           S == FirstClaimable(D)
           Below(d) == { e \in C : e < d }
<1>1. C \subseteq Docs /\ S \subseteq C /\ C \subseteq Nat /\ DOMAIN ClaimBatch(D) = S
  BY DocsAssumption DEF Claimable, PendingDocs, FirstClaimable, ClaimBatch
<1>2. IsFiniteSet(C) /\ IsFiniteSet(S)
  BY <1>1, DocsAssumption, FS_Subset
<1>3. \A d \in C : IsFiniteSet(Below(d)) /\ Cardinality(Below(d)) \in Nat
  <2> SUFFICES ASSUME NEW d \in C
               PROVE  IsFiniteSet(Below(d)) /\ Cardinality(Below(d)) \in Nat
    OBVIOUS
  <2>1. Below(d) \in SUBSET C
    OBVIOUS
  <2> QED BY <1>2, <2>1, FS_Subset, FS_CardinalityType
<1>4. \A d \in C : d \in S <=> Cardinality(Below(d)) < BatchSize
  BY DEF FirstClaimable
<1>5. ASSUME NEW d \in S, NEW e \in C \ S PROVE d < e
  <2>1. ~(e <= d)
    <3> SUFFICES ASSUME e <= d PROVE FALSE
      OBVIOUS
    <3>1. Below(e) \in SUBSET Below(d)
      BY <1>1
    <3>2. Cardinality(Below(e)) <= Cardinality(Below(d))
      BY <1>1, <1>3, <3>1, FS_Subset
    <3> QED BY <1>1, <1>3, <1>4, <3>2, StoreAssumption
  <2> QED BY <1>1, <2>1
<1>6. ASSUME S # C PROVE Cardinality(S) = BatchSize
  <2>1. PICK e \in C \ S : \A d \in C \ S : ~(<<d, e>> \in OpToRel(<, Nat))
    <3>1. C \ S \subseteq Nat /\ C \ S # {}
      BY <1>1, <1>6
    <3> HIDE DEF C, S
    <3> QED BY <3>1, NatLessThanWellFounded, WFMin
  <2>2. \A d \in C \ S : ~(d < e)
    BY <1>1, <2>1 DEF OpToRel
  <2>3. Below(e) \in SUBSET S
    BY <1>1, <2>2
  <2>4. Cardinality(Below(e)) <= Cardinality(S)
    BY <1>2, <2>3, FS_Subset
  <2>5. Cardinality(S) \in Nat /\ Cardinality(S) <= BatchSize
    BY <1>1, <1>2, ClaimWithinLimit, FS_CardinalityType
  <2> QED BY <1>3, <1>4, <2>4, <2>5, StoreAssumption
<1>7. ClaimBatch(D) = NoBatch <=> C = {}
  <2>1. ClaimBatch(D) = NoBatch <=> S = {}
    BY <1>1 DEF NoBatch, ClaimBatch
  <2>2. S = {} => C = {}
    BY <1>6, FS_EmptySet, StoreAssumption
  <2> QED BY <1>1, <2>1, <2>2
<1> QED BY <1>1, <1>5, <1>6, <1>7
=============================================================================
