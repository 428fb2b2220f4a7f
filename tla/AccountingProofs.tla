--------------------------- MODULE AccountingProofs -------------------------
(***************************************************************************)
(* What is on record, for any number of workers: vectors before the        *)
(* ledger, dead letters, the ledger and the ceilings against the bill, and *)
(* the bill against the corpus.                                            *)
(***************************************************************************)
EXTENDS SingleWorkerProofs

-----------------------------------------------------------------------------
(* The maximum of the accounting property.                                 *)

\* A bounded set of naturals has a maximum.
LEMMA MaxBounds ==
  ASSUME NEW S \in SUBSET Nat, NEW m \in Nat, \A x \in S : x <= m
  PROVE  \A x \in S : x <= Max(S) /\ Max(S) \in Nat
<1> SUFFICES ASSUME NEW z \in S PROVE z <= Max(S) /\ Max(S) \in Nat
  OBVIOUS
<1> DEFINE T == { m - x : x \in S }
<1>0. \A x \in S : m - x \in Nat
  OBVIOUS
<1>1. T \subseteq Nat /\ T # {}
  <2>1. T \subseteq Nat
    BY <1>0
  <2>2. m - z \in T
    OBVIOUS
  <2> QED BY <2>1, <2>2
<1>2. PICK t \in T : \A y \in T : ~(<<y, t>> \in OpToRel(<, Nat))
  BY <1>1, NatLessThanWellFounded, WFMin
<1>3. \A y \in T : ~(y < t)
  BY <1>1, <1>2 DEF OpToRel
<1>4. PICK x \in S : t = m - x
  OBVIOUS
<1>5. ASSUME NEW y \in S PROVE x >= y
  <2>1. m - y \in T
    OBVIOUS
  <2>2. ~(m - y < t)
    BY <1>3, <2>1
  <2> HIDE DEF T
  <2> QED BY <1>4, <2>2
<1>6. Max(S) \in S /\ \A y \in S : Max(S) >= y
  <2> DEFINE M == CHOOSE y \in S : \A k \in S : y >= k
  <2>1. M \in S /\ \A y \in S : M >= y
    BY <1>5
  <2> QED BY <2>1 DEF Max
<1> QED BY <1>6

-----------------------------------------------------------------------------
(* Sums over finitely many workers.  A sum is the number of its units, so  *)
(* that the theorems on cardinality apply to it.                           *)

Units(f, S) == { p \in S \X Nat : p[2] < f[p[1]] }

Total(f, S) == Cardinality(Units(f, S))

\* Finitely many bounded terms have a sum, and it is bounded.
LEMMA TotalBound ==
  ASSUME NEW S, IsFiniteSet(S), NEW m \in Nat, NEW f, \A x \in S : f[x] \in 0 .. m
  PROVE  /\ IsFiniteSet(Units(f, S))
         /\ Total(f, S) \in Nat
         /\ Total(f, S) <= Cardinality(S) * m
<1>1. IsFiniteSet(0 .. m - 1) /\ Cardinality(0 .. m - 1) = m
  BY FS_Interval
<1>2. /\ IsFiniteSet(S \X (0 .. m - 1))
      /\ Cardinality(S \X (0 .. m - 1)) = Cardinality(S) * m
  BY <1>1, FS_Product
<1>3. Units(f, S) \in SUBSET (S \X (0 .. m - 1))
  BY DEF Units
<1> QED BY <1>2, <1>3, FS_Subset, FS_CardinalityType DEF Total

\* A sum is any of its terms and the sum of the others.
LEMMA TotalSplit ==
  ASSUME NEW S, IsFiniteSet(S), NEW m \in Nat, NEW f, \A y \in S : f[y] \in 0 .. m,
         NEW x \in S
  PROVE  Total(f, S) = f[x] + Total(f, S \ {x})
<1> DEFINE Own == {x} \X (0 .. f[x] - 1)
           Others == Units(f, S \ {x})
<1>0. PICK k \in Nat : k = f[x]
  OBVIOUS
<1>1. IsFiniteSet(Own) /\ Cardinality(Own) = k
  <2> DEFINE I == 0 .. k - 1
  <2>1. IsFiniteSet(I) /\ Cardinality(I) = k
    BY FS_Interval
  <2>2. IsFiniteSet({x}) /\ Cardinality({x}) = 1
    BY FS_Singleton
  <2>3. Own = {x} \X I
    BY <1>0
  <2> HIDE DEF I, Own
  <2>4. IsFiniteSet({x} \X I) /\ Cardinality({x} \X I) = Cardinality({x}) * Cardinality(I)
    BY <2>1, <2>2, FS_Product
  <2>5. Cardinality({x}) * Cardinality(I) = k
    BY <2>1, <2>2
  <2> QED BY <2>3, <2>4, <2>5
<1>2. IsFiniteSet(Others) /\ Cardinality(Others) \in Nat
  <2>1. IsFiniteSet(S \ {x})
    BY FS_RemoveElement
  <2> QED BY <2>1, TotalBound DEF Total
<1>3. Units(f, S) = Own \cup Others /\ Own \cap Others = {}
  BY DEF Units
<1>4. Cardinality(Units(f, S)) = k + Cardinality(Others)
  <2> HIDE DEF Own, Others
  <2>1. Cardinality(Own \cap Others) = 0
    BY <1>3, FS_EmptySet
  <2>2. Cardinality(Own \cup Others)
          = Cardinality(Own) + Cardinality(Others) - Cardinality(Own \cap Others)
    BY <1>1, <1>2, FS_Union
  <2> QED BY <1>0, <1>1, <1>2, <1>3, <2>1, <2>2
<1> QED BY <1>0, <1>2, <1>4 DEF Total

\* Sums that differ in one term differ by as much.
LEMMA TotalUpdate ==
  ASSUME NEW S, IsFiniteSet(S), NEW m \in Nat, NEW f, NEW g,
         \A y \in S : f[y] \in 0 .. m /\ g[y] \in 0 .. m,
         NEW x \in S, \A y \in S \ {x} : g[y] = f[y]
  PROVE  Total(g, S) = Total(f, S) - f[x] + g[x]
<1>1. Units(g, S \ {x}) = Units(f, S \ {x})
  BY DEF Units
<1>2. Total(f, S \ {x}) \in Nat
  <2>1. IsFiniteSet(S \ {x})
    BY FS_RemoveElement
  <2> QED BY <2>1, TotalBound
<1>3. Total(g, S \ {x}) = Total(f, S \ {x})
  BY <1>1 DEF Total
<1>4. Total(f, S) = f[x] + Total(f, S \ {x}) /\ Total(g, S) = g[x] + Total(g, S \ {x})
  BY TotalSplit
<1> QED BY <1>2, <1>3, <1>4

\* A sum of larger terms is larger.
LEMMA TotalMonotonic ==
  ASSUME NEW S, IsFiniteSet(S), NEW m \in Nat, NEW f, NEW g,
         \A x \in S : f[x] \in 0 .. m /\ g[x] \in 0 .. m /\ f[x] <= g[x]
  PROVE  Total(f, S) <= Total(g, S)
<1>1. Units(f, S) \in SUBSET Units(g, S)
  BY DEF Units
<1> QED BY <1>1, TotalBound, FS_Subset DEF Total

\* A sum grows by one for each of its terms at most, when none grows by more.
LEMMA TotalRaise ==
  ASSUME NEW S, IsFiniteSet(S), NEW m \in Nat, NEW f, NEW g,
         \A x \in S : f[x] \in 0 .. m /\ g[x] \in 0 .. m /\ g[x] <= f[x] + 1
  PROVE  Total(g, S) <= Total(f, S) + Cardinality(S)
<1> DEFINE Top == { <<x, f[x]>> : x \in S }
<1>1. IsFiniteSet(Top) /\ Cardinality(Top) <= Cardinality(S)
  <2> DEFINE top == [x \in S |-> <<x, f[x]>>]
  <2>1. top \in Surjection(S, Top)
    BY DEF Surjection
  <2> HIDE DEF top, Top
  <2> QED BY <2>1, FS_Surjection
<1>2. Units(g, S) \subseteq Units(f, S) \cup Top
  BY DEF Units
<1>3. IsFiniteSet(Units(f, S)) /\ Cardinality(Units(f, S)) \in Nat
  BY TotalBound DEF Total
<1> HIDE DEF Top
<1>4. /\ IsFiniteSet(Units(f, S) \cup Top)
      /\ Cardinality(Units(f, S) \cup Top) <= Cardinality(Units(f, S)) + Cardinality(Top)
  <2>1. IsFiniteSet(Units(f, S) \cap Top)
    <3>1. Units(f, S) \cap Top \in SUBSET Top
      OBVIOUS
    <3> QED BY <1>1, <3>1, FS_Subset
  <2> DEFINE U == Units(f, S)
  <2>2. IsFiniteSet(U) /\ Cardinality(U) \in Nat /\ IsFiniteSet(U \cap Top)
    BY <1>3, <2>1
  <2> HIDE DEF U
  <2>3. /\ IsFiniteSet(U \cup Top)
        /\ Cardinality(U \cup Top) = Cardinality(U) + Cardinality(Top) - Cardinality(U \cap Top)
    BY <1>1, <2>2, FS_Union
  <2>4. Cardinality(Top) \in Nat /\ Cardinality(U \cap Top) \in Nat
    BY <1>1, <2>2, FS_CardinalityType
  <2> QED BY <2>2, <2>3, <2>4 DEF U
<1>5. Cardinality(Units(g, S)) <= Cardinality(Units(f, S) \cup Top)
  <2>1. Units(g, S) \in SUBSET (Units(f, S) \cup Top)
    BY <1>2
  <2> QED BY <1>4, <2>1, FS_Subset
<1>6. /\ Cardinality(Top) \in Nat /\ Cardinality(S) \in Nat
      /\ Cardinality(Units(g, S)) \in Nat /\ Cardinality(Units(f, S) \cup Top) \in Nat
  <2>1. Total(g, S) \in Nat
    BY TotalBound
  <2> QED BY <1>1, <1>4, <2>1, FS_CardinalityType DEF Total
<1> QED BY <1>1, <1>3, <1>4, <1>5, <1>6 DEF Total

\* A sum is no less than the number of its terms, when none is 0.
LEMMA TotalCounts ==
  ASSUME NEW S, IsFiniteSet(S), NEW m \in Nat, NEW f, \A x \in S : f[x] \in 1 .. m
  PROVE  Cardinality(S) <= Total(f, S)
<1> DEFINE base == [x \in S |-> <<x, 0>>]
<1>1. base \in Injection(S, Units(f, S))
  BY DEF Injection, IsInjective, Units
<1> HIDE DEF base
<1>2. IsFiniteSet(Units(f, S))
  BY TotalBound
<1> QED BY <1>1, <1>2, FS_Injection DEF Total

\* The sum of no terms, and of terms that are all 0.
LEMMA TotalZero ==
  ASSUME NEW S, NEW f, \A x \in S : f[x] = 0
  PROVE  Total(f, S) = 0
<1>1. Units(f, S) = {}
  BY DEF Units
<1> QED BY <1>1, FS_EmptySet DEF Total

\* A factor can be taken out of a sum.
LEMMA TotalScale ==
  ASSUME NEW S, IsFiniteSet(S), NEW m \in Nat, NEW k \in Nat, NEW f,
         \A x \in S : f[x] \in 0 .. m
  PROVE  Total([x \in S |-> k * f[x]], S) = k * Total(f, S)
<1> DEFINE g == [x \in S |-> k * f[x]]
           T == { s \in SUBSET S : Total(g, s) # k * Total(f, s) }
<1>1. k * m \in Nat /\ \A x \in S : g[x] \in 0 .. k * m /\ g[x] = k * f[x]
  <2>1. \A i \in 0 .. m : k * i \in 0 .. k * m
    OBVIOUS
  <2> QED BY <2>1
<1> HIDE DEF g
<1>2. SUFFICES ASSUME T # {} PROVE FALSE
  BY DEF g
<1>3. T \subseteq FiniteSubsetsOf(S)
  BY FS_Subset DEF FiniteSubsetsOf
<1>4. PICK s \in T : \A u \in T : ~(<<u, s>> \in StrictSubsetOrdering(S))
  <2> HIDE DEF T
  <2> QED BY <1>2, <1>3, FS_StrictSubsetOrderingWellFounded, WFMin
<1>5. CASE s = {}
  BY <1>5, TotalZero
<1>6. CASE s # {}
  <2>1. PICK x \in s : TRUE
    BY <1>6
  <2> DEFINE r == s \ {x}
  <2>2. r \in SUBSET S /\ r \subseteq s /\ r # s /\ IsFiniteSet(r) /\ IsFiniteSet(s)
    BY <2>1, FS_Subset
  <2>3. Total(g, r) = k * Total(f, r)
    BY <1>4, <2>2 DEF StrictSubsetOrdering
  <2>4. Total(f, s) = f[x] + Total(f, r) /\ Total(g, s) = g[x] + Total(g, r)
    BY <1>1, <2>1, <2>2, TotalSplit
  <2>5. Total(f, r) \in Nat /\ f[x] \in Nat
    BY <2>1, <2>2, TotalBound
  <2>6. k * (f[x] + Total(f, r)) = k * f[x] + k * Total(f, r)
    BY <2>5
  <2> QED BY <1>1, <2>1, <2>3, <2>4, <2>6
<1> QED BY <1>5, <1>6

\* What the workers hold: the tokens each has had embedded and not yet recorded.
Hand(w) == IF pc[w] \in {"upsert", "commit"} THEN TokenCount(batch[w]) ELSE 0

Hands == [w \in Workers |-> Hand(w)]

\* What is in flight is the sum of what the workers hold.
LEMMA InFlightIsTotal ==
  ASSUME NEW m \in Nat, \A w \in Workers : Hand(w) \in 0 .. m
  PROVE  InFlight = Total(Hands, Workers)
<1> DEFINE S == { w \in Workers : pc[w] \in {"upsert", "commit"} }
           F(w) == TokenCount(batch[w])
           ch(s) == CHOOSE x \in s : TRUE
           iter[s \in SUBSET S] ==
             IF s = {} THEN 0 ELSE LET x == ch(s) IN F(x) + iter[s \ {x}]
           g == [s \in SUBSET S |-> Total(Hands, s)]
<1>1. IsFiniteSet(S) /\ S \in SUBSET Workers
  BY BackfillAssumption, FS_Subset
<1>2. \A x \in S : Hands[x] = F(x) /\ Hands[x] \in 0 .. m
  BY DEF Hand, Hands
<1>3. \A s \in SUBSET S : s # {} => ch(s) \in s
  OBVIOUS
<1>4. \A s \in SUBSET S : g[s] = IF s = {} THEN 0 ELSE F(ch(s)) + g[s \ {ch(s)}]
  <2> HIDE DEF ch, F, S
  <2> SUFFICES ASSUME NEW s \in SUBSET S
               PROVE  Total(Hands, s) =
                        IF s = {} THEN 0 ELSE F(ch(s)) + Total(Hands, s \ {ch(s)})
    OBVIOUS
  <2>1. CASE s = {}
    BY <2>1, TotalZero
  <2>2. CASE s # {}
    <3>1. IsFiniteSet(s) /\ ch(s) \in s
      BY <1>1, <1>3, <2>2, FS_Subset
    <3>2. \A x \in s : Hands[x] \in 0 .. m
      BY <1>2
    <3>3. Total(Hands, s) = Hands[ch(s)] + Total(Hands, s \ {ch(s)})
      BY <3>1, <3>2, TotalSplit
    <3> QED BY <1>2, <2>2, <3>1, <3>3
  <2> QED BY <2>1, <2>2
<1>5. g = [s \in SUBSET S |-> IF s = {} THEN 0 ELSE LET x == ch(s) IN F(x) + g[s \ {x}]]
  <2> HIDE DEF ch, F, S
  <2> QED BY <1>4
<1>6. iter = [s \in SUBSET S |->
                IF s = {} THEN 0 ELSE LET x == ch(s) IN F(x) + iter[s \ {x}]]
  <2> HIDE DEF ch, F, S, g
  <2> QED BY <1>5
<1>7. \A s \in SUBSET S : iter[s] = IF s = {} THEN 0 ELSE F(ch(s)) + iter[s \ {ch(s)}]
  <2> HIDE DEF ch, F, S, g, iter
  <2> QED BY <1>6
<1>8. ASSUME NEW t \in SUBSET S, iter[t] # g[t] PROVE FALSE
  <2> DEFINE T == { s \in SUBSET S : iter[s] # g[s] }
  <2>1. T \subseteq FiniteSubsetsOf(S) /\ T # {}
    <3>1. \A s \in SUBSET S : IsFiniteSet(s)
      BY <1>1, FS_Subset
    <3> HIDE DEF S, iter, g
    <3> QED BY <1>8, <3>1 DEF FiniteSubsetsOf
  <2> HIDE DEF ch, F, S, g, iter
  <2>2. PICK s \in T : \A u \in T : ~(<<u, s>> \in StrictSubsetOrdering(S))
    <3> HIDE DEF T
    <3> QED BY <2>1, FS_StrictSubsetOrderingWellFounded, WFMin
  <2>3. CASE s = {}
    BY <1>4, <1>7, <2>3
  <2>4. CASE s # {}
    <3> DEFINE u == s \ {ch(s)}
    <3>1. u \in SUBSET S /\ u # s /\ u \subseteq s
      BY <1>3, <2>4
    <3>2. u \notin T
      BY <2>2, <3>1 DEF StrictSubsetOrdering
    <3>3. iter[u] = g[u]
      BY <3>1, <3>2
    <3> QED BY <1>4, <1>7, <2>4, <3>3
  <2> QED BY <2>3, <2>4
<1>9. iter[S] = Total(Hands, S)
  <2> HIDE DEF iter
  <2> QED BY <1>8
<1>10. Units(Hands, S) = Units(Hands, Workers)
  BY DEF Units, Hands, Hand
<1>11. InFlight = iter[S]
  BY DEF InFlight, MapThenSumSet, MapThenFoldSet
<1> QED BY <1>9, <1>10, <1>11 DEF Total

-----------------------------------------------------------------------------
(* Vectors before the ledger.                                              *)

\* Only texts the provider rejects are dead-lettered, and no batch it has
\* embedded holds one: a count that skips dead letters skips no such row.
PoisonInv ==
  /\ \A k \in DeadKeys : TextOf(k[2]) \in PoisonTexts
  /\ \A w \in Workers : pc[w] = "poison" => bad[w] \subseteq PoisonDocs(w)
  /\ \A w \in Workers : pc[w] \in {"upsert", "commit"} => PoisonDocs(w) = {}

\* A worker elsewhere in its loop says nothing of poison.
LEMMA PoisonElsewhere ==
  ASSUME TypeOK, PoisonInv, UNCHANGED dead, NEW w \in Workers,
         pc'[w] \notin {"poison", "upsert", "commit"},
         \A v \in Workers \ {w} : pc'[v] = pc[v] /\ bad'[v] = bad[v] /\ batch'[v] = batch[v]
  PROVE  PoisonInv'
  BY DEF PoisonInv, PoisonDocs, DeadKeys

\* Every step keeps it.
LEMMA PoisonNext == TypeInv /\ PoisonInv /\ [Next]_vars => PoisonInv'
<1> SUFFICES ASSUME TypeInv, PoisonInv, [Next]_vars PROVE PoisonInv'
  OBVIOUS
<1> USE DEF TypeInv, TypeOK
<1>1. ASSUME NEW w \in Workers, Exit(w), UNCHANGED dead PROVE PoisonInv'
  BY <1>1, PoisonElsewhere DEF Exit, Goto
<1>2. ASSUME NEW w \in Workers, Claim(w) PROVE PoisonInv'
  <2>1. pc'[w] \notin {"poison", "upsert", "commit"}
    BY <1>2 DEF Claim, Goto
  <2> QED BY <1>2, <2>1, PoisonElsewhere DEF Claim, Goto, controlVars
<1>3. ASSUME NEW w \in Workers,
             Goto(w, pc'[w]), pc'[w] \notin {"poison", "upsert", "commit"},
             UNCHANGED <<dead, bad, batch>>
      PROVE  PoisonInv'
  BY <1>3, PoisonElsewhere DEF Goto
<1>4. ASSUME NEW w \in Workers, EmbedSucceeds(w) PROVE PoisonInv'
  BY <1>4 DEF EmbedSucceeds, Goto, PoisonInv, PoisonDocs, DeadKeys, controlVars
<1>5. ASSUME NEW w \in Workers, EmbedPoisoned(w) PROVE PoisonInv'
  BY <1>5 DEF EmbedPoisoned, Goto, PoisonInv, PoisonDocs, DeadKeys, controlVars
<1>6. ASSUME NEW w \in Workers, DeadLetter(w) PROVE PoisonInv'
  <2>1. PICK d \in bad[w] :
          /\ RecordDeadLetter(<<d, batch[w][d]>>)
          /\ bad' = [bad EXCEPT ![w] = @ \ {d}]
          /\ Goto(w, "claim") \/ UNCHANGED pc
    BY <1>6 DEF DeadLetter
  <2>2. UNCHANGED batch /\ pc[w] = "poison" /\ d \in PoisonDocs(w)
    BY <1>6, <2>1 DEF DeadLetter, PoisonInv
  <2>3. \A k \in DeadKeys' : k \in DeadKeys \/ k = <<d, batch[w][d]>>
    BY <2>1 DEF RecordDeadLetter, DeadKeys, ControlTypeOK
  <2>4. \A k \in DeadKeys' : TextOf(k[2]) \in PoisonTexts
    BY <2>2, <2>3 DEF PoisonInv, PoisonDocs
  <2>5. ASSUME NEW v \in Workers
        PROVE  /\ pc'[v] = "poison" => bad'[v] \subseteq PoisonDocs(v)'
               /\ pc'[v] \in {"upsert", "commit"} => PoisonDocs(v)' = {}
    <3>1. PoisonDocs(v)' = PoisonDocs(v) /\ bad'[v] \subseteq bad[v]
      BY <2>1, <2>2 DEF PoisonDocs
    <3>2. pc'[v] \in {pc[v], "claim"}
      BY <2>1 DEF Goto
    <3> QED BY <3>1, <3>2 DEF PoisonInv
  <2> QED BY <2>4, <2>5 DEF PoisonInv
<1>7. ASSUME NEW w \in Workers, Upsert(w) PROVE PoisonInv'
  BY <1>7 DEF Upsert, Goto, PoisonInv, PoisonDocs, DeadKeys, controlVars
<1>8. CASE UNCHANGED <<pc, batch, bad, dead>>
  BY <1>8 DEF PoisonInv, PoisonDocs, DeadKeys
<1>9. ASSUME NEW w \in Workers, Work(w) PROVE PoisonInv'
  <2>1. CASE Refuse(w) \/ BeginIllegal(w) \/ Finish(w) \/ NoInlineText(w) \/ PauseBudget(w)
             \/ EmbedRaises(w) \/ PauseError(w)
    BY <1>1, <2>1 DEF Refuse, BeginIllegal, Finish, NoInlineText, PauseBudget,
       EmbedRaises, PauseError, controlVars
  <2>2. CASE Enter(w) \/ Begin(w) \/ Reconcile(w) \/ Recheck(w) \/ RecheckError(w)
             \/ Reserve(w) \/ EmbedTransient(w) \/ EmbedPaused(w) \/ Account(w)
    BY <1>3, <2>2 DEF Enter, Begin, Reconcile, Recheck, RecheckError, Reserve,
       EmbedTransient, EmbedPaused, Account, Goto, controlVars
  <2> QED BY <1>2, <1>4, <1>5, <1>6, <1>7, <1>9, <2>1, <2>2 DEF Work
<1>10. ASSUME NEW w \in Workers, Start(w) \/ Crash(w) PROVE PoisonInv'
  BY <1>1, <1>3, <1>10 DEF Start, Crash, Goto, controlVars
<1> QED BY <1>8, <1>9, <1>10
        DEF Next, Operate, Write, Commit, Rollback, vars, controlVars, workerVars

\* No row holds a vector the provider would have had to make of a text it rejects.
NoPoisonVector ==
  \A d \in Found : rows[d].vec.by = "embedded" => rows[d].vec.text \notin PoisonTexts

LEMMA NoPoisonVectorNext ==
  TypeInv /\ PoisonInv /\ NoPoisonVector /\ [Next]_vars => NoPoisonVector'
<1> SUFFICES ASSUME TypeInv, PoisonInv, NoPoisonVector, [Next]_vars,
                    NEW d \in Found', rows'[d].vec.by = "embedded"
             PROVE  rows'[d].vec.text \notin PoisonTexts
  BY DEF NoPoisonVector
<1> USE DEF TypeInv, TypeOK
<1>1. d \in Docs /\ Present(d)' /\ rows'[d].vec # Null
  BY DEF Found
<1>2. CASE UNCHANGED rows
  BY <1>2 DEF NoPoisonVector, Found, Present
<1>3. ASSUME NEW w \in Workers, Upsert(w) PROVE rows'[d].vec.text \notin PoisonTexts
  <2>1. UpsertVectors(batch[w], "embedded") /\ PoisonDocs(w) = {}
    BY <1>3 DEF Upsert, PoisonInv
  <2>2. CASE d \in Matching(batch[w])
    <3>1. d \in DOMAIN batch[w] /\ rows'[d] = Embedded(rows[d], batch[w][d], "embedded")
      BY <1>1, <2>1, <2>2 DEF UpsertVectors, Matching
    <3>2. rows'[d].vec.text = TextOf(batch[w][d])
      BY <1>1, <3>1 DEF Embedded, VectorOf
    <3> QED BY <2>1, <3>1, <3>2 DEF PoisonDocs
  <2>3. CASE d \notin Matching(batch[w])
    BY <1>1, <2>1, <2>3 DEF UpsertVectors, NoPoisonVector, Found, Present
  <2> QED BY <2>2, <2>3
<1>4. ASSUME NEW e \in Docs, AppCommit(e) PROVE rows'[d].vec.text \notin PoisonTexts
  <2>1. CASE e # d
    BY <1>1, <1>4, <2>1 DEF AppCommit, StoreTypeOK, NoPoisonVector, Found, Present
  <2>2. CASE e = d
    <3>1. rows'[d] = AfterTrigger(rows[d], open[d])
      BY <1>1, <1>4, <2>2 DEF AppCommit, StoreTypeOK, Present
    <3>2. rows[d] \in RowType /\ rows'[d].vec = rows[d].vec
      BY <1>1, <3>1 DEF AfterTrigger, Unembedded, StoreTypeOK, RowType
    <3> QED BY <1>1, <3>2, AbsentAssumption DEF NoPoisonVector, Found, Present
  <2> QED BY <2>1, <2>2
<1>5. ASSUME NEW w \in Workers, Start(w) \/ Crash(w) \/ (Work(w) /\ ~Upsert(w))
      PROVE  UNCHANGED rows
  BY <1>5 DEF Start, Crash, Work, Enter, Refuse, Begin, BeginIllegal, Claim, Reconcile,
     Recheck, RecheckError, Finish, NoInlineText, Reserve, PauseBudget, EmbedSucceeds,
     EmbedPoisoned, EmbedTransient, EmbedPaused, EmbedRaises, DeadLetter, PauseError,
     Account, storeVars
<1> QED BY <1>2, <1>3, <1>4, <1>5
        DEF Next, Operate, Write, Commit, Rollback, AppOpen, AppRollback, vars, storeVars

\* A text the provider rejects is never written with a vector, by any number of workers.
THEOREM NoPoisonVectorTheorem == Spec => []NoPoisonVector
<1>1. Init => PoisonInv /\ NoPoisonVector
  <2> SUFFICES ASSUME Init PROVE PoisonInv /\ NoPoisonVector
    OBVIOUS
  <2>1. PoisonInv
    BY DEF Init, ControlInit, PoisonInv, DeadKeys
  <2>2. NoPoisonVector
    <3> SUFFICES ASSUME NEW d \in Found PROVE rows[d].vec.by = "projected"
      BY DEF NoPoisonVector
    <3>1. d \in Docs /\ Present(d) /\ rows[d].vec # Null
      BY DEF Found
    <3>2. PICK t \in WithText : rows[d] = Written(t, "projected")
      BY <3>1 DEF Init, StoreInit, Present, Unembedded
    <3> QED BY <3>2 DEF Written, VectorOf, WithText
  <2> QED BY <2>1, <2>2
<1> QED BY <1>1, PoisonNext, NoPoisonVectorNext, TypeCorrect, PTL DEF Spec

\* Every step keeps what is about to be counted durable.
LEMMA DurableNext ==
  TypeInv /\ PoisonInv /\ DurableBeforeLedger /\ [Next]_vars => DurableBeforeLedger'
<1> SUFFICES ASSUME TypeInv, PoisonInv, DurableBeforeLedger, [Next]_vars,
                    NEW v \in Workers, pc'[v] = "commit", NEW d \in Matching(batch[v])'
             PROVE  Done(d)' \/ d \in late'
  BY DEF DurableBeforeLedger
<1> USE DEF TypeInv, TypeOK
<1>1. ASSUME UNCHANGED <<rows, late>>, pc[v] = "commit", batch'[v] = batch[v]
      PROVE  Done(d)' \/ d \in late'
  BY <1>1 DEF DurableBeforeLedger, Matching, Done, Pending, Present
<1>2. ASSUME NEW w \in Workers, Upsert(w) PROVE Done(d)' \/ d \in late'
  <2>1. /\ UNCHANGED <<batch, late>> /\ UpsertVectors(batch[w], "embedded")
        /\ pc[w] = "upsert" /\ (v # w => pc[v] = "commit")
    BY <1>2 DEF Upsert, Goto, historyVars
  <2>2. d \in DOMAIN batch[v] /\ d \in Docs
    BY <2>1 DEF Matching, Batches
  <2>3. CASE d \in Matching(batch[w])
    <3>1. /\ Present(d) /\ rows[d] \in RowType /\ rows[d].text = batch[w][d]
          /\ batch[w][d] \in Texts /\ TextOf(batch[w][d]) # Null
      BY <2>1, <2>3 DEF Matching, StoreTypeOK, Present, Embeddable, Batches
    <3>2. rows'[d] = Written(batch[w][d], "embedded")
      BY <2>1, <2>2, <2>3, <3>1, EmbeddedIsWritten DEF UpsertVectors, Provenances
    <3>3. rows'[d] # Absent /\ VectorOf(batch[w][d], "embedded") # Null
      BY <3>1, <3>2, WrittenWellFormed, VectorType, AbsentAssumption DEF Provenances
    <3> QED BY <3>1, <3>2, <3>3 DEF Done, Pending, Present, Written
  <2>4. CASE d \notin Matching(batch[w])
    <3>1. rows'[d] = rows[d]
      BY <2>1, <2>2, <2>4 DEF UpsertVectors
    <3>2. d \in Matching(batch[v])
      BY <2>1, <3>1 DEF Matching, Present
    <3> QED BY <2>1, <2>4, <3>1, <3>2 DEF DurableBeforeLedger, Done, Pending, Present
  <2> QED BY <2>3, <2>4
<1>3. ASSUME NEW w \in Workers, Recheck(w) PROVE Done(d)' \/ d \in late'
  <2>1. UNCHANGED <<rows, batch>> /\ pc[v] = "commit"
    BY <1>3 DEF Recheck, Goto, storeVars
  <2>2. d \in Matching(batch[v]) /\ (Done(d)' <=> Done(d))
    BY <2>1 DEF Matching, Done, Pending, Present
  <2>3. CASE Counted = {}
    <3>1. /\ d \in Docs /\ d \in DOMAIN batch[v] /\ Present(d) /\ rows[d].text = batch[v][d]
          /\ batch[v][d] \in Texts /\ TextOf(batch[v][d]) # Null
      BY <2>1, <2>2 DEF Matching, Embeddable, Batches
    <3>2. <<d, rows[d].text>> \notin DeadKeys
      BY <2>1, <3>1 DEF PoisonInv, PoisonDocs
    <3>3. ~Pending(d)
      BY <2>3, <3>1, <3>2 DEF Counted, PendingDocs
    <3>4. rows[d].hash = batch[v][d]
      BY <3>1, <3>3 DEF Pending
    <3>5. rows[d].vec # Null
      <4>1. rows[d].vec = VectorOf(batch[v][d], rows[d].prov) /\ rows[d].prov \in Provenances
        BY <3>1, <3>4, WellFormedNotStale DEF NoStaleVector, StoreTypeOK, Present, RowType
      <4> QED BY <3>1, <4>1, VectorType
    <3> QED BY <2>2, <3>1, <3>3, <3>5 DEF Done
  <2>4. CASE Counted # {}
    <3>1. late' = late
      BY <1>3, <2>4 DEF Recheck
    <3> QED BY <2>1, <3>1, <1>1
  <2> QED BY <2>3, <2>4
<1>4. ASSUME NEW e \in Docs, Commit(e) PROVE Done(d)' \/ d \in late'
  <2>1. /\ UNCHANGED <<pc, batch>> /\ late' = late \cup {e}
        /\ \A x \in Docs \ {e} : rows'[x] = rows[x]
    BY <1>4 DEF Commit, AppCommit, workerVars, StoreTypeOK
  <2>2. d \in Docs
    BY <2>1 DEF Matching, Batches
  <2> QED BY <2>1, <2>2 DEF DurableBeforeLedger, Matching, Done, Pending, Present
<1>5. ASSUME NEW w \in Workers, Work(w), ~Upsert(w), ~Recheck(w)
      PROVE  UNCHANGED <<rows, late>> /\ pc[v] = "commit" /\ batch'[v] = batch[v]
  <2>1. UNCHANGED <<rows, late>>
    BY <1>5 DEF Work, Enter, Refuse, Begin, BeginIllegal, Claim, Reconcile, RecheckError,
       Finish, NoInlineText, Reserve, PauseBudget, EmbedSucceeds, EmbedPoisoned,
       EmbedTransient, EmbedPaused, EmbedRaises, DeadLetter, PauseError, Account,
       storeVars, historyVars
  <2>2. CASE v = w
    <3>1. pc'[w] # "commit"
      BY <1>5 DEF Work, Enter, Refuse, Begin, BeginIllegal, Claim, Reconcile,
         RecheckError, Finish, NoInlineText, Reserve, PauseBudget, EmbedSucceeds,
         EmbedPoisoned, EmbedTransient, EmbedPaused, EmbedRaises, DeadLetter,
         PauseError, Account, Exit, Goto
    <3> QED BY <2>2, <3>1
  <2>3. CASE v # w
    BY <1>5, <2>1, <2>3 DEF Work, Enter, Refuse, Begin, BeginIllegal, Claim, Reconcile,
       RecheckError, Finish, NoInlineText, Reserve, PauseBudget, EmbedSucceeds,
       EmbedPoisoned, EmbedTransient, EmbedPaused, EmbedRaises, DeadLetter,
       PauseError, Account, Exit, Goto
  <2> QED BY <2>1, <2>2, <2>3
<1>6. ASSUME NEW w \in Workers, Start(w) \/ Crash(w)
      PROVE  UNCHANGED <<rows, late>> /\ pc[v] = "commit" /\ batch'[v] = batch[v]
  BY <1>6 DEF Start, Crash, Exit, Goto, storeVars, historyVars
<1>7. CASE UNCHANGED <<rows, late, pc, batch>>
  BY <1>1, <1>7
<1> QED BY <1>1, <1>2, <1>3, <1>4, <1>5, <1>6, <1>7
        DEF Next, Operate, Write, Rollback, AppOpen, AppRollback, vars, storeVars,
            workerVars, historyVars

\* What the ledger is about to count is durable, for any number of workers (I1, I5).
THEOREM DurableBeforeLedgerTheorem == Spec => []DurableBeforeLedger
<1>1. Init => PoisonInv /\ DurableBeforeLedger
  BY DEF Init, ControlInit, PoisonInv, DurableBeforeLedger, DeadKeys
<1> QED BY <1>1, PoisonNext, DurableNext, TypeCorrect, PTL DEF Spec

-----------------------------------------------------------------------------
(* Dead letters.                                                           *)

\* A worker that may still record key k.
Holds(w, k) ==
  /\ k \in KeysOf(batch[w])
  /\ pc[w] \in {"reserve", "embed"} \/ (pc[w] = "poison" /\ k[1] \in bad[w])

Holders(k) == { w \in Workers : Holds(w, k) }

\* A recorded key gets no new holders, and each record takes one away.
DeadInv ==
  \A k \in Keys : dead[k] = 0 \/ dead[k] + Cardinality(Holders(k)) <= Cardinality(Workers)

\* Of a recorded key, no step but a record changes the count, and none adds a holder.
LEMMA HoldersShrink ==
  ASSUME TypeInv, [Next]_vars, NEW k \in Keys, dead[k] # 0,
         ~ \E w \in Workers : DeadLetter(w)
  PROVE  dead'[k] = dead[k] /\ Holders(k)' \subseteq Holders(k)
<1> USE DEF TypeInv, TypeOK, ControlTypeOK
<1>1. CASE UNCHANGED <<pc, batch, bad, dead>>
  BY <1>1 DEF Holders, Holds
<1>2. ASSUME NEW w \in Workers, Work(w) \/ Start(w) \/ Crash(w)
      PROVE  /\ UNCHANGED dead
             /\ \A v \in Workers \ {w} : UNCHANGED <<pc[v], batch[v], bad[v]>>
  BY <1>2 DEF Start, Crash, Work, Enter, Refuse, Begin, BeginIllegal, Claim, Reconcile,
     Recheck, RecheckError, Finish, NoInlineText, Reserve, PauseBudget, EmbedSucceeds,
     EmbedPoisoned, EmbedTransient, EmbedPaused, EmbedRaises, PauseError, Upsert, Account,
     Exit, Goto, controlVars
<1>3. ASSUME NEW w \in Workers, Work(w) \/ Start(w) \/ Crash(w), Holds(w, k)'
      PROVE  Holds(w, k)
  <2>1. CASE Claim(w)
    <3>1. batch'[w] = ClaimBatch(DeadKeys)
      BY <2>1 DEF Claim
    <3>2. k \notin KeysOf(batch'[w])
      <4>1. k \in DeadKeys
        BY DEF DeadKeys
      <4>2. \A d \in FirstClaimable(DeadKeys) : <<d, rows[d].text>> \notin DeadKeys
        BY DEF FirstClaimable, Claimable
      <4>3. \A d \in DOMAIN batch'[w] : <<d, batch'[w][d]>> \notin DeadKeys
        BY <3>1, <4>2 DEF ClaimBatch
      <4> QED BY <4>1, <4>3 DEF KeysOf
    <3> QED BY <1>3, <3>2 DEF Holds
  <2>2. CASE Reserve(w)
    BY <1>3, <2>2 DEF Reserve, Holds, Goto
  <2>3. CASE EmbedPoisoned(w)
    BY <1>3, <2>3 DEF EmbedPoisoned, Holds, Goto
  <2>4. CASE ~Claim(w) /\ ~Reserve(w) /\ ~EmbedPoisoned(w)
    <3>1. pc'[w] \notin {"reserve", "embed", "poison"}
      BY <1>3, <2>4 DEF Start, Crash, Work, Enter, Refuse, Begin, BeginIllegal, Reconcile,
         Recheck, RecheckError, Finish, NoInlineText, PauseBudget, EmbedSucceeds,
         EmbedTransient, EmbedPaused, EmbedRaises, PauseError, Upsert, Account, Exit, Goto
    <3> QED BY <1>3, <3>1 DEF Holds
  <2> QED BY <2>1, <2>2, <2>3, <2>4
<1>4. ASSUME NEW w \in Workers, Work(w) \/ Start(w) \/ Crash(w)
      PROVE  dead'[k] = dead[k] /\ Holders(k)' \subseteq Holders(k)
  BY <1>2, <1>3, <1>4 DEF Holders, Holds
<1> QED BY <1>1, <1>4
        DEF Next, Operate, Write, Commit, Rollback, vars, controlVars, workerVars

\* A record takes its worker from the holders of the key.
LEMMA RecordRemovesHolder ==
  ASSUME TypeInv, NEW w \in Workers, DeadLetter(w), NEW k \in Keys
  PROVE  \/ dead'[k] = dead[k] /\ Holders(k)' \subseteq Holders(k)
         \/ dead'[k] = dead[k] + 1 /\ Holders(k)' \subseteq Holders(k) \ {w} /\ w \in Holders(k)
<1> USE DEF TypeInv, TypeOK, ControlTypeOK
<1>1. PICK d \in bad[w] :
        /\ RecordDeadLetter(<<d, batch[w][d]>>)
        /\ bad' = [bad EXCEPT ![w] = @ \ {d}]
        /\ Goto(w, "claim") \/ UNCHANGED pc
  BY DEF DeadLetter
<1>2. UNCHANGED batch /\ pc[w] = "poison" /\ d \in DOMAIN batch[w]
  BY <1>1 DEF DeadLetter
<1>3. /\ pc'[w] \in {"claim", "poison"} /\ bad'[w] = bad[w] \ {d}
      /\ \A v \in Workers \ {w} : UNCHANGED <<pc[v], batch[v], bad[v]>>
  BY <1>1, <1>2 DEF Goto
<1>4. Holders(k)' \subseteq Holders(k)
  BY <1>2, <1>3 DEF Holders, Holds
<1>5. CASE k = <<d, batch[w][d]>>
  <2>1. Holds(w, k)
    BY <1>2, <1>5 DEF Holds, KeysOf
  <2>2. ~ Holds(w, k)'
    BY <1>3, <1>5 DEF Holds
  <2>3. dead'[k] = dead[k] + 1
    BY <1>1, <1>5 DEF RecordDeadLetter
  <2> QED BY <1>4, <2>1, <2>2, <2>3 DEF Holders
<1>6. CASE k # <<d, batch[w][d]>>
  BY <1>1, <1>4, <1>6 DEF RecordDeadLetter
<1> QED BY <1>5, <1>6

LEMMA DeadNext == TypeInv /\ DeadInv /\ [Next]_vars => DeadInv'
<1> SUFFICES ASSUME TypeInv, DeadInv, [Next]_vars, NEW k \in Keys
             PROVE  dead'[k] = 0 \/ dead'[k] + Cardinality(Holders(k)') <= Cardinality(Workers)
  BY DEF DeadInv
<1> DEFINE H == Holders(k)
           G == Holders(k)'
           N == Cardinality(Workers)
<1>1. dead[k] \in Nat /\ (dead[k] = 0 \/ dead[k] + Cardinality(H) <= N)
  BY DEF TypeInv, TypeOK, ControlTypeOK, DeadInv
<1>2. /\ IsFiniteSet(H) /\ Cardinality(H) \in Nat /\ Cardinality(H) <= N
      /\ IsFiniteSet(G) /\ Cardinality(G) \in Nat /\ N \in Nat
  <2>1. H \in SUBSET Workers /\ G \in SUBSET Workers
    BY DEF Holders
  <2> HIDE DEF H, G
  <2> QED BY <2>1, BackfillAssumption, FS_Subset, FS_CardinalityType
<1> HIDE DEF H, G, N
<1>3. CASE dead'[k] = dead[k] /\ G \subseteq H
  <2>1. Cardinality(G) <= Cardinality(H)
    BY <1>2, <1>3, FS_Subset
  <2> QED BY <1>1, <1>2, <1>3, <2>1 DEF G, N
<1>4. ASSUME NEW w \in Workers, dead'[k] = dead[k] + 1, G \subseteq H \ {w}, w \in H
      PROVE  dead'[k] + Cardinality(G) <= N
  <2>1. IsFiniteSet(H \ {w}) /\ Cardinality(H \ {w}) = Cardinality(H) - 1
    BY <1>2, <1>4, FS_RemoveElement
  <2>2. Cardinality(G) <= Cardinality(H) - 1
    BY <1>4, <2>1, FS_Subset
  <2> QED BY <1>1, <1>2, <1>4, <2>2
<1>5. CASE \E w \in Workers : DeadLetter(w)
  BY <1>3, <1>4, <1>5, RecordRemovesHolder DEF G, H, N
<1>6. CASE ~ \E w \in Workers : DeadLetter(w)
  <2>1. CASE dead[k] # 0
    BY <1>3, <1>6, <2>1, HoldersShrink DEF G, H
  <2>2. CASE dead[k] = 0
    <3>1. UNCHANGED dead
      BY <1>6 DEF Next, Start, Crash, Operate, Write, Commit, Rollback, Work, Enter, Refuse,
         Begin, BeginIllegal, Claim, Reconcile, Recheck, RecheckError, Finish, NoInlineText,
         Reserve, PauseBudget, EmbedSucceeds, EmbedPoisoned, EmbedTransient, EmbedPaused,
         EmbedRaises, PauseError, Upsert, Account, CommitSpend, controlVars, vars
    <3> QED BY <2>2, <3>1
  <2> QED BY <2>1, <2>2
<1> QED BY <1>5, <1>6

\* Each worker records a key at most once, for any number of workers and crashes.
THEOREM DeadLetteredOncePerWorkerTheorem == Spec => []DeadLetteredOncePerWorker
<1>1. Init => DeadInv
  BY DEF Init, ControlInit, DeadInv
<1>2. TypeInv /\ DeadInv => DeadLetteredOncePerWorker
  <2> SUFFICES ASSUME TypeInv, DeadInv, NEW k \in Keys PROVE dead[k] <= Cardinality(Workers)
    BY DEF DeadLetteredOncePerWorker
  <2>1. Holders(k) \in SUBSET Workers
    BY DEF Holders
  <2>2. Cardinality(Holders(k)) \in Nat /\ Cardinality(Workers) \in Nat
    BY <2>1, BackfillAssumption, FS_Subset, FS_CardinalityType
  <2> QED BY <2>2 DEF DeadInv, TypeInv, TypeOK, ControlTypeOK
<1> QED BY <1>1, <1>2, DeadNext, TypeCorrect, PTL DEF Spec

-----------------------------------------------------------------------------
(* The ledger against the bill.                                            *)

\* No row is so long that there is no bound to what a batch may cost.
BoundedTokens == \E m \in Nat : \A b \in Batches : TokenCount(b) <= m

BatchInv == \A w \in Workers : Cardinality(DOMAIN batch[w]) <= BatchSize

\* The accounts, with what is in flight as the sum of what the workers hold.
HandInv ==
  /\ ledger.tokens + Total(Hands, Workers) <= billed
  /\ billed <= ledger.tokens + Total(Hands, Workers) + crashes * BatchCost
  /\ ledger.usd = Price * ledger.tokens

\* No batch within the limit costs more than BatchCost.
LEMMA CostBounds ==
  ASSUME BoundedTokens
  PROVE  /\ BatchCost \in Nat
         /\ \A b \in Batches : Cardinality(DOMAIN b) <= BatchSize => TokenCount(b) <= BatchCost
<1> DEFINE S == { TokenCount(b) : b \in { c \in Batches : Cardinality(DOMAIN c) <= BatchSize } }
<1>1. S \in SUBSET Nat
  BY BackfillAssumption
<1>2. PICK m \in Nat : \A b \in Batches : TokenCount(b) <= m
  BY DEF BoundedTokens
<1>3. DOMAIN NoBatch = {} /\ Cardinality({}) = 0
  BY FS_EmptySet DEF NoBatch
<1>4. TokenCount(NoBatch) \in S
  BY <1>3, NoBatchType, StoreAssumption
<1>5. \A x \in S : x <= m
  BY <1>2
<1> HIDE DEF S
<1>6. \A x \in S : x <= Max(S) /\ Max(S) \in Nat
  BY <1>1, <1>5, MaxBounds
<1>7. BatchCost = Max(S)
  BY DEF BatchCost, S
<1>8. \A b \in Batches : Cardinality(DOMAIN b) <= BatchSize => TokenCount(b) \in S
  BY DEF S
<1> QED BY <1>4, <1>6, <1>7, <1>8

\* Batches stay within the limit.
LEMMA BatchNext == TypeInv /\ BatchInv /\ [Next]_vars => BatchInv'
<1> SUFFICES ASSUME TypeInv, BatchInv, [Next]_vars, NEW v \in Workers
             PROVE  Cardinality(DOMAIN batch'[v]) <= BatchSize
  BY DEF BatchInv
<1>1. Cardinality(DOMAIN batch[v]) <= BatchSize
  BY DEF BatchInv
<1>2. Cardinality(DOMAIN NoBatch) <= BatchSize
  BY FS_EmptySet, StoreAssumption DEF NoBatch
<1>3. Cardinality(DOMAIN ClaimBatch(DeadKeys)) <= BatchSize
  BY ClaimWithinLimit
<1>4. batch'[v] \in {batch[v], NoBatch, ClaimBatch(DeadKeys)}
  BY DEF TypeInv, TypeOK, Next, Start, Crash, Operate, Write, Commit, Rollback, vars,
     workerVars, Work, Enter, Refuse, Begin, BeginIllegal, Claim, Reconcile, Recheck,
     RecheckError, Finish, NoInlineText, Reserve, PauseBudget, EmbedSucceeds,
     EmbedPoisoned, EmbedTransient, EmbedPaused, EmbedRaises, DeadLetter, PauseError,
     Upsert, Account, Exit
<1> QED BY <1>1, <1>2, <1>3, <1>4

\* What one more crash, and one more recorded batch, add.
LEMMA OneMoreCrash == \A c, k \in Nat : (c + 1) * k = c * k + k /\ c * k \in Nat
  OBVIOUS

LEMMA OneMoreBatch == \A p, t, n \in Nat : p * (t + n) = p * t + n * p
  OBVIOUS

\* A worker never holds more than one batch.
LEMMA HandBounds ==
  ASSUME BoundedTokens, TypeInv, BatchInv
  PROVE  BatchCost \in Nat /\ \A w \in Workers : Hand(w) \in 0 .. BatchCost
<1> SUFFICES ASSUME NEW w \in Workers PROVE BatchCost \in Nat /\ Hand(w) \in 0 .. BatchCost
  BY CostBounds
<1>1. batch[w] \in Batches /\ TokenCount(batch[w]) \in Nat
  BY BackfillAssumption DEF TypeInv, TypeOK
<1>2. TokenCount(batch[w]) <= BatchCost
  BY <1>1, CostBounds DEF BatchInv
<1> QED BY <1>1, <1>2, CostBounds DEF Hand

\* A step that leaves the other workers alone changes the sum as it changes one.
LEMMA HandsStep ==
  ASSUME NEW m \in Nat, NEW w \in Workers,
         \A v \in Workers : Hand(v) \in 0 .. m /\ Hand(v)' \in 0 .. m,
         \A v \in Workers \ {w} : pc'[v] = pc[v] /\ batch'[v] = batch[v]
  PROVE  /\ Total(Hands, Workers)' = Total(Hands, Workers) - Hand(w) + Hand(w)'
         /\ Total(Hands, Workers) \in Nat /\ Total(Hands, Workers)' \in Nat
         /\ Hand(w) \in 0 .. m /\ Hand(w)' \in 0 .. m
<1>1. /\ \A v \in Workers : Hands[v] \in 0 .. m /\ Hands'[v] \in 0 .. m
      /\ \A v \in Workers \ {w} : Hands'[v] = Hands[v]
      /\ Hands[w] = Hand(w) /\ Hands'[w] = Hand(w)'
  BY DEF Hands, Hand
<1>2. Total(Hands', Workers) = Total(Hands, Workers) - Hands[w] + Hands'[w]
  BY <1>1, BackfillAssumption, TotalUpdate
<1>3. Total(Hands, Workers) \in Nat /\ Total(Hands', Workers) \in Nat
  BY <1>1, BackfillAssumption, TotalBound
<1> QED BY <1>1, <1>2, <1>3

\* Every step keeps the accounts.
LEMMA HandNext ==
  ASSUME BoundedTokens
  PROVE  TypeInv /\ BatchInv /\ HandInv /\ [Next]_vars => HandInv'
<1> SUFFICES ASSUME TypeInv, BatchInv, HandInv, [Next]_vars PROVE HandInv'
  OBVIOUS
<1> DEFINE K == BatchCost
           T == Total(Hands, Workers)
<1>1. TypeInv' /\ BatchInv'
  BY NextType, BatchNext
<1>2. K \in Nat /\ \A v \in Workers : Hand(v) \in 0 .. K /\ Hand(v)' \in 0 .. K
  <2>1. \A v \in Workers : Hand(v) \in 0 .. K
    BY HandBounds
  <2>2. \A v \in Workers : batch'[v] \in Batches /\ Cardinality(DOMAIN batch'[v]) <= BatchSize
    BY <1>1 DEF TypeInv, TypeOK, BatchInv
  <2>3. \A v \in Workers : TokenCount(batch'[v]) \in 0 .. K
    BY <2>2, CostBounds, BackfillAssumption
  <2> QED BY <2>1, <2>3, CostBounds DEF Hand
<1>3. /\ ledger.tokens \in Nat /\ billed \in Nat /\ crashes \in Nat /\ crashes * K \in Nat
      /\ pc \in [Workers -> Steps] /\ batch \in [Workers -> Batches] /\ ledger \in Spend
  BY <1>2, OneMoreCrash, BackfillAssumption DEF TypeInv, TypeOK, ControlTypeOK, Spend
<1>4. /\ ledger.tokens + T <= billed
      /\ billed <= ledger.tokens + T + crashes * K
      /\ ledger.usd = Price * ledger.tokens
      /\ T \in Nat
  <2>1. \A v \in Workers : Hands[v] \in 0 .. K
    BY <1>2 DEF Hands
  <2>2. T \in Nat
    BY <1>2, <2>1, BackfillAssumption, TotalBound
  <2> QED BY <2>2 DEF HandInv
<1> SUFFICES /\ ledger'.tokens + T' <= billed'
             /\ billed' <= ledger'.tokens + T' + crashes' * K
             /\ ledger'.usd = Price * ledger'.tokens
  BY DEF HandInv
<1>5. ASSUME NEW w \in Workers,
             \A v \in Workers \ {w} : pc'[v] = pc[v] /\ batch'[v] = batch[v]
      PROVE  T' = T - Hand(w) + Hand(w)' /\ T' \in Nat /\ Hand(w) \in 0 .. K /\ Hand(w)' \in 0 .. K
  <2> HIDE DEF K
  <2> QED BY <1>2, <1>5, HandsStep
<1> HIDE DEF K, T
<1>6. ASSUME NEW w \in Workers, Crash(w)
      PROVE  /\ ledger'.tokens + T' <= billed'
             /\ billed' <= ledger'.tokens + T' + crashes' * K
             /\ ledger'.usd = Price * ledger'.tokens
  <2>1. /\ UNCHANGED <<ledger, billed>> /\ crashes' = crashes + 1 /\ Hand(w)' = 0
        /\ \A v \in Workers \ {w} : pc'[v] = pc[v] /\ batch'[v] = batch[v]
    BY <1>3, <1>6 DEF Crash, Exit, Goto, controlVars, Hand
  <2>2. crashes' * K = crashes * K + K
    BY <1>2, <1>3, <2>1, OneMoreCrash
  <2>3. T' = T - Hand(w) /\ Hand(w) \in 0 .. K /\ T' \in Nat
    BY <1>4, <1>5, <2>1
  <2> QED BY <1>2, <1>3, <1>4, <2>1, <2>2, <2>3
<1>7. ASSUME NEW w \in Workers, EmbedSucceeds(w)
      PROVE  /\ ledger'.tokens + T' <= billed'
             /\ billed' <= ledger'.tokens + T' + crashes' * K
             /\ ledger'.usd = Price * ledger'.tokens
  <2>1. /\ UNCHANGED <<ledger, crashes>> /\ billed' = billed + Hand(w)' /\ Hand(w) = 0
        /\ \A v \in Workers \ {w} : pc'[v] = pc[v] /\ batch'[v] = batch[v]
    BY <1>3, <1>7 DEF EmbedSucceeds, Goto, controlVars, Hand
  <2>2. T' = T + Hand(w)' /\ Hand(w)' \in 0 .. K
    BY <1>4, <1>5, <2>1
  <2> QED BY <1>2, <1>3, <1>4, <2>1, <2>2
<1>8. ASSUME NEW w \in Workers, Account(w)
      PROVE  /\ ledger'.tokens + T' <= billed'
             /\ billed' <= ledger'.tokens + T' + crashes' * K
             /\ ledger'.usd = Price * ledger'.tokens
  <2>1. /\ UNCHANGED <<billed, crashes>> /\ Hand(w)' = 0
        /\ ledger' = Plus(ledger, SpendOf(Hand(w)))
        /\ \A v \in Workers \ {w} : pc'[v] = pc[v] /\ batch'[v] = batch[v]
    BY <1>3, <1>8 DEF Account, Goto, CommitSpend, historyVars, Hand
  <2>2. T' = T - Hand(w) /\ Hand(w) \in 0 .. K /\ T' \in Nat
    BY <1>4, <1>5, <2>1
  <2>3. ledger'.tokens = ledger.tokens + Hand(w) /\ ledger'.usd = ledger.usd + Hand(w) * Price
    BY <2>1 DEF Plus, SpendOf
  <2>4. ledger'.usd = Price * ledger'.tokens
    BY <1>2, <1>3, <1>4, <2>2, <2>3, OneMoreBatch, PriceAssumption
  <2> QED BY <1>2, <1>3, <1>4, <2>1, <2>2, <2>3, <2>4
<1>9. ASSUME UNCHANGED <<ledger, billed, crashes>>, T' = T
      PROVE  /\ ledger'.tokens + T' <= billed'
             /\ billed' <= ledger'.tokens + T' + crashes' * K
             /\ ledger'.usd = Price * ledger'.tokens
  BY <1>4, <1>9
<1>10. ASSUME NEW w \in Workers,
              Start(w) \/ (Work(w) /\ ~EmbedSucceeds(w) /\ ~Account(w))
       PROVE  UNCHANGED <<ledger, billed, crashes>> /\ T' = T
  <2>1. UNCHANGED <<ledger, billed, crashes>>
    BY <1>10 DEF Work, Start, Enter, Refuse, Begin, BeginIllegal, Claim, Reconcile, Recheck,
       RecheckError, Finish, NoInlineText, Reserve, PauseBudget, EmbedPoisoned,
       EmbedTransient, EmbedPaused, EmbedRaises, DeadLetter, PauseError, Upsert,
       controlVars, historyVars
  <2>2. Hand(w)' = Hand(w)
    BY <1>3, <1>10 DEF Work, Start, Enter, Refuse, Begin, BeginIllegal, Claim,
       Reconcile, Recheck, RecheckError, Finish, NoInlineText, Reserve, PauseBudget,
       EmbedPoisoned, EmbedTransient, EmbedPaused, EmbedRaises, DeadLetter, PauseError,
       Upsert, Exit, Goto, Hand
  <2>3. \A v \in Workers \ {w} : pc'[v] = pc[v] /\ batch'[v] = batch[v]
    BY <1>3, <1>10 DEF Work, Start, Enter, Refuse, Begin, BeginIllegal, Claim,
       Reconcile, Recheck, RecheckError, Finish, NoInlineText, Reserve, PauseBudget,
       EmbedPoisoned, EmbedTransient, EmbedPaused, EmbedRaises, DeadLetter, PauseError,
       Upsert, Exit, Goto
  <2>4. T' = T - Hand(w) + Hand(w) /\ Hand(w) \in Nat
    BY <1>5, <2>2, <2>3
  <2> QED BY <1>4, <2>1, <2>4
<1>11. CASE UNCHANGED <<ledger, billed, crashes, pc, batch>>
  <2>1. T' = T
    BY <1>11 DEF T, Total, Units, Hands, Hand
  <2> QED BY <1>9, <1>11, <2>1
<1> QED BY <1>6, <1>7, <1>8, <1>9, <1>10, <1>11
        DEF Next, Operate, Write, Commit, Rollback, vars, controlVars, workerVars, historyVars

\* The accounts hold throughout.
LEMMA Accounts ==
  ASSUME BoundedTokens
  PROVE  Spec => [](TypeInv /\ BatchInv /\ HandInv)
<1>1. Init => BatchInv /\ HandInv
  <2> SUFFICES ASSUME Init PROVE BatchInv /\ HandInv
    OBVIOUS
  <2>1. BatchInv
    BY FS_EmptySet, StoreAssumption DEF Init, BatchInv, NoBatch
  <2>2. Total(Hands, Workers) = 0
    BY TotalZero DEF Init, Hands, Hand
  <2>3. HandInv
    BY <2>2, PriceAssumption, CostBounds DEF Init, ControlInit, NoSpend, HandInv
  <2> QED BY <2>1, <2>3
<1>2. TypeInv /\ BatchInv /\ [Next]_vars => BatchInv'
  BY BatchNext
<1>3. TypeInv /\ BatchInv /\ HandInv /\ [Next]_vars => HandInv'
  BY HandNext
<1> QED BY <1>1, <1>2, <1>3, TypeCorrect, PTL DEF Spec

\* The ledger counts nothing the provider has not billed, and each crash loses at
\* most one batch (I5), for any number of workers, every corpus whose token counts
\* are bounded, every price and any number of crashes.
THEOREM LedgerTheorem ==
  ASSUME BoundedTokens
  PROVE  Spec => []LedgerWithinOneBatchPerCrash
<1>1. TypeInv /\ BatchInv /\ HandInv => LedgerWithinOneBatchPerCrash
  <2> SUFFICES ASSUME TypeInv, BatchInv, HandInv PROVE LedgerWithinOneBatchPerCrash
    OBVIOUS
  <2>1. InFlight = Total(Hands, Workers)
    BY HandBounds, InFlightIsTotal
  <2> QED BY <2>1 DEF HandInv, LedgerWithinOneBatchPerCrash
<1> QED BY <1>1, Accounts, PTL

-----------------------------------------------------------------------------
(* The ceilings of several workers.  Each worker may still spend what its  *)
(* own counters leave under its own ceiling; the ledger and all that may   *)
(* still be spent never pass one ceiling per worker.                       *)

\* The operator chooses among budgets that have a bound.
BoundedLimits ==
  Limits # {} /\ \E m \in Nat : \A l \in Limits : l.tokens <= m /\ l.usd <= m

\* What is counted; u is either, so that one argument serves both ceilings.
Measures == {"tokens", "usd"}

Ceiling(u) == Max({ l[u] : l \in Limits })

\* What a worker's counters leave under its ceiling.
Room(w, u) ==
  IF pc[w] # "idle" /\ mirror[w][u] <= limit[w][u] THEN limit[w][u] - mirror[w][u] ELSE 0

Rooms(u) == [w \in Workers |-> Room(w, u)]

\* A worker has a configured budget, and what it has reserved fits its counters.
ReservedInv ==
  \A w \in Workers :
    /\ pc[w] # "idle" => limit[w] \in Limits
    /\ pc[w] \in {"embed", "upsert", "commit"} => Fits(w)

RoomInv ==
  \A u \in Measures :
    ledger[u] + Total(Rooms(u), Workers) <= Cardinality(Workers) * Ceiling(u)

LEMMA MeasureType ==
  ASSUME NEW s \in Spend, NEW u \in Measures
  PROVE  s[u] \in Nat
  BY DEF Spend, Measures

LEMMA PlusMeasure ==
  ASSUME NEW s \in Spend, NEW t \in Spend, NEW u \in Measures
  PROVE  Plus(s, t) \in Spend /\ Plus(s, t)[u] = s[u] + t[u]
  BY DEF Spend, Measures, Plus

\* Every configured budget is below the ceiling.
LEMMA CeilingBounds ==
  ASSUME BoundedLimits, NEW u \in Measures
  PROVE  Ceiling(u) \in Nat /\ \A l \in Limits : l[u] \in 0 .. Ceiling(u)
<1> DEFINE S == { l[u] : l \in Limits }
<1>1. PICK m \in Nat : \A l \in Limits : l.tokens <= m /\ l.usd <= m
  BY DEF BoundedLimits
<1>2. \A l \in Limits : l[u] \in Nat /\ l[u] <= m
  BY <1>1, BackfillAssumption DEF Measures, Spend
<1>3. S \in SUBSET Nat /\ \A x \in S : x <= m
  BY <1>2
<1>4. PICK l \in Limits : TRUE
  BY DEF BoundedLimits
<1>5. l[u] \in S
  OBVIOUS
<1> HIDE DEF S
<1>6. \A x \in S : x <= Max(S) /\ Max(S) \in Nat
  BY <1>3, MaxBounds
<1>7. Ceiling(u) = Max(S)
  BY DEF Ceiling, S
<1>8. \A k \in Limits : k[u] \in S
  BY DEF S
<1> QED BY <1>2, <1>5, <1>6, <1>7, <1>8

\* A worker that passes its reservation has compared it with its ceilings.
LEMMA ReservedNext == TypeInv /\ ReservedInv /\ [Next]_vars => ReservedInv'
<1> SUFFICES ASSUME TypeInv, ReservedInv, [Next]_vars, NEW v \in Workers
             PROVE  /\ pc'[v] # "idle" => limit'[v] \in Limits
                    /\ pc'[v] \in {"embed", "upsert", "commit"} => Fits(v)'
  BY DEF ReservedInv
<1> USE DEF TypeInv, TypeOK
<1>1. /\ pc[v] # "idle" => limit[v] \in Limits
      /\ pc[v] \in {"embed", "upsert", "commit"} => Fits(v)
  BY DEF ReservedInv
<1>2. ASSUME UNCHANGED <<pc[v], batch[v], mirror[v], limit[v]>>
      PROVE  /\ pc'[v] # "idle" => limit'[v] \in Limits
             /\ pc'[v] \in {"embed", "upsert", "commit"} => Fits(v)'
  BY <1>1, <1>2 DEF Fits, Estimate
<1>3. CASE Work(v)
  <2>1. CASE Reserve(v) \/ EmbedSucceeds(v) \/ Upsert(v)
    <3>1. UNCHANGED <<batch, mirror, limit>> /\ pc[v] # "idle"
      BY <2>1 DEF Reserve, EmbedSucceeds, Upsert
    <3>2. pc'[v] \in {"embed", "upsert", "commit"} => Fits(v)
      BY <1>1, <2>1 DEF Reserve, EmbedSucceeds, Upsert, Goto
    <3> QED BY <1>1, <3>1, <3>2 DEF Fits, Estimate
  <2>2. CASE ~Reserve(v) /\ ~EmbedSucceeds(v) /\ ~Upsert(v)
    <3>1. pc'[v] \notin {"embed", "upsert", "commit"}
      BY <1>3, <2>2 DEF Work, Enter, Refuse, Begin, BeginIllegal, Claim, Reconcile, Recheck,
         RecheckError, Finish, NoInlineText, PauseBudget, EmbedPoisoned, EmbedTransient,
         EmbedPaused, EmbedRaises, DeadLetter, PauseError, Account, Exit, Goto
    <3>2. pc[v] # "idle" /\ (pc'[v] # "idle" => limit'[v] = limit[v])
      BY <1>3, <2>2 DEF Work, Enter, Refuse, Begin, BeginIllegal, Claim, Reconcile, Recheck,
         RecheckError, Finish, NoInlineText, PauseBudget, EmbedPoisoned, EmbedTransient,
         EmbedPaused, EmbedRaises, DeadLetter, PauseError, Account, Exit, Goto
    <3> QED BY <1>1, <3>1, <3>2
  <2> QED BY <2>1, <2>2
<1>4. CASE Start(v)
  BY <1>4 DEF Start, Goto
<1>5. CASE Crash(v)
  BY <1>5 DEF Crash, Exit, Goto
<1>6. ASSUME NEW w \in Workers \ {v}, Start(w) \/ Work(w) \/ Crash(w)
      PROVE  UNCHANGED <<pc[v], batch[v], mirror[v], limit[v]>>
  BY <1>6 DEF Start, Crash, Work, Enter, Refuse, Begin, BeginIllegal, Claim, Reconcile,
     Recheck, RecheckError, Finish, NoInlineText, Reserve, PauseBudget, EmbedSucceeds,
     EmbedPoisoned, EmbedTransient, EmbedPaused, EmbedRaises, DeadLetter, PauseError,
     Upsert, Account, Exit, Goto
<1>7. CASE UNCHANGED workerVars
  BY <1>2, <1>7 DEF workerVars
<1> QED BY <1>2, <1>3, <1>4, <1>5, <1>6, <1>7
        DEF Next, Operate, Write, Commit, Rollback, vars

\* No worker has more room than the highest ceiling.
LEMMA RoomBounds ==
  ASSUME BoundedLimits, TypeInv, ReservedInv, NEW u \in Measures, NEW w \in Workers
  PROVE  /\ Room(w, u) \in 0 .. Ceiling(u)
         /\ mirror[w][u] \in Nat /\ limit[w][u] \in Nat /\ Ceiling(u) \in Nat
<1>1. mirror[w][u] \in Nat /\ limit[w][u] \in Nat
  BY MeasureType DEF TypeInv, TypeOK
<1>2. Ceiling(u) \in Nat /\ (pc[w] # "idle" => limit[w][u] <= Ceiling(u))
  BY CeilingBounds DEF ReservedInv
<1> QED BY <1>1, <1>2 DEF Room

\* Every step keeps what is on record and what may still be spent within bounds.
LEMMA RoomNext ==
  ASSUME BoundedLimits
  PROVE  TypeInv /\ ReservedInv /\ RoomInv /\ [Next]_vars => RoomInv'
<1> SUFFICES ASSUME TypeInv, ReservedInv, RoomInv, [Next]_vars, NEW u \in Measures
             PROVE  ledger'[u] + Total(Rooms(u)', Workers) <= Cardinality(Workers) * Ceiling(u)
  BY DEF RoomInv, Ceiling
<1> DEFINE M == Ceiling(u)
           N == Cardinality(Workers) * M
           T == Total(Rooms(u), Workers)
           U == Total(Rooms(u)', Workers)
<1>1. TypeInv' /\ ReservedInv'
  BY NextType, ReservedNext
<1>2. /\ M \in Nat
      /\ \A v \in Workers : Rooms(u)[v] = Room(v, u) /\ Rooms(u)[v] \in 0 .. M
      /\ \A v \in Workers : Rooms(u)'[v] = Room(v, u)' /\ Rooms(u)'[v] \in 0 .. M
  <2>1. M \in Nat /\ \A v \in Workers : Room(v, u) \in 0 .. M
    BY CeilingBounds, RoomBounds
  <2>2. \A v \in Workers : /\ mirror'[v][u] \in Nat /\ limit'[v][u] \in Nat
                           /\ pc'[v] # "idle" => limit'[v][u] <= M
    BY <1>1, CeilingBounds, MeasureType DEF TypeInv, TypeOK, ReservedInv
  <2> HIDE DEF M
  <2>3. \A v \in Workers : Room(v, u)' \in 0 .. M
    BY <2>1, <2>2 DEF Room
  <2> QED BY <2>1, <2>3 DEF Rooms
<1>3. T \in Nat /\ U \in Nat /\ N \in Nat /\ T <= N /\ U <= N
  BY <1>2, BackfillAssumption, TotalBound, FS_CardinalityType
<1>4. ledger[u] \in Nat /\ ledger'[u] \in Nat /\ ledger[u] + T <= N
  BY <1>1, MeasureType DEF TypeInv, TypeOK, ControlTypeOK, RoomInv
<1>5. ASSUME NEW w \in Workers, \A v \in Workers \ {w} : Room(v, u)' = Room(v, u)
      PROVE  U = T - Room(w, u) + Room(w, u)'
  BY <1>2, <1>5, BackfillAssumption, TotalUpdate
<1> SUFFICES ledger'[u] + U <= N
  OBVIOUS
<1>6. ASSUME NEW w \in Workers, Start(w) PROVE ledger'[u] + U <= N
  <2> DEFINE G == [Rooms(u) EXCEPT ![w] = M]
  <2>1. /\ Room(w, u) = 0 /\ ledger' = ledger
        /\ Room(w, u)' = IF ledger[u] <= limit'[w][u] THEN limit'[w][u] - ledger[u] ELSE 0
        /\ \A v \in Workers \ {w} : Room(v, u)' = Room(v, u)
    BY <1>6 DEF Start, Goto, controlVars, Room, TypeInv, TypeOK
  <2>2. U = T + Room(w, u)' /\ Room(w, u)' \in 0 .. M
    BY <1>2, <1>3, <1>5, <2>1
  <2>3. CASE Room(w, u)' = 0
    BY <1>3, <1>4, <2>1, <2>2, <2>3
  <2>4. CASE Room(w, u)' # 0
    <3>1. ledger[u] + Room(w, u)' <= M
      <4>1. limit'[w][u] \in 0 .. M
        BY <1>1, <1>6, CeilingBounds DEF ReservedInv, Start, Goto, TypeInv, TypeOK
      <4> QED BY <1>2, <1>4, <2>1, <2>4, <4>1
    <3>2. /\ \A v \in Workers : G[v] \in 0 .. M
          /\ G[w] = M /\ \A v \in Workers \ {w} : G[v] = Rooms(u)[v]
      BY <1>2 DEF Rooms
    <3>3. Total(G, Workers) = T - Rooms(u)[w] + M /\ Total(G, Workers) <= N
      <4> HIDE DEF G
      <4> QED BY <1>2, <3>2, BackfillAssumption, TotalUpdate, TotalBound
    <3>4. T + M <= N
      BY <1>2, <1>3, <2>1, <3>3
    <3> HIDE DEF M, N, T, U
    <3> QED BY <1>2, <1>3, <1>4, <2>1, <2>2, <3>1, <3>4
  <2> QED BY <2>3, <2>4
<1>7. ASSUME NEW w \in Workers, Account(w) PROVE ledger'[u] + U <= N
  <2>1. /\ \A v \in Workers \ {w} : Room(v, u)' = Room(v, u)
        /\ ledger' = Plus(ledger, Estimate(w)) /\ mirror'[w] = Plus(mirror[w], Estimate(w))
        /\ UNCHANGED limit /\ pc[w] = "commit" /\ pc'[w] = "claim"
    BY <1>7 DEF Account, Goto, CommitSpend, Estimate, Room, TypeInv, TypeOK
  <2>2. Estimate(w) \in Spend /\ ledger \in Spend /\ mirror[w] \in Spend
    BY BackfillAssumption, SpendType DEF TypeInv, TypeOK, ControlTypeOK, Estimate
  <2>3. /\ Estimate(w)[u] \in Nat /\ mirror[w][u] \in Nat /\ limit[w][u] \in Nat
        /\ ledger'[u] = ledger[u] + Estimate(w)[u]
        /\ mirror'[w][u] = mirror[w][u] + Estimate(w)[u]
    BY <2>1, <2>2, MeasureType, PlusMeasure DEF TypeInv, TypeOK
  <2>4. mirror[w][u] + Estimate(w)[u] <= limit[w][u]
    <3>1. Fits(w)
      BY <2>1 DEF ReservedInv
    <3> QED BY <2>2, <3>1 DEF Fits, Plus, Spend, Measures
  <2>5. Room(w, u)' = Room(w, u) - Estimate(w)[u]
    BY <2>1, <2>3, <2>4 DEF Room
  <2>6. U = T - Room(w, u) + Room(w, u)' /\ Room(w, u) \in Nat
    BY <1>2, <1>5, <2>1
  <2> HIDE DEF M, N, T, U
  <2> QED BY <1>3, <1>4, <2>3, <2>5, <2>6
<1>8. ASSUME UNCHANGED ledger, \A v \in Workers : Room(v, u)' <= Room(v, u)
      PROVE  ledger'[u] + U <= N
  <2>1. U <= T
    BY <1>2, <1>8, BackfillAssumption, TotalMonotonic
  <2> HIDE DEF M, N, T, U
  <2> QED BY <1>3, <1>4, <1>8, <2>1
<1>9. ASSUME NEW w \in Workers, Crash(w) \/ (Work(w) /\ ~Account(w))
      PROVE  UNCHANGED ledger /\ \A v \in Workers : Room(v, u)' <= Room(v, u)
  <2>1. UNCHANGED ledger
    BY <1>9 DEF Crash, Work, Enter, Refuse, Begin, BeginIllegal, Claim, Reconcile, Recheck,
       RecheckError, Finish, NoInlineText, Reserve, PauseBudget, EmbedSucceeds,
       EmbedPoisoned, EmbedTransient, EmbedPaused, EmbedRaises, DeadLetter, PauseError,
       Upsert, controlVars
  <2>2. \A v \in Workers : \/ pc'[v] = "idle"
                           \/ /\ UNCHANGED <<mirror[v], limit[v]>>
                              /\ pc'[v] # "idle" => pc[v] # "idle"
    BY <1>9 DEF Crash, Work, Enter, Refuse, Begin, BeginIllegal, Claim, Reconcile, Recheck,
       RecheckError, Finish, NoInlineText, Reserve, PauseBudget, EmbedSucceeds,
       EmbedPoisoned, EmbedTransient, EmbedPaused, EmbedRaises, DeadLetter, PauseError,
       Upsert, Exit, Goto, TypeInv, TypeOK
  <2>3. \A v \in Workers : Room(v, u) \in Nat /\ (Room(v, u)' = 0 \/ Room(v, u)' = Room(v, u))
    BY <1>2, <2>2 DEF Room
  <2> QED BY <2>1, <2>3
<1>10. CASE UNCHANGED <<ledger, pc, mirror, limit>>
  <2>1. \A v \in Workers : Room(v, u)' = Room(v, u)
    BY <1>10 DEF Room
  <2> QED BY <1>2, <1>8, <1>10, <2>1
<1> QED BY <1>6, <1>7, <1>8, <1>9, <1>10
        DEF Next, Operate, Write, Commit, Rollback, vars, controlVars, workerVars

\* What a worker holds fits in its room.
LEMMA HandFitsRoom ==
  ASSUME TypeInv, ReservedInv, NEW w \in Workers, NEW u \in Measures
  PROVE  SpendOf(Hand(w))[u] \in Nat /\ SpendOf(Hand(w))[u] <= Room(w, u)
<1>1. CASE pc[w] \in {"upsert", "commit"}
  <2>1. Estimate(w) \in Spend /\ Estimate(w) = SpendOf(Hand(w)) /\ mirror[w] \in Spend
        /\ limit[w] \in Spend
    BY <1>1, BackfillAssumption, SpendType DEF TypeInv, TypeOK, Estimate, Hand
  <2>2. Fits(w)
    BY <1>1 DEF ReservedInv
  <2>3. mirror[w][u] + Estimate(w)[u] <= limit[w][u]
    BY <2>1, <2>2 DEF Fits, Plus, Spend, Measures
  <2>4. Estimate(w)[u] \in Nat /\ mirror[w][u] \in Nat /\ limit[w][u] \in Nat
    BY <2>1, MeasureType
  <2> QED BY <1>1, <2>1, <2>3, <2>4 DEF Room
<1>2. CASE pc[w] \notin {"upsert", "commit"}
  <2>1. SpendOf(Hand(w))[u] = 0
    BY <1>2, PriceAssumption DEF Hand, SpendOf, Measures
  <2>2. mirror[w][u] \in Nat /\ limit[w][u] \in Nat
    BY MeasureType DEF TypeInv, TypeOK
  <2> QED BY <2>1, <2>2 DEF Room
<1> QED BY <1>1, <1>2

\* The room of the workers is bounded throughout.
LEMMA RoomsBounded ==
  ASSUME BoundedLimits
  PROVE  Spec => [](TypeInv /\ ReservedInv /\ RoomInv)
<1>1. Init => ReservedInv /\ RoomInv
  <2> SUFFICES ASSUME Init PROVE ReservedInv /\ RoomInv
    OBVIOUS
  <2>1. ReservedInv
    BY DEF Init, ReservedInv
  <2>2. ASSUME NEW u \in Measures
        PROVE  ledger[u] + Total(Rooms(u), Workers) <= Cardinality(Workers) * Ceiling(u)
    <3>1. Total(Rooms(u), Workers) = 0 /\ ledger[u] = 0
      BY TotalZero DEF Init, ControlInit, NoSpend, Measures, Rooms, Room
    <3>2. \A w \in Workers : Rooms(u)[w] \in 0 .. Ceiling(u)
      BY CeilingBounds DEF Init, Rooms, Room
    <3>3. Total(Rooms(u), Workers) <= Cardinality(Workers) * Ceiling(u)
      BY <3>2, CeilingBounds, BackfillAssumption, TotalBound
    <3> QED BY <3>1, <3>3
  <2> QED BY <2>1, <2>2 DEF RoomInv
<1>2. TypeInv /\ ReservedInv /\ [Next]_vars => ReservedInv'
  BY ReservedNext
<1>3. TypeInv /\ ReservedInv /\ RoomInv /\ [Next]_vars => RoomInv'
  BY RoomNext
<1> QED BY <1>1, <1>2, <1>3, TypeCorrect, PTL DEF Spec

\* However many workers run, crash and are started again, what they record and have in
\* flight stays within one ceiling each (I5), for every corpus, price and set of budgets.
THEOREM SpendTheorem ==
  ASSUME BoundedLimits
  PROVE  Spec => []SpendWithinOneCeilingPerWorker
<1>1. TypeInv /\ ReservedInv /\ RoomInv => SpendWithinOneCeilingPerWorker
  <2> SUFFICES ASSUME TypeInv, ReservedInv, RoomInv PROVE SpendWithinOneCeilingPerWorker
    OBVIOUS
  <2>1. ASSUME NEW u \in Measures
        PROVE  /\ ledger[u] + Total(Rooms(u), Workers) <= Cardinality(Workers) * Ceiling(u)
               /\ ledger[u] \in Nat /\ Ceiling(u) \in Nat /\ Cardinality(Workers) \in Nat
               /\ \A w \in Workers : /\ Rooms(u)[w] \in 0 .. Ceiling(u)
                                     /\ SpendOf(Hand(w))[u] \in 0 .. Ceiling(u)
                                     /\ SpendOf(Hand(w))[u] <= Rooms(u)[w]
    <3>1. ledger[u] + Total(Rooms(u), Workers) <= Cardinality(Workers) * Ceiling(u)
      BY DEF RoomInv
    <3>2. ledger[u] \in Nat /\ Ceiling(u) \in Nat /\ Cardinality(Workers) \in Nat
      BY MeasureType, CeilingBounds, BackfillAssumption, FS_CardinalityType
         DEF TypeInv, TypeOK, ControlTypeOK
    <3>3. \A w \in Workers : /\ Room(w, u) \in 0 .. Ceiling(u)
                             /\ SpendOf(Hand(w))[u] \in Nat
                             /\ SpendOf(Hand(w))[u] <= Room(w, u)
      BY RoomBounds, HandFitsRoom
    <3>4. \A w \in Workers : Rooms(u)[w] = Room(w, u)
      BY DEF Rooms
    <3>5. \A w \in Workers : SpendOf(Hand(w))[u] \in 0 .. Ceiling(u)
      BY <3>2, <3>3
    <3> QED BY <3>1, <3>2, <3>3, <3>4, <3>5
  <2>2. "tokens" \in Measures /\ "usd" \in Measures
    BY DEF Measures
  <2>3. \A w \in Workers : /\ Hands[w] = SpendOf(Hand(w))["tokens"]
                           /\ Hands[w] * Price = SpendOf(Hand(w))["usd"]
    BY DEF SpendOf, Hands
  <2>4. /\ \A w \in Workers : Hands[w] \in 0 .. Ceiling("tokens")
        /\ Total(Hands, Workers) <= Total(Rooms("tokens"), Workers)
        /\ Total(Hands, Workers) \in Nat /\ Total(Rooms("tokens"), Workers) \in Nat
    BY <2>1, <2>2, <2>3, BackfillAssumption, TotalMonotonic, TotalBound
  <2>5. InFlight = Total(Hands, Workers)
    BY <2>1, <2>2, <2>4, InFlightIsTotal DEF Hands
  <2>6. /\ Price * Total(Hands, Workers) <= Total(Rooms("usd"), Workers)
        /\ Price * Total(Hands, Workers) \in Nat /\ Total(Rooms("usd"), Workers) \in Nat
    <3> DEFINE G == [w \in Workers |-> Price * Hands[w]]
    <3>1. Total(G, Workers) = Price * Total(Hands, Workers)
      <4>1. Ceiling("tokens") \in Nat /\ Price \in Nat /\ IsFiniteSet(Workers)
        BY <2>1, <2>2, BackfillAssumption, PriceAssumption
      <4> QED BY <2>4, <4>1, TotalScale
    <3>2. \A w \in Workers : G[w] \in 0 .. Ceiling("usd") /\ G[w] <= Rooms("usd")[w]
      BY <2>1, <2>2, <2>3, <2>4, PriceAssumption
    <3> HIDE DEF G
    <3>3. /\ Total(G, Workers) <= Total(Rooms("usd"), Workers)
          /\ Total(G, Workers) \in Nat /\ Total(Rooms("usd"), Workers) \in Nat
      BY <2>1, <2>2, <3>2, BackfillAssumption, TotalMonotonic, TotalBound
    <3> QED BY <3>1, <3>3
  <2>7. ledger.tokens + InFlight <= Cardinality(Workers) * Ceiling("tokens")
    BY <2>1, <2>2, <2>4, <2>5
  <2>8. ledger.usd + Price * InFlight <= Cardinality(Workers) * Ceiling("usd")
    BY <2>1, <2>2, <2>5, <2>6
  <2> QED BY <2>7, <2>8 DEF SpendWithinOneCeilingPerWorker, Ceiling
<1> QED BY <1>1, RoomsBounded, PTL

\* What the provider bills for a migration: one ceiling per worker, and one batch for
\* each death of a worker (worker.py:199-202, budget.py:56-84).
BillBounded ==
  billed <= Cardinality(Workers) * Ceiling("tokens") + crashes * BatchCost

\* The operator's bill has a bound, whatever the workers, the provider, the application
\* and the crashes do.
THEOREM BillTheorem ==
  ASSUME BoundedTokens, BoundedLimits
  PROVE  Spec => []BillBounded
<1>1. TypeInv /\ BatchInv /\ LedgerWithinOneBatchPerCrash /\ SpendWithinOneCeilingPerWorker
        => BillBounded
  <2> SUFFICES ASSUME TypeInv, BatchInv, LedgerWithinOneBatchPerCrash,
                      SpendWithinOneCeilingPerWorker
               PROVE  BillBounded
    OBVIOUS
  <2> DEFINE N == Cardinality(Workers) * Ceiling("tokens")
             lost == crashes * BatchCost
  <2>1. ledger.tokens + InFlight <= N
    BY DEF SpendWithinOneCeilingPerWorker, Ceiling
  <2>2. billed <= ledger.tokens + InFlight + lost
    BY DEF LedgerWithinOneBatchPerCrash
  <2>3. InFlight \in Nat
    <3>1. BatchCost \in Nat /\ \A w \in Workers : Hand(w) \in 0 .. BatchCost
      BY HandBounds
    <3>2. Total(Hands, Workers) \in Nat
      BY <3>1, BackfillAssumption, TotalBound DEF Hands
    <3> QED BY <3>1, <3>2, InFlightIsTotal
  <2>4. billed \in Nat /\ ledger.tokens \in Nat /\ lost \in Nat /\ N \in Nat
    BY HandBounds, OneMoreCrash, CeilingBounds, BackfillAssumption, FS_CardinalityType
       DEF TypeInv, TypeOK, ControlTypeOK, Spend, Measures
  <2> HIDE DEF N, lost
  <2>5. billed <= N + lost
    BY <2>1, <2>2, <2>3, <2>4
  <2> QED BY <2>5 DEF BillBounded, N, lost
<1> QED BY <1>1, Accounts, LedgerTheorem, SpendTheorem, PTL

-----------------------------------------------------------------------------
(* The bill against the corpus.                                            *)

\* Rows of the batch that the worker's upsert would complete.
Wanted(w) == Matching(batch[w]) \cap PendingDocs

Opened == { d \in Docs : open[d] # NoWrite }

\* Work there is, and work the application is about to make.
Left == Cardinality(PendingDocs) + Cardinality(Opened)

\* A batch that has been overtaken is one the worker pays for in vain, a batch that was
\* paid for and still completes a row is one it has ahead.
Slack(w) ==
  IF pc[w] \in {"reserve", "embed"} /\ Wanted(w) = {} THEN 2
  ELSE IF pc[w] = "upsert" /\ Wanted(w) # {} THEN 0 ELSE 1

Slacks == [w \in Workers |-> Slack(w)]

\* Of paid batches each worker has one per row, per write and per own death.
Effort(paid) ==
  /\ billed <= paid * BatchCost
  /\ paid + Cardinality(Workers) * Left + Total(Slacks, Workers)
       <= Cardinality(Workers) * (Cardinality(Docs) + writes) + crashes
            + Cardinality(Workers)

EffortInv == \E paid \in Nat : Effort(paid)

\* What is counted is finite.
LEMMA EffortTypes ==
  ASSUME TypeInv
  PROVE  /\ IsFiniteSet(PendingDocs) /\ IsFiniteSet(Opened) /\ Left \in Nat
         /\ Cardinality(PendingDocs) \in Nat /\ Cardinality(Opened) \in Nat
         /\ Cardinality(Workers) \in Nat /\ Cardinality(Docs) \in Nat
         /\ Cardinality(PendingDocs) <= Cardinality(Docs)
         /\ \A w \in Workers : Slack(w) \in 0 .. 2 /\ Slacks[w] = Slack(w)
         /\ Total(Slacks, Workers) \in Nat
<1>1. PendingDocs \in SUBSET Docs /\ Opened \in SUBSET Docs
  BY DEF PendingDocs, Opened
<1>2. /\ IsFiniteSet(PendingDocs) /\ IsFiniteSet(Opened)
      /\ Cardinality(PendingDocs) <= Cardinality(Docs)
  BY <1>1, DocsAssumption, FS_Subset
<1>3. \A w \in Workers : Slack(w) \in 0 .. 2 /\ Slacks[w] = Slack(w)
  BY DEF Slacks, Slack
<1>4. Total(Slacks, Workers) \in Nat
  BY <1>3, BackfillAssumption, TotalBound
<1> QED BY <1>2, <1>3, <1>4, DocsAssumption, BackfillAssumption, FS_CardinalityType DEF Left

\* A step of one worker that writes no row changes its own slack only.
LEMMA SlackStep ==
  ASSUME TypeInv, TypeInv', NEW w \in Workers, UNCHANGED <<rows, open>>,
         \A v \in Workers \ {w} : pc'[v] = pc[v] /\ batch'[v] = batch[v]
  PROVE  /\ Left' = Left
         /\ Total(Slacks, Workers)' = Total(Slacks, Workers) - Slack(w) + Slack(w)'
         /\ Total(Slacks, Workers)' \in Nat
         /\ Slack(w)' \in 0 .. 2
<1>1. PendingDocs' = PendingDocs /\ Opened' = Opened
  BY DEF PendingDocs, Pending, Present, Opened
<1>2. \A v \in Workers \ {w} : Wanted(v)' = Wanted(v)
  BY <1>1 DEF Wanted, Matching, Present
<1>3. \A v \in Workers \ {w} : Slack(v)' = Slack(v)
  BY <1>2 DEF Slack
<1>4. \A v \in Workers : Slacks[v] = Slack(v) /\ Slacks'[v] = Slack(v)'
  BY DEF Slacks, Slack
<1>5. \A v \in Workers : Slack(v) \in 0 .. 2 /\ Slack(v)' \in 0 .. 2
  BY DEF Slack
<1>6. Total(Slacks', Workers) = Total(Slacks, Workers) - Slacks[w] + Slacks'[w]
  <2> DEFINE f == Slacks
             g == Slacks'
  <2>1. /\ \A v \in Workers : f[v] \in 0 .. 2 /\ g[v] \in 0 .. 2
        /\ \A v \in Workers \ {w} : g[v] = f[v]
    BY <1>3, <1>4, <1>5
  <2> HIDE DEF f, g
  <2>2. Total(g, Workers) = Total(f, Workers) - f[w] + g[w]
    BY <2>1, BackfillAssumption, TotalUpdate
  <2> QED BY <2>2 DEF f, g
<1>7. Total(Slacks', Workers) \in Nat
  <2>1. \A v \in Workers : Slacks'[v] \in 0 .. 2
    BY <1>4, <1>5
  <2> QED BY <2>1, BackfillAssumption, TotalBound
<1> QED BY <1>1, <1>4, <1>5, <1>6, <1>7 DEF Left

\* What an upsert does to the work there is: it completes its rows, and rewrites no text.
LEMMA UpsertCompletes ==
  ASSUME TypeInv, NEW b \in Batches, UpsertVectors(b, "embedded")
  PROVE  /\ \A d \in Docs : (Present(d)' <=> Present(d)) /\ (Pending(d) => Present(d))
         /\ \A d \in Docs : Present(d) => rows'[d].text = rows[d].text
         /\ \A d \in Docs : Pending(d)' <=> Pending(d) /\ d \notin Matching(b)
<1> SUFFICES ASSUME NEW d \in Docs
             PROVE  /\ (Present(d)' <=> Present(d)) /\ (Pending(d) => Present(d))
                    /\ Present(d) => rows'[d].text = rows[d].text
                    /\ Pending(d)' <=> Pending(d) /\ d \notin Matching(b)
  OBVIOUS
<1>1. rows'[d] = IF d \in Matching(b) THEN Embedded(rows[d], b[d], "embedded") ELSE rows[d]
  BY DEF UpsertVectors
<1>2. CASE d \in Matching(b)
  <2>1. Present(d) /\ rows[d].text = b[d] /\ b[d] \in Texts
    BY <1>2 DEF Matching, Batches
  <2>2. rows'[d] = [text |-> b[d], vec |-> VectorOf(b[d], "embedded"),
                    hash |-> b[d], prov |-> "embedded"]
    BY <1>1, <1>2, <2>1 DEF Embedded
  <2>3. b[d] \in Texts \cup {Null} /\ VectorOf(b[d], "embedded") \in Vectors \cup {Null}
    BY <2>1, VectorType DEF Provenances
  <2>4. rows'[d] \in RowType
    BY <2>2, <2>3 DEF RowType, Provenances
  <2>5. rows'[d] # Absent
    BY <2>4, AbsentAssumption
  <2> QED BY <1>2, <2>1, <2>2, <2>5 DEF Present, Pending
<1>3. CASE d \notin Matching(b)
  BY <1>1, <1>3 DEF Present, Pending
<1> QED BY <1>2, <1>3

\* An upsert that completes a row makes up for what it overtakes.
LEMMA UpsertPays ==
  ASSUME TypeInv, TypeInv', NEW w \in Workers, Upsert(w)
  PROVE  \/ /\ Left' = Left /\ Total(Slacks, Workers)' <= Total(Slacks, Workers)
         \/ /\ Left' <= Left - 1
            /\ Total(Slacks, Workers)' <= Total(Slacks, Workers) + Cardinality(Workers)
<1> DEFINE M == Matching(batch[w])
<1>1. /\ batch \in [Workers -> Batches] /\ pc \in [Workers -> Steps]
      /\ UpsertVectors(batch[w], "embedded") /\ UNCHANGED batch
      /\ pc[w] = "upsert" /\ pc' = [pc EXCEPT ![w] = "commit"]
      /\ UNCHANGED open
  BY DEF Upsert, Goto, TypeInv, TypeOK, UpsertVectors
<1>2. /\ \A d \in Docs : (Present(d)' <=> Present(d)) /\ (Pending(d) => Present(d))
      /\ \A d \in Docs : Present(d) => rows'[d].text = rows[d].text
      /\ \A d \in Docs : Pending(d)' <=> Pending(d) /\ d \notin M
  BY <1>1, UpsertCompletes
<1>3. PendingDocs' = PendingDocs \ M /\ Opened' = Opened
  BY <1>1, <1>2 DEF PendingDocs, Opened
<1>4. \A v \in Workers : Matching(batch[v])' = Matching(batch[v])
  <2>1. \A v \in Workers : DOMAIN batch[v] \subseteq Docs
    BY <1>1 DEF Batches
  <2> QED BY <1>1, <1>2, <2>1 DEF Matching
<1>5. \A v \in Workers : /\ Slacks[v] = Slack(v) /\ Slack(v) \in 0 .. 2
                         /\ Slacks'[v] = Slack(v)' /\ Slack(v)' \in 0 .. 2
  BY DEF Slacks, Slack
<1> DEFINE f == Slacks
           g == Slacks'
<1>6. CASE M \cap PendingDocs = {}
  <2>1. PendingDocs' = PendingDocs
    BY <1>3, <1>6
  <2>2. \A v \in Workers : Wanted(v)' = Wanted(v)
    BY <1>4, <2>1 DEF Wanted
  <2>3. \A v \in Workers : Slack(v)' <= Slack(v)
    BY <1>1, <1>6, <2>2 DEF Slack, Wanted
  <2>4. \A v \in Workers : g[v] \in 0 .. 2 /\ f[v] \in 0 .. 2 /\ g[v] <= f[v]
    BY <1>5, <2>3
  <2> HIDE DEF f, g
  <2>5. Total(g, Workers) <= Total(f, Workers)
    BY <2>4, BackfillAssumption, TotalMonotonic
  <2>6. Total(Slacks, Workers)' <= Total(Slacks, Workers)
    BY <2>5 DEF f, g
  <2> QED BY <1>3, <2>1, <2>6 DEF Left
<1>7. CASE M \cap PendingDocs # {}
  <2>1. PICK d \in M \cap PendingDocs : TRUE
    BY <1>7
  <2>2. Cardinality(PendingDocs') <= Cardinality(PendingDocs) - 1
    <3>1. PendingDocs' \in SUBSET (PendingDocs \ {d})
      BY <1>3, <2>1
    <3>2. /\ IsFiniteSet(PendingDocs \ {d})
          /\ Cardinality(PendingDocs \ {d}) = Cardinality(PendingDocs) - 1
      BY <2>1, EffortTypes, FS_RemoveElement
    <3> QED BY <3>1, <3>2, FS_Subset
  <2>3. \A v \in Workers : g[v] \in 0 .. 2 /\ f[v] \in 0 .. 2 /\ g[v] <= f[v] + 1
    <3>1. ASSUME NEW v \in Workers PROVE Slack(v)' <= Slack(v) + 1
      <4>1. CASE v = w
        BY <1>1, <4>1 DEF Slack
      <4>2. CASE v # w
        BY <1>1, <4>2 DEF Slack
      <4> QED BY <4>1, <4>2
    <3> QED BY <1>5, <3>1
  <2>4. Total(g, Workers) <= Total(f, Workers) + Cardinality(Workers)
    <3> HIDE DEF f, g
    <3> QED BY <2>3, BackfillAssumption, TotalRaise
  <2>5. Cardinality(PendingDocs') \in Nat /\ Cardinality(PendingDocs) \in Nat
        /\ Cardinality(Opened) \in Nat
    <3>1. PendingDocs' \in SUBSET PendingDocs
      BY <1>3
    <3> QED BY <3>1, EffortTypes, FS_Subset, FS_CardinalityType
  <2>6. Left' <= Left - 1
    BY <1>3, <2>2, <2>5 DEF Left
  <2> QED BY <2>4, <2>6 DEF f, g
<1> QED BY <1>6, <1>7

\* What the application writes makes work, or overtakes batches, but never both.
LEMMA CommitPays ==
  ASSUME TypeInv, NEW d \in Docs, Commit(d)
  PROVE  \/ /\ Left' <= Left /\ Total(Slacks, Workers)' <= Total(Slacks, Workers)
         \/ /\ Left' <= Left - 1
            /\ Total(Slacks, Workers)' <= Total(Slacks, Workers) + Cardinality(Workers)
<1>1. /\ UNCHANGED <<pc, batch>> /\ batch \in [Workers -> Batches]
      /\ rows \in [Docs -> RowType \cup {Absent}] /\ DOMAIN open = Docs
      /\ open[d] # NoWrite /\ open' = [open EXCEPT ![d] = NoWrite]
      /\ \A e \in Docs \ {d} : rows'[e] = rows[e]
  BY DEF Commit, AppCommit, TypeInv, TypeOK, StoreTypeOK, workerVars
<1>2. \A e \in Docs \ {d} : (Pending(e)' <=> Pending(e)) /\ (Present(e)' <=> Present(e))
  BY <1>1 DEF Pending, Present
<1>3. d \in Opened /\ Opened' = Opened \ {d}
  BY <1>1 DEF Opened
<1>4. Cardinality(Opened') = Cardinality(Opened) - 1
  BY <1>3, EffortTypes, FS_RemoveElement
<1>5. /\ Cardinality(PendingDocs) \in Nat /\ Cardinality(Opened) \in Nat
      /\ IsFiniteSet(PendingDocs) /\ PendingDocs' \in SUBSET (PendingDocs \cup {d})
  BY <1>2, EffortTypes DEF PendingDocs
<1>6. /\ IsFiniteSet(PendingDocs \cup {d}) /\ IsFiniteSet(PendingDocs')
      /\ Cardinality(PendingDocs') \in Nat
      /\ Cardinality(PendingDocs') <= Cardinality(PendingDocs \cup {d})
      /\ Cardinality(PendingDocs \cup {d})
           = IF d \in PendingDocs THEN Cardinality(PendingDocs) ELSE Cardinality(PendingDocs) + 1
  BY <1>5, FS_AddElement, FS_Subset, FS_CardinalityType
<1>7. \A v \in Workers : /\ Slacks[v] = Slack(v) /\ Slack(v) \in 0 .. 2
                         /\ Slacks'[v] = Slack(v)' /\ Slack(v)' \in 0 .. 2
                         /\ Slack(v)' <= Slack(v) + 1
  BY <1>1 DEF Slacks, Slack
<1> DEFINE f == Slacks
           g == Slacks'
<1>8. CASE d \in PendingDocs
  <2>1. Left' <= Left - 1
    BY <1>4, <1>5, <1>6, <1>8 DEF Left
  <2>2. \A v \in Workers : g[v] \in 0 .. 2 /\ f[v] \in 0 .. 2 /\ g[v] <= f[v] + 1
    BY <1>7
  <2>3. Total(g, Workers) <= Total(f, Workers) + Cardinality(Workers)
    <3> HIDE DEF f, g
    <3> QED BY <2>2, BackfillAssumption, TotalRaise
  <2> QED BY <2>1, <2>3 DEF f, g
<1>9. CASE d \notin PendingDocs
  <2>1. Left' <= Left
    BY <1>4, <1>5, <1>6, <1>9 DEF Left
  <2>2. ASSUME NEW v \in Workers PROVE Wanted(v) \subseteq Wanted(v)'
    <3> SUFFICES ASSUME NEW e \in Wanted(v) PROVE e \in Wanted(v)'
      OBVIOUS
    <3>1. e \in Docs \ {d}
      BY <1>9 DEF Wanted, PendingDocs
    <3> QED BY <1>1, <1>2, <3>1 DEF Wanted, PendingDocs, Matching
  <2>3. \A v \in Workers : Slack(v)' <= Slack(v)
    BY <1>1, <2>2 DEF Slack
  <2>4. \A v \in Workers : g[v] \in 0 .. 2 /\ f[v] \in 0 .. 2 /\ g[v] <= f[v]
    BY <1>7, <2>3
  <2>5. Total(g, Workers) <= Total(f, Workers)
    <3> HIDE DEF f, g
    <3> QED BY <2>4, BackfillAssumption, TotalMonotonic
  <2> QED BY <2>1, <2>5 DEF f, g
<1> QED BY <1>8, <1>9

\* A transaction that is opened counts at once; one that is rolled back is given back.
LEMMA OpenPays ==
  ASSUME TypeInv, NEW d \in Docs, Write(d) \/ Rollback(d)
  PROVE  /\ Total(Slacks, Workers)' = Total(Slacks, Workers)
         /\ \/ Left' = Left + 1 /\ writes' = writes + 1
            \/ Left' <= Left /\ writes' = writes
<1>1. UNCHANGED <<rows, pc, batch>> /\ DOMAIN open = Docs
  BY DEF Write, AppOpen, Rollback, AppRollback, workerVars, TypeInv, TypeOK, StoreTypeOK
<1>2. PendingDocs' = PendingDocs /\ Slacks' = Slacks
  BY <1>1 DEF PendingDocs, Pending, Present, Slacks, Slack, Wanted, Matching
<1>3. /\ IsFiniteSet(Opened) /\ Cardinality(Opened) \in Nat
      /\ Cardinality(PendingDocs) \in Nat
  BY EffortTypes
<1>4. CASE Write(d)
  <2>1. d \notin Opened /\ Opened' = Opened \cup {d} /\ writes' = writes + 1
    BY <1>1, <1>4, NoWriteAssumption DEF Write, AppOpen, Opened
  <2>2. Cardinality(Opened') = Cardinality(Opened) + 1
    BY <1>3, <2>1, FS_AddElement
  <2> QED BY <1>2, <1>3, <2>1, <2>2 DEF Left
<1>5. CASE Rollback(d)
  <2>1. d \in Opened /\ Opened' = Opened \ {d} /\ writes' = writes
    BY <1>1, <1>5 DEF Rollback, AppRollback, Opened
  <2>2. Cardinality(Opened') = Cardinality(Opened) - 1
    BY <1>3, <2>1, FS_RemoveElement
  <2> QED BY <1>2, <1>3, <2>1, <2>2 DEF Left
<1> QED BY <1>4, <1>5

\* What one unit more, and one less, weighs for every worker.
LEMMA Weight ==
  \A n, x, y \in Nat : /\ n * x \in Nat /\ n * (x + 1) = n * x + n
                       /\ x <= y => n * x <= n * y
<1>1. ASSUME NEW n \in Nat, NEW x \in Nat, NEW y \in Nat, x <= y PROVE n * x <= n * y
  <2>1. PICK k \in Nat : y = x + k
    <3>1. y - x \in Nat /\ y = x + (y - x)
      BY <1>1
    <3> QED BY <3>1
  <2>2. n * (x + k) = n * x + n * k /\ n * k \in Nat /\ n * x \in Nat
    OBVIOUS
  <2> QED BY <2>1, <2>2
<1> QED BY <1>1

\* The same in the balance of what is left, what is written and what is slack.
LEMMA Balance ==
  ASSUME NEW n \in Nat, NEW p \in Nat, NEW c \in Nat, NEW l \in Nat, NEW m \in Nat,
         NEW t \in Nat, NEW u \in Nat, NEW x \in Nat, NEW y \in Nat,
         p + n * l + t <= n * x + c + n,
         \/ m <= l /\ y = x /\ u <= t
         \/ m <= l - 1 /\ y = x /\ u <= t + n
         \/ m = l + 1 /\ y = x + 1 /\ u = t
  PROVE  p + n * m + u <= n * y + c + n
<1>1. n * l \in Nat /\ n * m \in Nat /\ n * x \in Nat /\ n * y \in Nat
  BY Weight
<1>2. CASE m <= l /\ y = x /\ u <= t
  <2>1. n * m <= n * l
    BY <1>2, Weight
  <2> QED BY <1>1, <1>2, <2>1
<1>3. CASE m <= l - 1 /\ y = x /\ u <= t + n
  <2>1. m + 1 \in Nat /\ m + 1 <= l
    BY <1>3
  <2>2. n * (m + 1) <= n * l
    BY <2>1, Weight
  <2>3. n * (m + 1) = n * m + n
    BY Weight
  <2> QED BY <1>1, <1>3, <2>2, <2>3
<1>4. CASE m = l + 1 /\ y = x + 1 /\ u = t
  <2>1. n * (l + 1) = n * l + n /\ n * (x + 1) = n * x + n
    BY Weight
  <2> QED BY <1>1, <1>4, <2>1
<1> QED BY <1>2, <1>3, <1>4

\* The moves of the application, and those of a worker that pays nothing.
LEMMA EffortKept ==
  ASSUME TypeInv, TypeInv', NEW paid \in Nat, Effort(paid), UNCHANGED <<billed, crashes>>,
         \/ /\ Left' <= Left /\ writes' = writes
            /\ Total(Slacks, Workers)' <= Total(Slacks, Workers)
         \/ /\ Left' <= Left - 1 /\ writes' = writes
            /\ Total(Slacks, Workers)' <= Total(Slacks, Workers) + Cardinality(Workers)
         \/ /\ Left' = Left + 1 /\ writes' = writes + 1
            /\ Total(Slacks, Workers)' = Total(Slacks, Workers)
  PROVE  Effort(paid)'
<1> DEFINE N == Cardinality(Workers)
           D == Cardinality(Docs)
           T == Total(Slacks, Workers)
<1>1. /\ N \in Nat /\ D \in Nat /\ T \in Nat /\ Left \in Nat
      /\ T' \in Nat /\ Left' \in Nat
  <2>1. T' \in Nat /\ Left' \in Nat
    <3>1. \A w \in Workers : Slacks'[w] \in 0 .. 2
      BY DEF Slacks, Slack
    <3>2. Total(Slacks', Workers) \in Nat
      BY <3>1, BackfillAssumption, TotalBound
    <3>3. PendingDocs' \in SUBSET Docs /\ Opened' \in SUBSET Docs
      BY DEF PendingDocs, Opened
    <3>4. Cardinality(PendingDocs') \in Nat /\ Cardinality(Opened') \in Nat
      BY <3>3, DocsAssumption, FS_Subset, FS_CardinalityType
    <3> QED BY <3>2, <3>4 DEF Left
  <2> QED BY <2>1, EffortTypes
<1>2. writes \in Nat /\ writes' \in Nat /\ crashes \in Nat /\ crashes' = crashes
  BY BackfillAssumption, StoreAssumption DEF TypeInv, TypeOK, StoreTypeOK
<1>3. /\ billed' <= paid * BatchCost
      /\ paid + N * Left + T <= N * (D + writes) + crashes + N
  BY DEF Effort
<1>4. /\ D + writes \in Nat /\ D + writes' \in Nat
      /\ writes' = writes => D + writes' = D + writes
      /\ writes' = writes + 1 => D + writes' = (D + writes) + 1
  BY <1>1, <1>2
<1> HIDE DEF N, D, T
<1>5. paid + N * Left' + T' <= N * (D + writes') + crashes + N
  <2>1. \/ Left' <= Left /\ D + writes' = D + writes /\ T' <= T
        \/ Left' <= Left - 1 /\ D + writes' = D + writes /\ T' <= T + N
        \/ Left' = Left + 1 /\ D + writes' = (D + writes) + 1 /\ T' = T
    BY <1>4 DEF N, T
  <2> QED BY <1>1, <1>2, <1>3, <1>4, <2>1, Balance
<1> QED BY <1>2, <1>3, <1>5 DEF Effort, N, D, T

\* A claim takes rows its worker would complete.
LEMMA ClaimIsWanted ==
  ASSUME TypeInv, NEW w \in Workers, Claim(w), pc'[w] = "reserve"
  PROVE  Wanted(w)' # {}
<1> DEFINE b == ClaimBatch(DeadKeys)
<1>1. /\ UNCHANGED rows /\ batch'[w] = b /\ b # NoBatch
  BY DEF Claim, Goto, storeVars, TypeInv, TypeOK
<1>2. /\ DOMAIN b \subseteq Claimable(DeadKeys) /\ \A d \in DOMAIN b : b[d] = rows[d].text
  BY ClaimTheorem DEF ClaimBatch
<1>3. DOMAIN b # {}
  BY <1>1 DEF ClaimBatch, NoBatch
<1> HIDE DEF b
<1>4. PICK d \in DOMAIN b : TRUE
  BY <1>3
<1>5. d \in PendingDocs /\ Present(d) /\ rows[d].text = b[d]
  BY <1>2, <1>4 DEF Claimable, PendingDocs, Pending
<1>6. d \in PendingDocs' /\ d \in Matching(batch[w])'
  BY <1>1, <1>4, <1>5 DEF PendingDocs, Pending, Present, Matching
<1> QED BY <1>6 DEF Wanted

\* A worker that writes no row gets no slack, unless it dies; a batch it pays for it owes.
LEMMA WorkerPays ==
  ASSUME TypeInv, TypeInv', NEW w \in Workers,
         Start(w) \/ Crash(w) \/ (Work(w) /\ ~Upsert(w))
  PROVE  /\ UNCHANGED <<rows, open, writes>>
         /\ \A v \in Workers \ {w} : pc'[v] = pc[v] /\ batch'[v] = batch[v]
         /\ \/ UNCHANGED <<billed, crashes>> /\ Slack(w)' <= Slack(w)
            \/ billed' = billed /\ crashes' = crashes + 1 /\ Slack(w)' <= Slack(w) + 1
            \/ /\ billed' = billed + TokenCount(batch[w]) /\ UNCHANGED crashes
               /\ Slack(w)' <= Slack(w) - 1
<1>0. pc \in [Workers -> Steps] /\ batch \in [Workers -> Batches]
  BY DEF TypeInv, TypeOK
<1> DEFINE Early == {"reserve", "embed"}
<1>1. ASSUME UNCHANGED <<rows, batch>> PROVE Wanted(w)' = Wanted(w)
  BY <1>1 DEF Wanted, Matching, PendingDocs, Pending, Present
<1>2. CASE Start(w)
  BY <1>0, <1>2 DEF Start, Goto, Slack, storeVars, historyVars
<1>3. CASE Crash(w)
  BY <1>0, <1>3 DEF Crash, Exit, Goto, Slack, storeVars
<1>4. CASE EmbedSucceeds(w)
  <2>1. /\ UNCHANGED <<rows, open, writes, batch, crashes>>
        /\ billed' = billed + TokenCount(batch[w])
        /\ pc[w] = "embed" /\ pc' = [pc EXCEPT ![w] = "upsert"]
    BY <1>4 DEF EmbedSucceeds, Goto, storeVars
  <2>2. Slack(w)' <= Slack(w) - 1
    BY <1>0, <1>1, <2>1 DEF Slack
  <2> QED BY <1>0, <2>1, <2>2
<1>5. CASE Claim(w)
  <2>1. /\ UNCHANGED <<rows, open, writes, billed, crashes>>
        /\ pc[w] = "claim" /\ pc'[w] \in {"reserve", "reconcile"}
        /\ \A v \in Workers \ {w} : pc'[v] = pc[v] /\ batch'[v] = batch[v]
    BY <1>0, <1>5 DEF Claim, Goto, storeVars, historyVars
  <2>2. pc'[w] = "reserve" => Wanted(w)' # {}
    BY <1>5, ClaimIsWanted
  <2> QED BY <2>1, <2>2 DEF Slack
<1>6. CASE Reserve(w)
  <2>1. /\ UNCHANGED <<rows, open, writes, batch, billed, crashes>>
        /\ pc[w] = "reserve" /\ \E s \in {"embed", "pauseBudget"} : pc' = [pc EXCEPT ![w] = s]
    BY <1>6 DEF Reserve, Goto, storeVars, historyVars
  <2> QED BY <1>0, <1>1, <2>1 DEF Slack
<1>7. CASE Work(w) /\ ~Upsert(w) /\ ~EmbedSucceeds(w) /\ ~Claim(w) /\ ~Reserve(w)
  <2>1. UNCHANGED <<rows, open, writes, billed, crashes>>
    BY <1>7 DEF Work, Enter, Refuse, Begin, BeginIllegal, Reconcile, Recheck, RecheckError,
       Finish, NoInlineText, PauseBudget, EmbedPoisoned, EmbedTransient, EmbedPaused,
       EmbedRaises, DeadLetter, PauseError, Account, storeVars, historyVars
  <2>2. pc[w] # "upsert" /\ pc'[w] \notin {"reserve", "embed"}
    BY <1>0, <1>7 DEF Work, Enter, Refuse, Begin, BeginIllegal, Reconcile, Recheck,
       RecheckError, Finish, NoInlineText, PauseBudget, EmbedPoisoned, EmbedTransient,
       EmbedPaused, EmbedRaises, DeadLetter, PauseError, Account, Exit, Goto, Steps
  <2>3. \A v \in Workers \ {w} : pc'[v] = pc[v] /\ batch'[v] = batch[v]
    BY <1>0, <1>7 DEF Work, Enter, Refuse, Begin, BeginIllegal, Reconcile, Recheck,
       RecheckError, Finish, NoInlineText, PauseBudget, EmbedPoisoned, EmbedTransient,
       EmbedPaused, EmbedRaises, DeadLetter, PauseError, Account, Exit, Goto
  <2> QED BY <2>1, <2>2, <2>3 DEF Slack
<1> QED BY <1>2, <1>3, <1>4, <1>5, <1>6, <1>7

\* No step makes a worker pay for more than its share.
LEMMA EffortNext ==
  ASSUME BoundedTokens
  PROVE  TypeInv /\ BatchInv /\ EffortInv /\ [Next]_vars => EffortInv'
<1> SUFFICES ASSUME TypeInv, BatchInv, [Next]_vars, NEW paid \in Nat, Effort(paid)
             PROVE  \E p \in Nat : Effort(p)'
  BY DEF EffortInv
<1>1. TypeInv'
  BY NextType
<1>2. ASSUME NEW w \in Workers, Upsert(w) PROVE Effort(paid)'
  <2>1. UNCHANGED <<billed, crashes, writes>>
    BY <1>2 DEF Upsert, UpsertVectors, historyVars
  <2>2. Left \in Nat
    BY EffortTypes
  <2> QED BY <1>1, <1>2, <2>1, <2>2, UpsertPays, EffortKept
<1>3. ASSUME NEW d \in Docs, Write(d) \/ Commit(d) \/ Rollback(d) PROVE Effort(paid)'
  <2>1. UNCHANGED <<billed, crashes>>
    BY <1>3 DEF Write, Commit, Rollback, historyVars
  <2>2. Commit(d) => writes' = writes
    BY DEF Commit, AppCommit
  <2>3. CASE Commit(d)
    BY <1>1, <2>1, <2>2, <2>3, CommitPays, EffortKept
  <2>4. CASE Write(d) \/ Rollback(d)
    <3>1. Total(Slacks, Workers) \in Nat
      BY EffortTypes
    <3> QED BY <1>1, <2>1, <2>4, <3>1, OpenPays, EffortKept
  <2> QED BY <1>3, <2>3, <2>4
<1>4. CASE UNCHANGED <<rows, open, writes, pc, batch, billed, crashes>>
  <2>1. Left' = Left /\ Total(Slacks, Workers)' = Total(Slacks, Workers)
    BY <1>4 DEF Left, PendingDocs, Pending, Present, Opened, Total, Units, Slacks, Slack,
       Wanted, Matching
  <2> QED BY <1>4, <2>1 DEF Effort
<1>5. ASSUME NEW w \in Workers, Start(w) \/ Crash(w) \/ (Work(w) /\ ~Upsert(w))
      PROVE  \E p \in Nat : Effort(p)'
  <2> DEFINE N == Cardinality(Workers)
             T == Total(Slacks, Workers)
             B == N * (Cardinality(Docs) + writes)
             NL == N * Left
  <2>1. /\ UNCHANGED <<rows, open, writes>>
        /\ \A v \in Workers \ {w} : pc'[v] = pc[v] /\ batch'[v] = batch[v]
        /\ \/ UNCHANGED <<billed, crashes>> /\ Slack(w)' <= Slack(w)
           \/ billed' = billed /\ crashes' = crashes + 1 /\ Slack(w)' <= Slack(w) + 1
           \/ /\ billed' = billed + TokenCount(batch[w]) /\ UNCHANGED crashes
              /\ Slack(w)' <= Slack(w) - 1
    BY <1>1, <1>5, WorkerPays
  <2>2. /\ Left' = Left /\ T' = T - Slack(w) + Slack(w)' /\ T' \in Nat /\ Slack(w)' \in 0 .. 2
    BY <1>1, <2>1, SlackStep
  <2>3. B' = B /\ NL' = NL
    BY <2>1, <2>2
  <2>4. /\ N \in Nat /\ B \in Nat /\ NL \in Nat /\ T \in Nat /\ Slack(w) \in 0 .. 2
        /\ crashes \in Nat /\ billed \in Nat
    BY EffortTypes, Weight, BackfillAssumption, StoreAssumption
       DEF TypeInv, TypeOK, StoreTypeOK
  <2>5. /\ BatchCost \in Nat /\ TokenCount(batch[w]) \in 0 .. BatchCost
    BY CostBounds, BackfillAssumption DEF TypeInv, TypeOK, BatchInv
  <2>6. billed <= paid * BatchCost /\ paid + NL + T <= B + crashes + N
    BY DEF Effort
  <2>7. (paid + 1) * BatchCost = paid * BatchCost + BatchCost /\ paid * BatchCost \in Nat
    BY <2>5, OneMoreCrash
  <2>8. ASSUME NEW p \in Nat, billed' <= p * BatchCost, p + NL + T' <= B + crashes' + N
        PROVE  Effort(p)'
    BY <2>3, <2>8 DEF Effort
  <2> HIDE DEF N, T, B, NL
  <2>9. CASE UNCHANGED <<billed, crashes>> /\ Slack(w)' <= Slack(w)
    BY <2>2, <2>4, <2>6, <2>8, <2>9
  <2>10. CASE billed' = billed /\ crashes' = crashes + 1 /\ Slack(w)' <= Slack(w) + 1
    BY <2>2, <2>4, <2>6, <2>8, <2>10
  <2>11. CASE /\ billed' = billed + TokenCount(batch[w]) /\ UNCHANGED crashes
              /\ Slack(w)' <= Slack(w) - 1
    <3>1. billed' <= (paid + 1) * BatchCost
      BY <2>4, <2>5, <2>6, <2>7, <2>11
    <3>2. (paid + 1) + NL + T' <= B + crashes' + N
      BY <2>2, <2>4, <2>6, <2>11
    <3> QED BY <2>8, <3>1, <3>2
  <2> QED BY <2>1, <2>9, <2>10, <2>11
<1> QED BY <1>2, <1>3, <1>4, <1>5
        DEF Next, Operate, vars, storeVars, workerVars, historyVars

\* For every corpus whose token counts are bounded, and any number of workers, writes
\* and deaths: each worker pays for a batch per row, per write and per own death at most.
THEOREM WorkTheorem ==
  ASSUME BoundedTokens
  PROVE  Spec => []WorkIsBounded
<1>1. Init => EffortInv
  <2> SUFFICES ASSUME Init PROVE Effort(0)
    BY DEF EffortInv
  <2>1. TypeInv
    BY InitType
  <2>2. Opened = {} /\ Cardinality({}) = 0
    BY FS_EmptySet DEF Init, StoreInit, Opened
  <2>3. Total(Slacks, Workers) <= Cardinality(Workers) * 1
    <3>1. \A w \in Workers : Slacks[w] \in 0 .. 1
      BY DEF Init, Slacks, Slack
    <3> QED BY <3>1, BackfillAssumption, TotalBound
  <2>4. Left <= Cardinality(Docs) /\ writes = 0
    BY <2>1, <2>2, EffortTypes DEF Left, Init, StoreInit
  <2>5. /\ Cardinality(Workers) * Left <= Cardinality(Workers) * Cardinality(Docs)
        /\ Cardinality(Workers) * Left \in Nat
        /\ Cardinality(Workers) * Cardinality(Docs) \in Nat
    BY <2>1, <2>4, EffortTypes, Weight
  <2>6. Cardinality(Docs) + writes = Cardinality(Docs) /\ billed = 0 /\ crashes = 0
    BY <2>1, <2>4, EffortTypes DEF Init
  <2>7. BatchCost \in Nat
    BY CostBounds
  <2> QED BY <2>1, <2>3, <2>5, <2>6, <2>7, EffortTypes DEF Effort
<1>2. TypeInv /\ EffortInv => WorkIsBounded
  <2> SUFFICES ASSUME TypeInv, NEW paid \in Nat, Effort(paid) PROVE WorkIsBounded
    BY DEF EffortInv
  <2> DEFINE N == Cardinality(Workers)
             E == N * (Cardinality(Docs) + writes) + crashes
  <2>1. /\ paid + N * Left + Total(Slacks, Workers) <= E + N
        /\ billed <= paid * BatchCost
    BY DEF Effort
  <2>2. /\ N \in Nat /\ N * Left \in Nat /\ E \in Nat /\ Left \in Nat
        /\ Total(Slacks, Workers) \in Nat /\ billed \in Nat
    BY EffortTypes, Weight, BackfillAssumption, StoreAssumption
       DEF TypeInv, TypeOK, StoreTypeOK
  <2>3. N <= N * Left + Total(Slacks, Workers)
    <3>1. CASE \A w \in Workers : Slack(w) # 0
      <4>1. \A w \in Workers : Slacks[w] \in 1 .. 2
        BY <3>1, EffortTypes
      <4>2. N <= Total(Slacks, Workers)
        BY <4>1, BackfillAssumption, TotalCounts
      <4> HIDE DEF N
      <4> QED BY <2>2, <4>2
    <3>2. CASE \E w \in Workers : Slack(w) = 0
      <4>1. PendingDocs # {}
        BY <3>2 DEF Slack, Wanted
      <4>2. Cardinality(PendingDocs) # 0
        BY <4>1, EffortTypes, FS_EmptySet
      <4>3. Left >= 1
        BY <4>2, EffortTypes DEF Left
      <4>4. N * 1 <= N * Left
        BY <2>2, <4>3, Weight
      <4> HIDE DEF N
      <4> QED BY <2>2, <4>4
    <3> QED BY <3>1, <3>2
  <2> HIDE DEF N
  <2>4. paid <= E
    <3> HIDE DEF E
    <3> QED BY <2>1, <2>2, <2>3
  <2>5. BatchCost \in Nat
    BY CostBounds
  <2> HIDE DEF E
  <2>6. BatchCost * paid <= BatchCost * E /\ BatchCost * paid = paid * BatchCost
    BY <2>2, <2>4, <2>5, Weight
  <2>7. /\ BatchCost * paid \in Nat /\ BatchCost * E \in Nat
    BY <2>2, <2>5, Weight
  <2> QED BY <2>1, <2>2, <2>6, <2>7 DEF WorkIsBounded, E, N
<1>3. TypeInv /\ BatchInv /\ EffortInv /\ [Next]_vars => EffortInv'
  BY EffortNext
<1> QED BY <1>1, <1>2, <1>3, Accounts, PTL DEF Spec
=============================================================================
