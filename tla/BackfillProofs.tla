---------------------------- MODULE BackfillProofs --------------------------
(***************************************************************************)
(* What holds of the backfill for any number of workers, any corpus, any   *)
(* token count and any bound.                                              *)
(***************************************************************************)
EXTENDS Backfill, PgStoreProofs

TypeInv == StoreInv /\ TypeOK

-----------------------------------------------------------------------------
(* Types.                                                                  *)

\* Estimates are spends, and so are their sums with the counters.
LEMMA SpendType ==
  /\ NoSpend \in Spend
  /\ \A n \in Nat : SpendOf(n) \in Spend
  /\ \A s, t \in Spend : Plus(s, t) \in Spend
  BY PriceAssumption DEF NoSpend, Spend, SpendOf, Plus

\* A claim reads only rows whose content has a hash (pgvector.py:115-131).
LEMMA ClaimType ==
  ASSUME StoreInv
  PROVE  ClaimBatch(DeadKeys) \in Batches
<1>1. ASSUME NEW d \in PendingDocs
      PROVE  d \in Docs /\ rows[d].text \in Texts
  <2>1. d \in Docs /\ Present(d) /\ Pending(d)
    BY DEF PendingDocs, Pending
  <2>2. CASE \E t \in Texts \cup {Null} : rows[d] = Unembedded(t)
    BY <2>1, <2>2 DEF Unembedded, Pending
  <2>3. CASE \E t, h \in Texts, p \in Provenances : rows[d] = Holding(t, h, p)
    BY <2>1, <2>3 DEF Holding
  <2> QED BY <2>1, <2>2, <2>3 DEF StoreInv, WellFormed
<1>2. \A d \in Claimable(DeadKeys) : d \in PendingDocs
  BY DEF Claimable
<1>3. /\ FirstClaimable(DeadKeys) \in SUBSET Docs
      /\ \A d \in FirstClaimable(DeadKeys) : rows[d].text \in Texts
  BY <1>1, <1>2 DEF FirstClaimable
<1>4. ClaimBatch(DeadKeys) \in [FirstClaimable(DeadKeys) -> Texts]
  BY <1>3 DEF ClaimBatch
<1> QED BY <1>3, <1>4 DEF Batches

\* The empty batch is a batch.
LEMMA NoBatchType == NoBatch \in Batches
<1>1. NoBatch \in [{} -> Texts]
  BY DEF NoBatch
<1> QED BY <1>1 DEF Batches

\* A worker that exits leaves a well-typed process table.
LEMMA ExitType ==
  ASSUME TypeOK, NEW w \in Workers, Exit(w)
  PROVE  /\ pc' \in [Workers -> Steps]
         /\ batch' \in [Workers -> Batches]
         /\ bad' \in [Workers -> SUBSET Docs]
         /\ \A v \in Workers : bad'[v] \subseteq IF pc'[v] = "poison" THEN DOMAIN batch'[v] ELSE {}
         /\ \A v \in Workers : pc'[v] \in {"embed", "upsert", "commit"} => batch'[v] \in Embeddable
         /\ errs' \in [Workers -> Nat]
         /\ mirror' \in [Workers -> Spend]
         /\ limit' \in [Workers -> Spend]
<1>1. pc' \in [Workers -> Steps]
  BY DEF TypeOK, Exit, Goto, Steps
<1>2. batch' \in [Workers -> Batches]
  BY NoBatchType DEF TypeOK, Exit
<1>3. bad' \in [Workers -> SUBSET Docs]
  BY DEF TypeOK, Exit
<1>4. \A v \in Workers : bad'[v] \subseteq IF pc'[v] = "poison" THEN DOMAIN batch'[v] ELSE {}
  BY DEF TypeOK, Exit, Goto
<1>7. ASSUME NEW v \in Workers, pc'[v] \in {"embed", "upsert", "commit"}
      PROVE  batch'[v] \in Embeddable
  BY <1>7 DEF TypeOK, Exit, Goto
<1>5. errs' \in [Workers -> Nat]
  BY DEF TypeOK, Exit
<1>6. mirror' \in [Workers -> Spend] /\ limit' \in [Workers -> Spend]
  BY SpendType DEF TypeOK, Exit
<1> QED BY <1>1, <1>2, <1>3, <1>4, <1>5, <1>6, <1>7

\* set_state writes migration states only.
LEMMA SetStateType ==
  ASSUME state \in MigrationStates, NEW s, TrySetState(s) \/ SetState(s)
  PROVE  state' \in MigrationStates
  BY DEF TrySetState, SetState, IsLegal, LegalTransitions

\* record_dead_letter keeps counting attempts.
LEMMA RecordType ==
  ASSUME dead \in [Keys -> Nat], NEW k \in Keys, RecordDeadLetter(k)
  PROVE  dead' \in [Keys -> Nat]
<1>1. dead[k] + 1 \in Nat
  OBVIOUS
<1> QED BY <1>1 DEF RecordDeadLetter

\* Initially every variable has its type.
LEMMA InitType == Init => TypeInv
<1> SUFFICES ASSUME Init PROVE TypeInv
  OBVIOUS
<1>1. StoreInv
  BY StoreInitInv DEF Init
<1>2. ControlTypeOK
  BY SpendType DEF Init, ControlInit, ControlTypeOK, MigrationStates
<1>3. /\ pc \in [Workers -> Steps] /\ batch \in [Workers -> Batches]
      /\ bad \in [Workers -> SUBSET Docs]
      /\ \A w \in Workers : bad[w] \subseteq IF pc[w] = "poison" THEN DOMAIN batch[w] ELSE {}
      /\ \A w \in Workers : pc[w] \in {"embed", "upsert", "commit"} => batch[w] \in Embeddable
      /\ errs \in [Workers -> Nat]
      /\ mirror \in [Workers -> Spend] /\ limit \in [Workers -> Spend]
  BY NoBatchType, SpendType DEF Init, Steps
<1>4. late \subseteq Docs /\ billed \in Nat /\ crashes \in 0 .. MaxCrashes
  BY BackfillAssumption DEF Init
<1>5. blind \in BOOLEAN
  BY DEF Init
<1> QED BY <1>1, <1>2, <1>3, <1>4, <1>5 DEF TypeInv, TypeOK, StoreInv

\* Seen from the store, every step of the system is one of its own or none.
LEMMA StepIsStoreStep ==
  TypeInv /\ [Next]_vars => [StoreNext]_storeVars
<1> SUFFICES ASSUME TypeInv, [Next]_vars PROVE [StoreNext]_storeVars
  OBVIOUS
<1>1. ASSUME NEW w \in Workers, Upsert(w) PROVE StoreNext
  BY <1>1 DEF Upsert, StoreNext, TypeInv, TypeOK, Provenances
<1>2. ASSUME NEW w \in Workers, Start(w) \/ Crash(w) PROVE UNCHANGED storeVars
  BY <1>2 DEF Start, Crash
<1>3. ASSUME NEW w \in Workers, Work(w), ~Upsert(w) PROVE UNCHANGED storeVars
  BY <1>3 DEF Work, Enter, Refuse, Begin, BeginIllegal, Claim, Reconcile, Recheck,
     RecheckError, Finish, NoInlineText, Reserve, PauseBudget, EmbedSucceeds, EmbedPoisoned,
     EmbedTransient, EmbedPaused, EmbedRaises, DeadLetter, PauseError, Account
<1>4. ASSUME NEW s \in OperatorStates, Operate(s) PROVE UNCHANGED storeVars
  BY <1>4 DEF Operate
<1>5. ASSUME NEW d \in Docs, Write(d) \/ Commit(d) \/ Rollback(d) PROVE StoreNext
  BY <1>5 DEF Write, Commit, Rollback, StoreNext
<1>6. CASE UNCHANGED vars
  BY <1>6 DEF vars
<1> QED BY <1>1, <1>2, <1>3, <1>4, <1>5, <1>6 DEF Next

\* What TypeOK adds to the store's types.
LocalTypeOK ==
  /\ ControlTypeOK
  /\ pc \in [Workers -> Steps]
  /\ batch \in [Workers -> Batches]
  /\ bad \in [Workers -> SUBSET Docs]
  /\ \A w \in Workers : bad[w] \subseteq IF pc[w] = "poison" THEN DOMAIN batch[w] ELSE {}
  /\ \A w \in Workers : pc[w] \in {"embed", "upsert", "commit"} => batch[w] \in Embeddable
  /\ errs \in [Workers -> Nat]
  /\ mirror \in [Workers -> Spend]
  /\ limit \in [Workers -> Spend]
  /\ late \subseteq Docs
  /\ blind \in BOOLEAN
  /\ billed \in Nat
  /\ crashes \in 0 .. MaxCrashes

\* The steps of a running worker keep the types.
LEMMA WorkType ==
  ASSUME TypeInv, NEW w \in Workers, Work(w)
  PROVE  LocalTypeOK'
<1> USE DEF TypeInv, TypeOK
<1>1. CASE Enter(w) \/ Reconcile(w) \/ Reserve(w) \/ EmbedPaused(w)
  BY <1>1 DEF Enter, Reconcile, Reserve, EmbedPaused, LocalTypeOK, Goto, Steps,
     ControlTypeOK, controlVars, historyVars
<1>2. CASE Refuse(w) \/ BeginIllegal(w) \/ NoInlineText(w) \/ EmbedRaises(w)
  <2>1. Exit(w) /\ UNCHANGED <<controlVars, historyVars>>
    BY <1>2 DEF Refuse, BeginIllegal, NoInlineText, EmbedRaises
  <2> QED BY <2>1, ExitType DEF LocalTypeOK, ControlTypeOK, controlVars, historyVars
<1>3. CASE Finish(w) \/ PauseBudget(w) \/ PauseError(w)
  <2>1. /\ Exit(w) /\ UNCHANGED <<ledger, dead, historyVars>>
        /\ \E s : TrySetState(s)
    BY <1>3 DEF Finish, PauseBudget, PauseError
  <2>2. state' \in MigrationStates
    BY <2>1, SetStateType DEF ControlTypeOK
  <2> QED BY <2>1, <2>2, ExitType DEF LocalTypeOK, ControlTypeOK, historyVars
<1>4. CASE Begin(w)
  <2>1. state' \in MigrationStates
    BY <1>4, SetStateType DEF Begin, ControlTypeOK
  <2> QED BY <1>4, <2>1 DEF Begin, LocalTypeOK, ControlTypeOK, historyVars, Goto, Steps
<1>5. CASE Claim(w)
  <2>1. batch' \in [Workers -> Batches]
    BY <1>5, ClaimType DEF Claim
  <2>2. PICK x \in {"reconcile", "reserve"} : pc' = [pc EXCEPT ![w] = x]
    BY <1>5 DEF Claim, Goto
  <2>3. pc' \in [Workers -> Steps]
    BY <2>2 DEF Steps
  <2>4. ASSUME NEW v \in Workers, pc'[v] \in {"embed", "upsert", "commit"}
        PROVE  batch'[v] \in Embeddable
    BY <1>5, <2>2, <2>4 DEF Claim
  <2>5. ASSUME NEW v \in Workers
        PROVE  bad'[v] \subseteq IF pc'[v] = "poison" THEN DOMAIN batch'[v] ELSE {}
    BY <1>5, <2>2 DEF Claim
  <2> QED BY <1>5, <2>1, <2>3, <2>4, <2>5 DEF Claim, LocalTypeOK, ControlTypeOK, controlVars, historyVars
<1>6. CASE Recheck(w) \/ RecheckError(w)
  BY <1>6 DEF Recheck, RecheckError, LocalTypeOK, Goto, Steps, ControlTypeOK, controlVars
<1>7. CASE EmbedSucceeds(w)
  BY <1>7, BackfillAssumption
     DEF EmbedSucceeds, LocalTypeOK, Goto, Steps, ControlTypeOK, controlVars
<1>8. CASE EmbedPoisoned(w)
  BY <1>8 DEF EmbedPoisoned, PoisonDocs, LocalTypeOK, Goto, Steps, ControlTypeOK,
     controlVars, historyVars, Batches
<1>9. CASE EmbedTransient(w)
  BY <1>9 DEF EmbedTransient, LocalTypeOK, Goto, Steps, ControlTypeOK,
     controlVars, historyVars
<1>10. CASE DeadLetter(w)
  <2>1. PICK d \in bad[w] :
          /\ RecordDeadLetter(<<d, batch[w][d]>>)
          /\ bad' = [bad EXCEPT ![w] = @ \ {d}]
          /\ IF bad[w] = {d}
             THEN Goto(w, "claim") /\ errs' = [errs EXCEPT ![w] = 0]
             ELSE UNCHANGED <<pc, errs>>
    BY <1>10 DEF DeadLetter
  <2>0. <<d, batch[w][d]>> \in Keys
    <3>1. pc[w] = "poison" /\ d \in DOMAIN batch[w]
      BY <1>10 DEF DeadLetter
    <3> QED BY <3>1 DEF Batches, Keys
  <2>2. dead' \in [Keys -> Nat]
    BY <2>0, <2>1, RecordType DEF ControlTypeOK
  <2>3. /\ pc' \in [Workers -> Steps] /\ errs' \in [Workers -> Nat]
        /\ bad' \in [Workers -> SUBSET Docs]
    BY <2>1 DEF Goto, Steps
  <2>4. ASSUME NEW v \in Workers
        PROVE  bad'[v] \subseteq IF pc'[v] = "poison" THEN DOMAIN batch[v] ELSE {}
    <3>1. CASE bad[w] = {d} /\ v = w
      BY <2>1, <3>1
    <3>2. CASE bad[w] # {d} \/ v # w
      <4>1. pc'[v] = pc[v] /\ bad'[v] \subseteq bad[v]
        BY <2>1, <3>2 DEF Goto
      <4> QED BY <4>1
    <3> QED BY <3>1, <3>2
  <2>5. ASSUME NEW v \in Workers, pc'[v] \in {"embed", "upsert", "commit"}
        PROVE  batch[v] \in Embeddable
    BY <2>1, <2>5 DEF Goto
  <2> QED BY <1>10, <2>2, <2>3, <2>4, <2>5 DEF DeadLetter, LocalTypeOK, ControlTypeOK, historyVars
<1>11. CASE Upsert(w)
  BY <1>11 DEF Upsert, LocalTypeOK, Goto, Steps, ControlTypeOK, controlVars, historyVars
<1>12. CASE Account(w)
  <2>1. TokenCount(batch[w]) \in Nat
    BY BackfillAssumption
  <2>2. Estimate(w) \in Spend
    BY <2>1, SpendType DEF Estimate
  <2>3. ledger' \in Spend /\ mirror' \in [Workers -> Spend]
    BY <1>12, <2>1, <2>2, SpendType DEF Account, CommitSpend, ControlTypeOK
  <2> QED BY <1>12, <2>3 DEF Account, LocalTypeOK, Goto, Steps, ControlTypeOK, historyVars
<1> QED BY <1>1, <1>2, <1>3, <1>4, <1>5, <1>6, <1>7, <1>8, <1>9, <1>10, <1>11, <1>12
       DEF Work

\* Every step keeps the types.
LEMMA NextType == TypeInv /\ [Next]_vars => TypeInv'
<1> SUFFICES ASSUME TypeInv, [Next]_vars PROVE TypeInv'
  OBVIOUS
<1>1. StoreInv'
  BY StepIsStoreStep, StoreNextInv DEF TypeInv
<1>2. LocalTypeOK'
  <2> USE DEF TypeInv, TypeOK
  <2>1. ASSUME NEW w \in Workers, Start(w) PROVE LocalTypeOK'
    BY <2>1, BackfillAssumption DEF Start, LocalTypeOK, Goto, Steps, ControlTypeOK,
       controlVars, historyVars
  <2>2. ASSUME NEW w \in Workers, Crash(w) PROVE LocalTypeOK'
    <3>1. crashes' \in 0 .. MaxCrashes
      BY <2>2, BackfillAssumption DEF Crash
    <3> QED BY <2>2, <3>1, ExitType DEF Crash, LocalTypeOK, ControlTypeOK, controlVars
  <2>3. ASSUME NEW s \in OperatorStates, Operate(s) PROVE LocalTypeOK'
    <3>1. state' \in MigrationStates
      BY <2>3, SetStateType DEF Operate, ControlTypeOK
    <3> QED BY <2>3, <3>1 DEF Operate, LocalTypeOK, ControlTypeOK, workerVars, historyVars
  <2>4. ASSUME NEW d \in Docs, Write(d) \/ Rollback(d) PROVE LocalTypeOK'
    BY <2>4 DEF Write, Rollback, LocalTypeOK, ControlTypeOK, controlVars, workerVars,
       historyVars
  <2>5. ASSUME NEW d \in Docs, Commit(d) PROVE LocalTypeOK'
    BY <2>5 DEF Commit, LocalTypeOK, ControlTypeOK, controlVars, workerVars
  <2>6. CASE UNCHANGED vars
    BY <2>6 DEF vars, LocalTypeOK, ControlTypeOK, controlVars, workerVars, historyVars
  <2> QED BY <2>1, <2>2, <2>3, <2>4, <2>5, <2>6, WorkType DEF Next
<1> QED BY <1>1, <1>2 DEF TypeInv, TypeOK, LocalTypeOK, StoreInv

\* Every variable always has its type.
THEOREM TypeCorrect == Spec => []TypeInv
  BY InitType, NextType, PTL DEF Spec

\* The conjunct of it that the runs check.
THEOREM TypeOKTheorem == Spec => []TypeOK
<1>1. TypeInv => TypeOK
  BY DEF TypeInv
<1> QED BY <1>1, TypeCorrect, PTL

\* The backfill uses the store as the store's own specification allows.
THEOREM ImplementsStore == Spec => StoreSpec
<1>1. Init => StoreInit
  BY DEF Init
<1> QED BY <1>1, StepIsStoreStep, TypeCorrect, PTL DEF Spec, StoreSpec

\* Hence no row carries a vector of another text (I4).
THEOREM BackfillNoStaleVector == Spec => []NoStaleVector
  BY ImplementsStore, NoStaleVectorTheorem, PTL

-----------------------------------------------------------------------------
(* Vectors stay.                                                           *)

\* A claimed row that holds a projected vector is pending as long as it has the
\* claimed content: nobody projects behind the worker's back.
ClaimsOpen ==
  \A w \in Workers : pc[w] \in {"reserve", "embed", "upsert"} =>
    \A d \in DOMAIN batch[w] :
      Present(d) /\ rows[d].prov = "projected" => rows[d].hash # batch[w][d] \/ ~MappingOnly

\* An upsert leaves no projected row it has written, and the others as they are.
LEMMA UpsertEndsProjection ==
  ASSUME NEW b, UpsertVectors(b, "embedded"), NEW d \in Docs
  PROVE  rows'[d] = rows[d] \/ rows'[d].prov = "embedded"
<1>1. rows'[d] = rows[d] \/ rows'[d] = Embedded(rows[d], b[d], "embedded")
  BY DEF UpsertVectors
<1> QED BY <1>1 DEF Embedded

\* The trigger projects nothing, and keeps hash and vector of a row whose text stays.
LEMMA TriggerProjectsNothing ==
  ASSUME TypeInv, NEW e \in Docs, AppCommit(e), NEW d \in Docs, Present(d)'
  PROVE  /\ rows'[d].prov = "projected" =>
              Present(d) /\ rows[d].prov = "projected" /\ rows'[d].hash = rows[d].hash
         /\ Present(d) /\ TextOf(rows'[d].text) = TextOf(rows[d].text) => rows'[d].vec = rows[d].vec
<1> USE DEF TypeInv, TypeOK, StoreTypeOK
<1>1. CASE e # d
  BY <1>1 DEF AppCommit, Present
<1>2. CASE e = d
  <2>1. rows'[d] = AfterTrigger(rows[d], open[d])
    BY <1>2 DEF AppCommit, Present
  <2>2. CASE rows[d] # Absent /\ TextOf(rows[d].text) = TextOf(open[d])
    <3>1. rows[d] \in RowType /\ rows'[d] = [rows[d] EXCEPT !.text = open[d]]
      BY <2>1, <2>2 DEF AfterTrigger
    <3> QED BY <2>2, <3>1 DEF RowType, Present
  <2>3. CASE ~(rows[d] # Absent /\ TextOf(rows[d].text) = TextOf(open[d]))
    BY <2>1, <2>3 DEF AfterTrigger, Unembedded, Present
  <2> QED BY <2>2, <2>3
<1> QED BY <1>1, <1>2

\* Only an upsert, a write of the application and nothing else touches a row.
LEMMA WhoWritesRows ==
  ASSUME [Next]_vars
  PROVE  \/ UNCHANGED rows
         \/ \E w \in Workers : Upsert(w)
         \/ \E e \in Docs : Commit(e)
<1>1. ASSUME NEW w \in Workers, Start(w) \/ Crash(w) \/ (Work(w) /\ ~Upsert(w))
      PROVE  UNCHANGED rows
  BY <1>1 DEF Start, Crash, Work, Enter, Refuse, Begin, BeginIllegal, Claim, Reconcile,
     Recheck, RecheckError, Finish, NoInlineText, Reserve, PauseBudget, EmbedSucceeds,
     EmbedPoisoned, EmbedTransient, EmbedPaused, EmbedRaises, DeadLetter, PauseError,
     Account, storeVars
<1> QED BY <1>1 DEF Next, Operate, Write, Rollback, AppOpen, AppRollback, vars, storeVars

\* Every step keeps the claims open (pgvector.py:115-131).
LEMMA ClaimsOpenNext == TypeInv /\ ClaimsOpen /\ [Next]_vars => ClaimsOpen'
<1> SUFFICES ASSUME TypeInv, ClaimsOpen, [Next]_vars,
                    NEW v \in Workers, pc'[v] \in {"reserve", "embed", "upsert"},
                    NEW d \in DOMAIN batch'[v], Present(d)', rows'[d].prov = "projected"
             PROVE  rows'[d].hash # batch'[v][d] \/ ~MappingOnly
  BY DEF ClaimsOpen
<1>1. TypeInv'
  BY NextType
<1>2. d \in Docs
  BY <1>1 DEF TypeInv, TypeOK, Batches
<1>3. ASSUME pc[v] \in {"reserve", "embed", "upsert"}, batch'[v] = batch[v],
             Present(d), rows[d].prov = "projected", rows'[d].hash = rows[d].hash
      PROVE  rows'[d].hash # batch'[v][d] \/ ~MappingOnly
  BY <1>3 DEF ClaimsOpen
<1> USE DEF TypeInv, TypeOK
<1>4. ASSUME NEW w \in Workers, Claim(w), v = w
      PROVE  rows'[d].hash # batch'[v][d] \/ ~MappingOnly
  <2>1. UNCHANGED rows /\ batch'[v] = ClaimBatch(DeadKeys)
    BY <1>4 DEF Claim, storeVars
  <2>2. d \in FirstClaimable(DeadKeys) /\ batch'[v][d] = rows[d].text
    BY <2>1 DEF ClaimBatch
  <2>3. Pending(d)
    BY <2>2 DEF FirstClaimable, Claimable, PendingDocs
  <2> QED BY <2>1, <2>2, <2>3 DEF Pending
<1>5. ASSUME NEW w \in Workers, Start(w) \/ Crash(w) \/ Work(w), ~(Claim(w) /\ v = w)
      PROVE  pc[v] \in {"reserve", "embed", "upsert"} /\ batch'[v] = batch[v]
  BY <1>5 DEF Start, Crash, Work, Enter, Refuse, Begin, BeginIllegal, Claim, Reconcile,
     Recheck, RecheckError, Finish, NoInlineText, Reserve, PauseBudget, EmbedSucceeds,
     EmbedPoisoned, EmbedTransient, EmbedPaused, EmbedRaises, DeadLetter, PauseError,
     Upsert, Account, Exit, Goto
<1>6. CASE UNCHANGED <<pc, batch>>
  <2>1. CASE UNCHANGED rows
    BY <1>3, <1>6, <2>1 DEF Present
  <2>2. ASSUME NEW e \in Docs, Commit(e)
        PROVE  rows'[d].hash # batch'[v][d] \/ ~MappingOnly
    BY <1>2, <1>3, <1>6, <2>2, TriggerProjectsNothing DEF Commit
  <2>3. ASSUME NEW w \in Workers, Upsert(w)
        PROVE  rows'[d].hash # batch'[v][d] \/ ~MappingOnly
    BY <1>2, <1>3, <1>6, <2>3, UpsertEndsProjection DEF Upsert, Present
  <2> QED BY <2>1, <2>2, <2>3, WhoWritesRows
<1>7. ASSUME NEW w \in Workers, Start(w) \/ Crash(w) \/ Work(w), ~(Claim(w) /\ v = w)
      PROVE  rows'[d].hash # batch'[v][d] \/ ~MappingOnly
  <2>1. rows'[d] = rows[d]
    <3>1. CASE Upsert(w)
      BY <1>2, <3>1, UpsertEndsProjection DEF Upsert
    <3>2. CASE ~Upsert(w)
      BY <1>7, <3>2 DEF Start, Crash, Work, Enter, Refuse, Begin, BeginIllegal, Claim,
         Reconcile, Recheck, RecheckError, Finish, NoInlineText, Reserve, PauseBudget,
         EmbedSucceeds, EmbedPoisoned, EmbedTransient, EmbedPaused, EmbedRaises,
         DeadLetter, PauseError, Account, storeVars
    <3> QED BY <3>1, <3>2
  <2> QED BY <1>3, <1>5, <1>7, <2>1 DEF Present
<1> QED BY <1>4, <1>6, <1>7 DEF Next, Operate, Write, Commit, Rollback, vars, workerVars

\* One step of the system keeps vectors, or embeds a pending projected row.
LEMMA StepKeepsVectors ==
  ASSUME TypeInv, ClaimsOpen, [Next]_vars, NEW d \in Found,
         Present(d)', TextOf(rows'[d].text) = TextOf(rows[d].text)
  PROVE  \/ rows'[d].vec = rows[d].vec
         \/ /\ rows[d].vec.by = "projected" /\ Pending(d)
            /\ rows'[d].vec = VectorOf(rows'[d].text, "embedded")
<1> USE DEF TypeInv, TypeOK, StoreTypeOK
<1>0. d \in Docs /\ Present(d) /\ rows[d].vec # Null /\ rows[d] \in RowType
  BY DEF Found, Present
<1>1. ASSUME NEW w \in Workers, Upsert(w), d \in Matching(batch[w])
      PROVE  \/ rows'[d].vec = rows[d].vec
             \/ /\ rows[d].vec.by = "projected" /\ Pending(d)
                /\ rows'[d].vec = VectorOf(rows'[d].text, "embedded")
  <2>1. /\ pc[w] = "upsert" /\ d \in DOMAIN batch[w] /\ rows[d].text = batch[w][d]
        /\ rows'[d] = Embedded(rows[d], batch[w][d], "embedded")
    BY <1>0, <1>1 DEF Upsert, UpsertVectors, Matching
  <2>2. batch[w][d] \in Texts /\ TextOf(batch[w][d]) # Null
    BY <2>1 DEF Embeddable, Batches
  <2>3. /\ rows'[d].vec = VectorOf(batch[w][d], "embedded")
        /\ rows'[d].text = batch[w][d]
    BY <2>1 DEF Embedded
  <2>4. /\ rows[d].vec \in Vectors
        /\ rows[d].vec.text = TextOf(batch[w][d])
        /\ rows[d].vec = VectorOf(rows[d].hash, rows[d].prov)
    BY <1>0, <2>1, WellFormedNotStale DEF NoStaleVector, RowType
  <2>5. rows[d].vec.by = rows[d].prov
    BY <1>0, <2>4 DEF VectorOf
  <2>6. CASE rows[d].prov = "embedded"
    <3>1. rows[d].vec = [text |-> TextOf(batch[w][d]), by |-> "embedded"]
      BY <2>4, <2>5, <2>6 DEF Vectors
    <3> QED BY <2>2, <2>3, <3>1 DEF VectorOf
  <2>7. CASE rows[d].prov = "projected"
    <3>1. Pending(d)
      BY <1>0, <2>1, <2>7 DEF ClaimsOpen, Pending
    <3> QED BY <2>3, <2>5, <2>7, <3>1
  <2> QED BY <1>0, <2>6, <2>7 DEF RowType, Provenances
<1>2. ASSUME NEW w \in Workers, Upsert(w), d \notin Matching(batch[w])
      PROVE  rows'[d].vec = rows[d].vec
  BY <1>0, <1>2 DEF Upsert, UpsertVectors
<1>3. ASSUME NEW e \in Docs, Commit(e)
      PROVE  rows'[d].vec = rows[d].vec
  BY <1>0, <1>3, TriggerProjectsNothing DEF Commit
<1> QED BY <1>1, <1>2, <1>3, WhoWritesRows

\* For any number of workers: while its text stands, a vector is not lost, and only a
\* projected one is replaced, by the provider's, of a row that is pending (I1).
THEOREM VectorsAreStableTheorem == Spec => VectorsAreStable
<1>1. Init => ClaimsOpen
  BY DEF Init, ClaimsOpen
<1>2. TypeInv /\ ClaimsOpen /\ [Next]_vars =>
        [\A d \in Found :
           Present(d)' /\ TextOf(rows'[d].text) = TextOf(rows[d].text)
             => \/ rows'[d].vec = rows[d].vec
                \/ /\ rows[d].vec.by = "projected" /\ Pending(d)
                   /\ rows'[d].vec = VectorOf(rows'[d].text, "embedded")]_vars
  BY StepKeepsVectors
<1> QED BY <1>1, <1>2, ClaimsOpenNext, TypeCorrect, PTL DEF Spec, VectorsAreStable
=============================================================================
