-------------------------- MODULE SingleWorkerProofs ------------------------
(***************************************************************************)
(* What holds when the operator runs one worker at a time, whatever the    *)
(* application, the provider and crashes do.                               *)
(***************************************************************************)
EXTENDS BackfillProofs

OneWorker == \E w : Workers = {w}

-----------------------------------------------------------------------------
(* The state machine.                                                      *)

\* The operator's states are not reachable from BACKFILLING.
LEMMA OperatorStaysAway ==
  ASSUME NEW s \in OperatorStates, Operate(s)
  PROVE  state # "BACKFILLING"
<1> SUFFICES ASSUME state = "BACKFILLING" PROVE FALSE
  OBVIOUS
<1>1. IsLegal("BACKFILLING", s) /\ s # "BACKFILLING"
  BY DEF Operate, SetState
<1>2. s \in {"BACKFILLED", "PAUSED_BUDGET", "PAUSED_ERROR"}
  BY <1>1 DEF IsLegal, LegalTransitions, Successors, MigrationStates
<1> QED BY <1>2, BackfillAssumption

\* Every step of a lone worker, of the operator and of the application keeps the
\* migration BACKFILLING while the worker is in the loop.
LEMMA RunningNext ==
  ASSUME OneWorker
  PROVE  TypeInv /\ RunningMeansBackfilling /\ [Next]_vars => RunningMeansBackfilling'
<1> SUFFICES ASSUME TypeInv, RunningMeansBackfilling, [Next]_vars
             PROVE  RunningMeansBackfilling'
  OBVIOUS
<1>0. PICK w0 : Workers = {w0}
  BY DEF OneWorker
<1> USE <1>0 DEF TypeInv, TypeOK, RunningMeansBackfilling, InLoop
<1>1. CASE \/ Start(w0) \/ Enter(w0) \/ Refuse(w0) \/ BeginIllegal(w0) \/ Finish(w0)
           \/ PauseBudget(w0) \/ NoInlineText(w0) \/ EmbedRaises(w0) \/ PauseError(w0)
           \/ Crash(w0)
  BY <1>1 DEF Start, Enter, Refuse, BeginIllegal, Finish, PauseBudget, NoInlineText,
     EmbedRaises, PauseError, Crash, Exit, Goto, Steps
<1>2. CASE Begin(w0)
  BY <1>2 DEF Begin, SetState
<1>3. CASE \/ Claim(w0) \/ Reconcile(w0) \/ Recheck(w0) \/ RecheckError(w0) \/ Reserve(w0)
           \/ EmbedSucceeds(w0) \/ EmbedPoisoned(w0) \/ EmbedTransient(w0)
           \/ EmbedPaused(w0) \/ DeadLetter(w0) \/ Upsert(w0) \/ Account(w0)
  <2>1. UNCHANGED state /\ pc[w0] \notin {"idle", "enter", "begin"}
    BY <1>3 DEF Claim, Reconcile, Recheck, RecheckError, Reserve, EmbedSucceeds,
       EmbedPoisoned, EmbedTransient, EmbedPaused, DeadLetter, Upsert, Account, controlVars
  <2> QED BY <2>1
<1>4. ASSUME NEW s \in OperatorStates, Operate(s) PROVE RunningMeansBackfilling'
  BY <1>4, OperatorStaysAway DEF Operate, workerVars
<1>5. CASE UNCHANGED <<state, pc>>
  BY <1>5
<1> QED BY <1>1, <1>2, <1>3, <1>4, <1>5
        DEF Next, Work, Write, Commit, Rollback, vars, controlVars, workerVars

\* Inside the loop the migration is BACKFILLING: no set_state of the worker is an
\* illegal move (I6).
THEOREM RunningTheorem ==
  ASSUME OneWorker
  PROVE  Spec => []RunningMeansBackfilling
<1>1. Init => RunningMeansBackfilling
  BY DEF Init, RunningMeansBackfilling, InLoop
<1>2. TypeInv /\ RunningMeansBackfilling /\ [Next]_vars => RunningMeansBackfilling'
  BY RunningNext
<1> QED BY <1>1, <1>2, TypeCorrect, PTL DEF Spec

-----------------------------------------------------------------------------
(* The budget.                                                             *)

\* The counters are in sync from the moment run() hydrates them.
BudgetInv ==
  /\ \A w \in Workers : pc[w] # "idle" => mirror[w] = ledger
  /\ CeilingRespected

\* Every step keeps the counters equal to the ledger and the ceilings respected.
LEMMA BudgetNext ==
  ASSUME OneWorker
  PROVE  TypeInv /\ BudgetInv /\ [Next]_vars => BudgetInv'
<1> SUFFICES ASSUME TypeInv, BudgetInv, [Next]_vars PROVE BudgetInv'
  OBVIOUS
<1>0. PICK w0 : Workers = {w0}
  BY DEF OneWorker
<1> USE <1>0 DEF TypeInv, TypeOK, BudgetInv
<1>1. CASE Start(w0)
  BY <1>1 DEF Start, Goto, CeilingRespected, controlVars
<1>2. CASE Exit(w0)
  BY <1>2 DEF Exit, Goto, CeilingRespected
<1>3. CASE \/ Enter(w0) \/ Begin(w0) \/ Claim(w0) \/ Reconcile(w0) \/ Recheck(w0)
           \/ RecheckError(w0) \/ EmbedPoisoned(w0) \/ EmbedTransient(w0)
           \/ EmbedPaused(w0) \/ DeadLetter(w0)
  <2>1. /\ UNCHANGED <<ledger, mirror>> /\ pc[w0] # "idle"
        /\ pc'[w0] \notin {"embed", "upsert", "commit"}
    BY <1>3 DEF Enter, Begin, Claim, Reconcile, Recheck, RecheckError, EmbedPoisoned,
       EmbedTransient, EmbedPaused, DeadLetter, Goto, controlVars
  <2> QED BY <2>1 DEF CeilingRespected
<1>4. CASE Reserve(w0)
  <2>1. /\ UNCHANGED <<ledger, mirror, batch, limit>> /\ mirror[w0] = ledger
        /\ pc'[w0] = IF Fits(w0) THEN "embed" ELSE "pauseBudget"
    BY <1>4 DEF Reserve, Goto, controlVars
  <2>2. Estimate(w0)' = Estimate(w0)
    BY <2>1 DEF Estimate
  <2> QED BY <2>1, <2>2 DEF CeilingRespected, Fits
<1>5. CASE EmbedSucceeds(w0) \/ Upsert(w0)
  <2>1. /\ UNCHANGED <<ledger, mirror, batch, limit>>
        /\ pc[w0] \in {"embed", "upsert"} /\ pc'[w0] \in {"upsert", "commit"}
    BY <1>5 DEF EmbedSucceeds, Upsert, Goto, controlVars
  <2>2. Estimate(w0)' = Estimate(w0)
    BY <2>1 DEF Estimate
  <2> QED BY <2>1, <2>2 DEF CeilingRespected
<1>6. CASE Account(w0)
  <2>1. /\ ledger' = Plus(ledger, Estimate(w0)) /\ mirror[w0] = ledger
        /\ mirror' = [mirror EXCEPT ![w0] = Plus(@, Estimate(w0))]
        /\ pc'[w0] = "claim"
    BY <1>6 DEF Account, CommitSpend, Estimate, Goto
  <2> QED BY <2>1 DEF CeilingRespected
<1>7. CASE UNCHANGED <<ledger, mirror, batch, limit, pc>>
  <2>1. Estimate(w0)' = Estimate(w0)
    BY <1>7 DEF Estimate
  <2> QED BY <1>7, <2>1 DEF CeilingRespected
<1>8. CASE \E w \in Workers : Start(w) \/ Work(w) \/ Crash(w)
  BY <1>1, <1>2, <1>3, <1>4, <1>5, <1>6, <1>8
     DEF Work, Refuse, BeginIllegal, Finish, PauseBudget, NoInlineText, EmbedRaises,
         PauseError, Crash
<1> QED BY <1>7, <1>8
        DEF Next, Operate, Write, Commit, Rollback, vars, controlVars, workerVars

\* Hence they are so in every behaviour.
LEMMA BudgetInvariant ==
  ASSUME OneWorker
  PROVE  Spec => []BudgetInv
<1>1. Init => BudgetInv
  BY DEF Init, BudgetInv, CeilingRespected
<1>2. TypeInv /\ BudgetInv /\ [Next]_vars => BudgetInv'
  BY BudgetNext
<1> QED BY <1>1, <1>2, TypeCorrect, PTL DEF Spec

\* The in-memory counters agree with the ledger across crashes and restarts (I5).
THEOREM MirrorTheorem ==
  ASSUME OneWorker
  PROVE  Spec => []MirrorInSync
<1>1. BudgetInv => MirrorInSync
  BY DEF BudgetInv, MirrorInSync, InLoop
<1> QED BY <1>1, BudgetInvariant, PTL

\* Recorded spend plus the batch in hand stays under both ceilings (I5).
THEOREM CeilingTheorem ==
  ASSUME OneWorker
  PROVE  Spec => []CeilingRespected
<1>1. BudgetInv => CeilingRespected
  BY DEF BudgetInv
<1> QED BY <1>1, BudgetInvariant, PTL

-----------------------------------------------------------------------------
(* The work.                                                               *)

\* The keys about to be dead-lettered have not been so far.
PoisonIsNew ==
  \A w \in Workers : pc[w] = "poison" =>
    \A d \in bad[w] : dead[<<d, batch[w][d]>>] = 0

\* No row of the batch has the vector of the claimed content: it may have been
\* rewritten and its text restored, but only the worker writes hashes.
Unwritten(b) ==
  \A d \in DOMAIN b : Present(d) =>
    rows[d].hash # b[d] \/ (rows[d].prov = "projected" /\ ~MappingOnly)

BatchUnwritten ==
  \A w \in Workers : pc[w] \in {"reserve", "embed", "upsert"} =>
    Unwritten(batch[w]) /\ KeysOf(batch[w]) \cap DeadKeys = {}

WorkInv == BatchUnwritten /\ PoisonIsNew /\ DeadLetteredOnce

\* A row that still holds the claimed content is then pending.
LEMMA UnwrittenIsPending ==
  ASSUME NEW b \in Batches, Unwritten(b)
  PROVE  Matching(b) \subseteq PendingDocs
  BY DEF Matching, Unwritten, Batches, PendingDocs, Pending

\* A claim takes pending rows whose keys are not dead-lettered.
LEMMA ClaimIsWork ==
  ASSUME NEW b, b = ClaimBatch(DeadKeys)
  PROVE  Unwritten(b) /\ KeysOf(b) \cap DeadKeys = {}
<1>1. DOMAIN b = FirstClaimable(DeadKeys) /\ \A d \in DOMAIN b : b[d] = rows[d].text
  BY DEF ClaimBatch
<1>2. \A d \in DOMAIN b : d \in PendingDocs /\ <<d, rows[d].text>> \notin DeadKeys
  BY <1>1 DEF FirstClaimable, Claimable
<1> QED BY <1>1, <1>2 DEF Unwritten, KeysOf, PendingDocs, Pending

\* An application write gives no row the hash of the claimed content.
LEMMA WritesKeepWork ==
  ASSUME TypeInv, NEW b \in Batches, NEW d \in Docs, AppCommit(d), Unwritten(b)
  PROVE  Unwritten(b)'
<1> SUFFICES ASSUME NEW e \in DOMAIN b, Present(e)'
             PROVE  rows'[e].hash # b[e] \/ (rows'[e].prov = "projected" /\ ~MappingOnly)
  BY DEF Unwritten
<1>1. e \in Docs /\ b[e] \in Texts
  BY DEF Batches
<1>2. CASE rows'[e] = rows[e]
  BY <1>2 DEF Unwritten, Present
<1>3. CASE rows'[e] # rows[e]
  <2>1. e = d /\ rows'[e] = AfterTrigger(rows[e], open[e])
    BY <1>1, <1>3 DEF AppCommit, TypeInv, TypeOK, StoreTypeOK, Present
  <2>2. CASE rows'[e] = Unembedded(open[e])
    BY <1>1, <2>2, TextsAssumption DEF Unembedded
  <2>3. CASE rows[e] # Absent /\ rows'[e] = [rows[e] EXCEPT !.text = open[e]]
    <3>1. rows[e] \in RowType
      BY <1>1, <2>3 DEF TypeInv, TypeOK, StoreTypeOK
    <3>2. rows'[e].hash = rows[e].hash /\ rows'[e].prov = rows[e].prov
      BY <2>3, <3>1 DEF RowType
    <3> QED BY <2>3, <3>2 DEF Unwritten, Present
  <2> QED BY <2>1, <2>2, <2>3 DEF AfterTrigger
<1> QED BY <1>2, <1>3

\* Every step keeps what is in hand pending, undead and recorded at most once.
LEMMA WorkNext ==
  ASSUME OneWorker
  PROVE  TypeInv /\ WorkInv /\ [Next]_vars => WorkInv'
<1> SUFFICES ASSUME TypeInv, WorkInv, [Next]_vars PROVE WorkInv'
  OBVIOUS
<1>0. PICK w0 : Workers = {w0}
  BY DEF OneWorker
<1> USE <1>0 DEF TypeInv, TypeOK, WorkInv
<1> DEFINE Working == {"reserve", "embed", "upsert"}
<1>1. CASE Exit(w0) /\ UNCHANGED <<rows, dead>>
  BY <1>1 DEF Exit, Goto, BatchUnwritten, PoisonIsNew, DeadLetteredOnce
<1>2. CASE /\ UNCHANGED dead
           /\ pc'[w0] \notin Working \cup {"poison"}
  BY <1>2 DEF BatchUnwritten, PoisonIsNew, DeadLetteredOnce
<1>3. CASE Claim(w0)
  <2>1. /\ UNCHANGED <<rows, dead>> /\ batch'[w0] = ClaimBatch(DeadKeys)
        /\ pc'[w0] # "poison"
    BY <1>3 DEF Claim, Goto, storeVars, controlVars
  <2>2. /\ Unwritten(batch'[w0])
        /\ KeysOf(batch'[w0]) \cap DeadKeys = {}
    BY <2>1, ClaimIsWork
  <2>3. DeadKeys' = DeadKeys /\ (Unwritten(batch[w0])' <=> Unwritten(batch'[w0]))
    BY <2>1 DEF DeadKeys, Unwritten, Present
  <2> QED BY <2>1, <2>2, <2>3 DEF BatchUnwritten, PoisonIsNew, DeadLetteredOnce
<1>4. CASE /\ UNCHANGED <<rows, dead, batch, bad>>
           /\ pc[w0] \in Working /\ pc'[w0] # "poison"
  <2>1. DeadKeys' = DeadKeys /\ (Unwritten(batch[w0])' <=> Unwritten(batch[w0]))
    BY <1>4 DEF DeadKeys, Unwritten, Present
  <2> QED BY <1>4, <2>1 DEF BatchUnwritten, PoisonIsNew, DeadLetteredOnce
<1>5. CASE EmbedPoisoned(w0)
  <2>1. /\ UNCHANGED <<dead, batch>> /\ pc[w0] = "embed" /\ pc'[w0] = "poison"
        /\ bad'[w0] \subseteq DOMAIN batch[w0]
    BY <1>5 DEF EmbedPoisoned, PoisonDocs, Goto, controlVars
  <2>2. ASSUME NEW d \in DOMAIN batch[w0] PROVE dead[<<d, batch[w0][d]>>] = 0
    <3>1. <<d, batch[w0][d]>> \in Keys /\ <<d, batch[w0][d]>> \notin DeadKeys
      BY <2>1 DEF BatchUnwritten, KeysOf, Batches, Keys
    <3> QED BY <3>1 DEF DeadKeys, ControlTypeOK
  <2> QED BY <2>1, <2>2 DEF BatchUnwritten, PoisonIsNew, DeadLetteredOnce
<1>6. CASE DeadLetter(w0)
  <2>1. PICK d \in bad[w0] :
          /\ RecordDeadLetter(<<d, batch[w0][d]>>)
          /\ bad' = [bad EXCEPT ![w0] = @ \ {d}]
          /\ IF bad[w0] = {d}
             THEN Goto(w0, "claim") /\ errs' = [errs EXCEPT ![w0] = 0]
             ELSE UNCHANGED <<pc, errs>>
    BY <1>6 DEF DeadLetter
  <2>2. /\ pc[w0] = "poison" /\ UNCHANGED batch /\ pc'[w0] \in {"claim", "poison"}
        /\ bad'[w0] = bad[w0] \ {d}
    BY <1>6, <2>1 DEF DeadLetter, Goto
  <2>3. dead[<<d, batch[w0][d]>>] = 0
    BY <2>2 DEF PoisonIsNew
  <2>4. \A k \in Keys : dead'[k] = IF k = <<d, batch[w0][d]>> THEN dead[k] + 1 ELSE dead[k]
    BY <2>1 DEF RecordDeadLetter, ControlTypeOK
  <2>5. DeadLetteredOnce'
    BY <2>3, <2>4 DEF DeadLetteredOnce
  <2>6. ASSUME NEW e \in bad'[w0] PROVE dead'[<<e, batch[w0][e]>>] = 0
    <3>1. e \in bad[w0] /\ e # d /\ e \in DOMAIN batch[w0]
      BY <2>2, <2>6
    <3>2. <<e, batch[w0][e]>> \in Keys
      BY <3>1 DEF Batches, Keys
    <3>3. dead[<<e, batch[w0][e]>>] = 0
      BY <2>2, <3>1 DEF PoisonIsNew
    <3> QED BY <2>4, <3>1, <3>2, <3>3
  <2> QED BY <2>2, <2>5, <2>6 DEF BatchUnwritten, PoisonIsNew
<1>7. CASE \E w \in Workers : Start(w) \/ Work(w) \/ Crash(w)
  <2>1. \/ Start(w0) \/ Enter(w0) \/ Begin(w0) \/ Reconcile(w0) \/ Recheck(w0)
        \/ RecheckError(w0) \/ EmbedTransient(w0) \/ EmbedPaused(w0) \/ Upsert(w0)
        \/ Account(w0)
        => UNCHANGED dead /\ pc'[w0] \notin Working \cup {"poison"}
    BY DEF Start, Enter, Begin, Reconcile, Recheck, RecheckError, EmbedTransient,
       EmbedPaused, Upsert, Account, Goto, controlVars
  <2>2. Refuse(w0) \/ BeginIllegal(w0) \/ Finish(w0) \/ PauseBudget(w0)
        \/ NoInlineText(w0) \/ EmbedRaises(w0) \/ PauseError(w0) \/ Crash(w0)
        => Exit(w0) /\ UNCHANGED <<rows, dead>>
    BY DEF Refuse, BeginIllegal, Finish, PauseBudget, NoInlineText, EmbedRaises, PauseError,
       Crash, storeVars, controlVars
  <2>3. Reserve(w0) \/ EmbedSucceeds(w0)
        => /\ UNCHANGED <<rows, dead, batch, bad>>
           /\ pc[w0] \in Working /\ pc'[w0] # "poison"
    BY DEF Reserve, EmbedSucceeds, Goto, storeVars, controlVars
  <2> QED BY <1>1, <1>2, <1>3, <1>4, <1>5, <1>6, <1>7, <2>1, <2>2, <2>3 DEF Work
<1>8. CASE UNCHANGED <<rows, dead, batch, bad, pc>>
  <2>1. DeadKeys' = DeadKeys /\ (Unwritten(batch[w0])' <=> Unwritten(batch[w0]))
    BY <1>8 DEF DeadKeys, Unwritten, Present
  <2> QED BY <1>8, <2>1 DEF BatchUnwritten, PoisonIsNew, DeadLetteredOnce
<1>9. ASSUME NEW d \in Docs, Commit(d) PROVE WorkInv'
  <2>1. AppCommit(d) /\ UNCHANGED <<dead, batch, bad, pc>>
    BY <1>9 DEF Commit, controlVars, workerVars
  <2>2. pc[w0] \in Working => Unwritten(batch[w0])'
    <3>1. ASSUME NEW b \in Batches, Unwritten(b) PROVE Unwritten(b)'
      BY <2>1, <3>1, WritesKeepWork
    <3>2. pc[w0] \in Working => Unwritten(batch[w0]) /\ batch[w0] \in Batches
      BY DEF BatchUnwritten
    <3> DEFINE HasOld(c, e) ==
                 rows'[e].hash # c[e] \/ (rows'[e].prov = "projected" /\ ~MappingOnly)
    <3>3. pc[w0] \in Working =>
            \A e \in DOMAIN batch[w0] : Present(e)' => HasOld(batch[w0], e)
      BY <3>1, <3>2 DEF Unwritten
    <3> QED BY <2>1, <3>3 DEF Unwritten
  <2>3. DeadKeys' = DeadKeys
    BY <2>1 DEF DeadKeys
  <2> QED BY <2>1, <2>2, <2>3 DEF BatchUnwritten, PoisonIsNew, DeadLetteredOnce
<1> QED BY <1>7, <1>8, <1>9
        DEF Next, Operate, Write, Rollback, AppOpen, AppRollback,
            vars, storeVars, controlVars, workerVars

\* Hence it is so in every behaviour.
LEMMA WorkInvariant ==
  ASSUME OneWorker
  PROVE  Spec => []WorkInv
<1>1. Init => WorkInv
  BY DEF Init, ControlInit, WorkInv, BatchUnwritten, PoisonIsNew, DeadLetteredOnce
<1>2. TypeInv /\ WorkInv /\ [Next]_vars => WorkInv'
  BY WorkNext
<1> QED BY <1>1, <1>2, TypeCorrect, PTL DEF Spec

\* Nothing done or dead-lettered is ever embedded or written again (I1, I2).
THEOREM BatchIsWorkTheorem ==
  ASSUME OneWorker
  PROVE  Spec => []BatchIsWork
<1>1. TypeInv /\ WorkInv => BatchIsWork
  BY UnwrittenIsPending DEF TypeInv, TypeOK, WorkInv, BatchUnwritten, BatchIsWork
<1> QED BY <1>1, WorkInvariant, TypeCorrect, PTL

\* A poison key is dead-lettered once, across crashes and restarts.
THEOREM DeadLetteredOnceTheorem ==
  ASSUME OneWorker
  PROVE  Spec => []DeadLetteredOnce
<1>1. WorkInv => DeadLetteredOnce
  BY DEF WorkInv
<1> QED BY <1>1, WorkInvariant, PTL
=============================================================================
