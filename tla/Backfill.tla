------------------------------ MODULE Backfill ------------------------------
(***************************************************************************)
(* The backfill worker (run and drive_backfill in alembicio/core/worker.py *)
(* with BudgetTracker of core/budget.py), composed with the store adapter, *)
(* the control plane, an embedding provider and the application.           *)
(*                                                                         *)
(* Every call the worker makes on the store, the control plane or the      *)
(* provider is a step of its own: each opens its own connection, so other  *)
(* actors run between any two of them and the process may die there.       *)
(***************************************************************************)
EXTENDS PgStore, ControlPlane, FiniteSetsExt

CONSTANTS
  Workers,        \* processes executing `alembicio backfill`, finitely many
  TokenCount(_),  \* count_tokens of the texts of a batch
  Limits,         \* the budgets [tokens, usd] the operator may configure
  MaxErrors,      \* max_consecutive_errors, the worker's circuit breaker
  PoisonTexts,    \* texts (not contents) the provider rejects with PoisonInputError
  CountsDead,     \* TRUE: pgvector's pending_count; FALSE: the protocol's
  QueryErrors,    \* whether the query of pending_count may fail in the server
  OperatorStates, \* states the operator sets through the control plane
  MaxCrashes      \* bound on worker deaths

ASSUME BackfillAssumption ==
  /\ IsFiniteSet(Workers)
  /\ \A b \in Batches : TokenCount(b) \in Nat
  /\ Limits \subseteq Spend
  /\ MaxErrors \in Nat \ {0}
  /\ PoisonTexts \subseteq Texts
  /\ CountsDead \in BOOLEAN /\ QueryErrors \in BOOLEAN
  /\ OperatorStates \subseteq
       {"PREPARED", "VERIFIED", "CANARY", "CUTOVER", "SOAKING", "DONE", "ROLLED_BACK"}
  /\ MaxCrashes \in Nat

VARIABLES
  pc,       \* the call the worker makes next
  batch,    \* the claimed batch
  bad,      \* documents of the batch still to be dead-lettered
  errs,     \* consecutive_errors
  mirror,   \* BudgetTracker's counters
  limit,    \* BudgetTracker's ceilings
  \* History, not part of the program:
  late,     \* documents written since a worker last saw nothing pending
  blind,    \* some pending_count has answered 0 because its query failed
  billed,   \* tokens of all successful embed calls
  crashes   \* worker deaths

workerVars  == <<pc, batch, bad, errs, mirror, limit>>
historyVars == <<late, blind, billed, crashes>>
vars == <<storeVars, controlVars, workerVars, historyVars>>

Steps == { "idle", "enter", "begin", "claim", "reconcile", "recheck", "finish",
           "reserve", "embed", "poison", "upsert", "commit",
           "pauseBudget", "pauseError" }

Goto(w, step) == pc' = [pc EXCEPT ![w] = step]

\* The process is gone, and its memory with it.
Exit(w) ==
  /\ Goto(w, "idle")
  /\ batch' = [batch EXCEPT ![w] = NoBatch]
  /\ bad' = [bad EXCEPT ![w] = {}]
  /\ errs' = [errs EXCEPT ![w] = 0]
  /\ mirror' = [mirror EXCEPT ![w] = NoSpend]
  /\ limit' = [limit EXCEPT ![w] = NoSpend]

\* set_state, or TransitionError with the state untouched.
TrySetState(s) ==
  \/ SetState(s)
  \/ ~IsLegal(state, s) /\ UNCHANGED state

-----------------------------------------------------------------------------
(* Entering the loop.                                                      *)

\* Mutant of Start: the mirror is not hydrated.
StartFromZero(w) ==
  /\ pc[w] = "idle"
  /\ \E l \in Limits : limit' = [limit EXCEPT ![w] = l]
  /\ Goto(w, "enter")
  /\ UNCHANGED <<storeVars, controlVars, batch, bad, errs, mirror, historyVars>>

\* run(): read the configured budget and hydrate the mirror from the ledger.
Start(w) ==
  /\ pc[w] = "idle"
  /\ \E l \in Limits : limit' = [limit EXCEPT ![w] = l]
  /\ mirror' = [mirror EXCEPT ![w] = ledger]
  /\ Goto(w, "enter")
  /\ UNCHANGED <<storeVars, controlVars, batch, bad, errs, historyVars>>

Enter(w) ==
  /\ pc[w] = "enter" /\ state \in ResumableEntry
  /\ Goto(w, "begin")
  /\ UNCHANGED <<storeVars, controlVars, batch, bad, errs, mirror, limit, historyVars>>

\* WorkerError: the state is not resumable.
Refuse(w) ==
  /\ pc[w] = "enter" /\ state \notin ResumableEntry
  /\ Exit(w)
  /\ UNCHANGED <<storeVars, controlVars, historyVars>>

\* Mutant of Begin: the state is not written on entry.
BeginQuietly(w) ==
  /\ pc[w] = "begin" /\ IsLegal(state, "BACKFILLING")
  /\ Goto(w, "claim")
  /\ UNCHANGED <<storeVars, controlVars, batch, bad, errs, mirror, limit, historyVars>>

Begin(w) ==
  /\ pc[w] = "begin" /\ SetState("BACKFILLING")
  /\ Goto(w, "claim")
  /\ UNCHANGED <<storeVars, ledger, dead, batch, bad, errs, mirror, limit, historyVars>>

\* TransitionError from the set_state that starts the loop.
BeginIllegal(w) ==
  /\ pc[w] = "begin" /\ ~IsLegal(state, "BACKFILLING")
  /\ Exit(w)
  /\ UNCHANGED <<storeVars, controlVars, historyVars>>

-----------------------------------------------------------------------------
(* Claiming, and completion when nothing is claimable.                     *)

\* claim_batch commits before it returns: the row locks do not outlive it.
Claim(w) ==
  /\ pc[w] = "claim"
  /\ batch' = [batch EXCEPT ![w] = ClaimBatch(DeadKeys)]
  /\ Goto(w, IF ClaimBatch(DeadKeys) = NoBatch THEN "reconcile" ELSE "reserve")
  /\ UNCHANGED <<storeVars, controlVars, bad, errs, mirror, limit, historyVars>>

\* Mutant of Reconcile: completion without the pending re-check.
ReconcileIsEnough(w) ==
  /\ pc[w] = "reconcile"
  /\ Goto(w, "finish")
  /\ UNCHANGED <<storeVars, controlVars, batch, bad, errs, mirror, limit, historyVars>>

\* pgvector's reconcile only counts; the worker drops its report.
Reconcile(w) ==
  /\ pc[w] = "reconcile"
  /\ Goto(w, "recheck")
  /\ UNCHANGED <<storeVars, controlVars, batch, bad, errs, mirror, limit, historyVars>>

\* Mutant of Counted: dead-lettered rows are counted whatever the store promises.
CountedWithDead == PendingDocs

\* The rows pending_count counts.
Counted ==
  IF CountsDead THEN PendingDocs
                ELSE { d \in PendingDocs : <<d, rows[d].text>> \notin DeadKeys }

Recheck(w) ==
  /\ pc[w] = "recheck"
  /\ Goto(w, IF Counted = {} THEN "finish" ELSE "claim")
  /\ late' = IF Counted = {} THEN {} ELSE late
  /\ UNCHANGED <<storeVars, controlVars, batch, bad, errs, mirror, limit,
                 blind, billed, crashes>>

\* `except psycopg.Error: return 0`.
RecheckError(w) ==
  /\ pc[w] = "recheck" /\ QueryErrors
  /\ Goto(w, "finish")
  /\ blind' = TRUE
  /\ UNCHANGED <<storeVars, controlVars, batch, bad, errs, mirror, limit,
                 late, billed, crashes>>

Finish(w) ==
  /\ pc[w] = "finish" /\ TrySetState("BACKFILLED")
  /\ Exit(w)
  /\ UNCHANGED <<storeVars, ledger, dead, historyVars>>

-----------------------------------------------------------------------------
(* One batch: reserve, embed, write, account.                              *)

Estimate(w) == SpendOf(TokenCount(batch[w]))

\* Mutant of Fits: only the token ceiling is checked.
FitsTokens(w) == mirror[w].tokens + Estimate(w).tokens <= limit[w].tokens

\* BudgetTracker.reserve does not raise.
Fits(w) ==
  LET after == Plus(mirror[w], Estimate(w))
  IN after.tokens <= limit[w].tokens /\ after.usd <= limit[w].usd

\* WorkerError of _text_of: a claimed row has no inline text.
NoInlineText(w) ==
  /\ pc[w] = "reserve" /\ batch[w] \notin Embeddable
  /\ Exit(w)
  /\ UNCHANGED <<storeVars, controlVars, historyVars>>

\* Mutant of Reserve: a missing text is passed on as it is.
ReserveWithoutText(w) ==
  /\ pc[w] = "reserve"
  /\ Goto(w, IF Fits(w) THEN "embed" ELSE "pauseBudget")
  /\ UNCHANGED <<storeVars, controlVars, batch, bad, errs, mirror, limit, historyVars>>

Reserve(w) ==
  /\ pc[w] = "reserve" /\ batch[w] \in Embeddable
  /\ Goto(w, IF Fits(w) THEN "embed" ELSE "pauseBudget")
  /\ UNCHANGED <<storeVars, controlVars, batch, bad, errs, mirror, limit, historyVars>>

PauseBudget(w) ==
  /\ pc[w] = "pauseBudget" /\ TrySetState("PAUSED_BUDGET")
  /\ Exit(w)
  /\ UNCHANGED <<storeVars, ledger, dead, historyVars>>

PoisonDocs(w) == { d \in DOMAIN batch[w] : TextOf(batch[w][d]) \in PoisonTexts }

\* Mutant of EmbedSucceeds: the ledger is written before the vectors.
EmbedThenAccount(w) ==
  /\ pc[w] = "embed" /\ PoisonDocs(w) = {}
  /\ Goto(w, "commit")
  /\ errs' = [errs EXCEPT ![w] = 0]
  /\ billed' = billed + TokenCount(batch[w])
  /\ UNCHANGED <<storeVars, controlVars, batch, bad, mirror, limit, late, blind, crashes>>

EmbedSucceeds(w) ==
  /\ pc[w] = "embed" /\ PoisonDocs(w) = {}
  /\ Goto(w, "upsert")
  /\ errs' = [errs EXCEPT ![w] = 0]
  /\ billed' = billed + TokenCount(batch[w])
  /\ UNCHANGED <<storeVars, controlVars, batch, bad, mirror, limit, late, blind, crashes>>

\* PoisonInputError names some of the offending inputs.
EmbedPoisoned(w) ==
  /\ pc[w] = "embed"
  /\ \E indices \in SUBSET PoisonDocs(w) \ {{}} : bad' = [bad EXCEPT ![w] = indices]
  /\ Goto(w, "poison")
  /\ UNCHANGED <<storeVars, controlVars, batch, errs, mirror, limit, historyVars>>

\* One record_dead_letter call; after the last one the loop goes around.
DeadLetter(w) ==
  /\ pc[w] = "poison"
  /\ \E d \in bad[w] :
       /\ RecordDeadLetter(<<d, batch[w][d]>>)
       /\ bad' = [bad EXCEPT ![w] = @ \ {d}]
       /\ IF bad[w] = {d}
          THEN Goto(w, "claim") /\ errs' = [errs EXCEPT ![w] = 0]
          ELSE UNCHANGED <<pc, errs>>
  /\ UNCHANGED <<storeVars, state, ledger, batch, mirror, limit, historyVars>>

\* TransientProviderError: back off and claim again, or trip the breaker.
EmbedTransient(w) ==
  /\ pc[w] = "embed"
  /\ errs' = [errs EXCEPT ![w] = @ + 1]
  /\ Goto(w, IF errs[w] + 1 >= MaxErrors THEN "pauseError" ELSE "claim")
  /\ UNCHANGED <<storeVars, controlVars, batch, bad, mirror, limit, historyVars>>

\* Any other exception of the provider ends the process: nothing was written.
EmbedRaises(w) ==
  /\ pc[w] = "embed"
  /\ Exit(w)
  /\ UNCHANGED <<storeVars, controlVars, historyVars>>

\* ProviderPausedError: the provider's own breaker is open.
EmbedPaused(w) ==
  /\ pc[w] = "embed"
  /\ Goto(w, "pauseError")
  /\ UNCHANGED <<storeVars, controlVars, batch, bad, errs, mirror, limit, historyVars>>

PauseError(w) ==
  /\ pc[w] = "pauseError" /\ TrySetState("PAUSED_ERROR")
  /\ Exit(w)
  /\ UNCHANGED <<storeVars, ledger, dead, historyVars>>

\* Mutants of Upsert: the batch is not accounted for; deleted rows come back.
UpsertUnaccounted(w) ==
  /\ pc[w] = "upsert"
  /\ UpsertVectors(batch[w], "embedded")
  /\ Goto(w, "claim")
  /\ UNCHANGED <<controlVars, batch, bad, errs, mirror, limit, historyVars>>

UpsertInserting(w) ==
  /\ pc[w] = "upsert"
  /\ rows' = [d \in Docs |-> IF d \in DOMAIN batch[w] /\ ~Present(d)
                            THEN Written(batch[w][d], "embedded") ELSE rows[d]]
  /\ Goto(w, "commit")
  /\ UNCHANGED <<open, writes, controlVars, batch, bad, errs, mirror, limit, historyVars>>

Upsert(w) ==
  /\ pc[w] = "upsert"
  /\ UpsertVectors(batch[w], "embedded")
  /\ Goto(w, "commit")
  /\ UNCHANGED <<controlVars, batch, bad, errs, mirror, limit, historyVars>>

\* commit_spend and then, in memory, budget.commit.
Account(w) ==
  /\ pc[w] = "commit"
  /\ CommitSpend(TokenCount(batch[w]))
  /\ mirror' = [mirror EXCEPT ![w] = Plus(@, Estimate(w))]
  /\ Goto(w, "claim")
  /\ UNCHANGED <<storeVars, state, dead, batch, bad, errs, limit, historyVars>>

-----------------------------------------------------------------------------
(* The environment: a kill -9, or an exception of a call to the store or   *)
(* the control plane, the operator, and the application.                   *)

Crash(w) ==
  /\ pc[w] # "idle" /\ crashes < MaxCrashes
  /\ crashes' = crashes + 1
  /\ Exit(w)
  /\ UNCHANGED <<storeVars, controlVars, late, blind, billed>>

Operate(s) ==
  /\ state # s /\ SetState(s)
  /\ UNCHANGED <<storeVars, ledger, dead, workerVars, historyVars>>

Write(d) ==
  /\ \E c \in Contents \cup {Absent} : AppOpen(d, c)
  /\ UNCHANGED <<controlVars, workerVars, historyVars>>

Commit(d) ==
  /\ AppCommit(d)
  /\ late' = late \cup {d}
  /\ UNCHANGED <<controlVars, workerVars, blind, billed, crashes>>

Rollback(d) ==
  /\ AppRollback(d)
  /\ UNCHANGED <<controlVars, workerVars, historyVars>>

-----------------------------------------------------------------------------

Init ==
  /\ StoreInit /\ ControlInit
  /\ pc = [w \in Workers |-> "idle"]
  /\ batch = [w \in Workers |-> NoBatch]
  /\ bad = [w \in Workers |-> {}]
  /\ errs = [w \in Workers |-> 0]
  /\ mirror = [w \in Workers |-> NoSpend]
  /\ limit = [w \in Workers |-> NoSpend]
  /\ late = {} /\ blind = FALSE /\ billed = 0 /\ crashes = 0

\* What the worker does once the operator has started it.
Work(w) ==
  \/ Enter(w) \/ Refuse(w) \/ Begin(w) \/ BeginIllegal(w)
  \/ Claim(w) \/ Reconcile(w) \/ Recheck(w) \/ RecheckError(w) \/ Finish(w)
  \/ NoInlineText(w) \/ Reserve(w) \/ PauseBudget(w)
  \/ EmbedSucceeds(w) \/ EmbedPoisoned(w) \/ EmbedTransient(w) \/ EmbedPaused(w)
  \/ EmbedRaises(w)
  \/ DeadLetter(w) \/ PauseError(w) \/ Upsert(w) \/ Account(w)

Next ==
  \/ \E w \in Workers : Start(w) \/ Work(w) \/ Crash(w)
  \/ \E s \in OperatorStates : Operate(s)
  \/ \E d \in Docs : Write(d) \/ Commit(d) \/ Rollback(d)

Spec == Init /\ [][Next]_vars

\* A running worker keeps calling, every call returns, and an application
\* transaction ends.  Nothing is assumed of starts, of the operator, of
\* crashes or of which answer the provider gives.
Fairness ==
  /\ \A w \in Workers : WF_vars(Work(w))
  /\ \A d \in Docs : WF_vars(Commit(d) \/ Rollback(d))

FairSpec == Spec /\ Fairness

\* The operator sets PREPARED and keeps re-running the command, and a provider
\* asked again and again eventually answers.
ResumeSpec ==
  /\ FairSpec
  /\ WF_vars(Operate("PREPARED"))
  /\ \A w \in Workers : /\ WF_vars(Start(w))
                        /\ SF_vars(EmbedSucceeds(w))
                        /\ SF_vars(EmbedPoisoned(w))
-----------------------------------------------------------------------------
(* What must hold for any number of workers.                               *)

\* Every variable has its type, only a worker that is recording dead letters has
\* any left to record (worker.py:262), and no text of a batch is missing from its
\* reservation on (worker.py:244).
TypeOK ==
  /\ StoreTypeOK /\ ControlTypeOK
  /\ pc \in [Workers -> Steps]
  /\ batch \in [Workers -> Batches]
  /\ bad \in [Workers -> SUBSET Docs]
  /\ \A w \in Workers : bad[w] \subseteq IF pc[w] = "poison" THEN DOMAIN batch[w] ELSE {}
  /\ \A w \in Workers : pc[w] \in {"embed", "upsert", "commit"} => batch[w] \in Embeddable
  /\ errs \in [Workers -> Nat]
  /\ mirror \in [Workers -> Spend]
  /\ limit \in [Workers -> Spend]
  /\ late \subseteq Docs
  /\ blind \in BOOLEAN
  /\ billed \in Nat
  /\ crashes \in 0 .. MaxCrashes

CompletedStates ==
  {"BACKFILLED", "VERIFIED", "CANARY", "CUTOVER", "SOAKING", "DONE", "ROLLED_BACK"}

Completed ==
  \/ state \in CompletedStates
  \/ \E w \in Workers : pc[w] = "finish"

\* I6: unless a pending_count has failed, a migration is declared backfilled
\* only over a store in which everything the application had not written since
\* the last count was complete; and it stays so (worker.py:233-242).
CompletionSound == Completed /\ ~blind => Counted \subseteq late

\* What is to be said of a document.
StatusOf(d) ==
  CASE ~Present(d) -> "absent"
    [] Pending(d)  -> IF <<d, rows[d].text>> \in DeadKeys THEN "dead" ELSE "pending"
    [] OTHER       -> IF d \in Found THEN "searchable" ELSE "empty"

Promise == INSTANCE Reembedding
  WITH DeadHold <- CountsDead, status <- [d \in Docs |-> StatusOf(d)],
       changed <- late, completed <- Completed

\* I1-I3, I6: whatever workers, crashes and the application do, every step is one
\* of a migration as its owner sees it, or none: a row is found again only by its
\* current text, only the application makes work, and a replayed batch changes
\* nothing (worker.py:233-307, pgvector.py:266-353).
KeepsPromise == Promise!Spec

\* I6: a search of the new space misses no row of a completed migration
\* (worker.py:233-242, pgvector.py:405-440).
SearchMissesNothing == Promise!Kept

\* I1, I5: what the ledger is about to count is durable.  Each row of the batch
\* that still holds the claimed text has its vector, or was written again by
\* the application meanwhile (worker.py:294-307).
DurableBeforeLedger ==
  \A w \in Workers : pc[w] = "commit" =>
    \A d \in Matching(batch[w]) : Done(d) \/ d \in late

\* I1: while its text stands, a row does not lose its vector and the provider's vector
\* is not replaced: a batch claimed before another worker's write, or before a crash,
\* changes nothing when it is written again.  A projected vector gives way to the
\* provider's, once, and only of a row that is pending: in mapping_only mode not before
\* the content has changed beside the text (pgvector.py:115-131, 220-225, 322-330).
VectorsAreStable ==
  [][\A d \in Found :
       Present(d)' /\ TextOf(rows'[d].text) = TextOf(rows[d].text)
         => \/ rows'[d].vec = rows[d].vec
            \/ /\ rows[d].vec.by = "projected" /\ Pending(d)
               /\ rows'[d].vec = VectorOf(rows'[d].text, "embedded")]_vars

InFlight ==
  MapThenSumSet(LAMBDA w : TokenCount(batch[w]),
                { w \in Workers : pc[w] \in {"upsert", "commit"} })

BatchCost ==
  Max({ TokenCount(b) : b \in { c \in Batches : Cardinality(DOMAIN c) <= BatchSize } })

\* I5: the ledger never counts tokens the provider has not billed, and each
\* crash loses the count of at most one batch (worker.py:199-202, 302-307).
LedgerWithinOneBatchPerCrash ==
  /\ ledger.tokens + InFlight <= billed
  /\ billed <= ledger.tokens + InFlight + crashes * BatchCost
  /\ ledger.usd = Price * ledger.tokens

\* I5, with several workers: each reserves against counters it read when it was
\* started, so together they may pass a ceiling (worker.py:403-406), but they record
\* and have in flight no more than one ceiling each, however often they are
\* restarted, crash or embed the same rows (budget.py:56-84).
SpendWithinOneCeilingPerWorker ==
  /\ ledger.tokens + InFlight <= Cardinality(Workers) * Max({ l.tokens : l \in Limits })
  /\ ledger.usd + Price * InFlight <= Cardinality(Workers) * Max({ l.usd : l \in Limits })

\* Workers may have claimed a poison key together, and each records it; none records it
\* again, however often it dies half way and is started again (worker.py:261-271,
\* pgvector.py:279-286).
DeadLetteredOncePerWorker == \A k \in Keys : dead[k] <= Cardinality(Workers)

\* I1: not the budgets but the corpus bounds what is billed.  A batch a worker has paid
\* for completes a row, unless the application or another worker was faster or the worker
\* has died, so each worker pays once per row, per write and per own death
\* (worker.py:199-202, 294-307, pgvector.py:115-131).
WorkIsBounded ==
  billed <= BatchCost * (Cardinality(Workers) * (Cardinality(Docs) + writes) + crashes)

-----------------------------------------------------------------------------
(* What must hold when the operator runs one worker at a time.             *)

InLoop(w) == pc[w] \notin {"idle", "enter", "begin"}

\* The in-memory counters agree with the durable ledger at every call, across
\* crashes and restarts (worker.py:302-307, 403-406).
MirrorInSync == \A w \in Workers : InLoop(w) => mirror[w] = ledger

\* I5: from the reservation to the commit, the spend already recorded plus this
\* batch stays under both ceilings (worker.py:248-254, budget.py:56-84).
CeilingRespected ==
  \A w \in Workers : pc[w] \in {"embed", "upsert", "commit"} =>
    LET after == Plus(ledger, Estimate(w))
    IN after.tokens <= limit[w].tokens /\ after.usd <= limit[w].usd

\* I6: a worker inside the loop works on a migration that is BACKFILLING, so
\* none of its set_state calls is an illegal move.
RunningMeansBackfilling ==
  \A w \in Workers : InLoop(w) => state = "BACKFILLING"

\* I1, I2: no embedding is requested or written for a row that is not pending (any
\* more), nor for a dead-lettered key, whatever the application and earlier
\* crashes did (pgvector.py:115-131, 273-298).
BatchIsWork ==
  \A w \in Workers : pc[w] \in {"reserve", "embed", "upsert"} =>
    /\ Matching(batch[w]) \subseteq PendingDocs
    /\ KeysOf(batch[w]) \cap DeadKeys = {}

\* A poison key is dead-lettered once, also when the worker dies half way
\* through the keys of a batch (worker.py:261-271).
DeadLetteredOnce == \A k \in Keys : dead[k] <= 1

-----------------------------------------------------------------------------
\* A worker that was started returns: it completes, pauses, or fails.
WorkerReturns == \A w \in Workers : pc[w] # "idle" ~> pc[w] = "idle"

\* Re-run after every pause, failure and crash, the migration is backfilled in
\* the end (worker.py:389-390: "resume from any crash point converges").
ResumeConverges == <>(state = "BACKFILLED")

-----------------------------------------------------------------------------
(* What the repository says of the program and the code does not do.       *)

\* worker.py:235-236: "Completion critical section: reconcile, re-check pending,
\* and write state with no interleaving".
CompletionIsAtomic ==
  [][state # "BACKFILLED" /\ state' = "BACKFILLED" => PendingDocs = {}]_vars

\* pgvector.py:251: pending_count "Count[s] rows not backfill-complete per the
\* pending predicate", so a worker that read 0 read it from the rows.
CompletionIsCounted == Completed => Counted \subseteq late
=============================================================================
