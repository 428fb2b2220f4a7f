# A verification project for alembicio

`alembicio` migrates a table of documents from one embedding model to another while the
application that owns the table keeps writing to it.  This directory holds TLA+ models of
its core, the TLC runs that check them and the TLAPS proofs about them.  Every definition
is translated from the source; `PROJECT.json` maps each one to its lines.

## 1. Inventory

| Part | State it keeps | Operations | Interacts with |
|---|---|---|---|
| migration state machine (`core/state.py`) | none (a table) | `is_legal`, `assert_transition` | called by `set_state` |
| control plane (`core/control_plane.py`) | migration row, ledger, dead letters | `ensure_schema`, `get_state`, `set_state`, `commit_spend`, `record_dead_letter`, `spend`, `dead_letter_keys` | one Postgres transaction per call, each on its own connection |
| pgvector adapter (`adapters/pgvector.py`) | companion columns (vector, hash, provenance) of each row, a trigger; search view and `read_state` | `prepare`, `claim_batch`, `upsert_vectors`, `pending_count`, `reconcile`; `build_index`, `search`, `flip_read_path`, `decommission` | shares the rows with the application, reads the dead letters |
| backfill worker (`core/worker.py`) | loop variables: batch, error streak | `run`, `drive_backfill` | calls store, control plane, provider |
| budget tracker (`core/budget.py`) | tokens and dollars committed | `reserve`, `commit` | hydrated from the ledger by `run`, checked by the worker |
| token bucket (`core/budget.py`) | level, time of last refill | `acquire` | paces the worker |
| providers (`providers/*.py`) | the breaker's failure streak | `embed_batch`, `count_tokens`, `limits`; `request_with_retries` | called by the worker |
| application (not in the repository) | the user's rows | insert, update, delete, in transactions | the trigger of `prepare` |
| config, CLI, mapping, eval, router, reconcile sweep | none that persists | parsing; stubs that raise `NotImplementedError` | |

What is hard about it: nothing is locked between two calls.  The worker reads a batch, asks
a paid provider, writes vectors and accounts for them in separate transactions, while the
application changes the same rows, the process may be killed anywhere, several workers may
run, the provider may answer in four ways, and completion is decided from a count that is
old when it is used.

What makes each part right:

* store: no row that is complete carries a vector of another text (I4), while a text stands its
  vector is not lost, and only the projected one of a pending row is replaced, by the
  provider's (I1), a deleted row stays deleted (I3);
* worker: a migration is declared complete only over complete rows (I6), and a search of
  the new space then misses none of them; nothing that is
  done or dead-lettered is embedded again (I1, I2); the ledger counts only durable batches,
  loses at most one batch per crash and never counts one twice (I5); what is paid for is
  bounded by the corpus, the writes and the crashes; the worker returns, and re-running it
  converges;
* providers: the two breakers agree, bound what is paid for and lost, and make a worker give
  its provider up when, and only when, it has failed often enough without an answer;
* read path: the view serves the space `read_state` names, and can always be flipped again;
* pacer: no stretch of time is charged more than the rate allows, restarts included, and
  one sleep is always enough;
* budget: recorded spend and the batch in hand stay under both ceilings (I5), or, when
  several workers run, under one ceiling each;
* state machine: only legal moves, and no state a dead worker leaves behind is a trap (I6).

(I1 to I6 are the names the source's docstrings use.)  The hazards behind these properties
are listed one by one, with their lines, in `PROJECT.json`.

## 2. Modules

| Module | Models | Lines |
|---|---|---|
| `MigrationState` | `core/state.py` | constant operators |
| `Corpus` | documents, contents, keys, batches shared by the others | constants |
| `PgStore` | the adapter's embedding lifecycle and the application | a specification of its own, `StoreSpec` |
| `ControlPlane` | `core/control_plane.py` | state and operators, one per method |
| `TokenEstimate` | `conservative_token_estimate` | an operator |
| `Reembedding` | what a migration promises to the owner of the table | the abstract specification of `Backfill` |
| `Backfill` | `run`, `drive_backfill`, `BudgetTracker` over `PgStore` and `ControlPlane` | `Spec`, `FairSpec`, `ResumeSpec`; a client of `StoreSpec`, implements `Reembedding` |
| `HttpBackfill` | `request_with_retries`, `RetryState` and `embed_batch` of the HTTP providers, over `Backfill` | `HttpSpec`, composed with the steps of `Backfill` |
| `ReadPath` | `prepare`, `flip_read_path`, `decommission` over columns, view and `read_state` | a specification of its own |
| `TokenBucket` | the pacer | a specification of its own |
| `MCBackfill`, `MCHttpBackfill`, `MCReadPath`, `MCTokenBucket` | instances for TLC | |
| `PgStoreProofs`, `BackfillProofs`, `CompletionProofs`, `SingleWorkerProofs`, `AccountingProofs`, `HttpProofs`, `TokenBucketProofs`, `ReadPathProofs` | theorems | |

**Store.**  `rows[d]` is the committed row of document `d`, or `Absent`.  `content_hash_expr`
may see more of a row than the text column, so a row has a *content*, and `TextOf` gives the
text of a content: two contents may have one text, and a content may have no text at all.
A content hash identifies a content (md5 is taken to be injective), so a hash is modelled by
the content it was computed from.  A vector is identified by the text it embeds *and* by what
made it (`VectorOf`): the vector the provider makes of a text and the one projected from the
old space are two, and in the default mode of mapping `upsert_vectors` does put the one in
the place of the other while the text stands.  The provider is taken to make of one text one
vector.  The hash expression
is assumed to determine the text, as the default does; with one that does not (a version
column that the application forgets to raise) a changed text would pass the guard of
`upsert_vectors` and keep the earlier vector.  SQL `NULL` is `Null`; `IS DISTINCT FROM` is `#`
because the hash of a `NULL` content is `NULL`, so such a row is never pending.  The trigger
resets a row when its *text* changes (`AfterTrigger`): when only other columns change, the
row is pending by the predicate while its vector stays, and stays right.  The application's
writes are transactions of one row: `AppOpen` takes the row lock, `AppCommit` applies the
write through the trigger, `AppRollback` drops it.  `claim_batch` skips locked rows and ends
its transaction before it returns.  `upsert_vectors` is one step: one transaction, which
waits for locked rows and, under READ COMMITTED, re-evaluates its hash guard on their new
version.  `Found` is `search` of the new space: the documents whose vector is not `NULL`.
`StoreSpec` lets clients upsert *any* batch at *any* time: the abstract specification of
the store, of which the worker is one client.

**Backfill.**  `pc[w]` names the call worker `w` makes next, and each call on the store, the
control plane or the provider is one action, so that anything may happen between two of
them.  Two calls without effect on each other's outcome are merged with the local
computation that follows.

| Action | Code |
|---|---|
| `Start` | `run` up to `drive_backfill`: budget from the configuration, mirror from the ledger |
| `Enter`, `Refuse` | the entry check |
| `Begin`, `BeginIllegal` | `set_state("BACKFILLING")` |
| `Claim` | `claim_batch` |
| `Reconcile`, `Recheck`, `RecheckError`, `Finish` | the branch for an empty batch |
| `NoInlineText` | `_text_of` raises: a claimed row has no text, the process ends |
| `Reserve`, `PauseBudget` | `budget.reserve` |
| `EmbedSucceeds`, `EmbedPoisoned`, `EmbedTransient`, `EmbedPaused` | the four answers of `embed_batch` the loop handles |
| `EmbedRaises` | any other exception of `embed_batch`, which ends the process |
| `DeadLetter` | one turn of the loop over `bad_indices` |
| `PauseError` | `set_state("PAUSED_ERROR")` |
| `Upsert`, `Account` | `upsert_vectors`; `commit_spend` and `budget.commit` |
| `Crash` | a kill, or an exception the loop does not catch, between any two calls |
| `Operate` | a state set through the control plane by someone else (no verb of the CLI does it yet) |
| `Write`, `Commit`, `Rollback` | the application |

`late`, `blind`, `billed` and `crashes` are history variables: they record what the
properties speak of and no action of the program reads them.

**The promise.**  `Reembedding` has no batches, workers, hashes or ledgers: each document is
absent, empty, pending, set aside, or searchable by its current text; documents become
searchable together (`Embed`) or are set aside one by one (`SetAside`); only the owner's
writes undo it (`Change`); the migration is completed when a count finds nothing outstanding
(`Complete`), or, the one flaw of the code it admits, when a count failed
(`CompleteBlindly`).  `Backfill` implements it under the mapping `status[d] <- StatusOf(d)`,
`changed <- late`, `completed <- Completed`: this is `KeepsPromise`.  A worker's step must
therefore never make a document less than it was, whatever it read and however long ago.
`SearchMissesNothing` is `Kept` of the abstract specification said of `search`: in a
completed migration a search of the new space finds every row there is something to embed
of, but for those written after the count.

**HTTP provider.**  In `Backfill` a provider's answer is one step.  `HttpBackfill` replaces it
by requests, one step each: `attempt[w]` counts the failed requests of the call, `streak[w]`
is `consecutive_failures` of the provider object, which outlives the call and is new in a
new process.  A request is accepted (`ResponseAccepted`), answered with a body no matrix
can be made of (`ResponseUnusable`), rejected with a status that is not retryable
(`RequestRejected`), or fails: then it is sent again (`Retry`), or the breaker opens
(`BreakerOpens`), or the attempts are used up (`AttemptsExhausted`).  `raise_for_status` runs
before `embed_batch` looks at the status, so `RequestRejected` is an `EmbedRaises` and no
request is an `EmbedPoisoned`.  A request that fails may have been done, and charged, by a
provider whose answer was lost; the code cannot tell, so each failure may
count in the history variable `lost`.  `failed` counts all failures.  An answer clears both
(`Answered`), whatever the code remembers of them, and they outlive the calls and batches
of one process.  A body no matrix can be made of is billed by the provider as well: the
process ends, and neither `lost` nor `billed` counts it.

**Read path.**  A column keeps the number of its `pg_attribute` row for good: `attributes` is
the sequence of all columns the table ever had, `gone` those that were dropped.  A list of
columns, and a view, is a function from attribute numbers, which keeps the order of
`ORDER BY attnum` and of the view's own columns without computing it.  `flip_read_path` is two
transactions: `FlipList` reads the columns, `FlipCommit` replaces the view and writes
`read_state`; between them other operators flip, `prepare` runs, and the owner adds and
drops columns.  `Accepted` is Postgres: the columns a view reads exist and its names differ,
and `CREATE OR REPLACE VIEW` keeps the columns of the old view, with names, types and places,
and may add others after them; a column the view reads cannot be dropped.  `Bindable` is
psycopg: with a parameter, a string of several statements is refused.  Renamed columns, and
another migration of the same table, which would share the view, are left out.

**Pacer.**  Time is counted in the time in which one token accrues, so a deficit of *n*
tokens is a sleep of *n*.  A sleep may last longer than asked (`MaxLate`).  The pacer only
delays the worker, hence it is not composed with it.  The level of the bucket is not kept
anywhere: `Restart` kills the process and gives it a full bucket, and `WindowRate` allows one
bucket for each start in the stretch of time it looks at.

What the abstraction leaves out: sleeps; the wording of errors; `inspect`;
`float` rounding of dollars (an integer price per token); a second statement of one upsert
seeing a later row version than the first (a row skipped by an early statement and changed
back by the application before the commit is written in the model and left pending by the
code; it was written by the application in any case, hence late); rows a claim skips
because another worker's upsert holds them.  Whether a text is poison depends on the text
alone.

## 3. Runs

All runs of store and worker use two documents and texts of one and two tokens, so that a
batch may hold one or two rows, ceilings may lie between, and a row may be changed, changed
back, deleted and inserted again.  Contents are: two texts `a` and `b`; `c`, which is text `a`
with other values beside it; and `n`, which has no inline text but a hash.

| Run | Question | Bounds |
|---|---|---|
| `single` | Is one worker at a time right about freshness, completion, spend, budget and dead letters under every fault? | contents a, b, c, n; 2 application writes, 1 crash, a poison text, failing counts, ceilings below, at and above the need, the operator verifying and preparing |
| `pair` | What do two workers on one migration still promise: the abstract migration, vectors that neither of them loses or replaces, a search that misses nothing, the accounting, a bound on what they spend together and on what they dead-letter? | contents a, b; 1 write, 1 crash, a poison text (the shorter one, so that what may be paid for twice is the longer), a ceiling for the corpus as it was |
| `resume` | Does re-running converge in `mapping_only` mode, crashes, pauses and a poison text included, does every worker return, if the count excludes dead letters as the store protocol says, is no more billed than a batch per row, write and crash, and do projected vectors stay while their rows are not pending? | contents a, b, c and `NULL`; 1 write, 1 crash, 1 poison text; ceilings far above the need, and a long text a, so that not the ceiling is what bounds the bill |
| `patient` | Does the worker over single requests return, do the two breakers agree, do they bound the work that is lost, and does it give its provider up exactly when it has failed as often in a row as one of them allows? | contents a, b, n and `NULL`; 1 write, 1 crash, 3 attempts, breaker at 5, worker's breaker at 2, two budgets |
| `flip` | Do view and `read_state` agree, does the view skip no column, and can the path always be flipped again? | 2 operators, 3 columns the owner adds and drops, 6 changes, equal vector types |
| `pace` | Does the pacer keep the rate in every stretch of time, is one sleep enough, and does `acquire` return? | capacity 3, batches of 1 to 5, starts up to time 5, sleeps late by 1, 2 restarts |
| `rejected` | Does a migration with a text the provider answers with 400 converge? | violated |
| `livelock` | Does a worker on pgvector return when a text is poison? | violated |
| `completion` | Is nothing pending at the instant of completion? | violated |
| `count` | Is completion always decided from a count? | violated |
| `rollback` | Can the path be flipped back to a space of another dimension? | violated |
| `leave` | Does `decommission` remove the migration's artifacts? | violated |

The bounds of store and worker are `MaxWrites` and `MaxCrashes`; nothing else is cut off.  Two
writes are the smallest number that lets a text change and change back, or a row disappear
and come back (`NoStaleVector`, `BatchIsWork`).  One crash is enough to interrupt each pair of
calls and to resume from there; that a resumed worker may crash again, any number of times,
is covered by the proofs, all of which are for any `MaxCrashes`.  In `patient` a call may run
out of attempts before the provider's breaker opens, and the breaker may open in the second
call: the numbers of the code (6 attempts, breaker at 5) would leave the worker's breaker
idle.  Deadlock is checked everywhere: a worker can always be started, a path flipped, a
batch paced.

In `flip` two overlapping flips suffice for a stale list to commit after, or be refused
because of, a newer one; three columns and six changes let a column be in a stale list,
another in the view, and a third come and go between.  The model does not use the name of a
dropped column again: a flip that listed a column, which is then dropped and added again
before the flip commits, shows it in its old place, and every later flip is refused until
the view is dropped.  In `pace` the stretch of time is any between an `Observe` step and a
later state; the clock runs long enough for the bucket to fill and drain several times, and
`LastTime` cuts off nothing a sleep of a full bucket could reach.

**Fairness.**  `FairSpec` assumes that a running worker goes on (every call returns, and the
loop is a single thread) and that an application transaction ends; nothing is assumed of
starts, of the operator, of crashes, or of which answer the provider gives.  `ResumeSpec`
adds an operator that prepares the migration and starts the worker again whenever it has
stopped, and a provider that, asked again and again, answers at last: the premise of the
sentence in `run` that resuming "from any crash point converges".  `HttpFairSpec` and
`HttpResumeSpec` say the same of single requests: each is answered, refused or times out,
and one that is sent again and again is in the end accepted, or rejected if it is poison.
The pacer's `FairSpec` says that its thread goes on and that time passes; nothing is assumed of
restarts.

### What the violated runs show

* `rejected`: a 400 leaves `embed_batch` as an `httpx.HTTPStatusError`, because
  `raise_for_status` comes before the test for 400.  The text is not dead-lettered, the
  process ends, and so does every process after it.
* `rollback`: replacing a view does not change the type of a column.  The integration test
  flips between two spaces of dimension 3, the only case in which `flip` holds.
* `leave`: the statement is refused as a whole.  (Were it accepted, it would drop the new
  vectors, also when the read path serves them.)
* `livelock`: `pending_count` of pgvector counts dead-lettered rows and `claim_batch` skips
  them, so one dead-lettered row keeps the loop spinning without a pause.  The test for it
  (`tests/core/test_worker_properties.py`, `test_poison_is_dead_lettered_exactly_once`) runs
  on a fake store whose count excludes them; run `resume` is that store.
* `completion`: the "critical section" is three transactions.  `CompletionSound` is what is
  left of the claim, and it is proved: only rows written since the count can be pending.
  That such a row is never embedded later (no transition leads back from `BACKFILLED`)
  contradicts neither; no property is about it.
* `count`: a count that fails in the server is read as zero.

What the passing runs are careful not to claim, for the code does not do it:

* `MirrorInSync` and `CeilingRespected` are claimed for one worker at a time: with two the
  in-memory counters fall behind the ledger, and ceilings are checked against too small a
  spend.  Nothing but the operator keeps a second worker out.  What is left of the ceiling is
  `SpendWithinOneCeilingPerWorker`; what is left of `DeadLetteredOnce`, for two workers may
  claim one poison row, is `DeadLetteredOncePerWorker`.
* `ServesActiveSpace` is claimed for a table that has a column of old vectors.  The view
  shows the new vectors in its place; without one (`old_embedding_column` is `None` by
  default) the cutover commits and the view serves no vector.
* `CurrentListAccepted` is claimed for spaces of one type and a table without a second
  column called `embedding`, and a flip need not show the table as it is: its list of columns
  is read in an earlier transaction, so a column added in between is missing from the view
  until the next flip.  `NothingSkipped` says that such a column is newer than all the view
  shows, which is why the next flip can add it.
* `LostWorkIsBounded` bounds what is lost between two answers of one process, not over a
  migration: the code keeps no count of it.  `WorkIsBounded` and `BillBounded` bound what is
  billed of the answers that arrive.
* `WindowRate` is about the tokens charged: of a batch larger than the bucket, `acquire`
  charges the size of the bucket only.

## 4. Proofs

All theorems hold for every set of documents, contents and workers, every batch size, budget,
poison set and bound, under the assumptions named in the modules (`DocsAssumption`,
`TextsAssumption`, `StoreAssumption`, `VectorAssumption`, `AbsentAssumption`,
`NoWriteAssumption`, `PriceAssumption`, `BackfillAssumption`, `HttpAssumption`,
`BucketAssumption`, `ReadPathAssumption`): ids are a finite set of numbers, workers are
finitely many, the special values differ from the data, token counts are natural numbers, a
table has each column once.  What a theorem needs beyond these is in its `ASSUME`.

* `PgStoreProofs`.  `NoStaleVector` is not inductive as it stands: a row whose hash is
  right but whose vector is not would satisfy neither.  The invariant is `StoreInv`, types
  and *well-formed* rows: vector and hash are both `Null`, or both of one content, whose text
  is the row's own, and the vector was made by what the provenance names.  `DeletesWin`
  follows from one step under it.
  `ClaimTheorem` says what `claim_batch` returns: the claimable rows of least id, as many as the
  batch may hold, and none only if none is claimable; the rank of a row among the claimable
  ones injects what is claimed into `0 .. BatchSize - 1`.
* `BackfillProofs`.  Types of the whole system, and `Spec => StoreSpec`: the
  system is composed from the steps of the store, so what there is to show is that a worker
  upserts only batches whose rows have a text.  It carries the store's theorems over, for
  instance `BackfillNoStaleVector`.  `VectorsAreStable` is about the system, for the store
  would let a client write over a vector at any time: that a worker, however late, replaces
  only a projected vector of a pending row needs the strengthening `ClaimsOpen` (a claimed
  row that holds a projected vector is pending as long as it has the claimed content, for
  workers and application make no row a projected one) and the well-formed rows of the store.
* `CompletionProofs`.  `Spec => KeepsPromise`, the refinement of `Reembedding`, for any number
  of workers: each step of the system is one of the abstract migration or a stutter (the
  lemma for `Upsert` shows that what it changes becomes searchable and nothing else is
  touched; that for `Commit` that the owner's write alone makes no document searchable that
  had no vector of its text).  `CompletionSound` is then inductive over the steps of the
  *abstract* specification (`PromiseIsSound`), so that the batches and crashes are not met
  again, and `SearchMissesNothing` follows from it.
* `SingleWorkerProofs` (one worker, `OneWorker`).  `RunningMeansBackfilling` needs that no
  state the operator sets is reachable from `BACKFILLING`; `MirrorInSync` and
  `CeilingRespected` are strengthened to `BudgetInv` (the mirror agrees from the moment it
  is hydrated); `BatchIsWork` and `DeadLetteredOnce` go together in `WorkInv`, with the
  fact that a key about to be recorded has no record yet.
* `AccountingProofs`, all for any number of workers.  `DurableBeforeLedger` rests on two facts:
  dead-lettered keys are of poison texts, and a batch that has been embedded contains none;
  the same facts give that a poison text never gets a vector (`NoPoisonVector`).
  `DeadLetteredOncePerWorker` counts the workers that may still record a key (`Holders`): a
  claim takes no key that has a record, so once there is one, each further record uses a
  holder up and nothing adds one.  `LedgerWithinOneBatchPerCrash` is for a corpus whose token
  counts are bounded (`BoundedTokens`: otherwise "one batch" has no size): `HandInv` says how far
  the ledger may be behind: by the batches in hand, and by one batch at most per crash.
  `SpendWithinOneCeilingPerWorker`, for budgets that are bounded (`BoundedLimits`), gives every
  worker a *room*, what its counters leave under its ceiling: the ledger and all the rooms
  together never exceed a ceiling per worker.  A record moves its cost from the worker's room
  to the ledger; a start, whose mirror is the ledger, makes a room that with the ledger is one
  ceiling, and the other rooms are no larger than a ceiling each.  What is in flight has been
  reserved, and is part of a room.  `BillBounded` combines the two: what the provider bills is
  at most a ceiling per worker and a batch per crash.  `WorkIsBounded` is a bound without
  ceilings.  Its invariant, `EffortInv`, weighs the rows that are pending and the writes under
  way, once for every worker, against the batches that are paid for; a worker has a `Slack` of
  one more while it holds a batch that others have overtaken (it will be paid for in vain), and of
  one less while it holds one that it has paid for and that still completes a row.  An upsert
  that completes a row makes up for all it overtakes, and a write makes a row pending or
  overtakes batches, but not both.  In flight, the rooms and the slacks are sums
  over the workers.  `Total` is such a sum, written as the cardinality of the set of its units, so
  that what the proofs need of it (one term changes, every term is bounded) comes from the
  library's theorems on finite sets; that the model's own sum, a recursive function, is the
  same (`InFlightIsTotal`) is shown by a smallest set on which the two would differ.
* `HttpProofs`.  That `HttpSpec => Spec` is by composition (a lemma): a retry is a stutter of
  the worker, every other request one of its answers.  `BreakerOpensFirst`: when the breaker is
  no wider than a call (5 and 6 in the code) a call that runs out of attempts would have opened
  it, hence the worker's own breaker never counts; the invariant relates the failures of the
  call to the streak.  This one is proved only: in `patient` the breaker is wider.
  `BreakersAgree`, for any numbers, needs that a call in progress has attempts left, that no
  request is answered with a poison error (it would clear one streak and not the other), and
  that a new process counts from zero.  `LostWorkIsBounded` follows from it: while a call is
  possible what is lost is at most the streak, the streak is both below the provider's limit
  and a count of whole calls, and the last failure adds one to each. `HttpKeepsPromise`
  collects what holds of workers on an HTTP provider because it holds of every worker.
  `PausesExactlyWhenDown` adds to these invariants that what the provider's breaker counts is
  what has failed since the last answer (`DownInv`).  `NothingDeadLettered` and
  `RejectedTextsTheorem` say nothing good of the code: they are the finding of run `rejected`
  in general.  Such a provider's rejections are never recorded, so a rejected text that is left
  as it is keeps its migration from completing, contrary to `providers/base.py:45-48`.
* `TokenBucketProofs`.  `WindowRate` says nothing of what is left in the bucket, so it is
  strengthened to `Conserved`: what was taken since the mark *and what could be taken now*
  were there, have accrued since, or came with a start.  `OneSleepSuffices` needs that the sleep
  was computed from the level that was stored with it (`SleepInv`).
* `ReadPathProofs`, of a table that has a column of old vectors (`HasOld`), for any columns and
  any number of operators.  `ReadInv` says what a list of columns, however old, still says
  of the table: it agrees with the table on the numbers it has, and any other column there
  is has a higher number than all of it; the view is what some such list became.  A table
  only grows at its end (`PrepareGrows`), the old column is never dropped, and a column the
  view reads is not dropped either, so every step keeps it.  `ServesActiveSpace` and
  `NothingSkipped` follow; `CurrentListAccepted` then needs only that both spaces have one
  type and that no other column is called `embedding`, which are exactly the two cases in
  which it fails.  When the types differ, `FirstSpaceStays`: what the path first serves it serves
  for ever, which is the finding of run `rollback` for every such table, and says as well that a
  flip to the old space, made first, rules out the cutover.

Only model-checked: the liveness properties (`WorkerReturns`, `ResumeConverges`,
`AcquireReturns`), which are out of the prover's reach.  Every other property of a passing run
is a theorem.

## 5. Not modelled

* Configuration (`config.py`), command line (`cli.py`): parsing; every verb raises
  `NotImplementedError`, and the operator of `Backfill` calls `run` and the control plane, as
  the tests do.  What a configuration decides (texts, hash expression, limits,
  batch size, models) is in the constants.
* Evaluation, mapping (Procrustes, ridge), the request router `choose_space` and the reconcile
  sweep: stubs that raise `NotImplementedError`.  `PgStore` has the provenance `projected`,
  which rows of a mapping would carry.
* `inspect` and `build_index`: the one reads, the other makes a physical index that changes no
  answer a property speaks of.  That an interrupted concurrent build leaves an invalid index
  which `IF NOT EXISTS` skips is recorded as a hazard.
* Several migrations of one table: they would share the view while each has its own
  `read_state`; recorded as a hazard.
* The local provider: a library call; the worker over it is `Backfill`.
* `TokenEstimate` is the only word on token counts; the table of prices is a constant.
