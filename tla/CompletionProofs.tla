--------------------------- MODULE CompletionProofs -------------------------
(***************************************************************************)
(* The system, for any number of workers, is a migration as its owner sees *)
(* it (Reembedding): the refinement, and what follows from it.             *)
(***************************************************************************)
EXTENDS BackfillProofs

-----------------------------------------------------------------------------
(* What the steps do to the state of the migration.                        *)

\* A call that does not lead to Finish completes nothing by itself.
LEMMA NotFinishing ==
  ASSUME TypeOK, NEW w \in Workers,
         Exit(w) \/ \E x \in Steps \ {"finish"} : Goto(w, x)
  PROVE  \A v \in Workers : pc'[v] = "finish" => pc[v] = "finish"
  BY DEF TypeOK, Exit, Goto, Steps

\* An illegal or idle set_state changes nothing; a legal one completes a
\* migration only from a completed state or by BACKFILLED.
LEMMA CompletingMoves ==
  ASSUME state \in MigrationStates, NEW s, TrySetState(s),
         s # "BACKFILLED", state' \in CompletedStates
  PROVE  state \in CompletedStates
<1>1. CASE state' = state
  BY <1>1
<1>2. CASE IsLegal(state, s) /\ state' = s
  <2>1. s = state \/ s \in Successors[state]
    BY <1>2 DEF IsLegal, LegalTransitions
  <2>2. CASE s \in Successors[state]
    BY <1>2, <2>2 DEF Successors, CompletedStates, MigrationStates
  <2> QED BY <1>2, <2>1, <2>2
<1> QED BY <1>1, <1>2 DEF TrySetState, SetState

-----------------------------------------------------------------------------
(* What the steps do to the status of the documents.                       *)

\* A status is that of the row and of its key in the dead letters.
LEMMA StatusStable ==
  ASSUME UNCHANGED dead, NEW d \in Docs, rows'[d] = rows[d]
  PROVE  StatusOf(d)' = StatusOf(d)
  BY DEF StatusOf, Pending, Present, DeadKeys, Found

\* The abstract view of a document is its status.
LEMMA StatusFunction ==
  /\ [d \in Docs |-> StatusOf(d)] \in [Docs -> Promise!Statuses]
  /\ \A d \in Docs : StatusOf(d) \in Promise!Statuses
  BY DEF StatusOf, Promise!Statuses

\* What pending_count counts is what is outstanding.
LEMMA OutstandingIsCounted == Promise!Outstanding = Counted
  BY DEF Promise!Outstanding, Counted, PendingDocs, StatusOf, Pending

\* A step that changes no status is one of the migration or none, unless it completes it.
LEMMA QuietStep ==
  ASSUME UNCHANGED <<late, blind>>, \A d \in Docs : StatusOf(d)' = StatusOf(d),
         Completed' => Completed
  PROVE  [Promise!Next]_(Promise!reVars)
<1>1. [d \in Docs |-> StatusOf(d)]' = [d \in Docs |-> StatusOf(d)]
  OBVIOUS
<1>2. CASE Completed' = Completed
  BY <1>1, <1>2 DEF Promise!reVars
<1>3. CASE Completed' # Completed
  <2>1. Completed' = FALSE
    BY <1>3 DEF Completed
  <2> QED BY <1>1, <2>1 DEF Promise!Next, Promise!Withdraw
<1> QED BY <1>2, <1>3

\* A batch of upserts makes some outstanding rows searchable, together; the rows
\* of it that were so before are written again and stay so (worker.py:294-299).
LEMMA UpsertEmbeds ==
  ASSUME TypeInv, NEW w \in Workers, Upsert(w)
  PROVE  [Promise!Next]_(Promise!reVars)
<1> USE DEF TypeInv
<1> DEFINE b == batch[w]
           D == { d \in Matching(b) : StatusOf(d) \in {"pending", "dead"} }
<1>1. /\ UNCHANGED <<dead, state, late, blind>> /\ pc[w] = "upsert"
      /\ Goto(w, "commit") /\ UpsertVectors(b, "embedded")
  BY DEF Upsert, controlVars, historyVars
<1>2. Completed' = Completed
  <2>1. Completed' => Completed
    BY <1>1, NotFinishing DEF Completed, Steps
  <2>2. Completed => Completed'
    BY <1>1 DEF Completed, Goto, TypeOK
  <2> QED BY <2>1, <2>2 DEF Completed
<1>3. D \in SUBSET { d \in Docs : StatusOf(d) \in {"pending", "dead"} }
  BY DEF Matching, TypeOK, Batches
<1>4. ASSUME NEW d \in Matching(b)
      PROVE  StatusOf(d)' = "searchable" /\ StatusOf(d) \in {"pending", "dead", "searchable"}
  <2>1. /\ d \in Docs /\ Present(d) /\ rows[d] \in RowType /\ rows[d].text = b[d]
        /\ b[d] \in Texts /\ TextOf(b[d]) # Null
    BY <1>1 DEF Matching, TypeOK, StoreTypeOK, Present, Embeddable, Batches
  <2>2. rows'[d] = Written(b[d], "embedded")
    BY <1>1, <2>1, EmbeddedIsWritten DEF UpsertVectors, Provenances
  <2>3. rows'[d] # Absent
    BY <2>1, <2>2, WrittenWellFormed, AbsentAssumption DEF Provenances
  <2>0. VectorOf(b[d], "embedded") # Null
    BY <2>1, VectorType DEF Provenances
  <2>4. StatusOf(d)' = "searchable"
    BY <2>0, <2>1, <2>2, <2>3 DEF Written, StatusOf, Pending, Present, Found
  <2>5. StatusOf(d) \in {"pending", "dead", "searchable"}
    <3>1. rows[d].vec = VectorOf(rows[d].hash, rows[d].prov) /\ rows[d].prov \in Provenances
      BY <2>1, WellFormedNotStale DEF NoStaleVector, RowType
    <3>2. ~Pending(d) => rows[d].hash = b[d]
      BY <2>1 DEF Pending
    <3>3. rows[d].hash = b[d] => rows[d].vec # Null
      BY <2>1, <3>1, VectorType
    <3> QED BY <2>1, <3>2, <3>3 DEF StatusOf, Found
  <2> QED BY <2>4, <2>5
<1>5. ASSUME NEW d \in Docs PROVE StatusOf(d)' = IF d \in D THEN "searchable" ELSE StatusOf(d)
  <2>1. CASE d \in Matching(b)
    BY <1>4, <2>1
  <2>2. CASE d \notin Matching(b)
    <3>1. rows'[d] = rows[d]
      BY <1>1, <2>2 DEF UpsertVectors
    <3> QED BY <1>1, <2>2, <3>1, StatusStable
  <2> QED BY <2>1, <2>2
<1>6. Promise!Embed
  BY <1>1, <1>2, <1>3, <1>5 DEF Promise!Embed
<1> QED BY <1>6 DEF Promise!Next

\* One recorded dead letter sets at most its own document aside (worker.py:261-271).
LEMMA DeadLetterSetsAside ==
  ASSUME TypeInv, NEW w \in Workers, DeadLetter(w)
  PROVE  [Promise!Next]_(Promise!reVars)
<1> USE DEF TypeInv
<1>1. PICK d \in bad[w] : /\ RecordDeadLetter(<<d, batch[w][d]>>)
                          /\ Goto(w, "claim") \/ UNCHANGED pc
  BY DEF DeadLetter
<1>2. UNCHANGED <<rows, state, late, blind>> /\ pc[w] = "poison" /\ d \in Docs
  BY DEF DeadLetter, storeVars, historyVars, TypeOK
<1>3. Completed' = Completed
  <2>1. Completed' => Completed
    BY <1>1, <1>2, NotFinishing DEF Completed, Steps
  <2>2. Completed => Completed'
    BY <1>1, <1>2 DEF Completed, Goto, TypeOK
  <2> QED BY <2>1, <2>2 DEF Completed
<1>4. dead \in [Keys -> Nat]
      /\ dead' = [dead EXCEPT ![<<d, batch[w][d]>>] = @ + 1]
  BY <1>1 DEF RecordDeadLetter, TypeOK, ControlTypeOK
<1>5. /\ \A k \in DeadKeys : k \in DeadKeys'
      /\ \A k \in DeadKeys' : k \in DeadKeys \/ k = <<d, batch[w][d]>>
  BY <1>4 DEF DeadKeys
<1>6. ASSUME NEW e \in Docs, e # d PROVE StatusOf(e)' = StatusOf(e)
  BY <1>2, <1>5, <1>6 DEF StatusOf, Pending, Present, Found
<1>7. CASE StatusOf(d)' = StatusOf(d)
  BY <1>2, <1>3, <1>6, <1>7, QuietStep
<1>8. CASE StatusOf(d)' # StatusOf(d)
  <2>1. StatusOf(d) = "pending" /\ StatusOf(d)' = "dead"
    BY <1>2, <1>5, <1>8 DEF StatusOf, Pending, Present, Found
  <2>2. [e \in Docs |-> StatusOf(e)]' = [[e \in Docs |-> StatusOf(e)] EXCEPT ![d] = "dead"]
    BY <1>2, <1>6, <2>1
  <2>3. Promise!SetAside(d)
    BY <1>2, <1>3, <2>1, <2>2 DEF Promise!SetAside
  <2> QED BY <1>2, <2>3 DEF Promise!Next
<1> QED BY <1>7, <1>8

\* The application's write changes its document (pgvector.py:218-227).
LEMMA CommitChanges ==
  ASSUME TypeInv, NEW d \in Docs, Commit(d)
  PROVE  [Promise!Next]_(Promise!reVars)
<1> USE DEF TypeInv
<1>1. /\ UNCHANGED <<dead, state, pc, blind>> /\ late' = late \cup {d} /\ AppCommit(d)
      /\ \A e \in Docs \ {d} : rows'[e] = rows[e]
  BY DEF Commit, AppCommit, controlVars, workerVars, TypeOK, StoreTypeOK
<1>2. Completed' = Completed
  BY <1>1 DEF Completed
<1>3. \A e \in Docs \ {d} : StatusOf(e)' = StatusOf(e)
  BY <1>1, StatusStable
<1>4. StatusOf(d)' \in Promise!Statuses
  BY DEF StatusOf, Promise!Statuses
<1>5. ASSUME StatusOf(d)' = "searchable" PROVE StatusOf(d) \notin {"absent", "empty"}
  <2>1. d \in Found'
    BY <1>5 DEF StatusOf
  <2>2. rows'[d] # Absent /\ rows'[d].vec # Null
    BY <2>1 DEF Found, Present
  <2>3. rows'[d] = AfterTrigger(rows[d], open[d])
    BY <1>1, <2>2 DEF AppCommit, TypeOK, StoreTypeOK
  <2>4. rows[d] # Absent /\ rows'[d] = [rows[d] EXCEPT !.text = open[d]]
    BY <2>2, <2>3 DEF AfterTrigger, Unembedded
  <2>5. rows[d].vec = rows'[d].vec
    BY <2>4 DEF TypeOK, StoreTypeOK, RowType
  <2>6. d \in Found /\ Present(d)
    BY <2>2, <2>4, <2>5 DEF Found, Present
  <2> QED BY <2>6 DEF StatusOf
<1>6. [e \in Docs |-> StatusOf(e)]' = [[e \in Docs |-> StatusOf(e)] EXCEPT ![d] = StatusOf(d)']
  BY <1>3
<1>7. Promise!Change(d)
  BY <1>1, <1>2, <1>4, <1>5, <1>6 DEF Promise!Change
<1> QED BY <1>7 DEF Promise!Next

-----------------------------------------------------------------------------
(* The refinement.                                                         *)

\* The steps of a running worker.
LEMMA WorkKeepsPromise ==
  ASSUME TypeInv, NEW w \in Workers, Work(w)
  PROVE  [Promise!Next]_(Promise!reVars)
<1> USE DEF TypeInv
<1>0. state \in MigrationStates
  BY DEF TypeOK, ControlTypeOK
<1>1. CASE \/ Enter(w) \/ Refuse(w) \/ BeginIllegal(w) \/ Claim(w) \/ Reconcile(w)
           \/ NoInlineText(w) \/ Reserve(w) \/ EmbedSucceeds(w) \/ EmbedPoisoned(w)
           \/ EmbedTransient(w) \/ EmbedPaused(w) \/ EmbedRaises(w) \/ Account(w)
  <2>1. /\ UNCHANGED <<rows, dead, state, late, blind>>
        /\ Exit(w) \/ \E x \in Steps \ {"finish"} : Goto(w, x)
    BY <1>1 DEF Enter, Refuse, BeginIllegal, Claim, Reconcile, NoInlineText, Reserve,
       EmbedSucceeds, EmbedPoisoned, EmbedTransient, EmbedPaused, EmbedRaises, Account,
       storeVars, controlVars, historyVars, Steps
  <2>2. Completed' => Completed
    BY <2>1, NotFinishing DEF Completed
  <2> QED BY <2>1, <2>2, StatusStable, QuietStep
<1>2. CASE Begin(w) \/ PauseBudget(w) \/ PauseError(w)
  <2>1. /\ UNCHANGED <<rows, dead, late, blind>>
        /\ Exit(w) \/ Goto(w, "claim")
        /\ \E s \in {"BACKFILLING", "PAUSED_BUDGET", "PAUSED_ERROR"} : TrySetState(s)
    BY <1>2 DEF Begin, PauseBudget, PauseError, storeVars, historyVars, TrySetState
  <2>2. Completed' => Completed
    BY <1>0, <2>1, NotFinishing, CompletingMoves DEF Completed, Steps
  <2> QED BY <2>1, <2>2, StatusStable, QuietStep
<1>3. CASE Finish(w)
  <2>1. Completed
    BY <1>3 DEF Finish, Completed
  <2> QED BY <1>3, <2>1, StatusStable, QuietStep DEF Finish, storeVars, historyVars
<1>4. CASE Recheck(w)
  <2>1. UNCHANGED <<rows, dead, state, blind>>
    BY <1>4 DEF Recheck, storeVars, controlVars
  <2>2. [d \in Docs |-> StatusOf(d)]' = [d \in Docs |-> StatusOf(d)]
    BY <2>1, StatusStable
  <2>3. CASE Counted = {}
    <3>1. late' = {} /\ Goto(w, "finish")
      BY <1>4, <2>3 DEF Recheck
    <3>2. Completed' = TRUE
      BY <3>1 DEF Completed, Goto, TypeOK
    <3>3. Promise!Complete
      BY <2>1, <2>2, <2>3, <3>1, <3>2, OutstandingIsCounted DEF Promise!Complete
    <3> QED BY <3>3 DEF Promise!Next
  <2>4. CASE Counted # {}
    <3>1. UNCHANGED <<state, late, blind>> /\ Goto(w, "claim")
      BY <1>4, <2>4 DEF Recheck, controlVars
    <3>2. Completed' => Completed
      BY <3>1, NotFinishing DEF Completed, Steps
    <3> QED BY <2>1, <3>1, <3>2, StatusStable, QuietStep
  <2> QED BY <2>3, <2>4
<1>5. CASE RecheckError(w)
  <2>1. UNCHANGED <<rows, dead, late>> /\ blind' = TRUE /\ Goto(w, "finish")
    BY <1>5 DEF RecheckError, storeVars, controlVars
  <2>2. [d \in Docs |-> StatusOf(d)]' = [d \in Docs |-> StatusOf(d)]
    BY <2>1, StatusStable
  <2>3. Completed' = TRUE
    BY <2>1 DEF Completed, Goto, TypeOK
  <2> QED BY <2>1, <2>2, <2>3 DEF Promise!Next, Promise!CompleteBlindly
<1> QED BY <1>1, <1>2, <1>3, <1>4, <1>5, UpsertEmbeds, DeadLetterSetsAside DEF Work

\* Every step of the system is a step of the migration, or none.
LEMMA StepKeepsPromise ==
  TypeInv /\ [Next]_vars => [Promise!Next]_(Promise!reVars)
<1> SUFFICES ASSUME TypeInv, [Next]_vars PROVE [Promise!Next]_(Promise!reVars)
  OBVIOUS
<1> USE DEF TypeInv
<1>1. ASSUME NEW w \in Workers, Start(w) \/ Crash(w)
      PROVE  [Promise!Next]_(Promise!reVars)
  <2>1. /\ UNCHANGED <<rows, dead, state, late, blind>>
        /\ Exit(w) \/ \E x \in Steps \ {"finish"} : Goto(w, x)
    BY <1>1 DEF Start, Crash, storeVars, controlVars, historyVars, Steps
  <2>2. Completed' => Completed
    BY <2>1, NotFinishing DEF Completed
  <2> QED BY <2>1, <2>2, StatusStable, QuietStep
<1>2. ASSUME NEW s \in OperatorStates, Operate(s)
      PROVE  [Promise!Next]_(Promise!reVars)
  <2>1. /\ UNCHANGED <<rows, dead, late, blind, pc>> /\ TrySetState(s)
        /\ s # "BACKFILLED"
    BY <1>2, BackfillAssumption
       DEF Operate, TrySetState, storeVars, workerVars, historyVars
  <2>2. Completed' => Completed
    BY <2>1, CompletingMoves DEF Completed, TypeOK, ControlTypeOK
  <2> QED BY <2>1, <2>2, StatusStable, QuietStep
<1>3. CASE UNCHANGED <<rows, dead, state, pc, late, blind>>
  BY <1>3, StatusStable, QuietStep DEF Completed
<1>4. ASSUME NEW d \in Docs, Write(d) \/ Rollback(d)
      PROVE  UNCHANGED <<rows, dead, state, pc, late, blind>>
  BY <1>4 DEF Write, Rollback, AppOpen, AppRollback, controlVars, workerVars, historyVars
<1>5. UNCHANGED vars => UNCHANGED <<rows, dead, state, pc, late, blind>>
  BY DEF vars, storeVars, controlVars, workerVars, historyVars
<1> QED BY <1>1, <1>2, <1>3, <1>4, <1>5, WorkKeepsPromise, CommitChanges DEF Next

\* Initially nothing is set aside, completed or written.
LEMMA InitKeepsPromise == Init => Promise!Init
<1> SUFFICES ASSUME Init PROVE Promise!Init
  OBVIOUS
<1>1. DeadKeys = {}
  BY DEF Init, ControlInit, DeadKeys
<1>2. [d \in Docs |-> StatusOf(d)] \in [Docs -> Promise!Statuses \ {"dead"}]
  BY <1>1 DEF StatusOf, Promise!Statuses
<1>3. Completed = FALSE
  BY DEF Init, ControlInit, Completed, CompletedStates
<1> QED BY <1>2, <1>3 DEF Promise!Init, Init

\* The system implements the migration its owner sees (I1-I3, I6), for any number
\* of workers, any corpus, batch size and bound.
THEOREM KeepsPromiseTheorem == Spec => KeepsPromise
  BY InitKeepsPromise, StepKeepsPromise, TypeCorrect, PTL
     DEF Spec, KeepsPromise, Promise!Spec

-----------------------------------------------------------------------------
(* What the migration guarantees.                                          *)

\* A step of the migration leaves nothing outstanding behind a completion but
\* what the owner changes.
LEMMA PromiseIsSound ==
  ASSUME CompletionSound, [Promise!Next]_(Promise!reVars)
  PROVE  CompletionSound'
<1> USE OutstandingIsCounted DEF CompletionSound
<1>0. Counted' = Promise!Outstanding'
  BY DEF Promise!Outstanding, Counted, PendingDocs, StatusOf, Pending
<1>1. CASE Promise!Embed \/ \E d \in Docs : Promise!SetAside(d)
  BY <1>0, <1>1 DEF Promise!Embed, Promise!SetAside, Promise!Outstanding
<1>2. ASSUME NEW d \in Docs, Promise!Change(d) PROVE CompletionSound'
  <2>1. UNCHANGED blind /\ late' = late \cup {d} /\ Completed' = Completed
    BY <1>2 DEF Promise!Change
  <2>2. PICK s \in Promise!Statuses :
          [e \in Docs |-> StatusOf(e)]' = [[e \in Docs |-> StatusOf(e)] EXCEPT ![d] = s]
    BY <1>2 DEF Promise!Change
  <2>3. \A e \in Docs \ {d} : StatusOf(e)' = StatusOf(e)
    BY <2>2
  <2>4. Counted' \subseteq Counted \cup {d}
    BY <1>0, <2>3 DEF Promise!Outstanding
  <2> QED BY <2>1, <2>4
<1>3. CASE Promise!Complete \/ Promise!CompleteBlindly \/ Promise!Withdraw
  BY <1>0, <1>3 DEF Promise!Complete, Promise!CompleteBlindly, Promise!Withdraw,
     Promise!Outstanding
<1>4. CASE UNCHANGED Promise!reVars
  BY <1>0, <1>4 DEF Promise!reVars, Promise!Outstanding
<1> QED BY <1>1, <1>2, <1>3, <1>4 DEF Promise!Next

\* Unless a pending_count failed, a completed migration has no pending row that
\* the application did not write after the count (I6), for any number of workers.
THEOREM CompletionSoundTheorem == Spec => []CompletionSound
<1>1. Init => CompletionSound
  BY DEF Init, ControlInit, CompletionSound, Completed, CompletedStates
<1>2. CompletionSound /\ [Promise!Next]_(Promise!reVars) => CompletionSound'
  BY PromiseIsSound
<1> QED BY <1>1, <1>2, StepKeepsPromise, TypeCorrect, PTL DEF Spec

\* Hence a search of the new space misses no row of a completed migration (I6).
THEOREM SearchMissesNothingTheorem == Spec => []SearchMissesNothing
<1>1. CompletionSound => SearchMissesNothing
  BY OutstandingIsCounted, StatusFunction
     DEF CompletionSound, SearchMissesNothing, Promise!Kept, Promise!Outstanding,
         Promise!Statuses
<1> QED BY <1>1, CompletionSoundTheorem, PTL
=============================================================================
