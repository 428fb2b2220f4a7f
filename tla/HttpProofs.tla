----------------------------- MODULE HttpProofs -----------------------------
(***************************************************************************)
(* The worker on an HTTP provider, for any numbers of attempts and of      *)
(* failures, and any number of workers.                                    *)
(***************************************************************************)
EXTENDS HttpBackfill, CompletionProofs, AccountingProofs

-----------------------------------------------------------------------------
(* Every request is a step of the worker, or none, by the way the module   *)
(* is composed; what is proved of the worker is carried over by it.        *)

\* Each request is an answer of the provider protocol, or nothing yet.
LEMMA RequestIsAnswer ==
  ASSUME NEW w \in Workers, Request(w)
  PROVE  Work(w) \/ UNCHANGED vars
  BY DEF Request, ResponseAccepted, ResponseUnusable, RequestRejected, Retry,
     BreakerOpens, AttemptsExhausted, Work

\* Each step of the detailed system is a step of Backfill, or none.
LEMMA HttpStep == [HttpNext]_allVars => [Next]_vars
<1> SUFFICES ASSUME [HttpNext]_allVars PROVE [Next]_vars
  OBVIOUS
<1>1. ASSUME NEW w \in Workers, HttpStart(w) \/ Crash(w) PROVE Next
  BY <1>1 DEF HttpStart, Next
<1>2. ASSUME NEW w \in Workers, HttpWork(w) PROVE [Next]_vars
  BY <1>2, RequestIsAnswer DEF HttpWork, Next
<1>3. ASSUME NEW s \in OperatorStates, Operate(s) PROVE Next
  BY <1>3 DEF Next
<1>4. ASSUME NEW d \in Docs, Write(d) \/ Commit(d) \/ Rollback(d) PROVE Next
  BY <1>4 DEF Next
<1>5. CASE UNCHANGED allVars
  BY <1>5 DEF allVars
<1> QED BY <1>1, <1>2, <1>3, <1>4, <1>5 DEF HttpNext

\* A behaviour over requests is one of the worker over answers.
LEMMA HttpImplementsBackfill == HttpSpec => Spec
<1>1. HttpInit => Init
  BY DEF HttpInit
<1> QED BY <1>1, HttpStep, PTL DEF HttpSpec, Spec

\* So what is proved of the worker holds of a worker on an HTTP provider: the promise
\* to the migration's owner, stable vectors, durability, the accounts and the bounds of
\* the spend.
THEOREM HttpKeepsPromise ==
  ASSUME BoundedTokens, BoundedLimits
  PROVE  HttpSpec => /\ KeepsPromise /\ VectorsAreStable
                     /\ [](CompletionSound /\ SearchMissesNothing /\ DurableBeforeLedger)
                     /\ [](LedgerWithinOneBatchPerCrash /\ SpendWithinOneCeilingPerWorker)
                     /\ []WorkIsBounded
<1> QED BY HttpImplementsBackfill, KeepsPromiseTheorem, VectorsAreStableTheorem,
           CompletionSoundTheorem, SearchMissesNothingTheorem, DurableBeforeLedgerTheorem,
           LedgerTheorem, SpendTheorem, WorkTheorem, PTL

-----------------------------------------------------------------------------
(* What becomes of a text the provider rejects.                            *)

\* A rejection is never reported as a poison input, so nothing is dead-lettered.
NoDeadLetters ==
  /\ DeadKeys = {}
  /\ \A w \in Workers : pc[w] # "poison"

LEMMA NoDeadLettersNext == TypeOK /\ NoDeadLetters /\ [HttpNext]_allVars => NoDeadLetters'
<1> SUFFICES ASSUME TypeOK, NoDeadLetters, [HttpNext]_allVars PROVE NoDeadLetters'
  OBVIOUS
<1> USE DEF TypeOK, NoDeadLetters
<1>1. ASSUME NEW w \in Workers, UNCHANGED dead, pc'[w] # "poison",
             \A v \in Workers \ {w} : pc'[v] = pc[v]
      PROVE  NoDeadLetters'
  BY <1>1 DEF DeadKeys
<1>2. CASE UNCHANGED <<dead, pc>>
  BY <1>2 DEF DeadKeys
<1>3. ASSUME NEW w \in Workers, Request(w) PROVE NoDeadLetters'
  <2>1. \/ EmbedSucceeds(w) \/ EmbedRaises(w) \/ EmbedPaused(w) \/ EmbedTransient(w)
        \/ UNCHANGED vars
    BY <1>3 DEF Request, ResponseAccepted, ResponseUnusable, RequestRejected, Retry,
       BreakerOpens, AttemptsExhausted
  <2> QED BY <1>1, <1>2, <2>1 DEF EmbedSucceeds, EmbedRaises, EmbedPaused, EmbedTransient,
          Exit, Goto, controlVars, vars, workerVars
<1>4. ASSUME NEW w \in Workers, Work(w), pc[w] # "embed" PROVE NoDeadLetters'
  <2>1. UNCHANGED dead
    BY <1>4 DEF Work, Enter, Refuse, Begin, BeginIllegal, Claim, Reconcile, Recheck,
       RecheckError, Finish, NoInlineText, Reserve, PauseBudget, EmbedSucceeds,
       EmbedPoisoned, EmbedTransient, EmbedPaused, EmbedRaises, DeadLetter, PauseError,
       Upsert, Account, CommitSpend, controlVars
  <2>2. pc'[w] # "poison" /\ \A v \in Workers \ {w} : pc'[v] = pc[v]
    BY <1>4 DEF Work, Enter, Refuse, Begin, BeginIllegal, Claim, Reconcile, Recheck,
       RecheckError, Finish, NoInlineText, Reserve, PauseBudget, EmbedSucceeds,
       EmbedPoisoned, EmbedTransient, EmbedPaused, EmbedRaises, DeadLetter, PauseError,
       Upsert, Account, Exit, Goto
  <2> QED BY <1>1, <2>1, <2>2
<1>5. ASSUME NEW w \in Workers, Start(w) \/ Crash(w) PROVE NoDeadLetters'
  BY <1>1, <1>5 DEF Start, Crash, Exit, Goto, controlVars
<1> QED BY <1>2, <1>3, <1>4, <1>5
        DEF HttpNext, HttpStart, HttpWork, Operate, Write, Commit, Rollback, allVars, vars,
            controlVars, workerVars

\* No HTTP provider ever dead-letters a row, whatever it answers (openai.py:76-78).
THEOREM NothingDeadLettered == HttpSpec => []NoDeadLetters
<1>1. HttpInit => NoDeadLetters
  BY DEF HttpInit, Init, ControlInit, NoDeadLetters, DeadKeys
<1> QED BY <1>1, NoDeadLettersNext, HttpImplementsBackfill, TypeOKTheorem, PTL DEF HttpSpec

\* No migration is declared complete over a text that the provider rejects, unless the
\* application wrote the row since the last count, or a projection serves for it.
RejectedTextsBlockCompletion ==
  Completed /\ ~blind =>
    \A d \in Docs \ late :
      Present(d) /\ TextOf(rows[d].text) \in PoisonTexts
        => MappingOnly /\ rows[d].prov = "projected"

\* What follows for the owner is not what providers/base.py:45-48 intends (the text is
\* dead-lettered and the migration goes on): as long as the row is left as it is,
\* the migration is never completed, for any number of workers, attempts and failures.
THEOREM RejectedTextsTheorem == HttpSpec => []RejectedTextsBlockCompletion
<1>1. TypeInv /\ NoDeadLetters /\ NoPoisonVector /\ CompletionSound
        => RejectedTextsBlockCompletion
  <2> SUFFICES ASSUME TypeInv, NoDeadLetters, NoPoisonVector, CompletionSound,
                      Completed, ~blind, NEW d \in Docs, Present(d),
                      TextOf(rows[d].text) \in PoisonTexts, d \notin late,
                      ~(MappingOnly /\ rows[d].prov = "projected")
               PROVE  FALSE
    BY DEF RejectedTextsBlockCompletion
  <2>1. /\ rows[d].vec # Null => rows[d].vec.text = TextOf(rows[d].text)
        /\ rows[d].vec = VectorOf(rows[d].hash, rows[d].prov)
    BY WellFormedNotStale DEF TypeInv, NoStaleVector
  <2>2. rows[d] \in RowType /\ rows[d].prov \in Provenances
    BY DEF TypeInv, StoreInv, StoreTypeOK, Present, RowType
  <2>3. ASSUME rows[d].prov = "embedded" PROVE Pending(d)
    <3>1. rows[d].vec = Null
      <4>1. rows[d].vec # Null => rows[d].vec.by = "embedded"
        BY <2>1, <2>3 DEF VectorOf
      <4> QED BY <2>1, <4>1 DEF NoPoisonVector, Found
    <3>2. TextOf(rows[d].text) # Null
      BY BackfillAssumption, TextsAssumption
    <3>3. TextOf(rows[d].hash) = Null
      BY <2>1, <2>2, <3>1, VectorType DEF RowType
    <3> QED BY <3>2, <3>3 DEF Pending
  <2>4. ASSUME rows[d].prov = "projected" PROVE Pending(d)
    BY <2>4 DEF Pending
  <2>5. d \in Counted
    BY <2>2, <2>3, <2>4 DEF Counted, PendingDocs, NoDeadLetters, Provenances
  <2> QED BY <2>5 DEF CompletionSound
<1> QED BY <1>1, NothingDeadLettered, NoPoisonVectorTheorem, CompletionSoundTheorem,
           TypeCorrect, HttpImplementsBackfill, PTL

-----------------------------------------------------------------------------
(* The two breakers.                                                       *)

\* A call has recorded every failure it has seen, and no call was transient.
HttpInv ==
  /\ attempt \in [Workers -> Nat] /\ streak \in [Workers -> Nat]
  /\ \A w \in Workers : pc[w] # "idle" => attempt[w] <= streak[w]
  /\ BreakerOpensFirst

\* The worker's streak starts at zero and is raised by transient answers only.
LEMMA ErrsStayZero ==
  ASSUME TypeOK, BreakerOpensFirst, NEW w \in Workers, Work(w), ~EmbedTransient(w)
  PROVE  BreakerOpensFirst'
<1> USE DEF TypeOK, BreakerOpensFirst
<1>1. CASE \/ Exit(w)
           \/ UNCHANGED errs
           \/ errs' = [errs EXCEPT ![w] = 0]
  BY <1>1 DEF Exit
<1>2. CASE DeadLetter(w)
  <2>1. errs' = [errs EXCEPT ![w] = 0] \/ UNCHANGED errs
    BY <1>2 DEF DeadLetter
  <2> QED BY <2>1
<1> QED BY <1>1, <1>2
        DEF Work, Enter, Refuse, Begin, BeginIllegal, Claim, Reconcile, Recheck,
            RecheckError, Finish, NoInlineText, Reserve, PauseBudget, EmbedSucceeds, EmbedPoisoned,
            EmbedPaused, EmbedRaises, PauseError, Upsert, Account

\* A worker becomes busy only by being started.
LEMMA BusyWasBusy ==
  ASSUME TypeOK, NEW w \in Workers, Work(w) \/ Crash(w)
  PROVE  pc[w] # "idle" /\ \A v \in Workers : pc'[v] # "idle" => pc[v] # "idle"
<1>1. pc[w] # "idle"
  BY DEF Work, Enter, Refuse, Begin, BeginIllegal, Claim, Reconcile, Recheck,
     RecheckError, Finish, NoInlineText, Reserve, PauseBudget, EmbedSucceeds, EmbedPoisoned,
     EmbedTransient, EmbedPaused, EmbedRaises, DeadLetter, PauseError, Upsert, Account,
     Crash
<1>2. \A v \in Workers \ {w} : pc'[v] = pc[v]
  BY DEF Work, Enter, Refuse, Begin, BeginIllegal, Claim, Reconcile, Recheck,
     RecheckError, Finish, NoInlineText, Reserve, PauseBudget, EmbedSucceeds, EmbedPoisoned,
     EmbedTransient, EmbedPaused, EmbedRaises, DeadLetter, PauseError, Upsert, Account,
     Crash, Exit, Goto, TypeOK
<1> QED BY <1>1, <1>2

\* Every step keeps the invariant when the breaker is no wider than a call.
LEMMA HttpNextInv ==
  ASSUME MaxConsecutiveFailures <= MaxAttempts
  PROVE  TypeOK /\ HttpInv /\ [HttpNext]_allVars => HttpInv'
<1> SUFFICES ASSUME TypeOK, HttpInv, [HttpNext]_allVars PROVE HttpInv'
  OBVIOUS
<1> USE DEF HttpInv
<1>1. ASSUME NEW w \in Workers, HttpStart(w) PROVE HttpInv'
  BY <1>1 DEF HttpStart, Start, RecordSuccess, EndCall, Goto, TypeOK, BreakerOpensFirst
<1>2. ASSUME NEW w \in Workers, Work(w), ~EmbedTransient(w), UNCHANGED httpVars
      PROVE  HttpInv'
  BY <1>2, ErrsStayZero, BusyWasBusy DEF httpVars
<1>3. ASSUME NEW w \in Workers, Crash(w), UNCHANGED httpVars PROVE HttpInv'
  <2>1. BreakerOpensFirst'
    BY <1>3 DEF Crash, Exit, TypeOK, BreakerOpensFirst
  <2> QED BY <1>3, <2>1, BusyWasBusy DEF httpVars
<1>4. ASSUME NEW w \in Workers, Request(w) PROVE HttpInv'
  <2>1. CASE ResponseAccepted(w) \/ ResponseUnusable(w) \/ RequestRejected(w) \/ BreakerOpens(w)
    <3>1. Work(w) /\ ~EmbedTransient(w) /\ EndCall(w)
      <4>1. Work(w) /\ EndCall(w)
        BY <2>1 DEF ResponseAccepted, ResponseUnusable, RequestRejected, BreakerOpens, Work
      <4>2. pc[w] = "embed" /\ pc'[w] \in {"upsert", "pauseError", "idle"}
            /\ errs'[w] = 0
        BY <2>1 DEF ResponseAccepted, ResponseUnusable, RequestRejected, BreakerOpens,
           EmbedSucceeds, EmbedRaises, EmbedPaused, Exit, Goto, TypeOK, BreakerOpensFirst
      <4>3. ~EmbedTransient(w)
        BY <4>2 DEF EmbedTransient, TypeOK, BreakerOpensFirst
      <4> QED BY <4>1, <4>3
    <3>2. /\ streak' \in [Workers -> Nat]
          /\ \A v \in Workers \ {w} : streak'[v] = streak[v]
      BY <2>1 DEF ResponseAccepted, ResponseUnusable, RequestRejected, BreakerOpens,
         RecordSuccess, Fails, RecordFailure
    <3>3. /\ attempt' \in [Workers -> Nat] /\ attempt'[w] = 0
          /\ \A v \in Workers \ {w} : attempt'[v] = attempt[v]
      BY <3>1 DEF EndCall
    <3> QED BY <3>1, <3>2, <3>3, ErrsStayZero, BusyWasBusy
  <2>2. CASE Retry(w)
    BY <2>2 DEF Retry, Fails, RecordFailure, vars, workerVars, TypeOK, BreakerOpensFirst
  <2>3. CASE AttemptsExhausted(w)
    <3>1. attempt[w] <= streak[w] /\ streak[w] + 1 < MaxConsecutiveFailures
          /\ attempt[w] + 1 >= MaxAttempts
      BY <2>3 DEF AttemptsExhausted, EmbedTransient
    <3>2. attempt[w] \in Nat /\ streak[w] \in Nat
      OBVIOUS
    <3> QED BY <3>1, <3>2, HttpAssumption
  <2> QED BY <1>4, <2>1, <2>2, <2>3 DEF Request
<1>5. CASE UNCHANGED <<attempt, streak, pc, errs>>
  BY <1>5 DEF BreakerOpensFirst
<1>6. \A w \in Workers : pc[w] # "embed" => ~EmbedTransient(w)
  BY DEF EmbedTransient
<1> QED BY <1>1, <1>2, <1>3, <1>4, <1>5, <1>6
        DEF HttpNext, HttpWork, httpVars, Operate, Write, Commit, Rollback,
            allVars, vars, workerVars

\* With the numbers of http_util.py, or any with the breaker no wider than a call,
\* the provider pauses before the worker sees a transient failure.
THEOREM BreakerOpensFirstTheorem ==
  ASSUME MaxConsecutiveFailures <= MaxAttempts
  PROVE  HttpSpec => []BreakerOpensFirst
<1>1. HttpInit => HttpInv
  BY DEF HttpInit, HttpInv, Init, BreakerOpensFirst
<1>2. TypeOK /\ HttpInv /\ [HttpNext]_allVars => HttpInv'
  BY HttpNextInv
<1>3. HttpInv => BreakerOpensFirst
  BY DEF HttpInv
<1> QED BY <1>1, <1>2, <1>3, HttpImplementsBackfill, TypeOKTheorem, PTL DEF HttpSpec

-----------------------------------------------------------------------------
(* What the breakers count.                                                *)

\* No call has used up its attempts, none reports poison, and a new process
\* counts from zero.
AgreeInv ==
  /\ attempt \in [Workers -> Nat] /\ streak \in [Workers -> Nat]
  /\ \A w \in Workers : attempt[w] < MaxAttempts /\ pc[w] # "poison"
  /\ \A w \in Workers : pc[w] = "idle" => errs[w] = 0
  /\ BreakersAgree

\* What one more failed call adds to the count of requests (http_util.py:74).
LEMMA OneMoreCall == \A e, m \in Nat : (e + 1) * m = e * m + m
  OBVIOUS

\* Between two calls on the provider the worker keeps its count and does nothing
\* to another worker, and it returns after PAUSED_ERROR (worker.py:233-283).
LEMMA BetweenCalls ==
  ASSUME TypeOK, NEW w \in Workers, Work(w), pc[w] # "embed", pc[w] # "poison"
  PROVE  /\ pc' \in [Workers -> Steps]
         /\ \A v \in Workers \ {w} : pc'[v] = pc[v] /\ errs'[v] = errs[v]
         /\ pc[w] # "idle" /\ pc'[w] \notin {"poison", "pauseError"}
         /\ pc'[w] # "idle" => errs'[w] = errs[w] /\ pc[w] # "pauseError"
         /\ pc'[w] = "idle" => errs'[w] = 0
<1> USE DEF TypeOK, Steps
<1>1. CASE Enter(w) \/ Refuse(w) \/ Begin(w) \/ BeginIllegal(w) \/ Claim(w)
  BY <1>1 DEF Enter, Refuse, Begin, BeginIllegal, Claim, Exit, Goto
<1>2. CASE Reconcile(w) \/ Recheck(w) \/ RecheckError(w) \/ Finish(w)
  BY <1>2 DEF Reconcile, Recheck, RecheckError, Finish, Exit, Goto
<1>3. CASE NoInlineText(w) \/ Reserve(w) \/ PauseBudget(w) \/ PauseError(w) \/ Upsert(w) \/ Account(w)
  BY <1>3 DEF NoInlineText, Reserve, PauseBudget, PauseError, Upsert, Account, Exit, Goto
<1> QED BY <1>1, <1>2, <1>3
        DEF Work, EmbedSucceeds, EmbedPoisoned, EmbedTransient, EmbedPaused, EmbedRaises,
            DeadLetter

\* Every step keeps the two counts in agreement (http_util.py:30-40, 73-90).
LEMMA AgreeNextInv == TypeOK /\ AgreeInv /\ [HttpNext]_allVars => AgreeInv'
<1> SUFFICES ASSUME TypeOK, AgreeInv, [HttpNext]_allVars PROVE AgreeInv'
  OBVIOUS
<1> USE HttpAssumption DEF AgreeInv, BreakersAgree
<1>t. pc \in [Workers -> Steps] /\ errs \in [Workers -> Nat]
  BY DEF TypeOK
<1>1. ASSUME NEW w \in Workers, HttpStart(w) PROVE AgreeInv'
  <2>1. /\ pc[w] = "idle" /\ pc' = [pc EXCEPT ![w] = "enter"]
        /\ UNCHANGED errs
        /\ streak' = [streak EXCEPT ![w] = 0] /\ attempt' = [attempt EXCEPT ![w] = 0]
    BY <1>1 DEF HttpStart, Start, RecordSuccess, EndCall, Goto
  <2> QED BY <1>t, <2>1
<1>2. ASSUME NEW w \in Workers, pc[w] # "embed", Work(w), UNCHANGED httpVars PROVE AgreeInv'
  <2>1. UNCHANGED <<attempt, streak>>
    BY <1>2 DEF httpVars
  <2>2. /\ \A v \in Workers \ {w} : pc'[v] = pc[v] /\ errs'[v] = errs[v]
        /\ pc[w] # "idle" /\ pc'[w] \notin {"poison", "pauseError"}
        /\ pc'[w] # "idle" => errs'[w] = errs[w] /\ pc[w] # "pauseError"
        /\ pc'[w] = "idle" => errs'[w] = 0
    BY <1>2, BetweenCalls
  <2>3. BreakersAgree'
    BY <2>1, <2>2
  <2>4. \A v \in Workers : pc'[v] # "poison" /\ (pc'[v] = "idle" => errs'[v] = 0)
    BY <2>2
  <2> QED BY <2>1, <2>3, <2>4
<1>3. ASSUME NEW w \in Workers, Crash(w), UNCHANGED httpVars PROVE AgreeInv'
  BY <1>3, <1>t DEF Crash, Exit, Goto, httpVars
<1>4. ASSUME NEW w \in Workers, Request(w) PROVE AgreeInv'
  <2>1. CASE ResponseAccepted(w)
    BY <2>1, <1>t DEF ResponseAccepted, EmbedSucceeds, RecordSuccess, EndCall, Goto
  <2>2. CASE ResponseUnusable(w) \/ RequestRejected(w)
    <3>1. /\ pc' = [pc EXCEPT ![w] = "idle"] /\ errs' = [errs EXCEPT ![w] = 0]
          /\ UNCHANGED streak \/ streak' = [streak EXCEPT ![w] = 0]
          /\ attempt' = [attempt EXCEPT ![w] = 0]
      BY <2>2 DEF ResponseUnusable, RequestRejected, EmbedRaises, RecordSuccess,
         EndCall, Exit, Goto
    <3> QED BY <3>1, <1>t
  <2>3. CASE Retry(w)
    <3>1. /\ pc[w] = "embed" /\ attempt[w] + 1 < MaxAttempts
          /\ UNCHANGED <<pc, errs>>
          /\ streak' = [streak EXCEPT ![w] = @ + 1]
          /\ attempt' = [attempt EXCEPT ![w] = @ + 1]
      BY <2>3 DEF Retry, Fails, RecordFailure, vars, workerVars
    <3>2. streak[w] = errs[w] * MaxAttempts + attempt[w]
      BY <3>1
    <3>3. errs[w] * MaxAttempts \in Nat
      BY <1>t
    <3>4. streak'[w] = errs'[w] * MaxAttempts + attempt'[w]
      BY <3>1, <3>2, <3>3
    <3> QED BY <3>1, <3>4
  <2>4. CASE BreakerOpens(w)
    BY <2>4, <1>t DEF BreakerOpens, EmbedPaused, Fails, RecordFailure, EndCall, Goto
  <2>5. CASE AttemptsExhausted(w)
    <3>1. /\ pc[w] = "embed" /\ attempt[w] + 1 = MaxAttempts
          /\ pc' \in [Workers -> Steps] /\ pc'[w] \in {"claim", "pauseError"}
          /\ errs' = [errs EXCEPT ![w] = @ + 1]
          /\ streak' = [streak EXCEPT ![w] = @ + 1]
          /\ attempt' = [attempt EXCEPT ![w] = 0]
          /\ \A v \in Workers \ {w} : pc'[v] = pc[v]
      BY <2>5, <1>t DEF AttemptsExhausted, EmbedTransient, Fails, RecordFailure, EndCall, Goto, Steps
    <3>2. streak[w] + 1 = (errs[w] + 1) * MaxAttempts
      <4>1. streak[w] = errs[w] * MaxAttempts + attempt[w]
        BY <3>1
      <4>2. (errs[w] + 1) * MaxAttempts = errs[w] * MaxAttempts + MaxAttempts
        BY <1>t, OneMoreCall
      <4>3. errs[w] * MaxAttempts \in Nat
        BY <1>t
      <4> QED BY <3>1, <4>1, <4>2, <4>3
    <3>3. \A v \in Workers \ {w} :
            streak'[v] = streak[v] /\ errs'[v] = errs[v] /\ attempt'[v] = attempt[v]
      BY <3>1, <1>t
    <3>4. streak'[w] = errs'[w] * MaxAttempts + attempt'[w]
      BY <3>1, <3>2, <1>t
    <3>5. attempt' \in [Workers -> Nat] /\ streak' \in [Workers -> Nat] /\ attempt'[w] = 0
      BY <3>1
    <3> QED BY <3>1, <3>3, <3>4, <3>5
  <2> QED BY <1>4, <2>1, <2>2, <2>3, <2>4, <2>5 DEF Request
<1>5. CASE UNCHANGED <<attempt, streak, pc, errs>>
  BY <1>5
<1> QED BY <1>1, <1>2, <1>3, <1>4, <1>5
        DEF HttpNext, HttpWork, httpVars, Operate, Write, Commit, Rollback,
            allVars, vars, workerVars

\* Of any numbers of attempts and failures, any number of workers: the failed
\* requests the provider's breaker has counted are those of the calls the worker's
\* breaker has counted and of the call in progress.
THEOREM BreakersAgreeTheorem == HttpSpec => []BreakersAgree
<1>1. HttpInit => AgreeInv
  BY HttpAssumption DEF HttpInit, AgreeInv, Init, BreakersAgree
<1>2. TypeOK /\ AgreeInv /\ [HttpNext]_allVars => AgreeInv'
  BY AgreeNextInv
<1>3. AgreeInv => BreakersAgree
  BY DEF AgreeInv
<1> QED BY <1>1, <1>2, <1>3, HttpImplementsBackfill, TypeOKTheorem, PTL DEF HttpSpec

-----------------------------------------------------------------------------
(* What is lost when the provider's work is done and its answer is not.    *)

\* Every loss is a failure the breaker has counted since the last answer, and
\* neither breaker lets another request be sent when it has opened.
LossInv ==
  /\ lost \in [Workers -> Nat]
  /\ \A w \in Workers :
       /\ lost[w] <= streak[w]
       /\ streak[w] <= MaxConsecutiveFailures /\ streak[w] <= MaxErrors * MaxAttempts
       /\ pc[w] \notin {"idle", "pauseError"} =>
            errs[w] < MaxErrors /\ streak[w] < MaxConsecutiveFailures

\* A count below the end of a row of a table is below its size (http_util.py:74).
LEMMA WithinTheTable ==
  ASSUME NEW e \in Nat, NEW m \in Nat, e < m,
         NEW r \in Nat, NEW n \in Nat, r < n
  PROVE  e * n + r + 1 <= m * n
<1>1. PICK k \in Nat : m = e + 1 + k
  <2>1. m - e - 1 \in Nat /\ m = e + 1 + (m - e - 1)
    OBVIOUS
  <2> QED BY <2>1
<1>2. m * n = e * n + n + k * n
  BY <1>1
<1>3. k * n \in Nat /\ e * n \in Nat
  OBVIOUS
<1> QED BY <1>2, <1>3

\* A worker that is about to send a request has not used up what its own breaker
\* allows (http_util.py:74-90, worker.py:272-278).
LEMMA OneMoreFailure ==
  ASSUME TypeOK, AgreeInv, LossInv, NEW w \in Workers, pc[w] = "embed"
  PROVE  /\ streak[w] + 1 <= MaxErrors * MaxAttempts
         /\ streak[w] = errs[w] * MaxAttempts + attempt[w]
<1>1. /\ errs[w] \in Nat /\ errs[w] < MaxErrors /\ MaxErrors \in Nat
      /\ attempt[w] \in Nat /\ attempt[w] < MaxAttempts /\ MaxAttempts \in Nat
  BY HttpAssumption, BackfillAssumption DEF TypeOK, AgreeInv, LossInv
<1>2. streak[w] = errs[w] * MaxAttempts + attempt[w]
  BY DEF AgreeInv, BreakersAgree
<1>3. errs[w] * MaxAttempts + attempt[w] + 1 <= MaxErrors * MaxAttempts
  BY <1>1, WithinTheTable
<1> QED BY <1>2, <1>3

\* Every step keeps the losses within the two breakers (http_util.py:30-40, 73-90).
LEMMA LossNextInv == TypeOK /\ AgreeInv /\ LossInv /\ [HttpNext]_allVars => LossInv'
<1> SUFFICES ASSUME TypeOK, AgreeInv, LossInv, [HttpNext]_allVars PROVE LossInv'
  OBVIOUS
<1>t. /\ pc \in [Workers -> Steps] /\ errs \in [Workers -> Nat]
      /\ streak \in [Workers -> Nat] /\ lost \in [Workers -> Nat]
      /\ MaxErrors \in Nat \ {0} /\ MaxAttempts \in Nat \ {0}
      /\ MaxConsecutiveFailures \in Nat \ {0} /\ MaxErrors * MaxAttempts \in Nat
  BY HttpAssumption, BackfillAssumption DEF TypeOK, AgreeInv, LossInv
<1>1. ASSUME NEW w \in Workers, HttpStart(w) PROVE LossInv'
  <2>1. /\ pc[w] = "idle" /\ pc' = [pc EXCEPT ![w] = "enter"]
        /\ UNCHANGED errs /\ errs[w] = 0
        /\ streak' = [streak EXCEPT ![w] = 0] /\ lost' = [lost EXCEPT ![w] = 0]
    BY <1>1 DEF HttpStart, Start, RecordSuccess, Answered, Goto, AgreeInv
  <2> QED BY <1>t, <2>1 DEF LossInv
<1>2. ASSUME NEW w \in Workers, pc[w] # "embed", Work(w), UNCHANGED httpVars PROVE LossInv'
  <2>1. pc[w] # "poison"
    BY DEF AgreeInv
  <2> QED BY <1>2, <2>1, BetweenCalls DEF httpVars, LossInv
<1>3. ASSUME NEW w \in Workers, Crash(w), UNCHANGED httpVars PROVE LossInv'
  BY <1>3, <1>t DEF Crash, Exit, Goto, httpVars, LossInv
<1>4. ASSUME NEW w \in Workers, Request(w) PROVE LossInv'
  <2>1. CASE ResponseAccepted(w)
    <3>1. /\ errs' = [errs EXCEPT ![w] = 0]
          /\ \A v \in Workers \ {w} : pc'[v] = pc[v]
          /\ streak' = [streak EXCEPT ![w] = 0] /\ lost' = [lost EXCEPT ![w] = 0]
      BY <2>1, <1>t DEF ResponseAccepted, EmbedSucceeds, RecordSuccess, Answered, Goto
    <3> QED BY <1>t, <3>1 DEF LossInv
  <2>2. CASE RequestRejected(w)
    BY <2>2, <1>t DEF RequestRejected, EmbedRaises, Exit, Goto, LossInv
  <2>3. CASE ResponseUnusable(w)
    BY <2>3, <1>t DEF ResponseUnusable, EmbedRaises, RecordSuccess, Answered, Exit,
       Goto, LossInv
  <2>4. ASSUME pc[w] = "embed", Fails(w), streak[w] + 1 <= MaxConsecutiveFailures,
               \A v \in Workers \ {w} : pc'[v] = pc[v] /\ errs'[v] = errs[v],
               pc'[w] \notin {"idle", "pauseError"} =>
                 errs'[w] < MaxErrors /\ streak[w] + 1 < MaxConsecutiveFailures
        PROVE  LossInv'
    <3>1. streak[w] + 1 <= MaxErrors * MaxAttempts
      BY <2>4, OneMoreFailure
    <3>2. /\ streak' = [streak EXCEPT ![w] = @ + 1]
          /\ lost' \in [Workers -> Nat]
          /\ lost'[w] <= streak[w] + 1
          /\ \A v \in Workers \ {w} : lost'[v] = lost[v]
      BY <2>4, <1>t DEF Fails, RecordFailure, LossInv
    <3> QED BY <2>4, <3>1, <3>2, <1>t DEF LossInv
  <2>5. CASE Retry(w)
    <3>1. UNCHANGED <<pc, errs>> /\ pc[w] = "embed" /\ Fails(w)
          /\ streak[w] + 1 < MaxConsecutiveFailures
      BY <2>5 DEF Retry, vars, workerVars
    <3> QED BY <2>4, <3>1, <1>t DEF LossInv
  <2>6. CASE BreakerOpens(w)
    <3>1. /\ pc[w] = "embed" /\ Fails(w) /\ UNCHANGED errs
          /\ streak[w] < MaxConsecutiveFailures
          /\ pc'[w] = "pauseError" /\ \A v \in Workers \ {w} : pc'[v] = pc[v]
      BY <2>6, <1>t DEF BreakerOpens, EmbedPaused, Goto, LossInv
    <3>2. streak[w] + 1 <= MaxConsecutiveFailures
      BY <3>1, <1>t
    <3> QED BY <2>4, <3>1, <3>2, <1>t
  <2>7. CASE AttemptsExhausted(w)
    <3>1. /\ pc[w] = "embed" /\ Fails(w)
          /\ streak[w] + 1 < MaxConsecutiveFailures
          /\ errs' = [errs EXCEPT ![w] = @ + 1]
          /\ pc'[w] = IF errs[w] + 1 >= MaxErrors THEN "pauseError" ELSE "claim"
          /\ \A v \in Workers \ {w} : pc'[v] = pc[v]
      BY <2>7, <1>t DEF AttemptsExhausted, EmbedTransient, Goto
    <3> QED BY <2>4, <3>1, <1>t
  <2> QED BY <1>4, <2>1, <2>2, <2>3, <2>5, <2>6, <2>7 DEF Request
<1>5. CASE UNCHANGED <<httpVars, pc, errs>>
  BY <1>5 DEF httpVars, LossInv
<1> QED BY <1>1, <1>2, <1>3, <1>4, <1>5
        DEF HttpNext, HttpWork, httpVars, Operate, Write, Commit, Rollback,
            allVars, vars, workerVars

\* For any numbers of attempts and failures and any number of workers: over the
\* calls and batches of a streak, a worker loses no more of the provider's work than
\* either breaker allows (http_util.py:30-40, 73-90; worker.py:272-278).
THEOREM LostWorkTheorem == HttpSpec => []LostWorkIsBounded
<1>1. HttpInit => AgreeInv /\ LossInv
  <2>1. MaxErrors * MaxAttempts \in Nat
    BY HttpAssumption, BackfillAssumption
  <2> QED BY <2>1, HttpAssumption, BackfillAssumption
          DEF HttpInit, AgreeInv, LossInv, Init, BreakersAgree
<1>2. TypeOK /\ AgreeInv /\ LossInv /\ [HttpNext]_allVars => AgreeInv' /\ LossInv'
  BY AgreeNextInv, LossNextInv
<1>3. AgreeInv /\ LossInv => LostWorkIsBounded
  <2> SUFFICES ASSUME AgreeInv, LossInv, NEW w \in Workers
               PROVE  /\ lost[w] <= MaxConsecutiveFailures
                      /\ lost[w] <= MaxErrors * MaxAttempts
    BY DEF LostWorkIsBounded
  <2>1. MaxErrors * MaxAttempts \in Nat /\ MaxConsecutiveFailures \in Nat
    BY HttpAssumption, BackfillAssumption
  <2> QED BY <2>1 DEF LossInv, AgreeInv
<1> QED BY <1>1, <1>2, <1>3, HttpImplementsBackfill, TypeOKTheorem, PTL DEF HttpSpec

-----------------------------------------------------------------------------
(* When a worker gives its provider up.                                    *)

\* The breaker remembers all failures since the last answer, and a worker pauses
\* only on them.
DownInv ==
  /\ failed \in [Workers -> Nat]
  /\ \A w \in Workers : pc[w] # "idle" => failed[w] = streak[w]
  /\ \A w \in Workers : pc[w] = "pauseError" => Down(w)

\* Every step keeps the two counts equal (http_util.py:30-40; worker.py:272-285).
LEMMA DownNextInv == TypeOK /\ AgreeInv /\ LossInv /\ DownInv /\ [HttpNext]_allVars => DownInv'
<1> SUFFICES ASSUME TypeOK, AgreeInv, LossInv, DownInv, [HttpNext]_allVars PROVE DownInv'
  OBVIOUS
<1>t. /\ pc \in [Workers -> Steps] /\ errs \in [Workers -> Nat]
      /\ streak \in [Workers -> Nat] /\ failed \in [Workers -> Nat]
      /\ MaxErrors \in Nat \ {0} /\ MaxAttempts \in Nat \ {0}
      /\ MaxConsecutiveFailures \in Nat \ {0} /\ MaxErrors * MaxAttempts \in Nat
  BY HttpAssumption, BackfillAssumption DEF TypeOK, AgreeInv, DownInv
<1>0. ASSUME NEW w \in Workers,
             \A v \in Workers \ {w} : /\ pc'[v] = pc[v] /\ streak'[v] = streak[v]
                                      /\ failed'[v] = failed[v],
             failed' \in [Workers -> Nat],
             pc'[w] # "idle" => failed'[w] = streak'[w],
             pc'[w] = "pauseError" => Down(w)'
      PROVE  DownInv'
  <2>1. \A v \in Workers \ {w} : pc'[v] = "pauseError" => Down(v)'
    BY <1>0 DEF DownInv, Down
  <2>2. \A v \in Workers \ {w} : pc'[v] # "idle" => failed'[v] = streak'[v]
    BY <1>0 DEF DownInv
  <2> QED BY <1>0, <2>1, <2>2 DEF DownInv
<1>1. ASSUME NEW w \in Workers, HttpStart(w) PROVE DownInv'
  <2>1. /\ pc' = [pc EXCEPT ![w] = "enter"]
        /\ streak' = [streak EXCEPT ![w] = 0] /\ failed' = [failed EXCEPT ![w] = 0]
    BY <1>1 DEF HttpStart, Start, RecordSuccess, Answered, Goto
  <2> QED BY <1>t, <1>0, <2>1
<1>2. ASSUME NEW w \in Workers, pc[w] # "embed", Work(w), UNCHANGED httpVars PROVE DownInv'
  <2>1. pc[w] # "poison"
    BY DEF AgreeInv
  <2>2. /\ pc[w] # "idle" /\ pc'[w] # "pauseError"
        /\ \A v \in Workers \ {w} : pc'[v] = pc[v]
    BY <1>2, <2>1, BetweenCalls
  <2>3. streak' = streak /\ failed' = failed /\ failed[w] = streak[w]
    BY <1>2, <2>2 DEF httpVars, DownInv
  <2> QED BY <1>t, <1>0, <2>2, <2>3
<1>3. ASSUME NEW w \in Workers, Crash(w), UNCHANGED httpVars PROVE DownInv'
  <2>1. pc' = [pc EXCEPT ![w] = "idle"]
    BY <1>3 DEF Crash, Exit, Goto
  <2> QED BY <1>t, <1>0, <1>3, <2>1 DEF httpVars
<1>4. ASSUME NEW w \in Workers, Request(w) PROVE DownInv'
  <2>1. CASE ResponseAccepted(w)
    <3>1. /\ pc' = [pc EXCEPT ![w] = "upsert"]
          /\ streak' = [streak EXCEPT ![w] = 0] /\ failed' = [failed EXCEPT ![w] = 0]
      BY <2>1 DEF ResponseAccepted, EmbedSucceeds, RecordSuccess, Answered, Goto
    <3> QED BY <1>t, <1>0, <3>1
  <2>2. CASE ResponseUnusable(w)
    <3>1. /\ pc' = [pc EXCEPT ![w] = "idle"]
          /\ streak' = [streak EXCEPT ![w] = 0] /\ failed' = [failed EXCEPT ![w] = 0]
      BY <2>2 DEF ResponseUnusable, EmbedRaises, Exit, RecordSuccess, Answered, Goto
    <3> QED BY <1>t, <1>0, <3>1
  <2>3. CASE RequestRejected(w)
    <3>1. pc' = [pc EXCEPT ![w] = "idle"] /\ UNCHANGED <<streak, failed>>
      BY <2>3 DEF RequestRejected, EmbedRaises, Exit, Goto
    <3> QED BY <1>t, <1>0, <3>1
  <2>4. ASSUME pc[w] = "embed", Fails(w), \A v \in Workers \ {w} : pc'[v] = pc[v],
               pc'[w] = "pauseError" => \/ streak[w] + 1 >= MaxConsecutiveFailures
                                        \/ streak[w] + 1 >= MaxErrors * MaxAttempts
        PROVE  DownInv'
    <3>1. /\ streak' = [streak EXCEPT ![w] = @ + 1]
          /\ failed' = [failed EXCEPT ![w] = @ + 1]
          /\ failed[w] = streak[w]
      BY <2>4 DEF Fails, RecordFailure, DownInv
    <3>2. failed'[w] = streak[w] + 1 /\ streak'[w] = streak[w] + 1 /\ failed' \in [Workers -> Nat]
      BY <1>t, <3>1
    <3>3. pc'[w] = "pauseError" => Down(w)'
      BY <2>4, <3>2 DEF Down
    <3> QED BY <1>t, <1>0, <2>4, <3>1, <3>2, <3>3
  <2>5. CASE Retry(w)
    BY <2>4, <2>5, <1>t DEF Retry, vars, workerVars
  <2>6. CASE BreakerOpens(w)
    BY <2>4, <2>6, <1>t DEF BreakerOpens, EmbedPaused, Goto
  <2>7. CASE AttemptsExhausted(w)
    <3>1. /\ pc[w] = "embed" /\ Fails(w) /\ attempt[w] + 1 >= MaxAttempts
          /\ pc'[w] = "pauseError" => errs[w] + 1 >= MaxErrors
          /\ \A v \in Workers \ {w} : pc'[v] = pc[v]
      BY <2>7, <1>t DEF AttemptsExhausted, EmbedTransient, Goto
    <3>2. ASSUME errs[w] + 1 >= MaxErrors PROVE streak[w] + 1 = MaxErrors * MaxAttempts
      <4>1. streak[w] = errs[w] * MaxAttempts + attempt[w]
        BY <3>1, OneMoreFailure
      <4>2. errs[w] + 1 = MaxErrors /\ attempt[w] + 1 = MaxAttempts /\ attempt[w] \in Nat
        BY <1>t, <3>1, <3>2 DEF LossInv, AgreeInv
      <4>3. MaxErrors * MaxAttempts = errs[w] * MaxAttempts + MaxAttempts
        BY <1>t, <4>2, OneMoreCall
      <4>4. errs[w] * MaxAttempts \in Nat
        BY <1>t
      <4> QED BY <1>t, <4>1, <4>2, <4>3, <4>4
    <3>3. errs[w] + 1 >= MaxErrors => streak[w] + 1 >= MaxErrors * MaxAttempts
      BY <1>t, <3>2
    <3> QED BY <2>4, <3>1, <3>3
  <2> QED BY <1>4, <2>1, <2>2, <2>3, <2>5, <2>6, <2>7 DEF Request
<1>5. CASE UNCHANGED <<httpVars, pc>>
  BY <1>5 DEF httpVars, DownInv, Down
<1> QED BY <1>1, <1>2, <1>3, <1>4, <1>5
        DEF HttpNext, HttpWork, httpVars, Operate, Write, Commit, Rollback,
            allVars, vars, workerVars

\* For any numbers of attempts and failures and any number of workers: a worker gives
\* its provider up exactly when it has failed as often in a row as one breaker allows.
THEOREM PausesTheorem == HttpSpec => []PausesExactlyWhenDown
<1>1. HttpInit => AgreeInv /\ LossInv /\ DownInv
  <2>1. MaxErrors * MaxAttempts \in Nat
    BY HttpAssumption, BackfillAssumption
  <2> QED BY <2>1, HttpAssumption, BackfillAssumption
          DEF HttpInit, AgreeInv, LossInv, DownInv, Init, BreakersAgree
<1>2. TypeOK /\ AgreeInv /\ LossInv /\ DownInv /\ [HttpNext]_allVars
        => AgreeInv' /\ LossInv' /\ DownInv'
  BY AgreeNextInv, LossNextInv, DownNextInv
<1>3. TypeOK /\ AgreeInv /\ LossInv /\ DownInv => PausesExactlyWhenDown
  <2> SUFFICES ASSUME TypeOK, AgreeInv, LossInv, DownInv,
                      NEW w \in Workers, pc[w] \notin {"idle", "pauseError"}
               PROVE  ~Down(w)
    BY DEF PausesExactlyWhenDown, DownInv
  <2>1. /\ failed[w] = streak[w] /\ streak[w] \in Nat /\ streak[w] < MaxConsecutiveFailures
        /\ streak[w] = errs[w] * MaxAttempts + attempt[w]
        /\ errs[w] \in Nat /\ errs[w] < MaxErrors /\ attempt[w] \in Nat /\ attempt[w] < MaxAttempts
    BY DEF TypeOK, AgreeInv, BreakersAgree, LossInv, DownInv
  <2>2. errs[w] * MaxAttempts + attempt[w] + 1 <= MaxErrors * MaxAttempts
    BY <2>1, WithinTheTable, HttpAssumption, BackfillAssumption
  <2>3. MaxErrors * MaxAttempts \in Nat /\ MaxConsecutiveFailures \in Nat
    BY HttpAssumption, BackfillAssumption
  <2> QED BY <2>1, <2>2, <2>3 DEF Down
<1> QED BY <1>1, <1>2, <1>3, HttpImplementsBackfill, TypeOKTheorem, PTL DEF HttpSpec
=============================================================================
