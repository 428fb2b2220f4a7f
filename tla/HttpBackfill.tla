---------------------------- MODULE HttpBackfill ----------------------------
(***************************************************************************)
(* The backfill worker on an HTTP provider: embed_batch of openai.py and   *)
(* gemini.py over request_with_retries and RetryState of http_util.py.     *)
(* The provider's answer, one step of Backfill, becomes a series of        *)
(* requests; other actors run, and the process may die, between any two.   *)
(***************************************************************************)
EXTENDS Backfill

CONSTANTS
  MaxAttempts,             \* MAX_ATTEMPTS, requests of one call
  MaxConsecutiveFailures   \* MAX_CONSECUTIVE_FAILURES, the provider's breaker

ASSUME HttpAssumption ==
  MaxAttempts \in Nat \ {0} /\ MaxConsecutiveFailures \in Nat \ {0}

VARIABLES
  attempt,   \* failed requests of the call in progress
  streak,    \* consecutive_failures of the worker's provider object
  \* History, not part of the program, since the last answer or the start:
  lost,      \* requests that were served in vain
  failed     \* requests that failed

httpVars == <<attempt, streak, lost, failed>>
allVars == <<vars, httpVars>>

EndCall(w) == attempt' = [attempt EXCEPT ![w] = 0]

RecordSuccess(w) == streak' = [streak EXCEPT ![w] = 0]
RecordFailure(w) == streak' = [streak EXCEPT ![w] = @ + 1]

\* The history of failures ends with an answer, whatever the code remembers of them.
Answered(w) ==
  /\ lost' = [lost EXCEPT ![w] = 0]
  /\ failed' = [failed EXCEPT ![w] = 0]

\* A request fails: the provider refused it, or embedded the texts, for which it
\* charges, and the answer is lost (a timeout, a reset connection, a 502).
Fails(w) ==
  /\ RecordFailure(w)
  /\ failed' = [failed EXCEPT ![w] = @ + 1]
  /\ UNCHANGED lost \/ lost' = [lost EXCEPT ![w] = @ + 1]

\* run() builds the provider, and with it a new RetryState.
HttpStart(w) == Start(w) /\ RecordSuccess(w) /\ EndCall(w) /\ Answered(w)

-----------------------------------------------------------------------------
(* The outcomes of one request.                                            *)

\* Mutant of ResponseAccepted: record_success is not called.
AcceptedUnrecorded(w) == EmbedSucceeds(w) /\ UNCHANGED streak /\ EndCall(w) /\ Answered(w)

\* A status below 400, and a body with one vector per text.
ResponseAccepted(w) == EmbedSucceeds(w) /\ RecordSuccess(w) /\ EndCall(w) /\ Answered(w)

\* A status below 400 and a body from which no matrix can be made.  The provider
\* charges for it; the process ends, and no variable here counts what it cost.
ResponseUnusable(w) == EmbedRaises(w) /\ RecordSuccess(w) /\ EndCall(w) /\ Answered(w)

\* A status from 400 on that is not retryable: raise_for_status raises, so the
\* caller's test for 400 is not reached and PoisonInputError is never raised.
RequestRejected(w) == EmbedRaises(w) /\ EndCall(w) /\ UNCHANGED <<streak, lost, failed>>

\* Mutant of Retry: the failure is neither recorded nor counted as an attempt.
RetryForever(w) ==
  /\ pc[w] = "embed"
  /\ attempt' = [attempt EXCEPT ![w] = 1 - @]
  /\ UNCHANGED <<vars, streak, lost, failed>>

\* Mutant of Retry: record_failure is not called.
RetryUnrecorded(w) ==
  /\ pc[w] = "embed" /\ attempt[w] + 1 < MaxAttempts
  /\ attempt' = [attempt EXCEPT ![w] = @ + 1]
  /\ lost' = [lost EXCEPT ![w] = @ + 1]
  /\ failed' = [failed EXCEPT ![w] = @ + 1]
  /\ UNCHANGED <<vars, streak>>

\* A transport error, a 429 or a 5xx: back off and ask again ...
Retry(w) ==
  /\ pc[w] = "embed"
  /\ streak[w] + 1 < MaxConsecutiveFailures /\ attempt[w] + 1 < MaxAttempts
  /\ Fails(w)
  /\ attempt' = [attempt EXCEPT ![w] = @ + 1]
  /\ UNCHANGED vars

\* ... or record_failure opens the breaker: ProviderPausedError ...
BreakerOpens(w) ==
  /\ streak[w] + 1 >= MaxConsecutiveFailures
  /\ EmbedPaused(w) /\ Fails(w) /\ EndCall(w)

\* ... or it was the last attempt: TransientProviderError.
AttemptsExhausted(w) ==
  /\ streak[w] + 1 < MaxConsecutiveFailures /\ attempt[w] + 1 >= MaxAttempts
  /\ EmbedTransient(w) /\ Fails(w) /\ EndCall(w)

Request(w) ==
  \/ ResponseAccepted(w) \/ ResponseUnusable(w) \/ RequestRejected(w)
  \/ Retry(w) \/ BreakerOpens(w) \/ AttemptsExhausted(w)

-----------------------------------------------------------------------------

HttpInit ==
  /\ Init
  /\ attempt = [w \in Workers |-> 0]
  /\ streak = [w \in Workers |-> 0]
  /\ lost = [w \in Workers |-> 0]
  /\ failed = [w \in Workers |-> 0]

HttpWork(w) ==
  \/ pc[w] # "embed" /\ Work(w) /\ UNCHANGED httpVars
  \/ Request(w)

HttpNext ==
  \/ \E w \in Workers : HttpStart(w) \/ HttpWork(w)
  \/ \E w \in Workers : Crash(w) /\ UNCHANGED httpVars
  \/ \E s \in OperatorStates : Operate(s) /\ UNCHANGED httpVars
  \/ \E d \in Docs : (Write(d) \/ Commit(d) \/ Rollback(d)) /\ UNCHANGED httpVars

HttpSpec == HttpInit /\ [][HttpNext]_allVars

\* As in Backfill: every request is answered, refused or times out (60 s).
HttpFairSpec ==
  /\ HttpSpec
  /\ \A w \in Workers : WF_allVars(HttpWork(w))
  /\ \A d \in Docs : WF_vars(Commit(d) \/ Rollback(d))

\* An operator as in ResumeSpec, and a provider that, asked again and again, in
\* the end accepts what it can embed and rejects.
HttpResumeSpec ==
  /\ HttpFairSpec
  /\ WF_vars(Operate("PREPARED"))
  /\ \A w \in Workers : /\ WF_vars(Start(w))
                        /\ SF_allVars(ResponseAccepted(w))
                        /\ SF_allVars(RequestRejected(w))

-----------------------------------------------------------------------------
\* The provider's breaker opens before a call runs out of attempts, so no call
\* reports a transient failure and the worker's own breaker, which counts those,
\* never counts one (http_util.py:14-15, 36-38, 87-88; worker.py:272-278).
BreakerOpensFirst == \A w \in Workers : errs[w] = 0

\* The provider's breaker and the worker's count the same failures, although one
\* counts requests and the other calls: a call that fails has used up its
\* attempts, and a call that succeeds clears both (http_util.py:30-40, 73-90;
\* worker.py:272-283).
BreakersAgree ==
  \A w \in Workers : pc[w] \notin {"idle", "pauseError"} =>
    streak[w] = errs[w] * MaxAttempts + attempt[w]

\* As many failures in a row as one of the two breakers allows.
Down(w) == failed[w] >= MaxConsecutiveFailures \/ failed[w] >= MaxErrors * MaxAttempts

\* A worker gives its provider up when it has failed as often, without an answer in
\* between, as one of the breakers allows, and never earlier: the failures may belong
\* to several calls and batches, and those before an answer are forgotten by both
\* breakers (http_util.py:28-40, 73-96; worker.py:230, 272-285).
PausesExactlyWhenDown ==
  \A w \in Workers : pc[w] # "idle" => (pc[w] = "pauseError" <=> Down(w))

\* A request is sent again whether or not the provider has done, and will charge
\* for, what it was asked: what a worker pays for and does not get, over the calls
\* and the batches of a streak, is bounded by both breakers, and by no other count
\* of the program (http_util.py:30-40, 73-90; worker.py:272-278).
LostWorkIsBounded ==
  \A w \in Workers :
    lost[w] <= MaxConsecutiveFailures /\ lost[w] <= MaxErrors * MaxAttempts
=============================================================================
