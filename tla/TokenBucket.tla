---------------------------- MODULE TokenBucket -----------------------------
(***************************************************************************)
(* The pacer of the worker: TokenBucket of core/budget.py.                 *)
(* One unit of time is the time in which one token accrues, so the bucket  *)
(* gains the time elapsed and a deficit is the time to sleep.  The bucket  *)
(* belongs to one thread; time passes whatever the thread does.  It is not *)
(* kept anywhere: a process that is killed and started again has a new one.*)
(***************************************************************************)
EXTENDS Integers

CONSTANTS
  Capacity,   \* of the bucket: the configured tokens per minute
  Requests,   \* token estimates of the batches
  Horizon,    \* bound: no acquire starts from this time on
  MaxLate,    \* bound: how much longer than asked a sleep may last
  MaxStarts   \* bound: how often the process is started again

\* run() builds no bucket when tpm is 0; acquire would return at once.
ASSUME BucketAssumption ==
  /\ Capacity \in Nat \ {0}
  /\ Requests \subseteq Nat
  /\ Horizon \in Nat /\ MaxLate \in Nat /\ MaxStarts \in Nat

VARIABLES
  tokens, last,   \* level of the bucket when last observed, and that time
  now,            \* the monotonic clock
  pc,             \* "idle", "loop" (about to refill) or "sleep"
  size,           \* tokens of the acquire in progress
  wake,           \* earliest end of the sleep
  \* History:
  charged,        \* tokens taken out of the buckets
  starts,         \* how often the process was started again
  mark            \* an earlier time, and charged and starts at that time

bucketVars == <<tokens, last, now, pc, size, wake, charged, starts, mark>>

Init ==
  /\ tokens = Capacity /\ last = 0 /\ now = 0
  /\ pc = "idle" /\ size = 0 /\ wake = 0
  /\ charged = 0 /\ starts = 0
  /\ mark = [time |-> 0, charged |-> 0, starts |-> 0]

Lesser(x, y) == IF x < y THEN x ELSE y

\* Mutant of Refilled: the level is not capped.
RefilledUncapped == tokens + (now - last)

\* What _refill makes of the level.
Refilled == Lesser(Capacity, tokens + (now - last))

\* Mutant of Need: a batch larger than the bucket waits for all its tokens.
NeedAll(n) == n

Need(n) == Lesser(n, Capacity)

-----------------------------------------------------------------------------

Acquire(n) ==
  /\ pc = "idle" /\ now < Horizon
  /\ pc' = "loop" /\ size' = n
  /\ UNCHANGED <<tokens, last, now, wake, charged, starts, mark>>

Take ==
  /\ pc = "loop" /\ Refilled >= Need(size)
  /\ tokens' = Refilled - Need(size)
  /\ last' = now
  /\ charged' = charged + Need(size)
  /\ pc' = "idle"
  /\ UNCHANGED <<now, size, wake, starts, mark>>

\* Mutant of Sleep: what has accrued since the last call is not put into the bucket.
SleepForgets ==
  /\ pc = "loop" /\ Refilled < Need(size)
  /\ last' = now
  /\ wake' = now + (Need(size) - Refilled)
  /\ pc' = "sleep"
  /\ UNCHANGED <<tokens, now, size, charged, starts, mark>>

Sleep ==
  /\ pc = "loop" /\ Refilled < Need(size)
  /\ tokens' = Refilled
  /\ last' = now
  /\ wake' = now + (Need(size) - Refilled)
  /\ pc' = "sleep"
  /\ UNCHANGED <<now, size, charged, starts, mark>>

Wake ==
  /\ pc = "sleep" /\ now >= wake
  /\ pc' = "loop"
  /\ UNCHANGED <<tokens, last, now, size, wake, charged, starts, mark>>

\* Bound on the clock: one sleep of a full bucket ends before it.
LastTime == Horizon + Capacity + MaxLate

Tick ==
  /\ now < IF pc = "sleep" THEN Lesser(wake + MaxLate, LastTime) ELSE Horizon
  /\ now' = now + 1
  /\ UNCHANGED <<tokens, last, pc, size, wake, charged, starts, mark>>

\* The process is killed, asleep or not, and run again: its bucket is new, and full.
Restart ==
  /\ now < Horizon /\ starts < MaxStarts
  /\ tokens' = Capacity /\ last' = now /\ pc' = "idle"
  /\ starts' = starts + 1
  /\ UNCHANGED <<now, size, wake, charged, mark>>

\* An observer starts to count.
Observe ==
  /\ mark' = [time |-> now, charged |-> charged, starts |-> starts]
  /\ UNCHANGED <<tokens, last, now, pc, size, wake, charged, starts>>

Next ==
  \/ \E n \in Requests : Acquire(n)
  \/ Take \/ Sleep \/ Wake \/ Tick \/ Restart \/ Observe

Spec == Init /\ [][Next]_bucketVars

\* The thread goes on, and time passes.
FairSpec ==
  /\ Spec
  /\ WF_bucketVars(Take \/ Sleep \/ Wake)
  /\ WF_bucketVars(Tick)

-----------------------------------------------------------------------------
\* In no stretch of time is more taken out than one bucket holds and accrues,
\* however long it was idle before, and one full bucket more for each start of the
\* process in it.  Of a batch larger than the bucket only the size of the bucket is
\* taken out (budget.py:124-134, 151-157; worker.py:407-412).
WindowRate ==
  charged - mark.charged <= Capacity * (1 + starts - mark.starts) + (now - mark.time)

\* acquire sleeps once, however large the batch, and no longer than the bucket takes to
\* fill: when the sleep is over, what has accrued is enough (budget.py:150-158).
OneSleepSuffices ==
  pc = "sleep" =>
    /\ wake <= last + Capacity
    /\ now >= wake => Refilled >= Need(size)

\* acquire returns, for a batch larger than the bucket too (budget.py:150).
AcquireReturns == (pc # "idle") ~> (pc = "idle")
=============================================================================
