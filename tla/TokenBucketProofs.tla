------------------------- MODULE TokenBucketProofs --------------------------
(***************************************************************************)
(* TLAPS proof about TokenBucket.                                          *)
(***************************************************************************)
EXTENDS TokenBucket, TLAPS

\* Types of what the bucket and its observer keep (budget.py:107-134).
BucketTypeOK ==
  /\ tokens \in Int /\ last \in Int /\ now \in Int /\ charged \in Int
  /\ size \in Nat /\ starts \in Int
  /\ mark \in [time : Int, charged : Int, starts : Int]
  /\ last <= now

\* What the buckets since the mark held when they were new or observed.
Provided == Capacity * (1 + starts - mark.starts)

\* What was taken since the mark, and what could be taken now, were in a bucket
\* at the mark or at a start, or have accrued since (budget.py:124-134).
Conserved == (charged - mark.charged) + Refilled <= Provided + (now - mark.time)

\* The level is not negative (budget.py:153-155).
LevelOK == tokens >= 0

BucketInv == BucketTypeOK /\ LevelOK /\ Conserved

\* A new bucket is full (budget.py:124-125).
LEMMA InitBucketInv == Init => BucketInv
  BY BucketAssumption DEF Init, BucketInv, BucketTypeOK, LevelOK, Conserved, Provided, Refilled, Lesser

\* Every step of acquire, of the clock and of the observer keeps BucketInv
\* (budget.py:127-157).
LEMMA NextBucketInv == BucketInv /\ [Next]_bucketVars => BucketInv'
<1> SUFFICES ASSUME BucketInv, [Next]_bucketVars PROVE BucketInv'
  OBVIOUS
<1> USE BucketAssumption DEF BucketInv, BucketTypeOK, LevelOK, Conserved, Refilled, Lesser
<1>0. Provided \in Int
  BY DEF Provided
<1>u. UNCHANGED <<starts, mark>> => Provided' = Provided
  BY DEF Provided
<1>1. CASE \E n \in Requests : Acquire(n)
  BY <1>0, <1>1, <1>u DEF Acquire
<1>2. CASE Take
  <2>1. Need(size) \in Int /\ Need(size) >= 0
    BY DEF Need
  <2>2. QED
    BY <1>0, <1>2, <1>u, <2>1 DEF Take
<1>3. CASE Sleep
  BY <1>0, <1>3, <1>u DEF Sleep
<1>4. CASE Wake
  BY <1>0, <1>4, <1>u DEF Wake
<1>5. CASE Tick
  BY <1>0, <1>5, <1>u DEF Tick
<1>6. CASE Restart
  <2>1. Provided' = Provided + Capacity
    BY <1>6 DEF Restart, Provided
  <2>2. charged - mark.charged <= Provided + (now - mark.time)
    BY <1>0
  <2>3. QED
    BY <1>0, <1>6, <2>1, <2>2 DEF Restart
<1>7. CASE Observe
  <2>1. Provided' = Capacity
    BY <1>7 DEF Observe, Provided
  <2>2. QED
    BY <1>7, <2>1 DEF Observe
<1>8. CASE UNCHANGED bucketVars
  BY <1>0, <1>8, <1>u DEF bucketVars
<1>9. QED
  BY <1>1, <1>2, <1>3, <1>4, <1>5, <1>6, <1>7, <1>8 DEF Next

\* In no stretch of time does acquire take more than what accrues, a full bucket,
\* and another for each start of the process in it (budget.py:124-157).
THEOREM WindowRateTheorem == Spec => []WindowRate
<1>1. BucketInv => WindowRate
  <2>0. SUFFICES ASSUME BucketInv PROVE WindowRate
    OBVIOUS
  <2>1. Provided \in Int
    BY <2>0, BucketAssumption DEF BucketInv, BucketTypeOK, Provided
  <2>2. QED
    BY <2>0, <2>1, BucketAssumption
       DEF BucketInv, BucketTypeOK, LevelOK, Conserved, Refilled, Lesser, WindowRate, Provided
<1>2. QED
  BY <1>1, InitBucketInv, NextBucketInv, PTL DEF Spec

\* A sleeper waits for what its bucket lacked when it was last observed
\* (budget.py:156-158).
SleepInv ==
  pc = "sleep" => /\ tokens < Need(size) /\ Need(size) <= Capacity
                  /\ wake = last + (Need(size) - tokens)

\* Every step keeps it: only the sleeper's own steps move its bucket.
LEMMA NextSleepInv == BucketInv /\ SleepInv /\ [Next]_bucketVars => SleepInv'
<1> SUFFICES ASSUME BucketInv, SleepInv, [Next]_bucketVars PROVE SleepInv'
  OBVIOUS
<1> USE BucketAssumption DEF BucketInv, BucketTypeOK, LevelOK
<1>1. CASE Sleep
  <2>1. Need(size) \in Int /\ Need(size) <= Capacity /\ Refilled \in Int
    BY DEF Need, Refilled, Lesser
  <2>2. Need(size)' = Need(size) /\ pc' = "sleep"
    BY <1>1 DEF Sleep, Need
  <2> QED BY <1>1, <2>1, <2>2 DEF Sleep, SleepInv
<1>2. CASE (\E n \in Requests : Acquire(n)) \/ Take \/ Wake \/ Restart
  BY <1>2 DEF Acquire, Take, Wake, Restart, SleepInv
<1>3. CASE UNCHANGED <<pc, tokens, last, wake, size>>
  BY <1>3 DEF SleepInv, Need
<1> QED BY <1>1, <1>2, <1>3 DEF Next, Tick, Observe, bucketVars

\* For every capacity and all sizes of batches, acquire sleeps at most once.
THEOREM OneSleepTheorem == Spec => []OneSleepSuffices
<1>1. Init => SleepInv
  BY DEF Init, SleepInv
<1>2. BucketInv /\ SleepInv => OneSleepSuffices
  <2> SUFFICES ASSUME BucketInv, SleepInv, pc = "sleep"
               PROVE  /\ wake <= last + Capacity
                      /\ now >= wake => Refilled >= Need(size)
    BY DEF OneSleepSuffices
  <2>1. Need(size) \in Int
    BY BucketAssumption DEF BucketInv, BucketTypeOK, Need, Lesser
  <2> QED BY <2>1, BucketAssumption
          DEF BucketInv, BucketTypeOK, LevelOK, SleepInv, Refilled, Lesser
<1> QED BY <1>1, <1>2, InitBucketInv, NextBucketInv, NextSleepInv, PTL DEF Spec
=============================================================================
