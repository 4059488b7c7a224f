----------------------------- MODULE EmbedderLimit -----------------------------
(***************************************************************************)
(* The embedder's rate limit: the token bucket in Redis that all processes *)
(* share, the concurrency gate of each process, and the requests that pass *)
(* both, with their waits, their refunds and their retries after a 429.    *)
(*                                                                         *)
(* A request is one sub-batch of embedDocuments.  Time is counted in the   *)
(* time the bucket takes to refill one token, so refillPerMs is 1 here,    *)
(* and it is relative: a command carries its age, the bucket the age of    *)
(* lastRefillMs.  The commands of one process reach Redis in the order in  *)
(* which it sends them, those of two processes in any order.               *)
(***************************************************************************)
EXTENDS Integers, Sequences, FiniteSets

CONSTANTS Requests,        \* slots in which requests run
          Instances,       \* processes, each with its connection and its gate
          Sizes,           \* estimates of a sub-batch
          Capacity,        \* tpmLimit - safetyTokens
          MaxWait,         \* maxWaitMs
          MaxAttempts, MaxConcurrent,
          RetryAfter,      \* pauses a 429 may ask for
          MaxLatency       \* bound: age at which a command reaches Redis

ASSUME LimitAssumption ==
  /\ Capacity \in Nat /\ MaxWait \in Nat /\ MaxAttempts \in Nat /\ MaxLatency \in Nat
  /\ MaxConcurrent \in Nat \ {0}
  /\ Sizes \subseteq Nat /\ RetryAfter \subseteq Nat
ASSUME RequestsAssumption == IsFiniteSet(Requests)

VARIABLES tokens, age,     \* the bucket: tokens, and the age of lastRefillMs
          at,              \* [Requests -> where the request is]
          home, need,      \* [Requests -> its process, its estimate]
          clock,           \* [Requests -> age of its command, or time left of its pause]
          left, attempt,   \* [Requests -> what remains of MaxWait; the attempt]
          slots, waiters,  \* the gates: free slots and queue, per process
          level            \* history: an exact bucket that grants as this one does

request == <<home, need, attempt>>
gate == <<slots, waiters>>
bucket == <<tokens, age, level>>
vars == <<bucket, at, request, clock, left, gate>>

Resting == {"idle", "done", "starved", "failed"}
Sent == {"consuming", "refunding"}
Pausing == {"sleeping", "backoff"}
Places == Resting \cup Sent \cup Pausing \cup {"waiting", "calling"}

Lesser(a, b) == IF a < b THEN a ELSE b

\* What Redis may have granted in an instant: a command that is late leaves
\* behind what was refilled meanwhile.
Burst == Capacity + MaxLatency

TypeOK ==
  /\ tokens \in 0..Capacity /\ age \in 0..Burst /\ level \in Int
  /\ at \in [Requests -> Places]
  /\ home \in [Requests -> Instances] /\ need \in [Requests -> Nat]
  /\ clock \in [Requests -> Nat]
  /\ \A r \in Requests : at[r] \in Sent => clock[r] <= MaxLatency
  /\ left \in [Requests -> Nat] /\ attempt \in [Requests -> Nat]
  /\ slots \in [Instances -> Nat] /\ waiters \in [Instances -> Seq(Requests)]

\* A key that does not exist reads as a full bucket; so would, by then, the
\* key that expires after five minutes without a command.
Init ==
  /\ tokens = Capacity /\ age = 0 /\ level = Burst
  /\ at = [r \in Requests |-> "idle"]
  /\ home \in [Requests -> Instances]
  /\ need = [r \in Requests |-> 0]
  /\ clock = [r \in Requests |-> 0] /\ left = [r \in Requests |-> 0]
  /\ attempt = [r \in Requests |-> 0]
  /\ slots = [i \in Instances |-> MaxConcurrent]
  /\ waiters = [i \in Instances |-> <<>>]

-----------------------------------------------------------------------------
(* Time.  A pause may last longer than its timer; a command that has its    *)
(* greatest age arrives before time goes on.  At the age of Burst the       *)
(* bucket is full for every command on its way, and its age stops there.    *)

Tick ==
  /\ \A r \in Requests : at[r] \in Sent => clock[r] < MaxLatency
  /\ clock' = [r \in Requests |->
                 CASE at[r] \in Sent -> clock[r] + 1
                   [] at[r] \in Pausing /\ clock[r] > 0 -> clock[r] - 1
                   [] OTHER -> clock[r]]
  /\ left' = [r \in Requests |-> IF at[r] \in {"consuming", "sleeping"} /\ left[r] > 0
                                 THEN left[r] - 1 ELSE left[r]]
  /\ age' = Lesser(Burst, age + 1)
  /\ level' = Lesser(Burst, level + 1)
  /\ UNCHANGED <<tokens, at, request, gate>>

-----------------------------------------------------------------------------
(* The bucket. *)

\* embedSubBatchWithRetry starts with attempt 1 and stamps its command.
Start(r, i, n) ==
  /\ at[r] \in Resting
  /\ at' = [at EXCEPT ![r] = "consuming"]
  /\ home' = [home EXCEPT ![r] = i] /\ need' = [need EXCEPT ![r] = n]
  /\ attempt' = [attempt EXCEPT ![r] = 1]
  /\ clock' = [clock EXCEPT ![r] = 0] /\ left' = [left EXCEPT ![r] = MaxWait]
  /\ UNCHANGED <<bucket, gate>>

\* The command is the oldest one its process has sent.
InTurn(r) == \A q \in Requests : home[q] = home[r] /\ at[q] \in Sent => clock[q] <= clock[r]

\* Mutant: what a full bucket refills is kept.
RefilledWithoutCap(r) == tokens + (IF age > clock[r] THEN age - clock[r] ELSE 0)

\* CONSUME_LUA refills by the time between lastRefillMs and the command's stamp.
Refilled(r) == Lesser(Capacity, tokens + (IF age > clock[r] THEN age - clock[r] ELSE 0))

\* The request is granted and asks the gate for a slot.
Grant(r) ==
  /\ at[r] = "consuming" /\ InTurn(r)
  /\ Refilled(r) >= need[r]
  /\ tokens' = Refilled(r) - need[r]
  /\ age' = clock[r]
  /\ level' = level - need[r]
  /\ IF slots[home[r]] > 0
     THEN /\ slots' = [slots EXCEPT ![home[r]] = @ - 1]
          /\ at' = [at EXCEPT ![r] = "calling"]
          /\ UNCHANGED waiters
     ELSE /\ waiters' = [waiters EXCEPT ![home[r]] = Append(@, r)]
          /\ at' = [at EXCEPT ![r] = "waiting"]
          /\ UNCHANGED slots
  /\ left' = [left EXCEPT ![r] = 0]
  /\ UNCHANGED <<request, clock>>

\* The request is denied: it waits for what is missing, or gives up when that
\* takes longer than what is left of MaxWait.
Deny(r) ==
  /\ at[r] = "consuming" /\ InTurn(r)
  /\ Refilled(r) < need[r]
  /\ tokens' = Refilled(r) /\ age' = clock[r]
  /\ LET wait == need[r] - Refilled(r) IN
       /\ at' = [at EXCEPT ![r] = IF wait > left[r] THEN "starved" ELSE "sleeping"]
       /\ clock' = [clock EXCEPT ![r] = IF wait > left[r] THEN 0 ELSE wait]
  /\ UNCHANGED <<level, request, left, gate>>

\* consume tries again, with a new stamp.
Wake(r) ==
  /\ at[r] = "sleeping" /\ clock[r] = 0
  /\ at' = [at EXCEPT ![r] = "consuming"]
  /\ UNCHANGED <<bucket, request, clock, left, gate>>

\* Redis does not answer: the error leaves embedDocuments.
ConsumeFails(r) ==
  /\ at[r] = "consuming"
  /\ at' = [at EXCEPT ![r] = "failed"]
  /\ clock' = [clock EXCEPT ![r] = 0]
  /\ UNCHANGED <<bucket, request, left, gate>>

-----------------------------------------------------------------------------
(* The gate and the provider. *)

\* Mutant: a slot handed to a waiter is also counted as free.
LeaveTwice(r, place) ==
  /\ slots' = [slots EXCEPT ![home[r]] = @ + 1]
  /\ IF waiters[home[r]] = <<>>
     THEN /\ at' = [at EXCEPT ![r] = place] /\ UNCHANGED waiters
     ELSE /\ at' = [at EXCEPT ![r] = place, ![Head(waiters[home[r]])] = "calling"]
          /\ waiters' = [waiters EXCEPT ![home[r]] = Tail(@)]

\* The call of r is over: its slot goes to the first waiter of its process, or
\* is free.
Leave(r, place) ==
  IF waiters[home[r]] = <<>>
  THEN /\ slots' = [slots EXCEPT ![home[r]] = @ + 1]
       /\ at' = [at EXCEPT ![r] = place]
       /\ UNCHANGED waiters
  ELSE /\ at' = [at EXCEPT ![r] = place, ![Head(waiters[home[r]])] = "calling"]
       /\ waiters' = [waiters EXCEPT ![home[r]] = Tail(@)]
       /\ UNCHANGED slots

Answer(r) ==
  /\ at[r] = "calling"
  /\ Leave(r, "done")
  /\ UNCHANGED <<bucket, request, clock, left>>

\* A last 429, a token limit or another error: thrown, and nothing is refunded.
Throw(r) ==
  /\ at[r] = "calling"
  /\ Leave(r, "failed")
  /\ UNCHANGED <<bucket, request, clock, left>>

\* A 429 with attempts left: the refund is sent.
TooMany(r) ==
  /\ at[r] = "calling" /\ attempt[r] < MaxAttempts
  /\ Leave(r, "refunding")
  /\ clock' = [clock EXCEPT ![r] = 0]
  /\ UNCHANGED <<bucket, request, left>>

\* REFUND_LUA adds the tokens and does not touch lastRefillMs.
Refund(r, pause) ==
  /\ at[r] = "refunding" /\ InTurn(r)
  /\ tokens' = Lesser(Capacity, tokens + need[r])
  /\ level' = Lesser(Burst, level + need[r])
  /\ at' = [at EXCEPT ![r] = "backoff"]
  /\ clock' = [clock EXCEPT ![r] = pause]
  /\ UNCHANGED <<age, request, left, gate>>

\* refund logs and swallows a failure of Redis.
RefundFails(r, pause) ==
  /\ at[r] = "refunding"
  /\ at' = [at EXCEPT ![r] = "backoff"]
  /\ clock' = [clock EXCEPT ![r] = pause]
  /\ UNCHANGED <<bucket, request, left, gate>>

\* Mutant: the attempts are not counted.
RetryForever(r) ==
  /\ at[r] = "backoff" /\ clock[r] = 0
  /\ at' = [at EXCEPT ![r] = "consuming"]
  /\ left' = [left EXCEPT ![r] = MaxWait]
  /\ UNCHANGED <<bucket, request, clock, gate>>

Retry(r) ==
  /\ at[r] = "backoff" /\ clock[r] = 0
  /\ at' = [at EXCEPT ![r] = "consuming"]
  /\ attempt' = [attempt EXCEPT ![r] = @ + 1]
  /\ left' = [left EXCEPT ![r] = MaxWait]
  /\ UNCHANGED <<bucket, home, need, clock, gate>>

-----------------------------------------------------------------------------
Consume(r) == Grant(r) \/ Deny(r)
CallEnds(r) == Answer(r) \/ Throw(r) \/ TooMany(r)

Next ==
  \/ Tick
  \/ \E r \in Requests :
       \/ \E i \in Instances, n \in Sizes : Start(r, i, n)
       \/ Consume(r) \/ Wake(r) \/ ConsumeFails(r)
       \/ CallEnds(r)
       \/ \E pause \in RetryAfter : Refund(r, pause) \/ RefundFails(r, pause)
       \/ Retry(r)

Spec == Init /\ [][Next]_vars

\* Time passes, Redis and the provider answer, and timers fire.
Fairness ==
  /\ WF_vars(Tick)
  /\ \A r \in Requests :
       /\ WF_vars(Consume(r)) /\ WF_vars(Wake(r)) /\ WF_vars(CallEnds(r)) /\ WF_vars(Retry(r))
       /\ WF_vars(\E pause \in RetryAfter : Refund(r, pause))

FairSpec == Spec /\ Fairness

-----------------------------------------------------------------------------
(* Properties. *)

\* What all processes are granted over any stretch of time, less what they
\* refund, is at most the bucket's capacity, what it refills in that time and
\* the latency of one command: the limit that tpmLimit promises the provider.
RateKept == level >= 0

Calling(i) == {r \in Requests : at[r] = "calling" /\ home[r] = i}
QueuedAt(i) == {waiters[i][k] : k \in 1..Len(waiters[i])}

\* The gate of a process never loses or adds a slot: its calls and its free
\* slots are MaxConcurrent, whatever waits for a retry holds none, nobody
\* queues beside a free slot, and each request that waits is queued once.
GateHolds ==
  \A i \in Instances :
    /\ slots[i] + Cardinality(Calling(i)) = MaxConcurrent
    /\ waiters[i] # <<>> => slots[i] = 0
    /\ QueuedAt(i) = {r \in Requests : at[r] = "waiting" /\ home[r] = i}
    /\ \A j, k \in 1..Len(waiters[i]) : waiters[i][j] = waiters[i][k] => j = k

\* A request ends, whatever the others take from the bucket and the gate:
\* answered, starved after MaxWait, or failed after MaxAttempts.
Ends == \A r \in Requests : at[r] \notin Resting ~> at[r] \in Resting
=============================================================================
