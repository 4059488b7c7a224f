--------------------------- MODULE ModelAccess_proofs ---------------------------
(***************************************************************************)
(* The safety of the ways to a provider's models, for every value of their *)
(* constants: the embedder's rate limit, the repair of requests that a     *)
(* deployment refuses, the chain of connections that calls fail over, the  *)
(* stream of an answer and the call that works with tools.                 *)
(***************************************************************************)
EXTENDS EmbedderLimit, RequestRepair, AiConnections, LlmStream, LlmCall,
        FiniteSetTheorems, SequenceTheorems, TLAPS

\* Leaving the gate keeps the types of what it writes, and only a request that
\* begins a refund gets a command on its way.
LEMMA LeaveTyped ==
  ASSUME TypeOK, NEW r \in Requests, NEW place \in {"done", "failed", "refunding"}, Leave(r, place)
  PROVE  /\ at' \in [Requests -> Places]
         /\ slots' \in [Instances -> Nat]
         /\ waiters' \in [Instances -> Seq(Requests)]
         /\ \A q \in Requests : at'[q] \in Sent => at[q] \in Sent \/ (q = r /\ place = "refunding")
<1> USE DEF TypeOK
<1>h. /\ home[r] \in Instances /\ waiters[home[r]] \in Seq(Requests)
      /\ slots[home[r]] + 1 \in Nat
      /\ place \in Places /\ "calling" \in Places /\ "calling" \notin Sent
  BY DEF Places, Resting, Sent
<1>1. CASE waiters[home[r]] = <<>>
  BY <1>1, <1>h DEF Leave, Sent
<1>2. CASE waiters[home[r]] # <<>>
  <2>1. Head(waiters[home[r]]) \in Requests /\ Tail(waiters[home[r]]) \in Seq(Requests)
    BY <1>2, <1>h, HeadTailProperties
  <2> QED BY <1>2, <1>h, <2>1 DEF Leave, Sent
<1> QED BY <1>1, <1>2

\* A bucket that is refilled holds at most its capacity.
LEMMA RefilledTyped ==
  ASSUME TypeOK, NEW r \in Requests
  PROVE  Refilled(r) \in 0..Capacity
BY LimitAssumption DEF TypeOK, Refilled, Lesser, Burst

\* Every variable always has its type; in particular the bucket never holds
\* more than its capacity and never less than nothing.
THEOREM TypeCorrect == Spec => []TypeOK
<1> USE LimitAssumption DEF TypeOK, Burst
<1>1. Init => TypeOK
  BY DEF Init, Places, Resting, Sent
<1>2. TypeOK /\ [Next]_vars => TypeOK'
  <2> SUFFICES ASSUME TypeOK, [Next]_vars PROVE TypeOK'
    OBVIOUS
  <2> USE DEF bucket, request, gate
  <2>p. Resting \cup Sent \cup Pausing \cup {"waiting", "calling"} \subseteq Places
    BY DEF Places
  <2>1. CASE Tick
    <3>1. clock' \in [Requests -> Nat]
      <4>1. ASSUME NEW r \in Requests
            PROVE  (CASE at[r] \in Sent -> clock[r] + 1
                      [] at[r] \in Pausing /\ clock[r] > 0 -> clock[r] - 1
                      [] OTHER -> clock[r]) \in Nat
        <5>1. clock[r] \in Nat
          OBVIOUS
        <5>2. at[r] \in Sent => at[r] \notin Pausing
          BY DEF Sent, Pausing
        <5> QED BY ONLY <5>1, <5>2
      <4> QED BY ONLY <2>1, <4>1 DEF Tick
    <3>2. left' \in [Requests -> Nat]
      <4>1. ASSUME NEW r \in Requests
            PROVE  (IF at[r] \in {"consuming", "sleeping"} /\ left[r] > 0 THEN left[r] - 1 ELSE left[r]) \in Nat
        OBVIOUS
      <4> QED BY ONLY <2>1, <4>1 DEF Tick
    <3>3. age' \in 0..(Capacity + MaxLatency) /\ level' \in Int
      BY <2>1 DEF Tick, Lesser
    <3>4. ASSUME NEW r \in Requests, at'[r] \in Sent PROVE clock'[r] <= MaxLatency
      <4>1. at[r] \in Sent /\ clock[r] < MaxLatency
        BY ONLY <2>1, <3>4 DEF Tick
      <4>2. clock'[r] = clock[r] + 1
        <5>1. clock'[r] = CASE at[r] \in Sent -> clock[r] + 1
                            [] at[r] \in Pausing /\ clock[r] > 0 -> clock[r] - 1
                            [] OTHER -> clock[r]
          BY ONLY <2>1, <3>4 DEF Tick
        <5>2. at[r] \notin Pausing
          BY ONLY <4>1 DEF Sent, Pausing
        <5> QED BY ONLY <4>1, <5>1, <5>2
      <4>3. clock[r] \in Nat /\ MaxLatency \in Nat
        OBVIOUS
      <4> QED BY ONLY <4>1, <4>2, <4>3
    <3> QED BY <2>1, <3>1, <3>2, <3>3, <3>4 DEF Tick
  <2>2. ASSUME NEW r \in Requests, NEW i \in Instances, NEW n \in Sizes, Start(r, i, n) PROVE TypeOK'
    BY <2>2, <2>p, SMTT(30) DEF Start, Sent
  <2>3. ASSUME NEW r \in Requests, Grant(r) PROVE TypeOK'
    <3>1. tokens' \in 0..Capacity /\ age' \in 0..(Capacity + MaxLatency) /\ level' \in Int
      <4>1. need[r] \in Nat /\ clock[r] \in Nat /\ clock[r] <= MaxLatency /\ Refilled(r) \in 0..Capacity
        BY <2>3, RefilledTyped DEF Grant, Sent
      <4>2. /\ tokens' = Refilled(r) - need[r] /\ Refilled(r) >= need[r]
            /\ age' = clock[r] /\ level' = level - need[r]
        BY <2>3 DEF Grant
      <4>3. level \in Int /\ Capacity \in Nat /\ MaxLatency \in Nat
        OBVIOUS
      <4> QED BY ONLY <4>1, <4>2, <4>3
    <3>2. slots' \in [Instances -> Nat] /\ waiters' \in [Instances -> Seq(Requests)]
      <4>1. /\ home[r] \in Instances /\ Append(waiters[home[r]], r) \in Seq(Requests)
            /\ slots[home[r]] > 0 => slots[home[r]] - 1 \in Nat
        OBVIOUS
      <4> QED BY <2>3, <4>1 DEF Grant
    <3>3. at' \in [Requests -> Places] /\ \A q \in Requests : at'[q] \in Sent => at[q] \in Sent
      BY <2>3, <2>p DEF Grant, Sent
    <3>4. left' \in [Requests -> Nat]
      BY <2>3 DEF Grant
    <3> QED BY <2>3, <3>1, <3>2, <3>3, <3>4 DEF Grant
  <2>4. ASSUME NEW r \in Requests, Deny(r) PROVE TypeOK'
    <3>1. tokens' \in 0..Capacity /\ age' \in 0..(Capacity + MaxLatency)
      BY <2>4, RefilledTyped DEF Deny, Sent
    <3>2. need[r] - Refilled(r) \in Nat
      <4>1. need[r] \in Nat /\ Refilled(r) \in 0..Capacity
        BY RefilledTyped
      <4> QED BY <2>4, <4>1 DEF Deny
    <3>3. /\ clock' \in [Requests -> Nat]
          /\ \A q \in Requests : q # r => clock'[q] = clock[q]
      BY <2>4, <3>2 DEF Deny
    <3>4. /\ at' \in [Requests -> Places]
          /\ \A q \in Requests : at'[q] \in Sent => at[q] \in Sent /\ q # r
      BY <2>4, <2>p DEF Deny, Sent, Resting, Pausing
    <3> QED BY <2>4, <3>1, <3>3, <3>4 DEF Deny
  <2>5. ASSUME NEW r \in Requests, Wake(r) \/ ConsumeFails(r) \/ Retry(r) PROVE TypeOK'
    <3>1. CASE Wake(r)
      BY <3>1, <2>p DEF Wake, Sent
    <3>2. CASE ConsumeFails(r)
      BY <3>2, <2>p DEF ConsumeFails, Sent, Resting
    <3>3. CASE Retry(r)
      BY <3>3, <2>p DEF Retry, Sent
    <3> QED BY <2>5, <3>1, <3>2, <3>3
  <2>6. ASSUME NEW r \in Requests, Answer(r) \/ Throw(r) PROVE TypeOK'
    BY <2>6, LeaveTyped DEF Answer, Throw
  <2>7. ASSUME NEW r \in Requests, TooMany(r) PROVE TypeOK'
    <3>1. /\ at' \in [Requests -> Places] /\ slots' \in [Instances -> Nat]
          /\ waiters' \in [Instances -> Seq(Requests)]
          /\ \A q \in Requests : at'[q] \in Sent => at[q] \in Sent \/ q = r
      BY <2>7, LeaveTyped DEF TooMany
    <3>2. clock' \in [Requests -> Nat] /\ clock'[r] = 0 /\ \A q \in Requests : q # r => clock'[q] = clock[q]
      BY <2>7 DEF TooMany
    <3> QED BY <2>7, <3>1, <3>2 DEF TooMany
  <2>8. ASSUME NEW r \in Requests, NEW pause \in RetryAfter, Refund(r, pause) PROVE TypeOK'
    <3>1. tokens' \in 0..Capacity /\ level' \in Int
      BY <2>8, SMTT(30) DEF Refund, Lesser
    <3>2. /\ at' \in [Requests -> Places] /\ clock' \in [Requests -> Nat]
          /\ \A q \in Requests : at'[q] \in Sent => at[q] \in Sent /\ clock'[q] = clock[q]
      BY <2>8, <2>p DEF Refund, Sent, Pausing
    <3> QED BY <2>8, <3>1, <3>2 DEF Refund
  <2>9. ASSUME NEW r \in Requests, NEW pause \in RetryAfter, RefundFails(r, pause) PROVE TypeOK'
    BY <2>9, <2>p DEF RefundFails, Sent, Pausing
  <2>10. CASE UNCHANGED vars
    BY <2>10 DEF vars
  <2> QED BY <2>1, <2>2, <2>3, <2>4, <2>5, <2>6, <2>7, <2>8, <2>9, <2>10 DEF Next, Consume, CallEnds
<1> QED BY <1>1, <1>2, PTL DEF Spec
-----------------------------------------------------------------------------
(* The rate of a single process.  Its commands reach Redis in the order in  *)
(* which they were stamped, so lastRefillMs never moves back.  What the     *)
(* bucket may still grant to the commands on their way, Credit, is then     *)
(* covered by the exact bucket: it is what the bucket will hold for a stamp *)
(* of MaxLatency ago, and all that is refilled since.                       *)

SingleProcess == \A i, j \in Instances : i = j

Credit == Lesser(Capacity, tokens + (IF age > MaxLatency THEN age - MaxLatency ELSE 0))
            + Lesser(age, MaxLatency)

InOrder == \A r \in Requests : at[r] = "consuming" => clock[r] <= age

RateInv == TypeOK /\ Credit <= level /\ level <= Burst /\ InOrder

\* The lesser of two integers is an integer.
LEMMA LesserTyped == ASSUME NEW a \in Int, NEW b \in Int PROVE Lesser(a, b) \in Int
BY DEF Lesser

\* The credit of a bucket of t tokens and age a is an integer.
LEMMA CreditTyped ==
  ASSUME NEW t \in Int, NEW a \in Int, NEW most \in Nat, NEW late \in Nat
  PROVE  Lesser(most, t + (IF a > late THEN a - late ELSE 0)) + Lesser(a, late) \in Int
<1>1. Lesser(a, late) \in Int
  BY LesserTyped
<1>2. CASE a > late
  <2>1. Lesser(most, t + (a - late)) \in Int
    BY t + (a - late) \in Int, most \in Int, LesserTyped
  <2> QED BY ONLY <1>1, <1>2, <2>1
<1>3. CASE ~(a > late)
  <2>1. Lesser(most, t + 0) \in Int
    BY t + 0 \in Int, most \in Int, LesserTyped
  <2> QED BY ONLY <1>1, <1>3, <2>1
<1> QED BY ONLY <1>2, <1>3

\* A command that is applied in order takes its grant out of the credit.
LEMMA CreditFalls ==
  ASSUME TypeOK, NEW r \in Requests, clock[r] <= MaxLatency, clock[r] <= age, NEW n \in Nat,
         n <= Refilled(r), tokens' = Refilled(r) - n, age' = clock[r]
  PROVE  Credit' <= Credit - n
<1>1. tokens \in Nat /\ tokens <= Capacity /\ age \in Nat /\ clock[r] \in Nat /\ Capacity \in Nat /\ MaxLatency \in Nat
  BY LimitAssumption DEF TypeOK, Burst
<1>2. Refilled(r) = Lesser(Capacity, tokens + (age - clock[r]))
  BY <1>1 DEF Refilled
<1>3. Credit' = Refilled(r) - n + clock[r]
  BY <1>1, <1>2 DEF Credit, Lesser
<1> QED BY <1>1, <1>2, <1>3 DEF Credit, Lesser

\* With one process no stretch of time sees more granted than the bucket allows.
THEOREM SingleProcessKeepsRate == ASSUME SingleProcess PROVE Spec => []RateKept
<1> USE LimitAssumption
<1>1. Init => RateInv
  <2> SUFFICES ASSUME Init PROVE RateInv
    OBVIOUS
  <2>1. TypeOK
    BY DEF Init, TypeOK, Places, Resting, Sent, Burst
  <2>2. Credit = Capacity /\ level = Capacity + MaxLatency
    BY DEF Init, Credit, Lesser, Burst
  <2>3. InOrder
    BY DEF Init, InOrder
  <2> QED BY <2>1, <2>2, <2>3 DEF RateInv, Burst
<1>2. RateInv /\ TypeOK' /\ [Next]_vars => RateInv'
  <2> SUFFICES ASSUME RateInv, TypeOK', [Next]_vars
               PROVE  (Credit <= level)' /\ (level <= Burst)' /\ InOrder'
    BY DEF RateInv
  <2> USE DEF bucket, request, gate
  <2>t. /\ TypeOK /\ Credit <= level /\ level <= Burst /\ InOrder
        /\ tokens \in 0..Capacity /\ age \in 0..Burst /\ level \in Int
        /\ \A r \in Requests : home[r] \in Instances /\ need[r] \in Nat /\ clock[r] \in Nat
    BY DEF RateInv, TypeOK
  <2>b. Burst = Capacity + MaxLatency /\ Burst' = Burst
    BY DEF Burst
  <2>c. tokens' = tokens /\ age' = age => Credit' = Credit
    BY DEF Credit
  <2>i. Credit \in Int /\ Credit' \in Int
    <3>0. tokens \in Int /\ age \in Int
      BY <2>t, <2>b
    <3>1. tokens' \in Int /\ age' \in Int
      BY <2>b DEF TypeOK
    <3>2. Capacity \in Nat /\ MaxLatency \in Nat /\ Burst \in Nat
      BY <2>b
    <3>3. Credit \in Int
      BY ONLY <3>0, <3>2, CreditTyped DEF Credit
    <3>4. Credit' \in Int
      BY ONLY <3>1, <3>2, CreditTyped DEF Credit
    <3> QED BY ONLY <3>3, <3>4
  <2>n. ASSUME NEW r \in Requests, at[r] = "consuming"
        PROVE  /\ clock[r] <= MaxLatency /\ clock[r] <= age
               /\ InTurn(r) => \A q \in Requests : at[q] = "consuming" => clock[q] <= clock[r]
    BY <2>n, <2>t DEF InOrder, InTurn, SingleProcess, TypeOK, Sent
  <2>1. CASE Tick
    <3>1. age' = Lesser(Burst, age + 1) /\ level' = Lesser(Burst, level + 1) /\ tokens' = tokens
      BY <2>1 DEF Tick
    <3>2. Credit' <= Burst /\ Credit' <= Credit + 1
      BY <3>1, <2>t, <2>b DEF Credit, Lesser
    <3>3. Credit \in Int /\ Credit' \in Int
      BY <3>1, <2>t, <2>b DEF Credit, Lesser
    <3>4. Credit' <= level' /\ level' <= Burst
      BY <3>1, <3>2, <3>3, <2>t, <2>b DEF Lesser
    <3>5. ASSUME NEW r \in Requests, at'[r] = "consuming"
          PROVE  clock'[r] <= age'
      <4>1. at[r] = "consuming" /\ at[r] \in Sent
        BY <2>1, <3>5 DEF Tick, Sent
      <4>2. clock'[r] = clock[r] + 1 /\ clock[r] < MaxLatency
        BY <2>1, <4>1 DEF Tick, Sent, Pausing
      <4> QED BY <4>1, <4>2, <3>1, <2>n, <2>t, <2>b DEF Lesser
    <3> QED BY <3>4, <3>5, <2>b DEF InOrder
  <2>2. ASSUME NEW r \in Requests, Grant(r) PROVE (Credit <= level)' /\ (level <= Burst)' /\ InOrder'
    <3>1. Credit' <= Credit - need[r]
      BY <2>2, <2>t, <2>n, CreditFalls DEF Grant
    <3>3. Credit' <= level' /\ level' <= Burst
      BY <2>2, <3>1, <2>i, <2>t, <2>b, SMTT(30) DEF Grant
    <3>4. InOrder'
      BY <2>2, <2>t, <2>n DEF Grant, InOrder, TypeOK
    <3> QED BY <3>3, <3>4, <2>b
  <2>3. ASSUME NEW r \in Requests, Deny(r) PROVE (Credit <= level)' /\ (level <= Burst)' /\ InOrder'
    <3>1. Credit' <= Credit - 0
      <4>1. tokens' = Refilled(r) - 0 /\ 0 <= Refilled(r)
        BY <2>3, <2>t, RefilledTyped DEF Deny
      <4> QED BY <2>3, <2>t, <2>n, <4>1, CreditFalls DEF Deny
    <3>3. Credit' <= level' /\ level' <= Burst
      BY <2>3, <3>1, <2>i, <2>t, <2>b DEF Deny
    <3>4. InOrder'
      BY <2>3, <2>t, <2>n DEF Deny, InOrder, TypeOK
    <3> QED BY <3>3, <3>4, <2>b
  <2>4. ASSUME NEW r \in Requests, NEW pause \in RetryAfter, Refund(r, pause)
        PROVE  (Credit <= level)' /\ (level <= Burst)' /\ InOrder'
    <3>1. tokens' = Lesser(Capacity, tokens + need[r]) /\ age' = age /\ level' = Lesser(Burst, level + need[r])
      BY <2>4 DEF Refund
    <3>2. Credit' <= Burst /\ Credit' <= Credit + need[r] /\ Credit \in Int /\ Credit' \in Int
      BY <3>1, <2>t, <2>b DEF Credit, Lesser
    <3>3. Credit' <= level' /\ level' <= Burst
      BY <3>1, <3>2, <2>t, <2>b DEF Lesser
    <3>4. InOrder'
      BY <2>4, <2>t DEF Refund, InOrder, TypeOK
    <3> QED BY <3>3, <3>4, <2>b
  <2>5. ASSUME UNCHANGED bucket,
               \A r \in Requests : at'[r] = "consuming" => clock'[r] = 0 \/ (at[r] = "consuming" /\ clock'[r] = clock[r])
        PROVE  (Credit <= level)' /\ (level <= Burst)' /\ InOrder'
    BY <2>5, <2>t, <2>c, <2>b DEF InOrder
  <2>6. ASSUME NEW r \in Requests,
               \/ \E i \in Instances, n \in Sizes : Start(r, i, n)
               \/ Wake(r) \/ ConsumeFails(r) \/ Retry(r)
               \/ \E pause \in RetryAfter : RefundFails(r, pause)
        PROVE  (Credit <= level)' /\ (level <= Burst)' /\ InOrder'
    <3>1. \A q \in Requests : at'[q] = "consuming" => clock'[q] = 0 \/ (at[q] = "consuming" /\ clock'[q] = clock[q])
      BY <2>6, <2>t DEF Start, Wake, ConsumeFails, Retry, RefundFails, TypeOK
    <3> QED BY <2>6, <3>1, <2>5 DEF Start, Wake, ConsumeFails, Retry, RefundFails
  <2>7. ASSUME NEW r \in Requests, CallEnds(r) PROVE (Credit <= level)' /\ (level <= Burst)' /\ InOrder'
    <3>1. ASSUME NEW q \in Requests, at'[q] = "consuming"
          PROVE  at[q] = "consuming" /\ clock'[q] = clock[q]
      BY <2>7, <3>1, <2>t, ZenonT(40) DEF CallEnds, Answer, Throw, TooMany, Leave, TypeOK
    <3> QED BY <2>7, <3>1, <2>5 DEF CallEnds, Answer, Throw, TooMany
  <2>8. CASE UNCHANGED vars
    BY <2>8, <2>5 DEF vars
  <2> QED BY <2>1, <2>2, <2>3, <2>4, <2>6, <2>7, <2>8 DEF Next, Consume
<1>3. RateInv => RateKept
  <2> SUFFICES ASSUME RateInv PROVE RateKept
    OBVIOUS
  <2>1. Credit \in Nat
    BY DEF RateInv, TypeOK, Credit, Lesser, Burst
  <2> QED BY <2>1 DEF RateInv, RateKept, TypeOK
<1> QED BY <1>1, <1>2, <1>3, TypeCorrect, PTL DEF Spec
-----------------------------------------------------------------------------
(* The gate.  GateHolds is inductive beside the types. *)

\* A step that moves nobody into or out of a call or a queue leaves the gates
\* alone.
LEMMA Untouched ==
  ASSUME GateHolds, UNCHANGED gate,
         NEW r \in Requests,
         at[r] \notin {"calling", "waiting"}, at'[r] \notin {"calling", "waiting"},
         \A q \in Requests : q # r => at'[q] = at[q] /\ home'[q] = home[q]
  PROVE  GateHolds'
<1>1. \A i \in Instances : Calling(i)' = Calling(i)
  BY DEF Calling
<1>2. \A i \in Instances : QueuedAt(i)' = QueuedAt(i)
  BY DEF QueuedAt, gate
<1>3. \A i \in Instances : {q \in Requests : at[q] = "waiting" /\ home[q] = i}' = {q \in Requests : at[q] = "waiting" /\ home[q] = i}
  OBVIOUS
<1> QED BY <1>1, <1>2, <1>3 DEF GateHolds, gate

\* A request that is granted takes a free slot or the queue's last place.
LEMMA GrantKeepsGate ==
  ASSUME TypeOK, GateHolds, NEW r \in Requests, Grant(r)
  PROVE  GateHolds'
<1> DEFINE h == home[r]
<1>t. /\ h \in Instances /\ home' = home /\ at[r] = "consuming"
      /\ at \in [Requests -> Places] /\ slots \in [Instances -> Nat]
      /\ \A i \in Instances : waiters[i] \in Seq(Requests)
      /\ waiters \in [Instances -> Seq(Requests)]
  BY DEF TypeOK, Grant, request
<1>f. \A i \in Instances : IsFiniteSet(Calling(i)) /\ Cardinality(Calling(i)) \in Nat
  <2>1. \A i \in Instances : Calling(i) \subseteq Requests
    BY DEF Calling
  <2> QED BY <2>1, RequestsAssumption, FS_Subset, FS_CardinalityType
<1>1. CASE slots[h] > 0
  <2>1. /\ slots' = [slots EXCEPT ![h] = @ - 1] /\ waiters' = waiters
        /\ at' = [at EXCEPT ![r] = "calling"]
    BY <1>1 DEF Grant
  <2>2. Calling(h)' = Calling(h) \cup {r} /\ r \notin Calling(h)
    BY <2>1, <1>t DEF Calling
  <2>3. Cardinality(Calling(h)') = Cardinality(Calling(h)) + 1
    BY <2>2, <1>f, <1>t, FS_AddElement
  <2>4. \A i \in Instances : i # h => Calling(i)' = Calling(i)
    BY <2>1, <1>t DEF Calling
  <2>5. \A i \in Instances : slots'[i] + Cardinality(Calling(i)') = MaxConcurrent
    <3> SUFFICES ASSUME NEW i \in Instances PROVE slots'[i] + Cardinality(Calling(i)') = MaxConcurrent
      OBVIOUS
    <3>1. slots[i] + Cardinality(Calling(i)) = MaxConcurrent
      BY DEF GateHolds
    <3>2. CASE i = h
      BY <3>1, <3>2, <2>1, <2>3, <1>t, <1>f
    <3>3. CASE i # h
      BY <3>1, <3>3, <2>1, <2>4, <1>t
    <3> QED BY <3>2, <3>3
  <2>6. \A i \in Instances : waiters'[i] # <<>> => slots'[i] = 0
    BY <2>1, <1>1, <1>t DEF GateHolds
  <2>7. \A i \in Instances : QueuedAt(i)' = QueuedAt(i)
    BY <2>1 DEF QueuedAt
  <2>8. \A i \in Instances : {q \in Requests : at[q] = "waiting" /\ home[q] = i}' = {q \in Requests : at[q] = "waiting" /\ home[q] = i}
    BY <2>1, <1>t
  <2> HIDE DEF h
  <2> QED BY <2>1, <2>5, <2>6, <2>7, <2>8 DEF GateHolds
<1>2. CASE ~(slots[h] > 0)
  <2>1. /\ waiters' = [waiters EXCEPT ![h] = Append(@, r)] /\ slots' = slots
        /\ at' = [at EXCEPT ![r] = "waiting"]
    BY <1>2 DEF Grant
  <2>2. \A i \in Instances : Calling(i)' = Calling(i)
    BY <2>1, <1>t DEF Calling
  <2>3. /\ Len(waiters'[h]) = Len(waiters[h]) + 1 /\ waiters'[h][Len(waiters[h]) + 1] = r
        /\ \A k \in 1..Len(waiters[h]) : waiters'[h][k] = waiters[h][k]
        /\ Len(waiters[h]) \in Nat
    BY <2>1, <1>t, AppendProperties, LenProperties
  <2>4. \A k \in 1..Len(waiters[h]) : waiters[h][k] # r
    <3>1. r \notin QueuedAt(h)
      BY <1>t DEF GateHolds
    <3> QED BY <3>1 DEF QueuedAt
  <2>5. QueuedAt(h)' = QueuedAt(h) \cup {r}
    <3>1. \A k \in 1..Len(waiters'[h]) : k \in 1..Len(waiters[h]) \/ k = Len(waiters[h]) + 1
      BY <2>3
    <3>2. \A k \in 1..Len(waiters[h]) : k \in 1..Len(waiters'[h])
      BY <2>3
    <3>3. Len(waiters[h]) + 1 \in 1..Len(waiters'[h])
      BY <2>3
    <3>4. /\ QueuedAt(h)' = {waiters'[h'][k] : k \in 1..Len(waiters'[h'])}
          /\ QueuedAt(h) = {waiters[h][k] : k \in 1..Len(waiters[h])}
          /\ h' = h
      BY <1>t DEF QueuedAt
    <3>5. QueuedAt(h)' \subseteq QueuedAt(h) \cup {r}
      <4> SUFFICES ASSUME NEW x \in QueuedAt(h)' PROVE x \in QueuedAt(h) \cup {r}
        OBVIOUS
      <4>1. PICK k \in 1..Len(waiters'[h]) : x = waiters'[h][k]
        BY <3>4
      <4>2. k \in 1..Len(waiters[h]) => x = waiters[h][k]
        BY <4>1, <2>3
      <4>3. k = Len(waiters[h]) + 1 => x = r
        BY <4>1, <2>3
      <4> HIDE DEF h
      <4> QED BY <4>1, <4>2, <4>3, <3>1, <3>4
    <3>6. QueuedAt(h) \subseteq QueuedAt(h)'
      BY <3>2, <3>4, <2>3
    <3>7. r \in QueuedAt(h)'
      BY <3>3, <3>4, <2>3
    <3> QED BY <3>5, <3>6, <3>7
  <2>6. \A i \in Instances : QueuedAt(i)' = {q \in Requests : at'[q] = "waiting" /\ home'[q] = i}
    <3> SUFFICES ASSUME NEW i \in Instances PROVE QueuedAt(i)' = {q \in Requests : at'[q] = "waiting" /\ home'[q] = i}
      OBVIOUS
    <3>1. QueuedAt(i) = {q \in Requests : at[q] = "waiting" /\ home[q] = i}
      BY DEF GateHolds
    <3>2. CASE i = h
      BY <3>1, <3>2, <2>1, <2>5, <1>t
    <3>3. CASE i # h
      <4>1. QueuedAt(i)' = QueuedAt(i)
        BY <3>3, <2>1, <1>t DEF QueuedAt
      <4> QED BY <4>1, <3>1, <3>3, <2>1, <1>t
    <3> QED BY <3>2, <3>3
  <2>7. ASSUME NEW i \in Instances, NEW j \in 1..Len(waiters'[i]), NEW k \in 1..Len(waiters'[i]), waiters'[i][j] = waiters'[i][k]
        PROVE  j = k
    <3>1. CASE i = h
      <4>1. \A m, n \in 1..Len(waiters[h]) : waiters[h][m] = waiters[h][n] => m = n
        BY <1>t DEF GateHolds
      <4>2. (j \in 1..Len(waiters[h]) \/ j = Len(waiters[h]) + 1) /\ (k \in 1..Len(waiters[h]) \/ k = Len(waiters[h]) + 1)
        BY <3>1, <2>3, <2>7
      <4> QED BY <4>1, <4>2, <3>1, <2>3, <2>4, <2>7
    <3>2. CASE i # h
      <4>1. waiters'[i] = waiters[i]
        BY <3>2, <2>1, <1>t
      <4> QED BY <4>1, <2>7 DEF GateHolds
    <3> QED BY <3>1, <3>2
  <2>8. \A i \in Instances : waiters'[i] # <<>> => slots'[i] = 0
    BY <2>1, <1>2, <1>t DEF GateHolds
  <2>9. \A i \in Instances : slots'[i] + Cardinality(Calling(i)') = MaxConcurrent
    BY <2>1, <2>2 DEF GateHolds
  <2> HIDE DEF h
  <2> QED BY <2>6, <2>7, <2>8, <2>9 DEF GateHolds
<1> QED BY <1>1, <1>2

\* A call that ends hands its slot to the first waiter, or frees it.
LEMMA LeaveKeepsGate ==
  ASSUME TypeOK, GateHolds, NEW r \in Requests, at[r] = "calling",
         NEW place \in {"done", "failed", "refunding"}, Leave(r, place), UNCHANGED home
  PROVE  GateHolds'
<1> DEFINE h == home[r]
<1>t. /\ h \in Instances
      /\ at \in [Requests -> Places] /\ slots \in [Instances -> Nat]
      /\ \A i \in Instances : waiters[i] \in Seq(Requests)
      /\ waiters \in [Instances -> Seq(Requests)]
  BY DEF TypeOK
<1>f. \A i \in Instances : IsFiniteSet(Calling(i)) /\ Cardinality(Calling(i)) \in Nat
  <2>1. \A i \in Instances : Calling(i) \subseteq Requests
    BY DEF Calling
  <2> QED BY <2>1, RequestsAssumption, FS_Subset, FS_CardinalityType
<1>r. r \in Calling(h)
  BY DEF Calling
<1>d. IsFiniteSet(Calling(h) \ {r}) /\ Cardinality(Calling(h) \ {r}) = Cardinality(Calling(h)) - 1
  BY <1>r, <1>f, <1>t, FS_RemoveElement
<1>1. CASE waiters[h] = <<>>
  <2>1. slots' = [slots EXCEPT ![h] = @ + 1] /\ at' = [at EXCEPT ![r] = place] /\ waiters' = waiters
    BY <1>1 DEF Leave
  <2>2. Calling(h)' = Calling(h) \ {r}
    BY <2>1, <1>t DEF Calling
  <2>3. \A i \in Instances : i # h => Calling(i)' = Calling(i)
    BY <2>1, <1>t DEF Calling
  <2>4. \A i \in Instances : slots'[i] + Cardinality(Calling(i)') = MaxConcurrent
    <3> SUFFICES ASSUME NEW i \in Instances PROVE slots'[i] + Cardinality(Calling(i)') = MaxConcurrent
      OBVIOUS
    <3>1. slots[i] + Cardinality(Calling(i)) = MaxConcurrent
      BY DEF GateHolds
    <3>2. CASE i = h
      BY <3>1, <3>2, <2>1, <2>2, <1>d, <1>t, <1>f
    <3>3. CASE i # h
      BY <3>1, <3>3, <2>1, <2>3, <1>t
    <3> QED BY <3>2, <3>3
  <2>5. \A i \in Instances : waiters'[i] # <<>> => slots'[i] = 0
    BY <2>1, <1>1, <1>t DEF GateHolds
  <2>6. \A i \in Instances : QueuedAt(i)' = QueuedAt(i)
    BY <2>1 DEF QueuedAt
  <2>7. \A i \in Instances : {q \in Requests : at[q] = "waiting" /\ home[q] = i}' = {q \in Requests : at[q] = "waiting" /\ home[q] = i}
    BY <2>1, <1>t
  <2> HIDE DEF h
  <2> QED BY <2>1, <2>4, <2>5, <2>6, <2>7 DEF GateHolds
<1>2. CASE waiters[h] # <<>>
  <2> DEFINE w == Head(waiters[h])
  <2>1. /\ at' = [at EXCEPT ![r] = place, ![w] = "calling"] /\ slots' = slots
        /\ waiters' = [waiters EXCEPT ![h] = Tail(@)]
    BY <1>2 DEF Leave
  <2>2. /\ Len(waiters[h]) \in Nat \ {0} /\ Len(waiters'[h]) = Len(waiters[h]) - 1
        /\ \A k \in 1..Len(waiters[h]) - 1 : waiters'[h][k] = waiters[h][k + 1]
        /\ w = waiters[h][1] /\ w \in Requests
    BY <1>2, <1>t, <2>1, HeadTailProperties, LenProperties, EmptySeq
  <2>3. w \in QueuedAt(h)
    BY <2>2 DEF QueuedAt
  <2>4. at[w] = "waiting" /\ home[w] = h /\ w # r
    BY <2>3, <1>t DEF GateHolds
  <2>5. Calling(h)' = (Calling(h) \ {r}) \cup {w} /\ w \notin Calling(h) \ {r}
    <3>1. Calling(h)' = {q \in Requests : at'[q] = "calling" /\ home[q] = h}
      BY DEF Calling
    <3>2. \A q \in Requests : at'[q] = "calling" <=> q = w \/ (q # r /\ at[q] = "calling")
      BY <2>1, <2>2, <2>4, <1>t
    <3> QED BY <3>1, <3>2, <2>2, <2>4 DEF Calling
  <2>6. Cardinality(Calling(h)') = Cardinality(Calling(h))
    <3>1. Cardinality((Calling(h) \ {r}) \cup {w}) = Cardinality(Calling(h) \ {r}) + 1
      BY <2>5, <1>d, FS_AddElement
    <3> QED BY <3>1, <2>5, <1>d, <1>f, <1>t
  <2>7. \A i \in Instances : i # h => Calling(i)' = Calling(i)
    BY <2>1, <2>2, <2>4, <1>t DEF Calling
  <2>8. QueuedAt(h)' = QueuedAt(h) \ {w}
    <3>1. QueuedAt(h)' = {waiters'[h][k] : k \in 1..Len(waiters'[h])}
      BY DEF QueuedAt
    <3>2. \A k \in 1..Len(waiters'[h]) : waiters'[h][k] \in QueuedAt(h) /\ waiters'[h][k] # w
      <4> SUFFICES ASSUME NEW k \in 1..Len(waiters'[h])
                   PROVE  waiters'[h][k] \in QueuedAt(h) /\ waiters'[h][k] # w
        OBVIOUS
      <4>1. k + 1 \in 1..Len(waiters[h]) /\ 1 \in 1..Len(waiters[h]) /\ k + 1 # 1 /\ waiters'[h][k] = waiters[h][k + 1]
        BY <2>2
      <4>2. \A m, n \in 1..Len(waiters[h]) : waiters[h][m] = waiters[h][n] => m = n
        BY <1>t DEF GateHolds
      <4> QED BY <4>1, <4>2, <2>2 DEF QueuedAt
    <3>3. \A k \in 1..Len(waiters[h]) : waiters[h][k] # w => waiters[h][k] \in QueuedAt(h)'
      <4> SUFFICES ASSUME NEW k \in 1..Len(waiters[h]), waiters[h][k] # w
                   PROVE  waiters[h][k] \in QueuedAt(h)'
        OBVIOUS
      <4>1. k # 1
        BY <2>2
      <4>2. k - 1 \in 1..Len(waiters'[h]) /\ (k - 1) + 1 = k
        BY <4>1, <2>2
      <4>3. waiters'[h][k - 1] = waiters[h][k]
        BY <4>2, <2>2
      <4> QED BY <4>2, <4>3, <3>1
    <3> QED BY <3>1, <3>2, <3>3, SMTT(30) DEF QueuedAt
  <2>9. \A i \in Instances : QueuedAt(i)' = {q \in Requests : at'[q] = "waiting" /\ home'[q] = i}
    <3> SUFFICES ASSUME NEW i \in Instances PROVE QueuedAt(i)' = {q \in Requests : at'[q] = "waiting" /\ home'[q] = i}
      OBVIOUS
    <3>1. QueuedAt(i) = {q \in Requests : at[q] = "waiting" /\ home[q] = i}
      BY DEF GateHolds
    <3>2. \A q \in Requests : at'[q] = "waiting" <=> at[q] = "waiting" /\ q # w
      BY <2>1, <2>2, <2>4, <1>t
    <3>3. CASE i = h
      BY <3>1, <3>2, <3>3, <2>8
    <3>4. CASE i # h
      <4>1. QueuedAt(i)' = QueuedAt(i)
        BY <3>4, <2>1, <1>t DEF QueuedAt
      <4> QED BY <4>1, <3>1, <3>2, <3>4, <2>4
    <3> QED BY <3>3, <3>4
  <2>10. ASSUME NEW i \in Instances, NEW j \in 1..Len(waiters'[i]), NEW k \in 1..Len(waiters'[i]), waiters'[i][j] = waiters'[i][k]
         PROVE  j = k
    <3>1. CASE i = h
      <4>1. \A m, n \in 1..Len(waiters[h]) : waiters[h][m] = waiters[h][n] => m = n
        BY <1>t DEF GateHolds
      <4>2. j \in 1..Len(waiters'[h]) /\ k \in 1..Len(waiters'[h]) /\ waiters'[h][j] = waiters'[h][k]
        BY <3>1, <2>10
      <4>3. ASSUME NEW n \in 1..Len(waiters'[h])
            PROVE  n + 1 \in 1..Len(waiters[h]) /\ waiters'[h][n] = waiters[h][n + 1]
        BY <2>2
      <4>4. /\ j + 1 \in 1..Len(waiters[h])
            /\ k + 1 \in 1..Len(waiters[h])
            /\ waiters[h][j + 1] = waiters[h][k + 1]
        BY <4>2, <4>3
      <4>5. j + 1 = k + 1
        BY <4>1, <4>4
      <4> QED BY <4>5, <2>10
    <3>2. CASE i # h
      <4>1. waiters'[i] = waiters[i]
        BY <3>2, <2>1, <1>t
      <4> QED BY <4>1, <2>10 DEF GateHolds
    <3> QED BY <3>1, <3>2
  <2>11. \A i \in Instances : waiters'[i] # <<>> => slots'[i] = 0
    BY <2>1, <1>2, <1>t DEF GateHolds
  <2>12. \A i \in Instances : slots'[i] + Cardinality(Calling(i)') = MaxConcurrent
    BY <2>1, <2>6, <2>7 DEF GateHolds
  <2> HIDE DEF h, w
  <2> QED BY <2>9, <2>10, <2>11, <2>12 DEF GateHolds
<1> QED BY <1>1, <1>2

\* In every process, whatever fails or is retried, no slot is lost or added and
\* no waiter is forgotten.
THEOREM GateAlwaysHolds == Spec => []GateHolds
<1>1. Init => GateHolds
  <2> SUFFICES ASSUME Init PROVE GateHolds
    OBVIOUS
  <2>1. \A i \in Instances : Calling(i) = {} /\ waiters[i] = <<>> /\ slots[i] = MaxConcurrent
    BY DEF Init, Calling
  <2>2. Cardinality({}) = 0
    BY FS_EmptySet
  <2>3. \A i \in Instances : 1..Len(waiters[i]) = {} /\ QueuedAt(i) = {}
    BY <2>1 DEF QueuedAt
  <2>4. \A r \in Requests : at[r] # "waiting"
    BY DEF Init
  <2>5. MaxConcurrent + 0 = MaxConcurrent
    BY LimitAssumption
  <2> QED BY <2>1, <2>2, <2>3, <2>4, <2>5 DEF GateHolds
<1>2. GateHolds /\ TypeOK /\ [Next]_vars => GateHolds'
  <2> SUFFICES ASSUME GateHolds, TypeOK, [Next]_vars PROVE GateHolds'
    OBVIOUS
  <2>t. at \in [Requests -> Places] /\ home \in [Requests -> Instances]
    BY DEF TypeOK
  <2> USE DEF bucket, request
  <2>1. CASE UNCHANGED <<at, home, gate>>
    <3>1. \A i \in Instances : Calling(i)' = Calling(i)
      BY <2>1 DEF Calling
    <3>2. \A i \in Instances : QueuedAt(i)' = QueuedAt(i)
      BY <2>1 DEF QueuedAt, gate
    <3>3. \A i \in Instances : {q \in Requests : at[q] = "waiting" /\ home[q] = i}' = {q \in Requests : at[q] = "waiting" /\ home[q] = i}
      BY <2>1
    <3> QED BY <2>1, <3>1, <3>2, <3>3 DEF GateHolds, gate
  <2>2. ASSUME NEW r \in Requests, NEW i \in Instances, NEW n \in Sizes, Start(r, i, n) PROVE GateHolds'
    BY <2>2, <2>t, Untouched DEF Start, Resting
  <2>3. ASSUME NEW r \in Requests, Grant(r) PROVE GateHolds'
    BY <2>3, GrantKeepsGate
  <2>4. ASSUME NEW r \in Requests, Deny(r) \/ Wake(r) \/ ConsumeFails(r) \/ Retry(r) PROVE GateHolds'
    BY <2>4, <2>t, Untouched DEF Deny, Wake, ConsumeFails, Retry
  <2>5. ASSUME NEW r \in Requests, NEW pause \in RetryAfter, Refund(r, pause) \/ RefundFails(r, pause) PROVE GateHolds'
    BY <2>5, <2>t, Untouched DEF Refund, RefundFails
  <2>6. ASSUME NEW r \in Requests, CallEnds(r) PROVE GateHolds'
    BY <2>6, LeaveKeepsGate DEF CallEnds, Answer, Throw, TooMany
  <2>7. CASE Tick
    BY <2>7, <2>1 DEF Tick
  <2>8. CASE UNCHANGED vars
    BY <2>8, <2>1 DEF vars
  <2> QED BY <2>2, <2>3, <2>4, <2>5, <2>6, <2>7, <2>8 DEF Next, Consume
<1> QED BY <1>1, <1>2, TypeCorrect, PTL DEF Spec

-----------------------------------------------------------------------------
(* Request repair.  What is learned of the effort is true of the deployment *)
(* (LearnedTruly), what was sent differs from what was asked for only as    *)
(* the verdicts say (SentFor), and a request that is not sent again as it   *)
(* was has fewer repairs before it (Ahead).                                 *)

\* The orders in which parameters are learned: the new name of the cap is met
\* only by a request whose cap was renamed.
Orders == {<<>>, <<"effort">>, <<"cap">>, <<"effort", "cap">>, <<"cap", "effort">>, <<"cap", "newCap">>,
           <<"effort", "cap", "newCap">>, <<"cap", "effort", "newCap">>, <<"cap", "newCap", "effort">>}

Refused(d) == d.scope = "parameter"

LearnedInOrder(v, order) ==
  /\ order \in Orders /\ v \in [Params -> Verdicts]
  /\ \A p \in Params : v[p].scope # "nothing" <=> \E i \in 1..Len(order) : order[i] = p
  /\ \A p \in {"cap", "newCap"} : v[p].scope \in {"nothing", "parameter"}

LearnedTruly(v) ==
  /\ v["effort"].scope = "parameter" => "effort" \in deployment.unknown
  /\ v["effort"].scope = "values" => v["effort"].values # {} /\ v["effort"].values \subseteq deployment.efforts
  /\ v["effort"].scope = "clash" => deployment.clash
  /\ \A p \in {"cap", "newCap"} : Refused(v[p]) => p \in deployment.unknown

\* The effort e of a request with tools or none, once the verdict is applied.
EffortOf(d, e, tools) ==
  IF /\ e # Absent
     /\ \/ d.scope = "parameter"
        \/ d.scope = "values" /\ e \in d.values
        \/ d.scope = "clash" /\ tools # Absent
  THEN IF d.scope = "values" /\ Sibling(e) \notin d.values THEN Sibling(e) ELSE Absent
  ELSE e

\* What every verdict together makes of a request.
BecomesOf(v, b, y) ==
  /\ y \in Bodies
  /\ y["tools"] = b["tools"]
  /\ y["effort"] = EffortOf(v["effort"], b["effort"], b["tools"])
  /\ y["cap"] = IF Refused(v["cap"]) THEN Absent ELSE b["cap"]
  /\ y["newCap"] = IF Refused(v["newCap"]) THEN Absent
                   ELSE IF Refused(v["cap"]) /\ b["cap"] # Absent THEN b["cap"] ELSE b["newCap"]

LEMMA SiblingTyped ==
  /\ \A e \in Efforts : Sibling(e) \in Efforts /\ Sibling(e) # e /\ Sibling(Sibling(e)) = e
  /\ Absent \notin Efforts \cup {"set"}
  /\ Efforts = {"none", "minimal"} /\ "set" \notin Efforts
  /\ \A e \in Efforts \cup {"set"} : Sibling(e) \in Efforts
BY DEF Efforts, Sibling, Absent

LEMMA EffortRepaired ==
  ASSUME NEW d \in Verdicts, NEW b \in Bodies, NEW y, y = Repaired(d, "effort", b)
  PROVE  /\ y \in Bodies /\ y["tools"] = b["tools"] /\ y["cap"] = b["cap"] /\ y["newCap"] = b["newCap"]
         /\ y["effort"] = EffortOf(d, b["effort"], b["tools"])
<1>1. b \in [Params -> Efforts \cup {"set", Absent}] /\ "effort" \in Params /\ {"tools", "cap", "newCap"} \subseteq Params
  BY DEF Bodies, Params
<1>2. Covers(d, "effort", b) <=> /\ b["effort"] # Absent
                                 /\ \/ d.scope = "parameter"
                                    \/ d.scope = "values" /\ b["effort"] \in d.values
                                    \/ d.scope = "clash" /\ b["tools"] # Absent
  BY DEF Covers
<1>3. CASE ~Covers(d, "effort", b)
  <2>1. y = b /\ EffortOf(d, b["effort"], b["tools"]) = b["effort"]
    BY <1>2, <1>3 DEF Repaired, EffortOf
  <2> QED
    BY <2>1
<1>4. CASE Covers(d, "effort", b) /\ Substitutes(d, "effort", b)
  <2>1. d.scope = "values" /\ Sibling(b["effort"]) \notin d.values
    BY <1>4 DEF Substitutes
  <2>2. EffortOf(d, b["effort"], b["tools"]) = Sibling(b["effort"])
    BY <1>2, <1>4, <2>1 DEF EffortOf
  <2>3. Sibling(b["effort"]) \in Efforts
    BY SiblingTyped DEF Sibling
  <2>4. y = [b EXCEPT !["effort"] = Sibling(b["effort"])]
    BY <1>4 DEF Repaired
  <2> QED
    BY <1>1, <2>2, <2>3, <2>4 DEF Bodies
<1>5. CASE Covers(d, "effort", b) /\ ~Substitutes(d, "effort", b)
  <2>1. ~(d.scope = "values" /\ Sibling(b["effort"]) \notin d.values)
    BY <1>5 DEF Substitutes
  <2>2. EffortOf(d, b["effort"], b["tools"]) = Absent
    BY <1>2, <1>5, <2>1 DEF EffortOf
  <2>3. y = [b EXCEPT !["effort"] = Absent]
    BY <1>5 DEF Repaired
  <2> QED
    BY <1>1, <2>2, <2>3 DEF Bodies
<1> QED
  BY <1>3, <1>4, <1>5

LEMMA CapRepaired ==
  ASSUME NEW d \in Verdicts, Refused(d), NEW b \in Bodies, NEW y, y = Repaired(d, "cap", b)
  PROVE  /\ y \in Bodies /\ y["tools"] = b["tools"] /\ y["effort"] = b["effort"] /\ y["cap"] = Absent
         /\ y["newCap"] = IF b["cap"] # Absent THEN b["cap"] ELSE b["newCap"]
<1>1. b \in [Params -> Efforts \cup {"set", Absent}] /\ {"effort", "tools", "cap", "newCap"} \subseteq Params
  BY DEF Bodies, Params
<1>2. Covers(d, "cap", b) <=> b["cap"] # Absent
  BY DEF Covers, Refused
<1>3. CASE b["cap"] = Absent
  <2>1. y = b
    BY <1>2, <1>3 DEF Repaired
  <2> QED
    BY <1>3, <2>1
<1>4. CASE b["cap"] # Absent
  <2>1. ~Substitutes(d, "cap", b)
    BY DEF Substitutes
  <2>2. y = [b EXCEPT !["cap"] = Absent, !["newCap"] = b["cap"]]
    BY <1>2, <1>4, <2>1 DEF Repaired
  <2> QED
    BY <1>1, <1>4, <2>2 DEF Bodies
<1> QED
  BY <1>3, <1>4

LEMMA NewCapRepaired ==
  ASSUME NEW d \in Verdicts, Refused(d), NEW b \in Bodies, NEW y, y = Repaired(d, "newCap", b)
  PROVE  /\ y \in Bodies /\ y["tools"] = b["tools"] /\ y["effort"] = b["effort"] /\ y["cap"] = b["cap"]
         /\ y["newCap"] = Absent
<1>1. b \in [Params -> Efforts \cup {"set", Absent}] /\ {"effort", "tools", "cap", "newCap"} \subseteq Params
  BY DEF Bodies, Params
<1>2. Covers(d, "newCap", b) <=> b["newCap"] # Absent
  BY DEF Covers, Refused
<1>3. CASE b["newCap"] = Absent
  <2>1. y = b
    BY <1>2, <1>3 DEF Repaired
  <2> QED
    BY <1>3, <2>1
<1>4. CASE b["newCap"] # Absent
  <2>1. ~Substitutes(d, "newCap", b)
    BY DEF Substitutes
  <2>2. y = [b EXCEPT !["newCap"] = Absent]
    BY <1>2, <1>4, <2>1 DEF Repaired
  <2> QED
    BY <1>1, <2>2 DEF Bodies
<1> QED
  BY <1>3, <1>4

\* A verdict on a parameter, a step of the fold.
Step(v, p, b) == IF v[p].scope = "nothing" THEN b ELSE Repaired(v[p], p, b)

LEMMA StepsApply ==
  ASSUME NEW v, NEW order, LearnedInOrder(v, order), NEW b
  PROVE  \/ Applied(v, order, b) = Step(v, "newCap", Step(v, "cap", Step(v, "effort", b)))
         \/ Applied(v, order, b) = Step(v, "newCap", Step(v, "effort", Step(v, "cap", b)))
         \/ Applied(v, order, b) = Step(v, "effort", Step(v, "newCap", Step(v, "cap", b)))
<1> DEFINE With(n, x) == IF n > Len(order) THEN x ELSE Repaired(v[order[n]], order[n], x)
<1>1. Applied(v, order, b) = With(3, With(2, With(1, b)))
  BY DEF Applied
<1>2. \A p \in {"effort", "cap", "newCap"} : v[p].scope # "nothing" <=> \E i \in 1..Len(order) : order[i] = p
  BY DEF LearnedInOrder, Params
<1>3. CASE order = <<>>
  <2>1. Len(order) = 0 /\ \A i : i \notin 1..0
    BY <1>3
  <2>2. \A x : With(1, x) = x /\ With(2, x) = x /\ With(3, x) = x
    BY <2>1
  <2>3. v["effort"].scope = "nothing" /\ v["cap"].scope = "nothing" /\ v["newCap"].scope = "nothing"
    BY <1>2, <2>1
  <2> QED
    BY <1>1, <2>2, <2>3 DEF Step
<1>4. CASE \E p \in {"effort", "cap"} : order = <<p>>
  <2>1. PICK p \in {"effort", "cap"} : order = <<p>>
    BY <1>4
  <2>2. Len(order) = 1 /\ order[1] = p /\ \A i : i \in 1..1 <=> i = 1
    BY <2>1
  <2>3. \A x : With(1, x) = Repaired(v[p], p, x) /\ With(2, x) = x /\ With(3, x) = x
    BY <2>2
  <2>4. \A q \in {"effort", "cap", "newCap"} : v[q].scope # "nothing" <=> q = p
    BY <1>2, <2>2
  <2> HIDE DEF With
  <2> QED
    BY <1>1, <2>3, <2>4 DEF Step
<1>5. CASE \E p, q \in {"effort", "cap", "newCap"} : order = <<p, q>>
  <2>1. PICK p, q \in {"effort", "cap", "newCap"} : order = <<p, q>>
    BY <1>5
  <2>2. <<p, q>> \in {<<"effort", "cap">>, <<"cap", "effort">>, <<"cap", "newCap">>}
    <3>1. Len(order) = 2
      BY <2>1
    <3>2. order \in Orders
      BY DEF LearnedInOrder
    <3> QED
      BY <2>1, <3>1, <3>2 DEF Orders
  <2>3. Len(order) = 2 /\ order[1] = p /\ order[2] = q /\ \A i : i \in 1..2 <=> i = 1 \/ i = 2
    BY <2>1
  <2>4. \A x : With(1, x) = Repaired(v[p], p, x) /\ With(2, x) = Repaired(v[q], q, x) /\ With(3, x) = x
    BY <2>3
  <2>5. \A r \in {"effort", "cap", "newCap"} : v[r].scope # "nothing" <=> r = p \/ r = q
    BY <1>2, <2>3
  <2>6. \/ p = "effort" /\ q = "cap"
        \/ p = "cap" /\ q = "effort"
        \/ p = "cap" /\ q = "newCap"
    BY <2>2
  <2> HIDE DEF With
  <2> QED
    BY <1>1, <2>4, <2>5, <2>6 DEF Step
<1>6. CASE \E p, q, r \in {"effort", "cap", "newCap"} : order = <<p, q, r>>
  <2>1. PICK p, q, r \in {"effort", "cap", "newCap"} : order = <<p, q, r>>
    BY <1>6
  <2>2. <<p, q, r>> \in {<<"effort", "cap", "newCap">>, <<"cap", "effort", "newCap">>, <<"cap", "newCap", "effort">>}
    <3>1. Len(order) = 3
      BY <2>1
    <3>2. order \in Orders
      BY DEF LearnedInOrder
    <3> QED
      BY <2>1, <3>1, <3>2 DEF Orders
  <2>3. Len(order) = 3 /\ order[1] = p /\ order[2] = q /\ order[3] = r /\ \A i : i \in 1..3 <=> i = 1 \/ i = 2 \/ i = 3
    BY <2>1
  <2>4. \A x : /\ With(1, x) = Repaired(v[p], p, x) /\ With(2, x) = Repaired(v[q], q, x)
               /\ With(3, x) = Repaired(v[r], r, x)
    BY <2>3
  <2>5. \A s \in {"effort", "cap", "newCap"} : v[s].scope # "nothing" <=> s = p \/ s = q \/ s = r
    BY <1>2, <2>3
  <2>6. \/ p = "effort" /\ q = "cap" /\ r = "newCap"
        \/ p = "cap" /\ q = "effort" /\ r = "newCap"
        \/ p = "cap" /\ q = "newCap" /\ r = "effort"
    BY <2>2
  <2> HIDE DEF With
  <2> QED
    BY <1>1, <2>4, <2>5, <2>6 DEF Step
<1> QED
  BY <1>3, <1>4, <1>5, <1>6 DEF LearnedInOrder, Orders

LEMMA EffortStep ==
  ASSUME NEW v, NEW order, LearnedInOrder(v, order), NEW b \in Bodies, NEW y, y = Step(v, "effort", b)
  PROVE  /\ y \in Bodies /\ y["tools"] = b["tools"] /\ y["cap"] = b["cap"] /\ y["newCap"] = b["newCap"]
         /\ y["effort"] = EffortOf(v["effort"], b["effort"], b["tools"])
<1>1. CASE v["effort"].scope = "nothing"
  <2>1. y = b /\ EffortOf(v["effort"], b["effort"], b["tools"]) = b["effort"]
    BY <1>1 DEF Step, EffortOf
  <2> QED
    BY <2>1
<1>2. CASE v["effort"].scope # "nothing"
  <2>1. y = Repaired(v["effort"], "effort", b) /\ v["effort"] \in Verdicts
    BY <1>2 DEF Step, LearnedInOrder, Params
  <2> QED
    BY <2>1, EffortRepaired
<1> QED
  BY <1>1, <1>2

LEMMA CapStep ==
  ASSUME NEW v, NEW order, LearnedInOrder(v, order), NEW b \in Bodies, NEW y, y = Step(v, "cap", b)
  PROVE  /\ y \in Bodies /\ y["tools"] = b["tools"] /\ y["effort"] = b["effort"]
         /\ y["cap"] = IF Refused(v["cap"]) THEN Absent ELSE b["cap"]
         /\ y["newCap"] = IF Refused(v["cap"]) /\ b["cap"] # Absent THEN b["cap"] ELSE b["newCap"]
<1>1. v["cap"] \in Verdicts /\ (v["cap"].scope = "nothing" \/ Refused(v["cap"]))
  BY DEF LearnedInOrder, Params, Refused
<1>2. CASE v["cap"].scope = "nothing"
  <2>1. y = b /\ ~Refused(v["cap"])
    BY <1>2 DEF Step, Refused
  <2> QED
    BY <2>1
<1>3. CASE Refused(v["cap"])
  <2>1. y = Repaired(v["cap"], "cap", b)
    BY <1>3 DEF Step, Refused
  <2> QED
    BY <1>1, <1>3, <2>1, CapRepaired
<1> QED
  BY <1>1, <1>2, <1>3

LEMMA NewCapStep ==
  ASSUME NEW v, NEW order, LearnedInOrder(v, order), NEW b \in Bodies, NEW y, y = Step(v, "newCap", b)
  PROVE  /\ y \in Bodies /\ y["tools"] = b["tools"] /\ y["effort"] = b["effort"] /\ y["cap"] = b["cap"]
         /\ y["newCap"] = IF Refused(v["newCap"]) THEN Absent ELSE b["newCap"]
<1>1. v["newCap"] \in Verdicts /\ (v["newCap"].scope = "nothing" \/ Refused(v["newCap"]))
  BY DEF LearnedInOrder, Params, Refused
<1>2. CASE v["newCap"].scope = "nothing"
  <2>1. y = b /\ ~Refused(v["newCap"])
    BY <1>2 DEF Step, Refused
  <2> QED
    BY <2>1
<1>3. CASE Refused(v["newCap"])
  <2>1. y = Repaired(v["newCap"], "newCap", b)
    BY <1>3 DEF Step, Refused
  <2> QED
    BY <1>1, <1>3, <2>1, NewCapRepaired
<1> QED
  BY <1>1, <1>2, <1>3

\* The order in which the verdicts were learned makes no difference.
LEMMA AppliedIs ==
  ASSUME NEW v, NEW order, LearnedInOrder(v, order), NEW b \in Bodies, NEW y, y = Applied(v, order, b)
  PROVE  BecomesOf(v, b, y)
<1>1. CASE y = Step(v, "newCap", Step(v, "cap", Step(v, "effort", b)))
  <2> DEFINE b1 == Step(v, "effort", b)
             b2 == Step(v, "cap", b1)
  <2>1. b1 \in Bodies
    BY EffortStep
  <2>2. b2 \in Bodies
    BY <2>1, CapStep
  <2>3. y = Step(v, "newCap", b2)
    BY <1>1
  <2>4. PICK c1 : c1 = b1
    OBVIOUS
  <2>5. PICK c2 : c2 = b2
    OBVIOUS
  <2>6. c1 \in Bodies /\ c2 \in Bodies /\ c1 = Step(v, "effort", b) /\ c2 = Step(v, "cap", c1) /\ y = Step(v, "newCap", c2)
    BY <2>1, <2>2, <2>3, <2>4, <2>5
  <2>7. /\ c1 \in Bodies /\ c1["tools"] = b["tools"]
        /\ c1["cap"] = b["cap"]
        /\ c1["newCap"] = b["newCap"]
        /\ c1["effort"] = EffortOf(v["effort"], b["effort"], b["tools"])
    BY <2>6, EffortStep
  <2>8. /\ c2 \in Bodies /\ c2["tools"] = c1["tools"]
        /\ c2["effort"] = c1["effort"]
        /\ c2["cap"] = IF Refused(v["cap"]) THEN Absent ELSE c1["cap"]
        /\ c2["newCap"] = IF Refused(v["cap"]) /\ c1["cap"] # Absent THEN c1["cap"] ELSE c1["newCap"]
    BY <2>6, CapStep
  <2>9. /\ y \in Bodies /\ y["tools"] = c2["tools"]
        /\ y["effort"] = c2["effort"]
        /\ y["cap"] = c2["cap"]
        /\ y["newCap"] = IF Refused(v["newCap"]) THEN Absent ELSE c2["newCap"]
    BY <2>6, NewCapStep
  <2> QED
    BY <2>7, <2>8, <2>9 DEF BecomesOf
<1>2. CASE y = Step(v, "newCap", Step(v, "effort", Step(v, "cap", b)))
  <2> DEFINE b1 == Step(v, "cap", b)
             b2 == Step(v, "effort", b1)
  <2>1. b1 \in Bodies
    BY CapStep
  <2>2. b2 \in Bodies
    BY <2>1, EffortStep
  <2>3. y = Step(v, "newCap", b2)
    BY <1>2
  <2>4. PICK c1 : c1 = b1
    OBVIOUS
  <2>5. PICK c2 : c2 = b2
    OBVIOUS
  <2>6. c1 \in Bodies /\ c2 \in Bodies /\ c1 = Step(v, "cap", b) /\ c2 = Step(v, "effort", c1) /\ y = Step(v, "newCap", c2)
    BY <2>1, <2>2, <2>3, <2>4, <2>5
  <2>7. /\ c1 \in Bodies /\ c1["tools"] = b["tools"]
        /\ c1["effort"] = b["effort"]
        /\ c1["cap"] = IF Refused(v["cap"]) THEN Absent ELSE b["cap"]
        /\ c1["newCap"] = IF Refused(v["cap"]) /\ b["cap"] # Absent THEN b["cap"] ELSE b["newCap"]
    BY <2>6, CapStep
  <2>8. /\ c2 \in Bodies /\ c2["tools"] = c1["tools"]
        /\ c2["cap"] = c1["cap"]
        /\ c2["newCap"] = c1["newCap"]
        /\ c2["effort"] = EffortOf(v["effort"], c1["effort"], c1["tools"])
    BY <2>6, EffortStep
  <2>9. /\ y \in Bodies /\ y["tools"] = c2["tools"]
        /\ y["effort"] = c2["effort"]
        /\ y["cap"] = c2["cap"]
        /\ y["newCap"] = IF Refused(v["newCap"]) THEN Absent ELSE c2["newCap"]
    BY <2>6, NewCapStep
  <2> QED
    BY <2>7, <2>8, <2>9 DEF BecomesOf
<1>3. CASE y = Step(v, "effort", Step(v, "newCap", Step(v, "cap", b)))
  <2> DEFINE b1 == Step(v, "cap", b)
             b2 == Step(v, "newCap", b1)
  <2>1. b1 \in Bodies
    BY CapStep
  <2>2. b2 \in Bodies
    BY <2>1, NewCapStep
  <2>3. y = Step(v, "effort", b2)
    BY <1>3
  <2>4. PICK c1 : c1 = b1
    OBVIOUS
  <2>5. PICK c2 : c2 = b2
    OBVIOUS
  <2>6. c1 \in Bodies /\ c2 \in Bodies /\ c1 = Step(v, "cap", b) /\ c2 = Step(v, "newCap", c1) /\ y = Step(v, "effort", c2)
    BY <2>1, <2>2, <2>3, <2>4, <2>5
  <2>7. /\ c1 \in Bodies /\ c1["tools"] = b["tools"]
        /\ c1["effort"] = b["effort"]
        /\ c1["cap"] = IF Refused(v["cap"]) THEN Absent ELSE b["cap"]
        /\ c1["newCap"] = IF Refused(v["cap"]) /\ b["cap"] # Absent THEN b["cap"] ELSE b["newCap"]
    BY <2>6, CapStep
  <2>8. /\ c2 \in Bodies /\ c2["tools"] = c1["tools"]
        /\ c2["effort"] = c1["effort"]
        /\ c2["cap"] = c1["cap"]
        /\ c2["newCap"] = IF Refused(v["newCap"]) THEN Absent ELSE c1["newCap"]
    BY <2>6, NewCapStep
  <2>9. /\ y \in Bodies /\ y["tools"] = c2["tools"]
        /\ y["cap"] = c2["cap"]
        /\ y["newCap"] = c2["newCap"]
        /\ y["effort"] = EffortOf(v["effort"], c2["effort"], c2["tools"])
    BY <2>6, EffortStep
  <2> QED
    BY <2>7, <2>8, <2>9 DEF BecomesOf
<1> QED
  BY <1>1, <1>2, <1>3, StepsApply

-----------------------------------------------------------------------------

\* A later set of verdicts: a value refused stays refused, and so does a name.
Grown(v, x) ==
  /\ v["effort"].scope = "values" => x["effort"].scope = "values" /\ v["effort"].values \subseteq x["effort"].values
  /\ \A p \in {"cap", "newCap"} : Refused(v[p]) => Refused(x[p])

\* What the verdicts leave of the effort e asked for, and of the cap.
EffortLeft(e, s, d) ==
  /\ e \in Efforts /\ s \in {e, Sibling(e), Absent}
  /\ s = Sibling(e) => d.scope = "values" /\ e \in d.values

CapLeft(s, t, v) ==
  \/ s = "set" /\ t = Absent
  \/ s = Absent /\ t = "set" /\ Refused(v["cap"])
  \/ s = Absent /\ t = Absent /\ Refused(v["cap"]) /\ Refused(v["newCap"])

SentFor(w, b, v) ==
  /\ w \in Asks /\ b \in Bodies /\ b["tools"] = w["tools"]
  /\ EffortLeft(w["effort"], b["effort"], v["effort"])
  /\ CapLeft(b["cap"], b["newCap"], v)

\* The repairs that may still change the request b, sent for one with effort e.
EffortAhead(e, s) == IF s = e THEN 2 ELSE IF s = Absent THEN 0 ELSE 1
CapAhead(s, t) == IF s = "set" THEN 2 ELSE IF t = "set" THEN 1 ELSE 0
Ahead(w, b) == EffortAhead(w["effort"], b["effort"]) + CapAhead(b["cap"], b["newCap"])

EffortFell(e, s, z, x, tools) ==
  /\ EffortLeft(e, z, x)
  /\ EffortAhead(e, z) <= EffortAhead(e, s)
  /\ z # s => EffortAhead(e, z) < EffortAhead(e, s)
  /\ z = Absent => \/ s = Absent \/ x.scope = "parameter"
                   \/ x.scope = "values" /\ Efforts \subseteq x.values
                   \/ x.scope = "clash" /\ tools # Absent

\* A verdict takes the effort as asked for, its sibling, nothing: in this order,
\* and nothing only when the deployment takes neither.
LEMMA EffortFalls ==
  ASSUME NEW e, NEW s, NEW tools, NEW d, NEW x, NEW z,
         EffortLeft(e, s, d), z = EffortOf(x, s, tools),
         d.scope = "values" => x.scope = "values" /\ d.values \subseteq x.values
  PROVE  EffortFell(e, s, z, x, tools)
<1>1. e \in Efforts /\ Sibling(e) \in Efforts /\ Sibling(e) # e /\ Sibling(Sibling(e)) = e /\ Absent \notin Efforts
  BY SiblingTyped DEF EffortLeft
<1>2. \A u \in Efforts : u = e \/ u = Sibling(e)
  BY <1>1, SiblingTyped DEF Sibling
<1>3. /\ EffortAhead(e, e) = 2 /\ EffortAhead(e, Sibling(e)) = 1 /\ EffortAhead(e, Absent) = 0
  BY <1>1 DEF EffortAhead
<1>4. CASE z = s
  <2>1. EffortLeft(e, z, x)
    BY <1>4 DEF EffortLeft
  <2>2. EffortAhead(e, s) \in 0..2
    BY <1>3 DEF EffortLeft
  <2> QED
    BY <1>4, <2>1, <2>2 DEF EffortFell
<1>5. CASE z # s
  <2>1. /\ s # Absent
        /\ \/ x.scope = "parameter"
           \/ x.scope = "values" /\ s \in x.values
           \/ x.scope = "clash" /\ tools # Absent
        /\ z = IF x.scope = "values" /\ Sibling(s) \notin x.values THEN Sibling(s) ELSE Absent
    BY <1>5 DEF EffortOf
  <2>2. s \in {e, Sibling(e)}
    BY <2>1 DEF EffortLeft
  <2>3. CASE x.scope = "values" /\ Sibling(s) \notin x.values
    <3>1. s = e
      BY <1>1, <2>2, <2>3 DEF EffortLeft
    <3>2. z = Sibling(e) /\ e \in x.values
      BY <2>1, <2>3, <3>1
    <3>3. EffortLeft(e, z, x)
      BY <1>1, <2>3, <3>2 DEF EffortLeft
    <3> QED
      BY <1>1, <1>3, <3>1, <3>2, <3>3 DEF EffortFell
  <2>4. CASE ~(x.scope = "values" /\ Sibling(s) \notin x.values)
    <3>1. z = Absent
      BY <2>1, <2>4
    <3>2. EffortLeft(e, z, x)
      BY <1>1, <3>1 DEF EffortLeft
    <3>3. x.scope = "values" => s \in x.values /\ Sibling(s) \in x.values
      BY <2>1, <2>4
    <3>4. x.scope = "values" => Efforts \subseteq x.values
      BY <1>1, <1>2, <2>2, <3>3
    <3>5. EffortAhead(e, z) < EffortAhead(e, s)
      BY <1>3, <2>2, <3>1
    <3>6. EffortAhead(e, z) <= EffortAhead(e, s)
      BY <1>3, <2>2, <3>1
    <3> QED
      BY <2>1, <3>1, <3>2, <3>4, <3>5, <3>6 DEF EffortFell
  <2> QED
    BY <2>3, <2>4
<1> QED
  BY <1>4, <1>5

LEMMA CapFalls ==
  ASSUME NEW s, NEW t, NEW v, NEW x, NEW s2, NEW t2, CapLeft(s, t, v), Grown(v, x),
         s2 = IF Refused(x["cap"]) THEN Absent ELSE s,
         t2 = IF Refused(x["newCap"]) THEN Absent
              ELSE IF Refused(x["cap"]) /\ s # Absent THEN s ELSE t,
         Refused(x["newCap"]) => Refused(x["cap"])
  PROVE  /\ CapLeft(s2, t2, x)
         /\ CapAhead(s2, t2) <= CapAhead(s, t)
         /\ ~(s2 = s /\ t2 = t) => CapAhead(s2, t2) < CapAhead(s, t)
<1>1. Absent # "set"
  BY DEF Absent
<1>2. Refused(v["cap"]) => Refused(x["cap"])
  BY DEF Grown
<1>3. Refused(v["newCap"]) => Refused(x["newCap"])
  BY DEF Grown
<1>4. CASE s = "set" /\ t = Absent
  BY <1>1, <1>4 DEF CapLeft, CapAhead
<1>5. CASE s = Absent /\ t = "set" /\ Refused(v["cap"])
  BY <1>1, <1>2, <1>5 DEF CapLeft, CapAhead
<1>6. CASE s = Absent /\ t = Absent /\ Refused(v["cap"]) /\ Refused(v["newCap"])
  BY <1>1, <1>2, <1>3, <1>6 DEF CapLeft, CapAhead
<1> QED
  BY <1>4, <1>5, <1>6 DEF CapLeft

LEMMA BodiesEqual ==
  ASSUME NEW b \in Bodies, NEW y \in Bodies,
         \A p \in {"effort", "cap", "newCap", "tools"} : b[p] = y[p]
  PROVE  b = y
BY DEF Bodies, Params

\* The new name is met only after the old one.
LEMMA CapRefusedFirst ==
  ASSUME NEW v, NEW order, LearnedInOrder(v, order), Refused(v["newCap"])
  PROVE  Refused(v["cap"])
<1>1. order \in Orders /\ v["cap"].scope \in {"nothing", "parameter"}
  BY DEF LearnedInOrder
<1>2. PICK i \in 1..Len(order) : order[i] = "newCap"
  BY DEF LearnedInOrder, Refused, Params
<1>3. CASE order = <<"cap", "newCap">>
  <2>1. order[1] = "cap" /\ 1 \in 1..Len(order)
    BY <1>3
  <2> QED
    BY <1>1, <2>1 DEF LearnedInOrder, Refused, Params
<1>4. CASE order = <<"effort", "cap", "newCap">>
  <2>1. order[2] = "cap" /\ 2 \in 1..Len(order)
    BY <1>4
  <2> QED
    BY <1>1, <2>1 DEF LearnedInOrder, Refused, Params
<1>5. CASE order = <<"cap", "effort", "newCap">> \/ order = <<"cap", "newCap", "effort">>
  <2>1. order[1] = "cap" /\ 1 \in 1..Len(order)
    BY <1>5
  <2> QED
    BY <1>1, <2>1 DEF LearnedInOrder, Refused, Params
<1>6. order # <<>>
  BY <1>2
<1>7. order # <<"effort">> /\ order # <<"cap">>
  BY <1>2
<1>8. order # <<"effort", "cap">> /\ order # <<"cap", "effort">>
  BY <1>2
<1> QED
  BY <1>1, <1>3, <1>4, <1>5, <1>6, <1>7, <1>8 DEF Orders

\* What is applied to a request sent for w leaves one that is sent for w, with
\* fewer repairs ahead unless it is the same.
LEMMA AppliedFor ==
  ASSUME NEW v, NEW x, NEW order, LearnedInOrder(x, order), LearnedTruly(x), Grown(v, x),
         NEW w, NEW b, SentFor(w, b, v), b["effort"] = Absent => Hopeless(w), deployment \in Deployments,
         NEW y, y = Applied(x, order, b)
  PROVE  /\ SentFor(w, y, x)
         /\ y["effort"] = Absent => Hopeless(w)
         /\ Ahead(w, y) <= Ahead(w, b)
         /\ y # b => Ahead(w, y) < Ahead(w, b)
<1>1. b \in Bodies /\ w \in Asks /\ b["tools"] = w["tools"]
  BY DEF SentFor
<1>2. BecomesOf(x, b, y)
  BY <1>1, AppliedIs
<1>3. y \in Bodies /\ y["tools"] = b["tools"] /\ y["effort"] = EffortOf(x["effort"], b["effort"], b["tools"])
  BY <1>2 DEF BecomesOf
<1>4. /\ y["cap"] = IF Refused(x["cap"]) THEN Absent ELSE b["cap"]
      /\ y["newCap"] = IF Refused(x["newCap"]) THEN Absent
                       ELSE IF Refused(x["cap"]) /\ b["cap"] # Absent THEN b["cap"] ELSE b["newCap"]
  BY <1>2 DEF BecomesOf
<1>5. Refused(x["newCap"]) => Refused(x["cap"])
  BY CapRefusedFirst
<1>6. EffortLeft(w["effort"], b["effort"], v["effort"]) /\ CapLeft(b["cap"], b["newCap"], v)
  BY DEF SentFor
<1>7. v["effort"].scope = "values" => x["effort"].scope = "values" /\ v["effort"].values \subseteq x["effort"].values
  BY DEF Grown
<1>8. /\ EffortLeft(w["effort"], y["effort"], x["effort"])
      /\ EffortAhead(w["effort"], y["effort"]) <= EffortAhead(w["effort"], b["effort"])
      /\ y["effort"] # b["effort"] => EffortAhead(w["effort"], y["effort"]) < EffortAhead(w["effort"], b["effort"])
      /\ y["effort"] = Absent => \/ b["effort"] = Absent \/ x["effort"].scope = "parameter"
                                 \/ x["effort"].scope = "values" /\ Efforts \subseteq x["effort"].values
                                 \/ x["effort"].scope = "clash" /\ b["tools"] # Absent
  <2>1. EffortFell(w["effort"], b["effort"], y["effort"], x["effort"], b["tools"])
    BY ONLY <1>3, <1>6, <1>7, EffortFalls
  <2> QED
    BY <2>1 DEF EffortFell
<1>9. /\ CapLeft(y["cap"], y["newCap"], x)
      /\ CapAhead(y["cap"], y["newCap"]) <= CapAhead(b["cap"], b["newCap"])
      /\ ~(y["cap"] = b["cap"] /\ y["newCap"] = b["newCap"])
           => CapAhead(y["cap"], y["newCap"]) < CapAhead(b["cap"], b["newCap"])
  BY <1>4, <1>5, <1>6, CapFalls
<1>10. SentFor(w, y, x)
  BY <1>1, <1>3, <1>8, <1>9 DEF SentFor
<1>11. y["effort"] = Absent => Hopeless(w)
  <2>1. CASE x["effort"].scope = "parameter"
    BY <2>1 DEF LearnedTruly, Hopeless
  <2>2. CASE x["effort"].scope = "values" /\ Efforts \subseteq x["effort"].values
    <3>1. Efforts \subseteq deployment.efforts /\ deployment.efforts \subseteq Efforts
      BY <2>2 DEF LearnedTruly, Deployments
    <3> QED
      BY <3>1 DEF Hopeless
  <2>3. CASE x["effort"].scope = "clash" /\ b["tools"] # Absent
    BY <1>1, <2>3 DEF LearnedTruly, Hopeless
  <2> QED
    BY <1>8, <2>1, <2>2, <2>3
<1>12. \A e, s : EffortAhead(e, s) \in 0..2 /\ CapAhead(e, s) \in 0..2
  BY DEF EffortAhead, CapAhead
<1>13. Ahead(w, y) <= Ahead(w, b)
  BY <1>8, <1>9, <1>12 DEF Ahead
<1>14. ASSUME y # b PROVE Ahead(w, y) < Ahead(w, b)
  <2>1. y["effort"] # b["effort"] \/ ~(y["cap"] = b["cap"] /\ y["newCap"] = b["newCap"])
    BY <1>1, <1>3, <1>14, BodiesEqual
  <2> QED
    BY <1>8, <1>9, <1>12, <2>1 DEF Ahead
<1> QED
  BY <1>10, <1>11, <1>13, <1>14

LEMMA RefusalIs ==
  ASSUME NEW p, NEW scope, NEW b, <<p, scope>> \in Refusals(b)
  PROVE  \/ scope = "parameter" /\ p \in deployment.unknown /\ b[p] # Absent
         \/ p = "effort" /\ scope = "values" /\ b["effort"] \in deployment.efforts
         \/ /\ p = "effort" /\ scope = "clash" /\ deployment.clash
            /\ b["effort"] # Absent /\ b["tools"] # Absent
BY DEF Refusals

\* What a refusal of the parameter p in the request b makes of the verdicts.
Learns(p, scope, b, v, order, x, next) ==
  /\ p \in Params \ {"tools"} /\ <<p, scope>> \in Refusals(b) /\ b \in Bodies
  /\ x = [v EXCEPT ![p] = Merged(@, Verdict(p, scope, b))]
  /\ next = IF v[p].scope = "nothing" THEN Append(order, p) ELSE order

LEMMA VerdictLearned ==
  ASSUME NEW p, NEW scope, NEW b, NEW v, NEW order, NEW x, NEW next,
         Learns(p, scope, b, v, order, x, next), LearnedInOrder(v, order), LearnedTruly(v),
         deployment \in Deployments
  PROVE  /\ x \in [Params -> Verdicts] /\ x[p].scope # "nothing"
         /\ \A q \in Params \ {p} : x[q] = v[q]
         /\ p \in {"cap", "newCap"} => Refused(x[p]) /\ p \in deployment.unknown /\ b[p] # Absent
         /\ p = "effort" => x[p] = Merged(v["effort"], Verdict("effort", scope, b))
<1>1. v \in [Params -> Verdicts] /\ p \in Params /\ x = [v EXCEPT ![p] = Merged(v[p], Verdict(p, scope, b))]
  BY DEF LearnedInOrder, Learns
<1>2. v[p] \in Verdicts
  BY <1>1
<1>3. \/ scope = "parameter" /\ p \in deployment.unknown /\ b[p] # Absent
      \/ p = "effort" /\ scope = "values" /\ b["effort"] \in deployment.efforts
      \/ /\ p = "effort" /\ scope = "clash" /\ deployment.clash
         /\ b["effort"] # Absent /\ b["tools"] # Absent
  BY RefusalIs DEF Learns
<1>4. deployment.efforts \subseteq Efforts
  BY DEF Deployments
<1>5. Verdict(p, scope, b) \in Verdicts /\ Verdict(p, scope, b).scope = scope /\ scope # "nothing"
  <2>1. scope = "values" => {b[p]} \subseteq Efforts
    BY <1>3, <1>4
  <2> QED
    BY <1>3, <2>1 DEF Verdict, Verdicts
<1>6. Merged(v[p], Verdict(p, scope, b)) \in Verdicts
  BY <1>2, <1>5 DEF Merged, Verdicts
<1>7. Merged(v[p], Verdict(p, scope, b)).scope # "nothing"
  BY <1>2, <1>5 DEF Merged, Verdicts
<1>8. x[p] = Merged(v[p], Verdict(p, scope, b)) /\ x \in [Params -> Verdicts] /\ \A q \in Params \ {p} : x[q] = v[q]
  BY <1>1, <1>6
<1>9. ASSUME p \in {"cap", "newCap"}
      PROVE Refused(x[p]) /\ p \in deployment.unknown /\ b[p] # Absent
  <2>1. scope = "parameter" /\ p \in deployment.unknown /\ b[p] # Absent
    BY <1>3, <1>9
  <2>2. Merged(v[p], Verdict(p, scope, b)) = Verdict(p, scope, b)
    BY <1>5, <2>1 DEF Merged
  <2> QED
    BY <1>5, <1>8, <2>1, <2>2 DEF Refused
<1> QED
  BY <1>7, <1>8, <1>9

\* The verdict d on the effort that is made of the verdict old and a refusal.
EffortLearned(d, old, b) ==
  /\ d.scope = "parameter" => "effort" \in deployment.unknown
  /\ d.scope = "values" => d.values # {} /\ d.values \subseteq deployment.efforts
  /\ d.scope = "clash" => deployment.clash
  /\ old.scope = "values" => d.scope = "values" /\ old.values \subseteq d.values
  /\ b["effort"] # Absent
  /\ EffortOf(d, b["effort"], b["tools"]) = b["effort"] => deployment.clash /\ deployment.efforts # {}

LEMMA EffortIsLearned ==
  ASSUME NEW scope, NEW b, NEW v, NEW order, NEW d, LearnedInOrder(v, order), LearnedTruly(v),
         deployment \in Deployments, b \in Bodies, <<"effort", scope>> \in Refusals(b),
         d = Merged(v["effort"], Verdict("effort", scope, b))
  PROVE  EffortLearned(d, v["effort"], b)
<1> DEFINE old == v["effort"]
           new == Verdict("effort", scope, b)
<1>1. old \in Verdicts
  BY DEF LearnedInOrder, Params
<1>2. \/ scope = "parameter" /\ "effort" \in deployment.unknown /\ b["effort"] # Absent
      \/ scope = "values" /\ b["effort"] \in deployment.efforts
      \/ scope = "clash" /\ deployment.clash /\ b["effort"] # Absent /\ b["tools"] # Absent
  BY RefusalIs
<1>3. deployment.efforts \subseteq Efforts /\ ("effort" \in deployment.unknown => deployment.efforts = {})
  BY DEF Deployments
<1>4. b["effort"] # Absent
  BY <1>2, <1>3, SiblingTyped
<1>5. new.scope = scope /\ (scope = "values" => new.values = {b["effort"]})
  BY DEF Verdict
<1>6. /\ old.scope = "parameter" => "effort" \in deployment.unknown
      /\ old.scope = "values" => old.values # {} /\ old.values \subseteq deployment.efforts
      /\ old.scope = "clash" => deployment.clash
  BY DEF LearnedTruly
<1>7. old.scope \in {"nothing", "parameter", "values", "clash"}
  BY <1>1 DEF Verdicts
<1>8. Sibling(b["effort"]) # b["effort"]
  BY SiblingTyped DEF Sibling
<1>9. CASE old.scope = "nothing" \/ scope = "parameter"
  <2>1. d = new
    BY <1>5, <1>9 DEF Merged
  <2>2. old.scope = "values" => FALSE
    BY <1>2, <1>3, <1>6, <1>9
  <2>3. EffortOf(d, b["effort"], b["tools"]) # b["effort"]
    BY <1>2, <1>4, <1>5, <1>8, <2>1 DEF EffortOf
  <2> QED
    BY <1>2, <1>4, <1>5, <2>1, <2>2, <2>3 DEF EffortLearned
<1>10. CASE old.scope = "values" /\ scope = "values"
  <2>1. d = [old EXCEPT !.values = @ \cup new.values]
    BY <1>5, <1>10 DEF Merged
  <2>2. d.scope = "values" /\ d.values = old.values \cup {b["effort"]}
    BY <1>1, <1>5, <1>10, <2>1 DEF Verdicts
  <2>3. EffortOf(d, b["effort"], b["tools"]) # b["effort"]
    BY <1>4, <1>8, <2>2 DEF EffortOf
  <2> QED
    BY <1>2, <1>4, <1>6, <1>10, <2>2, <2>3 DEF EffortLearned
<1>11. CASE old.scope # "nothing" /\ scope # "parameter" /\ ~(old.scope = "values" /\ scope = "values")
  <2>1. d = old
    BY <1>5, <1>11 DEF Merged
  <2>2. CASE old.scope = "parameter"
    <3>1. EffortOf(d, b["effort"], b["tools"]) # b["effort"]
      BY <1>4, <2>1, <2>2 DEF EffortOf
    <3> QED
      BY <1>4, <1>6, <2>1, <2>2, <3>1 DEF EffortLearned
  <2>3. CASE old.scope = "values"
    <3>1. deployment.clash /\ deployment.efforts # {}
      BY <1>2, <1>6, <1>11, <2>3
    <3> QED
      BY <1>4, <1>6, <2>1, <2>3, <3>1 DEF EffortLearned
  <2>4. CASE old.scope = "clash"
    <3>1. CASE b["tools"] # Absent
      <4>1. EffortOf(d, b["effort"], b["tools"]) # b["effort"]
        BY <1>4, <2>1, <2>4, <3>1 DEF EffortOf
      <4> QED
        BY <1>4, <1>6, <2>1, <2>4, <4>1 DEF EffortLearned
    <3>2. CASE b["tools"] = Absent
      <4>1. deployment.clash /\ deployment.efforts # {}
        BY <1>2, <1>6, <1>11, <2>4, <3>2
      <4> QED
        BY <1>4, <1>6, <2>1, <2>4, <4>1 DEF EffortLearned
    <3> QED
      BY <3>1, <3>2
  <2> QED
    BY <1>7, <1>11, <2>2, <2>3, <2>4
<1> QED
  BY <1>9, <1>10, <1>11

LEMMA AppendIs ==
  ASSUME NEW S, NEW a \in S, NEW b \in S, NEW c \in S
  PROVE  Append(<<a>>, b) = <<a, b>> /\ Append(<<a, b>>, c) = <<a, b, c>>
<1>1. <<a>> \in Seq(S) /\ <<a, b>> \in Seq(S) /\ <<a, b, c>> \in Seq(S)
  OBVIOUS
<1>2. /\ Len(<<a>>) = 1 /\ Len(<<a, b>>) = 2 /\ Len(<<a, b, c>>) = 3
      /\ <<a>>[1] = a /\ <<a, b>>[1] = a /\ <<a, b>>[2] = b
      /\ <<a, b, c>>[1] = a /\ <<a, b, c>>[2] = b /\ <<a, b, c>>[3] = c
  OBVIOUS
<1>3. Append(<<a>>, b) = <<a, b>>
  <2>1. /\ Append(<<a>>, b) \in Seq(S) /\ Len(Append(<<a>>, b)) = 2
        /\ Append(<<a>>, b)[1] = a /\ Append(<<a>>, b)[2] = b
    BY <1>1, <1>2, AppendProperties
  <2>2. \A i \in 1..2 : i = 1 \/ i = 2
    OBVIOUS
  <2> QED
    BY <1>1, <1>2, <2>1, <2>2, SeqEqual
<1>4. Append(<<a, b>>, c) = <<a, b, c>>
  <2>1. /\ Append(<<a, b>>, c) \in Seq(S) /\ Len(Append(<<a, b>>, c)) = 3
        /\ Append(<<a, b>>, c)[1] = a /\ Append(<<a, b>>, c)[2] = b /\ Append(<<a, b>>, c)[3] = c
    BY <1>1, <1>2, AppendProperties
  <2>2. \A i \in 1..3 : i = 1 \/ i = 2 \/ i = 3
    OBVIOUS
  <2> QED
    BY <1>1, <1>2, <2>1, <2>2, SeqEqual
<1> QED
  BY <1>3, <1>4

LEMMA OrdersTyped ==
  ASSUME NEW order \in Orders
  PROVE  order \in Seq({"effort", "cap", "newCap"})
<1> DEFINE P == {"effort", "cap", "newCap"}
<1>1. <<>> \in Seq(P)
  OBVIOUS
<1>2. \A a, b, c \in P : <<a>> \in Seq(P) /\ <<a, b>> \in Seq(P) /\ <<a, b, c>> \in Seq(P)
  OBVIOUS
<1>3. "effort" \in P /\ "cap" \in P /\ "newCap" \in P
  OBVIOUS
<1>4. ASSUME NEW S, S = P PROVE order \in Seq(S)
  <2>1. <<>> \in Seq(S) /\ "effort" \in S /\ "cap" \in S /\ "newCap" \in S
    BY <1>1, <1>3, <1>4
  <2>2. \A a, b, c \in S : <<a>> \in Seq(S) /\ <<a, b>> \in Seq(S) /\ <<a, b, c>> \in Seq(S)
    BY <1>2, <1>4
  <2> QED
    BY ONLY order \in Orders, <2>1, <2>2 DEF Orders
<1> QED
  BY <1>4

\* An order in which parameters were learned, and one more.
LEMMA OrderGrows ==
  ASSUME NEW order \in Orders, NEW p \in {"effort", "cap", "newCap"},
         \A i \in 1..Len(order) : order[i] # p,
         p = "newCap" => \E i \in 1..Len(order) : order[i] = "cap"
  PROVE  /\ Append(order, p) \in Orders
         /\ \A q : (\E i \in 1..Len(Append(order, p)) : Append(order, p)[i] = q)
                     <=> q = p \/ \E i \in 1..Len(order) : order[i] = q
<1>1. order \in Seq({"effort", "cap", "newCap"})
  BY OrdersTyped
<1>2. \A q : (\E i \in 1..Len(Append(order, p)) : Append(order, p)[i] = q)
               <=> q = p \/ \E i \in 1..Len(order) : order[i] = q
  <2>1. Len(order) \in Nat /\ Len(Append(order, p)) = Len(order) + 1 /\ Append(order, p)[Len(order) + 1] = p
    BY <1>1
  <2>2. \A i \in 1..Len(order) : Append(order, p)[i] = order[i]
    BY <1>1
  <2>3. \A i : i \in 1..(Len(order) + 1) <=> i \in 1..Len(order) \/ i = Len(order) + 1
    BY <2>1
  <2> QED
    BY <2>1, <2>2, <2>3
<1>3. Append(order, p) \in Orders
  <2>1. CASE order = <<>>
    <3>1. p # "newCap"
      BY <2>1
    <3>2. Append(order, p) = <<p>>
      BY <2>1
    <3> QED
      BY <3>1, <3>2 DEF Orders
  <2>2. CASE order = <<"effort">>
    <3>1. p # "newCap"
      BY <2>2
    <3>2. p # "effort"
      BY <2>2
    <3>3. Append(order, p) = <<"effort", p>>
      BY <2>2, AppendIs
    <3> QED
      BY <3>1, <3>2, <3>3 DEF Orders
  <2>3. CASE order = <<"cap">>
    <3>1. p # "cap"
      BY <2>3
    <3>2. Append(order, p) = <<"cap", p>>
      BY <2>3, AppendIs
    <3> QED
      BY <3>1, <3>2 DEF Orders
  <2>4. CASE order = <<"effort", "cap">>
    <3>1. order[1] = "effort" /\ order[2] = "cap" /\ 1 \in 1..Len(order) /\ 2 \in 1..Len(order)
      BY <2>4
    <3>2. Append(order, p) = <<"effort", "cap", p>>
      BY <2>4, AppendIs
    <3> QED
      BY <3>1, <3>2 DEF Orders
  <2>5. CASE order = <<"cap", "effort">>
    <3>1. order[1] = "cap" /\ order[2] = "effort" /\ 1 \in 1..Len(order) /\ 2 \in 1..Len(order)
      BY <2>5
    <3>2. Append(order, p) = <<"cap", "effort", p>>
      BY <2>5, AppendIs, ZenonT(40)
    <3> QED
      BY <3>1, <3>2 DEF Orders
  <2>6. CASE order = <<"cap", "newCap">>
    <3>1. order[1] = "cap" /\ order[2] = "newCap" /\ 1 \in 1..Len(order) /\ 2 \in 1..Len(order)
      BY <2>6
    <3>2. Append(order, p) = <<"cap", "newCap", p>>
      BY <2>6, AppendIs, ZenonT(40)
    <3> QED
      BY <3>1, <3>2 DEF Orders
  <2>7. CASE \E a, b, c \in {"effort", "cap", "newCap"} : order = <<a, b, c>>
    <3>1. PICK a, b, c \in {"effort", "cap", "newCap"} : order = <<a, b, c>>
      BY <2>7
    <3>2. order[1] = a /\ order[2] = b /\ order[3] = c /\ 1 \in 1..Len(order) /\ 2 \in 1..Len(order) /\ 3 \in 1..Len(order)
      BY <3>1
    <3>3. order \in {<<"effort", "cap", "newCap">>, <<"cap", "effort", "newCap">>, <<"cap", "newCap", "effort">>}
      <4>1. Len(order) = 3
        BY <3>1
      <4>2. Len(<<>>) # 3 /\ Len(<<"effort">>) # 3 /\ Len(<<"cap">>) # 3
        OBVIOUS
      <4>3. Len(<<"effort", "cap">>) # 3 /\ Len(<<"cap", "effort">>) # 3 /\ Len(<<"cap", "newCap">>) # 3
        OBVIOUS
      <4>4. \A o \in Orders : Len(o) = 3 => o \in {<<"effort", "cap", "newCap">>, <<"cap", "effort", "newCap">>,
                                                   <<"cap", "newCap", "effort">>}
        BY <4>2, <4>3, Zenon DEF Orders
      <4> QED
        BY <4>1, <4>4
    <3>4. \A q \in {"effort", "cap", "newCap"} : q = a \/ q = b \/ q = c
      BY <3>1, <3>3
    <3> QED
      BY <3>2, <3>4
  <2> QED
    BY <2>1, <2>2, <2>3, <2>4, <2>5, <2>6, <2>7 DEF Orders
<1> QED
  BY <1>2, <1>3

\* The verdicts stay true of the deployment, and a refusal that changes nothing
\* of the request is one of the effort, beside the other verdict on it.
LEMMA RefusalLearned ==
  ASSUME NEW p, NEW scope, NEW b, NEW v, NEW order, NEW x, NEW next,
         Learns(p, scope, b, v, order, x, next), LearnedInOrder(v, order), LearnedTruly(v),
         deployment \in Deployments, p = "newCap" => Refused(v["cap"])
  PROVE  /\ LearnedInOrder(x, next) /\ LearnedTruly(x) /\ Grown(v, x)
         /\ \A y : BecomesOf(x, b, y) /\ y = b => deployment.clash /\ deployment.efforts # {}
<1>1. /\ x \in [Params -> Verdicts] /\ x[p].scope # "nothing"
      /\ \A q \in Params \ {p} : x[q] = v[q]
      /\ p \in {"cap", "newCap"} => Refused(x[p]) /\ p \in deployment.unknown /\ b[p] # Absent
      /\ p = "effort" => x[p] = Merged(v["effort"], Verdict("effort", scope, b))
  BY VerdictLearned
<1>2. /\ p \in {"effort", "cap", "newCap"} /\ b \in Bodies /\ <<p, scope>> \in Refusals(b)
      /\ next = IF v[p].scope = "nothing" THEN Append(order, p) ELSE order
  BY DEF Learns, Params
<1>3. /\ order \in Orders /\ v \in [Params -> Verdicts]
      /\ \A q \in Params : v[q].scope # "nothing" <=> \E i \in 1..Len(order) : order[i] = q
      /\ \A q \in {"cap", "newCap"} : v[q].scope \in {"nothing", "parameter"}
  BY DEF LearnedInOrder
<1>4. p = "effort" => EffortLearned(x["effort"], v["effort"], b)
  BY <1>1, <1>2, EffortIsLearned
<1>5. {"effort", "cap", "newCap"} \subseteq Params
  BY DEF Params
<1>6. next \in Orders /\ \A q \in Params : x[q].scope # "nothing" <=> \E i \in 1..Len(next) : next[i] = q
  <2>1. CASE v[p].scope = "nothing"
    <3>1. \A i \in 1..Len(order) : order[i] # p
      BY <1>2, <1>3, <1>5, <2>1
    <3>2. p = "newCap" => \E i \in 1..Len(order) : order[i] = "cap"
      BY <1>3, <1>5 DEF Refused
    <3>3. /\ Append(order, p) \in Orders
          /\ \A q : (\E i \in 1..Len(Append(order, p)) : Append(order, p)[i] = q)
                      <=> q = p \/ \E i \in 1..Len(order) : order[i] = q
      BY <1>2, <1>3, <3>1, <3>2, OrderGrows
    <3>4. next = Append(order, p)
      BY <1>2, <2>1
    <3> QED
      BY <1>1, <1>3, <3>3, <3>4, Zenon
  <2>2. CASE v[p].scope # "nothing"
    <3>1. next = order
      BY <1>2, <2>2
    <3> QED
      BY <1>1, <1>3, <2>2, <3>1, Zenon
  <2> QED
    BY <2>1, <2>2
<1>7. \A q \in {"cap", "newCap"} : x[q].scope \in {"nothing", "parameter"}
  BY <1>1, <1>3, <1>5 DEF Refused
<1>8. LearnedInOrder(x, next)
  BY <1>1, <1>6, <1>7 DEF LearnedInOrder
<1>9. LearnedTruly(x) /\ Grown(v, x)
  <2>1. CASE p = "effort"
    <3>1. x["cap"] = v["cap"] /\ x["newCap"] = v["newCap"]
      BY <1>1, <1>5, <2>1
    <3> QED
      BY <1>4, <2>1, <3>1 DEF LearnedTruly, Grown, EffortLearned
  <2>2. CASE p \in {"cap", "newCap"}
    <3>1. x["effort"] = v["effort"] /\ \A q \in {"cap", "newCap"} : q # p => x[q] = v[q]
      BY <1>1, <1>5, <2>2
    <3> QED
      BY <1>1, <2>2, <3>1 DEF LearnedTruly, Grown
  <2> QED
    BY <1>2, <2>1, <2>2
<1>10. ASSUME NEW y, BecomesOf(x, b, y), y = b
       PROVE  deployment.clash /\ deployment.efforts # {}
  <2>1. /\ b["effort"] = EffortOf(x["effort"], b["effort"], b["tools"])
        /\ b["cap"] = IF Refused(x["cap"]) THEN Absent ELSE b["cap"]
        /\ Refused(x["newCap"]) => b["newCap"] = Absent
    BY <1>10 DEF BecomesOf
  <2>2. p = "effort"
    BY <1>1, <1>2, <2>1
  <2> QED
    BY <1>4, <2>1, <2>2 DEF EffortLearned
<1> QED
  BY <1>8, <1>9, <1>10

\* What is known is not sent.
LEMMA KnownIsNotCovered ==
  ASSUME NEW v, NEW order, LearnedInOrder(v, order), NEW b \in Asks, NEW i \in DOMAIN order, order[i] # "newCap"
  PROVE  ~Covers(v[order[i]], order[i], Applied(v, order, b))
<1>1. PICK y : y = Applied(v, order, b)
  OBVIOUS
<1>2. b \in Bodies /\ b["effort"] \in Efforts
  BY DEF Asks
<1>3. BecomesOf(v, b, y)
  BY <1>1, <1>2, AppliedIs
<1>4. order[i] \in {"effort", "cap"} /\ v[order[i]].scope # "nothing"
  <2>1. order \in Orders
    BY DEF LearnedInOrder
  <2>2. order \in Seq({"effort", "cap", "newCap"})
    BY <2>1, OrdersTyped
  <2>3. i \in 1..Len(order) /\ order[i] \in {"effort", "cap", "newCap"}
    BY <2>2
  <2> QED
    BY <2>3 DEF LearnedInOrder, Params
<1>5. CASE order[i] = "cap"
  <2>1. Refused(v["cap"])
    BY <1>4, <1>5 DEF LearnedInOrder, Refused
  <2>2. y["cap"] = Absent
    BY <1>3, <2>1 DEF BecomesOf
  <2> QED
    BY <1>1, <1>5, <2>2 DEF Covers
<1>6. CASE order[i] = "effort"
  <2>1. y["effort"] = EffortOf(v["effort"], b["effort"], b["tools"]) /\ y["tools"] = b["tools"]
    BY <1>3 DEF BecomesOf
  <2>2. ~Covers(v["effort"], "effort", y)
    <3>1. CASE /\ b["effort"] # Absent
               /\ \/ v["effort"].scope = "parameter"
                  \/ v["effort"].scope = "values" /\ b["effort"] \in v["effort"].values
                  \/ v["effort"].scope = "clash" /\ b["tools"] # Absent
      <4>1. y["effort"] = IF v["effort"].scope = "values" /\ Sibling(b["effort"]) \notin v["effort"].values
                          THEN Sibling(b["effort"]) ELSE Absent
        BY <2>1, <3>1 DEF EffortOf
      <4> QED
        BY <4>1 DEF Covers
    <3>2. CASE ~/\ b["effort"] # Absent
                /\ \/ v["effort"].scope = "parameter"
                   \/ v["effort"].scope = "values" /\ b["effort"] \in v["effort"].values
                   \/ v["effort"].scope = "clash" /\ b["tools"] # Absent
      <4>1. y["effort"] = b["effort"]
        BY <2>1, <3>2 DEF EffortOf
      <4> QED
        BY <2>1, <3>2, <4>1 DEF Covers
    <3> QED
      BY <3>1, <3>2
  <2> QED
    BY <1>1, <1>6, <2>2
<1> QED
  BY <1>4, <1>5, <1>6

-----------------------------------------------------------------------------

Kept(w, b, p, n, halted, v) ==
  /\ p = "new" => n = 0
  /\ p # "new" => /\ SentFor(w, b, v)
                  /\ b["effort"] = Absent => Hopeless(w)
                  /\ ~halted => n + Ahead(w, b) <= 4
  /\ p = "refused" => "tools" \in deployment.unknown \/ halted
  /\ halted => deployment.clash /\ deployment.efforts # {}

RepairInv ==
  /\ RepairTypeOK /\ deployment \in Deployments
  /\ LearnedInOrder(verdict, taught) /\ LearnedTruly(verdict)
  /\ \A c \in Attempts : Kept(wanted[c], sent[c], progress[c], repairs[c], c \in stuck, verdict)

LEMMA AheadBounded ==
  \A w, b : Ahead(w, b) \in 0..4
BY DEF Ahead, EffortAhead, CapAhead

LEMMA OrdersAreParams ==
  ASSUME NEW v, NEW order, LearnedInOrder(v, order)
  PROVE  v \in [Params -> Verdicts] /\ order \in Seq(Params)
<1>1. order \in Seq({"effort", "cap", "newCap"}) /\ v \in [Params -> Verdicts]
  BY OrdersTyped DEF LearnedInOrder
<1>2. {"effort", "cap", "newCap"} \subseteq Params
  BY DEF Params
<1>3. \A i \in 1..Len(order) : order[i] \in Params
  BY <1>1, <1>2
<1>4. order \in [1..Len(order) -> Params] /\ Len(order) \in Nat
  BY <1>1, <1>3, LenProperties
<1> QED
  BY <1>1, <1>4, SeqDef

LEMMA GrownKeeps ==
  ASSUME NEW v, NEW x, Grown(v, x), NEW w, NEW b, SentFor(w, b, v)
  PROVE  SentFor(w, b, x)
<1>1. EffortLeft(w["effort"], b["effort"], v["effort"]) => EffortLeft(w["effort"], b["effort"], x["effort"])
  BY DEF EffortLeft, Grown
<1>2. CapLeft(b["cap"], b["newCap"], v) => CapLeft(b["cap"], b["newCap"], x)
  BY DEF CapLeft, Grown
<1> QED
  BY <1>1, <1>2 DEF SentFor

LEMMA SendKept ==
  ASSUME RepairInv, MaxRepairs \in Nat, NEW c \in Attempts, NEW b \in Asks, Send(c, b)
  PROVE  RepairInv'
<1>1. /\ progress[c] = "new" /\ progress' = [progress EXCEPT ![c] = "sent"]
      /\ wanted' = [wanted EXCEPT ![c] = b] /\ sent' = [sent EXCEPT ![c] = Applied(verdict, taught, b)]
      /\ deployment' = deployment /\ verdict' = verdict /\ taught' = taught
      /\ repairs' = repairs /\ stuck' = stuck
  BY DEF Send
<1>2. RepairTypeOK /\ deployment \in Deployments /\ LearnedInOrder(verdict, taught) /\ LearnedTruly(verdict)
  BY DEF RepairInv
<1>3. PICK y : y = Applied(verdict, taught, b)
  OBVIOUS
<1>4. b \in Bodies /\ b["effort"] \in Efforts /\ b["cap"] = "set" /\ b["newCap"] = Absent
  BY DEF Asks
<1>5. SentFor(b, b, verdict) /\ b["effort"] # Absent /\ Ahead(b, b) <= 4
  <2>1. EffortLeft(b["effort"], b["effort"], verdict["effort"])
    BY <1>4, SiblingTyped DEF EffortLeft
  <2>2. CapLeft(b["cap"], b["newCap"], verdict)
    BY <1>4 DEF CapLeft
  <2> QED
    BY <1>4, <2>1, <2>2, SiblingTyped, AheadBounded DEF SentFor
<1>6. Grown(verdict, verdict)
  BY DEF Grown
<1>7. SentFor(b, y, verdict) /\ (y["effort"] = Absent => Hopeless(b))
  BY <1>2, <1>3, <1>5, <1>6, AppliedFor
<1>8. repairs[c] = 0 /\ Ahead(b, y) \in 0..4 /\ (c \in stuck => deployment.clash /\ deployment.efforts # {})
  BY <1>1, AheadBounded DEF RepairInv, Kept
<1>9. Kept(b, y, "sent", repairs[c], c \in stuck, verdict)
  BY <1>7, <1>8 DEF Kept
<1>10. RepairTypeOK'
  <2>1. y \in Bodies
    BY <1>7 DEF SentFor
  <2> QED
    BY <1>1, <1>2, <1>3, <1>4, <2>1 DEF RepairTypeOK
<1>11. \A a \in Attempts : Kept(wanted'[a], sent'[a], progress'[a], repairs[a], a \in stuck, verdict)
  <2> SUFFICES ASSUME NEW a \in Attempts
               PROVE  Kept(wanted'[a], sent'[a], progress'[a], repairs[a], a \in stuck, verdict)
    OBVIOUS
  <2>1. wanted \in [Attempts -> Bodies] /\ sent \in [Attempts -> Bodies] /\ DOMAIN progress = Attempts
    BY <1>2 DEF RepairTypeOK
  <2>2. CASE a = c
    <3>1. wanted'[a] = b /\ sent'[a] = y /\ progress'[a] = "sent"
      BY <1>1, <1>3, <2>1, <2>2
    <3> QED
      BY <1>9, <2>2, <3>1
  <2>3. CASE a # c
    <3>1. wanted'[a] = wanted[a] /\ sent'[a] = sent[a] /\ progress'[a] = progress[a]
      BY <1>1, <2>1, <2>3
    <3> QED
      BY <3>1 DEF RepairInv
  <2> QED
    BY <2>2, <2>3
<1> QED
  BY <1>1, <1>2, <1>10, <1>11 DEF RepairInv, LearnedTruly, Kept, Hopeless

LEMMA AcceptKept ==
  ASSUME RepairInv, NEW c \in Attempts, Accept(c)
  PROVE  RepairInv'
<1>1. /\ progress[c] = "sent" /\ progress' = [progress EXCEPT ![c] = "accepted"]
      /\ deployment' = deployment /\ verdict' = verdict /\ taught' = taught
      /\ wanted' = wanted /\ sent' = sent /\ repairs' = repairs /\ stuck' = stuck
  BY DEF Accept
<1>2. RepairTypeOK /\ deployment \in Deployments /\ LearnedInOrder(verdict, taught) /\ LearnedTruly(verdict)
  BY DEF RepairInv
<1>3. RepairTypeOK'
  BY <1>1, <1>2 DEF RepairTypeOK
<1>4. \A a \in Attempts : Kept(wanted[a], sent[a], progress'[a], repairs[a], a \in stuck, verdict)
  <2> SUFFICES ASSUME NEW a \in Attempts
               PROVE  Kept(wanted[a], sent[a], progress'[a], repairs[a], a \in stuck, verdict)
    OBVIOUS
  <2>1. Kept(wanted[a], sent[a], progress[a], repairs[a], a \in stuck, verdict)
    BY DEF RepairInv
  <2>2. progress'[a] = IF a = c THEN "accepted" ELSE progress[a]
    BY <1>1, <1>2 DEF RepairTypeOK
  <2> QED
    BY <1>1, <2>1, <2>2 DEF Kept
<1> QED
  BY <1>1, <1>2, <1>3, <1>4 DEF RepairInv, LearnedTruly, Kept, Hopeless

LEMMA HandBackKept ==
  ASSUME RepairInv, MaxRepairs \in Nat, MaxRepairs >= 4, NEW c \in Attempts, HandBack(c)
  PROVE  RepairInv'
<1>1. /\ progress[c] = "sent" /\ Refusals(sent[c]) # {}
      /\ <<"tools", "parameter">> \in Refusals(sent[c]) \/ repairs[c] = MaxRepairs
      /\ progress' = [progress EXCEPT ![c] = "refused"]
      /\ deployment' = deployment /\ verdict' = verdict /\ taught' = taught
      /\ wanted' = wanted /\ sent' = sent /\ repairs' = repairs /\ stuck' = stuck
  BY DEF HandBack
<1>2. RepairTypeOK /\ deployment \in Deployments /\ LearnedInOrder(verdict, taught) /\ LearnedTruly(verdict)
  BY DEF RepairInv
<1>3. RepairTypeOK'
  BY <1>1, <1>2 DEF RepairTypeOK
<1>4. Kept(wanted[c], sent[c], progress[c], repairs[c], c \in stuck, verdict)
  BY DEF RepairInv
<1>5. "tools" \in deployment.unknown \/ c \in stuck
  <2>1. CASE <<"tools", "parameter">> \in Refusals(sent[c])
    BY <2>1, RefusalIs
  <2>2. CASE repairs[c] = MaxRepairs /\ c \notin stuck
    <3>1. SentFor(wanted[c], sent[c], verdict) /\ repairs[c] + Ahead(wanted[c], sent[c]) <= 4
      BY <1>1, <1>4, <2>2 DEF Kept
    <3>2. Ahead(wanted[c], sent[c]) = 0
      BY <2>2, <3>1, AheadBounded
    <3>3. EffortAhead(wanted[c]["effort"], sent[c]["effort"]) = 0 /\ CapAhead(sent[c]["cap"], sent[c]["newCap"]) = 0
      BY <3>2 DEF Ahead, EffortAhead, CapAhead
    <3>4. sent[c]["effort"] = Absent /\ sent[c]["cap"] = Absent /\ sent[c]["newCap"] = Absent
      <4>1. sent[c]["effort"] = Absent
        BY <3>3 DEF EffortAhead
      <4>2. sent[c]["cap"] # "set" /\ sent[c]["newCap"] # "set"
        BY <3>3 DEF CapAhead
      <4> QED
        BY <3>1, <4>1, <4>2 DEF SentFor, CapLeft
    <3>5. PICK p \in Params, scope \in {"parameter", "values", "clash"} : <<p, scope>> \in Refusals(sent[c])
      <4>1. deployment.unknown \subseteq Params /\ "effort" \in Params
        BY <1>2 DEF Deployments, Params
      <4> QED
        BY <1>1, <4>1 DEF Refusals
    <3>6. sent[c]["effort"] \notin deployment.efforts
      BY <1>2, <3>4, SiblingTyped DEF Deployments
    <3>7. p \in deployment.unknown /\ sent[c][p] # Absent
      BY <3>4, <3>5, <3>6, RefusalIs
    <3> QED
      BY <3>4, <3>7 DEF Params
  <2> QED
    BY <1>1, <2>1, <2>2
<1>6. \A a \in Attempts : Kept(wanted[a], sent[a], progress'[a], repairs[a], a \in stuck, verdict)
  <2> SUFFICES ASSUME NEW a \in Attempts
               PROVE  Kept(wanted[a], sent[a], progress'[a], repairs[a], a \in stuck, verdict)
    OBVIOUS
  <2>1. Kept(wanted[a], sent[a], progress[a], repairs[a], a \in stuck, verdict)
    BY DEF RepairInv
  <2>2. progress'[a] = IF a = c THEN "refused" ELSE progress[a]
    BY <1>1, <1>2 DEF RepairTypeOK
  <2> QED
    BY <1>1, <1>5, <2>1, <2>2 DEF Kept
<1> QED
  BY <1>1, <1>2, <1>3, <1>6 DEF RepairInv, LearnedTruly, Kept, Hopeless

LEMMA RepairKept ==
  ASSUME RepairInv, MaxRepairs \in Nat, NEW c \in Attempts, NEW p \in Params, NEW scope, Repair(c, p, scope)
  PROVE  RepairInv'
<1>1. /\ progress[c] = "sent" /\ repairs[c] < MaxRepairs
      /\ p # "tools" /\ <<p, scope>> \in Refusals(sent[c])
      /\ verdict' = [verdict EXCEPT ![p] = Merged(@, Verdict(p, scope, sent[c]))]
      /\ taught' = IF verdict[p].scope = "nothing" THEN Append(taught, p) ELSE taught
      /\ sent' = [sent EXCEPT ![c] = Applied(verdict', taught', sent[c])]
      /\ repairs' = [repairs EXCEPT ![c] = @ + 1]
      /\ stuck' = IF Applied(verdict', taught', sent[c]) = sent[c] THEN stuck \cup {c} ELSE stuck
      /\ deployment' = deployment /\ wanted' = wanted /\ progress' = progress
  BY DEF Repair
<1>2. RepairTypeOK /\ deployment \in Deployments /\ LearnedInOrder(verdict, taught) /\ LearnedTruly(verdict)
  BY DEF RepairInv
<1>3. PICK v, order, b, w : v = verdict' /\ order = taught' /\ b = sent[c] /\ w = wanted[c]
  OBVIOUS
<1>4. PICK y : y = Applied(v, order, b)
  OBVIOUS
<1>5. Kept(w, b, "sent", repairs[c], c \in stuck, verdict)
  BY <1>1, <1>3 DEF RepairInv
<1>6. /\ SentFor(w, b, verdict) /\ (b["effort"] = Absent => Hopeless(w))
      /\ c \notin stuck => repairs[c] + Ahead(w, b) <= 4
      /\ c \in stuck => deployment.clash /\ deployment.efforts # {}
  BY <1>5 DEF Kept
<1>7. b \in Bodies
  BY <1>6 DEF SentFor
<1>8. Learns(p, scope, b, verdict, taught, v, order)
  BY <1>1, <1>3, <1>7 DEF Learns
<1>9. p = "newCap" => Refused(verdict["cap"])
  <2>1. ASSUME p = "newCap" PROVE b["newCap"] # Absent
    BY <1>1, <1>3, <2>1, RefusalIs
  <2> QED
    BY <1>6, <2>1 DEF SentFor, CapLeft
<1>10. /\ LearnedInOrder(v, order) /\ LearnedTruly(v) /\ Grown(verdict, v)
       /\ \A z : BecomesOf(v, b, z) /\ z = b => deployment.clash /\ deployment.efforts # {}
  BY <1>2, <1>8, <1>9, RefusalLearned
<1>11. BecomesOf(v, b, y)
  BY <1>4, <1>7, <1>10, AppliedIs
<1>12. y = b => deployment.clash /\ deployment.efforts # {}
  BY <1>10, <1>11
<1>13. /\ SentFor(w, y, v) /\ (y["effort"] = Absent => Hopeless(w))
       /\ y # b => Ahead(w, y) < Ahead(w, b)
  BY <1>2, <1>4, <1>6, <1>10, AppliedFor
<1>14. /\ DOMAIN sent = Attempts /\ DOMAIN repairs = Attempts /\ repairs[c] \in Nat
       /\ sent' = [sent EXCEPT ![c] = y] /\ stuck' = IF y = b THEN stuck \cup {c} ELSE stuck
  BY <1>1, <1>2, <1>3, <1>4 DEF RepairTypeOK
<1>15. Kept(w, y, "sent", repairs[c] + 1, c \in stuck', v)
  <2>1. c \in stuck' => deployment.clash /\ deployment.efforts # {}
    BY <1>6, <1>12, <1>14
  <2>2. ASSUME c \notin stuck' PROVE repairs[c] + 1 + Ahead(w, y) <= 4
    <3>1. c \notin stuck /\ y # b
      BY <1>14, <2>2
    <3>2. Ahead(w, y) \in Int /\ Ahead(w, b) \in Int
      BY AheadBounded
    <3> QED
      BY <1>6, <1>13, <1>14, <3>1, <3>2
  <2> QED
    BY <1>13, <2>1, <2>2 DEF Kept
<1>16. RepairTypeOK'
  <2>1. y \in Bodies
    BY <1>13 DEF SentFor
  <2>2. v \in [Params -> Verdicts] /\ order \in Seq(Params)
    BY <1>10, OrdersAreParams
  <2>3. repairs' \in [Attempts -> 0..MaxRepairs]
    BY <1>1, <1>2 DEF RepairTypeOK
  <2>4. sent' \in [Attempts -> Bodies]
    BY <1>2, <1>14, <2>1 DEF RepairTypeOK
  <2>5. stuck' \subseteq Attempts
    BY <1>2, <1>14 DEF RepairTypeOK
  <2> QED
    BY <1>1, <1>2, <1>3, <2>2, <2>3, <2>4, <2>5 DEF RepairTypeOK
<1>17. \A a \in Attempts : Kept(wanted[a], sent'[a], progress[a], repairs'[a], a \in stuck', v)
  <2> SUFFICES ASSUME NEW a \in Attempts
               PROVE  Kept(wanted[a], sent'[a], progress[a], repairs'[a], a \in stuck', v)
    OBVIOUS
  <2>1. CASE a = c
    <3>1. wanted[a] = w /\ sent'[a] = y /\ progress[a] = "sent" /\ repairs'[a] = repairs[c] + 1
      BY <1>1, <1>3, <1>14, <2>1
    <3> QED
      BY <1>15, <2>1, <3>1
  <2>2. CASE a # c
    <3>1. sent'[a] = sent[a] /\ repairs'[a] = repairs[a] /\ (a \in stuck' <=> a \in stuck)
      BY <1>1, <1>14, <2>2
    <3>2. Kept(wanted[a], sent[a], progress[a], repairs[a], a \in stuck, verdict)
      BY DEF RepairInv
    <3>3. SentFor(wanted[a], sent[a], verdict) => SentFor(wanted[a], sent[a], v)
      BY <1>10, GrownKeeps
    <3> QED
      BY <3>1, <3>2, <3>3 DEF Kept
  <2> QED
    BY <2>1, <2>2
<1>18. \A a \in Attempts : Kept(wanted'[a], sent'[a], progress'[a], repairs'[a], a \in stuck', verdict')
  BY <1>1, <1>3, <1>17
<1>19. LearnedInOrder(verdict', taught') /\ deployment' \in Deployments
  BY <1>1, <1>2, <1>3, <1>10
<1>20. LearnedTruly(verdict)'
  BY <1>1, <1>3, <1>10 DEF LearnedTruly
<1> QED
  BY <1>1, <1>16, <1>18, <1>19, <1>20 DEF RepairInv, Kept, Hopeless

LEMMA RepairStarts ==
  ASSUME MaxRepairs \in Nat, RepairInit
  PROVE  RepairInv
<1>1. verdict \in [Params -> Verdicts] /\ \A p \in Params : verdict[p].scope = "nothing"
  BY DEF RepairInit, Unlearned, Verdicts
<1>2. LearnedInOrder(verdict, taught)
  <2>1. taught = <<>> /\ \A i : i \notin 1..Len(taught)
    BY DEF RepairInit
  <2>2. taught \in Orders
    BY <2>1 DEF Orders
  <2> QED
    BY <1>1, <2>1, <2>2 DEF LearnedInOrder, Params
<1>3. LearnedTruly(verdict)
  BY <1>1 DEF LearnedTruly, Refused, Params
<1>4. RepairTypeOK
  <2>1. [p \in Params |-> Absent] \in Bodies
    BY DEF Bodies
  <2>2. taught \in Seq(Params)
    BY <1>2, OrdersAreParams
  <2>3. wanted \in [Attempts -> Bodies] /\ sent \in [Attempts -> Bodies]
    BY <2>1 DEF RepairInit
  <2>4. /\ progress \in [Attempts -> {"new", "sent", "accepted", "refused"}]
        /\ repairs \in [Attempts -> 0..MaxRepairs] /\ stuck \subseteq Attempts
    BY DEF RepairInit
  <2> QED
    BY <1>1, <2>2, <2>3, <2>4 DEF RepairTypeOK
<1> QED
  BY <1>2, <1>3, <1>4 DEF RepairInv, RepairInit, Kept

LEMMA RepairSoundFrom ==
  ASSUME RepairInv
  PROVE  RepairsSound
<1>1. RepairTypeOK /\ deployment \in Deployments /\ LearnedInOrder(verdict, taught) /\ LearnedTruly(verdict)
  BY DEF RepairInv
<1>2. \A c \in Attempts : Kept(wanted[c], sent[c], progress[c], repairs[c], c \in stuck, verdict)
  BY DEF RepairInv
<1>3. IntentKept
  <2> SUFFICES ASSUME NEW c \in Attempts, progress[c] # "new"
               PROVE  LET lost(p) == wanted[c][p] # Absent /\ sent[c][p] = Absent
                      IN /\ lost("effort") => Hopeless(wanted[c])
                         /\ ~lost("tools")
                         /\ lost("cap") => /\ "cap" \in deployment.unknown
                                           /\ sent[c]["newCap"] = Absent => "newCap" \in deployment.unknown
                         /\ sent[c]["effort"] \notin {wanted[c]["effort"], Absent}
                              => wanted[c]["effort"] \in deployment.efforts
    BY DEF IntentKept
  <2>1. SentFor(wanted[c], sent[c], verdict) /\ (sent[c]["effort"] = Absent => Hopeless(wanted[c]))
    BY <1>2 DEF Kept
  <2>2. sent[c]["tools"] = wanted[c]["tools"] /\ CapLeft(sent[c]["cap"], sent[c]["newCap"], verdict)
    BY <2>1 DEF SentFor
  <2>3. EffortLeft(wanted[c]["effort"], sent[c]["effort"], verdict["effort"])
    BY <2>1 DEF SentFor
  <2>4. sent[c]["effort"] \notin {wanted[c]["effort"], Absent} => wanted[c]["effort"] \in deployment.efforts
    BY <1>1, <2>3 DEF EffortLeft, LearnedTruly
  <2>5. sent[c]["cap"] = Absent => /\ "cap" \in deployment.unknown
                                   /\ sent[c]["newCap"] = Absent => "newCap" \in deployment.unknown
    <3>1. Absent # "set"
      BY DEF Absent
    <3> QED
      BY <1>1, <2>2, <3>1 DEF CapLeft, LearnedTruly
  <2> QED
    BY <2>1, <2>2, <2>4, <2>5
<1>4. RefusedForCause
  BY <1>2 DEF RefusedForCause, Kept
<1>5. KnownIsNotSent
  BY <1>1, KnownIsNotCovered DEF KnownIsNotSent
<1> QED
  BY <1>1, <1>3, <1>4, <1>5 DEF RepairsSound

\* A refusal costs the requests that run into it no more than what was refused,
\* as long as four repairs are allowed (the code allows six): applyLearned and
\* the loop of the repairing fetch.
THEOREM RepairsKept ==
  ASSUME MaxRepairs >= 4
  PROVE  RepairSpec => []RepairsSound
<1>1. RepairInit => RepairInv
  BY RepairAssumption, RepairStarts
<1>2. RepairInv /\ [RepairNext]_repairVars => RepairInv'
  <2> SUFFICES ASSUME RepairInv, [RepairNext]_repairVars PROVE RepairInv'
    OBVIOUS
  <2>1. ASSUME NEW c \in Attempts, RepairStep(c) PROVE RepairInv'
    BY <2>1, RepairAssumption, SendKept, AcceptKept, HandBackKept, RepairKept DEF RepairStep
  <2>2. CASE UNCHANGED repairVars
    BY <2>2 DEF repairVars, RepairInv, RepairTypeOK, LearnedInOrder, LearnedTruly, Kept, Hopeless
  <2> QED
    BY <2>1, <2>2 DEF RepairNext
<1>3. RepairInv => RepairsSound
  BY RepairSoundFrom
<1> QED
  BY <1>1, <1>2, <1>3, PTL DEF RepairSpec

-----------------------------------------------------------------------------
(* Failover.  What is in service depends on the cooldowns only through the  *)
(* links that are left, counted from the first (Rank).  Cooldowns grow as   *)
(* long as no link comes back, so a call that the chain did not move under  *)
(* sees the end of the chain as long as the .env block is not parked.       *)

Left(chain, hot) == {i \in DOMAIN chain : chain[i] \notin hot}
Rank(H, i) == Cardinality({j \in H : j <= i})

LEMMA RankCounts ==
  ASSUME NEW m \in Nat, NEW H, H \subseteq 1..m
  PROVE  /\ IsFiniteSet(H) /\ Cardinality(H) \in Nat /\ Cardinality(H) <= m
         /\ \A i \in H : Rank(H, i) \in 1..Cardinality(H)
         /\ \A i, k \in H : Rank(H, i) = Rank(H, k) => i = k
         /\ \A n \in 1..Cardinality(H) : \E i \in H : Rank(H, i) = n
<1>1. IsFiniteSet(1..m) /\ Cardinality(1..m) = m
  BY FS_Interval
<1>2. IsFiniteSet(H) /\ Cardinality(H) \in Nat /\ Cardinality(H) <= m
  BY <1>1, FS_Subset, FS_CardinalityType
<1>3. ASSUME NEW i \in H PROVE Rank(H, i) \in 1..Cardinality(H)
  <2>1. {j \in H : j <= i} \subseteq H /\ i \in {j \in H : j <= i}
    OBVIOUS
  <2>2. IsFiniteSet({j \in H : j <= i}) /\ Cardinality({j \in H : j <= i}) <= Cardinality(H)
    BY <1>2, <2>1, FS_Subset
  <2>3. Cardinality({j \in H : j <= i}) \in Nat /\ Cardinality({j \in H : j <= i}) # 0
    BY <2>1, <2>2, FS_CardinalityType, FS_EmptySet
  <2> QED
    BY <1>2, <2>2, <2>3 DEF Rank
<1>4. ASSUME NEW i \in H, NEW k \in H, i < k PROVE Rank(H, i) # Rank(H, k)
  <2> DEFINE A == {j \in H : j <= i}
             B == {j \in H : j <= k}
  <2>1. A \subseteq B /\ k \in B /\ k \notin A /\ B \subseteq H
    <3>1. \A j \in H : j \in Int
      OBVIOUS
    <3>2. i \in Int /\ k \in Int /\ i < k /\ k \in H
      BY <1>4, <3>1
    <3>3. \A j \in H : j <= i => j <= k
      BY <3>1, <3>2
    <3>4. ~(k <= i) /\ k <= k
      BY <3>2
    <3> QED
      BY <3>2, <3>3, <3>4, Zenon
  <2>2. IsFiniteSet(B)
    BY <1>2, <2>1, FS_Subset
  <2>3. Cardinality(A) # Cardinality(B)
    BY <2>1, <2>2, FS_Subset
  <2> QED
    BY <2>3 DEF Rank
<1>5. \A i, k \in H : Rank(H, i) = Rank(H, k) => i = k
  BY <1>4
<1>6. ASSUME NEW n \in 1..Cardinality(H) PROVE \E i \in H : Rank(H, i) = n
  <2> DEFINE f == [i \in H |-> Rank(H, i)]
  <2>1. f \in [H -> 1..Cardinality(H)]
    BY <1>3
  <2>2. f \in Injection(H, 1..Cardinality(H))
    BY <1>5, <2>1 DEF Injection, IsInjective
  <2>3. IsFiniteSet(1..Cardinality(H)) /\ Cardinality(1..Cardinality(H)) = Cardinality(H)
    BY <1>2, FS_Interval
  <2>4. f \in Surjection(H, 1..Cardinality(H))
    BY <1>2, <2>2, <2>3, FS_Injection
  <2> QED
    BY <2>4 DEF Surjection
<1> QED
  BY <1>2, <1>3, <1>5, <1>6

\* What is left of a chain: at each place a link that is not parked.
LEMMA HealthyIs ==
  ASSUME NEW S, NEW chain \in Seq(S), NEW hot, NEW f, f = Healthy(chain, hot)
  PROVE  /\ f \in Seq(S) /\ Len(f) = Cardinality(Left(chain, hot)) /\ Len(f) <= Len(chain)
         /\ \A n \in 1..Len(f) : \E i \in Left(chain, hot) : Rank(Left(chain, hot), i) = n /\ f[n] = chain[i]
         /\ f = <<>> <=> Left(chain, hot) = {}
<1>1. PICK H : H = Left(chain, hot)
  OBVIOUS
<1>2. Len(chain) \in Nat /\ DOMAIN chain = 1..Len(chain) /\ \A i \in 1..Len(chain) : chain[i] \in S
  BY LenProperties
<1>3. H \subseteq 1..Len(chain)
  BY <1>1, <1>2 DEF Left
<1>4. /\ IsFiniteSet(H) /\ Cardinality(H) \in Nat /\ Cardinality(H) <= Len(chain)
      /\ \A n \in 1..Cardinality(H) : \E i \in H : Rank(H, i) = n
  BY <1>2, <1>3, RankCounts
<1> DEFINE At(n) == CHOOSE i \in H : Rank(H, i) = n
<1>5. f = [n \in 1..Cardinality(H) |-> chain[At(n)]]
  BY <1>1 DEF Healthy, Left, Rank
<1>6. \A n \in 1..Cardinality(H) : At(n) \in H /\ Rank(H, At(n)) = n
  BY <1>4
<1> HIDE DEF At
<1>7. f \in [1..Cardinality(H) -> S]
  BY <1>2, <1>3, <1>5, <1>6
<1>8. f \in Seq(S) /\ Len(f) = Cardinality(H)
  <2>1. f \in Seq(S)
    BY <1>4, <1>7, SeqDef
  <2> QED
    BY <1>4, <1>7, <2>1, LenProperties
<1>9. \A n \in 1..Len(f) : \E i \in H : Rank(H, i) = n /\ f[n] = chain[i]
  BY <1>5, <1>6, <1>8
<1>10. f = <<>> <=> H = {}
  <2>1. f = <<>> <=> Len(f) = 0
    BY <1>8, EmptySeq
  <2> QED
    BY <1>4, <1>8, <2>1, FS_EmptySet
<1> QED
  BY <1>1, <1>4, <1>8, <1>9, <1>10

\* The end of the chain is the end of what is left, unless it is parked.
LEMMA HealthyEnd ==
  ASSUME NEW S, NEW chain \in Seq(S), NEW hot, chain # <<>>, chain[Len(chain)] \notin hot,
         NEW f, f = Healthy(chain, hot)
  PROVE  f # <<>> /\ f[Len(f)] = chain[Len(chain)]
<1>1. PICK H : H = Left(chain, hot)
  OBVIOUS
<1>2. Len(chain) \in Nat \ {0} /\ DOMAIN chain = 1..Len(chain)
  BY LenProperties, EmptySeq
<1>3. Len(chain) \in H /\ H \subseteq 1..Len(chain)
  BY <1>1, <1>2 DEF Left
<1>4. /\ f \in Seq(S) /\ Len(f) = Cardinality(H) /\ (f = <<>> <=> H = {})
      /\ \A n \in 1..Len(f) : \E i \in H : Rank(H, i) = n /\ f[n] = chain[i]
  BY <1>1, HealthyIs
<1>5. {j \in H : j <= Len(chain)} = H
  <2>1. \A j \in H : j <= Len(chain)
    BY <1>2, <1>3
  <2> QED
    BY <2>1
<1>6. Rank(H, Len(chain)) = Len(f)
  BY <1>4, <1>5 DEF Rank
<1>7. Len(f) \in 1..Len(f)
  BY <1>3, <1>4, EmptySeq
<1>8. PICK i \in H : Rank(H, i) = Len(f) /\ f[Len(f)] = chain[i]
  BY <1>4, <1>7
<1>9. i = Len(chain)
  <2>1. \A a, b \in H : Rank(H, a) = Rank(H, b) => a = b
    BY <1>2, <1>3, RankCounts
  <2> QED
    BY <1>3, <1>6, <1>8, <2>1
<1> QED
  BY <1>3, <1>4, <1>8, <1>9

\* The more is parked, the less is left.
LEMMA HealthyShrinks ==
  ASSUME NEW S, NEW chain \in Seq(S), NEW hot, NEW more, hot \subseteq more,
         NEW f, f = Healthy(chain, hot), NEW g, g = Healthy(chain, more)
  PROVE  /\ Len(g) <= Len(f)
         /\ f # <<>> /\ f[1] \notin more => g # <<>> /\ g[1] = f[1]
<1>1. PICK H, G : H = Left(chain, hot) /\ G = Left(chain, more)
  OBVIOUS
<1>2. Len(chain) \in Nat /\ DOMAIN chain = 1..Len(chain)
  BY LenProperties
<1>3. G \subseteq H /\ H \subseteq 1..Len(chain) /\ G \subseteq 1..Len(chain)
  BY <1>1, <1>2 DEF Left
<1>4. /\ f \in Seq(S) /\ Len(f) = Cardinality(H) /\ (f = <<>> <=> H = {})
      /\ \A n \in 1..Len(f) : \E i \in H : Rank(H, i) = n /\ f[n] = chain[i]
  BY <1>1, HealthyIs
<1>5. /\ g \in Seq(S) /\ Len(g) = Cardinality(G) /\ (g = <<>> <=> G = {})
      /\ \A n \in 1..Len(g) : \E i \in G : Rank(G, i) = n /\ g[n] = chain[i]
  BY <1>1, HealthyIs
<1>6. Len(g) <= Len(f)
  <2>1. IsFiniteSet(H)
    BY <1>2, <1>3, RankCounts
  <2>2. Cardinality(G) <= Cardinality(H)
    BY <1>3, <2>1, FS_Subset
  <2> QED
    BY <1>4, <1>5, <2>2
<1>7. ASSUME f # <<>>, f[1] \notin more PROVE g # <<>> /\ g[1] = f[1]
  <2>1. 1 \in 1..Len(f)
    BY <1>4, <1>7, EmptySeq
  <2>2. PICK i \in H : Rank(H, i) = 1 /\ f[1] = chain[i]
    BY <1>4, <2>1
  <2>3. i \in G
    BY <1>1, <1>2, <1>3, <1>7, <2>2 DEF Left
  <2>4. 1 \in 1..Len(g)
    BY <1>5, <2>3, EmptySeq
  <2>5. Rank(G, i) = 1
    <3>1. {j \in G : j <= i} \subseteq {j \in H : j <= i} /\ {j \in H : j <= i} \subseteq H
      BY <1>3
    <3>2. IsFiniteSet(H) /\ Rank(G, i) \in 1..Cardinality(G)
      BY <1>2, <1>3, <2>3, RankCounts
    <3>3. IsFiniteSet({j \in H : j <= i})
      BY <3>1, <3>2, FS_Subset
    <3>4. Rank(G, i) <= 1
      BY <2>2, <3>1, <3>3, FS_Subset DEF Rank
    <3> QED
      BY <3>2, <3>4
  <2>6. PICK k \in G : Rank(G, k) = 1 /\ g[1] = chain[k]
    BY <1>5, <2>4
  <2>7. k = i
    BY <1>2, <1>3, <2>3, <2>5, <2>6, RankCounts
  <2> QED
    BY <1>5, <2>2, <2>3, <2>6, <2>7
<1> QED
  BY <1>6, <1>7

-----------------------------------------------------------------------------

LEMMA FewerThanFive ==
  ASSUME NEW a \in Nat \ {0}, NEW b \in 1..5, a <= b
  PROVE  a \in 1..5
OBVIOUS

LEMMA LeastIs ==
  ASSUME NEW a \in Nat \ {0}, NEW b \in Nat \ {0}
  PROVE  /\ Least(a, b) \in Nat \ {0} /\ Least(a, b) <= b
         /\ a >= b => Least(a, b) = b
         /\ a <= b => Least(a, b) = a
BY DEF Least

LEMMA WholeChain ==
  ASSUME NEW chain \in Seq(Links), Len(chain) <= 4, NEW all, all = chain \o <<Env>>
  PROVE  /\ all \in Seq(Links \cup {Env}) /\ all # <<>> /\ Len(all) \in 1..5 /\ all[Len(all)] = Env
         /\ \A i \in DOMAIN all : all[i] \in Range(chain) \cup {Env}
         /\ \A l \in Range(chain) \cup {Env} : \E i \in DOMAIN all : all[i] = l
<1>1. chain \in Seq(Links \cup {Env}) /\ <<Env>> \in Seq(Links \cup {Env}) /\ Len(<<Env>>) = 1 /\ <<Env>>[1] = Env
  OBVIOUS
<1>2. Len(chain) \in Nat /\ DOMAIN chain = 1..Len(chain)
  BY LenProperties
<1>3. /\ all \in Seq(Links \cup {Env}) /\ Len(all) = Len(chain) + 1
      /\ \A i \in 1..Len(all) : all[i] = IF i <= Len(chain) THEN chain[i] ELSE <<Env>>[i - Len(chain)]
  BY <1>1, ConcatProperties
<1>4. DOMAIN all = 1..Len(all) /\ Len(all) \in 1..5
  BY <1>2, <1>3, LenProperties
<1>5. all[Len(all)] = Env
  BY <1>1, <1>2, <1>3
<1>6. \A i \in 1..Len(chain) : i \in 1..Len(all) /\ all[i] = chain[i]
  BY <1>2, <1>3
<1>7. \A i \in 1..Len(all) : i \in 1..Len(chain) \/ i = Len(all)
  BY <1>2, <1>3
<1>8. \A i \in DOMAIN all : all[i] \in Range(chain) \cup {Env}
  BY <1>2, <1>4, <1>5, <1>6, <1>7 DEF Range
<1>9. \A l \in Range(chain) \cup {Env} : \E i \in DOMAIN all : all[i] = l
  <2>1. Len(all) \in DOMAIN all
    BY <1>4
  <2> QED
    BY <1>2, <1>4, <1>5, <1>6, <2>1 DEF Range
<1>10. all # <<>>
  BY <1>4
<1> QED
  BY <1>3, <1>4, <1>5, <1>8, <1>9, <1>10

\* What is in service of the chain when hot is parked.
Serving(chain, hot) ==
  LET all == chain \o <<Env>> IN IF Healthy(all, hot) = <<>> THEN all ELSE Healthy(all, hot)

LEMMA ServingIs ==
  ASSUME NEW chain \in Seq(Links), Len(chain) <= 4, NEW hot, NEW f, f = Serving(chain, hot)
  PROVE  /\ f \in Seq(Links \cup {Env}) /\ Len(f) \in 1..5 /\ DOMAIN f = 1..Len(f)
         /\ \A n \in 1..Len(f) : f[n] \in Range(chain) \cup {Env}
         /\ Env \notin hot => f[Len(f)] = Env
         /\ f[1] \notin hot \/ Range(chain) \cup {Env} \subseteq hot
<1>1. PICK all : all = chain \o <<Env>>
  OBVIOUS
<1>2. /\ all \in Seq(Links \cup {Env}) /\ all # <<>> /\ Len(all) \in 1..5 /\ all[Len(all)] = Env
      /\ \A i \in DOMAIN all : all[i] \in Range(chain) \cup {Env}
      /\ \A l \in Range(chain) \cup {Env} : \E i \in DOMAIN all : all[i] = l
  BY <1>1, WholeChain
<1>3. PICK g : g = Healthy(all, hot)
  OBVIOUS
<1>4. f = IF g = <<>> THEN all ELSE g
  BY <1>1, <1>3 DEF Serving
<1>5. /\ g \in Seq(Links \cup {Env}) /\ Len(g) <= Len(all)
      /\ \A n \in 1..Len(g) : \E i \in Left(all, hot) : g[n] = all[i]
      /\ g = <<>> <=> Left(all, hot) = {}
  BY <1>2, <1>3, HealthyIs
<1>6. Env \notin hot => g # <<>> /\ g[Len(g)] = Env
  BY <1>2, <1>3, HealthyEnd
<1>7. f \in Seq(Links \cup {Env}) /\ DOMAIN f = 1..Len(f)
  BY <1>2, <1>4, <1>5, LenProperties
<1>8. CASE g = <<>>
  <2>1. Range(chain) \cup {Env} \subseteq hot
    BY <1>2, <1>5, <1>8 DEF Left
  <2>2. DOMAIN all = 1..Len(all)
    BY <1>2, LenProperties
  <2> QED
    BY <1>2, <1>4, <1>7, <1>8, <2>1, <2>2
<1>9. CASE g # <<>>
  <2>1. Len(g) \in 1..5 /\ f = g
    <3>1. Len(g) \in Nat \ {0}
      BY <1>5, <1>9, EmptySeq
    <3>2. Len(g) <= Len(all) /\ Len(all) \in 1..5
      BY <1>2, <1>5
    <3>3. Len(g) \in 1..5
      BY ONLY <3>1, <3>2, FewerThanFive
    <3>4. f = g
      BY <1>4, <1>9, Zenon
    <3> QED
      BY <3>3, <3>4
  <2>2. \A n \in 1..Len(g) : g[n] \in Range(chain) \cup {Env} /\ g[n] \notin hot
    BY <1>2, <1>5 DEF Left
  <2>3. g[1] \notin hot
    BY <2>1, <2>2
  <2> QED
    BY <1>6, <1>7, <2>1, <2>2, <2>3
<1> QED
  BY <1>8, <1>9

\* As more is parked, the end of the chain comes nearer, unless it is parked,
\* and what is first stays first, unless it is parked.
LEMMA ServingShrinks ==
  ASSUME NEW chain \in Seq(Links), Len(chain) <= 4, NEW hot, NEW more, hot \subseteq more,
         NEW f, f = Serving(chain, hot), NEW g, g = Serving(chain, more)
  PROVE  /\ Env \notin more => Len(g) <= Len(f)
         /\ f[1] \notin more => g[1] = f[1]
<1>1. PICK all : all = chain \o <<Env>>
  OBVIOUS
<1>2. /\ all \in Seq(Links \cup {Env}) /\ all # <<>> /\ all[Len(all)] = Env
      /\ \A i \in DOMAIN all : all[i] \in Range(chain) \cup {Env}
      /\ \A l \in Range(chain) \cup {Env} : \E i \in DOMAIN all : all[i] = l
  BY <1>1, WholeChain
<1>3. PICK hf, hg : hf = Healthy(all, hot) /\ hg = Healthy(all, more)
  OBVIOUS
<1>4. f = (IF hf = <<>> THEN all ELSE hf) /\ g = (IF hg = <<>> THEN all ELSE hg)
  BY <1>1, <1>3 DEF Serving
<1>5. /\ Len(hg) <= Len(hf)
      /\ hf # <<>> /\ hf[1] \notin more => hg # <<>> /\ hg[1] = hf[1]
  BY <1>2, <1>3, HealthyShrinks
<1>6. ASSUME Env \notin more PROVE Len(g) <= Len(f)
  <2>1. hf # <<>> /\ hg # <<>>
    BY <1>2, <1>3, <1>6, HealthyEnd
  <2> QED
    BY <1>4, <1>5, <2>1
<1>7. ASSUME f[1] \notin more PROVE g[1] = f[1]
  <2>1. f[1] \in Range(chain) \cup {Env} /\ (f[1] \notin hot \/ Range(chain) \cup {Env} \subseteq hot)
    <3>1. /\ Len(f) \in 1..5 /\ \A n \in 1..Len(f) : f[n] \in Range(chain) \cup {Env}
          /\ f[1] \notin hot \/ Range(chain) \cup {Env} \subseteq hot
      BY ServingIs
    <3> QED
      BY <3>1
  <2>2. f[1] \notin hot /\ ~(Range(chain) \cup {Env} \subseteq hot)
    BY <1>7, <2>1
  <2>3. hf # <<>>
    <3>1. hf = <<>> => Left(all, hot) = {}
      BY <1>2, <1>3, HealthyIs
    <3> QED
      BY <1>2, <2>2, <3>1 DEF Left
  <2> QED
    BY <1>4, <1>5, <1>7, <2>3
<1> QED
  BY <1>6, <1>7

-----------------------------------------------------------------------------

ChainLinks == Links \cup {Env}

LEMMA LinkAtIs ==
  ASSUME NEW S, NEW chain \in Seq(S), Len(chain) \in 1..5, NEW n \in Nat \ {0}
  PROVE  /\ LinkAt(chain, n) \in S /\ LinkAt(chain, 1) = chain[1]
         /\ n >= Len(chain) => LinkAt(chain, n) = chain[Len(chain)]
<1>1. \A i \in 1..Len(chain) : chain[i] \in S
  BY LenProperties
<1>2. Least(n, Len(chain)) \in 1..Len(chain) /\ Least(1, Len(chain)) = 1
  BY DEF Least
<1>3. n >= Len(chain) => Least(n, Len(chain)) = Len(chain)
  BY DEF Least
<1> QED
  BY <1>1, <1>2, <1>3 DEF LinkAt

\* The attempts that a call of the kind k makes at most.
Limit(k, own) ==
  IF k = "chat" THEN (IF Len(own) > 3 THEN Len(own) ELSE 3) ELSE IF k = "embedder" THEN 2 ELSE 5

\* What holds of a call whatever becomes of the chain.
Fits(k, st, own, t, s, failed) ==
  /\ own \in Seq(ChainLinks) /\ Len(own) \in 1..5
  /\ t \in Nat /\ t < Limit(k, own)
  /\ s \in ChainLinks /\ failed \subseteq ChainLinks
  /\ st \in {"asking", "answered"} /\ k = "image" => s = LinkAt(own, t + 1)
  /\ st \in {"asking", "answered"} /\ k = "chat" /\ t = 0 => s = LinkAt(own, 1)
  /\ st = "asking" /\ k = "embedder" /\ t = 0 => failed = {}
  /\ st = "waiting" => k # "embedder" /\ t # 0

\* What holds of a call under way that the chain did not move under.
Walks(k, st, own, t, s, failed, chain, hot) ==
  /\ k = "image" /\ Env \notin hot => own[Len(own)] = Env
  /\ k = "chat" /\ Env \notin hot => Len(Serving(chain, hot)) <= Len(own)
  /\ k = "chat" /\ st = "asking" /\ Env \notin hot /\ t + 1 >= Len(own) => s = Env
  /\ k = "vision" /\ st = "asking" /\ Env \notin hot /\ t >= 4 => s = Env
  /\ k = "embedder" /\ t = 0 => s \in hot \/ s = Serving(chain, hot)[1]
  /\ k = "embedder" /\ t = 1 => failed \subseteq hot /\ (s \notin failed \/ Range(chain) \cup {Env} \subseteq hot)

CallFits(k, st, own, t, s, failed, moved, free, chain, hot) ==
  /\ st = "new" => own = <<>> /\ t = 0 /\ failed = {}
  /\ st # "new" => Fits(k, st, own, t, s, failed)
  /\ st \in {"asking", "waiting"} /\ ~moved => Walks(k, st, own, t, s, failed, chain, hot)
  /\ st = "gaveUp" /\ k # "embedder" /\ ~moved /\ ~free => Env \in failed

ShortChain(chain) == chain \in Seq(Links) /\ Len(chain) <= 4

AiInv ==
  /\ AiTypeOK /\ DOMAIN ownChain = AiCalls /\ DOMAIN failedLinks = AiCalls
  /\ \A c \in AiCalls : CallFits(caller, calling[c], ownChain[c], tries[c], servedBy[c], failedLinks[c],
                                 c \in shifted, c \in spared, snapshot, cooling)

LEMMA ChainsShort ==
  ASSUME IsFiniteSet(Links), Cardinality(Links) <= 4, NEW chain \in Chains
  PROVE  ShortChain(chain)
<1>1. PICK s \in SUBSET Links : chain \in [1..Cardinality(s) -> s]
  BY DEF Chains, SetToAllKPermutations, SetToSeqs
<1>2. Cardinality(s) \in Nat /\ Cardinality(s) <= 4
  BY FS_Subset, FS_CardinalityType
<1>3. chain \in [1..Cardinality(s) -> Links]
  BY <1>1
<1>4. chain \in Seq(Links)
  BY <1>2, <1>3, SeqDef
<1>5. Len(chain) = Cardinality(s)
  BY <1>2, <1>3, <1>4, LenProperties
<1> QED
  BY <1>2, <1>4, <1>5 DEF ShortChain

\* A call keeps its place as more is parked.
LEMMA FitsAsMoreCools ==
  ASSUME NEW k, NEW st, NEW own, NEW t, NEW s, NEW failed, NEW moved, NEW free, NEW chain, NEW hot, NEW more,
         ShortChain(chain), hot \subseteq more,
         CallFits(k, st, own, t, s, failed, moved, free, chain, hot)
  PROVE  CallFits(k, st, own, t, s, failed, moved, free, chain, more)
<1>1. ASSUME Walks(k, st, own, t, s, failed, chain, hot), own \in Seq(ChainLinks), Len(own) \in 1..5
      PROVE  Walks(k, st, own, t, s, failed, chain, more)
  <2>1. PICK f, g : f = Serving(chain, hot) /\ g = Serving(chain, more)
    OBVIOUS
  <2>2. /\ Env \notin more => Len(g) <= Len(f)
        /\ f[1] \notin more => g[1] = f[1]
    BY <2>1, ServingShrinks DEF ShortChain
  <2>3. Len(f) \in 1..5 /\ Len(g) \in 1..5
    BY <2>1, ServingIs DEF ShortChain
  <2>4. Env \notin more => Env \notin hot
    OBVIOUS
  <2>5. k = "chat" /\ Env \notin more => Len(g) <= Len(own)
    BY <1>1, <2>1, <2>2, <2>3, <2>4 DEF Walks
  <2>6. k = "embedder" /\ t = 0 => s \in more \/ s = g[1]
    BY <1>1, <2>1, <2>2 DEF Walks
  <2> QED
    BY <1>1, <2>1, <2>4, <2>5, <2>6 DEF Walks
<1>2. st \in {"asking", "waiting"} => own \in Seq(ChainLinks) /\ Len(own) \in 1..5
  BY DEF CallFits, Fits
<1> QED
  BY <1>1, <1>2 DEF CallFits

InServiceOf == \A hot : InService(hot) = Serving(snapshot, hot)

LEMMA InServiceIs == InServiceOf
BY DEF InServiceOf, InService, Serving

LEMMA PickedIs ==
  ASSUME ShortChain(snapshot), NEW own \in Seq(ChainLinks), Len(own) \in 1..5, NEW hot, NEW n \in Nat, NEW s,
         s = Picked(own, hot, n), caller \in Callers
  PROVE  /\ s \in ChainLinks
         /\ caller = "image" => s = LinkAt(own, n + 1)
         /\ caller = "chat" => s = LinkAt(Serving(snapshot, hot), Least(n + 1, Len(own)))
         /\ caller = "vision" => s = LinkAt(Serving(snapshot, hot), n + 1)
         /\ caller = "embedder" => s = Serving(snapshot, hot)[1]
<1>1. PICK f : f = Serving(snapshot, hot)
  OBVIOUS
<1>2. f \in Seq(ChainLinks) /\ Len(f) \in 1..5
  BY <1>1, ServingIs DEF ShortChain, ChainLinks
<1>3. InService(hot) = f
  BY <1>1, InServiceIs DEF InServiceOf
<1>4. Least(n + 1, Len(own)) \in Nat \ {0} /\ n + 1 \in Nat \ {0}
  <2>1. n + 1 \in Nat \ {0}
    BY ONLY n \in Nat
  <2>2. Len(own) \in Nat \ {0}
    BY ONLY Len(own) \in 1..5
  <2> QED
    BY ONLY <2>1, <2>2, LeastIs
<1>5. LinkAt(own, n + 1) \in ChainLinks /\ LinkAt(f, Least(n + 1, Len(own))) \in ChainLinks /\ LinkAt(f, n + 1) \in ChainLinks
  BY <1>2, <1>4, LinkAtIs
<1>6. f[1] \in ChainLinks
  BY <1>2, <1>4, LinkAtIs
<1>7. caller = "image" => s = LinkAt(own, n + 1)
  BY DEF Picked
<1>8. caller = "chat" => s = LinkAt(f, Least(n + 1, Len(own)))
  BY <1>3 DEF Picked
<1>9. caller = "vision" => s = LinkAt(f, n + 1)
  BY <1>3 DEF Picked
<1>10. caller = "embedder" => s = f[1]
  BY <1>3 DEF Picked
<1> QED
  BY <1>1, <1>5, <1>6, <1>7, <1>8, <1>9, <1>10 DEF Callers

\* The calls that a step leaves alone.
LEMMA OthersFit ==
  ASSUME AiInv, ShortChain(snapshot), NEW c \in AiCalls, cooling \subseteq cooling',
         caller' = caller, snapshot' = snapshot, shifted' = shifted,
         \A a \in AiCalls \ {c} : /\ calling'[a] = calling[a] /\ ownChain'[a] = ownChain[a] /\ tries'[a] = tries[a]
                                  /\ servedBy'[a] = servedBy[a] /\ failedLinks'[a] = failedLinks[a]
                                  /\ a \in spared' <=> a \in spared,
         CallFits(caller, calling'[c], ownChain'[c], tries'[c], servedBy'[c], failedLinks'[c],
                  c \in shifted, c \in spared', snapshot, cooling')
  PROVE  \A a \in AiCalls : CallFits(caller', calling'[a], ownChain'[a], tries'[a], servedBy'[a], failedLinks'[a],
                                     a \in shifted', a \in spared', snapshot', cooling')
<1> SUFFICES ASSUME NEW a \in AiCalls
             PROVE  CallFits(caller', calling'[a], ownChain'[a], tries'[a], servedBy'[a], failedLinks'[a],
                             a \in shifted', a \in spared', snapshot', cooling')
  OBVIOUS
<1>1. CASE a = c
  BY <1>1
<1>2. CASE a # c
  <2>1. CallFits(caller, calling[a], ownChain[a], tries[a], servedBy[a], failedLinks[a],
                 a \in shifted, a \in spared, snapshot, cooling)
    BY DEF AiInv
  <2>2. CallFits(caller, calling[a], ownChain[a], tries[a], servedBy[a], failedLinks[a],
                 a \in shifted, a \in spared, snapshot, cooling')
    BY <2>1, FitsAsMoreCools
  <2>3. /\ calling'[a] = calling[a] /\ ownChain'[a] = ownChain[a] /\ tries'[a] = tries[a]
        /\ servedBy'[a] = servedBy[a] /\ failedLinks'[a] = failedLinks[a]
    BY <1>2
  <2>4. (a \in spared' <=> a \in spared) /\ (a \in shifted' <=> a \in shifted)
    BY <1>2
  <2>5. CallFits(caller, calling'[a], ownChain'[a], tries'[a], servedBy'[a], failedLinks'[a],
                 a \in shifted, a \in spared, snapshot, cooling')
    BY <2>2, <2>3
  <2> QED
    BY <2>4, <2>5 DEF CallFits
<1> QED
  BY <1>1, <1>2

LEMMA StartCallKept ==
  ASSUME AiInv, ShortChain(snapshot), NEW c \in AiCalls, StartCall(c)
  PROVE  AiInv'
<1>1. /\ calling[c] = "new" /\ calling' = [calling EXCEPT ![c] = "asking"]
      /\ ownChain' = [ownChain EXCEPT ![c] = InService(cooling)]
      /\ servedBy' = [servedBy EXCEPT ![c] = Picked(InService(cooling), cooling, 0)]
      /\ snapshot' = snapshot /\ cooling' = cooling /\ caller' = caller /\ tries' = tries
      /\ failedLinks' = failedLinks /\ shifted' = shifted /\ spared' = spared
      /\ refreshed' = refreshed /\ cooled' = cooled
  BY DEF StartCall
<1>2. AiTypeOK /\ DOMAIN ownChain = AiCalls /\ DOMAIN failedLinks = AiCalls
  BY DEF AiInv
<1>3. PICK own, s : own = Serving(snapshot, cooling) /\ s = Picked(own, cooling, 0)
  OBVIOUS
<1>4. InService(cooling) = own
  BY <1>3, InServiceIs DEF InServiceOf
<1>5. /\ own \in Seq(ChainLinks) /\ Len(own) \in 1..5 /\ DOMAIN own = 1..Len(own)
      /\ \A n \in 1..Len(own) : own[n] \in Range(snapshot) \cup {Env}
      /\ Env \notin cooling => own[Len(own)] = Env
  BY <1>3, ServingIs DEF ShortChain, ChainLinks
<1>6. caller \in Callers
  BY <1>2 DEF AiTypeOK
<1>7. /\ s \in ChainLinks
      /\ caller = "image" => s = LinkAt(own, 1)
      /\ caller = "chat" => s = LinkAt(own, Least(1, Len(own)))
      /\ caller = "vision" => s = LinkAt(own, 1)
      /\ caller = "embedder" => s = own[1]
  <2>1. 0 + 1 = 1 /\ 0 \in Nat
    OBVIOUS
  <2>2. /\ s \in ChainLinks
        /\ caller = "image" => s = LinkAt(own, 0 + 1)
        /\ caller = "chat" => s = LinkAt(Serving(snapshot, cooling), Least(0 + 1, Len(own)))
        /\ caller = "vision" => s = LinkAt(Serving(snapshot, cooling), 0 + 1)
        /\ caller = "embedder" => s = Serving(snapshot, cooling)[1]
    BY <1>3, <1>5, <1>6, <2>1, PickedIs
  <2> QED
    BY <1>3, <2>1, <2>2
<1>8. Least(1, Len(own)) = 1 /\ LinkAt(own, 1) = own[1]
  <2>1. 1 \in Nat \ {0} /\ Len(own) \in Nat \ {0} /\ 1 <= Len(own)
    BY <1>5
  <2>2. Least(1, Len(own)) = 1
    BY ONLY <2>1, LeastIs
  <2> QED
    BY <2>2 DEF LinkAt
<1>9. tries[c] = 0 /\ failedLinks[c] = {}
  BY <1>1 DEF AiInv, CallFits
<1>10. Fits(caller, "asking", own, 0, s, {})
  <2>1. 0 < Limit(caller, own)
    BY <1>5 DEF Limit
  <2> QED
    BY <1>5, <1>7, <1>8, <2>1 DEF Fits
<1>11. Walks(caller, "asking", own, 0, s, {}, snapshot, cooling)
  <2>1. caller = "chat" /\ Env \notin cooling /\ 1 >= Len(own) => s = Env
    BY <1>5, <1>7, <1>8
  <2>2. Len(Serving(snapshot, cooling)) <= Len(own)
    BY <1>3, <1>5
  <2> QED
    BY <1>3, <1>5, <1>7, <2>1, <2>2 DEF Walks
<1>12. calling'[c] = "asking" /\ ownChain'[c] = own /\ tries'[c] = 0 /\ servedBy'[c] = s /\ failedLinks'[c] = {}
  BY <1>1, <1>2, <1>3, <1>4, <1>9 DEF AiTypeOK
<1>13. \A a \in AiCalls \ {c} : calling'[a] = calling[a] /\ ownChain'[a] = ownChain[a] /\ servedBy'[a] = servedBy[a]
  BY <1>1, <1>2 DEF AiTypeOK
<1>14. CallFits(caller, "asking", own, 0, s, {}, c \in shifted, c \in spared', snapshot, cooling')
  BY <1>1, <1>10, <1>11 DEF CallFits
<1>15. \A a \in AiCalls : CallFits(caller', calling'[a], ownChain'[a], tries'[a], servedBy'[a], failedLinks'[a],
                                   a \in shifted', a \in spared', snapshot', cooling')
  BY <1>1, <1>12, <1>13, <1>14, OthersFit
<1>16. AiTypeOK'
  <2>1. Range(own) \subseteq Links \cup {Env}
    <3>1. \A n \in 1..Len(own) : own[n] \in ChainLinks
      BY <1>5, LenProperties
    <3> QED
      BY <1>5, <3>1 DEF Range, ChainLinks
  <2>2. \A a \in AiCalls : Range(ownChain'[a]) \subseteq Links \cup {Env} /\ failedLinks'[a] \subseteq Links \cup {Env}
    BY <1>1, <1>2, <1>12, <1>13, <2>1 DEF AiTypeOK
  <2>3. servedBy' \in [AiCalls -> Links \cup {Env}]
    BY <1>1, <1>2, <1>3, <1>4, <1>7 DEF AiTypeOK, ChainLinks
  <2> QED
    BY <1>1, <1>2, <2>2, <2>3 DEF AiTypeOK
<1> QED
  BY <1>1, <1>2, <1>15, <1>16 DEF AiInv

LEMMA Counts ==
  /\ \A t \in Nat : t + 1 \in Nat \ {0}
  /\ \A n \in 1..5 : n \in Nat \ {0}
  /\ \A t \in Nat, n \in 1..5 : t >= 4 => t + 1 >= n
OBVIOUS

LEMMA TryAgainKept ==
  ASSUME AiInv, ShortChain(snapshot), NEW c \in AiCalls, TryAgain(c)
  PROVE  AiInv'
<1>1. /\ calling[c] = "waiting" /\ calling' = [calling EXCEPT ![c] = "asking"]
      /\ servedBy' = [servedBy EXCEPT ![c] = Picked(ownChain[c], cooling, tries[c])]
      /\ snapshot' = snapshot /\ cooling' = cooling /\ caller' = caller /\ tries' = tries
      /\ ownChain' = ownChain /\ failedLinks' = failedLinks /\ shifted' = shifted /\ spared' = spared
      /\ refreshed' = refreshed /\ cooled' = cooled
  BY DEF TryAgain
<1>2. AiTypeOK /\ DOMAIN ownChain = AiCalls /\ DOMAIN failedLinks = AiCalls
  BY DEF AiInv
<1>3. PICK own, s, t, failed : own = ownChain[c] /\ t = tries[c] /\ failed = failedLinks[c] /\ s = Picked(own, cooling, t)
  OBVIOUS
<1>4. CallFits(caller, "waiting", own, t, servedBy[c], failed, c \in shifted, c \in spared, snapshot, cooling)
  BY <1>1, <1>3 DEF AiInv
<1>5. Fits(caller, "waiting", own, t, servedBy[c], failed)
  BY <1>4 DEF CallFits
<1>6. /\ own \in Seq(ChainLinks) /\ Len(own) \in 1..5 /\ t \in Nat /\ t < Limit(caller, own)
      /\ failed \subseteq ChainLinks /\ caller # "embedder" /\ t # 0
  BY <1>5 DEF Fits
<1>7. caller \in Callers
  BY <1>2 DEF AiTypeOK
<1>8. PICK f : f = Serving(snapshot, cooling)
  OBVIOUS
<1>9. f \in Seq(ChainLinks) /\ Len(f) \in 1..5 /\ (Env \notin cooling => f[Len(f)] = Env)
  BY <1>8, ServingIs DEF ShortChain, ChainLinks
<1>10. /\ s \in ChainLinks
       /\ caller = "image" => s = LinkAt(own, t + 1)
       /\ caller = "chat" => s = LinkAt(f, Least(t + 1, Len(own)))
       /\ caller = "vision" => s = LinkAt(f, t + 1)
  BY <1>3, <1>6, <1>7, <1>8, PickedIs
<1>11. Fits(caller, "asking", own, t, s, failed)
  BY <1>6, <1>10 DEF Fits
<1>12. ASSUME c \notin shifted PROVE Walks(caller, "asking", own, t, s, failed, snapshot, cooling)
  <2>1. Walks(caller, "waiting", own, t, servedBy[c], failed, snapshot, cooling)
    BY <1>4, <1>12 DEF CallFits
  <2>2. ASSUME caller = "chat", Env \notin cooling, t + 1 >= Len(own) PROVE s = Env
    <3>1. Len(f) <= Len(own)
      BY <1>8, <2>1, <2>2 DEF Walks
    <3>2. t + 1 \in Nat \ {0}
      BY <1>6, Counts
    <3>3. Len(own) \in Nat \ {0}
      BY <1>6, Counts
    <3>4. Least(t + 1, Len(own)) = Len(own)
      BY ONLY <2>2, <3>2, <3>3, LeastIs
    <3>5. LinkAt(f, Len(own)) = f[Len(f)]
      BY <1>9, <3>1, <3>3, LinkAtIs
    <3> QED
      BY <1>9, <1>10, <2>2, <3>4, <3>5
  <2>3. ASSUME caller = "vision", Env \notin cooling, t >= 4 PROVE s = Env
    <3>1. t + 1 \in Nat \ {0} /\ t + 1 >= Len(f)
      BY <1>6, <1>9, <2>3, Counts
    <3>2. LinkAt(f, t + 1) = f[Len(f)]
      BY <1>9, <3>1, LinkAtIs
    <3> QED
      BY <1>9, <1>10, <2>3, <3>2
  <2> QED
    BY <1>6, <2>1, <2>2, <2>3 DEF Walks
<1>13. CallFits(caller, "asking", own, t, s, failed, c \in shifted, c \in spared', snapshot, cooling')
  BY <1>1, <1>11, <1>12 DEF CallFits
<1>14. calling'[c] = "asking" /\ ownChain'[c] = own /\ tries'[c] = t /\ servedBy'[c] = s /\ failedLinks'[c] = failed
  BY <1>1, <1>2, <1>3 DEF AiTypeOK
<1>15. \A a \in AiCalls \ {c} : calling'[a] = calling[a] /\ servedBy'[a] = servedBy[a]
  BY <1>1, <1>2 DEF AiTypeOK
<1>16. \A a \in AiCalls : CallFits(caller', calling'[a], ownChain'[a], tries'[a], servedBy'[a], failedLinks'[a],
                                   a \in shifted', a \in spared', snapshot', cooling')
  BY <1>1, <1>13, <1>14, <1>15, OthersFit
<1>17. AiTypeOK'
  <2>1. servedBy' \in [AiCalls -> Links \cup {Env}]
    BY <1>1, <1>2, <1>3, <1>10 DEF AiTypeOK, ChainLinks
  <2> QED
    BY <1>1, <1>2, <2>1 DEF AiTypeOK
<1> QED
  BY <1>1, <1>2, <1>16, <1>17 DEF AiInv

LEMMA AnswersKept ==
  ASSUME AiInv, ShortChain(snapshot), NEW c \in AiCalls, LinkAnswers(c) \/ LinkRefuses(c)
  PROVE  AiInv'
<1>1. PICK st \in {"answered", "refused"} : calling' = [calling EXCEPT ![c] = st]
  BY DEF LinkAnswers, LinkRefuses
<1>2. /\ calling[c] = "asking"
      /\ snapshot' = snapshot /\ cooling' = cooling /\ caller' = caller /\ tries' = tries
      /\ ownChain' = ownChain /\ failedLinks' = failedLinks /\ shifted' = shifted /\ spared' = spared
      /\ servedBy' = servedBy /\ refreshed' = refreshed /\ cooled' = cooled
  BY DEF LinkAnswers, LinkRefuses
<1>3. AiTypeOK /\ DOMAIN ownChain = AiCalls /\ DOMAIN failedLinks = AiCalls
  BY DEF AiInv
<1>4. CallFits(caller, "asking", ownChain[c], tries[c], servedBy[c], failedLinks[c],
               c \in shifted, c \in spared, snapshot, cooling)
  BY <1>2 DEF AiInv
<1>5. Fits(caller, st, ownChain[c], tries[c], servedBy[c], failedLinks[c])
  BY <1>4 DEF CallFits, Fits
<1>6. calling'[c] = st /\ \A a \in AiCalls \ {c} : calling'[a] = calling[a]
  BY <1>1, <1>3 DEF AiTypeOK
<1>7. CallFits(caller, st, ownChain[c], tries[c], servedBy[c], failedLinks[c],
               c \in shifted, c \in spared', snapshot, cooling')
  BY <1>5 DEF CallFits
<1>8. \A a \in AiCalls : CallFits(caller', calling'[a], ownChain'[a], tries'[a], servedBy'[a], failedLinks'[a],
                                  a \in shifted', a \in spared', snapshot', cooling')
  BY <1>2, <1>6, <1>7, OthersFit
<1>9. AiTypeOK'
  BY <1>1, <1>2, <1>3 DEF AiTypeOK
<1> QED
  BY <1>2, <1>3, <1>8, <1>9 DEF AiInv

LEMMA BlamedElsewhereKept ==
  ASSUME AiInv, ShortChain(snapshot), NEW l \in Links \cup {Env}, BlamedElsewhere(l)
  PROVE  AiInv'
<1>1. /\ cooling' = cooling \cup {l}
      /\ snapshot' = snapshot /\ caller' = caller /\ calling' = calling /\ tries' = tries
      /\ ownChain' = ownChain /\ failedLinks' = failedLinks /\ shifted' = shifted /\ spared' = spared
      /\ servedBy' = servedBy /\ refreshed' = refreshed /\ cooled' = cooled
  BY DEF BlamedElsewhere, calls
<1>2. AiTypeOK /\ DOMAIN ownChain = AiCalls /\ DOMAIN failedLinks = AiCalls
  BY DEF AiInv
<1>3. AiTypeOK'
  BY <1>1, <1>2 DEF AiTypeOK
<1>4. cooling \subseteq cooling'
  BY <1>1
<1>5. \A a \in AiCalls : CallFits(caller, calling[a], ownChain[a], tries[a], servedBy[a], failedLinks[a],
                                  a \in shifted, a \in spared, snapshot, cooling')
  BY <1>4, FitsAsMoreCools DEF AiInv
<1> QED
  BY <1>1, <1>2, <1>3, <1>5 DEF AiInv

LEMMA ChainMovesKept ==
  ASSUME AiInv, NEW chain, RefreshChain(chain) \/ \E l \in Links \cup {Env} : LinkCools(l), chain \in Chains
  PROVE  AiInv'
<1>1. /\ shifted' = shifted \cup UnderWay
      /\ caller' = caller /\ calling' = calling /\ tries' = tries
      /\ ownChain' = ownChain /\ failedLinks' = failedLinks /\ spared' = spared /\ servedBy' = servedBy
  BY DEF RefreshChain, LinkCools, calls
<1>2. AiTypeOK /\ DOMAIN ownChain = AiCalls /\ DOMAIN failedLinks = AiCalls
  BY DEF AiInv
<1>3. /\ snapshot' \in Chains /\ cooling' \subseteq Links \cup {Env}
      /\ refreshed' \in 0..MaxRefreshes /\ cooled' \in 0..MaxCooled
  BY <1>2, AiAssumption DEF AiTypeOK, RefreshChain, LinkCools
<1>4. AiTypeOK'
  BY <1>1, <1>2, <1>3 DEF AiTypeOK, UnderWay
<1>5. \A a \in AiCalls : /\ a \in shifted => a \in shifted'
                         /\ calling[a] \in {"asking", "waiting"} => a \in shifted'
  BY <1>1 DEF UnderWay
<1>6. \A a \in AiCalls : CallFits(caller, calling[a], ownChain[a], tries[a], servedBy[a], failedLinks[a],
                                  a \in shifted', a \in spared, snapshot', cooling')
  <2> SUFFICES ASSUME NEW a \in AiCalls
               PROVE  CallFits(caller, calling[a], ownChain[a], tries[a], servedBy[a], failedLinks[a],
                               a \in shifted', a \in spared, snapshot', cooling')
    OBVIOUS
  <2>1. CallFits(caller, calling[a], ownChain[a], tries[a], servedBy[a], failedLinks[a],
                 a \in shifted, a \in spared, snapshot, cooling)
    BY DEF AiInv
  <2>2. (a \in shifted => a \in shifted') /\ (calling[a] \in {"asking", "waiting"} => a \in shifted')
    BY <1>5
  <2> QED
    BY <2>1, <2>2 DEF CallFits
<1> QED
  BY <1>1, <1>2, <1>4, <1>6 DEF AiInv

LEMMA BudgetIs ==
  ASSUME ShortChain(snapshot), NEW c \in AiCalls, NEW own, own = ownChain[c], Len(own) \in 1..5, caller \in Callers,
         NEW t, t = tries[c], t \in Nat
  PROVE  /\ t + 1 < Budget(c) => t + 1 < Limit(caller, own) /\ (caller = "embedder" => t = 0)
         /\ t + 1 >= Budget(c) /\ caller = "chat" => t + 1 >= Len(own)
         /\ t + 1 >= Budget(c) /\ caller \in {"image", "vision"} => t >= 4
<1>1. CASE caller = "chat"
  <2>1. Budget(c) = Least(6, IF Len(own) > 3 THEN Len(own) ELSE 3)
    BY <1>1 DEF Budget
  <2>2. Budget(c) = Limit(caller, own) /\ Limit(caller, own) \in Nat /\ Limit(caller, own) >= Len(own)
    <3>1. \A n \in 1..5 : LET m == IF n > 3 THEN n ELSE 3 IN Least(6, m) = m /\ m \in Nat /\ m >= n
      BY DEF Least
    <3>2. Limit(caller, own) = IF Len(own) > 3 THEN Len(own) ELSE 3
      BY <1>1 DEF Limit
    <3> QED
      BY <2>1, <3>1, <3>2
  <2> QED
    BY <1>1, <2>2
<1>2. CASE caller = "embedder"
  <2>1. Budget(c) = (IF Len(InService(cooling)) < 2 /\ t = 0 THEN 1 ELSE 2) /\ Limit(caller, own) = 2
    BY <1>2 DEF Budget, Limit
  <2> QED
    BY <1>2, <2>1
<1>3. CASE caller \in {"image", "vision"}
  <2>1. Budget(c) = 5 /\ Limit(caller, own) = 5
    BY <1>3 DEF Budget, Limit
  <2> QED
    BY <1>3, <2>1
<1> QED
  BY <1>1, <1>2, <1>3 DEF Callers

LEMMA BlamedIs ==
  ASSUME ShortChain(snapshot), NEW c \in AiCalls, ownChain[c] \in Seq(ChainLinks), Len(ownChain[c]) \in 1..5,
         tries[c] \in Nat, caller \in Callers
  PROVE  /\ cooling \subseteq Parked(c) /\ Parked(c) \subseteq cooling \cup ChainLinks
         /\ caller = "embedder" /\ tries[c] + 1 < Budget(c) => Parked(c) = cooling \cup {Serving(snapshot, cooling)[1]}
<1>1. PICK f : f = Serving(snapshot, cooling)
  OBVIOUS
<1>2. f \in Seq(ChainLinks) /\ Len(f) \in 1..5
  BY <1>1, ServingIs DEF ShortChain, ChainLinks
<1>3. InService(cooling) = f
  BY <1>1, InServiceIs DEF InServiceOf
<1>4. tries[c] + 1 \in Nat \ {0}
  BY Counts
<1>5. LinkAt(ownChain[c], tries[c] + 1) \in ChainLinks /\ LinkAt(f, tries[c] + 1) \in ChainLinks
  BY <1>2, <1>4, LinkAtIs
<1>6. f[1] \in ChainLinks
  BY <1>2, <1>4, LinkAtIs
<1>7. Blamed(c) \in ChainLinks /\ (caller = "embedder" => Blamed(c) = f[1])
  BY <1>3, <1>5, <1>6 DEF Blamed, Callers
<1>8. Budget(c) \in Nat
  BY DEF Budget, Least
<1>9. caller = "embedder" /\ tries[c] + 1 < Budget(c) => Parked(c) = cooling \cup {Blamed(c)}
  BY <1>8 DEF Parked
<1>10. Parked(c) = cooling \/ Parked(c) = cooling \cup {Blamed(c)}
  BY DEF Parked
<1> QED
  BY <1>1, <1>7, <1>9, <1>10

\* What a failed attempt leaves of the call: one that gave up, or one more attempt.
FailsTo(c, own, t, failed, hot, st2, t2, s2) ==
  \/ /\ t + 1 >= Budget(c) /\ st2 = "gaveUp" /\ t2 = t /\ s2 = servedBy[c]
     /\ c \in spared' <=> c \in spared \/ Env \in hot
  \/ /\ t + 1 < Budget(c) /\ t2 = t + 1 /\ (c \in spared' <=> c \in spared)
     /\ st2 = IF caller = "embedder" THEN "asking" ELSE "waiting"
     /\ s2 = IF caller # "embedder" THEN servedBy[c] ELSE Picked(own, hot, t + 1)

\* What is known of the call whose attempt fails, and what becomes of it.
FailingAt(c, own, t, failed, hot) ==
  /\ calling[c] = "asking" /\ own = ownChain[c] /\ t = tries[c]
  /\ failed = failedLinks[c] \cup {servedBy[c]} /\ hot = Parked(c)

FailureLeft(c, own, failed, hot, st2, t2, s2) ==
  /\ CallFits(caller, st2, own, t2, s2, failed, c \in shifted, c \in spared', snapshot, hot)
  /\ s2 \in ChainLinks /\ t2 \in 0..5 /\ failed \subseteq ChainLinks /\ hot \subseteq cooling \cup ChainLinks
  /\ cooling \subseteq hot

LEMMA FailureFits ==
  ASSUME AiInv, ShortChain(snapshot), NEW c \in AiCalls, NEW own, NEW t, NEW failed, NEW hot,
         FailingAt(c, own, t, failed, hot), NEW st2, NEW t2, NEW s2, FailsTo(c, own, t, failed, hot, st2, t2, s2)
  PROVE  FailureLeft(c, own, failed, hot, st2, t2, s2)
<1> USE DEF FailingAt
<1>1. PICK s, before : s = servedBy[c] /\ before = failedLinks[c]
  OBVIOUS
<1>2. CallFits(caller, "asking", own, t, s, before, c \in shifted, c \in spared, snapshot, cooling)
  BY <1>1 DEF AiInv
<1>3. Fits(caller, "asking", own, t, s, before)
  BY <1>2 DEF CallFits
<1>4. /\ own \in Seq(ChainLinks) /\ Len(own) \in 1..5 /\ t \in Nat /\ t < Limit(caller, own)
      /\ s \in ChainLinks /\ before \subseteq ChainLinks
      /\ caller = "image" => s = LinkAt(own, t + 1)
      /\ caller = "embedder" /\ t = 0 => before = {}
  BY <1>3 DEF Fits
<1>5. caller \in Callers
  BY DEF AiInv, AiTypeOK
<1>6. /\ t + 1 < Budget(c) => t + 1 < Limit(caller, own) /\ (caller = "embedder" => t = 0)
      /\ t + 1 >= Budget(c) /\ caller = "chat" => t + 1 >= Len(own)
      /\ t + 1 >= Budget(c) /\ caller \in {"image", "vision"} => t >= 4
  BY <1>4, <1>5, BudgetIs
<1>7. /\ cooling \subseteq hot /\ hot \subseteq cooling \cup ChainLinks
      /\ caller = "embedder" /\ t + 1 < Budget(c) => hot = cooling \cup {Serving(snapshot, cooling)[1]}
  BY <1>4, <1>5, BlamedIs
<1>8. failed = before \cup {s} /\ failed \subseteq ChainLinks
  BY <1>1, <1>4
<1>9. c \notin shifted => Walks(caller, "asking", own, t, s, before, snapshot, cooling)
  BY <1>2 DEF CallFits
<1>10. CallFits(caller, "asking", own, t, s, before, c \in shifted, c \in spared, snapshot, hot)
  BY <1>2, <1>7, FitsAsMoreCools
<1>11. c \notin shifted => Walks(caller, "asking", own, t, s, before, snapshot, hot)
  BY <1>10 DEF CallFits
<1>12. Limit(caller, own) \in 0..5
  BY <1>4 DEF Limit
<1>13. CASE /\ t + 1 >= Budget(c) /\ st2 = "gaveUp" /\ t2 = t /\ s2 = servedBy[c]
            /\ c \in spared' <=> c \in spared \/ Env \in hot
  <2>1. ASSUME caller # "embedder", c \notin shifted, c \notin spared' PROVE s = Env
    <3>1. Env \notin hot /\ Walks(caller, "asking", own, t, s, before, snapshot, hot)
      BY <1>11, <1>13, <2>1
    <3>2. CASE caller = "chat"
      BY <1>6, <1>13, <3>1, <3>2 DEF Walks
    <3>3. CASE caller = "vision"
      BY <1>6, <1>13, <3>1, <3>3 DEF Walks
    <3>4. CASE caller = "image"
      <4>1. own[Len(own)] = Env /\ s = LinkAt(own, t + 1)
        BY <1>4, <3>1, <3>4 DEF Walks
      <4>2. t >= 4
        BY <1>6, <1>13, <3>4
      <4>3. t + 1 \in Nat \ {0} /\ t + 1 >= Len(own)
        BY <1>4, <4>2, Counts
      <4> QED
        BY <1>4, <4>1, <4>3, LinkAtIs
    <3> QED
      BY <1>5, <2>1, <3>2, <3>3, <3>4 DEF Callers
  <2>2. Fits(caller, st2, own, t2, s2, failed)
    BY <1>1, <1>4, <1>8, <1>13 DEF Fits
  <2>3. CallFits(caller, st2, own, t2, s2, failed, c \in shifted, c \in spared', snapshot, hot)
    BY <1>8, <1>13, <2>1, <2>2 DEF CallFits
  <2> QED
    BY <1>1, <1>4, <1>7, <1>8, <1>12, <1>13, <2>3 DEF FailureLeft
<1>14. CASE /\ t + 1 < Budget(c) /\ t2 = t + 1 /\ (c \in spared' <=> c \in spared)
            /\ st2 = IF caller = "embedder" THEN "asking" ELSE "waiting"
            /\ s2 = IF caller # "embedder" THEN servedBy[c] ELSE Picked(own, hot, t + 1)
  <2>1. PICK g : g = Serving(snapshot, hot)
    OBVIOUS
  <2>2. t2 \in Nat \ {0}
    BY <1>4, <1>14, Counts
  <2>3. s2 \in ChainLinks /\ (caller = "embedder" => s2 = g[1])
    BY <1>1, <1>4, <1>5, <1>14, <2>1, <2>2, PickedIs
  <2>4. t2 < Limit(caller, own)
    BY <1>6, <1>14
  <2>5. Fits(caller, st2, own, t2, s2, failed)
    BY <1>4, <1>8, <1>14, <2>2, <2>3, <2>4 DEF Fits
  <2>6. ASSUME c \notin shifted PROVE Walks(caller, st2, own, t2, s2, failed, snapshot, hot)
    <3>1. Walks(caller, "asking", own, t, s, before, snapshot, hot)
      BY <1>11, <2>6
    <3>2. CASE caller = "embedder"
      <4>1. t = 0 /\ before = {} /\ hot = cooling \cup {Serving(snapshot, cooling)[1]}
        BY <1>4, <1>6, <1>7, <1>14, <3>2
      <4>2. s \in cooling \/ s = Serving(snapshot, cooling)[1]
        BY <1>9, <2>6, <3>2, <4>1 DEF Walks
      <4>3. failed \subseteq hot
        BY <1>8, <4>1, <4>2
      <4>4. g[1] \notin hot \/ Range(snapshot) \cup {Env} \subseteq hot
        BY <2>1, ServingIs DEF ShortChain
      <4>5. s2 \notin failed \/ Range(snapshot) \cup {Env} \subseteq hot
        BY <2>3, <3>2, <4>3, <4>4
      <4> QED
        BY <2>2, <3>2, <4>3, <4>5 DEF Walks
    <3>3. CASE caller # "embedder"
      <4>1. st2 = "waiting"
        BY <1>14, <3>3
      <4> QED
        BY <3>1, <3>3, <4>1 DEF Walks
    <3> QED
      BY <3>2, <3>3
  <2>7. st2 \in {"asking", "waiting"}
    BY <1>14
  <2>8. CallFits(caller, st2, own, t2, s2, failed, c \in shifted, c \in spared', snapshot, hot)
    BY <2>5, <2>6, <2>7 DEF CallFits
  <2>9. t2 \in 0..5
    BY <1>12, <2>2, <2>4
  <2> QED
    BY <1>7, <1>8, <2>3, <2>8, <2>9 DEF FailureLeft
<1> QED
  BY <1>13, <1>14 DEF FailsTo

LEMMA ConnectionFailsKept ==
  ASSUME AiInv, ShortChain(snapshot), NEW c \in AiCalls, ConnectionFails(c)
  PROVE  AiInv'
<1>1. AiTypeOK /\ DOMAIN ownChain = AiCalls /\ DOMAIN failedLinks = AiCalls
  BY DEF AiInv
<1>2. /\ calling[c] = "asking" /\ cooling' = Parked(c)
      /\ failedLinks' = [failedLinks EXCEPT ![c] = @ \cup {servedBy[c]}]
      /\ snapshot' = snapshot /\ caller' = caller /\ ownChain' = ownChain /\ shifted' = shifted
      /\ refreshed' = refreshed /\ cooled' = cooled
  BY DEF ConnectionFails
<1>3. /\ DOMAIN calling = AiCalls /\ DOMAIN tries = AiCalls /\ DOMAIN servedBy = AiCalls /\ spared \subseteq AiCalls
      /\ \A a \in AiCalls : tries[a] \in Nat
  BY <1>1 DEF AiTypeOK
<1>4. PICK own, t, failed, hot, st2, t2, s2 :
        /\ own = ownChain[c] /\ t = tries[c] /\ failed = failedLinks[c] \cup {servedBy[c]} /\ hot = Parked(c)
        /\ st2 = calling'[c] /\ t2 = tries'[c] /\ s2 = servedBy'[c]
  OBVIOUS
<1>5. Budget(c) \in Int /\ t \in Nat
  BY <1>3, <1>4 DEF Budget, Least
<1>6. /\ FailsTo(c, own, t, failed, hot, st2, t2, s2)
      /\ \A a \in AiCalls \ {c} : /\ calling'[a] = calling[a] /\ tries'[a] = tries[a] /\ servedBy'[a] = servedBy[a]
                                  /\ a \in spared' <=> a \in spared
      /\ spared' \subseteq AiCalls /\ DOMAIN tries' = AiCalls /\ DOMAIN servedBy' = AiCalls
      /\ calling' \in [AiCalls -> {"new", "asking", "waiting", "answered", "refused", "gaveUp"}]
  <2>1. CASE tries[c] + 1 >= Budget(c)
    <3>1. /\ calling' = [calling EXCEPT ![c] = "gaveUp"] /\ tries' = tries /\ servedBy' = servedBy
          /\ spared' = IF Env \in hot THEN spared \cup {c} ELSE spared
      BY <1>4, <2>1 DEF ConnectionFails
    <3>2. FailsTo(c, own, t, failed, hot, st2, t2, s2)
      BY <1>3, <1>4, <2>1, <3>1 DEF FailsTo
    <3>3. \A a \in AiCalls \ {c} : calling'[a] = calling[a] /\ (a \in spared' <=> a \in spared)
      BY <1>3, <3>1
    <3>4. calling' \in [AiCalls -> {"new", "asking", "waiting", "answered", "refused", "gaveUp"}]
      BY <1>1, <3>1 DEF AiTypeOK
    <3> QED
      BY <1>3, <3>1, <3>2, <3>3, <3>4
  <2>2. CASE tries[c] + 1 < Budget(c)
    <3>1. /\ tries' = [tries EXCEPT ![c] = tries[c] + 1] /\ spared' = spared
          /\ calling' = [calling EXCEPT ![c] = IF caller = "embedder" THEN calling[c] ELSE "waiting"]
          /\ servedBy' = IF caller # "embedder" THEN servedBy
                         ELSE [servedBy EXCEPT ![c] = Picked(own, hot, t + 1)]
      BY <1>4, <1>5, <2>2 DEF ConnectionFails
    <3>2. calling'[c] = (IF caller = "embedder" THEN "asking" ELSE "waiting") /\ tries'[c] = t + 1
      BY <1>2, <1>3, <1>4, <3>1
    <3>3. servedBy'[c] = IF caller # "embedder" THEN servedBy[c] ELSE Picked(own, hot, t + 1)
      BY <1>3, <3>1
    <3>4. FailsTo(c, own, t, failed, hot, st2, t2, s2)
      BY <1>4, <2>2, <3>1, <3>2, <3>3 DEF FailsTo
    <3>5. \A a \in AiCalls \ {c} : calling'[a] = calling[a] /\ tries'[a] = tries[a] /\ servedBy'[a] = servedBy[a]
      BY <1>3, <3>1
    <3>6. calling' \in [AiCalls -> {"new", "asking", "waiting", "answered", "refused", "gaveUp"}]
      BY <1>1, <3>1 DEF AiTypeOK
    <3>7. DOMAIN tries' = AiCalls /\ DOMAIN servedBy' = AiCalls
      BY <1>3, <3>1
    <3> QED
      BY <1>3, <3>1, <3>4, <3>5, <3>6, <3>7
  <2> QED
    BY <1>4, <1>5, <2>1, <2>2
<1>7. /\ CallFits(caller, st2, own, t2, s2, failed, c \in shifted, c \in spared', snapshot, hot)
      /\ s2 \in ChainLinks /\ t2 \in 0..5 /\ failed \subseteq ChainLinks /\ hot \subseteq cooling \cup ChainLinks
      /\ cooling \subseteq hot
  <2>1. FailingAt(c, own, t, failed, hot)
    BY <1>2, <1>4 DEF FailingAt
  <2>2. FailsTo(c, own, t, failed, hot, st2, t2, s2)
    BY <1>6
  <2>3. FailureLeft(c, own, failed, hot, st2, t2, s2)
    BY ONLY AiInv, ShortChain(snapshot), c \in AiCalls, <2>1, <2>2, FailureFits
  <2> QED
    BY <2>3 DEF FailureLeft
<1>8. /\ failedLinks'[c] = failed /\ DOMAIN failedLinks' = AiCalls
      /\ \A a \in AiCalls \ {c} : failedLinks'[a] = failedLinks[a]
  BY <1>1, <1>2, <1>4
<1>9. CallFits(caller, calling'[c], ownChain'[c], tries'[c], servedBy'[c], failedLinks'[c],
               c \in shifted, c \in spared', snapshot, cooling')
  BY <1>2, <1>4, <1>7, <1>8
<1>10. \A a \in AiCalls : CallFits(caller', calling'[a], ownChain'[a], tries'[a], servedBy'[a], failedLinks'[a],
                                   a \in shifted', a \in spared', snapshot', cooling')
  <2>1. cooling \subseteq cooling' /\ \A a \in AiCalls : ownChain'[a] = ownChain[a]
    BY <1>2, <1>4, <1>7
  <2> QED
    BY <1>2, <1>6, <1>8, <1>9, <2>1, OthersFit
<1>11. AiTypeOK'
  <2>1. cooling' \subseteq Links \cup {Env}
    BY <1>1, <1>2, <1>4, <1>7 DEF AiTypeOK, ChainLinks
  <2>2. \A a \in AiCalls : Range(ownChain'[a]) \subseteq Links \cup {Env} /\ failedLinks'[a] \subseteq Links \cup {Env}
    BY <1>1, <1>2, <1>7, <1>8 DEF AiTypeOK, ChainLinks
  <2>3. servedBy' \in [AiCalls -> Links \cup {Env}]
    <3>1. servedBy' = servedBy \/ servedBy' = [servedBy EXCEPT ![c] = Picked(own, hot, t + 1)]
      BY <1>4 DEF ConnectionFails
    <3>2. servedBy' = [servedBy EXCEPT ![c] = s2]
      BY <1>1, <1>4, <3>1 DEF AiTypeOK
    <3> QED
      BY <1>1, <1>7, <3>2 DEF AiTypeOK, ChainLinks
  <2>4. tries' \in [AiCalls -> 0..5]
    <3>1. tries' = tries \/ tries' = [tries EXCEPT ![c] = tries[c] + 1]
      BY DEF ConnectionFails
    <3>2. tries' = [tries EXCEPT ![c] = t2]
      BY <1>1, <1>4, <3>1 DEF AiTypeOK
    <3> QED
      BY <1>1, <1>7, <3>2 DEF AiTypeOK
  <2> QED
    BY <1>1, <1>2, <1>6, <2>1, <2>2, <2>3, <2>4 DEF AiTypeOK
<1> QED
  BY <1>2, <1>1, <1>8, <1>10, <1>11 DEF AiInv

\* Whoever else fails meanwhile and wherever its links are, a call moves along
\* its chain: to the .env block before it gives up, away from the link that
\* failed, and to the account of the link that answered.  A chain of more than
\* five links, .env block included, is longer than a vision or an image call
\* tries: resolve and markFailure of the resolver and the four loops on them.
THEOREM FailoverKept ==
  ASSUME IsFiniteSet(Links), Cardinality(Links) <= 4
  PROVE  AiSpec => []FailoverSound
<1>1. AiInit => AiInv
  <2> SUFFICES ASSUME AiInit PROVE AiInv
    OBVIOUS
  <2>1. AiTypeOK
    <3>1. Range(<<>>) = {}
      BY DEF Range
    <3>2. \A c \in AiCalls : Range(ownChain[c]) \subseteq Links \cup {Env} /\ failedLinks[c] \subseteq Links \cup {Env}
      BY <3>1 DEF AiInit
    <3> QED
      BY <3>2, AiAssumption DEF AiInit, AiTypeOK
  <2> QED
    BY <2>1 DEF AiInit, AiInv, CallFits
<1>2. AiInv /\ [AiNext]_aiVars => AiInv'
  <2> SUFFICES ASSUME AiInv, [AiNext]_aiVars PROVE AiInv'
    OBVIOUS
  <2>1. ShortChain(snapshot) /\ snapshot \in Chains
    BY ChainsShort DEF AiInv, AiTypeOK
  <2>2. ASSUME NEW chain \in Chains, RefreshChain(chain) PROVE AiInv'
    BY <2>2, ChainMovesKept
  <2>3. ASSUME NEW l \in Links \cup {Env}, LinkCools(l) PROVE AiInv'
    BY <2>1, <2>3, ChainMovesKept
  <2>4. ASSUME NEW l \in Links \cup {Env}, BlamedElsewhere(l) PROVE AiInv'
    BY <2>1, <2>4, BlamedElsewhereKept
  <2>5. ASSUME NEW c \in AiCalls, StartCall(c) PROVE AiInv'
    BY <2>1, <2>5, StartCallKept
  <2>6. ASSUME NEW c \in AiCalls, LinkAnswers(c) \/ LinkRefuses(c) PROVE AiInv'
    BY <2>1, <2>6, AnswersKept
  <2>7. ASSUME NEW c \in AiCalls, ConnectionFails(c) PROVE AiInv'
    BY <2>1, <2>7, ConnectionFailsKept
  <2>8. ASSUME NEW c \in AiCalls, TryAgain(c) PROVE AiInv'
    BY <2>1, <2>8, TryAgainKept
  <2>9. CASE UNCHANGED aiVars
    BY <2>9 DEF aiVars, AiInv, AiTypeOK
  <2> QED
    BY <2>2, <2>3, <2>4, <2>5, <2>6, <2>7, <2>8, <2>9 DEF AiNext
<1>3. AiInv => FailoverSound
  <2> SUFFICES ASSUME AiInv PROVE FailoverSound
    OBVIOUS
  <2>1. \A c \in AiCalls : CallFits(caller, calling[c], ownChain[c], tries[c], servedBy[c], failedLinks[c],
                                    c \in shifted, c \in spared, snapshot, cooling)
    BY DEF AiInv
  <2>2. LastLinkReached
    BY <2>1 DEF LastLinkReached, CallFits
  <2>3. RetriedElsewhere
    BY <2>1 DEF RetriedElsewhere, CallFits, Walks
  <2>4. BilledIsServing
    BY <2>1 DEF BilledIsServing, BilledAt, CallFits, Fits
  <2> QED
    BY <2>2, <2>3, <2>4 DEF AiInv, FailoverSound
<1> QED
  BY <1>1, <1>2, <1>3, PTL DEF AiSpec

-----------------------------------------------------------------------------
(* The stream of an answer.  It is charged when it ends, however it ends; a *)
(* consumer that has not read yet when the service pauses came during the   *)
(* pause (PausedReader), which is why what was sent is never sent again.    *)

\* Who is reading when the service pauses began during the pause; a pause is
\* one that a stream may follow.
PausedReader ==
  streaming = "pause" => restarts < MaxRestarts /\ (reader # NotReading => beganPaused)

StreamInv == StreamTypeOK /\ PausedReader /\ NeverReplayed /\ StreamCharged

LEMMA StreamBegins == StreamInit => StreamInv
<1> SUFFICES ASSUME StreamInit PROVE StreamInv
  OBVIOUS
<1> USE StreamAssumption DEF StreamInit, Streams, NotReading
<1>1. 0 \in 0..MaxRestarts
  OBVIOUS
<1>2. {unsettled, beganPaused} \subseteq BOOLEAN
  BY Zenon
<1>2a. StreamTypeOK
  BY <1>1, <1>2 DEF StreamTypeOK
<1>3. PausedReader /\ NeverReplayed /\ StreamCharged
  BY DEF PausedReader, NeverReplayed, StreamCharged
<1> QED
  BY <1>2a, <1>3 DEF StreamInv

\* A row is added to none.
LEMMA FirstRow ==
  ASSUME NEW row
  PROVE  /\ Append(<<>>, row) = <<row>>
         /\ Len(<<row>>) = 1
         /\ \A S : <<>> \in Seq(S) /\ (row \in S => <<row>> \in Seq(S))
OBVIOUS

LEMMA StreamGoesOn == StreamInv /\ [StreamNext]_streamVars => StreamInv'
<1> SUFFICES ASSUME StreamInv, [StreamNext]_streamVars PROVE StreamInv'
  OBVIOUS
<1> USE StreamAssumption DEF Streams, NotReading
<1>i. StreamTypeOK /\ PausedReader /\ NeverReplayed /\ StreamCharged
  BY DEF StreamInv
<1>1. CASE SendParts
  BY <1>i, <1>1 DEF StreamInv, SendParts, StreamTypeOK, PausedReader, NeverReplayed, StreamCharged
<1>2. CASE BeginReading
  <2>1. {unsettled', beganPaused'} \subseteq BOOLEAN
    <3>1. unsettled \in BOOLEAN
      BY <1>i DEF StreamTypeOK
    <3> QED
      BY <1>2, <3>1, Zenon DEF BeginReading
  <2>2. StreamTypeOK'
    BY <1>i, <1>2, <2>1 DEF BeginReading, StreamTypeOK
  <2>3. /\ reader = NotReading /\ reader' = restarts /\ (streaming = "pause" => beganPaused')
        /\ UNCHANGED <<streaming, restarts, readFrom>>
    BY <1>2, Zenon DEF BeginReading
  <2>5. PausedReader' /\ NeverReplayed'
    BY <1>i, <2>3 DEF StreamTypeOK, PausedReader, NeverReplayed
  <2>4. StreamCharged'
    BY <1>i, <1>2 DEF BeginReading, StreamCharged
  <2> QED
    BY <2>2, <2>5, <2>4 DEF StreamInv
<1>3. CASE ReadParts
  BY <1>i, <1>3 DEF StreamInv, ReadParts, StreamTypeOK, PausedReader, NeverReplayed, StreamCharged
<1>4. CASE Pause
  BY <1>i, <1>4 DEF StreamInv, Pause, MayBeginAnew, StreamTypeOK, PausedReader, NeverReplayed, StreamCharged
<1>5. CASE BeginAnew
  <2>1. restarts' \in 0..MaxRestarts
    BY <1>i, <1>5 DEF BeginAnew, StreamTypeOK, PausedReader
  <2> QED
    BY <1>i, <1>5, <2>1 DEF StreamInv, BeginAnew, StreamTypeOK, PausedReader, NeverReplayed, StreamCharged
<1>6. ASSUME NEW n \in 0..1, Deliver(n) PROVE StreamInv'
  <2> DEFINE row == [tokens |-> n, minimum |-> n > 0]
  <2>1. streamRows = <<>>
    BY <1>i, <1>6 DEF Deliver, StreamCharged
  <2>2. /\ streaming = "open" /\ streaming' = "delivered" /\ streamRows' = <<row>>
        /\ UNCHANGED <<restarts, sending, reader, readFrom, beganPaused>>
    BY <1>6, <2>1, FirstRow DEF Deliver
  <2>3. row \in [tokens : 0..1, minimum : BOOLEAN]
    OBVIOUS
  <2>4. StreamTypeOK'
    <3>1. {unsettled', beganPaused'} \subseteq BOOLEAN
      <4>1. beganPaused \in BOOLEAN
        BY <1>i DEF StreamTypeOK
      <4> QED
        BY <1>6, <4>1, Zenon DEF Deliver, Told
    <3>2. streamRows' \in Seq([tokens : 0..1, minimum : BOOLEAN])
      BY <2>2, <2>3, FirstRow
    <3> QED
      BY <1>i, <2>2, <3>1, <3>2 DEF StreamTypeOK
  <2>5. PausedReader' /\ NeverReplayed'
    BY <1>i, <2>2 DEF PausedReader, NeverReplayed
  <2>6. restarts \in sending /\ ~unsettled' => row = [tokens |-> 1, minimum |-> TRUE]
    <3>1. restarts \in sending /\ ~unsettled' => n = 1
      BY <1>6 DEF Deliver, Usage, Told
    <3>2. (1 > 0) = TRUE
      OBVIOUS
    <3> QED
      BY <3>1, <3>2, Zenon
  <2>7. StreamCharged'
    BY <2>2, <2>6, FirstRow DEF StreamCharged
  <2> QED
    BY <2>4, <2>5, <2>7 DEF StreamInv
<1>7. ASSUME NEW n \in 0..1, Reject(n) PROVE StreamInv'
  <2> DEFINE row == [tokens |-> n, minimum |-> TRUE]
  <2>1. streamRows = <<>>
    BY <1>i, <1>7 DEF Reject, StreamCharged
  <2>2. /\ streaming = "open" /\ streaming' = "rejected"
        /\ streamRows' = IF n = 0 THEN <<>> ELSE <<row>>
        /\ UNCHANGED <<restarts, sending, reader, readFrom, beganPaused>>
    BY <1>7, <2>1, FirstRow DEF Reject
  <2>3. row \in [tokens : 0..1, minimum : BOOLEAN]
    OBVIOUS
  <2>4. StreamTypeOK'
    <3>1. {unsettled', beganPaused'} \subseteq BOOLEAN
      <4>1. beganPaused \in BOOLEAN
        BY <1>i DEF StreamTypeOK
      <4> QED
        BY <1>7, <4>1, Zenon DEF Reject, Told
    <3>2. streamRows' \in Seq([tokens : 0..1, minimum : BOOLEAN])
      BY <2>2, <2>3, FirstRow
    <3> QED
      BY <1>i, <2>2, <3>1, <3>2 DEF StreamTypeOK
  <2>5. PausedReader' /\ NeverReplayed'
    BY <1>i, <2>2 DEF PausedReader, NeverReplayed
  <2>6. restarts \in sending /\ ~unsettled' => n # 0 /\ row = [tokens |-> 1, minimum |-> TRUE]
    <3>1. restarts \in sending /\ ~unsettled' => n = 1
      BY <1>7 DEF Reject, Usage, Told
    <3> QED
      BY <3>1
  <2>7. StreamCharged'
    <3>1. Len(<<>>) <= 1 /\ Len(<<row>>) <= 1
      BY FirstRow
    <3>2. streamRows' = <<>> \/ streamRows' = <<row>>
      BY <2>2
    <3> QED
      BY <2>2, <2>6, <3>1, <3>2 DEF StreamCharged
  <2> QED
    BY <2>4, <2>5, <2>7 DEF StreamInv
<1>8. CASE UNCHANGED streamVars
  BY <1>i, <1>8 DEF StreamInv, streamVars, StreamTypeOK, PausedReader, NeverReplayed, StreamCharged
<1> QED
  BY <1>1, <1>2, <1>3, <1>4, <1>5, <1>6, <1>7, <1>8 DEF StreamNext

\* A streamed answer is read from one stream and charged once, whatever fails
\* and whenever its reader begins.
THEOREM StreamKept == StreamSpec => []StreamSound
<1>1. StreamInv => StreamSound
  BY DEF StreamInv, StreamSound
<1> QED
  BY StreamBegins, StreamGoesOn, <1>1, PTL DEF StreamSpec

-----------------------------------------------------------------------------
(* A call of the LLM service.  The meter and the caller stay together:      *)
(* until the caller is told nothing was charged late, and what was reported *)
(* is what is owed (Metered).  The requests are bounded attempt by attempt  *)
(* (AskedSoFar), and the loop by the calls that still wait for a reply.     *)

\* What one attempt may ask of the model, what those before it may have asked, and
\* what all of them may.
Quota == CASE operation = "toolCall" -> MaxIterations + 2 [] operation = "call" -> 2 [] OTHER -> 1
Earlier == modelAttempt * Quota + (IF phase \in {"second", "backoff2"} THEN MaxModelAttempts ELSE 0)
Ceiling == MaxModelAttempts * (IF operation = "toolCall" THEN MaxIterations + 2 ELSE 2)

\* What has been asked by the step the work is at.
AskedSoFar ==
  /\ phase = "lookup" => invocations = 0 /\ modelAttempt = 0 /\ iteration = 0
  /\ phase = "model" => invocations <= Earlier + iteration + 1
  /\ phase = "tools" => invocations <= Earlier + iteration
  /\ phase = "final" => invocations <= Earlier + iteration + (IF reissued THEN 2 ELSE 1)
  /\ phase \in {"first", "second", "one"} => invocations <= Earlier + 1
  /\ phase \in {"backoff", "backoff2"} =>
       invocations <= Earlier + Quota /\ modelAttempt < MaxModelAttempts - 1
  /\ phase = "over" => invocations <= Ceiling

\* The steps are those of what was asked for.
PhaseFits ==
  /\ phase \in {"model", "tools"} => operation = "toolCall" /\ ~reissued
  /\ phase = "final" => operation \in {"call", "toolCall"}
  /\ phase \in {"first", "second", "backoff2"} => operation = "extract"
  /\ phase = "one" => operation = "step"
  /\ phase = "lookup" => told = "waiting" /\ ~reissued
  /\ operation # "toolCall" => iteration = 0

\* A reply is owed while the tools run; a call that is still to be replied to may
\* fail once more.
LoopFits ==
  /\ (phase # "tools" <=> batch = <<>>)
  /\ phase = "model" => iteration < MaxIterations
  /\ phase \in {"lookup", "model"} => ~abandoned
  /\ ~abandoned => \A t \in ToolCalls : streak[t] < RepeatLimit
  /\ \A t \in ToolCalls : streak[t] + Len(batch) < RepeatLimit + MaxBatch

\* What was reported was charged, and none of it late before the caller is told.
Metered ==
  /\ reported = spent /\ spentLate <= spent
  /\ told = "waiting" => spentLate = 0
  /\ phase = "lookup" => spent = 0
  /\ told = "hit" => spent = 0 /\ phase = "over"

LlmInv == LlmTypeOK /\ AskedSoFar /\ PhaseFits /\ LoopFits /\ Metered /\ ChargedOnce /\ NothingLingers

LEMMA EarlierFits ==
  ASSUME LlmTypeOK, PhaseFits
  PROVE  /\ Quota \in Nat /\ Earlier \in Nat /\ Ceiling \in Nat
         /\ Earlier + Quota <= Ceiling
         /\ operation = "toolCall" => Quota = MaxIterations + 2
         /\ operation = "call" => Quota = 2
         /\ operation \in {"extract", "step"} => Quota = 1
<1>1. /\ modelAttempt \in Nat /\ modelAttempt + 1 <= MaxModelAttempts
      /\ MaxModelAttempts \in Nat /\ MaxIterations \in Nat
  BY LlmAssumption DEF LlmTypeOK
<1>2. ASSUME NEW q \in Nat
      PROVE  /\ modelAttempt * q \in Nat /\ MaxModelAttempts * q \in Nat
             /\ modelAttempt * q + q <= MaxModelAttempts * q
  <2>1. modelAttempt * q \in Nat /\ MaxModelAttempts * q \in Nat
    BY <1>1
  <2>2. (modelAttempt + 1) * q = modelAttempt * q + q
    BY <1>1
  <2>3. PICK r \in Nat : MaxModelAttempts = (modelAttempt + 1) + r
    <3>1. MaxModelAttempts - (modelAttempt + 1) \in Nat
      BY <1>1
    <3> QED
      BY <1>1, <3>1
  <2>4. MaxModelAttempts * q = (modelAttempt + 1) * q + r * q /\ r * q >= 0
    BY <1>1, <2>3
  <2> QED
    BY <2>1, <2>2, <2>4
<1>3. CASE operation = "toolCall"
  <2>1. MaxIterations + 2 \in Nat /\ phase \notin {"second", "backoff2"}
    BY <1>1, <1>3 DEF PhaseFits
  <2>2. /\ Quota = MaxIterations + 2 /\ Ceiling = MaxModelAttempts * (MaxIterations + 2)
        /\ Earlier = modelAttempt * (MaxIterations + 2) + 0
    BY <1>3, <2>1 DEF Quota, Ceiling, Earlier
  <2> QED
    BY <1>2, <1>3, <2>1, <2>2
<1>4. CASE operation = "call"
  <2>1. phase \notin {"second", "backoff2"}
    BY <1>4 DEF PhaseFits
  <2>2. Quota = 2 /\ Ceiling = MaxModelAttempts * 2 /\ Earlier = modelAttempt * 2 + 0
    BY <1>4, <2>1 DEF Quota, Ceiling, Earlier
  <2> QED
    BY <1>1, <1>4, <2>2
<1>5. CASE operation \in {"extract", "step"}
  <2>1. /\ Quota = 1 /\ Ceiling = MaxModelAttempts * 2
        /\ Earlier \in {modelAttempt * 1 + 0, modelAttempt * 1 + MaxModelAttempts}
    BY <1>5 DEF Quota, Ceiling, Earlier
  <2> QED
    BY <1>1, <1>5, <2>1
<1> QED
  BY <1>3, <1>4, <1>5 DEF LlmTypeOK, Operations

LEMMA TailOfBatch ==
  ASSUME NEW b \in Batches, b # <<>>
  PROVE  /\ Head(b) \in ToolCalls /\ Tail(b) \in Batches
         /\ Len(b) \in Nat /\ Len(b) <= MaxBatch /\ Len(Tail(b)) = Len(b) - 1
         /\ Len(Tail(b)) \in Nat
<1>1. PICK n \in 0..MaxBatch : b \in [1..n -> ToolCalls]
  BY DEF Batches
<1>2. n \in Nat /\ MaxBatch \in Nat
  BY LlmAssumption
<1>3. b \in Seq(ToolCalls) /\ Len(b) = n
  BY <1>1, <1>2
<1>4. n # 0
  BY <1>3
<1>5. Tail(b) \in Seq(ToolCalls) /\ Len(Tail(b)) = n - 1 /\ Head(b) \in ToolCalls
  BY <1>2, <1>3, <1>4
<1>6. Tail(b) \in [1..(n - 1) -> ToolCalls]
  <2>1. ASSUME NEW t \in Seq(ToolCalls), Len(t) = n - 1
        PROVE  t \in [1..(n - 1) -> ToolCalls]
    BY <2>1
  <2> QED
    BY <1>5, <2>1
<1>7. n - 1 \in 0..MaxBatch
  BY <1>1, <1>2, <1>4
<1> QED
  BY <1>1, <1>2, <1>3, <1>5, <1>6, <1>7 DEF Batches

LEMMA BatchLength ==
  ASSUME NEW b \in Batches
  PROVE  Len(b) \in Nat /\ Len(b) <= MaxBatch
<1>1. PICK n \in 0..MaxBatch : b \in [1..n -> ToolCalls]
  BY DEF Batches
<1>2. n \in Nat /\ MaxBatch \in Nat
  BY LlmAssumption
<1> QED
  BY <1>1, <1>2

LEMMA RecordUsageFits ==
  ASSUME usageRows = <<>>, unrecorded \in BOOLEAN, NEW n \in Nat, NEW outcome \in {"answered", "failed"},
         RecordUsage(outcome, n)
  PROVE  /\ usageRows' \in {<<>>, <<[tokens |-> n, minimum |-> n > 0]>>}
         /\ unrecorded' \in BOOLEAN
         /\ outcome = "answered" \/ n > 0 => Len(usageRows') = 1 \/ unrecorded'
         /\ outcome = "failed" /\ n = 0 => usageRows' = <<>>
<1> DEFINE row == [tokens |-> n, minimum |-> n > 0]
<1>1. Append(<<>>, row) = <<row>> /\ Len(<<row>>) = 1
  OBVIOUS
<1>2. CASE outcome = "failed" /\ n = 0
  <2>1. UNCHANGED ledger
    BY <1>2 DEF RecordUsage
  <2> QED
    BY <1>2, <2>1 DEF ledger
<1>3. CASE outcome = "answered" \/ n > 0
  <2>1. ~(outcome = "failed" /\ n = 0)
    BY <1>3
  <2>2. \/ usageRows' = Append(usageRows, row) /\ UNCHANGED unrecorded
        \/ unrecorded' = TRUE /\ UNCHANGED usageRows
    BY <2>1, Zenon DEF RecordUsage
  <2>3. CASE usageRows' = Append(usageRows, row) /\ UNCHANGED unrecorded
    <3>1. usageRows' = <<row>> /\ (unrecorded' <=> unrecorded)
      BY <1>1, <2>3
    <3> HIDE DEF row
    <3>2. /\ usageRows' \in {<<>>, <<row>>} /\ unrecorded' \in BOOLEAN /\ Len(usageRows') = 1
      BY <1>1, <2>3, <3>1
    <3> QED
      BY <2>1, <3>2 DEF row
  <2>4. CASE unrecorded' = TRUE /\ UNCHANGED usageRows
    BY <2>1, <2>4
  <2> QED
    BY <2>2, <2>3, <2>4
<1> QED
  BY <1>2, <1>3

\* What is fetched after the end changes nothing of what was recorded.
LEMMA ChargedFits ==
  ASSUME LlmInv, phase \notin {"over", "lookup"}, NEW n \in Nat, Charged(n),
         told' = told, usageRows' = usageRows, unrecorded' <=> unrecorded, overdue' <=> overdue
  PROVE  /\ {reported', spent', spentLate'} \subseteq Nat
         /\ reported' = spent' /\ spentLate' <= spent'
         /\ told' = "waiting" => spentLate' = 0
         /\ told' # "hit" /\ ChargedOnce'
<1>1. {reported, spent, spentLate} \subseteq Nat /\ told \in {"waiting", "answered", "failed"}
  BY DEF LlmInv, LlmTypeOK, Metered
<1>2. CASE told = "waiting"
  <2>1. spentLate' = 0 /\ reported' = spent' /\ spent' = spent + n /\ usageRows = <<>>
    BY <1>2 DEF LlmInv, Metered, ChargedOnce, Charged
  <2> QED
    BY <1>1, <1>2, <2>1 DEF ChargedOnce
<1>3. CASE told \in {"answered", "failed"}
  <2>1. /\ reported' = spent' /\ spent' = spent + n /\ spentLate' = spentLate + n /\ spentLate <= spent
        /\ spent' - spentLate' = spent - spentLate /\ overdue'
    BY <1>1, <1>3 DEF LlmInv, Metered, NothingLingers, Charged
  <2>2. ChargedOnce'
    BY <1>3, <2>1 DEF LlmInv, ChargedOnce
  <2> QED
    BY <1>1, <1>3, <2>1, <2>2
<1> QED
  BY <1>1, <1>2, <1>3

\* An attempt that ends, whatever its last answer cost: the caller is told and
\* the row written, unless the deadline had done both.
LEMMA EndsKeeps ==
  ASSUME LlmInv, phase \notin {"over", "lookup"}, NEW n \in Nat, Charged(n),
         NEW outcome \in {"answered", "failed"}, Concludes(outcome, reported + n), batch = <<>>,
         UNCHANGED <<operation, modelAttempt, iteration, batch, streak, ranLate>>,
         abandoned' <=> abandoned, reissued' <=> reissued, overdue' <=> overdue
  PROVE  LlmInv'
<1>1. /\ {reported, spent, spentLate, invocations} \subseteq Nat /\ unrecorded \in BOOLEAN
      /\ told \in {"waiting", "answered", "failed"}
  BY DEF LlmInv, LlmTypeOK, Metered
<1>2. phase' = "over" /\ invocations' = invocations
  BY DEF Concludes
<1>3. /\ {reported', spent', spentLate'} \subseteq Nat
      /\ reported' = spent' /\ spentLate' <= spent' /\ told' \in {"answered", "failed"}
      /\ usageRows' \in Seq([tokens : Nat, minimum : BOOLEAN]) /\ unrecorded' \in BOOLEAN
      /\ ChargedOnce'
  <2>1. CASE told = "waiting"
    <3>1. /\ usageRows = <<>> /\ reported' = spent' /\ spent' = spent + n /\ spentLate' = 0
          /\ reported + n = spent'
      BY <2>1 DEF LlmInv, Metered, ChargedOnce, Charged
    <3>2. told' = outcome /\ RecordUsage(outcome, reported + n) /\ reported + n \in Nat
      BY <1>1, <2>1 DEF Concludes
    <3>3. /\ usageRows' \in {<<>>, <<[tokens |-> reported + n, minimum |-> reported + n > 0]>>}
          /\ unrecorded' \in BOOLEAN
          /\ outcome = "answered" \/ reported + n > 0 => Len(usageRows') = 1 \/ unrecorded'
          /\ outcome = "failed" /\ reported + n = 0 => usageRows' = <<>>
      BY <1>1, <3>1, <3>2, RecordUsageFits
    <3>4. spent' - spentLate' = reported + n /\ spent' \in Nat
      BY <1>1, <3>1
    <3>5. ChargedOnce'
      BY <3>1, <3>2, <3>3, <3>4 DEF ChargedOnce
    <3>6. [tokens |-> reported + n, minimum |-> reported + n > 0] \in [tokens : Nat, minimum : BOOLEAN]
      BY <3>2
    <3>7. usageRows' \in Seq([tokens : Nat, minimum : BOOLEAN])
      <4>1. ASSUME NEW S, NEW r \in S
            PROVE  <<>> \in Seq(S) /\ <<r>> \in Seq(S)
        OBVIOUS
      <4> QED
        BY <3>3, <3>6, <4>1, ZenonT(40)
    <3> QED
      BY <1>1, <3>1, <3>2, <3>3, <3>4, <3>5, <3>7
  <2>2. CASE told # "waiting"
    <3>1. told' = told /\ usageRows' = usageRows /\ (unrecorded' <=> unrecorded)
      BY <2>2 DEF Concludes, ledger
    <3>2. usageRows \in Seq([tokens : Nat, minimum : BOOLEAN])
      BY DEF LlmInv, LlmTypeOK
    <3> QED
      BY <1>1, <2>2, <3>1, <3>2, ChargedFits
  <2> QED
    BY <2>1, <2>2
<1>4. LlmTypeOK'
  BY <1>1, <1>2, <1>3 DEF LlmInv, LlmTypeOK
<1>5. AskedSoFar'
  <2>1. Ceiling' = Ceiling
    BY DEF Ceiling
  <2>2. invocations <= Earlier + Quota /\ Earlier + Quota <= Ceiling
        /\ {Earlier, Quota, Ceiling} \subseteq Nat
    <3>1. /\ Quota \in Nat /\ Earlier \in Nat /\ Ceiling \in Nat /\ Earlier + Quota <= Ceiling
          /\ operation = "toolCall" => Quota = MaxIterations + 2
          /\ operation = "call" => Quota = 2
          /\ operation \in {"extract", "step"} => Quota = 1
      BY EarlierFits DEF LlmInv
    <3>2. /\ iteration \in 0..MaxIterations /\ phase \in Invoking \cup {"lookup", "tools", "backoff", "backoff2", "over"}
          /\ MaxIterations \in Nat /\ operation \in Operations
      BY LlmAssumption DEF LlmInv, LlmTypeOK
    <3>3. AskedSoFar /\ PhaseFits
      BY DEF LlmInv
    <3> QED
      BY <1>1, <3>1, <3>2, <3>3 DEF AskedSoFar, PhaseFits, Invoking, Operations
  <2> QED
    BY <1>1, <1>2, <2>1, <2>2 DEF AskedSoFar
<1>6. PhaseFits'
  BY <1>2 DEF LlmInv, PhaseFits
<1>7. LoopFits'
  BY <1>2 DEF LlmInv, LoopFits
<1>8. Metered' /\ NothingLingers'
  BY <1>2, <1>3 DEF LlmInv, Metered, NothingLingers
<1> QED
  BY <1>3, <1>4, <1>5, <1>6, <1>7, <1>8 DEF LlmInv

LEMMA ThrowsKeeps ==
  ASSUME LlmInv, phase \in Invoking, NEW n \in Nat, Charged(n), NEW transient \in BOOLEAN,
         AttemptThrows(transient, reported + n),
         UNCHANGED <<operation, modelAttempt, iteration, batch, streak, ranLate>>,
         abandoned' <=> abandoned, reissued' <=> reissued, overdue' <=> overdue
  PROVE  LlmInv'
<1>1. batch = <<>> /\ phase \notin {"over", "lookup", "tools"}
  BY DEF LlmInv, LoopFits, Invoking
<1>2. CASE transient /\ told = "waiting" /\ modelAttempt < MaxModelAttempts - 1
  <2>1. /\ phase' = (IF phase = "second" THEN "backoff2" ELSE "backoff")
        /\ UNCHANGED <<invocations, told, usageRows>>
    BY <1>2 DEF AttemptThrows, ledger
  <2>2. unrecorded' <=> unrecorded
    BY <1>2, Zenon DEF AttemptThrows, ledger
  <2>3. /\ {reported', spent', spentLate'} \subseteq Nat
        /\ reported' = spent' /\ spentLate' <= spent'
        /\ told' = "waiting" => spentLate' = 0
        /\ told' # "hit" /\ ChargedOnce'
    BY <1>1, <2>1, <2>2, ChargedFits
  <2>4. LlmTypeOK'
    <3>1. /\ phase' \in {"backoff", "backoff2"} /\ {invocations', reported', spent', spentLate'} \subseteq Nat
          /\ {abandoned', reissued', overdue', unrecorded'} \subseteq BOOLEAN
      BY <2>1, <2>2, <2>3 DEF LlmInv, LlmTypeOK
    <3> QED
      BY <2>1, <3>1 DEF LlmInv, LlmTypeOK
  <2>5. AskedSoFar'
    <3>1. Earlier' = Earlier /\ Quota' = Quota
      BY <1>1, <2>1 DEF Earlier, Quota, Invoking
    <3>2. /\ Quota \in Nat /\ Earlier \in Nat
          /\ operation = "toolCall" => Quota = MaxIterations + 2
          /\ operation = "call" => Quota = 2
          /\ operation \in {"extract", "step"} => Quota = 1
      BY EarlierFits DEF LlmInv
    <3>3. /\ iteration \in 0..MaxIterations /\ MaxIterations \in Nat /\ invocations \in Nat
      BY LlmAssumption DEF LlmInv, LlmTypeOK
    <3>4. AskedSoFar /\ PhaseFits
      BY DEF LlmInv
    <3>5. invocations <= Earlier + Quota
      BY <3>2, <3>3, <3>4 DEF AskedSoFar, PhaseFits, Invoking
    <3> QED
      BY <1>2, <2>1, <3>1, <3>5 DEF AskedSoFar
  <2>6. PhaseFits'
    BY <1>1, <2>1 DEF LlmInv, PhaseFits
  <2>7. LoopFits'
    BY <1>1, <2>1 DEF LlmInv, LoopFits
  <2>8. Metered' /\ NothingLingers'
    BY <1>2, <2>1, <2>3 DEF LlmInv, Metered, NothingLingers
  <2> QED
    BY <2>3, <2>4, <2>5, <2>6, <2>7, <2>8 DEF LlmInv
<1>3. CASE ~(transient /\ told = "waiting" /\ modelAttempt < MaxModelAttempts - 1)
  <2>1. Concludes("failed", reported + n)
    BY <1>3 DEF AttemptThrows
  <2> QED
    BY <1>1, <2>1, EndsKeeps
<1> QED
  BY <1>2, <1>3

LEMMA LookUpAnswerKeeps ==
  ASSUME LlmInv, LookUpAnswer
  PROVE  LlmInv'
<1>1. /\ phase = "lookup" /\ told = "waiting" /\ ~reissued /\ batch = <<>>
      /\ ~abandoned /\ spent = 0 /\ reported = 0 /\ spentLate = 0
      /\ invocations = 0 /\ modelAttempt = 0 /\ iteration = 0
  BY DEF LlmInv, LookUpAnswer, AskedSoFar, PhaseFits, LoopFits, Metered
<1>2. UNCHANGED <<operation, modelAttempt, iteration, batch, streak, reported, spent, spentLate,
                  usageRows, ranLate>>
  BY DEF LookUpAnswer, loop, tally, ledger
<1>3. /\ (abandoned' <=> abandoned) /\ (reissued' <=> reissued)
      /\ (overdue' <=> overdue) /\ (unrecorded' <=> unrecorded)
  BY Zenon DEF LookUpAnswer, loop, ledger
<1>4. /\ told' \in {"hit", "waiting"}
      /\ told' = "hit" => phase' = "over" /\ invocations' = 0
      /\ told' = "waiting" => phase' = FirstPhase /\ invocations' = 1
  BY <1>1 DEF LookUpAnswer, AsksModel
<1>5. /\ operation \in Operations
      /\ FirstPhase \in {"model", "final", "first", "one"}
      /\ (operation = "call" <=> FirstPhase = "final")
      /\ (operation = "toolCall" <=> FirstPhase = "model")
      /\ (operation = "extract" <=> FirstPhase = "first")
      /\ (operation = "step" <=> FirstPhase = "one")
  BY DEF LlmInv, LlmTypeOK, Operations, FirstPhase
<1>6. LlmTypeOK'
  <2>1. /\ phase' \in Invoking \cup {"over"} /\ told' \in {"hit", "waiting"} /\ invocations' \in Nat
    BY <1>4, <1>5 DEF Invoking
  <2>2. {abandoned', reissued', overdue', unrecorded'} \subseteq BOOLEAN
    <3>1. UNCHANGED <<abandoned, reissued, overdue, unrecorded>>
      BY DEF LookUpAnswer, loop, ledger
    <3> QED
      BY <3>1 DEF LlmInv, LlmTypeOK
  <2> QED
    BY <1>2, <2>1, <2>2 DEF LlmInv, LlmTypeOK
<1>7. AskedSoFar'
  <2>1. Ceiling' = Ceiling /\ Ceiling \in Nat
    BY <1>2, EarlierFits DEF LlmInv, Ceiling
  <2>2. LlmTypeOK' => MaxModelAttempts \in Nat
    BY LlmAssumption
  <2>3. told' = "waiting" => Earlier' = 0
    <3>1. \A q : q \in Nat => 0 * q = 0
      OBVIOUS
    <3>2. Quota' = Quota /\ Quota \in Nat
      BY <1>2, EarlierFits DEF LlmInv, Quota
    <3>3. modelAttempt' * Quota' = 0
      BY <1>1, <1>2, <3>1, <3>2
    <3> QED
      BY <1>4, <1>5, <3>3 DEF Earlier
  <2>4. told' = "waiting" => AskedSoFar'
    BY <1>1, <1>2, <1>3, <1>4, <1>5, <2>3 DEF AskedSoFar
  <2>5. told' = "hit" => AskedSoFar'
    BY <1>4, <2>1 DEF AskedSoFar
  <2> QED
    BY <1>4, <2>4, <2>5
<1>8. PhaseFits'
  BY <1>1, <1>2, <1>3, <1>4, <1>5 DEF LlmInv, PhaseFits, Operations
<1>9. LoopFits'
  BY <1>1, <1>2, <1>3, <1>4, <1>5, LlmAssumption DEF LlmInv, LoopFits
<1>10. Metered' /\ ChargedOnce'
  BY <1>1, <1>2, <1>3, <1>4 DEF LlmInv, Metered, ChargedOnce
<1>11. NothingLingers'
  BY <1>1, <1>2, <1>3, <1>4 DEF LlmInv, NothingLingers
<1> QED
  BY <1>6, <1>7, <1>8, <1>9, <1>10, <1>11 DEF LlmInv

LEMMA TryAnewKeeps ==
  ASSUME LlmInv, TryAnew
  PROVE  LlmInv'
<1>1. /\ phase \in {"backoff", "backoff2"} /\ batch = <<>> /\ told = "waiting"
      /\ modelAttempt < MaxModelAttempts - 1 /\ modelAttempt' = modelAttempt + 1
      /\ iteration' = 0 /\ streak' = [t \in ToolCalls |-> 0]
      /\ invocations' = invocations + 1
      /\ phase' = (IF phase = "backoff2" THEN "second" ELSE FirstPhase)
  BY DEF LlmInv, TryAnew, AsksModel, AskedSoFar, LoopFits, NothingLingers
<1>2. UNCHANGED <<operation, batch, told, reported, spent, spentLate, usageRows, ranLate>>
  BY DEF TryAnew, tally, ledger
<1>3. /\ ~abandoned' /\ ~reissued'
      /\ (overdue' <=> overdue) /\ (unrecorded' <=> unrecorded)
  BY Zenon DEF TryAnew, ledger
<1>4. /\ operation \in Operations
      /\ phase = "backoff2" => operation = "extract"
      /\ operation = "call" => FirstPhase = "final"
      /\ operation = "toolCall" => FirstPhase = "model"
      /\ operation = "extract" => FirstPhase = "first"
      /\ operation = "step" => FirstPhase = "one"
  BY DEF LlmInv, LlmTypeOK, Operations, FirstPhase, PhaseFits
<1>5. /\ phase' \in Invoking
      /\ operation = "call" => phase' = "final"
      /\ operation = "toolCall" => phase' = "model"
      /\ operation = "extract" => phase' \in {"first", "second"}
      /\ operation = "step" => phase' = "one"
  BY <1>1, <1>4 DEF Invoking, Operations
<1>6. LlmTypeOK'
  <2>1. {abandoned', reissued', overdue', unrecorded'} \subseteq BOOLEAN
    <3>1. abandoned' \in BOOLEAN /\ reissued' \in BOOLEAN
      BY Zenon DEF TryAnew
    <3>2. UNCHANGED <<overdue, unrecorded>>
      BY DEF TryAnew, ledger
    <3> QED
      BY <3>1, <3>2 DEF LlmInv, LlmTypeOK
  <2>2. /\ iteration' \in 0..MaxIterations /\ modelAttempt' \in 0..(MaxModelAttempts - 1)
        /\ streak' \in [ToolCalls -> 0..(RepeatLimit + MaxBatch)]
        /\ invocations' \in Nat
    BY <1>1, LlmAssumption DEF LlmInv, LlmTypeOK
  <2> QED
    BY <1>2, <1>5, <2>1, <2>2 DEF LlmInv, LlmTypeOK
<1>7. AskedSoFar'
  <2>1. /\ Quota \in Nat /\ Earlier \in Nat /\ Quota' = Quota /\ invocations \in Nat
    BY <1>2, EarlierFits DEF LlmInv, LlmTypeOK, Quota
  <2>2. Earlier' = Earlier + Quota
    <3>1. (modelAttempt + 1) * Quota = modelAttempt * Quota + Quota /\ modelAttempt * Quota \in Nat
      BY <2>1 DEF LlmInv, LlmTypeOK
    <3>2. (IF phase' \in {"second", "backoff2"} THEN MaxModelAttempts ELSE 0)
            = (IF phase \in {"second", "backoff2"} THEN MaxModelAttempts ELSE 0)
      BY <1>1, <1>4 DEF Operations
    <3>3. (IF phase \in {"second", "backoff2"} THEN MaxModelAttempts ELSE 0) \in Nat
      BY LlmAssumption
    <3> QED
      BY <1>1, <2>1, <3>1, <3>2, <3>3 DEF Earlier
  <2>3. invocations <= Earlier + Quota
    BY <1>1 DEF LlmInv, AskedSoFar
  <2> QED
    BY <1>1, <1>3, <1>5, <2>1, <2>2, <2>3 DEF AskedSoFar, Invoking
<1>8. PhaseFits'
  BY <1>1, <1>2, <1>3, <1>4, <1>5 DEF PhaseFits, Operations
<1>9. LoopFits'
  BY <1>1, <1>2, <1>3, <1>5, LlmAssumption DEF LoopFits, Invoking
<1>10. Metered' /\ ChargedOnce' /\ NothingLingers'
  BY <1>1, <1>2, <1>3, <1>5 DEF LlmInv, Metered, ChargedOnce, NothingLingers, Invoking
<1> QED
  BY <1>6, <1>7, <1>8, <1>9, <1>10 DEF LlmInv

LEMMA DeadlineKeeps ==
  ASSUME LlmInv, Deadline
  PROVE  LlmInv'
<1>1. /\ phase \in Invoking \cup {"tools"} /\ told = "waiting" /\ told' = "failed"
      /\ RecordUsage("failed", reported)
      /\ UNCHANGED <<operation, phase, modelAttempt, iteration, batch, streak, reported, spent,
                     spentLate, invocations, ranLate>>
  BY DEF Deadline, loop, tally
<1>2. /\ overdue' /\ (abandoned' <=> abandoned) /\ (reissued' <=> reissued)
  BY Zenon DEF Deadline, loop
<1>3. /\ reported \in Nat /\ unrecorded \in BOOLEAN /\ reported = spent /\ spentLate = 0
      /\ usageRows = <<>>
  BY <1>1 DEF LlmInv, LlmTypeOK, Metered, ChargedOnce
<1>4. /\ usageRows' \in {<<>>, <<[tokens |-> reported, minimum |-> reported > 0]>>}
      /\ unrecorded' \in BOOLEAN
      /\ reported > 0 => Len(usageRows') = 1 \/ unrecorded'
      /\ reported = 0 => usageRows' = <<>>
  BY <1>1, <1>3, RecordUsageFits
<1>5. LlmTypeOK'
  <2>1. {abandoned', reissued', overdue', unrecorded'} \subseteq BOOLEAN
    <3>1. overdue' \in BOOLEAN
      BY Zenon DEF Deadline
    <3>2. UNCHANGED <<abandoned, reissued>>
      BY DEF Deadline, loop
    <3> QED
      BY <1>4, <3>1, <3>2 DEF LlmInv, LlmTypeOK
  <2>2. usageRows' \in Seq([tokens : Nat, minimum : BOOLEAN])
    <3>1. ASSUME NEW S, NEW r \in S
          PROVE  <<>> \in Seq(S) /\ <<r>> \in Seq(S)
      OBVIOUS
    <3>2. [tokens |-> reported, minimum |-> reported > 0] \in [tokens : Nat, minimum : BOOLEAN]
      BY <1>3
    <3> QED
      BY <1>4, <3>1, <3>2, Zenon
  <2> QED
    BY <1>1, <2>1, <2>2 DEF LlmInv, LlmTypeOK
<1>6. AskedSoFar'
  <2>1. Earlier' = Earlier /\ Quota' = Quota /\ Ceiling' = Ceiling
    BY <1>1 DEF Earlier, Quota, Ceiling
  <2> QED
    BY <1>1, <1>2, <2>1 DEF LlmInv, AskedSoFar
<1>7. PhaseFits' /\ LoopFits'
  BY <1>1, <1>2 DEF LlmInv, PhaseFits, LoopFits, Invoking
<1>8. Metered' /\ NothingLingers'
  BY <1>1, <1>2, <1>3 DEF LlmInv, Metered, NothingLingers, Invoking
<1>9. ChargedOnce'
  <2>1. spent' - spentLate' = reported
    BY <1>1, <1>3
  <2> QED
    BY <1>1, <1>2, <1>3, <1>4, <2>1 DEF ChargedOnce
<1> QED
  BY <1>5, <1>6, <1>7, <1>8, <1>9 DEF LlmInv

LEMMA ReissueKeeps ==
  ASSUME LlmInv, Reissue
  PROVE  LlmInv'
<1>1. /\ phase = "final" /\ phase' = "final" /\ invocations' = invocations + 1
      /\ UNCHANGED <<operation, modelAttempt, iteration, batch, streak, told, reported, spent,
                     spentLate, usageRows, ranLate>>
  BY DEF Reissue, AsksModel, loop, tally, ledger
<1>2. /\ ~reissued /\ reissued' /\ (abandoned' <=> abandoned) /\ (overdue' <=> overdue)
      /\ (unrecorded' <=> unrecorded)
  BY Zenon DEF Reissue, loop, ledger
<1>3. LlmTypeOK'
  <2>1. {abandoned', reissued', overdue', unrecorded'} \subseteq BOOLEAN
    <3>1. reissued' \in BOOLEAN
      BY Zenon DEF Reissue
    <3>2. UNCHANGED <<abandoned, overdue, unrecorded>>
      BY DEF Reissue, loop, ledger
    <3> QED
      BY <3>1, <3>2 DEF LlmInv, LlmTypeOK
  <2>2. invocations' \in Nat
    BY <1>1 DEF LlmInv, LlmTypeOK
  <2> QED
    BY <1>1, <2>1, <2>2 DEF LlmInv, LlmTypeOK
<1>4. AskedSoFar'
  <2>1. Earlier' = Earlier /\ Earlier \in Nat /\ iteration \in Nat /\ invocations \in Nat
    BY <1>1, EarlierFits, LlmAssumption DEF LlmInv, LlmTypeOK, Earlier, Quota
  <2> QED
    BY <1>1, <1>2, <2>1 DEF LlmInv, AskedSoFar
<1>5. PhaseFits' /\ LoopFits'
  BY <1>1, <1>2 DEF LlmInv, PhaseFits, LoopFits
<1>6. Metered' /\ NothingLingers' /\ ChargedOnce'
  BY <1>1, <1>2 DEF LlmInv, Metered, NothingLingers, ChargedOnce
<1> QED
  BY <1>3, <1>4, <1>5, <1>6 DEF LlmInv

LEMMA ModelAnswersKeeps ==
  ASSUME LlmInv, NEW n \in 0..1, NEW asked \in Batches, ModelAnswers(asked, n)
  PROVE  LlmInv'
<1>1. /\ phase = "model" /\ iteration' = iteration + 1 /\ batch' = asked /\ Charged(n) /\ n \in Nat
      /\ asked = <<>> => phase' = "final" /\ invocations' = invocations + 1
      /\ asked # <<>> => phase' = "tools" /\ invocations' = invocations
      /\ UNCHANGED <<operation, modelAttempt, streak, told, usageRows, ranLate>>
  BY DEF ModelAnswers, AsksModel, ledger
<1>2. /\ (abandoned' <=> abandoned) /\ (reissued' <=> reissued) /\ (overdue' <=> overdue)
      /\ (unrecorded' <=> unrecorded)
  BY Zenon DEF ModelAnswers, ledger
<1>3. /\ {reported', spent', spentLate'} \subseteq Nat
      /\ reported' = spent' /\ spentLate' <= spent'
      /\ told' = "waiting" => spentLate' = 0
      /\ told' # "hit" /\ ChargedOnce'
  BY <1>1, <1>2, ChargedFits
<1>4. /\ operation = "toolCall" /\ iteration \in Nat /\ iteration < MaxIterations /\ ~reissued
      /\ ~abandoned /\ invocations \in Nat /\ MaxIterations \in Nat
      /\ \A t \in ToolCalls : streak[t] \in Nat /\ streak[t] < RepeatLimit
  BY <1>1, LlmAssumption DEF LlmInv, LlmTypeOK, PhaseFits, LoopFits
<1>5. LlmTypeOK'
  <2>1. {abandoned', reissued', overdue', unrecorded'} \subseteq BOOLEAN
    <3>1. UNCHANGED <<abandoned, reissued, overdue, unrecorded>>
      BY DEF ModelAnswers, ledger
    <3> QED
      BY <3>1 DEF LlmInv, LlmTypeOK
  <2>2. phase' \in {"final", "tools"} /\ invocations' \in Nat /\ iteration' \in 0..MaxIterations
    BY <1>1, <1>4
  <2> QED
    BY <1>1, <1>3, <2>1, <2>2 DEF LlmInv, LlmTypeOK, Invoking
<1>6. AskedSoFar'
  <2>1. Earlier' = Earlier /\ Earlier \in Nat
    BY <1>1, EarlierFits DEF LlmInv, Earlier, Quota
  <2>2. invocations <= Earlier + iteration + 1
    BY <1>1 DEF LlmInv, AskedSoFar
  <2> QED
    BY <1>1, <1>2, <1>4, <2>1, <2>2 DEF AskedSoFar
<1>7. PhaseFits'
  BY <1>1, <1>2, <1>4 DEF PhaseFits
<1>8. LoopFits'
  <2>1. Len(asked) \in Nat /\ Len(asked) <= MaxBatch /\ (asked = <<>> => Len(asked) = 0)
    BY BatchLength
  <2>2. \A t \in ToolCalls : streak[t] + Len(asked) < RepeatLimit + MaxBatch
    <3>1. RepeatLimit \in Nat /\ MaxBatch \in Nat
      BY LlmAssumption
    <3>2. ASSUME NEW a \in Nat, NEW b \in Nat, a < RepeatLimit, b <= MaxBatch
          PROVE  a + b < RepeatLimit + MaxBatch
      BY <3>1, <3>2
    <3> QED
      BY <1>4, <2>1, <3>2
  <2> QED
    BY <1>1, <1>2, <1>4, <2>2 DEF LoopFits
<1>9. Metered' /\ NothingLingers'
  BY <1>1, <1>2, <1>3 DEF LlmInv, Metered, NothingLingers
<1> QED
  BY <1>3, <1>5, <1>6, <1>7, <1>8, <1>9 DEF LlmInv

\* A tool call is replied to, after a failure or without.
LEMMA RepliesKeep ==
  ASSUME LlmInv, phase = "tools", batch' = Tail(batch), NEW gaveUp \in BOOLEAN,
         abandoned' = gaveUp, GoesOn(Tail(batch), gaveUp),
         streak' \in [ToolCalls -> Nat], \A t \in ToolCalls : streak'[t] <= streak[t] + 1,
         ~gaveUp => \A t \in ToolCalls : streak'[t] < RepeatLimit,
         UNCHANGED <<operation, modelAttempt, iteration, told, reported, spent, spentLate, usageRows>>,
         UNCHANGED <<reissued, overdue, unrecorded>>,
         ranLate' \subseteq ToolCalls, ranLate' # {} => overdue
  PROVE  LlmInv'
<1>1. (reissued' <=> reissued) /\ (overdue' <=> overdue) /\ (unrecorded' <=> unrecorded)
      /\ (abandoned' <=> gaveUp)
  BY Zenon
<1>2. batch # <<>> /\ batch \in Batches
  BY DEF LlmInv, LlmTypeOK, LoopFits
<1>3. /\ Tail(batch) \in Batches /\ Len(batch) \in Nat /\ Len(batch) <= MaxBatch
      /\ Len(Tail(batch)) = Len(batch) - 1 /\ Len(Tail(batch)) \in Nat
  BY <1>2, TailOfBatch
<1>4. /\ phase' \in {"tools", "model", "final"}
      /\ (phase' = "tools" <=> Tail(batch) # <<>>)
      /\ phase' = "tools" => invocations' = invocations
      /\ phase' \in {"model", "final"} => invocations' = invocations + 1
      /\ phase' = "model" => ~gaveUp /\ iteration # MaxIterations
  BY DEF GoesOn, AsksModel
<1>5. /\ operation = "toolCall" /\ iteration \in 0..MaxIterations /\ ~reissued /\ invocations \in Nat
      /\ MaxIterations \in Nat /\ MaxBatch \in Nat /\ RepeatLimit \in Nat
      /\ \A t \in ToolCalls : streak[t] \in Nat /\ streak[t] + Len(batch) < RepeatLimit + MaxBatch
  BY LlmAssumption DEF LlmInv, LlmTypeOK, PhaseFits, LoopFits
<1>6. ASSUME NEW t \in ToolCalls
      PROVE  streak'[t] \in Nat /\ streak'[t] + Len(batch') < RepeatLimit + MaxBatch
  <2>1. streak'[t] \in Nat /\ streak[t] \in Nat /\ streak'[t] <= streak[t] + 1
    BY <1>5
  <2>2. streak[t] + Len(batch) < RepeatLimit + MaxBatch /\ Len(batch') = Len(batch) - 1
    BY <1>3, <1>5
  <2>3. RepeatLimit + MaxBatch \in Nat /\ Len(batch) \in Nat
    BY <1>3, <1>5
  <2>4. ASSUME NEW a \in Nat, NEW b \in Nat, NEW m \in Nat, NEW limit \in Nat, a <= b + 1, b + m < limit
        PROVE  a + (m - 1) < limit
    BY <2>4
  <2> QED
    BY <2>1, <2>2, <2>3, <2>4
<1>7. LlmTypeOK'
  <2>1. {abandoned', reissued', overdue', unrecorded'} \subseteq BOOLEAN
    BY DEF LlmInv, LlmTypeOK
  <2>2. streak' \in [ToolCalls -> 0..(RepeatLimit + MaxBatch)]
    <3>1. \A t \in ToolCalls : streak'[t] \in 0..(RepeatLimit + MaxBatch)
      BY <1>3, <1>5, <1>6
    <3> QED
      BY <3>1
  <2>3. invocations' \in Nat /\ batch' \in Batches
    BY <1>3, <1>4, <1>5
  <2> QED
    BY <1>4, <2>1, <2>2, <2>3 DEF LlmInv, LlmTypeOK, Invoking
<1>8. AskedSoFar'
  <2>1. Earlier' = Earlier /\ Earlier \in Nat
    BY <1>4, EarlierFits DEF LlmInv, Earlier, Quota
  <2>2. invocations <= Earlier + iteration
    BY DEF LlmInv, AskedSoFar
  <2> QED
    BY <1>1, <1>4, <1>5, <2>1, <2>2 DEF AskedSoFar
<1>9. PhaseFits'
  BY <1>1, <1>4, <1>5 DEF PhaseFits
<1>10. LoopFits'
  BY <1>1, <1>4, <1>5, <1>6 DEF LoopFits
<1>11. Metered' /\ ChargedOnce' /\ NothingLingers'
  BY <1>1, <1>4 DEF LlmInv, Metered, ChargedOnce, NothingLingers
<1> QED
  BY <1>7, <1>8, <1>9, <1>10, <1>11 DEF LlmInv

LEMMA ReplyUnknownKeeps ==
  ASSUME LlmInv, ReplyUnknown
  PROVE  LlmInv'
<1>1. /\ phase = "tools" /\ batch' = Tail(batch) /\ GoesOn(Tail(batch), abandoned)
      /\ UNCHANGED <<operation, modelAttempt, iteration, told, reported, spent, spentLate, usageRows>>
      /\ streak' = streak /\ ranLate' = ranLate
  BY DEF ReplyUnknown, tally, ledger
<1>2. UNCHANGED <<reissued, overdue, unrecorded>> /\ abandoned' = abandoned
  BY DEF ReplyUnknown, ledger
<1>3. /\ abandoned \in BOOLEAN /\ streak \in [ToolCalls -> 0..(RepeatLimit + MaxBatch)]
      /\ ranLate \subseteq ToolCalls
  BY DEF LlmInv, LlmTypeOK
<1>4. /\ ~abandoned => \A t \in ToolCalls : streak[t] < RepeatLimit
      /\ ranLate # {} => overdue
  BY DEF LlmInv, LoopFits, NothingLingers
<1>5. /\ streak' \in [ToolCalls -> Nat] /\ \A t \in ToolCalls : streak'[t] <= streak[t] + 1
      /\ ~abandoned => \A t \in ToolCalls : streak'[t] < RepeatLimit
  BY <1>1, <1>3, <1>4, LlmAssumption
<1> QED
  BY <1>1, <1>2, <1>3, <1>4, <1>5, RepliesKeep

LEMMA RunToolKeeps ==
  ASSUME LlmInv, NEW succeeds \in BOOLEAN, RunTool(succeeds)
  PROVE  LlmInv'
<1> DEFINE t == Head(batch)
           failures == IF succeeds THEN 0 ELSE streak[t] + 1
           gaveUp == abandoned \/ failures >= RepeatLimit
<1>1. /\ phase = "tools" /\ batch' = Tail(batch) /\ GoesOn(Tail(batch), gaveUp)
      /\ UNCHANGED <<operation, modelAttempt, iteration, told, reported, spent, spentLate, usageRows>>
      /\ streak' = [streak EXCEPT ![t] = failures]
      /\ ranLate' = IF told = "waiting" THEN ranLate ELSE ranLate \cup {t}
  BY DEF RunTool, tally, ledger
<1>2. UNCHANGED <<reissued, overdue, unrecorded>> /\ abandoned' = gaveUp
  BY DEF RunTool, ledger
<1>3. /\ t \in ToolCalls /\ streak \in [ToolCalls -> Nat] /\ ranLate \subseteq ToolCalls
      /\ RepeatLimit \in Nat /\ RepeatLimit > 0
  <2>1. batch # <<>> /\ batch \in Batches
    BY <1>1 DEF LlmInv, LlmTypeOK, LoopFits
  <2>2. t \in ToolCalls
    BY <2>1, TailOfBatch
  <2> QED
    BY <2>2, LlmAssumption DEF LlmInv, LlmTypeOK
<1>4. /\ ~abandoned => \A u \in ToolCalls : streak[u] < RepeatLimit
      /\ ranLate # {} => overdue
      /\ told # "waiting" => overdue
  BY <1>1 DEF LlmInv, LoopFits, NothingLingers
<1>5. gaveUp \in BOOLEAN
  <2>1. abandoned \in BOOLEAN
    BY DEF LlmInv, LlmTypeOK
  <2> QED
    BY <2>1
<1>6. ranLate' \subseteq ToolCalls /\ (ranLate' # {} => overdue)
  BY <1>1, <1>3, <1>4
<1>7. /\ failures \in Nat /\ failures <= streak[t] + 1
      /\ ~gaveUp => ~abandoned /\ failures < RepeatLimit
  BY <1>3
<1>8. streak' = [streak EXCEPT ![t] = failures]
  BY <1>1
<1> HIDE DEF failures, gaveUp, t
<1>9. /\ streak' \in [ToolCalls -> Nat] /\ \A u \in ToolCalls : streak'[u] <= streak[u] + 1
      /\ ~gaveUp => \A u \in ToolCalls : streak'[u] < RepeatLimit
  BY <1>3, <1>4, <1>7, <1>8
<1> QED
  BY <1>1, <1>2, <1>5, <1>6, <1>9, RepliesKeep

LEMMA RequestFailsKeeps ==
  ASSUME LlmInv, NEW transient \in BOOLEAN, RequestFails(transient)
  PROVE  LlmInv'
<1>1. {reported, spent, spentLate} \subseteq Nat
  BY DEF LlmInv, LlmTypeOK
<1>2. /\ phase \in Invoking /\ AttemptThrows(transient, reported + 0)
      /\ UNCHANGED <<operation, modelAttempt, iteration, batch, streak, ranLate>>
  <2>1. reported + 0 = reported
    BY <1>1
  <2> QED
    BY <2>1 DEF RequestFails, loop
<1>3. (abandoned' <=> abandoned) /\ (reissued' <=> reissued) /\ (overdue' <=> overdue)
  BY Zenon DEF RequestFails, loop
<1>4. Charged(0) /\ 0 \in Nat
  BY <1>1 DEF RequestFails, tally, Charged
<1> QED
  BY <1>2, <1>3, <1>4, ThrowsKeeps

LEMMA FinalAnswersKeeps ==
  ASSUME LlmInv, NEW n \in 0..1, NEW usable \in BOOLEAN, FinalAnswers(n, usable)
  PROVE  LlmInv'
<1>1. /\ phase = "final" /\ phase \in Invoking /\ Charged(n) /\ n \in Nat
      /\ UNCHANGED <<operation, modelAttempt, iteration, batch, streak, ranLate>>
      /\ batch = <<>>
  BY DEF FinalAnswers, loop, LlmInv, LoopFits, Invoking
<1>2. (abandoned' <=> abandoned) /\ (reissued' <=> reissued) /\ (overdue' <=> overdue)
  BY Zenon DEF FinalAnswers, loop
<1>3. CASE usable
  <2>1. Concludes("answered", reported + n)
    BY <1>3 DEF FinalAnswers
  <2> QED
    BY <1>1, <1>2, <2>1, EndsKeeps
<1>4. CASE ~usable
  <2>1. PICK transient \in BOOLEAN : AttemptThrows(transient, reported + n)
    BY <1>4, Zenon DEF FinalAnswers
  <2> QED
    BY <1>1, <1>2, <2>1, ThrowsKeeps
<1> QED
  BY <1>3, <1>4

LEMMA StepAnswersKeeps ==
  ASSUME LlmInv, NEW n \in 0..1, StepAnswers(n)
  PROVE  LlmInv'
<1>1. /\ phase = "one" /\ Charged(n) /\ n \in Nat /\ Concludes("answered", reported + n)
      /\ UNCHANGED <<operation, modelAttempt, iteration, batch, streak, ranLate>>
      /\ batch = <<>>
  BY DEF StepAnswers, loop, LlmInv, LoopFits
<1>2. (abandoned' <=> abandoned) /\ (reissued' <=> reissued) /\ (overdue' <=> overdue)
  BY Zenon DEF StepAnswers, loop
<1> QED
  BY <1>1, <1>2, EndsKeeps

LEMMA ExtractsKeeps ==
  ASSUME LlmInv, NEW n \in 0..1, NEW usable \in BOOLEAN, Extracts(n, usable)
  PROVE  LlmInv'
<1>1. /\ phase \in {"first", "second"} /\ Charged(n) /\ n \in Nat
      /\ UNCHANGED <<operation, iteration, batch, streak, ranLate>>
      /\ batch = <<>> /\ operation = "extract"
  BY DEF Extracts, loop, LlmInv, LoopFits, PhaseFits
<1>2. (abandoned' <=> abandoned) /\ (reissued' <=> reissued) /\ (overdue' <=> overdue)
  BY Zenon DEF Extracts, loop
<1>3. CASE usable
  <2>1. Concludes("answered", reported + n) /\ modelAttempt' = modelAttempt
    BY <1>3 DEF Extracts
  <2> QED
    BY <1>1, <1>2, <2>1, EndsKeeps
<1>4. CASE ~usable /\ ~(phase = "first" /\ told = "waiting")
  <2>1. Concludes("failed", reported + n) /\ modelAttempt' = modelAttempt
    BY <1>4 DEF Extracts
  <2> QED
    BY <1>1, <1>2, <2>1, EndsKeeps
<1>5. CASE ~usable /\ phase = "first" /\ told = "waiting"
  <2>1. /\ modelAttempt' = 0 /\ phase' = "second" /\ invocations' = invocations + 1
        /\ told' = told /\ usageRows' = usageRows
    BY <1>5 DEF Extracts, AsksModel, ledger
  <2>2. unrecorded' <=> unrecorded
    BY <1>5, Zenon DEF Extracts, ledger
  <2>3. /\ {reported', spent', spentLate'} \subseteq Nat
        /\ reported' = spent' /\ spentLate' <= spent'
        /\ told' = "waiting" => spentLate' = 0
        /\ told' # "hit" /\ ChargedOnce'
    BY <1>1, <1>2, <2>1, <2>2, ChargedFits
  <2>4. LlmTypeOK'
    <3>1. {abandoned', reissued', overdue', unrecorded'} \subseteq BOOLEAN
      <4>1. UNCHANGED <<abandoned, reissued, overdue, unrecorded>>
        BY <1>5 DEF Extracts, loop, ledger
      <4> QED
        BY <4>1 DEF LlmInv, LlmTypeOK
    <3>2. modelAttempt' \in 0..(MaxModelAttempts - 1) /\ invocations' \in Nat
      BY <2>1, LlmAssumption DEF LlmInv, LlmTypeOK
    <3> QED
      BY <1>1, <2>1, <2>3, <3>1, <3>2 DEF LlmInv, LlmTypeOK, Invoking
  <2>5. AskedSoFar'
    <3>1. /\ modelAttempt \in Nat /\ modelAttempt + 1 <= MaxModelAttempts /\ MaxModelAttempts \in Nat
          /\ invocations \in Nat /\ invocations <= Earlier + 1
      BY <1>1, LlmAssumption DEF LlmInv, LlmTypeOK, AskedSoFar
    <3>2. Earlier = modelAttempt * 1 + 0 /\ Earlier' = 0 * 1 + MaxModelAttempts
      BY <1>1, <1>5, <2>1 DEF Earlier, Quota
    <3> QED
      BY <2>1, <3>1, <3>2 DEF AskedSoFar
  <2>6. PhaseFits' /\ LoopFits'
    BY <1>1, <1>2, <2>1 DEF LlmInv, PhaseFits, LoopFits
  <2>7. Metered' /\ NothingLingers'
    BY <1>1, <1>2, <1>5, <2>1, <2>3 DEF LlmInv, Metered, NothingLingers
  <2> QED
    BY <2>3, <2>4, <2>5, <2>6, <2>7 DEF LlmInv
<1> QED
  BY <1>3, <1>4, <1>5

LEMMA LlmBegins ==
  ASSUME LlmInit
  PROVE  LlmInv
<1>1. /\ operation \in Operations /\ phase = "lookup" /\ modelAttempt = 0
      /\ iteration = 0 /\ batch = <<>> /\ streak = [t \in ToolCalls |-> 0] /\ ~abandoned
      /\ ~reissued /\ told = "waiting" /\ ~overdue
      /\ reported = 0 /\ spent = 0 /\ spentLate = 0
      /\ usageRows = <<>> /\ invocations = 0 /\ ranLate = {}
  BY DEF LlmInit
<1>2. LlmTypeOK
  <2>1. <<>> \in Batches
    <3>1. 0 \in 0..MaxBatch /\ <<>> \in [1..0 -> ToolCalls]
      BY LlmAssumption
    <3> QED
      BY <3>1 DEF Batches
  <2>2. /\ 0 \in 0..(MaxModelAttempts - 1) /\ 0 \in 0..MaxIterations /\ 0 \in 0..(RepeatLimit + MaxBatch)
    BY LlmAssumption
  <2>3. {abandoned, reissued, overdue, unrecorded} \subseteq BOOLEAN
    BY DEF LlmInit
  <2> QED
    BY <1>1, <2>1, <2>2, <2>3 DEF LlmTypeOK
<1>3. AskedSoFar /\ PhaseFits
  BY <1>1 DEF AskedSoFar, PhaseFits
<1>4. LoopFits
  <2>1. Len(<<>>) = 0 /\ \A t \in ToolCalls : 0 + 0 < RepeatLimit + MaxBatch /\ 0 < RepeatLimit
    BY LlmAssumption
  <2> QED
    BY <1>1, <2>1 DEF LoopFits
<1>5. Metered /\ ChargedOnce /\ NothingLingers
  BY <1>1 DEF Metered, ChargedOnce, NothingLingers
<1> QED
  BY <1>2, <1>3, <1>4, <1>5 DEF LlmInv

LEMMA LlmRests ==
  ASSUME LlmInv, UNCHANGED llmVars
  PROVE  LlmInv'
<1>1. UNCHANGED <<operation, phase, modelAttempt, iteration, batch, streak, told, reported, spent,
                  spentLate, usageRows, invocations, ranLate>>
  BY DEF llmVars, loop, tally, ledger
<1>2. UNCHANGED <<abandoned, reissued, overdue, unrecorded>>
  BY DEF llmVars, loop, ledger
<1>3. /\ (abandoned' <=> abandoned) /\ (reissued' <=> reissued)
      /\ (overdue' <=> overdue) /\ (unrecorded' <=> unrecorded)
  BY <1>2, Zenon
<1>4. LlmTypeOK'
  <2>1. {abandoned', reissued', overdue', unrecorded'} \subseteq BOOLEAN
    BY <1>2 DEF LlmInv, LlmTypeOK
  <2> QED
    BY <1>1, <2>1 DEF LlmInv, LlmTypeOK
<1>5. AskedSoFar'
  <2>1. Earlier' = Earlier /\ Quota' = Quota /\ Ceiling' = Ceiling
    BY <1>1 DEF Earlier, Quota, Ceiling
  <2> QED
    BY <1>1, <1>3, <2>1 DEF LlmInv, AskedSoFar
<1>6. PhaseFits' /\ LoopFits'
  BY <1>1, <1>3 DEF LlmInv, PhaseFits, LoopFits
<1>7. Metered' /\ ChargedOnce' /\ NothingLingers'
  BY <1>1, <1>3 DEF LlmInv, Metered, ChargedOnce, NothingLingers
<1> QED
  BY <1>4, <1>5, <1>6, <1>7 DEF LlmInv

LEMMA LlmGoesOn ==
  ASSUME LlmInv, [LlmNext]_llmVars
  PROVE  LlmInv'
<1>1. CASE LlmNext
  BY <1>1, LookUpAnswerKeeps, TryAnewKeeps, DeadlineKeeps, ReissueKeeps, ReplyUnknownKeeps,
     RequestFailsKeeps, RunToolKeeps, ModelAnswersKeeps, FinalAnswersKeeps, ExtractsKeeps,
     StepAnswersKeeps, Zenon DEF LlmNext
<1> QED
  BY <1>1, LlmRests, Zenon

LEMMA LlmInvSuffices ==
  ASSUME LlmInv
  PROVE  LlmCallSound
<1>1. /\ Quota \in Nat /\ Earlier \in Nat /\ Ceiling \in Nat /\ Earlier + Quota <= Ceiling
      /\ operation = "toolCall" => Quota = MaxIterations + 2
      /\ operation = "call" => Quota = 2
      /\ operation \in {"extract", "step"} => Quota = 1
  BY EarlierFits DEF LlmInv
<1>2. /\ iteration \in 0..MaxIterations /\ MaxIterations \in Nat /\ invocations \in Nat
      /\ phase \in Invoking \cup {"lookup", "tools", "backoff", "backoff2", "over"}
      /\ operation \in Operations
  BY LlmAssumption DEF LlmInv, LlmTypeOK
<1>3. AskedSoFar /\ PhaseFits
  BY DEF LlmInv
<1>4. invocations <= Ceiling
  BY <1>1, <1>2, <1>3 DEF AskedSoFar, PhaseFits, Invoking, Operations
<1>5. LoopEnds
  <2>1. phase = "model" => iteration < MaxIterations /\ \A t \in ToolCalls : streak[t] < RepeatLimit
    BY DEF LlmInv, LoopFits
  <2> QED
    BY <1>4, <2>1 DEF LoopEnds, Ceiling
<1>6. RepliedTo
  BY DEF LlmInv, LoopFits, RepliedTo, Invoking
<1> QED
  BY <1>5, <1>6 DEF LlmInv, LlmCallSound

\* Whatever the provider answers, however often a request fails or hangs, and
\* whenever the deadline passes: what was charged is recorded once, every tool
\* call is replied to before the model is asked again, the requests of a call
\* are bounded, and nothing runs for a caller that has its answer.
THEOREM LlmCallKept == LlmSpec => []LlmCallSound
<1>1. LlmInit => LlmInv
  BY LlmBegins
<1>2. LlmInv /\ [LlmNext]_llmVars => LlmInv'
  BY LlmGoesOn
<1>3. LlmInv => LlmCallSound
  BY LlmInvSuffices
<1> QED
  BY <1>1, <1>2, <1>3, PTL DEF LlmSpec
=================================================================================
