------------------------ MODULE CompanyCredits_proofs ------------------------
(***************************************************************************)
(* Type correctness of CompanyCredits and, for a database that evaluates   *)
(* all items of a SET clause over the state before it, its ledger.         *)
(***************************************************************************)
EXTENDS CompanyCredits, FiniteSetTheorems, TLAPS

\* A job's record may be replaced by another one of the type.
LEMMA PutTyped ==
  ASSUME NEW j \in Jobs, NEW h \in Handlers, job \in [Jobs -> Handlers], Put(j, h)
  PROVE  job' \in [Jobs -> Handlers]
BY DEF Put

\* Cited where the provers do not find it among records.
LEMMA ZeroIsInt == 0 \in Int
OBVIOUS

\* A handler may end and forget what it has read.
LEMMA HandlerTyped ==
  ASSUME NEW h \in Handlers, NEW step \in JobSteps, NEW n \in Int, NEW b \in BOOLEAN
  PROVE  /\ [h EXCEPT !.pc = step, !.paid = b, !.seen = n] \in Handlers
         /\ [h EXCEPT !.pc = step, !.prev = b] \in Handlers
         /\ [h EXCEPT !.pc = step, !.seen = n, !.prev = b] \in Handlers
BY DEF Handlers

\* One charge keeps the monthly balance at zero or above.
LEMMA ChargedTyped ==
  ASSUME NEW b \in [monthly : Nat, extra : Int], NEW c \in Nat
  PROVE  Charged(b, c) \in [monthly : Nat, extra : Int]
BY LimitsAssumption DEF Charged, MonthlyAfter, ExtraAfter

\* One charge takes its cost from the two balances together: the monthly one
\* pays first, the extra one the rest.  It needs the second item of the SET
\* clause to read the monthly balance the first one read.
LEMMA ChargedExactly ==
  ASSUME NEW b \in [monthly : Nat, extra : Int], NEW c \in Nat, ~SequentialSet
  PROVE  Charged(b, c).monthly + Charged(b, c).extra = b.monthly + b.extra - c
BY DEF Charged, MonthlyAfter, ExtraAfter

\* Every step of a job writes a record of the type.
LEMMA JobStepTyped ==
  ASSUME TypeOK, NEW j \in Jobs, JobStep(j)
  PROVE  TypeOK'
<1> USE DEF TypeOK, balances, usage, counts, ledger, flag
<1>t. /\ job[j] \in Handlers
      /\ Tokens \subseteq Nat /\ Pack \in Nat
  BY AmountsAssumption
<1>1. CASE Start(j)
  <2>1. [job[j] EXCEPT !.pc = "read", !.kind = "purchase", !.runs = 1] \in Handlers
    BY <1>t DEF Handlers, JobSteps, Kinds
  <2>2. \A t \in Tokens :
          [job[j] EXCEPT !.pc = "read", !.kind = "allocation", !.tokens = t, !.runs = 1] \in Handlers
    BY <1>t DEF Handlers, JobSteps, Kinds
  <2>3. job' \in [Jobs -> Handlers]
    BY <1>1, <2>1, <2>2, PutTyped DEF Start
  <2> QED  BY <1>1, <2>3 DEF Start
<1>2. CASE ReadExtra(j)
  <2>1. [job[j] EXCEPT !.pc = "write", !.seen = extra] \in Handlers
    BY <1>t DEF Handlers, JobSteps
  <2>2. job' \in [Jobs -> Handlers]
    BY <1>2, <2>1, PutTyped DEF ReadExtra
  <2> QED  BY <1>2, <2>2 DEF ReadExtra
<1>3. CASE WriteExtra(j)
  <2>1. [job[j] EXCEPT !.pc = "done", !.paid = TRUE, !.seen = 0] \in Handlers
    BY <1>t, HandlerTyped, ZeroIsInt DEF JobSteps
  <2>2. job' \in [Jobs -> Handlers]
    BY <1>3, <2>1, PutTyped DEF WriteExtra
  <2>3. job[j].seen \in Int /\ job[j].paid \in BOOLEAN
    BY <1>t DEF Handlers
  <2>4. extra' \in Int /\ credited' \in Int
    BY <1>3, <1>t, <2>3 DEF WriteExtra
  <2>5. clobbered' \in BOOLEAN
    BY <1>3 DEF WriteExtra
  <2> QED  BY <1>3, <2>2, <2>4, <2>5 DEF WriteExtra
<1>4. CASE ReadFlag(j)
  <2>1. [job[j] EXCEPT !.pc = "write", !.prev = ai] \in Handlers
    BY <1>t DEF Handlers, JobSteps
  <2>2. job' \in [Jobs -> Handlers]
    BY <1>4, <2>1, PutTyped DEF ReadFlag
  <2> QED  BY <1>4, <2>2 DEF ReadFlag
<1>5. CASE WriteTokens(j)
  <2>1. [job[j] EXCEPT !.pc = "tell"] \in Handlers
    BY <1>t DEF Handlers, JobSteps
  <2>2. job' \in [Jobs -> Handlers]
    BY <1>5, <2>1, PutTyped DEF WriteTokens
  <2>3. job[j].tokens \in Nat
    BY <1>t DEF Handlers
  <2>4. monthly' \in Nat /\ credited' \in Int
    BY <1>5, <2>3 DEF WriteTokens
  <2>5. ai' \in BOOLEAN /\ blurred' \in BOOLEAN
    BY <1>5 DEF WriteTokens
  <2>6. resets' \in Nat /\ lapses' \in Nat
    BY <1>5 DEF WriteTokens
  <2> QED  BY <1>5, <2>2, <2>4, <2>5, <2>6 DEF WriteTokens
<1>6. CASE Tell(j)
  <2>1. [job[j] EXCEPT !.pc = "done", !.prev = FALSE] \in Handlers
    BY <1>t, HandlerTyped, ZeroIsInt DEF JobSteps
  <2>2. job' \in [Jobs -> Handlers]
    BY <1>6, <2>1, PutTyped DEF Tell
  <2>3. told' \in Nat
    BY <1>6 DEF Tell
  <2> QED  BY <1>6, <2>2, <2>3 DEF Tell
<1>7. CASE Lose(j)
  <2>1. [job[j] EXCEPT !.pc = "lost", !.seen = 0, !.prev = FALSE] \in Handlers
    BY <1>t, HandlerTyped, ZeroIsInt DEF JobSteps
  <2>2. job' \in [Jobs -> Handlers]
    BY <1>7, <2>1, PutTyped DEF Lose
  <2>3. blurred' \in BOOLEAN
    BY <1>7 DEF Lose
  <2> QED  BY <1>7, <2>2, <2>3 DEF Lose
<1>8. CASE Rerun(j)
  <2>0. job[j].runs + 1 \in Nat
    BY <1>t DEF Handlers
  <2>1. [job[j] EXCEPT !.pc = "read", !.runs = @ + 1] \in Handlers
    BY <1>t, <2>0 DEF Handlers, JobSteps
  <2>2. job' \in [Jobs -> Handlers]
    BY <1>8, <2>1, PutTyped DEF Rerun
  <2> QED  BY <1>8, <2>2 DEF Rerun
<1> QED
  BY <1>1, <1>2, <1>3, <1>4, <1>5, <1>6, <1>7, <1>8 DEF JobStep

\* Every state has the type: no interleaving of deductions, purchases and
\* allocations brings the monthly balance below zero.
THEOREM TypeCorrect == Spec => []TypeOK
<1>1. Init => TypeOK
  <2> SUFFICES ASSUME Init PROVE TypeOK
    OBVIOUS
  <2>1. monthly \in Nat /\ credited \in Int
    BY AmountsAssumption DEF Init
  <2>2. job \in [Jobs -> Handlers]
    BY DEF Init, Handlers, JobSteps, Kinds
  <2>3. ai \in BOOLEAN /\ clobbered \in BOOLEAN /\ blurred \in BOOLEAN
    BY DEF Init
  <2>4. /\ left \in [Operations -> Nat] /\ inFlight \in [Costs -> Nat]
        /\ begun \in Nat /\ extra \in Int /\ spent \in Nat /\ lapses \in Nat /\ told \in Nat
        /\ resets \in Nat /\ awards \in Nat /\ unacked \in Nat
    BY DEF Init
  <2> QED  BY <2>1, <2>2, <2>3, <2>4 DEF TypeOK
<1>2. TypeOK /\ [Next]_vars => TypeOK'
  <2> SUFFICES ASSUME TypeOK, [Next]_vars PROVE TypeOK'
    OBVIOUS
  <2> USE DEF balances, usage, counts, ledger, flag
  <2>c. Costs \subseteq Nat /\ Reward \in Nat /\ CallsPerOp \in Nat
    BY AmountsAssumption, LimitsAssumption
  <2>b. Balance \in [monthly : Nat, extra : Int]
    BY DEF Balance, TypeOK
  <2>1. CASE UNCHANGED vars
    BY <2>1 DEF vars, TypeOK
  <2>2. ASSUME NEW o \in Operations, Begin(o) \/ End(o) PROVE TypeOK'
    BY <2>2, <2>c DEF Begin, End, TypeOK
  <2>3. ASSUME NEW o \in Operations, NEW c \in Costs, RecordUsage(o, c) PROVE TypeOK'
    BY <2>3 DEF RecordUsage, TypeOK
  <2>4. ASSUME NEW c \in Costs, Deduct(c) PROVE TypeOK'
    <3>1. Charged(Balance, c) \in [monthly : Nat, extra : Int]
      BY <2>b, <2>c, ChargedTyped
    <3>2. monthly' \in Nat /\ extra' \in Int
      BY <2>4, <3>1 DEF Deduct, Become, TypeOK
    <3>3. inFlight' \in [Costs -> Nat] /\ spent' \in Nat
      BY <2>4, <2>c DEF Deduct, TypeOK
    <3> QED  BY <2>4, <3>2, <3>3 DEF Deduct, TypeOK
  <2>5. ASSUME NEW c \in Costs, DeductFails(c) PROVE TypeOK'
    BY <2>5 DEF DeductFails, TypeOK
  <2>6. ASSUME NEW c \in Costs, DeductUnacked(c) PROVE TypeOK'
    <3>1. Charged(Charged(Balance, c), c) \in [monthly : Nat, extra : Int]
      BY <2>b, <2>c, ChargedTyped
    <3>2. monthly' \in Nat /\ extra' \in Int
      BY <2>6, <3>1 DEF DeductUnacked, Become
    <3>3. inFlight' \in [Costs -> Nat] /\ spent' \in Nat /\ unacked' \in Nat
      BY <2>6, <2>c DEF DeductUnacked, TypeOK
    <3> QED  BY <2>6, <3>2, <3>3 DEF DeductUnacked, TypeOK
  <2>7. ASSUME NEW j \in Jobs, JobStep(j) PROVE TypeOK'
    BY <2>7, JobStepTyped
  <2>8. CASE Award
    BY <2>8, <2>c DEF Award, TypeOK
  <2>9. CASE Deactivate
    BY <2>9 DEF Deactivate, TypeOK
  <2> QED
    BY <2>1, <2>2, <2>3, <2>4, <2>5, <2>6, <2>7, <2>8, <2>9 DEF Next
<1> QED  BY <1>1, <1>2, PTL DEF Spec

\* The ledger is inductive as it stands: a deduction takes exactly its cost
\* (ChargedExactly), a grant is entered on both sides, and a purchase that
\* writes what it has read adds one pack.
THEOREM LedgerKept == ASSUME ~SequentialSet PROVE Spec => []LedgerUnlessRepeated
<1>1. Init => LedgerUnlessRepeated
  <2> SUFFICES ASSUME Init PROVE LedgerUnlessRepeated
    OBVIOUS
  <2>1. monthly \in Nat
    BY AmountsAssumption DEF Init
  <2> QED  BY <2>1 DEF Init, LedgerUnlessRepeated, Ledger
<1>2. TypeOK /\ TypeOK' /\ LedgerUnlessRepeated /\ [Next]_vars => LedgerUnlessRepeated'
  <2> SUFFICES ASSUME TypeOK, TypeOK', LedgerUnlessRepeated, [Next]_vars
               PROVE  LedgerUnlessRepeated'
    OBVIOUS
  <2> USE DEF balances, usage, counts, ledger, flag, LedgerUnlessRepeated, Ledger
  <2>c. Costs \subseteq Nat /\ Reward \in Nat /\ Pack \in Nat
    BY AmountsAssumption
  <2>t. /\ monthly \in Nat /\ extra \in Int /\ credited \in Int /\ spent \in Nat
        /\ unacked \in Nat
    BY DEF TypeOK
  <2>b. Balance \in [monthly : Nat, extra : Int]
    BY <2>t DEF Balance
  <2>1. CASE UNCHANGED vars
    BY <2>1 DEF vars
  <2>2. ASSUME NEW o \in Operations, Begin(o) \/ End(o) PROVE LedgerUnlessRepeated'
    BY <2>2 DEF Begin, End
  <2>3. ASSUME NEW o \in Operations, NEW c \in Costs, RecordUsage(o, c)
        PROVE  LedgerUnlessRepeated'
    BY <2>3 DEF RecordUsage
  <2>4. ASSUME NEW c \in Costs, Deduct(c) PROVE LedgerUnlessRepeated'
    <3>1. Charged(Balance, c).monthly + Charged(Balance, c).extra = monthly + extra - c
      BY <2>b, <2>c, ChargedExactly DEF Balance
    <3>2. monthly' + extra' = monthly + extra - c
      BY <2>4, <2>t, <3>1 DEF Deduct, Become
    <3> QED  BY <2>4, <2>c, <2>t, <3>2 DEF Deduct
  <2>5. ASSUME NEW c \in Costs, DeductFails(c) PROVE LedgerUnlessRepeated'
    BY <2>5 DEF DeductFails
  <2>6. ASSUME NEW c \in Costs, DeductUnacked(c) PROVE LedgerUnlessRepeated'
    BY <2>6, <2>t DEF DeductUnacked
  <2>7. ASSUME NEW j \in Jobs, JobStep(j) PROVE LedgerUnlessRepeated'
    <3>1. CASE WriteExtra(j)
      <4>1. CASE clobbered'
        BY <4>1
      <4>2. CASE ~clobbered'
        <5>1. ~clobbered /\ ~job[j].paid /\ job[j].seen = extra
          BY <3>1, <4>2 DEF WriteExtra
        <5>2. extra' = extra + Pack /\ credited' = credited + Pack
          BY <3>1, <5>1 DEF WriteExtra
        <5> QED  BY <2>c, <2>t, <3>1, <5>1, <5>2 DEF WriteExtra
      <4> QED  BY <4>1, <4>2
    <3>2. CASE WriteTokens(j)
      <4>1. PICK t \in 0..job[j].tokens : monthly' = t /\ credited' = credited + (t - monthly)
        BY <3>2 DEF WriteTokens
      <4>2. t \in Int
        OBVIOUS
      <4> QED  BY <2>t, <3>2, <4>1, <4>2 DEF WriteTokens
    <3>3. CASE Start(j) \/ ReadExtra(j) \/ ReadFlag(j) \/ Tell(j) \/ Lose(j) \/ Rerun(j)
      BY <3>3 DEF Start, ReadExtra, ReadFlag, Tell, Lose, Rerun
    <3> QED  BY <2>7, <3>1, <3>2, <3>3 DEF JobStep
  <2>8. CASE Award
    BY <2>8, <2>c, <2>t DEF Award
  <2>9. CASE Deactivate
    BY <2>9, <2>t DEF Deactivate
  <2> QED
    BY <2>1, <2>2, <2>3, <2>4, <2>5, <2>6, <2>7, <2>8, <2>9 DEF Next
<1> QED  BY <1>1, <1>2, TypeCorrect, PTL DEF Spec

-----------------------------------------------------------------------------
(* The debt.  A usage record that may still be written, or is written and   *)
(* not yet deducted, is one unit of exposure: it takes one of so many       *)
(* places, and may cost MaxCost.                                            *)

FlightPlaces == {p \in (Costs \ {0}) \X (1..MaxInFlight) : p[2] <= inFlight[p[1]]}
CallPlaces == {p \in Operations \X (1..CallsPerOp) : p[2] <= left[p[1]]}
Pending == Cardinality(FlightPlaces) + Cardinality(CallPlaces)
Places == Cardinality(Costs \ {0}) * MaxInFlight + Cardinality(Operations) * CallsPerOp

UsageBounded == /\ \A c \in Costs : inFlight[c] <= MaxInFlight
                /\ \A o \in Operations : left[o] <= CallsPerOp

\* While there is a monthly balance the extra one is not touched, so the debt is
\* the one of the earlier periods; without one, what was admitted may still come.
DebtCovered ==
  ~clobbered /\ unacked = 0 =>
    extra >= IF monthly > 0 THEN -(Exposure * resets)
             ELSE MaxCost * Pending - Exposure * (resets + 1)

DebtInv == UsageBounded /\ DebtCovered

\* The largest cost, if there is one.
LargestCost == \E c \in Costs : \A d \in Costs : d <= c

LEMMA MaxCostBounds ==
  ASSUME LargestCost
  PROVE  MaxCost \in Nat /\ \A c \in Costs : c <= MaxCost
BY AmountsAssumption DEF LargestCost, MaxCost

LEMMA CostsFinite == ASSUME LargestCost PROVE IsFiniteSet(Costs \ {0})
<1>1. IsFiniteSet(0..MaxCost)
  BY MaxCostBounds, FS_Interval
<1>2. Costs \ {0} \subseteq 0..MaxCost
  BY MaxCostBounds, AmountsAssumption
<1> QED BY <1>1, <1>2, FS_Subset

\* The places are finite in number, and so many.
PlacesFit == /\ IsFiniteSet(FlightPlaces) /\ Cardinality(FlightPlaces) \in Nat
             /\ IsFiniteSet(CallPlaces) /\ Cardinality(CallPlaces) \in Nat
             /\ Pending \in Nat /\ Places \in Nat /\ Pending <= Places

LEMMA PlacesBounded == ASSUME LargestCost, IsFiniteSet(Operations) PROVE PlacesFit
<1> DEFINE A == (Costs \ {0}) \X (1..MaxInFlight)
           B == Operations \X (1..CallsPerOp)
<1>1. /\ IsFiniteSet(1..MaxInFlight) /\ Cardinality(1..MaxInFlight) = MaxInFlight
      /\ IsFiniteSet(1..CallsPerOp) /\ Cardinality(1..CallsPerOp) = CallsPerOp
  BY LimitsAssumption, FS_Interval
<1>2. IsFiniteSet(A) /\ Cardinality(A) = Cardinality(Costs \ {0}) * MaxInFlight
  BY <1>1, CostsFinite, FS_Product
<1>3. IsFiniteSet(B) /\ Cardinality(B) = Cardinality(Operations) * CallsPerOp
  BY <1>1, FS_Product
<1>4. FlightPlaces \subseteq A /\ CallPlaces \subseteq B
  BY DEF FlightPlaces, CallPlaces
<1> HIDE DEF A, B
<1>5. /\ IsFiniteSet(FlightPlaces) /\ Cardinality(FlightPlaces) <= Cardinality(A)
      /\ IsFiniteSet(CallPlaces) /\ Cardinality(CallPlaces) <= Cardinality(B)
  BY <1>2, <1>3, <1>4, FS_Subset
<1>6. /\ Cardinality(FlightPlaces) \in Nat /\ Cardinality(CallPlaces) \in Nat
      /\ Cardinality(A) \in Nat /\ Cardinality(B) \in Nat
  BY <1>2, <1>3, <1>5, FS_CardinalityType
<1> QED BY <1>2, <1>3, <1>5, <1>6 DEF PlacesFit, Pending, Places

LEMMA PlacesAlwaysBounded == ASSUME LargestCost, IsFiniteSet(Operations) PROVE []PlacesFit
BY PlacesBounded, PTL

\* Products, where the solver needs to be told.
LEMMA Times ==
  ASSUME NEW k \in Nat, NEW m \in Nat, NEW n \in Nat
  PROVE  /\ k * m \in Nat /\ k * (m + 1) = k * m + k
         /\ m <= n => k * m <= k * n
         /\ m + 1 <= n => k * m + k <= k * n
OBVIOUS

(* A bound on a balance only loosens when less is pending. *)
LEMMA LessPending ==
  ASSUME NEW e \in Int, NEW p \in Int, NEW q \in Int, NEW x \in Int, q <= p, x >= p - e
  PROVE  x >= q - e
OBVIOUS

\* Steps that touch neither balances, usage nor the number of resets.
LEMMA DebtIdle ==
  ASSUME DebtInv, UNCHANGED <<monthly, extra, left, inFlight, resets, unacked>>, clobbered' = clobbered
  PROVE  DebtInv'
BY DEF DebtInv, UsageBounded, DebtCovered, Pending, FlightPlaces, CallPlaces

\* Usage that moves on, or is dropped, and reserves no new place.
LEMMA DebtUsage ==
  ASSUME TypeOK, PlacesFit, PlacesFit', LargestCost, DebtInv, UsageBounded',
         UNCHANGED <<monthly, extra, resets, unacked, clobbered>>, Pending' <= Pending
  PROVE  DebtInv'
<1>1. MaxCost \in Nat /\ Pending \in Nat /\ Pending' \in Nat /\ resets \in Nat /\ extra \in Int
  BY MaxCostBounds DEF PlacesFit, TypeOK
<1>2. MaxCost * Pending' <= MaxCost * Pending /\ MaxCost * Pending' \in Nat /\ MaxCost * Pending \in Nat
  BY <1>1, Times
<1>3. Exposure \in Nat /\ Exposure * (resets + 1) \in Nat
  BY <1>1, Times DEF Exposure, PlacesFit, Places
<1>4. DebtCovered'
  <2> SUFFICES ASSUME ~clobbered, unacked = 0, ~(monthly > 0)
               PROVE  extra >= MaxCost * Pending' - Exposure * (resets + 1)
    BY DEF DebtInv, DebtCovered
  <2>1. extra >= MaxCost * Pending - Exposure * (resets + 1)
    BY DEF DebtInv, DebtCovered
  <2> HIDE DEF Exposure, Pending, MaxCost
  <2>2. PICK e \in Int : e = Exposure * (resets + 1)
    BY <1>3
  <2>3. PICK p \in Int, q \in Int : p = MaxCost * Pending /\ q = MaxCost * Pending'
    BY <1>2
  <2>4. q <= p /\ extra >= p - e
    BY ONLY <1>2, <2>1, <2>2, <2>3
  <2>5. extra >= q - e
    BY <1>1, <2>4, LessPending
  <2> QED BY ONLY <2>2, <2>3, <2>5
<1> QED BY <1>4 DEF DebtInv

\* The monthly balance is written, one reset more is counted, and the debt of
\* the period goes to the earlier ones.
LEMMA DebtReset ==
  ASSUME TypeOK, PlacesFit, LargestCost, DebtInv, UNCHANGED <<extra, left, inFlight, unacked, clobbered>>,
         resets' = resets + 1
  PROVE  DebtInv'
<1>1. MaxCost \in Nat /\ Pending \in Nat /\ Places \in Nat /\ Pending <= Places /\ resets \in Nat /\ extra \in Int
  BY MaxCostBounds DEF PlacesFit, TypeOK
<1>2. Exposure = MaxCost * Places
  BY DEF Exposure, Places
<1>3. MaxCost * Pending <= Exposure /\ MaxCost * Pending \in Nat /\ Exposure \in Nat
  BY <1>1, <1>2, Times
<1>4. /\ Exposure * (resets + 1) = Exposure * resets + Exposure /\ Exposure * resets \in Nat
      /\ Exposure * ((resets + 1) + 1) = Exposure * (resets + 1) + Exposure
  BY <1>1, <1>3, Times
<1>5. Pending' = Pending
  BY DEF Pending, FlightPlaces, CallPlaces
<1>6. ~clobbered /\ unacked = 0 => extra >= -(Exposure * (resets + 1))
  <2> SUFFICES ASSUME ~clobbered, unacked = 0 PROVE extra >= -(Exposure * (resets + 1))
    OBVIOUS
  <2>1. extra >= -(Exposure * resets) \/ extra >= MaxCost * Pending - Exposure * (resets + 1)
    BY DEF DebtInv, DebtCovered
  <2> HIDE DEF Exposure, Pending, MaxCost
  <2> QED BY <1>1, <1>3, <1>4, <2>1
<1>7. DebtCovered'
  <2> SUFFICES ASSUME ~clobbered, unacked = 0
               PROVE  /\ extra >= -(Exposure * (resets + 1))
                      /\ extra >= MaxCost * Pending - Exposure * ((resets + 1) + 1)
    BY <1>5 DEF DebtCovered
  <2> HIDE DEF Exposure, Pending, MaxCost
  <2> QED BY <1>1, <1>3, <1>4, <1>6
<1>8. UsageBounded'
  BY DEF DebtInv, UsageBounded
<1> QED BY <1>7, <1>8 DEF DebtInv

\* The extra balance grows.
LEMMA DebtRepaid ==
  ASSUME TypeOK, PlacesFit, LargestCost, DebtInv, UNCHANGED <<monthly, left, inFlight, resets, unacked>>,
         ~clobbered' => ~clobbered /\ \E n \in Nat : extra' = extra + n
  PROVE  DebtInv'
<1>1. MaxCost \in Nat /\ Pending \in Nat /\ resets \in Nat /\ extra \in Int
  BY MaxCostBounds DEF PlacesFit, TypeOK
<1>2. MaxCost * Pending \in Nat /\ Exposure \in Nat
  BY <1>1, Times DEF Exposure, PlacesFit, Places
<1>3. Exposure * resets \in Nat /\ Exposure * (resets + 1) \in Nat
  BY <1>1, <1>2, Times
<1>4. Pending' = Pending
  BY DEF Pending, FlightPlaces, CallPlaces
<1>5. DebtCovered'
  <2> SUFFICES ASSUME ~clobbered', unacked = 0
               PROVE  extra' >= IF monthly > 0 THEN -(Exposure * resets) ELSE MaxCost * Pending - Exposure * (resets + 1)
    BY <1>4 DEF DebtCovered
  <2>1. PICK n \in Nat : extra' = extra + n
    OBVIOUS
  <2>2. extra >= IF monthly > 0 THEN -(Exposure * resets) ELSE MaxCost * Pending - Exposure * (resets + 1)
    BY DEF DebtInv, DebtCovered
  <2> HIDE DEF Exposure, Pending, MaxCost
  <2> QED BY <1>1, <1>2, <1>3, <2>1, <2>2
<1>6. UsageBounded'
  BY DEF DebtInv, UsageBounded
<1> QED BY <1>5, <1>6 DEF DebtInv

\* A deduction gives up its place, and takes from the extra balance no more than
\* the monthly one cannot bear.
LEMMA DebtDeduct ==
  ASSUME TypeOK, PlacesFit, PlacesFit', LargestCost, DebtInv, ~SequentialSet,
         NEW c \in Costs, Deduct(c)
  PROVE  DebtInv'
<1>c. c \in Nat /\ c <= MaxCost /\ MaxCost \in Nat
  BY MaxCostBounds, AmountsAssumption
<1>t. monthly \in Nat /\ extra \in Int /\ resets \in Nat
  BY DEF TypeOK
<1>1. UNCHANGED <<left, resets, unacked, clobbered>> /\ inFlight' = [inFlight EXCEPT ![c] = @ - 1] /\ inFlight[c] > 0
  BY DEF Deduct, counts
<1>2. UsageBounded'
  BY <1>1, LimitsAssumption DEF DebtInv, UsageBounded, TypeOK
<1>3. CASE c = 0
  <2>1. UNCHANGED <<monthly, extra>> /\ FlightPlaces' = FlightPlaces /\ CallPlaces' = CallPlaces
    BY <1>1, <1>3 DEF Deduct, balances, FlightPlaces, CallPlaces, TypeOK
  <2> QED BY <1>1, <1>2, <2>1 DEF DebtInv, DebtCovered, Pending
<1>4. CASE c # 0
  <2>1. Charged(Balance, c) = [monthly |-> MonthlyAfter(Balance, c), extra |-> ExtraAfter(Balance, c)]
    BY DEF Charged, Balance
  <2>2. /\ monthly' = IF monthly >= c THEN monthly - c ELSE 0
        /\ extra' = IF monthly >= c THEN extra ELSE IF monthly > 0 THEN extra - (c - monthly) ELSE extra - c
    BY <1>4, <2>1 DEF Deduct, Become, MonthlyAfter, ExtraAfter, Balance
  <2>3. Pending' = Pending - 1
    <3> DEFINE p == <<c, inFlight[c]>>
    <3>1. inFlight[c] \in 1..MaxInFlight
      BY <1>1, LimitsAssumption DEF DebtInv, UsageBounded, TypeOK
    <3>2. p \in FlightPlaces
      BY <1>4, <3>1 DEF FlightPlaces
    <3>3. FlightPlaces' = FlightPlaces \ {p}
      <4>1. \A d \in Costs, i \in 1..MaxInFlight : i <= inFlight'[d] <=> (i <= inFlight[d] /\ ~(d = c /\ i = inFlight[c]))
        BY <1>1, <3>1 DEF TypeOK
      <4> QED BY <4>1 DEF FlightPlaces
    <3>4. Cardinality(FlightPlaces \ {p}) = Cardinality(FlightPlaces) - 1
      <4> HIDE DEF p
      <4> QED BY <3>2, FS_RemoveElement DEF PlacesFit
    <3>5. CallPlaces' = CallPlaces
      BY <1>1 DEF CallPlaces
    <3> QED BY <3>3, <3>4, <3>5 DEF Pending, PlacesFit
  <2>4. /\ Pending \in Nat /\ Pending' \in Nat /\ Places \in Nat /\ Pending <= Places /\ Exposure = MaxCost * Places
    BY DEF PlacesFit, Exposure, Places
  <2>5. /\ MaxCost * Pending = MaxCost * Pending' + MaxCost /\ MaxCost * Pending' \in Nat
        /\ MaxCost * Pending <= Exposure /\ Exposure \in Nat
    <3>1. Pending = Pending' + 1
      BY <2>3, <2>4
    <3> QED BY <1>c, <2>4, <3>1, Times
  <2>6. Exposure * (resets + 1) = Exposure * resets + Exposure /\ Exposure * resets \in Nat
    BY <1>t, <2>5, Times
  <2>7. DebtCovered'
    <3> SUFFICES ASSUME ~clobbered, unacked = 0
                 PROVE  extra' >= IF monthly' > 0 THEN -(Exposure * resets) ELSE MaxCost * Pending' - Exposure * (resets + 1)
      BY <1>1 DEF DebtCovered
    <3>1. extra >= IF monthly > 0 THEN -(Exposure * resets) ELSE MaxCost * Pending - Exposure * (resets + 1)
      BY DEF DebtInv, DebtCovered
    <3> HIDE DEF Exposure, Pending, MaxCost
    <3> QED BY <1>c, <1>t, <1>4, <2>2, <2>5, <2>6, <3>1
  <2> QED BY <1>2, <2>7 DEF DebtInv
<1> QED BY <1>3, <1>4

LEMMA DebtStep ==
  LargestCost /\ ~SequentialSet /\ TypeOK /\ PlacesFit /\ PlacesFit' /\ DebtInv /\ [Next]_vars => DebtInv'
<1> SUFFICES ASSUME LargestCost, ~SequentialSet, TypeOK, PlacesFit, PlacesFit', DebtInv, [Next]_vars PROVE DebtInv'
  OBVIOUS
<1> USE DEF balances, usage, counts, ledger
<1>1. ASSUME NEW o \in Operations, Begin(o) PROVE DebtInv'
  <2>1. /\ UNCHANGED <<monthly, extra, resets, unacked, clobbered, inFlight>> /\ (monthly > 0 \/ extra > 0)
        /\ left' = [left EXCEPT ![o] = CallsPerOp]
    BY <1>1 DEF Begin, HasCredits
  <2>2. UsageBounded'
    BY <2>1, LimitsAssumption DEF DebtInv, UsageBounded, TypeOK
  <2>3. MaxCost \in Nat /\ Pending' \in Nat /\ Places \in Nat /\ Pending' <= Places /\ resets \in Nat /\ extra \in Int /\ monthly \in Nat
    BY MaxCostBounds DEF PlacesFit, TypeOK
  <2>4. MaxCost * Pending' <= Exposure /\ Exposure \in Nat /\ MaxCost * Pending' \in Nat
    BY <2>3, Times DEF Exposure, Places
  <2>5. Exposure * (resets + 1) = Exposure * resets + Exposure /\ Exposure * resets \in Nat
    BY <2>3, <2>4, Times
  <2>6. DebtCovered'
    <3> SUFFICES ASSUME ~clobbered, unacked = 0
                 PROVE  extra >= IF monthly > 0 THEN -(Exposure * resets) ELSE MaxCost * Pending' - Exposure * (resets + 1)
      BY <2>1 DEF DebtCovered
    <3>1. monthly > 0 => extra >= -(Exposure * resets)
      BY DEF DebtInv, DebtCovered
    <3> HIDE DEF Exposure, Pending, MaxCost
    <3>2. CASE monthly > 0
      BY <3>1, <3>2
    <3>3. CASE ~(monthly > 0)
      <4>1. extra >= 0
        BY <2>1, <2>3, <3>3
      <4>2. PICK d \in Int : d = MaxCost * Pending' - Exposure * (resets + 1)
        BY <2>4, <2>5
      <4>3. d <= 0
        BY <2>4, <2>5, <4>2
      <4>4. extra >= d
        BY ONLY <2>3, <4>1, <4>3
      <4> QED BY ONLY <3>3, <4>2, <4>4
    <3> QED BY <3>2, <3>3
  <2> QED BY <2>2, <2>6 DEF DebtInv
<1>2. ASSUME NEW o \in Operations, End(o) PROVE DebtInv'
  <2>1. UNCHANGED <<monthly, extra, resets, unacked, clobbered, inFlight>> /\ left' = [left EXCEPT ![o] = 0]
    BY <1>2 DEF End
  <2>2. UsageBounded'
    BY <2>1, LimitsAssumption DEF DebtInv, UsageBounded, TypeOK
  <2>3. FlightPlaces' = FlightPlaces /\ CallPlaces' \subseteq CallPlaces
    BY <2>1 DEF FlightPlaces, CallPlaces, TypeOK
  <2>4. Pending' <= Pending
    BY <2>3, FS_Subset DEF Pending, PlacesFit
  <2> QED BY <2>1, <2>2, <2>4, DebtUsage
<1>3. ASSUME NEW o \in Operations, NEW c \in Costs, RecordUsage(o, c) PROVE DebtInv'
  <2>1. /\ UNCHANGED <<monthly, extra, resets, unacked, clobbered>> /\ left[o] > 0 /\ inFlight[c] < MaxInFlight
        /\ left' = [left EXCEPT ![o] = @ - 1] /\ inFlight' = [inFlight EXCEPT ![c] = @ + 1]
    BY <1>3 DEF RecordUsage
  <2>2. left[o] \in Nat /\ left[o] <= CallsPerOp /\ inFlight[c] \in Nat
    BY DEF TypeOK, DebtInv, UsageBounded
  <2>3. UsageBounded'
    <3>1. \A d \in Costs : inFlight'[d] <= MaxInFlight
      BY <2>1, <2>2, LimitsAssumption DEF DebtInv, UsageBounded, TypeOK
    <3>2. \A q \in Operations : left'[q] <= CallsPerOp
      BY <2>1, <2>2, LimitsAssumption DEF DebtInv, UsageBounded, TypeOK
    <3> QED BY <3>1, <3>2 DEF UsageBounded
  <2>4. Cardinality(CallPlaces') = Cardinality(CallPlaces) - 1
    <3> DEFINE p == <<o, left[o]>>
    <3>1. p \in CallPlaces
      BY <2>1, <2>2, LimitsAssumption DEF CallPlaces
    <3>2. CallPlaces' = CallPlaces \ {p}
      <4>1. \A q \in Operations, i \in 1..CallsPerOp : i <= left'[q] <=> (i <= left[q] /\ ~(q = o /\ i = left[o]))
        BY <2>1, <2>2 DEF TypeOK
      <4> QED BY <4>1 DEF CallPlaces
    <3> HIDE DEF p
    <3> QED BY <3>1, <3>2, FS_RemoveElement DEF PlacesFit
  <2>5. Cardinality(FlightPlaces') <= Cardinality(FlightPlaces) + 1
    <3> DEFINE p == <<c, inFlight[c] + 1>>
    <3>1. FlightPlaces' \subseteq FlightPlaces \cup {p}
      <4>1. \A d \in Costs, i \in 1..MaxInFlight : i <= inFlight'[d] => i <= inFlight[d] \/ (d = c /\ i = inFlight[c] + 1)
        BY <2>1, <2>2 DEF TypeOK
      <4> QED BY <4>1 DEF FlightPlaces
    <3> HIDE DEF p
    <3>2. /\ IsFiniteSet(FlightPlaces \cup {p})
          /\ Cardinality(FlightPlaces \cup {p}) \in {Cardinality(FlightPlaces), Cardinality(FlightPlaces) + 1}
      BY FS_AddElement DEF PlacesFit
    <3>3. Cardinality(FlightPlaces') <= Cardinality(FlightPlaces \cup {p})
      BY <3>1, <3>2, FS_Subset
    <3> QED BY <3>2, <3>3 DEF PlacesFit
  <2>6. Pending' <= Pending
    BY <2>4, <2>5 DEF Pending, PlacesFit
  <2> QED BY <2>1, <2>3, <2>6, DebtUsage
<1>4. ASSUME NEW c \in Costs, DeductFails(c) PROVE DebtInv'
  <2>1. UNCHANGED <<monthly, extra, resets, unacked, clobbered, left>> /\ inFlight' = [inFlight EXCEPT ![c] = @ - 1]
    BY <1>4 DEF DeductFails
  <2>2. inFlight[c] \in Nat
    BY DEF TypeOK
  <2>3. UsageBounded'
    BY <2>1, <2>2, LimitsAssumption DEF DebtInv, UsageBounded, TypeOK
  <2>4. FlightPlaces' \subseteq FlightPlaces /\ CallPlaces' = CallPlaces
    BY <2>1, <2>2 DEF FlightPlaces, CallPlaces, TypeOK
  <2>5. Pending' <= Pending
    BY <2>4, FS_Subset DEF Pending, PlacesFit
  <2> QED BY <2>1, <2>3, <2>5, DebtUsage
<1>5. ASSUME NEW c \in Costs, Deduct(c) PROVE DebtInv'
  BY <1>5, DebtDeduct
<1>6. ASSUME NEW c \in Costs, DeductUnacked(c) PROVE DebtInv'
  <2>1. unacked' # 0 /\ UNCHANGED left /\ inFlight' = [inFlight EXCEPT ![c] = @ - 1] /\ inFlight[c] \in Nat
    BY <1>6 DEF DeductUnacked, TypeOK
  <2>2. UsageBounded'
    BY <2>1, LimitsAssumption DEF DebtInv, UsageBounded, TypeOK
  <2> QED BY <2>1, <2>2 DEF DebtInv, DebtCovered
<1>7. CASE Award
  BY <1>7, AmountsAssumption, DebtRepaid DEF Award
<1>8. CASE Deactivate
  BY <1>8, DebtReset DEF Deactivate
<1>9. ASSUME NEW j \in Jobs, JobStep(j) PROVE DebtInv'
  <2>1. CASE WriteExtra(j)
    <3>1. ~clobbered' => ~clobbered /\ extra' = extra + Pack
      BY <2>1 DEF WriteExtra
    <3>2. UNCHANGED <<monthly, left, inFlight, resets, unacked>>
      BY <2>1 DEF WriteExtra
    <3> QED BY <3>1, <3>2, AmountsAssumption, DebtRepaid
  <2>2. CASE WriteTokens(j)
    BY <2>2, DebtReset DEF WriteTokens
  <2>3. CASE Start(j) \/ ReadExtra(j) \/ ReadFlag(j) \/ Tell(j) \/ Lose(j) \/ Rerun(j)
    BY <2>3, DebtIdle DEF Start, ReadExtra, ReadFlag, Tell, Lose, Rerun
  <2> QED BY <1>9, <2>1, <2>2, <2>3 DEF JobStep
<1>10. CASE UNCHANGED vars
  BY <1>10, DebtIdle DEF vars
<1> QED BY <1>1, <1>2, <1>3, <1>4, <1>5, <1>6, <1>7, <1>8, <1>9, <1>10 DEF Next

\* Between two writes of the monthly balance no more is overdrawn than was
\* admitted while there were credits, whatever the operations and their costs,
\* as long as there is a largest one.
THEOREM DebtStaysBounded ==
  ASSUME ~SequentialSet, LargestCost, IsFiniteSet(Operations)
  PROVE  Spec => []DebtBounded
<1>1. Init /\ PlacesFit => DebtInv
  <2> SUFFICES ASSUME Init, PlacesFit PROVE DebtInv
    OBVIOUS
  <2>1. UsageBounded
    BY LimitsAssumption DEF Init, UsageBounded
  <2>2. FlightPlaces = {} /\ CallPlaces = {}
    BY DEF Init, FlightPlaces, CallPlaces
  <2>3. Pending = 0
    BY <2>2, FS_EmptySet DEF Pending
  <2>4. Exposure \in Nat /\ MaxCost \in Nat
    BY MaxCostBounds, Times DEF Exposure, PlacesFit, Places
  <2>5. extra = 0 /\ resets = 0 /\ MaxCost * Pending = 0 /\ Exposure * resets = 0 /\ Exposure * (resets + 1) = Exposure
    BY <2>3, <2>4 DEF Init
  <2> QED BY <2>1, <2>4, <2>5 DEF DebtInv, DebtCovered
<1>2. TypeOK /\ PlacesFit /\ DebtInv => DebtBounded
  <2> SUFFICES ASSUME TypeOK, PlacesFit, DebtInv, ~clobbered, unacked = 0 PROVE extra >= -(Exposure * (resets + 1))
    BY DEF DebtBounded
  <2>1. MaxCost \in Nat /\ Pending \in Nat /\ resets \in Nat /\ extra \in Int
    BY MaxCostBounds DEF PlacesFit, TypeOK
  <2>2. MaxCost * Pending \in Nat /\ Exposure \in Nat
    BY <2>1, Times DEF Exposure, PlacesFit, Places
  <2>3. Exposure * (resets + 1) = Exposure * resets + Exposure /\ Exposure * resets \in Nat
    BY <2>1, <2>2, Times
  <2>4. extra >= -(Exposure * resets) \/ extra >= MaxCost * Pending - Exposure * (resets + 1)
    BY DEF DebtInv, DebtCovered
  <2> HIDE DEF Exposure, Pending, MaxCost
  <2> QED BY <2>1, <2>2, <2>3, <2>4
<1> QED BY <1>1, <1>2, DebtStep, PlacesAlwaysBounded, TypeCorrect, PTL DEF Spec

-----------------------------------------------------------------------------
(* The events.  A handler that has written the flag off and not yet said so *)
(* owes the event.                                                          *)

Owing == {j \in Jobs : job[j].pc = "tell" /\ job[j].prev /\ job[j].tokens = 0}
ToldOrOwing == IsFiniteSet(Owing) /\ (~blurred => lapses = told + Cardinality(Owing))

LEMMA ToldOrOwingStep == TypeOK /\ ToldOrOwing /\ [Next]_vars => ToldOrOwing'
<1> SUFFICES ASSUME TypeOK, ToldOrOwing, [Next]_vars PROVE ToldOrOwing'
  OBVIOUS
<1>t. /\ IsFiniteSet(Owing) /\ Cardinality(Owing) \in Nat /\ lapses \in Nat /\ told \in Nat
      /\ ~blurred => lapses = told + Cardinality(Owing)
  BY FS_CardinalityType DEF ToldOrOwing, TypeOK
<1>1. ASSUME Owing' = Owing, UNCHANGED <<lapses, told, blurred>> PROVE ToldOrOwing'
  BY <1>1 DEF ToldOrOwing
<1>2. ASSUME NEW j \in Jobs, WriteTokens(j) PROVE ToldOrOwing'
  <2>1. /\ job[j].pc = "write" /\ job'[j].pc = "tell" /\ job'[j].prev = job[j].prev /\ job'[j].tokens = job[j].tokens
        /\ \A k \in Jobs \ {j} : job'[k] = job[k]
        /\ told' = told /\ job[j].tokens \in Nat
    BY <1>2 DEF WriteTokens, At, Put, TypeOK, Handlers
  <2>2. CASE job[j].prev /\ job[j].tokens = 0
    <3>1. Owing' = Owing \cup {j} /\ j \notin Owing
      BY <2>1, <2>2 DEF Owing
    <3>2. IsFiniteSet(Owing') /\ Cardinality(Owing') = Cardinality(Owing) + 1
      BY <1>t, <3>1, FS_AddElement
    <3>3. ~blurred' => ~blurred /\ ai
      BY <1>2, <2>2 DEF WriteTokens, TypeOK
    <3>4. ~ai'
      <4>1. ai' = (job[j].tokens > 0)
        BY <1>2 DEF WriteTokens
      <4>2. ~(job[j].tokens > 0)
        BY <2>2
      <4> QED BY <4>1, <4>2, Zenon
    <3>5. ~blurred' => lapses' = lapses + 1
      BY <1>2, <3>3, <3>4 DEF WriteTokens
    <3> QED BY <1>t, <2>1, <3>2, <3>3, <3>5 DEF ToldOrOwing
  <2>3. CASE ~(job[j].prev /\ job[j].tokens = 0)
    <3>1. Owing' = Owing
      BY <2>1, <2>3 DEF Owing
    <3>2. ai' <=> job[j].tokens > 0
      BY <1>2 DEF WriteTokens
    <3>3. ~blurred' => ~blurred /\ (job[j].prev <=> ai)
      BY <1>2 DEF WriteTokens
    <3>4. ~blurred' => ~(ai /\ ~ai')
      BY <2>1, <2>3, <3>2, <3>3
    <3>5. ~blurred' => lapses' = lapses
      BY <1>2, <1>t, <3>4 DEF WriteTokens
    <3> QED BY <1>t, <2>1, <3>1, <3>3, <3>5 DEF ToldOrOwing
  <2> QED BY <2>2, <2>3
<1>3. ASSUME NEW j \in Jobs, Tell(j) PROVE ToldOrOwing'
  <2>1. /\ job[j].pc = "tell" /\ job'[j].pc = "done"
        /\ \A k \in Jobs \ {j} : job'[k] = job[k]
        /\ UNCHANGED <<lapses, blurred>>
    BY <1>3 DEF Tell, At, Put, TypeOK, Handlers
  <2>2. Owing' = Owing \ {j}
    BY <2>1 DEF Owing
  <2>3. j \in Owing <=> job[j].prev /\ job[j].tokens = 0
    BY <2>1 DEF Owing
  <2>4. /\ IsFiniteSet(Owing')
        /\ Cardinality(Owing') = IF j \in Owing THEN Cardinality(Owing) - 1 ELSE Cardinality(Owing)
    BY <1>t, <2>2, FS_RemoveElement
  <2>5. told' = told + (IF j \in Owing THEN 1 ELSE 0)
    BY <1>3, <2>3 DEF Tell
  <2> QED BY <1>t, <2>1, <2>4, <2>5 DEF ToldOrOwing
<1>4. ASSUME NEW j \in Jobs, Lose(j) PROVE ToldOrOwing'
  <2>1. /\ job'[j].pc = "lost"
        /\ \A k \in Jobs \ {j} : job'[k] = job[k]
        /\ UNCHANGED <<lapses, told>>
    BY <1>4 DEF Lose, Put, TypeOK, Handlers
  <2>2. Owing' = Owing \ {j}
    BY <2>1 DEF Owing
  <2>3. IsFiniteSet(Owing') /\ (j \notin Owing => Owing' = Owing)
    BY <1>t, <2>2, FS_RemoveElement
  <2>4. ~blurred' => ~blurred /\ j \notin Owing
    BY <1>4 DEF Lose, Owing
  <2> QED BY <1>t, <2>1, <2>3, <2>4 DEF ToldOrOwing
<1>5. ASSUME NEW j \in Jobs, Start(j) \/ ReadExtra(j) \/ WriteExtra(j) \/ ReadFlag(j) \/ Rerun(j) PROVE ToldOrOwing'
  <2>1. /\ job[j].pc # "tell" /\ job'[j].pc # "tell"
        /\ \A k \in Jobs \ {j} : job'[k] = job[k]
    BY <1>5 DEF Start, ReadExtra, WriteExtra, ReadFlag, Rerun, At, Put, TypeOK, Handlers
  <2>2. UNCHANGED <<lapses, told, blurred>>
    BY <1>5 DEF Start, ReadExtra, WriteExtra, ReadFlag, Rerun, flag
  <2>3. Owing' = Owing
    BY <2>1 DEF Owing
  <2> QED BY <1>1, <2>2, <2>3
<1>6. ASSUME UNCHANGED <<job, flag>> PROVE ToldOrOwing'
  BY <1>1, <1>6 DEF Owing, flag
<1> QED BY <1>2, <1>3, <1>4, <1>5, <1>6
        DEF Next, JobStep, Begin, End, RecordUsage, Deduct, DeductFails, DeductUnacked, Award, Deactivate, vars

\* Each time aiEnabled goes off, the handler that switched it off says so, once
\* all handlers rest, short of one that died in between or wrote a flag that
\* another had changed since it read it.
THEOREM LapsesAreTold == Spec => []ToldOncePerLapseUnlessBlurred
<1>1. Init => ToldOrOwing
  <2> SUFFICES ASSUME Init PROVE ToldOrOwing
    OBVIOUS
  <2>1. Owing = {}
    BY DEF Init, Owing
  <2> QED BY <2>1, FS_EmptySet DEF Init, ToldOrOwing
<1>2. TypeOK /\ ToldOrOwing => ToldOncePerLapseUnlessBlurred
  <2> SUFFICES ASSUME TypeOK, ToldOrOwing, Resting, ~blurred PROVE told = lapses
    BY DEF ToldOncePerLapseUnlessBlurred
  <2>1. Owing = {}
    BY DEF Resting, Owing
  <2>2. Cardinality(Owing) = 0
    BY <2>1, FS_EmptySet
  <2> QED BY <2>2 DEF ToldOrOwing, TypeOK
<1> QED BY <1>1, <1>2, ToldOrOwingStep, TypeCorrect, PTL DEF Spec
=============================================================================
