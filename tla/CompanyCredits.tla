---------------------------- MODULE CompanyCredits ----------------------------
(***************************************************************************)
(* The two credit balances of one company and everything that writes them: *)
(* LLM usage (pre-flight check, usage record, deduction in an event        *)
(* listener), plan allocations and one-time purchases run by webhook jobs, *)
(* referral rewards, and the reset at the end of a subscription.           *)
(*                                                                         *)
(* A balance is counted in the smallest unit the code keeps (the fourth    *)
(* decimal), so its rounding is exact here.  A deduction and a reward are  *)
(* single Cypher statements; an allocation and a purchase read in one      *)
(* await and write in a later one, and their job may run again.            *)
(***************************************************************************)
EXTENDS Integers, FiniteSets

CONSTANTS Operations,     \* slots in which operations that call a model run
          Jobs,           \* webhook jobs that allocate or sell credits
          Costs,          \* credits one usage record may cost
          Tokens,         \* monthly credits of the plans
          Pack,           \* credits of the pack sold
          Reward,         \* credits of a completed referral
          CallsPerOp,     \* bound: usage records of one operation
          MaxInFlight,    \* bound: deductions emitted and not yet written
          MaxBegun,       \* bound: operations begun
          MaxResets,      \* bound: writes of the monthly balance
          MaxAwards,      \* bound: referral rewards
          MaxRuns,        \* bound: runs of one job
          MaxUnacked,     \* bound: committed writes whose answer is lost
          SequentialSet   \* a SET clause sees the items it has already assigned

ASSUME AmountsAssumption == /\ Costs \subseteq Nat /\ Costs # {}
                            /\ Tokens \subseteq Nat /\ Tokens # {}
                            /\ Pack \in Nat /\ Reward \in Nat
ASSUME LimitsAssumption == /\ CallsPerOp \in Nat /\ MaxInFlight \in Nat /\ MaxBegun \in Nat
                           /\ MaxResets \in Nat /\ MaxAwards \in Nat /\ MaxRuns \in Nat
                           /\ MaxUnacked \in Nat /\ SequentialSet \in BOOLEAN

VARIABLES monthly, extra,   \* availableMonthlyCredits, availableExtraCredits
          ai,               \* aiEnabled
          left,             \* [Operations -> usage records the operation may still write]
          begun,            \* operations begun
          inFlight,         \* [Costs -> deductions emitted and not yet written]
          job,              \* [Jobs -> the handler the job runs and what it has read]
          resets, awards,   \* writes of the monthly balance; referral rewards
          unacked,          \* committed writes whose answer was lost
          credited, spent,  \* history: what the company was given, and what it used
          clobbered,        \* history: a purchase wrote over a balance it had not read
          lapses, told,     \* history: aiEnabled going off; events saying so
          blurred           \* history: a change of aiEnabled hidden from its writer

balances == <<monthly, extra>>
usage == <<left, begun, inFlight>>
ledger == <<credited, spent, clobbered>>
flag == <<ai, lapses, told, blurred>>
counts == <<resets, awards, unacked>>
vars == <<balances, usage, job, counts, ledger, flag>>

JobSteps == {"new", "read", "write", "tell", "done", "lost"}
Kinds == {"none", "purchase", "allocation"}
Handlers == [pc : JobSteps, kind : Kinds, tokens : Nat, runs : Nat,
             seen : Int, prev : BOOLEAN, paid : BOOLEAN]

TypeOK ==
  /\ monthly \in Nat /\ extra \in Int
  /\ left \in [Operations -> Nat] /\ begun \in Nat
  /\ inFlight \in [Costs -> Nat]
  /\ job \in [Jobs -> Handlers]
  /\ resets \in Nat /\ awards \in Nat /\ unacked \in Nat
  /\ credited \in Int /\ spent \in Nat /\ clobbered \in BOOLEAN
  /\ ai \in BOOLEAN /\ lapses \in Nat /\ told \in Nat /\ blurred \in BOOLEAN

Init ==
  /\ monthly \in Tokens
  /\ extra = 0
  /\ ai = TRUE
  /\ left = [o \in Operations |-> 0] /\ begun = 0
  /\ inFlight = [c \in Costs |-> 0]
  /\ job = [j \in Jobs |-> [pc |-> "new", kind |-> "none", tokens |-> 0, runs |-> 0,
                            seen |-> 0, prev |-> TRUE, paid |-> FALSE]]
  /\ resets = 0 /\ awards = 0 /\ unacked = 0
  /\ credited = monthly /\ spent = 0 /\ clobbered = FALSE
  /\ lapses = 0 /\ told = 0 /\ blurred = FALSE

-----------------------------------------------------------------------------
(* Usage. *)

HasCredits == monthly > 0 \/ extra > 0

\* Mutant: the pre-flight check is missing.
BeginUnchecked(o) ==
  /\ left[o] = 0
  /\ begun < MaxBegun
  /\ begun' = begun + 1
  /\ left' = [left EXCEPT ![o] = CallsPerOp]
  /\ UNCHANGED <<balances, inFlight, job, counts, ledger, flag>>

\* validateCompanyCredits lets the operation start; 402 and a deferral change
\* nothing.  What follows is not checked again.
Begin(o) ==
  /\ left[o] = 0
  /\ HasCredits
  /\ begun < MaxBegun
  /\ begun' = begun + 1
  /\ left' = [left EXCEPT ![o] = CallsPerOp]
  /\ UNCHANGED <<balances, inFlight, job, counts, ledger, flag>>

\* A usage record is written and TOKEN_USAGE_RECORDED_EVENT emitted; the
\* listener's write has been sent when emit returns, not answered.
RecordUsage(o, c) ==
  /\ left[o] > 0
  /\ inFlight[c] < MaxInFlight
  /\ left' = [left EXCEPT ![o] = @ - 1]
  /\ inFlight' = [inFlight EXCEPT ![c] = @ + 1]
  /\ UNCHANGED <<balances, begun, job, counts, ledger, flag>>

End(o) ==
  /\ left[o] > 0
  /\ left' = [left EXCEPT ![o] = 0]
  /\ UNCHANGED <<balances, begun, inFlight, job, counts, ledger, flag>>

\* The two CASE expressions of useCredits, over the balances b they read: the
\* monthly balance first, the rest from the extra one, which may go below zero.
MonthlyAfter(b, c) == IF b.monthly >= c THEN b.monthly - c ELSE 0
ExtraAfter(b, c) ==
  IF b.monthly >= c THEN b.extra
  ELSE IF b.monthly > 0 THEN b.extra - (c - b.monthly) ELSE b.extra - c

\* Mutant: the spill takes the whole cost from the extra balance as well.
ChargedWhole(b, c) ==
  [monthly |-> MonthlyAfter(b, c),
   extra |-> IF b.monthly >= c THEN b.extra ELSE b.extra - c]

\* One SET clause.  The second item reads the balance the first has assigned
\* when the clause evaluates its items in order.
Charged(b, c) ==
  LET m == MonthlyAfter(b, c)
  IN [monthly |-> m,
      extra |-> ExtraAfter([b EXCEPT !.monthly = IF SequentialSet THEN m ELSE @], c)]

Balance == [monthly |-> monthly, extra |-> extra]
Become(b) == monthly' = b.monthly /\ extra' = b.extra

\* The listener's statement; a usage record of no credits writes nothing.
Deduct(c) ==
  /\ inFlight[c] > 0
  /\ inFlight' = [inFlight EXCEPT ![c] = @ - 1]
  /\ IF c = 0 THEN UNCHANGED balances ELSE Become(Charged(Balance, c))
  /\ spent' = spent + c
  /\ UNCHANGED <<left, begun, job, counts, credited, clobbered, flag>>

\* The statement fails for good: the listener logs it and the usage is free.
DeductFails(c) ==
  /\ inFlight[c] > 0
  /\ inFlight' = [inFlight EXCEPT ![c] = @ - 1]
  /\ UNCHANGED <<balances, left, begun, job, counts, ledger, flag>>

\* The statement commits, its answer is lost, and the driver wrapper runs it again.
DeductUnacked(c) ==
  /\ inFlight[c] > 0 /\ c > 0
  /\ unacked < MaxUnacked
  /\ unacked' = unacked + 1
  /\ inFlight' = [inFlight EXCEPT ![c] = @ - 1]
  /\ Become(Charged(Charged(Balance, c), c))
  /\ spent' = spent + c
  /\ UNCHANGED <<left, begun, job, resets, awards, credited, clobbered, flag>>

-----------------------------------------------------------------------------
(* Grants. *)

\* addExtraCredits, one statement
Award ==
  /\ awards < MaxAwards
  /\ awards' = awards + 1
  /\ extra' = extra + Reward
  /\ credited' = credited + Reward
  /\ UNCHANGED <<monthly, usage, job, resets, unacked, spent, clobbered, flag>>

\* The end of a subscription zeroes the monthly balance and leaves aiEnabled.
Deactivate ==
  /\ resets < MaxResets
  /\ resets' = resets + 1
  /\ monthly' = 0
  /\ credited' = credited - monthly
  /\ UNCHANGED <<extra, usage, job, awards, unacked, spent, clobbered, flag>>

Put(j, changes) == job' = [job EXCEPT ![j] = changes]
At(j, step, kind) == job[j].pc = step /\ job[j].kind = kind

\* A job turns out to be a purchase, or an allocation of some plan's tokens.
Start(j) ==
  /\ job[j].pc = "new"
  /\ \/ Put(j, [job[j] EXCEPT !.pc = "read", !.kind = "purchase", !.runs = 1])
     \/ \E t \in Tokens :
          Put(j, [job[j] EXCEPT !.pc = "read", !.kind = "allocation", !.tokens = t, !.runs = 1])
  /\ UNCHANGED <<balances, usage, counts, ledger, flag>>

\* findCompanyBySubscription
ReadExtra(j) ==
  /\ At(j, "read", "purchase")
  /\ Put(j, [job[j] EXCEPT !.pc = "write", !.seen = extra])
  /\ UNCHANGED <<balances, usage, counts, ledger, flag>>

\* allocateExtraTokensOnOneTimePurchase writes the sum it has computed.  The
\* customer has paid for one pack, however often the job runs.
WriteExtra(j) ==
  /\ At(j, "write", "purchase")
  /\ extra' = job[j].seen + Pack
  /\ credited' = credited + (IF job[j].paid THEN 0 ELSE Pack)
  /\ clobbered' = (clobbered \/ job[j].paid \/ job[j].seen # extra)
  /\ Put(j, [job[j] EXCEPT !.pc = "done", !.paid = TRUE, !.seen = 0])
  /\ UNCHANGED <<monthly, usage, counts, spent, flag>>

\* updateTokensAndAiFlag reads the previous flag,
ReadFlag(j) ==
  /\ At(j, "read", "allocation")
  /\ Put(j, [job[j] EXCEPT !.pc = "write", !.prev = ai])
  /\ UNCHANGED <<balances, usage, counts, ledger, flag>>

\* writes the plan's tokens (or the part the proration leaves) and the flag,
WriteTokens(j) ==
  /\ At(j, "write", "allocation")
  /\ resets < MaxResets
  /\ resets' = resets + 1
  /\ \E t \in 0..job[j].tokens :
       monthly' = t /\ credited' = credited + (t - monthly)
  /\ ai' = (job[j].tokens > 0)
  /\ lapses' = lapses + (IF ai /\ ~ai' THEN 1 ELSE 0)
  /\ blurred' = (blurred \/ job[j].prev # ai)
  /\ Put(j, [job[j] EXCEPT !.pc = "tell"])
  /\ UNCHANGED <<extra, usage, awards, unacked, spent, clobbered, told>>

\* Mutant: the event goes out for every plan without AI.
TellAlways(j) ==
  /\ At(j, "tell", "allocation")
  /\ told' = told + (IF job[j].tokens = 0 THEN 1 ELSE 0)
  /\ Put(j, [job[j] EXCEPT !.pc = "done", !.prev = FALSE])
  /\ UNCHANGED <<balances, usage, counts, ledger, ai, lapses, blurred>>

\* and emits COMPANY_AI_DISABLED_EVENT.
Tell(j) ==
  /\ At(j, "tell", "allocation")
  /\ told' = told + (IF job[j].prev /\ job[j].tokens = 0 THEN 1 ELSE 0)
  /\ Put(j, [job[j] EXCEPT !.pc = "done", !.prev = FALSE])
  /\ UNCHANGED <<balances, usage, counts, ledger, ai, lapses, blurred>>

\* The worker dies, or a read or write of the handler throws: the handler
\* ends here, what it has read is gone, and, its errors being caught, the job
\* may still succeed.
Lose(j) ==
  /\ job[j].pc \in {"read", "write", "tell"}
  /\ blurred' = (blurred \/ job[j].pc = "tell")
  /\ Put(j, [job[j] EXCEPT !.pc = "lost", !.seen = 0, !.prev = FALSE])
  /\ UNCHANGED <<balances, usage, counts, ledger, ai, lapses, told>>

\* The queue runs the job again: it stalled, or a later step of it failed.
Rerun(j) ==
  /\ job[j].pc \in {"done", "lost"}
  /\ job[j].runs < MaxRuns
  /\ Put(j, [job[j] EXCEPT !.pc = "read", !.runs = @ + 1])
  /\ UNCHANGED <<balances, usage, counts, ledger, flag>>

-----------------------------------------------------------------------------
JobStep(j) == \/ Start(j) \/ ReadExtra(j) \/ WriteExtra(j) \/ ReadFlag(j)
              \/ WriteTokens(j) \/ Tell(j) \/ Lose(j) \/ Rerun(j)

Next ==
  \/ \E o \in Operations : Begin(o) \/ End(o)
  \/ \E o \in Operations, c \in Costs : RecordUsage(o, c)
  \/ \E c \in Costs : Deduct(c) \/ DeductFails(c) \/ DeductUnacked(c)
  \/ \E j \in Jobs : JobStep(j)
  \/ Award \/ Deactivate

Spec == Init /\ [][Next]_vars

-----------------------------------------------------------------------------
(* Properties. *)

\* The balances are what the company was given less what it used.
Ledger == monthly + extra = credited - spent

\* Whatever runs at once, the balances add up, except when a purchase wrote
\* over a balance it had not read, or wrote twice, or a deduction whose answer
\* was lost was repeated.
LedgerUnlessRepeated == ~clobbered /\ unacked = 0 => Ledger

\* The pre-flight check bounds the debt: between two writes of the monthly
\* balance, no more than what was admitted while there were credits can be
\* overdrawn.  The debt is never repaid by an allocation, so it adds up.
MaxCost == CHOOSE c \in Costs : \A d \in Costs : d <= c
Exposure == MaxCost * (Cardinality(Costs \ {0}) * MaxInFlight + Cardinality(Operations) * CallsPerOp)
DebtBounded == ~clobbered /\ unacked = 0 => extra >= -(Exposure * (resets + 1))

\* Each time aiEnabled goes off, exactly one event says so, once the jobs rest,
\* if no job died between the write and the event, and none wrote a flag that
\* another had changed since it read it.
Resting == \A j \in Jobs : job[j].pc # "tell"
ToldOncePerLapseUnlessBlurred == Resting /\ ~blurred => told = lapses
=============================================================================
