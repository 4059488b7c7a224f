--------------------------- MODULE OperatorApprovals ---------------------------
(***************************************************************************)
(* One conversation with the operator agent: turns that run the agent,     *)
(* runs frozen at a destructive tool call until the user approves or       *)
(* denies it, and the actions that record the approvals.                   *)
(*                                                                         *)
(* A turn's run is a thread of its own, named by the turn's request; the   *)
(* destructive calls of a thread are its steps.  The checkpoint of a       *)
(* frozen thread lies in Redis (or in memory), the action in Neo4j, and    *)
(* the request that resolves an action resumes its thread.                 *)
(***************************************************************************)
EXTENDS Integers

CONSTANTS Requests,    \* requests of one conversation; those that are turns name threads
          MaxSteps,    \* bound: destructive calls of one thread
          MaxFaults,   \* bound: calls that fail
          Late,        \* an action's time may run out while it is being resolved
          Durable      \* checkpoints are in Redis, not in memory

ASSUME BoundsAssumption == /\ MaxSteps \in Nat /\ MaxFaults \in Nat
                           /\ Late \in BOOLEAN /\ Durable \in BOOLEAN

VARIABLES at,                \* [Requests -> where the request is]
          job,               \* [Requests -> what it does]
          thread, step,      \* [Requests -> the thread it runs, the last call it met]
          result,            \* [Requests -> kind of the operator's result]
          status, overdue,   \* [Actions -> status; expiresAt has passed]
          matched,           \* actions that the statement of expireAction has matched
          saved,             \* [Requests -> step at which the thread's checkpoint is frozen, or 0]
          granted, executed, \* history: actions approved; [Actions -> runs of the tool]
          faults

Actions == Requests \X (1..MaxSteps)
ActionOf(r) == <<thread[r], step[r]>>

request == <<at, job, thread, step, result>>
approval == <<status, overdue, matched, granted>>
world == <<saved, executed>>
vars == <<request, approval, world, faults>>

Ended == {"new", "done", "failed"}
Places == Ended \cup {"running", "answer", "action", "deciding",
                      "preparing", "resuming", "tools", "failing", "marking"}
Jobs == {"none", "turn", "approve", "deny"}
Statuses == {"none", "pending", "approved", "denied", "expired", "executed", "failed"}

TypeOK ==
  /\ at \in [Requests -> Places] /\ job \in [Requests -> Jobs]
  /\ thread \in [Requests -> Requests] /\ step \in [Requests -> 0..MaxSteps]
  /\ result \in [Requests -> {"none", "completed", "pending_approval"}]
  /\ status \in [Actions -> Statuses] /\ overdue \in [Actions -> BOOLEAN]
  /\ matched \subseteq Actions /\ granted \subseteq Actions
  /\ saved \in [Requests -> 0..MaxSteps]
  /\ executed \in [Actions -> Nat]
  /\ faults \in 0..MaxFaults

Init ==
  /\ at = [r \in Requests |-> "new"] /\ job = [r \in Requests |-> "none"]
  /\ thread = [r \in Requests |-> r] /\ step = [r \in Requests |-> 0]
  /\ result = [r \in Requests |-> "none"]
  /\ status = [a \in Actions |-> "none"] /\ overdue = [a \in Actions |-> FALSE]
  /\ matched = {} /\ granted = {}
  /\ saved = [r \in Requests |-> 0]
  /\ executed = [a \in Actions |-> 0]
  /\ faults = 0

Go(r, place) == at' = [at EXCEPT ![r] = place]

-----------------------------------------------------------------------------
(* A turn. *)

\* appendMessageOperator has stored the user's message.
BeginTurn(r) ==
  /\ at[r] = "new"
  /\ Go(r, "running")
  /\ job' = [job EXCEPT ![r] = "turn"]
  /\ UNCHANGED <<thread, step, result, approval, world, faults>>

\* persistOperatorOutcome: the answer, or the request for approval.
WriteAnswer(r) ==
  /\ at[r] = "answer"
  /\ Go(r, IF result[r] = "completed" THEN "done" ELSE "action")
  /\ UNCHANGED <<job, thread, step, result, approval, world, faults>>

\* createPendingAction: the action expires approvalTtlDays from now.
CreateAction(r) ==
  /\ at[r] = "action"
  /\ status' = [status EXCEPT ![ActionOf(r)] = "pending"]
  /\ Go(r, "done")
  /\ UNCHANGED <<job, thread, step, result, overdue, matched, granted, world, faults>>

-----------------------------------------------------------------------------
(* The run. *)

\* When an approved run returns, its action is marked before the answer is
\* written; a denied one was marked at once.
AfterRun(r) == IF job[r] = "approve" THEN "marking" ELSE "answer"

\* The agent finishes without another destructive call.
Complete(r) ==
  /\ at[r] = "running"
  /\ Go(r, AfterRun(r))
  /\ result' = [result EXCEPT ![r] = "completed"]
  /\ UNCHANGED <<job, thread, step, approval, world, faults>>

\* The agent calls a destructive tool: interrupt() freezes the thread.
Freeze(r) ==
  /\ at[r] = "running" /\ step[r] < MaxSteps
  /\ Go(r, AfterRun(r))
  /\ step' = [step EXCEPT ![r] = @ + 1]
  /\ saved' = [saved EXCEPT ![thread[r]] = step[r] + 1]
  /\ result' = [result EXCEPT ![r] = "pending_approval"]
  /\ UNCHANGED <<job, thread, approval, executed, faults>>

FrozenAt(t) == <<t, saved[t]>>

\* Mutant: the tools node goes on whatever the decision is.
ResumeUnasked(r) ==
  /\ at[r] = "resuming"
  /\ saved[thread[r]] > 0
  /\ executed' = [executed EXCEPT ![FrozenAt(thread[r])] = @ + 1]
  /\ Go(r, "tools")
  /\ UNCHANGED <<job, thread, step, result, approval, saved, faults>>

\* resume() replays the tools node of whatever checkpoint the thread has: the
\* tool runs if the answer is yes.  A tool that throws has run as well.
Resume(r) ==
  /\ at[r] = "resuming"
  /\ saved[thread[r]] > 0
  /\ executed' = IF job[r] = "approve"
                 THEN [executed EXCEPT ![FrozenAt(thread[r])] = @ + 1] ELSE executed
  /\ Go(r, "tools")
  /\ UNCHANGED <<job, thread, step, result, approval, saved, faults>>

\* The tools node ends; the checkpoint after it is no longer frozen.
Advance(r) ==
  /\ at[r] = "tools"
  /\ saved' = [saved EXCEPT ![thread[r]] = 0]
  /\ Go(r, "running")
  /\ UNCHANGED <<job, thread, step, result, approval, executed, faults>>

\* There is no checkpoint to resume.
ResumeFails(r) ==
  /\ at[r] = "resuming"
  /\ saved[thread[r]] = 0
  /\ Go(r, "failing")
  /\ UNCHANGED <<job, thread, step, result, approval, world, faults>>

\* A model or database call of the run throws.
RunFails(r) ==
  /\ at[r] \in {"running", "resuming", "tools"} /\ faults < MaxFaults
  /\ Go(r, IF job[r] = "turn" THEN "failed" ELSE "failing")
  /\ faults' = faults + 1
  /\ UNCHANGED <<job, thread, step, result, approval, world>>

-----------------------------------------------------------------------------
(* Approval and denial. *)

Locked(a) == \E r \in Requests : at[r] = "deciding" /\ ActionOf(r) = a

\* Mutant: the guard is read before the lock is held.
DecideUnlocked(r, a, answer) ==
  /\ at[r] = "new"
  /\ status[a] = "pending" /\ ~overdue[a]
  /\ Go(r, "deciding")
  /\ job' = [job EXCEPT ![r] = answer]
  /\ thread' = [thread EXCEPT ![r] = a[1]] /\ step' = [step EXCEPT ![r] = a[2]]
  /\ UNCHANGED <<result, approval, world, faults>>

\* resolveStatus from pending: the first SET takes the node's lock, then the
\* guard is read.  When it fails the answer is 409 and nothing has changed.
Decide(r, a, answer) ==
  /\ at[r] = "new"
  /\ ~Locked(a)
  /\ status[a] = "pending" /\ ~overdue[a]
  /\ Go(r, "deciding")
  /\ job' = [job EXCEPT ![r] = answer]
  /\ thread' = [thread EXCEPT ![r] = a[1]] /\ step' = [step EXCEPT ![r] = a[2]]
  /\ UNCHANGED <<result, approval, world, faults>>

\* Its commit.
Commit(r) ==
  /\ at[r] = "deciding"
  /\ status' = [status EXCEPT ![ActionOf(r)] = IF job[r] = "approve" THEN "approved" ELSE "denied"]
  /\ granted' = IF job[r] = "approve" THEN granted \cup {ActionOf(r)} ELSE granted
  /\ Go(r, "preparing")
  /\ UNCHANGED <<job, thread, step, result, overdue, matched, world, faults>>

\* The messages and contexts of the resumption are read.
Prepare(r) ==
  /\ at[r] = "preparing"
  /\ Go(r, "resuming")
  /\ UNCHANGED <<job, thread, step, result, approval, world, faults>>

\* The action the request resolves; the run may have met another since.
Resolved(r) == IF result[r] = "pending_approval" THEN <<thread[r], step[r] - 1>> ELSE ActionOf(r)

\* resolveStatus from approved or denied, which also wants expiresAt to be in
\* the future; that it changed nothing is not looked at.
Transition(r, from, to) ==
  status' = IF status[Resolved(r)] = from /\ ~overdue[Resolved(r)]
            THEN [status EXCEPT ![Resolved(r)] = to] ELSE status

\* Mutant: the guard of the first transition, copied.
MarkExecutedFromPending(r) ==
  /\ at[r] = "marking"
  /\ Transition(r, "pending", "executed")
  /\ Go(r, "answer")
  /\ UNCHANGED <<job, thread, step, result, overdue, matched, granted, world, faults>>

\* The resumption has returned: the tool ran.
MarkExecuted(r) ==
  /\ at[r] = "marking"
  /\ Transition(r, "approved", "executed")
  /\ Go(r, "answer")
  /\ UNCHANGED <<job, thread, step, result, overdue, matched, granted, world, faults>>

\* The resumption failed: the action is marked, the answer is 409.
MarkFailed(r) ==
  /\ at[r] = "failing"
  /\ Transition(r, IF job[r] = "approve" THEN "approved" ELSE "denied", "failed")
  /\ Go(r, "failed")
  /\ UNCHANGED <<job, thread, step, result, overdue, matched, granted, world, faults>>

-----------------------------------------------------------------------------
(* Failures, time and the cron. *)

\* A call outside the run fails, or the process dies: nothing is undone.
Fail(r) ==
  /\ at[r] \notin Ended /\ faults < MaxFaults
  /\ Go(r, "failed")
  /\ faults' = faults + 1
  /\ UNCHANGED <<job, thread, step, result, approval, world>>

\* The processes restart: every request is over, checkpoints in memory are gone.
Restart ==
  /\ faults < MaxFaults
  /\ at' = [r \in Requests |-> IF at[r] \in Ended THEN at[r] ELSE "failed"]
  /\ saved' = IF Durable THEN saved ELSE [r \in Requests |-> 0]
  /\ faults' = faults + 1
  /\ UNCHANGED <<job, thread, step, result, approval, executed>>

\* expiresAt passes.
TimeRunsOut(a) ==
  /\ status[a] \in (IF Late THEN {"pending", "approved", "denied"} ELSE {"pending"})
  /\ Late \/ ~Locked(a)
  /\ ~overdue[a]
  /\ overdue' = [overdue EXCEPT ![a] = TRUE]
  /\ UNCHANGED <<request, status, matched, granted, world, faults>>

\* The checkpoint lives a day longer than the approval that is created when it
\* is written, longer than any request.
CheckpointExpires(t) ==
  /\ saved[t] > 0
  /\ \A r \in Requests : thread[r] = t => at[r] \in Ended
  /\ status[FrozenAt(t)] = "pending" => overdue[FrozenAt(t)]
  /\ saved' = [saved EXCEPT ![t] = 0]
  /\ UNCHANGED <<request, approval, executed, faults>>

\* expireAction matches a pending action whose time is over ...
Match(a) ==
  /\ status[a] = "pending" /\ overdue[a]
  /\ matched' = matched \cup {a}
  /\ UNCHANGED <<request, status, overdue, granted, world, faults>>

\* ... and its SET, which does not look again, waits for the node's lock.
Expire(a) ==
  /\ a \in matched /\ ~Locked(a)
  /\ status' = [status EXCEPT ![a] = "expired"]
  /\ matched' = matched \ {a}
  /\ UNCHANGED <<request, overdue, granted, world, faults>>

-----------------------------------------------------------------------------
Turn(r) == BeginTurn(r) \/ WriteAnswer(r) \/ CreateAction(r)
Run(r) == Complete(r) \/ Freeze(r) \/ Resume(r) \/ Advance(r) \/ ResumeFails(r)
Resolution(r) == Commit(r) \/ Prepare(r) \/ MarkExecuted(r) \/ MarkFailed(r)

Next ==
  \/ \E r \in Requests :
       \/ Turn(r) \/ Run(r) \/ Resolution(r) \/ RunFails(r) \/ Fail(r)
       \/ \E a \in Actions, answer \in {"approve", "deny"} : Decide(r, a, answer)
       \/ CheckpointExpires(r)
  \/ \E a \in Actions : TimeRunsOut(a) \/ Match(a) \/ Expire(a)
  \/ Restart

Spec == Init /\ [][Next]_vars

\* A request that has begun goes on, an unanswered action runs out of time, and
\* the cron runs.
Fairness ==
  /\ \A r \in Requests : WF_vars(at[r] # "new" /\ (Turn(r) \/ Run(r) \/ Resolution(r)))
  /\ \A a \in Actions : WF_vars(status[a] = "pending" /\ TimeRunsOut(a)) /\ WF_vars(Match(a)) /\ WF_vars(Expire(a))

FairSpec == Spec /\ Fairness

-----------------------------------------------------------------------------
(* Properties. *)

\* However many requests approve, deny and retry, whatever fails or restarts, a
\* destructive tool call runs at most once, and only after it was approved:
\* the call approved is the one the thread is frozen at.
ToolNeedsApproval ==
  \A a \in Actions : executed[a] <= 1 /\ (executed[a] > 0 => a \in granted)

\* An action that can still be resolved has its checkpoint, unless checkpoints
\* are in memory and the process has restarted.
PendingIsFrozen ==
  Durable \/ faults = 0 =>
    \A a \in Actions : status[a] = "pending" /\ ~overdue[a] => saved[a[1]] = a[2]

Working(a) == \E r \in Requests : at[r] \notin Ended /\ job[r] = "approve" /\ Resolved(r) = a

\* Denied stays denied: the tool of an action that waits or was denied has not
\* run, and one marked executed has.  When the resolution is over, the action of
\* a tool that has run says so, unless its time ran out meanwhile or a call
\* failed.  One that can still be resolved has its checkpoint.
StatusHonest ==
  /\ PendingIsFrozen
  /\ \A a \in Actions :
       /\ status[a] \in {"pending", "denied"} => executed[a] = 0
       /\ status[a] = "executed" => executed[a] = 1
       /\ executed[a] > 0 /\ ~Working(a) /\ ~overdue[a] /\ faults = 0 => status[a] = "executed"

\* The cron expires no action that was approved or denied.
ResolvedIsKept ==
  [][\A a \in Actions : status[a] \in {"approved", "denied", "executed", "failed"} => status'[a] # "expired"]_vars

\* Every action is resolved or expires, and an approved one is executed unless
\* a call fails or its time runs out.
ActionsSettle ==
  \A a \in Actions :
    /\ status[a] = "pending" ~> status[a] # "pending"
    /\ status[a] = "approved" ~> (status[a] = "executed" \/ faults > 0 \/ overdue[a])
=============================================================================
