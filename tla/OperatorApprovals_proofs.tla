----------------------- MODULE OperatorApprovals_proofs -----------------------
(***************************************************************************)
(* Proofs about OperatorApprovals: its types, that a destructive call runs *)
(* at most once and only after it was approved, and that the status of an  *)
(* action tells what became of its call.                                   *)
(***************************************************************************)
EXTENDS OperatorApprovals, TLAPS

Active(r) == at[r] \notin Ended

\* The request answers for the call its thread is frozen at.
Asks(r) ==
  \/ at[r] \in {"deciding", "preparing", "resuming"}
  \/ at[r] \in {"marking", "answer", "action"} /\ result[r] = "pending_approval"

\* No call of thread t from the k-th on has run.
Unrun(t, k) == \A i \in k..MaxSteps : executed[<<t, i>>] = 0

\* Only the turn that names a thread starts it.
Threads ==
  \A r \in Requests :
    /\ at[r] = "new" => thread[r] = r /\ saved[r] = 0 /\ Unrun(r, 1)
    /\ at[thread[r]] = "new" => thread[r] = r

\* One request at a time works on a thread.
Alone == \A r, s \in Requests : Active(r) /\ Active(s) /\ thread[r] = thread[s] => r = s

\* A thread has at most one pending action, for the call it is frozen at, and
\* while there is one nobody works on the thread but who decides on it.
Waiting ==
  \A t \in Requests, k \in 1..MaxSteps : status[<<t, k>>] = "pending" =>
    /\ at[t] # "new"
    /\ \A s \in Requests : Active(s) /\ thread[s] = t => at[s] = "deciding" /\ step[s] = k
    /\ \A j \in 1..MaxSteps : status[<<t, j>>] = "pending" => j = k
    /\ saved[t] \in {0, k}
    /\ Unrun(t, k)

\* A request knows the call its thread is frozen at; that call and later ones
\* have not run.
Pursued ==
  \A r \in Requests : Active(r) =>
    /\ saved[thread[r]] \in {0, step[r]}
    /\ Unrun(thread[r], step[r] + 1)
    /\ Asks(r) => step[r] > 0 /\ executed[<<thread[r], step[r]>>] = 0
    /\ at[r] \in {"preparing", "resuming"} /\ job[r] = "approve" => ActionOf(r) \in granted

ApprovalInv == Threads /\ Alone /\ Waiting /\ Pursued /\ ToolNeedsApproval

-----------------------------------------------------------------------------
(* Types. *)

Typed ==
  /\ TypeOK
  /\ \A r \in Requests : /\ at[r] = "deciding" => step[r] > 0
                         /\ at[r] \in {"marking", "answer"} => result[r] # "none"
                         /\ at[r] = "action" => result[r] = "pending_approval"

LEMMA InitTyped == Init => Typed
BY BoundsAssumption DEF Init, Typed, TypeOK, Places, Ended, Jobs, Statuses

LEMMA NextTyped == Typed /\ [Next]_vars => Typed'
<1> SUFFICES ASSUME Typed, [Next]_vars PROVE Typed'
  OBVIOUS
<1> USE BoundsAssumption DEF Typed, TypeOK, Go, request, approval, world, Places, Ended
<1>1. ASSUME NEW r \in Requests, Turn(r) PROVE Typed'
  BY <1>1 DEF Turn, BeginTurn, WriteAnswer, CreateAction, Jobs, Statuses
<1>2. ASSUME NEW r \in Requests, Run(r) PROVE Typed'
  <2>1. CASE Complete(r)
    BY <2>1 DEF Complete, AfterRun
  <2>2. CASE Freeze(r)
    <3>1. step[r] + 1 \in 0..MaxSteps
      BY <2>2 DEF Freeze
    <3>2. step' \in [Requests -> 0..MaxSteps]
      BY <2>2, <3>1 DEF Freeze
    <3>3. saved' \in [Requests -> 0..MaxSteps]
      BY <2>2, <3>1 DEF Freeze
    <3>4. at' \in [Requests -> Places] /\ at' = [at EXCEPT ![r] = AfterRun(r)] /\ AfterRun(r) # "deciding"
      BY <2>2 DEF Freeze, AfterRun
    <3> QED
      BY <2>2, <3>2, <3>3, <3>4 DEF Freeze
  <2>3. CASE Resume(r)
    <3>1. executed' \in [Actions -> Nat]
      <4>1. \A a \in Actions : executed[a] + 1 \in Nat
        OBVIOUS
      <4> QED
        BY <2>3, <4>1 DEF Resume
    <3> QED
      BY <2>3, <3>1 DEF Resume
  <2>4. CASE Advance(r)
    BY <2>4 DEF Advance
  <2>5. CASE ResumeFails(r)
    BY <2>5 DEF ResumeFails
  <2> QED
    BY <1>2, <2>1, <2>2, <2>3, <2>4, <2>5 DEF Run
<1>3. ASSUME NEW r \in Requests, Resolution(r) PROVE Typed'
  <2>1. CASE Commit(r)
    <3>1. ActionOf(r) \in Actions
      BY <2>1 DEF Commit, ActionOf, Actions
    <3>2. status' \in [Actions -> Statuses]
      BY <2>1 DEF Commit, Statuses
    <3> QED
      BY <2>1, <3>1, <3>2 DEF Commit
  <2>2. CASE Prepare(r)
    BY <2>2 DEF Prepare
  <2>3. CASE MarkExecuted(r)
    BY <2>3 DEF MarkExecuted, Transition, Statuses
  <2>4. CASE MarkFailed(r)
    BY <2>4 DEF MarkFailed, Transition, Statuses
  <2> QED
    BY <1>3, <2>1, <2>2, <2>3, <2>4 DEF Resolution
<1>4. ASSUME NEW r \in Requests, RunFails(r) \/ Fail(r) PROVE Typed'
  BY <1>4 DEF RunFails, Fail
<1>5. ASSUME NEW r \in Requests, NEW a \in Actions, NEW answer \in {"approve", "deny"},
             Decide(r, a, answer)
      PROVE Typed'
  <2>1. a[1] \in Requests /\ a[2] \in 1..MaxSteps
    BY DEF Actions
  <2> QED
    BY <1>5, <2>1 DEF Decide, Jobs
<1>6. ASSUME NEW t \in Requests, CheckpointExpires(t) PROVE Typed'
  BY <1>6 DEF CheckpointExpires
<1>7. ASSUME NEW a \in Actions, TimeRunsOut(a) \/ Match(a) \/ Expire(a) PROVE Typed'
  BY <1>7 DEF TimeRunsOut, Match, Expire, Statuses
<1>8. CASE Restart
  BY <1>8 DEF Restart
<1>9. CASE UNCHANGED vars
  BY <1>9 DEF vars
<1> QED
  BY <1>1, <1>2, <1>3, <1>4, <1>5, <1>6, <1>7, <1>8, <1>9 DEF Next

\* Every variable has its type in every reachable state.
THEOREM TypeCorrect == Spec => []TypeOK
<1>1. Typed => TypeOK
  BY DEF Typed
<1> QED
  BY <1>1, InitTyped, NextTyped, PTL DEF Spec

-----------------------------------------------------------------------------
(* No call runs without its approval. *)

LEMMA InitApproval == Init => ApprovalInv
BY BoundsAssumption DEF Init, ApprovalInv, Threads, Alone, Waiting, Pursued, ToolNeedsApproval,
   Active, Asks, Unrun, Ended, Actions, ActionOf

LEMMA ActionPairs ==
  /\ \A t \in Requests, k \in 1..MaxSteps : <<t, k>> \in Actions
  /\ \A a \in Actions : a[1] \in Requests /\ a[2] \in 1..MaxSteps /\ a = <<a[1], a[2]>>
BY DEF Actions

\* While a request runs, nothing is pending on its thread.
LEMMA Quiet ==
  ASSUME Waiting, Typed, NEW r \in Requests, Active(r), at[r] # "deciding"
  PROVE  \A k \in 1..MaxSteps : status[<<thread[r], k>>] # "pending"
BY DEF Waiting, Typed, TypeOK

\* A step that runs no call, moves requests on and asks nobody for anything.
LEMMA CalmStep ==
  ASSUME Typed, ApprovalInv,
         UNCHANGED <<thread, step, executed>>, granted \subseteq granted',
         \A r \in Requests :
           /\ at'[r] = "new" <=> at[r] = "new"
           /\ Active(r)' => Active(r)
           /\ Active(r)' /\ Asks(r)' => Asks(r)
           /\ Active(r)' /\ at[r] = "deciding" => at'[r] = "deciding" \/ status'[ActionOf(r)] # "pending"
           /\ at'[r] \in {"preparing", "resuming"} /\ job'[r] = "approve" => ActionOf(r) \in granted',
         \A a \in Actions : status'[a] = "pending" => status[a] = "pending",
         \A t \in Requests : saved'[t] \in {0, saved[t]}
  PROVE  ApprovalInv'
<1> USE DEF ApprovalInv, Typed, TypeOK
<1>1. Threads'
  BY DEF Threads, Unrun
<1>2. Alone'
  BY DEF Alone
<1>3. Waiting'
  <2> SUFFICES ASSUME NEW t \in Requests, NEW k \in 1..MaxSteps, status'[<<t, k>>] = "pending"
               PROVE  /\ at'[t] # "new"
                      /\ \A s \in Requests : Active(s)' /\ thread[s] = t => at'[s] = "deciding" /\ step[s] = k
                      /\ \A j \in 1..MaxSteps : status'[<<t, j>>] = "pending" => j = k
                      /\ saved'[t] \in {0, k}
                      /\ Unrun(t, k)'
    BY DEF Waiting
  <2>1. status[<<t, k>>] = "pending"
    BY ActionPairs
  <2>2. /\ at'[t] # "new" /\ saved'[t] \in {0, k} /\ Unrun(t, k)'
        /\ \A j \in 1..MaxSteps : status'[<<t, j>>] = "pending" => j = k
    BY <2>1, ActionPairs DEF Waiting, Unrun
  <2>3. ASSUME NEW s \in Requests, Active(s)', thread[s] = t PROVE at'[s] = "deciding" /\ step[s] = k
    <3>1. Active(s) /\ at[s] = "deciding" /\ step[s] = k
      BY <2>1, <2>3 DEF Waiting
    <3> QED
      BY <2>3, <3>1 DEF ActionOf
  <2> QED
    BY <2>2, <2>3
<1>4. Pursued'
  BY DEF Pursued, Unrun, ActionOf
<1>5. ToolNeedsApproval'
  BY DEF ToolNeedsApproval
<1> QED
  BY <1>1, <1>2, <1>3, <1>4, <1>5

LEMMA BeginTurnApproval ==
  ASSUME Typed, ApprovalInv, NEW r \in Requests, BeginTurn(r)
  PROVE  ApprovalInv'
<1> USE DEF ApprovalInv, Typed, TypeOK
<1>1. /\ at' = [at EXCEPT ![r] = "running"] /\ at[r] = "new"
      /\ UNCHANGED <<thread, step, result, status, granted, saved, executed>>
      /\ \A s \in Requests : s # r => job'[s] = job[s] /\ at'[s] = at[s]
      /\ at'[r] = "running"
  BY DEF BeginTurn, Go, approval, world
<1>2. /\ thread[r] = r /\ saved[r] = 0 /\ Unrun(r, 1)
      /\ \A s \in Requests : thread[s] = r => s = r
  BY <1>1 DEF Threads
<1>3. Threads'
  BY <1>1 DEF Threads, Unrun
<1>4. Alone'
  BY <1>1, <1>2 DEF Alone, Active
<1>5. Waiting'
  BY <1>1, <1>2 DEF Waiting, Unrun, Active
<1>6. Pursued'
  <2>1. ASSUME NEW s \in Requests, s # r PROVE Active(s)' = Active(s) /\ Asks(s)' = Asks(s)
    BY <1>1, <2>1 DEF Active, Asks
  <2>2. saved[thread[r]] \in {0, step[r]} /\ Unrun(thread[r], step[r] + 1)' /\ ~Asks(r)'
    BY <1>1, <1>2 DEF Unrun, Asks
  <2> QED
    BY <1>1, <2>1, <2>2 DEF Pursued, Unrun, ActionOf
<1>7. ToolNeedsApproval'
  BY <1>1 DEF ToolNeedsApproval
<1> QED
  BY <1>3, <1>4, <1>5, <1>6, <1>7

LEMMA CreateActionApproval ==
  ASSUME Typed, ApprovalInv, NEW r \in Requests, CreateAction(r)
  PROVE  ApprovalInv'
<1> USE DEF ApprovalInv, Typed, TypeOK
<1>1. /\ at' = [at EXCEPT ![r] = "done"] /\ at[r] = "action"
      /\ UNCHANGED <<job, thread, step, result, granted, saved, executed>>
      /\ status' = [status EXCEPT ![ActionOf(r)] = "pending"]
  BY DEF CreateAction, Go, world
<1>2. \A s \in Requests : Active(s)' => Active(s) /\ s # r /\ at'[s] = at[s] /\ (Asks(s)' => Asks(s))
  BY <1>1 DEF Active, Asks, Ended
<1>3. Active(r) /\ Asks(r) /\ step[r] \in 1..MaxSteps /\ executed[<<thread[r], step[r]>>] = 0
  BY <1>1 DEF Active, Asks, Ended, Pursued
<1>4. Threads'
  <2>1. at[thread[r]] # "new"
    BY <1>1 DEF Threads
  <2> QED
    BY <1>1, <2>1 DEF Threads, Unrun
<1>5. Alone'
  BY <1>1, <1>2 DEF Alone
<1>6. Waiting'
  <2> SUFFICES ASSUME NEW t \in Requests, NEW k \in 1..MaxSteps, status'[<<t, k>>] = "pending"
               PROVE  /\ at'[t] # "new"
                      /\ \A s \in Requests : Active(s)' /\ thread[s] = t => at'[s] = "deciding" /\ step[s] = k
                      /\ \A j \in 1..MaxSteps : status'[<<t, j>>] = "pending" => j = k
                      /\ saved'[t] \in {0, k}
                      /\ Unrun(t, k)'
    BY <1>1 DEF Waiting
  <2>1. CASE t = thread[r]
    <3>1. \A j \in 1..MaxSteps : status[<<t, j>>] # "pending"
      BY <2>1, <1>1, <1>3, Quiet
    <3>2. \A j \in 1..MaxSteps : status'[<<t, j>>] = "pending" => j = step[r]
      BY <1>1, <2>1, <3>1, ActionPairs DEF ActionOf
    <3>3. k = step[r]
      BY <3>2
    <3>4. saved[t] \in {0, k} /\ Unrun(t, k)
      <4>1. saved[t] \in {0, k} /\ Unrun(t, k + 1) /\ executed[<<t, k>>] = 0
        BY <1>3, <2>1, <3>3 DEF Pursued
      <4> QED
        BY <4>1 DEF Unrun
    <3>5. \A s \in Requests : Active(s)' => thread[s] # t
      BY <1>1, <1>2, <1>3, <2>1 DEF Alone
    <3>6. at'[t] # "new"
      BY <1>1, <2>1 DEF Threads
    <3> QED
      BY <1>1, <3>2, <3>3, <3>4, <3>5, <3>6 DEF Unrun
  <2>2. CASE t # thread[r]
    <3>1. \A j \in 1..MaxSteps : status'[<<t, j>>] = status[<<t, j>>]
      BY <1>1, <2>2, ActionPairs DEF ActionOf
    <3>2. /\ at'[t] # "new" /\ saved'[t] \in {0, k} /\ Unrun(t, k)'
          /\ \A j \in 1..MaxSteps : status'[<<t, j>>] = "pending" => j = k
      BY <1>1, <3>1 DEF Waiting, Unrun
    <3> QED
      BY <1>1, <1>2, <3>1, <3>2 DEF Waiting
  <2> QED
    BY <2>1, <2>2
<1>7. Pursued'
  BY <1>1, <1>2 DEF Pursued, Unrun, ActionOf
<1>8. ToolNeedsApproval'
  BY <1>1 DEF ToolNeedsApproval
<1> QED
  BY <1>4, <1>5, <1>6, <1>7, <1>8

LEMMA FreezeApproval ==
  ASSUME Typed, ApprovalInv, NEW r \in Requests, Freeze(r)
  PROVE  ApprovalInv'
<1> USE DEF ApprovalInv, Typed, TypeOK
<1>1. /\ at' = [at EXCEPT ![r] = AfterRun(r)] /\ at[r] = "running" /\ step[r] < MaxSteps
      /\ UNCHANGED <<job, thread, status, granted, executed>>
      /\ step' = [step EXCEPT ![r] = step[r] + 1]
      /\ saved' = [saved EXCEPT ![thread[r]] = step[r] + 1]
      /\ result' = [result EXCEPT ![r] = "pending_approval"]
      /\ AfterRun(r) \in {"marking", "answer"}
  BY DEF Freeze, Go, approval, AfterRun
<1>2. Active(r) /\ Active(r)'
  BY <1>1 DEF Active, Ended
<1>3. \A s \in Requests : s # r => /\ Active(s)' = Active(s) /\ at'[s] = at[s] /\ Asks(s)' = Asks(s)
                                   /\ step'[s] = step[s]
  BY <1>1 DEF Active, Asks
<1>4. \A s \in Requests : Active(s) /\ s # r => thread[s] # thread[r]
  BY <1>2 DEF Alone
<1>5. \A k \in 1..MaxSteps : status[<<thread[r], k>>] # "pending"
  BY <1>1, <1>2, Quiet
<1>6. Threads'
  <2>1. at[thread[r]] # "new"
    BY <1>1 DEF Threads
  <2>2. \A s \in Requests : at'[s] = "new" <=> at[s] = "new"
    BY <1>1
  <2>3. \A s \in Requests : at[s] = "new" => s # thread[r] /\ saved'[s] = saved[s]
    BY <1>1, <2>1
  <2> QED
    BY <1>1, <2>2, <2>3 DEF Threads, Unrun
<1>7. Alone'
  BY <1>1, <1>2, <1>3, <1>4 DEF Alone
<1>8. Waiting'
  <2> SUFFICES ASSUME NEW t \in Requests, NEW k \in 1..MaxSteps, status[<<t, k>>] = "pending"
               PROVE  /\ at'[t] # "new"
                      /\ \A s \in Requests : Active(s)' /\ thread[s] = t => at'[s] = "deciding" /\ step'[s] = k
                      /\ \A j \in 1..MaxSteps : status[<<t, j>>] = "pending" => j = k
                      /\ saved'[t] \in {0, k}
                      /\ Unrun(t, k)
    BY <1>1 DEF Waiting, Unrun
  <2>1. t # thread[r]
    BY <1>5
  <2>2. /\ at[t] # "new" /\ saved[t] \in {0, k} /\ Unrun(t, k)
        /\ \A j \in 1..MaxSteps : status[<<t, j>>] = "pending" => j = k
    BY DEF Waiting
  <2>3. \A s \in Requests : Active(s)' /\ thread[s] = t => at'[s] = "deciding" /\ step'[s] = k
    BY <1>3, <2>1 DEF Waiting
  <2>4. at'[t] # "new" /\ saved'[t] = saved[t]
    BY <1>1, <2>1, <2>2
  <2> QED
    BY <2>2, <2>3, <2>4
<1>9. Pursued'
  <2>1. ASSUME NEW s \in Requests, Active(s)', s # r
        PROVE  /\ saved'[thread[s]] \in {0, step'[s]}
               /\ Unrun(thread[s], step[s] + 1)'
               /\ Asks(s)' => step'[s] > 0 /\ executed[<<thread[s], step'[s]>>] = 0
               /\ at'[s] \in {"preparing", "resuming"} /\ job[s] = "approve" => ActionOf(s)' \in granted
    <3>1. saved'[thread[s]] = saved[thread[s]] /\ Active(s) /\ ActionOf(s)' = ActionOf(s)
      BY <1>1, <1>3, <1>4, <2>1 DEF ActionOf
    <3>2. step'[s] = step[s] /\ at'[s] = at[s] /\ (Asks(s)' <=> Asks(s)) /\ UNCHANGED <<thread, executed>>
      BY <1>1, <1>3, <2>1
    <3>3. /\ saved[thread[s]] \in {0, step[s]}
          /\ Unrun(thread[s], step[s] + 1)
          /\ Asks(s) => step[s] > 0 /\ executed[<<thread[s], step[s]>>] = 0
          /\ at[s] \in {"preparing", "resuming"} /\ job[s] = "approve" => ActionOf(s) \in granted
      BY <3>1 DEF Pursued
    <3>4. Unrun(thread[s], step[s] + 1)'
      BY <3>2, <3>3 DEF Unrun
    <3>5. Asks(s)' => step'[s] > 0 /\ executed[<<thread[s], step'[s]>>] = 0
      BY ONLY <3>2, <3>3
    <3>6. saved'[thread[s]] \in {0, step'[s]}
      BY ONLY <3>1, <3>2, <3>3
    <3>7. at'[s] \in {"preparing", "resuming"} /\ job[s] = "approve" => ActionOf(s)' \in granted
      BY ONLY <3>1, <3>2, <3>3
    <3> QED
      BY ONLY <3>4, <3>5, <3>6, <3>7
  <2>2. /\ saved'[thread[r]] = step'[r] /\ step'[r] = step[r] + 1 /\ step'[r] \in 1..MaxSteps
        /\ at'[r] \notin {"preparing", "resuming"}
    <3>1. step[r] \in 0..MaxSteps /\ thread[r] \in Requests /\ MaxSteps \in Nat
      BY BoundsAssumption
    <3>2. saved'[thread[r]] = step[r] + 1 /\ step'[r] = step[r] + 1
      BY <1>1, <3>1
    <3>3. step[r] + 1 \in 1..MaxSteps
      BY <1>1, <3>1
    <3>4. at'[r] \notin {"preparing", "resuming"}
      BY <1>1
    <3> QED
      BY <3>2, <3>3, <3>4
  <2>3. Unrun(thread[r], step[r] + 1)
    BY <1>2 DEF Pursued
  <2>4. executed[<<thread[r], step'[r]>>] = 0 /\ Unrun(thread[r], step[r] + 1)'
    <3>1. \A i \in (step[r] + 1)..MaxSteps : executed[<<thread[r], i>>] = 0
      BY <2>3 DEF Unrun
    <3>2. step[r] \in Nat /\ MaxSteps \in Nat
      BY BoundsAssumption
    <3>3. step'[r] \in (step[r] + 1)..MaxSteps
      BY ONLY <2>2, <3>2
    <3>4. executed[<<thread[r], step'[r]>>] = 0
      BY ONLY <3>1, <3>3
    <3>5. \A i \in (step'[r] + 1)..MaxSteps : i \in (step[r] + 1)..MaxSteps
      BY ONLY <2>2, <3>2
    <3>6. UNCHANGED <<thread, executed>>
      BY <1>1
    <3> QED
      BY ONLY <3>1, <3>4, <3>5, <3>6 DEF Unrun
  <2>5. ASSUME NEW s \in Requests, Active(s)'
        PROVE  /\ saved'[thread[s]] \in {0, step'[s]}
               /\ Unrun(thread[s], step[s] + 1)'
               /\ Asks(s)' => step'[s] > 0 /\ executed[<<thread[s], step'[s]>>] = 0
               /\ at'[s] \in {"preparing", "resuming"} /\ job[s] = "approve" => ActionOf(s)' \in granted
    <3>1. CASE s = r
      BY ONLY <2>2, <2>4, <3>1, BoundsAssumption
    <3> QED
      BY ONLY <2>1, <2>5, <3>1
  <2>6. UNCHANGED <<job, thread, granted, executed>>
    BY <1>1
  <2> QED
    BY ONLY <2>5, <2>6 DEF Pursued
<1>10. ToolNeedsApproval'
  BY <1>1 DEF ToolNeedsApproval
<1> QED
  BY <1>6, <1>7, <1>8, <1>9, <1>10

\* The call that runs is the one the request resolves: it was approved and has
\* not run.
LEMMA ResumeApproval ==
  ASSUME Typed, ApprovalInv, NEW r \in Requests, Resume(r)
  PROVE  ApprovalInv'
<1> USE DEF ApprovalInv, Typed, TypeOK
<1>1. /\ at' = [at EXCEPT ![r] = "tools"] /\ at[r] = "resuming" /\ saved[thread[r]] > 0
      /\ UNCHANGED <<job, thread, step, result, status, granted, saved>>
  BY DEF Resume, Go, approval
<1>2. Active(r) /\ Asks(r)
  BY <1>1 DEF Active, Asks, Ended
<1>3. /\ saved[thread[r]] = step[r] /\ step[r] \in 1..MaxSteps
      /\ FrozenAt(thread[r]) = <<thread[r], step[r]>>
      /\ executed[<<thread[r], step[r]>>] = 0 /\ Unrun(thread[r], step[r] + 1)
      /\ job[r] = "approve" => <<thread[r], step[r]>> \in granted
  BY <1>1, <1>2 DEF Pursued, FrozenAt, ActionOf
<1>4. /\ \A a \in Actions : a # <<thread[r], step[r]>> => executed'[a] = executed[a]
      /\ executed'[<<thread[r], step[r]>>] \in {0, 1}
      /\ executed'[<<thread[r], step[r]>>] = 1 => <<thread[r], step[r]>> \in granted
  <2>1. CASE job[r] = "approve"
    <3>1. executed' = [executed EXCEPT ![<<thread[r], step[r]>>] = executed[<<thread[r], step[r]>>] + 1]
      BY <2>1, <1>3 DEF Resume
    <3>2. <<thread[r], step[r]>> \in Actions
      BY <1>3, ActionPairs
    <3> QED
      BY <2>1, <1>3, <3>1, <3>2
  <2>2. CASE job[r] # "approve"
    BY <2>2, <1>3 DEF Resume
  <2> QED
    BY <2>1, <2>2
<1>5. \A t \in Requests : t # thread[r] => \A k \in 1..MaxSteps : executed'[<<t, k>>] = executed[<<t, k>>]
  BY <1>4, ActionPairs
<1>6. Unrun(thread[r], step[r] + 1)'
  <2>1. \A i \in (step[r] + 1)..MaxSteps : <<thread[r], i>> \in Actions /\ <<thread[r], i>> # <<thread[r], step[r]>>
    BY <1>3, ActionPairs
  <2> QED
    BY <1>1, <1>3, <1>4, <2>1 DEF Unrun
<1>7. \A s \in Requests : s # r => /\ at'[s] = at[s]
                                   /\ (Active(s)' <=> Active(s)) /\ (Asks(s)' <=> Asks(s))
  BY <1>1 DEF Active, Asks
<1>8. \A s \in Requests : Active(s) /\ s # r => thread[s] # thread[r]
  BY <1>2 DEF Alone
<1>9. Active(r)' /\ ~Asks(r)' /\ at'[r] = "tools"
  BY <1>1 DEF Active, Asks, Ended
<1>10. Threads'
  <2>1. at[thread[r]] # "new"
    BY <1>1 DEF Threads
  <2>2. \A s \in Requests : (at'[s] = "new" <=> at[s] = "new") /\ (at[s] = "new" => s # thread[r])
    BY <1>1, <2>1
  <2>3. ASSUME NEW s \in Requests, at[s] = "new" PROVE Unrun(s, 1)'
    BY <1>5, <2>2, <2>3 DEF Threads, Unrun
  <2> QED
    BY <1>1, <2>2, <2>3 DEF Threads
<1>11. Alone'
  BY <1>1, <1>7, <1>8 DEF Alone
<1>12. Waiting'
  <2> SUFFICES ASSUME NEW t \in Requests, NEW k \in 1..MaxSteps, status[<<t, k>>] = "pending"
               PROVE  /\ at'[t] # "new"
                      /\ \A s \in Requests : Active(s)' /\ thread[s] = t => at'[s] = "deciding" /\ step[s] = k
                      /\ \A j \in 1..MaxSteps : status[<<t, j>>] = "pending" => j = k
                      /\ saved[t] \in {0, k}
                      /\ Unrun(t, k)'
    BY <1>1 DEF Waiting
  <2>1. t # thread[r]
    BY <1>1, <1>2, Quiet
  <2>2. /\ at'[t] # "new" /\ saved[t] \in {0, k} /\ Unrun(t, k)
        /\ \A j \in 1..MaxSteps : status[<<t, j>>] = "pending" => j = k
    BY <1>1 DEF Waiting
  <2>3. \A s \in Requests : Active(s)' /\ thread[s] = t => at'[s] = "deciding" /\ step[s] = k
    BY <1>7, <2>1 DEF Waiting
  <2>4. Unrun(t, k)'
    BY <1>5, <2>1, <2>2 DEF Unrun
  <2> QED
    BY <2>2, <2>3, <2>4
<1>13. Pursued'
  <2>1. ASSUME NEW s \in Requests, Active(s)', s # r
        PROVE  /\ saved[thread[s]] \in {0, step[s]}
               /\ Unrun(thread[s], step[s] + 1)'
               /\ Asks(s)' => step[s] > 0 /\ executed'[<<thread[s], step[s]>>] = 0
               /\ at'[s] \in {"preparing", "resuming"} /\ job[s] = "approve" => ActionOf(s) \in granted
    <3>1. Active(s) /\ thread[s] # thread[r] /\ at'[s] = at[s] /\ (Asks(s)' <=> Asks(s))
      BY <1>7, <1>8, <2>1
    <3>2. /\ saved[thread[s]] \in {0, step[s]}
          /\ Unrun(thread[s], step[s] + 1)
          /\ Asks(s) => step[s] > 0 /\ executed[<<thread[s], step[s]>>] = 0
          /\ at[s] \in {"preparing", "resuming"} /\ job[s] = "approve" => ActionOf(s) \in granted
      BY <3>1 DEF Pursued
    <3>3. Unrun(thread[s], step[s] + 1)'
      BY <1>1, <1>5, <3>1, <3>2 DEF Unrun
    <3>4. Asks(s)' => step[s] > 0 /\ executed'[<<thread[s], step[s]>>] = 0
      <4>1. step[s] > 0 => step[s] \in 1..MaxSteps
        BY BoundsAssumption
      <4> QED
        BY <1>5, <3>1, <3>2, <4>1
    <3>5. at'[s] \in {"preparing", "resuming"} /\ job[s] = "approve" => ActionOf(s) \in granted
      BY ONLY <3>1, <3>2
    <3> QED
      BY ONLY <3>2, <3>3, <3>4, <3>5
  <2>2. ActionOf(r)' = ActionOf(r) /\ \A s \in Requests : ActionOf(s)' = ActionOf(s)
    BY <1>1 DEF ActionOf
  <2> QED
    BY <1>1, <1>3, <1>6, <1>9, <2>1, <2>2 DEF Pursued
<1>14. ToolNeedsApproval'
  <2> SUFFICES ASSUME NEW a \in Actions PROVE executed'[a] <= 1 /\ (executed'[a] > 0 => a \in granted')
    BY DEF ToolNeedsApproval
  <2>1. CASE a = <<thread[r], step[r]>>
    BY <1>1, <1>4, <2>1
  <2>2. CASE a # <<thread[r], step[r]>>
    BY <1>1, <1>4, <2>2 DEF ToolNeedsApproval
  <2> QED
    BY <2>1, <2>2
<1> QED
  BY <1>10, <1>11, <1>12, <1>13, <1>14

\* Who decides on a pending action is alone on its thread.
LEMMA DecideApproval ==
  ASSUME Typed, ApprovalInv, NEW r \in Requests, NEW a \in Actions, NEW answer \in {"approve", "deny"},
         Decide(r, a, answer)
  PROVE  ApprovalInv'
<1> USE DEF ApprovalInv, Typed, TypeOK
<1> DEFINE t0 == a[1]
           k0 == a[2]
<1>0. t0 \in Requests /\ k0 \in 1..MaxSteps /\ a = <<t0, k0>>
  BY ActionPairs
<1>1. /\ at' = [at EXCEPT ![r] = "deciding"] /\ at[r] = "new" /\ status[<<t0, k0>>] = "pending"
      /\ UNCHANGED <<result, status, granted, saved, executed>>
      /\ thread' = [thread EXCEPT ![r] = t0] /\ step' = [step EXCEPT ![r] = k0]
      /\ \A s \in Requests : s # r => job'[s] = job[s]
  BY <1>0 DEF Decide, Go, approval, world
<1>2. \A s \in Requests : ~(at[s] = "deciding" /\ thread[s] = t0 /\ step[s] = k0)
  BY <1>0 DEF Decide, Locked, ActionOf
<1> HIDE DEF t0, k0
<1>3. /\ at[t0] # "new" /\ saved[t0] \in {0, k0} /\ Unrun(t0, k0)
      /\ \A j \in 1..MaxSteps : status[<<t0, j>>] = "pending" => j = k0
      /\ \A s \in Requests : Active(s) => thread[s] # t0
  BY <1>0, <1>1, <1>2 DEF Waiting
<1>4. \A s \in Requests : s # r => /\ at'[s] = at[s] /\ thread'[s] = thread[s] /\ step'[s] = step[s]
                                   /\ (Active(s)' <=> Active(s)) /\ (Asks(s)' <=> Asks(s))
  BY <1>1 DEF Active, Asks
<1>5. at'[r] = "deciding" /\ thread'[r] = t0 /\ step'[r] = k0
  BY <1>0, <1>1
<1>6. Threads'
  <2>1. \A s \in Requests : s # r /\ at[s] # "new" => at'[s] # "new"
    BY <1>4
  <2>2. \A s \in Requests : at'[s] = "new" => s # r /\ at[s] = "new"
    BY <1>4, <1>5
  <2>3. \A s \in Requests : thread'[s] \in Requests
    BY <1>0, <1>4, <1>5
  <2>4. ASSUME NEW s \in Requests, at'[thread'[s]] = "new" PROVE thread'[s] = s
    <3>1. s # r
      BY <1>0, <1>3, <1>5, <2>2, <2>4
    <3>2. thread'[s] = thread[s] /\ thread[s] \in Requests
      BY <1>4, <3>1
    <3>3. at[thread[s]] = "new"
      BY <2>2, <2>4, <3>2
    <3> QED
      BY <3>2, <3>3 DEF Threads
  <2>5. ASSUME NEW s \in Requests, at'[s] = "new" PROVE thread'[s] = s /\ saved'[s] = 0 /\ Unrun(s, 1)'
    BY <1>1, <1>4, <2>2, <2>5 DEF Threads, Unrun
  <2> QED
    BY <2>4, <2>5 DEF Threads
<1>7. Alone'
  BY <1>3, <1>4, <1>5 DEF Alone
<1>8. Waiting'
  <2> SUFFICES ASSUME NEW t \in Requests, NEW k \in 1..MaxSteps, status[<<t, k>>] = "pending"
               PROVE  /\ at'[t] # "new"
                      /\ \A s \in Requests : Active(s)' /\ thread'[s] = t => at'[s] = "deciding" /\ step'[s] = k
                      /\ \A j \in 1..MaxSteps : status[<<t, j>>] = "pending" => j = k
                      /\ saved[t] \in {0, k}
                      /\ Unrun(t, k)
    BY <1>1 DEF Waiting, Unrun
  <2>1. /\ at[t] # "new" /\ saved[t] \in {0, k} /\ Unrun(t, k)
        /\ \A j \in 1..MaxSteps : status[<<t, j>>] = "pending" => j = k
        /\ \A s \in Requests : Active(s) /\ thread[s] = t => at[s] = "deciding" /\ step[s] = k
    BY DEF Waiting
  <2>2. at'[t] # "new"
    BY <1>4, <1>5, <2>1
  <2>3. ASSUME NEW s \in Requests, Active(s)', thread'[s] = t PROVE at'[s] = "deciding" /\ step'[s] = k
    <3>1. CASE s = r
      BY <1>0, <1>1, <1>5, <2>1, <2>3, <3>1
    <3>2. CASE s # r
      BY <1>4, <2>1, <2>3, <3>2
    <3> QED
      BY <3>1, <3>2
  <2> QED
    BY <2>1, <2>2, <2>3
<1>9. Pursued'
  <2>1. ASSUME NEW s \in Requests, Active(s)', s # r
        PROVE  /\ saved[thread'[s]] \in {0, step'[s]}
               /\ Unrun(thread[s], step[s] + 1)'
               /\ Asks(s)' => step'[s] > 0 /\ executed[<<thread'[s], step'[s]>>] = 0
               /\ at'[s] \in {"preparing", "resuming"} /\ job'[s] = "approve" => ActionOf(s)' \in granted
    <3>1. /\ Active(s) /\ at'[s] = at[s] /\ thread'[s] = thread[s] /\ step'[s] = step[s] /\ job'[s] = job[s]
          /\ (Asks(s)' <=> Asks(s)) /\ ActionOf(s)' = ActionOf(s) /\ UNCHANGED executed
      BY <1>1, <1>4, <2>1 DEF ActionOf
    <3>2. /\ saved[thread[s]] \in {0, step[s]}
          /\ Unrun(thread[s], step[s] + 1)
          /\ Asks(s) => step[s] > 0 /\ executed[<<thread[s], step[s]>>] = 0
          /\ at[s] \in {"preparing", "resuming"} /\ job[s] = "approve" => ActionOf(s) \in granted
      BY <3>1 DEF Pursued
    <3>3. Unrun(thread[s], step[s] + 1)'
      BY ONLY <3>1, <3>2 DEF Unrun
    <3>4. Asks(s)' => step'[s] > 0 /\ executed[<<thread'[s], step'[s]>>] = 0
      BY ONLY <3>1, <3>2
    <3>5. at'[s] \in {"preparing", "resuming"} /\ job'[s] = "approve" => ActionOf(s)' \in granted
      BY ONLY <3>1, <3>2
    <3>6. saved[thread'[s]] \in {0, step'[s]}
      BY ONLY <3>1, <3>2
    <3> QED
      BY ONLY <3>3, <3>4, <3>5, <3>6
  <2>2. /\ saved[thread'[r]] \in {0, step'[r]} /\ step'[r] > 0
        /\ executed[<<thread'[r], step'[r]>>] = 0 /\ at'[r] \notin {"preparing", "resuming"}
    BY <1>0, <1>3, <1>5 DEF Unrun
  <2>3. Unrun(thread[r], step[r] + 1)'
    BY <1>0, <1>1, <1>3, <1>5 DEF Unrun
  <2> QED
    BY <1>1, <2>1, <2>2, <2>3 DEF Pursued
<1>10. ToolNeedsApproval'
  BY <1>1 DEF ToolNeedsApproval
<1> QED
  BY <1>6, <1>7, <1>8, <1>9, <1>10

LEMMA NextApproval == Typed /\ ApprovalInv /\ [Next]_vars => ApprovalInv'
<1> SUFFICES ASSUME Typed, ApprovalInv, [Next]_vars PROVE ApprovalInv'
  OBVIOUS
<1> USE DEF Typed, TypeOK, Go, request, approval, world
<1>1. ASSUME NEW r \in Requests, WriteAnswer(r) PROVE ApprovalInv'
  BY <1>1, CalmStep DEF WriteAnswer, Active, Asks, Ended, ApprovalInv, Pursued
<1>2. ASSUME NEW r \in Requests, Complete(r) PROVE ApprovalInv'
  BY <1>2, CalmStep DEF Complete, AfterRun, Active, Asks, Ended, ApprovalInv, Pursued
<1>3. ASSUME NEW r \in Requests, Advance(r) PROVE ApprovalInv'
  BY <1>3, CalmStep DEF Advance, Active, Asks, Ended, ApprovalInv, Pursued
<1>4. ASSUME NEW r \in Requests, ResumeFails(r) \/ RunFails(r) \/ Fail(r) PROVE ApprovalInv'
  BY <1>4, CalmStep DEF ResumeFails, RunFails, Fail, Active, Asks, Ended, ApprovalInv, Pursued
<1>5. ASSUME NEW r \in Requests, Commit(r) PROVE ApprovalInv'
  <2>1. ActionOf(r) \in Actions
    BY <1>5 DEF Commit, ActionOf, Actions
  <2>2. /\ status'[ActionOf(r)] # "pending" /\ granted \subseteq granted'
        /\ \A a \in Actions : status'[a] = "pending" => status[a] = "pending"
        /\ job[r] = "approve" => ActionOf(r) \in granted'
    BY <1>5, <2>1 DEF Commit
  <2> QED
    BY <1>5, <2>2, CalmStep DEF Commit, Active, Asks, Ended, ActionOf, ApprovalInv, Pursued
<1>6. ASSUME NEW r \in Requests, Prepare(r) PROVE ApprovalInv'
  BY <1>6, CalmStep DEF Prepare, Active, Asks, Ended, ApprovalInv, Pursued
<1>7. ASSUME NEW r \in Requests, MarkExecuted(r) \/ MarkFailed(r) PROVE ApprovalInv'
  <2>1. \A a \in Actions : status'[a] = "pending" => status[a] = "pending"
    BY <1>7 DEF MarkExecuted, MarkFailed, Transition
  <2> QED
    BY <1>7, <2>1, CalmStep DEF MarkExecuted, MarkFailed, Active, Asks, Ended, ApprovalInv, Pursued
<1>8. ASSUME NEW t \in Requests, CheckpointExpires(t) PROVE ApprovalInv'
  BY <1>8, CalmStep DEF CheckpointExpires, Active, Asks, Ended, ApprovalInv, Pursued
<1>9. ASSUME NEW a \in Actions, TimeRunsOut(a) \/ Match(a) \/ Expire(a) PROVE ApprovalInv'
  BY <1>9, CalmStep DEF TimeRunsOut, Match, Expire, Active, Asks, Ended, ApprovalInv, Pursued
<1>10. CASE Restart
  BY <1>10, CalmStep DEF Restart, Active, Asks, Ended, ApprovalInv, Pursued
<1>11. CASE UNCHANGED vars
  BY <1>11, CalmStep DEF vars, Active, Asks, Ended, ApprovalInv, Pursued
<1> QED
  BY <1>1, <1>2, <1>3, <1>4, <1>5, <1>6, <1>7, <1>8, <1>9, <1>10, <1>11, BeginTurnApproval,
     CreateActionApproval, FreezeApproval, ResumeApproval, DecideApproval
     DEF Next, Turn, Run, Resolution

\* However many requests approve, deny and retry, whatever fails or restarts, a
\* destructive tool call runs at most once, and only after it was approved.
THEOREM OnlyApproved == Spec => []ToolNeedsApproval
<1>1. Init => Typed /\ ApprovalInv
  BY InitTyped, InitApproval
<1>2. Typed /\ ApprovalInv /\ [Next]_vars => (Typed /\ ApprovalInv)'
  BY NextTyped, NextApproval
<1>3. ApprovalInv => ToolNeedsApproval
  BY DEF ApprovalInv
<1> QED
  BY <1>1, <1>2, <1>3, PTL DEF Spec

-----------------------------------------------------------------------------
(* The status tells what became of the call. *)

\* A run has no result until it returns.
NoResultYet ==
  \A r \in Requests :
    at[r] \in {"new", "deciding", "preparing", "resuming", "tools", "running", "failing"} => result[r] = "none"

\* Only what ran out of time is matched by the cron or expired.
LateOnly == \A a \in Actions : a \in matched \/ status[a] = "expired" => overdue[a]

\* The call a request asks approval for is the one its thread is frozen at.
AskedIsFrozen ==
  Durable \/ faults = 0 =>
    \A r \in Requests :
      at[r] \in {"marking", "answer", "action"} /\ result[r] = "pending_approval" => saved[thread[r]] = step[r]

\* What a request that approved knows of its action, at each point of its way.
Carry(r) ==
  /\ at[r] = "marking" => job[r] = "approve"
  /\ job[r] = "approve" =>
       /\ at[r] \in {"preparing", "resuming"} => status[ActionOf(r)] \in {"approved", "expired"}
       /\ at[r] \in {"tools", "running", "marking"} =>
            /\ Resolved(r) \in Actions
            /\ executed[Resolved(r)] = 1 /\ status[Resolved(r)] \in {"approved", "expired"}
       /\ at[r] \in {"answer", "action"} /\ faults = 0 =>
            Resolved(r) \in Actions /\ (status[Resolved(r)] = "executed" \/ overdue[Resolved(r)])
       /\ at[r] = "failing" /\ faults = 0 => Resolved(r) \in Actions /\ executed[Resolved(r)] = 0

Carried == \A r \in Requests : Carry(r)

StatusInv == NoResultYet /\ LateOnly /\ AskedIsFrozen /\ Carried /\ StatusHonest

LEMMA NoResultYetStep == Typed /\ NoResultYet /\ [Next]_vars => NoResultYet'
<1> SUFFICES ASSUME Typed, NoResultYet, [Next]_vars PROVE NoResultYet'
  OBVIOUS
<1> USE DEF Typed, TypeOK, NoResultYet, Go, request, approval, world
<1>1. ASSUME NEW r \in Requests, Turn(r) PROVE NoResultYet'
  BY <1>1 DEF Turn, BeginTurn, WriteAnswer, CreateAction
<1>2. ASSUME NEW r \in Requests, Run(r) PROVE NoResultYet'
  BY <1>2 DEF Run, Complete, Freeze, AfterRun, Resume, Advance, ResumeFails
<1>3. ASSUME NEW r \in Requests, Resolution(r) \/ RunFails(r) \/ Fail(r) PROVE NoResultYet'
  BY <1>3 DEF Resolution, Commit, Prepare, MarkExecuted, MarkFailed, RunFails, Fail
<1>4. ASSUME NEW r \in Requests, NEW a \in Actions, NEW answer \in {"approve", "deny"}, Decide(r, a, answer)
      PROVE  NoResultYet'
  BY <1>4 DEF Decide
<1>5. ASSUME NEW t \in Requests, CheckpointExpires(t) PROVE NoResultYet'
  BY <1>5 DEF CheckpointExpires
<1>6. ASSUME NEW a \in Actions, TimeRunsOut(a) \/ Match(a) \/ Expire(a) PROVE NoResultYet'
  BY <1>6 DEF TimeRunsOut, Match, Expire
<1>7. CASE Restart
  BY <1>7 DEF Restart, Ended
<1>8. CASE UNCHANGED vars
  BY <1>8 DEF vars
<1> QED
  BY <1>1, <1>2, <1>3, <1>4, <1>5, <1>6, <1>7, <1>8 DEF Next

LEMMA LateOnlyStep == Typed /\ LateOnly /\ [Next]_vars => LateOnly'
<1> SUFFICES ASSUME Typed, LateOnly, [Next]_vars PROVE LateOnly'
  OBVIOUS
<1> USE DEF Typed, TypeOK, LateOnly, Go, request, approval, world
<1>1. ASSUME NEW r \in Requests, Turn(r) PROVE LateOnly'
  BY <1>1 DEF Turn, BeginTurn, WriteAnswer, CreateAction
<1>2. ASSUME NEW r \in Requests, Run(r) PROVE LateOnly'
  BY <1>2 DEF Run, Complete, Freeze, Resume, Advance, ResumeFails
<1>3. ASSUME NEW r \in Requests, Commit(r) \/ Prepare(r) \/ RunFails(r) \/ Fail(r) PROVE LateOnly'
  BY <1>3 DEF Commit, Prepare, RunFails, Fail
<1>4. ASSUME NEW r \in Requests, MarkExecuted(r) \/ MarkFailed(r) PROVE LateOnly'
  <2>1. UNCHANGED <<matched, overdue>> /\ \A a \in Actions : status'[a] = "expired" => status[a] = "expired"
    BY <1>4 DEF MarkExecuted, MarkFailed, Transition
  <2> QED
    BY <2>1
<1>5. ASSUME NEW r \in Requests, NEW a \in Actions, NEW answer \in {"approve", "deny"}, Decide(r, a, answer)
      PROVE  LateOnly'
  BY <1>5 DEF Decide
<1>6. ASSUME NEW t \in Requests, CheckpointExpires(t) PROVE LateOnly'
  BY <1>6 DEF CheckpointExpires
<1>7. ASSUME NEW a \in Actions, TimeRunsOut(a) \/ Match(a) \/ Expire(a) PROVE LateOnly'
  BY <1>7 DEF TimeRunsOut, Match, Expire
<1>8. CASE Restart
  BY <1>8 DEF Restart
<1>9. CASE UNCHANGED vars
  BY <1>9 DEF vars
<1> QED
  BY <1>1, <1>2, <1>3, <1>4, <1>5, <1>6, <1>7, <1>8, <1>9 DEF Next, Resolution

\* A request that runs on is alone on its thread, so that only it moves the
\* checkpoint.
LEMMA AskedIsFrozenStep ==
  ASSUME Typed, ApprovalInv, AskedIsFrozen, [Next]_vars
  PROVE  AskedIsFrozen'
<1> SUFFICES ASSUME Durable \/ faults' = 0, NEW s \in Requests,
                    at'[s] \in {"marking", "answer", "action"}, result'[s] = "pending_approval"
             PROVE  saved'[thread'[s]] = step'[s]
  BY DEF AskedIsFrozen
<1> USE DEF Typed, TypeOK, Go, request, approval, world
<1>0. ASSUME Durable \/ faults = 0, at[s] \in {"marking", "answer", "action"}, result[s] = "pending_approval"
      PROVE  /\ saved[thread[s]] = step[s]
             /\ \A r \in Requests : Active(r) /\ r # s => thread[r] # thread[s]
  BY <1>0 DEF AskedIsFrozen, ApprovalInv, Alone, Active, Ended
<1>1. ASSUME NEW r \in Requests, Turn(r) PROVE saved'[thread'[s]] = step'[s]
  BY <1>1, <1>0 DEF Turn, BeginTurn, WriteAnswer, CreateAction
<1>2. ASSUME NEW r \in Requests, Run(r) PROVE saved'[thread'[s]] = step'[s]
  <2>1. CASE Complete(r)
    BY <1>0, <2>1 DEF Complete
  <2>2. CASE Freeze(r)
    <3>1. CASE s = r
      BY <2>2, <3>1 DEF Freeze
    <3>2. CASE s # r
      BY <1>0, <2>2, <3>2 DEF Freeze, Active, Ended
    <3> QED
      BY <3>1, <3>2
  <2>3. CASE Resume(r) \/ ResumeFails(r)
    BY <1>0, <2>3 DEF Resume, ResumeFails
  <2>4. CASE Advance(r)
    BY <1>0, <2>4 DEF Advance, Active, Ended
  <2> QED
    BY <1>2, <2>1, <2>2, <2>3, <2>4 DEF Run
<1>3. ASSUME NEW r \in Requests, Resolution(r) \/ RunFails(r) \/ Fail(r) PROVE saved'[thread'[s]] = step'[s]
  BY <1>0, <1>3 DEF Resolution, Commit, Prepare, MarkExecuted, MarkFailed, RunFails, Fail
<1>4. ASSUME NEW r \in Requests, NEW a \in Actions, NEW answer \in {"approve", "deny"}, Decide(r, a, answer)
      PROVE  saved'[thread'[s]] = step'[s]
  BY <1>0, <1>4 DEF Decide
<1>5. ASSUME NEW t \in Requests, CheckpointExpires(t) PROVE saved'[thread'[s]] = step'[s]
  BY <1>0, <1>5 DEF CheckpointExpires, Ended
<1>6. ASSUME NEW a \in Actions, TimeRunsOut(a) \/ Match(a) \/ Expire(a) PROVE saved'[thread'[s]] = step'[s]
  BY <1>0, <1>6 DEF TimeRunsOut, Match, Expire
<1>7. CASE Restart
  BY <1>7 DEF Restart, Ended
<1>8. CASE UNCHANGED vars
  BY <1>0, <1>8 DEF vars
<1> QED
  BY <1>1, <1>2, <1>3, <1>4, <1>5, <1>6, <1>7, <1>8 DEF Next

\* What others do leaves a request's own action as it is, but for its time and
\* its expiry.
LEMMA CarryKept ==
  ASSUME Typed, ApprovalInv, NEW s \in Requests, Active(s) => Carry(s),
         at'[s] = at[s], job'[s] = job[s], thread'[s] = thread[s], step'[s] = step[s], result'[s] = result[s],
         faults' = 0 => faults = 0,
         \A a \in Actions :
           Active(s) /\ a[1] = thread[s] =>
             /\ executed'[a] = executed[a] /\ (overdue[a] => overdue'[a])
             /\ status'[a] = status[a] \/ (status'[a] = "expired" /\ overdue'[a])
  PROVE  Carry(s)'
<1> USE DEF Typed, TypeOK
<1>1. CASE ~Active(s)
  BY <1>1 DEF Carry, Active, Ended
<1>2. CASE Active(s)
  <2>1. Resolved(s)' = Resolved(s) /\ ActionOf(s)' = ActionOf(s)
    BY DEF Resolved, ActionOf
  <2>2. ActionOf(s)[1] = thread[s] /\ Resolved(s)[1] = thread[s]
    BY DEF Resolved, ActionOf
  <2>3. at[s] \in {"preparing", "resuming"} => ActionOf(s) \in Actions
    <3>1. at[s] \in {"preparing", "resuming"} => step[s] \in 1..MaxSteps
      <4>1. at[s] \in {"preparing", "resuming"} => Asks(s)
        BY DEF Asks
      <4>2. Asks(s) => step[s] > 0
        BY <1>2 DEF ApprovalInv, Pursued
      <4>3. step[s] \in 0..MaxSteps /\ MaxSteps \in Nat
        BY BoundsAssumption
      <4> QED
        BY ONLY <4>1, <4>2, <4>3
    <3> QED
      BY <3>1, ActionPairs DEF ActionOf
  <2>4. ASSUME NEW a \in Actions, a[1] = thread[s]
        PROVE  /\ executed'[a] = executed[a] /\ (overdue[a] => overdue'[a])
               /\ status'[a] = status[a] \/ (status'[a] = "expired" /\ overdue'[a])
    BY <1>2, <2>4
  <2> HIDE DEF Resolved, ActionOf
  <2> QED
    BY <1>2, <2>1, <2>2, <2>3, <2>4 DEF Carry
<1> QED
  BY <1>1, <1>2

LEMMA CarriedStep ==
  ASSUME Typed, ApprovalInv, NoResultYet, LateOnly, Carried, [Next]_vars
  PROVE  Carried'
<1> USE DEF Typed, TypeOK, Go, request, approval, world
<1>0. /\ \A s \in Requests : Carry(s)
      /\ \A r, s \in Requests : Active(r) /\ Active(s) /\ r # s => thread[r] # thread[s]
  BY DEF Carried, ApprovalInv, Alone
\* A request that takes a step of its own, and touches its own action only.
<1>a. ASSUME NEW r \in Requests, Active(r), Carry(r)', faults' = 0 => faults = 0, overdue' = overdue,
             \A s \in Requests : s # r => at'[s] = at[s] /\ job'[s] = job[s] /\ thread'[s] = thread[s]
                                          /\ step'[s] = step[s] /\ result'[s] = result[s],
             \A a \in Actions : a[1] # thread[r] => executed'[a] = executed[a] /\ status'[a] = status[a]
      PROVE  Carried'
  BY <1>0, <1>a, CarryKept DEF Carried
<1>1. ASSUME NEW r \in Requests, BeginTurn(r) PROVE Carried'
  <2>1. ASSUME NEW s \in Requests PROVE Carry(s)'
    <3>1. CASE s = r
      BY <1>1, <3>1 DEF BeginTurn, Carry
    <3>2. CASE s # r
      BY <1>0, <1>1, <3>2, CarryKept DEF BeginTurn
    <3> QED
      BY <3>1, <3>2
  <2> QED
    BY <2>1 DEF Carried
<1>2. ASSUME NEW r \in Requests, WriteAnswer(r) PROVE Carried'
  <2>1. Carry(r)'
    BY <1>0, <1>2 DEF WriteAnswer, Carry, Resolved
  <2> QED
    BY <1>2, <1>a, <2>1 DEF WriteAnswer, Active, Ended
<1>3. ASSUME NEW r \in Requests, CreateAction(r) PROVE Carried'
  <2>1. Carry(r)' /\ Active(r)
    BY <1>3 DEF CreateAction, Carry, Active, Ended
  <2>2. ASSUME NEW a \in Actions, a[1] # thread[r] PROVE status'[a] = status[a]
    BY <1>3, <2>2 DEF CreateAction, ActionOf
  <2> QED
    BY <1>3, <1>a, <2>1, <2>2 DEF CreateAction
<1>4. ASSUME NEW r \in Requests, Complete(r) PROVE Carried'
  <2>1. result[r] = "none" /\ result'[r] = "completed" /\ Resolved(r)' = Resolved(r)
    BY <1>4 DEF Complete, NoResultYet, Resolved, ActionOf
  <2>2. Carry(r)' /\ Active(r)
    BY <1>0, <1>4, <2>1 DEF Complete, AfterRun, Carry, Active, Ended
  <2> QED
    BY <1>4, <1>a, <2>2 DEF Complete
<1>5. ASSUME NEW r \in Requests, Freeze(r) PROVE Carried'
  <2>1. result[r] = "none" /\ result'[r] = "pending_approval" /\ Resolved(r)' = Resolved(r)
    <3>1. result[r] = "none" /\ result'[r] = "pending_approval"
      BY <1>5 DEF Freeze, NoResultYet
    <3>2. thread'[r] = thread[r] /\ step'[r] - 1 = step[r] /\ step[r] \in 0..MaxSteps
      BY <1>5 DEF Freeze
    <3> QED
      BY <3>1, <3>2 DEF Resolved, ActionOf
  <2>2. Carry(r)' /\ Active(r)
    BY <1>0, <1>5, <2>1 DEF Freeze, AfterRun, Carry, Active, Ended
  <2> QED
    BY <1>5, <1>a, <2>2 DEF Freeze
<1>6. ASSUME NEW r \in Requests, Resume(r) PROVE Carried'
  <2>1. /\ Active(r) /\ Asks(r) /\ result[r] = "none" /\ at[r] = "resuming" /\ saved[thread[r]] > 0
    BY <1>6 DEF Resume, Active, Ended, Asks, NoResultYet
  <2>2. /\ FrozenAt(thread[r]) = ActionOf(r) /\ Resolved(r) = ActionOf(r) /\ ActionOf(r) \in Actions
        /\ executed[ActionOf(r)] = 0
    <3>1. saved[thread[r]] = step[r] /\ step[r] \in 1..MaxSteps /\ executed[<<thread[r], step[r]>>] = 0
      BY <2>1, BoundsAssumption DEF ApprovalInv, Pursued
    <3> QED
      BY <2>1, <3>1, ActionPairs DEF FrozenAt, Resolved, ActionOf
  <2>3. job[r] = "approve" => executed' = [executed EXCEPT ![ActionOf(r)] = executed[ActionOf(r)] + 1]
    BY <1>6, <2>2 DEF Resume
  <2>4. Resolved(r)' = Resolved(r) /\ at'[r] = "tools" /\ UNCHANGED <<job, status>>
    BY <1>6 DEF Resume, Resolved, ActionOf
  <2>5. job[r] = "approve" => executed'[ActionOf(r)] = 1
    BY <2>2, <2>3
  <2>6. Carry(r)'
    BY <1>0, <2>1, <2>2, <2>4, <2>5 DEF Carry
  <2>7. ASSUME NEW a \in Actions, a[1] # thread[r] PROVE executed'[a] = executed[a]
    <3>1. a # ActionOf(r)
      BY <2>7 DEF ActionOf
    <3>2. job[r] # "approve" => executed' = executed
      BY <1>6 DEF Resume
    <3> QED
      BY <2>3, <3>1, <3>2
  <2> QED
    BY <1>6, <1>a, <2>1, <2>6, <2>7 DEF Resume
<1>7. ASSUME NEW r \in Requests, Advance(r) PROVE Carried'
  <2>1. Carry(r)' /\ Active(r)
    BY <1>0, <1>7 DEF Advance, Carry, Resolved, ActionOf, Active, Ended
  <2> QED
    BY <1>7, <1>a, <2>1 DEF Advance
<1>8. ASSUME NEW r \in Requests, ResumeFails(r) PROVE Carried'
  <2>1. Active(r) /\ Asks(r) /\ result[r] = "none"
    BY <1>8 DEF ResumeFails, Active, Ended, Asks, NoResultYet
  <2>2. Resolved(r) = ActionOf(r) /\ ActionOf(r) \in Actions /\ executed[ActionOf(r)] = 0
    <3>1. step[r] \in 1..MaxSteps /\ executed[<<thread[r], step[r]>>] = 0
      BY <2>1, BoundsAssumption DEF ApprovalInv, Pursued
    <3> QED
      BY <2>1, <3>1, ActionPairs DEF Resolved, ActionOf
  <2>3. Carry(r)'
    BY <1>8, <2>2 DEF ResumeFails, Carry, Resolved, ActionOf
  <2> QED
    BY <1>8, <1>a, <2>1, <2>3 DEF ResumeFails
<1>9. ASSUME NEW r \in Requests, RunFails(r) \/ Fail(r) PROVE Carried'
  <2>1. Active(r)
    BY <1>9 DEF RunFails, Fail, Active, Ended
  <2>2. faults' # 0 /\ at'[r] \in {"failed", "failing"}
    BY <1>9 DEF RunFails, Fail
  <2>3. Carry(r)'
    BY <2>2 DEF Carry
  <2> QED
    BY <1>9, <1>a, <2>1, <2>2, <2>3 DEF RunFails, Fail
<1>10. ASSUME NEW r \in Requests, Commit(r) PROVE Carried'
  <2>1. Active(r) /\ ActionOf(r) \in Actions
    <3>1. Active(r) /\ step[r] \in 1..MaxSteps
      BY <1>10, BoundsAssumption DEF Commit, Active, Ended
    <3> QED
      BY <3>1, ActionPairs DEF ActionOf
  <2>2. Carry(r)'
    BY <1>10, <2>1 DEF Commit, Carry, ActionOf
  <2>3. ASSUME NEW a \in Actions, a[1] # thread[r] PROVE status'[a] = status[a]
    BY <1>10, <2>3 DEF Commit, ActionOf
  <2> QED
    BY <1>10, <1>a, <2>1, <2>2, <2>3 DEF Commit
<1>11. ASSUME NEW r \in Requests, Prepare(r) PROVE Carried'
  <2>1. Carry(r)' /\ Active(r)
    BY <1>0, <1>11 DEF Prepare, Carry, ActionOf, Active, Ended
  <2> QED
    BY <1>11, <1>a, <2>1 DEF Prepare
<1>12. ASSUME NEW r \in Requests, MarkExecuted(r) PROVE Carried'
  <2>1. /\ Active(r) /\ Resolved(r) \in Actions /\ status[Resolved(r)] \in {"approved", "expired"}
    BY <1>0, <1>12 DEF MarkExecuted, Carry, Active, Ended
  <2>2. status'[Resolved(r)] = "executed" \/ overdue[Resolved(r)]
    BY <1>12, <2>1 DEF MarkExecuted, Transition, LateOnly
  <2>3. Resolved(r)' = Resolved(r) /\ at'[r] = "answer" /\ overdue' = overdue
    BY <1>12 DEF MarkExecuted, Resolved, ActionOf
  <2>4. Carry(r)'
    BY <2>1, <2>2, <2>3 DEF Carry
  <2>5. ASSUME NEW a \in Actions, a[1] # thread[r] PROVE status'[a] = status[a]
    BY <1>12, <2>5 DEF MarkExecuted, Transition, Resolved, ActionOf
  <2> QED
    BY <1>12, <1>a, <2>1, <2>4, <2>5 DEF MarkExecuted
<1>13. ASSUME NEW r \in Requests, MarkFailed(r) PROVE Carried'
  <2>1. Active(r) /\ Carry(r)'
    BY <1>13 DEF MarkFailed, Carry, Active, Ended
  <2>2. ASSUME NEW a \in Actions, a[1] # thread[r] PROVE status'[a] = status[a]
    BY <1>13, <2>2 DEF MarkFailed, Transition, Resolved, ActionOf
  <2> QED
    BY <1>13, <1>a, <2>1, <2>2 DEF MarkFailed
<1>14. ASSUME NEW r \in Requests, NEW a \in Actions, NEW answer \in {"approve", "deny"}, Decide(r, a, answer)
       PROVE  Carried'
  <2>1. ASSUME NEW s \in Requests PROVE Carry(s)'
    <3>1. CASE s = r
      BY <1>14, <3>1 DEF Decide, Carry
    <3>2. CASE s # r
      BY <1>0, <1>14, <3>2, CarryKept DEF Decide
    <3> QED
      BY <3>1, <3>2
  <2> QED
    BY <2>1 DEF Carried
<1>15. ASSUME NEW t \in Requests, CheckpointExpires(t) PROVE Carried'
  BY <1>0, <1>15, CarryKept DEF CheckpointExpires, Carried
<1>16. ASSUME NEW a \in Actions, TimeRunsOut(a) \/ Match(a) \/ Expire(a) PROVE Carried'
  <2>1. \A b \in Actions : /\ overdue[b] => overdue'[b]
                           /\ status'[b] = status[b] \/ (status'[b] = "expired" /\ overdue'[b])
    BY <1>16 DEF TimeRunsOut, Match, Expire, LateOnly
  <2>2. UNCHANGED <<at, job, thread, step, result, executed, faults>>
    BY <1>16 DEF TimeRunsOut, Match, Expire
  <2> QED
    BY <1>0, <2>1, <2>2, CarryKept DEF Carried
<1>17. CASE Restart
  <2>1. faults' # 0 /\ UNCHANGED <<job, thread, step, result, status, overdue, executed>>
        /\ \A s \in Requests : at'[s] \in Ended
    BY <1>17 DEF Restart, Ended
  <2> QED
    BY <2>1 DEF Carried, Carry, Ended
<1>18. CASE UNCHANGED vars
  BY <1>0, <1>18, CarryKept DEF vars, Carried
<1> QED
  BY <1>1, <1>2, <1>3, <1>4, <1>5, <1>6, <1>7, <1>8, <1>9, <1>10, <1>11, <1>12, <1>13, <1>14, <1>15, <1>16, <1>17,
     <1>18 DEF Next, Turn, Run, Resolution

\* An action that was left unresolved keeps its checkpoint.
LEMMA PendingIsFrozenStep ==
  ASSUME Typed, ApprovalInv, AskedIsFrozen, PendingIsFrozen, [Next]_vars
  PROVE  PendingIsFrozen'
<1> SUFFICES ASSUME Durable \/ faults' = 0, NEW a \in Actions, status'[a] = "pending", ~overdue'[a]
             PROVE  saved'[a[1]] = a[2]
  BY DEF PendingIsFrozen
<1> USE DEF Typed, TypeOK, Go, request, approval, world
<1> DEFINE t == a[1]
           k == a[2]
<1>t. t \in Requests /\ k \in 1..MaxSteps /\ a = <<t, k>>
  BY ActionPairs
<1>0. ASSUME Durable \/ faults = 0, status[a] = "pending", ~overdue[a]
      PROVE  /\ saved[t] = k
             /\ \A r \in Requests : Active(r) /\ thread[r] = t => at[r] = "deciding"
  BY <1>0, <1>t DEF PendingIsFrozen, ApprovalInv, Waiting
<1> HIDE DEF t, k
<1> SUFFICES saved'[t] = k
  BY DEF t, k
<1>1. ASSUME NEW r \in Requests, BeginTurn(r) \/ WriteAnswer(r) PROVE saved'[t] = k
  BY <1>0, <1>1 DEF BeginTurn, WriteAnswer
<1>2. ASSUME NEW r \in Requests, CreateAction(r) PROVE saved'[t] = k
  <2>1. CASE a = ActionOf(r)
    <3>1. t = thread[r] /\ k = step[r]
      BY <1>t, <2>1 DEF ActionOf
    <3>2. (Durable \/ faults = 0) /\ at[r] = "action" /\ result[r] = "pending_approval" /\ saved' = saved
      BY <1>2 DEF CreateAction
    <3> QED
      BY <3>1, <3>2 DEF AskedIsFrozen
  <2>2. CASE a # ActionOf(r)
    BY <1>0, <1>2, <2>2 DEF CreateAction
  <2> QED
    BY <2>1, <2>2
<1>3. ASSUME NEW r \in Requests, Complete(r) \/ Resume(r) \/ ResumeFails(r) PROVE saved'[t] = k
  BY <1>0, <1>3 DEF Complete, Resume, ResumeFails
<1>4. ASSUME NEW r \in Requests, Freeze(r) \/ Advance(r) PROVE saved'[t] = k
  <2>1. (Durable \/ faults = 0) /\ status[a] = "pending" /\ ~overdue[a]
    BY <1>4 DEF Freeze, Advance
  <2>2. Active(r) /\ at[r] # "deciding"
    BY <1>4 DEF Freeze, Advance, Active, Ended
  <2>3. thread[r] # t /\ saved[t] = k
    BY <1>0, <2>1, <2>2
  <2> QED
    BY <1>4, <1>t, <2>3 DEF Freeze, Advance
<1>5. ASSUME NEW r \in Requests, Commit(r) \/ Prepare(r) PROVE saved'[t] = k
  <2>1. status[a] = "pending"
    BY <1>5 DEF Commit, Prepare
  <2> QED
    BY <1>0, <1>5, <2>1 DEF Commit, Prepare
<1>6. ASSUME NEW r \in Requests, MarkExecuted(r) \/ MarkFailed(r) PROVE saved'[t] = k
  <2>1. status[a] = "pending"
    BY <1>6 DEF MarkExecuted, MarkFailed, Transition
  <2> QED
    BY <1>0, <1>6, <2>1 DEF MarkExecuted, MarkFailed
<1>7. ASSUME NEW r \in Requests, RunFails(r) \/ Fail(r) PROVE saved'[t] = k
  BY <1>0, <1>7 DEF RunFails, Fail
<1>8. ASSUME NEW r \in Requests, NEW b \in Actions, NEW answer \in {"approve", "deny"}, Decide(r, b, answer)
      PROVE  saved'[t] = k
  BY <1>0, <1>8 DEF Decide
<1>9. ASSUME NEW u \in Requests, CheckpointExpires(u) PROVE saved'[t] = k
  <2>1. UNCHANGED <<status, overdue, faults>> /\ saved' = [saved EXCEPT ![u] = 0]
    BY <1>9 DEF CheckpointExpires
  <2>2. saved[t] = k
    BY <1>0, <2>1
  <2>3. u # t
    BY <1>9, <1>t, <2>1, <2>2 DEF CheckpointExpires, FrozenAt
  <2> QED
    BY <1>t, <2>1, <2>2, <2>3
<1>10. ASSUME NEW b \in Actions, TimeRunsOut(b) \/ Match(b) \/ Expire(b) PROVE saved'[t] = k
  <2>1. status[a] = "pending" /\ ~overdue[a] /\ UNCHANGED <<saved, faults>>
    BY <1>10 DEF TimeRunsOut, Match, Expire
  <2> QED
    BY <1>0, <2>1
<1>11. CASE Restart
  BY <1>0, <1>11 DEF Restart
<1>12. CASE UNCHANGED vars
  BY <1>0, <1>12 DEF vars
<1> QED
  BY <1>1, <1>2, <1>3, <1>4, <1>5, <1>6, <1>7, <1>8, <1>9, <1>10, <1>11, <1>12 DEF Next, Turn, Run, Resolution

\* What is said of one action.
Told(a) ==
  /\ status[a] \in {"pending", "denied"} => executed[a] = 0
  /\ status[a] = "executed" => executed[a] = 1
  /\ executed[a] > 0 /\ ~Working(a) /\ ~overdue[a] /\ faults = 0 => status[a] = "executed"

\* A step that neither runs nor judges an action, and ends no work on it, keeps
\* what is said of it.
LEMMA ToldKept ==
  ASSUME NEW a \in Actions, Told(a), executed'[a] = executed[a],
         status'[a] = status[a] \/ (status'[a] = "expired" /\ overdue'[a]) \/ (executed[a] = 0 /\ status'[a] # "executed"),
         overdue[a] => overdue'[a],
         faults' = 0 => faults = 0 /\ (Working(a) => Working(a)'),
         executed[a] \in Nat
  PROVE  Told(a)'
BY DEF Told

\* Who stays active with its result stays at work on the same action.
LEMMA WorkingKept ==
  ASSUME NEW a \in Actions,
         \A s \in Requests : at[s] \notin Ended /\ job[s] = "approve" /\ Resolved(s) = a =>
                               at'[s] \notin Ended /\ job'[s] = job[s] /\ Resolved(s)' = Resolved(s)
  PROVE  Working(a) => Working(a)'
BY DEF Working

LEMMA ToldStep ==
  ASSUME Typed, ApprovalInv, NoResultYet, LateOnly, Carried, \A a \in Actions : Told(a), [Next]_vars,
         NEW a \in Actions
  PROVE  Told(a)'
<1> USE DEF Typed, TypeOK, Go, request, approval, world
<1>0. Told(a) /\ executed[a] \in Nat /\ \A s \in Requests : Carry(s)
  BY DEF Carried
\* A request that leaves the actions alone and stays at work.
<1>a. ASSUME NEW r \in Requests, UNCHANGED <<status, executed, overdue, faults>>,
             \A s \in Requests : s # r => at'[s] = at[s] /\ job'[s] = job[s] /\ thread'[s] = thread[s]
                                          /\ step'[s] = step[s] /\ result'[s] = result[s],
             at[r] \notin Ended /\ job[r] = "approve" =>
               at'[r] \notin Ended /\ job'[r] = job[r] /\ Resolved(r)' = Resolved(r)
      PROVE  Told(a)'
  <2>1. Working(a) => Working(a)'
    <3>1. \A s \in Requests : s # r => Resolved(s)' = Resolved(s)
      BY <1>a DEF Resolved, ActionOf
    <3> QED
      BY <1>a, <3>1, WorkingKept
  <2> QED
    BY <1>0, <1>a, <2>1, ToldKept
\* The work ends: what it resolved says what became of it.
<1>b. ASSUME NEW r \in Requests, UNCHANGED <<job, thread, step, result, executed, overdue, faults>>,
             \A s \in Requests : s # r => at'[s] = at[s],
             \A b \in Actions : status'[b] = status[b] \/ (executed[b] = 0 /\ status'[b] # "executed"),
             job[r] = "approve" /\ faults = 0 =>
               \/ at'[r] \notin Ended
               \/ Resolved(r) \in Actions /\ (status[Resolved(r)] = "executed" \/ overdue[Resolved(r)] \/ executed[Resolved(r)] = 0)
      PROVE  Told(a)'
  <2>1. \A s \in Requests : Resolved(s)' = Resolved(s)
    BY <1>b DEF Resolved, ActionOf
  <2>2. CASE \E s \in Requests : at[s] \notin Ended /\ job[s] = "approve" /\ Resolved(s) = a /\ at'[s] \in Ended
    <3>1. at[r] \notin Ended /\ job[r] = "approve" /\ Resolved(r) = a /\ at'[r] \in Ended
      BY <1>b, <2>2
    <3>2. faults = 0 => status[a] = "executed" \/ overdue[a] \/ executed[a] = 0
      BY <1>b, <3>1
    <3>3. status'[a] = status[a] \/ (executed[a] = 0 /\ status'[a] # "executed")
      BY <1>b
    <3> QED
      BY <1>0, <1>b, <3>2, <3>3 DEF Told
  <2>3. CASE \A s \in Requests : at[s] \notin Ended /\ job[s] = "approve" /\ Resolved(s) = a => at'[s] \notin Ended
    <3>1. Working(a) => Working(a)'
      BY <1>b, <2>1, <2>3, WorkingKept
    <3> QED
      BY <1>0, <1>b, <3>1, ToldKept
  <2> QED
    BY <2>2, <2>3
<1>1. ASSUME NEW r \in Requests, BeginTurn(r) PROVE Told(a)'
  BY <1>1, <1>a DEF BeginTurn, Ended
<1>2. ASSUME NEW r \in Requests, WriteAnswer(r) PROVE Told(a)'
  <2>1. job[r] = "approve" /\ faults = 0 => Resolved(r) \in Actions /\ (status[Resolved(r)] = "executed" \/ overdue[Resolved(r)])
    BY <1>0, <1>2 DEF WriteAnswer, Carry
  <2> QED
    BY <1>2, <1>b, <2>1 DEF WriteAnswer
<1>3. ASSUME NEW r \in Requests, CreateAction(r) PROVE Told(a)'
  <2>1. executed[ActionOf(r)] = 0
    BY <1>3 DEF CreateAction, ApprovalInv, Pursued, Active, Asks, Ended, ActionOf
  <2>2. job[r] = "approve" /\ faults = 0 => Resolved(r) \in Actions /\ (status[Resolved(r)] = "executed" \/ overdue[Resolved(r)])
    BY <1>0, <1>3 DEF CreateAction, Carry
  <2>3. \A b \in Actions : status'[b] = status[b] \/ (executed[b] = 0 /\ status'[b] # "executed")
    BY <1>3, <2>1 DEF CreateAction
  <2> QED
    BY <1>3, <1>b, <2>2, <2>3 DEF CreateAction
<1>4. ASSUME NEW r \in Requests, Complete(r) PROVE Told(a)'
  <2>1. Resolved(r)' = Resolved(r) /\ at'[r] \notin Ended /\ at[r] \notin Ended
    BY <1>4 DEF Complete, AfterRun, NoResultYet, Resolved, ActionOf, Ended
  <2> QED
    BY <1>4, <1>a, <2>1 DEF Complete
<1>5. ASSUME NEW r \in Requests, Freeze(r) PROVE Told(a)'
  <2>1. Resolved(r)' = Resolved(r)
    <3>1. result[r] = "none" /\ result'[r] = "pending_approval"
      BY <1>5 DEF Freeze, NoResultYet
    <3>2. thread'[r] = thread[r] /\ step'[r] - 1 = step[r] /\ step[r] \in 0..MaxSteps
      BY <1>5 DEF Freeze
    <3> QED
      BY <3>1, <3>2 DEF Resolved, ActionOf
  <2>2. at'[r] \notin Ended
    BY <1>5 DEF Freeze, AfterRun, Ended
  <2> QED
    BY <1>5, <1>a, <2>1, <2>2 DEF Freeze
<1>6. ASSUME NEW r \in Requests, Resume(r) PROVE Told(a)'
  <2>1. /\ Active(r) /\ Asks(r) /\ result[r] = "none" /\ at[r] = "resuming" /\ saved[thread[r]] > 0
    BY <1>6 DEF Resume, Active, Ended, Asks, NoResultYet
  <2>2. /\ FrozenAt(thread[r]) = ActionOf(r) /\ Resolved(r) = ActionOf(r) /\ ActionOf(r) \in Actions
        /\ executed[ActionOf(r)] = 0
    <3>1. saved[thread[r]] = step[r] /\ step[r] \in 1..MaxSteps /\ executed[<<thread[r], step[r]>>] = 0
      BY <2>1, BoundsAssumption DEF ApprovalInv, Pursued
    <3> QED
      BY <2>1, <3>1, ActionPairs DEF FrozenAt, Resolved, ActionOf
  <2>3. UNCHANGED <<status, overdue, faults, job, thread, step, result>> /\ at' = [at EXCEPT ![r] = "tools"]
    BY <1>6 DEF Resume
  <2>4. at'[r] \notin Ended /\ \A s \in Requests : Resolved(s)' = Resolved(s)
    BY <2>3 DEF Resolved, ActionOf, Ended
  <2>5. CASE job[r] = "approve" /\ a = ActionOf(r)
    <3>1. executed'[a] = 1
      BY <1>6, <2>2, <2>5 DEF Resume
    <3>2. status[a] \in {"approved", "expired"}
      BY <1>0, <2>1, <2>5 DEF Carry
    <3>3. Working(a)'
      BY <2>2, <2>3, <2>4, <2>5 DEF Working
    <3> QED
      BY <2>3, <3>1, <3>2, <3>3 DEF Told
  <2>6. CASE ~(job[r] = "approve" /\ a = ActionOf(r))
    <3>1. executed'[a] = executed[a]
      BY <1>6, <2>2, <2>6 DEF Resume
    <3>2. Working(a) => Working(a)'
      BY <2>3, <2>4, WorkingKept
    <3> QED
      BY <1>0, <2>3, <3>1, <3>2, ToldKept
  <2> QED
    BY <2>5, <2>6
<1>7. ASSUME NEW r \in Requests, Advance(r) \/ ResumeFails(r) \/ Prepare(r) PROVE Told(a)'
  <2>1. Resolved(r)' = Resolved(r) /\ at'[r] \notin Ended
    BY <1>7 DEF Advance, ResumeFails, Prepare, Resolved, ActionOf, Ended
  <2> QED
    BY <1>7, <1>a, <2>1 DEF Advance, ResumeFails, Prepare
<1>8. ASSUME NEW r \in Requests, RunFails(r) \/ Fail(r) PROVE Told(a)'
  <2>1. faults' # 0 /\ UNCHANGED <<status, executed, overdue>>
    BY <1>8 DEF RunFails, Fail
  <2> QED
    BY <1>0, <2>1, ToldKept
<1>9. ASSUME NEW r \in Requests, Commit(r) PROVE Told(a)'
  <2>1. executed[ActionOf(r)] = 0
    BY <1>9 DEF Commit, ApprovalInv, Pursued, Active, Asks, Ended, ActionOf
  <2>2. \A b \in Actions : status'[b] = status[b] \/ (executed[b] = 0 /\ status'[b] # "executed")
    BY <1>9, <2>1 DEF Commit
  <2>3. at'[r] \notin Ended
    BY <1>9 DEF Commit, Ended
  <2> QED
    BY <1>9, <1>b, <2>2, <2>3 DEF Commit
<1>10. ASSUME NEW r \in Requests, MarkExecuted(r) PROVE Told(a)'
  <2>1. at[r] = "marking" /\ job[r] = "approve" /\ Resolved(r) \in Actions /\ executed[Resolved(r)] = 1
    BY <1>0, <1>10 DEF MarkExecuted, Carry
  <2>2. UNCHANGED <<job, thread, step, result, executed, overdue, faults>> /\ at' = [at EXCEPT ![r] = "answer"]
    BY <1>10 DEF MarkExecuted
  <2>3. Working(a) => Working(a)'
    <3>1. \A s \in Requests : Resolved(s)' = Resolved(s)
      BY <2>2 DEF Resolved, ActionOf
    <3> QED
      BY <2>2, <3>1, WorkingKept DEF Ended
  <2>4. status'[a] = status[a] \/ (a = Resolved(r) /\ status'[a] = "executed")
    BY <1>10 DEF MarkExecuted, Transition
  <2>5. CASE status'[a] = status[a]
    BY <1>0, <2>2, <2>3, <2>5, ToldKept
  <2>6. CASE a = Resolved(r) /\ status'[a] = "executed"
    BY <2>1, <2>2, <2>6 DEF Told
  <2> QED
    BY <2>4, <2>5, <2>6
<1>11. ASSUME NEW r \in Requests, MarkFailed(r) PROVE Told(a)'
  <2>1. at[r] = "failing" /\ result[r] = "none" /\ at'[r] = "failed"
    BY <1>11 DEF MarkFailed, NoResultYet
  <2>2. job[r] = "approve" /\ faults = 0 => Resolved(r) \in Actions /\ executed[Resolved(r)] = 0
    BY <1>0, <2>1 DEF Carry
  <2>3. UNCHANGED <<job, thread, step, result, executed, overdue, faults>> /\ at' = [at EXCEPT ![r] = "failed"]
    BY <1>11 DEF MarkFailed
  <2>4. \A b \in Actions : status'[b] = status[b] \/ (b = Resolved(r) /\ status'[b] = "failed" /\ status[b] \in {"approved", "denied"} /\ (status[b] = "approved" => job[r] = "approve"))
    BY <1>11 DEF MarkFailed, Transition
  <2>5. CASE faults = 0
    <3>1. \A b \in Actions : status[b] = "denied" => executed[b] = 0
      BY DEF Told
    <3>2. \A b \in Actions : status'[b] = status[b] \/ (executed[b] = 0 /\ status'[b] # "executed")
      BY <2>2, <2>4, <2>5, <3>1
    <3> QED
      BY <1>b, <2>2, <2>3, <3>2
  <2>6. CASE faults # 0
    BY <1>0, <2>3, <2>4, <2>6 DEF Told
  <2> QED
    BY <2>5, <2>6
<1>12. ASSUME NEW r \in Requests, NEW b \in Actions, NEW answer \in {"approve", "deny"}, Decide(r, b, answer)
       PROVE  Told(a)'
  BY <1>12, <1>a DEF Decide, Ended
<1>13. ASSUME NEW t \in Requests, CheckpointExpires(t) PROVE Told(a)'
  BY <1>13, <1>a DEF CheckpointExpires, Resolved, ActionOf, Ended
<1>14. ASSUME NEW b \in Actions, TimeRunsOut(b) \/ Match(b) \/ Expire(b) PROVE Told(a)'
  <2>1. /\ overdue[a] => overdue'[a]
        /\ status'[a] = status[a] \/ (status'[a] = "expired" /\ overdue'[a])
    BY <1>14 DEF TimeRunsOut, Match, Expire, LateOnly
  <2>2. UNCHANGED <<at, job, thread, step, result, executed, faults>>
    BY <1>14 DEF TimeRunsOut, Match, Expire
  <2>3. Working(a)' = Working(a)
    BY <2>2 DEF Working, Resolved, ActionOf
  <2> QED
    BY <1>0, <2>1, <2>2, <2>3, ToldKept
<1>15. CASE Restart
  <2>1. faults' # 0 /\ UNCHANGED <<status, executed, overdue>>
    BY <1>15 DEF Restart
  <2> QED
    BY <1>0, <2>1, ToldKept
<1>16. CASE UNCHANGED vars
  <2>1. UNCHANGED <<at, job, thread, step, result, executed, status, overdue, faults>>
    BY <1>16 DEF vars
  <2>2. Working(a)' = Working(a)
    BY <2>1 DEF Working, Resolved, ActionOf
  <2> QED
    BY <1>0, <2>1, <2>2, ToldKept
<1> QED
  BY <1>1, <1>2, <1>3, <1>4, <1>5, <1>6, <1>7, <1>8, <1>9, <1>10, <1>11, <1>12, <1>13, <1>14, <1>15, <1>16
     DEF Next, Turn, Run, Resolution

\* Denied stays denied: the tool of an action that waits or was denied has not
\* run, and one marked executed has.  When the resolution is over, the action of
\* a tool that has run says so, unless its time ran out meanwhile or a call
\* failed; and one that can still be resolved has its checkpoint.
THEOREM StatusKept == Spec => []StatusHonest
<1> DEFINE All == Typed /\ ApprovalInv /\ StatusInv
<1>1. Init => StatusInv
  BY DEF Init, StatusInv, NoResultYet, LateOnly, AskedIsFrozen, Carried, Carry, StatusHonest, PendingIsFrozen, Actions
<1>2. All /\ [Next]_vars => All'
  <2> SUFFICES ASSUME Typed, ApprovalInv, StatusInv, [Next]_vars PROVE All'
    OBVIOUS
  <2>1. \A a \in Actions : Told(a)
    BY DEF StatusInv, StatusHonest, Told
  <2>2. \A a \in Actions : Told(a)'
    BY <2>1, ToldStep DEF StatusInv
  <2>3. PendingIsFrozen'
    BY PendingIsFrozenStep DEF StatusInv, StatusHonest
  <2>4. StatusHonest'
    BY <2>2, <2>3 DEF StatusHonest, Told
  <2>5. NoResultYet' /\ LateOnly' /\ AskedIsFrozen' /\ Carried'
    BY NoResultYetStep, LateOnlyStep, AskedIsFrozenStep, CarriedStep DEF StatusInv
  <2> QED
    BY <2>4, <2>5, NextTyped, NextApproval DEF StatusInv
<1>3. All => StatusHonest
  BY DEF StatusInv
<1> QED
  BY <1>1, <1>2, <1>3, InitTyped, InitApproval, PTL DEF Spec
=============================================================================
