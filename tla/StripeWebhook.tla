---------------------------- MODULE StripeWebhook ----------------------------
(***************************************************************************)
(* Intake and processing of Stripe events: the webhook controller, the     *)
(* StripeWebhookEvent nodes it writes, the BullMQ queue and the worker's   *)
(* process() wrapper.  What a handler does to the billing data is the      *)
(* business of other modules; here it is one run of the handler.           *)
(*                                                                         *)
(* Each HTTP delivery is a process that reads, creates and enqueues in     *)
(* three separate awaits, so deliveries of one event interleave.  A job is *)
(* named by the delivery that added it.  Any database or queue call may    *)
(* fail before or after its effect, either process may crash, and a worker *)
(* may lose the lock of the job it is still running.                       *)
(***************************************************************************)
EXTENDS Integers, FiniteSets

CONSTANTS Events,        \* Stripe event ids
          Requests,      \* HTTP deliveries Stripe makes, redeliveries included
          Workers,       \* slots of the worker: its concurrency
          None,          \* no event, no job, no worker
          Attempts,      \* attempts given to queue.add
          MaxStalled,    \* BullMQ's maxStalledCount
          MaxFaults,     \* bound: calls that fail
          MaxCrashes,    \* bound: crashes of either process
          MaxLockLosses  \* bound: locks that expire under a live worker

ASSUME NoneAssumption == None \notin Events \cup Requests \cup Workers
ASSUME BoundsAssumption == /\ Attempts \in Nat \ {0}
                           /\ MaxStalled \in Nat
                           /\ MaxFaults \in Nat
                           /\ MaxCrashes \in Nat
                           /\ MaxLockLosses \in Nat

VARIABLES record,      \* [Events -> status and retryCount of the event's node]
          request,     \* [Requests -> how far the delivery has got]
          job,         \* [Requests -> the job the delivery added]
          worker,      \* [Workers -> the job in the slot and how far it is]
          handled,     \* [Events -> runs of the handler that took effect]
          faults, crashes, lockLosses

vars == <<record, request, job, worker, handled, faults, crashes, lockLosses>>
budget == <<faults, crashes, lockLosses>>

Statuses == {"none", "pending", "processing", "completed", "failed"}
JobStates == {"none", "wait", "active", "completed", "failed"}
RequestSteps == {"unsent", "find", "create", "add", "replied", "lost"}
Replies == {"none", "received", "duplicate", "error"}
WorkerSteps == {"idle", "mark", "handle", "complete", "fail", "return", "throw"}

Nodes == [status : Statuses, retries : Nat]
Deliveries == [pc : RequestSteps, event : Events \cup {None}, reply : Replies]
Jobs == [state : JobStates, made : Nat, stalls : Nat, owner : Workers \cup {None}]
Slots == [pc : WorkerSteps, job : Requests \cup {None}]

TypeOK ==
  /\ record \in [Events -> Nodes]
  /\ request \in [Requests -> Deliveries]
  /\ job \in [Requests -> Jobs]
  /\ worker \in [Workers -> Slots]
  /\ handled \in [Events -> Nat]
  /\ faults \in 0..MaxFaults
  /\ crashes \in 0..MaxCrashes
  /\ lockLosses \in 0..MaxLockLosses

Init ==
  /\ record = [e \in Events |-> [status |-> "none", retries |-> 0]]
  /\ request = [r \in Requests |-> [pc |-> "unsent", event |-> None, reply |-> "none"]]
  /\ job = [r \in Requests |-> [state |-> "none", made |-> 0, stalls |-> 0, owner |-> None]]
  /\ worker = [w \in Workers |-> [pc |-> "idle", job |-> None]]
  /\ handled = [e \in Events |-> 0]
  /\ faults = 0 /\ crashes = 0 /\ lockLosses = 0

Fault == /\ faults < MaxFaults
         /\ faults' = faults + 1
         /\ UNCHANGED <<crashes, lockLosses>>

-----------------------------------------------------------------------------
(* The controller. *)

Recorded(e) == record[e].status # "none"

Step(r, to) == request' = [request EXCEPT ![r].pc = to]
Reply(r, answer) == request' = [request EXCEPT ![r].pc = "replied", ![r].reply = answer]
At(r, step) == request[r].pc = step

\* Stripe sends any of its events, again if it likes.
Deliver(r, e) ==
  /\ At(r, "unsent")
  /\ request' = [request EXCEPT ![r] = [pc |-> "find", event |-> e, reply |-> "none"]]
  /\ UNCHANGED <<record, job, worker, handled, budget>>

Find(r) ==
  /\ At(r, "find")
  /\ IF Recorded(request[r].event) THEN Reply(r, "duplicate") ELSE Step(r, "create")
  /\ UNCHANGED <<record, job, worker, handled, budget>>

NewRecord(e) == record' = [record EXCEPT ![e] = [status |-> "pending", retries |-> 0]]

\* Mutants of Create: no unique constraint; a delivery that stores nothing.
CreateUnconstrained(r) ==
  /\ At(r, "create")
  /\ Step(r, "add") /\ NewRecord(request[r].event)
  /\ UNCHANGED <<job, worker, handled, budget>>
CreateStoresNothing(r) ==
  /\ At(r, "create")
  /\ Step(r, "add")
  /\ UNCHANGED <<record, job, worker, handled, budget>>

\* The node's stripeEventId is unique: a second create throws, and 500 goes out.
Create(r) ==
  /\ At(r, "create")
  /\ IF Recorded(request[r].event)
       THEN Reply(r, "error") /\ UNCHANGED record
       ELSE Step(r, "add") /\ NewRecord(request[r].event)
  /\ UNCHANGED <<job, worker, handled, budget>>

AddJob(r) == job' = [job EXCEPT ![r].state = "wait"]

\* Mutant: 200 goes out and nothing is queued.
AddForgotten(r) ==
  /\ At(r, "add")
  /\ Reply(r, "received")
  /\ UNCHANGED <<record, job, worker, handled, budget>>

Add(r) ==
  /\ At(r, "add")
  /\ AddJob(r)
  /\ Reply(r, "received")
  /\ UNCHANGED <<record, worker, handled, budget>>

\* A call of the controller throws without having done anything.
RequestFails(r) ==
  /\ request[r].pc \in {"find", "create", "add"}
  /\ Fault
  /\ Reply(r, "error")
  /\ UNCHANGED <<record, job, worker, handled>>

\* The node is committed and the answer lost: the driver wrapper repeats the
\* CREATE, which now breaks the constraint.
CreateUnacked(r) ==
  /\ At(r, "create") /\ ~Recorded(request[r].event)
  /\ Fault
  /\ NewRecord(request[r].event)
  /\ Reply(r, "error")
  /\ UNCHANGED <<job, worker, handled>>

AddUnacked(r) ==
  /\ At(r, "add")
  /\ Fault
  /\ AddJob(r)
  /\ Reply(r, "error")
  /\ UNCHANGED <<record, worker, handled>>

ApiCrash ==
  /\ crashes < MaxCrashes
  /\ crashes' = crashes + 1
  /\ request' = [r \in Requests |->
                  IF request[r].pc \in {"find", "create", "add"}
                    THEN [request[r] EXCEPT !.pc = "lost"] ELSE request[r]]
  /\ UNCHANGED <<record, job, worker, handled, faults, lockLosses>>

-----------------------------------------------------------------------------
(* The worker. *)

Runs(w, step) == worker[w].pc = step
EventOf(w) == request[worker[w].job].event
Goto(w, step) == worker' = [worker EXCEPT ![w].pc = step]
Free(w) == worker' = [worker EXCEPT ![w] = [pc |-> "idle", job |-> None]]
Holds(w) == job[worker[w].job].owner = w
SetStatus(w, s) == record' = [record EXCEPT ![EventOf(w)].status = s]
SetFailed(w, n) ==
  LET e == EventOf(w)
  IN record' = [record EXCEPT ![e] = [status |-> "failed", retries |-> record[e].retries + n]]

Take(w, r) ==
  /\ Runs(w, "idle")
  /\ job[r].state = "wait"
  /\ job' = [job EXCEPT ![r].state = "active", ![r].owner = w]
  /\ worker' = [worker EXCEPT ![w] = [pc |-> "mark", job |-> r]]
  /\ UNCHANGED <<record, request, handled, budget>>

\* Mutant: the final status is written before the handler has run.
MarkCompleted(w) ==
  /\ Runs(w, "mark")
  /\ SetStatus(w, "completed")
  /\ Goto(w, "handle")
  /\ UNCHANGED <<request, job, handled, budget>>

\* status = processing
Mark(w) ==
  /\ Runs(w, "mark")
  /\ SetStatus(w, "processing")
  /\ Goto(w, "handle")
  /\ UNCHANGED <<request, job, handled, budget>>

MarkFails(w) ==
  /\ Runs(w, "mark")
  /\ Fault
  /\ \/ SetStatus(w, "processing")
     \/ UNCHANGED record
  /\ Goto(w, "fail")
  /\ UNCHANGED <<request, job, handled>>

RunHandler(w) == handled' = [handled EXCEPT ![EventOf(w)] = @ + 1]

Handle(w) ==
  /\ Runs(w, "handle")
  /\ RunHandler(w)
  /\ Goto(w, "complete")
  /\ UNCHANGED <<record, request, job, budget>>

\* A handler throws before, or after, it has touched anything.
HandleThrows(w) ==
  /\ Runs(w, "handle")
  /\ \/ RunHandler(w)
     \/ UNCHANGED handled
  /\ Goto(w, "fail")
  /\ UNCHANGED <<record, request, job, budget>>

\* status = completed
Complete(w) ==
  /\ Runs(w, "complete")
  /\ SetStatus(w, "completed")
  /\ Goto(w, "return")
  /\ UNCHANGED <<request, job, handled, budget>>

CompleteFails(w) ==
  /\ Runs(w, "complete")
  /\ Fault
  /\ \/ SetStatus(w, "completed")
     \/ UNCHANGED record
  /\ Goto(w, "fail")
  /\ UNCHANGED <<request, job, handled>>

\* status = failed and retryCount + 1, in the catch block
Fail(w) ==
  /\ Runs(w, "fail")
  /\ SetFailed(w, 1)
  /\ Goto(w, "throw")
  /\ UNCHANGED <<request, job, handled, budget>>

\* The write throws, having been committed or not; or its answer is lost and
\* the driver wrapper commits it a second time, counting one retry twice.
FailFails(w) ==
  /\ Runs(w, "fail")
  /\ Fault
  /\ \/ SetFailed(w, 1)
     \/ SetFailed(w, 2)
     \/ UNCHANGED record
  /\ Goto(w, "throw")
  /\ UNCHANGED <<request, job, handled>>

-----------------------------------------------------------------------------
(* BullMQ, as the processor and the options of queue.add use it. *)

Settle(r, s) == job' = [job EXCEPT ![r].state = s, ![r].owner = None]

\* process() resolved.  A worker without the lock cannot finish the job.
Return(w) ==
  /\ Runs(w, "return")
  /\ IF Holds(w) THEN Settle(worker[w].job, "completed") ELSE UNCHANGED job
  /\ Free(w)
  /\ UNCHANGED <<record, request, handled, budget>>

\* process() rejected: back to the queue after the backoff, or given up.
Throw(w) ==
  LET r == worker[w].job
      made == job[r].made + 1
  IN /\ Runs(w, "throw")
     /\ IF Holds(w)
          THEN job' = [job EXCEPT ![r] =
                 [state |-> IF made < Attempts THEN "wait" ELSE "failed",
                  made |-> made, stalls |-> job[r].stalls, owner |-> None]]
          ELSE UNCHANGED job
     /\ Free(w)
     /\ UNCHANGED <<record, request, handled, budget>>

\* The lock runs out (lockDuration) while the slot is still at work.
LoseLock(w) ==
  /\ ~Runs(w, "idle") /\ Holds(w)
  /\ lockLosses < MaxLockLosses
  /\ lockLosses' = lockLosses + 1
  /\ job' = [job EXCEPT ![worker[w].job].owner = None]
  /\ UNCHANGED <<record, request, worker, handled, faults, crashes>>

\* The worker process dies with every slot; its locks will expire.
WorkerCrash ==
  /\ crashes < MaxCrashes
  /\ crashes' = crashes + 1
  /\ worker' = [w \in Workers |-> [pc |-> "idle", job |-> None]]
  /\ job' = [r \in Requests |-> [job[r] EXCEPT !.owner = None]]
  /\ UNCHANGED <<record, request, handled, faults, lockLosses>>

\* Mutants: recovery that ignores the lock; that never gives a job up.
StalledLocked(r) ==
  /\ job[r].state = "active"
  /\ job' = [job EXCEPT ![r] =
               [state |-> IF job[r].stalls < MaxStalled THEN "wait" ELSE "failed",
                made |-> job[r].made, stalls |-> job[r].stalls + 1, owner |-> None]]
  /\ UNCHANGED <<record, request, worker, handled, budget>>
StalledOnce(r) ==
  /\ job[r].state = "active" /\ job[r].owner = None
  /\ job[r].stalls < MaxStalled
  /\ job' = [job EXCEPT ![r].stalls = @ + 1, ![r].state = "wait"]
  /\ UNCHANGED <<record, request, worker, handled, budget>>

\* The stalled check finds an active job without a lock.
Stalled(r) ==
  /\ job[r].state = "active" /\ job[r].owner = None
  /\ job' = [job EXCEPT ![r] =
               [state |-> IF job[r].stalls < MaxStalled THEN "wait" ELSE "failed",
                made |-> job[r].made, stalls |-> job[r].stalls + 1, owner |-> None]]
  /\ UNCHANGED <<record, request, worker, handled, budget>>

-----------------------------------------------------------------------------
RequestStep(r) == Find(r) \/ Create(r) \/ Add(r)
RequestFault(r) == RequestFails(r) \/ CreateUnacked(r) \/ AddUnacked(r)
WorkerStep(w) == \/ Mark(w) \/ Handle(w) \/ HandleThrows(w) \/ Complete(w)
                 \/ Fail(w) \/ Return(w) \/ Throw(w)
WorkerFault(w) == MarkFails(w) \/ CompleteFails(w) \/ FailFails(w) \/ LoseLock(w)

Next ==
  \/ \E r \in Requests, e \in Events : Deliver(r, e)
  \/ \E r \in Requests : RequestStep(r) \/ RequestFault(r) \/ Stalled(r)
  \/ \E w \in Workers, r \in Requests : Take(w, r)
  \/ \E w \in Workers : WorkerStep(w) \/ WorkerFault(w)
  \/ ApiCrash \/ WorkerCrash

\* Node keeps running the handlers it has started, the worker keeps taking
\* jobs, and BullMQ keeps looking for stalled ones.  Stripe owes nothing.
Fairness ==
  /\ \A r \in Requests : WF_vars(RequestStep(r)) /\ WF_vars(Stalled(r))
  /\ \A w \in Workers : WF_vars(WorkerStep(w))
  /\ \A r \in Requests : WF_vars(\E w \in Workers : Take(w, r))

Spec == Init /\ [][Next]_vars
FairSpec == Spec /\ Fairness

-----------------------------------------------------------------------------
(* Properties. *)

HasJob(r) == job[r].state # "none"

\* However many deliveries of an event run at once, at most one of them queues
\* it: the read in the controller does not ensure that, the constraint does.
OneJobPerEvent ==
  \A r, s \in Requests : HasJob(r) /\ HasJob(s) /\ request[r].event = request[s].event => r = s

\* As long as no lock expires under a live worker, two slots never work on one
\* event, redelivered, retried or recovered from a crash as it may be; and its
\* handler runs at most once per attempt and once per stalled recovery, even if
\* a lock is lost.
ExclusiveProcessing ==
  /\ lockLosses = 0 =>
       \A v, w \in Workers : ~Runs(v, "idle") /\ ~Runs(w, "idle") /\ EventOf(v) = EventOf(w) => v = w
  /\ \A e \in Events : handled[e] <= Attempts + MaxStalled

\* The node tells the truth about a job the queue has closed: completed jobs
\* are recorded completed, and a job given up with no failing status write, no
\* crash and no lost lock is recorded failed with one retry per attempt.
StatusTellsOutcome ==
  lockLosses = 0 =>
    \A r \in Requests :
      /\ job[r].state = "completed" => record[request[r].event].status = "completed"
      /\ job[r].state = "failed" /\ faults = 0 /\ crashes = 0
           => record[request[r].event] = [status |-> "failed", retries |-> Attempts]

\* An event recorded completed had its handler run to the end.
CompletedWasHandled == \A e \in Events : record[e].status = "completed" => handled[e] > 0

\* The node and the queue tell the same story of an event, and a true one.
OutcomeHonest == StatusTellsOutcome /\ CompletedWasHandled

\* A queued event is always closed by the queue, one way or the other.
QueuedSettles ==
  \A r \in Requests : HasJob(r) ~> job[r].state \in {"completed", "failed"}

\* What the intake owes to Stripe: an event it answered with a 2xx, as received
\* or as a duplicate, is eventually closed by the queue.
Accepted(e) == \E r \in Requests :
                 request[r].event = e /\ request[r].reply \in {"received", "duplicate"}
Closed(e) == \E r \in Requests :
               request[r].event = e /\ job[r].state \in {"completed", "failed"}
AcceptedIsProcessed == \A e \in Events : Accepted(e) ~> Closed(e)

\* With no failing call and no crash, the debt is paid.
AcceptedIsProcessedUnlessFaulty ==
  \A e \in Events : Accepted(e) ~> (Closed(e) \/ faults > 0 \/ crashes > 0)

\* The refinement of the contract.
Phase(e) ==
  IF ~Recorded(e) THEN "unknown"
  ELSE IF ~\E r \in Requests : request[r].event = e /\ HasJob(r) THEN "recorded"
  ELSE IF Closed(e) THEN "settled" ELSE "queued"

Contract == INSTANCE WebhookContract
              WITH MaxRuns <- Attempts + MaxStalled,
                   phase <- [e \in Events |-> Phase(e)],
                   runs <- handled

ImplementsContract == Contract!Spec
=============================================================================
