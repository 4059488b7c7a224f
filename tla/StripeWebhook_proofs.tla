------------------------- MODULE StripeWebhook_proofs -------------------------
(***************************************************************************)
(* Theorems about StripeWebhook, for any numbers of events, deliveries and *)
(* worker slots and any number of failures.                                *)
(***************************************************************************)
EXTENDS StripeWebhook, FiniteSetTheorems, TLAPS

-----------------------------------------------------------------------------
(* The type of each variable, one lemma per way the actions write it. *)

LEMMA RecordTyped ==
  ASSUME record \in [Events -> Nodes],
         \/ UNCHANGED record
         \/ \E e \in Events \cup {None} : NewRecord(e)
         \/ \E w \in Workers, s \in Statuses : SetStatus(w, s)
         \/ \E w \in Workers, n \in Nat : SetFailed(w, n)
  PROVE  record' \in [Events -> Nodes]
<1> USE DEF Nodes, Statuses
<1>1. ASSUME NEW e \in Events \cup {None}, NewRecord(e) PROVE record' \in [Events -> Nodes]
  BY <1>1 DEF NewRecord
<1>2. ASSUME NEW w \in Workers, NEW s \in Statuses, SetStatus(w, s) PROVE record' \in [Events -> Nodes]
  BY <1>2 DEF SetStatus
<1>3. ASSUME NEW w \in Workers, NEW n \in Nat, SetFailed(w, n) PROVE record' \in [Events -> Nodes]
  <2>1. CASE EventOf(w) \in Events
    <3>1. record[EventOf(w)].retries + n \in Nat
      BY <2>1
    <3> QED BY <1>3, <3>1 DEF SetFailed
  <2>2. CASE EventOf(w) \notin Events
    BY <1>3, <2>2 DEF SetFailed
  <2> QED BY <2>1, <2>2
<1> QED BY <1>1, <1>2, <1>3

LEMMA RequestTyped ==
  ASSUME request \in [Requests -> Deliveries], NEW r \in Requests,
         \/ UNCHANGED request
         \/ \E to \in RequestSteps : Step(r, to)
         \/ \E a \in Replies : Reply(r, a)
         \/ ApiCrash
  PROVE  request' \in [Requests -> Deliveries]
<1> USE DEF Deliveries, RequestSteps, Replies
<1>1. ASSUME NEW to \in RequestSteps, Step(r, to) PROVE request' \in [Requests -> Deliveries]
  BY <1>1 DEF Step
<1>2. ASSUME NEW a \in Replies, Reply(r, a) PROVE request' \in [Requests -> Deliveries]
  BY <1>2 DEF Reply
<1>3. CASE ApiCrash
  BY <1>3 DEF ApiCrash
<1> QED BY <1>1, <1>2, <1>3

LEMMA WorkerTyped ==
  ASSUME worker \in [Workers -> Slots], NEW w \in Workers,
         UNCHANGED worker \/ Free(w) \/ \E to \in WorkerSteps : Goto(w, to)
  PROVE  worker' \in [Workers -> Slots]
<1> USE DEF Slots, WorkerSteps
<1>1. CASE Free(w)
  BY <1>1 DEF Free
<1>2. ASSUME NEW to \in WorkerSteps, Goto(w, to) PROVE worker' \in [Workers -> Slots]
  BY <1>2 DEF Goto
<1> QED BY <1>1, <1>2

LEMMA JobTyped ==
  ASSUME job \in [Requests -> Jobs], NEW w \in Workers, Attempts \in Nat,
         UNCHANGED job \/ Return(w) \/ Throw(w) \/ LoseLock(w)
  PROVE  job' \in [Requests -> Jobs]
<1> USE DEF Jobs, JobStates
<1>1. CASE Return(w)
  BY <1>1 DEF Return, Settle
<1>2. CASE Throw(w)
  <2>1. CASE worker[w].job \in Requests
    <3>1. job[worker[w].job].made + 1 \in Nat /\ job[worker[w].job].stalls \in Nat
      BY <2>1
    <3> QED BY <1>2, <3>1 DEF Throw
  <2>2. CASE worker[w].job \notin Requests
    BY <1>2, <2>2 DEF Throw
  <2> QED BY <2>1, <2>2
<1>3. CASE LoseLock(w)
  BY <1>3 DEF LoseLock
<1> QED BY <1>1, <1>2, <1>3

(* Every variable always has its type. *)
THEOREM TypeCorrect == Spec => []TypeOK
<1>1. Init => TypeOK
  BY BoundsAssumption DEF Init, TypeOK, Nodes, Deliveries, Jobs, Slots, Statuses, RequestSteps, Replies, JobStates, WorkerSteps
<1>2. TypeOK /\ [Next]_vars => TypeOK'
  <2> SUFFICES ASSUME TypeOK, [Next]_vars PROVE TypeOK'
    OBVIOUS
  <2> USE BoundsAssumption DEF TypeOK, budget, Fault
  <2>1. ASSUME NEW r \in Requests, NEW e \in Events, Deliver(r, e) PROVE TypeOK'
    <3>1. request' \in [Requests -> Deliveries]
      BY <2>1 DEF Deliver, Deliveries, RequestSteps, Replies
    <3> QED BY <2>1, <3>1 DEF Deliver
  <2>2. ASSUME NEW r \in Requests, RequestStep(r) \/ RequestFault(r) PROVE TypeOK'
    <3> USE DEF RequestStep, RequestFault, Find, Create, Add, RequestFails, CreateUnacked, AddUnacked
    <3>1. request[r].event \in Events \cup {None}
      BY DEF Deliveries
    <3>2. record' \in [Events -> Nodes]
      BY <2>2, <3>1, RecordTyped
    <3>3. request' \in [Requests -> Deliveries]
      BY <2>2, RequestTyped DEF RequestSteps, Replies
    <3>4. job' \in [Requests -> Jobs]
      <4>1. CASE AddJob(r)
        BY <4>1 DEF AddJob, Jobs, JobStates
      <4> QED BY <2>2, <4>1
    <3> QED BY <2>2, <3>2, <3>3, <3>4
  <2>3. ASSUME NEW r \in Requests, Stalled(r) PROVE TypeOK'
    <3>1. job' \in [Requests -> Jobs]
      <4>1. job[r].made \in Nat /\ job[r].stalls + 1 \in Nat
        BY DEF Jobs
      <4> QED BY <2>3, <4>1 DEF Stalled, Jobs, JobStates
    <3> QED BY <2>3, <3>1 DEF Stalled
  <2>4. ASSUME NEW w \in Workers, NEW r \in Requests, Take(w, r) PROVE TypeOK'
    <3>1. job' \in [Requests -> Jobs] /\ worker' \in [Workers -> Slots]
      BY <2>4 DEF Take, Jobs, JobStates, Slots, WorkerSteps
    <3> QED BY <2>4, <3>1 DEF Take
  <2>5. ASSUME NEW w \in Workers, WorkerStep(w) \/ WorkerFault(w) PROVE TypeOK'
    <3> USE DEF WorkerStep, WorkerFault, Mark, Handle, HandleThrows, Complete, Fail, MarkFails, CompleteFails, FailFails
    <3>1. record' \in [Events -> Nodes]
      BY <2>5, RecordTyped DEF Return, Throw, LoseLock, Statuses
    <3>2. worker' \in [Workers -> Slots]
      BY <2>5, WorkerTyped DEF Return, Throw, LoseLock, WorkerSteps
    <3>3. handled' \in [Events -> Nat]
      BY <2>5 DEF Return, Throw, LoseLock, RunHandler
    <3>4. job' \in [Requests -> Jobs]
      BY <2>5, JobTyped
    <3>5. UNCHANGED request /\ faults' \in 0..MaxFaults /\ crashes' \in 0..MaxCrashes /\ lockLosses' \in 0..MaxLockLosses
      BY <2>5 DEF Return, Throw, LoseLock
    <3> QED BY <3>1, <3>2, <3>3, <3>4, <3>5
  <2>6. CASE ApiCrash
    <3>1. request' \in [Requests -> Deliveries]
      BY <2>6 DEF ApiCrash, Deliveries, RequestSteps
    <3> QED BY <2>6, <3>1 DEF ApiCrash
  <2>7. CASE WorkerCrash
    <3>1. job' \in [Requests -> Jobs] /\ worker' \in [Workers -> Slots]
      BY <2>7 DEF WorkerCrash, Jobs, JobStates, Slots, WorkerSteps
    <3> QED BY <2>7, <3>1 DEF WorkerCrash
  <2>8. CASE UNCHANGED vars
    BY <2>8 DEF vars
  <2> QED BY <2>1, <2>2, <2>3, <2>4, <2>5, <2>6, <2>7, <2>8 DEF Next
<1> QED BY <1>1, <1>2, PTL DEF Spec
-----------------------------------------------------------------------------
(* Why an event is queued once.  A delivery owns its event from the moment  *)
(* it has created the node; the constraint lets only one delivery get there *)
(* and the node never goes away, so no later one does.                      *)

Owns(r) == At(r, "add") \/ HasJob(r)

Delivered == \A r \in Requests : ~At(r, "unsent") => request[r].event \in Events
JobsAnswered == \A r \in Requests : HasJob(r) => At(r, "replied")
OwnedIsRecorded == \A r \in Requests : Owns(r) => Recorded(request[r].event)
OneOwner ==
  \A r, s \in Requests : Owns(r) /\ Owns(s) /\ request[r].event = request[s].event => r = s

LockedIsActive == \A r \in Requests : job[r].owner # None => job[r].state = "active"

QueueInv == Delivered /\ JobsAnswered /\ OwnedIsRecorded /\ OneOwner /\ LockedIsActive

LEMMA QueueInvInit == Init => QueueInv
BY DEF Init, QueueInv, Delivered, JobsAnswered, OwnedIsRecorded, OneOwner, LockedIsActive, Owns, At, HasJob

\* What a step that leaves the deliveries alone may do to nodes and jobs.
LEMMA QueueInvFrame ==
  ASSUME QueueInv, UNCHANGED request,
         \A e \in Events : Recorded(e) => Recorded(e)',
         \A r \in Requests : HasJob(r)' => HasJob(r),
         LockedIsActive'
  PROVE  QueueInv'
<1>1. Delivered' /\ JobsAnswered'
  BY DEF QueueInv, Delivered, JobsAnswered, At
<1>2. \A r \in Requests : Owns(r)' => Owns(r) /\ request[r].event \in Events
  BY DEF QueueInv, Delivered, JobsAnswered, Owns, At
<1>3. OwnedIsRecorded' /\ OneOwner'
  BY <1>2 DEF QueueInv, OwnedIsRecorded, OneOwner
<1> QED BY <1>1, <1>3 DEF QueueInv

\* How a delivery moves.
LEMMA Moved ==
  ASSUME TypeOK, NEW r \in Requests, NEW to \in RequestSteps,
         Step(r, to) \/ (to = "replied" /\ \E a \in Replies : Reply(r, a))
  PROVE  /\ \A s \in Requests : request'[s].event = request[s].event
         /\ \A s \in Requests : request'[s].pc = IF s = r THEN to ELSE request[s].pc
<1> USE DEF TypeOK, Deliveries
<1>1. CASE Step(r, to)
  BY <1>1 DEF Step
<1>2. ASSUME to = "replied", NEW a \in Replies, Reply(r, a)
      PROVE  /\ \A s \in Requests : request'[s].event = request[s].event
             /\ \A s \in Requests : request'[s].pc = IF s = r THEN to ELSE request[s].pc
  <2>1. request[r] \in Deliveries /\ DOMAIN request = Requests
    OBVIOUS
  <2> QED BY <1>2, <2>1 DEF Reply
<1> QED BY <1>1, <1>2

LEMMA QueueInvStep == TypeOK /\ QueueInv /\ [Next]_vars => QueueInv'
<1> SUFFICES ASSUME TypeOK, QueueInv, [Next]_vars PROVE QueueInv'
  OBVIOUS
<1> USE DEF QueueInv
<1>1. ASSUME NEW r \in Requests, NEW e \in Events, Deliver(r, e) PROVE QueueInv'
  BY <1>1 DEF Deliver, TypeOK, Delivered, JobsAnswered, OwnedIsRecorded, OneOwner, LockedIsActive, Owns, At, HasJob, Recorded
<1>2. ASSUME NEW r \in Requests, Find(r) \/ RequestFails(r) PROVE QueueInv'
  <2>1. PICK to \in {"replied", "create"} : Step(r, to) \/ (to = "replied" /\ \E a \in Replies : Reply(r, a))
    BY <1>2 DEF Find, RequestFails, Replies
  <2>2. /\ \A s \in Requests : request'[s].event = request[s].event
        /\ \A s \in Requests : request'[s].pc = IF s = r THEN to ELSE request[s].pc
    BY <2>1, Moved DEF RequestSteps
  <2>3. ~At(r, "unsent") /\ ~At(r, "replied") /\ UNCHANGED <<record, job>>
    BY <1>2 DEF Find, RequestFails, At
  <2> QED BY <2>2, <2>3 DEF Delivered, JobsAnswered, OwnedIsRecorded, OneOwner, LockedIsActive, Owns, At, HasJob, Recorded
<1>3. ASSUME NEW r \in Requests, Create(r) \/ CreateUnacked(r) PROVE QueueInv'
  <2>1. At(r, "create") /\ UNCHANGED job /\ request[r].event \in Events
    BY <1>3 DEF Create, CreateUnacked, Delivered, At
  <2>2. CASE Recorded(request[r].event)
    <3>1. Reply(r, "error") /\ UNCHANGED record
      BY <1>3, <2>2 DEF Create, CreateUnacked
    <3>2. /\ \A s \in Requests : request'[s].event = request[s].event
          /\ \A s \in Requests : request'[s].pc = IF s = r THEN "replied" ELSE request[s].pc
      BY <3>1, Moved DEF RequestSteps, Replies
    <3> QED BY <2>1, <3>1, <3>2 DEF Delivered, JobsAnswered, OwnedIsRecorded, OneOwner, LockedIsActive, Owns, At, HasJob, Recorded
  <2>3. CASE ~Recorded(request[r].event)
    <3>1. PICK to \in {"replied", "add"} : Step(r, to) \/ (to = "replied" /\ \E a \in Replies : Reply(r, a))
      BY <1>3, <2>3 DEF Create, CreateUnacked, Replies
    <3>2. /\ \A s \in Requests : request'[s].event = request[s].event
          /\ \A s \in Requests : request'[s].pc = IF s = r THEN to ELSE request[s].pc
      BY <3>1, Moved DEF RequestSteps
    <3>3. \A e \in Events : Recorded(e)' <=> Recorded(e) \/ e = request[r].event
      BY <1>3, <2>1, <2>3 DEF Create, CreateUnacked, NewRecord, Recorded, TypeOK
    <3>4. \A s \in Requests : Owns(s) => request[s].event # request[r].event
      BY <2>3 DEF OwnedIsRecorded
    <3>5. \A s \in Requests : Owns(s)' => Owns(s) \/ s = r
      BY <2>1, <3>2 DEF Owns, At, HasJob
    <3>6. Delivered' /\ JobsAnswered'
      BY <2>1, <3>2 DEF Delivered, JobsAnswered, At, HasJob
    <3>7. OwnedIsRecorded'
      <4> SUFFICES ASSUME NEW s \in Requests, Owns(s)' PROVE Recorded(request[s].event)'
        BY DEF OwnedIsRecorded
      <4>1. Recorded(request[s].event) \/ s = r
        BY <3>5 DEF OwnedIsRecorded
      <4>2. request[s].event \in Events
        BY <2>1, <3>5 DEF Delivered, JobsAnswered, Owns, At
      <4>3. request'[s].event = request[s].event
        BY <3>2
      <4> QED BY <3>3, <4>1, <4>2, <4>3 DEF Recorded
    <3>8. OneOwner'
      BY <3>2, <3>4, <3>5 DEF OneOwner
    <3> QED BY <2>1, <3>6, <3>7, <3>8 DEF LockedIsActive
  <2> QED BY <2>2, <2>3
<1>4. ASSUME NEW r \in Requests, Add(r) \/ AddUnacked(r) PROVE QueueInv'
  <2>1. At(r, "add") /\ AddJob(r) /\ UNCHANGED record /\ \E a \in Replies : Reply(r, a)
    BY <1>4 DEF Add, AddUnacked, Replies
  <2>2. /\ \A s \in Requests : request'[s].event = request[s].event
        /\ \A s \in Requests : request'[s].pc = IF s = r THEN "replied" ELSE request[s].pc
    BY <2>1, Moved DEF RequestSteps
  <2>3. \A s \in Requests : HasJob(s)' => HasJob(s) \/ s = r
    BY <2>1 DEF AddJob, HasJob, TypeOK
  <2>4. \A s \in Requests : Owns(s)' => Owns(s)
    BY <2>1, <2>2, <2>3 DEF Owns, At
  <2>5. LockedIsActive'
    <3>1. \A s \in Requests : job[s].owner # None => s # r
      BY <2>1 DEF LockedIsActive, JobsAnswered, HasJob, At
    <3> QED BY <2>1, <3>1 DEF LockedIsActive, AddJob, TypeOK, Jobs
  <2> QED BY <2>1, <2>2, <2>3, <2>4, <2>5 DEF Delivered, JobsAnswered, OwnedIsRecorded, OneOwner, At, Recorded
<1>5. CASE ApiCrash
  BY <1>5 DEF ApiCrash, TypeOK, Delivered, JobsAnswered, OwnedIsRecorded, OneOwner, LockedIsActive, Owns, At, HasJob, Recorded
<1>6. ASSUME NEW r \in Requests, Stalled(r) PROVE QueueInv'
  <2>1. LockedIsActive'
    BY <1>6 DEF Stalled, LockedIsActive, TypeOK
  <2> QED BY <1>6, <2>1, QueueInvFrame DEF Stalled, TypeOK, HasJob, Recorded
<1>7. ASSUME NEW w \in Workers, NEW r \in Requests, Take(w, r) PROVE QueueInv'
  <2>1. LockedIsActive'
    BY <1>7 DEF Take, LockedIsActive, TypeOK, Jobs
  <2> QED BY <1>7, <2>1, QueueInvFrame DEF Take, TypeOK, HasJob, Recorded
<1>8. ASSUME NEW w \in Workers, WorkerStep(w) \/ WorkerFault(w) PROVE QueueInv'
  <2> USE DEF WorkerStep, WorkerFault, Mark, Handle, HandleThrows, Complete, Fail, Return, Throw, MarkFails, CompleteFails, FailFails, LoseLock
  <2>1. UNCHANGED request
    BY <1>8
  <2>2. \A e \in Events : Recorded(e) => Recorded(e)'
    <3>1. CASE UNCHANGED record
      BY <3>1 DEF Recorded
    <3>2. ASSUME NEW s \in Statuses \ {"none"}, SetStatus(w, s) PROVE \A e \in Events : Recorded(e) => Recorded(e)'
      BY <3>2 DEF SetStatus, Recorded, TypeOK, Nodes
    <3>3. ASSUME NEW n \in Nat, SetFailed(w, n) PROVE \A e \in Events : Recorded(e) => Recorded(e)'
      BY <3>3 DEF SetFailed, Recorded, TypeOK
    <3> QED BY <1>8, <3>1, <3>2, <3>3 DEF Statuses
  <2>3. LockedIsActive' /\ \A r \in Requests : HasJob(r)' => HasJob(r)
    <3>1. CASE UNCHANGED job
      BY <3>1 DEF HasJob, LockedIsActive
    <3>2. CASE LoseLock(w)
      BY <3>2 DEF HasJob, LockedIsActive, TypeOK, Jobs
    <3>3. CASE Holds(w) /\ (Throw(w) \/ Return(w))
      <4> DEFINE q == worker[w].job
      <4>1. CASE q \in Requests
        <5>1. job[q].state = "active"
          BY <3>3, <4>1, NoneAssumption DEF Holds, LockedIsActive
        <5>2. /\ \A r \in Requests \ {q} : job'[r] = job[r]
              /\ job'[q].owner = None
          BY <3>3, <4>1 DEF Settle, TypeOK, Jobs
        <5> QED BY <4>1, <5>1, <5>2 DEF HasJob, LockedIsActive
      <4>2. CASE q \notin Requests
        BY <3>3, <4>2 DEF Settle, TypeOK, HasJob, LockedIsActive
      <4> QED BY <4>1, <4>2
    <3> QED BY <1>8, <3>1, <3>2, <3>3
  <2> QED BY <2>1, <2>2, <2>3, QueueInvFrame
<1>9. CASE WorkerCrash
  <2>1. LockedIsActive'
    BY <1>9 DEF WorkerCrash, LockedIsActive, TypeOK, Jobs
  <2> QED BY <1>9, <2>1, QueueInvFrame DEF WorkerCrash, TypeOK, Jobs, HasJob, Recorded
<1>10. CASE UNCHANGED vars
  <2>1. UNCHANGED <<request, record, job>>
    BY <1>10 DEF vars
  <2> QED BY <2>1, QueueInvFrame DEF HasJob, Recorded, LockedIsActive
<1> QED BY <1>1, <1>2, <1>3, <1>4, <1>5, <1>6, <1>7, <1>8, <1>9, <1>10 DEF Next, RequestStep, RequestFault

(* However many deliveries interleave, no event is ever queued twice. *)
THEOREM QueuedOnce == Spec => []OneJobPerEvent
<1>1. TypeOK /\ QueueInv => OneJobPerEvent
  BY DEF QueueInv, OneOwner, OneJobPerEvent, Owns
<1> QED BY <1>1, QueueInvInit, QueueInvStep, TypeCorrect, PTL DEF Spec
-----------------------------------------------------------------------------
(* What the slots have to do with the jobs.  A busy slot works on a job of  *)
(* the queue; the owner of a lock is at work on the job it locks; and as    *)
(* long as no lock expires under a live worker, every busy slot has its.    *)

Busy(w) == ~Runs(w, "idle")

BusyHasJob == \A w \in Workers : Busy(w) => worker[w].job \in Requests /\ HasJob(worker[w].job)
IdleHasNone == \A w \in Workers : Runs(w, "idle") => worker[w].job = None
OwnerAtWork == \A r \in Requests : job[r].owner # None => worker[job[r].owner].job = r
LocksKept == lockLosses = 0 => \A w \in Workers : Busy(w) => Holds(w)

SlotInv == BusyHasJob /\ IdleHasNone /\ OwnerAtWork /\ LocksKept

LEMMA SlotInvInit == Init => SlotInv
BY DEF Init, SlotInv, BusyHasJob, IdleHasNone, OwnerAtWork, LocksKept, Busy, Runs

\* A slot moves from one step of process() to the next.
GoesOn(w) == \E to \in WorkerSteps \ {"idle"} : Goto(w, to)

\* The steps of process() that leave the queue alone.
InProcess(w) ==
  \/ Mark(w) \/ MarkFails(w) \/ Handle(w) \/ HandleThrows(w)
  \/ Complete(w) \/ CompleteFails(w) \/ Fail(w) \/ FailFails(w)

LEMMA InProcessMoves ==
  ASSUME NEW w, InProcess(w)
  PROVE  Busy(w) /\ GoesOn(w) /\ UNCHANGED <<request, job, crashes, lockLosses>>
BY DEF InProcess, Mark, MarkFails, Handle, HandleThrows, Complete, CompleteFails, Fail, FailFails,
       Busy, Runs, GoesOn, WorkerSteps, Fault, budget

LEMMA WentOn ==
  ASSUME TypeOK, NEW w \in Workers, GoesOn(w)
  PROVE  /\ \A v \in Workers : worker'[v].job = worker[v].job
         /\ \A v \in Workers \ {w} : worker'[v] = worker[v]
         /\ worker'[w].pc # "idle"
BY DEF TypeOK, Slots, GoesOn, Goto, WorkerSteps

\* What a slot that has returned or thrown leaves behind.
LEMMA Freed ==
  ASSUME TypeOK, NEW w \in Workers, Return(w) \/ Throw(w)
  PROVE  /\ UNCHANGED <<record, request, handled, budget>> /\ Busy(w)
         /\ worker'[w] = [pc |-> "idle", job |-> None]
         /\ \A v \in Workers \ {w} : worker'[v] = worker[v]
         /\ ~Holds(w) => UNCHANGED job
         /\ \A r \in Requests \ {worker[w].job} : job'[r] = job[r]
         /\ Holds(w) /\ worker[w].job \in Requests => job'[worker[w].job].owner = None
         /\ Holds(w) => \A r \in Requests : HasJob(r) => HasJob(r)'
<1>1. CASE Return(w)
  BY <1>1 DEF Return, Free, Settle, Busy, Runs, TypeOK, Jobs, HasJob
<1>2. CASE Throw(w)
  BY <1>2 DEF Throw, Free, Busy, Runs, TypeOK, Jobs, HasJob
<1> QED BY <1>1, <1>2

LEMMA SlotInvStep == TypeOK /\ QueueInv /\ SlotInv /\ [Next]_vars => SlotInv'
<1> SUFFICES ASSUME TypeOK, QueueInv, SlotInv, [Next]_vars PROVE SlotInv'
  OBVIOUS
<1> USE DEF SlotInv
<1>1. CASE UNCHANGED <<job, worker, lockLosses>>
  BY <1>1 DEF BusyHasJob, IdleHasNone, OwnerAtWork, LocksKept, Busy, Runs, HasJob, Holds
<1>2. ASSUME NEW r \in Requests, Add(r) \/ AddUnacked(r) PROVE SlotInv'
  <2>1. UNCHANGED <<worker, lockLosses>> /\ AddJob(r)
    BY <1>2 DEF Add, AddUnacked, Fault, budget
  <2>2. /\ \A s \in Requests : job'[s].owner = job[s].owner
        /\ \A s \in Requests : HasJob(s) => HasJob(s)'
    BY <2>1 DEF AddJob, TypeOK, Jobs, HasJob
  <2> QED BY <2>1, <2>2 DEF BusyHasJob, IdleHasNone, OwnerAtWork, LocksKept, Busy, Runs, Holds
<1>3. ASSUME NEW r \in Requests, Stalled(r) PROVE SlotInv'
  <2>1. UNCHANGED <<worker, lockLosses>> /\ job[r].owner = None
    BY <1>3 DEF Stalled, budget
  <2>2. /\ \A s \in Requests : job'[s].owner = job[s].owner
        /\ \A s \in Requests : HasJob(s) => HasJob(s)'
    BY <1>3 DEF Stalled, TypeOK, Jobs, HasJob
  <2> QED BY <2>1, <2>2 DEF BusyHasJob, IdleHasNone, OwnerAtWork, LocksKept, Busy, Runs, Holds
<1>4. ASSUME NEW w \in Workers, NEW r \in Requests, Take(w, r) PROVE SlotInv'
  <2>1. /\ UNCHANGED lockLosses /\ Runs(w, "idle") /\ job[r].state = "wait" /\ job[r].owner = None
        /\ worker'[w] = [pc |-> "mark", job |-> r]
        /\ \A v \in Workers \ {w} : worker'[v] = worker[v]
        /\ \A s \in Requests \ {r} : job'[s] = job[s]
        /\ job'[r].owner = w /\ job'[r].state = "active"
    BY <1>4 DEF Take, TypeOK, Jobs, budget, QueueInv, LockedIsActive
  <2>2. BusyHasJob' /\ IdleHasNone'
    BY <2>1 DEF BusyHasJob, IdleHasNone, Busy, Runs, HasJob
  <2>3. OwnerAtWork'
    <3> SUFFICES ASSUME NEW s \in Requests, job'[s].owner # None PROVE worker'[job'[s].owner].job = s
      BY DEF OwnerAtWork
    <3>1. CASE s # r
      <4>1. job'[s] = job[s] /\ job[s].owner \in Workers /\ worker[job[s].owner].job = s
        BY <2>1, <3>1 DEF OwnerAtWork, TypeOK, Jobs
      <4>2. job[s].owner # w
        BY <2>1, <4>1, NoneAssumption DEF IdleHasNone
      <4> QED BY <2>1, <4>1, <4>2
    <3> QED BY <2>1, <3>1
  <2>4. LocksKept'
    BY <2>1, NoneAssumption DEF LocksKept, BusyHasJob, Busy, Runs, Holds
  <2> QED BY <2>2, <2>3, <2>4
<1>5. ASSUME NEW w \in Workers, InProcess(w) PROVE SlotInv'
  <2>1. Busy(w) /\ UNCHANGED <<job, lockLosses>>
    BY <1>5, InProcessMoves
  <2>2. /\ \A v \in Workers : worker'[v].job = worker[v].job
        /\ \A v \in Workers : Busy(v)' <=> Busy(v)
    BY <1>5, <2>1, InProcessMoves, WentOn DEF Busy, Runs
  <2>3. BusyHasJob' /\ IdleHasNone'
    BY <2>1, <2>2 DEF BusyHasJob, IdleHasNone, Busy, HasJob
  <2>4. OwnerAtWork'
    <3>1. \A r \in Requests : job[r].owner # None => job[r].owner \in Workers
      BY DEF TypeOK, Jobs
    <3> QED BY <2>1, <2>2, <3>1 DEF OwnerAtWork
  <2>5. LocksKept'
    BY <2>1, <2>2 DEF LocksKept, Holds
  <2> QED BY <2>3, <2>4, <2>5
<1>6. ASSUME NEW w \in Workers, Return(w) \/ Throw(w) PROVE SlotInv'
  <2> DEFINE q == worker[w].job
  <2>1. /\ UNCHANGED lockLosses /\ Busy(w)
        /\ worker'[w] = [pc |-> "idle", job |-> None]
        /\ \A v \in Workers \ {w} : worker'[v] = worker[v]
        /\ ~Holds(w) => UNCHANGED job
        /\ \A r \in Requests \ {q} : job'[r] = job[r]
        /\ Holds(w) => job'[q].owner = None
        /\ Holds(w) => \A r \in Requests : HasJob(r) => HasJob(r)'
        /\ q \in Requests /\ HasJob(q)
    BY <1>6, Freed DEF budget, BusyHasJob
  <2> HIDE DEF q
  <2>2. BusyHasJob' /\ IdleHasNone'
    BY <2>1 DEF BusyHasJob, IdleHasNone, Busy, Runs, HasJob
  <2>3. OwnerAtWork'
    <3> SUFFICES ASSUME NEW r \in Requests, job'[r].owner # None PROVE worker'[job'[r].owner].job = r
      BY DEF OwnerAtWork
    <3>1. job'[r] = job[r] /\ job[r].owner \in Workers
      BY <2>1 DEF TypeOK, Jobs
    <3>2. job[r].owner # w
      BY <2>1, <3>1 DEF OwnerAtWork, Holds, q
    <3> QED BY <2>1, <3>1, <3>2 DEF OwnerAtWork
  <2>4. LocksKept'
    <3> SUFFICES ASSUME lockLosses' = 0, NEW v \in Workers, Busy(v)' PROVE Holds(v)'
      BY DEF LocksKept
    <3>1. v # w /\ Busy(v) /\ worker'[v] = worker[v] /\ lockLosses = 0
      BY <2>1 DEF Busy, Runs
    <3>2. Holds(v) /\ Holds(w) /\ worker[v].job \in Requests
      BY <2>1, <3>1 DEF LocksKept, BusyHasJob
    <3>3. worker[v].job # q
      BY <3>1, <3>2 DEF Holds, q
    <3> QED BY <2>1, <3>1, <3>2, <3>3 DEF Holds
  <2> QED BY <2>2, <2>3, <2>4
<1>7. ASSUME NEW w \in Workers, LoseLock(w) PROVE SlotInv'
  <2>1. UNCHANGED worker /\ lockLosses' # 0
    BY <1>7 DEF LoseLock, TypeOK
  <2>2. \A r \in Requests : HasJob(r) => HasJob(r)'
    BY <1>7 DEF LoseLock, TypeOK, Jobs, HasJob
  <2>3. \A r \in Requests : job'[r].owner \in {None, job[r].owner}
    BY <1>7 DEF LoseLock, TypeOK, Jobs
  <2> QED BY <2>1, <2>2, <2>3 DEF BusyHasJob, IdleHasNone, OwnerAtWork, LocksKept, Busy, Runs
<1>8. CASE WorkerCrash
  BY <1>8 DEF WorkerCrash, TypeOK, Jobs, BusyHasJob, IdleHasNone, OwnerAtWork, LocksKept, Busy, Runs
<1>9. ASSUME NEW r \in Requests, Find(r) \/ Create(r) \/ RequestFails(r) \/ CreateUnacked(r)
      PROVE UNCHANGED <<job, worker, lockLosses>>
  BY <1>9 DEF Find, Create, RequestFails, CreateUnacked, Fault, budget
<1>10. ASSUME (\E r \in Requests, e \in Events : Deliver(r, e)) \/ ApiCrash \/ UNCHANGED vars
       PROVE UNCHANGED <<job, worker, lockLosses>>
  BY <1>10 DEF Deliver, ApiCrash, vars, budget
<1> QED BY <1>1, <1>2, <1>3, <1>4, <1>5, <1>6, <1>7, <1>8, <1>9, <1>10
        DEF Next, RequestStep, RequestFault, WorkerStep, WorkerFault, InProcess

(* As long as no lock expires under a live worker, two slots never work on  *)
(* one event.                                                               *)
OneSlotPerEvent ==
  lockLosses = 0 =>
    \A v, w \in Workers : ~Runs(v, "idle") /\ ~Runs(w, "idle") /\ EventOf(v) = EventOf(w) => v = w

LEMMA LocksExclude == TypeOK /\ QueueInv /\ SlotInv => OneSlotPerEvent
<1> SUFFICES ASSUME QueueInv, SlotInv, lockLosses = 0, NEW v \in Workers, NEW w \in Workers,
                    Busy(v), Busy(w), EventOf(v) = EventOf(w)
             PROVE  v = w
  BY DEF OneSlotPerEvent, Busy
<1>1. worker[v].job = worker[w].job
  BY DEF SlotInv, BusyHasJob, QueueInv, OneOwner, Owns, EventOf
<1> QED BY <1>1 DEF SlotInv, LocksKept, Holds

-----------------------------------------------------------------------------
(* How often a handler may still run.  A job leaves the active state with   *)
(* an attempt made, a stalled recovery counted or for good, so the times it *)
(* was taken are read off its counters; a slot owes one run from the moment *)
(* it takes the job until it has called the handler.                        *)

Taken(r) == job[r].made + job[r].stalls + IF job[r].state \in {"active", "completed"} THEN 1 ELSE 0
Due(r) == {w \in Workers : worker[w].job = r /\ worker[w].pc \in {"mark", "handle"}}

TriesLeft ==
  \A r \in Requests :
    /\ job[r].state = "none" => job[r].made = 0 /\ job[r].stalls = 0
    /\ job[r].state # "failed" => job[r].made < Attempts /\ job[r].stalls <= MaxStalled
    /\ Taken(r) <= Attempts + MaxStalled
DueFinite == \A r \in Requests : IsFiniteSet(Due(r))
RunsCounted ==
  \A r \in Requests : HasJob(r) => handled[request[r].event] + Cardinality(Due(r)) <= Taken(r)
RunsQueued ==
  \A e \in Events : handled[e] > 0 => \E r \in Requests : HasJob(r) /\ request[r].event = e

CountInv == TriesLeft /\ DueFinite /\ RunsCounted /\ RunsQueued

LEMMA CountInvInit == Init => CountInv
<1> SUFFICES ASSUME Init PROVE CountInv
  OBVIOUS
<1>1. TriesLeft
  BY BoundsAssumption DEF Init, TriesLeft, Taken
<1>2. \A r \in Requests : Due(r) = {}
  BY DEF Init, Due
<1>3. DueFinite
  BY <1>2, FS_EmptySet DEF DueFinite
<1>4. RunsCounted /\ RunsQueued
  BY DEF Init, RunsCounted, RunsQueued, HasJob
<1> QED BY <1>1, <1>3, <1>4 DEF CountInv

\* A step that neither takes a job nor calls a handler: no slot comes to owe a
\* run, and a job loses none of the times it was taken.
LEMMA CountInvFrame ==
  ASSUME TypeOK, TypeOK', CountInv, UNCHANGED handled, TriesLeft',
         \A r \in Requests : Due(r)' \subseteq Due(r),
         \A r \in Requests : HasJob(r) => Taken(r) <= Taken(r)' /\ request'[r].event = request[r].event,
         \A r \in Requests : HasJob(r) => HasJob(r)',
         \A r \in Requests : HasJob(r)' /\ ~HasJob(r) => Due(r)' = {} /\ handled[request'[r].event] = 0,
         Delivered', JobsAnswered'
  PROVE  CountInv'
<1>1. \A r \in Requests : IsFiniteSet(Due(r)') /\ Cardinality(Due(r)') <= Cardinality(Due(r))
  BY FS_Subset DEF CountInv, DueFinite
<1>2. \A r \in Requests : Cardinality(Due(r)) \in Nat /\ Cardinality(Due(r)') \in Nat
  BY <1>1, FS_CardinalityType DEF CountInv, DueFinite
<1>3. RunsCounted'
  <2> SUFFICES ASSUME NEW r \in Requests, HasJob(r)' PROVE handled'[request'[r].event] + Cardinality(Due(r)') <= Taken(r)'
    BY DEF RunsCounted
  <2>1. request'[r].event \in Events
    BY DEF Delivered, JobsAnswered, At
  <2>2. handled[request'[r].event] \in Nat /\ Taken(r)' \in Nat
    BY <2>1 DEF TypeOK, Taken, Jobs
  <2>3. CASE HasJob(r)
    <3>1. /\ handled[request[r].event] + Cardinality(Due(r)) <= Taken(r)
          /\ Taken(r) <= Taken(r)' /\ request'[r].event = request[r].event
      BY <2>3 DEF CountInv, RunsCounted
    <3>2. Taken(r) \in Nat
      BY DEF TypeOK, Taken, Jobs
    <3> HIDE DEF Taken, Due
    <3> QED BY <1>1, <1>2, <2>2, <3>1, <3>2
  <2>4. CASE ~HasJob(r)
    <3>1. Cardinality(Due(r)') = 0 /\ handled[request'[r].event] = 0
      BY <2>4, FS_EmptySet
    <3> QED BY <2>2, <3>1
  <2> QED BY <2>3, <2>4
<1>4. RunsQueued'
  BY DEF CountInv, RunsQueued
<1> QED BY <1>1, <1>3, <1>4 DEF CountInv, DueFinite

\* A step that also leaves the counters of every job alone.
LEMMA CountInvQuiet ==
  ASSUME TypeOK, TypeOK', CountInv, UNCHANGED <<handled, job>>,
         \A r \in Requests : Due(r)' \subseteq Due(r),
         \A r \in Requests : HasJob(r) => request'[r].event = request[r].event,
         Delivered', JobsAnswered'
  PROVE  CountInv'
<1>1. TriesLeft'
  BY DEF CountInv, TriesLeft, Taken
<1>2. \A r \in Requests : Taken(r)' = Taken(r) /\ Taken(r) \in Nat /\ (HasJob(r)' <=> HasJob(r))
  BY DEF Taken, HasJob, TypeOK, Jobs
<1> QED BY <1>1, <1>2, CountInvFrame

\* What a step of one slot does to what the slots owe.
LEMMA DueOfOthers ==
  ASSUME TypeOK, NEW w \in Workers,
         \A v \in Workers \ {w} : worker'[v] = worker[v],
         worker'[w].pc \notin {"mark", "handle"}
  PROVE  \A r \in Requests : Due(r)' = Due(r) \ {w}
BY DEF Due

\* Jobs leave the active state one way or another.
LEMMA TakenKept ==
  ASSUME TypeOK, CountInv, NEW q \in Requests, job[q].state = "active",
         \A r \in Requests \ {q} : job'[r] = job[r],
         \/ job'[q].state = "completed" /\ job'[q].made = job[q].made /\ job'[q].stalls = job[q].stalls
         \/ /\ job'[q].made = job[q].made + 1 /\ job'[q].stalls = job[q].stalls
            /\ job'[q].state = IF job[q].made + 1 < Attempts THEN "wait" ELSE "failed"
         \/ /\ job'[q].made = job[q].made /\ job'[q].stalls = job[q].stalls + 1
            /\ job'[q].state = IF job[q].stalls < MaxStalled THEN "wait" ELSE "failed"
  PROVE  /\ TriesLeft'
         /\ \A r \in Requests : Taken(r)' = Taken(r)
         /\ \A r \in Requests : HasJob(r)' <=> HasJob(r)
<1>1. job[q].made \in Nat /\ job[q].stalls \in Nat /\ Attempts \in Nat /\ MaxStalled \in Nat
  BY BoundsAssumption DEF TypeOK, Jobs
<1>2. job[q].made < Attempts /\ job[q].stalls <= MaxStalled /\ job[q].made + job[q].stalls + 1 <= Attempts + MaxStalled
  BY DEF CountInv, TriesLeft, Taken
<1>3. job'[q].state \in {"completed", "wait", "failed"}
  OBVIOUS
<1>4. Taken(q)' = Taken(q) /\ HasJob(q) /\ HasJob(q)'
  BY <1>1, <1>3 DEF Taken, HasJob
<1>5. /\ job'[q].state # "none"
      /\ job'[q].state # "failed" => job'[q].made < Attempts /\ job'[q].stalls <= MaxStalled
  BY <1>1, <1>2
<1>6. \A r \in Requests \ {q} : Taken(r)' = Taken(r) /\ (HasJob(r)' <=> HasJob(r))
  BY DEF Taken, HasJob
<1>7. \A r \in Requests : Taken(r)' = Taken(r)
  BY <1>4, <1>6
<1>8. TriesLeft'
  <2> SUFFICES ASSUME NEW r \in Requests
               PROVE  /\ job'[r].state = "none" => job'[r].made = 0 /\ job'[r].stalls = 0
                      /\ job'[r].state # "failed" => job'[r].made < Attempts /\ job'[r].stalls <= MaxStalled
                      /\ Taken(r)' <= Attempts + MaxStalled
    BY DEF TriesLeft
  <2>1. Taken(r)' <= Attempts + MaxStalled
    BY <1>7 DEF CountInv, TriesLeft
  <2>2. CASE r # q
    BY <2>1, <2>2 DEF CountInv, TriesLeft
  <2> QED BY <1>5, <2>1, <2>2
<1> QED BY <1>4, <1>6, <1>7, <1>8

LEMMA CountInvStep ==
  TypeOK /\ TypeOK' /\ QueueInv /\ QueueInv' /\ SlotInv /\ CountInv /\ [Next]_vars => CountInv'
<1> SUFFICES ASSUME TypeOK, TypeOK', QueueInv, QueueInv', SlotInv, CountInv, [Next]_vars PROVE CountInv'
  OBVIOUS
<1>q. Delivered' /\ JobsAnswered'
  BY DEF QueueInv
<1>1. ASSUME UNCHANGED <<handled, job, worker>>,
             \A r \in Requests : ~At(r, "unsent") => request'[r].event = request[r].event
      PROVE  CountInv'
  <2>1. \A r \in Requests : HasJob(r) => request'[r].event = request[r].event
    BY <1>1 DEF QueueInv, JobsAnswered, At
  <2>2. \A r \in Requests : Due(r)' = Due(r)
    BY <1>1 DEF Due
  <2> QED BY <1>1, <1>q, <2>1, <2>2, CountInvQuiet
<1>2. ASSUME NEW r \in Requests, Add(r) \/ AddUnacked(r) PROVE CountInv'
  <2>1. At(r, "add") /\ AddJob(r) /\ UNCHANGED <<handled, worker>> /\ \E a \in Replies : Reply(r, a)
    BY <1>2 DEF Add, AddUnacked, Replies
  <2>2. \A s \in Requests : request'[s].event = request[s].event
    BY <2>1, Moved DEF RequestSteps
  <2>3. job[r].state = "none" /\ request[r].event \in Events
    BY <2>1 DEF QueueInv, JobsAnswered, HasJob, Delivered, At
  <2>4. /\ \A s \in Requests \ {r} : job'[s] = job[s]
        /\ job'[r].state = "wait" /\ job'[r].made = job[r].made /\ job'[r].stalls = job[r].stalls
    BY <2>1 DEF AddJob, TypeOK, Jobs
  <2>5. job[r].made = 0 /\ job[r].stalls = 0
    BY <2>3 DEF CountInv, TriesLeft
  <2>6. \A s \in Requests : Due(s)' = Due(s)
    BY <2>1 DEF Due
  <2>7. Due(r) = {}
    BY <2>3, NoneAssumption DEF Due, SlotInv, BusyHasJob, Busy, Runs, HasJob
  <2>8. handled[request[r].event] = 0
    <3>1. \A s \in Requests : HasJob(s) => request[s].event # request[r].event
      BY <2>1, <2>3 DEF QueueInv, OneOwner, Owns, HasJob
    <3>2. handled[request[r].event] \in Nat
      BY <2>3 DEF TypeOK
    <3> QED BY <2>3, <3>1, <3>2 DEF CountInv, RunsQueued
  <2>9. \A s \in Requests : Taken(s)' = Taken(s) /\ Taken(s) \in Nat
    BY <2>3, <2>4 DEF Taken, TypeOK, Jobs
  <2>10. TriesLeft'
    <3>1. Taken(r)' <= Attempts + MaxStalled /\ job'[r].made < Attempts /\ job'[r].stalls <= MaxStalled
      BY <2>4, <2>5, <2>9, BoundsAssumption DEF CountInv, TriesLeft
    <3> QED BY <2>4, <2>9, <3>1 DEF CountInv, TriesLeft
  <2>11. \A s \in Requests : HasJob(s)' <=> HasJob(s) \/ s = r
    BY <2>4 DEF HasJob
  <2>12. \A s \in Requests : HasJob(s) => Taken(s) <= Taken(s)' /\ request'[s].event = request[s].event
    BY <2>2, <2>9
  <2>13. \A s \in Requests : HasJob(s)' /\ ~HasJob(s) => Due(s)' = {} /\ handled[request'[s].event] = 0
    BY <2>2, <2>6, <2>7, <2>8, <2>11
  <2> HIDE DEF Taken, Due
  <2> QED BY <1>q, <2>1, <2>6, <2>10, <2>11, <2>12, <2>13, CountInvFrame
<1>3. ASSUME NEW r \in Requests, Stalled(r) PROVE CountInv'
  <2>1. /\ UNCHANGED <<handled, worker, request>> /\ job[r].state = "active"
        /\ \A s \in Requests \ {r} : job'[s] = job[s]
        /\ job'[r].made = job[r].made /\ job'[r].stalls = job[r].stalls + 1
        /\ job'[r].state = IF job[r].stalls < MaxStalled THEN "wait" ELSE "failed"
    BY <1>3 DEF Stalled, TypeOK, Jobs
  <2>2. /\ TriesLeft'
        /\ \A s \in Requests : Taken(s)' = Taken(s)
        /\ \A s \in Requests : HasJob(s)' <=> HasJob(s)
    BY <2>1, TakenKept
  <2>3. \A s \in Requests : Due(s)' = Due(s) /\ Taken(s) \in Nat
    BY <2>1 DEF Due, Taken, TypeOK, Jobs
  <2> HIDE DEF Taken, Due
  <2> QED BY <1>q, <2>1, <2>2, <2>3, CountInvFrame
<1>4. ASSUME NEW w \in Workers, NEW r \in Requests, Take(w, r) PROVE CountInv'
  <2>1. /\ UNCHANGED <<handled, request>> /\ Runs(w, "idle") /\ job[r].state = "wait"
        /\ worker'[w] = [pc |-> "mark", job |-> r]
        /\ \A v \in Workers \ {w} : worker'[v] = worker[v]
        /\ \A s \in Requests \ {r} : job'[s] = job[s]
        /\ job'[r].state = "active" /\ job'[r].made = job[r].made /\ job'[r].stalls = job[r].stalls
    BY <1>4 DEF Take, TypeOK, Jobs
  <2>2. /\ \A s \in Requests \ {r} : Due(s)' = Due(s)
        /\ Due(r)' = Due(r) \cup {w}
    BY <2>1 DEF Due, Runs
  <2>3. /\ IsFiniteSet(Due(r)') /\ Cardinality(Due(r)) \in Nat
        /\ Cardinality(Due(r)') \in Nat /\ Cardinality(Due(r)') <= Cardinality(Due(r)) + 1
    <3>1. IsFiniteSet(Due(r))
      BY DEF CountInv, DueFinite
    <3>2. Cardinality(Due(r)) \in Nat
      BY <3>1, FS_CardinalityType
    <3>3. /\ IsFiniteSet(Due(r) \cup {w})
          /\ Cardinality(Due(r) \cup {w}) = IF w \in Due(r) THEN Cardinality(Due(r)) ELSE Cardinality(Due(r)) + 1
      BY <3>1, FS_AddElement
    <3> HIDE DEF Due
    <3> QED BY <2>2, <3>2, <3>3
  <2>4. job[r].made \in Nat /\ job[r].stalls \in Nat
    BY DEF TypeOK, Jobs
  <2>5. /\ \A s \in Requests \ {r} : Taken(s)' = Taken(s)
        /\ Taken(r)' = Taken(r) + 1 /\ Taken(r) \in Nat
        /\ Taken(r)' <= Attempts + MaxStalled
    <3>1. job[r].made < Attempts /\ job[r].stalls <= MaxStalled
      BY <2>1 DEF CountInv, TriesLeft
    <3> QED BY <2>1, <2>4, <3>1, BoundsAssumption DEF Taken
  <2>6. \A s \in Requests : HasJob(s)' <=> HasJob(s)
    BY <2>1 DEF HasJob
  <2>7. TriesLeft'
    BY <2>1, <2>5 DEF CountInv, TriesLeft
  <2>8. DueFinite'
    BY <2>2, <2>3 DEF CountInv, DueFinite
  <2>9. RunsCounted'
    <3> SUFFICES ASSUME NEW s \in Requests, HasJob(s)' PROVE handled[request[s].event] + Cardinality(Due(s)') <= Taken(s)'
      BY <2>1 DEF RunsCounted
    <3>1. handled[request[s].event] + Cardinality(Due(s)) <= Taken(s)
      BY <2>6 DEF CountInv, RunsCounted
    <3>2. handled[request[s].event] \in Nat
      BY <2>6 DEF TypeOK, QueueInv, JobsAnswered, Delivered, At
    <3> HIDE DEF Taken, Due
    <3>3. CASE s = r
      BY <2>3, <2>5, <3>1, <3>2, <3>3
    <3>4. CASE s # r
      BY <2>2, <2>5, <3>1, <3>4
    <3> QED BY <3>3, <3>4
  <2>10. RunsQueued'
    BY <2>1, <2>6 DEF CountInv, RunsQueued
  <2> QED BY <2>7, <2>8, <2>9, <2>10 DEF CountInv
<1>5. ASSUME NEW w \in Workers, Handle(w) \/ HandleThrows(w), RunHandler(w) PROVE CountInv'
  <2>1. Runs(w, "handle") /\ UNCHANGED <<request, job>> /\ GoesOn(w)
    BY <1>5 DEF Handle, HandleThrows, GoesOn, WorkerSteps
  <2>q. PICK q \in Requests : worker[w].job = q
    BY <2>1 DEF SlotInv, BusyHasJob, Busy, Runs
  <2>2. HasJob(q) /\ request[q].event \in Events
    BY <2>1, <2>q DEF SlotInv, BusyHasJob, Busy, Runs, QueueInv, JobsAnswered, Delivered, At
  <2>3. /\ \A v \in Workers : worker'[v].job = worker[v].job
        /\ \A v \in Workers \ {w} : worker'[v] = worker[v]
        /\ worker'[w].pc \notin {"mark", "handle"}
    BY <1>5, <2>1, WentOn DEF Handle, HandleThrows, Goto, TypeOK, Slots
  <2>4. \A r \in Requests : Due(r)' = Due(r) \ {w}
    BY <2>3, DueOfOthers
  <2>5. w \in Due(q)
    BY <2>1, <2>q DEF Due, Runs
  <2>6. \A r \in Requests : /\ IsFiniteSet(Due(r)') /\ Cardinality(Due(r)') <= Cardinality(Due(r))
                            /\ Cardinality(Due(r)) \in Nat /\ Cardinality(Due(r)') \in Nat
    BY <2>4, FS_Subset, FS_CardinalityType DEF CountInv, DueFinite
  <2>7. Cardinality(Due(q)') = Cardinality(Due(q)) - 1
    <3>1. IsFiniteSet(Due(q))
      BY <2>2 DEF CountInv, DueFinite
    <3>2. Cardinality(Due(q) \ {w}) = Cardinality(Due(q)) - 1
      <4> HIDE DEF Due
      <4> QED BY <2>5, <3>1, FS_RemoveElement
    <3> QED BY <2>2, <2>4, <3>2
  <2>8. /\ handled'[request[q].event] = handled[request[q].event] + 1
        /\ \A e \in Events \ {request[q].event} : handled'[e] = handled[e]
    BY <1>5, <2>2, <2>q DEF RunHandler, EventOf, TypeOK
  <2>9. \A r \in Requests : Taken(r)' = Taken(r) /\ Taken(r) \in Nat /\ (HasJob(r)' <=> HasJob(r))
    BY <2>1 DEF Taken, HasJob, TypeOK, Jobs
  <2>10. TriesLeft'
    BY <2>1 DEF CountInv, TriesLeft, Taken
  <2>11. DueFinite'
    BY <2>6 DEF DueFinite
  <2>12. RunsCounted'
    <3> SUFFICES ASSUME NEW r \in Requests, HasJob(r) PROVE handled'[request[r].event] + Cardinality(Due(r)') <= Taken(r)
      BY <2>1, <2>9 DEF RunsCounted
    <3>1. handled[request[r].event] + Cardinality(Due(r)) <= Taken(r)
      BY DEF CountInv, RunsCounted
    <3>2. request[r].event \in Events /\ handled[request[r].event] \in Nat
      BY DEF TypeOK, QueueInv, JobsAnswered, Delivered, At
    <3>3. CASE r = q
      <4>1. Cardinality(Due(q)) \in Nat /\ Cardinality(Due(q)') = Cardinality(Due(q)) - 1 /\ Taken(q) \in Nat
        BY <2>2, <2>6, <2>7, <2>9
      <4>2. /\ handled[request[q].event] + Cardinality(Due(q)) <= Taken(q) /\ handled[request[q].event] \in Nat
            /\ handled'[request[q].event] = handled[request[q].event] + 1
        BY <2>8, <3>1, <3>2, <3>3
      <4>3. ASSUME NEW h \in Nat, NEW c \in Nat, NEW t \in Nat, h + c <= t PROVE (h + 1) + (c - 1) <= t
        BY <4>3
      <4>4. (handled[request[q].event] + 1) + (Cardinality(Due(q)) - 1) <= Taken(q)
        BY <4>1, <4>2, <4>3
      <4> HIDE DEF Taken, Due
      <4> QED BY <3>3, <4>1, <4>2, <4>4
    <3>4. CASE r # q
      <4>1. request[r].event # request[q].event
        BY <2>2, <3>4 DEF QueueInv, OneOwner, Owns
      <4> HIDE DEF Taken, Due
      <4> QED BY <2>6, <2>8, <2>9, <3>1, <3>2, <4>1
    <3> QED BY <3>3, <3>4
  <2>13. RunsQueued'
    BY <2>1, <2>2, <2>8, <2>9 DEF CountInv, RunsQueued
  <2> QED BY <2>10, <2>11, <2>12, <2>13 DEF CountInv
<1>6. ASSUME NEW w \in Workers, InProcess(w), UNCHANGED handled PROVE CountInv'
  <2>1. UNCHANGED <<request, job>> /\ GoesOn(w)
    BY <1>6, InProcessMoves
  <2>2. worker'[w].pc \in {"mark", "handle"} => worker[w].pc \in {"mark", "handle"}
    BY <1>6 DEF InProcess, Mark, MarkFails, Handle, HandleThrows, Complete, CompleteFails, Fail, FailFails, Goto, Runs, TypeOK, Slots
  <2>3. \A r \in Requests : Due(r)' \subseteq Due(r)
    BY <2>1, <2>2, WentOn DEF Due
  <2> QED BY <1>6, <1>q, <2>1, <2>3, CountInvQuiet
<1>7. ASSUME NEW w \in Workers, Return(w) \/ Throw(w) PROVE CountInv'
  <2> DEFINE q == worker[w].job
  <2>1. /\ UNCHANGED <<request, handled>> /\ Busy(w)
        /\ worker'[w] = [pc |-> "idle", job |-> None]
        /\ \A v \in Workers \ {w} : worker'[v] = worker[v]
        /\ ~Holds(w) => UNCHANGED job
        /\ \A r \in Requests \ {q} : job'[r] = job[r]
    BY <1>7, Freed
  <2>2. q \in Requests
    BY <2>1 DEF SlotInv, BusyHasJob
  <2>3. \A r \in Requests : Due(r)' \subseteq Due(r)
    BY <2>1, DueOfOthers
  <2>4. CASE ~Holds(w)
    BY <1>q, <2>1, <2>3, <2>4, CountInvQuiet
  <2>5. CASE Holds(w)
    <3>1. job[q].state = "active"
      BY <2>2, <2>5, NoneAssumption DEF Holds, QueueInv, LockedIsActive
    <3>2. \/ job'[q].state = "completed" /\ job'[q].made = job[q].made /\ job'[q].stalls = job[q].stalls
          \/ /\ job'[q].made = job[q].made + 1 /\ job'[q].stalls = job[q].stalls
             /\ job'[q].state = IF job[q].made + 1 < Attempts THEN "wait" ELSE "failed"
      BY <1>7, <2>2, <2>5 DEF Return, Throw, Settle, TypeOK, Jobs
    <3>3. /\ TriesLeft'
          /\ \A r \in Requests : Taken(r)' = Taken(r)
          /\ \A r \in Requests : HasJob(r)' <=> HasJob(r)
      BY <2>1, <2>2, <3>1, <3>2, TakenKept
    <3>4. \A r \in Requests : Taken(r) \in Nat
      BY DEF Taken, TypeOK, Jobs
    <3> HIDE DEF Taken, Due
    <3> QED BY <1>q, <2>1, <2>3, <3>3, <3>4, CountInvFrame
  <2> QED BY <2>4, <2>5
<1>8. ASSUME (\E w \in Workers : LoseLock(w)) \/ WorkerCrash PROVE CountInv'
  <2>1. UNCHANGED <<request, handled>>
    BY <1>8 DEF LoseLock, WorkerCrash
  <2>2. \A r \in Requests : Due(r)' \subseteq Due(r)
    <3>1. CASE WorkerCrash
      BY <3>1 DEF WorkerCrash, Due
    <3>2. CASE UNCHANGED worker
      BY <3>2 DEF Due
    <3> QED BY <1>8, <3>1, <3>2 DEF LoseLock
  <2>3. \A r \in Requests : /\ job'[r].state = job[r].state
                            /\ job'[r].made = job[r].made /\ job'[r].stalls = job[r].stalls
    <3>1. CASE WorkerCrash
      BY <3>1 DEF WorkerCrash, TypeOK, Jobs
    <3>2. ASSUME NEW w \in Workers, LoseLock(w)
          PROVE  \A r \in Requests : /\ job'[r].state = job[r].state
                                    /\ job'[r].made = job[r].made /\ job'[r].stalls = job[r].stalls
      BY <3>2 DEF LoseLock, TypeOK, Jobs
    <3> QED BY <1>8, <3>1, <3>2
  <2>4. \A r \in Requests : Taken(r)' = Taken(r) /\ Taken(r) \in Nat /\ (HasJob(r)' <=> HasJob(r))
    BY <2>3 DEF Taken, HasJob, TypeOK, Jobs
  <2>5. TriesLeft'
    BY <2>3, <2>4 DEF CountInv, TriesLeft
  <2> HIDE DEF Taken, Due
  <2> QED BY <1>q, <2>1, <2>2, <2>4, <2>5, CountInvFrame
<1>9. ASSUME NEW r \in Requests, Find(r) \/ Create(r) \/ RequestFails(r) \/ CreateUnacked(r) PROVE CountInv'
  <2>1. PICK to \in {"replied", "create", "add"} : Step(r, to) \/ (to = "replied" /\ \E a \in Replies : Reply(r, a))
    BY <1>9 DEF Find, Create, RequestFails, CreateUnacked, Replies
  <2>2. \A s \in Requests : request'[s].event = request[s].event
    BY <2>1, Moved DEF RequestSteps
  <2>3. UNCHANGED <<handled, job, worker>>
    BY <1>9 DEF Find, Create, RequestFails, CreateUnacked
  <2> QED BY <1>1, <2>2, <2>3
<1>10. ASSUME (\E r \in Requests, e \in Events : Deliver(r, e)) \/ ApiCrash \/ UNCHANGED vars PROVE CountInv'
  BY <1>1, <1>10 DEF Deliver, ApiCrash, vars, At, TypeOK, Deliveries
<1>11. ASSUME NEW w \in Workers, InProcess(w) PROVE CountInv'
  <2>1. UNCHANGED handled \/ ((Handle(w) \/ HandleThrows(w)) /\ RunHandler(w))
    BY <1>11 DEF InProcess, Mark, MarkFails, Handle, HandleThrows, Complete, CompleteFails, Fail, FailFails
  <2> QED BY <1>5, <1>6, <1>11, <2>1
<1> QED BY <1>2, <1>3, <1>4, <1>7, <1>8, <1>9, <1>10, <1>11
        DEF Next, RequestStep, RequestFault, WorkerStep, WorkerFault, InProcess

LEMMA RunsBounded == TypeOK /\ QueueInv /\ CountInv => \A e \in Events : handled[e] <= Attempts + MaxStalled
<1> SUFFICES ASSUME TypeOK, QueueInv, CountInv, NEW e \in Events, handled[e] > 0
             PROVE  handled[e] <= Attempts + MaxStalled
  BY BoundsAssumption DEF TypeOK
<1>1. PICK r \in Requests : HasJob(r) /\ request[r].event = e
  BY DEF CountInv, RunsQueued
<1>2. handled[e] + Cardinality(Due(r)) <= Taken(r) /\ Taken(r) <= Attempts + MaxStalled
  BY <1>1 DEF CountInv, RunsCounted, TriesLeft
<1>3. Cardinality(Due(r)) \in Nat
  BY FS_CardinalityType DEF CountInv, DueFinite
<1>4. Taken(r) \in Nat /\ handled[e] \in Nat
  BY DEF Taken, TypeOK, Jobs
<1> HIDE DEF Taken, Due
<1> QED BY <1>2, <1>3, <1>4, BoundsAssumption

(* Even when locks are lost, an event's handler runs at most once per       *)
(* attempt and once per stalled recovery; and as long as none is, never in  *)
(* two slots at once.                                                       *)
THEOREM OneAtATime == Spec => []ExclusiveProcessing
<1>1. Init => QueueInv /\ SlotInv /\ CountInv
  BY QueueInvInit, SlotInvInit, CountInvInit
<1>2. TypeOK /\ QueueInv /\ SlotInv /\ CountInv => ExclusiveProcessing
  BY LocksExclude, RunsBounded DEF ExclusiveProcessing, OneSlotPerEvent
<1> QED BY <1>1, <1>2, QueueInvStep, SlotInvStep, CountInvStep, TypeCorrect, PTL DEF Spec

-----------------------------------------------------------------------------
(* What the node says while the job is on its way. *)

RunBeforeComplete == \A w \in Workers : Runs(w, "complete") => handled[EventOf(w)] > 0
ReturnRecorded ==
  lockLosses = 0 => \A w \in Workers : Runs(w, "return") => record[EventOf(w)].status = "completed"
CompletedRecorded ==
  lockLosses = 0 =>
    \A r \in Requests : job[r].state = "completed" => record[request[r].event].status = "completed"

Untroubled == lockLosses = 0 /\ faults = 0 /\ crashes = 0
Throwing(r) == \E w \in Workers : worker[w].job = r /\ Runs(w, "throw")
RetriesTold(r) ==
  /\ job[r].stalls = 0
  /\ job[r].state = "active" => job[r].owner # None
  /\ Owns(r) => record[request[r].event].retries = job[r].made + IF Throwing(r) THEN 1 ELSE 0
  /\ job[r].state = "failed" \/ Throwing(r) => record[request[r].event].status = "failed"
  /\ job[r].state = "failed" => job[r].made = Attempts
RetriesCounted == Untroubled => \A r \in Requests : RetriesTold(r)

StatusInv == CompletedWasHandled /\ RunBeforeComplete /\ ReturnRecorded /\ CompletedRecorded /\ RetriesCounted

LEMMA StatusInvInit == Init => StatusInv
BY DEF Init, StatusInv, CompletedWasHandled, RunBeforeComplete, ReturnRecorded, CompletedRecorded,
       RetriesCounted, RetriesTold, Throwing, Runs, Owns, At, HasJob

\* A busy slot works for an event of Stripe's.
LEMMA AtWork ==
  ASSUME QueueInv, SlotInv, NEW w \in Workers, Busy(w)
  PROVE  \E q \in Requests : /\ worker[w].job = q /\ HasJob(q) /\ Owns(q) /\ At(q, "replied")
                             /\ EventOf(w) = request[q].event /\ request[q].event \in Events
BY DEF QueueInv, SlotInv, BusyHasJob, Delivered, JobsAnswered, At, EventOf, Owns

\* What the writes of a slot leave in the nodes.
LEMMA Written ==
  ASSUME TypeOK, NEW w \in Workers, NEW e \in Events, EventOf(w) = e
  PROVE  /\ \A s \in Statuses : SetStatus(w, s) =>
              /\ record'[e].status = s /\ record'[e].retries = record[e].retries
              /\ \A f \in Events \ {e} : record'[f] = record[f]
         /\ \A n \in Nat : SetFailed(w, n) =>
              /\ record'[e].status = "failed" /\ record'[e].retries = record[e].retries + n
              /\ \A f \in Events \ {e} : record'[f] = record[f]
BY DEF TypeOK, Nodes, SetStatus, SetFailed

\* A delivery that has created the node of its event.
LEMMA NodeCreated ==
  ASSUME TypeOK, QueueInv, NEW r \in Requests, Create(r) \/ CreateUnacked(r)
  PROVE  /\ UNCHANGED <<job, worker, handled, lockLosses>>
         /\ \A s \in Requests : request'[s].event = request[s].event
         /\ \A s \in Requests \ {r} : request'[s].pc = request[s].pc
         /\ ~HasJob(r)
         /\ \/ UNCHANGED record /\ ~Owns(r)'
            \/ \E e \in Events : /\ e = request[r].event /\ ~Recorded(e)
                                 /\ record'[e] = [status |-> "pending", retries |-> 0]
                                 /\ \A f \in Events \ {e} : record'[f] = record[f]
<1>1. At(r, "create") /\ UNCHANGED <<job, worker, handled, lockLosses>> /\ request[r].event \in Events /\ ~HasJob(r)
  BY DEF Create, CreateUnacked, Fault, budget, QueueInv, Delivered, JobsAnswered, At
<1>2. PICK to \in {"replied", "add"} : Step(r, to) \/ (to = "replied" /\ \E a \in Replies : Reply(r, a))
  BY DEF Create, CreateUnacked, Replies
<1>3. /\ \A s \in Requests : request'[s].event = request[s].event
      /\ \A s \in Requests : request'[s].pc = IF s = r THEN to ELSE request[s].pc
  BY <1>2, Moved DEF RequestSteps
<1>4. CASE Recorded(request[r].event)
  <2>1. UNCHANGED record /\ Reply(r, "error")
    BY <1>4 DEF Create, CreateUnacked
  <2>2. ~Owns(r)'
    BY <1>1, <2>1, Moved DEF Owns, At, HasJob, RequestSteps, Replies
  <2> QED BY <1>1, <1>3, <2>1, <2>2
<1>5. CASE ~Recorded(request[r].event)
  <2>1. NewRecord(request[r].event)
    BY <1>5 DEF Create, CreateUnacked
  <2>2. /\ record'[request[r].event] = [status |-> "pending", retries |-> 0]
        /\ \A f \in Events \ {request[r].event} : record'[f] = record[f]
    BY <1>1, <2>1 DEF NewRecord, TypeOK
  <2> QED BY <1>1, <1>3, <1>5, <2>2
<1> QED BY <1>4, <1>5

\* The other steps of a delivery write no node and queue no one's job.
LEMMA DeliverySteps ==
  ASSUME TypeOK, QueueInv,
         \/ \E r \in Requests, e \in Events : Deliver(r, e)
         \/ \E r \in Requests : Find(r) \/ RequestFails(r)
         \/ ApiCrash
         \/ UNCHANGED vars
  PROVE  /\ UNCHANGED <<record, job, worker, handled, lockLosses>>
         /\ \A s \in Requests : HasJob(s) => request'[s].event = request[s].event
         /\ \A s \in Requests : Owns(s)' => Owns(s) /\ request'[s].event = request[s].event
         /\ faults' = 0 /\ crashes' = 0 => faults = 0 /\ crashes = 0
<1>1. ASSUME NEW r \in Requests, NEW e \in Events, Deliver(r, e)
      PROVE  /\ UNCHANGED <<record, job, worker, handled, budget>>
             /\ \A s \in Requests : HasJob(s) => request'[s].event = request[s].event
             /\ \A s \in Requests : Owns(s)' => Owns(s) /\ request'[s].event = request[s].event
  <2>1. UNCHANGED <<record, job, worker, handled, budget>> /\ At(r, "unsent")
    BY <1>1 DEF Deliver
  <2>2. /\ \A s \in Requests \ {r} : request'[s] = request[s]
        /\ request'[r].pc = "find"
    BY <1>1 DEF Deliver, TypeOK
  <2>3. ~HasJob(r)
    BY <2>1 DEF QueueInv, JobsAnswered, At
  <2> QED BY <2>1, <2>2, <2>3 DEF Owns, At, HasJob
<1>2. ASSUME NEW r \in Requests, Find(r) \/ RequestFails(r)
      PROVE  /\ UNCHANGED <<record, job, worker, handled, lockLosses, crashes>>
             /\ faults' = 0 => faults = 0
             /\ \A s \in Requests : request'[s].event = request[s].event
             /\ \A s \in Requests : Owns(s)' => Owns(s)
  <2>1. PICK to \in {"replied", "create"} : Step(r, to) \/ (to = "replied" /\ \E a \in Replies : Reply(r, a))
    BY <1>2 DEF Find, RequestFails, Replies
  <2>2. /\ \A s \in Requests : request'[s].event = request[s].event
        /\ \A s \in Requests : request'[s].pc = IF s = r THEN to ELSE request[s].pc
    BY <2>1, Moved DEF RequestSteps
  <2>3. UNCHANGED <<record, job, worker, handled, lockLosses, crashes>> /\ (faults' = 0 => faults = 0)
    BY <1>2 DEF Find, RequestFails, Fault, budget, TypeOK
  <2> QED BY <2>2, <2>3 DEF Owns, At, HasJob
<1>3. ASSUME ApiCrash \/ UNCHANGED vars
      PROVE  /\ UNCHANGED <<record, job, worker, handled, lockLosses, faults>>
             /\ crashes' = 0 => crashes = 0
             /\ \A s \in Requests : request'[s].event = request[s].event
             /\ \A s \in Requests : Owns(s)' => Owns(s)
  <2>1. CASE ApiCrash
    BY <2>1 DEF ApiCrash, TypeOK, Deliveries, Owns, At, HasJob
  <2>2. CASE UNCHANGED vars
    BY <2>2 DEF vars, Owns, At, HasJob
  <2> QED BY <1>3, <2>1, <2>2
<1> QED BY <1>1, <1>2, <1>3 DEF budget

\* A job that is added belongs to a delivery that owned its event already.
LEMMA JobAdded ==
  ASSUME TypeOK, QueueInv, NEW r \in Requests, Add(r) \/ AddUnacked(r)
  PROVE  /\ UNCHANGED <<record, worker, handled, lockLosses>>
         /\ faults' = 0 /\ crashes' = 0 => faults = 0 /\ crashes = 0
         /\ \A s \in Requests : request'[s].event = request[s].event
         /\ \A s \in Requests : Owns(s)' => Owns(s)
         /\ \A s \in Requests \ {r} : job'[s] = job[s]
         /\ job[r].state = "none" /\ job'[r].state = "wait"
         /\ job'[r].made = job[r].made /\ job'[r].stalls = job[r].stalls
<1>1. At(r, "add") /\ AddJob(r) /\ UNCHANGED <<record, worker, handled, lockLosses, crashes>> /\ \E a \in Replies : Reply(r, a)
  BY DEF Add, AddUnacked, Fault, budget, Replies
<1>2. /\ \A s \in Requests : request'[s].event = request[s].event
      /\ \A s \in Requests : request'[s].pc = IF s = r THEN "replied" ELSE request[s].pc
  BY <1>1, Moved DEF RequestSteps
<1>3. /\ \A s \in Requests \ {r} : job'[s] = job[s]
      /\ job[r].state = "none" /\ job'[r].state = "wait"
      /\ job'[r].made = job[r].made /\ job'[r].stalls = job[r].stalls
  BY <1>1 DEF AddJob, TypeOK, Jobs, QueueInv, JobsAnswered, HasJob, At
<1>4. \A s \in Requests : Owns(s)' => Owns(s)
  BY <1>1, <1>2, <1>3 DEF Owns, At, HasJob
<1>5. faults' = 0 => faults = 0
  BY DEF Add, AddUnacked, Fault, budget, TypeOK
<1> QED BY <1>1, <1>2, <1>3, <1>4, <1>5

\* An event recorded completed had its handler run to the end.
HandledInv == CompletedWasHandled /\ RunBeforeComplete

LEMMA HandledStep == TypeOK /\ QueueInv /\ SlotInv /\ HandledInv /\ [Next]_vars => HandledInv'
<1> SUFFICES ASSUME TypeOK, QueueInv, SlotInv, HandledInv, [Next]_vars PROVE HandledInv'
  OBVIOUS
<1> USE DEF HandledInv
<1>1. ASSUME UNCHANGED <<record, worker, handled>>,
             \A s \in Requests : HasJob(s) => request'[s].event = request[s].event
      PROVE  HandledInv'
  <2>1. \A w \in Workers : Runs(w, "complete") => EventOf(w)' = EventOf(w)
    BY <1>1 DEF SlotInv, BusyHasJob, Busy, Runs, EventOf
  <2> QED BY <1>1, <2>1 DEF CompletedWasHandled, RunBeforeComplete, Runs
<1>2. ASSUME NEW r \in Requests, Create(r) \/ CreateUnacked(r) PROVE HandledInv'
  <2>1. /\ UNCHANGED <<worker, handled>>
        /\ \A s \in Requests : request'[s].event = request[s].event
        /\ \A e \in Events : record'[e].status = "completed" => record[e].status = "completed"
    BY <1>2, NodeCreated
  <2>2. CompletedWasHandled'
    BY <2>1 DEF CompletedWasHandled
  <2>3. \A w \in Workers : Runs(w, "complete") => EventOf(w)' = EventOf(w)
    BY <2>1 DEF SlotInv, BusyHasJob, Busy, Runs, EventOf
  <2>4. RunBeforeComplete'
    BY <2>1, <2>3 DEF RunBeforeComplete, Runs
  <2> QED BY <2>2, <2>4
<1>3. ASSUME NEW w \in Workers, NEW r \in Requests, Take(w, r) PROVE HandledInv'
  BY <1>3 DEF Take, TypeOK, CompletedWasHandled, RunBeforeComplete, Runs, EventOf
<1>4. ASSUME NEW w \in Workers, InProcess(w) PROVE HandledInv'
  <2>1. PICK q \in Requests : worker[w].job = q /\ EventOf(w) = request[q].event /\ request[q].event \in Events
    BY <1>4, InProcessMoves, AtWork
  <2> DEFINE e == request[q].event
  <2>2. /\ UNCHANGED request
        /\ \A v \in Workers : worker'[v].job = worker[v].job
        /\ \A v \in Workers \ {w} : worker'[v] = worker[v]
    BY <1>4, InProcessMoves, WentOn
  <2>3. \A v \in Workers : EventOf(v)' = EventOf(v)
    BY <2>2 DEF EventOf
  <2>4. /\ \A f \in Events : handled[f] > 0 => handled'[f] > 0
        /\ RunHandler(w) => handled'[e] > 0
    <3>1. CASE UNCHANGED handled /\ ~RunHandler(w)
      BY <3>1
    <3>2. CASE RunHandler(w)
      BY <2>1, <3>2 DEF RunHandler, TypeOK
    <3> QED BY <1>4, <3>1, <3>2 DEF InProcess, Mark, MarkFails, Handle, HandleThrows, Complete, CompleteFails, Fail, FailFails
  <2>5. RunBeforeComplete'
    <3> SUFFICES ASSUME NEW v \in Workers, Runs(v, "complete")' PROVE handled'[EventOf(v)'] > 0
      BY DEF RunBeforeComplete
    <3>1. CASE v = w
      <4>1. Handle(w)
        BY <1>4, <3>1 DEF InProcess, Mark, MarkFails, Handle, HandleThrows, Complete, CompleteFails, Fail, FailFails, Goto, Runs, TypeOK, Slots
      <4> QED BY <2>1, <2>3, <2>4, <3>1, <4>1 DEF Handle
    <3>2. CASE v # w
      <4>1. Runs(v, "complete") /\ EventOf(v) \in Events
        BY <2>2, <3>2, AtWork DEF Runs, Busy
      <4> QED BY <2>3, <2>4, <4>1 DEF RunBeforeComplete
    <3> QED BY <3>1, <3>2
  <2>6. CompletedWasHandled'
    <3> SUFFICES ASSUME NEW f \in Events, record'[f].status = "completed" PROVE handled'[f] > 0
      BY DEF CompletedWasHandled
    <3>1. CASE Runs(w, "complete") /\ f = e
      BY <2>1, <2>4, <3>1 DEF RunBeforeComplete
    <3>2. CASE ~(Runs(w, "complete") /\ f = e)
      <4>1. PICK s \in Statuses, n \in Nat :
              UNCHANGED record \/ (SetStatus(w, s) /\ (s = "processing" \/ Runs(w, "complete"))) \/ SetFailed(w, n)
        BY <1>4 DEF InProcess, Mark, MarkFails, Handle, HandleThrows, Complete, CompleteFails, Fail, FailFails, Statuses
      <4>2. record[f].status = "completed"
        BY <2>1, <3>2, <4>1, Written
      <4> QED BY <2>4, <4>2 DEF CompletedWasHandled
    <3> QED BY <3>1, <3>2
  <2> QED BY <2>5, <2>6
<1>5. ASSUME NEW w \in Workers, Return(w) \/ Throw(w) PROVE HandledInv'
  <2>1. /\ UNCHANGED <<record, request, handled>>
        /\ worker'[w] = [pc |-> "idle", job |-> None]
        /\ \A v \in Workers \ {w} : worker'[v] = worker[v]
    BY <1>5, Freed
  <2> QED BY <2>1 DEF CompletedWasHandled, RunBeforeComplete, Runs, EventOf
<1>6. CASE WorkerCrash
  BY <1>6 DEF WorkerCrash, CompletedWasHandled, RunBeforeComplete, Runs
<1>7. ASSUME NEW r \in Requests, Add(r) \/ AddUnacked(r) PROVE HandledInv'
  BY <1>1, <1>7, JobAdded
<1>8. ASSUME (\E r \in Requests : Stalled(r)) \/ (\E w \in Workers : LoseLock(w)) PROVE HandledInv'
  BY <1>1, <1>8 DEF Stalled, LoseLock
<1>9. ASSUME \/ \E r \in Requests, e \in Events : Deliver(r, e)
             \/ \E r \in Requests : Find(r) \/ RequestFails(r)
             \/ ApiCrash
             \/ UNCHANGED vars
      PROVE  HandledInv'
  BY <1>1, <1>9, DeliverySteps
<1> QED BY <1>2, <1>3, <1>4, <1>5, <1>6, <1>7, <1>8, <1>9
        DEF Next, RequestStep, RequestFault, WorkerStep, WorkerFault, InProcess

\* While no lock is lost, the node of a job the queue has completed says so.
RecordedInv == ReturnRecorded /\ CompletedRecorded

LEMMA RecordedStep == TypeOK /\ QueueInv /\ SlotInv /\ RecordedInv /\ [Next]_vars => RecordedInv'
<1> SUFFICES ASSUME TypeOK, QueueInv, SlotInv, RecordedInv, [Next]_vars, lockLosses' = 0 PROVE RecordedInv'
  BY DEF RecordedInv, ReturnRecorded, CompletedRecorded
<1> USE DEF RecordedInv
<1>1. ASSUME UNCHANGED <<record, worker, lockLosses>>,
             \A s \in Requests : job'[s].state = "completed" => job[s].state = "completed",
             \A s \in Requests : HasJob(s) => request'[s].event = request[s].event
      PROVE  RecordedInv'
  <2>1. \A w \in Workers : Runs(w, "return") => EventOf(w)' = EventOf(w)
    BY <1>1 DEF SlotInv, BusyHasJob, Busy, Runs, EventOf
  <2>2. ReturnRecorded'
    BY <1>1, <2>1 DEF ReturnRecorded, Runs
  <2>3. CompletedRecorded'
    BY <1>1 DEF CompletedRecorded, HasJob
  <2> QED BY <2>2, <2>3
<1>2. ASSUME NEW r \in Requests, Create(r) \/ CreateUnacked(r) PROVE RecordedInv'
  <2>1. /\ UNCHANGED <<worker, job, lockLosses>>
        /\ \A s \in Requests : request'[s].event = request[s].event
        /\ \A e \in Events : Recorded(e) => record'[e] = record[e]
    BY <1>2, NodeCreated
  <2>2. \A s \in Requests : HasJob(s) => record'[request'[s].event] = record[request[s].event]
    BY <2>1 DEF QueueInv, OwnedIsRecorded, Owns, JobsAnswered, Delivered, At
  <2>3. CompletedRecorded'
    BY <2>1, <2>2 DEF CompletedRecorded, HasJob
  <2>4. ReturnRecorded'
    <3> SUFFICES ASSUME NEW w \in Workers, Runs(w, "return") PROVE record'[EventOf(w)'].status = "completed"
      BY <2>1 DEF ReturnRecorded, Runs
    <3>1. worker[w].job \in Requests /\ HasJob(worker[w].job)
      BY DEF SlotInv, BusyHasJob, Busy, Runs
    <3> QED BY <2>1, <2>2, <3>1 DEF ReturnRecorded, EventOf
  <2> QED BY <2>3, <2>4
<1>3. ASSUME NEW w \in Workers, NEW r \in Requests, Take(w, r) PROVE RecordedInv'
  <2>1. /\ UNCHANGED <<record, request, lockLosses>>
        /\ worker'[w].pc = "mark" /\ \A v \in Workers \ {w} : worker'[v] = worker[v]
        /\ \A s \in Requests : job'[s].state = "completed" => job[s].state = "completed"
    BY <1>3 DEF Take, TypeOK, Jobs, budget
  <2> QED BY <2>1 DEF ReturnRecorded, CompletedRecorded, Runs, EventOf
<1>4. ASSUME NEW w \in Workers, InProcess(w) PROVE RecordedInv'
  <2>1. PICK q \in Requests : /\ worker[w].job = q /\ EventOf(w) = request[q].event /\ request[q].event \in Events
                              /\ Owns(q)
    BY <1>4, InProcessMoves, AtWork
  <2> DEFINE e == request[q].event
  <2>2. /\ UNCHANGED <<request, job, lockLosses>> /\ Busy(w)
        /\ \A v \in Workers : worker'[v].job = worker[v].job
        /\ \A v \in Workers \ {w} : worker'[v] = worker[v]
    BY <1>4, InProcessMoves, WentOn
  <2>3. \A v \in Workers : EventOf(v)' = EventOf(v)
    BY <2>2 DEF EventOf
  <2>4. PICK s \in Statuses, n \in Nat : UNCHANGED record \/ SetStatus(w, s) \/ SetFailed(w, n)
    BY <1>4 DEF InProcess, Mark, MarkFails, Handle, HandleThrows, Complete, CompleteFails, Fail, FailFails, Statuses
  <2>5. \A f \in Events \ {e} : record'[f] = record[f]
    BY <2>1, <2>4, Written
  <2>6. ReturnRecorded'
    <3> SUFFICES ASSUME NEW v \in Workers, Runs(v, "return")' PROVE record'[EventOf(v)'].status = "completed"
      BY DEF ReturnRecorded
    <3>1. CASE v = w
      <4>1. SetStatus(w, "completed")
        BY <1>4, <3>1 DEF InProcess, Mark, MarkFails, Handle, HandleThrows, Complete, CompleteFails, Fail, FailFails, Goto, Runs, TypeOK, Slots
      <4> QED BY <2>1, <2>3, <3>1, <4>1, Written DEF Statuses
    <3>2. CASE v # w
      <4>1. Runs(v, "return") /\ Busy(v) /\ EventOf(v) \in Events
        BY <2>2, <3>2, AtWork DEF Runs, Busy
      <4>2. EventOf(v) # e
        BY <2>1, <2>2, <3>2, <4>1, LocksExclude DEF OneSlotPerEvent, Busy
      <4> QED BY <2>2, <2>3, <2>5, <4>1, <4>2 DEF ReturnRecorded
    <3> QED BY <3>1, <3>2
  <2>7. CompletedRecorded'
    <3> SUFFICES ASSUME NEW r \in Requests, job[r].state = "completed" PROVE record'[request[r].event].status = "completed"
      BY <2>2 DEF CompletedRecorded
    <3>1. Owns(r) /\ request[r].event \in Events
      BY DEF Owns, HasJob, QueueInv, JobsAnswered, Delivered, At
    <3>2. job[q].state = "active"
      BY <2>1, <2>2, NoneAssumption DEF SlotInv, LocksKept, Holds, QueueInv, LockedIsActive
    <3>3. request[r].event # e
      BY <2>1, <3>1, <3>2 DEF QueueInv, OneOwner
    <3> QED BY <2>2, <2>5, <3>1, <3>3 DEF CompletedRecorded
  <2> QED BY <2>6, <2>7
<1>5. ASSUME NEW w \in Workers, Return(w) \/ Throw(w) PROVE RecordedInv'
  <2>1. /\ UNCHANGED <<record, request, lockLosses>> /\ Busy(w)
        /\ worker'[w] = [pc |-> "idle", job |-> None]
        /\ \A v \in Workers \ {w} : worker'[v] = worker[v]
    BY <1>5, Freed DEF budget
  <2>2. PICK q \in Requests : worker[w].job = q /\ EventOf(w) = request[q].event
    BY <2>1, AtWork
  <2>3. ReturnRecorded'
    BY <2>1 DEF ReturnRecorded, Runs, EventOf
  <2>4. \A r \in Requests \ {q} : job'[r] = job[r]
    BY <1>5, <2>2, Freed
  <2>5. Holds(w)
    BY <2>1 DEF SlotInv, LocksKept
  <2>6. job'[q].state = "completed" => Return(w)
    BY <1>5, <2>2, <2>5 DEF Throw, TypeOK, Jobs
  <2>7. CompletedRecorded'
    BY <2>1, <2>2, <2>4, <2>6 DEF CompletedRecorded, ReturnRecorded, Return
  <2> QED BY <2>3, <2>7
<1>6. CASE WorkerCrash
  <2>1. /\ UNCHANGED <<record, request, lockLosses>>
        /\ \A w \in Workers : worker'[w].pc = "idle"
        /\ \A s \in Requests : job'[s].state = job[s].state
    BY <1>6 DEF WorkerCrash, TypeOK, Jobs
  <2> QED BY <2>1 DEF ReturnRecorded, CompletedRecorded, Runs
<1>7. ASSUME NEW r \in Requests, Add(r) \/ AddUnacked(r) PROVE RecordedInv'
  <2>1. \A s \in Requests : job'[s].state = "completed" => job[s].state = "completed"
    BY <1>7, JobAdded
  <2> QED BY <1>1, <1>7, <2>1, JobAdded
<1>8. ASSUME NEW r \in Requests, Stalled(r) PROVE RecordedInv'
  <2>1. \A s \in Requests : job'[s].state = "completed" => job[s].state = "completed"
    BY <1>8 DEF Stalled, TypeOK, Jobs
  <2> QED BY <1>1, <1>8, <2>1 DEF Stalled, budget
<1>9. ASSUME NEW w \in Workers, LoseLock(w) PROVE FALSE
  BY <1>9 DEF LoseLock, TypeOK
<1>10. ASSUME \/ \E r \in Requests, e \in Events : Deliver(r, e)
              \/ \E r \in Requests : Find(r) \/ RequestFails(r)
              \/ ApiCrash
              \/ UNCHANGED vars
       PROVE  RecordedInv'
  BY <1>1, <1>10, DeliverySteps
<1> QED BY <1>2, <1>3, <1>4, <1>5, <1>6, <1>7, <1>8, <1>9, <1>10
        DEF Next, RequestStep, RequestFault, WorkerStep, WorkerFault, InProcess

\* A step that leaves a job, its node and its slot alone.
LEMMA RetriesFrame ==
  ASSUME QueueInv, SlotInv, NEW r \in Requests, RetriesTold(r),
         job'[r].state = job[r].state \/ job'[r].state \notin {"active", "failed"},
         job'[r].owner = job[r].owner \/ job'[r].state # "active",
         job'[r].made = job[r].made, job'[r].stalls = job[r].stalls,
         Throwing(r)' <=> Throwing(r),
         Owns(r)' => /\ request'[r].event = request[r].event
                     /\ Owns(r) /\ record'[request[r].event] = record[request[r].event],
         HasJob(r) => HasJob(r)'
  PROVE  RetriesTold(r)'
<1>1. Throwing(r) => HasJob(r)
  BY DEF Throwing, Runs, SlotInv, BusyHasJob, Busy
<1>2. HasJob(r) => Owns(r)'
  BY DEF Owns
<1>3. /\ job'[r].stalls = 0
      /\ job'[r].state = "active" => job'[r].owner # None
      /\ job'[r].state = "failed" => job'[r].made = Attempts
  BY DEF RetriesTold
<1>4. Owns(r)' => record'[request'[r].event].retries = job'[r].made + IF Throwing(r)' THEN 1 ELSE 0
  BY DEF RetriesTold
<1>5. job'[r].state = "failed" \/ Throwing(r)' => record'[request'[r].event].status = "failed"
  BY <1>1, <1>2 DEF RetriesTold, HasJob
<1> QED BY <1>3, <1>4, <1>5 DEF RetriesTold

LEMMA RetriesStep ==
  TypeOK /\ QueueInv /\ QueueInv' /\ SlotInv /\ CountInv /\ RetriesCounted /\ [Next]_vars => RetriesCounted'
<1> SUFFICES ASSUME TypeOK, QueueInv, QueueInv', SlotInv, CountInv, RetriesCounted, [Next]_vars,
                    lockLosses' = 0, faults' = 0, crashes' = 0,
                    NEW r \in Requests
             PROVE  RetriesTold(r)'
  BY DEF RetriesCounted, Untroubled
<1>u. ASSUME lockLosses = 0, faults = 0, crashes = 0 PROVE Untroubled /\ RetriesTold(r)
  BY <1>u DEF RetriesCounted, Untroubled
<1>1. ASSUME NEW s \in Requests, Create(s) \/ CreateUnacked(s) PROVE RetriesTold(r)'
  <2>1. Create(s) /\ lockLosses = 0 /\ faults = 0 /\ crashes = 0
    BY <1>1 DEF Create, CreateUnacked, Fault, budget, TypeOK
  <2>2. /\ UNCHANGED <<job, worker>>
        /\ \A q \in Requests : request'[q].event = request[q].event
        /\ \A q \in Requests \ {s} : request'[q].pc = request[q].pc
        /\ ~HasJob(s)
    BY <1>1, NodeCreated
  <2>3. /\ Throwing(r)' <=> Throwing(r)
        /\ HasJob(r)' <=> HasJob(r)
    BY <2>2 DEF Throwing, Runs, HasJob
  <2>4. CASE r # s
    <3>1. Owns(r)' => Owns(r)
      BY <2>2, <2>4 DEF Owns, At, HasJob
    <3>2. Owns(r)' => record'[request[r].event] = record[request[r].event]
      <4> SUFFICES ASSUME Owns(r)' PROVE record'[request[r].event] = record[request[r].event]
        OBVIOUS
      <4>1. Recorded(request[r].event) /\ request[r].event \in Events
        BY <3>1 DEF QueueInv, OwnedIsRecorded, Owns, JobsAnswered, Delivered, At
      <4> QED BY <1>1, <4>1, NodeCreated
    <3> QED BY <1>u, <2>1, <2>2, <2>3, <3>1, <3>2, RetriesFrame
  <2>5. CASE r = s
    <3>1. ~Throwing(r) /\ job[r].state = "none" /\ job[r].made = 0 /\ job[r].stalls = 0
      BY <2>2, <2>5 DEF Throwing, Runs, SlotInv, BusyHasJob, Busy, HasJob, CountInv, TriesLeft
    <3>2. Owns(r)' => record'[request'[r].event].retries = 0
      BY <1>1, <2>2, <2>5, NodeCreated
    <3> QED BY <2>2, <2>3, <3>1, <3>2 DEF RetriesTold
  <2> QED BY <2>4, <2>5
<1>2. ASSUME NEW s \in Requests, Add(s) \/ AddUnacked(s) PROVE RetriesTold(r)'
  <2>1. /\ UNCHANGED <<record, worker>> /\ lockLosses = 0 /\ faults = 0 /\ crashes = 0
        /\ \A q \in Requests : request'[q].event = request[q].event
        /\ \A q \in Requests : Owns(q)' => Owns(q)
        /\ \A q \in Requests \ {s} : job'[q] = job[q]
        /\ job[s].state = "none" /\ job'[s].state = "wait"
        /\ job'[s].made = job[s].made /\ job'[s].stalls = job[s].stalls
    BY <1>2, JobAdded
  <2>2. Throwing(r)' <=> Throwing(r)
    BY <2>1 DEF Throwing, Runs
  <2>3. HasJob(r) => HasJob(r)'
    BY <2>1 DEF HasJob
  <2>4. CASE r = s
    BY <1>u, <2>1, <2>2, <2>3, <2>4, RetriesFrame
  <2>5. CASE r # s
    BY <1>u, <2>1, <2>2, <2>3, <2>5, RetriesFrame
  <2> QED BY <2>4, <2>5
<1>3. ASSUME NEW s \in Requests, Stalled(s) PROVE FALSE
  <2>1. lockLosses = 0 /\ faults = 0 /\ crashes = 0
    BY <1>3 DEF Stalled, budget
  <2> QED BY <1>3, <2>1 DEF RetriesCounted, Untroubled, RetriesTold, Stalled
<1>4. ASSUME NEW w \in Workers, NEW s \in Requests, Take(w, s) PROVE RetriesTold(r)'
  <2>1. /\ UNCHANGED <<record, request>> /\ lockLosses = 0 /\ faults = 0 /\ crashes = 0
        /\ Runs(w, "idle") /\ job[s].state = "wait"
        /\ worker'[w] = [pc |-> "mark", job |-> s]
        /\ \A v \in Workers \ {w} : worker'[v] = worker[v]
        /\ \A q \in Requests \ {s} : job'[q] = job[q]
        /\ job'[s].state = "active" /\ job'[s].made = job[s].made /\ job'[s].stalls = job[s].stalls
        /\ job'[s].owner = w
    BY <1>4 DEF Take, TypeOK, Jobs, budget
  <2>2. Throwing(r)' <=> Throwing(r)
    BY <2>1 DEF Throwing, Runs
  <2>3. /\ HasJob(r)' <=> HasJob(r)
        /\ Owns(r)' <=> Owns(r)
    BY <2>1 DEF HasJob, Owns, At
  <2>4. CASE r # s
    BY <1>u, <2>1, <2>2, <2>3, <2>4, RetriesFrame
  <2>5. CASE r = s
    <3>1. RetriesTold(r) /\ w # None
      BY <1>u, <2>1, NoneAssumption
    <3> QED BY <2>1, <2>2, <2>3, <2>5, <3>1 DEF RetriesTold
  <2> QED BY <2>4, <2>5
<1>5. ASSUME NEW w \in Workers, InProcess(w) PROVE RetriesTold(r)'
  <2>1. lockLosses = 0 /\ faults = 0 /\ crashes = 0 /\ (Mark(w) \/ Handle(w) \/ HandleThrows(w) \/ Complete(w) \/ Fail(w))
    BY <1>5, InProcessMoves DEF InProcess, Mark, MarkFails, Handle, HandleThrows, Complete, CompleteFails, Fail, FailFails, Fault, budget, TypeOK
  <2>2. RetriesTold(r)
    BY <1>u, <2>1
  <2>3. PICK q \in Requests : /\ worker[w].job = q /\ EventOf(w) = request[q].event /\ request[q].event \in Events
                              /\ Owns(q)
    BY <1>5, InProcessMoves, AtWork
  <2>4. /\ UNCHANGED <<request, job>> /\ Busy(w)
        /\ \A v \in Workers : worker'[v].job = worker[v].job
        /\ \A v \in Workers \ {w} : worker'[v] = worker[v]
    BY <1>5, InProcessMoves, WentOn
  <2>5. /\ HasJob(r)' <=> HasJob(r)
        /\ Owns(r)' <=> Owns(r)
    BY <2>4 DEF HasJob, Owns, At
  <2>6. PICK s \in Statuses, n \in Nat : UNCHANGED record \/ SetStatus(w, s) \/ SetFailed(w, n)
    BY <1>5 DEF InProcess, Mark, MarkFails, Handle, HandleThrows, Complete, CompleteFails, Fail, FailFails, Statuses
  <2>7. \A f \in Events \ {request[q].event} : record'[f] = record[f]
    BY <2>3, <2>6, Written
  <2>8. CASE r # q
    <3>1. Throwing(r)' <=> Throwing(r)
      BY <2>3, <2>4, <2>8 DEF Throwing, Runs
    <3>2. Owns(r) => request[r].event \in Events /\ request[r].event # request[q].event
      BY <2>3, <2>8 DEF QueueInv, OneOwner, Owns, JobsAnswered, Delivered, At
    <3>3. Owns(r)' => Owns(r) /\ record'[request[r].event] = record[request[r].event]
      BY <2>5, <2>7, <3>2
    <3> QED BY <2>2, <2>4, <2>5, <3>1, <3>3, RetriesFrame
  <2>9. CASE r = q
    <3>1. \A v \in Workers : worker[v].job = r => v = w
      <4> SUFFICES ASSUME NEW v \in Workers, worker[v].job = r PROVE v = w
        OBVIOUS
      <4>1. Holds(w) /\ (Busy(v) => Holds(v))
        BY <2>1, <2>4 DEF SlotInv, LocksKept
      <4>2. Busy(v)
        BY NoneAssumption DEF SlotInv, IdleHasNone, Busy
      <4> QED BY <2>3, <2>9, <4>1, <4>2 DEF Holds
    <3>2. ~Throwing(r)
      BY <2>1, <3>1 DEF Throwing, Mark, Handle, HandleThrows, Complete, Fail, Runs
    <3>3. job[r].state = "active"
      BY <2>1, <2>3, <2>4, <2>9, NoneAssumption DEF SlotInv, LocksKept, Holds, QueueInv, LockedIsActive
    <3>4. record[request[r].event].retries = job[r].made /\ job[r].made \in Nat
      BY <2>2, <2>3, <2>9, <3>2 DEF RetriesTold, TypeOK, Jobs
    <3>5. Throwing(r)' <=> Runs(w, "throw")'
      BY <2>3, <2>4, <2>9, <3>1 DEF Throwing, Runs
    <3>6. CASE Fail(w)
      <4>1. SetFailed(w, 1) /\ Runs(w, "throw")'
        BY <3>6 DEF Fail, Goto, Runs, TypeOK, Slots
      <4>2. record'[request[r].event].status = "failed" /\ record'[request[r].event].retries = record[request[r].event].retries + 1
        BY <2>3, <2>9, <4>1, Written
      <4> QED BY <2>2, <2>4, <3>3, <3>4, <3>5, <4>1, <4>2 DEF RetriesTold
    <3>7. CASE ~Fail(w)
      <4>1. ~Runs(w, "throw")' /\ (UNCHANGED record \/ \E st \in Statuses : SetStatus(w, st))
        BY <2>1, <3>7 DEF Mark, Handle, HandleThrows, Complete, Goto, Runs, TypeOK, Slots, Statuses
      <4>2. record'[request[r].event].retries = record[request[r].event].retries
        BY <2>3, <2>9, <4>1, Written
      <4> QED BY <2>2, <2>4, <3>3, <3>4, <3>5, <4>1, <4>2 DEF RetriesTold
    <3> QED BY <3>6, <3>7
  <2> QED BY <2>8, <2>9
<1>6. ASSUME NEW w \in Workers, Return(w) \/ Throw(w) PROVE RetriesTold(r)'
  <2>1. /\ UNCHANGED <<record, request>> /\ lockLosses = 0 /\ faults = 0 /\ crashes = 0 /\ Busy(w)
        /\ worker'[w] = [pc |-> "idle", job |-> None]
        /\ \A v \in Workers \ {w} : worker'[v] = worker[v]
    BY <1>6, Freed DEF budget
  <2>2. PICK q \in Requests : worker[w].job = q /\ HasJob(q) /\ Owns(q)
    BY <2>1, AtWork
  <2>3. Holds(w) /\ job[q].state = "active"
    BY <2>1, <2>2, NoneAssumption DEF SlotInv, LocksKept, Holds, QueueInv, LockedIsActive
  <2>4. \A s \in Requests \ {q} : job'[s] = job[s]
    BY <1>6, <2>2, Freed
  <2>5. RetriesTold(r)
    BY <1>u, <2>1
  <2>6. CASE r # q
    <3>1. Throwing(r)' <=> Throwing(r)
      BY <2>1, <2>2, <2>6 DEF Throwing, Runs
    <3>2. /\ HasJob(r)' <=> HasJob(r)
          /\ Owns(r)' <=> Owns(r)
      BY <2>1, <2>4, <2>6 DEF HasJob, Owns, At
    <3> QED BY <2>1, <2>4, <2>5, <2>6, <3>1, <3>2, RetriesFrame
  <2>7. CASE r = q
    <3>1. \A v \in Workers : worker[v].job = r => v = w
      <4> SUFFICES ASSUME NEW v \in Workers, worker[v].job = r PROVE v = w
        OBVIOUS
      <4>1. Busy(v)
        BY NoneAssumption DEF SlotInv, IdleHasNone, Busy
      <4>2. Holds(v)
        BY <2>1, <4>1 DEF SlotInv, LocksKept
      <4> QED BY <2>2, <2>3, <2>7, <4>2 DEF Holds
    <3>2. ~Throwing(r)'
      BY <2>1, <3>1 DEF Throwing, Runs
    <3>3. job[r].made \in Nat /\ Attempts \in Nat /\ job[r].made < Attempts /\ job[r].stalls = 0
      BY <2>3, <2>5, <2>7, BoundsAssumption DEF TypeOK, Jobs, CountInv, TriesLeft, RetriesTold
    <3>4. CASE Return(w)
      <4>1. Runs(w, "return") /\ ~Throwing(r)
        BY <3>1, <3>4 DEF Return, Throwing, Runs
      <4>2. job'[r].state = "completed" /\ job'[r].made = job[r].made /\ job'[r].stalls = job[r].stalls
        BY <2>2, <2>3, <2>7, <3>4 DEF Return, Settle, TypeOK, Jobs
      <4> QED BY <2>1, <2>2, <2>5, <2>7, <3>2, <4>1, <4>2 DEF RetriesTold
    <3>5. CASE Throw(w)
      <4>1. Throwing(r)
        BY <2>2, <2>7, <3>5 DEF Throw, Throwing
      <4>2. /\ job'[r].state = IF job[r].made + 1 < Attempts THEN "wait" ELSE "failed"
            /\ job'[r].made = job[r].made + 1 /\ job'[r].stalls = job[r].stalls
        BY <2>2, <2>3, <2>7, <3>5 DEF Throw, TypeOK, Jobs
      <4>3. record[request[r].event].retries = job[r].made + 1 /\ record[request[r].event].status = "failed"
        BY <2>2, <2>5, <2>7, <4>1 DEF RetriesTold
      <4>4. job'[r].state # "active" /\ (job'[r].state = "failed" => job'[r].made = Attempts)
        BY <3>3, <4>2
      <4>5. job'[r].made = job'[r].made + 0
        BY <3>3, <4>2
      <4> QED BY <2>1, <3>2, <3>3, <4>2, <4>3, <4>4, <4>5 DEF RetriesTold
    <3> QED BY <1>6, <3>4, <3>5
  <2> QED BY <2>6, <2>7
<1>7. ASSUME NEW w \in Workers, LoseLock(w) PROVE FALSE
  BY <1>7 DEF LoseLock, TypeOK
<1>8. ASSUME WorkerCrash PROVE FALSE
  BY <1>8 DEF WorkerCrash, TypeOK
<1>9. ASSUME \/ \E s \in Requests, e \in Events : Deliver(s, e)
             \/ \E s \in Requests : Find(s) \/ RequestFails(s)
             \/ ApiCrash
             \/ UNCHANGED vars
      PROVE  RetriesTold(r)'
  <2>1. /\ UNCHANGED <<record, job, worker>> /\ lockLosses = 0 /\ faults = 0 /\ crashes = 0
        /\ Owns(r)' => Owns(r) /\ request'[r].event = request[r].event
    BY <1>9, DeliverySteps
  <2>2. /\ Throwing(r)' <=> Throwing(r)
        /\ HasJob(r) <=> HasJob(r)'
    BY <2>1 DEF Throwing, Runs, HasJob
  <2> QED BY <1>u, <2>1, <2>2, RetriesFrame
<1> QED BY <1>1, <1>2, <1>3, <1>4, <1>5, <1>6, <1>7, <1>8, <1>9
        DEF Next, RequestStep, RequestFault, WorkerStep, WorkerFault, InProcess

(* The node of an event tells the truth about what the queue has made of    *)
(* its job, and "completed" is never written before the handler has run.    *)
THEOREM StatusIsTrue == Spec => []OutcomeHonest
<1>1. Init => QueueInv /\ SlotInv /\ CountInv /\ HandledInv /\ RecordedInv /\ RetriesCounted
  BY QueueInvInit, SlotInvInit, CountInvInit, StatusInvInit DEF StatusInv, HandledInv, RecordedInv
<1>2. CompletedWasHandled /\ CompletedRecorded /\ RetriesCounted /\ TypeOK /\ QueueInv /\ SlotInv => OutcomeHonest
  <2> SUFFICES ASSUME CompletedRecorded, RetriesCounted, TypeOK, QueueInv, SlotInv,
                      lockLosses = 0, NEW r \in Requests, job[r].state = "failed", faults = 0, crashes = 0
               PROVE  record[request[r].event] = [status |-> "failed", retries |-> Attempts]
    BY DEF OutcomeHonest, StatusTellsOutcome, CompletedRecorded
  <2>1. RetriesTold(r) /\ Owns(r) /\ request[r].event \in Events
    BY DEF RetriesCounted, Untroubled, Owns, HasJob, QueueInv, JobsAnswered, Delivered, At
  <2>2. record[request[r].event].status = "failed" /\ record[request[r].event].retries = Attempts
    <3>1. ~Throwing(r)
      BY NoneAssumption DEF Throwing, Runs, SlotInv, LocksKept, Busy, Holds, QueueInv, LockedIsActive
    <3> QED BY <2>1, <3>1, BoundsAssumption DEF RetriesTold
  <2> QED BY <2>1, <2>2 DEF TypeOK, Nodes
<1> QED BY <1>1, <1>2, QueueInvStep, SlotInvStep, CountInvStep, HandledStep, RecordedStep, RetriesStep, TypeCorrect, PTL
        DEF Spec, HandledInv, RecordedInv
-----------------------------------------------------------------------------
(* The refinement of the contract.  Phases are read off the nodes and the   *)
(* jobs; a step of the system moves the phase of one event, runs a handler  *)
(* that still may, or changes nothing the contract speaks of.               *)

Queued(e) == \E r \in Requests : request[r].event = e /\ HasJob(r)

LEMMA PhaseOf ==
  ASSUME NEW e \in Events
  PROVE  Phase(e) = IF ~Recorded(e) THEN "unknown" ELSE IF ~Queued(e) THEN "recorded"
                    ELSE IF Closed(e) THEN "settled" ELSE "queued"
BY DEF Phase, Queued

LEMMA NextPhaseOf ==
  ASSUME NEW e \in Events
  PROVE  Phase(e)' = IF ~Recorded(e)' THEN "unknown" ELSE IF ~Queued(e)' THEN "recorded"
                     ELSE IF Closed(e)' THEN "settled" ELSE "queued"
BY DEF Phase, Queued

LEMMA QueuedIsRecorded == ASSUME QueueInv, NEW e \in Events, Queued(e) PROVE Recorded(e)
BY DEF Queued, QueueInv, OwnedIsRecorded, Owns

\* A step that keeps what the phase of an event is read off keeps the phase.
LEMMA PhaseKept ==
  ASSUME NEW e \in Events, Recorded(e)' <=> Recorded(e), Queued(e)' <=> Queued(e), Closed(e)' <=> Closed(e)
  PROVE  Phase(e)' = Phase(e)
BY PhaseOf, NextPhaseOf

LEMMA QueueKept ==
  ASSUME \A r \in Requests : (HasJob(r)' <=> HasJob(r)),
         \A r \in Requests : HasJob(r) => request'[r].event = request[r].event,
         \A r \in Requests : HasJob(r) =>
           (job'[r].state \in {"completed", "failed"} <=> job[r].state \in {"completed", "failed"})
  PROVE  \A e \in Events : (Queued(e)' <=> Queued(e)) /\ (Closed(e)' <=> Closed(e))
BY DEF Queued, Closed, HasJob

LEMMA ContractStutters ==
  ASSUME \A e \in Events : Phase(e)' = Phase(e), UNCHANGED handled
  PROVE  [Contract!Next]_Contract!cvars
BY DEF Contract!cvars

LEMMA ContractMoves ==
  ASSUME NEW e \in Events, \A f \in Events \ {e} : Phase(f)' = Phase(f), UNCHANGED handled,
         \/ Phase(e) = "unknown" /\ Phase(e)' = "recorded"
         \/ Phase(e) = "recorded" /\ Phase(e)' = "queued"
         \/ Phase(e) = "queued" /\ Phase(e)' = "settled"
  PROVE  Contract!Next
<1>1. ASSUME NEW to, Phase(e)' = to
      PROVE  [f \in Events |-> Phase(f)]' = [[f \in Events |-> Phase(f)] EXCEPT ![e] = to]
  BY <1>1
<1> QED BY <1>1 DEF Contract!Next, Contract!Record, Contract!Enqueue, Contract!Settle, Contract!Move

\* An active job that is put back, completed or given up.
LEMMA JobLeavesActive ==
  ASSUME QueueInv, UNCHANGED <<record, request, handled>>,
         NEW q \in Requests, job[q].state = "active", job'[q].state \in {"wait", "completed", "failed"},
         \A r \in Requests \ {q} : job'[r] = job[r]
  PROVE  [Contract!Next]_Contract!cvars
<1> DEFINE e == request[q].event
<1>1. e \in Events /\ HasJob(q) /\ HasJob(q)' /\ Owns(q)
  BY DEF HasJob, Owns, QueueInv, JobsAnswered, Delivered, At
<1>2. \A r \in Requests : HasJob(r)' <=> HasJob(r)
  BY <1>1 DEF HasJob
<1>3. \A f \in Events : (Recorded(f)' <=> Recorded(f)) /\ (Queued(f)' <=> Queued(f))
  BY <1>2 DEF Recorded, Queued
<1>4. \A f \in Events \ {e} : Closed(f)' <=> Closed(f)
  BY DEF Closed
<1>5. \A f \in Events \ {e} : Phase(f)' = Phase(f)
  BY <1>3, <1>4, PhaseKept
<1>6. ~Closed(e)
  <2>1. \A r \in Requests : HasJob(r) /\ request[r].event = e => r = q
    BY <1>1 DEF QueueInv, OneOwner, Owns
  <2> QED BY <2>1 DEF Closed, HasJob
<1>7. Phase(e) = "queued"
  BY <1>1, <1>6, PhaseOf, QueuedIsRecorded DEF Queued
<1>8. CASE job'[q].state = "wait"
  <2>1. ~Closed(e)'
    BY <1>6, <1>8 DEF Closed
  <2>2. Phase(e)' = Phase(e)
    BY <1>1, <1>3, <1>6, <2>1, PhaseKept
  <2> QED BY <1>5, <2>2, ContractStutters
<1>9. CASE job'[q].state # "wait"
  <2>1. Closed(e)'
    BY <1>9 DEF Closed
  <2>2. Recorded(e)' /\ Queued(e)'
    BY <1>1, <1>3, QueuedIsRecorded DEF Queued
  <2>3. Phase(e)' = "settled"
    BY <1>1, <2>1, <2>2, NextPhaseOf
  <2> QED BY <1>1, <1>5, <1>7, <2>3, ContractMoves
<1> QED BY <1>8, <1>9

LEMMA ContractStep ==
  TypeOK /\ QueueInv /\ SlotInv /\ CountInv /\ QueueInv' /\ [Next]_vars => [Contract!Next]_Contract!cvars
<1> SUFFICES ASSUME TypeOK, QueueInv, SlotInv, CountInv, QueueInv', [Next]_vars
             PROVE  [Contract!Next]_Contract!cvars
  OBVIOUS
<1>1. ASSUME \/ \E r \in Requests, e \in Events : Deliver(r, e)
             \/ \E r \in Requests : Find(r) \/ RequestFails(r)
             \/ ApiCrash
             \/ UNCHANGED vars
      PROVE  [Contract!Next]_Contract!cvars
  <2>1. UNCHANGED <<record, job, handled>> /\ \A s \in Requests : HasJob(s) => request'[s].event = request[s].event
    BY <1>1, DeliverySteps
  <2>2. \A e \in Events : (Queued(e)' <=> Queued(e)) /\ (Closed(e)' <=> Closed(e))
    BY <2>1, QueueKept DEF HasJob
  <2>3. \A e \in Events : Phase(e)' = Phase(e)
    BY <2>1, <2>2, PhaseKept DEF Recorded
  <2> QED BY <2>1, <2>3, ContractStutters
<1>2. ASSUME NEW r \in Requests, Create(r) \/ CreateUnacked(r) PROVE [Contract!Next]_Contract!cvars
  <2>1. UNCHANGED <<job, handled>> /\ \A s \in Requests : request'[s].event = request[s].event
    BY <1>2, NodeCreated
  <2>2. \A e \in Events : (Queued(e)' <=> Queued(e)) /\ (Closed(e)' <=> Closed(e))
    BY <2>1, QueueKept DEF HasJob
  <2>3. CASE UNCHANGED record
    <3>1. \A e \in Events : Phase(e)' = Phase(e)
      BY <2>2, <2>3, PhaseKept DEF Recorded
    <3> QED BY <2>1, <3>1, ContractStutters
  <2>4. ASSUME NEW e \in Events, ~Recorded(e), record'[e] = [status |-> "pending", retries |-> 0],
               \A f \in Events \ {e} : record'[f] = record[f]
        PROVE  [Contract!Next]_Contract!cvars
    <3>1. Recorded(e)' /\ ~Queued(e)
      BY <2>4, QueuedIsRecorded DEF Recorded
    <3>2. Phase(e) = "unknown" /\ Phase(e)' = "recorded"
      BY <2>2, <2>4, <3>1, PhaseOf, NextPhaseOf
    <3>3. \A f \in Events \ {e} : Phase(f)' = Phase(f)
      BY <2>2, <2>4, PhaseKept DEF Recorded
    <3> QED BY <2>1, <3>2, <3>3, ContractMoves
  <2> QED BY <1>2, <2>3, <2>4, NodeCreated
<1>3. ASSUME NEW r \in Requests, Add(r) \/ AddUnacked(r) PROVE [Contract!Next]_Contract!cvars
  <2> DEFINE e == request[r].event
  <2>1. /\ UNCHANGED <<record, handled>>
        /\ \A s \in Requests : request'[s].event = request[s].event
        /\ \A s \in Requests \ {r} : job'[s] = job[s]
        /\ job[r].state = "none" /\ job'[r].state = "wait"
    BY <1>3, JobAdded
  <2>2. Owns(r) /\ e \in Events
    BY <1>3 DEF Add, AddUnacked, Owns, QueueInv, Delivered, At
  <2>3. \A s \in Requests : HasJob(s) => request[s].event # e
    BY <2>1, <2>2 DEF QueueInv, OneOwner, Owns, HasJob
  <2>4. Recorded(e) /\ ~Queued(e) /\ ~Closed(e)
    BY <2>2, <2>3 DEF QueueInv, OwnedIsRecorded, Queued, Closed, HasJob
  <2>5. Queued(e)' /\ ~Closed(e)'
    BY <2>1, <2>3 DEF Queued, Closed, HasJob
  <2>6. Phase(e) = "recorded" /\ Phase(e)' = "queued"
    BY <2>1, <2>2, <2>4, <2>5, PhaseOf, NextPhaseOf DEF Recorded
  <2>7. \A f \in Events \ {e} : (Recorded(f)' <=> Recorded(f)) /\ (Queued(f)' <=> Queued(f)) /\ (Closed(f)' <=> Closed(f))
    BY <2>1 DEF Recorded, Queued, Closed, HasJob
  <2>8. \A f \in Events \ {e} : Phase(f)' = Phase(f)
    BY <2>7, PhaseKept
  <2> QED BY <2>1, <2>2, <2>6, <2>8, ContractMoves
<1>4. ASSUME (\E w \in Workers, r \in Requests : Take(w, r)) \/ (\E w \in Workers : LoseLock(w)) \/ WorkerCrash
      PROVE  [Contract!Next]_Contract!cvars
  <2>1. UNCHANGED <<record, request, handled>>
    BY <1>4 DEF Take, LoseLock, WorkerCrash
  <2>2. \A r \in Requests : job'[r].state = job[r].state \/ (job[r].state = "wait" /\ job'[r].state = "active")
    <3>1. ASSUME NEW w \in Workers, NEW r \in Requests, Take(w, r)
          PROVE  \A s \in Requests : job'[s].state = job[s].state \/ (job[s].state = "wait" /\ job'[s].state = "active")
      BY <3>1 DEF Take, TypeOK, Jobs
    <3>2. ASSUME NEW w \in Workers, LoseLock(w) PROVE \A s \in Requests : job'[s].state = job[s].state
      BY <3>2 DEF LoseLock, TypeOK, Jobs
    <3>3. CASE WorkerCrash
      BY <3>3 DEF WorkerCrash, TypeOK, Jobs
    <3> QED BY <1>4, <3>1, <3>2, <3>3
  <2>3. \A e \in Events : (Queued(e)' <=> Queued(e)) /\ (Closed(e)' <=> Closed(e))
    BY <2>1, <2>2, QueueKept DEF HasJob
  <2>4. \A e \in Events : Phase(e)' = Phase(e)
    BY <2>1, <2>3, PhaseKept DEF Recorded
  <2> QED BY <2>1, <2>4, ContractStutters
<1>5. ASSUME NEW w \in Workers, InProcess(w) PROVE [Contract!Next]_Contract!cvars
  <2>1. PICK q \in Requests : /\ worker[w].job = q /\ HasJob(q) /\ Owns(q)
                              /\ EventOf(w) = request[q].event /\ request[q].event \in Events
    BY <1>5, InProcessMoves, AtWork
  <2> DEFINE e == request[q].event
  <2>2. UNCHANGED <<request, job>>
    BY <1>5, InProcessMoves
  <2>3. \A f \in Events : Recorded(f)' <=> Recorded(f)
    <3>1. PICK s \in Statuses \ {"none"}, n \in Nat : UNCHANGED record \/ SetStatus(w, s) \/ SetFailed(w, n)
      BY <1>5 DEF InProcess, Mark, MarkFails, Handle, HandleThrows, Complete, CompleteFails, Fail, FailFails, Statuses
    <3>2. Recorded(e)
      BY <2>1 DEF QueueInv, OwnedIsRecorded
    <3>3. record'[e].status # "none" /\ \A f \in Events \ {e} : record'[f] = record[f]
      BY <2>1, <3>1, <3>2, Written DEF Recorded
    <3> QED BY <3>2, <3>3 DEF Recorded
  <2>4. \A f \in Events : Phase(f)' = Phase(f)
    BY <2>2, <2>3, QueueKept, PhaseKept DEF HasJob
  <2>5. CASE UNCHANGED handled
    BY <2>4, <2>5, ContractStutters
  <2>6. CASE Runs(w, "handle") /\ RunHandler(w)
    <3>1. Phase(e) \in {"queued", "settled"}
      BY <2>1, PhaseOf, QueuedIsRecorded DEF Queued
    <3>2. handled[e] < Attempts + MaxStalled
      <4>1. w \in Due(q) /\ IsFiniteSet(Due(q))
        BY <2>1, <2>6 DEF Due, Runs, CountInv, DueFinite
      <4>2. Cardinality(Due(q)) \in Nat /\ Cardinality(Due(q)) # 0
        BY <4>1, FS_CardinalityType, FS_EmptySet
      <4>3. handled[e] + Cardinality(Due(q)) <= Taken(q) /\ Taken(q) <= Attempts + MaxStalled
        BY <2>1 DEF CountInv, RunsCounted, TriesLeft
      <4>4. Taken(q) \in Nat /\ handled[e] \in Nat
        BY <2>1 DEF Taken, TypeOK, Jobs
      <4> HIDE DEF Taken, Due, e
      <4> QED BY <4>2, <4>3, <4>4, BoundsAssumption
    <3>3. handled' = [handled EXCEPT ![e] = handled[e] + 1]
      BY <2>1, <2>6 DEF RunHandler
    <3>4. UNCHANGED [f \in Events |-> Phase(f)]
      BY <2>4
    <3>5. Contract!Run(e)
      BY <2>1, <3>1, <3>2, <3>3, <3>4 DEF Contract!Run
    <3> QED BY <2>1, <3>5 DEF Contract!Next
  <2> QED BY <1>5, <2>5, <2>6 DEF InProcess, Mark, MarkFails, Handle, HandleThrows, Complete, CompleteFails, Fail, FailFails
<1>6. ASSUME NEW w \in Workers, Return(w) \/ Throw(w) PROVE [Contract!Next]_Contract!cvars
  <2>1. UNCHANGED <<record, request, handled>> /\ Busy(w) /\ (~Holds(w) => UNCHANGED job)
    BY <1>6, Freed
  <2>2. PICK q \in Requests : worker[w].job = q
    BY <2>1, AtWork
  <2>3. CASE Holds(w)
    <3>1. job[q].state = "active"
      BY <2>2, <2>3, NoneAssumption DEF Holds, QueueInv, LockedIsActive
    <3>2. job'[q].state \in {"wait", "completed", "failed"}
      BY <1>6, <2>2, <2>3 DEF Return, Throw, Settle, TypeOK, Jobs
    <3>3. \A r \in Requests \ {q} : job'[r] = job[r]
      BY <1>6, <2>2, Freed
    <3> QED BY <2>1, <3>1, <3>2, <3>3, JobLeavesActive
  <2>4. CASE ~Holds(w)
    <3>1. \A e \in Events : (Queued(e)' <=> Queued(e)) /\ (Closed(e)' <=> Closed(e))
      BY <2>1, <2>4, QueueKept DEF HasJob
    <3>2. \A e \in Events : Phase(e)' = Phase(e)
      BY <2>1, <3>1, PhaseKept DEF Recorded
    <3> QED BY <2>1, <3>2, ContractStutters
  <2> QED BY <2>3, <2>4
<1>7. ASSUME NEW r \in Requests, Stalled(r) PROVE [Contract!Next]_Contract!cvars
  <2>1. /\ UNCHANGED <<record, request, handled>> /\ job[r].state = "active"
        /\ job'[r].state \in {"wait", "failed"}
        /\ \A s \in Requests \ {r} : job'[s] = job[s]
    BY <1>7 DEF Stalled, TypeOK, Jobs
  <2> QED BY <2>1, JobLeavesActive
<1> QED BY <1>1, <1>2, <1>3, <1>4, <1>5, <1>6, <1>7
        DEF Next, RequestStep, RequestFault, WorkerStep, WorkerFault, InProcess

(* Intake, queue and workers together keep the contract: an event is        *)
(* recorded, queued and settled in that order, none of it is ever undone,   *)
(* and a handler runs only for a queued event that has runs left.           *)
THEOREM ContractKept == Spec => ImplementsContract
<1>1. Init => Contract!Init
  BY DEF Init, Contract!Init, Phase, Recorded
<1>2. Init => QueueInv /\ SlotInv /\ CountInv
  BY QueueInvInit, SlotInvInit, CountInvInit
<1> QED BY <1>1, <1>2, QueueInvStep, SlotInvStep, CountInvStep, ContractStep, TypeCorrect, PTL
        DEF Spec, ImplementsContract, Contract!Spec
=============================================================================
