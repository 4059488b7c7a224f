------------------------ MODULE PlansAndRecords_proofs -----------------------
(***************************************************************************)
(* What is on offer, what a subscription makes of it, what roles may do    *)
(* and the records that are edited: SubscriptionSync, StripeCatalogue,     *)
(* RolePermissions and EntityRecords, each by an invariant of its own.     *)
(***************************************************************************)
EXTENDS SubscriptionSync, StripeCatalogue, RolePermissions, EntityRecords,
        SequenceTheorems, FiniteSetTheorems, WellFoundedInduction, TLAPS

-----------------------------------------------------------------------------
(* Subscriptions: type correctness, that no company is up for deletion      *)
(* before a subscription of its has ended, and that a company comes to be   *)
(* served as it pays while events are handled in order.                     *)

\* What Stripe emits are events, and it stays within the bound.
LEMMA BecomeTyped ==
  ASSUME NEW s \in Subs, NEW status \in Statuses, NEW p \in Prices, NEW paid \in BOOLEAN,
         stripe \in [Subs -> Record], queue \in Seq(Event), emitted \in 0..MaxEvents,
         \A t \in Subs : stripe[t].status # "none" => stripe[t].price \in Prices,
         Become(s, status, p, paid)
  PROVE  /\ stripe' \in [Subs -> Record]
         /\ \A t \in Subs : stripe'[t].status # "none" => stripe'[t].price \in Prices
         /\ queue' \in Seq(Event)
         /\ emitted' \in 0..MaxEvents
<1> DEFINE news == <<SubEvent(s, status, p)>> \o (IF paid THEN <<PaidEvent(s, p)>> ELSE <<>>)
<1>1. SubEvent(s, status, p) \in Event /\ PaidEvent(s, p) \in Event
  BY DEF SubEvent, PaidEvent, Event, Statuses
<1>2. <<SubEvent(s, status, p)>> \in Seq(Event) /\ <<PaidEvent(s, p)>> \in Seq(Event)
  BY <1>1
<1>3. news \in Seq(Event)
  <2>1. (IF paid THEN <<PaidEvent(s, p)>> ELSE <<>>) \in Seq(Event)
    BY <1>2
  <2> QED  BY <1>2, <2>1, ConcatProperties
<1>4. /\ emitted + Len(news) <= MaxEvents
      /\ emitted' = emitted + Len(news)
      /\ queue' = queue \o news
      /\ stripe' = [stripe EXCEPT ![s] = [status |-> status, price |-> p]]
  BY DEF Become
<1>5. Len(news) \in Nat
  BY <1>3, LenProperties
<1> HIDE DEF news
<1>6. queue' \in Seq(Event)
  BY <1>3, <1>4, ConcatProperties
<1>7. emitted' \in 0..MaxEvents
  BY <1>4, <1>5, SwitchesAssumption
<1>8. stripe' \in [Subs -> Record]
  BY <1>4 DEF Record, Price
<1>9. \A t \in Subs : stripe'[t].status # "none" => stripe'[t].price \in Prices
  BY <1>4
<1> QED  BY <1>6, <1>7, <1>8, <1>9

\* What is emitted is in the queue afterwards, behind what was there.
LEMMA BecomeQueues ==
  ASSUME NEW s \in Subs, NEW status \in Statuses, NEW p \in Prices, NEW paid \in BOOLEAN,
         queue \in Seq(Event), Become(s, status, p, paid), NEW i \in 1..Len(queue')
  PROVE  \/ i \in 1..Len(queue) /\ queue'[i] = queue[i]
         \/ queue'[i] \in {SubEvent(s, status, p), PaidEvent(s, p)}
<1> DEFINE news == <<SubEvent(s, status, p)>> \o (IF paid THEN <<PaidEvent(s, p)>> ELSE <<>>)
<1>1. SubEvent(s, status, p) \in Event /\ PaidEvent(s, p) \in Event
  BY DEF SubEvent, PaidEvent, Event, Statuses
<1>2. \A k \in 1..Len(news) : news[k] \in {SubEvent(s, status, p), PaidEvent(s, p)}
  <2>1. CASE paid
    BY <2>1
  <2>2. CASE ~paid
    BY <2>2
  <2> QED  BY <2>1, <2>2
<1>3. news \in Seq(Event)
  <2>1. <<SubEvent(s, status, p)>> \in Seq(Event) /\ <<PaidEvent(s, p)>> \in Seq(Event)
    BY <1>1
  <2>2. (IF paid THEN <<PaidEvent(s, p)>> ELSE <<>>) \in Seq(Event)
    BY <2>1
  <2> QED  BY <2>1, <2>2, ConcatProperties
<1>4. queue' = queue \o news
  BY DEF Become
<1> HIDE DEF news
<1>5. CASE i \in 1..Len(queue)
  BY <1>3, <1>4, <1>5, ConcatProperties
<1>6. CASE i \notin 1..Len(queue)
  <2>1. /\ Len(queue') = Len(queue) + Len(news)
        /\ queue'[i] = news[i - Len(queue)]
        /\ Len(queue) \in Nat /\ Len(news) \in Nat
    BY <1>3, <1>4, <1>6, ConcatProperties, LenProperties
  <2>2. i - Len(queue) \in 1..Len(news)
    BY <1>6, <2>1
  <2> QED  BY <1>2, <2>1, <2>2
<1> QED  BY <1>5, <1>6

\* Taking an event out leaves a queue of events that were there.
LEMMA RemoveKeeps ==
  ASSUME NEW q \in Seq(Event), NEW i \in 1..Len(q)
  PROVE  /\ RemoveAt(q, i) \in Seq(Event)
         /\ \A k \in 1..Len(RemoveAt(q, i)) : \E m \in 1..Len(q) : RemoveAt(q, i)[k] = q[m]
<1> DEFINE a == SubSeq(q, 1, i - 1)
           b == SubSeq(q, i + 1, Len(q))
<1>1. /\ a \in Seq(Event) /\ Len(a) = i - 1
      /\ \A k \in 1..Len(a) : a[k] = q[k]
  BY SubSeqProperties
<1>2. /\ b \in Seq(Event) /\ Len(b) = Len(q) - i
      /\ \A k \in 1..Len(b) : b[k] = q[i + k]
  BY SubSeqProperties
<1>3. RemoveAt(q, i) = a \o b
  BY DEF RemoveAt
<1>4. Len(q) \in Nat
  BY LenProperties
<1> HIDE DEF a, b
<1>5. /\ a \o b \in Seq(Event) /\ Len(a \o b) = Len(a) + Len(b)
      /\ \A k \in 1..Len(a \o b) : (a \o b)[k] = IF k <= Len(a) THEN a[k] ELSE b[k - Len(a)]
  <2>1. a \in Seq(Event) /\ b \in Seq(Event)
    BY <1>1, <1>2
  <2>2. Len(a \o b) = Len(a) + Len(b)
    BY ONLY <2>1, ConcatProperties
  <2>3. ASSUME NEW k \in 1..Len(a \o b)
        PROVE  (a \o b)[k] = IF k <= Len(a) THEN a[k] ELSE b[k - Len(a)]
    BY ONLY <2>1, <2>2, <2>3, ConcatProperties
  <2> QED  BY <2>1, <2>2, <2>3, ConcatProperties
<1>6. ASSUME NEW k \in 1..Len(a \o b) PROVE \E m \in 1..Len(q) : (a \o b)[k] = q[m]
  <2>1. CASE k <= Len(a)
    BY <1>1, <1>4, <1>5, <2>1
  <2>2. CASE ~(k <= Len(a))
    <3>1. k - Len(a) \in 1..Len(b)
      BY <1>1, <1>2, <1>4, <1>5, <2>2
    <3>2. (a \o b)[k] = q[i + (k - Len(a))]
      BY <1>2, <1>5, <2>2, <3>1
    <3>3. i + (k - Len(a)) \in 1..Len(q)
      BY <1>1, <1>2, <1>4, <3>1
    <3> QED  BY <3>2, <3>3
  <2> QED  BY <2>1, <2>2
<1> QED  BY <1>3, <1>5, <1>6

LEMMA AppendKeeps ==
  ASSUME NEW q \in Seq(Event), NEW e \in Event
  PROVE  /\ Append(q, e) \in Seq(Event)
         /\ \A k \in 1..Len(Append(q, e)) :
              Append(q, e)[k] = e \/ (k \in 1..Len(q) /\ Append(q, e)[k] = q[k])
<1>1. /\ Append(q, e) \in Seq(Event)
      /\ Len(Append(q, e)) = Len(q) + 1
      /\ \A k \in 1..Len(q) : Append(q, e)[k] = q[k]
      /\ Append(q, e)[Len(q) + 1] = e
  BY AppendProperties
<1>2. Len(q) \in Nat
  BY LenProperties
<1>3. ASSUME NEW k \in 1..Len(Append(q, e))
      PROVE  Append(q, e)[k] = e \/ (k \in 1..Len(q) /\ Append(q, e)[k] = q[k])
  <2>1. k = Len(q) + 1 \/ k \in 1..Len(q)
    BY <1>1, <1>2
  <2>2. CASE k = Len(q) + 1
    BY <1>1, <2>2
  <2>3. CASE k \in 1..Len(q)
    BY <1>1, <2>3
  <2> QED  BY <2>1, <2>2, <2>3
<1>4. \A k \in 1..Len(Append(q, e)) :
        Append(q, e)[k] = e \/ (k \in 1..Len(q) /\ Append(q, e)[k] = q[k])
  BY ONLY <1>3
<1> QED  BY <1>1, <1>4

-----------------------------------------------------------------------------
(* Type correctness, one lemma for each kind of process. *)

LEMMA StripeStepTyped ==
  ASSUME TypeOK, NEW s \in Subs, StripeStep(s)
  PROVE  TypeOK'
<1> USE DEF TypeOK
<1>0. Free \subseteq Prices
  BY PricesAssumption
<1>p. stripe[s].status # "none" => stripe[s].price \in Prices
  OBVIOUS
<1>t. {"active", "past_due", "canceled"} \subseteq Statuses /\ TRUE \in BOOLEAN /\ FALSE \in BOOLEAN
  BY DEF Statuses
<1>1. CASE Pay(s)
  BY <1>1, <1>p, <1>t, BecomeTyped DEF Pay
<1>2. CASE TrialEnds(s)
  BY <1>2, <1>p, <1>t, BecomeTyped DEF TrialEnds
<1>3. CASE PastDue(s)
  BY <1>3, <1>p, <1>t, BecomeTyped DEF PastDue
<1>4. CASE StripeEnds(s)
  BY <1>4, <1>p, <1>t, BecomeTyped DEF StripeEnds
<1>5. ASSUME NEW p \in Prices, DashboardChange(s, p) PROVE TypeOK'
  BY <1>5, <1>t, BecomeTyped DEF DashboardChange
<1> QED  BY <1>1, <1>2, <1>3, <1>4, <1>5 DEF StripeStep

LEMMA ApiCallTyped ==
  ASSUME TypeOK, NEW s \in Subs, ApiCall(s)
  PROVE  TypeOK'
<1> USE DEF TypeOK
<1>p. /\ stripe[s].status # "none" => stripe[s].price \in Prices
      /\ stripe[s].status \in Statuses
  BY DEF Record
<1>t. {"incomplete", "trialing", "active", "canceled"} \subseteq Statuses
  BY DEF Statuses
<1>c. ASSUME NEW step \in ApiSteps, NEW status \in Statuses, NEW p \in Prices, SetApi(step, s, status, p)
      PROVE  api' \in Call /\ api'.sub \in Subs
  BY <1>c DEF SetApi, Call, Price
<1>d. {"record", "reprice", "restatus"} \subseteq ApiSteps
  BY DEF ApiSteps
<1>1. ASSUME NEW p \in Prices, Subscribe(s, p) PROVE TypeOK'
  <2>1. api' \in Call /\ api'.sub \in Subs
    BY <1>1, <1>c, <1>d, <1>t DEF Subscribe
  <2> QED  BY <1>1, <1>t, <2>1, BecomeTyped DEF Subscribe
<1>2. ASSUME NEW p \in Prices, StartTrial(s, p) PROVE TypeOK'
  <2>1. api' \in Call /\ api'.sub \in Subs
    BY <1>2, <1>c, <1>d, <1>t DEF StartTrial
  <2> QED  BY <1>2, <1>t, <2>1, BecomeTyped DEF StartTrial
<1>3. ASSUME NEW p \in Prices, ChangePlan(s, p) PROVE TypeOK'
  <2> DEFINE status == IF local[s].status = "trialing" THEN "active" ELSE stripe[s].status
             paid == stripe[s].price \in Free
  <2>1. status \in Statuses /\ paid \in BOOLEAN
    BY <1>p, <1>t
  <2>2. Become(s, status, p, paid) /\ SetApi("reprice", s, status, p)
    BY <1>3 DEF ChangePlan
  <2> HIDE DEF status, paid
  <2>3. api' \in Call /\ api'.sub \in Subs
    BY <1>c, <1>d, <2>1, <2>2
  <2>4. UNCHANGED <<local, company, worker, ended, faults>>
    BY <1>3 DEF ChangePlan
  <2> QED  BY <2>1, <2>2, <2>3, <2>4, BecomeTyped
<1>4. CASE Cancel(s)
  <2>1. stripe[s].price \in Prices
    BY <1>4, <1>p DEF Cancel
  <2>2. api' \in Call /\ api'.sub \in Subs
    BY <1>4, <1>c, <1>d, <1>t, <2>1 DEF Cancel
  <2> QED  BY <1>4, <1>t, <2>1, <2>2, BecomeTyped DEF Cancel
<1> QED  BY <1>1, <1>2, <1>3, <1>4 DEF ApiCall

LEMMA ApiStepTyped ==
  ASSUME TypeOK, ApiStep
  PROVE  TypeOK'
<1> USE DEF TypeOK
<1>i. IdleApi \in Call /\ IdleApi.pc = "idle"
  BY DEF IdleApi, Call, ApiSteps, Statuses, Price
<1>r. ASSUME NEW step \in ApiSteps PROVE [api EXCEPT !.pc = step] \in Call
  BY DEF Call
<1>d. {"grant", "activate", "restatus"} \subseteq ApiSteps
  BY DEF ApiSteps
<1>a. api.status \in Statuses /\ api.price \in Price
  BY DEF Call
<1>1. CASE WriteRecord
  <2>1. local' \in [Subs -> Record]
    BY <1>1, <1>a DEF WriteRecord, Record
  <2>2. api' \in Call /\ (api'.pc # "idle" => api'.sub \in Subs)
    <3>1. CASE api.status = "trialing"
      <4>1. api' = [api EXCEPT !.pc = "grant"]
        BY <1>1, <3>1 DEF WriteRecord
      <4>2. api'.sub = api.sub
        BY <4>1 DEF Call
      <4> QED  BY <1>1, <1>r, <1>d, <4>1, <4>2 DEF WriteRecord
    <3>2. CASE api.status # "trialing"
      BY <1>1, <1>i, <3>2 DEF WriteRecord
    <3> QED  BY <3>1, <3>2
  <2> QED  BY <1>1, <2>1, <2>2 DEF WriteRecord
<1>2. CASE Grant
  <2>1. company' \in Company
    BY <1>2, <1>a DEF Grant, Company
  <2>2. api' \in Call /\ api'.sub = api.sub
    BY <1>2, <1>r, <1>d DEF Grant, Call
  <2> QED  BY <1>2, <2>1, <2>2 DEF Grant
<1>3. CASE Activate
  <2>1. company' \in Company
    BY <1>3 DEF Activate, Company
  <2> QED  BY <1>3, <1>i, <2>1 DEF Activate
<1>4. CASE UpdatePrice
  <2>1. local' \in [Subs -> Record]
    BY <1>4, <1>a DEF UpdatePrice, Record
  <2>2. api' \in Call /\ api'.sub = api.sub
    BY <1>4, <1>r, <1>d DEF UpdatePrice, Call
  <2> QED  BY <1>4, <2>1, <2>2 DEF UpdatePrice
<1>5. CASE UpdateStatus
  <2>1. local' \in [Subs -> Record]
    BY <1>5, <1>a DEF UpdateStatus, Record
  <2> QED  BY <1>5, <1>i, <2>1 DEF UpdateStatus
<1> QED  BY <1>1, <1>2, <1>3, <1>4, <1>5 DEF ApiStep

\* What TypeOK says of the slots.
SlotsTyped == /\ worker \in [Workers -> Slot]
              /\ \A w \in Workers : worker[w].pc # "idle" => worker[w].event \in Event
              /\ \A w \in Workers : worker[w].pc = "grow" => worker[w].plan \in Prices

\* A slot takes a new value that fits.
LEMMA SlotTyped ==
  ASSUME TypeOK, NEW w \in Workers, NEW new \in Slot, worker' = [worker EXCEPT ![w] = new],
         new.pc # "idle" => new.event \in Event, new.pc = "grow" => new.plan \in Prices
  PROVE  SlotsTyped'
BY DEF TypeOK, SlotsTyped

\* A slot goes on with its event, or is idle again.
LEMMA WorkerTyped ==
  ASSUME TypeOK, NEW w \in Workers, worker[w].pc # "idle"
  PROVE  /\ \A step \in WorkerSteps \ {"grow"} : Goto(w, step) => SlotsTyped'
         /\ Done(w) => SlotsTyped'
<1> USE DEF TypeOK
<1>1. ASSUME NEW step \in WorkerSteps \ {"grow"}, Goto(w, step)
      PROVE  SlotsTyped'
  <2> DEFINE new == [worker[w] EXCEPT !.pc = step]
  <2>1. new \in Slot /\ new.event = worker[w].event /\ new.pc = step
    BY DEF Slot
  <2>2. worker' = [worker EXCEPT ![w] = new]
    BY <1>1 DEF Goto
  <2> HIDE DEF new
  <2> QED  BY <2>1, <2>2, SlotTyped
<1>2. ASSUME Done(w)
      PROVE  SlotsTyped'
  <2>1. IdleSlot \in Slot /\ IdleSlot.pc = "idle"
    BY DEF IdleSlot, Slot, WorkerSteps, Record, NoRecord, Statuses, Price
  <2> QED  BY <1>2, <2>1, SlotTyped DEF Done
<1> QED  BY <1>1, <1>2

\* A handler's step writes the company's data and moves the slot on.
LEMMA HandlerStepTyped ==
  ASSUME TypeOK, NEW w \in Workers, HandlerStep(w)
  PROVE  TypeOK'
<1> USE DEF TypeOK
<1>w. /\ \A step \in WorkerSteps \ {"grow"} : worker[w].pc # "idle" /\ Goto(w, step) => SlotsTyped'
      /\ worker[w].pc # "idle" /\ Done(w) => SlotsTyped'
  BY WorkerTyped
<1>s. {"idle", "previous", "fetch", "sync", "off", "zero", "cover", "strip",
       "schedule", "prorate", "allocate", "on", "fill", "look", "grow", "clear", "unschedule"} \subseteq WorkerSteps
  BY DEF WorkerSteps
<1>e. worker[w].pc # "idle" => SubOf(w) \in Subs /\ worker[w].event.price \in Prices
  BY DEF SubOf, Event
<1>c. ASSUME worker[w].pc # "idle", company' \in Company, SlotsTyped',
             UNCHANGED <<stripe, emitted, api, ended, queue, local, faults>>
      PROVE  TypeOK'
  BY <1>c DEF SlotsTyped
<1>l. ASSUME UNCHANGED <<stripe, emitted, api, ended, queue, local, company, faults>>, SlotsTyped'
      PROVE  TypeOK'
  BY <1>l DEF SlotsTyped
<1>1. CASE ReadPrevious(w)
  <2> DEFINE new == [worker[w] EXCEPT !.pc = "fetch", !.prev = local[SubOf(w)]]
  <2>1. worker[w].pc # "idle" /\ local[SubOf(w)] \in Record
    BY <1>1, <1>e DEF ReadPrevious, Runs
  <2>2. new \in Slot /\ new.event = worker[w].event /\ new.pc = "fetch"
    BY <2>1, <1>s DEF Slot
  <2>3. worker' = [worker EXCEPT ![w] = new]
    BY <1>1 DEF ReadPrevious
  <2> HIDE DEF new
  <2>4. SlotsTyped'
    BY <2>1, <2>2, <2>3, SlotTyped
  <2> QED  BY <1>1, <1>l, <2>4 DEF ReadPrevious, outside
<1>2. CASE Fetch(w)
  <2> DEFINE new == [worker[w] EXCEPT !.pc = "sync", !.snap = stripe[SubOf(w)].status]
  <2>1. worker[w].pc # "idle" /\ stripe[SubOf(w)].status \in Statuses
    BY <1>2, <1>e DEF Fetch, Runs, Record
  <2>2. new \in Slot /\ new.event = worker[w].event /\ new.pc = "sync"
    BY <2>1, <1>s DEF Slot
  <2>3. worker' = [worker EXCEPT ![w] = new]
    BY <1>2 DEF Fetch
  <2> HIDE DEF new
  <2>4. SlotsTyped'
    BY <2>1, <2>2, <2>3, SlotTyped
  <2> QED  BY <1>2, <1>l, <2>4 DEF Fetch, outside
<1>3. CASE Sync(w)
  <2>1. worker[w].pc # "idle"
    BY <1>3 DEF Sync, Runs
  <2>2. \E step \in WorkerSteps \ {"grow"} : Goto(w, step)
    BY <1>3, <1>s DEF Sync
  <2>3. SlotsTyped'
    BY <1>w, <2>1, <2>2
  <2>4. local' \in [Subs -> Record]
    <3>1. worker[w].snap \in Statuses
      BY DEF Slot
    <3>2. [local EXCEPT ![SubOf(w)].status = worker[w].snap] \in [Subs -> Record]
      BY <3>1 DEF Record
    <3> QED  BY <1>3, <3>2 DEF Sync
  <2>5. UNCHANGED <<stripe, emitted, api, ended, queue, company, faults>>
    BY <1>3 DEF Sync, outside
  <2> QED  BY <2>3, <2>4, <2>5 DEF SlotsTyped
<1>4. CASE Off(w)
  <2>1. company' \in Company
    BY <1>4 DEF Off, SetCompany, Company
  <2> QED  BY <1>4, <1>c, <1>w, <1>s, <2>1 DEF Off, Runs, outside
<1>5. CASE Zero(w)
  <2>1. company' \in Company
    BY <1>5 DEF Zero, SetCompany, Company, Price
  <2> QED  BY <1>5, <1>c, <1>w, <1>s, <2>1 DEF Zero, Runs, outside
<1>6. CASE Cover(w)
  <2> DEFINE mine == {local[SubOf(w)].price} \cap Featured
             others == {local[s].price : s \in {t \in Subs \ {SubOf(w)} : Live(t)}}
             new == [worker[w] EXCEPT !.pc = "strip", !.drop = mine \ others]
  <2>1. worker[w].pc # "idle"
    BY <1>6 DEF Cover, Runs
  <2>2. mine \ others \in SUBSET Prices
    BY PricesAssumption
  <2>3. worker' = [worker EXCEPT ![w] = new]
    BY <1>6 DEF Cover
  <2> HIDE DEF mine, others
  <2>4. new \in Slot /\ new.event = worker[w].event /\ new.pc = "strip"
    BY <1>s, <2>2 DEF Slot
  <2> HIDE DEF new
  <2>5. SlotsTyped'
    BY <2>1, <2>3, <2>4, SlotTyped
  <2> QED  BY <1>6, <1>l, <2>5 DEF Cover, outside
<1>7. CASE Strip(w)
  <2>1. company' \in Company
    BY <1>7 DEF Strip, SetCompany, Company
  <2> QED  BY <1>7, <1>c, <1>w, <1>s, <2>1 DEF Strip, Runs, outside
<1>8. CASE Schedule(w)
  <2>1. company' = [company EXCEPT !.deletion = (company.deletion \/ TrialOver(w) \/ worker[w].event.status = "canceled")]
    BY <1>8 DEF Schedule, SetCompany
  <2>2. company' \in Company
    <3>1. (company.deletion \/ TrialOver(w) \/ worker[w].event.status = "canceled") \in BOOLEAN
      OBVIOUS
    <3> QED  BY <2>1, <3>1 DEF Company
  <2> QED  BY <1>8, <1>c, <1>w, <1>s, <2>2 DEF Schedule, Runs, outside
<1>9. CASE Prorate(w)
  <2>1. worker[w].pc # "idle"
    BY <1>9 DEF Prorate, Runs
  <2>2. [company EXCEPT !.plan = worker[w].event.price] \in Company
    BY <1>e, <2>1 DEF Company, Price
  <2>3. company' \in Company
    BY <1>9, <2>2 DEF Prorate, SetCompany
  <2> QED  BY <1>9, <1>c, <1>w, <2>1, <2>3 DEF Prorate, outside
<1>10. CASE Allocate(w)
  <2> DEFINE step == IF local[SubOf(w)].status = "none" THEN "look" ELSE "on"
             new == [worker[w] EXCEPT !.plan = local[SubOf(w)].price, !.pc = step]
  <2>1. worker[w].pc # "idle" /\ local[SubOf(w)].price \in Price
    BY <1>10, <1>e DEF Allocate, Runs, Record
  <2>2. step \in WorkerSteps \ {"grow"}
    BY <1>s
  <2>3. worker' = [worker EXCEPT ![w] = new]
    BY <1>10 DEF Allocate
  <2> HIDE DEF step
  <2>4. new \in Slot /\ new.event = worker[w].event /\ new.pc = step
    BY <2>1, <2>2 DEF Slot
  <2> HIDE DEF new
  <2>5. SlotsTyped'
    BY <2>1, <2>2, <2>3, <2>4, SlotTyped
  <2> QED  BY <1>10, <1>l, <2>5 DEF Allocate, outside
<1>11. CASE On(w)
  <2>1. company' \in Company
    BY <1>11 DEF On, SetCompany, Company
  <2> QED  BY <1>11, <1>c, <1>w, <1>s, <2>1 DEF On, Runs, outside
<1>12. CASE Fill(w)
  <2>1. company' \in Company
    BY <1>12 DEF Fill, SetCompany, Company, Slot
  <2> QED  BY <1>12, <1>c, <1>w, <1>s, <2>1 DEF Fill, Runs, outside
<1>13. CASE Look(w)
  <2> DEFINE p == local[SubOf(w)].price
             new == [worker[w] EXCEPT !.plan = p, !.pc = "grow"]
  <2>1. worker[w].pc # "idle" /\ p \in Price
    BY <1>13, <1>e DEF Look, Runs, Record
  <2>2. CASE p \in Featured
    <3>1. worker' = [worker EXCEPT ![w] = new]
      BY <1>13, <2>2 DEF Look
    <3>p. p \in Prices
      BY <2>2, PricesAssumption
    <3> HIDE DEF p
    <3>2. new \in Slot /\ new.plan \in Prices /\ new.event = worker[w].event /\ new.pc = "grow"
      BY <1>s, <2>1, <3>p DEF Slot
    <3> HIDE DEF new
    <3>3. SlotsTyped'
      BY <2>1, <2>2, <3>1, <3>2, SlotTyped
    <3> QED  BY <1>13, <1>l, <3>3 DEF Look, outside
  <2>3. CASE p \notin Featured
    <3>1. Done(w)
      BY <1>13, <2>3 DEF Look
    <3> QED  BY <1>13, <1>l, <1>w, <2>1, <3>1 DEF Look, outside
  <2> QED  BY <2>2, <2>3
<1>14. CASE Grow(w)
  <2>1. worker[w].plan \in Prices
    BY <1>14 DEF Grow, Runs
  <2>2. company' \in Company
    BY <1>14, <2>1 DEF Grow, SetCompany, Company
  <2> QED  BY <1>14, <1>c, <1>w, <1>s, <2>2 DEF Grow, Runs, outside
<1>15. CASE Clear(w)
  <2>1. worker[w].pc # "idle"
    BY <1>15 DEF Clear, Runs
  <2>2. Goto(w, "unschedule") \/ Done(w)
    BY <1>15 DEF Clear
  <2> QED  BY <1>15, <1>l, <1>w, <1>s, <2>1, <2>2 DEF Clear, outside
<1>16. CASE Unschedule(w)
  <2>1. company' \in Company
    BY <1>16 DEF Unschedule, SetCompany, Company
  <2> QED  BY <1>16, <1>c, <1>w, <2>1 DEF Unschedule, Runs, outside
<1> QED  BY <1>1, <1>2, <1>3, <1>4, <1>5, <1>6, <1>7, <1>8, <1>9, <1>10, <1>11, <1>12, <1>13, <1>14,
         <1>15, <1>16
         DEF HandlerStep

\* Intake, retries and swallowed failures.
LEMMA SlotStepTyped ==
  ASSUME TypeOK, NEW w \in Workers, Take(w) \/ Retry(w) \/ Swallow(w)
  PROVE  TypeOK'
<1> USE DEF TypeOK
<1>1. CASE Take(w)
  <2>1. PICK i \in 1..Len(queue) :
          /\ worker' = [worker EXCEPT ![w] =
               [IdleSlot EXCEPT !.event = queue[i],
                                !.pc = IF queue[i].kind = "sub" THEN "previous" ELSE "fetch"]]
          /\ queue' = RemoveAt(queue, i)
    BY <1>1 DEF Take
  <2>2. queue' \in Seq(Event)
    BY <2>1, RemoveKeeps
  <2>3. queue[i] \in Event
    BY <2>1
  <2> DEFINE step == IF queue[i].kind = "sub" THEN "previous" ELSE "fetch"
             new == [IdleSlot EXCEPT !.event = queue[i], !.pc = step]
  <2>4. step \in WorkerSteps \ {"grow"}
    BY DEF WorkerSteps
  <2>5. worker' = [worker EXCEPT ![w] = new]
    BY <2>1
  <2> HIDE DEF step
  <2>6. new \in Slot /\ new.event = queue[i] /\ new.pc = step
    BY <2>3, <2>4 DEF IdleSlot, Slot, Record, NoRecord, Statuses, Price
  <2> HIDE DEF new
  <2>7. SlotsTyped'
    BY <2>3, <2>4, <2>5, <2>6, SlotTyped
  <2> QED  BY <1>1, <2>2, <2>7 DEF Take, outside, SlotsTyped
<1>f. Fault => faults' \in 0..MaxFaults
  BY SwitchesAssumption DEF Fault
<1>2. CASE Retry(w)
  <2>1. worker[w].pc # "idle"
    BY <1>2 DEF Retry, Runs
  <2>2. queue' \in Seq(Event)
    BY <1>2, <2>1, AppendKeeps DEF Retry
  <2>3. SlotsTyped'
    BY <1>2, <2>1, WorkerTyped DEF Retry
  <2> QED  BY <1>2, <1>f, <2>2, <2>3 DEF Retry, outside, SlotsTyped
<1>3. CASE Swallow(w)
  <2>1. worker[w].pc # "idle"
    BY <1>3 DEF Swallow
  <2>2. Done(w) \/ \E step \in WorkerSteps \ {"grow"} : Goto(w, step)
    BY <1>3 DEF Swallow, WorkerSteps
  <2>3. SlotsTyped'
    BY <2>1, <2>2, WorkerTyped
  <2> QED  BY <1>3, <1>f, <2>3 DEF Swallow, outside, SlotsTyped
<1> QED  BY <1>1, <1>2, <1>3

LEMMA InitTyped == Init => TypeOK
<1> SUFFICES ASSUME Init PROVE TypeOK
  OBVIOUS
<1>1. NoRecord \in Record /\ NoRecord.status = "none"
  BY DEF NoRecord, Record, Statuses, Price
<1>2. IdleSlot \in Slot /\ IdleSlot.pc = "idle"
  BY DEF IdleSlot, Slot, WorkerSteps, Record, NoRecord, Statuses, Price
<1>3. IdleApi \in Call /\ IdleApi.pc = "idle"
  BY DEF IdleApi, Call, ApiSteps, Statuses, Price
<1>4. company \in Company
  BY DEF Init, Company, Price
<1>5. 0 \in 0..MaxEvents /\ 0 \in 0..MaxFaults
  BY SwitchesAssumption
<1>6. queue \in Seq(Event)
  BY DEF Init
<1>7. stripe \in [Subs -> Record] /\ local \in [Subs -> Record] /\ \A s \in Subs : stripe[s].status = "none"
  BY <1>1 DEF Init
<1>8. worker \in [Workers -> Slot] /\ \A w \in Workers : worker[w].pc = "idle"
  BY <1>2 DEF Init
<1> QED  BY <1>3, <1>4, <1>5, <1>6, <1>7, <1>8 DEF Init, TypeOK

LEMMA NextTyped == TypeOK /\ [Next]_vars => TypeOK'
<1> SUFFICES ASSUME TypeOK, [Next]_vars PROVE TypeOK'
  OBVIOUS
<1>1. CASE UNCHANGED vars
  BY <1>1 DEF vars, TypeOK
<1>2. ASSUME NEW s \in Subs, StripeStep(s) \/ ApiCall(s) PROVE TypeOK'
  BY <1>2, StripeStepTyped, ApiCallTyped
<1>3. CASE ApiStep
  BY <1>3, ApiStepTyped
<1>4. ASSUME NEW w \in Workers, Take(w) \/ HandlerStep(w) \/ Retry(w) \/ Swallow(w) PROVE TypeOK'
  BY <1>4, HandlerStepTyped, SlotStepTyped
<1> QED  BY <1>1, <1>2, <1>3, <1>4 DEF Next

\* Whatever order events are taken in and whatever fails, records, slots and
\* calls hold what their types say, and at most MaxEvents events are emitted.
THEOREM TypeCorrect == Spec => []TypeOK
<1>1. Init => TypeOK
  BY InitTyped
<1>2. TypeOK /\ [Next]_vars => TypeOK'
  BY NextTyped
<1> QED  BY <1>1, <1>2, PTL DEF Spec

-----------------------------------------------------------------------------
(* Deletion.  The payload that has the deletion scheduled must be known to   *)
(* tell an end, wherever it is: in the queue, in a slot, in a slot about to  *)
(* schedule; and a free price at Stripe must mean a trial or its end.        *)

TellsEnd(e) == e.kind = "sub" /\ (e.status = "canceled" \/ (e.status = "active" /\ e.price \in Free))
OffTrack == {"off", "zero", "cover", "strip", "schedule"}

FreeMeansTrial == \A s \in Subs : stripe[s].price \in Free => stripe[s].status = "trialing" \/ ended
QueueTells == \A i \in 1..Len(queue) : TellsEnd(queue[i]) => ended
SlotTells(w) == /\ worker[w].pc # "idle" /\ TellsEnd(worker[w].event) => ended
                /\ worker[w].pc \in OffTrack => Of(w, "sub")
SlotsTell == \A w \in Workers : SlotTells(w)

Truthful == FreeMeansTrial /\ QueueTells /\ SlotsTell /\ DeletionNeedsEnd

\* A change at Stripe is told truthfully.
LEMMA BecomeTells ==
  ASSUME TypeOK, Truthful,
         NEW s \in Subs, NEW status \in Statuses, NEW p \in Prices, NEW paid \in BOOLEAN,
         Become(s, status, p, paid),
         ended => ended', UNCHANGED <<worker, company>>,
         status = "canceled" \/ (status = "active" /\ p \in Free) => ended',
         p \in Free => status = "trialing" \/ ended'
  PROVE  Truthful'
<1>1. FreeMeansTrial'
  <2>1. stripe' = [stripe EXCEPT ![s] = [status |-> status, price |-> p]]
    BY DEF Become
  <2>2. ASSUME NEW t \in Subs, stripe'[t].price \in Free
        PROVE  stripe'[t].status = "trialing" \/ ended'
    <3>1. CASE t = s
      BY <2>1, <2>2, <3>1 DEF TypeOK
    <3>2. CASE t # s
      BY <2>1, <2>2, <3>2 DEF TypeOK, Truthful, FreeMeansTrial
    <3> QED  BY <3>1, <3>2
  <2> QED  BY <2>2 DEF FreeMeansTrial
<1>2. QueueTells'
  <2>1. ASSUME NEW i \in 1..Len(queue'), TellsEnd(queue'[i]) PROVE ended'
    <3>1. \/ i \in 1..Len(queue) /\ queue'[i] = queue[i]
          \/ queue'[i] \in {SubEvent(s, status, p), PaidEvent(s, p)}
      BY BecomeQueues DEF TypeOK
    <3>2. CASE i \in 1..Len(queue) /\ queue'[i] = queue[i]
      <4>1. ended
        BY <2>1, <3>2 DEF Truthful, QueueTells
      <4> QED  BY <4>1
    <3>3. CASE queue'[i] = SubEvent(s, status, p)
      BY <2>1, <3>3 DEF TellsEnd, SubEvent
    <3>4. CASE queue'[i] = PaidEvent(s, p)
      BY <2>1, <3>4 DEF TellsEnd, PaidEvent
    <3> QED  BY <3>1, <3>2, <3>3, <3>4
  <2> QED  BY <2>1 DEF QueueTells
<1>3. SlotsTell'
  BY DEF Truthful, SlotsTell, SlotTells, Of
<1>4. DeletionNeedsEnd'
  BY DEF Truthful, DeletionNeedsEnd
<1> QED  BY <1>1, <1>2, <1>3, <1>4 DEF Truthful

\* What moves one slot on, or takes an event into it, and schedules nothing
\* without an end leaves all of it true.
LEMMA SlotTruthful ==
  ASSUME TypeOK, Truthful, NEW w \in Workers, NEW new,
         worker' = [worker EXCEPT ![w] = new],
         UNCHANGED <<stripe, ended>>,
         QueueTells', DeletionNeedsEnd',
         new.pc # "idle" /\ TellsEnd(new.event) => ended,
         new.pc \in OffTrack => new.event.kind = "sub"
  PROVE  Truthful'
<1>1. FreeMeansTrial'
  BY DEF Truthful, FreeMeansTrial
<1>2. ASSUME NEW v \in Workers PROVE SlotTells(v)'
  <2>1. CASE v = w
    BY <2>1 DEF TypeOK, SlotTells, Of
  <2>2. CASE v # w
    <3>1. worker'[v] = worker[v]
      BY <2>2 DEF TypeOK
    <3> QED  BY <3>1 DEF Truthful, SlotsTell, SlotTells, Of
  <2> QED  BY <2>1, <2>2
<1> QED  BY <1>1, <1>2 DEF Truthful, SlotsTell

LEMMA StripeStepTruthful ==
  ASSUME TypeOK, Truthful, NEW s \in Subs, StripeStep(s)
  PROVE  Truthful'
<1>p. stripe[s].status # "none" => stripe[s].price \in Prices
  BY DEF TypeOK
<1>f. stripe[s].price \in Free => stripe[s].status = "trialing" \/ ended
  BY DEF Truthful, FreeMeansTrial
<1>t. {"active", "past_due", "canceled"} \subseteq Statuses /\ TRUE \in BOOLEAN /\ FALSE \in BOOLEAN
  BY DEF Statuses
<1>1. CASE Pay(s)
  <2>1. /\ Become(s, "active", stripe[s].price, TRUE) /\ UNCHANGED <<worker, company, ended>>
        /\ stripe[s].status \in {"incomplete", "past_due"}
    BY <1>1 DEF Pay
  <2>2. stripe[s].price \in Free => ended'
    BY <1>f, <2>1
  <2> QED  BY <1>p, <1>t, <2>1, <2>2, BecomeTells
<1>2. CASE TrialEnds(s)
  BY <1>2, <1>p, <1>t, BecomeTells DEF TrialEnds
<1>3. CASE PastDue(s)
  <2>1. /\ Become(s, "past_due", stripe[s].price, FALSE) /\ UNCHANGED <<worker, company, ended>>
        /\ stripe[s].status = "active"
    BY <1>3 DEF PastDue
  <2>2. stripe[s].price \in Free => ended'
    BY <1>f, <2>1
  <2> QED  BY <1>p, <1>t, <2>1, <2>2, BecomeTells
<1>4. CASE StripeEnds(s)
  BY <1>4, <1>p, <1>t, BecomeTells DEF StripeEnds
<1>5. ASSUME NEW p \in Prices, DashboardChange(s, p) PROVE Truthful'
  BY <1>5, <1>t, BecomeTells DEF DashboardChange
<1> QED  BY <1>1, <1>2, <1>3, <1>4, <1>5 DEF StripeStep

LEMMA ApiCallTruthful ==
  ASSUME TypeOK, Truthful, NEW s \in Subs, ApiCall(s)
  PROVE  Truthful'
<1>p. stripe[s].status # "none" => stripe[s].price \in Prices
  BY DEF TypeOK
<1>t. {"incomplete", "trialing", "active", "canceled"} \subseteq Statuses /\ TRUE \in BOOLEAN /\ FALSE \in BOOLEAN
  BY DEF Statuses
<1>1. ASSUME NEW p \in Prices, Subscribe(s, p) PROVE Truthful'
  BY <1>1, <1>t, BecomeTells DEF Subscribe
<1>2. ASSUME NEW p \in Prices, StartTrial(s, p) PROVE Truthful'
  BY <1>2, <1>t, BecomeTells DEF StartTrial
<1>3. ASSUME NEW p \in Prices, ChangePlan(s, p) PROVE Truthful'
  <2> DEFINE status == IF local[s].status = "trialing" THEN "active" ELSE stripe[s].status
             paid == stripe[s].price \in Free
  <2>1. status \in Statuses /\ paid \in BOOLEAN /\ status # "canceled"
    BY <1>3, <1>t DEF ChangePlan
  <2>2. Become(s, status, p, paid) /\ UNCHANGED <<worker, company, ended>> /\ p \notin Free
    BY <1>3 DEF ChangePlan
  <2> HIDE DEF status, paid
  <2> QED  BY <2>1, <2>2, BecomeTells
<1>4. CASE Cancel(s)
  BY <1>4, <1>p, <1>t, BecomeTells DEF Cancel
<1> QED  BY <1>1, <1>2, <1>3, <1>4 DEF ApiCall

LEMMA ApiStepTruthful ==
  ASSUME TypeOK, Truthful, ApiStep
  PROVE  Truthful'
<1>1. UNCHANGED <<stripe, queue, worker, ended>>
  BY DEF ApiStep, WriteRecord, Grant, Activate, UpdatePrice, UpdateStatus
<1>2. company'.deletion = company.deletion
  <2>1. CASE Grant
    BY <2>1 DEF Grant, TypeOK, Company
  <2>2. CASE Activate
    BY <2>2 DEF Activate, TypeOK, Company
  <2>3. CASE WriteRecord \/ UpdatePrice \/ UpdateStatus
    BY <2>3 DEF WriteRecord, UpdatePrice, UpdateStatus
  <2> QED  BY <2>1, <2>2, <2>3 DEF ApiStep
<1>3. DeletionNeedsEnd'
  BY <1>1, <1>2 DEF Truthful, DeletionNeedsEnd
<1>4. FreeMeansTrial' /\ QueueTells'
  BY <1>1 DEF Truthful, FreeMeansTrial, QueueTells
<1>5. SlotsTell'
  BY <1>1 DEF Truthful, SlotsTell, SlotTells, Of
<1> QED  BY <1>3, <1>4, <1>5 DEF Truthful

LEMMA HandlerStepTruthful ==
  ASSUME TypeOK, Truthful, NEW w \in Workers, HandlerStep(w)
  PROVE  Truthful'
<1>w. /\ worker \in [Workers -> Slot] /\ worker[w] \in Slot
      /\ worker[w].pc # "idle" /\ TellsEnd(worker[w].event) => ended
      /\ worker[w].pc \in OffTrack => worker[w].event.kind = "sub"
  BY DEF TypeOK, Truthful, SlotsTell, SlotTells, Of
<1>u. UNCHANGED <<stripe, ended, queue>> /\ worker[w].pc # "idle"
  BY DEF HandlerStep, ReadPrevious, Fetch, Sync, Off, Zero, Cover, Strip, Schedule, Prorate,
         Allocate, On, Fill, Look, Grow, Clear, Unschedule, outside, Runs
<1>q. QueueTells'
  BY <1>u DEF Truthful, QueueTells
\* The slot keeps its event, and is on the way to a deletion only if it was.
<1>g. ASSUME NEW step, Goto(w, step), DeletionNeedsEnd',
             step \in OffTrack => worker[w].event.kind = "sub"
      PROVE  Truthful'
  <2> DEFINE new == [worker[w] EXCEPT !.pc = step]
  <2>1. new.pc = step /\ new.event = worker[w].event
    BY <1>w DEF Slot
  <2>2. worker' = [worker EXCEPT ![w] = new]
    BY <1>g DEF Goto
  <2> HIDE DEF new
  <2> QED  BY <1>w, <1>u, <1>q, <1>g, <2>1, <2>2, SlotTruthful
<1>d. ASSUME Done(w), DeletionNeedsEnd' PROVE Truthful'
  <2>1. IdleSlot.pc = "idle" /\ "idle" \notin OffTrack
    BY DEF IdleSlot, OffTrack
  <2> QED  BY <1>u, <1>q, <1>d, <2>1, SlotTruthful DEF Done
<1>k. company'.deletion = company.deletion => DeletionNeedsEnd'
  BY <1>u DEF Truthful, DeletionNeedsEnd
<1>1. CASE ReadPrevious(w)
  <2> DEFINE new == [worker[w] EXCEPT !.pc = "fetch", !.prev = local[SubOf(w)]]
  <2>1. new.pc = "fetch" /\ new.event = worker[w].event /\ "fetch" \notin OffTrack
    BY <1>w DEF Slot, OffTrack
  <2>2. worker' = [worker EXCEPT ![w] = new] /\ DeletionNeedsEnd'
    BY <1>1, <1>k DEF ReadPrevious
  <2> HIDE DEF new
  <2> QED  BY <1>w, <1>u, <1>q, <2>1, <2>2, SlotTruthful
<1>2. CASE Fetch(w)
  <2> DEFINE new == [worker[w] EXCEPT !.pc = "sync", !.snap = stripe[SubOf(w)].status]
  <2>1. new.pc = "sync" /\ new.event = worker[w].event /\ "sync" \notin OffTrack
    BY <1>w DEF Slot, OffTrack
  <2>2. worker' = [worker EXCEPT ![w] = new] /\ DeletionNeedsEnd'
    BY <1>2, <1>k DEF Fetch
  <2> HIDE DEF new
  <2> QED  BY <1>w, <1>u, <1>q, <2>1, <2>2, SlotTruthful
<1>3. CASE Sync(w)
  <2>1. DeletionNeedsEnd'
    BY <1>3, <1>k DEF Sync
  <2>2. worker[w].event.kind \in {"sub", "paid"}
    BY <1>u DEF TypeOK, Event
  <2>3. CASE Of(w, "paid")
    <3>1. Goto(w, "allocate") /\ "allocate" \notin OffTrack
      BY <1>3, <2>3 DEF Sync, OffTrack
    <3> QED  BY <1>g, <2>1, <3>1
  <2>4. CASE ~Of(w, "paid")
    <3>1. worker[w].event.kind = "sub"
      BY <2>2, <2>4 DEF Of
    <3>2. Goto(w, "off") \/ Goto(w, "prorate")
      BY <1>3, <2>4 DEF Sync
    <3> QED  BY <1>g, <2>1, <3>1, <3>2
  <2> QED  BY <2>3, <2>4
<1>4. CASE Off(w)
  <2>1. company'.deletion = company.deletion
    BY <1>4 DEF Off, SetCompany, TypeOK, Company
  <2>2. Goto(w, "zero") /\ worker[w].event.kind = "sub"
    BY <1>4, <1>w DEF Off, Runs, OffTrack
  <2> QED  BY <1>g, <1>k, <2>1, <2>2
<1>5. CASE Zero(w)
  <2>1. company'.deletion = company.deletion
    BY <1>5 DEF Zero, SetCompany, TypeOK, Company
  <2>2. Goto(w, "cover") /\ worker[w].event.kind = "sub"
    BY <1>5, <1>w DEF Zero, Runs, OffTrack
  <2> QED  BY <1>g, <1>k, <2>1, <2>2
<1>6. CASE Cover(w)
  <2> DEFINE gone == ({local[SubOf(w)].price} \cap Featured)
                        \ {local[s].price : s \in {t \in Subs \ {SubOf(w)} : Live(t)}}
             new == [worker[w] EXCEPT !.pc = "strip", !.drop = gone]
  <2>1. worker' = [worker EXCEPT ![w] = new] /\ DeletionNeedsEnd'
    BY <1>6, <1>k DEF Cover
  <2>2. worker[w].event.kind = "sub"
    BY <1>6, <1>w DEF Cover, Runs, OffTrack
  <2> HIDE DEF gone
  <2>3. new.pc = "strip" /\ new.event = worker[w].event
    BY <1>w DEF Slot
  <2> HIDE DEF new
  <2> QED  BY <1>w, <1>u, <1>q, <2>1, <2>2, <2>3, SlotTruthful
<1>7. CASE Strip(w)
  <2>1. company'.deletion = company.deletion
    BY <1>7 DEF Strip, SetCompany, TypeOK, Company
  <2>2. Goto(w, "schedule") /\ worker[w].event.kind = "sub"
    BY <1>7, <1>w DEF Strip, Runs, OffTrack
  <2> QED  BY <1>g, <1>k, <2>1, <2>2
\* The step all this is for: the payload says canceled, or active on a free
\* price, so it tells an end.
<1>8. CASE Schedule(w)
  <2> DEFINE over == TrialOver(w) \/ worker[w].event.status = "canceled"
  <2>1. worker[w].event.kind = "sub" /\ (TellsEnd(worker[w].event) => ended)
    BY <1>8, <1>w, <1>u DEF Schedule, Runs, OffTrack
  <2>2. over => TellsEnd(worker[w].event)
    BY <2>1 DEF TellsEnd, TrialOver
  <2>3. company' = [company EXCEPT !.deletion = (company.deletion \/ over)]
    BY <1>8 DEF Schedule, SetCompany
  <2> HIDE DEF over
  <2>4. company'.deletion = (company.deletion \/ over)
    BY <2>3 DEF TypeOK, Company
  <2>5. DeletionNeedsEnd'
    BY <1>u, <2>1, <2>2, <2>4 DEF Truthful, DeletionNeedsEnd
  <2>6. Goto(w, "prorate") /\ "prorate" \notin OffTrack
    BY <1>8 DEF Schedule, OffTrack
  <2> QED  BY <1>g, <2>5, <2>6
<1>9. CASE Prorate(w)
  <2>1. company'.deletion = company.deletion
    BY <1>9 DEF Prorate, SetCompany, TypeOK, Company
  <2> QED  BY <1>9, <1>d, <1>k, <2>1 DEF Prorate
<1>10. CASE Allocate(w)
  <2> DEFINE step == IF local[SubOf(w)].status = "none" THEN "look" ELSE "on"
             new == [worker[w] EXCEPT !.plan = local[SubOf(w)].price, !.pc = step]
  <2>1. worker' = [worker EXCEPT ![w] = new] /\ DeletionNeedsEnd'
    BY <1>10, <1>k DEF Allocate
  <2>2. step \notin OffTrack
    BY DEF OffTrack
  <2> HIDE DEF step
  <2>3. new.pc = step /\ new.event = worker[w].event
    BY <1>w DEF Slot
  <2> HIDE DEF new
  <2> QED  BY <1>w, <1>u, <1>q, <2>1, <2>2, <2>3, SlotTruthful
<1>11. CASE On(w)
  <2>1. company'.deletion = company.deletion
    BY <1>11 DEF On, SetCompany, TypeOK, Company
  <2> QED  BY <1>11, <1>g, <1>k, <2>1 DEF On, OffTrack
<1>12. CASE Fill(w)
  <2>1. company'.deletion = company.deletion
    BY <1>12 DEF Fill, SetCompany, TypeOK, Company
  <2> QED  BY <1>12, <1>g, <1>k, <2>1 DEF Fill, OffTrack
<1>13. CASE Look(w)
  <2>1. DeletionNeedsEnd'
    BY <1>13, <1>k DEF Look
  <2>2. CASE local[SubOf(w)].price \in Featured
    <3> DEFINE new == [worker[w] EXCEPT !.plan = local[SubOf(w)].price, !.pc = "grow"]
    <3>1. worker' = [worker EXCEPT ![w] = new]
      BY <1>13, <2>2 DEF Look
    <3>2. new.pc = "grow" /\ new.event = worker[w].event /\ "grow" \notin OffTrack
      BY <1>w DEF Slot, OffTrack
    <3> HIDE DEF new
    <3> QED  BY <1>w, <1>u, <1>q, <2>1, <3>1, <3>2, SlotTruthful
  <2>3. CASE local[SubOf(w)].price \notin Featured
    <3>1. Done(w)
      BY <1>13, <2>3 DEF Look
    <3> QED  BY <1>d, <2>1, <3>1
  <2> QED  BY <2>2, <2>3
<1>14. CASE Grow(w)
  <2>1. company'.deletion = company.deletion
    BY <1>14 DEF Grow, SetCompany, TypeOK, Company
  <2> QED  BY <1>14, <1>g, <1>k, <2>1 DEF Grow, OffTrack
<1>15. CASE Clear(w)
  <2>1. DeletionNeedsEnd'
    BY <1>15, <1>k DEF Clear
  <2>2. Goto(w, "unschedule") \/ Done(w)
    BY <1>15 DEF Clear
  <2> QED  BY <1>g, <1>d, <2>1, <2>2 DEF OffTrack
<1>16. CASE Unschedule(w)
  <2>1. company'.deletion = FALSE
    BY <1>16 DEF Unschedule, SetCompany, TypeOK, Company
  <2> QED  BY <1>16, <1>d, <2>1 DEF Unschedule, DeletionNeedsEnd
<1> QED  BY <1>1, <1>2, <1>3, <1>4, <1>5, <1>6, <1>7, <1>8, <1>9, <1>10, <1>11, <1>12, <1>13, <1>14,
         <1>15, <1>16
         DEF HandlerStep

LEMMA SlotStepTruthful ==
  ASSUME TypeOK, Truthful, NEW w \in Workers, Take(w) \/ Retry(w) \/ Swallow(w)
  PROVE  Truthful'
<1>w. /\ worker \in [Workers -> Slot] /\ worker[w] \in Slot
      /\ worker[w].pc # "idle" /\ TellsEnd(worker[w].event) => ended
      /\ worker[w].pc \in OffTrack => worker[w].event.kind = "sub"
  BY DEF TypeOK, Truthful, SlotsTell, SlotTells, Of
<1>u. UNCHANGED <<stripe, ended, company>>
  BY DEF Take, Retry, Swallow, outside
<1>c. DeletionNeedsEnd'
  BY <1>u DEF Truthful, DeletionNeedsEnd
<1>t. queue \in Seq(Event) /\ \A i \in 1..Len(queue) : TellsEnd(queue[i]) => ended
  BY DEF TypeOK, Truthful, QueueTells
<1>i. IdleSlot.pc = "idle" /\ "idle" \notin OffTrack
  BY DEF IdleSlot, OffTrack
<1>1. CASE Take(w)
  <2>1. PICK i \in 1..Len(queue) :
          /\ worker' = [worker EXCEPT ![w] =
               [IdleSlot EXCEPT !.event = queue[i],
                                !.pc = IF queue[i].kind = "sub" THEN "previous" ELSE "fetch"]]
          /\ queue' = RemoveAt(queue, i)
    BY <1>1 DEF Take
  <2>2. ASSUME NEW k \in 1..Len(queue'), TellsEnd(queue'[k]) PROVE ended
    <3>1. PICK j \in 1..Len(queue) : queue'[k] = queue[j]
      BY <1>t, <2>1, RemoveKeeps
    <3> QED  BY <1>t, <2>2, <3>1
  <2>3. QueueTells'
    BY <1>u, <2>2 DEF QueueTells
  <2> DEFINE step == IF queue[i].kind = "sub" THEN "previous" ELSE "fetch"
             new == [IdleSlot EXCEPT !.event = queue[i], !.pc = step]
  <2>4. step \notin OffTrack
    BY DEF OffTrack
  <2>5. worker' = [worker EXCEPT ![w] = new]
    BY <2>1
  <2> HIDE DEF step
  <2>6. new.pc = step /\ new.event = queue[i]
    BY DEF IdleSlot
  <2> HIDE DEF new
  <2>7. TellsEnd(new.event) => ended
    BY <1>t, <2>6
  <2> QED  BY <1>u, <1>c, <2>3, <2>4, <2>5, <2>6, <2>7, SlotTruthful
<1>2. CASE Retry(w)
  <2>1. worker[w].pc # "idle" /\ queue' = Append(queue, worker[w].event) /\ Done(w)
    BY <1>2 DEF Retry, Runs
  <2>2. worker[w].event \in Event
    BY <2>1 DEF TypeOK
  <2>3. ASSUME NEW k \in 1..Len(queue'), TellsEnd(queue'[k]) PROVE ended
    <3>1. queue'[k] = worker[w].event \/ (k \in 1..Len(queue) /\ queue'[k] = queue[k])
      BY <1>t, <2>1, <2>2, AppendKeeps
    <3>2. CASE queue'[k] = worker[w].event
      BY <1>w, <2>1, <2>3, <3>2
    <3>3. CASE k \in 1..Len(queue) /\ queue'[k] = queue[k]
      BY <1>t, <2>3, <3>3
    <3> QED  BY <3>1, <3>2, <3>3
  <2>4. QueueTells'
    BY <1>u, <2>3 DEF QueueTells
  <2> QED  BY <1>u, <1>c, <1>i, <2>1, <2>4, SlotTruthful DEF Done
<1>3. CASE Swallow(w)
  <2>q. QueueTells'
    BY <1>3, <1>u DEF Swallow, Truthful, QueueTells
  <2>1. CASE Done(w)
    BY <1>u, <1>c, <1>i, <2>q, <2>1, SlotTruthful DEF Done
  <2>2. ASSUME NEW step, Goto(w, step), worker[w].pc # "idle",
               step \in OffTrack => worker[w].pc \in OffTrack
        PROVE  Truthful'
    <3> DEFINE new == [worker[w] EXCEPT !.pc = step]
    <3>1. new.pc = step /\ new.event = worker[w].event
      BY <1>w DEF Slot
    <3>2. worker' = [worker EXCEPT ![w] = new]
      BY <2>2 DEF Goto
    <3> HIDE DEF new
    <3> QED  BY <1>w, <1>u, <1>c, <2>q, <2>2, <3>1, <3>2, SlotTruthful
  <2>3. \/ Done(w)
        \/ \E step \in {"prorate", "schedule", "look"} :
             Goto(w, step) /\ worker[w].pc # "idle" /\ (step \in OffTrack => worker[w].pc \in OffTrack)
    BY <1>3 DEF Swallow, OffTrack
  <2> QED  BY <2>1, <2>2, <2>3
<1> QED  BY <1>1, <1>2, <1>3

\* Truthful is inductive next to TypeOK.
LEMMA NextTruthful == TypeOK /\ Truthful /\ [Next]_vars => Truthful'
<1> SUFFICES ASSUME TypeOK, Truthful, [Next]_vars PROVE Truthful'
  OBVIOUS
<1>1. CASE UNCHANGED vars
  BY <1>1 DEF vars, Truthful, FreeMeansTrial, QueueTells, SlotsTell, SlotTells, Of, DeletionNeedsEnd
<1>2. ASSUME NEW s \in Subs, StripeStep(s) \/ ApiCall(s) PROVE Truthful'
  BY <1>2, StripeStepTruthful, ApiCallTruthful
<1>3. CASE ApiStep
  BY <1>3, ApiStepTruthful
<1>4. ASSUME NEW w \in Workers, Take(w) \/ HandlerStep(w) \/ Retry(w) \/ Swallow(w) PROVE Truthful'
  BY <1>4, HandlerStepTruthful, SlotStepTruthful
<1> QED  BY <1>1, <1>2, <1>3, <1>4 DEF Next

\* However events are reordered, retried or half handled, the deletion of a
\* company is scheduled only after one of its subscriptions was canceled or a
\* trial of its ran out.
THEOREM DeletionAfterEnd == Spec => []DeletionNeedsEnd
<1>1. Init => Truthful
  <2> SUFFICES ASSUME Init PROVE Truthful
    OBVIOUS
  <2>1. FreeMeansTrial
    BY PricesAssumption DEF Init, NoRecord, FreeMeansTrial
  <2>2. QueueTells
    BY DEF Init, QueueTells
  <2>3. SlotsTell
    BY DEF Init, IdleSlot, OffTrack, SlotsTell, SlotTells
  <2>4. DeletionNeedsEnd
    BY DEF Init, DeletionNeedsEnd
  <2> QED  BY <2>1, <2>2, <2>3, <2>4 DEF Truthful
<1>2. Init => TypeOK
  BY InitTyped
<1>3. TypeOK /\ [Next]_vars => TypeOK'
  BY NextTyped
<1>4. TypeOK /\ Truthful /\ [Next]_vars => Truthful'
  BY NextTruthful
<1>5. Truthful => DeletionNeedsEnd
  BY DEF Truthful
<1> QED  BY <1>1, <1>2, <1>3, <1>4, <1>5, PTL DEF Spec

-----------------------------------------------------------------------------
(* Service follows payment, when events are handled in order, one at a time,  *)
(* no call fails, plans are not changed and every paid plan carries features. *)

\* The hypotheses.  Without any one of them TLC finds the property violated.
InOrder == /\ Ordered /\ MaxFaults = 0
           /\ Moves \subseteq {"trial", "dunning", "end", "cancel"}
           /\ Prices \ Free \subseteq Featured

LiveStatuses == {"active", "trialing"}
EndEvent(e) == e.kind = "sub" /\ e.status \in EndStates

Queued(s) == \E i \in 1..Len(queue) : queue[i].sub = s
EndQueued(s) == \E i \in 1..Len(queue) : EndEvent(queue[i]) /\ queue[i].sub = s

Busy(w) == ~Runs(w, "idle")
Handles(w, s) == Busy(w) /\ SubOf(w) = s
\* An end of s is being handled and has not come past the steps.
Ending(s, steps) == \E w \in Workers : worker[w].pc \in steps /\ Handles(w, s) /\ EndEvent(worker[w].event)

\* s is not over at Stripe, or its end is yet to be handled.
Continues(s) == stripe[s].status \in LiveStatuses \/ EndQueued(s)

\* One event is handled, and one subscription not over at Stripe, at a time.
OneByOne == /\ \A v, w \in Workers : Busy(v) /\ Busy(w) => v = w
            /\ \A s, t \in Subs :
                 {stripe[s].status, stripe[t].status} \cap {"none", "canceled"} = {} => s = t

\* Every subscription has a record of its price, except while the call that
\* made it is about to write it.
Mirrored(s) ==
  /\ local[s].status = "none" => local[s].price = None
  /\ local[s].status # "none" => stripe[s].status # "none" /\ local[s].price = stripe[s].price
  /\ stripe[s].status # "none" /\ local[s].status = "none" => api.pc = "record" /\ api.sub = s

\* What the call under way was told is what Stripe still says.
Calling ==
  /\ api.pc # "reprice"
  /\ api.pc \in {"record", "grant", "activate"} =>
       stripe[api.sub] = [status |-> api.status, price |-> api.price]
  /\ api.pc = "record" => api.status \in {"incomplete", "trialing"}
  /\ api.pc \in {"grant", "activate"} => api.status = "trialing"
  /\ api.pc = "restatus" =>
       api.status = "canceled" /\ stripe[api.sub].status = "canceled" /\ local[api.sub].status # "none"

\* What an event says is still true of its subscription, or was once.
AtStripe(e) == /\ stripe[e.sub].status # "none" /\ e.price = stripe[e.sub].price
               /\ stripe[e.sub].status \in {"incomplete", "trialing"} => e.status \notin EndStates

\* A handler is where its event takes it; what it read of Stripe is true, or
\* another event of the subscription is still to come.
PaidSteps == {"allocate", "on", "fill", "look", "grow", "clear", "unschedule"}
EndSteps == {"off", "zero", "cover", "strip", "schedule"}
Handling(w) ==
  Busy(w) =>
    LET x == SubOf(w) IN
    /\ AtStripe(worker[w].event)
    /\ worker[w].prev.price \in {None, stripe[x].price}
    /\ worker[w].pc \in PaidSteps => Of(w, "paid")
    /\ worker[w].pc \in EndSteps => Of(w, "sub") /\ Deactivates(w)
    /\ worker[w].pc \in {"previous", "prorate"} => Of(w, "sub")
    /\ worker[w].pc \in {"on", "fill", "grow"} => worker[w].plan = stripe[x].price
    /\ Runs(w, "grow") => worker[w].plan \in Featured
    /\ Of(w, "paid") => Continues(x)
    /\ Runs(w, "sync") => /\ worker[w].snap # "none"
                          /\ worker[w].snap = stripe[x].status \/ Queued(x)
                          /\ worker[w].snap \in LiveStatuses => Continues(x)

\* Behind a payment of a subscription that is over comes its end.
InTheQueue ==
  \A i \in 1..Len(queue) :
    /\ AtStripe(queue[i])
    /\ queue[i].kind = "paid" =>
         \/ stripe[queue[i].sub].status \in LiveStatuses
         \/ \E j \in i+1..Len(queue) : EndEvent(queue[j]) /\ queue[j].sub = queue[i].sub

Reading == {"previous", "fetch", "sync"}
\* A live record is of a subscription that continues, or is about to be ended.
LiveOrEnding == \A s \in Subs : Live(s) => Continues(s) \/ Ending(s, Reading)

\* A record that differs from Stripe is about to be written.
Follows ==
  \A s \in Subs : \/ local[s].status = stripe[s].status
                  \/ Queued(s)
                  \/ \E w \in Workers : Handles(w, s) /\ worker[w].pc \in Reading
                  \/ api.sub = s /\ api.pc \in {"record", "restatus"}

\* Activity, tokens and each feature belong to a subscription that continues,
\* or to one whose end has not come that far.
ServedForAReason ==
  /\ company.active => \E s \in Subs : Continues(s) \/ Ending(s, Reading \cup {"off"})
  /\ company.plan # None => \E s \in Subs : Continues(s) \/ Ending(s, Reading \cup {"off", "zero"})
  /\ company.features \subseteq Featured
  /\ \A p \in company.features : \E s \in Subs :
       /\ stripe[s].price = p
       /\ \/ Continues(s) \/ Ending(s, Reading \cup {"off", "zero", "cover"})
          \/ \E w \in Workers : Runs(w, "strip") /\ SubOf(w) = s /\ p \in worker[w].drop

\* What a handler of the last event of a paid subscription has done so far.
ServedSoFar(w, s) ==
  LET pc == worker[w].pc  p == stripe[s].price IN
  /\ Of(w, "paid") /\ SubOf(w) = s
  /\ pc \in {"fill", "look", "grow", "clear", "unschedule"} => company.active
  /\ pc \in {"look", "grow", "clear", "unschedule"} => company.plan = p
  /\ pc \in {"clear", "unschedule"} => p \in company.features

\* The last event of a paid subscription is its payment: it is in the queue, or
\* being served, or was.
PaymentServed ==
  \A s \in Subs : Paid(s) =>
    IF queue # <<>> THEN queue[Len(queue)].kind = "paid" /\ queue[Len(queue)].sub = s
    ELSE /\ \A w \in Workers : Busy(w) => ServedSoFar(w, s)
         /\ (\A w \in Workers : ~Busy(w)) =>
              company.active /\ ~company.deletion /\ company.plan = stripe[s].price
                /\ stripe[s].price \in company.features

ServiceInv ==
  /\ OneByOne /\ (\A s \in Subs : Mirrored(s)) /\ Calling /\ (\A w \in Workers : Handling(w))
  /\ InTheQueue /\ LiveOrEnding /\ Follows /\ ServedForAReason /\ PaymentServed

\* The queue grows at its end, by the new state and then, if it was paid, the payment.
LEMMA BecomeGrows ==
  ASSUME NEW s \in Subs, NEW status \in Statuses, NEW p \in Prices, NEW paid \in BOOLEAN,
         queue \in Seq(Event), Become(s, status, p, paid)
  PROVE  /\ Len(queue) \in Nat
         /\ \A k \in 1..Len(queue) : queue'[k] = queue[k]
         /\ queue'[Len(queue) + 1] = SubEvent(s, status, p)
         /\ paid => Len(queue') = Len(queue) + 2 /\ queue'[Len(queue) + 2] = PaidEvent(s, p)
         /\ ~paid => Len(queue') = Len(queue) + 1
         /\ stripe' = [stripe EXCEPT ![s] = [status |-> status, price |-> p]]
<1> DEFINE a == SubEvent(s, status, p)
           b == PaidEvent(s, p)
           more == IF paid THEN <<b>> ELSE <<>>
           n == <<a>> \o more
<1>1. a \in Event /\ b \in Event
  BY DEF SubEvent, PaidEvent, Event, Statuses
<1>2. queue' = queue \o n /\ stripe' = [stripe EXCEPT ![s] = [status |-> status, price |-> p]]
  BY DEF Become
<1> HIDE DEF a, b
<1>3. /\ <<a>> \in Seq(Event) /\ Len(<<a>>) = 1 /\ <<a>>[1] = a
      /\ more \in Seq(Event) /\ Len(more) = (IF paid THEN 1 ELSE 0) /\ (paid => more[1] = b)
  BY <1>1
<1> HIDE DEF more
<1>4. n \in Seq(Event) /\ Len(n) = Len(<<a>>) + Len(more)
  BY <1>3, ConcatProperties
<1>5. n[1] = a /\ (paid => n[2] = b)
  BY <1>3, <1>4, ConcatProperties
<1> HIDE DEF n
<1>6. Len(queue) \in Nat /\ Len(n) = (IF paid THEN 2 ELSE 1)
  BY <1>3, <1>4, LenProperties
<1>7. Len(queue') = Len(queue) + Len(n)
  BY ONLY <1>2, <1>4, ConcatProperties, queue \in Seq(Event)
<1>8. \A k \in 1..Len(queue) : queue'[k] = queue[k]
  BY <1>2, <1>4, <1>6, <1>7, ConcatProperties
<1>9. queue'[Len(queue) + 1] = a /\ (paid => queue'[Len(queue) + 2] = b)
  BY <1>2, <1>4, <1>5, <1>6, <1>7, ConcatProperties
<1> USE DEF a, b
<1> QED  BY <1>2, <1>6, <1>7, <1>8, <1>9

\* Taking the first event moves the others up by one place.
LEMMA FirstTaken ==
  ASSUME NEW q \in Seq(Event), q # <<>>
  PROVE  /\ Len(q) \in Nat /\ Len(RemoveAt(q, 1)) = Len(q) - 1
         /\ \A k \in 1..Len(q) - 1 : RemoveAt(q, 1)[k] = q[k + 1]
<1> DEFINE b == SubSeq(q, 2, Len(q))
<1>1. Len(q) \in Nat \ {0}
  BY LenProperties, EmptySeq
<1>2. RemoveAt(q, 1) = SubSeq(q, 1, 0) \o b
  BY DEF RemoveAt
<1>3. SubSeq(q, 1, 0) = <<>>
  BY <1>1
<1>4. b \in Seq(Event) /\ Len(b) = Len(q) - 1 /\ \A k \in 1..Len(b) : b[k] = q[k + 1]
  <2>1. \A i \in 2..Len(q) : i \in 1..Len(q)
    BY <1>1
  <2>2. b \in Seq(Event)
    BY <2>1, SubSeqProperties
  <2>3. Len(b) = (IF 2 <= Len(q) THEN Len(q) - 2 + 1 ELSE 0)
    BY ONLY <1>1, <2>1, q \in Seq(Event), SubSeqProperties, 2 \in Int, Len(q) \in Int
  <2>4. \A k \in 1..Len(b) : b[k] = q[2 + k - 1]
    BY ONLY <1>1, <2>1, <2>3, q \in Seq(Event), SubSeqProperties, 2 \in Int, Len(q) \in Int
  <2> HIDE DEF b
  <2>5. Len(b) = Len(q) - 1
    <3>1. ASSUME NEW l \in Nat \ {0} PROVE (IF 2 <= l THEN l - 2 + 1 ELSE 0) = l - 1
      OBVIOUS
    <3> QED  BY <1>1, <2>3, <3>1
  <2>6. \A k \in 1..Len(b) : 2 + k - 1 = k + 1
    BY <1>1, <2>5
  <2> QED  BY <2>2, <2>4, <2>5, <2>6
<1> HIDE DEF b
<1>5. <<>> \o b = b
  BY <1>4, ConcatEmptySeq
<1> QED  BY <1>1, <1>2, <1>3, <1>4, <1>5

\* A change at Stripe is told last, behind everything it makes untrue.
LEMMA BecomeServes ==
  ASSUME TypeOK, ServiceInv, NEW s \in Subs, NEW status \in Statuses, NEW p \in Prices, NEW paid \in BOOLEAN,
         Become(s, status, p, paid), UNCHANGED <<local, company, worker>>,
         status \in {"incomplete", "trialing"} => stripe[s].status = "none",
         stripe[s].status # "none" => p = stripe[s].price /\ status \in LiveStatuses \cup EndStates,
         status # "none", paid => status \in LiveStatuses,
         api' = api \/ api.pc = "idle",
         \A t \in Subs : Paid(t)' => t = s /\ paid
  PROVE  /\ \A w \in Workers : Handling(w)'
         /\ InTheQueue' /\ LiveOrEnding' /\ Follows' /\ ServedForAReason' /\ PaymentServed'
<1>t. /\ queue \in Seq(Event) /\ \A t \in Subs : stripe[t].status \in Statuses
      /\ \A w \in Workers : worker[w].pc # "idle" => worker[w].event \in Event
  BY DEF TypeOK, Record
<1>1. /\ Len(queue) \in Nat
      /\ \A k \in 1..Len(queue) : queue'[k] = queue[k]
      /\ queue'[Len(queue) + 1] = SubEvent(s, status, p)
      /\ paid => Len(queue') = Len(queue) + 2 /\ queue'[Len(queue) + 2] = PaidEvent(s, p)
      /\ ~paid => Len(queue') = Len(queue) + 1
      /\ stripe' = [stripe EXCEPT ![s] = [status |-> status, price |-> p]]
  BY <1>t, BecomeGrows
<1>2. /\ stripe'[s].status = status /\ stripe'[s].price = p
      /\ \A t \in Subs : t # s => stripe'[t] = stripe[t]
  BY <1>1 DEF TypeOK
<1>m. \A i \in 1..Len(queue) : queue[i] \in Event
  BY <1>t
<1>e. \A e \in Event : e.sub \in Subs
  BY DEF Event
<1>3. \A e : e.sub \in Subs /\ AtStripe(e) => AtStripe(e)'
  BY <1>2 DEF AtStripe, EndStates, LiveStatuses
<1>4. /\ \A t \in Subs : Queued(t) => Queued(t)'
      /\ \A t \in Subs : EndQueued(t) => EndQueued(t)'
      /\ Queued(s)' /\ (status \in EndStates => EndQueued(s)')
  <2>1. Len(queue) + 1 \in 1..Len(queue') /\ \A k \in 1..Len(queue) : k \in 1..Len(queue')
    BY <1>1
  <2>2. \A t \in Subs : Queued(t) => Queued(t)'
    BY <1>1, <2>1 DEF Queued
  <2>3. \A t \in Subs : EndQueued(t) => EndQueued(t)'
    BY <1>1, <2>1 DEF EndQueued, EndEvent
  <2>4. Queued(s)'
    BY <1>1, <2>1 DEF Queued, SubEvent
  <2>5. status \in EndStates => EndQueued(s)'
    BY <1>1, <2>1 DEF EndQueued, EndEvent, SubEvent
  <2> QED  BY <2>2, <2>3, <2>4, <2>5
<1>5. \A t \in Subs : Continues(t) => Continues(t)'
  <2>1. ASSUME NEW t \in Subs, EndQueued(t) PROVE stripe[t].status # "none"
    BY <2>1 DEF ServiceInv, InTheQueue, EndQueued, AtStripe
  <2> QED  BY <1>2, <1>4, <2>1 DEF Continues, LiveStatuses
<1>6. ASSUME NEW t \in Subs, NEW steps, Ending(t, steps) PROVE Ending(t, steps)'
  BY <1>6 DEF Ending, Handles, Busy, Runs, SubOf, EndEvent
<1>7. \A w \in Workers : Handling(w)'
  <2> TAKE w \in Workers
  <2>1. Handling(w)
    BY DEF ServiceInv
  <2>2. CASE Busy(w)
    <3>1. worker[w].event \in Event /\ SubOf(w) \in Subs
      BY <1>t, <1>e, <2>2 DEF Busy, Runs, SubOf
    <3>2. AtStripe(worker[w].event)'
      BY <1>3, <2>1, <2>2, <3>1 DEF Handling, SubOf
    <3>3. stripe'[SubOf(w)].price = stripe[SubOf(w)].price
      BY <1>2, <2>1, <2>2, <3>1 DEF Handling, AtStripe, SubOf
    <3>x. PICK x \in Subs : x = SubOf(w)
      BY <3>1
    <3>4. worker[w].snap = stripe[x].status \/ Queued(x) => worker[w].snap = stripe'[x].status \/ Queued(x)'
      BY <1>2, <1>4
    <3>5. Continues(x) => Continues(x)'
      BY <1>5
    <3>6. SubOf(w)' = x /\ worker'[w] = worker[w]
      BY <3>x DEF SubOf
    <3>e. PICK e \in Event : e = worker[w].event
      BY <3>1
    <3> QED  BY <2>1, <2>2, <3>2, <3>3, <3>4, <3>5, <3>6, <3>x, <3>e
             DEF Handling, Busy, Runs, Of, Deactivates, TrialOver, SubOf
  <2>3. CASE ~Busy(w)
    BY <2>3 DEF Handling, Busy, Runs
  <2> QED  BY <2>2, <2>3
<1>8. InTheQueue'
  <2> SUFFICES ASSUME NEW i \in 1..Len(queue'), NEW e, e = queue'[i]
               PROVE  /\ AtStripe(e)'
                      /\ queue'[i].kind = "paid" =>
                           \/ stripe'[queue'[i].sub].status \in LiveStatuses
                           \/ \E j \in i+1..Len(queue') : EndEvent(queue'[j]) /\ queue'[j].sub = queue'[i].sub
    BY DEF InTheQueue, EndEvent, AtStripe
  <2>1. CASE i \in 1..Len(queue)
    <3>1. e = queue[i] /\ queue'[i] = queue[i] /\ queue[i].sub \in Subs
      BY <1>1, <1>m, <1>e, <2>1
    <3>2. AtStripe(e) /\ AtStripe(e)'
      BY <1>3, <2>1, <3>1 DEF ServiceInv, InTheQueue
    <3>3. ASSUME queue[i].kind = "paid" PROVE
            \/ stripe'[queue'[i].sub].status \in LiveStatuses
            \/ \E j \in i+1..Len(queue') : EndEvent(queue'[j]) /\ queue'[j].sub = queue'[i].sub
      <4>1. CASE stripe[queue[i].sub].status \in LiveStatuses
        <5>1. CASE queue[i].sub = s /\ status \notin LiveStatuses
          <6>1. status \in EndStates
            BY <3>2, <5>1, <4>1 DEF LiveStatuses
          <6>2. EndEvent(queue'[Len(queue) + 1]) /\ queue'[Len(queue) + 1].sub = s
            BY <1>1, <6>1 DEF EndEvent, SubEvent
          <6>3. Len(queue) + 1 \in i+1..Len(queue')
            BY <1>1, <2>1
          <6> QED  BY <3>1, <5>1, <6>2, <6>3
        <5>2. CASE ~(queue[i].sub = s /\ status \notin LiveStatuses)
          BY <1>2, <3>1, <4>1, <5>2
        <5> QED  BY <5>1, <5>2
      <4>2. CASE \E j \in i+1..Len(queue) : EndEvent(queue[j]) /\ queue[j].sub = queue[i].sub
        <5>1. PICK j \in i+1..Len(queue) : EndEvent(queue[j]) /\ queue[j].sub = queue[i].sub
          BY <4>2
        <5>2. j \in i+1..Len(queue') /\ queue'[j] = queue[j]
          BY <1>1, <2>1
        <5> QED  BY <3>1, <5>1, <5>2
      <4> QED  BY <2>1, <3>3, <4>1, <4>2 DEF ServiceInv, InTheQueue
    <3> QED  BY <3>1, <3>2, <3>3
  <2>2. CASE i \notin 1..Len(queue)
    <3>1. \/ i = Len(queue) + 1 /\ queue'[i] = SubEvent(s, status, p)
          \/ paid /\ queue'[i] = PaidEvent(s, p)
      BY <1>1, <2>2
    <3>2. AtStripe(SubEvent(s, status, p))'
      BY <1>2 DEF AtStripe, SubEvent, EndStates
    <3>3. AtStripe(PaidEvent(s, p))'
      BY <1>2 DEF AtStripe, PaidEvent, EndStates
    <3>4. queue'[i].kind = "paid" => queue'[i].sub = s /\ status \in LiveStatuses
      BY <3>1 DEF SubEvent, PaidEvent
    <3> QED  BY <1>2, <3>1, <3>2, <3>3, <3>4
  <2> QED  BY <2>1, <2>2
<1>9. LiveOrEnding'
  BY <1>5, <1>6 DEF ServiceInv, LiveOrEnding, Live
<1>10. Follows'
  <2>1. ASSUME NEW t \in Subs, NEW w \in Workers, Handles(w, t) PROVE Handles(w, t)'
    BY <2>1 DEF Handles, Busy, Runs, SubOf
  <2> QED  BY <1>2, <1>4, <2>1 DEF ServiceInv, Follows
<1>11. ServedForAReason'
  <2>1. \A t \in Subs : (\/ Continues(t) \/ \E steps : Ending(t, steps)
                         \/ \E w \in Workers : Runs(w, "strip") /\ SubOf(w) = t)
              => stripe[t].status # "none"
    <3>1. ASSUME NEW t \in Subs, Continues(t) PROVE stripe[t].status # "none"
      BY <3>1 DEF ServiceInv, InTheQueue, EndQueued, AtStripe, Continues, LiveStatuses
    <3>2. ASSUME NEW t \in Subs, NEW w \in Workers, Busy(w), SubOf(w) = t PROVE stripe[t].status # "none"
      BY <3>2 DEF ServiceInv, Handling, AtStripe, SubOf
    <3> QED  BY <3>1, <3>2 DEF Ending, Handles, Busy, Runs
  <2>2. \A t \in Subs : stripe[t].status # "none" => stripe'[t].price = stripe[t].price
    BY <1>2
  <2>3. /\ company' = company
        /\ \A w \in Workers : /\ worker'[w] = worker[w] /\ SubOf(w)' = SubOf(w)
                             /\ Runs(w, "strip")' = Runs(w, "strip")
    BY DEF Runs, SubOf
  <2>4. ServedForAReason
    BY DEF ServiceInv
  <2>5. company'.active => \E t \in Subs : Continues(t)' \/ Ending(t, Reading \cup {"off"})'
    BY <1>5, <1>6, <2>3, <2>4 DEF ServedForAReason
  <2>6. company'.plan # None => \E t \in Subs : Continues(t)' \/ Ending(t, Reading \cup {"off", "zero"})'
    BY <1>5, <1>6, <2>3, <2>4 DEF ServedForAReason
  <2>7. ASSUME NEW f \in company'.features
        PROVE  \E t \in Subs :
                 /\ stripe'[t].price = f
                 /\ \/ Continues(t)' \/ Ending(t, Reading \cup {"off", "zero", "cover"})'
                    \/ \E w \in Workers : Runs(w, "strip")' /\ SubOf(w)' = t /\ f \in worker'[w].drop
    <3>1. PICK t \in Subs :
                 /\ stripe[t].price = f
                 /\ \/ Continues(t) \/ Ending(t, Reading \cup {"off", "zero", "cover"})
                    \/ \E w \in Workers : Runs(w, "strip") /\ SubOf(w) = t /\ f \in worker[w].drop
      BY <2>3, <2>4, <2>7 DEF ServedForAReason
    <3>2. stripe'[t].price = f
      BY <2>1, <2>2, <3>1
    <3> QED  BY <1>5, <1>6, <2>3, <3>1, <3>2
  <2> QED  BY <2>3, <2>4, <2>5, <2>6, <2>7 DEF ServedForAReason
<1>12. PaymentServed'
  <2> SUFFICES ASSUME NEW t \in Subs, Paid(t)'
               PROVE  queue' # <<>> /\ queue'[Len(queue')].kind = "paid" /\ queue'[Len(queue')].sub = t
    BY DEF PaymentServed
  <2>1. t = s /\ Len(queue') = Len(queue) + 2 /\ queue'[Len(queue')] = PaidEvent(s, p)
    BY <1>1
  <2> QED  BY <1>1, <2>1 DEF PaidEvent
<1> QED  BY <1>7, <1>8, <1>9, <1>10, <1>11, <1>12

\* What Stripe does by itself comes after what the API call under way has done there.
LEMMA StripeStepServes ==
  ASSUME InOrder, TypeOK, ServiceInv, NEW s \in Subs, StripeStep(s)
  PROVE  ServiceInv'
<1>t. /\ \A t \in Subs : stripe[t] \in [status : Statuses, price : Price]
      /\ stripe[s].status # "none" => stripe[s].price \in Prices
      /\ stripe \in [Subs -> Record]
  BY DEF TypeOK, Record
<1>i. /\ OneByOne /\ Calling /\ PaymentServed /\ \A t \in Subs : Mirrored(t)
  BY DEF ServiceInv
<1>1. ASSUME NEW status \in {"active", "past_due", "canceled"}, NEW paid \in BOOLEAN,
             Become(s, status, stripe[s].price, paid), UNCHANGED <<local, company, worker, api>>,
             stripe[s].status \notin {"none", "canceled"}, paid <=> status = "active",
             ~(api.pc \in {"record", "grant", "activate"} /\ api.sub = s)
      PROVE  ServiceInv'
  <2>1. stripe' = [stripe EXCEPT ![s] = [status |-> status, price |-> stripe[s].price]]
    BY <1>1 DEF Become
  <2>2. /\ stripe'[s].status = status /\ stripe'[s].price = stripe[s].price
        /\ \A t \in Subs : t # s => stripe'[t] = stripe[t]
    BY <1>t, <2>1
  <2>3. OneByOne'
    BY <1>i, <1>1, <2>2 DEF OneByOne, Busy, Runs
  <2>4. ASSUME NEW t \in Subs PROVE Mirrored(t)'
    BY <1>i, <1>1, <2>2 DEF Mirrored
  <2>5. Calling'
    BY <1>i, <1>1, <1>t, <2>2 DEF Calling, TypeOK
  <2>6. \A t \in Subs : Paid(t)' => t = s /\ paid
    BY <1>i, <1>1, <2>2 DEF OneByOne, Paid
  <2>7. status \in Statuses /\ status \in LiveStatuses \cup EndStates /\ status # "none"
    BY <1>1 DEF Statuses, LiveStatuses, EndStates
  <2>8. stripe[s].price \in Prices
    BY <1>1, <1>t
  <2>9. paid => status \in LiveStatuses
    BY <1>1 DEF LiveStatuses
  <2>10. status \notin {"incomplete", "trialing"}
    BY <1>1
  <2>11. /\ \A w \in Workers : Handling(w)'
         /\ InTheQueue' /\ LiveOrEnding' /\ Follows' /\ ServedForAReason' /\ PaymentServed'
    BY <1>1, <2>6, <2>7, <2>8, <2>9, <2>10, BecomeServes
  <2> QED  BY <2>3, <2>4, <2>5, <2>11 DEF ServiceInv
<1>2. CASE Pay(s)
  <2>1. /\ Become(s, "active", stripe[s].price, TRUE) /\ UNCHANGED <<local, company, worker, api>>
        /\ stripe[s].status \notin {"none", "canceled"}
    BY <1>2 DEF Pay
  <2>2. ~(api.pc \in {"record", "grant", "activate"} /\ api.sub = s)
    BY <1>i, <1>t, <1>2 DEF Pay, Calling
  <2>3. "active" \in {"active", "past_due", "canceled"} /\ TRUE \in BOOLEAN /\ (TRUE <=> "active" = "active")
    OBVIOUS
  <2> QED  BY ONLY <1>1, <2>1, <2>2, <2>3
<1>3. CASE TrialEnds(s)
  <2>1. /\ Become(s, "active", stripe[s].price, TRUE) /\ UNCHANGED <<local, company, worker, api>>
        /\ stripe[s].status \notin {"none", "canceled"}
    BY <1>3 DEF TrialEnds
  <2>2. ~(api.pc \in {"record", "grant", "activate"} /\ api.sub = s)
    BY <1>i, <1>t, <1>3 DEF TrialEnds, Calling
  <2>3. "active" \in {"active", "past_due", "canceled"} /\ TRUE \in BOOLEAN /\ (TRUE <=> "active" = "active")
    OBVIOUS
  <2> QED  BY ONLY <1>1, <2>1, <2>2, <2>3
<1>4. CASE PastDue(s)
  <2>1. /\ Become(s, "past_due", stripe[s].price, FALSE) /\ UNCHANGED <<local, company, worker, api>>
        /\ stripe[s].status \notin {"none", "canceled"}
    BY <1>4 DEF PastDue
  <2>2. ~(api.pc \in {"record", "grant", "activate"} /\ api.sub = s)
    BY <1>i, <1>t, <1>4 DEF PastDue, Calling
  <2>3. "past_due" \in {"active", "past_due", "canceled"} /\ FALSE \in BOOLEAN /\ (FALSE <=> "past_due" = "active")
    OBVIOUS
  <2> QED  BY ONLY <1>1, <2>1, <2>2, <2>3
<1>5. CASE StripeEnds(s)
  <2>1. /\ Become(s, "canceled", stripe[s].price, FALSE) /\ UNCHANGED <<local, company, worker, api>>
        /\ stripe[s].status \notin {"none", "canceled"}
    BY <1>5 DEF StripeEnds
  <2>2. ~(api.pc \in {"record", "grant", "activate"} /\ api.sub = s)
    BY <1>i, <1>t, <1>5 DEF StripeEnds, Calling
  <2>3. "canceled" \in {"active", "past_due", "canceled"} /\ FALSE \in BOOLEAN /\ (FALSE <=> "canceled" = "active")
    OBVIOUS
  <2> QED  BY ONLY <1>1, <2>1, <2>2, <2>3
<1>6. ASSUME NEW p \in Prices PROVE ~DashboardChange(s, p)
  BY DEF InOrder, DashboardChange
<1> QED  BY <1>2, <1>3, <1>4, <1>5, <1>6 DEF StripeStep

\* A call is made when none is under way, and a subscription when all others are over.
LEMMA ApiCallServes ==
  ASSUME InOrder, TypeOK, ServiceInv, NEW s \in Subs, ApiCall(s)
  PROVE  ServiceInv'
<1>t. /\ \A t \in Subs : stripe[t] \in [status : Statuses, price : Price]
      /\ stripe[s].status # "none" => stripe[s].price \in Prices
      /\ stripe \in [Subs -> Record]
  BY DEF TypeOK, Record
<1>i. /\ OneByOne /\ Calling /\ PaymentServed /\ \A t \in Subs : Mirrored(t)
  BY DEF ServiceInv
<1>1. ASSUME NEW p \in Prices, NEW status \in {"incomplete", "trialing"}, NEW paid \in BOOLEAN,
             Become(s, status, p, paid), SetApi("record", s, status, p), UNCHANGED <<local, company, worker>>,
             api.pc = "idle", stripe[s].status = "none", \A t \in Subs : stripe[t].status \in {"none", "canceled"},
             paid => status = "trialing"
      PROVE  ServiceInv'
  <2>1. stripe' = [stripe EXCEPT ![s] = [status |-> status, price |-> p]]
    BY <1>1 DEF Become
  <2>2. /\ stripe'[s] = [status |-> status, price |-> p]
        /\ \A t \in Subs : t # s => stripe'[t] = stripe[t]
    BY <1>t, <2>1
  <2>a. api'.pc = "record" /\ api'.sub = s /\ api'.status = status /\ api'.price = p
    BY <1>1 DEF SetApi
  <2>3. OneByOne'
    BY <1>i, <1>1, <2>2 DEF OneByOne, Busy, Runs
  <2>4. ASSUME NEW t \in Subs PROVE Mirrored(t)'
    BY <1>i, <1>1, <2>2, <2>a DEF Mirrored
  <2>5. Calling'
    BY <1>1, <2>2, <2>a DEF Calling
  <2>6. \A t \in Subs : Paid(t)' => t = s /\ paid
    BY <1>1, <2>2 DEF Paid
  <2>7. status \in Statuses /\ status # "none"
    BY <1>1 DEF Statuses
  <2>9. paid => status \in LiveStatuses
    BY <1>1 DEF LiveStatuses
  <2>11. /\ \A w \in Workers : Handling(w)'
         /\ InTheQueue' /\ LiveOrEnding' /\ Follows' /\ ServedForAReason' /\ PaymentServed'
    BY <1>1, <2>6, <2>7, <2>9, BecomeServes
  <2> QED  BY <2>3, <2>4, <2>5, <2>11 DEF ServiceInv
<1>2. ASSUME NEW p \in Prices, Subscribe(s, p) PROVE ServiceInv'
  BY <1>1, <1>2 DEF Subscribe, InOrder
<1>3. ASSUME NEW p \in Prices, StartTrial(s, p) PROVE ServiceInv'
  BY <1>1, <1>3 DEF StartTrial
<1>4. ASSUME NEW p \in Prices PROVE ~ChangePlan(s, p)
  BY DEF InOrder, ChangePlan
<1>5. CASE Cancel(s)
  <2>1. /\ Become(s, "canceled", stripe[s].price, FALSE) /\ UNCHANGED <<local, company, worker>>
        /\ api.pc = "idle" /\ local[s].status # "none"
        /\ stripe[s].status \in {"trialing", "active", "past_due"}
        /\ api'.pc = "restatus" /\ api'.sub = s /\ api'.status = "canceled"
    BY <1>5 DEF Cancel, SetApi
  <2>2. stripe' = [stripe EXCEPT ![s] = [status |-> "canceled", price |-> stripe[s].price]]
    BY <2>1 DEF Become
  <2>3. /\ stripe'[s].status = "canceled" /\ stripe'[s].price = stripe[s].price
        /\ \A t \in Subs : t # s => stripe'[t] = stripe[t]
    BY <1>t, <2>2
  <2>4. OneByOne'
    BY <1>i, <2>1, <2>3 DEF OneByOne, Busy, Runs
  <2>5. ASSUME NEW t \in Subs PROVE Mirrored(t)'
    BY <1>i, <2>1, <2>3 DEF Mirrored
  <2>6. Calling'
    BY <2>1, <2>3 DEF Calling
  <2>7. \A t \in Subs : ~Paid(t)'
    BY <1>i, <2>1, <2>3 DEF OneByOne, Paid
  <2>8. "canceled" \in Statuses /\ "canceled" \in EndStates /\ stripe[s].price \in Prices /\ FALSE \in BOOLEAN
    BY <1>t, <2>1 DEF Statuses, EndStates
  <2>9. /\ \A w \in Workers : Handling(w)'
        /\ InTheQueue' /\ LiveOrEnding' /\ Follows' /\ ServedForAReason' /\ PaymentServed'
    BY <2>1, <2>7, <2>8, BecomeServes
  <2> QED  BY <2>4, <2>5, <2>6, <2>9 DEF ServiceInv
<1> QED  BY <1>2, <1>3, <1>4, <1>5 DEF ApiCall

\* The records follow the call that made them.
LEMMA ApiStepServes ==
  ASSUME InOrder, TypeOK, ServiceInv, ApiStep
  PROVE  ServiceInv'
<1>t. /\ \A t \in Subs : stripe[t] \in [status : Statuses, price : Price]
      /\ local \in [Subs -> Record] /\ company \in Company
      /\ api \in Call /\ (api.pc # "idle" => api.sub \in Subs)
  BY DEF TypeOK, Record
<1>i. /\ OneByOne /\ Calling /\ PaymentServed /\ \A t \in Subs : Mirrored(t)
      /\ LiveOrEnding /\ Follows /\ ServedForAReason /\ InTheQueue /\ \A w \in Workers : Handling(w)
  BY DEF ServiceInv
<1>u. UNCHANGED <<stripe, queue, worker>>
  BY DEF ApiStep, WriteRecord, Grant, Activate, UpdatePrice, UpdateStatus
<1>q. /\ OneByOne' /\ InTheQueue' /\ \A w \in Workers : Handling(w)'
  BY <1>i, <1>u DEF OneByOne, Busy, Runs, InTheQueue, AtStripe, EndEvent, Handling, Of, SubOf, Deactivates,
                    TrialOver, Continues, EndQueued, Queued
<1>c. /\ \A t \in Subs : Continues(t)' = Continues(t) /\ Queued(t)' = Queued(t)
      /\ \A t \in Subs : \A steps : Ending(t, steps)' = Ending(t, steps)
      /\ \A t \in Subs, w \in Workers : Handles(w, t)' = Handles(w, t)
  BY <1>u DEF Continues, EndQueued, Queued, EndEvent, Ending, Handles, Busy, Runs, SubOf
<1>r. api.sub \in Subs /\ api.pc # "idle"
  BY <1>t DEF ApiStep, WriteRecord, Grant, Activate, UpdatePrice, UpdateStatus
<1>p. company' = company => ServedForAReason' /\ PaymentServed'
  <2> SUFFICES ASSUME company' = company PROVE ServedForAReason' /\ PaymentServed'
    OBVIOUS
  <2>1. ServedForAReason'
    BY <1>i, <1>u DEF ServedForAReason, Ending, Handles, Busy, Runs, SubOf, Continues, EndQueued, EndEvent
  <2>2. PaymentServed'
    BY <1>i, <1>u DEF PaymentServed, ServedSoFar, Paid, Of, SubOf, Busy, Runs
  <2> QED  BY <2>1, <2>2
<1>1. CASE WriteRecord
  <2>1. /\ local' = [local EXCEPT ![api.sub] = [status |-> api.status, price |-> api.price]]
        /\ company' = company /\ api.pc = "record" /\ stripe[api.sub] = [status |-> api.status, price |-> api.price]
        /\ api.status \in {"incomplete", "trialing"}
    BY <1>1, <1>i DEF WriteRecord, Calling
  <2>2. /\ local'[api.sub] = stripe[api.sub] /\ stripe[api.sub].status \in {"incomplete", "trialing"}
        /\ \A t \in Subs : t # api.sub => local'[t] = local[t]
    BY <1>t, <1>r, <2>1
  <2>3. api' = IdleApi \/ (api' = [api EXCEPT !.pc = "grant"] /\ api.status = "trialing")
    BY <1>1 DEF WriteRecord
  <2>4. ASSUME NEW t \in Subs PROVE Mirrored(t)'
    BY <1>i, <1>u, <2>1, <2>2 DEF Mirrored
  <2>5. Calling'
    BY <1>t, <1>u, <2>1, <2>3 DEF Calling, IdleApi, Call
  <2>6. LiveOrEnding'
    BY <1>i, <1>u, <1>c, <2>2 DEF LiveOrEnding, Live, Continues, LiveStatuses
  <2>7. Follows'
    <3> SUFFICES ASSUME NEW t \in Subs
                 PROVE  \/ local'[t].status = stripe'[t].status \/ Queued(t)'
                        \/ \E w \in Workers : Handles(w, t)' /\ worker'[w].pc \in Reading
      BY DEF Follows
    <3>1. CASE t = api.sub
      BY <1>u, <2>2, <3>1
    <3>2. CASE t # api.sub
      BY <1>i, <1>u, <1>c, <2>1, <2>2, <3>2 DEF Follows
    <3> QED  BY <3>1, <3>2
  <2> QED  BY <1>p, <1>q, <2>1, <2>4, <2>5, <2>6, <2>7 DEF ServiceInv
<1>2. CASE Grant \/ Activate
  <2>1. /\ UNCHANGED local /\ stripe[api.sub].status = "trialing" /\ api.pc \in {"grant", "activate"}
        /\ stripe[api.sub] = [status |-> api.status, price |-> api.price] /\ api.status = "trialing"
    BY <1>2, <1>i DEF Grant, Activate, Calling
  <2>2. api' = IdleApi \/ api' = [api EXCEPT !.pc = "activate"]
    BY <1>2 DEF Grant, Activate
  <2>3. ASSUME NEW t \in Subs PROVE Mirrored(t)'
    BY <1>i, <1>u, <2>1 DEF Mirrored
  <2>4. Calling'
    BY <1>t, <1>u, <2>1, <2>2 DEF Calling, IdleApi, Call
  <2>5. LiveOrEnding' /\ Follows'
    BY <1>i, <1>u, <1>c, <2>1 DEF LiveOrEnding, Live, Follows
  <2>6. Continues(api.sub)
    BY <1>r, <2>1 DEF Continues, LiveStatuses
  <2>7. company'.features = company.features
    BY <1>2, <1>t DEF Grant, Activate, Company
  <2>e. /\ company'.active => company.active \/ Continues(api.sub)
        /\ company'.plan # None => company.plan # None \/ Continues(api.sub)
    BY <2>6
  <2>8. ServedForAReason'
    BY <1>i, <1>u, <1>r, <2>7, <2>e
       DEF ServedForAReason, Ending, Handles, Busy, Runs, SubOf, Continues, EndQueued, EndEvent
  <2>9. \A t \in Subs : ~Paid(t)
    BY <1>i, <1>r, <2>1 DEF OneByOne, Paid
  <2>10. PaymentServed'
    BY <1>u, <2>9 DEF PaymentServed, Paid
  <2> QED  BY <1>q, <2>3, <2>4, <2>5, <2>8, <2>10 DEF ServiceInv
<1>3. ~UpdatePrice
  BY <1>i DEF UpdatePrice, Calling
<1>4. CASE UpdateStatus
  <2>1. /\ local' = [local EXCEPT ![api.sub].status = "canceled"] /\ stripe[api.sub].status = "canceled"
        /\ local[api.sub].status # "none" /\ company' = company /\ api' = IdleApi /\ api.pc = "restatus"
    BY <1>4, <1>i DEF UpdateStatus, Calling
  <2>2. /\ local'[api.sub].status = "canceled" /\ local'[api.sub].price = local[api.sub].price
        /\ \A t \in Subs : t # api.sub => local'[t] = local[t]
    BY <1>t, <1>r, <2>1 DEF Record
  <2>3. ASSUME NEW t \in Subs PROVE Mirrored(t)'
    BY <1>i, <1>u, <2>1, <2>2 DEF Mirrored
  <2>4. Calling'
    BY <2>1 DEF Calling, IdleApi
  <2>5. LiveOrEnding'
    BY <1>i, <1>c, <2>2 DEF LiveOrEnding, Live
  <2>6. Follows'
    <3> SUFFICES ASSUME NEW t \in Subs
                 PROVE  \/ local'[t].status = stripe'[t].status \/ Queued(t)'
                        \/ \E w \in Workers : Handles(w, t)' /\ worker'[w].pc \in Reading
      BY DEF Follows
    <3>1. CASE t = api.sub
      BY <1>u, <2>1, <2>2, <3>1
    <3>2. CASE t # api.sub
      BY <1>i, <1>u, <1>c, <2>2, <3>2 DEF Follows
    <3> QED  BY <3>1, <3>2
  <2> QED  BY <1>p, <1>q, <2>1, <2>3, <2>4, <2>5, <2>6 DEF ServiceInv
<1> QED  BY <1>1, <1>2, <1>3, <1>4 DEF ApiStep

\* What holds at every step of a handler.
LEMMA HandlerFacts ==
  ASSUME TypeOK, ServiceInv, NEW w \in Workers, HandlerStep(w)
  PROVE  /\ Busy(w) /\ worker \in [Workers -> Slot] /\ worker[w] \in Slot /\ worker[w].event \in Event
         /\ SubOf(w) \in Subs /\ stripe[SubOf(w)].status # "none"
         /\ worker[w].event.price = stripe[SubOf(w)].price /\ stripe[SubOf(w)].price \in Prices
         /\ \A v \in Workers : v # w => worker[v].pc = "idle"
         /\ UNCHANGED <<stripe, api, queue>>
         /\ local \in [Subs -> Record] /\ company \in Company
         /\ \A s \in Subs : Paid(s) /\ queue = <<>> => ServedSoFar(w, s)
<1> USE DEF TypeOK
<1>1. worker[w].pc # "idle" /\ UNCHANGED <<stripe, api, queue>>
  BY DEF HandlerStep, ReadPrevious, Fetch, Sync, Off, Zero, Cover, Strip, Schedule, Prorate, Allocate, On, Fill,
         Look, Grow, Clear, Unschedule, outside, Runs
<1>2. Busy(w) /\ worker[w].event \in Event
  BY <1>1 DEF Busy, Runs
<1>3. SubOf(w) \in Subs
  BY <1>2 DEF SubOf, Event
<1>4. stripe[SubOf(w)].status # "none" /\ worker[w].event.price = stripe[SubOf(w)].price
  BY <1>2 DEF ServiceInv, Handling, AtStripe, SubOf
<1>5. \A v \in Workers : v # w => worker[v].pc = "idle"
  BY <1>2 DEF ServiceInv, OneByOne, Busy, Runs
<1>6. \A s \in Subs : Paid(s) /\ queue = <<>> => ServedSoFar(w, s)
  BY <1>2 DEF ServiceInv, PaymentServed
<1> QED  BY <1>1, <1>2, <1>3, <1>4, <1>5, <1>6

\* The slot after a handler's step: where it is, with the event it had.
NewSlot(w, new) == /\ worker' = [worker EXCEPT ![w] = new]
                   /\ new.pc = "idle" \/ new.event = worker[w].event

\* A step that leaves the records alone, past the reading of the subscription,
\* has to keep three parts of the invariant: the rest is not touched.
LEMMA HandlerServes ==
  ASSUME TypeOK, ServiceInv, NEW w \in Workers, HandlerStep(w), UNCHANGED local,
         NEW new, NewSlot(w, new), new.pc \in Reading \/ worker[w].pc \notin Reading,
         Handling(w)', ServedForAReason', PaymentServed'
  PROVE  ServiceInv'
<1>f. /\ Busy(w) /\ worker \in [Workers -> Slot] /\ worker[w].event \in Event
      /\ SubOf(w) \in Subs
      /\ \A v \in Workers : v # w => worker[v].pc = "idle"
      /\ UNCHANGED <<stripe, api, queue>>
  BY HandlerFacts
<1>i. /\ OneByOne /\ Calling /\ PaymentServed /\ \A t \in Subs : Mirrored(t)
      /\ LiveOrEnding /\ Follows /\ ServedForAReason /\ InTheQueue /\ \A v \in Workers : Handling(v)
  BY DEF ServiceInv
<1>w. /\ worker'[w] = new /\ \A v \in Workers : v # w => worker'[v] = worker[v]
  BY <1>f DEF NewSlot
<1>e. new.pc # "idle" => new.event = worker[w].event
  BY DEF NewSlot
<1>1. OneByOne'
  BY <1>i, <1>f, <1>w DEF OneByOne, Busy, Runs
<1>2. Calling' /\ \A t \in Subs : Mirrored(t)'
  BY <1>i, <1>f DEF Calling, Mirrored
<1>3. InTheQueue'
  BY <1>i, <1>f DEF InTheQueue, AtStripe, EndEvent
<1>4. ASSUME NEW v \in Workers PROVE Handling(v)'
  BY <1>f, <1>w DEF Handling, Busy, Runs
<1>5. \A t \in Subs : Continues(t)' = Continues(t) /\ Queued(t)' = Queued(t)
  BY <1>f DEF Continues, EndQueued, Queued, EndEvent
<1>6. ASSUME NEW t \in Subs, NEW v \in Workers, Handles(v, t), worker[v].pc \in Reading
      PROVE  Handles(v, t)' /\ worker'[v].pc \in Reading /\ worker'[v].event = worker[v].event
  <2>1. v = w
    BY <1>6, <1>f DEF Reading
  <2>2. new.pc \in Reading
    BY <1>6, <2>1
  <2> QED  BY <1>6, <1>w, <1>e, <2>1, <2>2 DEF Handles, Busy, Runs, SubOf, Reading
<1>7. LiveOrEnding'
  <2>1. ASSUME NEW t \in Subs, Ending(t, Reading) PROVE Ending(t, Reading)'
    BY <1>6, <2>1 DEF Ending, EndEvent
  <2> QED  BY <1>i, <1>5, <2>1 DEF LiveOrEnding, Live
<1>8. Follows'
  BY <1>i, <1>f, <1>5, <1>6 DEF Follows
<1> QED  BY <1>1, <1>2, <1>3, <1>4, <1>7, <1>8 DEF ServiceInv

\* Nothing is served without a reason: what the company still has, it has as
\* before, unless the step takes away the reason, or for a subscription that continues.
LEMMA ReasonsKept ==
  ASSUME TypeOK, ServiceInv, NEW w \in Workers, HandlerStep(w), NEW new, NewSlot(w, new),
         NEW Ends, Ends <=> EndEvent(worker[w].event),
         company'.active => \/ Continues(SubOf(w))
                            \/ company.active /\ (Ends /\ worker[w].pc \in Reading \cup {"off"}
                                                    => new.pc \in Reading \cup {"off"}),
         company'.plan # None => \/ Continues(SubOf(w))
                                 \/ company.plan # None /\ (Ends /\ worker[w].pc \in Reading \cup {"off", "zero"}
                                                              => new.pc \in Reading \cup {"off", "zero"}),
         company'.features \subseteq Featured,
         \A p \in company'.features :
           \/ \E t \in Subs : stripe[t].price = p /\ Continues(t)
           \/ new.pc = "strip" /\ stripe[SubOf(w)].price = p /\ p \in new.drop
           \/ /\ p \in company.features /\ worker[w].pc # "strip"
              /\ Ends /\ worker[w].pc \in Reading \cup {"off", "zero", "cover"}
                   => new.pc \in Reading \cup {"off", "zero", "cover"}
  PROVE  ServedForAReason'
<1>f. /\ Busy(w) /\ worker \in [Workers -> Slot] /\ worker[w].event \in Event
      /\ SubOf(w) \in Subs
      /\ \A v \in Workers : v # w => worker[v].pc = "idle"
      /\ UNCHANGED <<stripe, api, queue>>
  BY HandlerFacts
<1>w. /\ worker'[w] = new /\ \A v \in Workers : v # w => worker'[v] = worker[v]
  BY <1>f DEF NewSlot
<1>e. new.pc # "idle" => new.event = worker[w].event
  BY DEF NewSlot
<1>c. \A t \in Subs : Continues(t)' = Continues(t)
  BY <1>f DEF Continues, EndQueued, EndEvent
<1>1. ASSUME NEW t \in Subs, NEW steps, "idle" \notin steps, Ending(t, steps)
      PROVE  worker[w].pc \in steps /\ t = SubOf(w) /\ Ends
  BY <1>1, <1>f DEF Ending, Handles, SubOf
<1>2. ASSUME NEW t \in Subs, t = SubOf(w), NEW steps, "idle" \notin steps, new.pc \in steps, Ends
      PROVE  Ending(t, steps)'
  BY <1>2, <1>w, <1>e DEF Ending, Handles, Busy, Runs, SubOf, EndEvent
<1>s. ServedForAReason /\ "idle" \notin Reading
  BY DEF ServiceInv, Reading
<1>k. ASSUME NEW steps, "idle" \notin steps, Ends /\ worker[w].pc \in steps => new.pc \in steps,
             NEW t \in Subs, Continues(t) \/ Ending(t, steps)
      PROVE  Continues(t)' \/ Ending(t, steps)'
  BY <1>k, <1>1, <1>2, <1>c
<1>3. company'.active => \E t \in Subs : Continues(t)' \/ Ending(t, Reading \cup {"off"})'
  <2> DEFINE steps == Reading \cup {"off"}
  <2>1. "idle" \notin steps
    BY <1>s
  <2>2. company.active => \E t \in Subs : Continues(t) \/ Ending(t, steps)
    BY <1>s DEF ServedForAReason
  <2> HIDE DEF steps
  <2>3. ASSUME company.active, Ends /\ worker[w].pc \in steps => new.pc \in steps
        PROVE  \E t \in Subs : Continues(t)' \/ Ending(t, steps)'
    BY <1>k, <2>1, <2>2, <2>3
  <2> USE DEF steps
  <2> QED  BY <1>f, <1>c, <2>3
<1>4. company'.plan # None => \E t \in Subs : Continues(t)' \/ Ending(t, Reading \cup {"off", "zero"})'
  <2> DEFINE steps == Reading \cup {"off", "zero"}
  <2>1. "idle" \notin steps
    BY <1>s
  <2>2. company.plan # None => \E t \in Subs : Continues(t) \/ Ending(t, steps)
    BY <1>s DEF ServedForAReason
  <2> HIDE DEF steps
  <2>3. ASSUME company.plan # None, Ends /\ worker[w].pc \in steps => new.pc \in steps
        PROVE  \E t \in Subs : Continues(t)' \/ Ending(t, steps)'
    BY <1>k, <2>1, <2>2, <2>3
  <2> USE DEF steps
  <2> QED  BY <1>f, <1>c, <2>3
<1>5. ASSUME NEW p \in company'.features
      PROVE  \E t \in Subs :
               /\ stripe'[t].price = p
               /\ \/ Continues(t)' \/ Ending(t, Reading \cup {"off", "zero", "cover"})'
                  \/ \E v \in Workers : Runs(v, "strip")' /\ SubOf(v)' = t /\ p \in worker'[v].drop
  <2> DEFINE steps == Reading \cup {"off", "zero", "cover"}
  <2>1. "idle" \notin steps
    BY <1>s
  <2>2. CASE \E t \in Subs : stripe[t].price = p /\ Continues(t)
    BY <1>f, <1>c, <2>2
  <2>3. CASE new.pc = "strip" /\ stripe[SubOf(w)].price = p /\ p \in new.drop
    BY <1>f, <1>w, <1>e, <2>3 DEF Runs, SubOf
  <2>4. CASE /\ p \in company.features /\ worker[w].pc # "strip"
             /\ Ends /\ worker[w].pc \in steps => new.pc \in steps
    <3>1. PICK t \in Subs :
                 /\ stripe[t].price = p
                 /\ \/ Continues(t) \/ Ending(t, steps)
                    \/ \E v \in Workers : Runs(v, "strip") /\ SubOf(v) = t /\ p \in worker[v].drop
      BY <1>s, <2>4 DEF ServedForAReason
    <3>2. ~\E v \in Workers : Runs(v, "strip")
      BY <1>f, <2>4 DEF Runs
    <3> HIDE DEF steps
    <3>3. Continues(t)' \/ Ending(t, steps)'
      BY <1>k, <2>1, <2>4, <3>1, <3>2
    <3> USE DEF steps
    <3> QED  BY <1>f, <3>1, <3>3
  <2> QED  BY <2>2, <2>3, <2>4
<1> QED  BY <1>3, <1>4, <1>5 DEF ServedForAReason

\* A payment is served as far as the handler of its event has come.
LEMMA PaymentKept ==
  ASSUME TypeOK, ServiceInv, NEW w \in Workers, HandlerStep(w), NEW new, NewSlot(w, new),
         \A s \in Subs : Paid(s) /\ queue = <<>> /\ ServedSoFar(w, s) =>
           IF new.pc = "idle"
             THEN /\ company'.active /\ ~company'.deletion
                  /\ company'.plan = stripe[s].price /\ stripe[s].price \in company'.features
             ELSE ServedSoFar(w, s)'
  PROVE  PaymentServed'
<1>f. /\ Busy(w) /\ worker \in [Workers -> Slot]
      /\ \A v \in Workers : v # w => worker[v].pc = "idle"
      /\ UNCHANGED <<stripe, queue>>
      /\ \A s \in Subs : Paid(s) /\ queue = <<>> => ServedSoFar(w, s)
  BY HandlerFacts
<1>w. /\ worker'[w] = new /\ \A v \in Workers : v # w => worker'[v] = worker[v]
  BY <1>f DEF NewSlot
<1>b. Busy(w)' <=> new.pc # "idle"
  BY <1>w DEF Busy, Runs
<1>o. \A v \in Workers : v # w => ~Busy(v)'
  BY <1>f, <1>w DEF Busy, Runs
<1>1. ASSUME NEW s \in Subs, Paid(s)'
      PROVE  IF queue' # <<>> THEN queue'[Len(queue')].kind = "paid" /\ queue'[Len(queue')].sub = s
             ELSE /\ \A v \in Workers : Busy(v)' => ServedSoFar(v, s)'
                  /\ (\A v \in Workers : ~Busy(v)') =>
                       company'.active /\ ~company'.deletion /\ company'.plan = stripe'[s].price
                         /\ stripe'[s].price \in company'.features
  <2>1. Paid(s)
    BY <1>1, <1>f DEF Paid
  <2>2. CASE queue # <<>>
    BY <1>f, <2>1, <2>2 DEF ServiceInv, PaymentServed
  <2>3. CASE queue = <<>>
    <3>1. ServedSoFar(w, s)
      BY <1>f, <2>1, <2>3
    <3>2. CASE new.pc = "idle"
      BY <1>f, <1>b, <1>o, <2>1, <2>3, <3>1, <3>2
    <3>3. CASE new.pc # "idle"
      BY <1>f, <1>b, <1>o, <2>1, <2>3, <3>1, <3>3
    <3> QED  BY <3>2, <3>3
  <2> QED  BY <2>2, <2>3
<1> QED  BY <1>1 DEF PaymentServed

\* The handlers' steps, in the order they are taken.  The slot's next value is
\* written out once, and then the three parts a step can disturb.
LEMMA ReadingServes ==
  ASSUME InOrder, TypeOK, ServiceInv, NEW w \in Workers, ReadPrevious(w) \/ Fetch(w)
  PROVE  ServiceInv'
<1>h. HandlerStep(w)
  BY DEF HandlerStep
<1>f. /\ Busy(w) /\ worker \in [Workers -> Slot] /\ worker[w] \in Slot /\ worker[w].event \in Event
      /\ SubOf(w) \in Subs /\ stripe[SubOf(w)].status # "none"
      /\ UNCHANGED <<stripe, api, queue>>
  BY <1>h, HandlerFacts
<1>i. Handling(w) /\ Mirrored(SubOf(w)) /\ ServedForAReason
  BY <1>f DEF ServiceInv
<1>1. PICK new : /\ worker' = [worker EXCEPT ![w] = new] /\ new.event = worker[w].event
                 /\ \/ /\ new.pc = "fetch" /\ new.prev = local[SubOf(w)] /\ new.plan = worker[w].plan
                       /\ worker[w].pc = "previous"
                    \/ /\ new.pc = "sync" /\ new.prev = worker[w].prev /\ new.plan = worker[w].plan
                       /\ new.snap = stripe[SubOf(w)].status /\ worker[w].pc = "fetch"
  <2>1. CASE ReadPrevious(w)
    <3> DEFINE n == [worker[w] EXCEPT !.pc = "fetch", !.prev = local[SubOf(w)]]
    <3>1. n.event = worker[w].event /\ n.pc = "fetch" /\ n.prev = local[SubOf(w)] /\ n.plan = worker[w].plan
      BY <1>f DEF Slot
    <3>2. worker' = [worker EXCEPT ![w] = n] /\ worker[w].pc = "previous"
      BY <2>1 DEF ReadPrevious, Runs
    <3> QED  BY <3>1, <3>2
  <2>2. CASE Fetch(w)
    <3> DEFINE n == [worker[w] EXCEPT !.pc = "sync", !.snap = stripe[SubOf(w)].status]
    <3>1. n.event = worker[w].event /\ n.pc = "sync" /\ n.prev = worker[w].prev /\ n.plan = worker[w].plan
            /\ n.snap = stripe[SubOf(w)].status
      BY <1>f DEF Slot
    <3>2. worker' = [worker EXCEPT ![w] = n] /\ worker[w].pc = "fetch"
      BY <2>2 DEF Fetch, Runs
    <3> QED  BY <3>1, <3>2
  <2> QED  BY <2>1, <2>2
<1>2. NewSlot(w, new) /\ UNCHANGED <<local, company>> /\ new.pc \in Reading
  BY <1>1 DEF NewSlot, ReadPrevious, Fetch, Reading
<1>3. Handling(w)'
  BY <1>f, <1>i, <1>1 DEF Handling, AtStripe, Busy, Runs, SubOf, Of, Continues, EndQueued, Queued, EndEvent, Mirrored,
                          PaidSteps, EndSteps
<1>4. ServedForAReason'
  <2>1. /\ company' = company /\ company.features \subseteq Featured /\ worker[w].pc # "strip"
    BY <1>i, <1>1, <1>2 DEF ServedForAReason
  <2> QED  BY <1>h, <1>2, <2>1, ReasonsKept
<1>5. PaymentServed'
  <2>1. \A s \in Subs : ServedSoFar(w, s) => ServedSoFar(w, s)' /\ new.pc # "idle"
    BY <1>f, <1>1 DEF ServedSoFar, Of, SubOf
  <2> QED  BY <1>h, <1>2, <2>1, PaymentKept
<1> QED  BY <1>h, <1>2, <1>3, <1>4, <1>5, HandlerServes

\* The steps after an end.  No payment is being served.
LEMMA EndingServes ==
  ASSUME InOrder, TypeOK, ServiceInv, NEW w \in Workers,
         Off(w) \/ Zero(w) \/ Cover(w) \/ Strip(w) \/ Schedule(w) \/ Prorate(w)
  PROVE  ServiceInv'
<1>h. HandlerStep(w)
  BY DEF HandlerStep
<1>f. /\ Busy(w) /\ worker \in [Workers -> Slot] /\ worker[w] \in Slot /\ worker[w].event \in Event
      /\ SubOf(w) \in Subs /\ stripe[SubOf(w)].status # "none"
      /\ worker[w].event.price = stripe[SubOf(w)].price /\ stripe[SubOf(w)].price \in Prices
      /\ \A v \in Workers : v # w => worker[v].pc = "idle"
      /\ UNCHANGED <<stripe, api, queue>> /\ company \in Company
  BY <1>h, HandlerFacts
<1>i. Handling(w) /\ (\A t \in Subs : Mirrored(t)) /\ ServedForAReason /\ Calling /\ LiveOrEnding
  BY <1>f DEF ServiceInv
<1>p. worker[w].pc \in EndSteps \cup {"prorate"} /\ UNCHANGED local
  BY DEF EndSteps, Off, Zero, Cover, Strip, Schedule, Prorate, Runs
<1>b. Of(w, "sub")
  BY <1>f, <1>i, <1>p DEF Handling
<1>5. ASSUME NEW new, NewSlot(w, new) PROVE PaymentServed'
  <2>1. \A s \in Subs : ~ServedSoFar(w, s)
    BY <1>b DEF ServedSoFar, Of
  <2> QED  BY <1>h, <1>5, <2>1, PaymentKept
<1>g. ASSUME NEW step \in {"zero", "cover", "schedule", "prorate"}, Goto(w, step), worker[w].pc \in EndSteps
      PROVE  \E new : NewSlot(w, new) /\ new.pc = step /\ Handling(w)'
  <2> DEFINE n == [worker[w] EXCEPT !.pc = step]
  <2>1. n.event = worker[w].event /\ n.pc = step /\ n.prev = worker[w].prev
    BY <1>f DEF Slot
  <2>2. worker' = [worker EXCEPT ![w] = n]
    BY <1>g DEF Goto
  <2> HIDE DEF n
  <2>3. worker'[w] = n
    BY <1>f, <2>2
  <2>4. Handling(w)'
    BY <1>f, <1>i, <1>g, <2>1, <2>3 DEF Handling, AtStripe, Busy, Runs, SubOf, Of, Continues, EndQueued,
                     Queued, EndEvent, PaidSteps, EndSteps, Deactivates, TrialOver
  <2> QED  BY <2>1, <2>2, <2>4 DEF NewSlot
<1>k. ASSUME NEW new, NewSlot(w, new), new.pc \notin Reading, Handling(w)', ServedForAReason' PROVE ServiceInv'
  <2>1. worker[w].pc \notin Reading
    BY <1>p DEF EndSteps, Reading
  <2> QED  BY <1>h, <1>p, <1>5, <1>k, <2>1, HandlerServes
<1>r. {"zero", "cover", "schedule", "prorate", "strip", "idle"} \cap Reading = {}
  BY DEF Reading
<1>1. CASE Off(w)
  <2>1. /\ Goto(w, "zero") /\ worker[w].pc = "off" /\ company' = [company EXCEPT !.active = FALSE]
    BY <1>1 DEF Off, SetCompany, Runs
  <2>2. /\ ~company'.active /\ company'.plan = company.plan /\ company'.features = company.features
        /\ company.features \subseteq Featured
    BY <1>f, <1>i, <2>1 DEF Company, ServedForAReason
  <2>3. PICK new : NewSlot(w, new) /\ new.pc = "zero" /\ Handling(w)'
    BY <1>g, <2>1 DEF EndSteps
  <2>4. ServedForAReason'
    BY <1>h, <2>1, <2>2, <2>3, ReasonsKept
  <2> QED  BY <1>k, <1>r, <2>3, <2>4
<1>2. CASE Zero(w)
  <2>1. /\ Goto(w, "cover") /\ worker[w].pc = "zero" /\ company' = [company EXCEPT !.plan = None]
    BY <1>2 DEF Zero, SetCompany, Runs
  <2>2. /\ company'.active = company.active /\ company'.plan = None /\ company'.features = company.features
        /\ company.features \subseteq Featured
    BY <1>f, <1>i, <2>1 DEF Company, ServedForAReason
  <2>3. PICK new : NewSlot(w, new) /\ new.pc = "cover" /\ Handling(w)'
    BY <1>g, <2>1 DEF EndSteps
  <2>4. worker[w].pc \notin Reading \cup {"off"}
    BY <2>1 DEF Reading
  <2>5. ServedForAReason'
    BY <1>h, <2>1, <2>2, <2>3, <2>4, ReasonsKept
  <2> QED  BY <1>k, <1>r, <2>3, <2>5
\* The features whose only reason was the ended subscription are the ones to drop.
<1>3. CASE Cover(w)
  <2> DEFINE mine == {local[SubOf(w)].price} \cap Featured
             others == {local[s].price : s \in {t \in Subs \ {SubOf(w)} : Live(t)}}
             new == [worker[w] EXCEPT !.pc = "strip", !.drop = mine \ others]
             gone == mine \ others
  <2>1. /\ worker' = [worker EXCEPT ![w] = new] /\ worker[w].pc = "cover" /\ company' = company
    BY <1>3 DEF Cover, Runs
  <2>2. new.event = worker[w].event /\ new.pc = "strip" /\ new.prev = worker[w].prev /\ new.drop = gone
    BY <1>f DEF Slot
  <2>3. ASSUME NEW p \in company.features
        PROVE  \/ \E t \in Subs : stripe[t].price = p /\ Continues(t)
               \/ stripe[SubOf(w)].price = p /\ p \in gone
               \/ ~EndEvent(worker[w].event)
    <3>1. PICK t \in Subs :
                 /\ stripe[t].price = p /\ p \in Featured
                 /\ \/ Continues(t) \/ Ending(t, Reading \cup {"off", "zero", "cover"})
                    \/ \E v \in Workers : Runs(v, "strip") /\ SubOf(v) = t /\ p \in worker[v].drop
      BY <1>i, <2>3 DEF ServedForAReason
    <3>2. SUFFICES ASSUME ~Continues(t), EndEvent(worker[w].event)
                   PROVE  \/ \E u \in Subs : stripe[u].price = p /\ Continues(u)
                          \/ stripe[SubOf(w)].price = p /\ p \in gone
      BY <3>1
    <3>3. t = SubOf(w)
      BY <1>f, <2>1, <3>1, <3>2 DEF Runs, Ending, Handles, Reading
    <3>4. local[t].status # "none"
      BY <1>f, <1>i, <3>2, <3>3 DEF Mirrored, Calling, Handling, AtStripe, EndEvent, SubOf
    <3>5. local[t].price = p
      BY <1>i, <3>1, <3>4 DEF Mirrored
    <3>6. CASE p \in others
      <4>1. PICK u \in Subs \ {SubOf(w)} : Live(u) /\ local[u].price = p
        BY <3>6
      <4>2. Continues(u) \/ Ending(u, Reading)
        BY <1>i, <4>1 DEF LiveOrEnding
      <4>3. ~Ending(u, Reading)
        BY <1>f, <4>1 DEF Ending, Handles, Reading
      <4>4. stripe[u].price = p
        BY <1>i, <4>1 DEF Mirrored, Live
      <4> QED  BY <4>1, <4>2, <4>3, <4>4
    <3>7. CASE p \notin others
      BY <3>1, <3>3, <3>5, <3>7
    <3> QED  BY <3>6, <3>7
  <2> HIDE DEF mine, others, new, gone
  <2>4. NewSlot(w, new) /\ worker'[w] = new
    BY <1>f, <2>1, <2>2 DEF NewSlot
  <2>5. Handling(w)'
    BY <1>f, <1>i, <2>1, <2>2, <2>4 DEF Handling, AtStripe, Busy, Runs, SubOf, Of, Continues, EndQueued,
                     Queued, EndEvent, PaidSteps, EndSteps, Deactivates, TrialOver
  <2>6. worker[w].pc \notin Reading \cup {"off", "zero"}
    BY <2>1 DEF Reading
  <2>7. ServedForAReason'
    <3>1. company.features \subseteq Featured
      BY <1>i DEF ServedForAReason
    <3> DEFINE Ends == EndEvent(worker[w].event)
    <3>2. Ends <=> EndEvent(worker[w].event)
      OBVIOUS
    <3>3. \A p \in company.features :
             \/ \E t \in Subs : stripe[t].price = p /\ Continues(t)
             \/ stripe[SubOf(w)].price = p /\ p \in gone
             \/ ~Ends
      BY <2>3
    <3> HIDE DEF Ends
    <3>4. \A p \in company'.features :
           \/ \E t \in Subs : stripe[t].price = p /\ Continues(t)
           \/ new.pc = "strip" /\ stripe[SubOf(w)].price = p /\ p \in new.drop
           \/ /\ p \in company.features /\ worker[w].pc # "strip"
              /\ Ends /\ worker[w].pc \in Reading \cup {"off", "zero", "cover"}
                   => new.pc \in Reading \cup {"off", "zero", "cover"}
      BY <2>1, <2>2, <3>3
    <3> QED  BY <1>h, <2>1, <2>4, <2>6, <3>1, <3>2, <3>4, ReasonsKept
  <2> QED  BY <1>k, <1>r, <2>2, <2>4, <2>5, <2>7
<1>4. CASE Strip(w)
  <2>1. /\ Goto(w, "schedule") /\ worker[w].pc = "strip"
        /\ company' = [company EXCEPT !.features = company.features \ worker[w].drop]
    BY <1>4 DEF Strip, SetCompany, Runs
  <2>2. /\ company'.active = company.active /\ company'.plan = company.plan
        /\ company'.features = company.features \ worker[w].drop
        /\ company.features \subseteq Featured
    BY <1>f, <1>i, <2>1 DEF Company, ServedForAReason
  <2>3. PICK new : NewSlot(w, new) /\ new.pc = "schedule" /\ Handling(w)'
    BY <1>g, <2>1 DEF EndSteps
  <2>4. worker[w].pc \notin Reading \cup {"off", "zero", "cover"}
    BY <2>1 DEF Reading
  <2>5. \A p \in company'.features : \E t \in Subs : stripe[t].price = p /\ Continues(t)
    BY <1>i, <1>f, <2>1, <2>2 DEF ServedForAReason, Runs, Ending, Handles, Reading
  <2>6. ServedForAReason'
    BY <1>h, <2>1, <2>2, <2>3, <2>4, <2>5, ReasonsKept
  <2> QED  BY <1>k, <1>r, <2>3, <2>6
<1>6. CASE Schedule(w)
  <2>1. /\ Goto(w, "prorate") /\ worker[w].pc = "schedule"
        /\ company'.active = company.active /\ company'.plan = company.plan
        /\ company'.features = company.features /\ company.features \subseteq Featured
    BY <1>f, <1>i, <1>6 DEF Schedule, SetCompany, Runs, Company, ServedForAReason
  <2>2. PICK new : NewSlot(w, new) /\ new.pc = "prorate" /\ Handling(w)'
    BY <1>g, <2>1 DEF EndSteps
  <2>3. worker[w].pc \notin Reading \cup {"off", "zero", "cover"}
    BY <2>1 DEF Reading
  <2>4. ServedForAReason'
    BY <1>h, <2>1, <2>2, <2>3, ReasonsKept
  <2> QED  BY <1>k, <1>r, <2>2, <2>4
\* The price is the one the record had: nothing is prorated.
<1>7. CASE Prorate(w)
  <2>1. /\ company' = company /\ worker' = [worker EXCEPT ![w] = IdleSlot] /\ worker[w].pc = "prorate"
    BY <1>f, <1>i, <1>7 DEF Prorate, SetCompany, Done, Handling, Runs
  <2>2. IdleSlot.pc = "idle" /\ NewSlot(w, IdleSlot) /\ worker'[w] = IdleSlot
    BY <1>f, <2>1 DEF NewSlot, IdleSlot
  <2>3. Handling(w)'
    BY <2>2 DEF Handling, Busy, Runs
  <2>4. worker[w].pc \notin Reading \cup {"off", "zero", "cover"} /\ company.features \subseteq Featured
    BY <1>i, <2>1 DEF Reading, ServedForAReason
  <2>5. ServedForAReason'
    BY <1>h, <2>1, <2>2, <2>4, ReasonsKept
  <2> QED  BY <1>k, <1>r, <2>2, <2>3, <2>5
<1> QED  BY <1>1, <1>2, <1>3, <1>4, <1>6, <1>7

\* The record is set to the status read from Stripe.  If it was read before a
\* change, that change's event is still to come.
LEMMA SyncServes ==
  ASSUME InOrder, TypeOK, ServiceInv, NEW w \in Workers, Sync(w)
  PROVE  ServiceInv'
<1>h. HandlerStep(w)
  BY DEF HandlerStep
<1>f. /\ Busy(w) /\ worker \in [Workers -> Slot] /\ worker[w] \in Slot /\ worker[w].event \in Event
      /\ SubOf(w) \in Subs /\ stripe[SubOf(w)].status # "none"
      /\ \A v \in Workers : v # w => worker[v].pc = "idle"
      /\ UNCHANGED <<stripe, api, queue>>
      /\ local \in [Subs -> Record] /\ company \in Company
  BY <1>h, HandlerFacts
<1>i. /\ OneByOne /\ Calling /\ PaymentServed /\ \A t \in Subs : Mirrored(t)
      /\ LiveOrEnding /\ Follows /\ ServedForAReason /\ InTheQueue /\ Handling(w)
  BY <1>f DEF ServiceInv
<1> DEFINE x == SubOf(w)
           step == IF Of(w, "paid") THEN "allocate" ELSE IF Deactivates(w) THEN "off" ELSE "prorate"
           new == [worker[w] EXCEPT !.pc = step]
<1>n. new.pc = step /\ new.event = worker[w].event /\ new.prev = worker[w].prev
  BY <1>f DEF Slot
<1>s. step \in {"allocate", "off", "prorate"} /\ worker[w].pc = "sync" /\ company' = company
  BY DEF Sync, Runs
<1>k. /\ step = "allocate" <=> Of(w, "paid")
      /\ step = "off" => Of(w, "sub") /\ Deactivates(w)
      /\ step = "prorate" => Of(w, "sub") /\ ~Deactivates(w)
  BY <1>f DEF Of, Event
<1>u. worker' = [worker EXCEPT ![w] = new]
  BY DEF Sync, Goto
<1> HIDE DEF new, step
<1>w. /\ worker'[w] = new /\ (\A v \in Workers : v # w => worker'[v] = worker[v]) /\ NewSlot(w, new)
  BY <1>f, <1>n, <1>u DEF NewSlot
<1>y. /\ x \in Subs /\ \A t \in Subs : t # x => local'[t] = local[t]
      /\ local[x].status = "none" => local'[x] = local[x]
      /\ local[x].status # "none" => local'[x].status = worker[w].snap /\ local'[x].price = local[x].price
  BY <1>f DEF Sync, Record
<1>z. /\ worker[w].snap # "none"
      /\ worker[w].snap = stripe[x].status \/ Queued(x)
      /\ worker[w].snap \in LiveStatuses => Continues(x)
      /\ Of(w, "paid") => Continues(x)
      /\ worker[w].prev.price \in {None, stripe[x].price}
  BY <1>f, <1>i, <1>s DEF Handling, Runs
<1>o. \A t \in Subs : ~(\E v \in Workers : Handles(v, t)) \/ t = x
  BY <1>f DEF Handles, Busy, Runs
<1>c. \A t \in Subs : Continues(t)' = Continues(t) /\ Queued(t)' = Queued(t)
  BY <1>f DEF Continues, EndQueued, Queued, EndEvent
<1>q. x = SubOf(w)
  OBVIOUS
<1> HIDE DEF x
<1>1. OneByOne'
  BY <1>i, <1>f, <1>w, <1>n, <1>s DEF OneByOne, Busy, Runs
<1>2. Calling'
  <2>1. ASSUME api.pc = "restatus" PROVE local'[api.sub].status # "none"
    <3>1. CASE api.sub = x
      <4>1. stripe[x].status = "canceled" /\ local[x].status # "none"
        BY <1>i, <2>1, <3>1 DEF Calling
      <4> QED  BY <1>y, <1>z, <3>1, <4>1
    <3>2. CASE api.sub # x
      BY <1>i, <1>y, <2>1, <3>2 DEF Calling, TypeOK
    <3> QED  BY <3>1, <3>2
  <2> QED  BY <1>i, <1>f, <2>1 DEF Calling
<1>3. ASSUME NEW t \in Subs PROVE Mirrored(t)'
  <2>1. CASE t = x /\ local[x].status # "none"
    BY <1>i, <1>f, <1>y, <1>z, <2>1 DEF Mirrored
  <2>2. CASE ~(t = x /\ local[x].status # "none")
    <3>1. local'[t] = local[t]
      BY <1>y, <2>2
    <3> QED  BY <1>i, <1>f, <3>1 DEF Mirrored
  <2> QED  BY <2>1, <2>2
<1>4. ASSUME NEW v \in Workers PROVE Handling(v)'
  <2>1. CASE v # w
    BY <1>f, <1>w, <2>1 DEF Handling, Busy, Runs
  <2>2. CASE v = w
    <3>1. \A e : e.sub \in Subs /\ AtStripe(e) => AtStripe(e)'
      BY <1>f DEF AtStripe
    <3>2. AtStripe(worker[w].event) /\ worker[w].event.sub \in Subs /\ SubOf(w)' = SubOf(w)
      BY <1>f, <1>i, <1>w, <1>n DEF Handling, SubOf
    <3>3. PICK e : e = worker[w].event
      OBVIOUS
    <3>4. AtStripe(e)' /\ worker'[w].event = e
      BY <1>n, <1>w, <3>1, <3>2, <3>3
    <3>5. Of(w, "paid")' = Of(w, "paid") /\ Of(w, "sub")' = Of(w, "sub") /\ Deactivates(w)' = Deactivates(w)
      BY <1>n, <1>w DEF Of, Deactivates, TrialOver
    <3>6. /\ Of(w, "paid") => Continues(SubOf(w))'
          /\ new.prev.price \in {None, stripe'[SubOf(w)'].price}
      BY <1>c, <1>f, <1>n, <1>q, <1>y, <1>z, <3>2
    <3>7. AtStripe(worker[w].event)'
      BY <3>3, <3>4 DEF AtStripe
    <3>8. /\ new.pc \in PaidSteps => Of(w, "paid")
          /\ new.pc \in EndSteps => Of(w, "sub") /\ Deactivates(w)
          /\ new.pc \in {"previous", "prorate"} => Of(w, "sub")
          /\ new.pc \notin {"on", "fill", "grow", "sync", "idle"}
      BY <1>k, <1>n, <1>s DEF PaidSteps, EndSteps
    <3> QED  BY <1>w, <2>2, <3>5, <3>6, <3>7, <3>8 DEF Handling, Runs
  <2> QED  BY <2>1, <2>2
<1>5. InTheQueue'
  BY <1>i, <1>f DEF InTheQueue, AtStripe, EndEvent
<1>6. LiveOrEnding'
  <2> SUFFICES ASSUME NEW t \in Subs, local'[t].status \in LiveStatuses PROVE Continues(t)'
    BY DEF LiveOrEnding, Live, LiveStatuses
  <2>1. CASE t = x /\ local[x].status # "none"
    BY <1>c, <1>y, <1>z, <2>1
  <2>2. CASE t = x /\ local[x].status = "none"
    BY <1>y, <2>2 DEF LiveStatuses
  <2>3. CASE t # x
    <3>1. Live(t)
      BY <1>y, <2>3 DEF Live, LiveStatuses
    <3>2. ~Ending(t, Reading)
      BY <1>o, <2>3 DEF Ending
    <3> QED  BY <1>c, <1>i, <3>1, <3>2 DEF LiveOrEnding
  <2> QED  BY <2>1, <2>2, <2>3
<1>7. Follows'
  <2> SUFFICES ASSUME NEW t \in Subs
               PROVE  \/ local'[t].status = stripe'[t].status
                      \/ Queued(t)'
                      \/ api'.sub = t /\ api'.pc \in {"record", "restatus"}
    BY DEF Follows
  <2>1. CASE t = x /\ local[x].status # "none"
    BY <1>c, <1>f, <1>y, <1>z, <2>1
  <2>2. CASE t = x /\ local[x].status = "none"
    BY <1>f, <1>i, <1>q, <1>y, <2>2 DEF Mirrored
  <2>3. CASE t # x
    BY <1>c, <1>f, <1>i, <1>o, <1>y, <2>3 DEF Follows
  <2> QED  BY <2>1, <2>2, <2>3
<1>8. ServedForAReason'
  <2>1. EndEvent(worker[w].event) => step = "off"
    BY <1>s, <1>k, <1>f DEF EndEvent, Deactivates, Of
  <2>2. worker[w].pc # "strip" /\ company.features \subseteq Featured
    BY <1>s, <1>i DEF ServedForAReason
  <2> DEFINE Ends == EndEvent(worker[w].event)
  <2>3. Ends <=> EndEvent(worker[w].event)
    OBVIOUS
  <2> HIDE DEF Ends
  <2> QED  BY <1>h, <1>n, <1>s, <1>w, <2>1, <2>2, <2>3, ReasonsKept
<1>9. PaymentServed'
  <2>1. \A s \in Subs : ServedSoFar(w, s) => ServedSoFar(w, s)' /\ new.pc # "idle"
    BY <1>k, <1>n, <1>s, <1>w DEF ServedSoFar, Of, SubOf
  <2> QED  BY <1>h, <1>w, <2>1, PaymentKept
<1> QED  BY <1>1, <1>2, <1>3, <1>4, <1>5, <1>6, <1>7, <1>8, <1>9 DEF ServiceInv

\* The steps after a payment, for a subscription that continues.
LEMMA PayingServes ==
  ASSUME InOrder, TypeOK, ServiceInv, NEW w \in Workers,
         Allocate(w) \/ On(w) \/ Fill(w) \/ Look(w) \/ Grow(w) \/ Clear(w) \/ Unschedule(w)
  PROVE  ServiceInv'
<1>h. HandlerStep(w)
  BY DEF HandlerStep
<1>f. /\ Busy(w) /\ worker \in [Workers -> Slot] /\ worker[w] \in Slot /\ worker[w].event \in Event
      /\ SubOf(w) \in Subs /\ stripe[SubOf(w)].status # "none"
      /\ worker[w].event.price = stripe[SubOf(w)].price /\ stripe[SubOf(w)].price \in Prices
      /\ UNCHANGED <<stripe, api, queue>> /\ company \in Company
  BY <1>h, HandlerFacts
<1>i. Handling(w) /\ (\A t \in Subs : Mirrored(t)) /\ ServedForAReason /\ Calling
  BY <1>f DEF ServiceInv
<1>p. worker[w].pc \in PaidSteps /\ UNCHANGED local
  BY DEF PaidSteps, Allocate, On, Fill, Look, Grow, Clear, Unschedule, Runs
<1>b. Of(w, "paid") /\ Continues(SubOf(w)) /\ ~EndEvent(worker[w].event)
  BY <1>f, <1>i, <1>p DEF Handling, Of, EndEvent
\* The record of what is paid is there.
<1>r. ASSUME NEW s \in Subs, Paid(s) PROVE local[s].status # "none" /\ local[s].price = stripe[s].price
  BY <1>i, <1>r DEF Mirrored, Calling, Paid
<1>d. company.features \subseteq Featured /\ worker[w].pc # "strip"
  BY <1>i, <1>p DEF ServedForAReason, PaidSteps
<1>8. ASSUME NEW new, NewSlot(w, new),
             company'.features \subseteq company.features \cup ({stripe[SubOf(w)].price} \cap Featured),
             company'.active => company.active \/ Continues(SubOf(w)),
             company'.plan # None => company.plan # None \/ Continues(SubOf(w))
      PROVE  ServedForAReason'
  <2> DEFINE Ends == EndEvent(worker[w].event)
  <2>1. (Ends <=> EndEvent(worker[w].event)) /\ ~Ends
    BY <1>b
  <2> HIDE DEF Ends
  <2>2. \A p \in company'.features : (\E t \in Subs : stripe[t].price = p /\ Continues(t)) \/ p \in company.features
    BY <1>8, <1>b, <1>f
  <2>3. company'.features \subseteq Featured
    BY <1>8, <1>d
  <2> QED  BY <1>8, <1>d, <1>h, <1>b, <2>1, <2>2, <2>3, ReasonsKept
<1>k. ASSUME NEW new, NewSlot(w, new), Handling(w)', ServedForAReason', PaymentServed' PROVE ServiceInv'
  <2>1. worker[w].pc \notin Reading
    BY <1>p DEF PaidSteps, Reading
  <2> QED  BY <1>h, <1>p, <1>k, <2>1, HandlerServes
\* The slot goes on with its event,
<1>g. ASSUME NEW new, worker' = [worker EXCEPT ![w] = new], new.event = worker[w].event,
             new.prev = worker[w].prev, new.pc \in PaidSteps,
             new.pc \in {"on", "fill", "grow"} => new.plan = stripe[SubOf(w)].price,
             new.pc = "grow" => new.plan \in Featured
      PROVE  NewSlot(w, new) /\ Handling(w)'
  <2>1. worker'[w] = new
    BY <1>f, <1>g
  <2>2. NewSlot(w, new)
    BY <1>g DEF NewSlot
  <2>3. Handling(w)'
    BY <1>f, <1>i, <1>g, <1>b, <1>p, <2>1 DEF Handling, AtStripe, Busy, Runs, SubOf, Of, Continues, EndQueued, Queued,
                     EndEvent, PaidSteps, EndSteps
  <2> QED  BY <2>2, <2>3
\* or is idle.
<1>x. ASSUME Done(w) PROVE NewSlot(w, IdleSlot) /\ Handling(w)' /\ IdleSlot.pc = "idle"
  <2>1. worker' = [worker EXCEPT ![w] = IdleSlot] /\ IdleSlot.pc = "idle"
    BY <1>x DEF Done, IdleSlot
  <2>2. worker'[w] = IdleSlot
    BY <1>f, <2>1
  <2> QED  BY <2>1, <2>2 DEF NewSlot, Handling, Busy, Runs
<1>m. ASSUME NEW step \in PaidSteps \ {"grow"}, Goto(w, step),
             step \in {"on", "fill"} => worker[w].plan = stripe[SubOf(w)].price
      PROVE  \E new : /\ NewSlot(w, new) /\ Handling(w)' /\ new.pc = step
                      /\ worker'[w] = new /\ new.event = worker[w].event
  <2> DEFINE n == [worker[w] EXCEPT !.pc = step]
  <2>1. n.event = worker[w].event /\ n.pc = step /\ n.prev = worker[w].prev /\ n.plan = worker[w].plan
    BY <1>f DEF Slot
  <2>2. worker' = [worker EXCEPT ![w] = n]
    BY <1>m DEF Goto
  <2> HIDE DEF n
  <2>3. worker'[w] = n
    BY <1>f, <2>2
  <2> QED  BY <1>g, <1>m, <2>1, <2>2, <2>3
<1>1. CASE Allocate(w)
  <2> DEFINE step == IF local[SubOf(w)].status = "none" THEN "look" ELSE "on"
             n == [worker[w] EXCEPT !.plan = local[SubOf(w)].price, !.pc = step]
  <2>1. /\ worker' = [worker EXCEPT ![w] = n] /\ company' = company
    BY <1>1 DEF Allocate
  <2>2. /\ n.event = worker[w].event /\ n.pc = step /\ n.prev = worker[w].prev /\ n.plan = local[SubOf(w)].price
    BY <1>f DEF Slot
  <2>3. step \in {"look", "on"} /\ (step = "look" <=> local[SubOf(w)].status = "none")
    OBVIOUS
  <2> HIDE DEF n, step
  <2>4. step = "on" => n.plan = stripe[SubOf(w)].price
    BY <1>f, <1>i, <2>2, <2>3 DEF Mirrored
  <2>5. NewSlot(w, n) /\ Handling(w)' /\ worker'[w] = n
    BY <1>f, <1>g, <2>1, <2>2, <2>3, <2>4 DEF PaidSteps
  <2>6. ServedForAReason'
    BY <1>8, <2>1, <2>5
  <2>7. \A s \in Subs : Paid(s) /\ ServedSoFar(w, s) => ServedSoFar(w, s)' /\ n.pc # "idle"
    <3>1. \A s \in Subs : Paid(s) /\ ServedSoFar(w, s) => n.pc = "on"
      BY <1>r, <2>2, <2>3 DEF ServedSoFar
    <3> QED  BY <2>2, <2>5, <3>1 DEF ServedSoFar, Of, SubOf
  <2>8. PaymentServed'
    BY <1>h, <2>5, <2>7, PaymentKept
  <2> QED  BY <1>k, <2>5, <2>6, <2>8
<1>2. CASE On(w)
  <2>1. /\ Goto(w, "fill") /\ worker[w].pc = "on" /\ company' = [company EXCEPT !.active = TRUE]
    BY <1>2 DEF On, SetCompany, Runs
  <2>2. /\ company'.active /\ company'.plan = company.plan /\ company'.features = company.features
    BY <1>f, <2>1 DEF Company
  <2>3. worker[w].plan = stripe[SubOf(w)].price
    BY <1>f, <1>i, <2>1 DEF Handling
  <2>4. PICK new : NewSlot(w, new) /\ Handling(w)' /\ new.pc = "fill" /\ worker'[w] = new /\ new.event = worker[w].event
    BY <1>m, <2>1, <2>3 DEF PaidSteps
  <2>5. ServedForAReason'
    BY <1>8, <1>b, <2>2, <2>4
  <2>6. \A s \in Subs : ServedSoFar(w, s) => ServedSoFar(w, s)' /\ new.pc # "idle"
    BY <2>2, <2>4 DEF ServedSoFar, Of, SubOf
  <2>7. PaymentServed'
    BY <1>h, <2>4, <2>6, PaymentKept
  <2> QED  BY <1>k, <2>4, <2>5, <2>7
<1>3. CASE Fill(w)
  <2>1. /\ Goto(w, "look") /\ worker[w].pc = "fill" /\ company' = [company EXCEPT !.plan = worker[w].plan]
    BY <1>3 DEF Fill, SetCompany, Runs
  <2>2. /\ company'.active = company.active /\ company'.plan = worker[w].plan /\ company'.features = company.features
    BY <1>f, <2>1 DEF Company
  <2>3. worker[w].plan = stripe[SubOf(w)].price
    BY <1>f, <1>i, <2>1 DEF Handling
  <2>4. PICK new : NewSlot(w, new) /\ Handling(w)' /\ new.pc = "look" /\ worker'[w] = new /\ new.event = worker[w].event
    BY <1>m, <2>1 DEF PaidSteps
  <2>5. ServedForAReason'
    BY <1>8, <1>b, <2>2, <2>4
  <2>6. \A s \in Subs : ServedSoFar(w, s) => ServedSoFar(w, s)' /\ new.pc # "idle"
    BY <1>f, <2>1, <2>2, <2>3, <2>4 DEF ServedSoFar, Of, SubOf
  <2>7. PaymentServed'
    BY <1>h, <2>4, <2>6, PaymentKept
  <2> QED  BY <1>k, <2>4, <2>5, <2>7
<1>4. CASE Look(w) /\ local[SubOf(w)].price \in Featured
  <2> DEFINE n == [worker[w] EXCEPT !.plan = local[SubOf(w)].price, !.pc = "grow"]
  <2>1. /\ worker' = [worker EXCEPT ![w] = n] /\ company' = company /\ worker[w].pc = "look"
    BY <1>4 DEF Look, Runs
  <2>2. /\ n.event = worker[w].event /\ n.pc = "grow" /\ n.prev = worker[w].prev /\ n.plan = local[SubOf(w)].price
    BY <1>f DEF Slot
  <2> HIDE DEF n
  <2>4. n.plan = stripe[SubOf(w)].price /\ n.plan \in Featured
    <3>1. local[SubOf(w)].price # None
      BY <1>4, PricesAssumption
    <3> QED  BY <1>4, <1>f, <1>i, <2>2, <3>1 DEF Mirrored
  <2>5. NewSlot(w, n) /\ Handling(w)' /\ worker'[w] = n
    BY <1>f, <1>g, <2>1, <2>2, <2>4 DEF PaidSteps
  <2>6. ServedForAReason'
    BY <1>8, <2>1, <2>5
  <2>7. \A s \in Subs : Paid(s) /\ ServedSoFar(w, s) => ServedSoFar(w, s)' /\ n.pc # "idle"
    BY <1>f, <2>1, <2>2, <2>5 DEF ServedSoFar, Of, SubOf
  <2>8. PaymentServed'
    BY <1>h, <2>5, <2>7, PaymentKept
  <2> QED  BY <1>k, <2>5, <2>6, <2>8
\* A paid price carries features: without them there is nothing paid to serve.
<1>5. CASE Look(w) /\ local[SubOf(w)].price \notin Featured
  <2>1. Done(w) /\ company' = company /\ worker[w].pc = "look"
    BY <1>5 DEF Look, Runs
  <2>2. NewSlot(w, IdleSlot) /\ Handling(w)' /\ IdleSlot.pc = "idle"
    BY <1>x, <2>1
  <2>3. ServedForAReason'
    BY <1>8, <2>1, <2>2
  <2>4. ASSUME NEW s \in Subs, Paid(s), ServedSoFar(w, s) PROVE FALSE
    <3>1. s = SubOf(w) /\ local[s].price = stripe[s].price
      BY <1>r, <2>4 DEF ServedSoFar
    <3>2. stripe[s].price \in Featured
      BY <1>f, <2>4, <3>1 DEF InOrder, Paid
    <3> QED  BY <1>5, <3>1, <3>2
  <2>5. PaymentServed'
    BY <1>h, <2>2, <2>4, PaymentKept
  <2> QED  BY <1>k, <2>2, <2>3, <2>5
<1>6. CASE Grow(w)
  <2>1. /\ Goto(w, "clear") /\ worker[w].pc = "grow"
        /\ company' = [company EXCEPT !.features = company.features \cup {worker[w].plan}]
    BY <1>6 DEF Grow, SetCompany, Runs
  <2>2. /\ company'.active = company.active /\ company'.plan = company.plan
        /\ company'.features = company.features \cup {worker[w].plan}
    BY <1>f, <2>1 DEF Company
  <2>3. worker[w].plan = stripe[SubOf(w)].price /\ worker[w].plan \in Featured
    BY <1>f, <1>i, <2>1 DEF Handling, Runs
  <2>4. PICK new : NewSlot(w, new) /\ Handling(w)' /\ new.pc = "clear" /\ worker'[w] = new /\ new.event = worker[w].event
    BY <1>m, <2>1 DEF PaidSteps
  <2>5. ServedForAReason'
    BY <1>8, <1>b, <2>2, <2>3, <2>4
  <2>6. \A s \in Subs : ServedSoFar(w, s) => ServedSoFar(w, s)' /\ new.pc # "idle"
    BY <1>f, <2>1, <2>2, <2>3, <2>4 DEF ServedSoFar, Of, SubOf
  <2>7. PaymentServed'
    BY <1>h, <2>4, <2>6, PaymentKept
  <2> QED  BY <1>k, <2>4, <2>5, <2>7
<1>7. CASE Clear(w) /\ company.deletion
  <2>1. /\ Goto(w, "unschedule") /\ worker[w].pc = "clear" /\ company' = company
    BY <1>7 DEF Clear, Runs
  <2>4. PICK new : NewSlot(w, new) /\ Handling(w)' /\ new.pc = "unschedule" /\ worker'[w] = new /\ new.event = worker[w].event
    BY <1>m, <2>1 DEF PaidSteps
  <2>5. ServedForAReason'
    BY <1>8, <2>1, <2>4
  <2>6. \A s \in Subs : ServedSoFar(w, s) => ServedSoFar(w, s)' /\ new.pc # "idle"
    BY <1>f, <2>1, <2>4 DEF ServedSoFar, Of, SubOf
  <2>7. PaymentServed'
    BY <1>h, <2>4, <2>6, PaymentKept
  <2> QED  BY <1>k, <2>4, <2>5, <2>7
<1>9. CASE (Clear(w) /\ ~company.deletion) \/ Unschedule(w)
  <2>1. /\ Done(w) /\ worker[w].pc \in {"clear", "unschedule"} /\ ~company'.deletion
        /\ company'.active = company.active /\ company'.plan = company.plan /\ company'.features = company.features
    BY <1>9, <1>f DEF Clear, Unschedule, SetCompany, Runs, Company
  <2>2. NewSlot(w, IdleSlot) /\ Handling(w)' /\ IdleSlot.pc = "idle"
    BY <1>x, <2>1
  <2>3. ServedForAReason'
    BY <1>8, <2>1, <2>2
  <2>4. \A s \in Subs : ServedSoFar(w, s) => /\ company'.active /\ ~company'.deletion
                  /\ company'.plan = stripe[s].price /\ stripe[s].price \in company'.features
    BY <2>1 DEF ServedSoFar
  <2>5. PaymentServed'
    BY <1>h, <2>2, <2>4, PaymentKept
  <2> QED  BY <1>k, <2>2, <2>3, <2>5
<1> QED  BY <1>1, <1>2, <1>3, <1>4, <1>5, <1>6, <1>7, <1>9

\* The first event is taken, when no slot is busy.
LEMMA TakeServes ==
  ASSUME InOrder, TypeOK, ServiceInv, NEW w \in Workers, Take(w)
  PROVE  ServiceInv'
<1>i. /\ OneByOne /\ Calling /\ PaymentServed /\ \A t \in Subs : Mirrored(t)
      /\ LiveOrEnding /\ Follows /\ ServedForAReason /\ InTheQueue
  BY DEF ServiceInv
<1>u. /\ UNCHANGED <<stripe, api, local, company>> /\ queue \in Seq(Event) /\ worker \in [Workers -> Slot]
  BY DEF Take, outside, TypeOK
<1>1. /\ 1 \in 1..Len(queue) /\ \A v \in Workers : worker[v].pc = "idle"
      /\ queue' = RemoveAt(queue, 1)
      /\ worker' = [worker EXCEPT ![w] =
            [IdleSlot EXCEPT !.event = queue[1],
                             !.pc = IF queue[1].kind = "sub" THEN "previous" ELSE "fetch"]]
  BY DEF Take, InOrder, Runs
<1>2. /\ Len(queue) \in Nat \ {0} /\ Len(queue') = Len(queue) - 1
      /\ \A k \in 1..Len(queue) - 1 : queue'[k] = queue[k + 1]
      /\ queue' \in Seq(Event)
  <2>1. queue # <<>>
    BY <1>1
  <2> QED  BY <1>1, <1>u, <2>1, FirstTaken, RemoveKeeps, EmptySeq
<1>3. PICK e \in Event : e = queue[1]
  BY <1>1, <1>u
<1> DEFINE step == IF e.kind = "sub" THEN "previous" ELSE "fetch"
           new == [IdleSlot EXCEPT !.event = e, !.pc = step]
<1>4. /\ new.event = e /\ new.pc = step /\ new.prev.price = None /\ new.plan = None
  BY DEF IdleSlot, NoRecord
<1>5. step \in {"previous", "fetch"} /\ (step = "previous" <=> e.kind = "sub") /\ (step = "fetch" <=> e.kind = "paid")
  BY DEF Event
<1>6. worker' = [worker EXCEPT ![w] = new]
  BY <1>1, <1>3
<1> HIDE DEF new, step
<1>w. worker'[w] = new /\ \A v \in Workers : v # w => worker'[v] = worker[v]
  BY <1>u, <1>6
<1>7. e.sub \in Subs /\ SubOf(w)' = e.sub /\ e.kind \in {"sub", "paid"}
  BY <1>4, <1>w DEF SubOf, Event
<1>8. /\ \A i \in 1..Len(queue) : i = 1 \/ (i - 1 \in 1..Len(queue') /\ queue'[i - 1] = queue[i])
      /\ \A i \in 1..Len(queue') : i + 1 \in 1..Len(queue) /\ queue'[i] = queue[i + 1]
  <2>1. ASSUME NEW i \in 1..Len(queue), i # 1 PROVE i - 1 \in 1..Len(queue') /\ queue'[i - 1] = queue[i]
    <3>1. i - 1 \in 1..Len(queue) - 1 /\ (i - 1) + 1 = i
      BY <1>2, <2>1
    <3>2. queue'[i - 1] = queue[(i - 1) + 1]
      BY <1>2, <3>1
    <3> QED  BY <1>2, <3>1, <3>2
  <2>2. ASSUME NEW i \in 1..Len(queue') PROVE i + 1 \in 1..Len(queue) /\ queue'[i] = queue[i + 1]
    BY <1>2
  <2> QED  BY <2>1, <2>2
<1>9. ASSUME NEW t \in Subs, Queued(t) PROVE Queued(t)' \/ e.sub = t
  BY <1>9, <1>3, <1>8 DEF Queued
<1>10. ASSUME NEW t \in Subs, EndQueued(t) PROVE EndQueued(t)' \/ (EndEvent(e) /\ e.sub = t)
  BY <1>10, <1>3, <1>8 DEF EndQueued, EndEvent
<1>11. ASSUME NEW steps, Reading \subseteq steps, EndEvent(e) PROVE Ending(e.sub, steps)'
  <2>1. new.pc \in steps /\ new.pc # "idle"
    BY <1>4, <1>5, <1>11 DEF Reading
  <2> QED  BY <1>4, <1>7, <1>11, <1>w, <2>1 DEF Ending, Handles, Busy, Runs, EndEvent, SubOf
<1>12. ASSUME NEW t \in Subs, NEW steps, Reading \subseteq steps, Continues(t) PROVE Continues(t)' \/ Ending(t, steps)'
  <2>1. CASE stripe[t].status \in LiveStatuses
    BY <1>u, <2>1 DEF Continues
  <2>2. CASE EndQueued(t)
    BY <1>10, <1>11, <1>12, <2>2 DEF Continues
  <2> QED  BY <1>12, <2>1, <2>2 DEF Continues
<1>13. \A t \in Subs : \A steps : "idle" \notin steps => ~Ending(t, steps)
  BY <1>1 DEF Ending
<1>14. OneByOne'
  BY <1>i, <1>u, <1>1, <1>w DEF OneByOne, Busy, Runs
<1>15. Calling' /\ \A t \in Subs : Mirrored(t)'
  BY <1>i, <1>u DEF Calling, Mirrored
<1>16. \A a : AtStripe(a)' = AtStripe(a)
  BY <1>u DEF AtStripe
<1>17. InTheQueue'
  <2> SUFFICES ASSUME NEW i \in 1..Len(queue'), NEW a, a = queue'[i]
               PROVE  /\ AtStripe(a)
                      /\ a.kind = "paid" =>
                           \/ stripe[a.sub].status \in LiveStatuses
                           \/ \E j \in i+1..Len(queue') : EndEvent(queue'[j]) /\ queue'[j].sub = a.sub
    BY <1>u, <1>16 DEF InTheQueue, EndEvent, AtStripe
  <2>1. i + 1 \in 1..Len(queue) /\ a = queue[i + 1]
    BY <1>8
  <2>2. AtStripe(a)
    BY <1>i, <2>1 DEF InTheQueue
  <2>3. ASSUME a.kind = "paid", stripe[a.sub].status \notin LiveStatuses
        PROVE  \E j \in i+1..Len(queue') : EndEvent(queue'[j]) /\ queue'[j].sub = a.sub
    <3>1. PICK j \in (i+1)+1..Len(queue) : EndEvent(queue[j]) /\ queue[j].sub = a.sub
      BY <1>i, <2>1, <2>3 DEF InTheQueue
    <3>2. j \in 1..Len(queue) /\ j # 1 /\ j - 1 \in i+1..Len(queue')
      BY <1>2, <3>1
    <3>3. queue'[j - 1] = queue[j]
      BY <1>8, <3>2
    <3> QED  BY <3>1, <3>2, <3>3
  <2> QED  BY <2>2, <2>3
<1>18. ASSUME NEW v \in Workers PROVE Handling(v)'
  <2>1. CASE v # w
    BY <1>1, <1>w, <2>1 DEF Handling, Busy, Runs
  <2>2. CASE v = w
    <3>1. AtStripe(e)
      BY <1>i, <1>1, <1>3 DEF InTheQueue
    <3>2. e.kind = "paid" => Continues(e.sub)'
      <4>1. CASE stripe[e.sub].status \in LiveStatuses
        BY <1>u, <4>1 DEF Continues
      <4>2. CASE e.kind = "paid" /\ stripe[e.sub].status \notin LiveStatuses
        <5>1. PICK j \in 2..Len(queue) : EndEvent(queue[j]) /\ queue[j].sub = e.sub
          BY <1>i, <1>1, <1>3, <4>2 DEF InTheQueue
        <5>2. j - 1 \in 1..Len(queue') /\ queue'[j - 1] = queue[j]
          BY <1>2, <1>8, <5>1
        <5>3. EndQueued(e.sub)'
          BY <5>1, <5>2 DEF EndQueued, EndEvent
        <5> QED  BY <5>3 DEF Continues
      <4> QED  BY <4>1, <4>2
    <3>3. AtStripe(e)'
      BY <1>16, <3>1
    <3>4. worker'[w].event = e
      BY <1>4, <1>w
    <3> QED  BY <1>4, <1>5, <1>7, <1>w, <2>2, <3>2, <3>3, <3>4
             DEF Handling, AtStripe, Of, SubOf, Runs, PaidSteps, EndSteps
  <2> QED  BY <2>1, <2>2
<1>19. LiveOrEnding'
  <2>1. ~("idle" \in Reading)
    BY DEF Reading
  <2> QED  BY <1>i, <1>u, <1>12, <1>13, <2>1 DEF LiveOrEnding, Live
<1>20. Follows'
  <2> SUFFICES ASSUME NEW t \in Subs
               PROVE  \/ local[t].status = stripe[t].status \/ Queued(t)'
                      \/ \E v \in Workers : Handles(v, t)' /\ worker'[v].pc \in Reading
                      \/ api.sub = t /\ api.pc \in {"record", "restatus"}
    BY <1>u DEF Follows
  <2>1. ~\E v \in Workers : Handles(v, t)
    BY <1>1 DEF Handles, Busy, Runs
  <2>2. e.sub = t => Handles(w, t)' /\ worker'[w].pc \in Reading
    BY <1>4, <1>5, <1>7, <1>w DEF Handles, Busy, Runs, Reading
  <2> QED  BY <1>i, <1>9, <2>1, <2>2 DEF Follows
<1>21. ServedForAReason'
  <2>1. company'.active => \E t \in Subs : Continues(t)' \/ Ending(t, Reading \cup {"off"})'
    <3> DEFINE steps == Reading \cup {"off"}
    <3>1. Reading \subseteq steps /\ "idle" \notin steps
      BY DEF Reading
    <3>2. company.active => \E t \in Subs : Continues(t) \/ Ending(t, steps)
      BY <1>i DEF ServedForAReason
    <3> HIDE DEF steps
    <3>3. company.active => \E t \in Subs : Continues(t)' \/ Ending(t, steps)'
      BY <1>12, <1>13, <3>1, <3>2
    <3> USE DEF steps
    <3> QED  BY <1>u, <3>3
  <2>2. company'.plan # None => \E t \in Subs : Continues(t)' \/ Ending(t, Reading \cup {"off", "zero"})'
    <3> DEFINE steps == Reading \cup {"off", "zero"}
    <3>1. Reading \subseteq steps /\ "idle" \notin steps
      BY DEF Reading
    <3>2. company.plan # None => \E t \in Subs : Continues(t) \/ Ending(t, steps)
      BY <1>i DEF ServedForAReason
    <3> HIDE DEF steps
    <3>3. company.plan # None => \E t \in Subs : Continues(t)' \/ Ending(t, steps)'
      BY <1>12, <1>13, <3>1, <3>2
    <3> USE DEF steps
    <3> QED  BY <1>u, <3>3
  <2>3. ASSUME NEW p \in company.features
        PROVE  \E t \in Subs : stripe[t].price = p /\ (Continues(t)' \/ Ending(t, Reading \cup {"off", "zero", "cover"})')
    <3> DEFINE steps == Reading \cup {"off", "zero", "cover"}
    <3>1. Reading \subseteq steps /\ "idle" \notin steps
      BY DEF Reading
    <3>2. PICK t \in Subs :
                 /\ stripe[t].price = p
                 /\ \/ Continues(t) \/ Ending(t, steps)
                    \/ \E v \in Workers : Runs(v, "strip") /\ SubOf(v) = t /\ p \in worker[v].drop
      BY <1>i, <2>3 DEF ServedForAReason
    <3> HIDE DEF steps
    <3>3. Continues(t)
      BY <1>1, <1>13, <3>1, <3>2 DEF Runs
    <3>4. Continues(t)' \/ Ending(t, steps)'
      BY <1>12, <3>1, <3>3
    <3> USE DEF steps
    <3> QED  BY <3>2, <3>4
  <2>4. company' = company /\ stripe' = stripe /\ company.features \subseteq Featured
    BY <1>i, <1>u DEF ServedForAReason
  <2> QED  BY <2>1, <2>2, <2>3, <2>4 DEF ServedForAReason
<1>22. PaymentServed'
  <2> SUFFICES ASSUME NEW s \in Subs, Paid(s)
               PROVE  IF queue' # <<>> THEN queue'[Len(queue')].kind = "paid" /\ queue'[Len(queue')].sub = s
                      ELSE /\ Busy(w)'
                           /\ \A v \in Workers : Busy(v)' => ServedSoFar(v, s)'
    BY <1>u DEF PaymentServed, Paid
  <2>1. queue[Len(queue)].kind = "paid" /\ queue[Len(queue)].sub = s
    BY <1>i, <1>1 DEF PaymentServed
  <2>2. CASE queue' # <<>>
    <3>1. Len(queue') \in Nat \ {0}
      BY <1>2, <2>2, EmptySeq
    <3>2. Len(queue) \in 1..Len(queue) /\ Len(queue) # 1 /\ Len(queue) - 1 = Len(queue')
      BY <1>2, <3>1
    <3>3. queue'[Len(queue')] = queue[Len(queue)]
      BY <1>8, <3>2
    <3> QED  BY <2>1, <2>2, <3>3
  <2>3. CASE queue' = <<>>
    <3>1. Len(queue') = 0
      BY <2>3
    <3>2. Len(queue) = 1
      BY <1>2, <3>1
    <3>3. e.kind = "paid" /\ e.sub = s /\ new.pc = "fetch"
      BY <1>3, <1>4, <1>5, <2>1, <3>2
    <3>4. Busy(w)' /\ ServedSoFar(w, s)'
      BY <1>4, <1>w, <3>3 DEF Busy, Runs, ServedSoFar, Of, SubOf
    <3>5. \A v \in Workers : v # w => ~Busy(v)'
      BY <1>1, <1>w DEF Busy, Runs
    <3> QED  BY <2>3, <3>4, <3>5
  <2> QED  BY <2>2, <2>3
<1> QED  BY <1>14, <1>15, <1>17, <1>18, <1>19, <1>20, <1>21, <1>22 DEF ServiceInv

\* ServiceInv is inductive next to TypeOK: without faults nothing is retried or swallowed.
LEMMA NextServes ==
  ASSUME InOrder, TypeOK, ServiceInv, [Next]_vars
  PROVE  ServiceInv'
<1>1. CASE UNCHANGED vars
  <2> USE <1>1 DEF vars
  <2>1. OneByOne' /\ Calling' /\ (\A s \in Subs : Mirrored(s)') /\ InTheQueue'
    BY DEF ServiceInv, OneByOne, Busy, Runs, Calling, Mirrored, InTheQueue, AtStripe, EndEvent
  <2>2. \A w \in Workers : Handling(w)'
    BY DEF ServiceInv, Handling, AtStripe, Busy, Runs, SubOf, Of, Deactivates, TrialOver, Continues, EndQueued, Queued,
           EndEvent
  <2>3. LiveOrEnding' /\ Follows' /\ ServedForAReason'
    BY DEF ServiceInv, LiveOrEnding, Follows, ServedForAReason, Ending, Handles, Busy, Runs, SubOf, Continues,
           EndQueued, Queued, EndEvent, Live
  <2>4. PaymentServed'
    BY DEF ServiceInv, PaymentServed, ServedSoFar, Paid, Of, SubOf, Busy, Runs
  <2> QED  BY <2>1, <2>2, <2>3, <2>4 DEF ServiceInv
<1>2. ASSUME NEW s \in Subs, StripeStep(s) \/ ApiCall(s) PROVE ServiceInv'
  BY <1>2, StripeStepServes, ApiCallServes
<1>3. CASE ApiStep
  BY <1>3, ApiStepServes
<1>4. ASSUME NEW w \in Workers, Take(w) \/ HandlerStep(w) PROVE ServiceInv'
  BY <1>4, TakeServes, ReadingServes, SyncServes, EndingServes, PayingServes DEF HandlerStep
<1>5. ASSUME NEW w \in Workers PROVE ~Retry(w) /\ ~Swallow(w)
  <2>1. ~Fault
    BY DEF InOrder, Fault, TypeOK
  <2> QED  BY <2>1 DEF Retry, Swallow
<1> QED  BY <1>1, <1>2, <1>3, <1>4, <1>5 DEF Next

LEMMA InitServes == Init => ServiceInv
<1> SUFFICES ASSUME Init PROVE ServiceInv
  OBVIOUS
<1> USE DEF Init, NoRecord, IdleSlot, IdleApi
<1>1. \A w \in Workers : ~Busy(w)
  BY DEF Busy, Runs
<1>2. OneByOne /\ Calling /\ \A s \in Subs : Mirrored(s)
  BY <1>1 DEF OneByOne, Calling, Mirrored
<1>3. InTheQueue /\ (\A w \in Workers : Handling(w)) /\ LiveOrEnding
  BY <1>1 DEF InTheQueue, Handling, LiveOrEnding, Live
<1>4. Follows /\ ServedForAReason /\ PaymentServed
  BY DEF Follows, ServedForAReason, PaymentServed, Paid
<1> QED  BY <1>2, <1>3, <1>4 DEF ServiceInv

\* What the invariant says of a company for which nothing is under way.
LEMMA QuietServes ==
  ASSUME InOrder, TypeOK, ServiceInv
  PROVE  ServiceFollowsPayment
<1>i. /\ (\A t \in Subs : Mirrored(t)) /\ Follows /\ ServedForAReason /\ PaymentServed
  BY DEF ServiceInv
<1>1. ASSUME Quiet
      PROVE  /\ \A w \in Workers : ~Busy(w)
             /\ \A s \in Subs : ~Queued(s) /\ ~EndQueued(s)
             /\ \A s \in Subs : Continues(s) => stripe[s].status \in LiveStatuses
             /\ \A s \in Subs : \A steps : "idle" \notin steps => ~Ending(s, steps)
  BY <1>1 DEF Quiet, Busy, Runs, Queued, EndQueued, Continues, Ending, Handles
<1>2. StatusConverges
  <2> SUFFICES ASSUME Quiet, NEW s \in Subs PROVE local[s].status = stripe[s].status
    BY DEF StatusConverges
  <2> QED  BY <1>i, <1>1 DEF Follows, Quiet, Handles
<1>3. ASSUME Quiet, NEW s \in Subs, Paid(s)
      PROVE  /\ company.active /\ ~company.deletion /\ company.plan = stripe[s].price
             /\ stripe[s].price \in company.features
  BY <1>1, <1>3, <1>i DEF PaymentServed, Quiet
<1>4. PaidIsServed /\ TokensFollowPlan /\ FeaturesFollowPlan
  BY <1>3 DEF PaidIsServed, TokensFollowPlan, FeaturesFollowPlan
<1>5. EndedIsCutOff
  <2> SUFFICES ASSUME Quiet, \A s \in Subs : stripe[s].status \in {"none", "incomplete"} \cup EndStates
               PROVE  ~company.active /\ company.plan = None /\ company.features = {}
    BY DEF EndedIsCutOff
  <2>1. \A s \in Subs : ~Continues(s)
    BY <1>1 DEF LiveStatuses, EndStates
  <2>2. "idle" \notin Reading
    BY DEF Reading
  <2>3. ~company.active
    BY <1>1, <1>i, <2>1, <2>2 DEF ServedForAReason
  <2>4. company.plan = None
    BY <1>1, <1>i, <2>1, <2>2 DEF ServedForAReason
  <2>5. \A p \in company.features : FALSE
    BY <1>1, <1>i, <2>1, <2>2 DEF ServedForAReason, Busy, Runs
  <2> QED  BY <2>3, <2>4, <2>5
<1> QED  BY <1>2, <1>4, <1>5 DEF ServiceFollowsPayment

\* While events are handled in the order Stripe emits them, one at a time, and
\* no call fails, a company comes to be served exactly as it pays: through
\* trials, payments, dunning, cancellations and new subscriptions, next to the
\* API calls that write the same records.
THEOREM ServiceKept ==
  ASSUME InOrder
  PROVE  Spec => []ServiceFollowsPayment
<1>0. InOrder
  OBVIOUS
<1>1. Init => TypeOK /\ ServiceInv
  BY InitTyped, InitServes
<1>2. TypeOK /\ ServiceInv /\ [Next]_vars => (TypeOK /\ ServiceInv)'
  BY <1>0, NextTyped, NextServes
<1>3. TypeOK /\ ServiceInv => ServiceFollowsPayment
  BY <1>0, QuietServes
<1> QED  BY <1>1, <1>2, <1>3, PTL DEF Spec

-----------------------------------------------------------------------------
(* The catalogue.  A value anybody holds of a field is the one Stripe has,  *)
(* or of an earlier edition (Editions, Holds), so that a copy of Stripe's   *)
(* edition is Stripe's value.  Whoever made the edition that Stripe has is  *)
(* bringing it to the graph, has brought it there, or failed (Carried), and *)
(* what was brought is replaced by an older edition only on record.         *)

Edition(v, i, f) == /\ v.at <= offered[i][f].at
                    /\ v.at = offered[i][f].at => v = offered[i][f]

Editions == \A i \in Items, f \in Fields : Edition(NotMade[f], i, f) /\ Edition(copied[i][f], i, f)

Holds(r) ==
  LET u == underway[r] IN
  /\ u.step = "new" => u.saw = NotMade /\ u.kept = NotMade
  /\ u.step # "retrieve" => \A f \in Fields : Edition(u.saw[f], u.item, f)
  /\ \A f \in Fields : Edition(u.kept[f], u.behind, f)

\* What a request has found at the step it is at.
Synchronising == {"retrieve", "find", "refresh", "insert"}
Found(r) ==
  LET u == underway[r] IN
  /\ u.step \in {"stripe", "graph"} =>
       /\ u.op # "sync"
       /\ IF u.op = "create" THEN u.item = Product \/ Recorded(Product) ELSE Recorded(u.item)
  /\ u.step \in Synchronising =>
       /\ u.op = "sync" /\ u.item \in {u.behind, Product}
       /\ u.item # u.behind => u.kept["active"].at > 0
  /\ u.step = "retrieve" => Made(u.item)
  /\ u.step \in {"graph", "find", "refresh", "insert"} => u.saw["active"].at > 0
  /\ u.step = "refresh" => Recorded(u.item)
  /\ u.step = "insert" => u.item = Product \/ Recorded(Product)

ProductFirst == \A p \in Plans : /\ Made(p) => Made(Product)
                                 /\ Recorded(p) => Recorded(Product)

\* The copy has what Stripe has, or was written over with something older.
Current(i, f) == copied[i][f] = offered[i][f] \/ <<i, f>> \in outrun

Changed == {"graph", "done", "failed"}
Carried ==
  \A i \in Items, f \in Fields, r \in CatalogueRequests : offered[i][f].by = r =>
    /\ underway[r].step \in Changed
    /\ underway[r].step = "graph" =>
         /\ underway[r].item = i /\ underway[r].saw[f] = offered[i][f]
         /\ underway[r].op = "create" \/ f = (IF underway[r].op = "update" THEN "name" ELSE "active")
    /\ underway[r].step = "done" => Current(i, f)

\* What a request created is on its way to the graph, or there.
CreatedIsKept ==
  \A i \in Items, r \in CatalogueRequests : author[i] = r =>
    /\ underway[r].step \in Changed
    /\ underway[r].step = "graph" => underway[r].op = "create" /\ underway[r].item = i
    /\ underway[r].step = "done" => Recorded(i) /\ (i # Product => i \in allowance)
    /\ underway[r].step = "failed" => Recorded(i) \/ catalogueFaults > 0

CatalogueInv ==
  /\ CatalogueTypeOK /\ Editions /\ (\A r \in CatalogueRequests : Holds(r) /\ Found(r))
  /\ ProductFirst /\ Carried /\ CreatedIsKept /\ SyncHeals

Requested == [step : Steps, op : CatalogueOperations, item : Items, behind : Items,
              saw : [Fields -> Values], kept : [Fields -> Values]]

\* What is typed, and a value that is none.
LEMMA CatalogueTypes ==
  ASSUME CatalogueTypeOK
  PROVE  /\ \A i \in Items : /\ offered[i] \in [Fields -> Values] /\ copied[i] \in [Fields -> Values]
                             /\ author[i] \in Authors
         /\ \A i \in Items, f \in Fields : offered[i][f] \in Values /\ copied[i][f] \in Values
         /\ underway \in [CatalogueRequests -> Requested]
         /\ \A r \in CatalogueRequests : underway[r] \in Requested
         /\ \A r \in CatalogueRequests, f \in Fields :
              underway[r].saw[f] \in Values /\ underway[r].kept[f] \in Values
         /\ \A v \in Values : v.at \in Nat /\ v.by \in Authors
         /\ NotMade \in [Fields -> Values] /\ NotAsked \in Requested
         /\ \A f \in Fields : NotMade[f].is = "none" /\ NotMade[f].at = 0 /\ NotMade[f].by = Dashboard
         /\ Product \in Items /\ Plans = Items \ {Product} /\ "name" \in Fields /\ "active" \in Fields
         /\ \A f \in Fields : f = "name" \/ f = "active"
         /\ \A r \in CatalogueRequests : r # Dashboard
         /\ catalogueFaults \in Nat
<1>1. NotMade \in [Fields -> Values]
  BY DEF NotMade, Values, Authors
<1>2. NotAsked \in Requested
  BY <1>1 DEF NotAsked, Requested, Steps, CatalogueOperations, Items
<1>3. \A f \in Fields : NotMade[f].is = "none" /\ NotMade[f].at = 0 /\ NotMade[f].by = Dashboard
  BY DEF NotMade
<1>4. underway \in [CatalogueRequests -> Requested] /\ \A r \in CatalogueRequests : underway[r] \in Requested
  BY DEF CatalogueTypeOK, Requested
<1>5. \A r \in CatalogueRequests, f \in Fields : underway[r].saw[f] \in Values /\ underway[r].kept[f] \in Values
  BY <1>4 DEF Requested
<1>6. \A v \in Values : v.at \in Nat /\ v.by \in Authors
  BY DEF Values
<1>7. /\ Product \in Items /\ Plans = Items \ {Product} /\ "name" \in Fields /\ "active" \in Fields
      /\ \A f \in Fields : f = "name" \/ f = "active"
      /\ \A r \in CatalogueRequests : r # Dashboard
  BY CatalogueAssumption DEF Items, Fields
<1>8. catalogueFaults \in Nat
  BY CatalogueAssumption DEF CatalogueTypeOK
<1>9. \A i \in Items : /\ offered[i] \in [Fields -> Values] /\ copied[i] \in [Fields -> Values]
                       /\ author[i] \in Authors
  BY DEF CatalogueTypeOK
<1> QED
  BY <1>1, <1>2, <1>3, <1>4, <1>5, <1>6, <1>7, <1>8, <1>9

\* An edition is not a later one than the copy's, and nobody copies what Stripe does not have.
LEMMA RecordedIsMade ==
  ASSUME CatalogueInv, NEW i \in Items, Recorded(i)
  PROVE  Made(i)
<1>1. CatalogueTypeOK /\ Editions
  BY DEF CatalogueInv
<1>2. copied[i]["active"].at \in Nat /\ offered[i]["active"].at \in Nat
  BY <1>1, CatalogueTypes
<1>3. copied[i]["active"].at <= offered[i]["active"].at
  BY <1>1 DEF Editions, Edition, Fields
<1> QED
  BY <1>2, <1>3 DEF Recorded, Made

\* What others hold and have found stays so while items are only added and editions age.
LEMMA OthersHold ==
  ASSUME CatalogueTypeOK, NEW s \in CatalogueRequests, underway'[s] = underway[s], Holds(s), Found(s),
         \A j \in Items, f \in Fields, v \in Values :
           Edition(v, j, f) => /\ v.at <= offered'[j][f].at
                               /\ v.at = offered'[j][f].at => v = offered'[j][f],
         \A j \in Items : (Recorded(j) => Recorded(j)') /\ (Made(j) => Made(j)')
  PROVE  Holds(s)' /\ Found(s)'
<1>1. /\ underway[s] \in Requested /\ underway[s].item \in Items /\ underway[s].behind \in Items
      /\ Product \in Items
      /\ \A f \in Fields : underway[s].saw[f] \in Values /\ underway[s].kept[f] \in Values
  BY CatalogueTypes DEF Requested
<1>2. Holds(s)'
  BY <1>1 DEF Holds, Edition
<1>3. Found(s)'
  BY <1>1 DEF Found
<1> QED
  BY <1>2, <1>3

\* A request goes on, or ends, without a change to Stripe or to the graph.
LEMMA QuietlyKeeps ==
  ASSUME CatalogueInv, NEW r \in CatalogueRequests, NEW u \in Requested,
         underway' = [underway EXCEPT ![r] = u],
         UNCHANGED <<offered, copied, allowance, author, outrun, dashboards>>,
         catalogueFaults' \in 0..MaxCatalogueFaults, catalogueFaults <= catalogueFaults',
         Holds(r)', Found(r)',
         underway[r].step \notin {"done", "failed"}, u.step \notin {"done", "graph"},
         underway[r].step = "graph" =>
           u.step = "failed" /\ (catalogueFaults' > 0 \/ Recorded(underway[r].item))
  PROVE  CatalogueInv'
<1>t. CatalogueTypeOK
  BY DEF CatalogueInv
<1>a. underway \in [CatalogueRequests -> Requested] /\ catalogueFaults \in Nat /\ catalogueFaults' \in Nat
  BY <1>t, CatalogueTypes, CatalogueAssumption
<1>b. /\ underway' \in [CatalogueRequests -> Requested] /\ underway'[r] = u
      /\ \A s \in CatalogueRequests \ {r} : underway'[s] = underway[s]
  BY <1>a
<1>c. /\ \A i \in Items : (Recorded(i)' <=> Recorded(i)) /\ (Made(i)' <=> Made(i))
      /\ \A i \in Items, f \in Fields : Current(i, f)' <=> Current(i, f)
  BY DEF Recorded, Made, Current
<1>1. CatalogueTypeOK'
  BY <1>t, <1>b DEF CatalogueTypeOK, Requested
<1>2. Editions'
  BY DEF CatalogueInv, Editions, Edition
<1>3. ASSUME NEW s \in CatalogueRequests PROVE Holds(s)' /\ Found(s)'
  <2>1. CASE s = r
    BY <2>1
  <2>2. CASE s # r
    <3>1. Holds(s) /\ Found(s)
      BY DEF CatalogueInv
    <3>2. \A j \in Items, f \in Fields, v \in Values :
            Edition(v, j, f) => /\ v.at <= offered'[j][f].at
                                /\ v.at = offered'[j][f].at => v = offered'[j][f]
      BY DEF Edition
    <3> QED
      BY <1>t, <1>b, <1>c, <2>2, <3>1, <3>2, OthersHold
  <2> QED
    BY <2>1, <2>2
<1>4. ProductFirst'
  <2>1. ProductFirst
    BY DEF CatalogueInv
  <2> QED
    BY <1>c, <2>1 DEF ProductFirst, Items
<1>5. Carried'
  <2>1. Carried
    BY DEF CatalogueInv
  <2> SUFFICES ASSUME NEW i \in Items, NEW f \in Fields, NEW s \in CatalogueRequests, offered[i][f].by = s
               PROVE  /\ underway'[s].step \in Changed
                      /\ underway'[s].step = "graph" =>
                           /\ underway'[s].item = i /\ underway'[s].saw[f] = offered[i][f]
                           /\ underway'[s].op = "create" \/ f = (IF underway'[s].op = "update" THEN "name" ELSE "active")
                      /\ underway'[s].step = "done" => Current(i, f)'
    BY DEF Carried
  <2>2. CASE s = r
    BY <1>b, <2>1, <2>2 DEF Carried, Changed
  <2>3. CASE s # r
    BY <1>b, <1>c, <2>1, <2>3 DEF Carried
  <2> QED
    BY <2>2, <2>3
<1>6. CreatedIsKept'
  <2>1. CreatedIsKept
    BY DEF CatalogueInv
  <2> SUFFICES ASSUME NEW i \in Items, NEW s \in CatalogueRequests, author[i] = s
               PROVE  /\ underway'[s].step \in Changed
                      /\ underway'[s].step = "graph" => underway'[s].op = "create" /\ underway'[s].item = i
                      /\ underway'[s].step = "done" => Recorded(i)' /\ (i # Product => i \in allowance)
                      /\ underway'[s].step = "failed" => Recorded(i)' \/ catalogueFaults' > 0
    BY DEF CreatedIsKept
  <2>2. CASE s = r
    BY <1>b, <1>c, <2>1, <2>2 DEF CreatedIsKept, Changed
  <2>3. CASE s # r
    BY <1>a, <1>b, <1>c, <2>1, <2>3 DEF CreatedIsKept
  <2> QED
    BY <2>2, <2>3
<1>7. SyncHeals'
  <2>1. SyncHeals
    BY DEF CatalogueInv
  <2> SUFFICES ASSUME NEW s \in CatalogueRequests, NEW f \in Fields,
                      underway'[s].step = "done", underway'[s].op = "sync",
                      underway'[s].saw[f] = offered[underway'[s].item][f]
               PROVE  LET i == underway'[s].item IN
                      copied[i][f] = offered[i][f] \/ offered[i][f].is = "none" \/ <<i, f>> \in outrun
    BY DEF SyncHeals, At
  <2>2. s # r
    BY <1>b
  <2>3. underway'[s] = underway[s]
    BY <1>b, <2>2
  <2> QED
    BY <2>1, <2>3 DEF SyncHeals, At
<1> QED
  BY <1>1, <1>2, <1>3, <1>4, <1>5, <1>6, <1>7 DEF CatalogueInv

LEMMA AskKeeps ==
  ASSUME CatalogueInv, NEW r \in CatalogueRequests, NEW op \in CatalogueOperations, NEW i \in Items, Ask(r, op, i)
  PROVE  CatalogueInv'
<1> DEFINE u == [underway[r] EXCEPT !.step = "stripe", !.op = op, !.item = i]
<1>t. CatalogueTypeOK /\ Editions /\ Holds(r)
  BY DEF CatalogueInv
<1>1. underway[r] \in Requested /\ underway \in [CatalogueRequests -> Requested]
  BY <1>t, CatalogueTypes
<1>2. u \in Requested
  BY <1>1 DEF Requested, Steps
<1>3. /\ underway' = [underway EXCEPT ![r] = u] /\ underway[r].step = "new" /\ op # "sync"
      /\ UNCHANGED <<offered, copied, allowance, author, outrun, dashboards, catalogueFaults>>
      /\ IF op = "create" THEN i = Product \/ Recorded(Product) ELSE Recorded(i)
  BY <1>1 DEF Ask, At
<1>4. /\ underway'[r].step = "stripe" /\ underway'[r].op = op /\ underway'[r].item = i
      /\ underway'[r].saw = NotMade /\ underway'[r].kept = NotMade /\ underway'[r].behind = underway[r].behind
  BY <1>t, <1>1, <1>3 DEF Requested, Holds
<1>5. Holds(r)'
  <2>1. underway[r].behind \in Items
    BY <1>1 DEF Requested
  <2> QED
    BY <1>t, <1>3, <1>4, <2>1 DEF Holds, Editions, Edition
<1>6. Found(r)'
  BY <1>3, <1>4 DEF Found, Recorded, Synchronising
<1>7. catalogueFaults' \in 0..MaxCatalogueFaults /\ catalogueFaults <= catalogueFaults'
  BY <1>t, <1>3, CatalogueAssumption DEF CatalogueTypeOK
<1> QED
  <2> u.step = "stripe"
    OBVIOUS
  <2> HIDE DEF u
  <2> QED
    BY <1>2, <1>3, <1>5, <1>6, <1>7, QuietlyKeeps

LEMMA CallSyncKeeps ==
  ASSUME CatalogueInv, NEW r \in CatalogueRequests, NEW i \in Items, CallSync(r, i)
  PROVE  CatalogueInv'
<1> DEFINE u == [underway[r] EXCEPT !.step = "retrieve", !.op = "sync", !.item = i, !.behind = i]
<1>t. CatalogueTypeOK /\ Editions /\ Holds(r)
  BY DEF CatalogueInv
<1>1. underway[r] \in Requested /\ underway \in [CatalogueRequests -> Requested]
  BY <1>t, CatalogueTypes
<1>2. u \in Requested
  BY <1>1 DEF Requested, Steps, CatalogueOperations
<1>3. /\ underway' = [underway EXCEPT ![r] = u] /\ underway[r].step = "new" /\ Made(i)
      /\ UNCHANGED <<offered, copied, allowance, author, outrun, dashboards, catalogueFaults>>
  BY <1>1 DEF CallSync, At
<1>4. /\ underway'[r].step = "retrieve" /\ underway'[r].op = "sync" /\ underway'[r].item = i
      /\ underway'[r].kept = NotMade /\ underway'[r].behind = i
  BY <1>t, <1>1, <1>3 DEF Requested, Holds
<1>5. Holds(r)'
  BY <1>t, <1>3, <1>4 DEF Holds, Editions, Edition
<1>6. Found(r)'
  BY <1>3, <1>4 DEF Found, Made, Synchronising
<1>7. catalogueFaults' \in 0..MaxCatalogueFaults /\ catalogueFaults <= catalogueFaults'
  BY <1>t, <1>3, CatalogueAssumption DEF CatalogueTypeOK
<1> QED
  <2> u.step = "retrieve"
    OBVIOUS
  <2> HIDE DEF u
  <2> QED
    BY <1>2, <1>3, <1>5, <1>6, <1>7, QuietlyKeeps

LEMMA RetrieveKeeps ==
  ASSUME CatalogueInv, NEW r \in CatalogueRequests, Retrieve(r)
  PROVE  CatalogueInv'
<1> DEFINE u == [underway[r] EXCEPT !.step = "find", !.saw = offered[underway[r].item]]
<1>t. CatalogueTypeOK /\ Editions /\ Holds(r) /\ Found(r)
  BY DEF CatalogueInv
<1>1. underway[r] \in Requested /\ underway \in [CatalogueRequests -> Requested]
  BY <1>t, CatalogueTypes
<1>0. underway[r].item \in Items
  BY <1>1 DEF Requested
<1>2. u \in Requested
  BY <1>t, <1>0, <1>1, CatalogueTypes DEF Requested, Steps
<1>3. /\ underway' = [underway EXCEPT ![r] = u] /\ underway[r].step = "retrieve"
      /\ UNCHANGED <<offered, copied, allowance, author, outrun, dashboards, catalogueFaults>>
  BY <1>1 DEF Retrieve, At
<1>4. /\ underway'[r].step = "find" /\ underway'[r].op = underway[r].op /\ underway'[r].item = underway[r].item
      /\ underway'[r].kept = underway[r].kept /\ underway'[r].behind = underway[r].behind
      /\ underway'[r].saw = offered[underway[r].item]
  BY <1>1, <1>3 DEF Requested
<1>5. Holds(r)'
  <2>1. \A f \in Fields : Edition(offered[underway[r].item][f], underway[r].item, f)
    BY <1>t, <1>0, CatalogueTypes DEF Edition
  <2> QED
    BY <1>t, <1>3, <1>4, <2>1 DEF Holds, Edition
<1>6. Found(r)'
  BY <1>t, <1>3, <1>4 DEF Found, Made, Synchronising
<1>7. catalogueFaults' \in 0..MaxCatalogueFaults /\ catalogueFaults <= catalogueFaults'
  BY <1>t, <1>3, CatalogueAssumption DEF CatalogueTypeOK
<1> QED
  <2> u.step = "find"
    OBVIOUS
  <2> HIDE DEF u
  <2> QED
    BY <1>2, <1>3, <1>5, <1>6, <1>7, QuietlyKeeps

\* What was seen of an item is of one that was made.
LEMMA SeenIsMade ==
  ASSUME CatalogueTypeOK, NEW r \in CatalogueRequests, Holds(r),
         underway[r].step # "retrieve", underway[r].saw["active"].at > 0
  PROVE  Made(underway[r].item)
<1>1. underway[r] \in Requested /\ underway[r].saw["active"].at \in Nat /\ underway[r].item \in Items
  BY CatalogueTypes DEF Requested
<1>2. offered[underway[r].item]["active"].at \in Nat
  BY <1>1, CatalogueTypes
<1>3. underway[r].saw["active"].at <= offered[underway[r].item]["active"].at
  BY DEF Holds, Edition, Fields
<1> QED
  BY <1>1, <1>2, <1>3 DEF Made

LEMMA FindCopyKeeps ==
  ASSUME CatalogueInv, NEW r \in CatalogueRequests, FindCopy(r)
  PROVE  CatalogueInv'
<1> DEFINE u == underway[r]
           new == IF Recorded(u.item) THEN [u EXCEPT !.step = "refresh"]
                  ELSE IF u.item = Product \/ Recorded(Product) THEN [u EXCEPT !.step = "insert"]
                  ELSE [u EXCEPT !.step = "retrieve", !.item = Product, !.kept = u.saw]
<1>t. CatalogueTypeOK /\ Editions /\ Holds(r) /\ Found(r) /\ ProductFirst
  BY DEF CatalogueInv
<1>1. u \in Requested /\ underway \in [CatalogueRequests -> Requested] /\ Product \in Items
  BY <1>t, CatalogueTypes
<1>0. u.item \in Items /\ u.behind \in Items /\ u.saw \in [Fields -> Values]
  BY <1>1 DEF Requested
<1>2. new \in Requested
  <2>1. [u EXCEPT !.step = "refresh"] \in Requested /\ [u EXCEPT !.step = "insert"] \in Requested
    BY <1>1 DEF Requested, Steps
  <2>2. [u EXCEPT !.step = "retrieve", !.item = Product, !.kept = u.saw] \in Requested
    BY <1>0, <1>1 DEF Requested, Steps
  <2> QED
    BY <2>1, <2>2
<1>3. /\ underway' = [underway EXCEPT ![r] = new] /\ u.step = "find"
      /\ UNCHANGED <<offered, copied, allowance, author, outrun, dashboards, catalogueFaults>>
  <2> USE DEF FindCopy, To, At
  <2>1. CASE Recorded(u.item)
    BY <1>1, <2>1
  <2>2. CASE ~Recorded(u.item) /\ (u.item = Product \/ Recorded(Product))
    BY <1>1, <2>2
  <2>3. CASE ~Recorded(u.item) /\ ~(u.item = Product \/ Recorded(Product))
    BY <1>1, <2>3
  <2> QED
    BY <2>1, <2>2, <2>3
<1>4. underway'[r] = new
  BY <1>1, <1>3
<1>5. u.saw["active"].at > 0 /\ u.op = "sync" /\ u.item \in {u.behind, Product} /\ Made(u.item)
  BY <1>t, <1>3, SeenIsMade DEF Found, Synchronising
<1>6. Holds(r)' /\ Found(r)' /\ new.step \in {"refresh", "insert", "retrieve"}
  <2>1. CASE Recorded(u.item)
    <3>1. /\ new.step = "refresh" /\ new.op = u.op /\ new.item = u.item /\ new.behind = u.behind
          /\ new.saw = u.saw /\ new.kept = u.kept
      BY <1>1, <2>1 DEF Requested
    <3>2. Holds(r)'
      BY <1>t, <1>3, <1>4, <3>1 DEF Holds, Edition
    <3>3. Found(r)'
      BY <1>t, <1>3, <1>4, <1>5, <2>1, <3>1 DEF Found, Recorded, Made, Synchronising
    <3> QED
      BY <3>1, <3>2, <3>3
  <2>2. CASE ~Recorded(u.item) /\ (u.item = Product \/ Recorded(Product))
    <3>1. /\ new.step = "insert" /\ new.op = u.op /\ new.item = u.item /\ new.behind = u.behind
          /\ new.saw = u.saw /\ new.kept = u.kept
      BY <1>1, <2>2 DEF Requested
    <3>2. Holds(r)'
      BY <1>t, <1>3, <1>4, <3>1 DEF Holds, Edition
    <3>3. Found(r)'
      BY <1>t, <1>3, <1>4, <1>5, <2>2, <3>1 DEF Found, Recorded, Made, Synchronising
    <3> QED
      BY <3>1, <3>2, <3>3
  <2>3. CASE ~Recorded(u.item) /\ ~(u.item = Product \/ Recorded(Product))
    <3>1. /\ new.step = "retrieve" /\ new.op = u.op /\ new.item = Product /\ new.behind = u.behind
          /\ new.saw = u.saw /\ new.kept = u.saw
      BY <1>1, <2>3 DEF Requested
    <3>2. u.item = u.behind /\ Made(Product)
      BY <1>t, <1>0, <1>5, <2>3 DEF ProductFirst, Items
    <3>3. Holds(r)'
      BY <1>t, <1>3, <1>4, <3>1, <3>2 DEF Holds, Edition
    <3>4. Found(r)'
      BY <1>3, <1>4, <1>5, <3>1, <3>2 DEF Found, Made, Synchronising
    <3> QED
      BY <3>1, <3>3, <3>4
  <2> QED
    BY <2>1, <2>2, <2>3
<1>7. catalogueFaults' \in 0..MaxCatalogueFaults /\ catalogueFaults <= catalogueFaults'
  BY <1>t, <1>3, CatalogueAssumption DEF CatalogueTypeOK
<1> QED
  <2> u.step \notin {"done", "failed", "graph"} /\ new.step \notin {"done", "graph"}
    BY <1>3, <1>6
  <2> HIDE DEF new
  <2> QED
    BY <1>2, <1>3, <1>6, <1>7, QuietlyKeeps

\* A request that is over holds nothing.
LEMMA EndingKeeps ==
  ASSUME CatalogueTypeOK, Editions, NEW r \in CatalogueRequests, NEW step \in {"done", "failed"}, End(r, step),
         UNCHANGED offered
  PROVE  /\ [NotAsked EXCEPT !.step = step] \in Requested
         /\ underway' = [underway EXCEPT ![r] = [NotAsked EXCEPT !.step = step]]
         /\ underway' \in [CatalogueRequests -> Requested]
         /\ \A s \in CatalogueRequests \ {r} : underway'[s] = underway[s]
         /\ underway'[r].step = step /\ underway'[r].saw = NotMade /\ underway'[r].item = Product
         /\ Holds(r)' /\ Found(r)'
<1>1. underway \in [CatalogueRequests -> Requested] /\ NotAsked \in Requested /\ Product \in Items
  BY CatalogueTypes
<1>2. [NotAsked EXCEPT !.step = step] \in Requested
  BY <1>1 DEF Requested, Steps
<1>3. underway' = [underway EXCEPT ![r] = [NotAsked EXCEPT !.step = step]]
  BY DEF End
<1>4. underway'[r] = [NotAsked EXCEPT !.step = step] /\ \A s \in CatalogueRequests \ {r} : underway'[s] = underway[s]
  BY <1>1, <1>3
<1>5. /\ underway'[r].step = step /\ underway'[r].saw = NotMade /\ underway'[r].kept = NotMade
      /\ underway'[r].item = Product /\ underway'[r].behind = Product
  BY <1>4 DEF NotAsked
<1>6. Holds(r)' /\ Found(r)'
  BY <1>1, <1>5 DEF Holds, Found, Edition, Editions, Synchronising
<1>7. underway' \in [CatalogueRequests -> Requested]
  BY <1>1, <1>2, <1>3
<1> QED
  BY <1>2, <1>3, <1>4, <1>5, <1>6, <1>7

LEMMA CatalogueRequestFailsKeeps ==
  ASSUME CatalogueInv, NEW r \in CatalogueRequests, CatalogueRequestFails(r)
  PROVE  CatalogueInv'
<1> DEFINE u == [NotAsked EXCEPT !.step = "failed"]
<1>t. CatalogueTypeOK /\ Editions /\ catalogueFaults \in 0..MaxCatalogueFaults
  BY DEF CatalogueInv, CatalogueTypeOK
<1>1. /\ End(r, "failed") /\ underway[r].step \notin {"new", "done", "failed"}
      /\ UNCHANGED <<offered, copied, allowance, author, outrun, dashboards>>
      /\ catalogueFaults < MaxCatalogueFaults /\ catalogueFaults' = catalogueFaults + 1
  BY DEF CatalogueRequestFails
<1>2. u \in Requested /\ underway' = [underway EXCEPT ![r] = u] /\ Holds(r)' /\ Found(r)'
  BY <1>t, <1>1, EndingKeeps
<1>3. /\ catalogueFaults' \in 0..MaxCatalogueFaults /\ catalogueFaults <= catalogueFaults' /\ catalogueFaults' > 0
  BY <1>t, <1>1, CatalogueAssumption
<1>4. u.step = "failed"
  BY DEF NotAsked
<1> QED
  <2> HIDE DEF u
  <2> QED
    BY <1>1, <1>2, <1>3, <1>4, QuietlyKeeps

\* Fields of an item are changed in Stripe, each to its next edition.
NextRow(i, row, by) ==
  \A f \in Fields : row[f] = offered[i][f] \/ (row[f].at = offered[i][f].at + 1 /\ row[f].by = by)

LEMMA StripeMoves ==
  ASSUME CatalogueTypeOK, Editions, NEW by \in Authors, NEW i \in Items, NEW row \in [Fields -> Values],
         offered' = [offered EXCEPT ![i] = row], NextRow(i, row, by), UNCHANGED copied
  PROVE  /\ offered' \in [Items -> [Fields -> Values]]
         /\ \A j \in Items, f \in Fields : offered'[j][f] = IF j = i THEN row[f] ELSE offered[j][f]
         /\ \A j \in Items, f \in Fields, v \in Values :
              Edition(v, j, f) => /\ v.at <= offered'[j][f].at
                                  /\ v.at = offered'[j][f].at => v = offered'[j][f]
         /\ \A j \in Items, f \in Fields, v \in Values :
              Edition(v, j, f) /\ v = offered'[j][f] => v = offered[j][f]
         /\ Editions'
         /\ \A j \in Items : (Recorded(j)' <=> Recorded(j)) /\ (Made(j) => Made(j)')
<1>1. /\ \A j \in Items, f \in Fields : offered[j][f] \in Values /\ copied[j][f] \in Values
      /\ \A f \in Fields : row[f] \in Values /\ NotMade[f] \in Values
      /\ \A v \in Values : v.at \in Nat
      /\ "active" \in Fields
  BY CatalogueTypes
<1>2. offered \in [Items -> [Fields -> Values]]
  BY DEF CatalogueTypeOK
<1>3. /\ offered' \in [Items -> [Fields -> Values]]
      /\ \A j \in Items, f \in Fields : offered'[j][f] = IF j = i THEN row[f] ELSE offered[j][f]
  BY <1>2
<1>4. \A j \in Items, f \in Fields : /\ offered'[j][f] \in Values
                                     /\ \/ offered'[j][f] = offered[j][f]
                                        \/ offered'[j][f].at = offered[j][f].at + 1
  BY <1>1, <1>3 DEF NextRow
<1>5. \A j \in Items, f \in Fields, v \in Values :
              Edition(v, j, f) => /\ v.at <= offered'[j][f].at
                                  /\ v.at = offered'[j][f].at => v = offered'[j][f]
  BY <1>1, <1>4 DEF Edition
<1>6. \A j \in Items, f \in Fields, v \in Values :
              Edition(v, j, f) /\ v = offered'[j][f] => v = offered[j][f]
  BY <1>1, <1>4 DEF Edition
<1>7. Editions'
  <2> SUFFICES ASSUME NEW j \in Items, NEW f \in Fields
               PROVE  Edition(NotMade[f], j, f)' /\ Edition(copied[j][f], j, f)'
    BY DEF Editions
  <2>1. Edition(NotMade[f], j, f) /\ Edition(copied[j][f], j, f)
    BY DEF Editions
  <2>2. Edition(NotMade[f], j, f)'
    BY <1>1, <1>5, <2>1 DEF Edition
  <2>3. Edition(copied[j][f], j, f)'
    BY <1>1, <1>5, <2>1 DEF Edition
  <2> QED
    BY <2>2, <2>3
<1>8. \A j \in Items : (Recorded(j)' <=> Recorded(j)) /\ (Made(j) => Made(j)')
  BY <1>1, <1>4 DEF Recorded, Made
<1> QED
  BY <1>3, <1>5, <1>6, <1>7, <1>8

\* The author of the change takes it to the graph; who changed nothing since has not changed.
LEMMA StripeKeeps ==
  ASSUME CatalogueInv, NEW by \in Authors, NEW i \in Items, NEW row \in [Fields -> Values],
         offered' = [offered EXCEPT ![i] = row], NextRow(i, row, by),
         UNCHANGED <<copied, allowance, outrun, catalogueFaults>>, dashboards' \in 0..MaxDashboard,
         i # Product => Made(Product),
         underway' \in [CatalogueRequests -> Requested],
         \A s \in CatalogueRequests \ {by} : underway'[s] = underway[s],
         by \in CatalogueRequests =>
           /\ Holds(by)' /\ Found(by)'
           /\ underway[by].step = "stripe" /\ underway'[by].step = "graph"
           /\ underway'[by].item = i /\ underway'[by].saw = row
           /\ \A f \in Fields : row[f] # offered[i][f] =>
                underway'[by].op = "create" \/ f = (IF underway'[by].op = "update" THEN "name" ELSE "active"),
         \/ UNCHANGED author
         \/ by \in CatalogueRequests /\ author' = [author EXCEPT ![i] = by] /\ underway'[by].op = "create"
  PROVE  CatalogueInv'
<1>t. CatalogueTypeOK /\ Editions
  BY DEF CatalogueInv
<1>s. /\ offered' \in [Items -> [Fields -> Values]]
      /\ \A j \in Items, f \in Fields : offered'[j][f] = IF j = i THEN row[f] ELSE offered[j][f]
      /\ \A j \in Items, f \in Fields, v \in Values :
              Edition(v, j, f) => /\ v.at <= offered'[j][f].at
                                  /\ v.at = offered'[j][f].at => v = offered'[j][f]
      /\ \A j \in Items, f \in Fields, v \in Values :
              Edition(v, j, f) /\ v = offered'[j][f] => v = offered[j][f]
      /\ Editions'
      /\ \A j \in Items : (Recorded(j)' <=> Recorded(j)) /\ (Made(j) => Made(j)')
  BY <1>t, StripeMoves
<1>1. CatalogueTypeOK'
  <2>1. author' \in [Items -> Authors]
    BY <1>t DEF CatalogueTypeOK, Authors
  <2> QED
    BY <1>t, <1>s, <2>1 DEF CatalogueTypeOK, Requested
<1>2. ASSUME NEW s \in CatalogueRequests PROVE Holds(s)' /\ Found(s)'
  <2>1. CASE s = by
    BY <2>1
  <2>2. CASE s # by
    <3>1. Holds(s) /\ Found(s) /\ underway'[s] = underway[s]
      BY <2>2 DEF CatalogueInv
    <3> QED
      BY <1>t, <1>s, <3>1, OthersHold
  <2> QED
    BY <2>1, <2>2
<1>3. ProductFirst'
  <2>1. ProductFirst
    BY DEF CatalogueInv
  <2>2. \A p \in Plans : p \in Items /\ p # Product
    BY <1>t, CatalogueTypes
  <2>3. Product \in Items
    BY <1>t, CatalogueTypes
  <2>4. \A j \in Items : j # i => (Made(j)' <=> Made(j))
    BY <1>s DEF Made, Fields
  <2> QED
    BY <1>s, <2>1, <2>2, <2>3, <2>4 DEF ProductFirst
<1>4. Carried'
  <2>1. Carried
    BY DEF CatalogueInv
  <2> SUFFICES ASSUME NEW j \in Items, NEW f \in Fields, NEW s \in CatalogueRequests, offered'[j][f].by = s
               PROVE  /\ underway'[s].step \in Changed
                      /\ underway'[s].step = "graph" =>
                           /\ underway'[s].item = j /\ underway'[s].saw[f] = offered'[j][f]
                           /\ underway'[s].op = "create" \/ f = (IF underway'[s].op = "update" THEN "name" ELSE "active")
                      /\ underway'[s].step = "done" => Current(j, f)'
    BY DEF Carried
  <2>2. CASE offered'[j][f] = offered[j][f]
    <3>1. underway[s].step \in Changed
      BY <2>1, <2>2 DEF Carried
    <3>2. s # by
      BY <3>1 DEF Changed
    <3>3. underway'[s] = underway[s] /\ (Current(j, f)' <=> Current(j, f))
      BY <2>2, <3>2 DEF Current
    <3> QED
      BY <2>1, <2>2, <3>3 DEF Carried
  <2>3. CASE offered'[j][f] # offered[j][f]
    <3>1. j = i /\ offered'[j][f] = row[f]
      BY <1>s, <2>3
    <3>2. row[f] # offered[i][f] /\ row[f].by = by /\ s = by
      BY <2>3, <3>1 DEF NextRow
    <3> QED
      BY <3>1, <3>2 DEF Changed
  <2> QED
    BY <2>2, <2>3
<1>5. CreatedIsKept'
  <2>1. CreatedIsKept
    BY DEF CatalogueInv
  <2> SUFFICES ASSUME NEW j \in Items, NEW s \in CatalogueRequests, author'[j] = s
               PROVE  /\ underway'[s].step \in Changed
                      /\ underway'[s].step = "graph" => underway'[s].op = "create" /\ underway'[s].item = j
                      /\ underway'[s].step = "done" => Recorded(j)' /\ (j # Product => j \in allowance')
                      /\ underway'[s].step = "failed" => Recorded(j)' \/ catalogueFaults' > 0
    BY DEF CreatedIsKept
  <2>2. author[j] = s \/ (s = by /\ j = i /\ underway'[by].op = "create")
    BY <1>t DEF CatalogueTypeOK
  <2>3. CASE author[j] = s
    <3>1. underway[s].step \in Changed
      BY <2>1, <2>3 DEF CreatedIsKept
    <3>2. s # by
      BY <3>1 DEF Changed
    <3>3. underway'[s] = underway[s]
      BY <3>2
    <3> QED
      BY <1>s, <2>1, <2>3, <3>3 DEF CreatedIsKept
  <2>4. CASE s = by /\ j = i /\ underway'[by].op = "create"
    BY <2>4 DEF Changed
  <2> QED
    BY <2>2, <2>3, <2>4
<1>6. SyncHeals'
  <2>1. SyncHeals
    BY DEF CatalogueInv
  <2> SUFFICES ASSUME NEW s \in CatalogueRequests, NEW f \in Fields,
                      underway'[s].step = "done", underway'[s].op = "sync",
                      underway'[s].saw[f] = offered'[underway'[s].item][f]
               PROVE  LET j == underway'[s].item IN
                      copied[j][f] = offered'[j][f] \/ offered'[j][f].is = "none" \/ <<j, f>> \in outrun
    BY DEF SyncHeals, At
  <2>2. s # by
    OBVIOUS
  <2>3. underway'[s] = underway[s]
    BY <2>2
  <2>4. underway[s].saw[f] \in Values /\ underway[s].item \in Items
    BY <1>t, CatalogueTypes DEF Requested
  <2>5. Edition(underway[s].saw[f], underway[s].item, f)
    BY <2>3 DEF CatalogueInv, Holds
  <2>6. offered'[underway[s].item][f] = offered[underway[s].item][f]
    BY <1>s, <2>3, <2>4, <2>5
  <2> QED
    BY <2>1, <2>3, <2>6 DEF SyncHeals, At
<1> QED
  BY <1>s, <1>1, <1>2, <1>3, <1>4, <1>5, <1>6 DEF CatalogueInv

\* The rows that a change makes.
LEMMA Rows ==
  ASSUME CatalogueTypeOK, NEW i \in Items, NEW by \in Authors, NEW is \in {"none", "given", "yes", "no"}
  PROVE  /\ Renamed(i, is, by) \in [Fields -> Values] /\ NextRow(i, Renamed(i, is, by), by)
         /\ Renamed(i, is, by)["active"] = offered[i]["active"]
         /\ Switched(i, is, by) \in [Fields -> Values] /\ NextRow(i, Switched(i, is, by), by)
         /\ Switched(i, is, by)["name"] = offered[i]["name"] /\ Switched(i, is, by)["active"].at > 0
         /\ New(i, by) \in [Fields -> Values] /\ NextRow(i, New(i, by), by) /\ New(i, by)["active"].at > 0
<1>1. /\ offered[i] \in [Fields -> Values] /\ \A f \in Fields : offered[i][f] \in Values
      /\ \A v \in Values : v.at \in Nat
      /\ "name" \in Fields /\ "active" \in Fields /\ "name" # "active"
  BY CatalogueTypes
<1>2. \A f \in Fields, w \in {"none", "given", "yes", "no"} :
         /\ NextEdition(i, f, w, by) \in Values
         /\ NextEdition(i, f, w, by).at = offered[i][f].at + 1 /\ NextEdition(i, f, w, by).by = by
  BY <1>1 DEF NextEdition, Values
<1>3. /\ Renamed(i, is, by) \in [Fields -> Values] /\ NextRow(i, Renamed(i, is, by), by)
      /\ Renamed(i, is, by)["active"] = offered[i]["active"]
  BY <1>1, <1>2 DEF Renamed, NextRow
<1>4. /\ Switched(i, is, by) \in [Fields -> Values] /\ NextRow(i, Switched(i, is, by), by)
      /\ Switched(i, is, by)["name"] = offered[i]["name"] /\ Switched(i, is, by)["active"].at > 0
  BY <1>1, <1>2 DEF Switched, NextRow
<1>5. \A f \in Fields : (IF f = "name" THEN "given" ELSE "yes") \in {"none", "given", "yes", "no"}
  OBVIOUS
<1>6. New(i, by) \in [Fields -> Values] /\ NextRow(i, New(i, by), by) /\ New(i, by)["active"].at > 0
  BY <1>1, <1>2, <1>5 DEF New, NextRow
<1> QED
  BY <1>3, <1>4, <1>6

LEMMA CreateInStripeKeeps ==
  ASSUME CatalogueInv, NEW r \in CatalogueRequests, NEW i \in Items, CreateInStripe(r, i)
  PROVE  CatalogueInv'
<1> DEFINE u == underway[r]
           row == New(i, r)
<1>t. CatalogueTypeOK /\ Editions /\ Holds(r) /\ Found(r) /\ r \in Authors
  BY DEF CatalogueInv, Authors
<1>1. u \in Requested /\ underway \in [CatalogueRequests -> Requested] /\ u.behind \in Items
  BY <1>t, CatalogueTypes DEF Requested
<1>2. row \in [Fields -> Values] /\ NextRow(i, row, r) /\ row["active"].at > 0
  BY <1>t, Rows
<1>3. /\ u.step = "stripe" /\ u.op = "create" /\ ~Made(i) /\ (i = Product <=> u.item = Product)
      /\ offered' = [offered EXCEPT ![i] = row] /\ author' = [author EXCEPT ![i] = r]
      /\ underway' = [underway EXCEPT ![r].step = "graph", ![r].item = i, ![r].saw = row]
      /\ UNCHANGED <<copied, allowance, outrun, dashboards, catalogueFaults>>
  BY DEF CreateInStripe, At
<1> HIDE DEF row
<1>4. /\ underway' \in [CatalogueRequests -> Requested]
      /\ \A s \in CatalogueRequests \ {r} : underway'[s] = underway[s]
      /\ underway'[r].step = "graph" /\ underway'[r].item = i /\ underway'[r].saw = row
      /\ underway'[r].op = "create" /\ underway'[r].kept = u.kept /\ underway'[r].behind = u.behind
  BY <1>1, <1>2, <1>3 DEF Requested, Steps
<1>s. /\ \A j \in Items, f \in Fields : offered'[j][f] = IF j = i THEN row[f] ELSE offered[j][f]
      /\ \A j \in Items, f \in Fields, v \in Values :
              Edition(v, j, f) => /\ v.at <= offered'[j][f].at
                                  /\ v.at = offered'[j][f].at => v = offered'[j][f]
      /\ \A j \in Items : (Recorded(j)' <=> Recorded(j))
  BY <1>t, <1>2, <1>3, StripeMoves
<1>5. u.item = Product \/ Recorded(Product)
  BY <1>t, <1>3 DEF Found
<1>6. Product \in Items
  BY <1>t, CatalogueTypes
<1>7. i # Product => Made(Product)
  BY <1>3, <1>5, <1>6, RecordedIsMade
<1>8. Holds(r)'
  <2>1. \A f \in Fields : u.kept[f] \in Values /\ row[f] \in Values
    BY <1>t, <1>2, CatalogueTypes
  <2>2. \A f \in Fields : Edition(u.kept[f], u.behind, f)
    BY <1>t DEF Holds
  <2>3. \A f \in Fields : row[f].at \in Nat
    BY <1>t, <2>1, CatalogueTypes
  <2> QED
    BY <1>1, <1>4, <1>s, <2>1, <2>2, <2>3 DEF Holds, Edition
<1>9. Found(r)'
  BY <1>2, <1>3, <1>4, <1>5, <1>6, <1>s DEF Found, Synchronising
<1>10. dashboards' \in 0..MaxDashboard
  BY <1>t, <1>3 DEF CatalogueTypeOK
<1> QED
  BY <1>t, <1>2, <1>3, <1>4, <1>7, <1>8, <1>9, <1>10, StripeKeeps

LEMMA ChangeInStripeKeeps ==
  ASSUME CatalogueInv, NEW r \in CatalogueRequests, ChangeInStripe(r)
  PROVE  CatalogueInv'
<1> DEFINE u == underway[r]
           row == CASE u.op = "update" -> Renamed(u.item, "given", r)
                    [] u.op = "archive" -> Switched(u.item, "no", r)
                    [] u.op = "reactivate" -> Switched(u.item, "yes", r)
<1>t. CatalogueTypeOK /\ Editions /\ ProductFirst /\ Holds(r) /\ Found(r) /\ r \in Authors
  BY DEF CatalogueInv, Authors
<1>1. /\ u \in Requested /\ underway \in [CatalogueRequests -> Requested]
      /\ u.behind \in Items /\ u.item \in Items /\ u.op \in CatalogueOperations
  BY <1>t, CatalogueTypes DEF Requested
<1>3. /\ u.step = "stripe" /\ u.op # "create" /\ offered' = [offered EXCEPT ![u.item] = row]
      /\ underway' = [underway EXCEPT ![r].step = "graph", ![r].saw = row]
      /\ UNCHANGED <<copied, allowance, author, outrun, dashboards, catalogueFaults>>
  BY DEF ChangeInStripe, At
<1>5. u.op # "sync" /\ Recorded(u.item)
  BY <1>t, <1>3 DEF Found
<1>6. Product \in Items /\ Plans = Items \ {Product}
  BY <1>t, CatalogueTypes
<1>7. Made(u.item)
  BY <1>1, <1>5, RecordedIsMade
<1>2. /\ row \in [Fields -> Values] /\ NextRow(u.item, row, r) /\ row["active"].at > 0
      /\ \A f \in Fields : row[f] # offered[u.item][f] => f = (IF u.op = "update" THEN "name" ELSE "active")
  <2>1. u.op \in {"update", "archive", "reactivate"}
    BY <1>1, <1>3, <1>5 DEF CatalogueOperations
  <2>2. CASE u.op = "update"
    <3>1. row = Renamed(u.item, "given", r)
      BY <2>2
    <3> QED
      BY <1>t, <1>1, <1>7, <2>2, <3>1, Rows DEF Made, Fields
  <2>3. CASE u.op = "archive"
    <3>1. row = Switched(u.item, "no", r)
      BY <2>3
    <3> QED
      BY <1>t, <1>1, <2>3, <3>1, Rows DEF Fields
  <2>4. CASE u.op = "reactivate"
    <3>1. row = Switched(u.item, "yes", r)
      BY <2>4
    <3> QED
      BY <1>t, <1>1, <2>4, <3>1, Rows DEF Fields
  <2> QED
    BY <2>1, <2>2, <2>3, <2>4
<1> HIDE DEF row
<1>4. /\ underway' \in [CatalogueRequests -> Requested]
      /\ \A s \in CatalogueRequests \ {r} : underway'[s] = underway[s]
      /\ underway'[r].step = "graph" /\ underway'[r].item = u.item /\ underway'[r].saw = row
      /\ underway'[r].op = u.op /\ underway'[r].kept = u.kept /\ underway'[r].behind = u.behind
  BY <1>1, <1>2, <1>3 DEF Requested, Steps
<1>s. /\ \A j \in Items, f \in Fields : offered'[j][f] = IF j = u.item THEN row[f] ELSE offered[j][f]
      /\ \A j \in Items, f \in Fields, v \in Values :
              Edition(v, j, f) => /\ v.at <= offered'[j][f].at
                                  /\ v.at = offered'[j][f].at => v = offered'[j][f]
      /\ \A j \in Items : (Recorded(j)' <=> Recorded(j))
  BY <1>t, <1>1, <1>2, <1>3, StripeMoves
<1>7a. u.item # Product => Made(Product)
  BY <1>t, <1>1, <1>6, <1>7 DEF ProductFirst
<1>8. Holds(r)'
  <2>1. \A f \in Fields : u.kept[f] \in Values /\ row[f] \in Values
    BY <1>t, <1>2, CatalogueTypes
  <2>2. \A f \in Fields : Edition(u.kept[f], u.behind, f)
    BY <1>t DEF Holds
  <2>3. \A f \in Fields : row[f].at \in Nat
    BY <1>t, <2>1, CatalogueTypes
  <2> QED
    BY <1>1, <1>4, <1>s, <2>1, <2>2, <2>3 DEF Holds, Edition
<1>9. Found(r)'
  BY <1>1, <1>2, <1>3, <1>4, <1>5, <1>s DEF Found, Synchronising
<1>10. dashboards' \in 0..MaxDashboard
  BY <1>t, <1>3 DEF CatalogueTypeOK
<1> QED
  BY <1>t, <1>1, <1>2, <1>3, <1>4, <1>7a, <1>8, <1>9, <1>10, StripeKeeps

LEMMA WorkInStripeKeeps ==
  ASSUME CatalogueInv, NEW i \in Items, WorkInStripe(i)
  PROVE  CatalogueInv'
<1>t. CatalogueTypeOK /\ ProductFirst /\ Dashboard \in Authors /\ Dashboard \notin CatalogueRequests
  BY CatalogueAssumption DEF CatalogueInv, Authors
<1>1. PICK row \in IF Made(i) THEN {Renamed(i, "given", Dashboard), Switched(i, "yes", Dashboard),
                                    Switched(i, "no", Dashboard)}
                                   \cup {Renamed(j, "none", Dashboard) : j \in {i} \ {Product}}
                   ELSE {New(i, Dashboard)} :
             offered' = [offered EXCEPT ![i] = row]
  BY DEF WorkInStripe
<1>2. /\ dashboards < MaxDashboard /\ dashboards' = dashboards + 1
      /\ Made(i) \/ i = Product \/ Made(Product)
      /\ UNCHANGED <<copied, allowance, underway, author, outrun, catalogueFaults>>
  BY DEF WorkInStripe
<1>3. \/ row \in {Renamed(i, "given", Dashboard), Renamed(i, "none", Dashboard)}
      \/ row \in {Switched(i, "yes", Dashboard), Switched(i, "no", Dashboard)}
      \/ row = New(i, Dashboard)
  BY <1>1
<1>4. row \in [Fields -> Values] /\ NextRow(i, row, Dashboard)
  BY <1>t, <1>3, Rows
<1>5. i # Product => Made(Product)
  BY <1>t, <1>2 DEF ProductFirst, Items
<1>6. dashboards' \in 0..MaxDashboard
  BY <1>t, <1>2, CatalogueAssumption DEF CatalogueTypeOK
<1>7. underway' \in [CatalogueRequests -> Requested] /\ \A s \in CatalogueRequests \ {Dashboard} : underway'[s] = underway[s]
  BY <1>t, <1>2, CatalogueTypes
<1> QED
  BY <1>t, <1>1, <1>2, <1>4, <1>5, <1>6, <1>7, StripeKeeps

\* A copy takes editions that Stripe has or had; what is older than the copy is noted.
LEMMA Copying ==
  ASSUME CatalogueTypeOK, Editions, NEW i \in Items, NEW row \in [Fields -> Values], Copy(i, row),
         \A f \in Fields : Edition(row[f], i, f), row["active"].at > 0, UNCHANGED offered
  PROVE  /\ copied' \in [Items -> [Fields -> Values]] /\ outrun' \subseteq Items \X Fields
         /\ \A j \in Items, f \in Fields : copied'[j][f] = IF j = i THEN row[f] ELSE copied[j][f]
         /\ Editions'
         /\ Recorded(i)' /\ \A j \in Items : (j # i => (Recorded(j)' <=> Recorded(j)))
         /\ \A j \in Items : Recorded(j) => Recorded(j)'
         /\ \A j \in Items, f \in Fields : Current(j, f) => Current(j, f)'
         /\ \A f \in Fields : row[f] = offered[i][f] => Current(i, f)'
<1>1. /\ \A j \in Items, f \in Fields : offered[j][f] \in Values /\ copied[j][f] \in Values
      /\ \A f \in Fields : row[f] \in Values
      /\ \A v \in Values : v.at \in Nat
      /\ "active" \in Fields
  BY CatalogueTypes
<1>2. copied \in [Items -> [Fields -> Values]] /\ outrun \subseteq Items \X Fields
  BY DEF CatalogueTypeOK
<1>3. /\ copied' = [copied EXCEPT ![i] = row]
      /\ outrun' = (outrun \cup {<<i, f>> : f \in {g \in Fields : row[g].at < copied[i][g].at}})
                      \ {<<i, f>> : f \in {g \in Fields : row[g].at = offered[i][g].at}}
  BY DEF Copy
<1>4. /\ copied' \in [Items -> [Fields -> Values]]
      /\ \A j \in Items, f \in Fields : copied'[j][f] = IF j = i THEN row[f] ELSE copied[j][f]
  BY <1>2, <1>3
<1>5. outrun' \subseteq Items \X Fields
  BY <1>2, <1>3
<1>6. Editions'
  BY <1>4 DEF Editions, Edition
<1>7. Recorded(i)' /\ \A j \in Items : (j # i => (Recorded(j)' <=> Recorded(j)))
  BY <1>1, <1>4 DEF Recorded
<1>8. \A j \in Items : Recorded(j) => Recorded(j)'
  BY <1>7
<1>9. ASSUME NEW j \in Items, NEW f \in Fields, j # i
      PROVE  <<j, f>> \in outrun' <=> <<j, f>> \in outrun
  BY <1>3, <1>9
<1>10. ASSUME NEW f \in Fields
       PROVE  <<i, f>> \in outrun' <=> (<<i, f>> \in outrun \/ row[f].at < copied[i][f].at) /\ row[f].at # offered[i][f].at
  BY <1>3
<1>11. \A j \in Items, f \in Fields : Current(j, f) => Current(j, f)'
  <2> SUFFICES ASSUME NEW j \in Items, NEW f \in Fields, Current(j, f) PROVE Current(j, f)'
    OBVIOUS
  <2>1. CASE j # i
    BY <1>4, <1>9, <2>1 DEF Current
  <2>2. CASE j = i
    <3>1. /\ row[f].at \in Nat /\ offered[i][f].at \in Nat /\ row[f].at <= offered[i][f].at
          /\ row[f].at = offered[i][f].at => row[f] = offered[i][f]
      BY <1>1 DEF Edition
    <3>2. copied'[i][f] = row[f]
      BY <1>4
    <3> QED
      BY <1>10, <2>2, <3>1, <3>2 DEF Current
  <2> QED
    BY <2>1, <2>2
<1>12. \A f \in Fields : row[f] = offered[i][f] => Current(i, f)'
  BY <1>4 DEF Current
<1> QED
  BY <1>4, <1>5, <1>6, <1>7, <1>8, <1>11, <1>12

\* The request r copies row to item i.
LEMMA CopyKeeps ==
  ASSUME CatalogueInv, NEW r \in CatalogueRequests, NEW i \in Items, NEW row \in [Fields -> Values], Copy(i, row),
         \A f \in Fields : Edition(row[f], i, f), row["active"].at > 0,
         i = Product \/ Recorded(Product),
         UNCHANGED <<offered, author, dashboards, catalogueFaults>>,
         allowance \subseteq allowance', allowance' \subseteq Plans,
         underway' \in [CatalogueRequests -> Requested],
         \A s \in CatalogueRequests \ {r} : underway'[s] = underway[s],
         Holds(r)', Found(r)', underway[r].step \notin {"done", "failed"}, underway'[r].step # "graph",
         underway[r].step = "graph" =>
           /\ underway[r].item = i /\ underway'[r].step = "done"
           /\ \A f \in Fields : offered[i][f].by = r => row[f] = offered[i][f]
           /\ author[i] = r /\ i # Product => i \in allowance',
         underway'[r].step = "done" => \A f \in Fields, j \in Items :
           j = underway'[r].item /\ underway'[r].saw[f] = offered[j][f]
             => offered[j][f].is = "none" \/ Current(j, f)'
  PROVE  CatalogueInv'
<1>t. CatalogueTypeOK /\ Editions
  BY DEF CatalogueInv
<1>s. /\ copied' \in [Items -> [Fields -> Values]] /\ outrun' \subseteq Items \X Fields
      /\ \A j \in Items, f \in Fields : copied'[j][f] = IF j = i THEN row[f] ELSE copied[j][f]
      /\ Editions'
      /\ Recorded(i)' /\ \A j \in Items : (j # i => (Recorded(j)' <=> Recorded(j)))
      /\ \A j \in Items : Recorded(j) => Recorded(j)'
      /\ \A j \in Items, f \in Fields : Current(j, f) => Current(j, f)'
      /\ \A f \in Fields : row[f] = offered[i][f] => Current(i, f)'
  BY <1>t, Copying
<1>m. \A j \in Items : Made(j)' <=> Made(j)
  BY DEF Made
<1>1. CatalogueTypeOK'
  BY <1>t, <1>s DEF CatalogueTypeOK, Requested
<1>2. ASSUME NEW s \in CatalogueRequests PROVE Holds(s)' /\ Found(s)'
  <2>1. CASE s = r
    BY <2>1
  <2>2. CASE s # r
    <3>1. Holds(s) /\ Found(s) /\ underway'[s] = underway[s]
      BY <2>2 DEF CatalogueInv
    <3>2. \A j \in Items, f \in Fields, v \in Values :
            Edition(v, j, f) => /\ v.at <= offered'[j][f].at
                                /\ v.at = offered'[j][f].at => v = offered'[j][f]
      BY DEF Edition
    <3> QED
      BY <1>t, <1>s, <1>m, <3>1, <3>2, OthersHold
  <2> QED
    BY <2>1, <2>2
<1>3. ProductFirst'
  <2>1. ProductFirst
    BY DEF CatalogueInv
  <2>2. \A p \in Plans : p \in Items
    BY DEF Items
  <2>3. Product \in Items
    BY <1>t, CatalogueTypes
  <2> QED
    BY <1>s, <1>m, <2>1, <2>2, <2>3 DEF ProductFirst
<1>4. Carried'
  <2>1. Carried
    BY DEF CatalogueInv
  <2> SUFFICES ASSUME NEW j \in Items, NEW f \in Fields, NEW s \in CatalogueRequests, offered[j][f].by = s
               PROVE  /\ underway'[s].step \in Changed
                      /\ underway'[s].step = "graph" =>
                           /\ underway'[s].item = j /\ underway'[s].saw[f] = offered[j][f]
                           /\ underway'[s].op = "create" \/ f = (IF underway'[s].op = "update" THEN "name" ELSE "active")
                      /\ underway'[s].step = "done" => Current(j, f)'
    BY DEF Carried
  <2>2. CASE s = r
    <3>1. underway[r].step = "graph" /\ j = i
      BY <2>1, <2>2 DEF Carried, Changed
    <3>2. row[f] = offered[i][f] /\ underway'[r].step = "done"
      BY <2>2, <3>1
    <3> QED
      BY <1>s, <2>2, <3>1, <3>2 DEF Changed
  <2>3. CASE s # r
    <3>1. underway'[s] = underway[s]
      BY <2>3
    <3> QED
      BY <1>s, <2>1, <3>1 DEF Carried
  <2> QED
    BY <2>2, <2>3
<1>5. CreatedIsKept'
  <2>1. CreatedIsKept
    BY DEF CatalogueInv
  <2> SUFFICES ASSUME NEW j \in Items, NEW s \in CatalogueRequests, author[j] = s
               PROVE  /\ underway'[s].step \in Changed
                      /\ underway'[s].step = "graph" => underway'[s].op = "create" /\ underway'[s].item = j
                      /\ underway'[s].step = "done" => Recorded(j)' /\ (j # Product => j \in allowance')
                      /\ underway'[s].step = "failed" => Recorded(j)' \/ catalogueFaults > 0
    BY DEF CreatedIsKept
  <2>2. CASE s = r
    <3>1. underway[r].step = "graph" /\ j = i
      BY <2>1, <2>2 DEF CreatedIsKept, Changed
    <3> QED
      BY <1>s, <2>2, <3>1 DEF Changed
  <2>3. CASE s # r
    <3>1. underway'[s] = underway[s]
      BY <2>3
    <3> QED
      BY <1>s, <2>1, <3>1 DEF CreatedIsKept
  <2> QED
    BY <2>2, <2>3
<1>6. SyncHeals'
  <2>1. SyncHeals
    BY DEF CatalogueInv
  <2>2. \A s \in CatalogueRequests : underway'[s].item \in Items
    BY DEF Requested
  <2> SUFFICES ASSUME NEW s \in CatalogueRequests, NEW f \in Fields, NEW j \in Items, j = underway'[s].item,
                      underway'[s].step = "done", underway'[s].op = "sync", underway'[s].saw[f] = offered[j][f]
               PROVE  offered[j][f].is = "none" \/ Current(j, f)'
    BY <2>2 DEF SyncHeals, At, Current
  <2>3. CASE s = r
    BY <2>3
  <2>4. CASE s # r
    <3>1. underway'[s] = underway[s]
      BY <2>4
    <3>2. offered[j][f].is = "none" \/ Current(j, f)
      BY <2>1, <3>1 DEF SyncHeals, At, Current
    <3> QED
      BY <1>s, <3>2
  <2> QED
    BY <2>3, <2>4
<1> QED
  BY <1>s, <1>1, <1>2, <1>3, <1>4, <1>5, <1>6 DEF CatalogueInv

LEMMA CreateInGraphKeeps ==
  ASSUME CatalogueInv, NEW r \in CatalogueRequests, CreateInGraph(r)
  PROVE  CatalogueInv'
<1> DEFINE u == underway[r]
           row == u.saw
<1>t. CatalogueTypeOK /\ Editions /\ Holds(r) /\ Found(r) /\ Carried
  BY DEF CatalogueInv
<1>1. /\ u \in Requested /\ u.item \in Items /\ row \in [Fields -> Values] /\ Plans = Items \ {Product}
  BY <1>t, CatalogueTypes DEF Requested
<1>2. /\ u.step = "graph" /\ u.op = "create"
      /\ UNCHANGED <<offered, author, dashboards, catalogueFaults>>
      /\ IF Recorded(u.item) THEN End(r, "failed") /\ UNCHANGED <<copied, allowance, outrun>>
         ELSE /\ Copy(u.item, row) /\ allowance' = allowance \cup ({u.item} \ {Product}) /\ End(r, "done")
  BY DEF CreateInGraph, At
<1>3. CASE Recorded(u.item)
  <2> DEFINE v == [NotAsked EXCEPT !.step = "failed"]
  <2>1. v \in Requested /\ underway' = [underway EXCEPT ![r] = v] /\ Holds(r)' /\ Found(r)'
    BY <1>t, <1>2, <1>3, EndingKeeps
  <2>2. catalogueFaults' \in 0..MaxCatalogueFaults /\ catalogueFaults <= catalogueFaults'
    BY <1>t, <1>2, CatalogueAssumption DEF CatalogueTypeOK
  <2>3. v.step = "failed"
    BY DEF NotAsked
  <2> HIDE DEF v
  <2> QED
    BY <1>2, <1>3, <2>1, <2>2, <2>3, QuietlyKeeps
<1>4. CASE ~Recorded(u.item)
  <2>1. Copy(u.item, row) /\ allowance' = allowance \cup ({u.item} \ {Product}) /\ End(r, "done")
    BY <1>2, <1>4
  <2>2. /\ underway' \in [CatalogueRequests -> Requested]
        /\ \A s \in CatalogueRequests \ {r} : underway'[s] = underway[s]
        /\ underway'[r].step = "done" /\ underway'[r].saw = NotMade /\ Holds(r)' /\ Found(r)'
    BY <1>t, <1>2, <2>1, EndingKeeps
  <2>3. /\ \A f \in Fields : Edition(row[f], u.item, f)
        /\ row["active"].at > 0
        /\ u.item = Product \/ Recorded(Product)
    BY <1>t, <1>2 DEF Holds, Found
  <2>4. allowance \subseteq allowance' /\ allowance' \subseteq Plans
    BY <1>t, <1>1, <2>1 DEF CatalogueTypeOK
  <2>5. \A f \in Fields : offered[u.item][f].by = r => row[f] = offered[u.item][f]
    BY <1>t, <1>1, <1>2 DEF Carried
  <2>6. \A f \in Fields, j \in Items :
           j = underway'[r].item /\ underway'[r].saw[f] = offered[j][f] => offered[j][f].is = "none" \/ Current(j, f)'
    BY <1>t, <2>2, CatalogueTypes
  <2>7. u.item # Product => u.item \in allowance'
    BY <2>1
  <2>8. row["active"].at > 0 /\ (u.item = Product \/ Recorded(Product))
    BY <1>t, <1>2 DEF Found
  <2> HIDE DEF row
  <2>9. u.step \notin {"done", "failed"} /\ underway'[r].step # "graph"
    BY <1>2, <2>2
  <2> HIDE DEF u
  <2> QED
    BY <1>1, <1>2, <2>1, <2>2, <2>3, <2>4, <2>5, <2>6, <2>7, <2>8, <2>9, CopyKeeps DEF u
<1> QED
  BY <1>3, <1>4

LEMMA ChangeInGraphKeeps ==
  ASSUME CatalogueInv, NEW r \in CatalogueRequests, ChangeInGraph(r)
  PROVE  CatalogueInv'
<1> DEFINE u == underway[r]
           field == IF u.op = "update" THEN "name" ELSE "active"
           row == [copied[u.item] EXCEPT ![field] = u.saw[field]]
<1>t. CatalogueTypeOK /\ Editions /\ Holds(r) /\ Found(r) /\ Carried /\ ProductFirst /\ CreatedIsKept
  BY DEF CatalogueInv
<1>1. /\ u \in Requested /\ u.item \in Items /\ u.saw \in [Fields -> Values] /\ Plans = Items \ {Product}
      /\ field \in Fields /\ copied[u.item] \in [Fields -> Values]
  BY <1>t, CatalogueTypes DEF Requested
<1>2. /\ u.step = "graph" /\ u.op # "create" /\ Copy(u.item, row)
      /\ allowance' = IF u.op = "update" THEN allowance \cup ({u.item} \ {Product}) ELSE allowance
      /\ End(r, "done") /\ UNCHANGED <<offered, author, dashboards, catalogueFaults>>
  BY DEF ChangeInGraph, At
<1>3. Recorded(u.item)
  BY <1>t, <1>2 DEF Found
<1>4. row \in [Fields -> Values] /\ \A f \in Fields : row[f] = IF f = field THEN u.saw[f] ELSE copied[u.item][f]
  BY <1>1
<1>5. \A f \in Fields : Edition(row[f], u.item, f)
  BY <1>t, <1>1, <1>2, <1>4 DEF Holds, Editions
<1>6. row["active"].at > 0
  BY <1>t, <1>2, <1>3, <1>4 DEF Found, Recorded, Fields
<1>7. u.item = Product \/ Recorded(Product)
  BY <1>t, <1>1, <1>3 DEF ProductFirst
<1>8. /\ underway' \in [CatalogueRequests -> Requested]
      /\ \A s \in CatalogueRequests \ {r} : underway'[s] = underway[s]
      /\ underway'[r].step = "done" /\ underway'[r].saw = NotMade /\ Holds(r)' /\ Found(r)'
  BY <1>t, <1>2, EndingKeeps
<1>9. allowance \subseteq allowance' /\ allowance' \subseteq Plans
  BY <1>t, <1>1, <1>2 DEF CatalogueTypeOK
<1>10. \A f \in Fields : offered[u.item][f].by = r => row[f] = offered[u.item][f]
  BY <1>t, <1>1, <1>2, <1>4 DEF Carried
<1>11. author[u.item] # r
  BY <1>t, <1>1, <1>2 DEF CreatedIsKept
<1>12. \A f \in Fields, j \in Items :
         j = underway'[r].item /\ underway'[r].saw[f] = offered[j][f] => offered[j][f].is = "none" \/ Current(j, f)'
  BY <1>t, <1>8, CatalogueTypes
<1>13. u.step \notin {"done", "failed"} /\ underway'[r].step # "graph"
  BY <1>2, <1>8
<1> HIDE DEF row, field
<1> QED
  BY <1>1, <1>2, <1>4, <1>5, <1>6, <1>7, <1>8, <1>9, <1>10, <1>11, <1>12, <1>13, CopyKeeps

\* A synchronisation that has copied an item is over, or goes on with the price that waited.
LEMMA GoingOn ==
  ASSUME CatalogueTypeOK, Editions, NEW r \in CatalogueRequests, Holds(r), Found(r), GoOn(r), UNCHANGED offered,
         underway[r].step \in {"refresh", "insert"}, Recorded(Product)' \/ underway[r].item # Product
  PROVE  /\ underway' \in [CatalogueRequests -> Requested]
         /\ \A s \in CatalogueRequests \ {r} : underway'[s] = underway[s]
         /\ Holds(r)' /\ Found(r)' /\ underway'[r].step \in {"done", "insert"}
         /\ underway'[r].step = "done" => /\ underway'[r].item = underway[r].item
                                          /\ underway'[r].saw = underway[r].saw
<1> DEFINE u == underway[r]
<1>1. /\ u \in Requested /\ underway \in [CatalogueRequests -> Requested] /\ u.item \in Items /\ u.behind \in Items
      /\ u.kept \in [Fields -> Values] /\ NotMade \in [Fields -> Values] /\ Product \in Items
  BY CatalogueTypes DEF Requested
<1>2. u.op = "sync" /\ u.item \in {u.behind, Product} /\ (u.item # u.behind => u.kept["active"].at > 0)
  BY DEF Found, Synchronising
<1>3. CASE u.item = u.behind
  <2> DEFINE new == [u EXCEPT !.step = "done", !.kept = NotMade]
  <2>1. underway' = [underway EXCEPT ![r] = new]
    BY <1>1, <1>3 DEF GoOn
  <2>2. /\ new \in Requested /\ new.step = "done" /\ new.item = u.item /\ new.behind = u.behind
        /\ new.saw = u.saw /\ new.kept = NotMade
    BY <1>1 DEF Requested, Steps
  <2> HIDE DEF new
  <2>3. /\ underway' \in [CatalogueRequests -> Requested] /\ underway'[r] = new
        /\ \A s \in CatalogueRequests \ {r} : underway'[s] = underway[s]
    BY <1>1, <2>1, <2>2
  <2>4. Holds(r)'
    BY <1>1, <2>2, <2>3 DEF Holds, Editions, Edition
  <2>5. Found(r)'
    BY <2>2, <2>3 DEF Found, Synchronising
  <2> QED
    BY <2>2, <2>3, <2>4, <2>5
<1>4. CASE u.item # u.behind
  <2> DEFINE new == [u EXCEPT !.step = "insert", !.item = u.behind, !.saw = u.kept]
  <2>1. underway' = [underway EXCEPT ![r] = new]
    BY <1>1, <1>4 DEF GoOn
  <2>2. /\ new \in Requested /\ new.step = "insert" /\ new.item = u.behind /\ new.behind = u.behind
        /\ new.saw = u.kept /\ new.kept = u.kept /\ new.op = u.op
    BY <1>1 DEF Requested, Steps
  <2> HIDE DEF new
  <2>3. /\ underway' \in [CatalogueRequests -> Requested] /\ underway'[r] = new
        /\ \A s \in CatalogueRequests \ {r} : underway'[s] = underway[s]
    BY <1>1, <2>1, <2>2
  <2>4. Holds(r)'
    BY <1>1, <2>2, <2>3 DEF Holds, Edition
  <2>5. Found(r)'
    BY <1>2, <1>4, <2>2, <2>3 DEF Found, Synchronising
  <2> QED
    BY <2>2, <2>3, <2>4, <2>5
<1> QED
  BY <1>3, <1>4

LEMMA RefreshKeeps ==
  ASSUME CatalogueInv, NEW r \in CatalogueRequests, Refresh(r)
  PROVE  CatalogueInv'
<1> DEFINE u == underway[r]
           row == IF u.saw["name"].is = "none" THEN [u.saw EXCEPT !["name"] = copied[u.item]["name"]] ELSE u.saw
<1>t. CatalogueTypeOK /\ Editions /\ Holds(r) /\ Found(r) /\ ProductFirst
  BY DEF CatalogueInv
<1>1. /\ u \in Requested /\ u.item \in Items /\ u.saw \in [Fields -> Values] /\ Plans = Items \ {Product}
      /\ "name" \in Fields /\ copied[u.item] \in [Fields -> Values]
  BY <1>t, CatalogueTypes DEF Requested
<1>2. /\ u.step = "refresh" /\ Copy(u.item, row) /\ GoOn(r)
      /\ UNCHANGED <<offered, allowance, author, dashboards, catalogueFaults>>
  BY DEF Refresh, At
<1>3. Recorded(u.item) /\ u.saw["active"].at > 0
  BY <1>t, <1>2 DEF Found
<1>4. /\ row \in [Fields -> Values]
      /\ \A f \in Fields : row[f] = u.saw[f] \/ (f = "name" /\ u.saw[f].is = "none" /\ row[f] = copied[u.item][f])
  BY <1>1
<1>5. \A f \in Fields : Edition(row[f], u.item, f)
  BY <1>t, <1>1, <1>2, <1>4 DEF Holds, Editions
<1>6. row["active"].at > 0
  BY <1>3, <1>4 DEF Fields
<1>7. u.item = Product \/ Recorded(Product)
  BY <1>t, <1>1, <1>3 DEF ProductFirst
<1> HIDE DEF row
<1>8. \A i \in Items : i = u.item =>
        Recorded(i)' /\ \A f \in Fields : row[f] = offered[i][f] => Current(i, f)'
  BY <1>t, <1>1, <1>2, <1>4, <1>5, <1>6, Copying
<1>9. /\ underway' \in [CatalogueRequests -> Requested]
      /\ \A s \in CatalogueRequests \ {r} : underway'[s] = underway[s]
      /\ Holds(r)' /\ Found(r)' /\ underway'[r].step \in {"done", "insert"}
      /\ underway'[r].step = "done" => /\ underway'[r].item = u.item /\ underway'[r].saw = u.saw
  <2>1. Recorded(Product)' \/ u.item # Product
    BY <1>1, <1>8
  <2> QED
    BY <1>t, <1>2, <2>1, GoingOn
<1>10. underway'[r].step = "done" => \A f \in Fields, j \in Items :
         j = underway'[r].item /\ underway'[r].saw[f] = offered[j][f] => offered[j][f].is = "none" \/ Current(j, f)'
  BY <1>4, <1>8, <1>9
<1>11. allowance \subseteq allowance' /\ allowance' \subseteq Plans
  BY <1>t, <1>2 DEF CatalogueTypeOK
<1>12. u.step \notin {"done", "failed", "graph"} /\ underway'[r].step # "graph"
  BY <1>2, <1>9
<1> QED
  BY <1>1, <1>2, <1>4, <1>5, <1>6, <1>7, <1>9, <1>10, <1>11, <1>12, CopyKeeps

LEMMA InsertKeeps ==
  ASSUME CatalogueInv, NEW r \in CatalogueRequests, Insert(r)
  PROVE  CatalogueInv'
<1> DEFINE u == underway[r]
           row == u.saw
<1>t. CatalogueTypeOK /\ Editions /\ Holds(r) /\ Found(r)
  BY DEF CatalogueInv
<1>1. /\ u \in Requested /\ u.item \in Items /\ row \in [Fields -> Values] /\ Product \in Items
  BY <1>t, CatalogueTypes DEF Requested
<1>2. /\ u.step = "insert" /\ UNCHANGED <<offered, allowance, author, dashboards, catalogueFaults>>
      /\ IF Recorded(u.item) THEN End(r, "failed") /\ UNCHANGED <<copied, outrun>>
         ELSE Copy(u.item, row) /\ GoOn(r)
  BY DEF Insert, At
<1>3. CASE Recorded(u.item)
  <2> DEFINE v == [NotAsked EXCEPT !.step = "failed"]
  <2>1. v \in Requested /\ underway' = [underway EXCEPT ![r] = v] /\ Holds(r)' /\ Found(r)'
    BY <1>t, <1>2, <1>3, EndingKeeps
  <2>2. catalogueFaults' \in 0..MaxCatalogueFaults /\ catalogueFaults <= catalogueFaults'
    BY <1>t, <1>2, CatalogueAssumption DEF CatalogueTypeOK
  <2>3. v.step = "failed"
    BY DEF NotAsked
  <2> HIDE DEF v
  <2> QED
    BY <1>2, <1>3, <2>1, <2>2, <2>3, QuietlyKeeps
<1>4. CASE ~Recorded(u.item)
  <2>1. Copy(u.item, row) /\ GoOn(r)
    BY <1>2, <1>4
  <2>2. /\ \A f \in Fields : Edition(row[f], u.item, f)
        /\ row["active"].at > 0 /\ (u.item = Product \/ Recorded(Product))
    BY <1>t, <1>2 DEF Holds, Found
  <2>3. \A i \in Items : i = u.item =>
          Recorded(i)' /\ \A f \in Fields : row[f] = offered[i][f] => Current(i, f)'
    BY <1>t, <1>1, <1>2, <2>1, <2>2, Copying
  <2>4. /\ underway' \in [CatalogueRequests -> Requested]
        /\ \A s \in CatalogueRequests \ {r} : underway'[s] = underway[s]
        /\ Holds(r)' /\ Found(r)' /\ underway'[r].step \in {"done", "insert"}
        /\ underway'[r].step = "done" => /\ underway'[r].item = u.item /\ underway'[r].saw = row
    <3>1. Recorded(Product)' \/ u.item # Product
      BY <1>1, <2>3
    <3> QED
      BY <1>t, <1>2, <2>1, <3>1, GoingOn
  <2>5. underway'[r].step = "done" => \A f \in Fields, j \in Items :
           j = underway'[r].item /\ underway'[r].saw[f] = offered[j][f] => offered[j][f].is = "none" \/ Current(j, f)'
    BY <2>3, <2>4
  <2>6. allowance \subseteq allowance' /\ allowance' \subseteq Plans
    BY <1>t, <1>2 DEF CatalogueTypeOK
  <2>7. u.step \notin {"done", "failed", "graph"} /\ underway'[r].step # "graph"
    BY <1>2, <2>4
  <2> HIDE DEF row
  <2> QED
    BY <1>1, <1>2, <2>1, <2>2, <2>4, <2>5, <2>6, <2>7, CopyKeeps
<1> QED
  BY <1>3, <1>4

LEMMA CatalogueBegins ==
  CatalogueInit => CatalogueInv
<1> SUFFICES ASSUME CatalogueInit PROVE CatalogueInv
  OBVIOUS
<1>1. PICK earlier \in {{}, {Product}, Items} :
        /\ offered = [i \in Items |-> IF i \in earlier THEN Original ELSE NotMade]
        /\ allowance = earlier \cap Plans
  BY DEF CatalogueInit
<1>2. /\ copied = offered /\ underway = [r \in CatalogueRequests |-> NotAsked]
      /\ author = [i \in Items |-> Dashboard] /\ outrun = {} /\ dashboards = 0 /\ catalogueFaults = 0
  BY DEF CatalogueInit
<1>3. /\ NotMade \in [Fields -> Values] /\ Original \in [Fields -> Values] /\ Dashboard \in Authors
      /\ \A f \in Fields : /\ NotMade[f].at = 0 /\ NotMade[f].by = Dashboard /\ NotMade[f].is = "none"
                           /\ Original[f].at = 1 /\ Original[f].by = Dashboard
  BY DEF NotMade, Original, Values, Authors
<1>4. 0 \in 0..MaxDashboard /\ 0 \in 0..MaxCatalogueFaults /\ Product \in Items /\ Product \notin Plans
  BY CatalogueAssumption DEF Items
<1>5. NotAsked \in Requested
  BY <1>3, <1>4 DEF NotAsked, Requested, Steps, CatalogueOperations
<1>6. CatalogueTypeOK
  BY <1>1, <1>2, <1>3, <1>4, <1>5 DEF CatalogueTypeOK, Requested
<1>7. \A i \in Items, f \in Fields : /\ offered[i][f] \in {NotMade[f], Original[f]} /\ copied[i][f] = offered[i][f]
                                     /\ offered[i][f].by = Dashboard
  BY <1>1, <1>2, <1>3
<1>8. Editions
  BY <1>3, <1>7 DEF Editions, Edition
<1>9. \A r \in CatalogueRequests : Holds(r) /\ Found(r)
  BY <1>2, <1>4, <1>8 DEF NotAsked, Holds, Found, Editions, Synchronising
<1>10. ProductFirst
  <2>1. \A p \in Plans : p \in earlier => Product \in earlier
    BY <1>4
  <2>2. \A i \in Items : (Made(i) <=> i \in earlier) /\ (Recorded(i) <=> i \in earlier)
    BY <1>1, <1>2, <1>3 DEF Made, Recorded, Fields
  <2> QED
    BY <1>4, <2>1, <2>2 DEF ProductFirst, Items
<1>11. Carried /\ CreatedIsKept /\ SyncHeals
  <2>1. \A r \in CatalogueRequests : r # Dashboard
    BY CatalogueAssumption
  <2> QED
    BY <1>2, <1>7, <2>1 DEF Carried, CreatedIsKept, SyncHeals, At, NotAsked
<1> QED
  BY <1>6, <1>8, <1>9, <1>10, <1>11 DEF CatalogueInv

LEMMA CatalogueGoesOn ==
  CatalogueInv /\ [CatalogueNext]_catalogueVars => CatalogueInv'
<1> SUFFICES ASSUME CatalogueInv, [CatalogueNext]_catalogueVars PROVE CatalogueInv'
  OBVIOUS
<1>1. CASE UNCHANGED catalogueVars
  <2> USE <1>1 DEF catalogueVars
  <2>1. CatalogueTypeOK' /\ Editions' /\ ProductFirst'
    BY DEF CatalogueInv, CatalogueTypeOK, Editions, Edition, ProductFirst, Made, Recorded
  <2>2. \A r \in CatalogueRequests : Holds(r)' /\ Found(r)'
    BY DEF CatalogueInv, Holds, Found, Edition, Made, Recorded
  <2>3. Carried' /\ CreatedIsKept' /\ SyncHeals'
    BY DEF CatalogueInv, Carried, CreatedIsKept, SyncHeals, Current, Recorded, At
  <2> QED
    BY <2>1, <2>2, <2>3 DEF CatalogueInv
<1>2. ASSUME NEW r \in CatalogueRequests, AdminStep(r) PROVE CatalogueInv'
  BY <1>2, AskKeeps, CreateInStripeKeeps, ChangeInStripeKeeps, CreateInGraphKeeps, ChangeInGraphKeeps DEF AdminStep
<1>3. ASSUME NEW r \in CatalogueRequests, SyncStep(r) PROVE CatalogueInv'
  BY <1>3, CallSyncKeeps, RetrieveKeeps, FindCopyKeeps, RefreshKeeps, InsertKeeps DEF SyncStep
<1> QED
  BY <1>1, <1>2, <1>3, CatalogueRequestFailsKeeps, WorkInStripeKeeps DEF CatalogueNext

\* Whoever changes products and prices, in Stripe or through requests and synchronisations
\* that overlap and fail halfway: a copied field is Stripe's unless its last change was made
\* in Stripe or failed, or an older edition was written over it; a synchronisation heals;
\* a price is copied after its product and says what it gives.
THEOREM CatalogueKept == CatalogueSpec => []CatalogueSound
<1>1. CatalogueInv => CatalogueSound
  <2> SUFFICES ASSUME CatalogueInv PROVE CatalogueSound
    OBVIOUS
  <2>1. CatalogueTypeOK /\ Editions /\ ProductFirst /\ Carried /\ CreatedIsKept /\ SyncHeals
    BY DEF CatalogueInv
  <2>2. CopyFollows
    <3> SUFFICES ASSUME NEW i \in Items, NEW f \in Fields
                 PROVE  IF copied[i][f].at = offered[i][f].at THEN copied[i][f] = offered[i][f]
                        ELSE ~Answered(offered[i][f].by) \/ <<i, f>> \in outrun
      BY DEF CopyFollows
    <3> QED
      BY <2>1 DEF Editions, Edition, Carried, Current, Answered, At
  <2>3. CopiesComplete
    <3>1. ASSUME NEW p \in Plans PROVE Recorded(p) => Made(p) /\ Recorded(Product)
      BY <2>1, RecordedIsMade DEF ProductFirst, Items
    <3>2. ASSUME NEW p \in Plans, Answered(author[p]) PROVE p \in allowance
      BY <2>1, <3>2, CatalogueAssumption DEF CreatedIsKept, Answered, At, Items
    <3>3. ASSUME catalogueFaults = 0, \A r \in CatalogueRequests : Closed(r), NEW i \in Items, author[i] # Dashboard
          PROVE  Recorded(i)
      <4>1. author[i] \in CatalogueRequests
        BY <2>1, <3>3, CatalogueTypes DEF Authors
      <4> QED
        BY <2>1, <3>3, <4>1 DEF CreatedIsKept, Closed, Changed
    <3> QED
      BY <3>1, <3>2, <3>3 DEF CopiesComplete
  <2> QED
    BY <2>1, <2>2, <2>3 DEF CatalogueSound
<1> QED
  BY CatalogueBegins, CatalogueGoesOn, <1>1, PTL DEF CatalogueSpec

-----------------------------------------------------------------------------
(* Permissions.  What a process has read and may leave as it is, is what    *)
(* its matrix wants, unless a process with another matrix has written since *)
(* (Unchanged, Unseen): the two reads and the write act like one step.      *)

Tokens == Paths \cup {"all"}

\* Every set of natural numbers that is not empty has a least one.
LEMMA LeastNatural ==
  ASSUME NEW S, S \subseteq Nat, S # {}
  PROVE  Min(S) \in S /\ \A n \in S : Min(S) <= n
<1> DEFINE R == {ss \in Nat \X Nat : ss[1] < ss[2]}
<1>1. IsWellFoundedOn(R, Nat)
  BY NatLessThanWellFounded DEF OpToRel
<1>2. \A x, y \in Nat : (<<y, x>> \in R <=> y < x)
  OBVIOUS
<1> HIDE DEF R
<1>3. PICK x \in S : \A y \in S : ~ (<<y, x>> \in R)
  BY <1>1, WFMin
<1>4. \A y \in S : x <= y
  <2> SUFFICES ASSUME NEW y \in S PROVE x <= y
    OBVIOUS
  <2>1. x \in Nat /\ y \in Nat
    OBVIOUS
  <2>2. ~(y < x)
    BY <1>2, <1>3, <2>1
  <2> QED
    BY <2>1, <2>2
<1> QED
  BY <1>4 DEF Min

LEMMA TokensDecide ==
  ASSUME NEW tokens \in Seq(Stored \cup {Unset})
  PROVE  /\ (\E i \in 1..Len(tokens) : tokens[i] = "all") => ToPermissions(tokens) = "all"
         /\ (\A i \in 1..Len(tokens) : tokens[i] \notin Tokens) => ToPermissions(tokens) = "none"
         /\ (\A i \in 1..Len(tokens) : tokens[i] # "all") /\ (\E i \in 1..Len(tokens) : tokens[i] \in Paths) =>
              \E i \in 1..Len(tokens) : tokens[i] \in Paths /\ ToPermissions(tokens) = tokens[i]
         /\ ToPermissions(tokens) \in Stored
<1> DEFINE paths == {i \in DOMAIN tokens : tokens[i] \in Paths}
<1>1. /\ DOMAIN tokens = 1..Len(tokens) /\ Len(tokens) \in Nat
      /\ Contains(tokens, "all") <=> \E i \in 1..Len(tokens) : tokens[i] = "all"
  BY DEF Contains
<1>2. ToPermissions(tokens) = IF Contains(tokens, "all") THEN "all"
                              ELSE IF paths # {} THEN tokens[Min(paths)] ELSE "none"
  BY DEF ToPermissions
<1>3. ASSUME paths # {} PROVE Min(paths) \in paths
  <2>1. paths \subseteq Nat
    BY <1>1
  <2> HIDE DEF paths
  <2> QED
    BY <1>3, <2>1, LeastNatural
<1>4. CASE Contains(tokens, "all")
  BY <1>1, <1>2, <1>4 DEF Tokens, Stored
<1>5. CASE ~Contains(tokens, "all") /\ paths = {}
  <2>1. ToPermissions(tokens) = "none"
    BY <1>2, <1>5
  <2>2. \A i \in 1..Len(tokens) : tokens[i] \notin Paths /\ tokens[i] # "all"
    BY <1>1, <1>5
  <2> QED
    BY <2>1, <2>2 DEF Stored
<1>6. CASE ~Contains(tokens, "all") /\ paths # {}
  <2>1. Min(paths) \in 1..Len(tokens) /\ tokens[Min(paths)] \in Paths
    BY <1>1, <1>3, <1>6
  <2>2. ToPermissions(tokens) = tokens[Min(paths)]
    BY <1>2, <1>6
  <2>3. \A i \in 1..Len(tokens) : tokens[i] # "all"
    BY <1>1, <1>6
  <2> HIDE DEF paths
  <2>4. ToPermissions(tokens) \in Paths /\ \E i \in 1..Len(tokens) : tokens[i] \in Paths /\ ToPermissions(tokens) = tokens[i]
    BY <2>1, <2>2
  <2> QED
    BY <2>3, <2>4 DEF Tokens, Stored
<1> QED
  BY <1>4, <1>5, <1>6

LEMMA OneAndOne ==
  ASSUME NEW S, NEW a \in S, NEW b \in S
  PROVE  <<a>> \o <<b>> = <<a, b>>
<1> DEFINE x == <<a>>
           y == <<b>>
<1>1. x \in Seq(S) /\ y \in Seq(S) /\ Len(x) = 1 /\ Len(y) = 1 /\ x[1] = a /\ y[1] = b
  OBVIOUS
<1>2. <<a, b>> \in Seq(S) /\ Len(<<a, b>>) = 2 /\ <<a, b>>[1] = a /\ <<a, b>>[2] = b
  OBVIOUS
<1> HIDE DEF x, y
<1>3. x \o y \in Seq(S) /\ Len(x \o y) = 2 /\ (x \o y)[1] = a /\ (x \o y)[2] = b
  <2>1. /\ x \o y \in Seq(S) /\ Len(x \o y) = Len(x) + Len(y)
        /\ \A i \in 1..(Len(x) + Len(y)) : (x \o y)[i] = IF i <= Len(x) THEN x[i] ELSE y[i - Len(x)]
    BY <1>1, ConcatProperties
  <2>2. Len(x \o y) = 2 /\ 1 \in 1..(1 + 1) /\ 2 \in 1..(1 + 1)
    BY <1>1, <2>1
  <2>3. \A i \in 1..(1 + 1) : (x \o y)[i] = IF i <= 1 THEN x[i] ELSE y[i - 1]
    BY <1>1, <2>1
  <2>4. (x \o y)[1] = x[1]
    BY <2>2, <2>3
  <2>5. (x \o y)[2] = y[2 - 1]
    BY <2>2, <2>3
  <2> QED
    BY <1>1, <2>1, <2>2, <2>4, <2>5
<1>4. \A i \in 1..2 : (x \o y)[i] = <<a, b>>[i]
  BY <1>2, <1>3
<1>5. x \o y = <<a, b>>
  BY <1>2, <1>3, <1>4, SeqEqual
<1> QED
  BY <1>5 DEF x, y

LEMMA SeqOfFew ==
  /\ SetToSeq({}) = <<>>
  /\ \A x : SetToSeq({x}) = <<x>>
<1>1. SetToSeq({}) = <<>>
  <2>1. Cardinality({}) = 0
    BY FS_EmptySet
  <2>2. <<>> \in [1..0 -> {}]
    OBVIOUS
  <2>4. ASSUME NEW f \in [1..0 -> {}] PROVE f = <<>>
    <3>1. 1..0 = {}
      OBVIOUS
    <3> QED
      BY <3>1
  <2>3. IsInjective(<<>>)
    BY DEF IsInjective
  <2> QED
    BY <2>1, <2>2, <2>3, <2>4 DEF SetToSeq
<1>2. ASSUME NEW x PROVE SetToSeq({x}) = <<x>>
  <2>1. Cardinality({x}) = 1
    BY FS_Singleton
  <2>2. \A f : f \in [1..1 -> {x}] => f = <<x>>
    OBVIOUS
  <2>3. <<x>> \in [1..1 -> {x}] /\ IsInjective(<<x>>)
    BY DEF IsInjective
  <2> QED
    BY <2>1, <2>2, <2>3 DEF SetToSeq
<1> QED
  BY <1>1, <1>2

\* The tokens of a matrix.
LEMMA BlocksTyped ==
  ASSUME NEW b \in Blocks
  PROVE  /\ b.default \in Seq(Tokens)
         /\ \A r \in DOMAIN b.of : r \in Roles /\ b.of[r] \in Seq(Tokens)
         /\ b = Undeclared => DOMAIN b.of = {}
<1>1. <<>> \in Seq(Tokens) /\ <<"owner">> \in Seq(Tokens) /\ <<"team">> \in Seq(Tokens) /\ <<"all">> \in Seq(Tokens)
  BY DEF Tokens, Paths
<1>2. Administrator \in Roles /\ DOMAIN <<>> = {}
  BY DEF Roles
<1>3. CASE b = [default |-> <<>>, of |-> [r \in Roles |-> <<"all">>]]
  BY <1>1, <1>2, <1>3 DEF Undeclared
<1>4. CASE b = [default |-> <<"owner">>, of |-> [r \in Roles |-> <<"team">>]]
  BY <1>1, <1>2, <1>4 DEF Undeclared
<1>5. CASE b = [default |-> <<"all">>, of |-> [r \in {Administrator} |-> <<"all">>]]
  BY <1>1, <1>2, <1>5 DEF Undeclared
<1>6. CASE b = Undeclared
  BY <1>1, <1>2, <1>6 DEF Undeclared
<1> QED
  BY <1>3, <1>4, <1>5, <1>6 DEF Blocks

LEMMA StringsOfTokens ==
  ASSUME NEW D \in Seq(Tokens), NEW O \in Seq(Tokens)
  PROVE  /\ D \in Seq(Stored \cup {Unset}) /\ D \o O \in Seq(Stored \cup {Unset})
         /\ Len(D) \in Nat /\ Len(O) \in Nat /\ Len(D \o O) = Len(D) + Len(O)
         /\ \A i \in 1..Len(D) : (D \o O)[i] = D[i] /\ D[i] \in Tokens
         /\ \A i \in 1..Len(O) : (D \o O)[Len(D) + i] = O[i] /\ O[i] \in Tokens
         /\ \A i \in 1..Len(D \o O) : \/ i \in 1..Len(D)
                                      \/ i - Len(D) \in 1..Len(O) /\ (D \o O)[i] = O[i - Len(D)]
<1>1. Tokens \subseteq Stored \cup {Unset}
  BY DEF Tokens, Stored
<1> HIDE DEF Tokens
<1>2. D \o O \in Seq(Tokens) /\ Len(D) \in Nat /\ Len(O) \in Nat /\ Len(D \o O) = Len(D) + Len(O)
  OBVIOUS
<1>3. D \in Seq(Stored \cup {Unset}) /\ D \o O \in Seq(Stored \cup {Unset})
  BY <1>1, <1>2
<1> QED
  BY <1>2, <1>3

LEMMA WantedTyped ==
  ASSUME NEW matrix \in Matrices, NEW m \in Modules, NEW r \in Roles
  PROVE  ResolveDefault(matrix, m) \in Stored /\ Wanted(matrix, r, m) \in Stored \cup {Unset}
<1>1. matrix[m] \in Blocks
  BY DEF Matrices
<1>2. matrix[m].default \in Seq(Tokens) /\ \A q \in DOMAIN matrix[m].of : matrix[m].of[q] \in Seq(Tokens)
  BY <1>1, BlocksTyped
<1>3. ResolveDefault(matrix, m) \in Stored
  BY <1>2, StringsOfTokens, TokensDecide DEF ResolveDefault
<1>4. CASE Names(matrix, r, m)
  <2>1. matrix[m].default \o matrix[m].of[r] \in Seq(Stored \cup {Unset})
    BY <1>2, <1>4, StringsOfTokens DEF Names
  <2> QED
    BY <1>3, <1>4, <2>1, TokensDecide DEF Wanted, ResolveForRole
<1> QED
  BY <1>3, <1>4 DEF Wanted

\* What the tokens of a default and of a role come to.
Says(D, O, may) ==
  LET tokens == {D[i] : i \in DOMAIN D} \cup {O[i] : i \in DOMAIN O}
  IN IF "all" \in tokens THEN may = "all"
     ELSE IF tokens = {} THEN may = "none" ELSE may \in tokens

\* What a member's default and its own permission, if it has one, come to.
LEMMA WhatIsSaid ==
  ASSUME NEW D \in Seq(Tokens), NEW O \in Seq(Tokens), NEW named \in BOOLEAN, ~named => O = <<>>,
         NEW d, d = ToPermissions(D), NEW e, e = IF named THEN ToPermissions(D \o O) ELSE Unset,
         NEW may, may = ToPermissions(<<d>> \o SetToSeq({e} \ {Unset}))
  PROVE  Says(D, O, may)
<1> DEFINE tokens == {D[i] : i \in DOMAIN D} \cup {O[i] : i \in DOMAIN O}
<1>1. /\ D \in Seq(Stored \cup {Unset}) /\ D \o O \in Seq(Stored \cup {Unset})
      /\ Len(D) \in Nat /\ Len(O) \in Nat /\ Len(D \o O) = Len(D) + Len(O)
      /\ \A i \in 1..Len(D) : (D \o O)[i] = D[i] /\ D[i] \in Tokens
      /\ \A i \in 1..Len(O) : (D \o O)[Len(D) + i] = O[i] /\ O[i] \in Tokens
      /\ \A i \in 1..Len(D \o O) : \/ i \in 1..Len(D)
                                   \/ i - Len(D) \in 1..Len(O) /\ (D \o O)[i] = O[i - Len(D)]
  BY StringsOfTokens
<1>2. /\ tokens \subseteq Tokens
      /\ \A i \in 1..Len(D \o O) : (D \o O)[i] \in tokens
      /\ \A i \in 1..Len(D) : D[i] \in tokens
      /\ "all" \in tokens => (\E i \in 1..Len(D) : D[i] = "all") \/ (named /\ \E i \in 1..Len(D \o O) : (D \o O)[i] = "all")
      /\ tokens = {} => D = <<>> /\ O = <<>>
      /\ tokens # {} => Len(D) # 0 \/ (named /\ Len(D \o O) # 0)
  <2>1. DOMAIN D = 1..Len(D) /\ DOMAIN O = 1..Len(O)
    OBVIOUS
  <2>2. tokens \subseteq Tokens
    BY <1>1, <2>1
  <2>3. \A i \in 1..Len(D) : D[i] \in tokens
    BY <2>1
  <2>4. \A i \in 1..Len(O) : O[i] \in tokens
    BY <2>1
  <2>5. \A i \in 1..Len(D \o O) : (D \o O)[i] \in tokens
    BY <1>1, <2>3, <2>4
  <2>6. "all" \in tokens => (\E i \in 1..Len(D) : D[i] = "all") \/ (named /\ \E i \in 1..Len(D \o O) : (D \o O)[i] = "all")
    <3> SUFFICES ASSUME "all" \in tokens, ~(\E i \in 1..Len(D) : D[i] = "all")
                 PROVE  named /\ \E i \in 1..Len(D \o O) : (D \o O)[i] = "all"
      OBVIOUS
    <3>1. PICK i \in 1..Len(O) : O[i] = "all"
      BY <2>1
    <3>2. named
      BY <3>1
    <3>3. Len(D) + i \in 1..Len(D \o O)
      BY <1>1
    <3> QED
      BY <1>1, <3>1, <3>2, <3>3
  <2>7. tokens = {} => D = <<>> /\ O = <<>>
    <3> SUFFICES ASSUME tokens = {} PROVE D = <<>> /\ O = <<>>
      OBVIOUS
    <3>1. Len(D) # 0 => 1 \in 1..Len(D)
      BY <1>1
    <3>2. Len(O) # 0 => 1 \in 1..Len(O)
      BY <1>1
    <3>3. Len(D) = 0 /\ Len(O) = 0
      BY <2>3, <2>4, <3>1, <3>2
    <3> QED
      BY <3>3
  <2>8. tokens # {} => Len(D) # 0 \/ (named /\ Len(D \o O) # 0)
    <3> SUFFICES ASSUME tokens # {}, Len(D) = 0 PROVE named /\ Len(D \o O) # 0
      OBVIOUS
    <3>1. Len(O) # 0
      BY <2>1
    <3> QED
      BY <1>1, <3>1
  <2> QED
    BY <2>2, <2>3, <2>5, <2>6, <2>7, <2>8
<1> HIDE DEF tokens, Says
<1>3. d \in Stored /\ e \in Stored \cup {Unset} /\ Unset \notin Stored
  BY <1>1, TokensDecide DEF Unset, Stored, Paths
<1>4. <<d>> \o SetToSeq({e} \ {Unset}) = IF e = Unset THEN <<d>> ELSE <<d, e>>
  <2>1. CASE e = Unset
    <3>1. {e} \ {Unset} = {}
      BY <2>1
    <3>2. SetToSeq({e} \ {Unset}) = <<>>
      BY <3>1, SeqOfFew
    <3>3. <<d>> \o <<>> = <<d>>
      OBVIOUS
    <3> QED
      BY <2>1, <3>2, <3>3
  <2>2. CASE e # Unset
    <3>1. {e} \ {Unset} = {e}
      BY <2>2
    <3>2. SetToSeq({e} \ {Unset}) = <<e>>
      BY <3>1, SeqOfFew
    <3>3. <<d>> \o <<e>> = <<d, e>>
      BY <1>3, OneAndOne
    <3> QED
      BY <2>2, <3>2, <3>3
  <2> QED
    BY <2>1, <2>2
<1>5. /\ <<d>> \in Seq(Stored \cup {Unset}) /\ Len(<<d>>) = 1 /\ <<d>>[1] = d
      /\ <<d, e>> \in Seq(Stored \cup {Unset}) /\ Len(<<d, e>>) = 2 /\ <<d, e>>[1] = d /\ <<d, e>>[2] = e
      /\ \A i : i \in 1..1 <=> i = 1
      /\ \A i : i \in 1..2 <=> i = 1 \/ i = 2
  BY <1>3
<1>9. /\ d = "all" \/ (e # Unset /\ e = "all") => may = "all"
      /\ d \notin Tokens /\ (e = Unset \/ e \notin Tokens) => may = "none"
      /\ d # "all" /\ (e = Unset \/ e # "all") =>
           /\ d \in Paths /\ (e = Unset \/ e \notin Paths) => may = d
           /\ d \in Paths /\ e # Unset => may \in {d, e} \cap Paths
           /\ d \notin Paths /\ e # Unset /\ e \in Paths => may = e
  <2>1. CASE e = Unset
    <3>1. /\ <<d>>[1] = "all" => ToPermissions(<<d>>) = "all"
          /\ <<d>>[1] \notin Tokens => ToPermissions(<<d>>) = "none"
          /\ <<d>>[1] # "all" /\ <<d>>[1] \in Paths => ToPermissions(<<d>>) = <<d>>[1]
      BY <1>5, TokensDecide
    <3>2. may = ToPermissions(<<d>>)
      BY <1>4, <2>1
    <3> QED
      BY <1>5, <2>1, <3>1, <3>2
  <2>2. CASE e # Unset
    <3> DEFINE two == <<d, e>>
    <3>1. two \in Seq(Stored \cup {Unset}) /\ Len(two) = 2 /\ two[1] = d /\ two[2] = e
      BY <1>5
    <3> HIDE DEF two
    <3>2. 1..Len(two) = {1, 2}
      BY <3>1
    <3>3. /\ two[1] = "all" \/ two[2] = "all" => ToPermissions(two) = "all"
          /\ two[1] \notin Tokens /\ two[2] \notin Tokens => ToPermissions(two) = "none"
          /\ two[1] # "all" /\ two[2] # "all" /\ (two[1] \in Paths \/ two[2] \in Paths) =>
               \/ two[1] \in Paths /\ ToPermissions(two) = two[1]
               \/ two[2] \in Paths /\ ToPermissions(two) = two[2]
      BY <3>1, <3>2, TokensDecide
    <3>4. may = ToPermissions(two)
      BY <1>4, <2>2 DEF two
    <3> QED
      BY <2>2, <3>1, <3>3, <3>4
  <2> QED
    BY <2>1, <2>2
<1>6. CASE "all" \in tokens
  <2>1. d = "all" \/ (named /\ e = "all")
    BY <1>1, <1>2, <1>6, TokensDecide
  <2> QED
    BY <1>6, <1>9, <2>1 DEF Unset, tokens, Says
<1>7. CASE tokens = {}
  <2>1. D = <<>> /\ D \o O = <<>> /\ Len(D) = 0 /\ Len(D \o O) = 0
    BY <1>1, <1>2, <1>7
  <2>2. \A i : i \notin 1..0
    OBVIOUS
  <2>3. d = "none" /\ e \in {"none", Unset}
    BY <1>1, <2>1, <2>2, TokensDecide
  <2>4. "none" \notin Tokens /\ Unset \notin Tokens
    BY DEF Tokens, Paths, Unset
  <2>5. may = "none"
    BY <1>9, <2>3, <2>4
  <2> QED
    BY <1>7, <2>5 DEF tokens, Says
<1>8. CASE "all" \notin tokens /\ tokens # {}
  <2>1. tokens \subseteq Paths
    BY <1>2, <1>8 DEF Tokens
  <2>2. Len(D) # 0 => d \in tokens
    <3>1. \A i \in 1..Len(D) : D[i] # "all" /\ D[i] \in Paths
      BY <1>2, <1>8, <2>1
    <3>2. Len(D) # 0 => 1 \in 1..Len(D)
      BY <1>1
    <3> QED
      BY <1>1, <1>2, <3>1, <3>2, TokensDecide
  <2>3. Len(D) = 0 => d = "none"
    <3>1. Len(D) = 0 => \A i \in 1..Len(D) : D[i] \notin Tokens
      OBVIOUS
    <3> QED
      BY <1>1, <3>1, TokensDecide
  <2>4. named /\ Len(D \o O) # 0 => e \in tokens
    <3>1. \A i \in 1..Len(D \o O) : (D \o O)[i] # "all" /\ (D \o O)[i] \in Paths
      BY <1>2, <1>8, <2>1
    <3>2. Len(D \o O) # 0 => 1 \in 1..Len(D \o O)
      BY <1>1
    <3> QED
      BY <1>1, <1>2, <3>1, <3>2, TokensDecide
  <2>5. \/ d \in tokens /\ (e = Unset \/ e \in tokens)
        \/ d = "none" /\ e \in tokens
    BY <1>1, <1>2, <1>8, <2>2, <2>3, <2>4
  <2>6. "none" \notin Paths /\ "all" \notin Paths /\ Unset \notin Paths /\ "none" # "all"
    BY DEF Paths, Unset
  <2>7. CASE e = Unset
    <3>1. d \in tokens
      BY <2>1, <2>5, <2>6, <2>7
    <3>2. d \in Paths /\ d # "all"
      BY <2>1, <2>6, <3>1
    <3>3. may = d
      BY <1>9, <2>7, <3>2
    <3> QED
      BY <1>8, <3>1, <3>3 DEF tokens, Says
  <2>8. CASE e # Unset
    <3>1. e \in tokens /\ e \in Paths /\ e # "all" /\ d # "all" /\ (d = "none" \/ d \in tokens)
      BY <2>1, <2>5, <2>6, <2>8
    <3>2. may \in Paths /\ (may = d \/ may = e)
      BY <1>9, <2>8, <3>1
    <3>3. may \in tokens
      BY <2>6, <3>1, <3>2
    <3> QED
      BY <1>8, <3>3 DEF tokens, Says
  <2> QED
    BY <2>7, <2>8
<1> QED
  BY <1>6, <1>7, <1>8

\* What p read of the defaults and may leave, is what p's matrix wants of them.
DefaultsStillSo(p) ==
  booting[p] \in {"edges", "apply"} /\ p \notin outdated =>
    \A m \in Declared(release[p]) :
      noticed[p].defaults[m] = ResolveDefault(release[p], m) => defaults[m] = ResolveDefault(release[p], m)

EdgesStillSo(p) ==
  booting[p] = "apply" /\ p \notin outdated /\ role =>
    \A m \in Declared(release[p]) :
      noticed[p].edges[<<Member, m>>] = Wanted(release[p], Member, m) =>
        edges[<<Member, m>>] = Wanted(release[p], Member, m)

RbacInv ==
  /\ RbacTypeOK
  /\ GraphIsDeclared
  /\ RestUntouched
  /\ \A p \in Processes : DefaultsStillSo(p)
  /\ \A p \in Processes : EdgesStillSo(p)

LEMMA RbacStarts == RbacInit => RbacInv
<1> SUFFICES ASSUME RbacInit PROVE RbacInv
  OBVIOUS
<1>1. edges \in [Roles \X Modules -> Stored \cup {Unset}]
  <2>1. PICK value \in {Unset, "all"} :
          edges = [e \in Roles \X Modules |-> IF e[1] = Administrator THEN "owner" ELSE value]
    BY DEF RbacInit
  <2>2. {"owner", "all", Unset} \subseteq Stored \cup {Unset}
    BY DEF Stored, Paths
  <2> QED
    BY <2>1, <2>2
<1>2. 0 \in 0..MaxBoots
  BY RbacAssumption
<1>3. RbacTypeOK
  BY <1>1, <1>2 DEF RbacInit, RbacTypeOK, Nothing
<1>4. GraphIsDeclared /\ RestUntouched
  BY DEF RbacInit, GraphIsDeclared, RestUntouched
<1>5. \A p \in Processes : booting[p] = "down"
  BY DEF RbacInit
<1> QED
  BY <1>3, <1>4, <1>5 DEF RbacInv, DefaultsStillSo, EdgesStillSo

\* A step that writes nothing to the graph, and of a start only one: what the
\* processes hold that start is still so if it is for that one.
LEMMA GraphStands ==
  ASSUME RbacInv, RbacTypeOK', NEW p \in Processes,
         UNCHANGED <<release, defaults, edges, role, seeded, settled>>,
         \A q \in Processes \ {p} : /\ booting'[q] = booting[q] /\ noticed'[q] = noticed[q]
                                    /\ q \in outdated <=> q \in outdated',
         DefaultsStillSo(p)', EdgesStillSo(p)'
  PROVE  RbacInv'
<1>1. GraphIsDeclared'
  BY DEF RbacInv, GraphIsDeclared
<1>2. RestUntouched'
  BY DEF RbacInv, RestUntouched
<1>3. ASSUME NEW q \in Processes PROVE DefaultsStillSo(q)'
  <2>1. CASE q = p
    BY <2>1
  <2>2. CASE q # p
    BY <2>2 DEF RbacInv, DefaultsStillSo
  <2> QED
    BY <2>1, <2>2
<1>4. ASSUME NEW q \in Processes PROVE EdgesStillSo(q)'
  <2>1. CASE q = p
    BY <2>1
  <2>2. CASE q # p
    BY <2>2 DEF RbacInv, EdgesStillSo
  <2> QED
    BY <2>1, <2>2
<1> QED
  BY <1>1, <1>2, <1>3, <1>4 DEF RbacInv

LEMMA PreflightKeeps ==
  ASSUME RbacInv, NEW p \in Processes, Preflight(p)
  PROVE  RbacInv'
<1> DEFINE named == \E m \in Modules : Names(release[p], Member, m)
           step == IF named /\ ~role THEN "aborted" ELSE "defaults"
<1>1. step \in {"aborted", "defaults"} /\ booting' = [booting EXCEPT ![p] = step]
  BY DEF Preflight, StartIs
<1> HIDE DEF named, step
<1>2. boots[p] + 1 \in 0..MaxBoots
  BY RbacAssumption DEF RbacInv, RbacTypeOK, Preflight
<1>3. RbacTypeOK'
  BY <1>1, <1>2 DEF RbacInv, RbacTypeOK, Preflight
<1>4. booting'[p] \in {"aborted", "defaults"} /\ \A q \in Processes \ {p} : booting'[q] = booting[q]
  BY <1>1 DEF RbacInv, RbacTypeOK
<1>5. DefaultsStillSo(p)' /\ EdgesStillSo(p)'
  BY <1>4 DEF DefaultsStillSo, EdgesStillSo
<1>6. UNCHANGED <<release, noticed, outdated, defaults, edges, role, seeded, settled>>
  BY DEF Preflight
<1> QED
  BY <1>3, <1>4, <1>5, <1>6, GraphStands

LEMMA ReadDefaultsKeeps ==
  ASSUME RbacInv, NEW p \in Processes, ReadDefaults(p)
  PROVE  RbacInv'
<1>1. /\ noticed' = [noticed EXCEPT ![p].defaults = defaults]
      /\ outdated' = outdated \ {p} /\ booting' = [booting EXCEPT ![p] = "edges"]
      /\ UNCHANGED <<release, boots, defaults, edges, role, seeded, settled>>
  BY DEF ReadDefaults, StartIs
<1>2. RbacTypeOK'
  BY <1>1 DEF RbacInv, RbacTypeOK
<1>3. /\ booting'[p] = "edges" /\ noticed'[p].defaults = defaults
      /\ \A q \in Processes \ {p} : /\ booting'[q] = booting[q] /\ noticed'[q] = noticed[q]
                                    /\ q \in outdated <=> q \in outdated'
  BY <1>1 DEF RbacInv, RbacTypeOK
<1>4. DefaultsStillSo(p)' /\ EdgesStillSo(p)'
  BY <1>1, <1>3 DEF DefaultsStillSo, EdgesStillSo
<1> QED
  BY <1>1, <1>2, <1>3, <1>4, GraphStands

LEMMA ReadEdgesKeeps ==
  ASSUME RbacInv, NEW p \in Processes, ReadEdges(p)
  PROVE  RbacInv'
<1>1. /\ noticed' = [noticed EXCEPT ![p].edges = edges]
      /\ booting[p] = "edges" /\ booting' = [booting EXCEPT ![p] = "apply"]
      /\ UNCHANGED <<release, boots, outdated, defaults, edges, role, seeded, settled>>
  BY DEF ReadEdges, StartIs
<1>2. RbacTypeOK'
  BY <1>1 DEF RbacInv, RbacTypeOK
<1>3. /\ booting'[p] = "apply" /\ noticed'[p].defaults = noticed[p].defaults /\ noticed'[p].edges = edges
      /\ \A q \in Processes \ {p} : /\ booting'[q] = booting[q] /\ noticed'[q] = noticed[q]
                                    /\ q \in outdated <=> q \in outdated'
  BY <1>1 DEF RbacInv, RbacTypeOK
<1>4. DefaultsStillSo(p)'
  BY <1>1, <1>3 DEF RbacInv, DefaultsStillSo
<1>5. EdgesStillSo(p)'
  BY <1>1, <1>3 DEF EdgesStillSo
<1> QED
  BY <1>1, <1>2, <1>3, <1>4, <1>5, GraphStands

LEMMA StopKeeps ==
  ASSUME RbacInv, NEW p \in Processes, Stop(p)
  PROVE  RbacInv'
<1>1. /\ noticed' = [noticed EXCEPT ![p] = Nothing]
      /\ outdated' = outdated \ {p} /\ booting' = [booting EXCEPT ![p] = "down"]
      /\ UNCHANGED <<release, boots, defaults, edges, role, seeded, settled>>
  BY DEF Stop, StartIs
<1>2. RbacTypeOK'
  BY <1>1 DEF RbacInv, RbacTypeOK, Nothing
<1>3. /\ booting'[p] = "down"
      /\ \A q \in Processes \ {p} : /\ booting'[q] = booting[q] /\ noticed'[q] = noticed[q]
                                    /\ q \in outdated <=> q \in outdated'
  BY <1>1 DEF RbacInv, RbacTypeOK
<1>4. DefaultsStillSo(p)' /\ EdgesStillSo(p)'
  BY <1>3 DEF DefaultsStillSo, EdgesStillSo
<1> QED
  BY <1>1, <1>2, <1>3, <1>4, GraphStands

LEMMA DeleteRoleKeeps ==
  ASSUME RbacInv, DeleteRole
  PROVE  RbacInv'
<1>1. /\ role' = FALSE
      /\ edges' = [e \in Roles \X Modules |-> IF e[1] = Member THEN Unset ELSE edges[e]]
      /\ UNCHANGED <<release, booting, boots, noticed, outdated, defaults, seeded, settled>>
  BY DEF DeleteRole, reconcilers
<1>2. RbacTypeOK'
  BY <1>1 DEF RbacInv, RbacTypeOK
<1>3. GraphIsDeclared'
  BY <1>1 DEF RbacInv, GraphIsDeclared
<1>4. RestUntouched'
  <2>1. \A m \in Modules : edges'[<<Administrator, m>>] = edges[<<Administrator, m>>]
    BY <1>1, RbacAssumption DEF Roles
  <2> QED
    BY <1>1, <2>1 DEF RbacInv, RestUntouched, Roles
<1>5. \A p \in Processes : DefaultsStillSo(p)' /\ EdgesStillSo(p)'
  BY <1>1 DEF RbacInv, DefaultsStillSo, EdgesStillSo
<1> QED
  BY <1>2, <1>3, <1>4, <1>5 DEF RbacInv

\* The transaction writes what p's matrix wants wherever p did not read it.
LEMMA ApplyKeeps ==
  ASSUME RbacInv, NEW p \in Processes, Apply(p)
  PROVE  RbacInv'
<1> DEFINE matrix == release[p]
           set == DefaultsToSet(matrix, noticed[p].defaults)
           change == EdgesToChange(matrix, noticed[p].edges)
           passedBy == {q \in Processes : booting[q] \in {"edges", "apply"} /\ release[q] # matrix}
<1>1. /\ booting[p] = "apply"
      /\ defaults' = [m \in Modules |-> IF m \in set THEN ResolveDefault(matrix, m) ELSE defaults[m]]
      /\ edges' = [e \in Roles \X Modules |->
                     IF e \in change /\ (role \/ e[1] # Member) THEN Wanted(matrix, e[1], e[2])
                     ELSE edges[e]]
      /\ settled' = IF p \in outdated THEN settled \cap {matrix} ELSE {matrix}
      /\ outdated' = (outdated \cup passedBy) \ {p}
      /\ noticed' = [noticed EXCEPT ![p] = Nothing]
      /\ booting' = [booting EXCEPT ![p] = "up"]
      /\ UNCHANGED <<release, boots, role, seeded>>
  BY DEF Apply, StartIs
<1>2. matrix \in Matrices
  BY DEF RbacInv, RbacTypeOK
<1>3. /\ \A m \in Modules : m \in set <=> m \in Declared(matrix) /\ noticed[p].defaults[m] # ResolveDefault(matrix, m)
      /\ \A r \in Roles, m \in Modules :
           <<r, m>> \in change <=> /\ m \in Declared(matrix) /\ r # Administrator
                                   /\ noticed[p].edges[<<r, m>>] # Wanted(matrix, r, m)
  BY DEF DefaultsToSet, EdgesToChange, Declared
<1>4. Member \in Roles /\ Member # Administrator /\ Administrator \in Roles /\ \A r \in Roles : r = Member \/ r = Administrator
  BY RbacAssumption DEF Roles
<1>5. /\ booting'[p] = "up"
      /\ \A q \in Processes \ {p} : /\ booting'[q] = booting[q] /\ noticed'[q] = noticed[q]
                                    /\ q \notin outdated' => /\ q \notin outdated
                                                             /\ booting[q] \in {"edges", "apply"} => release[q] = matrix
  BY <1>1 DEF RbacInv, RbacTypeOK
<1>6. RbacTypeOK'
  <2>1. \A m \in Modules : ResolveDefault(matrix, m) \in Stored
    BY <1>2, <1>4, WantedTyped
  <2>2. \A e \in Roles \X Modules : e[1] \in Roles /\ e[2] \in Modules /\ Wanted(matrix, e[1], e[2]) \in Stored \cup {Unset}
    BY <1>2, WantedTyped
  <2> HIDE DEF matrix, set, change
  <2>3. defaults' \in [Modules -> Stored \cup {Unset}]
    BY <1>1, <2>1 DEF RbacInv, RbacTypeOK
  <2>4. edges' \in [Roles \X Modules -> Stored \cup {Unset}]
    BY <1>1, <2>2 DEF RbacInv, RbacTypeOK
  <2>5. settled' \subseteq Matrices /\ outdated' \subseteq Processes
    BY <1>1, <1>2 DEF RbacInv, RbacTypeOK
  <2> QED
    BY <1>1, <2>3, <2>4, <2>5 DEF RbacInv, RbacTypeOK, Nothing
<1>7. /\ \A m \in Modules : defaults'[m] = IF m \in set THEN ResolveDefault(matrix, m) ELSE defaults[m]
      /\ \A r \in Roles, m \in Modules :
           edges'[<<r, m>>] = IF <<r, m>> \in change /\ (role \/ r # Member) THEN Wanted(matrix, r, m) ELSE edges[<<r, m>>]
      /\ release' = release /\ (role' <=> role) /\ seeded' = seeded
  <2> HIDE DEF matrix, set, change
  <2> QED
    BY <1>1
<1>8. \A mm \in settled' : mm = matrix /\ (p \in outdated => matrix \in settled)
  BY <1>1
<1>9. Declared(matrix) \subseteq Modules
  BY DEF Declared
<1> HIDE DEF matrix, set, change, passedBy
<1>10. ASSUME NEW mm \in settled', NEW m \in Declared(matrix)
       PROVE  defaults'[m] = ResolveDefault(matrix, m) /\ (role => edges'[<<Member, m>>] = Wanted(matrix, Member, m))
  <2>1. p \in outdated => defaults[m] = ResolveDefault(matrix, m) /\ (role => edges[<<Member, m>>] = Wanted(matrix, Member, m))
    BY <1>8, <1>9 DEF RbacInv, GraphIsDeclared
  <2>2. p \notin outdated =>
          /\ noticed[p].defaults[m] = ResolveDefault(matrix, m) => defaults[m] = ResolveDefault(matrix, m)
          /\ role /\ noticed[p].edges[<<Member, m>>] = Wanted(matrix, Member, m) => edges[<<Member, m>>] = Wanted(matrix, Member, m)
    BY <1>1 DEF RbacInv, DefaultsStillSo, EdgesStillSo, matrix
  <2>3. defaults'[m] = ResolveDefault(matrix, m)
    BY <1>3, <1>7, <1>9, <2>1, <2>2
  <2>4. role => edges'[<<Member, m>>] = Wanted(matrix, Member, m)
    BY <1>3, <1>4, <1>7, <1>9, <2>1, <2>2
  <2> QED
    BY <2>3, <2>4
<1>11. GraphIsDeclared'
  BY <1>7, <1>8, <1>10 DEF GraphIsDeclared, Declared, ResolveDefault, Wanted, Names, ResolveForRole
<1>12. RestUntouched'
  <2> SUFFICES ASSUME NEW r \in Roles, NEW m \in Modules,
                      r = Administrator \/ (role /\ \A q \in Processes : m \notin Declared(release[q]))
               PROVE  edges'[<<r, m>>] = seeded[<<r, m>>]
    BY <1>7 DEF RestUntouched
  <2>1. edges[<<r, m>>] = seeded[<<r, m>>]
    BY DEF RbacInv, RestUntouched
  <2>2. <<r, m>> \notin change
    BY <1>3 DEF matrix
  <2> QED
    BY <1>7, <2>1, <2>2
<1>13. ASSUME NEW q \in Processes PROVE DefaultsStillSo(q)'
  <2> SUFFICES ASSUME booting'[q] \in {"edges", "apply"}, q \notin outdated', NEW m \in Declared(release[q]),
                      noticed'[q].defaults[m] = ResolveDefault(release[q], m)
               PROVE  defaults'[m] = ResolveDefault(release[q], m)
    BY <1>7 DEF DefaultsStillSo
  <2>1. q # p
    BY <1>5
  <2>2. release[q] = matrix /\ defaults[m] = ResolveDefault(release[q], m)
    BY <1>5, <2>1 DEF RbacInv, DefaultsStillSo
  <2> QED
    BY <1>7, <1>9, <2>2
<1>14. ASSUME NEW q \in Processes PROVE EdgesStillSo(q)'
  <2> SUFFICES ASSUME booting'[q] = "apply", q \notin outdated', role, NEW m \in Declared(release[q]),
                      noticed'[q].edges[<<Member, m>>] = Wanted(release[q], Member, m)
               PROVE  edges'[<<Member, m>>] = Wanted(release[q], Member, m)
    BY <1>7 DEF EdgesStillSo
  <2>1. q # p
    BY <1>5
  <2>2. release[q] = matrix /\ edges[<<Member, m>>] = Wanted(release[q], Member, m)
    BY <1>5, <2>1 DEF RbacInv, EdgesStillSo
  <2> QED
    BY <1>4, <1>7, <1>9, <2>2
<1> QED
  BY <1>6, <1>11, <1>12, <1>13, <1>14 DEF RbacInv

LEMMA RbacHolds == RbacSpec => []RbacInv
<1>1. ASSUME RbacInv, [RbacNext]_rbacVars PROVE RbacInv'
  <2>1. CASE RbacNext
    BY <1>1, <2>1, PreflightKeeps, ReadDefaultsKeeps, ReadEdgesKeeps, ApplyKeeps, StopKeeps, DeleteRoleKeeps
    DEF RbacNext
  <2>2. CASE UNCHANGED rbacVars
    <3>1. /\ release' = release /\ booting' = booting /\ boots' = boots /\ noticed' = noticed
          /\ outdated' = outdated /\ defaults' = defaults /\ edges' = edges /\ (role' <=> role)
          /\ seeded' = seeded /\ settled' = settled /\ role' = role
      BY <2>2 DEF rbacVars, reconcilers
    <3>2. RbacTypeOK'
      BY <1>1, <3>1 DEF RbacInv, RbacTypeOK
    <3>3. GraphIsDeclared' /\ RestUntouched'
      BY <1>1, <3>1 DEF RbacInv, GraphIsDeclared, RestUntouched
    <3>4. \A p \in Processes : DefaultsStillSo(p)' /\ EdgesStillSo(p)'
      BY <1>1, <3>1 DEF RbacInv, DefaultsStillSo, EdgesStillSo
    <3> QED
      BY <3>2, <3>3, <3>4 DEF RbacInv
  <2> QED
    BY <1>1, <2>1, <2>2
<1> QED
  BY <1>1, RbacStarts, PTL DEF RbacSpec

\* What the graph holds of a module its matrix declares, resolved for a member,
\* is what the matrix says.
LEMMA MemberMay ==
  ASSUME RbacTypeOK, GraphIsDeclared
  PROVE  MemberMayDoWhatIsDeclared
<1> SUFFICES ASSUME role, NEW matrix \in settled, NEW m \in Modules, m \in Declared(matrix)
             PROVE  LET of == IF Names(matrix, Member, m) THEN matrix[m].of[Member] ELSE <<>>
                        tokens == {matrix[m].default[i] : i \in DOMAIN matrix[m].default} \cup {of[i] : i \in DOMAIN of}
                        may == Effective({Member}, m)
                    IN IF "all" \in tokens THEN may = "all"
                       ELSE IF tokens = {} THEN may = "none" ELSE may \in tokens
  BY DEF MemberMayDoWhatIsDeclared
<1> DEFINE D == matrix[m].default
           named == Names(matrix, Member, m)
           O == IF named THEN matrix[m].of[Member] ELSE <<>>
           d == defaults[m]
           e == edges[<<Member, m>>]
           may == Effective({Member}, m)
<1>1. matrix[m] \in Blocks
  BY DEF RbacTypeOK, Matrices
<1>2. D \in Seq(Tokens) /\ O \in Seq(Tokens) /\ named \in BOOLEAN /\ (~named => O = <<>>)
  BY <1>1, BlocksTyped DEF Names
<1>3. d = ToPermissions(D)
  BY DEF GraphIsDeclared, ResolveDefault
<1>4. e = IF named THEN ToPermissions(D \o O) ELSE Unset
  <2>1. e = Wanted(matrix, Member, m)
    BY DEF GraphIsDeclared
  <2> QED
    BY <2>1 DEF Wanted, ResolveForRole
<1>5. may = ToPermissions(<<d>> \o SetToSeq({e} \ {Unset}))
  <2>1. {edges[<<r, m>>] : r \in {Member}} = {e}
    OBVIOUS
  <2> QED
    BY <2>1 DEF Effective
<1> HIDE DEF D, O, named, d, e, may
<1>6. Says(D, O, may)
  BY <1>2, <1>3, <1>4, <1>5, WhatIsSaid
<1> QED
  BY <1>6 DEF D, O, named, may, Says

\* Processes that start together, with one matrix or with several, stop
\* half-way or see the role deleted, leave the permissions the matrix of the
\* last complete start declares, and a member may do what they come to
\* (RbacReconcilerService, the permission queries of user.cypher).
THEOREM PermissionsKept == RbacSpec => []PermissionsSound
<1>1. RbacInv => PermissionsSound
  BY MemberMay DEF RbacInv, PermissionsSound
<1> QED
  BY <1>1, RbacHolds, PTL

-----------------------------------------------------------------------------
(* Records.  Until a write falls between another request's read and its     *)
(* entry, what a request read still stands when it writes (ReadStands),     *)
(* what it wrote when it makes its entry (WrittenStands), and the log tells *)
(* the record but for entries still to come (LogOrEntry).                   *)

Editing == [kind : EditKinds, content : Contents \cup {NoContent},
            owner : SUBSET Related, links : SUBSET Related,
            at : {"new", "read", "vet", "write", "audit", "over"},
            before : Nodes, vetted : SUBSET Related, torn : BOOLEAN]

Audited == {"put", "patch", "relink", "delete"}
Single(S) == \A a, b \in S : a = b
NotFound(x) == x.kind \in {"put", "patch", "relink"} /\ ~x.before.exists

\* What a request carries, and that it was checked before it writes.
PayloadKept(x) ==
  /\ Single(x.owner)
  /\ x.at \notin {"new", "over"} =>
       /\ x.kind \in {"create", "put", "patch"} => x.content \in Contents
       /\ x.kind = "relink" => x.content = NoContent
       /\ x.kind \in {"create", "put", "relink"} => x.owner # {}
       /\ x.kind \in {"add", "remove", "delete"} => x.owner = {}
  /\ x.at = "vet" => x.kind \notin {"add", "remove"}
  /\ x.at = "read" => x.kind \in Audited
  /\ x.at \in {"write", "audit"} /\ x.kind \notin {"add", "remove"} => x.owner \cup x.links \subseteq x.vetted
  /\ x.at = "audit" => x.kind \notin {"add", "remove"} /\ ~NotFound(x)

TornAccounted(x, alive) ==
  x.torn => x.owner \cup x.links \subseteq x.vetted /\ ~(x.owner \cup x.links \subseteq alive)

ReadStands(x, n, alive) ==
  x.at \in {"vet", "write"} /\ x.kind \in Audited /\ x.before.exists =>
    n.exists /\ n.content = x.before.content /\ n.owner = x.before.owner \cap alive

WrittenStands(x, n, alive) ==
  x.at = "audit" =>
    /\ x.kind = "delete" => ~n.exists
    /\ x.kind \in {"put", "patch"} =>
         /\ n.exists /\ n.content = x.content
         /\ x.owner # {} => n.owner = x.owner \cap alive

WillTellContent(x) ==
  /\ x.at = "audit"
  /\ \/ x.kind = "delete"
     \/ x.kind \in {"put", "patch"} /\ x.content # x.before.content

WillTellOwner(x) ==
  /\ x.at = "audit"
  /\ \/ x.kind \in {"delete", "relink"}
     \/ x.kind \in {"put", "patch"} /\ x.owner \notin {{}, x.before.owner}

EdgesLive ==
  /\ Single(entity.owner) /\ entity.owner \cup entity.links \subseteq living
  /\ ~entity.exists => entity = NoNode

LogOrEntry ==
  ~logBlurred =>
    /\ \/ logged.content = NoContent
       \/ entity.exists /\ entity.content = logged.content
       \/ \E e \in Edits : WillTellContent(edit[e])
    /\ \/ logged.owner = {}
       \/ entity.exists /\ entity.owner = logged.owner \cap living
       \/ \E e \in Edits : WillTellOwner(edit[e])

RecordsInv ==
  /\ RecordsTypeOK
  /\ EdgesLive
  /\ HiddenNeedsLoss
  /\ \A e \in Edits : PayloadKept(edit[e]) /\ TornAccounted(edit[e], living)
  /\ ~logBlurred => \A e \in Edits : ReadStands(edit[e], entity, living) /\ WrittenStands(edit[e], entity, living)
  /\ LogOrEntry

LEMMA EditsTyped ==
  ASSUME RecordsTypeOK
  PROVE  /\ edit \in [Edits -> Editing] /\ entity \in Nodes /\ living \subseteq Related
         /\ logBlurred \in BOOLEAN /\ recordFaults \in 0..MaxRecordFaults
         /\ logged.content \in Contents \cup {NoContent} /\ logged.owner \subseteq Related
         /\ entity.exists \in BOOLEAN /\ entity.content \in Contents \cup {NoContent}
         /\ entity.owner \subseteq Related /\ entity.links \subseteq Related
BY DEF RecordsTypeOK, Editing, Nodes

LEMMA NobodyEdits ==
  /\ NoEdit \in Editing /\ [NoEdit EXCEPT !.at = "over"] \in Editing
  /\ \A x \in {NoEdit, [NoEdit EXCEPT !.at = "over"]} :
       /\ x.at \in {"new", "over"} /\ x.owner = {} /\ x.links = {} /\ x.torn = FALSE
       /\ PayloadKept(x)
  /\ NoNode \in Nodes /\ NoNode.exists = FALSE /\ NoNode.owner = {} /\ NoNode.links = {}
<1>1. NoNode \in Nodes /\ NoNode.exists = FALSE /\ NoNode.owner = {} /\ NoNode.links = {}
  BY DEF NoNode, Nodes
<1>2. NoEdit \in Editing /\ [NoEdit EXCEPT !.at = "over"] \in Editing
  BY <1>1 DEF NoEdit, Editing, EditKinds
<1>3. ASSUME NEW x \in {NoEdit, [NoEdit EXCEPT !.at = "over"]}
      PROVE  x.at \in {"new", "over"} /\ x.owner = {} /\ x.links = {} /\ x.torn = FALSE
  BY DEF NoEdit
<1>4. ASSUME NEW x \in {NoEdit, [NoEdit EXCEPT !.at = "over"]} PROVE PayloadKept(x)
  BY <1>3 DEF PayloadKept, Single
<1> QED
  BY <1>1, <1>2, <1>3, <1>4

LEMMA RecordsStart == RecordsInit => RecordsInv
<1> SUFFICES ASSUME RecordsInit PROVE RecordsInv
  OBVIOUS
<1>1. /\ living = Related /\ edit = [e \in Edits |-> NoEdit] /\ logged = Untold
      /\ logBlurred = FALSE /\ recordFaults = 0
  BY DEF RecordsInit
<1>2. \/ entity = NoNode
      \/ \E c \in Contents, t \in Related :
           entity = [exists |-> TRUE, content |-> c, owner |-> {t}, links |-> {}]
  BY DEF RecordsInit
<1>3. entity \in Nodes /\ EdgesLive /\ HiddenNeedsLoss
  <2>1. CASE entity = NoNode
    BY <2>1, NobodyEdits DEF EdgesLive, HiddenNeedsLoss, Single
  <2>2. ASSUME NEW c \in Contents, NEW t \in Related,
               entity = [exists |-> TRUE, content |-> c, owner |-> {t}, links |-> {}]
        PROVE  entity \in Nodes /\ EdgesLive /\ HiddenNeedsLoss
    <3>1. entity.exists = TRUE /\ entity.owner = {t} /\ entity.links = {} /\ entity \in Nodes
      BY <2>2 DEF Nodes
    <3> QED
      BY <1>1, <3>1 DEF EdgesLive, HiddenNeedsLoss, Single
  <2> QED
    BY <1>2, <2>1, <2>2
<1>4. RecordsTypeOK
  <2>1. 0 \in 0..MaxRecordFaults /\ Untold \in [content : Contents \cup {NoContent}, owner : SUBSET Related]
    BY RecordsAssumption DEF Untold
  <2>2. edit \in [Edits -> Editing]
    BY <1>1, NobodyEdits
  <2> QED
    BY <1>1, <1>3, <2>1, <2>2 DEF RecordsTypeOK, Editing
<1>5. ASSUME NEW e \in Edits
      PROVE  /\ PayloadKept(edit[e]) /\ TornAccounted(edit[e], living)
             /\ ReadStands(edit[e], entity, living) /\ WrittenStands(edit[e], entity, living)
  <2>1. edit[e] = NoEdit
    BY <1>1
  <2> QED
    BY <2>1, NobodyEdits DEF TornAccounted, ReadStands, WrittenStands
<1>6. LogOrEntry
  BY <1>1 DEF LogOrEntry, Untold
<1> QED
  BY <1>3, <1>4, <1>5, <1>6 DEF RecordsInv

-----------------------------------------------------------------------------
\* A step of one request that writes neither the record nor the log.
LEMMA RequestMoves ==
  ASSUME RecordsInv, NEW e \in Edits, NEW x \in Editing, edit' = [edit EXCEPT ![e] = x],
         UNCHANGED <<entity, living, logged>>,
         logBlurred' \in BOOLEAN, logBlurred => logBlurred', recordFaults' \in 0..MaxRecordFaults,
         PayloadKept(x), TornAccounted(x, living), x.at # "audit",
         ~logBlurred' => edit[e].at # "audit" /\ ReadStands(x, entity, living)
  PROVE  RecordsInv'
<1>1. edit \in [Edits -> Editing] /\ edit' \in [Edits -> Editing]
  BY EditsTyped DEF RecordsInv
<1>2. edit'[e] = x /\ \A o \in Edits \ {e} : edit'[o] = edit[o]
  BY <1>1
<1>3. RecordsTypeOK'
  BY <1>1 DEF RecordsInv, RecordsTypeOK, Editing
<1>4. EdgesLive' /\ HiddenNeedsLoss'
  BY DEF RecordsInv, EdgesLive, HiddenNeedsLoss
<1>5. \A o \in Edits : PayloadKept(edit'[o]) /\ TornAccounted(edit'[o], living')
  BY <1>2 DEF RecordsInv
<1>6. ~logBlurred' => \A o \in Edits : ReadStands(edit'[o], entity', living') /\ WrittenStands(edit'[o], entity', living')
  <2> SUFFICES ASSUME ~logBlurred', NEW o \in Edits
               PROVE  ReadStands(edit'[o], entity', living') /\ WrittenStands(edit'[o], entity', living')
    OBVIOUS
  <2>1. CASE o = e
    BY <1>2, <2>1 DEF WrittenStands
  <2>2. CASE o # e
    BY <1>2, <2>2 DEF RecordsInv
  <2> QED
    BY <2>1, <2>2
<1>7. LogOrEntry'
  <2> SUFFICES ASSUME ~logBlurred'
               PROVE  /\ \/ logged'.content = NoContent
                         \/ entity'.exists /\ entity'.content = logged'.content
                         \/ \E o \in Edits : WillTellContent(edit'[o])
                      /\ \/ logged'.owner = {}
                         \/ entity'.exists /\ entity'.owner = logged'.owner \cap living'
                         \/ \E o \in Edits : WillTellOwner(edit'[o])
    BY DEF LogOrEntry
  <2>1. \A o \in Edits : WillTellContent(edit[o]) => o # e /\ WillTellContent(edit'[o])
    BY <1>2 DEF WillTellContent
  <2>2. \A o \in Edits : WillTellOwner(edit[o]) => o # e /\ WillTellOwner(edit'[o])
    BY <1>2 DEF WillTellOwner
  <2> QED
    BY <2>1, <2>2 DEF RecordsInv, LogOrEntry
<1> QED
  BY <1>3, <1>4, <1>5, <1>6, <1>7 DEF RecordsInv

\* A request that is over leaves nothing.
LEMMA RequestEnds ==
  ASSUME RecordsInv, NEW e \in Edits, Over(e), UNCHANGED <<entity, living, logged>>,
         logBlurred' \in BOOLEAN, logBlurred => logBlurred', recordFaults' \in 0..MaxRecordFaults,
         ~logBlurred' => edit[e].at # "audit"
  PROVE  RecordsInv'
<1> DEFINE x == [NoEdit EXCEPT !.at = "over"]
<1>1. x \in Editing /\ x.at \in {"new", "over"} /\ x.torn = FALSE /\ PayloadKept(x)
  BY NobodyEdits
<1>2. edit' = [edit EXCEPT ![e] = x]
  BY DEF Over
<1> HIDE DEF x
<1>3. TornAccounted(x, living) /\ ReadStands(x, entity, living) /\ x.at # "audit"
  BY <1>1 DEF TornAccounted, ReadStands
<1> QED
  BY <1>1, <1>2, <1>3, RequestMoves

LEMMA PayloadsAre ==
  ASSUME NEW kind \in EditKinds, NEW payload \in Payloads(kind)
  PROVE  /\ payload.content \in Contents \cup {NoContent}
         /\ payload.owner \in SUBSET Related /\ payload.links \in SUBSET Related /\ Single(payload.owner)
         /\ kind \in {"create", "put", "patch"} => payload.content \in Contents
         /\ kind = "relink" => payload.content = NoContent
         /\ kind \in {"create", "put", "relink"} => payload.owner # {}
         /\ kind \in {"add", "remove", "delete"} => payload.owner = {}
<1>1. CASE kind \in {"create", "put"}
  <2>1. payload.content \in Contents /\ payload.owner \in {{t} : t \in Related} /\ payload.links \in SUBSET Related
    BY <1>1 DEF Payloads
  <2> QED
    BY <1>1, <2>1 DEF Single
<1>2. CASE kind = "patch"
  <2>1. payload.content \in Contents /\ payload.owner \in {{}} \cup {{t} : t \in Related} /\ payload.links = {}
    BY <1>2 DEF Payloads
  <2> QED
    BY <1>2, <2>1 DEF Single
<1>3. CASE kind = "relink"
  <2>1. payload.content = NoContent /\ payload.owner \in {{t} : t \in Related} /\ payload.links = {}
    BY <1>3 DEF Payloads
  <2> QED
    BY <1>3, <2>1 DEF Single
<1>4. CASE kind \in {"add", "remove", "delete"}
  <2>1. payload.content = NoContent /\ payload.owner = {} /\ payload.links \in {{}} \cup {{t} : t \in Related}
    BY <1>4 DEF Payloads
  <2> QED
    BY <1>4, <2>1 DEF Single
<1> QED
  BY <1>1, <1>2, <1>3, <1>4 DEF EditKinds

LEMMA RequestKeeps ==
  ASSUME RecordsInv, NEW e \in Edits, Request(e)
  PROVE  RecordsInv'
<1>1. /\ edit[e].at = "new" /\ UNCHANGED <<entity, living, logged, logBlurred, recordFaults>>
  BY DEF Request
<1>2. PICK kind \in EditKinds : \E payload \in Payloads(kind) :
        edit' = [edit EXCEPT ![e] = [NoEdit EXCEPT !.kind = kind, !.content = payload.content,
                                                   !.owner = payload.owner, !.links = payload.links,
                                                   !.at = First(kind)]]
  BY DEF Request
<1>3. PICK payload \in Payloads(kind) :
        edit' = [edit EXCEPT ![e] = [NoEdit EXCEPT !.kind = kind, !.content = payload.content,
                                                   !.owner = payload.owner, !.links = payload.links,
                                                   !.at = First(kind)]]
  BY <1>2
<1> DEFINE x == [NoEdit EXCEPT !.kind = kind, !.content = payload.content,
                               !.owner = payload.owner, !.links = payload.links, !.at = First(kind)]
<1>4. /\ First(kind) \in {"vet", "write", "read"}
      /\ First(kind) = "vet" => kind = "create"
      /\ First(kind) = "write" => kind \in {"add", "remove"}
      /\ First(kind) = "read" => kind \in Audited
  BY DEF First, EditKinds, Audited
<1>5. /\ x.kind = kind /\ x.content = payload.content /\ x.owner = payload.owner /\ x.links = payload.links
      /\ x.at = First(kind) /\ x.before = NoNode /\ x.torn = FALSE
  BY DEF NoEdit
<1>6. x \in Editing
  BY <1>4, PayloadsAre, NobodyEdits DEF NoEdit, Editing
<1>7. edit' = [edit EXCEPT ![e] = x]
  BY <1>3
<1> HIDE DEF x
<1>8. PayloadKept(x)
  BY <1>4, <1>5, PayloadsAre DEF PayloadKept
<1>9. TornAccounted(x, living) /\ ReadStands(x, entity, living) /\ x.at # "audit"
  BY <1>4, <1>5, NobodyEdits DEF TornAccounted, ReadStands
<1>10. logBlurred' \in BOOLEAN /\ (logBlurred => logBlurred') /\ recordFaults' \in 0..MaxRecordFaults
  BY <1>1, EditsTyped DEF RecordsInv
<1> QED
  BY <1>1, <1>6, <1>7, <1>8, <1>9, <1>10, RequestMoves

LEMMA ReadBeforeKeeps ==
  ASSUME RecordsInv, NEW e \in Edits, ReadBefore(e)
  PROVE  RecordsInv'
<1>1. edit[e].at = "read" /\ UNCHANGED <<entity, living, logged, logBlurred, recordFaults>>
  BY DEF ReadBefore
<1>2. logBlurred' \in BOOLEAN /\ (logBlurred => logBlurred') /\ recordFaults' \in 0..MaxRecordFaults
  BY <1>1, EditsTyped DEF RecordsInv
<1>3. CASE Over(e)
  BY <1>1, <1>2, <1>3, RequestEnds
<1>4. CASE ~Over(e)
  <2> DEFINE before == IF Visible(entity) THEN entity ELSE NoNode
             at == IF Given(e) = {} THEN "write" ELSE "vet"
             x == [edit[e] EXCEPT !.before = before, !.at = at]
  <2>1. edit' = [edit EXCEPT ![e].before = before, ![e].at = at]
    BY <1>4 DEF ReadBefore
  <2>2. edit[e] \in Editing /\ edit \in [Edits -> Editing]
    BY EditsTyped DEF RecordsInv
  <2>3. before \in Nodes /\ at \in {"vet", "write"} /\ (at = "write" => edit[e].owner \cup edit[e].links = {})
    BY EditsTyped, NobodyEdits DEF RecordsInv, Given
  <2>4. before.exists => before = entity
    BY NobodyEdits
  <2>5. edit' = [edit EXCEPT ![e] = x]
    BY <2>1, <2>2
  <2> HIDE DEF before, at
  <2>6. /\ x.kind = edit[e].kind /\ x.content = edit[e].content /\ x.owner = edit[e].owner
        /\ x.links = edit[e].links /\ x.vetted = edit[e].vetted /\ x.torn = edit[e].torn
        /\ x.at = at /\ x.before = before /\ x \in Editing
    BY <2>2, <2>3 DEF Editing
  <2> HIDE DEF x
  <2>7. PayloadKept(edit[e]) /\ TornAccounted(edit[e], living)
    BY DEF RecordsInv
  <2>8. PayloadKept(x)
    BY <1>1, <2>3, <2>6, <2>7 DEF PayloadKept, Audited
  <2>9. TornAccounted(x, living)
    BY <2>6, <2>7 DEF TornAccounted
  <2>10. ReadStands(x, entity, living)
    <3>1. entity.owner = entity.owner \cap living
      BY DEF RecordsInv, EdgesLive
    <3> QED
      BY <2>4, <2>6, <3>1 DEF ReadStands
  <2>11. x.at # "audit"
    BY <2>3, <2>6
  <2> QED
    BY <1>1, <1>2, <2>5, <2>6, <2>8, <2>9, <2>10, <2>11, RequestMoves
<1> QED
  BY <1>3, <1>4

LEMMA ValidateKeeps ==
  ASSUME RecordsInv, NEW e \in Edits, Validate(e)
  PROVE  RecordsInv'
<1>1. edit[e].at = "vet" /\ UNCHANGED <<entity, living, logged, logBlurred, recordFaults>>
  BY DEF Validate
<1>2. logBlurred' \in BOOLEAN /\ (logBlurred => logBlurred') /\ recordFaults' \in 0..MaxRecordFaults
  BY <1>1, EditsTyped DEF RecordsInv
<1>3. CASE Over(e)
  BY <1>1, <1>2, <1>3, RequestEnds
<1>4. CASE ~Over(e)
  <2> DEFINE x == [edit[e] EXCEPT !.vetted = living, !.at = "write"]
  <2>1. edit' = [edit EXCEPT ![e].vetted = living, ![e].at = "write"] /\ Given(e) \subseteq living
    BY <1>4 DEF Validate
  <2>2. edit[e] \in Editing /\ edit \in [Edits -> Editing] /\ living \in SUBSET Related
    BY EditsTyped DEF RecordsInv
  <2>3. edit' = [edit EXCEPT ![e] = x]
    BY <2>1, <2>2
  <2>4. /\ x.kind = edit[e].kind /\ x.content = edit[e].content /\ x.owner = edit[e].owner
        /\ x.links = edit[e].links /\ x.vetted = living /\ x.torn = edit[e].torn
        /\ x.at = "write" /\ x.before = edit[e].before /\ x \in Editing
    BY <2>2 DEF Editing
  <2> HIDE DEF x
  <2>5. edit[e].owner \cup edit[e].links \subseteq living
    BY <2>1 DEF Given
  <2>6. PayloadKept(edit[e]) /\ TornAccounted(edit[e], living)
    BY DEF RecordsInv
  <2>7. PayloadKept(x)
    BY <1>1, <2>4, <2>5, <2>6 DEF PayloadKept
  <2>8. TornAccounted(x, living)
    BY <2>4, <2>5, <2>6 DEF TornAccounted
  <2>9. ~logBlurred' => ReadStands(x, entity, living)
    <3>1. ~logBlurred => ReadStands(edit[e], entity, living)
      BY DEF RecordsInv
    <3> QED
      BY <1>1, <2>4, <3>1 DEF ReadStands
  <2> QED
    BY <1>1, <1>2, <2>3, <2>4, <2>7, <2>8, <2>9, RequestMoves
<1> QED
  BY <1>3, <1>4

LEMMA RefusedKeeps ==
  ASSUME RecordsInv, NEW e \in Edits, WriteRefused(e)
  PROVE  RecordsInv'
<1>1. edit[e].at = "write" /\ Over(e) /\ UNCHANGED <<entity, living, logged, logBlurred, recordFaults>>
  BY DEF WriteRefused
<1>2. logBlurred' \in BOOLEAN /\ (logBlurred => logBlurred') /\ recordFaults' \in 0..MaxRecordFaults
  BY <1>1, EditsTyped DEF RecordsInv
<1> QED
  BY <1>1, <1>2, RequestEnds

LEMMA RequestStopsKeeps ==
  ASSUME RecordsInv, NEW e \in Edits, RequestStops(e)
  PROVE  RecordsInv'
<1>1. /\ Over(e) /\ UNCHANGED <<entity, living, logged>>
      /\ recordFaults < MaxRecordFaults /\ recordFaults' = recordFaults + 1
      /\ logBlurred' = (logBlurred \/ edit[e].at = "audit")
  BY DEF RequestStops
<1>2. logBlurred' \in BOOLEAN /\ (logBlurred => logBlurred') /\ (~logBlurred' => edit[e].at # "audit")
  BY <1>1
<1>3. recordFaults' \in 0..MaxRecordFaults
  BY <1>1, EditsTyped, RecordsAssumption DEF RecordsInv
<1> QED
  BY <1>1, <1>2, <1>3, RequestEnds

-----------------------------------------------------------------------------
\* What a statement makes of the record.
LEMMA WhatIsWritten ==
  ASSUME RecordsInv, NEW e \in Edits, edit[e].at = "write", ~Refused(e),
         NEW x, x = edit[e], NEW n, n = entity, NEW w, w = Written(e, entity)
  PROVE  /\ w \in Nodes
         /\ x.kind = "delete" => w = NoNode
         /\ x.kind # "create" /\ ~n.exists => w = NoNode
         /\ x.kind = "create" \/ (n.exists /\ x.kind # "delete") => w.exists
         /\ x.kind \in {"create", "put", "patch"} /\ w.exists => w.content = x.content
         /\ x.kind \in {"relink", "add", "remove"} /\ w.exists => w.content = n.content
         /\ w.exists => w.owner = IF x.owner = {} THEN n.owner ELSE x.owner \cap living
         /\ w.links \subseteq living
         /\ w.exists /\ x.kind \in {"create", "put"} /\ x.owner \cap living # {} => w.links = x.links \cap living
<1>1. /\ x.kind \in EditKinds /\ x.content \in Contents \cup {NoContent} /\ x.owner \subseteq Related
      /\ x.links \subseteq Related /\ n \in Nodes /\ living \subseteq Related /\ n.links \subseteq living
  BY EditsTyped DEF RecordsInv, Editing, EdgesLive
<1>2. /\ x.kind \in {"create", "put", "patch"} => x.content # NoContent
      /\ x.kind = "relink" => x.content = NoContent
      /\ x.kind \in {"create", "put", "relink"} => x.owner # {}
      /\ x.kind \in {"add", "remove", "delete"} => x.owner = {}
  <2>1. PayloadKept(edit[e])
    BY DEF RecordsInv
  <2> QED
    BY <2>1, RecordsAssumption DEF PayloadKept
<1>3. x.kind = "create" => ~n.exists
  BY DEF Refused
<1>4. ~n.exists => n = NoNode
  BY DEF RecordsInv, EdgesLive
<1>5. CASE x.kind = "create"
  <2> DEFINE fresh == [NoNode EXCEPT !.exists = TRUE]
             field == [fresh EXCEPT !.content = x.content]
             owned == [field EXCEPT !.owner = x.owner \cap living]
             linked == [owned EXCEPT !.links = x.links \cap living]
  <2>1. /\ fresh \in Nodes /\ fresh.exists = TRUE /\ fresh.links = {}
        /\ field \in Nodes /\ field.exists = TRUE /\ field.links = {} /\ field.content = x.content
        /\ owned \in Nodes /\ owned.exists = TRUE /\ owned.links = {} /\ owned.content = x.content
        /\ owned.owner = x.owner \cap living
        /\ linked \in Nodes /\ linked.exists = TRUE /\ linked.content = x.content
        /\ linked.owner = x.owner \cap living /\ linked.links = x.links \cap living
    BY <1>1 DEF NoNode, Nodes
  <2>2. w = CreatedRecord(e)
    BY <1>5 DEF Written
  <2>3. WithField(e, fresh) = field
    BY <1>2, <1>5 DEF WithField
  <2>4. WithOwner(e, field) = owned
    BY <1>2, <1>5 DEF WithOwner, Edges
  <2> HIDE DEF fresh, field, owned, linked
  <2>5. w = IF x.owner \cap living = {} THEN owned ELSE [owned EXCEPT !.links = x.links \cap living]
    BY <2>2, <2>3, <2>4 DEF CreatedRecord, WithEdges, Edges, fresh
  <2>6. w = IF x.owner \cap living = {} THEN owned ELSE linked
    BY <2>5 DEF linked
  <2> QED
    BY <1>2, <1>3, <1>5, <2>1, <2>6
<1>6. CASE x.kind # "create" /\ (~n.exists \/ x.kind = "delete")
  <2>1. w = NoNode
    BY <1>6 DEF Written
  <2> QED
    BY <1>6, <2>1, NobodyEdits
<1>7. CASE n.exists /\ x.kind = "put"
  <2> DEFINE field == [n EXCEPT !.content = x.content]
             owned == [field EXCEPT !.owner = x.owner \cap living]
             linked == [owned EXCEPT !.links = x.links \cap living]
  <2>1. /\ field \in Nodes /\ field.exists = n.exists /\ field.links = n.links /\ field.content = x.content
        /\ owned \in Nodes /\ owned.exists = n.exists /\ owned.links = n.links /\ owned.content = x.content
        /\ owned.owner = x.owner \cap living
        /\ linked \in Nodes /\ linked.exists = n.exists /\ linked.content = x.content
        /\ linked.owner = x.owner \cap living /\ linked.links = x.links \cap living
    BY <1>1 DEF Nodes
  <2>2. w = ReplacedRecord(e, n)
    BY <1>7 DEF Written
  <2>3. WithField(e, n) = field
    BY <1>2, <1>7 DEF WithField
  <2>4. WithOwner(e, field) = owned
    BY <1>2, <1>7 DEF WithOwner, Edges
  <2> HIDE DEF field, owned, linked
  <2>5. w = IF x.owner \cap living = {} THEN owned ELSE [owned EXCEPT !.links = x.links \cap living]
    BY <2>2, <2>3, <2>4 DEF ReplacedRecord, WithEdges, Edges
  <2>6. w = IF x.owner \cap living = {} THEN owned ELSE linked
    BY <2>5 DEF linked
  <2> QED
    BY <1>1, <1>2, <1>7, <2>1, <2>6
<1>8. CASE n.exists /\ x.kind \in {"patch", "relink"}
  <2> DEFINE field == IF x.content = NoContent THEN n ELSE [n EXCEPT !.content = x.content]
             owned == IF x.owner = {} THEN field ELSE [field EXCEPT !.owner = x.owner \cap living]
  <2>1. /\ field \in Nodes /\ field.exists = n.exists /\ field.links = n.links /\ field.owner = n.owner
        /\ field.content = IF x.content = NoContent THEN n.content ELSE x.content
    BY <1>1 DEF Nodes
  <2>2. w = Patched(e, n)
    BY <1>8 DEF Written
  <2>3. WithField(e, n) = field
    BY DEF WithField
  <2>4. WithOwner(e, field) = owned
    BY DEF WithOwner, Edges
  <2> HIDE DEF field
  <2>5. /\ owned \in Nodes /\ owned.exists = n.exists /\ owned.links = n.links /\ owned.content = field.content
        /\ owned.owner = IF x.owner = {} THEN n.owner ELSE x.owner \cap living
    BY <1>1, <2>1 DEF Nodes
  <2> HIDE DEF owned
  <2>6. w = owned
    BY <2>2, <2>3, <2>4 DEF Patched
  <2> QED
    BY <1>1, <1>2, <1>8, <2>1, <2>5, <2>6
<1>9. CASE n.exists /\ x.kind = "add"
  <2>1. w = [n EXCEPT !.links = @ \cup (x.links \cap living)]
    BY <1>9 DEF Written, Added
  <2>2. w \in Nodes /\ w.exists = n.exists /\ w.content = n.content /\ w.owner = n.owner /\ w.links = n.links \cup (x.links \cap living)
    BY <1>1, <2>1 DEF Nodes
  <2> QED
    BY <1>1, <1>2, <1>9, <2>2
<1>10. CASE n.exists /\ x.kind = "remove"
  <2>1. w = [n EXCEPT !.links = @ \ x.links]
    BY <1>10 DEF Written, Removed
  <2>2. w \in Nodes /\ w.exists = n.exists /\ w.content = n.content /\ w.owner = n.owner /\ w.links = n.links \ x.links
    BY <1>1, <2>1 DEF Nodes
  <2> QED
    BY <1>1, <1>2, <1>10, <2>2
<1> QED
  BY <1>1, <1>5, <1>6, <1>7, <1>8, <1>9, <1>10 DEF EditKinds

\* Whatever a statement leaves undone was asked for of a node that is gone.
LEMMA StatementKeeps ==
  ASSUME RecordsInv, NEW e \in Edits, edit[e].at = "write", ~Refused(e),
         NEW then \in {"write", "audit", "over"},
         then = "audit" => edit[e].kind \notin {"add", "remove"} /\ ~Unseen(e),
         entity' = Written(e, entity),
         edit' = [edit EXCEPT ![e].torn = @ \/ Torn(e, entity'), ![e].at = then],
         UNCHANGED <<living, logged>>, logBlurred' \in BOOLEAN, recordFaults' \in 0..MaxRecordFaults
  PROVE  /\ RecordsTypeOK' /\ EdgesLive' /\ HiddenNeedsLoss'
         /\ \A o \in Edits : PayloadKept(edit'[o]) /\ TornAccounted(edit'[o], living')
         /\ \A o \in Edits \ {e} : edit'[o] = edit[o]
         /\ edit'[e].kind = edit[e].kind /\ edit'[e].content = edit[e].content /\ edit'[e].owner = edit[e].owner
         /\ edit'[e].before = edit[e].before /\ edit'[e].at = then
<1> DEFINE torn == edit[e].torn \/ Torn(e, entity')
           x == [edit[e] EXCEPT !.torn = torn, !.at = then]
<1>1. edit[e] \in Editing /\ edit \in [Edits -> Editing] /\ living \subseteq Related
  BY EditsTyped DEF RecordsInv
<1>2. edit' = [edit EXCEPT ![e] = x]
  BY <1>1
<1>3. torn \in BOOLEAN
  BY <1>1 DEF Torn, Editing
<1> HIDE DEF torn
<1>4. /\ x.kind = edit[e].kind /\ x.content = edit[e].content /\ x.owner = edit[e].owner
      /\ x.links = edit[e].links /\ x.vetted = edit[e].vetted /\ (x.torn <=> torn)
      /\ x.at = then /\ x.before = edit[e].before /\ x \in Editing
  BY <1>1, <1>3 DEF Editing
<1> HIDE DEF x
<1>5. edit'[e] = x /\ (\A o \in Edits \ {e} : edit'[o] = edit[o]) /\ edit' \in [Edits -> Editing]
  BY <1>1, <1>2, <1>4
<1>6. PayloadKept(edit[e]) /\ TornAccounted(edit[e], living)
  BY DEF RecordsInv
<1>7. /\ entity' \in Nodes
      /\ edit[e].kind = "delete" => entity' = NoNode
      /\ edit[e].kind # "create" /\ ~entity.exists => entity' = NoNode
      /\ edit[e].kind = "create" \/ (entity.exists /\ edit[e].kind # "delete") => entity'.exists
      /\ entity'.exists => entity'.owner = IF edit[e].owner = {} THEN entity.owner ELSE edit[e].owner \cap living
      /\ entity'.links \subseteq living
      /\ entity'.exists /\ edit[e].kind \in {"create", "put"} /\ edit[e].owner \cap living # {} =>
           entity'.links = edit[e].links \cap living
  <2>1. edit[e].at = "write" /\ ~Refused(e) /\ entity' = Written(e, entity)
    OBVIOUS
  <2> QED
    BY ONLY RecordsInv, <2>1, WhatIsWritten
<1>8. RecordsTypeOK'
  BY <1>5, <1>7 DEF RecordsInv, RecordsTypeOK, Editing
<1>9. /\ ~entity'.exists => entity' = NoNode
      /\ entity'.exists /\ edit[e].owner = {} => entity.exists
  <2>1. edit[e].kind = "create" => edit[e].owner # {}
    BY <1>6 DEF PayloadKept
  <2> QED
    BY <1>7, <2>1, NobodyEdits
<1>10. EdgesLive'
  <2>1. Single(entity.owner) /\ entity.owner \subseteq living
    BY DEF RecordsInv, EdgesLive
  <2>2. Single(edit[e].owner)
    BY <1>6 DEF PayloadKept
  <2>3. Single(entity'.owner) /\ entity'.owner \subseteq living
    BY <1>7, <1>9, <2>1, <2>2, NobodyEdits DEF Single
  <2> QED
    BY <1>7, <1>9, <2>3 DEF EdgesLive
<1>11. HiddenNeedsLoss'
  <2> SUFFICES ASSUME entity'.exists, entity'.owner = {} PROVE living # Related
    BY DEF HiddenNeedsLoss
  <2>1. CASE edit[e].owner = {}
    BY <1>7, <1>9, <2>1 DEF RecordsInv, HiddenNeedsLoss
  <2>2. CASE edit[e].owner # {}
    <3>1. edit[e].owner \subseteq Related /\ edit[e].owner \cap living = {}
      BY <1>1, <1>7, <2>2 DEF Editing
    <3> QED
      BY <2>2, <3>1
  <2> QED
    BY <2>1, <2>2
<1>12. PayloadKept(x)
  <2>1. then = "audit" => ~NotFound(x)
    BY <1>4 DEF NotFound, Unseen
  <2> QED
    BY <1>4, <1>6, <2>1 DEF PayloadKept
<1>13. Torn(e, entity') => edit[e].owner \cup edit[e].links \subseteq edit[e].vetted /\ ~(edit[e].owner \cup edit[e].links \subseteq living)
  <2> SUFFICES ASSUME Torn(e, entity')
               PROVE  edit[e].owner \cup edit[e].links \subseteq edit[e].vetted /\ ~(edit[e].owner \cup edit[e].links \subseteq living)
    OBVIOUS
  <2>1. /\ entity'.exists
        /\ edit[e].owner \notin {{}, entity'.owner} \/ (edit[e].kind \in {"create", "put"} /\ entity'.links # edit[e].links)
    BY DEF Torn
  <2>2. edit[e].kind \notin {"add", "remove"}
    BY <1>6, <2>1 DEF PayloadKept
  <2>3. edit[e].owner \cup edit[e].links \subseteq edit[e].vetted
    BY <1>6, <2>2 DEF PayloadKept
  <2>4. ASSUME edit[e].owner \cup edit[e].links \subseteq living PROVE FALSE
    <3>1. edit[e].owner \cap living = edit[e].owner /\ edit[e].links \cap living = edit[e].links
      BY <2>4
    <3>2. edit[e].owner \in {{}, entity'.owner}
      BY <1>7, <2>1, <3>1
    <3>3. edit[e].kind \in {"create", "put"} => edit[e].owner # {}
      BY <1>6 DEF PayloadKept
    <3>4. edit[e].kind \in {"create", "put"} => entity'.links = edit[e].links
      BY <1>7, <2>1, <3>1, <3>3
    <3> QED
      BY <2>1, <3>2, <3>4
  <2> QED
    BY <2>3, <2>4
<1>14. TornAccounted(x, living)
  BY <1>4, <1>6, <1>13 DEF TornAccounted, torn
<1>15. \A o \in Edits : PayloadKept(edit'[o]) /\ TornAccounted(edit'[o], living')
  <2>1. \A o \in Edits \ {e} : PayloadKept(edit'[o]) /\ TornAccounted(edit'[o], living')
    BY <1>5 DEF RecordsInv
  <2> QED
    BY <1>5, <1>12, <1>14, <2>1
<1> QED
  BY <1>4, <1>5, <1>8, <1>10, <1>11, <1>15

LEMMA WriteUnackedKeeps ==
  ASSUME RecordsInv, NEW e \in Edits, WriteUnacked(e)
  PROVE  RecordsInv'
<1>1. /\ edit[e].at = "write" /\ ~Refused(e) /\ entity' = Written(e, entity) /\ UNCHANGED <<living, logged>>
      /\ recordFaults < MaxRecordFaults /\ recordFaults' = recordFaults + 1 /\ logBlurred' = TRUE
  BY DEF WriteUnacked
<1>2. edit' = [edit EXCEPT ![e].torn = @ \/ Torn(e, entity'), ![e].at = "write"]
  <2>1. edit \in [Edits -> Editing] /\ edit[e].at = "write"
    BY <1>1, EditsTyped DEF RecordsInv
  <2>2. edit' = [edit EXCEPT ![e].torn = @ \/ Torn(e, entity')]
    BY DEF WriteUnacked
  <2> QED
    BY <2>1, <2>2 DEF Editing
<1>3. recordFaults' \in 0..MaxRecordFaults
  BY <1>1, EditsTyped, RecordsAssumption DEF RecordsInv
<1>4. /\ RecordsTypeOK' /\ EdgesLive' /\ HiddenNeedsLoss'
      /\ \A o \in Edits : PayloadKept(edit'[o]) /\ TornAccounted(edit'[o], living')
  BY <1>1, <1>2, <1>3, StatementKeeps
<1> QED
  BY <1>1, <1>4 DEF RecordsInv, LogOrEntry

LEMMA PerformKeeps ==
  ASSUME RecordsInv, NEW e \in Edits, PerformEdit(e)
  PROVE  RecordsInv'
<1> DEFINE then == IF edit[e].kind \in {"add", "remove"} \/ Unseen(e) THEN "over" ELSE "audit"
<1>1. /\ edit[e].at = "write" /\ ~Refused(e) /\ entity' = Written(e, entity) /\ UNCHANGED <<living, logged, recordFaults>>
      /\ edit' = [edit EXCEPT ![e].torn = @ \/ Torn(e, entity'), ![e].at = then]
      /\ logBlurred' = (logBlurred \/ (entity' # entity /\ (Midway(e) \/ Unseen(e))))
  BY DEF PerformEdit, Statement
<1>2. then \in {"write", "audit", "over"} /\ (then = "audit" <=> edit[e].kind \notin {"add", "remove"} /\ ~Unseen(e))
  OBVIOUS
<1>3. logBlurred' \in BOOLEAN /\ recordFaults' \in 0..MaxRecordFaults
  BY <1>1, EditsTyped DEF RecordsInv
<1> HIDE DEF then
<1>4. /\ RecordsTypeOK' /\ EdgesLive' /\ HiddenNeedsLoss'
      /\ \A o \in Edits : PayloadKept(edit'[o]) /\ TornAccounted(edit'[o], living')
      /\ \A o \in Edits \ {e} : edit'[o] = edit[o]
      /\ edit'[e].kind = edit[e].kind /\ edit'[e].content = edit[e].content /\ edit'[e].owner = edit[e].owner
      /\ edit'[e].before = edit[e].before /\ edit'[e].at = then
  BY <1>1, <1>2, <1>3, StatementKeeps
<1>5. /\ edit[e].kind = "delete" => entity' = NoNode
      /\ edit[e].kind # "create" /\ ~entity.exists => entity' = NoNode
      /\ edit[e].kind = "create" \/ (entity.exists /\ edit[e].kind # "delete") => entity'.exists
      /\ edit[e].kind \in {"create", "put", "patch"} /\ entity'.exists => entity'.content = edit[e].content
      /\ edit[e].kind \in {"relink", "add", "remove"} /\ entity'.exists => entity'.content = entity.content
      /\ entity'.exists => entity'.owner = IF edit[e].owner = {} THEN entity.owner ELSE edit[e].owner \cap living
  <2>1. edit[e].at = "write" /\ ~Refused(e) /\ entity' = Written(e, entity)
    BY <1>1
  <2> QED
    BY <2>1, WhatIsWritten
<1>6. /\ edit[e].kind \in EditKinds /\ edit[e].owner \subseteq Related /\ NoNode.exists = FALSE
      /\ edit[e].kind = "create" => ~entity.exists
      /\ edit[e].kind \in {"add", "remove", "delete"} => edit[e].owner = {}
  <2>1. edit[e] \in Editing /\ PayloadKept(edit[e])
    BY EditsTyped DEF RecordsInv
  <2> QED
    BY <1>1, <2>1, NobodyEdits DEF Editing, PayloadKept, Refused
<1>7. ASSUME ~logBlurred'
      PROVE  /\ \A o \in Edits : ReadStands(edit'[o], entity', living') /\ WrittenStands(edit'[o], entity', living')
             /\ \/ logged'.content = NoContent
                \/ entity'.exists /\ entity'.content = logged'.content
                \/ \E o \in Edits : WillTellContent(edit'[o])
             /\ \/ logged'.owner = {}
                \/ entity'.exists /\ entity'.owner = logged'.owner \cap living'
                \/ \E o \in Edits : WillTellOwner(edit'[o])
  <2>1. ~logBlurred /\ (entity' # entity => ~Midway(e) /\ ~Unseen(e))
    BY <1>1, <1>7
  <2>2. \A o \in Edits : ReadStands(edit[o], entity, living) /\ WrittenStands(edit[o], entity, living)
    BY <2>1 DEF RecordsInv
  <2>3. edit[e].kind \in Audited /\ edit[e].before.exists =>
          entity.exists /\ entity.content = edit[e].before.content /\ entity.owner = edit[e].before.owner \cap living
    BY <1>1, <2>2 DEF ReadStands
  <2>4. ~Unseen(e) /\ edit[e].kind \in {"put", "patch", "relink"} =>
          /\ entity.exists /\ entity.content = edit[e].before.content /\ entity.owner = edit[e].before.owner \cap living
    BY <2>3 DEF Unseen, Audited
  <2>5. WrittenStands(edit'[e], entity', living') /\ ReadStands(edit'[e], entity', living')
    <3>1. edit'[e].at # "vet" /\ edit'[e].at # "write"
      BY <1>4 DEF then
    <3>2. edit'[e].at = "audit" => ~Unseen(e)
      BY <1>2, <1>4
    <3> QED
      BY <1>1, <1>4, <1>5, <1>6, <2>4, <3>1, <3>2 DEF WrittenStands, ReadStands
  <2>6. ASSUME entity' # entity, NEW o \in Edits \ {e}
        PROVE  edit[o].at \notin {"vet", "write", "audit"} \/ edit[o].kind \in {"create", "add", "remove"}
    BY <2>1, <2>6 DEF Midway
  <2>7. \A o \in Edits : ReadStands(edit'[o], entity', living') /\ WrittenStands(edit'[o], entity', living')
    <3> SUFFICES ASSUME NEW o \in Edits
                 PROVE  ReadStands(edit'[o], entity', living') /\ WrittenStands(edit'[o], entity', living')
      OBVIOUS
    <3>1. CASE o = e
      BY <2>5, <3>1
    <3>2. CASE o # e /\ entity' = entity
      BY <1>1, <1>4, <2>2, <3>2
    <3>3. CASE o # e /\ entity' # entity
      <4>1. edit[o].at \notin {"vet", "write", "audit"} \/ edit[o].kind \in {"create", "add", "remove"}
        BY <2>6, <3>3
      <4>2. edit'[o] = edit[o]
        BY <1>4, <3>3
      <4> QED
        BY <4>1, <4>2 DEF ReadStands, WrittenStands, Audited
    <3> QED
      BY <3>1, <3>2, <3>3
  <2>8. /\ \/ logged.content = NoContent
           \/ entity.exists /\ entity.content = logged.content
           \/ \E o \in Edits : WillTellContent(edit[o])
        /\ \/ logged.owner = {}
           \/ entity.exists /\ entity.owner = logged.owner \cap living
           \/ \E o \in Edits : WillTellOwner(edit[o])
    BY <2>1 DEF RecordsInv, LogOrEntry
  <2>9. CASE entity' = entity
    <3>1. \A o \in Edits : WillTellContent(edit[o]) => WillTellContent(edit'[o])
      BY <1>1, <1>4 DEF WillTellContent
    <3>2. \A o \in Edits : WillTellOwner(edit[o]) => WillTellOwner(edit'[o])
      BY <1>1, <1>4 DEF WillTellOwner
    <3> QED
      BY <1>1, <2>7, <2>8, <2>9, <3>1, <3>2
  <2>10. CASE entity' # entity
    <3>1. \A o \in Edits : ~WillTellContent(edit[o]) /\ ~WillTellOwner(edit[o])
      BY <1>1, <2>6, <2>10 DEF WillTellContent, WillTellOwner
    <3>2. ~Unseen(e) /\ (then = "audit" <=> edit[e].kind \notin {"add", "remove"})
      BY <1>2, <2>1, <2>10
    <3>3. \/ logged'.content = NoContent
          \/ entity'.exists /\ entity'.content = logged'.content
          \/ WillTellContent(edit'[e])
      <4>1. logged.content = NoContent \/ (entity.exists /\ entity.content = logged.content)
        BY <2>8, <3>1
      <4>2. logged' = logged
        BY <1>1
      <4>3. CASE logged.content = NoContent
        BY <4>2, <4>3
      <4>4. CASE entity.exists /\ entity.content = logged.content /\ edit[e].kind = "delete"
        BY <1>4, <3>2, <4>4 DEF WillTellContent
      <4>5. CASE entity.exists /\ entity.content = logged.content /\ edit[e].kind \in {"put", "patch"}
        BY <1>4, <1>5, <2>4, <3>2, <4>2, <4>5 DEF WillTellContent
      <4>6. CASE entity.exists /\ entity.content = logged.content /\ edit[e].kind \in {"relink", "add", "remove"}
        BY <1>5, <4>2, <4>6
      <4> QED
        BY <1>6, <4>1, <4>3, <4>4, <4>5, <4>6 DEF EditKinds
    <3>4. \/ logged'.owner = {}
          \/ entity'.exists /\ entity'.owner = logged'.owner \cap living'
          \/ WillTellOwner(edit'[e])
      <4>1. logged.owner = {} \/ (entity.exists /\ entity.owner = logged.owner \cap living)
        BY <2>8, <3>1
      <4>2. logged' = logged /\ living' = living
        BY <1>1
      <4>3. CASE logged.owner = {}
        BY <4>2, <4>3
      <4>4. CASE entity.exists /\ entity.owner = logged.owner \cap living /\ edit[e].kind \in {"delete", "relink"}
        BY <1>4, <3>2, <4>4 DEF WillTellOwner
      <4>5. CASE entity.exists /\ entity.owner = logged.owner \cap living /\ edit[e].kind \in {"put", "patch"}
        <5>1. entity'.exists /\ then = "audit" /\ entity.owner = edit[e].before.owner \cap living
          BY <1>5, <2>4, <3>2, <4>5
        <5>2. CASE edit[e].owner \in {{}, edit[e].before.owner}
          BY <1>5, <4>2, <4>5, <5>1, <5>2
        <5>3. CASE edit[e].owner \notin {{}, edit[e].before.owner}
          BY <1>4, <4>5, <5>1, <5>3 DEF WillTellOwner
        <5> QED
          BY <5>2, <5>3
      <4>6. CASE entity.exists /\ entity.owner = logged.owner \cap living /\ edit[e].kind \in {"add", "remove"}
        BY <1>5, <1>6, <4>2, <4>6
      <4> QED
        BY <1>6, <4>1, <4>3, <4>4, <4>5, <4>6 DEF EditKinds
    <3> QED
      BY <2>7, <3>3, <3>4
  <2> QED
    BY <2>9, <2>10
<1> QED
  BY <1>4, <1>7 DEF RecordsInv, LogOrEntry

LEMMA LogEntryKeeps ==
  ASSUME RecordsInv, NEW e \in Edits, LogEntry(e)
  PROVE  RecordsInv'
<1> DEFINE x == [NoEdit EXCEPT !.at = "over"]
<1>1. edit[e].at = "audit" /\ logged' = Told(e) /\ UNCHANGED <<entity, living, logBlurred, recordFaults>>
  BY DEF LogEntry
<1>2. edit' = [edit EXCEPT ![e] = x]
  BY DEF LogEntry, Over
<1>3. x \in Editing /\ x.at = "over" /\ x.torn = FALSE /\ PayloadKept(x)
  BY NobodyEdits DEF NoEdit
<1> HIDE DEF x
<1>4. edit \in [Edits -> Editing] /\ edit[e] \in Editing
  BY EditsTyped DEF RecordsInv
<1>5. edit'[e] = x /\ (\A o \in Edits \ {e} : edit'[o] = edit[o]) /\ edit' \in [Edits -> Editing]
  BY <1>2, <1>3, <1>4
<1>6. edit[e].kind \in {"create", "put", "patch", "relink", "delete"}
  BY <1>1, <1>4 DEF RecordsInv, PayloadKept, Editing, EditKinds
<1>7. /\ edit[e].kind = "create" => logged'.content = logged.content /\ logged'.owner = logged.owner
      /\ edit[e].kind = "delete" => logged'.content = NoContent /\ logged'.owner = {}
      /\ edit[e].kind = "relink" => logged'.content = logged.content /\ logged'.owner = {}
      /\ edit[e].kind \in {"put", "patch"} =>
           /\ logged'.content = IF edit[e].content # edit[e].before.content THEN edit[e].content ELSE logged.content
           /\ logged'.owner = IF edit[e].owner \notin {{}, edit[e].before.owner} THEN edit[e].owner ELSE logged.owner
      /\ logged' \in [content : Contents \cup {NoContent}, owner : SUBSET Related]
  <2>1. logged \in [content : Contents \cup {NoContent}, owner : SUBSET Related]
    BY DEF RecordsInv, RecordsTypeOK
  <2>2. edit[e].content \in Contents \cup {NoContent} /\ edit[e].owner \in SUBSET Related
    BY <1>4 DEF Editing
  <2>3. CASE edit[e].kind = "create"
    <3>1. logged' = logged
      BY <1>1, <2>3 DEF Told
    <3> QED
      BY <2>1, <2>3, <3>1
  <2>4. CASE edit[e].kind = "delete"
    <3>1. logged' = Untold
      BY <1>1, <2>4 DEF Told
    <3> QED
      BY <2>4, <3>1 DEF Untold
  <2>5. CASE edit[e].kind = "relink"
    <3>1. logged' = [logged EXCEPT !.owner = {}]
      BY <1>1, <2>5 DEF Told
    <3> QED
      BY <2>1, <2>5, <3>1
  <2>6. CASE edit[e].kind \in {"put", "patch"}
    <3>1. logged' = [content |-> IF edit[e].content # edit[e].before.content THEN edit[e].content ELSE logged.content,
                     owner |-> IF edit[e].owner \notin {{}, edit[e].before.owner} THEN edit[e].owner ELSE logged.owner]
      BY <1>1, <2>6 DEF Told
    <3> QED
      BY <2>1, <2>2, <2>6, <3>1
  <2> QED
    BY <1>6, <2>3, <2>4, <2>5, <2>6
<1>8. RecordsTypeOK'
  BY <1>1, <1>5, <1>7 DEF RecordsInv, RecordsTypeOK, Editing
<1>9. EdgesLive' /\ HiddenNeedsLoss'
  BY <1>1 DEF RecordsInv, EdgesLive, HiddenNeedsLoss
<1>10. \A o \in Edits : PayloadKept(edit'[o]) /\ TornAccounted(edit'[o], living')
  <2> SUFFICES ASSUME NEW o \in Edits PROVE PayloadKept(edit'[o]) /\ TornAccounted(edit'[o], living')
    OBVIOUS
  <2>1. CASE o = e
    BY <1>3, <1>5, <2>1 DEF TornAccounted
  <2>2. CASE o # e
    BY <1>1, <1>5, <2>2 DEF RecordsInv
  <2> QED
    BY <2>1, <2>2
<1>11. ASSUME ~logBlurred'
       PROVE  /\ \A o \in Edits : ReadStands(edit'[o], entity', living') /\ WrittenStands(edit'[o], entity', living')
              /\ \/ logged'.content = NoContent
                 \/ entity'.exists /\ entity'.content = logged'.content
                 \/ \E o \in Edits : WillTellContent(edit'[o])
              /\ \/ logged'.owner = {}
                 \/ entity'.exists /\ entity'.owner = logged'.owner \cap living'
                 \/ \E o \in Edits : WillTellOwner(edit'[o])
  <2>1. ~logBlurred
    BY <1>1, <1>11
  <2>2. \A o \in Edits : ReadStands(edit[o], entity, living) /\ WrittenStands(edit[o], entity, living)
    BY <2>1 DEF RecordsInv
  <2>3. \A o \in Edits : ReadStands(edit'[o], entity', living') /\ WrittenStands(edit'[o], entity', living')
    <3> SUFFICES ASSUME NEW o \in Edits
                 PROVE  ReadStands(edit'[o], entity', living') /\ WrittenStands(edit'[o], entity', living')
      OBVIOUS
    <3>1. CASE o = e
      BY <1>3, <1>5, <3>1 DEF ReadStands, WrittenStands
    <3>2. CASE o # e
      BY <1>1, <1>5, <2>2, <3>2
    <3> QED
      BY <3>1, <3>2
  <2>4. edit[e].kind \in {"put", "patch"} =>
          /\ entity.exists /\ entity.content = edit[e].content
          /\ edit[e].owner # {} => entity.owner = edit[e].owner \cap living
    BY <1>1, <2>2 DEF WrittenStands
  <2>5. \/ logged'.content = NoContent
        \/ entity'.exists /\ entity'.content = logged'.content
        \/ \E o \in Edits : WillTellContent(edit'[o])
    <3>1. CASE WillTellContent(edit[e])
      BY <1>1, <1>7, <2>4, <3>1 DEF WillTellContent
    <3>2. CASE ~WillTellContent(edit[e])
      <4>1. logged'.content = logged.content
        BY <1>1, <1>6, <1>7, <3>2 DEF WillTellContent
      <4>2. \/ logged.content = NoContent
            \/ entity.exists /\ entity.content = logged.content
            \/ \E o \in Edits : WillTellContent(edit[o])
        BY <2>1 DEF RecordsInv, LogOrEntry
      <4>3. \A o \in Edits : WillTellContent(edit[o]) => WillTellContent(edit'[o])
        BY <1>5, <3>2
      <4> QED
        BY <1>1, <4>1, <4>2, <4>3
    <3> QED
      BY <3>1, <3>2
  <2>6. \/ logged'.owner = {}
        \/ entity'.exists /\ entity'.owner = logged'.owner \cap living'
        \/ \E o \in Edits : WillTellOwner(edit'[o])
    <3>1. CASE WillTellOwner(edit[e])
      BY <1>1, <1>7, <2>4, <3>1 DEF WillTellOwner
    <3>2. CASE ~WillTellOwner(edit[e])
      <4>1. logged'.owner = logged.owner
        BY <1>1, <1>6, <1>7, <3>2 DEF WillTellOwner
      <4>2. \/ logged.owner = {}
            \/ entity.exists /\ entity.owner = logged.owner \cap living
            \/ \E o \in Edits : WillTellOwner(edit[o])
        BY <2>1 DEF RecordsInv, LogOrEntry
      <4>3. \A o \in Edits : WillTellOwner(edit[o]) => WillTellOwner(edit'[o])
        BY <1>5, <3>2
      <4> QED
        BY <1>1, <4>1, <4>2, <4>3
    <3> QED
      BY <3>1, <3>2
  <2> QED
    BY <2>3, <2>5, <2>6
<1> QED
  BY <1>8, <1>9, <1>10, <1>11 DEF RecordsInv, LogOrEntry

LEMMA RelatedDeletedKeeps ==
  ASSUME RecordsInv, NEW t \in Related, RelatedDeleted(t)
  PROVE  RecordsInv'
<1>1. /\ t \in living /\ living' = living \ {t}
      /\ entity' = [entity EXCEPT !.owner = @ \ {t}, !.links = @ \ {t}]
      /\ UNCHANGED <<edit, logged, logBlurred, recordFaults>>
  BY DEF RelatedDeleted
<1>2. /\ entity' \in Nodes /\ entity'.exists = entity.exists /\ entity'.content = entity.content
      /\ entity'.owner = entity.owner \ {t} /\ entity'.links = entity.links \ {t}
  BY <1>1, EditsTyped DEF RecordsInv, Nodes
<1>3. RecordsTypeOK'
  BY <1>1, <1>2 DEF RecordsInv, RecordsTypeOK
<1>4. EdgesLive'
  <2>1. ~entity.exists => entity' = NoNode
    <3>1. \A a, b \in Nodes : a.exists = b.exists /\ a.content = b.content /\ a.owner = b.owner /\ a.links = b.links => a = b
      BY DEF Nodes
    <3>2. ~entity.exists => entity = NoNode
      BY DEF RecordsInv, EdgesLive
    <3>3. ~entity.exists => entity'.owner = {} /\ entity'.links = {} /\ NoNode \in Nodes
      BY <1>2, <3>2, NobodyEdits
    <3> QED
      BY <1>2, <3>1, <3>2, <3>3, NobodyEdits
  <2> QED
    BY <1>1, <1>2, <2>1 DEF RecordsInv, EdgesLive, Single
<1>5. HiddenNeedsLoss'
  <2>1. living' # Related
    BY <1>1
  <2> QED
    BY <2>1 DEF HiddenNeedsLoss
<1>6. \A o \in Edits : PayloadKept(edit'[o]) /\ TornAccounted(edit'[o], living')
  BY <1>1 DEF RecordsInv, TornAccounted
<1>7. entity.owner \subseteq living
  BY DEF RecordsInv, EdgesLive
<1>8. ~logBlurred' => \A o \in Edits : ReadStands(edit'[o], entity', living') /\ WrittenStands(edit'[o], entity', living')
  <2> SUFFICES ASSUME ~logBlurred', NEW o \in Edits
               PROVE  ReadStands(edit'[o], entity', living') /\ WrittenStands(edit'[o], entity', living')
    OBVIOUS
  <2>1. ReadStands(edit[o], entity, living) /\ WrittenStands(edit[o], entity, living) /\ edit'[o] = edit[o]
    BY <1>1 DEF RecordsInv
  <2>2. ReadStands(edit'[o], entity', living')
    BY <1>1, <1>2, <2>1 DEF ReadStands
  <2>3. WrittenStands(edit'[o], entity', living')
    BY <1>1, <1>2, <2>1 DEF WrittenStands
  <2> QED
    BY <2>2, <2>3
<1>9. LogOrEntry'
  <2>1. \A s : entity.owner = s \cap living => entity'.owner = s \cap living'
    BY <1>1, <1>2
  <2> QED
    BY <1>1, <1>2, <2>1 DEF RecordsInv, LogOrEntry
<1> QED
  BY <1>3, <1>4, <1>5, <1>6, <1>8, <1>9 DEF RecordsInv

LEMMA RecordsHold == RecordsSpec => []RecordsInv
<1>1. ASSUME RecordsInv, [RecordsNext]_recordsVars PROVE RecordsInv'
  <2>1. CASE RecordsNext
    BY <1>1, <2>1, RequestKeeps, ReadBeforeKeeps, ValidateKeeps, PerformKeeps, RefusedKeeps,
       WriteUnackedKeeps, LogEntryKeeps, RequestStopsKeeps, RelatedDeletedKeeps
    DEF RecordsNext
  <2>2. CASE UNCHANGED recordsVars
    <3>1. /\ entity' = entity /\ living' = living /\ edit' = edit /\ logged' = logged
          /\ logBlurred' = logBlurred /\ (logBlurred' <=> logBlurred) /\ recordFaults' = recordFaults
      BY <2>2 DEF recordsVars
    <3>2. RecordsTypeOK' /\ EdgesLive' /\ HiddenNeedsLoss'
      BY <1>1, <3>1 DEF RecordsInv, RecordsTypeOK, EdgesLive, HiddenNeedsLoss
    <3>3. LogOrEntry'
      BY <1>1, <3>1 DEF RecordsInv, LogOrEntry
    <3> QED
      BY <1>1, <3>1, <3>2, <3>3 DEF RecordsInv
  <2> QED
    BY <1>1, <2>1, <2>2
<1> QED
  BY <1>1, RecordsStart, PTL DEF RecordsSpec

\* However requests for one record of AbstractService overlap, however often a
\* statement is run again and whenever related nodes are deleted, it has one
\* owner at most, is not hidden but by a loss, is not half written but for one,
\* and the audit log tells it unless a write went unseen.
THEOREM RecordsKept == RecordsSpec => []RecordsSound
<1>1. ASSUME RecordsInv PROVE RecordsSound
  <2>1. OneOwner
    <3>1. Single(entity.owner)
      BY <1>1 DEF RecordsInv, EdgesLive
    <3>2. CASE entity.owner = {}
      BY <3>2, FS_EmptySet DEF OneOwner
    <3>3. CASE entity.owner # {}
      <4>1. PICK t \in entity.owner : TRUE
        BY <3>3
      <4>2. entity.owner = {t}
        BY <3>1, <4>1 DEF Single
      <4> QED
        BY <4>2, FS_Singleton DEF OneOwner
    <3> QED
      BY <3>2, <3>3
  <2>2. TornNeedsLoss
    BY <1>1 DEF RecordsInv, TornNeedsLoss, TornAccounted, Given
  <2>3. LogAccounts
    <3> SUFFICES ASSUME \A e \in Edits : edit[e].at \in {"new", "over"}, ~logBlurred
                 PROVE  /\ logged.content # NoContent => entity.exists /\ entity.content = logged.content
                        /\ logged.owner # {} => entity.exists /\ entity.owner = logged.owner \cap living
      BY DEF LogAccounts
    <3>1. \A e \in Edits : ~WillTellContent(edit[e]) /\ ~WillTellOwner(edit[e])
      BY DEF WillTellContent, WillTellOwner
    <3> QED
      BY <1>1, <3>1 DEF RecordsInv, LogOrEntry
  <2> QED
    BY <1>1, <2>1, <2>2, <2>3 DEF RecordsInv, RecordsSound
<1> QED
  BY <1>1, RecordsHold, PTL
=============================================================================
