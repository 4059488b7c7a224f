--------------------------- MODULE SubscriptionSync ---------------------------
(***************************************************************************)
(* What the handlers of subscription and invoice events do to the billing  *)
(* data of one company: Stripe's subscriptions, the local subscription     *)
(* records, and the company's activity, credits, features and deletion.    *)
(*                                                                         *)
(* A handler is a sequence of awaits.  It reads the previous record, asks  *)
(* Stripe for the current state, writes what it was told, and decides from *)
(* the event's payload, taken when Stripe emitted it.  Handlers run side   *)
(* by side, and next to the API calls that start a trial, subscribe,       *)
(* change the plan or cancel.                                              *)
(*                                                                         *)
(* A plan's tokens and features are named by its price.  Intake and        *)
(* retries are StripeWebhook's; balances are CompanyCredits'.              *)
(***************************************************************************)
EXTENDS Integers, Sequences, SequencesExt

CONSTANTS Subs,       \* Stripe subscriptions of the company's customer
          Prices,     \* recurring prices
          Free,       \* the prices of amount 0: the trial price
          Featured,   \* the prices that carry features
          Workers,    \* slots of the webhook worker
          None,       \* no subscription, no price
          Moves,      \* what Stripe and the clients do besides subscribing and paying
          Ordered,    \* events are handled in order and one at a time
          MaxEvents,  \* bound: events Stripe emits
          MaxFaults   \* bound: calls of a handler that fail

AllMoves == {"trial", "dunning", "end", "cancel", "change", "dashboard", "overlap"}

ASSUME PricesAssumption == /\ Free \subseteq Prices /\ Featured \subseteq Prices
                           /\ None \notin Subs \cup Prices
ASSUME SwitchesAssumption == /\ Moves \subseteq AllMoves /\ Ordered \in BOOLEAN
                             /\ MaxEvents \in Nat /\ MaxFaults \in Nat

VARIABLES stripe,    \* [Subs -> status and price at Stripe]
          local,     \* [Subs -> status and price of the local record]
          company,   \* isActiveSubscription, whose tokens, whose features, deletion
          queue,     \* events emitted and not yet taken
          emitted,   \* how many there were
          worker,    \* [Workers -> the event in the slot and what its handler has read]
          api,       \* the API call under way
          ended,     \* history: some subscription has been canceled or its trial is over
          faults

vars == <<stripe, local, company, queue, emitted, worker, api, ended, faults>>

Statuses == {"none", "incomplete", "trialing", "active", "past_due", "canceled"}
EndStates == {"past_due", "canceled"}
Price == Prices \cup {None}
Record == [status : Statuses, price : Price]
Event == [kind : {"sub", "paid"}, sub : Subs, status : Statuses, price : Prices]
NoEvent == [kind |-> "none"]
WorkerSteps == {"idle", "previous", "fetch", "sync", "off", "zero", "cover", "strip",
                "schedule", "prorate", "allocate", "on", "fill", "look", "grow", "clear",
                "unschedule"}
ApiSteps == {"idle", "record", "grant", "activate", "reprice", "restatus"}

Company == [active : BOOLEAN, plan : Price, features : SUBSET Prices, deletion : BOOLEAN]
Slot == [pc : WorkerSteps, event : Event \cup {NoEvent}, prev : Record, snap : Statuses,
         plan : Price, drop : SUBSET Prices]
Call == [pc : ApiSteps, sub : Subs \cup {None}, status : Statuses, price : Price]

TypeOK ==
  /\ stripe \in [Subs -> Record] /\ local \in [Subs -> Record]
  /\ \A s \in Subs : stripe[s].status # "none" => stripe[s].price \in Prices
  /\ company \in Company
  /\ queue \in Seq(Event) /\ emitted \in 0..MaxEvents
  /\ worker \in [Workers -> Slot]
  /\ api \in Call /\ (api.pc # "idle" => api.sub \in Subs)
  /\ \A w \in Workers : worker[w].pc # "idle" => worker[w].event \in Event
  /\ \A w \in Workers : worker[w].pc = "grow" => worker[w].plan \in Prices
  /\ ended \in BOOLEAN /\ faults \in 0..MaxFaults

NoRecord == [status |-> "none", price |-> None]
IdleSlot == [pc |-> "idle", event |-> NoEvent, prev |-> NoRecord, snap |-> "none",
             plan |-> None, drop |-> {}]
IdleApi == [pc |-> "idle", sub |-> None, status |-> "none", price |-> None]

Init ==
  /\ stripe = [s \in Subs |-> NoRecord] /\ local = [s \in Subs |-> NoRecord]
  /\ company = [active |-> FALSE, plan |-> None, features |-> {}, deletion |-> FALSE]
  /\ queue = <<>> /\ emitted = 0
  /\ worker = [w \in Workers |-> IdleSlot]
  /\ api = IdleApi
  /\ ended = FALSE /\ faults = 0

-----------------------------------------------------------------------------
(* Stripe.  A change emits the events that carry the state it leads to. *)

SubEvent(s, status, p) == [kind |-> "sub", sub |-> s, status |-> status, price |-> p]
PaidEvent(s, p) == [kind |-> "paid", sub |-> s, status |-> "active", price |-> p]

Become(s, status, p, paid) ==
  LET news == <<SubEvent(s, status, p)>> \o (IF paid THEN <<PaidEvent(s, p)>> ELSE <<>>)
  IN /\ emitted + Len(news) <= MaxEvents
     /\ emitted' = emitted + Len(news)
     /\ queue' = queue \o news
     /\ stripe' = [stripe EXCEPT ![s] = [status |-> status, price |-> p]]

\* The client pays with the secret the API call returned, or pays what is due.
Pay(s) ==
  /\ stripe[s].status \in {"incomplete", "past_due"}
  /\ ~(api.pc = "record" /\ api.sub = s)
  /\ Become(s, "active", stripe[s].price, TRUE)
  /\ UNCHANGED <<local, company, worker, api, ended, faults>>

\* The trial runs out on its free price; Stripe settles an invoice of 0.
TrialEnds(s) ==
  /\ stripe[s].status = "trialing" /\ api.sub # s
  /\ Become(s, "active", stripe[s].price, TRUE)
  /\ ended' = TRUE
  /\ UNCHANGED <<local, company, worker, api, faults>>

PastDue(s) ==
  /\ "dunning" \in Moves
  /\ stripe[s].status = "active"
  /\ Become(s, "past_due", stripe[s].price, FALSE)
  /\ UNCHANGED <<local, company, worker, api, ended, faults>>

\* Stripe gives a debtor up, or the subscription is ended from outside.
StripeEnds(s) ==
  /\ "end" \in Moves
  /\ stripe[s].status \in {"active", "past_due"}
  /\ Become(s, "canceled", stripe[s].price, FALSE)
  /\ ended' = TRUE
  /\ UNCHANGED <<local, company, worker, api, faults>>

\* Another paid price is set in Stripe's dashboard.
DashboardChange(s, p) ==
  /\ "dashboard" \in Moves
  /\ stripe[s].status = "active" /\ p \notin Free \cup {stripe[s].price}
  /\ Become(s, "active", p, FALSE)
  /\ UNCHANGED <<local, company, worker, api, ended, faults>>

-----------------------------------------------------------------------------
(* API calls: Stripe first, the local record in later awaits. *)

Live(s) == local[s].status \in {"active", "trialing"}
SetApi(step, s, status, p) == api' = [pc |-> step, sub |-> s, status |-> status, price |-> p]

\* createSubscription of a paid plan, default_incomplete.  Without the move
\* "overlap" no client subscribes before Stripe has ended what went before.
Subscribe(s, p) ==
  /\ api.pc = "idle" /\ stripe[s].status = "none" /\ p \notin Free
  /\ "overlap" \in Moves \/ \A t \in Subs : stripe[t].status \in {"none", "canceled"}
  /\ \A t \in Subs : ~Live(t)
  /\ Become(s, "incomplete", p, FALSE)
  /\ SetApi("record", s, "incomplete", p)
  /\ UNCHANGED <<local, company, worker, ended, faults>>

\* startTrial, for a company that is not active and has no customer yet
StartTrial(s, p) ==
  /\ "trial" \in Moves
  /\ api.pc = "idle" /\ p \in Free
  /\ ~company.active /\ \A t \in Subs : stripe[t].status = "none"
  /\ Become(s, "trialing", p, TRUE)
  /\ SetApi("record", s, "trialing", p)
  /\ UNCHANGED <<local, company, worker, ended, faults>>

WriteRecord ==
  /\ api.pc = "record"
  /\ local' = [local EXCEPT ![api.sub] = [status |-> api.status, price |-> api.price]]
  /\ api' = IF api.status = "trialing" THEN [api EXCEPT !.pc = "grant"] ELSE IdleApi
  /\ UNCHANGED <<stripe, company, queue, emitted, worker, ended, faults>>

Grant ==
  /\ api.pc = "grant"
  /\ company' = [company EXCEPT !.plan = api.price]
  /\ api' = [api EXCEPT !.pc = "activate"]
  /\ UNCHANGED <<stripe, local, queue, emitted, worker, ended, faults>>

Activate ==
  /\ api.pc = "activate"
  /\ company' = [company EXCEPT !.active = TRUE]
  /\ api' = IdleApi
  /\ UNCHANGED <<stripe, local, queue, emitted, worker, ended, faults>>

\* changePlan: leaving a trial or a free price is invoiced at once.
ChangePlan(s, p) ==
  LET status == IF local[s].status = "trialing" THEN "active" ELSE stripe[s].status
  IN /\ "change" \in Moves
     /\ api.pc = "idle" /\ local[s].status # "none"
     /\ stripe[s].status \in {"trialing", "active"} /\ p \notin Free \cup {stripe[s].price}
     /\ Become(s, status, p, stripe[s].price \in Free)
     /\ SetApi("reprice", s, status, p)
     /\ UNCHANGED <<local, company, worker, ended, faults>>

UpdatePrice ==
  /\ api.pc = "reprice"
  /\ local' = [local EXCEPT ![api.sub].price = api.price]
  /\ api' = [api EXCEPT !.pc = "restatus"]
  /\ UNCHANGED <<stripe, company, queue, emitted, worker, ended, faults>>

\* cancelSubscription, immediately
Cancel(s) ==
  /\ "cancel" \in Moves
  /\ api.pc = "idle" /\ local[s].status # "none"
  /\ stripe[s].status \in {"trialing", "active", "past_due"}
  /\ Become(s, "canceled", stripe[s].price, FALSE)
  /\ SetApi("restatus", s, "canceled", stripe[s].price)
  /\ ended' = TRUE
  /\ UNCHANGED <<local, company, worker, faults>>

UpdateStatus ==
  /\ api.pc = "restatus"
  /\ local' = [local EXCEPT ![api.sub].status = api.status]
  /\ api' = IdleApi
  /\ UNCHANGED <<stripe, company, queue, emitted, worker, ended, faults>>

-----------------------------------------------------------------------------
(* The handlers. *)

outside == <<stripe, emitted, api, ended>>
Runs(w, step) == worker[w].pc = step
SubOf(w) == worker[w].event.sub
Of(w, kind) == worker[w].event.kind = kind
Goto(w, step) == worker' = [worker EXCEPT ![w].pc = step]
Done(w) == worker' = [worker EXCEPT ![w] = IdleSlot]
SetCompany(changes) == company' = changes

\* Jobs leave the queue in any order: Stripe promises none, and a failed job
\* comes back later.
Take(w) ==
  /\ Runs(w, "idle")
  /\ \E i \in 1..Len(queue) :
       /\ Ordered => i = 1 /\ \A v \in Workers : Runs(v, "idle")
       /\ worker' = [worker EXCEPT ![w] =
            [IdleSlot EXCEPT !.event = queue[i],
                             !.pc = IF queue[i].kind = "sub" THEN "previous" ELSE "fetch"]]
       /\ queue' = RemoveAt(queue, i)
  /\ UNCHANGED <<outside, local, company, faults>>

\* handleSubscriptionEvent reads the record as it was,
ReadPrevious(w) ==
  /\ Runs(w, "previous")
  /\ worker' = [worker EXCEPT ![w].pc = "fetch", ![w].prev = local[SubOf(w)]]
  /\ UNCHANGED <<outside, queue, local, company, faults>>

\* and both handlers call syncSubscriptionFromStripe: retrieve,
Fetch(w) ==
  /\ Runs(w, "fetch")
  /\ worker' = [worker EXCEPT ![w].pc = "sync", ![w].snap = stripe[SubOf(w)].status]
  /\ UNCHANGED <<outside, queue, local, company, faults>>

\* The payload says the subscription has ended, or that it is active on a
\* free price where the record read earlier said trialing.
TrialOver(w) ==
  LET e == worker[w].event
  IN worker[w].prev.status = "trialing" /\ e.status = "active" /\ e.price \in Free
Deactivates(w) == worker[w].event.status \in EndStates \/ TrialOver(w)

\* then write the status, if there is a record; its price is never written.
Sync(w) ==
  /\ Runs(w, "sync")
  /\ local' = IF local[SubOf(w)].status = "none" THEN local
              ELSE [local EXCEPT ![SubOf(w)].status = worker[w].snap]
  /\ Goto(w, IF Of(w, "paid") THEN "allocate" ELSE IF Deactivates(w) THEN "off" ELSE "prorate")
  /\ UNCHANGED <<outside, queue, company, faults>>

Off(w) ==
  /\ Runs(w, "off")
  /\ SetCompany([company EXCEPT !.active = FALSE])
  /\ Goto(w, "zero")
  /\ UNCHANGED <<outside, queue, local, faults>>

Zero(w) ==
  /\ Runs(w, "zero")
  /\ SetCompany([company EXCEPT !.plan = None])
  /\ Goto(w, "cover")
  /\ UNCHANGED <<outside, queue, local, faults>>

\* removeFeaturesOnSubscriptionEnd: the price's features that no other live
\* subscription carries,
Cover(w) ==
  LET mine == {local[SubOf(w)].price} \cap Featured
      others == {local[s].price : s \in {t \in Subs \ {SubOf(w)} : Live(t)}}
  IN /\ Runs(w, "cover")
     /\ worker' = [worker EXCEPT ![w].pc = "strip", ![w].drop = mine \ others]
     /\ UNCHANGED <<outside, queue, local, company, faults>>

Strip(w) ==
  /\ Runs(w, "strip")
  /\ SetCompany([company EXCEPT !.features = @ \ worker[w].drop])
  /\ Goto(w, "schedule")
  /\ UNCHANGED <<outside, queue, local, faults>>

\* Mutant: deletion is scheduled for every end state.
ScheduleAlways(w) ==
  /\ Runs(w, "schedule")
  /\ SetCompany([company EXCEPT !.deletion = TRUE])
  /\ Goto(w, "prorate")
  /\ UNCHANGED <<outside, queue, local, faults>>

\* scheduleCompanyDeletion, after a trial or a cancellation
Schedule(w) ==
  /\ Runs(w, "schedule")
  /\ SetCompany([company EXCEPT !.deletion =
                   @ \/ TrialOver(w) \/ worker[w].event.status = "canceled"])
  /\ Goto(w, "prorate")
  /\ UNCHANGED <<outside, queue, local, faults>>

\* allocateProratedTokensOnPlanChange, when the payload's price is not the one
\* the record had
Prorate(w) ==
  LET before == worker[w].prev.price
  IN /\ Runs(w, "prorate")
     /\ SetCompany(IF before \in {None, worker[w].event.price} THEN company
                   ELSE [company EXCEPT !.plan = worker[w].event.price])
     /\ Done(w)
     /\ UNCHANGED <<outside, queue, local, faults>>

\* allocateTokensOnPayment reads the record's price,
Allocate(w) ==
  /\ Runs(w, "allocate")
  /\ worker' = [worker EXCEPT ![w].plan = local[SubOf(w)].price,
                              ![w].pc = IF local[SubOf(w)].status = "none" THEN "look" ELSE "on"]
  /\ UNCHANGED <<outside, queue, local, company, faults>>

\* marks the company active
On(w) ==
  /\ Runs(w, "on")
  /\ SetCompany([company EXCEPT !.active = TRUE])
  /\ Goto(w, "fill")
  /\ UNCHANGED <<outside, queue, local, faults>>

\* and writes the price's tokens.
Fill(w) ==
  /\ Runs(w, "fill")
  /\ SetCompany([company EXCEPT !.plan = worker[w].plan])
  /\ Goto(w, "look")
  /\ UNCHANGED <<outside, queue, local, faults>>

\* syncFeaturesOnPayment reads the record's price again, and goes on, to name
\* the company in its result, only if the price carries features.
Look(w) ==
  LET p == local[SubOf(w)].price
  IN /\ Runs(w, "look")
     /\ IF p \in Featured
          THEN worker' = [worker EXCEPT ![w].plan = p, ![w].pc = "grow"]
          ELSE Done(w)
     /\ UNCHANGED <<outside, queue, local, company, faults>>

\* Mutant: features are given to inactive companies only.
GrowInactive(w) ==
  /\ Runs(w, "grow")
  /\ SetCompany(IF company.active THEN company
                ELSE [company EXCEPT !.features = @ \cup {worker[w].plan}])
  /\ Goto(w, "clear")
  /\ UNCHANGED <<outside, queue, local, faults>>

Grow(w) ==
  /\ Runs(w, "grow")
  /\ SetCompany([company EXCEPT !.features = @ \cup {worker[w].plan}])
  /\ Goto(w, "clear")
  /\ UNCHANGED <<outside, queue, local, faults>>

\* A pending deletion is read
Clear(w) ==
  /\ Runs(w, "clear")
  /\ IF company.deletion THEN Goto(w, "unschedule") ELSE Done(w)
  /\ UNCHANGED <<outside, queue, local, company, faults>>

\* and taken back: clearDeletionSchedule.
Unschedule(w) ==
  /\ Runs(w, "unschedule")
  /\ SetCompany([company EXCEPT !.deletion = FALSE])
  /\ Done(w)
  /\ UNCHANGED <<outside, queue, local, faults>>

Fault == faults < MaxFaults /\ faults' = faults + 1

\* The reads and writes before the company is touched throw, or the lookup of
\* a changed price: the job is retried, behind the others.
Retry(w) ==
  /\ \/ worker[w].pc \in {"previous", "fetch", "sync"}
     \/ Runs(w, "prorate") /\ worker[w].prev.price \notin {None, worker[w].event.price}
  /\ Fault
  /\ queue' = Append(queue, worker[w].event)
  /\ Done(w)
  /\ UNCHANGED <<outside, local, company>>

\* What follows is caught and logged: the handler goes on with its next part.
Swallow(w) ==
  /\ Fault
  /\ \/ worker[w].pc \in {"off", "zero"} /\ Goto(w, "prorate")
     \/ worker[w].pc \in {"cover", "strip"} /\ Goto(w, "schedule")
     \/ worker[w].pc = "schedule" /\ Goto(w, "prorate")
     \/ worker[w].pc \in {"allocate", "on", "fill"} /\ Goto(w, "look")
     \/ worker[w].pc \in {"prorate", "look", "grow", "clear", "unschedule"} /\ Done(w)
  /\ UNCHANGED <<outside, queue, local, company>>

-----------------------------------------------------------------------------
StripeStep(s) == \/ Pay(s) \/ TrialEnds(s) \/ PastDue(s) \/ StripeEnds(s)
                 \/ \E p \in Prices : DashboardChange(s, p)
ApiCall(s) == \/ \E p \in Prices : Subscribe(s, p) \/ StartTrial(s, p) \/ ChangePlan(s, p)
              \/ Cancel(s)
ApiStep == WriteRecord \/ Grant \/ Activate \/ UpdatePrice \/ UpdateStatus
HandlerStep(w) == \/ ReadPrevious(w) \/ Fetch(w) \/ Sync(w) \/ Off(w) \/ Zero(w) \/ Cover(w)
                  \/ Strip(w) \/ Schedule(w) \/ Prorate(w) \/ Allocate(w) \/ On(w)
                  \/ Fill(w) \/ Look(w) \/ Grow(w) \/ Clear(w) \/ Unschedule(w)

Next ==
  \/ \E s \in Subs : StripeStep(s) \/ ApiCall(s)
  \/ ApiStep
  \/ \E w \in Workers : Take(w) \/ HandlerStep(w) \/ Retry(w) \/ Swallow(w)

Spec == Init /\ [][Next]_vars

-----------------------------------------------------------------------------
(* Properties. *)

\* Every event is handled and every API call has returned.
Quiet == queue = <<>> /\ api.pc = "idle" /\ \A w \in Workers : Runs(w, "idle")

Paid(s) == stripe[s].status = "active" /\ stripe[s].price \notin Free

\* Once quiet, the records say what Stripe says.
StatusConverges == Quiet => \A s \in Subs : local[s].status = stripe[s].status

\* No company pays for two subscriptions at once.
OnePaidSubscription == \A s, t \in Subs : Paid(s) /\ Paid(t) => s = t

\* Once quiet, a company with a paid subscription is active and not waiting
\* for its deletion.
PaidIsServed == Quiet /\ (\E s \in Subs : Paid(s)) => company.active /\ ~company.deletion

\* Once quiet, a company all of whose subscriptions have ended, or never were
\* paid, has neither activity nor a plan's tokens nor features.
EndedIsCutOff ==
  Quiet /\ (\A s \in Subs : stripe[s].status \in {"none", "incomplete"} \cup EndStates)
    => ~company.active /\ company.plan = None /\ company.features = {}

\* Once quiet, the tokens of an active company are those of the plan it pays.
TokensFollowPlan ==
  Quiet /\ company.active => \A s \in Subs : Paid(s) => company.plan = stripe[s].price

\* Once quiet, what is paid for can be used.
FeaturesFollowPlan ==
  Quiet => \A s \in Subs : Paid(s) /\ stripe[s].price \in Featured
                             => stripe[s].price \in company.features

\* Once quiet, the records are Stripe's, and a company is served if it pays, with
\* the tokens and the features of the plan it pays, and cut off if all has ended.
ServiceFollowsPayment ==
  StatusConverges /\ PaidIsServed /\ EndedIsCutOff /\ TokensFollowPlan /\ FeaturesFollowPlan

\* In whatever order events are handled, however often they are retried and
\* whatever fails on the way, no company is up for deletion before one of its
\* subscriptions was canceled or its trial ran out.
DeletionNeedsEnd == company.deletion => ended
=============================================================================
