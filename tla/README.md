# nestjs-neo4jsonapi in TLA+

`nestjs-neo4jsonapi` is a NestJS toolkit over Neo4j: JSON:API entities,
authentication, billing through Stripe, metered AI, agents, and background
workers on BullMQ. Several processes (API instances and workers) share Neo4j,
Redis and Stripe; none of them holds a lock over more than one Neo4j statement.
What is hard in it is what lies between two awaits: a read and the write that
rests on it, an event and the handler that comes later, an answer that is lost.
These modules model those parts.

Paths below are relative to the repository root, and line numbers refer to it.

## 1. Inventory

### Six components in detail

**Stripe webhook intake and queue** (`src/foundations/stripe-webhook`: the
controller, `stripe-webhook-event.repository.ts`, the queue of the same name).
*State*: one `StripeWebhookEvent` node per Stripe event, unique by the event's
id, with a status and a retry count; one BullMQ job per queued event.
*Operations*: a delivery looks for the node, creates it, adds the job and
answers, in separate awaits.
*Interaction*: Stripe delivers and redelivers over HTTP; the queue feeds the
worker.
*Hard*: two deliveries of an event at once; a failure or a crash between
creating the node and adding the job.
*Correct if*: an event is queued at most once, and one that was accepted is
processed.

**Stripe webhook worker** (`stripe-webhook.processor.ts`, `process`).
*State*: the job's attempts and lock, the node's status.
*Operations*: mark `processing`, run the handler, mark `completed`; or mark
`failed` with one retry more and rethrow. BullMQ retries, and takes a job back
whose lock has expired.
*Hard*: the handler succeeded and the status write failed; the lock is lost
under a live worker; the process dies at any await.
*Correct if*: the handler runs a bounded number of times, by one slot at a time
while locks hold, and the node tells how the job ended.

**Subscription and invoice handlers** (`stripe-webhook.processor.ts`,
`stripe-subscription-admin.service.ts`, `feature-sync.service.ts`,
`token-allocation.service.ts`, `trial.service.ts`, `company.repository.ts`).
*State*: Stripe's subscriptions; the local record of each; the company's
`isActiveSubscription`, tokens, features and scheduled deletion.
*Operations*: the API calls subscribe, start a trial, change the plan, cancel;
the handlers of `customer.subscription.*` and `invoice.paid`.
*Interaction*: API calls write to Stripe first and to Neo4j after; handlers ask
Stripe for the current status but decide from the payload of the event, which
tells the state when it was emitted.
*Hard*: events handled late, twice, out of order or side by side; part of a
handler failing while the rest goes on.
*Correct if*: records converge to what Stripe says, a paying company is served,
one that has ended is cut off, tokens and features follow the plan, and nobody
is scheduled for deletion without an end.

**Company credits** (`company.repository.ts`, `company.service.ts`,
`token-allocation.service.ts`, `tokenusage.service.ts`, `credit-gate.ts`).
*State*: the monthly and the extra balance, `aiEnabled`.
*Operations*: the pre-flight check of an operation, a deduction per usage record
in an event listener, allocation of a plan's tokens, one-time purchase,
referral reward, reset at the end of a subscription.
*Hard*: many deductions in flight, a purchase that reads in one await and writes
in another, a job run again, a statement repeated because its answer was lost.
*Correct if*: balances add up, the debt is bounded by what was admitted, and
everyone hears once that AI was switched off.

**Embedder rate limit** (`src/core/llm/services/embedder-token-bucket.service.ts`,
`rate-limited-embedder.ts`).
*State*: one token bucket in Redis for all processes; in each process a gate
with slots and a queue of waiters.
*Operations*: consume (a Lua script, with waits and a deadline), call the
provider within the gate, refund and retry after a 429.
*Hard*: stamps are taken in one process and applied in Redis later; a waiter
reserves nothing; slots are handed over rather than released.
*Correct if*: the rate is kept, no slot is lost or doubled, every request ends.

**Operator approvals** (`assistant.service.ts`, `src/agents/operator`,
`assistant-action`).
*State*: the LangGraph thread of each run with its checkpoint (Redis or memory),
the `AssistantAction` node of each frozen call, the conversation.
*Operations*: a turn runs the agent; a destructive tool call freezes the run and
creates a pending action; approving or denying resumes it; a cron expires what
nobody answered.
*Hard*: two answers at once; expiry racing an approval; a process that restarts
while runs are frozen; runs of minutes between the claim and the mark.
*Correct if*: a destructive tool runs at most once and only when approved,
statuses tell the truth, nothing stays pending forever.

### The other components modelled

| component | code | what is hard in it |
| --- | --- | --- |
| OAuth server | `foundations/oauth` | a code or a refresh token is looked up in one await and used up in another; replay revokes a family while it grows |
| Two-factor authentication | `foundations/two-factor` | attempts, challenges and backup codes are read, compared and written apart; removing a factor races enabling the requirement |
| Waitlist and registration | `foundations/auth`, `waitlist`, `user`, `company` | company, user and waitlist entry in separate statements, by password or through a provider |
| Account codes | `auth.repository.ts`, `auth.service.ts`, `foundations/user` | one code serves activation, reset and invitation, and each issue overwrites it |
| Trial start | `trial-queue`, `stripe-trial`, `stripe-customer` | a job that may stop between Stripe's customer, Stripe's subscription and their local records |
| Referral | `foundations/referral` | a code generated by concurrent visits; completion and two awards in separate writes |
| WebSocket clients | `redis.client.storage.service.ts`, `event.gateway.ts` | a user's set and hashes in Redis, expiring apart, cleaned up by many |
| Presence | `core/websocket` presence service and cron | read, change and write back of one Redis value |
| HTTP cache | `core/cache` | a response stored after the invalidation that should have removed it |
| Queues and chunk pipeline | how-to and chunk services and processors | chunks of an earlier pass that are still at work; jobs deferred without credits |
| Community detection and summaries | `agents/community.detector`, `community.summariser` | a summary computed from members that have changed; a cron that queues a backlog again |
| LLM connections and failover | `ai-connection-resolver.service.ts` and the services that call a model | cooldowns written by concurrent calls, snapshots refreshed under way |
| LLM request repair | `unsupported-param-fetch.ts` | what one request learns changes every later one; loops of refusals |
| LLM calls | `llm.service.ts` | retries, deadlines, tool loops, and what of it is charged |
| Contextualiser | `agents/contextualiser` | a graph with a budget of calls shared by its nodes |
| Assistant threads | `assistant.service.ts`, `assistant-message.repository.ts` | positions read in one await and used in another |
| Entity records and their audit log | `core/neo4j/abstracts`, `audit.service.ts` | validation, write and audit in separate statements |
| Document chunking | `foundations/chunker` | limits, merging, and embeddings that fail |
| Entity lists and JSON:API documents | `core/jsonapi`, `abstract.repository.ts` | pages cut from rows, lists that change while they are read |
| Stripe products and prices | `stripe-price`, `stripe-product` | Stripe first and the graph after, beside synchronisations |
| Role permissions | `foundations/rbac` | reconciliation by several processes that start at once |

### Components not modelled

| component | why |
| --- | --- |
| Other Stripe entities (invoices, customers, promotion codes, usage) | thin calls to Stripe with one statement after; pausing and cancellation at period end are not modelled yet |
| Sessions and sign-in | one node per session, created, refreshed and deleted by one statement each |
| Migrator | two instances that start together run the same migrations, and the constraint on the version stops the second |
| Notifications and push, MCP server, content CRUD | one statement or one outside call per request |
| Other retrieval agents, prompting, models | sequential; what they do is prompts and answers. A model that is needed and fails to load never resolves its promise (`model-manager.service.ts`) |
| Neo4j access, documents and editor formats, logging, bootstrap, generators, evaluation | no state of their own, start-up code, or tools for developers |

`PROJECT.json` lists every component with its files, its status and the reason.

## 2. How the project is built, and what is left

Modules were written in the order of what the system loses when a part goes
wrong: money (webhook, credits, subscriptions), the shared limit and the
approvals, then what guards users, what shows them data, and what reads and
writes content. Each module has one component's state and one action per await,
since an await is where others come in; each has its own type invariant and the
promise of the component, a conjunction of named parts.

Abstract specifications: `WebhookContract` is what the webhook intake and worker
promise together, and is implemented by `StripeWebhook` under a refinement
mapping, model-checked and proved. Two modules carry their specification as a
history beside the state: `EmbedderLimit` an exact bucket (`level`),
`CompanyCredits` an account of what was given, used and told.

Left to do: pausing and cancellation at period end in `SubscriptionSync`.

## 3. Modules

Every module names its bounds among its CONSTANTS and has one type invariant.
Actions are named for the code where it has a name. An operator whose comment
begins with "Mutant" is not used by the specification: it is a plausible bug of
the definition below it, kept so that each property can be seen to fail. The
`MC...` modules extend the modules a run explores and define its symmetry.

### StripeWebhook, WebhookContract

`record` is the node, `request` an HTTP delivery, `job` BullMQ's job, named by
the delivery that added it, `worker` a slot.

| code | actions |
| --- | --- |
| `StripeWebhookController.handleWebhook` | `Deliver`, `Find`, `Create`, `Add`, and `RequestFails`, `CreateUnacked`, `AddUnacked` for calls that throw before or after their effect |
| `StripeWebhookEventRepository` | the writes within `Create`, `Mark`, `Complete`, `Fail` |
| `StripeWebhookProcessor.process` | `Mark`, `Handle`, `HandleThrows`, `Complete`, `Fail`, `Return`, `Throw`, and `MarkFails`, `CompleteFails`, `FailFails` |
| BullMQ (not under `src/`) | `Take`, `Stalled`, `LoseLock`, and the attempts in `Throw` |
| the processes | `ApiCrash`, `WorkerCrash` |

`WebhookContract` says what the two promise together: an event is written
down, queued, settled; its handler runs only once it is queued and at most
`MaxRuns` times. `StripeWebhook` implements it under the mapping `Phase`, with
`MaxRuns` the attempts plus the stalled recoveries.

### CompanyCredits

`monthly` and `extra` are the balances in the smallest unit the code keeps, so
its rounding is exact. `Charged` is the SET clause of `useCredits`, one
statement; an allocation and a purchase (`ReadExtra`, `WriteExtra`; `ReadFlag`,
`WriteTokens`, `Tell`) read in one await and write in a later one, and their job
may end anywhere (`Lose`) and run again (`Rerun`). `DeductUnacked` is a
statement that commits, loses its answer and is repeated by the driver wrapper.
`credited`, `spent`, `lapses` and `told` record what happened, to compare the
balances and the events with. `clobbered` and `blurred` mark the runs the
properties set aside: a purchase that wrote over a balance it had not read or
wrote a second time, a flag changed under its writer.

`SequentialSet` says whether a SET clause reads what its earlier items have
assigned. `company.repository.ts:424` needs that it does not. Cypher's manual
does not settle it for two properties of one node, so the model has a switch;
the runs and the theorem take it to be FALSE, and with TRUE the ledger loses the
spill of a deduction that empties the monthly balance.

### SubscriptionSync

`stripe` is Stripe's side and emits events that carry the state a change led to;
`local` holds the records, `company` the fields of the company, `api` the call
under way, `worker` the handlers. Each await of a handler is an action:
`ReadPrevious`, `Fetch`, `Sync`, then for an end `Off`, `Zero`, `Cover`,
`Strip`, `Schedule`, then `Prorate`; for a payment `Allocate`, `On`, `Fill`,
`Look`, `Grow`, `Clear`, `Unschedule`. `Retry` is a handler that throws and is
queued again; `Swallow` is a part that is caught and logged, after which the
handler goes on. `Moves` chooses what Stripe and the clients do, `Ordered`
whether events are handled in order and one at a time.

Abstractions: a plan's tokens and features are named by its price, and every
price carries tokens; `unpaid` and `incomplete_expired` are treated by the code
as `past_due` and are folded into it; a payment failure is not an event of its
own.

### EmbedderLimit

Time is counted in the time the bucket takes to refill one token, and is
relative: a command on its way carries its age, the bucket the age of
`lastRefillMs`. `Grant` and `Deny` are `CONSUME_LUA`, `Refund` is `REFUND_LUA`,
`Wake` and `MaxWait` the loop of `consume`, `Leave` the gate's release, `TooMany`
and `Retry` the treatment of a 429. Commands of one process arrive in the order
in which they were sent (one connection), those of two processes in any order.
`Tick` lets a pause last longer than its timer, and a command no longer than
`MaxLatency`. `level` is an exact bucket that grants what this one grants.

Not modelled: the gate that is replaced when the connection's settings change;
the expiry of an idle bucket, which is full by then.

### OperatorApprovals

A turn's run is a thread named by its request, the destructive calls of a thread
are its steps, and an action is a thread and a step. `Freeze` is the interrupt
with its checkpoint, `Decide` and `Commit` are the transaction of
`resolveStatus` (the first SET takes the node's lock, then the guard is read),
`Resume` and `Advance` the replay of the tools node and the checkpoint after
it, `MarkExecuted` and `MarkFailed` the last transition, `Match` and `Expire`
the cron's statement, whose condition is evaluated before it holds the lock.
`Fail` and `Restart` end requests anywhere; a restart loses checkpoints kept in
memory (`Durable` FALSE). `Late` lets an action's time run out while it is being
resolved.

Not modelled: messages and their positions, prompts, tools without approval.

### The services

Each of these modules has one property that a run checks, the conjunction of the
parts named here and the types. Failing calls and crashes are bounded by a
`Max...` constant; a service's requests are the members of a set of model values
and each runs once.

| module | models | promises |
| --- | --- | --- |
| `OAuthServer` | codes, grants, refresh with its separate look-up and revocation, replay, activation, deletion and expiry (`src/foundations/oauth`) | `GrantsSound`: nothing outlives its client, scopes never grow, replaying a code ends its tokens. `SessionsSound`: one usable refresh token per approval unless requests raced, and never none before its end |
| `TwoFactor` | challenges, the three verifications, factors and the setting that requires them, backup codes | a second factor is not guessed beyond its limits, not used twice one after the other, and not demanded of a user who has none |
| `Registration` | confirmation and invitation of an entry, registration by password and through a provider, every statement of them | an entry makes one user at most, whose registration is recorded and mailed, and no company is left without its user, the cases of section 6 apart |
| `AccountCodes` | issuing, mailing, finding, using and expiry of the one code | the link of the last mail works, once, and an inactive account keeps a code unless its password was reset first |
| `TrialStart` | activation, the job and its attempts across Stripe and the graph | a trial job ends in a trial: started once unless attempts ran side by side, complete where Stripe has it, and done only if started |
| `Referral` | the code, visits, invitations, registration, completion and awards | a referral is tracked by the code handed out, invited for once in a cooldown, and rewarded to both sides, once |
| `ClientRegistry` | the Redis records of a user's sockets | who is connected is reached and counted, who left is unlisted |
| `Presence` | the presence value, its read-change-write, heartbeat, sweep and expiry | the value of a user's presence knows the open sockets |
| `ResponseCache` | look-up, store, tracking, both invalidations | nothing older than the last write is served, the exposed keys apart |
| `Ingestion` | the request that replaces a how-to's chunks, chunk jobs, deferral, claim, finalisation | a content is completed when, and only when, all its chunks are: not before, once per pass, and not never |
| `CommunitySummaries` | detection, assignment, staleness, cron and jobs | a summary that passes for fresh covers the members of its community, one deferred without credits is due again and not before the credits come, the counted members are the members |
| `AiConnections` | snapshot, cooldowns and the four ways a call walks its chain | a call moves along its chain: to the end before it gives up, away from the link that failed, and to the account of the link that answered |
| `RequestRepair` | refusals and what later requests become | the process learns neither too much nor too little: a refusal costs a request nothing but what was refused, and one attempt at most |
| `LlmCall`, `LlmStream` | attempts, deadlines, retries, restarts, recording | what the provider charged is recorded once, no tool call stays without a reply, requests are bounded, nothing runs on after the answer; a stream is read once and charged once |
| `RetrievalWalk` | every node and edge of the contextualiser with its budget | a run ends before LangGraph cuts it off, exceeds its budget by one node's batches at most, and reads what it picked |
| `Conversation` | messages and positions under overlapping turns | a thread has no holes and is stored in order, only overlapping requests share positions, what asks for approval can be answered |
| `EntityRecords` | create, put, patch, relationship changes and deletion with validation and audit | one owner; a record hidden, or torn by a statement, needs a node to have vanished; the log accounts for the changes it covers |
| `Chunking`, `Sublists` | sections, splitting, merging and its undoing, limits; text is known by where its lines end and its headings begin | no content is lost or repeated, lines stay whole, a file's chunks are capped, small ones are merged |
| `EntityListing` | pages of a list while others write: rows, their join into records, documents and links | a document includes what it links to, once; pages lead back; a walk shows every record once when nobody disturbs it and misses none that was not touched |
| `StripeCatalogue` | both admin services, call by call, and synchronisations | the graph's products and prices are Stripe's, whoever changed them in whichever order, but for what failed halfway or was outrun |
| `RolePermissions` | the start of processes that declare different matrices | permissions follow the declared matrix through starts, releases and stops |

### What composes what

`StripeWebhook` names `WebhookContract` through an INSTANCE. The core modules
meet at their borders: `StripeWebhook` says how often and by whom a handler is
run, `SubscriptionSync` what the handlers of subscriptions do under at least as
many repetitions and reorderings, `CompanyCredits` what happens to balances when
the allocations that `SubscriptionSync` decides on, and purchases, run again.

`MCUserServices`, `MCCompanyServices` and `MCPlansAndRecords` put modules side
by side that share no state in the code either. A behaviour exercises one of
them, chosen at its start, and the others stay in an initial state, so that the
states are the sum of the parts and not their product: an interleaving of two of
them would show nothing that either does not show alone. Since the modules are
extended, not renamed, no two of them share a name, and TLC evaluates the
assumptions of all.

## 4. Runs

Deadlock is checked in the embedder's runs, where time always passes. The other
systems may stop: Stripe sends nothing more, everything is done.

| run | question | bounds | result |
| --- | --- | --- | --- |
| `webhook_queue` | Who queues and works on an event, how often does its handler run, what does its node say, is the contract implemented, is what was queued closed? | 1 event, 2 deliveries, 2 slots, 3 attempts, 1 stalled recovery, 1 failing call, 1 crash, 1 lost lock | holds, 246,650 states |
| `webhook_lost` | Is every accepted event processed? | 1 event, 1 failing call, 1 crash | **violated** |
| `credits_ledger` | Do the balances add up, is the debt bounded, are lapses told once? | 2 operation slots and 4 operations, 2 jobs of 2 runs, 2 resets, 1 reward, 1 lost answer | holds, 2,505,330 states |
| `credits_purchase_race` | Does the ledger hold with purchases? | 1 purchase, 1 deduction | **violated** |
| `plans_and_records` | Can a company be deleted without an end? Do catalogue, permissions and records keep their promises? | 1 subscription, 2 slots, 4 events in any order, every move, 1 failing call; 2 catalogue requests, 2 dashboard changes; 2 processes of 2 starts; 2 edits of one record | holds, 1,044,182 states |
| `sync_duplicate` | Can a company pay twice? | 2 subscriptions, no failure | **violated** |
| `embedder_one` | Are rate and gate kept by one process, and does every request end? | 2 request slots, estimates below, at and above the bucket's capacity, 2 attempts, latency 1 | holds, 77,684 states |
| `embedder_reordered` | Is the rate kept by two processes? | 2 requests, latency 2 | **violated** |
| `approvals_resolve` | Does a destructive tool run once and only approved, are the statuses true, is every action settled? | 3 requests, 2 calls per run, 1 failure or restart, late expiry | holds, 56,499 states |
| `approvals_expiry` | Does the cron leave resolved actions alone? | 2 requests, 1 call | **violated** |
| `user_services` | Do the nine services around users keep their promises? | two of each thing that races, 1 failing call (2 for the trial's 3 attempts), 1 crash | holds, 441,042 states |
| `company_services` | Once all is handled in order, do records, activity, tokens, features and deletion follow Stripe? Do the ten services of content, lists and questions keep theirs? | 2 subscriptions, 9 events; two of each thing that races; every document of up to 4 lines with headings; 3 records, pages of 1 and 2, 1 change | holds, 681,221 states |

Why the bounds are enough. A race needs two parties at one piece of state, so
there are two deliveries, slots, jobs or requests; approvals have three, so that
a turn, an approval and a denial of one action meet. One failing call beside one
crash is what it takes for a write and the retry that would repair it to fail
both. Two resets of the monthly balance are needed for debts to add up. Four
operations of cost 2 exceed what two slots and one deduction in flight may
overdraw (6), so that an admission without a check is seen. Nine events are
enough for one subscription to be paid, to fall behind, to recover and to end,
and for the next one to be paid. Estimates of 1 to 3 over a capacity of 2
contain a request that can never be granted. The symmetric sets are requests,
sockets, contents, subscriptions and the like: nothing in a module or in its
properties names a member, and no temporal property is checked under symmetry.
What bounds are needed for is settled by the theorems where there is one.

What the passing runs with conditions show, and what they do not:

- `ServiceFollowsPayment` holds for events handled in order, one at a time,
  without failures and plan changes. Outside these conditions it does not hold,
  for the reasons in section 6: the order and the retries of a queue with
  several slots guarantee none of it.
- `LedgerUnlessRepeated` sets aside the purchase race, which
  `credits_purchase_race` shows, a purchase run again, and a deduction the
  driver wrapper repeats.
- `ToldOncePerLapseUnlessBlurred` sets aside jobs that die before the event and
  flags that change between a writer's read and its write.
- `StatusHonest` sets aside actions whose time runs out while they are being
  resolved, which the last transition refuses.
- The properties of the services name their exceptions in the same way: a
  history variable (`raced` in `OAuthServer`, `tangled` in `EntityListing`,
  `stuck` in `RequestRepair`) marks what the code treats worse than its comments
  say, at the step where it does, and the property speaks of the rest.

### Violations

- `webhook_lost`: the node is created, adding the job fails or the process dies;
  Stripe redelivers, the node exists, the controller answers 200 as a duplicate.
  No job ever exists, and what would find such events has no caller.
- `credits_purchase_race`: a purchase reads the extra balance, a deduction is
  written, the purchase writes its sum: the deduction is lost.
- `sync_duplicate`: an incomplete subscription, or one that is paid and not yet
  synchronised, does not count against a second one.
- `embedder_reordered`: a command stamped earlier arrives later and moves
  `lastRefillMs` back; the next command refills the same time again.
- `approvals_expiry`: the cron has matched an overdue action, waits for the lock
  of the approval that is being committed, and then writes `expired`.

### Fairness

Four properties are temporal promises (`QueuedSettles`,
`AcceptedIsProcessedUnlessFaulty`, `Ends`, `ActionsSettle`); `ImplementsContract`
is a step property; the others need no fairness, and services have none.

- `StripeWebhook`: a handler that was started goes on (Node runs what is ready),
  the worker takes waiting jobs, BullMQ looks for stalled ones. Stripe owes no
  delivery, a failing call and a crash are never owed.
- `EmbedderLimit`: time passes, Redis and the provider answer, timers fire. A
  failure of Redis is not owed, nor is another request. A denied request needs
  no strong fairness: its deadline ends it.
- `OperatorApprovals`: a request that has begun goes on, an unanswered action
  runs out of time, the cron runs. No user owes an answer.

## 5. Proofs

A theorem holds for all values of the constants that satisfy the modules'
assumptions: amounts and bounds are natural numbers, `None` is none of the named
things, the embedder's requests are finitely many. Some theorems state a further
hypothesis, named in the table. The modules are called `..._proofs`; those of the
webhook, credits, subscriptions, embedder and approvals have a theorem
`TypeCorrect`, which is why no run spends a property on their `TypeOK`; the
services' promises include their types. Every promise below was checked by TLC on
the bounds of its run before it was proved.

| theorem | says | argument |
| --- | --- | --- |
| `StripeWebhook_proofs!QueuedOnce` | an event is never queued twice | `QueueInv`: a delivery owns its event from the moment it created the node until it ends, two never own one, and a job exists only for a delivery that was answered after owning its event. `OneJobPerEvent` alone is not inductive: it does not know that a delivery about to add a job is the one that created the node |
| `StripeWebhook_proofs!OneAtATime` | a handler runs a bounded number of times, and in one slot at a time unless a lock was lost | `SlotInv`: a busy slot has a job, the slot a job names as its owner is at work on it, and every busy slot holds its lock as long as none was lost; `CountInv` bounds the runs |
| `StripeWebhook_proofs!StatusIsTrue` | a node that says completed was handled, a job that ended left its node saying how, with the retries made | `StatusInv` on `QueueInv`, `SlotInv` and `CountInv`: a slot about to complete has run the handler (`HandledInv`), a job that returned has its node written, unless a lock was lost (`RecordedInv`), and the node counts the attempts made, unless something failed (`RetriesCounted`) |
| `StripeWebhook_proofs!ContractKept` | `StripeWebhook` implements `WebhookContract` | initial states map to initial states, each action to a step of the contract or a stutter; `CountInv` gives the bound: the runs of a handler and the tries left to its job never exceed the attempts and the stalled recoveries |
| `CompanyCredits_proofs!LedgerKept` | every interleaving keeps the ledger, unless a purchase clobbered it or a deduction was repeated, given `~SequentialSet` | the ledger is inductive next to the types; `ChargedExactly` is its core, that the two CASE expressions take the cost once |
| `CompanyCredits_proofs!DebtStaysBounded` | the debt never exceeds what was admitted and is in flight, given `~SequentialSet`, finitely many operations and a largest cost | `DebtInv`: what operations may still record stays under their calls and places (`UsageBounded`), and the balance covers what was admitted and may still come (`DebtCovered`); the places are finite sets, counted with the library's theorems |
| `CompanyCredits_proofs!LapsesAreTold` | every lapse is told once, the blurred ones apart | `ToldOrOwing`: lapses are those told and those a job that has written the flag off is about to tell |
| `PlansAndRecords_proofs!DeletionAfterEnd` | no deletion without an end, in any order and with any failures | `Truthful`: an event in the queue or in a slot that tells of an end is told after the end, and a subscription on a free price is in its trial unless something ended |
| `PlansAndRecords_proofs!ServiceKept` | records, activity, tokens, features and deletion follow Stripe, given `InOrder`: events handled in order, one at a time, no failing call, no plan changes, features on every paid plan | `ServiceInv`: a record that differs from Stripe is about to be written (`Follows`), activity, tokens and features belong to a subscription that continues or to one whose end has not come that far (`ServedForAReason`), and the last event of a paid subscription, its payment, is queued, being served, or was served (`PaymentServed`) |
| `PlansAndRecords_proofs!CatalogueKept` | the graph's products and prices are Stripe's, but for what failed halfway or was outrun | `CatalogueInv`: a value anyone holds of a field is Stripe's or of an earlier edition (`Editions`, `Holds`), and who made the edition Stripe has is bringing it to the graph, has brought it or failed (`Carried`) |
| `PlansAndRecords_proofs!PermissionsKept` | permissions follow the matrix declared last, and a member may do what they come to | `RbacInv`: what a process has read and may leave as it is, is still what its matrix wants, unless another matrix was written since (`DefaultsStillSo`, `EdgesStillSo`). `TokensDecide` says what a sequence of tokens comes to; the first path in it exists because sets of natural numbers have a least element, which is derived from the library's theorem on well-founded relations |
| `PlansAndRecords_proofs!RecordsKept` | a record has one owner, is hidden or torn only by a loss, and is told by its log | `RecordsInv`: as long as no write fell between another's read and its entry, what a request has read stands (`ReadStands`), so does what it wrote (`WrittenStands`), and the log tells the record but for the entries still to come (`LogOrEntry`) |
| `ModelAccess_proofs!SingleProcessKeepsRate` | one process keeps the rate, whatever the latency, assuming there is one process | `RateInv`: what the bucket may still grant (its tokens and the age of its stamp, up to the capacity, with one latency) is covered by the exact bucket, and commands are applied in the order of their stamps |
| `ModelAccess_proofs!GateAlwaysHolds` | the gate never loses or doubles a slot | `GateHolds` next to the types; finite-set facts for the cardinalities |
| `ModelAccess_proofs!RepairsKept` | a refusal costs a request what was refused and no more, given `MaxRepairs >= 4` (the code has 6) | `RepairInv`: what is learned of an effort is true of the deployment and in order (`LearnedTruly`, `LearnedInOrder`), what is sent differs from what was asked only as the verdicts say (`SentFor`), and the repairs made and those still possible (`Ahead`) are four at most |
| `ModelAccess_proofs!FailoverKept` | a call tries the `.env` block before it gives up, an embedding is repeated on another link, and the link that answered is charged, given at most four links beside that block | `AiInv`: what is in service depends on the cooldowns only through the links left, counted from the first (`Rank`, `Serving`), and a call under way that no refresh or cooldown moved stands where its tries say (`Walks`). Vision and image calls try five times, so on a longer chain they give up before the `.env` block; the code does not bound the length of a chain |
| `ModelAccess_proofs!LlmCallKept` | a call is recorded once, bounded, and nothing runs on | `LlmInv`: the requests of the attempts so far (`AskedSoFar`) stay under the attempts' quotas, each phase has its place in its operation (`PhaseFits`, `LoopFits`) and what is recorded is what was charged (`Metered`) |
| `ModelAccess_proofs!StreamKept` | a stream is read once and charged once | `StreamInv` with `PausedReader`: who reads when the service pauses began during the pause |
| `OperatorApprovals_proofs!OnlyApproved` | a destructive call runs at most once and only approved | `ApprovalInv`: one request at a time works on a thread (`Alone`), only its turn starts it (`Threads`), while an action is pending only who decides on it works there and the call has not run (`Waiting`), and a request that works knows the call its thread is frozen at (`Pursued`) |
| `OperatorApprovals_proofs!StatusKept` | an action's status tells what became of its call, unless it ran out of time while it was being resolved | `StatusInv` on `ApprovalInv`: no action has a result before it is resolved (`NoResultYet`), one asked for stays frozen (`AskedIsFrozen`), a request that resumes carries its action's result to the mark (`Carried`), and only overdue ones are marked late (`LateOnly`) |
| `OAuthServer_proofs!TokensSound` | tokens and codes belong to a live client and one approved scope, and replay ends tokens | `OAuthInv`: what a request holds while it waits (`Knows`), how the two nodes of a request hang together (`Linked`), and that a scope is settled before a request joins it (`Scoped`) |
| `OAuthServer_proofs!SessionsKept` | an approval has one usable refresh token unless requests raced, and never none before its end, given finitely many requests | `SessionInv`: the live tokens of a code, counting those about to be issued, are at most one and one more for each request that raced (`Bounded`), at least one while the session lasts (`Kept`), and a request about to issue has spent what it came with (`Spends`) |
| `UserServices_proofs!TrialsKept` | a trial job ends in a trial | `TrialInv`: what an attempt has behind it at each point of its way, in Stripe and in the graph |
| `UserServices_proofs!CodesKept` | the last link mailed works, once | `LinkInv`: who holds the code between looking it up and using it |
| `UserServices_proofs!RegistrationsKept` | an entry makes one user at most, recorded and mailed | `RegistrationInv`: what a registration still knows of the entry it found, unless one of the named exceptions has come between |
| `UserServices_proofs!SecondFactorKept` | a second factor is not guessed, reused or demanded in vain | `FactorInv`: two checks that got past the same limit, challenge or code overlapped, and each knows of the other |
| `UserServices_proofs!ReferralsKept` | a referral is rewarded to both sides, once, given finitely many companies and payments | each award is charged to a referral or to a disturbed payment (`Awarded`), counted with the library's theorems about finite sets |
| `UserServices_proofs!RegistryKept` | who is connected is reached and counted | `RegistryInv`: the user's set holds every socket with a hash, and two removals past their counts have seen each other |
| `UserServices_proofs!PresenceKept` | the presence value knows the open sockets | `PresenceInv`: the calls under way account for the difference |
| `UserServices_proofs!CacheKept` | nothing older than the last write is served, the exposed keys apart, given finitely many writers | `CacheInv`: a stored answer is tracked by its elements, or is about to be, and is chased by a writer once it is no longer true |
| `CompanyServices_proofs!IngestKept` | a content is completed when, and only when, all its chunks are | `IngestInv`, as long as no pass overtook another: one pass is active (`OneActivePass`), its steps and the jobs of a chunk tell of the chunk's status (`PassInOrder`, `JobInOrder`), one job holds the claim (`OneWins`, `ClaimHeld`) and an open content has a job on its way (`OnTheWay`) |
| `CompanyServices_proofs!CommunitiesKept` | a summary that passes for fresh covers its members | `CommunityInv`: what a job has read is all there is unless a concept joined since (`ReadsAll`), a community a job is for is due (`JobsAreDue`), and what a content that meets no other has still to assign is in no community (`Counted`) |
| `CompanyServices_proofs!WalkKept` | a run ends before LangGraph cuts it off, given `BudgetsFit`, which the code's 12 calls and 22 supersteps satisfy | `WalkInv`: the supersteps are bounded by the calls (`StepsFit`), since every round of the walk has three steps and two calls. TLC finds the hypothesis necessary: 4 calls under a limit of 7 are cut off |
| `CompanyServices_proofs!ConversationKept` | a thread has no holes and its order is that of the requests | `ConversationInv`: the end of the thread is the number of its positions (`ThreadEnds`), whoever ended before another began stands before it (`LaterIsHigher`), and what each request has read and stored (`RequestOK`) |
| `CompanyServices_proofs!ChunksKept` | the chunks hold the document's text in its order, nothing twice; lines stay whole, a file's chunks are within the limit, small ones were merged | `ChunkingInv`: the chunks of the section in hand tile it, merged or as they were before merging, which is what undoing it relies on (`InHand`); the chunks that are ready hold the sections before it, the short ones apart; and while the limit is applied those within it come first and the rest is untouched (`CappedTo`). A tiling says of neighbours only that one begins where the other ends; that it covers each character once (`Tiling`) uses that every set of places has a least and a greatest element |
| `CompanyServices_proofs!ListingKept` | a document includes what it links to, each once; pages lead back; an undisturbed walk shows every record once, in order if none are related; one that is disturbed misses none that was not touched, unless records were deleted | `ListingInv`: all of the list up to the place the next page begins at (`LedTo`) is seen or was touched (`Untouched`), and if nothing was touched exactly that has been seen, once (`Undisturbed`). `ListingSound` alone speaks of the end of a walk and is not inductive. The step that reads a page needs that joining rows moves no record across its border (`LastIsLast`) unless a record of the page is related to the first of the next (`tangled`); the step of a writer, that it moves no other record towards the front (`FrontedIs`) |

Only model-checked, and why:

- The four temporal promises, `QueuedSettles`, `AcceptedIsProcessedUnlessFaulty`,
  `Ends` and `ActionsSettle`: liveness under fairness and ENABLED are out of the
  prover's reach.

`Chunking` and `EntityListing` are about sequences, for which the prover has no
induction. They are stated so that none is needed: `Sublists` picks what stands
at some places of a list by counting (`Rank`), so that what it picks follows from
the cardinality of finite sets; a merge pass is the set of the places that take
their neighbour (`TakesNext`) instead of a loop; what is included is the least
set closed under the links that are followed (`Beyond`); and the join of rows
goes by the first turn at which a record is named (`FirstTurn`). Each stands for
the loop the code runs, and TLC evaluates it on every document and list of the
run.

## 6. Further departures

Seen while the code was being read for the models. No run is spent on them.

- A purchase job that stalls or fails later and is run again credits the same
  payment twice (`token-allocation.service.ts:214`, against `ARCHITECTURE.md:34`
  and `:621`). `clobbered` marks these runs.
- The AI-disabled event goes out twice when two allocations read the flag before
  either writes it, and never when the job dies between the write and the event
  (`company.service.ts:151`).
- Two synchronisations of one subscription may retrieve and write in opposite
  orders; the older status wins (`stripe-subscription-admin.service.ts:588`).
- A plan change made through the API writes the record's price before the
  handler compares it with the payload's, so the proration is skipped (`:446` of
  the same file); a change made in Stripe's dashboard never reaches the record,
  so it is prorated again on every later event, the one that ends the
  subscription included (`stripe-webhook.processor.ts:309`).
- A trial that ran out ends with an active company when the invoice of 0 is
  handled after the event that deactivates (`token-allocation.service.ts:67`,
  `stripe-webhook.processor.ts:191`).
- A scheduled deletion is kept when the price paid carries no features
  (`stripe-webhook.processor.ts:492` and `:505`).
- An approval whose tool ran longer than the time left is never marked executed
  (`assistant-action.repository.ts:67`, `assistant.service.ts:646`), and an
  action is marked failed although its tool may have had its effect
  (`assistant.service.ts:635` to `:637`).
- A turn fixes the position of its answer before its run, and a resolution reads
  the end of the conversation meanwhile: both write the same position
  (`assistant.service.ts:535` and `:653`, against the comment at `:549`).
In the services:

- **OAuth.** `markAuthorizationCodeUsed` answers true whatever it found, against
  its comment (`oauth.repository.ts:323`); `rotateRefreshTokens=false` revokes the
  old token all the same; `cleanupExpiredTokens` has no caller and would delete
  refresh tokens that are still valid.
- **Registration, codes, trial, referral.** A registration refused because the
  address is taken leaves a company without users; resetting the password of an
  inactive account uses up its activation code and leaves it inactive
  (`auth.service.ts:251`); the trial's retries stop at a customer that exists, and
  its calls carry no idempotency key; concurrent visits overwrite a referral code.
- **Sockets.** The hashes live 24 hours and are never renewed; the sweep empties a
  user's sockets, and a later heartbeat stores "online" while `getUserStatus`
  says offline (`presence.service.ts:126`).
- **Cache.** An empty list is cached and tracked nowhere, against
  `cache-invalidate.decorator.ts:8`.
- **Ingestion.** The finalisation of an earlier pass may take the claim of the new
  one before its chunks exist; a text without chunks, or whose only attempt at a
  chunk failed, stays in progress.
- **Communities.** A member added while a summary is computed is missing from it
  and not told; a community without members is queued again every ten minutes.
- **Connections and calls.** A call resolves its chain once, and the client it
  builds resolves it again without the parked link, so that the connection that is
  billed or blamed is not the one that served (`llm.service.ts:1064`, against its
  comment at `:1068`); a parse failure that quotes a payload may pass for a network
  failure and run the tool loop again; the "empty response" error, said to be
  transient, matches no transient pattern; a reader that begins during a pause
  before a restart reads the failed stream.
- **Repair.** A refused value and a clash of tools on one parameter cannot be
  remembered together (comment at line 304 of `unsupported-param-fetch.ts`).
- **Contextualiser.** `neighbouringAlreadyExplored` is set but seldom returned, and
  neighbours are explored back and forth until the budget ends it, against
  `retrieval.constants.ts:31`.
- **Records.** A record that lost its required related node is found by nobody and
  cannot be deleted; changes of to-many relationships are never in the audit log;
  a create whose answer was lost is refused on its repeat and stays unlogged.
- **Lists.** A record related to an earlier one of its page moves forward and
  pushes another out, which no page shows; a record without its required owner
  shortens its page and ends the list early; records related in a ring make the
  serialiser recurse for ever, while `define-entity.ts:276` supports them.
- **Chunking.** A section under 50 characters is dropped; a section opened by a
  second-level heading is taken for a table and split only at the cap; the
  how-to's chunks are not capped (`chunker.service.ts:44` calls the cap hard); for
  a document of one section the structural splitter returns its promise without
  awaiting it (`markdownchunking.service.ts:36`), so its own catch never sees the
  failure and the caller's fallback splits the text without its structure.
- **Catalogue.** A synchronisation between an administrator's create at Stripe and
  the local create makes the latter fail and leaves a price without tokens; a
  nickname removed at Stripe stays.
- **Roles.** Processes that declare different matrices and start together can leave
  a mix that neither declares; a role's scoped path is dropped when the default
  has one.
