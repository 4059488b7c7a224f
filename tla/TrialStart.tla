------------------------------- MODULE TrialStart -------------------------------
(***************************************************************************)
(* The trial of a company that has just registered: the activation of its  *)
(* account, the job each activation queues, and the job's way through      *)
(* Stripe and the database, every awaited call a step.  A job is attempted *)
(* up to TrialAttempts times; a new attempt begins from the start and sees *)
(* only what the one before left behind.                                   *)
(*                                                                         *)
(* A Stripe customer or subscription is named by the activation and the    *)
(* attempt that created it.                                                *)
(***************************************************************************)
EXTENDS Integers, FiniteSets

CONSTANTS Activations,        \* requests with the activation link
          TrialAttempts,      \* attempts of a job
          NobodysCustomer,
          MaxTrialFaults      \* bound: calls that throw

Created == Activations \X (1..TrialAttempts)

ASSUME TrialAssumption == /\ TrialAttempts \in Nat \ {0} /\ MaxTrialFaults \in Nat
                          /\ NobodysCustomer \notin Created

VARIABLES codeCleared,      \* the account is active and its code is gone
          stage,            \* [Activations -> progress of the request and its job]
          attempt,          \* [Activations -> attemptsMade]
          customers,        \* customers in Stripe
          customerNodes,    \* those with a node
          trials,           \* subscriptions in Stripe: <<creator, customer>>
          trialNodes,       \* those with a node
          billed,           \* [Activations -> customer that createSubscription found]
          granted,          \* the trial's tokens are on the company
          subscribed,       \* company.isActiveSubscription
          alongside,        \* history: jobs that overlapped another one
          halfway,          \* history: an attempt failed after its customer's node was there
          trialFaults

inStripe == <<customers, trials>>
inGraph == <<customerNodes, trialNodes, granted, subscribed>>
trialVars == <<codeCleared, stage, attempt, inStripe, inGraph, billed, alongside, halfway, trialFaults>>

JobSteps == {"look", "customer", "store", "find", "check", "subscribe", "record", "grant", "mark"}
Stages == {"new", "found", "queue", "queued"} \cup JobSteps \cup {"refused", "done", "failed"}

TrialTypeOK ==
  /\ codeCleared \in BOOLEAN
  /\ stage \in [Activations -> Stages] /\ attempt \in [Activations -> 0..TrialAttempts]
  /\ customers \subseteq Created /\ customerNodes \subseteq customers
  /\ trials \subseteq Created \X customers /\ trialNodes \subseteq trials
  /\ billed \in [Activations -> Created \cup {NobodysCustomer}]
  /\ granted \in BOOLEAN /\ subscribed \in BOOLEAN
  /\ alongside \subseteq Activations
  /\ halfway \in BOOLEAN
  /\ trialFaults \in 0..MaxTrialFaults

TrialInit ==
  /\ codeCleared = FALSE
  /\ stage = [a \in Activations |-> "new"] /\ attempt = [a \in Activations |-> 0]
  /\ customers = {} /\ customerNodes = {} /\ trials = {} /\ trialNodes = {}
  /\ billed = [a \in Activations |-> NobodysCustomer]
  /\ granted = FALSE /\ subscribed = FALSE
  /\ alongside = {} /\ halfway = FALSE /\ trialFaults = 0

Enter(a, s) == stage' = [stage EXCEPT ![a] = s]
Me(a) == <<a, attempt[a]>>

-----------------------------------------------------------------------------
(* activateAccount. *)

\* The user is found by the code of the link.
FindByCode(a) ==
  /\ stage[a] = "new"
  /\ Enter(a, IF codeCleared THEN "refused" ELSE "found")
  /\ UNCHANGED <<codeCleared, attempt, inStripe, inGraph, billed, alongside, halfway, trialFaults>>

\* The account is activated, whoever did so in the meantime,
Activate(a) ==
  /\ stage[a] = "found"
  /\ codeCleared' = TRUE
  /\ Enter(a, "queue")
  /\ UNCHANGED <<attempt, inStripe, inGraph, billed, alongside, halfway, trialFaults>>

\* and the job is queued; an add that fails is swallowed.
QueueTrial(a) ==
  /\ stage[a] = "queue"
  /\ \/ Enter(a, "queued") /\ UNCHANGED trialFaults
     \/ /\ trialFaults < MaxTrialFaults /\ trialFaults' = trialFaults + 1
        /\ Enter(a, "refused")
  /\ UNCHANGED <<codeCleared, attempt, inStripe, inGraph, billed, alongside, halfway>>

-----------------------------------------------------------------------------
(* startTrial. *)

Working(a) == stage[a] \in JobSteps

StartAttempt(a) ==
  LET others == {b \in Activations \ {a} : Working(b)}
  IN /\ stage[a] = "queued" /\ attempt[a] < TrialAttempts
     /\ attempt' = [attempt EXCEPT ![a] = @ + 1]
     /\ alongside' = IF others = {} THEN alongside ELSE alongside \cup others \cup {a}
     /\ Enter(a, "look")
     /\ UNCHANGED <<codeCleared, inStripe, inGraph, billed, halfway, trialFaults>>

\* Mutant: only the subscription is looked at.
LookAtFlag(a) ==
  /\ stage[a] = "look"
  /\ Enter(a, IF subscribed THEN "done" ELSE "customer")
  /\ UNCHANGED <<codeCleared, attempt, inStripe, inGraph, billed, alongside, halfway, trialFaults>>

\* A company that is subscribed, or has a customer, is skipped.
LookForCustomer(a) ==
  /\ stage[a] = "look"
  /\ Enter(a, IF subscribed \/ customerNodes # {} THEN "done" ELSE "customer")
  /\ UNCHANGED <<codeCleared, attempt, inStripe, inGraph, billed, alongside, halfway, trialFaults>>

\* createCustomer: in Stripe first, without an idempotency key,
CreateInStripe(a) ==
  /\ stage[a] = "customer"
  /\ customers' = customers \cup {Me(a)}
  /\ Enter(a, "store")
  /\ UNCHANGED <<codeCleared, attempt, trials, inGraph, billed, alongside, halfway, trialFaults>>

\* and then its node.
StoreCustomer(a) ==
  /\ stage[a] = "store"
  /\ customerNodes' = customerNodes \cup {Me(a)}
  /\ Enter(a, "find")
  /\ UNCHANGED <<codeCleared, attempt, inStripe, trialNodes, granted, subscribed, billed,
                 alongside, halfway, trialFaults>>

\* createSubscription finds a customer of the company; with two, either,
FindCustomer(a, c) ==
  /\ stage[a] = "find" /\ c \in customerNodes
  /\ billed' = [billed EXCEPT ![a] = c]
  /\ Enter(a, "check")
  /\ UNCHANGED <<codeCleared, attempt, inStripe, inGraph, alongside, halfway, trialFaults>>

Retried(a) == IF attempt[a] < TrialAttempts THEN "queued" ELSE "failed"

\* throws if that customer has a recurring subscription,
CheckSubscriptions(a) ==
  LET has == \E t \in trialNodes : t[2] = billed[a]
  IN /\ stage[a] = "check"
     /\ Enter(a, IF has THEN Retried(a) ELSE "subscribe")
     /\ UNCHANGED <<codeCleared, attempt, inStripe, inGraph, billed, alongside, halfway, trialFaults>>

\* creates the subscription in Stripe,
SubscribeInStripe(a) ==
  /\ stage[a] = "subscribe"
  /\ trials' = trials \cup {<<Me(a), billed[a]>>}
  /\ Enter(a, "record")
  /\ UNCHANGED <<codeCleared, attempt, customers, inGraph, billed, alongside, halfway, trialFaults>>

\* and its node.
RecordTrial(a) ==
  /\ stage[a] = "record"
  /\ trialNodes' = trialNodes \cup {<<Me(a), billed[a]>>}
  /\ Enter(a, "grant")
  /\ UNCHANGED <<codeCleared, attempt, inStripe, customerNodes, granted, subscribed, billed,
                 alongside, halfway, trialFaults>>

GrantTokens(a) ==
  /\ stage[a] = "grant"
  /\ granted' = TRUE
  /\ Enter(a, "mark")
  /\ UNCHANGED <<codeCleared, attempt, inStripe, customerNodes, trialNodes, subscribed, billed,
                 alongside, halfway, trialFaults>>

MarkSubscribed(a) ==
  /\ stage[a] = "mark"
  /\ subscribed' = TRUE
  /\ Enter(a, "done")
  /\ UNCHANGED <<codeCleared, attempt, inStripe, customerNodes, trialNodes, granted, billed,
                 alongside, halfway, trialFaults>>

\* A call of the attempt throws, or its worker dies: what it has done stays.
AttemptFails(a) ==
  /\ Working(a)
  /\ trialFaults < MaxTrialFaults /\ trialFaults' = trialFaults + 1
  /\ halfway' = (halfway \/ Me(a) \in customerNodes)
  /\ Enter(a, Retried(a))
  /\ UNCHANGED <<codeCleared, attempt, inStripe, inGraph, billed, alongside>>

-----------------------------------------------------------------------------
RequestStep(a) == FindByCode(a) \/ Activate(a) \/ QueueTrial(a) \/ StartAttempt(a)
CustomerStep(a) == LookForCustomer(a) \/ CreateInStripe(a) \/ StoreCustomer(a)
SubscriptionStep(a) == \/ \E c \in Created : FindCustomer(a, c)
                       \/ CheckSubscriptions(a) \/ SubscribeInStripe(a) \/ RecordTrial(a)
                       \/ GrantTokens(a) \/ MarkSubscribed(a)

TrialNext == \E a \in Activations :
               RequestStep(a) \/ CustomerStep(a) \/ SubscriptionStep(a) \/ AttemptFails(a)

TrialSpec == TrialInit /\ [][TrialNext]_trialVars

-----------------------------------------------------------------------------
(* Properties. *)

\* A company marked as subscribed has its tokens, its customer and its
\* subscription, in Stripe and in the graph, whichever attempt of whichever
\* job got how far.
SubscribedHasAll ==
  subscribed => /\ granted /\ trialNodes # {}
                /\ \A t \in trialNodes : t \in trials /\ t[2] \in customerNodes

\* Stripe holds one trial per company, unless two jobs ran at the same time:
\* a retry never subscribes again.
OneTrialUnlessAlongside == alongside = {} => Cardinality(trials) <= 1

\* Once every job is closed, one that completed has started the trial, unless
\* an attempt failed between the customer's node and the end: its retries then
\* skip the company.
CompletedMeansTrial ==
  (\A a \in Activations : stage[a] \in {"new", "refused", "done", "failed"})
    => ((\E a \in Activations : stage[a] = "done") => subscribed \/ halfway)

\* A trial job ends in a trial: it is started once, it is complete where Stripe
\* has it, and a job that reports success has started it.
TrialsSound == TrialTypeOK /\ SubscribedHasAll /\ OneTrialUnlessAlongside /\ CompletedMeansTrial
=============================================================================
