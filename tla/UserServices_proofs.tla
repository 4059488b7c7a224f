------------------------- MODULE UserServices_proofs -------------------------
(***************************************************************************)
(* The safety of the services that a user meets on the way in and while    *)
(* connected, for every value of their constants.                          *)
(*                                                                         *)
(* Each service has a part of its own: the inductive invariant, one lemma  *)
(* per action, and the theorem.  What a request knows between two awaited  *)
(* calls is the main part of every invariant, and what two requests that   *)
(* overlap have seen of each other is the rest.                            *)
(***************************************************************************)
EXTENDS TrialStart, AccountCodes, Registration, TwoFactor, Referral,
        ClientRegistry, Presence, ResponseCache, FiniteSetTheorems, TLAPS

-----------------------------------------------------------------------------
(* The start of a trial.  An attempt has behind it what it has come past    *)
(* (OnItsWay); once a customer or a subscription is there, the job that     *)
(* made it is still under way, has marked the company, or has failed after  *)
(* the customer was stored (CarriedOn); and jobs that never overlap make    *)
(* one subscription, after which none comes as far as making another        *)
(* (ByItself).                                                              *)

PastStore == {"find", "check", "subscribe", "record", "grant", "mark"}
OnItsWay(a) ==
  /\ Working(a) => Me(a) \in Created
  /\ stage[a] = "store" => Me(a) \in customers
  /\ stage[a] \in PastStore => Me(a) \in customerNodes
  /\ stage[a] \in PastStore \ {"find"} => billed[a] \in customerNodes
  /\ stage[a] = "record" => <<Me(a), billed[a]>> \in trials
  /\ stage[a] \in {"grant", "mark"} => trialNodes # {}
  /\ stage[a] = "mark" => granted
  /\ stage[a] = "done" => subscribed \/ customerNodes # {}

Founded == /\ \A t \in trials : t[2] \in customerNodes
           /\ subscribed => granted /\ trialNodes # {}

CarriedOn ==
  /\ customerNodes # {} => subscribed \/ halfway \/ \E a \in Activations : stage[a] \in PastStore
  /\ trialNodes # {} => subscribed \/ halfway \/ \E a \in Activations : stage[a] \in {"grant", "mark"}

ByItself ==
  alongside = {} =>
    /\ \A a, b \in Activations : Working(a) /\ Working(b) => a = b
    /\ \A t, u \in trials : t = u
    /\ trials # {} => \A a \in Activations : stage[a] \notin {"customer", "store", "find", "check", "subscribe"}

TrialInv == (\A a \in Activations : OnItsWay(a)) /\ Founded /\ CarriedOn /\ ByItself

\* Before the account is activated there is nothing to carry on.
LEMMA TrialInvInit == TrialInit => TrialTypeOK /\ TrialInv
<1> SUFFICES ASSUME TrialInit PROVE TrialTypeOK /\ TrialInv
  OBVIOUS
<1>1. TrialTypeOK
  <2>1. 0 \in 0..TrialAttempts /\ 0 \in 0..MaxTrialFaults
    BY TrialAssumption
  <2> QED
    BY <2>1 DEF TrialInit, TrialTypeOK, Stages
<1>2. \A a \in Activations : OnItsWay(a)
  BY DEF TrialInit, OnItsWay, Working, JobSteps, PastStore
<1> QED
  BY <1>1, <1>2 DEF TrialInit, TrialInv, Founded, CarriedOn, ByItself, Working, JobSteps

\* A link is looked up.
LEMMA FindByCodeKeeps ==
  ASSUME TrialTypeOK, TrialInv, NEW a \in Activations, FindByCode(a)
  PROVE  TrialTypeOK' /\ TrialInv'
<1> USE DEF FindByCode, Enter, Me, inStripe, inGraph
<1>1. TrialTypeOK'
  BY TrialAssumption DEF TrialInv, TrialTypeOK, OnItsWay, Stages, JobSteps, PastStore, Working
<1>2. \A b \in Activations : OnItsWay(b)'
  BY DEF TrialInv, TrialTypeOK, OnItsWay, PastStore, Working, JobSteps
<1>3. Founded' /\ CarriedOn' /\ ByItself'
  BY DEF TrialTypeOK, TrialInv, OnItsWay, Founded, CarriedOn, ByItself, PastStore, Working, JobSteps
<1> QED
  BY <1>1, <1>2, <1>3 DEF TrialInv

\* The account is activated.
LEMMA ActivateKeeps ==
  ASSUME TrialTypeOK, TrialInv, NEW a \in Activations, Activate(a)
  PROVE  TrialTypeOK' /\ TrialInv'
<1> USE DEF Activate, Enter, Me, inStripe, inGraph
<1>1. TrialTypeOK'
  BY TrialAssumption DEF TrialInv, TrialTypeOK, OnItsWay, Stages, JobSteps, PastStore, Working
<1>2. \A b \in Activations : OnItsWay(b)'
  BY DEF TrialInv, TrialTypeOK, OnItsWay, PastStore, Working, JobSteps
<1>3. Founded' /\ CarriedOn' /\ ByItself'
  BY DEF TrialTypeOK, TrialInv, OnItsWay, Founded, CarriedOn, ByItself, PastStore, Working, JobSteps
<1> QED
  BY <1>1, <1>2, <1>3 DEF TrialInv

\* The job is queued, or not.
LEMMA QueueTrialKeeps ==
  ASSUME TrialTypeOK, TrialInv, NEW a \in Activations, QueueTrial(a)
  PROVE  TrialTypeOK' /\ TrialInv'
<1> USE DEF QueueTrial, Enter, Me, inStripe, inGraph
<1>1. TrialTypeOK'
  BY TrialAssumption DEF TrialInv, TrialTypeOK, OnItsWay, Stages, JobSteps, PastStore, Working
<1>2. \A b \in Activations : OnItsWay(b)'
  BY DEF TrialInv, TrialTypeOK, OnItsWay, PastStore, Working, JobSteps
<1>3. Founded' /\ CarriedOn' /\ ByItself'
  BY DEF TrialTypeOK, TrialInv, OnItsWay, Founded, CarriedOn, ByItself, PastStore, Working, JobSteps
<1> QED
  BY <1>1, <1>2, <1>3 DEF TrialInv

\* An attempt begins; if another job is at work, neither is by itself.
LEMMA StartAttemptKeeps ==
  ASSUME TrialTypeOK, TrialInv, NEW a \in Activations, StartAttempt(a)
  PROVE  TrialTypeOK' /\ TrialInv'
<1> USE DEF StartAttempt, Enter, Me, inStripe, inGraph, Working
<1>1. TrialTypeOK'
  BY TrialAssumption DEF TrialInv, TrialTypeOK, OnItsWay, Stages, JobSteps, PastStore, Working
<1>2. ASSUME NEW b \in Activations PROVE OnItsWay(b)'
  <2>1. CASE b = a
    <3>1. attempt'[a] \in 1..TrialAttempts /\ stage'[a] = "look"
      BY TrialAssumption DEF TrialTypeOK
    <3> QED
      BY <2>1, <3>1 DEF OnItsWay, PastStore, Created
  <2>2. CASE b # a
    BY <2>2 DEF TrialInv, TrialTypeOK, OnItsWay, PastStore, JobSteps
  <2> QED
    BY <2>1, <2>2
<1>3. Founded' /\ CarriedOn' /\ ByItself'
  BY DEF TrialTypeOK, TrialInv, OnItsWay, Founded, CarriedOn, ByItself, PastStore, Working, JobSteps
<1> QED
  BY <1>1, <1>2, <1>3 DEF TrialInv

\* Only an attempt that finds no customer goes on to make one.
LEMMA LookForCustomerKeeps ==
  ASSUME TrialTypeOK, TrialInv, NEW a \in Activations, LookForCustomer(a)
  PROVE  TrialTypeOK' /\ TrialInv'
<1> USE DEF LookForCustomer, Enter, Me, inStripe, inGraph
<1>1. TrialTypeOK'
  BY TrialAssumption DEF TrialInv, TrialTypeOK, OnItsWay, Stages, JobSteps, PastStore, Working
<1>2. \A b \in Activations : OnItsWay(b)'
  BY DEF TrialInv, TrialTypeOK, OnItsWay, PastStore, Working, JobSteps
<1>3. Founded' /\ CarriedOn' /\ ByItself'
  BY DEF TrialTypeOK, TrialInv, OnItsWay, Founded, CarriedOn, ByItself, PastStore, Working, JobSteps
<1> QED
  BY <1>1, <1>2, <1>3 DEF TrialInv

\* Stripe has the customer.
LEMMA CreateInStripeKeeps ==
  ASSUME TrialTypeOK, TrialInv, NEW a \in Activations, CreateInStripe(a)
  PROVE  TrialTypeOK' /\ TrialInv'
<1> USE DEF CreateInStripe, Enter, Me, inStripe, inGraph
<1>1. TrialTypeOK'
  BY TrialAssumption DEF TrialInv, TrialTypeOK, OnItsWay, Stages, JobSteps, PastStore, Working
<1>2. \A b \in Activations : OnItsWay(b)'
  BY DEF TrialInv, TrialTypeOK, OnItsWay, PastStore, Working, JobSteps
<1>3. Founded' /\ CarriedOn' /\ ByItself'
  BY DEF TrialTypeOK, TrialInv, OnItsWay, Founded, CarriedOn, ByItself, PastStore, Working, JobSteps
<1> QED
  BY <1>1, <1>2, <1>3 DEF TrialInv

\* The customer has its node; its job carries on.
LEMMA StoreCustomerKeeps ==
  ASSUME TrialTypeOK, TrialInv, NEW a \in Activations, StoreCustomer(a)
  PROVE  TrialTypeOK' /\ TrialInv'
<1> USE DEF StoreCustomer, Enter, Me, inStripe, inGraph
<1>1. TrialTypeOK'
  BY TrialAssumption DEF TrialInv, TrialTypeOK, OnItsWay, Stages, JobSteps, PastStore, Working
<1>2. \A b \in Activations : OnItsWay(b)'
  BY DEF TrialInv, TrialTypeOK, OnItsWay, PastStore, Working, JobSteps
<1>3. Founded' /\ CarriedOn' /\ ByItself'
  BY DEF TrialTypeOK, TrialInv, OnItsWay, Founded, CarriedOn, ByItself, PastStore, Working, JobSteps
<1> QED
  BY <1>1, <1>2, <1>3 DEF TrialInv

\* A customer with a node is billed.
LEMMA FindCustomerKeeps ==
  ASSUME TrialTypeOK, TrialInv, NEW a \in Activations, NEW c \in Created, FindCustomer(a, c)
  PROVE  TrialTypeOK' /\ TrialInv'
<1> USE DEF FindCustomer, Enter, Me, inStripe, inGraph
<1>1. TrialTypeOK'
  BY TrialAssumption DEF TrialInv, TrialTypeOK, OnItsWay, Stages, JobSteps, PastStore, Working
<1>2. \A b \in Activations : OnItsWay(b)'
  BY DEF TrialInv, TrialTypeOK, OnItsWay, PastStore, Working, JobSteps
<1>3. Founded' /\ CarriedOn' /\ ByItself'
  BY DEF TrialTypeOK, TrialInv, OnItsWay, Founded, CarriedOn, ByItself, PastStore, Working, JobSteps
<1> QED
  BY <1>1, <1>2, <1>3 DEF TrialInv

\* What the check found was made by a job that is still under way, or has been.
LEMMA CheckSubscriptionsKeeps ==
  ASSUME TrialTypeOK, TrialInv, NEW a \in Activations, CheckSubscriptions(a)
  PROVE  TrialTypeOK' /\ TrialInv'
<1> USE DEF CheckSubscriptions, Enter, Me, inStripe, inGraph, Retried
<1>1. TrialTypeOK'
  BY TrialAssumption DEF TrialInv, TrialTypeOK, OnItsWay, Stages, JobSteps, PastStore, Working
<1>2. \A b \in Activations : OnItsWay(b)'
  BY DEF TrialInv, TrialTypeOK, OnItsWay, PastStore, Working, JobSteps
<1>3. Founded' /\ CarriedOn' /\ ByItself'
  BY DEF TrialTypeOK, TrialInv, OnItsWay, Founded, CarriedOn, ByItself, PastStore, Working, JobSteps
<1> QED
  BY <1>1, <1>2, <1>3 DEF TrialInv

\* Stripe has the subscription; no other job is as far, if none overlapped.
LEMMA SubscribeInStripeKeeps ==
  ASSUME TrialTypeOK, TrialInv, NEW a \in Activations, SubscribeInStripe(a)
  PROVE  TrialTypeOK' /\ TrialInv'
<1> USE DEF SubscribeInStripe, Enter, Me, inStripe, inGraph
<1>1. TrialTypeOK'
  BY TrialAssumption DEF TrialInv, TrialTypeOK, OnItsWay, Stages, JobSteps, PastStore, Working
<1>2. \A b \in Activations : OnItsWay(b)'
  BY DEF TrialInv, TrialTypeOK, OnItsWay, PastStore, Working, JobSteps
<1>3. Founded' /\ CarriedOn' /\ ByItself'
  BY DEF TrialTypeOK, TrialInv, OnItsWay, Founded, CarriedOn, ByItself, PastStore, Working, JobSteps
<1> QED
  BY <1>1, <1>2, <1>3 DEF TrialInv

\* The subscription has its node.
LEMMA RecordTrialKeeps ==
  ASSUME TrialTypeOK, TrialInv, NEW a \in Activations, RecordTrial(a)
  PROVE  TrialTypeOK' /\ TrialInv'
<1> USE DEF RecordTrial, Enter, Me, inStripe, inGraph
<1>1. TrialTypeOK'
  BY TrialAssumption DEF TrialInv, TrialTypeOK, OnItsWay, Stages, JobSteps, PastStore, Working
<1>2. \A b \in Activations : OnItsWay(b)'
  BY DEF TrialInv, TrialTypeOK, OnItsWay, PastStore, Working, JobSteps
<1>3. Founded' /\ CarriedOn' /\ ByItself'
  BY DEF TrialTypeOK, TrialInv, OnItsWay, Founded, CarriedOn, ByItself, PastStore, Working, JobSteps
<1> QED
  BY <1>1, <1>2, <1>3 DEF TrialInv

\* The tokens are granted.
LEMMA GrantTokensKeeps ==
  ASSUME TrialTypeOK, TrialInv, NEW a \in Activations, GrantTokens(a)
  PROVE  TrialTypeOK' /\ TrialInv'
<1> USE DEF GrantTokens, Enter, Me, inStripe, inGraph
<1>1. TrialTypeOK'
  BY TrialAssumption DEF TrialInv, TrialTypeOK, OnItsWay, Stages, JobSteps, PastStore, Working
<1>2. \A b \in Activations : OnItsWay(b)'
  BY DEF TrialInv, TrialTypeOK, OnItsWay, PastStore, Working, JobSteps
<1>3. Founded' /\ CarriedOn' /\ ByItself'
  BY DEF TrialTypeOK, TrialInv, OnItsWay, Founded, CarriedOn, ByItself, PastStore, Working, JobSteps
<1> QED
  BY <1>1, <1>2, <1>3 DEF TrialInv

\* The company is marked.
LEMMA MarkSubscribedKeeps ==
  ASSUME TrialTypeOK, TrialInv, NEW a \in Activations, MarkSubscribed(a)
  PROVE  TrialTypeOK' /\ TrialInv'
<1> USE DEF MarkSubscribed, Enter, Me, inStripe, inGraph
<1>1. TrialTypeOK'
  BY TrialAssumption DEF TrialInv, TrialTypeOK, OnItsWay, Stages, JobSteps, PastStore, Working
<1>2. \A b \in Activations : OnItsWay(b)'
  BY DEF TrialInv, TrialTypeOK, OnItsWay, PastStore, Working, JobSteps
<1>3. Founded' /\ CarriedOn' /\ ByItself'
  BY DEF TrialTypeOK, TrialInv, OnItsWay, Founded, CarriedOn, ByItself, PastStore, Working, JobSteps
<1> QED
  BY <1>1, <1>2, <1>3 DEF TrialInv

\* An attempt that fails after it stored its customer leaves the company halfway.
LEMMA AttemptFailsKeeps ==
  ASSUME TrialTypeOK, TrialInv, NEW a \in Activations, AttemptFails(a)
  PROVE  TrialTypeOK' /\ TrialInv'
<1> USE DEF AttemptFails, Enter, Me, inStripe, inGraph, Working, Retried
<1>1. TrialTypeOK'
  BY TrialAssumption DEF TrialInv, TrialTypeOK, OnItsWay, Stages, JobSteps, PastStore, Working
<1>2. \A b \in Activations : OnItsWay(b)'
  BY DEF TrialInv, TrialTypeOK, OnItsWay, PastStore, Working, JobSteps
<1>3. Founded' /\ CarriedOn' /\ ByItself'
  BY DEF TrialTypeOK, TrialInv, OnItsWay, Founded, CarriedOn, ByItself, PastStore, Working, JobSteps
<1> QED
  BY <1>1, <1>2, <1>3 DEF TrialInv

LEMMA TrialInvStep == TrialTypeOK /\ TrialInv /\ [TrialNext]_trialVars => TrialTypeOK' /\ TrialInv'
<1> SUFFICES ASSUME TrialTypeOK, TrialInv, [TrialNext]_trialVars PROVE TrialTypeOK' /\ TrialInv'
  OBVIOUS
<1>1. CASE UNCHANGED trialVars
  BY <1>1, SMT DEF trialVars, inStripe, inGraph, TrialTypeOK, TrialInv, OnItsWay, Founded, CarriedOn,
                   ByItself, Working, Me
<1>2. ASSUME NEW a \in Activations, RequestStep(a) PROVE TrialTypeOK' /\ TrialInv'
  BY <1>2, FindByCodeKeeps, ActivateKeeps, QueueTrialKeeps, StartAttemptKeeps, Zenon DEF RequestStep
<1>3. ASSUME NEW a \in Activations, CustomerStep(a) PROVE TrialTypeOK' /\ TrialInv'
  BY <1>3, LookForCustomerKeeps, CreateInStripeKeeps, StoreCustomerKeeps, Zenon DEF CustomerStep
<1>4. ASSUME NEW a \in Activations, SubscriptionStep(a) PROVE TrialTypeOK' /\ TrialInv'
  BY <1>4, FindCustomerKeeps, CheckSubscriptionsKeeps, SubscribeInStripeKeeps, RecordTrialKeeps,
     GrantTokensKeeps, MarkSubscribedKeeps, Zenon DEF SubscriptionStep
<1> QED
  BY <1>1, <1>2, <1>3, <1>4, AttemptFailsKeeps, Zenon DEF TrialNext

\* Jobs that never overlap make one subscription.
LEMMA ByItselfCounts == ByItself => OneTrialUnlessAlongside
<1> SUFFICES ASSUME ByItself, alongside = {} PROVE Cardinality(trials) <= 1
  BY DEF OneTrialUnlessAlongside
<1>1. CASE trials = {}
  BY <1>1, FS_EmptySet
<1>2. ASSUME NEW t \in trials PROVE Cardinality(trials) <= 1
  <2>1. trials = {t}
    BY <1>2 DEF ByItself
  <2>2. Cardinality({t}) = 1
    BY FS_Singleton
  <2> QED
    BY <2>1, <2>2
<1> QED
  BY <1>1, <1>2

\* Whatever fails, is repeated or runs side by side, a company marked as
\* subscribed has its customer, its subscription and its tokens; a job that
\* reports success has started the trial or found one that failed halfway; and
\* Stripe holds one trial unless jobs overlapped.
THEOREM TrialsKept == TrialSpec => []TrialsSound
<1>1. TrialTypeOK /\ TrialInv => TrialsSound
  <2> SUFFICES ASSUME TrialTypeOK, TrialInv PROVE TrialsSound
    OBVIOUS
  <2>1. SubscribedHasAll
    BY DEF TrialTypeOK, TrialInv, Founded, SubscribedHasAll
  <2>2. CompletedMeansTrial
    BY DEF TrialInv, OnItsWay, CarriedOn, PastStore, CompletedMeansTrial
  <2> QED
    BY <2>1, <2>2, ByItselfCounts DEF TrialInv, TrialsSound
<1> QED
  BY <1>1, TrialInvInit, TrialInvStep, PTL DEF TrialSpec

-----------------------------------------------------------------------------
(* The codes of an account.  A code is the user's from its issue to its     *)
(* first use (Held), whoever has found it and not used it yet holds it,     *)
(* and holders and users of a code that was not shared are one click        *)
(* (OneUser).  As long as requests for links neither overlap nor fail, the  *)
(* code of the one under way, and else the last one mailed, is the user's   *)
(* unless it was used or swept (LastReachable).                             *)

BeenIssued(c) == c = FirstCode \/ issue[c] # "new"
Holders(c) == {k \in Clicks : click[k] = "found" /\ clicked[k] = c}

Held ==
  /\ usedCodes \in [IssuedCodes -> SUBSET Clicks]
  /\ \A k \in Clicks : click[k] = "found" => clicked[k] \in IssuedCodes /\ BeenIssued(clicked[k])
  /\ \A c \in IssuedCodes : usedCodes[c] # {} => BeenIssued(c) /\ userCode # c
  /\ userCode # NoLink => BeenIssued(userCode)

OneUser == \A c \in IssuedCodes \ shared : \A k, l \in Holders(c) \cup usedCodes[c] : k = l

Requested(i) == issue[i] \in {"read", "send"}
Reachable(c) == userCode = c \/ (userCode = NoLink /\ (usedCodes[c] # {} \/ c \in swept))

LastReachable ==
  ~overlapped /\ (\A i \in Issues : issue[i] # "failed") =>
    /\ \A i, j \in Issues : Requested(i) /\ Requested(j) => i = j
    /\ \A i \in Issues : /\ Requested(i) => Reachable(i)
                         /\ issue[i] = "send" => mailedCode[i] \in {i, NoLink}
    /\ (\A i \in Issues : ~Requested(i)) => Reachable(lastMailed)

LinkInv == Held /\ OneUser /\ LastReachable /\ InactiveHasCode

\* A user who has just registered has the first code, and its mail.
LEMMA LinkInvInit == CodesInit => CodesTypeOK /\ LinkInv
<1> SUFFICES ASSUME CodesInit PROVE CodesTypeOK /\ LinkInv
  OBVIOUS
<1>1. CodesTypeOK
  <2>1. 0 \in 0..MaxCodeFaults
    BY CodesAssumption
  <2> QED
    BY <2>1 DEF CodesInit, CodesTypeOK, IssuedCodes, Purposes
<1>2. Held /\ OneUser
  BY CodesAssumption DEF CodesInit, Held, OneUser, Holders, BeenIssued, IssuedCodes
<1>3. LastReachable
  BY DEF CodesInit, LastReachable, Requested, Reachable
<1>4. InactiveHasCode
  BY CodesAssumption DEF CodesInit, InactiveHasCode, IssuedCodes
<1> QED
  BY <1>1, <1>2, <1>3, <1>4 DEF LinkInv

\* A new code has no holder and no user yet; a request that overlaps another says so.
LEMMA IssueCodeKeeps ==
  ASSUME CodesTypeOK, LinkInv, NEW i \in Issues, NEW purpose \in Purposes, IssueCode(i, purpose)
  PROVE  CodesTypeOK' /\ LinkInv'
<1> USE CodesAssumption DEF IssueCode
<1>1. CodesTypeOK'
  BY DEF LinkInv, Held, CodesTypeOK, IssuedCodes, Purposes
<1>2. Held'
  BY DEF LinkInv, CodesTypeOK, Held, BeenIssued, IssuedCodes
<1>3. OneUser'
  BY DEF LinkInv, CodesTypeOK, Held, OneUser, Holders, BeenIssued, IssuedCodes
<1>4. LastReachable'
  BY DEF LinkInv, CodesTypeOK, Held, LastReachable, Requested, Reachable, IssuedCodes
<1>5. InactiveHasCode'
  BY DEF LinkInv, CodesTypeOK, Held, InactiveHasCode, IssuedCodes
<1> QED
  BY <1>1, <1>2, <1>3, <1>4, <1>5 DEF LinkInv

\* The mail gets the request's own code, or none.
LEMMA ReadIssuedKeeps ==
  ASSUME CodesTypeOK, LinkInv, NEW i \in Issues, ReadIssued(i)
  PROVE  CodesTypeOK' /\ LinkInv'
<1> USE CodesAssumption DEF ReadIssued
<1>1. CodesTypeOK'
  BY DEF LinkInv, Held, CodesTypeOK, IssuedCodes, Purposes
<1>2. Held'
  BY DEF LinkInv, CodesTypeOK, Held, BeenIssued, IssuedCodes
<1>3. OneUser'
  BY DEF LinkInv, CodesTypeOK, Held, OneUser, Holders, BeenIssued, IssuedCodes
<1>4. LastReachable'
  BY DEF LinkInv, CodesTypeOK, Held, LastReachable, Requested, Reachable, IssuedCodes
<1>5. InactiveHasCode'
  BY DEF LinkInv, CodesTypeOK, Held, InactiveHasCode, IssuedCodes
<1> QED
  BY <1>1, <1>2, <1>3, <1>4, <1>5 DEF LinkInv

\* The code mailed is reachable if the request's was.
LEMMA SendLinkKeeps ==
  ASSUME CodesTypeOK, LinkInv, NEW i \in Issues, SendLink(i)
  PROVE  CodesTypeOK' /\ LinkInv'
<1> USE CodesAssumption DEF SendLink
<1>1. CodesTypeOK'
  BY DEF LinkInv, Held, CodesTypeOK, IssuedCodes, Purposes
<1>2. Held'
  BY DEF LinkInv, CodesTypeOK, Held, BeenIssued, IssuedCodes
<1>3. OneUser'
  BY DEF LinkInv, CodesTypeOK, Held, OneUser, Holders, BeenIssued, IssuedCodes
<1>4. LastReachable'
  BY DEF LinkInv, CodesTypeOK, Held, LastReachable, Requested, Reachable, IssuedCodes
<1>5. InactiveHasCode'
  BY DEF LinkInv, CodesTypeOK, Held, InactiveHasCode, IssuedCodes
<1> QED
  BY <1>1, <1>2, <1>3, <1>4, <1>5 DEF LinkInv

\* A request that failed is set aside.
LEMMA LinkFailsKeeps ==
  ASSUME CodesTypeOK, LinkInv, NEW i \in Issues, LinkFails(i)
  PROVE  CodesTypeOK' /\ LinkInv'
<1> USE CodesAssumption DEF LinkFails
<1>1. CodesTypeOK'
  BY DEF LinkInv, Held, CodesTypeOK, IssuedCodes, Purposes
<1>2. Held'
  BY DEF LinkInv, CodesTypeOK, Held, BeenIssued, IssuedCodes
<1>3. OneUser'
  BY DEF LinkInv, CodesTypeOK, Held, OneUser, Holders, BeenIssued, IssuedCodes
<1>4. LastReachable'
  BY DEF LinkInv, CodesTypeOK, Held, LastReachable, Requested, Reachable, IssuedCodes
<1>5. InactiveHasCode'
  BY DEF LinkInv, CodesTypeOK, Held, InactiveHasCode, IssuedCodes
<1> QED
  BY <1>1, <1>2, <1>3, <1>4, <1>5 DEF LinkInv

\* A code that is found has not been used; a second holder shares it.
LEMMA FindWithCodeKeeps ==
  ASSUME CodesTypeOK, LinkInv, NEW k \in Clicks, NEW c \in IssuedCodes, FindWithCode(k, c)
  PROVE  CodesTypeOK' /\ LinkInv'
<1> USE CodesAssumption DEF FindWithCode
<1>1. CodesTypeOK'
  BY DEF LinkInv, Held, CodesTypeOK, IssuedCodes, Purposes
<1>2. Held'
  BY DEF LinkInv, CodesTypeOK, Held, BeenIssued, IssuedCodes
<1>3. OneUser'
  BY DEF LinkInv, CodesTypeOK, Held, OneUser, Holders, BeenIssued, IssuedCodes
<1>4. LastReachable'
  BY DEF LinkInv, CodesTypeOK, Held, LastReachable, Requested, Reachable, IssuedCodes
<1>5. InactiveHasCode'
  BY DEF LinkInv, CodesTypeOK, Held, InactiveHasCode, IssuedCodes
<1> QED
  BY <1>1, <1>2, <1>3, <1>4, <1>5 DEF LinkInv

\* The user of a code was its holder; the code is gone for all.
LEMMA UseLinkKeeps ==
  ASSUME CodesTypeOK, LinkInv, NEW k \in Clicks, UseLink(k)
  PROVE  CodesTypeOK' /\ LinkInv'
<1> USE CodesAssumption DEF UseLink, ClearedCode, MakesActive
<1>1. CodesTypeOK'
  BY DEF LinkInv, Held, CodesTypeOK, IssuedCodes, Purposes
<1>2. Held'
  BY DEF LinkInv, CodesTypeOK, Held, BeenIssued, IssuedCodes
<1>3. OneUser'
  BY DEF LinkInv, CodesTypeOK, Held, OneUser, Holders, BeenIssued, IssuedCodes
<1>4. LastReachable'
  BY DEF LinkInv, CodesTypeOK, Held, LastReachable, Requested, Reachable, IssuedCodes
<1>5. InactiveHasCode'
  BY DEF LinkInv, CodesTypeOK, Held, InactiveHasCode, IssuedCodes
<1> QED
  BY <1>1, <1>2, <1>3, <1>4, <1>5 DEF LinkInv

LEMMA LinkInvStep == CodesTypeOK /\ LinkInv /\ [CodesNext]_accountVars => CodesTypeOK' /\ LinkInv'
<1> SUFFICES ASSUME CodesTypeOK, LinkInv, [CodesNext]_accountVars PROVE CodesTypeOK' /\ LinkInv'
  OBVIOUS
<1>1. CASE UNCHANGED accountVars
  BY <1>1, SMT DEF accountVars, CodesTypeOK, LinkInv, Held, OneUser, Holders, BeenIssued, LastReachable,
                   Requested, Reachable, InactiveHasCode
<1>2. CASE LinkExpires
  BY <1>2, SMT DEF LinkExpires, CodesTypeOK, LinkInv, Held, OneUser, Holders, BeenIssued, LastReachable,
                   Requested, Reachable, InactiveHasCode
<1> QED
  BY <1>1, <1>2, IssueCodeKeeps, ReadIssuedKeeps, SendLinkKeeps, LinkFailsKeeps, FindWithCodeKeeps,
     UseLinkKeeps, Zenon DEF CodesNext

\* In every order of requests, mails and clicks, the last link mailed works
\* until it is used, expires or is swept by an older one; a link is used once
\* unless two clicks held it together; and only a reset before the activation
\* leaves an account without a code that is not active.
THEOREM CodesKept == CodesSpec => []CodesSound
<1>1. CodesTypeOK /\ LinkInv => CodesSound
  <2> SUFFICES ASSUME CodesTypeOK, LinkInv PROVE CodesSound
    OBVIOUS
  <2>1. LastLinkWorks
    <3> SUFFICES ASSUME ~overlapped, \A i \in Issues : issue[i] \in {"new", "done"},
                        usedCodes[lastMailed] = {}, lastMailed \notin swept
                 PROVE  userCode = lastMailed
      BY DEF LastLinkWorks
    <3> QED
      BY DEF LinkInv, LastReachable, Requested, Reachable
  <2>2. ASSUME NEW c \in IssuedCodes \ shared PROVE Cardinality(usedCodes[c]) <= 1
    <3>1. CASE usedCodes[c] = {}
      BY <3>1, FS_EmptySet
    <3>2. ASSUME NEW k \in usedCodes[c] PROVE Cardinality(usedCodes[c]) <= 1
      <4>1. usedCodes[c] = {k}
        BY <3>2 DEF LinkInv, OneUser
      <4>2. Cardinality({k}) = 1
        BY FS_Singleton
      <4> QED
        BY <4>1, <4>2
    <3> QED
      BY <3>1, <3>2
  <2> QED
    BY <2>1, <2>2 DEF LinkInv, LinkUsedOnce, CodesSound
<1> QED
  BY <1>1, LinkInvInit, LinkInvStep, PTL DEF CodesSpec

-----------------------------------------------------------------------------
(* Registration by invitation.  Registrants that are at work at the same    *)
(* time contend (TheyContend); the code of the entry is set once unless a   *)
(* write slipped, so that a registrant at work brings the code the entry    *)
(* still has (Placed); an address that was looked up stays free for a       *)
(* registrant that does not contend; and once there is a user, the entry is *)
(* registered or about to be, and no other registrant comes in (OneLetIn).  *)

\* Where a registrant is, and what exists of it.
Placed(r) ==
  /\ registering[r] = "user" => r \in companies
  /\ r \in users => registering[r] \in {"link", "mark", "send", "forget", "done", "unmarked", "failed"}
  /\ registering[r] \in {"link", "mark", "send", "forget"} => r \in users
  /\ registering[r] = "unmarked" => slipped
  /\ registering[r] = "failed" => r \in brokenOff
  /\ registering[r] \in Steps /\ ~slipped => usedCode[r] = inviteCode
  /\ registering[r] \in {"company", "user"} /\ ByPassword(r) /\ r \notin contenders => ~TakenAddress(r)

InvitedOnce == ~slipped /\ inviteCode # NoInvite => waiting \in {"invited", "registered"}

TheyContend ==
  \A r, s \in Registrants : registering[r] \in Steps /\ registering[s] \in Steps /\ r # s => r \in contenders

OneLetIn ==
  contenders = {} /\ brokenOff = {} /\ ~slipped =>
    /\ \A u, v \in users : u = v
    /\ \A u \in users : waiting = "registered" \/ registering[u] \in {"link", "mark"}
    /\ users # {} => \A r \in Registrants : registering[r] \notin {"check", "company", "user"}

AtWorkHasCode == \A r \in Registrants : registering[r] \in Steps => usedCode[r] # NoInvite

RegistrationInv ==
  /\ \A r \in Registrants : Placed(r)
  /\ InvitedOnce /\ TheyContend /\ AtWorkHasCode /\ OneLetIn /\ NoOrphanCompany

\* The entry has been stored, and nobody has registered.
LEMMA RegistrationInvInit == RegistrationInit => RegistrationTypeOK /\ RegistrationInv
<1> SUFFICES ASSUME RegistrationInit PROVE RegistrationTypeOK /\ RegistrationInv
  OBVIOUS
<1>1. RegistrationTypeOK
  <2>1. 0 \in 0..MaxRegistrationFaults
    BY RegistrationAssumption
  <2> QED
    BY <2>1 DEF RegistrationInit, RegistrationTypeOK
<1>2. \A r \in Registrants : Placed(r)
  BY DEF RegistrationInit, Placed, Steps
<1> QED
  BY <1>1, <1>2 DEF RegistrationInit, RegistrationInv, InvitedOnce, TheyContend, AtWorkHasCode, OneLetIn,
                    NoOrphanCompany, Steps

\* A confirmation finds the entry.
LEMMA FindToConfirmKeeps ==
  ASSUME RegistrationTypeOK, RegistrationInv, NEW c \in Confirmations, FindToConfirm(c)
  PROVE  RegistrationTypeOK' /\ RegistrationInv'
<1> USE RegistrationAssumption DEF FindToConfirm, Steps, Closed, entry, requested, made
<1>1. RegistrationTypeOK'
  BY DEF RegistrationInv, Placed, RegistrationTypeOK
<1>2. ASSUME NEW s \in Registrants PROVE Placed(s)'
  BY DEF RegistrationInv, RegistrationTypeOK, Placed, InvitedOnce, TheyContend, AtWorkHasCode, ByPassword, TakenAddress
<1>3. InvitedOnce' /\ TheyContend' /\ AtWorkHasCode'
  BY DEF RegistrationInv, RegistrationTypeOK, Placed, InvitedOnce, TheyContend, AtWorkHasCode
<1>4. OneLetIn'
  BY DEF RegistrationInv, RegistrationTypeOK, Placed, OneLetIn, TheyContend, AtWorkHasCode, InvitedOnce
<1>5. NoOrphanCompany'
  BY DEF RegistrationInv, RegistrationTypeOK, Placed, NoOrphanCompany, ByPassword, TakenAddress
<1> QED
  BY <1>1, <1>2, <1>3, <1>4, <1>5 DEF RegistrationInv

\* An entry that has been invited is not confirmed again, short of a slip.
LEMMA ConfirmEntryKeeps ==
  ASSUME RegistrationTypeOK, RegistrationInv, NEW c \in Confirmations, ConfirmEntry(c)
  PROVE  RegistrationTypeOK' /\ RegistrationInv'
<1> USE RegistrationAssumption DEF ConfirmEntry, Steps, Closed, entry, requested, made
<1>1. RegistrationTypeOK'
  BY DEF RegistrationInv, Placed, RegistrationTypeOK
<1>2. ASSUME NEW s \in Registrants PROVE Placed(s)'
  BY DEF RegistrationInv, RegistrationTypeOK, Placed, InvitedOnce, TheyContend, AtWorkHasCode, ByPassword, TakenAddress
<1>3. InvitedOnce' /\ TheyContend' /\ AtWorkHasCode'
  BY DEF RegistrationInv, RegistrationTypeOK, Placed, InvitedOnce, TheyContend, AtWorkHasCode
<1>4. OneLetIn'
  BY DEF RegistrationInv, RegistrationTypeOK, Placed, OneLetIn, TheyContend, AtWorkHasCode, InvitedOnce
<1>5. NoOrphanCompany'
  BY DEF RegistrationInv, RegistrationTypeOK, Placed, NoOrphanCompany, ByPassword, TakenAddress
<1> QED
  BY <1>1, <1>2, <1>3, <1>4, <1>5 DEF RegistrationInv

\* An invitation finds the entry.
LEMMA FindToInviteKeeps ==
  ASSUME RegistrationTypeOK, RegistrationInv, NEW i \in Invitations, FindToInvite(i)
  PROVE  RegistrationTypeOK' /\ RegistrationInv'
<1> USE RegistrationAssumption DEF FindToInvite, Steps, Closed, entry, requested, made
<1>1. RegistrationTypeOK'
  BY DEF RegistrationInv, Placed, RegistrationTypeOK
<1>2. ASSUME NEW s \in Registrants PROVE Placed(s)'
  BY DEF RegistrationInv, RegistrationTypeOK, Placed, InvitedOnce, TheyContend, AtWorkHasCode, ByPassword, TakenAddress
<1>3. InvitedOnce' /\ TheyContend' /\ AtWorkHasCode'
  BY DEF RegistrationInv, RegistrationTypeOK, Placed, InvitedOnce, TheyContend, AtWorkHasCode
<1>4. OneLetIn'
  BY DEF RegistrationInv, RegistrationTypeOK, Placed, OneLetIn, TheyContend, AtWorkHasCode, InvitedOnce
<1>5. NoOrphanCompany'
  BY DEF RegistrationInv, RegistrationTypeOK, Placed, NoOrphanCompany, ByPassword, TakenAddress
<1> QED
  BY <1>1, <1>2, <1>3, <1>4, <1>5 DEF RegistrationInv

\* The entry has no code before, short of a slip.
LEMMA SetInviteCodeKeeps ==
  ASSUME RegistrationTypeOK, RegistrationInv, NEW i \in Invitations, SetInviteCode(i)
  PROVE  RegistrationTypeOK' /\ RegistrationInv'
<1> USE RegistrationAssumption DEF SetInviteCode, Steps, Closed, entry, requested, made
<1>1. RegistrationTypeOK'
  BY DEF RegistrationInv, Placed, RegistrationTypeOK
<1>2. ASSUME NEW s \in Registrants PROVE Placed(s)'
  BY DEF RegistrationInv, RegistrationTypeOK, Placed, InvitedOnce, TheyContend, AtWorkHasCode, ByPassword, TakenAddress
<1>3. InvitedOnce' /\ TheyContend' /\ AtWorkHasCode'
  BY DEF RegistrationInv, RegistrationTypeOK, Placed, InvitedOnce, TheyContend, AtWorkHasCode
<1>4. OneLetIn'
  BY DEF RegistrationInv, RegistrationTypeOK, Placed, OneLetIn, TheyContend, AtWorkHasCode, InvitedOnce
<1>5. NoOrphanCompany'
  BY DEF RegistrationInv, RegistrationTypeOK, Placed, NoOrphanCompany, ByPassword, TakenAddress
<1> QED
  BY <1>1, <1>2, <1>3, <1>4, <1>5 DEF RegistrationInv

\* The code is mailed, or not.
LEMMA SendInviteKeeps ==
  ASSUME RegistrationTypeOK, RegistrationInv, NEW i \in Invitations, SendInvite(i)
  PROVE  RegistrationTypeOK' /\ RegistrationInv'
<1> USE RegistrationAssumption DEF SendInvite, Steps, Closed, entry, requested, made
<1>1. RegistrationTypeOK'
  BY DEF RegistrationInv, Placed, RegistrationTypeOK
<1>2. ASSUME NEW s \in Registrants PROVE Placed(s)'
  BY DEF RegistrationInv, RegistrationTypeOK, Placed, InvitedOnce, TheyContend, AtWorkHasCode, ByPassword, TakenAddress
<1>3. InvitedOnce' /\ TheyContend' /\ AtWorkHasCode'
  BY DEF RegistrationInv, RegistrationTypeOK, Placed, InvitedOnce, TheyContend, AtWorkHasCode
<1>4. OneLetIn'
  BY DEF RegistrationInv, RegistrationTypeOK, Placed, OneLetIn, TheyContend, AtWorkHasCode, InvitedOnce
<1>5. NoOrphanCompany'
  BY DEF RegistrationInv, RegistrationTypeOK, Placed, NoOrphanCompany, ByPassword, TakenAddress
<1> QED
  BY <1>1, <1>2, <1>3, <1>4, <1>5 DEF RegistrationInv

\* A registrant that comes in while others are at work contends with them.
LEMMA ValidateInviteKeeps ==
  ASSUME RegistrationTypeOK, RegistrationInv, NEW r \in Registrants, NEW i \in Invitations, ValidateInvite(r, i)
  PROVE  RegistrationTypeOK' /\ RegistrationInv'
<1> USE RegistrationAssumption DEF ValidateInvite, RegisterTo, Steps, Closed, entry, requested, made, Valid
<1>1. RegistrationTypeOK'
  BY DEF RegistrationInv, Placed, RegistrationTypeOK
<1>2. ASSUME NEW s \in Registrants PROVE Placed(s)'
  BY DEF RegistrationInv, RegistrationTypeOK, Placed, InvitedOnce, TheyContend, AtWorkHasCode, ByPassword, TakenAddress
<1>3. InvitedOnce' /\ TheyContend' /\ AtWorkHasCode'
  BY DEF RegistrationInv, RegistrationTypeOK, Placed, InvitedOnce, TheyContend, AtWorkHasCode
<1>4. OneLetIn'
  BY DEF RegistrationInv, RegistrationTypeOK, Placed, OneLetIn, TheyContend, AtWorkHasCode, InvitedOnce
<1>5. NoOrphanCompany'
  BY DEF RegistrationInv, RegistrationTypeOK, Placed, NoOrphanCompany, ByPassword, TakenAddress
<1> QED
  BY <1>1, <1>2, <1>3, <1>4, <1>5 DEF RegistrationInv

\* The address is free.
LEMMA ExpectNotExistsKeeps ==
  ASSUME RegistrationTypeOK, RegistrationInv, NEW r \in Registrants, ExpectNotExists(r)
  PROVE  RegistrationTypeOK' /\ RegistrationInv'
<1> USE RegistrationAssumption DEF ExpectNotExists, RegisterTo, Steps, Closed, entry, requested, made
<1>1. RegistrationTypeOK'
  BY DEF RegistrationInv, Placed, RegistrationTypeOK
<1>2. ASSUME NEW s \in Registrants PROVE Placed(s)'
  BY DEF RegistrationInv, RegistrationTypeOK, Placed, InvitedOnce, TheyContend, AtWorkHasCode, ByPassword, TakenAddress
<1>3. InvitedOnce' /\ TheyContend' /\ AtWorkHasCode'
  BY DEF RegistrationInv, RegistrationTypeOK, Placed, InvitedOnce, TheyContend, AtWorkHasCode
<1>4. OneLetIn'
  BY DEF RegistrationInv, RegistrationTypeOK, Placed, OneLetIn, TheyContend, AtWorkHasCode, InvitedOnce
<1>5. NoOrphanCompany'
  BY DEF RegistrationInv, RegistrationTypeOK, Placed, NoOrphanCompany, ByPassword, TakenAddress
<1> QED
  BY <1>1, <1>2, <1>3, <1>4, <1>5 DEF RegistrationInv

\* A company without its user yet.
LEMMA CreateCompanyKeeps ==
  ASSUME RegistrationTypeOK, RegistrationInv, NEW r \in Registrants, CreateCompany(r)
  PROVE  RegistrationTypeOK' /\ RegistrationInv'
<1> USE RegistrationAssumption DEF CreateCompany, RegisterTo, Steps, Closed, entry, requested, made
<1>1. RegistrationTypeOK'
  BY DEF RegistrationInv, Placed, RegistrationTypeOK
<1>2. ASSUME NEW s \in Registrants PROVE Placed(s)'
  BY DEF RegistrationInv, RegistrationTypeOK, Placed, InvitedOnce, TheyContend, AtWorkHasCode, ByPassword, TakenAddress
<1>3. InvitedOnce' /\ TheyContend' /\ AtWorkHasCode'
  BY DEF RegistrationInv, RegistrationTypeOK, Placed, InvitedOnce, TheyContend, AtWorkHasCode
<1>4. OneLetIn'
  BY DEF RegistrationInv, RegistrationTypeOK, Placed, OneLetIn, TheyContend, AtWorkHasCode, InvitedOnce
<1>5. NoOrphanCompany'
  BY DEF RegistrationInv, RegistrationTypeOK, Placed, NoOrphanCompany, ByPassword, TakenAddress
<1> QED
  BY <1>1, <1>2, <1>3, <1>4, <1>5 DEF RegistrationInv

\* The user of the company; no other registrant that does not contend is at work.
LEMMA CreateUserKeeps ==
  ASSUME RegistrationTypeOK, RegistrationInv, NEW r \in Registrants, CreateUser(r)
  PROVE  RegistrationTypeOK' /\ RegistrationInv'
<1> USE RegistrationAssumption DEF CreateUser, RegisterTo, Steps, Closed, entry, requested, made
<1>1. RegistrationTypeOK'
  BY DEF RegistrationInv, Placed, RegistrationTypeOK
<1>2. ASSUME NEW s \in Registrants PROVE Placed(s)'
  BY DEF RegistrationInv, RegistrationTypeOK, Placed, InvitedOnce, TheyContend, AtWorkHasCode, ByPassword, TakenAddress
<1>3. InvitedOnce' /\ TheyContend' /\ AtWorkHasCode'
  BY DEF RegistrationInv, RegistrationTypeOK, Placed, InvitedOnce, TheyContend, AtWorkHasCode
<1>4. OneLetIn'
  BY DEF RegistrationInv, RegistrationTypeOK, Placed, OneLetIn, TheyContend, AtWorkHasCode, InvitedOnce
<1>5. NoOrphanCompany'
  BY DEF RegistrationInv, RegistrationTypeOK, Placed, NoOrphanCompany, ByPassword, TakenAddress
<1> QED
  BY <1>1, <1>2, <1>3, <1>4, <1>5 DEF RegistrationInv

\* The user is linked to its provider.
LEMMA LinkProviderKeeps ==
  ASSUME RegistrationTypeOK, RegistrationInv, NEW r \in Registrants, LinkProvider(r)
  PROVE  RegistrationTypeOK' /\ RegistrationInv'
<1> USE RegistrationAssumption DEF LinkProvider, RegisterTo, Steps, Closed, entry, requested, made
<1>1. RegistrationTypeOK'
  BY DEF RegistrationInv, Placed, RegistrationTypeOK
<1>2. ASSUME NEW s \in Registrants PROVE Placed(s)'
  BY DEF RegistrationInv, RegistrationTypeOK, Placed, InvitedOnce, TheyContend, AtWorkHasCode, ByPassword, TakenAddress
<1>3. InvitedOnce' /\ TheyContend' /\ AtWorkHasCode'
  BY DEF RegistrationInv, RegistrationTypeOK, Placed, InvitedOnce, TheyContend, AtWorkHasCode
<1>4. OneLetIn'
  BY DEF RegistrationInv, RegistrationTypeOK, Placed, OneLetIn, TheyContend, AtWorkHasCode, InvitedOnce
<1>5. NoOrphanCompany'
  BY DEF RegistrationInv, RegistrationTypeOK, Placed, NoOrphanCompany, ByPassword, TakenAddress
<1> QED
  BY <1>1, <1>2, <1>3, <1>4, <1>5 DEF RegistrationInv

\* The entry is registered, unless its code was replaced by a slip.
LEMMA MarkRegisteredKeeps ==
  ASSUME RegistrationTypeOK, RegistrationInv, NEW r \in Registrants, MarkRegistered(r)
  PROVE  RegistrationTypeOK' /\ RegistrationInv'
<1> USE RegistrationAssumption DEF MarkRegistered, RegisterTo, Steps, Closed, entry, requested, made
<1>1. RegistrationTypeOK'
  BY DEF RegistrationInv, Placed, RegistrationTypeOK
<1>2. ASSUME NEW s \in Registrants PROVE Placed(s)'
  BY DEF RegistrationInv, RegistrationTypeOK, Placed, InvitedOnce, TheyContend, AtWorkHasCode, ByPassword, TakenAddress
<1>3. InvitedOnce' /\ TheyContend' /\ AtWorkHasCode'
  BY DEF RegistrationInv, RegistrationTypeOK, Placed, InvitedOnce, TheyContend, AtWorkHasCode
<1>4. OneLetIn'
  BY DEF RegistrationInv, RegistrationTypeOK, Placed, OneLetIn, TheyContend, AtWorkHasCode, InvitedOnce
<1>5. NoOrphanCompany'
  BY DEF RegistrationInv, RegistrationTypeOK, Placed, NoOrphanCompany, ByPassword, TakenAddress
<1> QED
  BY <1>1, <1>2, <1>3, <1>4, <1>5 DEF RegistrationInv

\* The link is mailed.
LEMMA SendActivationKeeps ==
  ASSUME RegistrationTypeOK, RegistrationInv, NEW r \in Registrants, SendActivation(r)
  PROVE  RegistrationTypeOK' /\ RegistrationInv'
<1> USE RegistrationAssumption DEF SendActivation, RegisterTo, Steps, Closed, entry, requested, made
<1>1. RegistrationTypeOK'
  BY DEF RegistrationInv, Placed, RegistrationTypeOK
<1>2. ASSUME NEW s \in Registrants PROVE Placed(s)'
  BY DEF RegistrationInv, RegistrationTypeOK, Placed, InvitedOnce, TheyContend, AtWorkHasCode, ByPassword, TakenAddress
<1>3. InvitedOnce' /\ TheyContend' /\ AtWorkHasCode'
  BY DEF RegistrationInv, RegistrationTypeOK, Placed, InvitedOnce, TheyContend, AtWorkHasCode
<1>4. OneLetIn'
  BY DEF RegistrationInv, RegistrationTypeOK, Placed, OneLetIn, TheyContend, AtWorkHasCode, InvitedOnce
<1>5. NoOrphanCompany'
  BY DEF RegistrationInv, RegistrationTypeOK, Placed, NoOrphanCompany, ByPassword, TakenAddress
<1> QED
  BY <1>1, <1>2, <1>3, <1>4, <1>5 DEF RegistrationInv

\* The consent is used up.
LEMMA ForgetPendingKeeps ==
  ASSUME RegistrationTypeOK, RegistrationInv, NEW r \in Registrants, ForgetPending(r)
  PROVE  RegistrationTypeOK' /\ RegistrationInv'
<1> USE RegistrationAssumption DEF ForgetPending, RegisterTo, Steps, Closed, entry, requested, made
<1>1. RegistrationTypeOK'
  BY DEF RegistrationInv, Placed, RegistrationTypeOK
<1>2. ASSUME NEW s \in Registrants PROVE Placed(s)'
  BY DEF RegistrationInv, RegistrationTypeOK, Placed, InvitedOnce, TheyContend, AtWorkHasCode, ByPassword, TakenAddress
<1>3. InvitedOnce' /\ TheyContend' /\ AtWorkHasCode'
  BY DEF RegistrationInv, RegistrationTypeOK, Placed, InvitedOnce, TheyContend, AtWorkHasCode
<1>4. OneLetIn'
  BY DEF RegistrationInv, RegistrationTypeOK, Placed, OneLetIn, TheyContend, AtWorkHasCode, InvitedOnce
<1>5. NoOrphanCompany'
  BY DEF RegistrationInv, RegistrationTypeOK, Placed, NoOrphanCompany, ByPassword, TakenAddress
<1> QED
  BY <1>1, <1>2, <1>3, <1>4, <1>5 DEF RegistrationInv

\* A registration that breaks off says so.
LEMMA BreakOffKeeps ==
  ASSUME RegistrationTypeOK, RegistrationInv, NEW r \in Registrants, BreakOff(r)
  PROVE  RegistrationTypeOK' /\ RegistrationInv'
<1> USE RegistrationAssumption DEF BreakOff, RegisterTo, Steps, Closed, entry, requested, made
<1>1. RegistrationTypeOK'
  BY DEF RegistrationInv, Placed, RegistrationTypeOK
<1>2. ASSUME NEW s \in Registrants PROVE Placed(s)'
  BY DEF RegistrationInv, RegistrationTypeOK, Placed, InvitedOnce, TheyContend, AtWorkHasCode, ByPassword, TakenAddress
<1>3. InvitedOnce' /\ TheyContend' /\ AtWorkHasCode'
  BY DEF RegistrationInv, RegistrationTypeOK, Placed, InvitedOnce, TheyContend, AtWorkHasCode
<1>4. OneLetIn'
  BY DEF RegistrationInv, RegistrationTypeOK, Placed, OneLetIn, TheyContend, AtWorkHasCode, InvitedOnce
<1>5. NoOrphanCompany'
  BY DEF RegistrationInv, RegistrationTypeOK, Placed, NoOrphanCompany, ByPassword, TakenAddress
<1> QED
  BY <1>1, <1>2, <1>3, <1>4, <1>5 DEF RegistrationInv

LEMMA RegistrationInvStep ==
  RegistrationTypeOK /\ RegistrationInv /\ [RegistrationNext]_registrationVars
    => RegistrationTypeOK' /\ RegistrationInv'
<1> SUFFICES ASSUME RegistrationTypeOK, RegistrationInv, [RegistrationNext]_registrationVars
             PROVE  RegistrationTypeOK' /\ RegistrationInv'
  OBVIOUS
<1>1. CASE UNCHANGED registrationVars
  BY <1>1, SMT DEF registrationVars, entry, requested, made, RegistrationTypeOK, RegistrationInv, Placed,
                   InvitedOnce, TheyContend, AtWorkHasCode, OneLetIn, NoOrphanCompany, ByPassword, TakenAddress
<1>2. CASE EntryStep
  BY <1>2, FindToConfirmKeeps, ConfirmEntryKeeps, FindToInviteKeeps, SetInviteCodeKeeps, SendInviteKeeps,
     Zenon DEF EntryStep
<1>3. ASSUME NEW r \in Registrants, RegistrantStep(r) PROVE RegistrationTypeOK' /\ RegistrationInv'
  BY <1>3, ValidateInviteKeeps, ExpectNotExistsKeeps, CreateCompanyKeeps, CreateUserKeeps, LinkProviderKeeps,
     MarkRegisteredKeeps, SendActivationKeeps, ForgetPendingKeeps, BreakOffKeeps, Zenon DEF RegistrantStep
<1> QED
  BY <1>1, <1>2, <1>3, Zenon DEF RegistrationNext

\* However confirmations, invitations and registrations interleave, an entry
\* makes one user unless registrants overlapped, broke off or a write slipped;
\* a user who is there is marked and mailed; and only a registration that broke
\* off, overlapped or came through a provider leaves a company without a user.
THEOREM RegistrationsKept == RegistrationSpec => []RegistrationsSound
<1>1. RegistrationTypeOK /\ RegistrationInv => RegistrationsSound
  <2> SUFFICES ASSUME RegistrationTypeOK, RegistrationInv PROVE RegistrationsSound
    OBVIOUS
  <2>1. NobodyStranded
    BY DEF RegistrationTypeOK, RegistrationInv, Placed, NobodyStranded, Closed
  <2>2. ASSUME contenders = {}, brokenOff = {}, ~slipped PROVE Cardinality(users) <= 1
    <3>1. CASE users = {}
      BY <3>1, FS_EmptySet
    <3>2. ASSUME NEW u \in users PROVE Cardinality(users) <= 1
      <4>1. users = {u}
        BY <2>2, <3>2 DEF RegistrationInv, OneLetIn
      <4>2. Cardinality({u}) = 1
        BY FS_Singleton
      <4> QED
        BY <4>1, <4>2
    <3> QED
      BY <3>1, <3>2
  <2> QED
    BY <2>1, <2>2 DEF RegistrationInv, OneUserPerEntry, RegistrationsSound
<1> QED
  BY <1>1, RegistrationInvInit, RegistrationInvStep, PTL DEF RegistrationSpec

-----------------------------------------------------------------------------
(* The second factor.  Requests under way at the same time are beside each  *)
(* other (Overlapping).  A challenge that signed somebody in is gone, and a *)
(* code that was spent is not unused again (DoneWith): whoever still works  *)
(* either was beside the one who did (SignedTogether, SpentTogether).  No   *)
(* more checks are counted than attempts (CountedAttempts); and a user who  *)
(* must give a factor and has none is being looked at (LookedAt).           *)

\* What a request works on.
WorksOn(v) ==
  /\ doing[v] \in {"count", "drop", "check", "use", "close", "forget", "created"} =>
       on[v] \in Challenges /\ pending[on[v]] \in {"open", "gone"}
  /\ doing[v] = "use" => with[v] \in BackupCodes /\ job[v] = "backup"
  /\ doing[v] = "forget" => pending[on[v]] = "gone"

Overlapping ==
  \A v, w \in Verifications : Underway(v) /\ Underway(w) /\ v # w => <<v, w>> \in beside

DoneWith(v) ==
  /\ v \in signedIn => doing[v] = "done" /\ on[v] \in Challenges /\ pending[on[v]] = "gone"
  /\ v \in spent => /\ doing[v] \in {"close", "done"} /\ job[v] = "backup"
                    /\ with[v] \in BackupCodes /\ backup[with[v]] # "unused"

SignedTogether ==
  \A v, w \in Verifications :
    v # w /\ v \in signedIn /\ on[w] = on[v] /\ (Underway(w) \/ w \in signedIn)
      => <<v, w>> \in beside /\ <<w, v>> \in beside

SpentTogether ==
  \A v, w \in Verifications :
    v # w /\ v \in spent /\ with[w] = with[v] /\ (doing[w] = "use" \/ w \in spent)
      => <<v, w>> \in beside /\ <<w, v>> \in beside

CountedAttempts == \A s \in Challenges : counted[s] <= attempts[s]

LookedAt == enabled = "on" /\ factors = {} => unguarded \/ \E v \in Verifications : doing[v] \in {"look", "off"}

FactorInv ==
  /\ \A v \in Verifications : WorksOn(v) /\ DoneWith(v)
  /\ Overlapping /\ SignedTogether /\ SpentTogether
  /\ CountedAttempts /\ AttemptsBounded /\ LookedAt

\* Nobody has asked for anything.
LEMMA FactorInvInit == TwoFactorInit => TwoFactorTypeOK /\ FactorInv
<1> SUFFICES ASSUME TwoFactorInit PROVE TwoFactorTypeOK /\ FactorInv
  OBVIOUS
<1>1. TwoFactorTypeOK
  <2>1. 0 \in 0..MaxTwoFactorFaults
    BY TwoFactorAssumption
  <2> QED
    BY <2>1 DEF TwoFactorInit, TwoFactorTypeOK, Kinds, VerificationSteps, VerificationJobs
<1>2. AttemptsBounded /\ CountedAttempts
  BY TwoFactorAssumption DEF TwoFactorInit, AttemptsBounded, CountedAttempts
<1>3. \A v \in Verifications : WorksOn(v) /\ DoneWith(v)
  BY DEF TwoFactorInit, WorksOn, DoneWith
<1> QED
  BY <1>1, <1>2, <1>3 DEF TwoFactorInit, FactorInv, Overlapping, SignedTogether, SpentTogether, LookedAt, Underway

\* What was open is gone; what was used was open or gone.
LEMMA ReplaceKeeps ==
  ASSUME TwoFactorTypeOK, FactorInv, NEW s \in Challenges, NEW kind \in Kinds, Replace(s, kind)
  PROVE  TwoFactorTypeOK' /\ FactorInv'
<1> USE TwoFactorAssumption DEF Replace, settings, challenge, asked, told
<1>1. TwoFactorTypeOK'
  BY DEF FactorInv, WorksOn, TwoFactorTypeOK, VerificationSteps, VerificationJobs, Kinds
<1>2. ASSUME NEW w \in Verifications PROVE WorksOn(w)' /\ DoneWith(w)'
  BY DEF FactorInv, TwoFactorTypeOK, WorksOn, DoneWith
<1>3. Overlapping' /\ SignedTogether'
  BY DEF FactorInv, TwoFactorTypeOK, WorksOn, DoneWith, Overlapping, SignedTogether, Underway
<1>4. SpentTogether'
  BY DEF FactorInv, TwoFactorTypeOK, DoneWith, Overlapping, SpentTogether, Underway
<1>5. CountedAttempts' /\ AttemptsBounded'
  BY DEF FactorInv, TwoFactorTypeOK, WorksOn, CountedAttempts, AttemptsBounded
<1>6. LookedAt'
  BY DEF FactorInv, TwoFactorTypeOK, LookedAt
<1> QED
  BY <1>1, <1>2, <1>3, <1>4, <1>5, <1>6 DEF FactorInv

\* Nobody has worked on a challenge that opens.
LEMMA OpenChallengeKeeps ==
  ASSUME TwoFactorTypeOK, FactorInv, NEW s \in Challenges, OpenChallenge(s)
  PROVE  TwoFactorTypeOK' /\ FactorInv'
<1> USE TwoFactorAssumption DEF OpenChallenge, settings, challenge, asked, told
<1>1. TwoFactorTypeOK'
  BY DEF FactorInv, WorksOn, TwoFactorTypeOK, VerificationSteps, VerificationJobs, Kinds
<1>2. ASSUME NEW w \in Verifications PROVE WorksOn(w)' /\ DoneWith(w)'
  BY DEF FactorInv, TwoFactorTypeOK, WorksOn, DoneWith
<1>3. Overlapping' /\ SignedTogether'
  BY DEF FactorInv, TwoFactorTypeOK, WorksOn, DoneWith, Overlapping, SignedTogether, Underway
<1>4. SpentTogether'
  BY DEF FactorInv, TwoFactorTypeOK, DoneWith, Overlapping, SpentTogether, Underway
<1>5. CountedAttempts' /\ AttemptsBounded'
  BY DEF FactorInv, TwoFactorTypeOK, WorksOn, CountedAttempts, AttemptsBounded
<1>6. LookedAt'
  BY DEF FactorInv, TwoFactorTypeOK, LookedAt
<1> QED
  BY <1>1, <1>2, <1>3, <1>4, <1>5, <1>6 DEF FactorInv

\* A challenge runs out of time.
LEMMA LapseKeeps ==
  ASSUME TwoFactorTypeOK, FactorInv, NEW s \in Challenges, Lapse(s)
  PROVE  TwoFactorTypeOK' /\ FactorInv'
<1> USE TwoFactorAssumption DEF Lapse, settings, challenge, asked, told
<1>1. TwoFactorTypeOK'
  BY DEF FactorInv, WorksOn, TwoFactorTypeOK, VerificationSteps, VerificationJobs, Kinds
<1>2. ASSUME NEW w \in Verifications PROVE WorksOn(w)' /\ DoneWith(w)'
  BY DEF FactorInv, TwoFactorTypeOK, WorksOn, DoneWith
<1>3. Overlapping' /\ SignedTogether'
  BY DEF FactorInv, TwoFactorTypeOK, WorksOn, DoneWith, Overlapping, SignedTogether, Underway
<1>4. SpentTogether'
  BY DEF FactorInv, TwoFactorTypeOK, DoneWith, Overlapping, SpentTogether, Underway
<1>5. CountedAttempts' /\ AttemptsBounded'
  BY DEF FactorInv, TwoFactorTypeOK, WorksOn, CountedAttempts, AttemptsBounded
<1>6. LookedAt'
  BY DEF FactorInv, TwoFactorTypeOK, LookedAt
<1> QED
  BY <1>1, <1>2, <1>3, <1>4, <1>5, <1>6 DEF FactorInv

\* A user with a factor is not locked out.
LEMMA AddTotpKeeps ==
  ASSUME TwoFactorTypeOK, FactorInv, NEW f \in Factors, AddTotp(f)
  PROVE  TwoFactorTypeOK' /\ FactorInv'
<1> USE TwoFactorAssumption DEF AddTotp, settings, challenge, asked, told
<1>1. TwoFactorTypeOK'
  BY DEF FactorInv, WorksOn, TwoFactorTypeOK, VerificationSteps, VerificationJobs, Kinds
<1>2. ASSUME NEW w \in Verifications PROVE WorksOn(w)' /\ DoneWith(w)'
  BY DEF FactorInv, TwoFactorTypeOK, WorksOn, DoneWith
<1>3. Overlapping' /\ SignedTogether'
  BY DEF FactorInv, TwoFactorTypeOK, WorksOn, DoneWith, Overlapping, SignedTogether, Underway
<1>4. SpentTogether'
  BY DEF FactorInv, TwoFactorTypeOK, DoneWith, Overlapping, SpentTogether, Underway
<1>5. CountedAttempts' /\ AttemptsBounded'
  BY DEF FactorInv, TwoFactorTypeOK, WorksOn, CountedAttempts, AttemptsBounded
<1>6. LookedAt'
  BY DEF FactorInv, TwoFactorTypeOK, LookedAt
<1> QED
  BY <1>1, <1>2, <1>3, <1>4, <1>5, <1>6 DEF FactorInv

\* A sign-in is asked for while its challenge is open: nobody has been signed in by it.
LEMMA VerifyLoginKeeps ==
  ASSUME TwoFactorTypeOK, FactorInv, NEW v \in Verifications, NEW s \in Challenges, NEW what \in {"totp", "backup"}, NEW x \in BackupCodes \cup {Nothing}, VerifyLogin(v, s, what, x)
  PROVE  TwoFactorTypeOK' /\ FactorInv'
<1> USE TwoFactorAssumption DEF VerifyLogin, Step, Ask, ValidChallenge, settings, challenge, asked, told
<1>1. TwoFactorTypeOK'
  BY DEF FactorInv, WorksOn, TwoFactorTypeOK, VerificationSteps, VerificationJobs, Kinds
<1>2. ASSUME NEW w \in Verifications PROVE WorksOn(w)' /\ DoneWith(w)'
  BY DEF FactorInv, TwoFactorTypeOK, WorksOn, DoneWith
<1>3. Overlapping' /\ SignedTogether'
  BY DEF FactorInv, TwoFactorTypeOK, WorksOn, DoneWith, Overlapping, SignedTogether, Underway
<1>4. SpentTogether'
  BY DEF FactorInv, TwoFactorTypeOK, DoneWith, Overlapping, SpentTogether, Underway
<1>5. CountedAttempts' /\ AttemptsBounded'
  BY DEF FactorInv, TwoFactorTypeOK, WorksOn, CountedAttempts, AttemptsBounded
<1>6. LookedAt'
  BY DEF FactorInv, TwoFactorTypeOK, LookedAt
<1> QED
  BY <1>1, <1>2, <1>3, <1>4, <1>5, <1>6 DEF FactorInv

\* A challenge out of time is deleted.
LEMMA VerifyLapsedKeeps ==
  ASSUME TwoFactorTypeOK, FactorInv, NEW v \in Verifications, NEW s \in Challenges, VerifyLapsed(v, s)
  PROVE  TwoFactorTypeOK' /\ FactorInv'
<1> USE TwoFactorAssumption DEF VerifyLapsed, Step, Ask, DeletePending, settings, challenge, asked, told
<1>1. TwoFactorTypeOK'
  BY DEF FactorInv, WorksOn, TwoFactorTypeOK, VerificationSteps, VerificationJobs, Kinds
<1>2. ASSUME NEW w \in Verifications PROVE WorksOn(w)' /\ DoneWith(w)'
  BY DEF FactorInv, TwoFactorTypeOK, WorksOn, DoneWith
<1>3. Overlapping' /\ SignedTogether'
  BY DEF FactorInv, TwoFactorTypeOK, WorksOn, DoneWith, Overlapping, SignedTogether, Underway
<1>4. SpentTogether'
  BY DEF FactorInv, TwoFactorTypeOK, DoneWith, Overlapping, SpentTogether, Underway
<1>5. CountedAttempts' /\ AttemptsBounded'
  BY DEF FactorInv, TwoFactorTypeOK, WorksOn, CountedAttempts, AttemptsBounded
<1>6. LookedAt'
  BY DEF FactorInv, TwoFactorTypeOK, LookedAt
<1> QED
  BY <1>1, <1>2, <1>3, <1>4, <1>5, <1>6 DEF FactorInv

\* A passkey is used while its challenge is open.
LEMMA VerifyPasskeyKeeps ==
  ASSUME TwoFactorTypeOK, FactorInv, NEW v \in Verifications, NEW s \in Challenges, VerifyPasskey(v, s)
  PROVE  TwoFactorTypeOK' /\ FactorInv'
<1> USE TwoFactorAssumption DEF VerifyPasskey, Step, Ask, ValidChallenge, settings, challenge, asked, told
<1>1. TwoFactorTypeOK'
  BY DEF FactorInv, WorksOn, TwoFactorTypeOK, VerificationSteps, VerificationJobs, Kinds
<1>2. ASSUME NEW w \in Verifications PROVE WorksOn(w)' /\ DoneWith(w)'
  BY DEF FactorInv, TwoFactorTypeOK, WorksOn, DoneWith
<1>3. Overlapping' /\ SignedTogether'
  BY DEF FactorInv, TwoFactorTypeOK, WorksOn, DoneWith, Overlapping, SignedTogether, Underway
<1>4. SpentTogether'
  BY DEF FactorInv, TwoFactorTypeOK, DoneWith, Overlapping, SpentTogether, Underway
<1>5. CountedAttempts' /\ AttemptsBounded'
  BY DEF FactorInv, TwoFactorTypeOK, WorksOn, CountedAttempts, AttemptsBounded
<1>6. LookedAt'
  BY DEF FactorInv, TwoFactorTypeOK, LookedAt
<1> QED
  BY <1>1, <1>2, <1>3, <1>4, <1>5, <1>6 DEF FactorInv

\* Who signed in by the same challenge was beside.
LEMMA ForgetLoginKeeps ==
  ASSUME TwoFactorTypeOK, FactorInv, NEW v \in Verifications, NEW s \in Challenges, ForgetLogin(v, s)
  PROVE  TwoFactorTypeOK' /\ FactorInv'
<1> USE TwoFactorAssumption DEF ForgetLogin, Step, DeletePending, settings, challenge, asked, told
<1>1. TwoFactorTypeOK'
  BY DEF FactorInv, WorksOn, TwoFactorTypeOK, VerificationSteps, VerificationJobs, Kinds
<1>2. ASSUME NEW w \in Verifications PROVE WorksOn(w)' /\ DoneWith(w)'
  BY DEF FactorInv, TwoFactorTypeOK, WorksOn, DoneWith
<1>3. Overlapping' /\ SignedTogether'
  BY DEF FactorInv, TwoFactorTypeOK, WorksOn, DoneWith, Overlapping, SignedTogether, Underway
<1>4. SpentTogether'
  BY DEF FactorInv, TwoFactorTypeOK, DoneWith, Overlapping, SpentTogether, Underway
<1>5. CountedAttempts' /\ AttemptsBounded'
  BY DEF FactorInv, TwoFactorTypeOK, WorksOn, CountedAttempts, AttemptsBounded
<1>6. LookedAt'
  BY DEF FactorInv, TwoFactorTypeOK, LookedAt
<1> QED
  BY <1>1, <1>2, <1>3, <1>4, <1>5, <1>6 DEF FactorInv

\* A passkey is added.
LEMMA RegisterPasskeyKeeps ==
  ASSUME TwoFactorTypeOK, FactorInv, NEW v \in Verifications, NEW s \in Challenges, NEW f \in Factors, RegisterPasskey(v, s, f)
  PROVE  TwoFactorTypeOK' /\ FactorInv'
<1> USE TwoFactorAssumption DEF RegisterPasskey, Step, Ask, ValidChallenge, settings, challenge, asked, told
<1>1. TwoFactorTypeOK'
  BY DEF FactorInv, WorksOn, TwoFactorTypeOK, VerificationSteps, VerificationJobs, Kinds
<1>2. ASSUME NEW w \in Verifications PROVE WorksOn(w)' /\ DoneWith(w)'
  BY DEF FactorInv, TwoFactorTypeOK, WorksOn, DoneWith
<1>3. Overlapping' /\ SignedTogether'
  BY DEF FactorInv, TwoFactorTypeOK, WorksOn, DoneWith, Overlapping, SignedTogether, Underway
<1>4. SpentTogether'
  BY DEF FactorInv, TwoFactorTypeOK, DoneWith, Overlapping, SpentTogether, Underway
<1>5. CountedAttempts' /\ AttemptsBounded'
  BY DEF FactorInv, TwoFactorTypeOK, WorksOn, CountedAttempts, AttemptsBounded
<1>6. LookedAt'
  BY DEF FactorInv, TwoFactorTypeOK, LookedAt
<1> QED
  BY <1>1, <1>2, <1>3, <1>4, <1>5, <1>6 DEF FactorInv

\* An attempt is counted, and its check if it is within the limit.
LEMMA CountAttemptKeeps ==
  ASSUME TwoFactorTypeOK, FactorInv, NEW v \in Verifications, CountAttempt(v)
  PROVE  TwoFactorTypeOK' /\ FactorInv'
<1> USE TwoFactorAssumption DEF CountAttempt, Step, Limit, settings, challenge, asked, told
<1>1. TwoFactorTypeOK'
  BY DEF FactorInv, WorksOn, TwoFactorTypeOK, VerificationSteps, VerificationJobs, Kinds
<1>2. ASSUME NEW w \in Verifications PROVE WorksOn(w)' /\ DoneWith(w)'
  BY DEF FactorInv, TwoFactorTypeOK, WorksOn, DoneWith
<1>3. Overlapping' /\ SignedTogether'
  BY DEF FactorInv, TwoFactorTypeOK, WorksOn, DoneWith, Overlapping, SignedTogether, Underway
<1>4. SpentTogether'
  BY DEF FactorInv, TwoFactorTypeOK, DoneWith, Overlapping, SpentTogether, Underway
<1>5. CountedAttempts' /\ AttemptsBounded'
  BY DEF FactorInv, TwoFactorTypeOK, WorksOn, CountedAttempts, AttemptsBounded
<1>6. LookedAt'
  BY DEF FactorInv, TwoFactorTypeOK, LookedAt
<1> QED
  BY <1>1, <1>2, <1>3, <1>4, <1>5, <1>6 DEF FactorInv

\* The challenge is deleted.
LEMMA DropChallengeKeeps ==
  ASSUME TwoFactorTypeOK, FactorInv, NEW v \in Verifications, DropChallenge(v)
  PROVE  TwoFactorTypeOK' /\ FactorInv'
<1> USE TwoFactorAssumption DEF DropChallenge, Step, DeletePending, settings, challenge, asked, told
<1>1. TwoFactorTypeOK'
  BY DEF FactorInv, WorksOn, TwoFactorTypeOK, VerificationSteps, VerificationJobs, Kinds
<1>2. ASSUME NEW w \in Verifications PROVE WorksOn(w)' /\ DoneWith(w)'
  BY DEF FactorInv, TwoFactorTypeOK, WorksOn, DoneWith
<1>3. Overlapping' /\ SignedTogether'
  BY DEF FactorInv, TwoFactorTypeOK, WorksOn, DoneWith, Overlapping, SignedTogether, Underway
<1>4. SpentTogether'
  BY DEF FactorInv, TwoFactorTypeOK, DoneWith, Overlapping, SpentTogether, Underway
<1>5. CountedAttempts' /\ AttemptsBounded'
  BY DEF FactorInv, TwoFactorTypeOK, WorksOn, CountedAttempts, AttemptsBounded
<1>6. LookedAt'
  BY DEF FactorInv, TwoFactorTypeOK, LookedAt
<1> QED
  BY <1>1, <1>2, <1>3, <1>4, <1>5, <1>6 DEF FactorInv

\* The code is compared.
LEMMA CheckTotpKeeps ==
  ASSUME TwoFactorTypeOK, FactorInv, NEW v \in Verifications, NEW right \in BOOLEAN, CheckTotp(v, right)
  PROVE  TwoFactorTypeOK' /\ FactorInv'
<1> USE TwoFactorAssumption DEF CheckTotp, Step, settings, challenge, asked, told
<1>1. TwoFactorTypeOK'
  BY DEF FactorInv, WorksOn, TwoFactorTypeOK, VerificationSteps, VerificationJobs, Kinds
<1>2. ASSUME NEW w \in Verifications PROVE WorksOn(w)' /\ DoneWith(w)'
  BY DEF FactorInv, TwoFactorTypeOK, WorksOn, DoneWith
<1>3. Overlapping' /\ SignedTogether'
  BY DEF FactorInv, TwoFactorTypeOK, WorksOn, DoneWith, Overlapping, SignedTogether, Underway
<1>4. SpentTogether'
  BY DEF FactorInv, TwoFactorTypeOK, DoneWith, Overlapping, SpentTogether, Underway
<1>5. CountedAttempts' /\ AttemptsBounded'
  BY DEF FactorInv, TwoFactorTypeOK, WorksOn, CountedAttempts, AttemptsBounded
<1>6. LookedAt'
  BY DEF FactorInv, TwoFactorTypeOK, LookedAt
<1> QED
  BY <1>1, <1>2, <1>3, <1>4, <1>5, <1>6 DEF FactorInv

\* A code that is unused has been spent by nobody.
LEMMA CheckBackupKeeps ==
  ASSUME TwoFactorTypeOK, FactorInv, NEW v \in Verifications, CheckBackup(v)
  PROVE  TwoFactorTypeOK' /\ FactorInv'
<1> USE TwoFactorAssumption DEF CheckBackup, Step, Unused, settings, challenge, asked, told
<1>1. TwoFactorTypeOK'
  BY DEF FactorInv, WorksOn, TwoFactorTypeOK, VerificationSteps, VerificationJobs, Kinds
<1>2. ASSUME NEW w \in Verifications PROVE WorksOn(w)' /\ DoneWith(w)'
  BY DEF FactorInv, TwoFactorTypeOK, WorksOn, DoneWith
<1>3. Overlapping' /\ SignedTogether'
  BY DEF FactorInv, TwoFactorTypeOK, WorksOn, DoneWith, Overlapping, SignedTogether, Underway
<1>4. SpentTogether'
  BY DEF FactorInv, TwoFactorTypeOK, DoneWith, Overlapping, SpentTogether, Underway
<1>5. CountedAttempts' /\ AttemptsBounded'
  BY DEF FactorInv, TwoFactorTypeOK, WorksOn, CountedAttempts, AttemptsBounded
<1>6. LookedAt'
  BY DEF FactorInv, TwoFactorTypeOK, LookedAt
<1> QED
  BY <1>1, <1>2, <1>3, <1>4, <1>5, <1>6 DEF FactorInv

\* Who spent the same code was beside.
LEMMA UseKeeps ==
  ASSUME TwoFactorTypeOK, FactorInv, NEW v \in Verifications, Use(v)
  PROVE  TwoFactorTypeOK' /\ FactorInv'
<1> USE TwoFactorAssumption DEF Use, Step, settings, challenge, asked, told
<1>1. TwoFactorTypeOK'
  BY DEF FactorInv, WorksOn, TwoFactorTypeOK, VerificationSteps, VerificationJobs, Kinds
<1>2. ASSUME NEW w \in Verifications PROVE WorksOn(w)' /\ DoneWith(w)'
  BY DEF FactorInv, TwoFactorTypeOK, WorksOn, DoneWith
<1>3. Overlapping' /\ SignedTogether'
  BY DEF FactorInv, TwoFactorTypeOK, WorksOn, DoneWith, Overlapping, SignedTogether, Underway
<1>4. SpentTogether'
  BY DEF FactorInv, TwoFactorTypeOK, DoneWith, Overlapping, SpentTogether, Underway
<1>5. CountedAttempts' /\ AttemptsBounded'
  BY DEF FactorInv, TwoFactorTypeOK, WorksOn, CountedAttempts, AttemptsBounded
<1>6. LookedAt'
  BY DEF FactorInv, TwoFactorTypeOK, LookedAt
<1> QED
  BY <1>1, <1>2, <1>3, <1>4, <1>5, <1>6 DEF FactorInv

\* Who signed in by the same challenge was beside.
LEMMA CloseChallengeKeeps ==
  ASSUME TwoFactorTypeOK, FactorInv, NEW v \in Verifications, CloseChallenge(v)
  PROVE  TwoFactorTypeOK' /\ FactorInv'
<1> USE TwoFactorAssumption DEF CloseChallenge, Step, DeletePending, settings, challenge, asked, told
<1>1. TwoFactorTypeOK'
  BY DEF FactorInv, WorksOn, TwoFactorTypeOK, VerificationSteps, VerificationJobs, Kinds
<1>2. ASSUME NEW w \in Verifications PROVE WorksOn(w)' /\ DoneWith(w)'
  <2>1. /\ WorksOn(v) /\ DoneWith(v) /\ on[v] \in Challenges /\ pending[on[v]] \in {"open", "gone"}
        /\ WorksOn(w) /\ DoneWith(w)
    BY DEF FactorInv, WorksOn
  <2>2. /\ pending'[on[v]] = "gone"
        /\ \A t \in Challenges : /\ pending[t] \in {"open", "gone"} => pending'[t] \in {"open", "gone"}
                               /\ pending[t] = "gone" => pending'[t] = "gone"
    <3>1. pending \in [Challenges -> {"none", "opening", "open", "gone"}]
      BY DEF TwoFactorTypeOK
    <3>2. pending' = [pending EXCEPT ![on[v]] = IF pending[on[v]] = "open" THEN "gone" ELSE pending[on[v]]]
      OBVIOUS
    <3> QED
      BY ONLY <2>1, <3>1, <3>2
  <2>3. CASE w = v
    BY <2>1, <2>2, <2>3 DEF TwoFactorTypeOK, WorksOn, DoneWith
  <2>4. CASE w # v
    <3>1. doing'[w] = doing[w] /\ (w \in signedIn' => w \in signedIn)
      BY <2>4 DEF TwoFactorTypeOK
    <3> QED
      BY <2>1, <2>2, <3>1 DEF WorksOn, DoneWith
  <2> QED
    BY <2>3, <2>4
<1>3. Overlapping' /\ SignedTogether'
  BY DEF FactorInv, TwoFactorTypeOK, WorksOn, DoneWith, Overlapping, SignedTogether, Underway
<1>4. SpentTogether'
  BY DEF FactorInv, TwoFactorTypeOK, DoneWith, Overlapping, SpentTogether, Underway
<1>5. CountedAttempts' /\ AttemptsBounded'
  BY DEF FactorInv, TwoFactorTypeOK, WorksOn, CountedAttempts, AttemptsBounded
<1>6. LookedAt'
  BY DEF FactorInv, TwoFactorTypeOK, LookedAt
<1> QED
  BY <1>1, <1>2, <1>3, <1>4, <1>5, <1>6 DEF FactorInv

\* The challenge is deleted.
LEMMA CloseRegistrationKeeps ==
  ASSUME TwoFactorTypeOK, FactorInv, NEW v \in Verifications, CloseRegistration(v)
  PROVE  TwoFactorTypeOK' /\ FactorInv'
<1> USE TwoFactorAssumption DEF CloseRegistration, Step, DeletePending, settings, challenge, asked, told
<1>1. TwoFactorTypeOK'
  BY DEF FactorInv, WorksOn, TwoFactorTypeOK, VerificationSteps, VerificationJobs, Kinds
<1>2. ASSUME NEW w \in Verifications PROVE WorksOn(w)' /\ DoneWith(w)'
  BY DEF FactorInv, TwoFactorTypeOK, WorksOn, DoneWith
<1>3. Overlapping' /\ SignedTogether'
  BY DEF FactorInv, TwoFactorTypeOK, WorksOn, DoneWith, Overlapping, SignedTogether, Underway
<1>4. SpentTogether'
  BY DEF FactorInv, TwoFactorTypeOK, DoneWith, Overlapping, SpentTogether, Underway
<1>5. CountedAttempts' /\ AttemptsBounded'
  BY DEF FactorInv, TwoFactorTypeOK, WorksOn, CountedAttempts, AttemptsBounded
<1>6. LookedAt'
  BY DEF FactorInv, TwoFactorTypeOK, LookedAt
<1> QED
  BY <1>1, <1>2, <1>3, <1>4, <1>5, <1>6 DEF FactorInv

\* Who removes a factor looks at what is left,
LEMMA RemoveFactorKeeps ==
  ASSUME TwoFactorTypeOK, FactorInv, NEW v \in Verifications, NEW f \in Factors, RemoveFactor(v, f)
  PROVE  TwoFactorTypeOK' /\ FactorInv'
<1> USE TwoFactorAssumption DEF RemoveFactor, Step, Ask, settings, challenge, asked, told
<1>1. TwoFactorTypeOK'
  BY DEF FactorInv, WorksOn, TwoFactorTypeOK, VerificationSteps, VerificationJobs, Kinds
<1>2. ASSUME NEW w \in Verifications PROVE WorksOn(w)' /\ DoneWith(w)'
  BY DEF FactorInv, TwoFactorTypeOK, WorksOn, DoneWith
<1>3. Overlapping' /\ SignedTogether'
  BY DEF FactorInv, TwoFactorTypeOK, WorksOn, DoneWith, Overlapping, SignedTogether, Underway
<1>4. SpentTogether'
  BY DEF FactorInv, TwoFactorTypeOK, DoneWith, Overlapping, SpentTogether, Underway
<1>5. CountedAttempts' /\ AttemptsBounded'
  BY DEF FactorInv, TwoFactorTypeOK, WorksOn, CountedAttempts, AttemptsBounded
<1>6. LookedAt'
  BY DEF FactorInv, TwoFactorTypeOK, LookedAt
<1> QED
  BY <1>1, <1>2, <1>3, <1>4, <1>5, <1>6 DEF FactorInv

\* and goes on if the user is locked out.
LEMMA LookKeeps ==
  ASSUME TwoFactorTypeOK, FactorInv, NEW v \in Verifications, Look(v)
  PROVE  TwoFactorTypeOK' /\ FactorInv'
<1> USE TwoFactorAssumption DEF Look, Step, settings, challenge, asked, told
<1>1. TwoFactorTypeOK'
  BY DEF FactorInv, WorksOn, TwoFactorTypeOK, VerificationSteps, VerificationJobs, Kinds
<1>2. ASSUME NEW w \in Verifications PROVE WorksOn(w)' /\ DoneWith(w)'
  BY DEF FactorInv, TwoFactorTypeOK, WorksOn, DoneWith
<1>3. Overlapping' /\ SignedTogether'
  BY DEF FactorInv, TwoFactorTypeOK, WorksOn, DoneWith, Overlapping, SignedTogether, Underway
<1>4. SpentTogether'
  BY DEF FactorInv, TwoFactorTypeOK, DoneWith, Overlapping, SpentTogether, Underway
<1>5. CountedAttempts' /\ AttemptsBounded'
  BY DEF FactorInv, TwoFactorTypeOK, WorksOn, CountedAttempts, AttemptsBounded
<1>6. LookedAt'
  BY DEF FactorInv, TwoFactorTypeOK, LookedAt
<1> QED
  BY <1>1, <1>2, <1>3, <1>4, <1>5, <1>6 DEF FactorInv

\* The setting is off.
LEMMA DisableKeeps ==
  ASSUME TwoFactorTypeOK, FactorInv, NEW v \in Verifications, Disable(v)
  PROVE  TwoFactorTypeOK' /\ FactorInv'
<1> USE TwoFactorAssumption DEF Disable, Step, Ask, settings, challenge, asked, told
<1>1. TwoFactorTypeOK'
  BY DEF FactorInv, WorksOn, TwoFactorTypeOK, VerificationSteps, VerificationJobs, Kinds
<1>2. ASSUME NEW w \in Verifications PROVE WorksOn(w)' /\ DoneWith(w)'
  BY DEF FactorInv, TwoFactorTypeOK, WorksOn, DoneWith
<1>3. Overlapping' /\ SignedTogether'
  BY DEF FactorInv, TwoFactorTypeOK, WorksOn, DoneWith, Overlapping, SignedTogether, Underway
<1>4. SpentTogether'
  BY DEF FactorInv, TwoFactorTypeOK, DoneWith, Overlapping, SpentTogether, Underway
<1>5. CountedAttempts' /\ AttemptsBounded'
  BY DEF FactorInv, TwoFactorTypeOK, WorksOn, CountedAttempts, AttemptsBounded
<1>6. LookedAt'
  BY DEF FactorInv, TwoFactorTypeOK, LookedAt
<1> QED
  BY <1>1, <1>2, <1>3, <1>4, <1>5, <1>6 DEF FactorInv

\* The setting is asked for.
LEMMA EnableKeeps ==
  ASSUME TwoFactorTypeOK, FactorInv, NEW v \in Verifications, Enable(v)
  PROVE  TwoFactorTypeOK' /\ FactorInv'
<1> USE TwoFactorAssumption DEF Enable, Step, Ask, settings, challenge, asked, told
<1>1. TwoFactorTypeOK'
  BY DEF FactorInv, WorksOn, TwoFactorTypeOK, VerificationSteps, VerificationJobs, Kinds
<1>2. ASSUME NEW w \in Verifications PROVE WorksOn(w)' /\ DoneWith(w)'
  BY DEF FactorInv, TwoFactorTypeOK, WorksOn, DoneWith
<1>3. Overlapping' /\ SignedTogether'
  BY DEF FactorInv, TwoFactorTypeOK, WorksOn, DoneWith, Overlapping, SignedTogether, Underway
<1>4. SpentTogether'
  BY DEF FactorInv, TwoFactorTypeOK, DoneWith, Overlapping, SpentTogether, Underway
<1>5. CountedAttempts' /\ AttemptsBounded'
  BY DEF FactorInv, TwoFactorTypeOK, WorksOn, CountedAttempts, AttemptsBounded
<1>6. LookedAt'
  BY DEF FactorInv, TwoFactorTypeOK, LookedAt
<1> QED
  BY <1>1, <1>2, <1>3, <1>4, <1>5, <1>6 DEF FactorInv

\* The setting is on; without a factor, that is said.
LEMMA WriteEnabledKeeps ==
  ASSUME TwoFactorTypeOK, FactorInv, NEW v \in Verifications, WriteEnabled(v)
  PROVE  TwoFactorTypeOK' /\ FactorInv'
<1> USE TwoFactorAssumption DEF WriteEnabled, Step, settings, challenge, asked, told
<1>1. TwoFactorTypeOK'
  BY DEF FactorInv, WorksOn, TwoFactorTypeOK, VerificationSteps, VerificationJobs, Kinds
<1>2. ASSUME NEW w \in Verifications PROVE WorksOn(w)' /\ DoneWith(w)'
  BY DEF FactorInv, TwoFactorTypeOK, WorksOn, DoneWith
<1>3. Overlapping' /\ SignedTogether'
  BY DEF FactorInv, TwoFactorTypeOK, WorksOn, DoneWith, Overlapping, SignedTogether, Underway
<1>4. SpentTogether'
  BY DEF FactorInv, TwoFactorTypeOK, DoneWith, Overlapping, SpentTogether, Underway
<1>5. CountedAttempts' /\ AttemptsBounded'
  BY DEF FactorInv, TwoFactorTypeOK, WorksOn, CountedAttempts, AttemptsBounded
<1>6. LookedAt'
  BY DEF FactorInv, TwoFactorTypeOK, LookedAt
<1> QED
  BY <1>1, <1>2, <1>3, <1>4, <1>5, <1>6 DEF FactorInv

\* Codes are asked for.
LEMMA GenerateKeeps ==
  ASSUME TwoFactorTypeOK, FactorInv, NEW v \in Verifications, Generate(v)
  PROVE  TwoFactorTypeOK' /\ FactorInv'
<1> USE TwoFactorAssumption DEF Generate, Step, Ask, Unused, settings, challenge, asked, told
<1>1. TwoFactorTypeOK'
  BY DEF FactorInv, WorksOn, TwoFactorTypeOK, VerificationSteps, VerificationJobs, Kinds
<1>2. ASSUME NEW w \in Verifications PROVE WorksOn(w)' /\ DoneWith(w)'
  BY DEF FactorInv, TwoFactorTypeOK, WorksOn, DoneWith
<1>3. Overlapping' /\ SignedTogether'
  BY DEF FactorInv, TwoFactorTypeOK, WorksOn, DoneWith, Overlapping, SignedTogether, Underway
<1>4. SpentTogether'
  BY DEF FactorInv, TwoFactorTypeOK, DoneWith, Overlapping, SpentTogether, Underway
<1>5. CountedAttempts' /\ AttemptsBounded'
  BY DEF FactorInv, TwoFactorTypeOK, WorksOn, CountedAttempts, AttemptsBounded
<1>6. LookedAt'
  BY DEF FactorInv, TwoFactorTypeOK, LookedAt
<1> QED
  BY <1>1, <1>2, <1>3, <1>4, <1>5, <1>6 DEF FactorInv

\* The old codes are gone.
LEMMA RegenerateKeeps ==
  ASSUME TwoFactorTypeOK, FactorInv, NEW v \in Verifications, Regenerate(v)
  PROVE  TwoFactorTypeOK' /\ FactorInv'
<1> USE TwoFactorAssumption DEF Regenerate, Step, Ask, settings, challenge, asked, told
<1>1. TwoFactorTypeOK'
  BY DEF FactorInv, WorksOn, TwoFactorTypeOK, VerificationSteps, VerificationJobs, Kinds
<1>2. ASSUME NEW w \in Verifications PROVE WorksOn(w)' /\ DoneWith(w)'
  BY DEF FactorInv, TwoFactorTypeOK, WorksOn, DoneWith
<1>3. Overlapping' /\ SignedTogether'
  BY DEF FactorInv, TwoFactorTypeOK, WorksOn, DoneWith, Overlapping, SignedTogether, Underway
<1>4. SpentTogether'
  BY DEF FactorInv, TwoFactorTypeOK, DoneWith, Overlapping, SpentTogether, Underway
<1>5. CountedAttempts' /\ AttemptsBounded'
  BY DEF FactorInv, TwoFactorTypeOK, WorksOn, CountedAttempts, AttemptsBounded
<1>6. LookedAt'
  BY DEF FactorInv, TwoFactorTypeOK, LookedAt
<1> QED
  BY <1>1, <1>2, <1>3, <1>4, <1>5, <1>6 DEF FactorInv

\* A code nobody has used yet.
LEMMA CreateCodeKeeps ==
  ASSUME TwoFactorTypeOK, FactorInv, NEW v \in Verifications, NEW k \in BackupCodes, CreateCode(v, k)
  PROVE  TwoFactorTypeOK' /\ FactorInv'
<1> USE TwoFactorAssumption DEF CreateCode, Step, settings, challenge, asked, told
<1>1. TwoFactorTypeOK'
  BY DEF FactorInv, WorksOn, TwoFactorTypeOK, VerificationSteps, VerificationJobs, Kinds
<1>2. ASSUME NEW w \in Verifications PROVE WorksOn(w)' /\ DoneWith(w)'
  BY DEF FactorInv, TwoFactorTypeOK, WorksOn, DoneWith
<1>3. Overlapping' /\ SignedTogether'
  BY DEF FactorInv, TwoFactorTypeOK, WorksOn, DoneWith, Overlapping, SignedTogether, Underway
<1>4. SpentTogether'
  BY DEF FactorInv, TwoFactorTypeOK, DoneWith, Overlapping, SpentTogether, Underway
<1>5. CountedAttempts' /\ AttemptsBounded'
  BY DEF FactorInv, TwoFactorTypeOK, WorksOn, CountedAttempts, AttemptsBounded
<1>6. LookedAt'
  BY DEF FactorInv, TwoFactorTypeOK, LookedAt
<1> QED
  BY <1>1, <1>2, <1>3, <1>4, <1>5, <1>6 DEF FactorInv

\* A removal cut short says so.
LEMMA CutShortKeeps ==
  ASSUME TwoFactorTypeOK, FactorInv, NEW v \in Verifications, CutShort(v)
  PROVE  TwoFactorTypeOK' /\ FactorInv'
<1> USE TwoFactorAssumption DEF CutShort, Step, settings, challenge, asked, told
<1>1. TwoFactorTypeOK'
  BY DEF FactorInv, WorksOn, TwoFactorTypeOK, VerificationSteps, VerificationJobs, Kinds
<1>2. ASSUME NEW w \in Verifications PROVE WorksOn(w)' /\ DoneWith(w)'
  BY DEF FactorInv, TwoFactorTypeOK, WorksOn, DoneWith
<1>3. Overlapping' /\ SignedTogether'
  BY DEF FactorInv, TwoFactorTypeOK, WorksOn, DoneWith, Overlapping, SignedTogether, Underway
<1>4. SpentTogether'
  BY DEF FactorInv, TwoFactorTypeOK, DoneWith, Overlapping, SpentTogether, Underway
<1>5. CountedAttempts' /\ AttemptsBounded'
  BY DEF FactorInv, TwoFactorTypeOK, WorksOn, CountedAttempts, AttemptsBounded
<1>6. LookedAt'
  BY DEF FactorInv, TwoFactorTypeOK, LookedAt
<1> QED
  BY <1>1, <1>2, <1>3, <1>4, <1>5, <1>6 DEF FactorInv

LEMMA FactorInvStep ==
  TwoFactorTypeOK /\ FactorInv /\ [TwoFactorNext]_twoFactorVars => TwoFactorTypeOK' /\ FactorInv'
<1> SUFFICES ASSUME TwoFactorTypeOK, FactorInv, [TwoFactorNext]_twoFactorVars
             PROVE  TwoFactorTypeOK' /\ FactorInv'
  OBVIOUS
<1>1. CASE UNCHANGED twoFactorVars
  BY <1>1, SMT DEF twoFactorVars, settings, challenge, asked, told, TwoFactorTypeOK, FactorInv, WorksOn, DoneWith,
                   Overlapping, SignedTogether, SpentTogether, CountedAttempts, AttemptsBounded, LookedAt, Underway
<1>2. ASSUME NEW s \in Challenges, ChallengeStep(s) PROVE TwoFactorTypeOK' /\ FactorInv'
  BY <1>2, ReplaceKeeps, OpenChallengeKeeps, LapseKeeps, Zenon DEF ChallengeStep
<1>3. ASSUME NEW v \in Verifications, LoginStep(v) PROVE TwoFactorTypeOK' /\ FactorInv'
  <2>1. ASSUME NEW s \in Challenges,
               \/ VerifyLogin(v, s, "totp", Nothing) \/ VerifyLapsed(v, s)
               \/ \E k \in BackupCodes : VerifyLogin(v, s, "backup", k)
               \/ VerifyPasskey(v, s) \/ ForgetLogin(v, s)
               \/ \E f \in Factors : RegisterPasskey(v, s, f)
        PROVE  TwoFactorTypeOK' /\ FactorInv'
    <3>1. ASSUME NEW what \in {"totp", "backup"}, NEW x \in BackupCodes \cup {Nothing}, VerifyLogin(v, s, what, x)
          PROVE  TwoFactorTypeOK' /\ FactorInv'
      BY <3>1, VerifyLoginKeeps, Zenon
    <3>2. CASE VerifyLogin(v, s, "totp", Nothing)
      BY <3>1, <3>2
    <3>3. CASE \E k \in BackupCodes : VerifyLogin(v, s, "backup", k)
      BY <3>1, <3>3
    <3> QED
      BY <2>1, <3>2, <3>3, VerifyLapsedKeeps, VerifyPasskeyKeeps, ForgetLoginKeeps, RegisterPasskeyKeeps, Zenon
  <2> QED
    BY <1>3, <2>1, CountAttemptKeeps, DropChallengeKeeps, CheckTotpKeeps, CheckBackupKeeps, UseKeeps,
       CloseChallengeKeeps, CloseRegistrationKeeps, Zenon DEF LoginStep
<1>4. ASSUME NEW v \in Verifications, SettingStep(v) PROVE TwoFactorTypeOK' /\ FactorInv'
  BY <1>4, RemoveFactorKeeps, LookKeeps, DisableKeeps, EnableKeeps, WriteEnabledKeeps, GenerateKeeps,
     RegenerateKeeps, CreateCodeKeeps, CutShortKeeps, Zenon DEF SettingStep
<1> QED
  BY <1>1, <1>2, <1>3, <1>4, AddTotpKeeps, Zenon DEF TwoFactorNext

\* Whatever requests run side by side, die or lapse: nobody is asked for a
\* factor he does not have, short of a switch during the removal of the last
\* one; the checks stay within the limits; and one challenge or backup code
\* serves two requests only if they overlapped.
THEOREM SecondFactorKept == TwoFactorSpec => []SecondFactorSound
<1>1. TwoFactorTypeOK /\ FactorInv => SecondFactorSound
  <2> SUFFICES ASSUME TwoFactorTypeOK, FactorInv PROVE SecondFactorSound
    OBVIOUS
  <2>1. NobodyLockedOut
    BY DEF FactorInv, LookedAt, NobodyLockedOut, Underway
  <2>2. TwiceOnlyTogether
    BY DEF FactorInv, SignedTogether, SpentTogether, TwiceOnlyTogether
  <2> QED
    BY <2>1, <2>2 DEF FactorInv, SecondFactorSound
<1> QED
  BY <1>1, FactorInvInit, FactorInvStep, PTL DEF TwoFactorSpec

-----------------------------------------------------------------------------
(* Referrals.  Visits under way at the same time are rivals (Rivalry); a    *)
(* code that was handed out is the stored one unless a rival overwrote it   *)
(* (CodesTracked), and a mail that follows another in a cooldown comes from *)
(* a rival (Invited).  The awards are charged: at most one per referral to  *)
(* the payment that nothing disturbed, of which a company has one under way *)
(* (SolePayment), and one to each disturbed payment (Awarded).              *)

Rivalry == \A v, w \in Visiting : v # w => v \in rivals

CodesTracked ==
  /\ \A v \in Visits : visit[v] = "write" => referralCode \in rivals \cup {NoCode}
  /\ \A v \in Visits : carries[v] \in rivals \cup {NoCode, referralCode}
  /\ \A b \in Referred : /\ used[b] \in rivals \cup {NoCode, referralCode}
                         /\ registration[b] \in {"find", "create", "end"} => used[b] # NoCode
  /\ HandedOutCodeTracks

Invited ==
  /\ IsFiniteSet(inviting)
  /\ \A v \in Visits : /\ visit[v] \in {"mark", "mail"} => v \in inviting
                       /\ visit[v] = "idle" => v \notin inviting
                       /\ visit[v] = "mail" => invitedKey
  /\ mails > 0 => invitedKey
  /\ mails > 0 => \A v \in inviting \cap Visiting : v \in rivals /\ \E w \in inviting \cap rivals : w # v
  /\ mails > 1 => \E v, w \in inviting \cap rivals : v # w

Enrolled ==
  /\ \A b \in Referred :
       /\ registration[b] \in {"idle", "find", "create"} => referral[b] = "none"
       /\ referral[b] = "completed" => toReferred[b] > 0
  /\ \A p \in Payments :
       /\ payment[p] # "idle" => registration[payer[p]] \in {"end", "failed"}
       /\ payment[p] \in {"first", "second", "complete"} => referral[payer[p]] # "none"
       /\ payment[p] = "complete" => toReferred[payer[p]] > 0

UnderReward(p) == payment[p] \notin {"idle", "end"}
SolePayment ==
  \A p, q \in Payments \ disturbed :
    UnderReward(p) /\ UnderReward(q) /\ payer[p] = payer[q] => p = q

\* Whether an undisturbed payment of a company is at one of the steps.
At(b, steps) == \E q \in Payments \ disturbed : payer[q] = b /\ payment[q] \in steps

\* The referrals and the payments that an award is charged to.
ByReferral == {b \in Referred : At(b, {"second", "complete"})
                                  \/ (referral[b] = "completed" /\ ~At(b, {"first"}))}
ByDisturbed == {p \in disturbed : payment[p] \in {"second", "complete", "end"}}
OfReferral(b) == IF At(b, {"complete"}) \/ (referral[b] = "completed" /\ ~At(b, {"first", "second"}))
                   THEN 1 ELSE 0
OfDisturbed(b) == {p \in disturbed : payer[p] = b /\ payment[p] \in {"complete", "end"}}

Completed == {b \in Referred : referral[b] = "completed"}
BetweenAwards == {p \in Payments : payment[p] \in {"second", "complete"}}

Awarded ==
  /\ Cardinality(Completed) + Cardinality(BetweenAwards) <= toReferrer
  /\ toReferrer <= Cardinality(ByReferral) + Cardinality(ByDisturbed)
  /\ \A b \in Referred : toReferred[b] <= OfReferral(b) + Cardinality(OfDisturbed(b))

CodeInv == Rivalry /\ CodesTracked /\ Invited
PayInv == Enrolled /\ SolePayment /\ Awarded

FinitelyMany == IsFiniteSet(Referred) /\ IsFiniteSet(Payments)

\* How the size of a set follows when it gains or loses one member.
LEMMA ByOne ==
  ASSUME NEW S, NEW T, NEW x, IsFiniteSet(S), IsFiniteSet(T)
  PROVE  /\ Cardinality(S) \in Nat /\ Cardinality(T) \in Nat
         /\ S \subseteq T => Cardinality(S) <= Cardinality(T)
         /\ x \notin S /\ S \cup {x} \subseteq T => Cardinality(S) + 1 <= Cardinality(T)
         /\ S \subseteq T \cup {x} => Cardinality(S) <= Cardinality(T) + 1
<1>1. Cardinality(S) \in Nat /\ Cardinality(T) \in Nat
  BY FS_CardinalityType
<1>2. S \subseteq T => Cardinality(S) <= Cardinality(T)
  BY FS_Subset
<1>3. ASSUME x \notin S, S \cup {x} \subseteq T PROVE Cardinality(S) + 1 <= Cardinality(T)
  <2>1. IsFiniteSet(S \cup {x}) /\ Cardinality(S \cup {x}) = Cardinality(S) + 1
    BY <1>3, FS_AddElement
  <2>2. Cardinality(S \cup {x}) <= Cardinality(T)
    BY <1>3, FS_Subset
  <2> QED
    BY <2>1, <2>2
<1>4. ASSUME S \subseteq T \cup {x} PROVE Cardinality(S) <= Cardinality(T) + 1
  <2>1. CASE x \in T
    <3>1. S \subseteq T
      BY <1>4, <2>1
    <3> QED
      BY <1>1, <1>2, <3>1
  <2>2. CASE x \notin T
    <3>1. IsFiniteSet(T \cup {x}) /\ Cardinality(T \cup {x}) = Cardinality(T) + 1
      BY <2>2, FS_AddElement
    <3> QED
      BY <1>4, <3>1, FS_Subset
  <2> QED
    BY <2>1, <2>2
<1> QED
  BY <1>1, <1>2, <1>3, <1>4

\* What the awards are charged to is finite.
LEMMA ChargesFinite ==
  ASSUME FinitelyMany, ReferralTypeOK
  PROVE  /\ IsFiniteSet(Completed) /\ IsFiniteSet(BetweenAwards)
         /\ IsFiniteSet(ByReferral) /\ IsFiniteSet(ByDisturbed) /\ IsFiniteSet(disturbed)
         /\ \A b \in Referred : IsFiniteSet(OfDisturbed(b))
<1> USE DEF FinitelyMany
<1>1. Completed \subseteq Referred /\ ByReferral \subseteq Referred
  BY DEF Completed, ByReferral
<1>2. /\ disturbed \subseteq Payments /\ BetweenAwards \subseteq Payments
      /\ ByDisturbed \subseteq Payments
      /\ \A b \in Referred : OfDisturbed(b) \subseteq Payments
  BY DEF ReferralTypeOK, BetweenAwards, ByDisturbed, OfDisturbed
<1> QED
  BY <1>1, <1>2, FS_Subset, Zenon

LEMMA ChargesFiniteNext ==
  ASSUME FinitelyMany, ReferralTypeOK'
  PROVE  /\ IsFiniteSet(Completed') /\ IsFiniteSet(BetweenAwards')
         /\ IsFiniteSet(ByReferral') /\ IsFiniteSet(ByDisturbed')
         /\ \A b \in Referred : IsFiniteSet(OfDisturbed(b)')
<1> USE DEF FinitelyMany
<1>1. Completed' \subseteq Referred /\ ByReferral' \subseteq Referred
  BY DEF Completed, ByReferral
<1>2. /\ BetweenAwards' \subseteq Payments /\ ByDisturbed' \subseteq Payments
      /\ \A b \in Referred : OfDisturbed(b)' \subseteq Payments
  BY DEF ReferralTypeOK, BetweenAwards, ByDisturbed, OfDisturbed
<1> QED
  BY <1>1, <1>2, FS_Subset, Zenon

LEMMA ReferralInvInit == ReferralInit => ReferralTypeOK /\ CodeInv /\ PayInv
<1> SUFFICES ASSUME ReferralInit PROVE ReferralTypeOK /\ CodeInv /\ PayInv
  OBVIOUS
<1>1. 0 \in 0..MaxReferralFaults
  BY ReferralAssumption
<1>2. ReferralTypeOK
  BY <1>1 DEF ReferralInit, ReferralTypeOK, VisitSteps, PaymentSteps
<1>3. CodeInv
  BY FS_EmptySet DEF ReferralInit, CodeInv, Rivalry, CodesTracked, Invited, Visiting, HandedOutCodeTracks
<1>4. Completed = {} /\ BetweenAwards = {} /\ ByReferral = {} /\ ByDisturbed = {}
  BY DEF ReferralInit, Completed, BetweenAwards, ByReferral, ByDisturbed, At
<1>5. \A b \in Referred : OfDisturbed(b) = {} /\ OfReferral(b) = 0
  BY DEF ReferralInit, OfDisturbed, OfReferral, At
<1>6. Cardinality({}) = 0
  BY FS_EmptySet
<1>7. Awarded
  BY <1>4, <1>5, <1>6 DEF ReferralInit, Awarded
<1> QED
  BY <1>2, <1>3, <1>7 DEF ReferralInit, PayInv, Enrolled, SolePayment, UnderReward

\* The awards do not depend on the visits and the codes.
LEMMA PayInvApart ==
  ASSUME PayInv, UNCHANGED <<payVars, referral, registration>>
  PROVE  PayInv'
BY DEF payVars, PayInv, Enrolled, SolePayment, UnderReward, Awarded, Completed, BetweenAwards, ByReferral,
       ByDisturbed, OfReferral, OfDisturbed, At

\* A visit meets those under way.
LEMMA AskCodeKeeps ==
  ASSUME ReferralTypeOK, CodeInv, NEW v \in Visits, AskCode(v)
  PROVE  ReferralTypeOK' /\ CodeInv'
<1> USE ReferralAssumption DEF AskCode, Arrive, Turn, Answered, codeVars, inviteVars, trackVars, payVars
<1>1. ReferralTypeOK'
  BY DEF ReferralTypeOK, VisitSteps, Visiting
<1>2. Rivalry'
  BY DEF ReferralTypeOK, CodeInv, Rivalry, Visiting
<1>3. CodesTracked'
  BY DEF ReferralTypeOK, CodeInv, Rivalry, CodesTracked, Visiting, HandedOutCodeTracks
<1>4. Invited'
  BY DEF ReferralTypeOK, CodeInv, Rivalry, Invited, Visiting
<1> QED
  BY <1>1, <1>2, <1>3, <1>4 DEF CodeInv

\* A visit meets those under way.
LEMMA AskStatsKeeps ==
  ASSUME ReferralTypeOK, CodeInv, NEW v \in Visits, AskStats(v)
  PROVE  ReferralTypeOK' /\ CodeInv'
<1> USE ReferralAssumption DEF AskStats, Arrive, Turn, Answered, codeVars, inviteVars, trackVars, payVars
<1>1. ReferralTypeOK'
  BY DEF ReferralTypeOK, VisitSteps, Visiting
<1>2. Rivalry'
  BY DEF ReferralTypeOK, CodeInv, Rivalry, Visiting
<1>3. CodesTracked'
  BY DEF ReferralTypeOK, CodeInv, Rivalry, CodesTracked, Visiting, HandedOutCodeTracks
<1>4. Invited'
  BY DEF ReferralTypeOK, CodeInv, Rivalry, Invited, Visiting
<1> QED
  BY <1>1, <1>2, <1>3, <1>4 DEF CodeInv

\* An invitation begins out of the cooldown only.
LEMMA InviteKeeps ==
  ASSUME ReferralTypeOK, CodeInv, NEW v \in Visits, Invite(v)
  PROVE  ReferralTypeOK' /\ CodeInv'
<1> USE ReferralAssumption DEF Invite, Arrive, Turn, Answered, codeVars, inviteVars, trackVars, payVars
<1>1. ReferralTypeOK'
  BY DEF ReferralTypeOK, VisitSteps, Visiting
<1>2. Rivalry'
  BY DEF ReferralTypeOK, CodeInv, Rivalry, Visiting
<1>3. CodesTracked'
  BY DEF ReferralTypeOK, CodeInv, Rivalry, CodesTracked, Visiting, HandedOutCodeTracks
<1>4. Invited'
  BY FS_AddElement DEF ReferralTypeOK, CodeInv, Rivalry, Invited, Visiting
<1> QED
  BY <1>1, <1>2, <1>3, <1>4 DEF CodeInv

\* The code that is read is the stored one.
LEMMA ReadCodeKeeps ==
  ASSUME ReferralTypeOK, CodeInv, NEW v \in Visits, ReadCode(v)
  PROVE  ReferralTypeOK' /\ CodeInv'
<1> USE ReferralAssumption DEF ReadCode, Arrive, Turn, Answered, codeVars, inviteVars, trackVars, payVars
<1>1. ReferralTypeOK'
  BY DEF ReferralTypeOK, VisitSteps, Visiting
<1>2. Rivalry'
  BY DEF ReferralTypeOK, CodeInv, Rivalry, Visiting
<1>3. CodesTracked'
  BY DEF ReferralTypeOK, CodeInv, Rivalry, CodesTracked, Visiting, HandedOutCodeTracks
<1>4. Invited'
  BY DEF ReferralTypeOK, CodeInv, Rivalry, Invited, Visiting
<1> QED
  BY <1>1, <1>2, <1>3, <1>4 DEF CodeInv

\* What a write overwrites is a rival's.
LEMMA WriteCodeKeeps ==
  ASSUME ReferralTypeOK, CodeInv, NEW v \in Visits, WriteCode(v)
  PROVE  ReferralTypeOK' /\ CodeInv'
<1> USE ReferralAssumption DEF WriteCode, Arrive, Turn, Answered, codeVars, inviteVars, trackVars, payVars
<1>1. ReferralTypeOK'
  BY DEF ReferralTypeOK, VisitSteps, Visiting
<1>2. Rivalry'
  BY DEF ReferralTypeOK, CodeInv, Rivalry, Visiting
<1>3. CodesTracked'
  BY DEF ReferralTypeOK, CodeInv, Rivalry, CodesTracked, Visiting, HandedOutCodeTracks
<1>4. Invited'
  BY DEF ReferralTypeOK, CodeInv, Rivalry, Invited, Visiting
<1> QED
  BY <1>1, <1>2, <1>3, <1>4 DEF CodeInv

\* The cooldown starts.
LEMMA MarkInvitedKeeps ==
  ASSUME ReferralTypeOK, CodeInv, NEW v \in Visits, MarkInvited(v)
  PROVE  ReferralTypeOK' /\ CodeInv'
<1> USE ReferralAssumption DEF MarkInvited, Arrive, Turn, Answered, codeVars, inviteVars, trackVars, payVars
<1>1. ReferralTypeOK'
  BY DEF ReferralTypeOK, VisitSteps, Visiting
<1>2. Rivalry'
  BY DEF ReferralTypeOK, CodeInv, Rivalry, Visiting
<1>3. CodesTracked'
  BY DEF ReferralTypeOK, CodeInv, Rivalry, CodesTracked, Visiting, HandedOutCodeTracks
<1>4. Invited'
  BY DEF ReferralTypeOK, CodeInv, Rivalry, Invited, Visiting
<1> QED
  BY <1>1, <1>2, <1>3, <1>4 DEF CodeInv

\* A second mail is a rival's.
LEMMA QueueInviteKeeps ==
  ASSUME ReferralTypeOK, CodeInv, NEW v \in Visits, QueueInvite(v)
  PROVE  ReferralTypeOK' /\ CodeInv'
<1> USE ReferralAssumption DEF QueueInvite, Arrive, Turn, Answered, codeVars, inviteVars, trackVars, payVars
<1>1. ReferralTypeOK'
  BY DEF ReferralTypeOK, VisitSteps, Visiting
<1>2. Rivalry'
  BY DEF ReferralTypeOK, CodeInv, Rivalry, Visiting
<1>3. CodesTracked'
  BY DEF ReferralTypeOK, CodeInv, Rivalry, CodesTracked, Visiting, HandedOutCodeTracks
<1>4. Invited'
  BY DEF ReferralTypeOK, CodeInv, Rivalry, Invited, Visiting
<1> QED
  BY <1>1, <1>2, <1>3, <1>4 DEF CodeInv

\* A visit that fails hands out no code.
LEMMA VisitFailsKeeps ==
  ASSUME ReferralTypeOK, CodeInv, NEW v \in Visits, VisitFails(v)
  PROVE  ReferralTypeOK' /\ CodeInv'
<1> USE ReferralAssumption DEF VisitFails, Arrive, Turn, Answered, codeVars, inviteVars, trackVars, payVars
<1>1. ReferralTypeOK'
  BY DEF ReferralTypeOK, VisitSteps, Visiting
<1>2. Rivalry'
  BY DEF ReferralTypeOK, CodeInv, Rivalry, Visiting
<1>3. CodesTracked'
  BY DEF ReferralTypeOK, CodeInv, Rivalry, CodesTracked, Visiting, HandedOutCodeTracks
<1>4. Invited'
  BY DEF ReferralTypeOK, CodeInv, Rivalry, Invited, Visiting
<1> QED
  BY <1>1, <1>2, <1>3, <1>4 DEF CodeInv

\* A company registers with a code that was handed out.
LEMMA ReferKeeps ==
  ASSUME ReferralTypeOK, CodeInv, NEW b \in Referred,
         (\E v \in Visits : Register(b, v)) \/ FindReferrer(b) \/ HookFails(b)
  PROVE  ReferralTypeOK' /\ CodeInv'
<1> USE ReferralAssumption DEF Register, FindReferrer, HookFails, codeVars, inviteVars, trackVars, payVars
<1>1. ReferralTypeOK'
  BY DEF ReferralTypeOK
<1>2. Rivalry' /\ Invited'
  BY DEF CodeInv, Rivalry, Invited, Visiting
<1>3. CodesTracked'
  BY DEF ReferralTypeOK, CodeInv, CodesTracked, HandedOutCodeTracks
<1> QED
  BY <1>1, <1>2, <1>3 DEF CodeInv

\* Before its registration is over, nothing was paid for a company.
LEMMA ReferKeepsPay ==
  ASSUME ReferralTypeOK, PayInv, NEW b \in Referred,
         (\E v \in Visits : Register(b, v)) \/ FindReferrer(b) \/ HookFails(b)
  PROVE  PayInv'
<1> USE DEF Register, FindReferrer, HookFails, codeVars, inviteVars, trackVars, payVars
<1>1. Enrolled'
  BY DEF ReferralTypeOK, PayInv, Enrolled
<1>2. /\ Completed' = Completed /\ BetweenAwards' = BetweenAwards
      /\ ByReferral' = ByReferral /\ ByDisturbed' = ByDisturbed
      /\ \A c \in Referred : OfReferral(c)' = OfReferral(c) /\ OfDisturbed(c)' = OfDisturbed(c)
  BY DEF Completed, BetweenAwards, ByReferral, ByDisturbed, OfReferral, OfDisturbed, At
<1>3. SolePayment' /\ Awarded'
  BY <1>2 DEF PayInv, SolePayment, UnderReward, Awarded
<1> QED
  BY <1>1, <1>3 DEF PayInv

LEMMA CreateReferralKeeps ==
  ASSUME ReferralTypeOK, CodeInv, PayInv, NEW b \in Referred, CreateReferral(b)
  PROVE  ReferralTypeOK' /\ CodeInv' /\ PayInv'
<1> USE ReferralAssumption DEF CreateReferral, codeVars, inviteVars, trackVars, payVars
<1>1. ReferralTypeOK'
  BY DEF ReferralTypeOK
<1>2. CodeInv'
  BY DEF ReferralTypeOK, CodeInv, Rivalry, Invited, Visiting, CodesTracked, HandedOutCodeTracks
<1>3. Enrolled'
  BY DEF ReferralTypeOK, PayInv, Enrolled
<1>4. \A c \in Referred : (referral'[c] = "completed") = (referral[c] = "completed")
  BY DEF ReferralTypeOK, PayInv, Enrolled
<1>5. /\ Completed' = Completed /\ BetweenAwards' = BetweenAwards
      /\ ByReferral' = ByReferral /\ ByDisturbed' = ByDisturbed
      /\ \A c \in Referred : OfReferral(c)' = OfReferral(c) /\ OfDisturbed(c)' = OfDisturbed(c)
  BY <1>4 DEF Completed, BetweenAwards, ByReferral, ByDisturbed, OfReferral, OfDisturbed, At
<1>6. SolePayment' /\ Awarded'
  BY <1>5 DEF PayInv, SolePayment, UnderReward, Awarded
<1> QED
  BY <1>1, <1>2, <1>3, <1>6 DEF PayInv

\* The visits and the codes do not depend on the payments.
LEMMA CodeInvApart ==
  ASSUME ReferralTypeOK, CodeInv, UNCHANGED <<codeVars, inviteVars, trackVars>>,
         \A b \in Referred : referral[b] # "none" => referral'[b] # "none"
  PROVE  CodeInv'
BY DEF codeVars, inviteVars, trackVars, CodeInv, Rivalry, CodesTracked, Invited, Visiting, HandedOutCodeTracks

\* A cooldown ends while no mail is being queued.
LEMMA CooldownKeeps ==
  ASSUME ReferralTypeOK, CodeInv, CooldownEnds
  PROVE  ReferralTypeOK' /\ CodeInv'
<1> USE DEF CooldownEnds, codeVars, trackVars, payVars
<1>1. ReferralTypeOK'
  BY DEF ReferralTypeOK
<1>2. CodeInv'
  BY DEF ReferralTypeOK, CodeInv, Rivalry, CodesTracked, Invited, Visiting, HandedOutCodeTracks
<1> QED
  BY <1>1, <1>2

\* A payment that finds none of its company under way is undisturbed.
LEMMA PayKeeps ==
  ASSUME FinitelyMany, ReferralTypeOK, PayInv, NEW p \in Payments, Pay(p)
  PROVE  ReferralTypeOK' /\ PayInv'
<1> USE ReferralAssumption DEF Pay, Stage, Rewarding, codeVars, inviteVars, trackVars
<1>0. /\ payer[p] \in Referred /\ disturbed \subseteq Payments
      /\ \A q \in Payments \ {p} : payment'[q] = payment[q] /\ (q \in disturbed' <=> q \in disturbed)
  BY DEF ReferralTypeOK
<1>1. ReferralTypeOK'
  BY DEF ReferralTypeOK, PaymentSteps
<1>2. Enrolled'
  BY DEF ReferralTypeOK, PayInv, Enrolled
<1>3. SolePayment'
  BY DEF ReferralTypeOK, PayInv, SolePayment, UnderReward
<1>5. /\ Completed' = Completed /\ BetweenAwards' = BetweenAwards
      /\ ByReferral' = ByReferral /\ ByDisturbed' = ByDisturbed
      /\ \A b \in Referred : OfReferral(b)' = OfReferral(b) /\ OfDisturbed(b)' = OfDisturbed(b)
  BY <1>0 DEF ReferralTypeOK, Completed, BetweenAwards, ByReferral, ByDisturbed, OfReferral, OfDisturbed, At
<1>6. Awarded'
  BY <1>5 DEF PayInv, Awarded
<1> QED
  BY <1>1, <1>2, <1>3, <1>6 DEF PayInv

\* A referral that is found is not completed.
LEMMA FindPendingKeeps ==
  ASSUME FinitelyMany, ReferralTypeOK, PayInv, NEW p \in Payments, FindPending(p)
  PROVE  ReferralTypeOK' /\ PayInv'
<1> USE ReferralAssumption DEF FindPending, Stage, Rewarding, codeVars, inviteVars, trackVars
<1>0. /\ payer[p] \in Referred /\ disturbed \subseteq Payments
      /\ \A q \in Payments \ {p} : payment'[q] = payment[q] /\ (q \in disturbed' <=> q \in disturbed)
  BY DEF ReferralTypeOK
<1>1. ReferralTypeOK'
  BY DEF ReferralTypeOK, PaymentSteps
<1>2. Enrolled'
  BY DEF ReferralTypeOK, PayInv, Enrolled
<1>3. SolePayment'
  BY DEF ReferralTypeOK, PayInv, SolePayment, UnderReward
<1>4. PICK C, W, B, D : C = Completed' /\ W = BetweenAwards' /\ B = ByReferral' /\ D = ByDisturbed'
  OBVIOUS
<1>5. C = Completed /\ W = BetweenAwards
  BY <1>0, <1>4 DEF Completed, BetweenAwards, ByReferral, ByDisturbed, At, PayInv, SolePayment, UnderReward, Enrolled, ReferralTypeOK
<1>6. ByReferral \subseteq B /\ ByDisturbed \subseteq D
  BY <1>0, <1>4 DEF Completed, BetweenAwards, ByReferral, ByDisturbed, At, PayInv, SolePayment, UnderReward, Enrolled, ReferralTypeOK
<1>7. ASSUME NEW b \in Referred, NEW E, E = OfDisturbed(b)'
      PROVE  OfReferral(b) <= OfReferral(b)' /\ OfDisturbed(b) \subseteq E
  BY <1>0, <1>7 DEF OfReferral, OfDisturbed, At, PayInv, SolePayment, UnderReward, Enrolled, ReferralTypeOK
<1>8. /\ IsFiniteSet(C) /\ IsFiniteSet(W) /\ IsFiniteSet(B) /\ IsFiniteSet(D)
      /\ IsFiniteSet(Completed) /\ IsFiniteSet(BetweenAwards)
      /\ IsFiniteSet(ByReferral) /\ IsFiniteSet(ByDisturbed)
      /\ \A b \in Referred : IsFiniteSet(OfDisturbed(b)) /\ IsFiniteSet(OfDisturbed(b)')
  BY <1>1, <1>4, ChargesFinite, ChargesFiniteNext
<1>9. toReferrer \in Nat /\ toReferrer' \in Nat /\ toReferred \in [Referred -> Nat]
  BY <1>1 DEF ReferralTypeOK
<1>10. Cardinality(C) + Cardinality(W) <= toReferrer'
  <2>1. Cardinality(Completed) + Cardinality(BetweenAwards) <= toReferrer
    BY DEF PayInv, Awarded
  <2>2. /\ Cardinality(C) \in Nat /\ Cardinality(Completed) \in Nat
        /\ C \subseteq Completed => Cardinality(C) <= Cardinality(Completed)
        /\ C \subseteq Completed \cup {payer[p]} => Cardinality(C) <= Cardinality(Completed) + 1
    BY <1>8, ByOne
  <2>3. /\ Cardinality(W) \in Nat /\ Cardinality(BetweenAwards) \in Nat
        /\ W \subseteq BetweenAwards => Cardinality(W) <= Cardinality(BetweenAwards)
        /\ W \subseteq BetweenAwards \cup {p} => Cardinality(W) <= Cardinality(BetweenAwards) + 1
        /\ p \notin W /\ W \cup {p} \subseteq BetweenAwards
             => Cardinality(W) + 1 <= Cardinality(BetweenAwards)
    BY <1>8, ByOne
  <2> QED
    BY <1>5, <1>9, <2>1, <2>2, <2>3
<1>11. toReferrer' <= Cardinality(B) + Cardinality(D)
  <2>1. toReferrer <= Cardinality(ByReferral) + Cardinality(ByDisturbed)
    BY DEF PayInv, Awarded
  <2>2. /\ Cardinality(B) \in Nat /\ Cardinality(ByReferral) \in Nat
        /\ ByReferral \subseteq B => Cardinality(ByReferral) <= Cardinality(B)
        /\ ByReferral \subseteq B \cup {payer[p]} => Cardinality(ByReferral) <= Cardinality(B) + 1
        /\ payer[p] \notin ByReferral /\ ByReferral \cup {payer[p]} \subseteq B
             => Cardinality(ByReferral) + 1 <= Cardinality(B)
    BY <1>8, ByOne
  <2>3. /\ Cardinality(D) \in Nat /\ Cardinality(ByDisturbed) \in Nat
        /\ ByDisturbed \subseteq D => Cardinality(ByDisturbed) <= Cardinality(D)
        /\ p \notin ByDisturbed /\ ByDisturbed \cup {p} \subseteq D
             => Cardinality(ByDisturbed) + 1 <= Cardinality(D)
    BY <1>8, ByOne
  <2> QED
    BY <1>6, <1>9, <2>1, <2>2, <2>3
<1>12. ASSUME NEW b \in Referred PROVE toReferred'[b] <= OfReferral(b)' + Cardinality(OfDisturbed(b))'
  <2>1. PICK E : E = OfDisturbed(b)'
    OBVIOUS
  <2>2. toReferred[b] <= OfReferral(b) + Cardinality(OfDisturbed(b))
    BY DEF PayInv, Awarded
  <2>3. /\ Cardinality(E) \in Nat /\ Cardinality(OfDisturbed(b)) \in Nat
        /\ OfDisturbed(b) \subseteq E => Cardinality(OfDisturbed(b)) <= Cardinality(E)
        /\ p \notin OfDisturbed(b) /\ OfDisturbed(b) \cup {p} \subseteq E
             => Cardinality(OfDisturbed(b)) + 1 <= Cardinality(E)
    BY <1>8, <2>1, ByOne
  <2>4. PICK g \in 0..1, h \in 0..1 : g = OfReferral(b) /\ h = OfReferral(b)'
    BY DEF OfReferral
  <2>5. toReferred[b] \in Nat /\ toReferred'[b] = toReferred[b] + 0
    BY <1>9 DEF ReferralTypeOK
  <2>6. toReferred[b] + 0 <= h + Cardinality(E)
    BY <1>7, <2>1, <2>2, <2>3, <2>4, <2>5
  <2> QED
    BY <2>1, <2>4, <2>5, <2>6
<1>13. Awarded'
  BY <1>4, <1>10, <1>11, <1>12 DEF Awarded
<1> QED
  BY <1>1, <1>2, <1>3, <1>13 DEF PayInv

\* The award is charged to the referral, or to a disturbed payment.
LEMMA AwardReferrerKeeps ==
  ASSUME FinitelyMany, ReferralTypeOK, PayInv, NEW p \in Payments, AwardReferrer(p)
  PROVE  ReferralTypeOK' /\ PayInv'
<1> USE ReferralAssumption DEF AwardReferrer, Stage, Rewarding, codeVars, inviteVars, trackVars
<1>0. /\ payer[p] \in Referred /\ disturbed \subseteq Payments
      /\ \A q \in Payments \ {p} : payment'[q] = payment[q] /\ (q \in disturbed' <=> q \in disturbed)
  BY DEF ReferralTypeOK
<1>1. ReferralTypeOK'
  BY DEF ReferralTypeOK, PaymentSteps
<1>2. Enrolled'
  BY DEF ReferralTypeOK, PayInv, Enrolled
<1>3. SolePayment'
  BY DEF ReferralTypeOK, PayInv, SolePayment, UnderReward
<1>4. PICK C, W, B, D : C = Completed' /\ W = BetweenAwards' /\ B = ByReferral' /\ D = ByDisturbed'
  OBVIOUS
<1>5. C = Completed /\ W \subseteq BetweenAwards \cup {p}
  BY <1>0, <1>4 DEF Completed, BetweenAwards, ByReferral, ByDisturbed, At, PayInv, SolePayment, UnderReward, Enrolled, ReferralTypeOK
<1>6. \/ ByReferral \subseteq B /\ p \notin ByDisturbed /\ ByDisturbed \cup {p} \subseteq D
      \/ payer[p] \notin ByReferral /\ ByReferral \cup {payer[p]} \subseteq B /\ ByDisturbed \subseteq D
  BY <1>0, <1>4 DEF Completed, BetweenAwards, ByReferral, ByDisturbed, At, PayInv, SolePayment, UnderReward, Enrolled, ReferralTypeOK
<1>7. ASSUME NEW b \in Referred, NEW E, E = OfDisturbed(b)'
      PROVE  OfReferral(b) <= OfReferral(b)' /\ OfDisturbed(b) \subseteq E
  BY <1>0, <1>7 DEF OfReferral, OfDisturbed, At, PayInv, SolePayment, UnderReward, Enrolled, ReferralTypeOK
<1>8. /\ IsFiniteSet(C) /\ IsFiniteSet(W) /\ IsFiniteSet(B) /\ IsFiniteSet(D)
      /\ IsFiniteSet(Completed) /\ IsFiniteSet(BetweenAwards)
      /\ IsFiniteSet(ByReferral) /\ IsFiniteSet(ByDisturbed)
      /\ \A b \in Referred : IsFiniteSet(OfDisturbed(b)) /\ IsFiniteSet(OfDisturbed(b)')
  BY <1>1, <1>4, ChargesFinite, ChargesFiniteNext
<1>9. toReferrer \in Nat /\ toReferrer' \in Nat /\ toReferred \in [Referred -> Nat]
  BY <1>1 DEF ReferralTypeOK
<1>10. Cardinality(C) + Cardinality(W) <= toReferrer'
  <2>1. Cardinality(Completed) + Cardinality(BetweenAwards) <= toReferrer
    BY DEF PayInv, Awarded
  <2>2. /\ Cardinality(C) \in Nat /\ Cardinality(Completed) \in Nat
        /\ C \subseteq Completed => Cardinality(C) <= Cardinality(Completed)
        /\ C \subseteq Completed \cup {payer[p]} => Cardinality(C) <= Cardinality(Completed) + 1
    BY <1>8, ByOne
  <2>3. /\ Cardinality(W) \in Nat /\ Cardinality(BetweenAwards) \in Nat
        /\ W \subseteq BetweenAwards => Cardinality(W) <= Cardinality(BetweenAwards)
        /\ W \subseteq BetweenAwards \cup {p} => Cardinality(W) <= Cardinality(BetweenAwards) + 1
        /\ p \notin W /\ W \cup {p} \subseteq BetweenAwards
             => Cardinality(W) + 1 <= Cardinality(BetweenAwards)
    BY <1>8, ByOne
  <2> QED
    BY <1>5, <1>9, <2>1, <2>2, <2>3
<1>11. toReferrer' <= Cardinality(B) + Cardinality(D)
  <2>1. toReferrer <= Cardinality(ByReferral) + Cardinality(ByDisturbed)
    BY DEF PayInv, Awarded
  <2>2. /\ Cardinality(B) \in Nat /\ Cardinality(ByReferral) \in Nat
        /\ ByReferral \subseteq B => Cardinality(ByReferral) <= Cardinality(B)
        /\ ByReferral \subseteq B \cup {payer[p]} => Cardinality(ByReferral) <= Cardinality(B) + 1
        /\ payer[p] \notin ByReferral /\ ByReferral \cup {payer[p]} \subseteq B
             => Cardinality(ByReferral) + 1 <= Cardinality(B)
    BY <1>8, ByOne
  <2>3. /\ Cardinality(D) \in Nat /\ Cardinality(ByDisturbed) \in Nat
        /\ ByDisturbed \subseteq D => Cardinality(ByDisturbed) <= Cardinality(D)
        /\ p \notin ByDisturbed /\ ByDisturbed \cup {p} \subseteq D
             => Cardinality(ByDisturbed) + 1 <= Cardinality(D)
    BY <1>8, ByOne
  <2> QED
    BY <1>6, <1>9, <2>1, <2>2, <2>3
<1>12. ASSUME NEW b \in Referred PROVE toReferred'[b] <= OfReferral(b)' + Cardinality(OfDisturbed(b))'
  <2>1. PICK E : E = OfDisturbed(b)'
    OBVIOUS
  <2>2. toReferred[b] <= OfReferral(b) + Cardinality(OfDisturbed(b))
    BY DEF PayInv, Awarded
  <2>3. /\ Cardinality(E) \in Nat /\ Cardinality(OfDisturbed(b)) \in Nat
        /\ OfDisturbed(b) \subseteq E => Cardinality(OfDisturbed(b)) <= Cardinality(E)
        /\ p \notin OfDisturbed(b) /\ OfDisturbed(b) \cup {p} \subseteq E
             => Cardinality(OfDisturbed(b)) + 1 <= Cardinality(E)
    BY <1>8, <2>1, ByOne
  <2>4. PICK g \in 0..1, h \in 0..1 : g = OfReferral(b) /\ h = OfReferral(b)'
    BY DEF OfReferral
  <2>5. toReferred[b] \in Nat /\ toReferred'[b] = toReferred[b] + 0
    BY <1>9 DEF ReferralTypeOK
  <2>6. toReferred[b] + 0 <= h + Cardinality(E)
    BY <1>7, <2>1, <2>2, <2>3, <2>4, <2>5
  <2> QED
    BY <2>1, <2>4, <2>5, <2>6
<1>13. Awarded'
  BY <1>4, <1>10, <1>11, <1>12 DEF Awarded
<1> QED
  BY <1>1, <1>2, <1>3, <1>13 DEF PayInv

\* So is that of the referred company.
LEMMA AwardReferredKeeps ==
  ASSUME FinitelyMany, ReferralTypeOK, PayInv, NEW p \in Payments, AwardReferred(p)
  PROVE  ReferralTypeOK' /\ PayInv'
<1> USE ReferralAssumption DEF AwardReferred, Stage, Rewarding, codeVars, inviteVars, trackVars
<1>0. /\ payer[p] \in Referred /\ disturbed \subseteq Payments
      /\ \A q \in Payments \ {p} : payment'[q] = payment[q] /\ (q \in disturbed' <=> q \in disturbed)
  BY DEF ReferralTypeOK
<1>1. ReferralTypeOK'
  BY DEF ReferralTypeOK, PaymentSteps
<1>2. Enrolled'
  BY DEF ReferralTypeOK, PayInv, Enrolled
<1>3. SolePayment'
  BY DEF ReferralTypeOK, PayInv, SolePayment, UnderReward
<1>4. PICK C, W, B, D : C = Completed' /\ W = BetweenAwards' /\ B = ByReferral' /\ D = ByDisturbed'
  OBVIOUS
<1>5. C = Completed /\ W = BetweenAwards
  BY <1>0, <1>4 DEF Completed, BetweenAwards, ByReferral, ByDisturbed, At, PayInv, SolePayment, UnderReward, Enrolled, ReferralTypeOK
<1>6. ByReferral \subseteq B /\ ByDisturbed \subseteq D
  BY <1>0, <1>4 DEF Completed, BetweenAwards, ByReferral, ByDisturbed, At, PayInv, SolePayment, UnderReward, Enrolled, ReferralTypeOK
<1>7. ASSUME NEW b \in Referred, NEW E, E = OfDisturbed(b)'
      PROVE  IF b = payer[p]
               THEN \/ /\ OfReferral(b) <= OfReferral(b)'
                       /\ p \notin OfDisturbed(b) /\ OfDisturbed(b) \cup {p} \subseteq E
                    \/ OfReferral(b) = 0 /\ OfReferral(b)' = 1 /\ OfDisturbed(b) \subseteq E
               ELSE OfReferral(b) <= OfReferral(b)' /\ OfDisturbed(b) \subseteq E
  BY <1>0, <1>7 DEF OfReferral, OfDisturbed, At, PayInv, SolePayment, UnderReward, Enrolled, ReferralTypeOK
<1>8. /\ IsFiniteSet(C) /\ IsFiniteSet(W) /\ IsFiniteSet(B) /\ IsFiniteSet(D)
      /\ IsFiniteSet(Completed) /\ IsFiniteSet(BetweenAwards)
      /\ IsFiniteSet(ByReferral) /\ IsFiniteSet(ByDisturbed)
      /\ \A b \in Referred : IsFiniteSet(OfDisturbed(b)) /\ IsFiniteSet(OfDisturbed(b)')
  BY <1>1, <1>4, ChargesFinite, ChargesFiniteNext
<1>9. toReferrer \in Nat /\ toReferrer' \in Nat /\ toReferred \in [Referred -> Nat]
  BY <1>1 DEF ReferralTypeOK
<1>10. Cardinality(C) + Cardinality(W) <= toReferrer'
  <2>1. Cardinality(Completed) + Cardinality(BetweenAwards) <= toReferrer
    BY DEF PayInv, Awarded
  <2>2. /\ Cardinality(C) \in Nat /\ Cardinality(Completed) \in Nat
        /\ C \subseteq Completed => Cardinality(C) <= Cardinality(Completed)
        /\ C \subseteq Completed \cup {payer[p]} => Cardinality(C) <= Cardinality(Completed) + 1
    BY <1>8, ByOne
  <2>3. /\ Cardinality(W) \in Nat /\ Cardinality(BetweenAwards) \in Nat
        /\ W \subseteq BetweenAwards => Cardinality(W) <= Cardinality(BetweenAwards)
        /\ W \subseteq BetweenAwards \cup {p} => Cardinality(W) <= Cardinality(BetweenAwards) + 1
        /\ p \notin W /\ W \cup {p} \subseteq BetweenAwards
             => Cardinality(W) + 1 <= Cardinality(BetweenAwards)
    BY <1>8, ByOne
  <2> QED
    BY <1>5, <1>9, <2>1, <2>2, <2>3
<1>11. toReferrer' <= Cardinality(B) + Cardinality(D)
  <2>1. toReferrer <= Cardinality(ByReferral) + Cardinality(ByDisturbed)
    BY DEF PayInv, Awarded
  <2>2. /\ Cardinality(B) \in Nat /\ Cardinality(ByReferral) \in Nat
        /\ ByReferral \subseteq B => Cardinality(ByReferral) <= Cardinality(B)
        /\ ByReferral \subseteq B \cup {payer[p]} => Cardinality(ByReferral) <= Cardinality(B) + 1
        /\ payer[p] \notin ByReferral /\ ByReferral \cup {payer[p]} \subseteq B
             => Cardinality(ByReferral) + 1 <= Cardinality(B)
    BY <1>8, ByOne
  <2>3. /\ Cardinality(D) \in Nat /\ Cardinality(ByDisturbed) \in Nat
        /\ ByDisturbed \subseteq D => Cardinality(ByDisturbed) <= Cardinality(D)
        /\ p \notin ByDisturbed /\ ByDisturbed \cup {p} \subseteq D
             => Cardinality(ByDisturbed) + 1 <= Cardinality(D)
    BY <1>8, ByOne
  <2> QED
    BY <1>6, <1>9, <2>1, <2>2, <2>3
<1>12. ASSUME NEW b \in Referred PROVE toReferred'[b] <= OfReferral(b)' + Cardinality(OfDisturbed(b))'
  <2>1. PICK E : E = OfDisturbed(b)'
    OBVIOUS
  <2>2. toReferred[b] <= OfReferral(b) + Cardinality(OfDisturbed(b))
    BY DEF PayInv, Awarded
  <2>3. /\ Cardinality(E) \in Nat /\ Cardinality(OfDisturbed(b)) \in Nat
        /\ OfDisturbed(b) \subseteq E => Cardinality(OfDisturbed(b)) <= Cardinality(E)
        /\ p \notin OfDisturbed(b) /\ OfDisturbed(b) \cup {p} \subseteq E
             => Cardinality(OfDisturbed(b)) + 1 <= Cardinality(E)
    BY <1>8, <2>1, ByOne
  <2>4. PICK g \in 0..1, h \in 0..1 : g = OfReferral(b) /\ h = OfReferral(b)'
    BY DEF OfReferral
  <2>5. toReferred[b] \in Nat /\ toReferred'[b] = toReferred[b] + (IF b = payer[p] THEN 1 ELSE 0)
    BY <1>9 DEF ReferralTypeOK
  <2>6. toReferred[b] + (IF b = payer[p] THEN 1 ELSE 0) <= h + Cardinality(E)
    BY <1>7, <2>1, <2>2, <2>3, <2>4, <2>5
  <2> QED
    BY <2>1, <2>4, <2>5, <2>6
<1>13. Awarded'
  BY <1>4, <1>10, <1>11, <1>12 DEF Awarded
<1> QED
  BY <1>1, <1>2, <1>3, <1>13 DEF PayInv

\* What was charged to an undisturbed payment stays with its referral.
LEMMA CompleteReferralKeeps ==
  ASSUME FinitelyMany, ReferralTypeOK, PayInv, NEW p \in Payments, CompleteReferral(p)
  PROVE  ReferralTypeOK' /\ PayInv'
<1> USE ReferralAssumption DEF CompleteReferral, Stage, Rewarding, codeVars, inviteVars, trackVars
<1>0. /\ payer[p] \in Referred /\ disturbed \subseteq Payments
      /\ \A q \in Payments \ {p} : payment'[q] = payment[q] /\ (q \in disturbed' <=> q \in disturbed)
  BY DEF ReferralTypeOK
<1>1. ReferralTypeOK'
  BY DEF ReferralTypeOK, PaymentSteps
<1>2. Enrolled'
  BY DEF ReferralTypeOK, PayInv, Enrolled
<1>3. SolePayment'
  BY DEF ReferralTypeOK, PayInv, SolePayment, UnderReward
<1>4. PICK C, W, B, D : C = Completed' /\ W = BetweenAwards' /\ B = ByReferral' /\ D = ByDisturbed'
  OBVIOUS
<1>5. C \subseteq Completed \cup {payer[p]} /\ p \notin W /\ W \cup {p} \subseteq BetweenAwards
  BY <1>0, <1>4 DEF Completed, BetweenAwards, ByReferral, ByDisturbed, At, PayInv, SolePayment, UnderReward, Enrolled, ReferralTypeOK
<1>6. ByReferral \subseteq B /\ ByDisturbed \subseteq D
  BY <1>0, <1>4 DEF Completed, BetweenAwards, ByReferral, ByDisturbed, At, PayInv, SolePayment, UnderReward, Enrolled, ReferralTypeOK
<1>7. ASSUME NEW b \in Referred, NEW E, E = OfDisturbed(b)'
      PROVE  OfReferral(b) <= OfReferral(b)' /\ OfDisturbed(b) \subseteq E
  BY <1>0, <1>7 DEF OfReferral, OfDisturbed, At, PayInv, SolePayment, UnderReward, Enrolled, ReferralTypeOK
<1>8. /\ IsFiniteSet(C) /\ IsFiniteSet(W) /\ IsFiniteSet(B) /\ IsFiniteSet(D)
      /\ IsFiniteSet(Completed) /\ IsFiniteSet(BetweenAwards)
      /\ IsFiniteSet(ByReferral) /\ IsFiniteSet(ByDisturbed)
      /\ \A b \in Referred : IsFiniteSet(OfDisturbed(b)) /\ IsFiniteSet(OfDisturbed(b)')
  BY <1>1, <1>4, ChargesFinite, ChargesFiniteNext
<1>9. toReferrer \in Nat /\ toReferrer' \in Nat /\ toReferred \in [Referred -> Nat]
  BY <1>1 DEF ReferralTypeOK
<1>10. Cardinality(C) + Cardinality(W) <= toReferrer'
  <2>1. Cardinality(Completed) + Cardinality(BetweenAwards) <= toReferrer
    BY DEF PayInv, Awarded
  <2>2. /\ Cardinality(C) \in Nat /\ Cardinality(Completed) \in Nat
        /\ C \subseteq Completed => Cardinality(C) <= Cardinality(Completed)
        /\ C \subseteq Completed \cup {payer[p]} => Cardinality(C) <= Cardinality(Completed) + 1
    BY <1>8, ByOne
  <2>3. /\ Cardinality(W) \in Nat /\ Cardinality(BetweenAwards) \in Nat
        /\ W \subseteq BetweenAwards => Cardinality(W) <= Cardinality(BetweenAwards)
        /\ W \subseteq BetweenAwards \cup {p} => Cardinality(W) <= Cardinality(BetweenAwards) + 1
        /\ p \notin W /\ W \cup {p} \subseteq BetweenAwards
             => Cardinality(W) + 1 <= Cardinality(BetweenAwards)
    BY <1>8, ByOne
  <2> QED
    BY <1>5, <1>9, <2>1, <2>2, <2>3
<1>11. toReferrer' <= Cardinality(B) + Cardinality(D)
  <2>1. toReferrer <= Cardinality(ByReferral) + Cardinality(ByDisturbed)
    BY DEF PayInv, Awarded
  <2>2. /\ Cardinality(B) \in Nat /\ Cardinality(ByReferral) \in Nat
        /\ ByReferral \subseteq B => Cardinality(ByReferral) <= Cardinality(B)
        /\ ByReferral \subseteq B \cup {payer[p]} => Cardinality(ByReferral) <= Cardinality(B) + 1
        /\ payer[p] \notin ByReferral /\ ByReferral \cup {payer[p]} \subseteq B
             => Cardinality(ByReferral) + 1 <= Cardinality(B)
    BY <1>8, ByOne
  <2>3. /\ Cardinality(D) \in Nat /\ Cardinality(ByDisturbed) \in Nat
        /\ ByDisturbed \subseteq D => Cardinality(ByDisturbed) <= Cardinality(D)
        /\ p \notin ByDisturbed /\ ByDisturbed \cup {p} \subseteq D
             => Cardinality(ByDisturbed) + 1 <= Cardinality(D)
    BY <1>8, ByOne
  <2> QED
    BY <1>6, <1>9, <2>1, <2>2, <2>3
<1>12. ASSUME NEW b \in Referred PROVE toReferred'[b] <= OfReferral(b)' + Cardinality(OfDisturbed(b))'
  <2>1. PICK E : E = OfDisturbed(b)'
    OBVIOUS
  <2>2. toReferred[b] <= OfReferral(b) + Cardinality(OfDisturbed(b))
    BY DEF PayInv, Awarded
  <2>3. /\ Cardinality(E) \in Nat /\ Cardinality(OfDisturbed(b)) \in Nat
        /\ OfDisturbed(b) \subseteq E => Cardinality(OfDisturbed(b)) <= Cardinality(E)
        /\ p \notin OfDisturbed(b) /\ OfDisturbed(b) \cup {p} \subseteq E
             => Cardinality(OfDisturbed(b)) + 1 <= Cardinality(E)
    BY <1>8, <2>1, ByOne
  <2>4. PICK g \in 0..1, h \in 0..1 : g = OfReferral(b) /\ h = OfReferral(b)'
    BY DEF OfReferral
  <2>5. toReferred[b] \in Nat /\ toReferred'[b] = toReferred[b] + 0
    BY <1>9 DEF ReferralTypeOK
  <2>6. toReferred[b] + 0 <= h + Cardinality(E)
    BY <1>7, <2>1, <2>2, <2>3, <2>4, <2>5
  <2> QED
    BY <2>1, <2>4, <2>5, <2>6
<1>13. Awarded'
  BY <1>4, <1>10, <1>11, <1>12 DEF Awarded
<1> QED
  BY <1>1, <1>2, <1>3, <1>13 DEF PayInv

\* What was charged to a payment that fails is its own from now on.
LEMMA PaymentFailsKeeps ==
  ASSUME FinitelyMany, ReferralTypeOK, PayInv, NEW p \in Payments, PaymentFails(p)
  PROVE  ReferralTypeOK' /\ PayInv'
<1> USE ReferralAssumption DEF PaymentFails, Stage, Rewarding, codeVars, inviteVars, trackVars
<1>0. /\ payer[p] \in Referred /\ disturbed \subseteq Payments
      /\ \A q \in Payments \ {p} : payment'[q] = payment[q] /\ (q \in disturbed' <=> q \in disturbed)
  BY DEF ReferralTypeOK
<1>1. ReferralTypeOK'
  BY DEF ReferralTypeOK, PaymentSteps
<1>2. Enrolled'
  BY DEF ReferralTypeOK, PayInv, Enrolled
<1>3. SolePayment'
  BY DEF ReferralTypeOK, PayInv, SolePayment, UnderReward
<1>4. PICK C, W, B, D : C = Completed' /\ W = BetweenAwards' /\ B = ByReferral' /\ D = ByDisturbed'
  OBVIOUS
<1>5. C = Completed /\ W \subseteq BetweenAwards
  BY <1>0, <1>4 DEF Completed, BetweenAwards, ByReferral, ByDisturbed, At, PayInv, SolePayment, UnderReward, Enrolled, ReferralTypeOK
<1>6. \/ ByReferral \subseteq B /\ ByDisturbed \subseteq D
      \/ /\ ByReferral \subseteq B \cup {payer[p]}
         /\ p \notin ByDisturbed /\ ByDisturbed \cup {p} \subseteq D
  BY <1>0, <1>4 DEF Completed, BetweenAwards, ByReferral, ByDisturbed, At, PayInv, SolePayment, UnderReward, Enrolled, ReferralTypeOK
<1>7. ASSUME NEW b \in Referred, NEW E, E = OfDisturbed(b)'
      PROVE  \/ OfReferral(b) <= OfReferral(b)' /\ OfDisturbed(b) \subseteq E
             \/ p \notin OfDisturbed(b) /\ OfDisturbed(b) \cup {p} \subseteq E
  BY <1>0, <1>7 DEF OfReferral, OfDisturbed, At, PayInv, SolePayment, UnderReward, Enrolled, ReferralTypeOK
<1>8. /\ IsFiniteSet(C) /\ IsFiniteSet(W) /\ IsFiniteSet(B) /\ IsFiniteSet(D)
      /\ IsFiniteSet(Completed) /\ IsFiniteSet(BetweenAwards)
      /\ IsFiniteSet(ByReferral) /\ IsFiniteSet(ByDisturbed)
      /\ \A b \in Referred : IsFiniteSet(OfDisturbed(b)) /\ IsFiniteSet(OfDisturbed(b)')
  BY <1>1, <1>4, ChargesFinite, ChargesFiniteNext
<1>9. toReferrer \in Nat /\ toReferrer' \in Nat /\ toReferred \in [Referred -> Nat]
  BY <1>1 DEF ReferralTypeOK
<1>10. Cardinality(C) + Cardinality(W) <= toReferrer'
  <2>1. Cardinality(Completed) + Cardinality(BetweenAwards) <= toReferrer
    BY DEF PayInv, Awarded
  <2>2. /\ Cardinality(C) \in Nat /\ Cardinality(Completed) \in Nat
        /\ C \subseteq Completed => Cardinality(C) <= Cardinality(Completed)
        /\ C \subseteq Completed \cup {payer[p]} => Cardinality(C) <= Cardinality(Completed) + 1
    BY <1>8, ByOne
  <2>3. /\ Cardinality(W) \in Nat /\ Cardinality(BetweenAwards) \in Nat
        /\ W \subseteq BetweenAwards => Cardinality(W) <= Cardinality(BetweenAwards)
        /\ W \subseteq BetweenAwards \cup {p} => Cardinality(W) <= Cardinality(BetweenAwards) + 1
        /\ p \notin W /\ W \cup {p} \subseteq BetweenAwards
             => Cardinality(W) + 1 <= Cardinality(BetweenAwards)
    BY <1>8, ByOne
  <2> QED
    BY <1>5, <1>9, <2>1, <2>2, <2>3
<1>11. toReferrer' <= Cardinality(B) + Cardinality(D)
  <2>1. toReferrer <= Cardinality(ByReferral) + Cardinality(ByDisturbed)
    BY DEF PayInv, Awarded
  <2>2. /\ Cardinality(B) \in Nat /\ Cardinality(ByReferral) \in Nat
        /\ ByReferral \subseteq B => Cardinality(ByReferral) <= Cardinality(B)
        /\ ByReferral \subseteq B \cup {payer[p]} => Cardinality(ByReferral) <= Cardinality(B) + 1
        /\ payer[p] \notin ByReferral /\ ByReferral \cup {payer[p]} \subseteq B
             => Cardinality(ByReferral) + 1 <= Cardinality(B)
    BY <1>8, ByOne
  <2>3. /\ Cardinality(D) \in Nat /\ Cardinality(ByDisturbed) \in Nat
        /\ ByDisturbed \subseteq D => Cardinality(ByDisturbed) <= Cardinality(D)
        /\ p \notin ByDisturbed /\ ByDisturbed \cup {p} \subseteq D
             => Cardinality(ByDisturbed) + 1 <= Cardinality(D)
    BY <1>8, ByOne
  <2> QED
    BY <1>6, <1>9, <2>1, <2>2, <2>3
<1>12. ASSUME NEW b \in Referred PROVE toReferred'[b] <= OfReferral(b)' + Cardinality(OfDisturbed(b))'
  <2>1. PICK E : E = OfDisturbed(b)'
    OBVIOUS
  <2>2. toReferred[b] <= OfReferral(b) + Cardinality(OfDisturbed(b))
    BY DEF PayInv, Awarded
  <2>3. /\ Cardinality(E) \in Nat /\ Cardinality(OfDisturbed(b)) \in Nat
        /\ OfDisturbed(b) \subseteq E => Cardinality(OfDisturbed(b)) <= Cardinality(E)
        /\ p \notin OfDisturbed(b) /\ OfDisturbed(b) \cup {p} \subseteq E
             => Cardinality(OfDisturbed(b)) + 1 <= Cardinality(E)
    BY <1>8, <2>1, ByOne
  <2>4. PICK g \in 0..1, h \in 0..1 : g = OfReferral(b) /\ h = OfReferral(b)'
    BY DEF OfReferral
  <2>5. toReferred[b] \in Nat /\ toReferred'[b] = toReferred[b] + 0
    BY <1>9 DEF ReferralTypeOK
  <2>6. toReferred[b] + 0 <= h + Cardinality(E)
    BY <1>7, <2>1, <2>2, <2>3, <2>4, <2>5
  <2> QED
    BY <2>1, <2>4, <2>5, <2>6
<1>13. Awarded'
  BY <1>4, <1>10, <1>11, <1>12 DEF Awarded
<1> QED
  BY <1>1, <1>2, <1>3, <1>13 DEF PayInv

LEMMA ReferralInvStep ==
  FinitelyMany /\ ReferralTypeOK /\ CodeInv /\ PayInv /\ [ReferralNext]_referralVars
    => ReferralTypeOK' /\ CodeInv' /\ PayInv'
<1> SUFFICES ASSUME FinitelyMany, ReferralTypeOK, CodeInv, PayInv, [ReferralNext]_referralVars
             PROVE  ReferralTypeOK' /\ CodeInv' /\ PayInv'
  OBVIOUS
<1>1. CASE UNCHANGED referralVars
  <2> USE <1>1 DEF referralVars
  <2>1. ReferralTypeOK'
    BY DEF codeVars, inviteVars, trackVars, payVars, ReferralTypeOK
  <2>2. CodeInv'
    BY CodeInvApart
  <2>3. PayInv'
    BY PayInvApart DEF trackVars
  <2> QED
    BY <2>1, <2>2, <2>3
<1>2. ASSUME NEW v \in Visits, VisitStep(v) PROVE ReferralTypeOK' /\ CodeInv' /\ PayInv'
  <2>1. UNCHANGED <<payVars, referral, registration>>
    BY <1>2 DEF VisitStep, AskCode, AskStats, Invite, Arrive, ReadCode, WriteCode, MarkInvited, QueueInvite,
                VisitFails, trackVars
  <2>2. PayInv'
    BY <2>1, PayInvApart
  <2> QED
    BY <1>2, <2>2, AskCodeKeeps, AskStatsKeeps, InviteKeeps, ReadCodeKeeps, WriteCodeKeeps, MarkInvitedKeeps,
       QueueInviteKeeps, VisitFailsKeeps, Zenon DEF VisitStep
<1>3. ASSUME NEW b \in Referred, TrackStep(b) PROVE ReferralTypeOK' /\ CodeInv' /\ PayInv'
  BY <1>3, ReferKeeps, ReferKeepsPay, CreateReferralKeeps, Zenon DEF TrackStep
<1>4. ASSUME NEW p \in Payments, PayStep(p) PROVE ReferralTypeOK' /\ CodeInv' /\ PayInv'
  <2>1. /\ UNCHANGED <<codeVars, inviteVars, trackVars>>
        /\ \A b \in Referred : referral[b] # "none" => referral'[b] # "none"
    BY <1>4 DEF PayStep, Pay, FindPending, AwardReferrer, AwardReferred, CompleteReferral, PaymentFails,
                ReferralTypeOK
  <2>2. CodeInv'
    BY <2>1, CodeInvApart
  <2> QED
    BY <1>4, <2>2, PayKeeps, FindPendingKeeps, AwardReferrerKeeps, AwardReferredKeeps, CompleteReferralKeeps,
       PaymentFailsKeeps, Zenon DEF PayStep
<1>5. CASE CooldownEnds
  <2>1. PayInv'
    BY <1>5, PayInvApart DEF CooldownEnds, trackVars
  <2> QED
    BY <1>5, <2>1, CooldownKeeps
<1> QED
  BY <1>1, <1>2, <1>3, <1>4, <1>5 DEF ReferralNext

\* In every order of visits, mails, registrations and payments, a code that was
\* handed out tracks, an address is invited once in a cooldown, and a referral
\* is rewarded to both sides, once, unless visits overlapped or payments were
\* disturbed.  The awards are counted over finitely many companies and payments.
THEOREM ReferralsKept ==
  ASSUME IsFiniteSet(Referred), IsFiniteSet(Payments)
  PROVE  ReferralSpec => []ReferralsSound
<1>0. FinitelyMany
  BY DEF FinitelyMany
<1>1. ReferralTypeOK /\ CodeInv /\ PayInv => ReferralsSound
  <2> SUFFICES ASSUME ReferralTypeOK, CodeInv, PayInv PROVE ReferralsSound
    OBVIOUS
  <2>1. OneInvitePerCooldown
    <3> SUFFICES ASSUME mails > 1 PROVE Cardinality(rivals \cap inviting) > 1
      BY DEF OneInvitePerCooldown
    <3>1. PICK v, w \in inviting \cap rivals : v # w
      BY DEF CodeInv, Invited
    <3>2. IsFiniteSet(rivals \cap inviting)
      BY FS_Intersection DEF CodeInv, Invited
    <3>3. {v} \cup {w} \subseteq rivals \cap inviting /\ w \notin {v}
      BY <3>1
    <3>4. IsFiniteSet({v}) /\ Cardinality({v}) = 1
      BY FS_Singleton
    <3>5. Cardinality({v}) + 1 <= Cardinality(rivals \cap inviting)
      BY <3>2, <3>3, <3>4, ByOne
    <3> QED
      BY <3>2, <3>4, <3>5, FS_CardinalityType
  <2>2. /\ IsFiniteSet(Completed) /\ IsFiniteSet(BetweenAwards)
        /\ IsFiniteSet(ByReferral) /\ IsFiniteSet(ByDisturbed) /\ IsFiniteSet(disturbed)
        /\ \A b \in Referred : IsFiniteSet(OfDisturbed(b))
    BY <1>0, ChargesFinite
  <2>3. CompletedPaidBoth
    <3>1. Cardinality(Completed) <= toReferrer
      BY <2>2, FS_CardinalityType DEF PayInv, Awarded, ReferralTypeOK
    <3> QED
      BY <3>1 DEF PayInv, Enrolled, CompletedPaidBoth, Completed
  <2>4. toReferrer <= Cardinality({b \in Referred : referral[b] # "none"}) + Cardinality(disturbed)
    <3> DEFINE Begun == {b \in Referred : referral[b] # "none"}
    <3>1. ByReferral \subseteq Begun /\ ByDisturbed \subseteq disturbed
      BY DEF ByReferral, ByDisturbed, At, PayInv, Enrolled
    <3>2. IsFiniteSet(Begun)
      BY <1>0, FS_Subset DEF FinitelyMany
    <3>3. /\ Cardinality(ByReferral) <= Cardinality(Begun) /\ Cardinality(ByDisturbed) <= Cardinality(disturbed)
          /\ Cardinality(ByReferral) \in Nat /\ Cardinality(Begun) \in Nat
          /\ Cardinality(ByDisturbed) \in Nat /\ Cardinality(disturbed) \in Nat
      BY <2>2, <3>1, <3>2, ByOne
    <3> HIDE DEF Begun
    <3>4. toReferrer <= Cardinality(Begun) + Cardinality(disturbed)
      BY <3>3 DEF PayInv, Awarded, ReferralTypeOK
    <3> QED
      BY <3>4 DEF Begun
  <2>5. ASSUME NEW b \in Referred PROVE toReferred[b] <= 1 + Cardinality({p \in disturbed : payer[p] = b})
    <3> DEFINE Late == {p \in disturbed : payer[p] = b}
    <3>1. OfDisturbed(b) \subseteq Late
      BY DEF OfDisturbed
    <3>2. IsFiniteSet(Late)
      BY <2>2, FS_Subset
    <3>3. /\ Cardinality(OfDisturbed(b)) <= Cardinality(Late)
          /\ Cardinality(OfDisturbed(b)) \in Nat /\ Cardinality(Late) \in Nat
      BY <2>2, <3>1, <3>2, ByOne
    <3> HIDE DEF Late
    <3>4. PICK g \in 0..1 : g = OfReferral(b)
      BY DEF OfReferral
    <3>5. toReferred[b] <= g + Cardinality(OfDisturbed(b)) /\ toReferred[b] \in Nat
      BY <3>4 DEF PayInv, Awarded, ReferralTypeOK
    <3>6. toReferred[b] <= 1 + Cardinality(Late)
      BY <3>3, <3>5
    <3> QED
      BY <3>6 DEF Late
  <2> QED
    BY <2>1, <2>3, <2>4, <2>5 DEF ReferralsSound, CodeInv, CodesTracked, RewardedOnceUnlessDisturbed
<1>2. ReferralInit => ReferralTypeOK /\ CodeInv /\ PayInv
  BY ReferralInvInit
<1>3. ReferralTypeOK /\ CodeInv /\ PayInv /\ [ReferralNext]_referralVars
        => ReferralTypeOK' /\ CodeInv' /\ PayInv'
  BY <1>0, ReferralInvStep
<1> QED
  BY <1>1, <1>2, <1>3, PTL DEF ReferralSpec

-----------------------------------------------------------------------------
(* The registry of a user's sockets.  A socket that leaves is down, and has *)
(* its hash until it is removed (Leaves); as long as no socket connects in  *)
(* the middle of an unlisting, the user's set holds every socket with a     *)
(* hash (Counted), so that who counts one socket is the last (Reached).     *)
(* Two removals past their counts have seen each other, and one that goes   *)
(* as one of several leaves another behind (Noticed), so that only a        *)
(* cleaner still at work leaves an empty set listed (Emptied).              *)

Leaves(s) == /\ removal[s] # "no" => link[s] = "down"
             /\ removal[s] = "count" => s \in clientHash \cup aged

Counted ==
  /\ IsFiniteSet(userClients)
  /\ aged = {} => Connected \subseteq clientHash
  /\ lateComers = {} => /\ clientHash \subseteq userClients
                        /\ \A k \in Cleaners : cleaning[k] = "wipe" => userClients = {}

Reached ==
  lateComers = {} /\ aged = {} /\ redisFaults = 0 =>
    /\ Connected # {} => listed
    /\ \A s \in Sockets : removal[s] = "last" => Connected = {}

Blurred == missed \/ redisFaults > 0

Noticed ==
  \A s \in Sockets :
    /\ removal[s] = "other" => Blurred \/ ~listed \/ userClients \ {s} # {}
    /\ \A t \in Sockets :
         removal[s] \in {"last", "other"} /\ removal[t] \in {"last", "other"} => Blurred \/ s = t

Emptied == userClients = {} /\ listed => Blurred \/ \E k \in Cleaners : cleaning[k] # "idle"

RegistryInv == (\A s \in Sockets : Leaves(s)) /\ Counted /\ Reached /\ Noticed /\ Emptied

LEMMA RegistryInvInit == RegistryInit => RegistryTypeOK /\ RegistryInv
<1> SUFFICES ASSUME RegistryInit PROVE RegistryTypeOK /\ RegistryInv
  OBVIOUS
<1>1. 0 \in 0..MaxRedisFaults /\ 0 \in 0..MaxInstanceCrashes
  BY RegistryAssumption
<1>2. RegistryTypeOK
  BY <1>1 DEF RegistryInit, RegistryTypeOK
<1>3. Counted
  BY FS_EmptySet DEF RegistryInit, Counted, Connected
<1> QED
  BY <1>2, <1>3 DEF RegistryInit, RegistryInv, Leaves, Reached, Noticed, Emptied, Connected

\* A set with at most one member is the one that is known to be in it.
LEMMA OneClient ==
  ASSUME IsFiniteSet(userClients), NEW s
  PROVE  /\ Cardinality(userClients) <= 1 /\ s \in userClients => userClients = {s}
         /\ ~(Cardinality(userClients) <= 1) => userClients \ {s} # {}
<1>1. Cardinality(userClients) \in Nat
  BY FS_CardinalityType
<1>2. ASSUME Cardinality(userClients) <= 1, s \in userClients PROVE userClients = {s}
  <2>1. Cardinality(userClients) = 1
    BY <1>1, <1>2, FS_EmptySet
  <2>2. PICK x : userClients = {x}
    BY <2>1, FS_Singleton
  <2> QED
    BY <1>2, <2>2
<1>3. ASSUME ~(Cardinality(userClients) <= 1) PROVE userClients \ {s} # {}
  <2> SUFFICES ASSUME userClients \subseteq {s} PROVE FALSE
    OBVIOUS
  <2>1. userClients = {} \/ userClients = {s}
    OBVIOUS
  <2>2. Cardinality({s}) = 1 /\ Cardinality({}) = 0
    BY FS_EmptySet, FS_Singleton
  <2> QED
    BY <1>3, <2>1, <2>2
<1> QED
  BY <1>2, <1>3

\* A socket that connects while the user is being unlisted is a latecomer.
LEMMA ConnectKeeps ==
  ASSUME RegistryTypeOK, RegistryInv, NEW s \in Sockets, Connect(s)
  PROVE  RegistryTypeOK' /\ RegistryInv'
<1> USE RegistryAssumption DEF Connect, Proceed, Clean, records, cleaners, past
<1>1. RegistryTypeOK'
  BY DEF RegistryTypeOK
<1>2. \A x \in Sockets : Leaves(x)'
  BY DEF RegistryTypeOK, RegistryInv, Leaves
<1>3. Counted'
  BY FS_AddElement DEF RegistryTypeOK, RegistryInv, Leaves, Counted, Connected, Unlisting
<1>4. Reached'
  BY DEF RegistryTypeOK, RegistryInv, Leaves, Counted, Reached, Connected, Unlisting
<1>5. Noticed'
  BY DEF RegistryTypeOK, RegistryInv, Leaves, Counted, Noticed, Blurred
<1>6. Emptied'
  BY DEF RegistryTypeOK, RegistryInv, Noticed, Emptied, Blurred
<1> QED
  BY <1>1, <1>2, <1>3, <1>4, <1>5, <1>6 DEF RegistryInv

\* A socket that goes starts its removal.
LEMMA DisconnectKeeps ==
  ASSUME RegistryTypeOK, RegistryInv, NEW s \in Sockets, Disconnect(s)
  PROVE  RegistryTypeOK' /\ RegistryInv'
<1> USE RegistryAssumption DEF Disconnect, Proceed, Clean, records, cleaners, past
<1>1. RegistryTypeOK'
  BY DEF RegistryTypeOK
<1>2. \A x \in Sockets : Leaves(x)'
  BY DEF RegistryTypeOK, RegistryInv, Leaves
<1>3. Counted'
  BY DEF RegistryTypeOK, RegistryInv, Leaves, Counted, Connected, Unlisting
<1>4. Reached'
  BY DEF RegistryTypeOK, RegistryInv, Leaves, Counted, Reached, Connected, Unlisting
<1>5. Noticed'
  BY DEF RegistryTypeOK, RegistryInv, Leaves, Counted, Noticed, Blurred
<1>6. Emptied'
  BY DEF RegistryTypeOK, RegistryInv, Noticed, Emptied, Blurred
<1> QED
  BY <1>1, <1>2, <1>3, <1>4, <1>5, <1>6 DEF RegistryInv

\* A removal goes on for a socket that has its hash.
LEMMA ReadInfoKeeps ==
  ASSUME RegistryTypeOK, RegistryInv, NEW s \in Sockets, ReadInfo(s)
  PROVE  RegistryTypeOK' /\ RegistryInv'
<1> USE RegistryAssumption DEF ReadInfo, Proceed, Clean, records, cleaners, past
<1>1. RegistryTypeOK'
  BY DEF RegistryTypeOK
<1>2. \A x \in Sockets : Leaves(x)'
  BY DEF RegistryTypeOK, RegistryInv, Leaves
<1>3. Counted'
  BY DEF RegistryTypeOK, RegistryInv, Leaves, Counted, Connected, Unlisting
<1>4. Reached'
  BY DEF RegistryTypeOK, RegistryInv, Leaves, Counted, Reached, Connected, Unlisting
<1>5. Noticed'
  BY DEF RegistryTypeOK, RegistryInv, Leaves, Counted, Noticed, Blurred
<1>6. Emptied'
  BY DEF RegistryTypeOK, RegistryInv, Noticed, Emptied, Blurred
<1> QED
  BY <1>1, <1>2, <1>3, <1>4, <1>5, <1>6 DEF RegistryInv

\* Who counts one socket counts itself: nobody is connected.
LEMMA CountClientsKeeps ==
  ASSUME RegistryTypeOK, RegistryInv, NEW s \in Sockets, CountClients(s)
  PROVE  RegistryTypeOK' /\ RegistryInv'
<1> USE RegistryAssumption DEF CountClients, Proceed, Clean, records, cleaners, past
<1>1. RegistryTypeOK'
  BY DEF RegistryTypeOK
<1>2. \A x \in Sockets : Leaves(x)'
  BY DEF RegistryTypeOK, RegistryInv, Leaves
<1>3. Counted'
  BY OneClient DEF RegistryTypeOK, RegistryInv, Leaves, Counted, Connected, Unlisting
<1>4. Reached'
  BY OneClient DEF RegistryTypeOK, RegistryInv, Leaves, Counted, Reached, Connected, Unlisting
<1>5. Noticed'
  BY OneClient DEF RegistryTypeOK, RegistryInv, Leaves, Counted, Noticed, Blurred
<1>6. Emptied'
  BY DEF RegistryTypeOK, RegistryInv, Noticed, Emptied, Blurred
<1> QED
  BY <1>1, <1>2, <1>3, <1>4, <1>5, <1>6 DEF RegistryInv

\* A count that failed is in the faults.
LEMMA RemovalFailsKeeps ==
  ASSUME RegistryTypeOK, RegistryInv, NEW s \in Sockets, RemovalFails(s)
  PROVE  RegistryTypeOK' /\ RegistryInv'
<1> USE RegistryAssumption DEF RemovalFails, Proceed, Clean, records, cleaners, past
<1>1. RegistryTypeOK'
  BY DEF RegistryTypeOK
<1>2. \A x \in Sockets : Leaves(x)'
  BY DEF RegistryTypeOK, RegistryInv, Leaves
<1>3. Counted'
  BY DEF RegistryTypeOK, RegistryInv, Leaves, Counted, Connected, Unlisting
<1>4. Reached'
  BY DEF RegistryTypeOK, RegistryInv, Leaves, Counted, Reached, Connected, Unlisting
<1>5. Noticed'
  BY DEF RegistryTypeOK, RegistryInv, Leaves, Counted, Noticed, Blurred
<1>6. Emptied'
  BY DEF RegistryTypeOK, RegistryInv, Noticed, Emptied, Blurred
<1> QED
  BY <1>1, <1>2, <1>3, <1>4, <1>5, <1>6 DEF RegistryInv

\* The last takes the user off; another leaves somebody in the set.
LEMMA RemoveKeeps ==
  ASSUME RegistryTypeOK, RegistryInv, NEW s \in Sockets, Remove(s)
  PROVE  RegistryTypeOK' /\ RegistryInv'
<1> USE RegistryAssumption DEF Remove, Proceed, Clean, records, cleaners, past
<1>1. RegistryTypeOK'
  BY DEF RegistryTypeOK
<1>2. \A x \in Sockets : Leaves(x)'
  BY DEF RegistryTypeOK, RegistryInv, Leaves
<1>3. Counted'
  BY FS_RemoveElement DEF RegistryTypeOK, RegistryInv, Leaves, Counted, Connected, Unlisting
<1>4. Reached'
  BY DEF RegistryTypeOK, RegistryInv, Leaves, Counted, Reached, Connected, Unlisting
<1>5. Noticed'
  BY DEF RegistryTypeOK, RegistryInv, Leaves, Counted, Noticed, Blurred
<1>6. Emptied'
  BY DEF RegistryTypeOK, RegistryInv, Noticed, Emptied, Blurred
<1> QED
  BY <1>1, <1>2, <1>3, <1>4, <1>5, <1>6 DEF RegistryInv

\* A hash that expired has aged.
LEMMA HashExpiresKeeps ==
  ASSUME RegistryTypeOK, RegistryInv, NEW s \in Sockets, HashExpires(s)
  PROVE  RegistryTypeOK' /\ RegistryInv'
<1> USE RegistryAssumption DEF HashExpires, Proceed, Clean, records, cleaners, past
<1>1. RegistryTypeOK'
  BY DEF RegistryTypeOK
<1>2. \A x \in Sockets : Leaves(x)'
  BY DEF RegistryTypeOK, RegistryInv, Leaves
<1>3. Counted'
  BY DEF RegistryTypeOK, RegistryInv, Leaves, Counted, Connected, Unlisting
<1>4. Reached'
  BY DEF RegistryTypeOK, RegistryInv, Leaves, Counted, Reached, Connected, Unlisting
<1>5. Noticed'
  BY DEF RegistryTypeOK, RegistryInv, Leaves, Counted, Noticed, Blurred
<1>6. Emptied'
  BY DEF RegistryTypeOK, RegistryInv, Noticed, Emptied, Blurred
<1> QED
  BY <1>1, <1>2, <1>3, <1>4, <1>5, <1>6 DEF RegistryInv

\* The cleanup begins with a set.
LEMMA CleanStartKeeps ==
  ASSUME RegistryTypeOK, RegistryInv, NEW k \in Cleaners, CleanStart(k)
  PROVE  RegistryTypeOK' /\ RegistryInv'
<1> USE RegistryAssumption DEF CleanStart, Proceed, Clean, records, cleaners, past
<1>1. RegistryTypeOK'
  BY DEF RegistryTypeOK
<1>2. \A x \in Sockets : Leaves(x)'
  BY DEF RegistryTypeOK, RegistryInv, Leaves
<1>3. Counted'
  BY DEF RegistryTypeOK, RegistryInv, Leaves, Counted, Connected, Unlisting
<1>4. Reached'
  BY DEF RegistryTypeOK, RegistryInv, Leaves, Counted, Reached, Connected, Unlisting
<1>5. Noticed'
  BY DEF RegistryTypeOK, RegistryInv, Leaves, Counted, Noticed, Blurred
<1>6. Emptied'
  BY DEF RegistryTypeOK, RegistryInv, Noticed, Emptied, Blurred
<1> QED
  BY <1>1, <1>2, <1>3, <1>4, <1>5, <1>6 DEF RegistryInv

\* A socket without a hash is not connected.
LEMMA CleanSocketKeeps ==
  ASSUME RegistryTypeOK, RegistryInv, NEW k \in Cleaners, NEW s \in Sockets, CleanSocket(k, s)
  PROVE  RegistryTypeOK' /\ RegistryInv'
<1> USE RegistryAssumption DEF CleanSocket, Proceed, Clean, records, cleaners, past
<1>1. RegistryTypeOK'
  BY DEF RegistryTypeOK
<1>2. \A x \in Sockets : Leaves(x)'
  BY DEF RegistryTypeOK, RegistryInv, Leaves
<1>3. Counted'
  BY FS_RemoveElement DEF RegistryTypeOK, RegistryInv, Leaves, Counted, Connected, Unlisting
<1>4. Reached'
  BY DEF RegistryTypeOK, RegistryInv, Leaves, Counted, Reached, Connected, Unlisting
<1>5. Noticed'
  BY DEF RegistryTypeOK, RegistryInv, Leaves, Counted, Noticed, Blurred
<1>6. Emptied'
  BY DEF RegistryTypeOK, RegistryInv, Noticed, Emptied, Blurred
<1> QED
  BY <1>1, <1>2, <1>3, <1>4, <1>5, <1>6 DEF RegistryInv

\* Only an empty set is wiped.
LEMMA CleanCountKeeps ==
  ASSUME RegistryTypeOK, RegistryInv, NEW k \in Cleaners, CleanCount(k)
  PROVE  RegistryTypeOK' /\ RegistryInv'
<1> USE RegistryAssumption DEF CleanCount, Proceed, Clean, records, cleaners, past
<1>1. RegistryTypeOK'
  BY DEF RegistryTypeOK
<1>2. \A x \in Sockets : Leaves(x)'
  BY DEF RegistryTypeOK, RegistryInv, Leaves
<1>3. Counted'
  BY DEF RegistryTypeOK, RegistryInv, Leaves, Counted, Connected, Unlisting
<1>4. Reached'
  BY DEF RegistryTypeOK, RegistryInv, Leaves, Counted, Reached, Connected, Unlisting
<1>5. Noticed'
  BY DEF RegistryTypeOK, RegistryInv, Leaves, Counted, Noticed, Blurred
<1>6. Emptied'
  BY DEF RegistryTypeOK, RegistryInv, Noticed, Emptied, Blurred
<1> QED
  BY <1>1, <1>2, <1>3, <1>4, <1>5, <1>6 DEF RegistryInv

\* A set that was filled meanwhile was filled by latecomers.
LEMMA CleanWipeKeeps ==
  ASSUME RegistryTypeOK, RegistryInv, NEW k \in Cleaners, CleanWipe(k)
  PROVE  RegistryTypeOK' /\ RegistryInv'
<1> USE RegistryAssumption DEF CleanWipe, Proceed, Clean, records, cleaners, past
<1>1. RegistryTypeOK'
  BY DEF RegistryTypeOK
<1>2. \A x \in Sockets : Leaves(x)'
  BY DEF RegistryTypeOK, RegistryInv, Leaves
<1>3. Counted'
  BY FS_EmptySet DEF RegistryTypeOK, RegistryInv, Leaves, Counted, Connected, Unlisting
<1>4. Reached'
  BY DEF RegistryTypeOK, RegistryInv, Leaves, Counted, Reached, Connected, Unlisting
<1>5. Noticed'
  BY DEF RegistryTypeOK, RegistryInv, Leaves, Counted, Noticed, Blurred
<1>6. Emptied'
  BY DEF RegistryTypeOK, RegistryInv, Noticed, Emptied, Blurred
<1> QED
  BY <1>1, <1>2, <1>3, <1>4, <1>5, <1>6 DEF RegistryInv

\* A crash cuts removals short, and leaves the records.
LEMMA InstanceCrashKeeps ==
  ASSUME RegistryTypeOK, RegistryInv, NEW S \in SUBSET Sockets, InstanceCrash(S)
  PROVE  RegistryTypeOK' /\ RegistryInv'
<1> USE RegistryAssumption DEF InstanceCrash, Proceed, Clean, records, cleaners, past
<1>1. RegistryTypeOK'
  BY DEF RegistryTypeOK
<1>2. \A x \in Sockets : Leaves(x)'
  BY DEF RegistryTypeOK, RegistryInv, Leaves
<1>3. Counted'
  BY DEF RegistryTypeOK, RegistryInv, Leaves, Counted, Connected, Unlisting
<1>4. Reached'
  BY DEF RegistryTypeOK, RegistryInv, Leaves, Counted, Reached, Connected, Unlisting
<1>5. Noticed'
  BY DEF RegistryTypeOK, RegistryInv, Leaves, Counted, Noticed, Blurred
<1>6. Emptied'
  BY DEF RegistryTypeOK, RegistryInv, Noticed, Emptied, Blurred
<1> QED
  BY <1>1, <1>2, <1>3, <1>4, <1>5, <1>6 DEF RegistryInv

\* A set expires once its sockets have aged.
LEMMA SetsExpireKeeps ==
  ASSUME RegistryTypeOK, RegistryInv, SetsExpire
  PROVE  RegistryTypeOK' /\ RegistryInv'
<1> USE RegistryAssumption DEF SetsExpire, Proceed, Clean, records, cleaners, past
<1>1. RegistryTypeOK'
  BY DEF RegistryTypeOK
<1>2. \A x \in Sockets : Leaves(x)'
  BY DEF RegistryTypeOK, RegistryInv, Leaves
<1>3. Counted'
  BY FS_EmptySet DEF RegistryTypeOK, RegistryInv, Leaves, Counted, Connected, Unlisting
<1>4. Reached'
  BY DEF RegistryTypeOK, RegistryInv, Leaves, Counted, Reached, Connected, Unlisting
<1>5. Noticed'
  BY DEF RegistryTypeOK, RegistryInv, Leaves, Counted, Noticed, Blurred
<1>6. Emptied'
  BY DEF RegistryTypeOK, RegistryInv, Noticed, Emptied, Blurred
<1> QED
  BY <1>1, <1>2, <1>3, <1>4, <1>5, <1>6 DEF RegistryInv

LEMMA RegistryInvStep ==
  RegistryTypeOK /\ RegistryInv /\ [RegistryNext]_registryVars => RegistryTypeOK' /\ RegistryInv'
<1> SUFFICES ASSUME RegistryTypeOK, RegistryInv, [RegistryNext]_registryVars
             PROVE  RegistryTypeOK' /\ RegistryInv'
  OBVIOUS
<1>1. CASE UNCHANGED registryVars
  BY <1>1, SMT DEF registryVars, records, cleaners, past, RegistryTypeOK, RegistryInv, Leaves, Counted,
                   Reached, Noticed, Emptied, Blurred, Connected
<1> QED
  BY <1>1, ConnectKeeps, DisconnectKeeps, ReadInfoKeeps, CountClientsKeeps, RemovalFailsKeeps, RemoveKeeps,
     HashExpiresKeeps, CleanStartKeeps, CleanSocketKeeps, CleanCountKeeps, CleanWipeKeeps,
     InstanceCrashKeeps, SetsExpireKeeps, Zenon DEF RegistryNext, SocketStep, CleanerStep

\* Whatever connects, leaves, crashes, expires or is cleaned at the same time,
\* a connected user is reached and counted, and one who left is unlisted, the
\* exceptions that the properties name apart.
THEOREM RegistryKept == RegistrySpec => []RegistrySound
<1>1. RegistryTypeOK /\ RegistryInv => RegistrySound
  BY DEF RegistryInv, Counted, Reached, Emptied, Blurred, RegistrySound, RegistryTypeOK,
         ConnectedIsReached, ConnectedIsCounted, GoneIsUnlisted
<1> QED
  BY <1>1, RegistryInvInit, RegistryInvStep, PTL DEF RegistrySpec

-----------------------------------------------------------------------------
(* The presence of a user.  While nothing disturbs it, the value holds the  *)
(* sockets that are connected and written, and nobody else than sockets     *)
(* whose setUserOffline is under way (Follows).                             *)

OffTheBooks == overwritten \/ sweptOff \/ instancesLost > 0

\* No key means no sockets, in Redis and in what a call has read; and a sweep
\* writes only what it has found to be due.
Unknown == /\ ~presence.known => presence.sockets = {}
           /\ \A c \in Calls : /\ ~seen[c].known => seen[c].sockets = {}
                               /\ call[c] = "write" /\ c[1] = "sweep" => SweepDue(seen[c])

Joining(s) == call[<<"join", s>>] # "idle"
Leaving(s) == call[<<"leave", s>>] # "idle"

Follows(s) ==
  /\ Joining(s) => linked[s] = "up"
  /\ Leaving(s) => linked[s] = "down"
  /\ linked[s] = "up" => Joining(s) \/ s \in presence.sockets
  /\ s \in presence.sockets => Leaving(s) \/ (linked[s] = "up" /\ ~Joining(s))

PresenceInv == Unknown /\ (OffTheBooks \/ \A s \in Connections : Follows(s))

LEMMA PresenceInvInit == PresenceInit => PresenceTypeOK /\ PresenceInv
<1> SUFFICES ASSUME PresenceInit PROVE PresenceTypeOK /\ PresenceInv
  OBVIOUS
<1>1. 0 \in 0..MaxPresenceCrashes
  BY PresenceAssumption
<1>2. NoValue \in Values
  BY DEF NoValue, Values, Statuses, Ages
<1>3. PresenceTypeOK
  BY <1>1, <1>2 DEF PresenceInit, PresenceTypeOK
<1>4. Unknown
  BY DEF PresenceInit, Unknown, NoValue
<1>5. \A s \in Connections : Follows(s)
  BY DEF PresenceInit, Follows, Joining, Leaving, NoValue, Calls
<1> QED
  BY <1>3, <1>4, <1>5 DEF PresenceInv

\* A connection or a disconnection begins a call of its own socket.
LEMMA LinkKeeps ==
  ASSUME PresenceTypeOK, PresenceInv, NEW s \in Connections, Join(s) \/ Leave(s)
  PROVE  PresenceTypeOK' /\ PresenceInv'
<1> USE DEF Join, Leave, Begin
<1>0. <<"join", s>> \in Calls /\ <<"leave", s>> \in Calls
  BY DEF Calls
<1>1. PresenceTypeOK'
  BY <1>0 DEF PresenceTypeOK
<1>2. Unknown'
  BY DEF PresenceTypeOK, PresenceInv, Unknown
<1>3. ASSUME ~OffTheBooks', NEW t \in Connections PROVE Follows(t)'
  <2>1. <<"join", t>> \in Calls /\ <<"leave", t>> \in Calls
    BY DEF Calls
  <2>2. Follows(t) /\ Follows(s)
    BY <1>3 DEF PresenceInv, OffTheBooks
  <2>3. CASE t = s
    BY <1>0, <1>3, <2>2, <2>3 DEF PresenceTypeOK, Follows, Joining, Leaving, OffTheBooks
  <2>4. CASE t # s
    <3>1. Joining(t)' = Joining(t) /\ Leaving(t)' = Leaving(t) /\ linked'[t] = linked[t]
      BY <1>0, <2>1, <2>4 DEF PresenceTypeOK, Joining, Leaving
    <3> QED
      BY <2>2, <3>1 DEF Follows
  <2> QED
    BY <2>3, <2>4
<1> QED
  BY <1>1, <1>2, <1>3 DEF PresenceInv

\* A heartbeat and a sweep begin without a socket of their own.
LEMMA TickKeeps ==
  ASSUME PresenceTypeOK, PresenceInv,
         (\E h \in Beats : Heartbeat(h)) \/ (\E w \in Sweeps : Sweep(w))
  PROVE  PresenceTypeOK' /\ PresenceInv'
<1> USE DEF Heartbeat, Sweep, Begin
<1>1. PresenceTypeOK'
  BY DEF PresenceTypeOK, Calls
<1>2. Unknown'
  BY DEF PresenceTypeOK, PresenceInv, Unknown
<1>3. ASSUME ~OffTheBooks', NEW t \in Connections PROVE Follows(t)'
  <2>1. <<"join", t>> \in Calls /\ <<"leave", t>> \in Calls
    BY DEF Calls
  <2>2. Joining(t)' = Joining(t) /\ Leaving(t)' = Leaving(t)
    BY <2>1 DEF PresenceTypeOK, Joining, Leaving, Calls
  <2> QED
    BY <1>3, <2>2 DEF PresenceInv, OffTheBooks, Follows
<1> QED
  BY <1>1, <1>2, <1>3 DEF PresenceInv

\* Without a value there is nothing to take off.
LEMMA ReadPresenceKeeps ==
  ASSUME PresenceTypeOK, PresenceInv, NEW c \in Calls, ReadPresence(c)
  PROVE  PresenceTypeOK' /\ PresenceInv'
<1> USE DEF ReadPresence
<1>1. PresenceTypeOK'
  BY DEF PresenceTypeOK
<1>2. Unknown'
  BY DEF PresenceTypeOK, PresenceInv, Unknown, Writes
<1>3. ASSUME ~OffTheBooks', NEW t \in Connections PROVE Follows(t)'
  <2>1. Follows(t) /\ Unknown
    BY <1>3 DEF PresenceInv, OffTheBooks
  <2> QED
    BY <2>1 DEF PresenceTypeOK, Unknown, Follows, Joining, Leaving, Calls, Writes
<1> QED
  BY <1>1, <1>2, <1>3 DEF PresenceInv

\* A write that loses nothing adds or takes off its own socket only.
LEMMA WritePresenceKeeps ==
  ASSUME PresenceTypeOK, PresenceInv, NEW c \in Calls, WritePresence(c)
  PROVE  PresenceTypeOK' /\ PresenceInv'
<1> USE DEF WritePresence
<1>0. seen[c] \in Values /\ NoValue \in Values /\ NoValue.sockets = {}
  BY DEF PresenceTypeOK, NoValue, Values, Statuses, Ages
<1>1. PICK p \in Values : p = seen[c]
  BY <1>0
<1>2. /\ c[1] \in {"join", "leave", "beat", "sweep"}
      /\ c[1] \in {"join", "leave"} => c[2] \in Connections
      /\ c = <<c[1], c[2]>>
  BY DEF Calls
<1>3. CASE c[1] = "join"
  <2>1. presence' = Joined(c[2], p)
    BY <1>1, <1>3 DEF Changed
  <2>2. /\ presence' \in Values
        /\ presence'.known /\ presence'.sockets = p.sockets \cup {c[2]}
    BY <1>2, <1>3, <2>1 DEF Joined, Values, Statuses, Ages
  <2>3. PresenceTypeOK' /\ Unknown'
    BY <1>0, <1>3, <2>2 DEF PresenceTypeOK, PresenceInv, Unknown
  <2>4. ASSUME ~OffTheBooks', NEW t \in Connections PROVE Follows(t)'
    <3>1. Follows(t) /\ Follows(c[2]) /\ presence = p /\ c = <<"join", c[2]>>
      BY <1>1, <1>2, <1>3, <2>4 DEF PresenceInv, OffTheBooks
    <3> QED
      BY <1>2, <1>3, <2>2, <3>1 DEF PresenceTypeOK, Follows, Joining, Leaving, Calls
  <2> QED
    BY <2>3, <2>4 DEF PresenceInv
<1>4. CASE c[1] = "leave"
  <2>1. presence' = Left(c[2], p)
    BY <1>1, <1>4 DEF Changed
  <2>2. /\ presence' \in Values
        /\ presence'.known = p.known /\ presence'.sockets = p.sockets \ {c[2]}
    BY <1>2, <1>4, <2>1 DEF Left, Values, Statuses, Ages
  <2>3. PresenceTypeOK' /\ Unknown'
    BY <1>0, <1>1, <1>4, <2>2 DEF PresenceTypeOK, PresenceInv, Unknown
  <2>4. ASSUME ~OffTheBooks', NEW t \in Connections PROVE Follows(t)'
    <3>1. Follows(t) /\ Follows(c[2]) /\ presence = p /\ c = <<"leave", c[2]>>
      BY <1>1, <1>2, <1>4, <2>4 DEF PresenceInv, OffTheBooks
    <3> QED
      BY <1>2, <1>4, <2>2, <3>1 DEF PresenceTypeOK, Follows, Joining, Leaving, Calls
  <2> QED
    BY <2>3, <2>4 DEF PresenceInv
<1>5. CASE c[1] \in {"beat", "sweep"}
  <2>1. presence' = IF c[1] = "beat" THEN Beaten(p) ELSE Swept(p)
    BY <1>1, <1>5 DEF Changed
  <2>2. /\ presence' \in Values /\ presence'.known = p.known
        /\ presence'.sockets = p.sockets \/ (c[1] = "sweep" /\ p.age = "stale" /\ presence'.sockets = {})
    <3>1. CASE c[1] = "beat"
      BY <2>1, <3>1 DEF Beaten, Values, Statuses, Ages
    <3>2. CASE c[1] = "sweep" /\ p.age = "idle"
      BY <2>1, <3>2 DEF Swept, Values, Statuses, Ages
    <3>3. CASE c[1] = "sweep" /\ p.age # "idle"
      <4>1. p.age = "stale"
        BY <1>1, <3>3 DEF PresenceInv, Unknown, SweepDue
      <4>2. presence' = [known |-> p.known, sockets |-> {}, status |-> "offline", age |-> p.age]
        BY <2>1, <3>3 DEF Swept, Values
      <4> QED
        BY <3>3, <4>1, <4>2 DEF Values, Statuses, Ages
    <3> QED
      BY <1>5, <3>1, <3>2, <3>3
  <2>3. PresenceTypeOK' /\ Unknown'
    BY <1>0, <1>1, <1>5, <2>2 DEF PresenceTypeOK, PresenceInv, Unknown
  <2>4. ASSUME ~OffTheBooks', NEW t \in Connections PROVE Follows(t)'
    <3>1. Follows(t) /\ presence = p
      BY <1>1, <2>4 DEF PresenceInv, OffTheBooks
    <3>2. presence'.sockets = presence.sockets \/ (presence'.sockets = {} /\ linked[t] # "up")
      BY <1>1, <2>2, <2>4, <3>1 DEF OffTheBooks, Up
    <3> QED
      BY <1>5, <3>1, <3>2 DEF PresenceTypeOK, Follows, Joining, Leaving, Calls
  <2> QED
    BY <2>3, <2>4 DEF PresenceInv
<1> QED
  BY <1>2, <1>3, <1>4, <1>5

\* Time passes while no call is under way.
LEMMA TimeKeeps ==
  ASSUME PresenceTypeOK, PresenceInv, TimePasses \/ KeyExpires
  PROVE  PresenceTypeOK' /\ PresenceInv'
<1>0. NoValue \in Values /\ NoValue.sockets = {}
  BY DEF NoValue, Values, Statuses, Ages
<1>1. CASE TimePasses
  <2>1. presence' \in Values /\ presence'.known = presence.known /\ presence'.sockets = presence.sockets
    BY <1>1 DEF TimePasses, Older, PresenceTypeOK, Values, Ages
  <2>2. PresenceTypeOK' /\ Unknown'
    BY <1>1, <2>1 DEF TimePasses, PresenceTypeOK, PresenceInv, Unknown
  <2>3. (OffTheBooks \/ \A s \in Connections : Follows(s))'
    BY <1>1, <2>1 DEF TimePasses, PresenceInv, OffTheBooks, Follows, Joining, Leaving
  <2> QED
    BY <2>2, <2>3 DEF PresenceInv
<1>2. CASE KeyExpires
  <2>1. PresenceTypeOK' /\ Unknown'
    BY <1>0, <1>2 DEF KeyExpires, PresenceTypeOK, PresenceInv, Unknown
  <2>2. ASSUME ~OffTheBooks', NEW s \in Connections PROVE Follows(s)'
    BY <1>0, <1>2, <2>2 DEF KeyExpires, PresenceInv, OffTheBooks, Follows, Joining, Leaving, Up
  <2> QED
    BY <2>1, <2>2 DEF PresenceInv
<1> QED
  BY <1>1, <1>2

\* An instance that dies is what the value does not follow.
LEMMA CrashKeeps ==
  ASSUME PresenceTypeOK, PresenceInv, NEW S \in SUBSET Connections, PresenceCrash(S)
  PROVE  PresenceTypeOK' /\ PresenceInv'
<1> USE DEF PresenceCrash
<1>1. NoValue \in Values /\ NoValue.sockets = {}
  BY DEF NoValue, Values, Statuses, Ages
<1>2. instancesLost' \in 0..MaxPresenceCrashes /\ instancesLost' > 0
  BY PresenceAssumption DEF PresenceTypeOK
<1>3. PresenceTypeOK'
  BY <1>1, <1>2 DEF PresenceTypeOK
<1>4. Unknown'
  BY <1>1 DEF PresenceInv, Unknown
<1> QED
  BY <1>2, <1>3, <1>4 DEF PresenceInv, OffTheBooks

LEMMA PresenceInvStep ==
  PresenceTypeOK /\ PresenceInv /\ [PresenceNext]_presenceVars => PresenceTypeOK' /\ PresenceInv'
<1> SUFFICES ASSUME PresenceTypeOK, PresenceInv, [PresenceNext]_presenceVars
             PROVE  PresenceTypeOK' /\ PresenceInv'
  OBVIOUS
<1>1. CASE UNCHANGED presenceVars
  BY <1>1 DEF presenceVars, PresenceTypeOK, PresenceInv, Unknown, OffTheBooks, Follows, Joining, Leaving
<1> QED
  BY <1>1, LinkKeeps, TickKeeps, ReadPresenceKeeps, WritePresenceKeeps, TimeKeeps, CrashKeeps, Zenon
     DEF PresenceNext

\* Whatever connections, heartbeats and sweeps come together, a presence that
\* no write, sweep, expiry or crash disturbed holds the connected sockets once
\* no call is under way.
THEOREM PresenceKept == PresenceSpec => []PresenceSound
<1>1. PresenceTypeOK /\ PresenceInv => PresenceSound
  <2> SUFFICES ASSUME PresenceTypeOK, PresenceInv, Calm, ~overwritten, ~sweptOff, instancesLost = 0
               PROVE  presence.sockets = Up
    BY DEF PresenceSound, PresenceKnowsSockets
  <2>1. \A s \in Connections : Follows(s) /\ ~Joining(s) /\ ~Leaving(s)
    BY DEF PresenceInv, OffTheBooks, Calm, Joining, Leaving, Calls
  <2>2. presence.sockets \subseteq Connections
    BY DEF PresenceTypeOK, Values
  <2> QED
    BY <2>1, <2>2 DEF Follows, Up
<1> QED
  BY <1>1, PresenceInvInit, PresenceInvStep, PTL DEF PresenceSpec

-----------------------------------------------------------------------------
(* The response cache.  A stored response that nothing exposed is tracked   *)
(* by each of its elements, or about to be (TrackedBy); and once it is not  *)
(* what the handler would answer, a writer is on its way to it (Chased): it *)
(* has yet to find the sets, to read one with the key, or to delete the     *)
(* key it has read.  Versions stay in their bound because each writer hands *)
(* out one.                                                                 *)

TrackedBy(k) ==
  \A x \in ElementsOf(cached[k]) :
    k \in tracked[x] \/ \E r \in Readers : /\ reading[r] = "track" /\ get[r] = k
                                           /\ x \in ElementsOf(body[r])

Chases(w, k) ==
  \/ writing[w] = "find" /\ (w \in byType \/ changing[w] \in ElementsOf(cached[k]))
  \/ writing[w] = "gather" /\ (k \in gathered[w] \/ \E x \in toGather[w] : k \in tracked[x])
  \/ writing[w] = "delete" /\ k \in gathered[w]

Chased(k) == cached[k] = View(k) \/ \E w \in Writers : Chases(w, k)

KeyKept(k) == cached[k] # {} => TrackedBy(k) /\ Chased(k)

HaveWritten == {w \in Writers : writing[w] # "idle"}

CacheInv ==
  /\ version <= 1 + Cardinality(HaveWritten)
  /\ cacheFaults = 0 => \A k \in Keys \ exposed : KeyKept(k)

\* Every response is made of elements in their versions.
LEMMA Responding ==
  ASSUME CacheTypeOK
  PROVE  /\ \A k \in Keys : View(k) \in Responses
         /\ \A k \in Keys : ElementsOf(cached[k]) \subseteq Elements
         /\ \A k \in Keys : cached[k] # {} => ElementsOf(cached[k]) # {}
<1> USE DEF CacheTypeOK, Responses
<1>1. ASSUME NEW k \in Keys PROVE View(k) \in Responses
  BY DEF View
<1>2. ASSUME NEW k \in Keys PROVE ElementsOf(cached[k]) \subseteq Elements
  BY DEF ElementsOf
<1>3. ASSUME NEW k \in Keys, cached[k] # {} PROVE ElementsOf(cached[k]) # {}
  <2>1. PICK e \in cached[k] : TRUE
    BY <1>3
  <2>2. e[1] \in ElementsOf(cached[k])
    BY <2>1 DEF ElementsOf
  <2> QED
    BY <2>2
<1> QED
  BY <1>1, <1>2, <1>3

LEMMA CacheInvInit == IsFiniteSet(Writers) /\ CacheInit => CacheTypeOK /\ CacheInv
<1> SUFFICES ASSUME IsFiniteSet(Writers), CacheInit PROVE CacheTypeOK /\ CacheInv
  OBVIOUS
<1>1. Cardinality(Writers) \in Nat /\ 0 \in 0..MaxCacheFaults
  BY CacheAssumption, FS_CardinalityType
<1>2. {0, 1} \subseteq Versions
  BY <1>1 DEF Versions
<1>3. CacheTypeOK
  BY <1>1, <1>2 DEF CacheInit, CacheTypeOK, Responses
<1>4. HaveWritten = {} /\ Cardinality({}) = 0
  BY FS_EmptySet DEF CacheInit, HaveWritten
<1> QED
  BY <1>3, <1>4 DEF CacheInit, CacheInv, KeyKept

\* A hit changes nothing.
LEMMA LookUpKeeps ==
  ASSUME CacheTypeOK, CacheInv, NEW r \in Readers, LookUp(r)
  PROVE  CacheTypeOK' /\ CacheInv'
<1> USE DEF LookUp, Read, Write, Forget, redis, readers, writers
<1>1. CacheTypeOK'
  BY CacheAssumption, Responding DEF CacheTypeOK, Responses
<1>2. version' = version /\ HaveWritten' = HaveWritten
  BY DEF HaveWritten
<1>3. ASSUME cacheFaults' = 0, NEW k \in Keys \ exposed' PROVE KeyKept(k)'
  <2>1. KeyKept(k) /\ k \in Keys
    BY <1>3, CacheAssumption DEF CacheInv, CacheTypeOK
  <2>2. TrackedBy(k)' \/ cached'[k] = {}
    BY <2>1, Responding DEF CacheTypeOK, KeyKept, TrackedBy, Untracked
  <2>3. Chased(k)' \/ cached'[k] = {}
    BY <2>1, Responding DEF CacheTypeOK, KeyKept, TrackedBy, Chased, Chases, View, There, Untracked
  <2> QED
    BY <2>2, <2>3 DEF KeyKept
<1> QED
  BY <1>1, <1>2, <1>3 DEF CacheInv

\* An answer is not stored yet.
LEMMA HandleKeeps ==
  ASSUME CacheTypeOK, CacheInv, NEW r \in Readers, Handle(r)
  PROVE  CacheTypeOK' /\ CacheInv'
<1> USE DEF Handle, Read, Write, Forget, redis, readers, writers
<1>1. CacheTypeOK'
  BY CacheAssumption, Responding DEF CacheTypeOK, Responses
<1>2. version' = version /\ HaveWritten' = HaveWritten
  BY DEF HaveWritten
<1>3. ASSUME cacheFaults' = 0, NEW k \in Keys \ exposed' PROVE KeyKept(k)'
  <2>1. KeyKept(k) /\ k \in Keys
    BY <1>3, CacheAssumption DEF CacheInv, CacheTypeOK
  <2>2. TrackedBy(k)' \/ cached'[k] = {}
    BY <2>1, Responding DEF CacheTypeOK, KeyKept, TrackedBy, Untracked
  <2>3. Chased(k)' \/ cached'[k] = {}
    BY <2>1, Responding DEF CacheTypeOK, KeyKept, TrackedBy, Chased, Chases, View, There, Untracked
  <2> QED
    BY <2>2, <2>3 DEF KeyKept
<1> QED
  BY <1>1, <1>2, <1>3 DEF CacheInv

\* What is stored unexposed is the present answer, about to be tracked.
LEMMA StoreKeeps ==
  ASSUME CacheTypeOK, CacheInv, NEW r \in Readers, Store(r)
  PROVE  CacheTypeOK' /\ CacheInv'
<1> USE DEF Store, Read, Write, Forget, redis, readers, writers
<1>1. CacheTypeOK'
  BY CacheAssumption, Responding DEF CacheTypeOK, Responses
<1>2. version' = version /\ HaveWritten' = HaveWritten
  BY DEF HaveWritten
<1>3. ASSUME cacheFaults' = 0, NEW k \in Keys \ exposed' PROVE KeyKept(k)'
  <2>1. k # get[r] => KeyKept(k)
    BY <1>3, CacheAssumption DEF CacheInv, CacheTypeOK
  <2>2. CASE k = get[r]
    <3>1. cached'[k] = body[r] /\ body[r] = View(k) /\ View(k)' = View(k)
      BY <1>3, <2>2 DEF CacheTypeOK, View, There
    <3>2. TrackedBy(k)'
      BY <2>2, <3>1 DEF CacheTypeOK, TrackedBy
    <3> QED
      BY <3>1, <3>2 DEF KeyKept, Chased
  <2>3. CASE k # get[r]
    BY <2>1, <2>3 DEF CacheTypeOK, KeyKept, TrackedBy, Chased, Chases, View, There
  <2> QED
    BY <2>2, <2>3
<1> QED
  BY <1>1, <1>2, <1>3 DEF CacheInv

\* The sets of a response's elements hold its key from now on.
LEMMA TrackKeeps ==
  ASSUME CacheTypeOK, CacheInv, NEW r \in Readers, Track(r)
  PROVE  CacheTypeOK' /\ CacheInv'
<1> USE DEF Track, Read, Write, Forget, redis, readers, writers
<1>1. CacheTypeOK'
  BY CacheAssumption, Responding DEF CacheTypeOK, Responses
<1>2. version' = version /\ HaveWritten' = HaveWritten
  BY DEF HaveWritten
<1>3. ASSUME cacheFaults' = 0, NEW k \in Keys \ exposed' PROVE KeyKept(k)'
  <2>1. KeyKept(k) /\ k \in Keys
    BY <1>3, CacheAssumption DEF CacheInv, CacheTypeOK
  <2>2. TrackedBy(k)' \/ cached'[k] = {}
    BY <2>1, Responding DEF CacheTypeOK, KeyKept, TrackedBy, Untracked
  <2>3. Chased(k)' \/ cached'[k] = {}
    BY <2>1, Responding DEF CacheTypeOK, KeyKept, TrackedBy, Chased, Chases, View, There, Untracked
  <2> QED
    BY <2>2, <2>3 DEF KeyKept
<1> QED
  BY <1>1, <1>2, <1>3 DEF CacheInv

\* A failure is counted.
LEMMA ReaderFailsKeeps ==
  ASSUME CacheTypeOK, CacheInv, NEW r \in Readers, ReaderFails(r)
  PROVE  CacheTypeOK' /\ CacheInv'
<1> USE DEF ReaderFails, Read, Write, Forget, redis, readers, writers
<1>1. CacheTypeOK'
  BY CacheAssumption, Responding DEF CacheTypeOK, Responses
<1>2. version' = version /\ HaveWritten' = HaveWritten
  BY DEF HaveWritten
<1>3. ASSUME cacheFaults' = 0, NEW k \in Keys \ exposed' PROVE KeyKept(k)'
  BY <1>3, CacheAssumption DEF CacheTypeOK
<1> QED
  BY <1>1, <1>2, <1>3 DEF CacheInv

\* Each writer hands out one version at most.
LEMMA NextVersion ==
  ASSUME IsFiniteSet(Writers), CacheTypeOK, CacheInv, NEW w \in Writers, writing[w] = "idle",
         HaveWritten' = HaveWritten \cup {w}
  PROVE  /\ version + 1 \in Versions /\ 0 \in Versions
         /\ version + 1 <= 1 + Cardinality(HaveWritten') /\ version <= 1 + Cardinality(HaveWritten')
<1>1. HaveWritten \subseteq Writers /\ w \notin HaveWritten
  BY DEF HaveWritten
<1>2. PICK H : H = HaveWritten'
  OBVIOUS
<1>3. H = HaveWritten \cup {w} /\ H \subseteq Writers
  BY <1>1, <1>2
<1>4. Cardinality(H) = Cardinality(HaveWritten) + 1 /\ Cardinality(H) <= Cardinality(Writers)
  BY <1>1, <1>3, FS_Subset, FS_AddElement
<1>5. Cardinality(HaveWritten) \in Nat /\ Cardinality(Writers) \in Nat
  BY <1>1, FS_Subset, FS_CardinalityType
<1> QED
  BY <1>2, <1>4, <1>5 DEF CacheInv, CacheTypeOK, Versions

\* A write that changes what a response shows is the one that invalidates it:
\* a new element by its type, another by the responses it is in.
LEMMA WriteKeeps ==
  ASSUME IsFiniteSet(Writers), CacheTypeOK, CacheInv, NEW w \in Writers,
         Create(w) \/ Update(w) \/ Delete(w)
  PROVE  CacheTypeOK' /\ CacheInv'
<1> USE DEF Create, Update, Delete, Change, Write, redis, readers
<1>0. HaveWritten' = HaveWritten \cup {w} /\ writing[w] = "idle"
  BY DEF CacheTypeOK, HaveWritten
<1>1. CacheTypeOK'
  <2>1. version + 1 \in Versions /\ 0 \in Versions
    BY <1>0, NextVersion
  <2>2. db' \in [Elements -> Versions] /\ version' \in Versions
    BY <2>1 DEF CacheTypeOK
  <2> QED
    BY <2>2 DEF CacheTypeOK
<1>2. version' <= 1 + Cardinality(HaveWritten')
  BY <1>0, NextVersion
<1>3. /\ writing' = [writing EXCEPT ![w] = "find"] /\ byType \subseteq byType'
      /\ <<cached, tracked, reading, get, body, changing, toGather, gathered, exposed, cacheFaults>>'
           = <<cached, tracked, reading, get, body, changing, toGather, gathered, exposed, cacheFaults>>
      /\ \A x \in Elements \ {changing[w]} : db'[x] = db[x]
      /\ There(changing[w]) \/ w \in byType'
      /\ changing[w] \in Elements
  BY DEF CacheTypeOK
<1>4. ASSUME cacheFaults' = 0, NEW k \in Keys \ exposed', cached[k] # {} PROVE TrackedBy(k)' /\ Chased(k)'
  <2> HIDE DEF Create, Update, Delete, Change
  <2>1. TrackedBy(k) /\ Chased(k)
    BY <1>3, <1>4 DEF CacheInv, KeyKept
  <2>2. TrackedBy(k)'
    BY <1>3, <2>1 DEF TrackedBy
  <2>3. ASSUME NEW v \in Writers, Chases(v, k) PROVE Chases(v, k)'
    <3>1. v # w
      BY <1>0, <2>3 DEF Chases
    <3>2. writing'[v] = writing[v]
      BY <1>3, <3>1 DEF CacheTypeOK
    <3> QED
      BY <1>3, <2>3, <3>2 DEF Chases
  <2>4. CASE w \in byType' \/ changing[w] \in ElementsOf(cached[k])
    <3>1. writing'[w] = "find"
      BY <1>3 DEF CacheTypeOK
    <3> QED
      BY <1>3, <2>2, <2>4, <3>1 DEF Chased, Chases
  <2>5. CASE cached[k] = View(k) /\ ~(w \in byType') /\ changing[w] \notin ElementsOf(cached[k])
    <3>1. <<changing[w], db[changing[w]]>> \notin cached[k]
      BY <2>5 DEF ElementsOf
    <3>2. k \notin {changing[w], ListKey}
      BY <1>3, <2>5, <3>1 DEF View
    <3>3. View(k)' = View(k)
      BY <1>3, <3>2 DEF View, There
    <3> QED
      BY <1>3, <2>2, <2>5, <3>3 DEF Chased
  <2> QED
    BY <2>1, <2>2, <2>3, <2>4, <2>5 DEF Chased
<1> QED
  BY <1>1, <1>2, <1>3, <1>4 DEF CacheInv, KeyKept

\* What is stored is tracked by now, or exposed.
LEMMA FindSetsKeeps ==
  ASSUME CacheTypeOK, CacheInv, NEW w \in Writers, FindSets(w)
  PROVE  CacheTypeOK' /\ CacheInv'
<1> USE DEF FindSets, Read, Write, Forget, redis, readers, writers
<1>1. CacheTypeOK'
  <2>1. Untracked \subseteq Keys
    BY DEF CacheTypeOK, Keys, Untracked
  <2> QED
    BY <2>1 DEF CacheTypeOK, Keys
<1>2. version' = version /\ HaveWritten' = HaveWritten
  BY DEF HaveWritten
<1>3. ASSUME cacheFaults' = 0, NEW k \in Keys \ exposed' PROVE KeyKept(k)'
  <2>1. KeyKept(k) /\ k \in Keys
    BY <1>3, CacheAssumption DEF CacheInv, CacheTypeOK
  <2>2. cached[k] # {} => ElementsOf(cached[k]) \subseteq Elements /\ ElementsOf(cached[k]) # {}
    BY <2>1, Responding
  <2>3. TrackedBy(k)' \/ cached[k] = {}
    BY <2>1 DEF KeyKept, TrackedBy
  <2>4. ASSUME cached[k] # {}, NEW x \in ElementsOf(cached[k]) PROVE k \in tracked[x]
    BY <1>3, <2>1, <2>4 DEF KeyKept, TrackedBy, Untracked
  <2>5. ASSUME cached[k] # {}, Chases(w, k) PROVE Chases(w, k)'
    <3>1. w \in byType => \E x \in ElementsOf(cached[k]) : x \in toGather'[w]
      BY <2>2, <2>4, <2>5 DEF CacheTypeOK
    <3>2. ~(w \in byType) => changing[w] \in ElementsOf(cached[k]) /\ changing[w] \in toGather'[w]
      BY <2>5 DEF CacheTypeOK, Chases
    <3>3. writing'[w] = "gather" /\ tracked' = tracked
      BY DEF CacheTypeOK
    <3>4. PICK x \in ElementsOf(cached[k]) : x \in toGather'[w]
      BY <3>1, <3>2
    <3>5. k \in tracked'[x]
      BY <2>4, <2>5, <3>3, <3>4
    <3> QED
      BY <3>3, <3>4, <3>5 DEF Chases
  <2>6. ASSUME NEW v \in Writers, v # w, Chases(v, k) PROVE Chases(v, k)'
    <3>1. /\ writing'[v] = writing[v] /\ toGather'[v] = toGather[v]
          /\ <<cached, byType, changing, gathered, tracked>>' = <<cached, byType, changing, gathered, tracked>>
      BY <2>6 DEF CacheTypeOK
    <3> HIDE DEF FindSets
    <3> QED
      BY <2>6, <3>1 DEF Chases
  <2>7. Chased(k)' \/ cached[k] = {}
    BY <2>1, <2>5, <2>6 DEF KeyKept, Chased, View, There
  <2> QED
    BY <2>3, <2>7 DEF KeyKept
<1> QED
  BY <1>1, <1>2, <1>3 DEF CacheInv

\* A key in the set is gathered.
LEMMA GatherKeeps ==
  ASSUME CacheTypeOK, CacheInv, NEW w \in Writers, NEW x \in Elements, Gather(w, x)
  PROVE  CacheTypeOK' /\ CacheInv'
<1> USE DEF Gather, Read, Write, Forget, redis, readers, writers
<1>1. CacheTypeOK'
  <2>1. Untracked \subseteq Keys
    BY DEF CacheTypeOK, Keys, Untracked
  <2> QED
    BY <2>1 DEF CacheTypeOK, Keys
<1>2. version' = version /\ HaveWritten' = HaveWritten
  BY DEF HaveWritten
<1>3. ASSUME cacheFaults' = 0, NEW k \in Keys \ exposed' PROVE KeyKept(k)'
  <2>1. KeyKept(k) /\ k \in Keys
    BY <1>3, CacheAssumption DEF CacheInv, CacheTypeOK
  <2>2. TrackedBy(k)' \/ cached'[k] = {}
    BY <2>1, Responding DEF CacheTypeOK, KeyKept, TrackedBy, Untracked
  <2>3. Chased(k)' \/ cached'[k] = {}
    BY <2>1, Responding DEF CacheTypeOK, KeyKept, TrackedBy, Chased, Chases, View, There, Untracked
  <2> QED
    BY <2>2, <2>3 DEF KeyKept
<1> QED
  BY <1>1, <1>2, <1>3 DEF CacheInv

\* Who chases a key has gathered it.
LEMMA GatheredKeeps ==
  ASSUME CacheTypeOK, CacheInv, NEW w \in Writers, Gathered(w)
  PROVE  CacheTypeOK' /\ CacheInv'
<1> USE DEF Gathered, Read, Write, Forget, redis, readers, writers
<1>1. CacheTypeOK'
  BY CacheAssumption, Responding DEF CacheTypeOK, Responses
<1>2. version' = version /\ HaveWritten' = HaveWritten
  BY DEF HaveWritten
<1>3. ASSUME cacheFaults' = 0, NEW k \in Keys \ exposed' PROVE KeyKept(k)'
  <2>1. KeyKept(k) /\ k \in Keys
    BY <1>3, CacheAssumption DEF CacheInv, CacheTypeOK
  <2>2. TrackedBy(k)' \/ cached'[k] = {}
    BY <2>1, Responding DEF CacheTypeOK, KeyKept, TrackedBy, Untracked
  <2>3. Chased(k)' \/ cached'[k] = {}
    BY <2>1, Responding DEF CacheTypeOK, KeyKept, TrackedBy, Chased, Chases, View, There, Untracked
  <2> QED
    BY <2>2, <2>3 DEF KeyKept
<1> QED
  BY <1>1, <1>2, <1>3 DEF CacheInv

\* A key is deleted with the sets that lose it, or exposed.
LEMMA DropKeeps ==
  ASSUME CacheTypeOK, CacheInv, NEW w \in Writers, Drop(w)
  PROVE  CacheTypeOK' /\ CacheInv'
<1> USE DEF Drop, Read, Write, Forget, redis, readers, writers
<1>1. CacheTypeOK'
  BY CacheAssumption, Responding DEF CacheTypeOK, Responses
<1>2. version' = version /\ HaveWritten' = HaveWritten
  BY DEF HaveWritten
<1>3. ASSUME cacheFaults' = 0, NEW k \in Keys \ exposed' PROVE KeyKept(k)'
  <2>1. KeyKept(k) /\ k \in Keys
    BY <1>3, CacheAssumption DEF CacheInv, CacheTypeOK
  <2>2. CASE k \in gathered[w]
    BY <2>1, <2>2 DEF CacheTypeOK, KeyKept
  <2>3. CASE k \notin gathered[w]
    <3>1. cached'[k] = cached[k] /\ View(k)' = View(k)
      BY <2>1, <2>3 DEF CacheTypeOK, View, There
    <3>2. \A x \in Elements : k \in tracked[x] => k \in tracked'[x]
      BY <1>3, <2>3 DEF CacheTypeOK
    <3>3. TrackedBy(k)' \/ cached[k] = {}
      BY <2>1, <3>1, <3>2, Responding DEF KeyKept, TrackedBy
    <3>4. ASSUME NEW v \in Writers, Chases(v, k) PROVE v # w /\ Chases(v, k)'
      BY <2>3, <3>1, <3>2, <3>4 DEF CacheTypeOK, Chases
    <3> QED
      BY <2>1, <3>1, <3>3, <3>4 DEF KeyKept, Chased
  <2> QED
    BY <2>2, <2>3
<1> QED
  BY <1>1, <1>2, <1>3 DEF CacheInv

\* A failure is counted.
LEMMA WriterFailsKeeps ==
  ASSUME CacheTypeOK, CacheInv, NEW w \in Writers, WriterFails(w)
  PROVE  CacheTypeOK' /\ CacheInv'
<1> USE DEF WriterFails, Read, Write, Forget, redis, readers, writers
<1>1. CacheTypeOK'
  BY CacheAssumption, Responding DEF CacheTypeOK, Responses
<1>2. version' = version /\ HaveWritten' = HaveWritten
  BY DEF HaveWritten
<1>3. ASSUME cacheFaults' = 0, NEW k \in Keys \ exposed' PROVE KeyKept(k)'
  BY <1>3, CacheAssumption DEF CacheTypeOK
<1> QED
  BY <1>1, <1>2, <1>3 DEF CacheInv

\* A key that is over is stored no more.
LEMMA KeyEndsKeeps ==
  ASSUME CacheTypeOK, CacheInv, NEW ended \in Keys, KeyEnds(ended)
  PROVE  CacheTypeOK' /\ CacheInv'
<1> USE DEF KeyEnds, Read, Write, Forget, redis, readers, writers
<1>1. CacheTypeOK'
  BY CacheAssumption, Responding DEF CacheTypeOK, Responses
<1>2. version' = version /\ HaveWritten' = HaveWritten
  BY DEF HaveWritten
<1>3. ASSUME cacheFaults' = 0, NEW k \in Keys \ exposed' PROVE KeyKept(k)'
  <2>1. KeyKept(k) /\ k \in Keys
    BY <1>3, CacheAssumption DEF CacheInv, CacheTypeOK
  <2>2. TrackedBy(k)' \/ cached'[k] = {}
    BY <2>1, Responding DEF CacheTypeOK, KeyKept, TrackedBy, Untracked
  <2>3. Chased(k)' \/ cached'[k] = {}
    BY <2>1, Responding DEF CacheTypeOK, KeyKept, TrackedBy, Chased, Chases, View, There, Untracked
  <2> QED
    BY <2>2, <2>3 DEF KeyKept
<1> QED
  BY <1>1, <1>2, <1>3 DEF CacheInv

LEMMA CacheInvStep ==
  IsFiniteSet(Writers) /\ CacheTypeOK /\ CacheInv /\ [CacheNext]_cacheVars => CacheTypeOK' /\ CacheInv'
<1> SUFFICES ASSUME IsFiniteSet(Writers), CacheTypeOK, CacheInv, [CacheNext]_cacheVars
             PROVE  CacheTypeOK' /\ CacheInv'
  OBVIOUS
<1>1. CASE UNCHANGED cacheVars
  <2> USE <1>1 DEF cacheVars, redis, readers, writers
  <2>1. CacheTypeOK'
    BY DEF CacheTypeOK
  <2>2. CacheInv'
    BY DEF CacheInv, HaveWritten, KeyKept, TrackedBy, Chased, Chases, View, There
  <2> QED
    BY <2>1, <2>2
<1> QED
  BY <1>1, LookUpKeeps, HandleKeeps, StoreKeeps, TrackKeeps, ReaderFailsKeeps, WriteKeeps, FindSetsKeeps,
     GatherKeeps, GatheredKeeps, DropKeeps, WriterFailsKeeps, KeyEndsKeeps, Zenon
     DEF CacheNext, ReadStep, WriteStep

\* In every order of readers and writers, once the writes have invalidated what
\* they changed, the cache answers what the handlers would, but for the keys
\* that are exposed.  Each version has a number only for finitely many writers.
THEOREM CacheKept == ASSUME IsFiniteSet(Writers) PROVE CacheSpec => []CacheSound
<1>0. IsFiniteSet(Writers)
  OBVIOUS
<1>1. CacheTypeOK /\ CacheInv => CacheSound
  <2> SUFFICES ASSUME CacheTypeOK, CacheInv, Settled, cacheFaults = 0, NEW k \in Keys \ exposed
               PROVE  cached[k] \in {{}, View(k)}
    BY DEF CacheSound, CacheIsFresh
  <2>1. \A w \in Writers : ~Chases(w, k)
    BY DEF Settled, Chases
  <2> QED
    BY <2>1 DEF CacheInv, KeyKept, Chased
<1>2. CacheInit => CacheTypeOK /\ CacheInv
  BY <1>0, CacheInvInit
<1>3. CacheTypeOK /\ CacheInv /\ [CacheNext]_cacheVars => CacheTypeOK' /\ CacheInv'
  BY <1>0, CacheInvStep
<1> QED
  BY <1>1, <1>2, <1>3, PTL DEF CacheSpec

=============================================================================
