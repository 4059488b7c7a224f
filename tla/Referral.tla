-------------------------------- MODULE Referral --------------------------------
(***************************************************************************)
(* Referrals of one company: its referral code, created on first use; the  *)
(* invitations that carry the code; the companies that register with it;   *)
(* and the award when a referred company pays.  Every awaited call is a    *)
(* step.  A code is named by the visit that generated it.                  *)
(*                                                                         *)
(* The handler of a paid invoice may run again for the same payment, since *)
(* the queue retries it (StripeWebhook).  The mails of a reward are left   *)
(* out: their failure is swallowed.                                        *)
(***************************************************************************)
EXTENDS Integers, FiniteSets

CONSTANTS Visits,             \* requests for the code, its statistics, or an invitation
          Referred,           \* companies that register with a code
          Payments,           \* runs of the handler for a paid invoice
          NoCode,
          MaxReferralFaults   \* bound: calls that throw

ASSUME ReferralAssumption == NoCode \notin Visits /\ MaxReferralFaults \in Nat

VARIABLES referralCode,       \* company.referralCode of the referrer
          visit, inviting,    \* [Visits -> progress], those that send an invitation
          carries,            \* [Visits -> code the visit answers or mails with]
          invitedKey,         \* the cooldown of the invited address
          mails,              \* invitations queued in this cooldown
          registration, used, \* [Referred -> progress of trackReferral, code used]
          referral,           \* [Referred -> status of the Referral node]
          payment, payer,     \* [Payments -> progress, company that paid]
          toReferrer,         \* rewards added to the referrer's extra credits
          toReferred,         \* [Referred -> the same of a referred company]
          rivals,             \* history: visits that overlapped
          disturbed,          \* history: payments that failed after an award, or began
                              \* while another of the same company was under way
          referralFaults

codeVars == <<referralCode, visit, inviting, carries, rivals>>
inviteVars == <<invitedKey, mails>>
trackVars == <<registration, used>>
payVars == <<payment, payer, toReferrer, toReferred, disturbed>>
referralVars == <<codeVars, inviteVars, trackVars, referral, payVars, referralFaults>>

VisitSteps == {"idle", "look", "again", "write", "mark", "mail", "end"}
PaymentSteps == {"idle", "find", "first", "second", "complete", "end"}

ReferralTypeOK ==
  /\ referralCode \in Visits \cup {NoCode}
  /\ visit \in [Visits -> VisitSteps] /\ inviting \subseteq Visits
  /\ carries \in [Visits -> Visits \cup {NoCode}]
  /\ invitedKey \in BOOLEAN /\ mails \in Nat
  /\ registration \in [Referred -> {"idle", "find", "create", "end", "failed"}]
  /\ used \in [Referred -> Visits \cup {NoCode}]
  /\ referral \in [Referred -> {"none", "pending", "completed"}]
  /\ payment \in [Payments -> PaymentSteps] /\ payer \in [Payments -> Referred]
  /\ toReferrer \in Nat /\ toReferred \in [Referred -> Nat]
  /\ rivals \subseteq Visits /\ disturbed \subseteq Payments
  /\ referralFaults \in 0..MaxReferralFaults

ReferralInit ==
  /\ referralCode = NoCode
  /\ visit = [v \in Visits |-> "idle"] /\ inviting = {}
  /\ carries = [v \in Visits |-> NoCode]
  /\ invitedKey = FALSE /\ mails = 0
  /\ registration = [b \in Referred |-> "idle"] /\ used = [b \in Referred |-> NoCode]
  /\ referral = [b \in Referred |-> "none"]
  /\ payment = [p \in Payments |-> "idle"]
  /\ payer \in [Payments -> Referred]
  /\ toReferrer = 0 /\ toReferred = [b \in Referred |-> 0]
  /\ rivals = {} /\ disturbed = {} /\ referralFaults = 0

Turn(v, step) == visit' = [visit EXCEPT ![v] = step]
Visiting == {v \in Visits : visit[v] \notin {"idle", "end"}}

-----------------------------------------------------------------------------
(* The code and the invitations. *)

\* A visit begins; those under way overlap it.
Arrive(v, step) ==
  /\ visit[v] = "idle"
  /\ Turn(v, step)
  /\ rivals' = IF Visiting = {} THEN rivals ELSE rivals \cup Visiting \cup {v}
  /\ UNCHANGED <<referralCode, carries, inviteVars, trackVars, referral, payVars, referralFaults>>

\* getMyCodeJsonApi, getStats.
AskCode(v) == Arrive(v, "again") /\ UNCHANGED inviting
AskStats(v) == Arrive(v, "look") /\ UNCHANGED inviting

\* sendReferralInvite is refused within the cooldown.
Invite(v) == ~invitedKey /\ Arrive(v, "look") /\ inviting' = inviting \cup {v}

\* What follows once the code is known.
Answered(v) == IF v \in inviting THEN "mark" ELSE "end"

\* company.referralCode || getOrCreateReferralCode(), which reads it again.
ReadCode(v) ==
  /\ visit[v] \in {"look", "again"}
  /\ IF referralCode # NoCode
       THEN Turn(v, Answered(v)) /\ carries' = [carries EXCEPT ![v] = referralCode]
       ELSE Turn(v, IF visit[v] = "look" THEN "again" ELSE "write") /\ UNCHANGED carries
  /\ UNCHANGED <<referralCode, inviting, rivals, inviteVars, trackVars, referral, payVars, referralFaults>>

\* setReferralCode, whatever is stored by now.
WriteCode(v) ==
  /\ visit[v] = "write"
  /\ referralCode' = v
  /\ carries' = [carries EXCEPT ![v] = v]
  /\ Turn(v, Answered(v))
  /\ UNCHANGED <<inviting, rivals, inviteVars, trackVars, referral, payVars, referralFaults>>

\* The cooldown starts before the mail is queued.
MarkInvited(v) ==
  /\ visit[v] = "mark"
  /\ invitedKey' = TRUE
  /\ Turn(v, "mail")
  /\ UNCHANGED <<referralCode, inviting, carries, rivals, mails, trackVars, referral, payVars, referralFaults>>

QueueInvite(v) ==
  /\ visit[v] = "mail"
  /\ mails' = mails + 1
  /\ Turn(v, "end")
  /\ UNCHANGED <<referralCode, inviting, carries, rivals, invitedKey, trackVars, referral, payVars, referralFaults>>

\* The cooldown is far longer than the call that queues the mail.
CooldownEnds ==
  /\ invitedKey /\ \A v \in Visits : visit[v] # "mail"
  /\ invitedKey' = FALSE /\ mails' = 0
  /\ UNCHANGED <<codeVars, trackVars, referral, payVars, referralFaults>>

VisitFails(v) ==
  /\ v \in Visiting
  /\ referralFaults < MaxReferralFaults /\ referralFaults' = referralFaults + 1
  /\ Turn(v, "end") /\ carries' = [carries EXCEPT ![v] = NoCode]
  /\ UNCHANGED <<referralCode, inviting, rivals, inviteVars, trackVars, referral, payVars>>

-----------------------------------------------------------------------------
(* Registration with a code. *)

\* The code was in an answer or in an invitation.
Register(b, v) ==
  /\ registration[b] = "idle" /\ visit[v] = "end" /\ carries[v] # NoCode
  /\ registration' = [registration EXCEPT ![b] = "find"]
  /\ used' = [used EXCEPT ![b] = carries[v]]
  /\ UNCHANGED <<codeVars, inviteVars, referral, payVars, referralFaults>>

\* A code that is nobody's is silently ignored.
FindReferrer(b) ==
  /\ registration[b] = "find"
  /\ registration' = [registration EXCEPT ![b] = IF used[b] = referralCode THEN "create" ELSE "end"]
  /\ UNCHANGED <<codeVars, inviteVars, used, referral, payVars, referralFaults>>

CreateReferral(b) ==
  /\ registration[b] = "create"
  /\ registration' = [registration EXCEPT ![b] = "end"]
  /\ referral' = [referral EXCEPT ![b] = "pending"]
  /\ UNCHANGED <<codeVars, inviteVars, used, payVars, referralFaults>>

\* A hook that throws does not fail the registration.
HookFails(b) ==
  /\ registration[b] \in {"find", "create"}
  /\ referralFaults < MaxReferralFaults /\ referralFaults' = referralFaults + 1
  /\ registration' = [registration EXCEPT ![b] = "failed"]
  /\ UNCHANGED <<codeVars, inviteVars, used, referral, payVars>>

-----------------------------------------------------------------------------
(* completeReferralOnPayment. *)

Stage(p, step) == payment' = [payment EXCEPT ![p] = step]
Rewarding(b) == {p \in Payments : payer[p] = b /\ payment[p] \notin {"idle", "end"}}

Pay(p) ==
  /\ payment[p] = "idle" /\ registration[payer[p]] \in {"end", "failed"}
  /\ Stage(p, "find")
  /\ disturbed' = IF Rewarding(payer[p]) = {} THEN disturbed ELSE disturbed \cup {p}
  /\ UNCHANGED <<codeVars, inviteVars, trackVars, referral, payer, toReferrer, toReferred, referralFaults>>

\* Mutant: a completed referral is found as well.
FindAny(p) ==
  /\ payment[p] = "find"
  /\ Stage(p, IF referral[payer[p]] # "none" THEN "first" ELSE "end")
  /\ UNCHANGED <<codeVars, inviteVars, trackVars, referral, payer, toReferrer, toReferred, disturbed, referralFaults>>

FindPending(p) ==
  /\ payment[p] = "find"
  /\ Stage(p, IF referral[payer[p]] = "pending" THEN "first" ELSE "end")
  /\ UNCHANGED <<codeVars, inviteVars, trackVars, referral, payer, toReferrer, toReferred, disturbed, referralFaults>>

\* addExtraCredits is one statement.
AwardReferrer(p) ==
  /\ payment[p] = "first"
  /\ toReferrer' = toReferrer + 1
  /\ Stage(p, "second")
  /\ UNCHANGED <<codeVars, inviteVars, trackVars, referral, payer, toReferred, disturbed, referralFaults>>

AwardReferred(p) ==
  /\ payment[p] = "second"
  /\ toReferred' = [toReferred EXCEPT ![payer[p]] = @ + 1]
  /\ Stage(p, "complete")
  /\ UNCHANGED <<codeVars, inviteVars, trackVars, referral, payer, toReferrer, disturbed, referralFaults>>

CompleteReferral(p) ==
  /\ payment[p] = "complete"
  /\ referral' = [referral EXCEPT ![payer[p]] = "completed"]
  /\ Stage(p, "end")
  /\ UNCHANGED <<codeVars, inviteVars, trackVars, payer, toReferrer, toReferred, disturbed, referralFaults>>

\* The handler swallows what this throws; the awards stay.
PaymentFails(p) ==
  /\ payment[p] \notin {"idle", "end"}
  /\ referralFaults < MaxReferralFaults /\ referralFaults' = referralFaults + 1
  /\ Stage(p, "end")
  /\ disturbed' = IF payment[p] \in {"second", "complete"} THEN disturbed \cup {p} ELSE disturbed
  /\ UNCHANGED <<codeVars, inviteVars, trackVars, referral, payer, toReferrer, toReferred>>

-----------------------------------------------------------------------------
VisitStep(v) == \/ AskCode(v) \/ AskStats(v) \/ Invite(v) \/ ReadCode(v) \/ WriteCode(v)
                \/ MarkInvited(v) \/ QueueInvite(v) \/ VisitFails(v)
TrackStep(b) == (\E v \in Visits : Register(b, v)) \/ FindReferrer(b) \/ CreateReferral(b) \/ HookFails(b)
PayStep(p) == \/ Pay(p) \/ FindPending(p) \/ AwardReferrer(p) \/ AwardReferred(p)
              \/ CompleteReferral(p) \/ PaymentFails(p)

ReferralNext ==
  \/ \E v \in Visits : VisitStep(v)
  \/ \E b \in Referred : TrackStep(b)
  \/ \E p \in Payments : PayStep(p)
  \/ CooldownEnds

ReferralSpec == ReferralInit /\ [][ReferralNext]_referralVars

-----------------------------------------------------------------------------
(* Properties. *)

\* A company that registers with a code it was given is referred, unless the
\* hook failed or the code was generated while another visit was under way, and
\* then overwritten.
HandedOutCodeTracks ==
  \A b \in Referred : registration[b] = "end" /\ referral[b] = "none" => used[b] \in rivals

\* One invitation per address and cooldown, unless two are sent together.
OneInvitePerCooldown == mails > 1 => Cardinality(rivals \cap inviting) > 1

\* The statistics never show a reward that was not given: each completed
\* referral has paid its referrer, and the referred company.
CompletedPaidBoth ==
  /\ Cardinality({b \in Referred : referral[b] = "completed"}) <= toReferrer
  /\ \A b \in Referred : referral[b] = "completed" => toReferred[b] > 0

\* Each side is rewarded once per referral, and once more for each payment
\* that failed after an award or began while another was being rewarded.
RewardedOnceUnlessDisturbed ==
  /\ toReferrer <= Cardinality({b \in Referred : referral[b] # "none"}) + Cardinality(disturbed)
  /\ \A b \in Referred : toReferred[b] <= 1 + Cardinality({p \in disturbed : payer[p] = b})

\* A referral is tracked by the code that was handed out, invited for once in a
\* cooldown, and rewarded to both sides, once.
ReferralsSound ==
  /\ ReferralTypeOK /\ HandedOutCodeTracks /\ OneInvitePerCooldown
  /\ CompletedPaidBoth /\ RewardedOnceUnlessDisturbed
=============================================================================
