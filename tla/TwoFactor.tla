------------------------------- MODULE TwoFactor -------------------------------
(***************************************************************************)
(* Two-factor authentication of one user: the factors and the setting that *)
(* requires them, the pending challenges of sign-ins and of passkeys, and  *)
(* the backup codes.  Requests run side by side; each of their awaited     *)
(* statements is a step.                                                   *)
(*                                                                         *)
(* Whether a code typed in or a signature is right is a choice of the      *)
(* step that checks it.  The reads that Promise.all sends together are one *)
(* step.  The preferred method and the number of codes shown are left out.  *)
(***************************************************************************)
EXTENDS Integers, FiniteSets

CONSTANTS Factors, Passkeys,      \* authenticators, those of them that are passkeys
          Challenges,             \* PendingTwoFactor nodes
          BackupCodes,
          Verifications,          \* requests
          Nothing,
          MaxTotpAttempts, MaxBackupAttempts,
          MaxTwoFactorFaults      \* bound: requests that die between two statements

ASSUME TwoFactorAssumption ==
  /\ Passkeys \subseteq Factors
  /\ Nothing \notin Factors \cup Challenges \cup BackupCodes
  /\ MaxTotpAttempts \in Nat /\ MaxBackupAttempts \in Nat /\ MaxTwoFactorFaults \in Nat

VARIABLES factors,                \* verified authenticators and passkeys
          enabled,                \* TwoFactorConfig: "none", "on" or "off"
          pending,                \* [Challenges -> life of the node]
          challengeType,          \* [Challenges -> what it is for]
          attempts,               \* [Challenges -> attemptCount]
          lapsed,                 \* challenges past their expiration
          backup,                 \* [BackupCodes -> "none", "unused" or "used"]
          doing, job, on, with,   \* [Verifications -> step, operation, challenge, code or factor]
          counted,                \* history: [Challenges -> checks that were counted]
          signedIn,               \* history: requests that completed a sign-in
          spent,                  \* history: requests that consumed a backup code
          beside,                 \* history: pairs of requests that overlapped
          unguarded,              \* history: enabled without a factor, or a removal cut short
          twoFactorFaults

settings == <<factors, enabled, backup>>
challenge == <<pending, challengeType, attempts, lapsed>>
asked == <<job, on, with, beside>>
told == <<counted, signedIn, spent, unguarded>>
twoFactorVars == <<settings, challenge, doing, asked, told, twoFactorFaults>>

Kinds == {"login", "passkey-authentication", "passkey-registration"}
VerificationJobs == {"none", "totp", "backup", "passkey", "register", "enable", "disable",
                     "remove", "generate", "regenerate"}
VerificationSteps == {"idle", "count", "drop", "check", "use", "close", "forget", "created",
                      "look", "off", "on", "clear", "create", "done"}

TwoFactorTypeOK ==
  /\ factors \subseteq Factors /\ enabled \in {"none", "on", "off"}
  /\ pending \in [Challenges -> {"none", "opening", "open", "gone"}]
  /\ challengeType \in [Challenges -> Kinds]
  /\ attempts \in [Challenges -> Nat] /\ lapsed \subseteq Challenges
  /\ backup \in [BackupCodes -> {"none", "unused", "used"}]
  /\ doing \in [Verifications -> VerificationSteps] /\ job \in [Verifications -> VerificationJobs]
  /\ on \in [Verifications -> Challenges \cup {Nothing}]
  /\ with \in [Verifications -> BackupCodes \cup Factors \cup {Nothing}]
  /\ counted \in [Challenges -> Nat]
  /\ signedIn \subseteq Verifications /\ spent \subseteq Verifications
  /\ beside \subseteq Verifications \X Verifications
  /\ unguarded \in BOOLEAN /\ twoFactorFaults \in 0..MaxTwoFactorFaults

TwoFactorInit ==
  /\ factors \in {{}, Factors} /\ enabled = IF factors = {} THEN "none" ELSE "on"
  /\ backup \in [BackupCodes -> {"none", "unused"}]
  /\ pending = [s \in Challenges |-> "none"]
  /\ challengeType = [s \in Challenges |-> "login"]
  /\ attempts = [s \in Challenges |-> 0] /\ lapsed = {}
  /\ doing = [v \in Verifications |-> "idle"] /\ job = [v \in Verifications |-> "none"]
  /\ on = [v \in Verifications |-> Nothing] /\ with = [v \in Verifications |-> Nothing]
  /\ counted = [s \in Challenges |-> 0]
  /\ signedIn = {} /\ spent = {} /\ beside = {} /\ unguarded = FALSE
  /\ twoFactorFaults = 0

Step(v, step) == doing' = [doing EXCEPT ![v] = step]
Underway(v) == doing[v] \notin {"idle", "done"}

\* A request begins; those under way overlap it.
Ask(v, what, s, x) ==
  /\ doing[v] = "idle"
  /\ job' = [job EXCEPT ![v] = what]
  /\ on' = [on EXCEPT ![v] = s] /\ with' = [with EXCEPT ![v] = x]
  /\ beside' = beside \cup {p \in Verifications \X Verifications :
                              v \in {p[1], p[2]} /\ \E w \in {p[1], p[2]} : w # v /\ Underway(w)}

Unused == {k \in BackupCodes : backup[k] = "unused"}

\* The sign-ins whose token, a JWT, was handed out: it outlives the node.
Logins == {s \in Challenges : challengeType[s] = "login" /\ pending[s] \in {"open", "gone"}}

-----------------------------------------------------------------------------
(* Challenges: createForUser deletes whatever the user has pending, and then *)
(* creates the new node.                                                     *)

\* A sign-in with the right password asks for a second factor; a passkey may
\* be asked for, or registered.
Replace(s, kind) ==
  /\ pending[s] = "none"
  /\ \/ kind = "login" /\ enabled = "on"
     \/ kind = "passkey-authentication" /\ factors \cap Passkeys # {} /\ Logins # {}
     \/ kind = "passkey-registration"
  /\ pending' = [t \in Challenges |->
                   IF t = s THEN "opening" ELSE IF pending[t] = "open" THEN "gone" ELSE pending[t]]
  /\ challengeType' = [challengeType EXCEPT ![s] = kind]
  /\ UNCHANGED <<settings, attempts, lapsed, doing, asked, told, twoFactorFaults>>

OpenChallenge(s) ==
  /\ pending[s] = "opening"
  /\ pending' = [pending EXCEPT ![s] = "open"]
  /\ UNCHANGED <<settings, challengeType, attempts, lapsed, doing, asked, told, twoFactorFaults>>

Lapse(s) ==
  /\ pending[s] = "open" /\ s \notin lapsed
  /\ lapsed' = lapsed \cup {s}
  /\ UNCHANGED <<settings, pending, challengeType, attempts, doing, asked, told, twoFactorFaults>>

DeletePending(s) == pending' = [pending EXCEPT ![s] = IF @ = "open" THEN "gone" ELSE @]

-----------------------------------------------------------------------------
(* Verification.  A lapsed challenge is deleted, a missing one is not found. *)

ValidChallenge(s, kind) == pending[s] = "open" /\ s \notin lapsed /\ challengeType[s] = kind

VerifyLogin(v, s, what, x) ==
  /\ ValidChallenge(s, "login")
  /\ Ask(v, what, s, x) /\ Step(v, "count")
  /\ UNCHANGED <<settings, challenge, told, twoFactorFaults>>

VerifyLapsed(v, s) ==
  /\ pending[s] = "open" /\ s \in lapsed
  /\ Ask(v, "totp", s, Nothing) /\ Step(v, "done")
  /\ DeletePending(s)
  /\ UNCHANGED <<settings, challengeType, attempts, lapsed, told, twoFactorFaults>>

Limit(v) == IF job[v] = "totp" THEN MaxTotpAttempts ELSE MaxBackupAttempts

\* incrementAttemptCount and the comparison.  All methods share the count; a
\* node that is gone counts as 0, so that the check goes ahead.
CountAttempt(v) ==
  LET s == on[v]
      n == IF pending[s] = "open" THEN attempts[s] + 1 ELSE 0
  IN /\ doing[v] = "count"
     /\ attempts' = [attempts EXCEPT ![s] = IF pending[s] = "open" THEN n ELSE @]
     /\ counted' = [counted EXCEPT ![s] = IF n \in 1..Limit(v) THEN @ + 1 ELSE @]
     /\ Step(v, IF n > Limit(v) THEN "drop" ELSE "check")
     /\ UNCHANGED <<settings, pending, challengeType, lapsed, asked, signedIn, spent,
                    unguarded, twoFactorFaults>>

DropChallenge(v) ==
  /\ doing[v] = "drop"
  /\ DeletePending(on[v]) /\ Step(v, "done")
  /\ UNCHANGED <<settings, challengeType, attempts, lapsed, asked, told, twoFactorFaults>>

\* The code is compared with every verified authenticator.
CheckTotp(v, right) ==
  /\ doing[v] = "check" /\ job[v] = "totp"
  /\ Step(v, IF right /\ factors \ Passkeys # {} THEN "close" ELSE "done")
  /\ UNCHANGED <<settings, challenge, asked, told, twoFactorFaults>>

\* validateCode reads the unused codes, compares,
CheckBackup(v) ==
  /\ doing[v] = "check" /\ job[v] = "backup"
  /\ Step(v, IF with[v] \in Unused THEN "use" ELSE "done")
  /\ UNCHANGED <<settings, challenge, asked, told, twoFactorFaults>>

\* Mutant: the code stays unused.
UseNothing(v) ==
  /\ doing[v] = "use"
  /\ spent' = spent \cup {v}
  /\ Step(v, "close")
  /\ UNCHANGED <<settings, challenge, asked, counted, signedIn, unguarded, twoFactorFaults>>

\* and marks the one that matched, whatever has become of it.
Use(v) ==
  /\ doing[v] = "use"
  /\ backup' = [backup EXCEPT ![with[v]] = IF @ = "none" THEN @ ELSE "used"]
  /\ spent' = spent \cup {v}
  /\ Step(v, "close")
  /\ UNCHANGED <<factors, enabled, challenge, asked, counted, signedIn,
                 unguarded, twoFactorFaults>>

\* verifyAuthentication looks at the challenge of the passkey only.
VerifyPasskey(v, s) ==
  /\ ValidChallenge(s, "passkey-authentication") /\ factors \cap Passkeys # {} /\ Logins # {}
  /\ Ask(v, "passkey", s, Nothing) /\ Step(v, "close")
  /\ UNCHANGED <<settings, challenge, told, twoFactorFaults>>

\* The challenge is deleted and completeTwoFactorLogin issues the tokens; a
\* passkey's request deletes the sign-in's own challenge before that.
CloseChallenge(v) ==
  /\ doing[v] = "close"
  /\ DeletePending(on[v])
  /\ IF job[v] = "passkey" THEN Step(v, "forget") /\ UNCHANGED signedIn
                           ELSE Step(v, "done") /\ signedIn' = signedIn \cup {v}
  /\ UNCHANGED <<settings, challengeType, attempts, lapsed, asked, counted, spent,
                 unguarded, twoFactorFaults>>

ForgetLogin(v, s) ==
  /\ doing[v] = "forget" /\ s \in Logins
  /\ DeletePending(s)
  /\ signedIn' = signedIn \cup {v} /\ Step(v, "done")
  /\ UNCHANGED <<settings, challengeType, attempts, lapsed, asked, counted, spent,
                 unguarded, twoFactorFaults>>

-----------------------------------------------------------------------------
(* Factors and the setting. *)

\* verifyRegistration creates the passkey and then deletes its challenge.
RegisterPasskey(v, s, f) ==
  /\ ValidChallenge(s, "passkey-registration") /\ f \in Passkeys \ factors
  /\ Ask(v, "register", s, f) /\ Step(v, "created")
  /\ factors' = factors \cup {f}
  /\ UNCHANGED <<enabled, backup, challenge, told, twoFactorFaults>>

CloseRegistration(v) ==
  /\ doing[v] = "created"
  /\ DeletePending(on[v]) /\ Step(v, "done")
  /\ UNCHANGED <<settings, challengeType, attempts, lapsed, asked, told, twoFactorFaults>>

\* addAuthenticator: the code was right and the authenticator is verified.
AddTotp(f) ==
  /\ f \in Factors \ (Passkeys \cup factors)
  /\ factors' = factors \cup {f}
  /\ UNCHANGED <<enabled, backup, challenge, doing, asked, told, twoFactorFaults>>

\* removeAuthenticator or removePasskey,
RemoveFactor(v, f) ==
  /\ f \in factors
  /\ Ask(v, "remove", Nothing, f) /\ Step(v, "look")
  /\ factors' = factors \ {f}
  /\ UNCHANGED <<enabled, backup, challenge, told, twoFactorFaults>>

\* and checkAndDisableIfNoMethods: what is left is looked up,
Look(v) ==
  /\ doing[v] = "look"
  /\ Step(v, IF factors = {} /\ enabled = "on" THEN "off" ELSE "done")
  /\ UNCHANGED <<settings, challenge, asked, told, twoFactorFaults>>

\* and the setting is written; disable writes it as well.
Disable(v) ==
  /\ \/ doing[v] = "off" /\ UNCHANGED asked
     \/ enabled # "none" /\ Ask(v, "disable", Nothing, Nothing)
  /\ enabled' = "off" /\ Step(v, "done")
  /\ UNCHANGED <<factors, backup, challenge, told, twoFactorFaults>>

\* enable needs a factor when it looks,
Enable(v) ==
  /\ factors # {}
  /\ Ask(v, "enable", Nothing, Nothing) /\ Step(v, "on")
  /\ UNCHANGED <<settings, challenge, told, twoFactorFaults>>

\* and writes the setting later.
WriteEnabled(v) ==
  /\ doing[v] = "on"
  /\ enabled' = "on"
  /\ unguarded' = (unguarded \/ factors = {})
  /\ Step(v, "done")
  /\ UNCHANGED <<factors, backup, challenge, asked, counted, signedIn, spent, twoFactorFaults>>

-----------------------------------------------------------------------------
(* Backup codes. *)

\* generateCodes is refused if there are unused codes.
Generate(v) ==
  /\ Unused = {}
  /\ Ask(v, "generate", Nothing, Nothing) /\ Step(v, "create")
  /\ UNCHANGED <<settings, challenge, told, twoFactorFaults>>

\* regenerateCodes deletes the old ones first,
Regenerate(v) ==
  /\ Ask(v, "regenerate", Nothing, Nothing) /\ Step(v, "create")
  /\ backup' = [k \in BackupCodes |-> "none"]
  /\ UNCHANGED <<factors, enabled, challenge, told, twoFactorFaults>>

\* and new ones are created: one stands for the ten.  It was never shown before.
CreateCode(v, k) ==
  /\ doing[v] = "create"
  /\ backup[k] = "none" /\ \A w \in Verifications : with[w] # k
  /\ backup' = [backup EXCEPT ![k] = "unused"]
  /\ with' = [with EXCEPT ![v] = k]
  /\ Step(v, "done")
  /\ UNCHANGED <<factors, enabled, challenge, job, on, beside, told, twoFactorFaults>>

\* A request dies with its process, or a statement of it throws.
CutShort(v) ==
  /\ Underway(v)
  /\ twoFactorFaults < MaxTwoFactorFaults /\ twoFactorFaults' = twoFactorFaults + 1
  /\ unguarded' = (unguarded \/ doing[v] \in {"look", "off"})
  /\ Step(v, "done")
  /\ UNCHANGED <<settings, challenge, asked, counted, signedIn, spent>>

-----------------------------------------------------------------------------
ChallengeStep(s) == (\E kind \in Kinds : Replace(s, kind)) \/ OpenChallenge(s) \/ Lapse(s)
LoginStep(v) ==
  \/ \E s \in Challenges : \/ VerifyLogin(v, s, "totp", Nothing) \/ VerifyLapsed(v, s)
                           \/ \E k \in BackupCodes : VerifyLogin(v, s, "backup", k)
                           \/ VerifyPasskey(v, s) \/ ForgetLogin(v, s)
                           \/ \E f \in Factors : RegisterPasskey(v, s, f)
  \/ CountAttempt(v) \/ DropChallenge(v) \/ (\E right \in BOOLEAN : CheckTotp(v, right))
  \/ CheckBackup(v) \/ Use(v) \/ CloseChallenge(v) \/ CloseRegistration(v)
SettingStep(v) ==
  \/ (\E f \in Factors : RemoveFactor(v, f)) \/ Look(v) \/ Disable(v) \/ Enable(v) \/ WriteEnabled(v)
  \/ Generate(v) \/ Regenerate(v) \/ (\E k \in BackupCodes : CreateCode(v, k)) \/ CutShort(v)

TwoFactorNext ==
  \/ \E s \in Challenges : ChallengeStep(s)
  \/ \E f \in Factors : AddTotp(f)
  \/ \E v \in Verifications : LoginStep(v) \/ SettingStep(v)

TwoFactorSpec == TwoFactorInit /\ [][TwoFactorNext]_twoFactorVars

-----------------------------------------------------------------------------
(* Properties. *)

\* Once nothing is under way, a user who must give a second factor has one,
\* unless the setting was switched on while the last one was being removed, or
\* a removal never got to its check.
NobodyLockedOut ==
  enabled = "on" /\ factors = {} /\ (\A v \in Verifications : ~Underway(v)) => unguarded

\* The checks that were counted stay within the limit, however many requests
\* try at once.
AttemptsBounded ==
  \A s \in Challenges : counted[s] <= IF MaxTotpAttempts < MaxBackupAttempts
                                        THEN MaxBackupAttempts ELSE MaxTotpAttempts

\* One challenge signs in twice, and one backup code is consumed twice, only by
\* requests that overlapped: validateAndGetPending, deletePending, markUsed.
TwiceOnlyTogether ==
  \A v, w \in Verifications :
    v # w /\ ( \/ {v, w} \subseteq signedIn /\ on[v] = on[w]
               \/ {v, w} \subseteq spent /\ with[v] = with[w] )
      => <<v, w>> \in beside

\* The second factor of a login holds: it is not guessed beyond its limits, not
\* used twice one after the other, and not demanded of a user who has none.
SecondFactorSound ==
  TwoFactorTypeOK /\ NobodyLockedOut /\ AttemptsBounded /\ TwiceOnlyTogether
=============================================================================
