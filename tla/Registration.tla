------------------------------ MODULE Registration ------------------------------
(***************************************************************************)
(* Registration by invitation: one entry of the waitlist, the requests     *)
(* that confirm it, the administrators that invite it, and the             *)
(* registrations with its invite code, by password or through a provider,  *)
(* every statement a step.  An invite code is named by the request that    *)
(* issued it, a company and a user by the registration that created them.  *)
(***************************************************************************)
EXTENDS Integers, FiniteSets

CONSTANTS Confirmations,      \* requests with the confirmation link
          Invitations,        \* requests of administrators
          Registrants,        \* requests to register
          Addresses,          \* email addresses, which two registrants may share
          NoInvite,
          MaxRegistrationFaults  \* bound: calls that throw

ASSUME RegistrationAssumption == /\ NoInvite \notin Invitations
                                 /\ MaxRegistrationFaults \in Nat

VARIABLES waiting,            \* status of the entry
          inviteCode,         \* of the entry
          confirmation,       \* [Confirmations -> step]
          invitation,         \* [Invitations -> step]
          registering,        \* [Registrants -> step]
          way,                \* [Registrants -> "password" or "provider"]
          address,            \* [Registrants -> its address]
          usedCode,           \* [Registrants -> the code it brings]
          companies, users,   \* registrants whose company, whose user exists
          providerLinks,      \* users linked to the account of their provider
          consents,           \* addresses with a pending registration
          linksSent,          \* users whose activation link was mailed
          slipped,            \* history: a write met another status than was found
          contenders,             \* history: registrants that overlapped another one
          brokenOff,          \* history: a call of a registration threw
          registrationFaults

entry == <<waiting, inviteCode, slipped>>
requested == <<way, address, usedCode>>
made == <<companies, users, providerLinks, consents, linksSent>>
registrationVars == <<entry, confirmation, invitation, registering, requested, made, contenders,
                      brokenOff, registrationFaults>>

Steps == {"check", "company", "user", "link", "mark", "send", "forget"}
Closed == {"done", "refused", "taken", "unmarked", "failed"}

RegistrationTypeOK ==
  /\ waiting \in {"pending", "confirmed", "invited", "registered"}
  /\ inviteCode \in Invitations \cup {NoInvite}
  /\ confirmation \in [Confirmations -> {"new", "write", "done", "refused"}]
  /\ invitation \in [Invitations -> {"new", "write", "send", "done", "refused"}]
  /\ registering \in [Registrants -> Steps \cup Closed \cup {"new"}]
  /\ way \in [Registrants -> {"password", "provider"}]
  /\ address \in [Registrants -> Addresses]
  /\ usedCode \in [Registrants -> Invitations \cup {NoInvite}]
  /\ companies \subseteq Registrants /\ users \subseteq companies
  /\ providerLinks \subseteq users /\ linksSent \subseteq users /\ consents \subseteq Addresses
  /\ slipped \in BOOLEAN /\ contenders \subseteq Registrants /\ brokenOff \subseteq Registrants
  /\ registrationFaults \in 0..MaxRegistrationFaults

\* createEntry has stored the entry and mailed its confirmation code; the
\* registrants through a provider have signed in there.
RegistrationInit ==
  /\ waiting = "pending" /\ inviteCode = NoInvite
  /\ confirmation = [c \in Confirmations |-> "new"]
  /\ invitation = [i \in Invitations |-> "new"]
  /\ registering = [r \in Registrants |-> "new"]
  /\ way \in [Registrants -> {"password", "provider"}]
  /\ address \in [Registrants -> Addresses]
  /\ usedCode = [r \in Registrants |-> NoInvite]
  /\ companies = {} /\ users = {} /\ providerLinks = {} /\ consents = Addresses /\ linksSent = {}
  /\ slipped = FALSE /\ contenders = {} /\ brokenOff = {} /\ registrationFaults = 0

RegisterTo(r, s) == registering' = [registering EXCEPT ![r] = s]
ByPassword(r) == way[r] = "password"

-----------------------------------------------------------------------------
(* WaitlistService. *)

FindToConfirm(c) ==
  /\ confirmation[c] = "new"
  /\ confirmation' = [confirmation EXCEPT ![c] = IF waiting = "pending" THEN "write" ELSE "refused"]
  /\ UNCHANGED <<entry, invitation, registering, requested, made, contenders, brokenOff,
                 registrationFaults>>

ConfirmEntry(c) ==
  /\ confirmation[c] = "write"
  /\ waiting' = "confirmed" /\ slipped' = (slipped \/ waiting # "pending")
  /\ confirmation' = [confirmation EXCEPT ![c] = "done"]
  /\ UNCHANGED <<inviteCode, invitation, registering, requested, made, contenders, brokenOff,
                 registrationFaults>>

FindToInvite(i) ==
  /\ invitation[i] = "new"
  /\ invitation' = [invitation EXCEPT ![i] = IF waiting = "confirmed" THEN "write" ELSE "refused"]
  /\ UNCHANGED <<entry, confirmation, registering, requested, made, contenders, brokenOff,
                 registrationFaults>>

\* The code of the entry is replaced, whatever its status has become,
SetInviteCode(i) ==
  /\ invitation[i] = "write"
  /\ inviteCode' = i /\ waiting' = "invited"
  /\ slipped' = (slipped \/ waiting # "confirmed")
  /\ invitation' = [invitation EXCEPT ![i] = "send"]
  /\ UNCHANGED <<confirmation, registering, requested, made, contenders, brokenOff, registrationFaults>>

\* and mailed.
SendInvite(i) ==
  /\ invitation[i] = "send"
  /\ \/ /\ invitation' = [invitation EXCEPT ![i] = "done"] /\ UNCHANGED registrationFaults
     \/ /\ registrationFaults < MaxRegistrationFaults
        /\ registrationFaults' = registrationFaults + 1
        /\ invitation' = [invitation EXCEPT ![i] = "refused"]
  /\ UNCHANGED <<entry, confirmation, registering, requested, made, contenders, brokenOff>>

-----------------------------------------------------------------------------
(* register and completeOAuthRegistration. *)

\* Mutant: a code that has been used is accepted.
Usable(i) == inviteCode = i

Valid(i) == inviteCode = i /\ waiting # "registered"

\* A code that was mailed is validated; it may have expired.
ValidateInvite(r, i) ==
  LET others == {s \in Registrants \ {r} : registering[s] \in Steps}
      known == ByPassword(r) \/ address[r] \in consents
  IN /\ registering[r] = "new" /\ invitation[i] = "done"
     /\ usedCode' = [usedCode EXCEPT ![r] = i]
     /\ \/ /\ known /\ Valid(i)
           /\ RegisterTo(r, IF ByPassword(r) THEN "check" ELSE "company")
           /\ contenders' = IF others = {} THEN contenders ELSE contenders \cup others \cup {r}
        \/ RegisterTo(r, "refused") /\ UNCHANGED contenders
     /\ UNCHANGED <<entry, confirmation, invitation, way, address, made, brokenOff,
                    registrationFaults>>

TakenAddress(r) == \E u \in users : address[u] = address[r]

\* expectNotExists; a provider's address is not looked up.
ExpectNotExists(r) ==
  /\ registering[r] = "check"
  /\ RegisterTo(r, IF TakenAddress(r) THEN "refused" ELSE "company")
  /\ UNCHANGED <<entry, confirmation, invitation, requested, made, contenders, brokenOff,
                 registrationFaults>>

CreateCompany(r) ==
  /\ registering[r] = "company"
  /\ companies' = companies \cup {r}
  /\ RegisterTo(r, "user")
  /\ UNCHANGED <<entry, confirmation, invitation, requested, users, providerLinks, consents,
                 linksSent, contenders, brokenOff, registrationFaults>>

\* The address of a user is unique: the statement throws, and the company stays.
CreateUser(r) ==
  /\ registering[r] = "user"
  /\ users' = IF TakenAddress(r) THEN users ELSE users \cup {r}
  /\ RegisterTo(r, IF TakenAddress(r) THEN "taken" ELSE IF ByPassword(r) THEN "mark" ELSE "link")
  /\ UNCHANGED <<entry, confirmation, invitation, requested, companies, providerLinks, consents,
                 linksSent, contenders, brokenOff, registrationFaults>>

LinkProvider(r) ==
  /\ registering[r] = "link"
  /\ providerLinks' = providerLinks \cup {r}
  /\ RegisterTo(r, "mark")
  /\ UNCHANGED <<entry, confirmation, invitation, requested, companies, users, consents, linksSent,
                 contenders, brokenOff, registrationFaults>>

\* markAsRegistered looks the entry up by the code, which may have been replaced.
MarkRegistered(r) ==
  /\ registering[r] = "mark"
  /\ IF inviteCode = usedCode[r]
       THEN /\ waiting' = "registered"
            /\ RegisterTo(r, IF ByPassword(r) THEN "send" ELSE "forget")
       ELSE RegisterTo(r, "unmarked") /\ UNCHANGED waiting
  /\ UNCHANGED <<inviteCode, slipped, confirmation, invitation, requested, made, contenders, brokenOff,
                 registrationFaults>>

SendActivation(r) ==
  /\ registering[r] = "send"
  /\ linksSent' = linksSent \cup {r}
  /\ RegisterTo(r, "done")
  /\ UNCHANGED <<entry, confirmation, invitation, requested, companies, users, providerLinks,
                 consents, contenders, brokenOff, registrationFaults>>

ForgetPending(r) ==
  /\ registering[r] = "forget"
  /\ consents' = consents \ {address[r]}
  /\ RegisterTo(r, "done")
  /\ UNCHANGED <<entry, confirmation, invitation, requested, companies, users, providerLinks,
                 linksSent, contenders, brokenOff, registrationFaults>>

\* A call throws: what was written stays.
BreakOff(r) ==
  /\ registering[r] \in Steps
  /\ registrationFaults < MaxRegistrationFaults /\ registrationFaults' = registrationFaults + 1
  /\ brokenOff' = brokenOff \cup {r}
  /\ RegisterTo(r, "failed")
  /\ UNCHANGED <<entry, confirmation, invitation, requested, made, contenders>>

-----------------------------------------------------------------------------
EntryStep == \/ \E c \in Confirmations : FindToConfirm(c) \/ ConfirmEntry(c)
             \/ \E i \in Invitations : FindToInvite(i) \/ SetInviteCode(i) \/ SendInvite(i)
RegistrantStep(r) == \/ \E i \in Invitations : ValidateInvite(r, i)
                     \/ ExpectNotExists(r) \/ CreateCompany(r) \/ CreateUser(r)
                     \/ LinkProvider(r) \/ MarkRegistered(r) \/ SendActivation(r)
                     \/ ForgetPending(r) \/ BreakOff(r)

RegistrationNext == EntryStep \/ \E r \in Registrants : RegistrantStep(r)

RegistrationSpec == RegistrationInit /\ [][RegistrationNext]_registrationVars

-----------------------------------------------------------------------------
(* Properties. *)

\* An entry of the waitlist lets one user in, whichever of its codes is used,
\* unless two registrations overlapped, one broke off, or a confirmation or an
\* invitation wrote over a status that had moved on.
OneUserPerEntry ==
  contenders = {} /\ brokenOff = {} /\ ~slipped => Cardinality(users) <= 1

\* A registration that created its user also marks the entry, so that the
\* activation link is mailed: the code is not replaced behind its back, unless
\* a write met another status than was found.
NobodyStranded ==
  \A u \in users : registering[u] \in Closed \ {"done"} => u \in brokenOff \/ slipped

\* A company without a user is left only by a registration that broke off, by
\* one that overlapped another, or by a provider's, whose address nobody looks up.
NoOrphanCompany ==
  \A c \in companies \ users :
    registering[c] = "user" \/ c \in brokenOff \cup contenders \/ ~ByPassword(c)

\* A waitlist entry makes one user at most, whose registration is recorded and
\* mailed, and no company is left without its user.
RegistrationsSound ==
  RegistrationTypeOK /\ OneUserPerEntry /\ NobodyStranded /\ NoOrphanCompany
=============================================================================
