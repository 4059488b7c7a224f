------------------------------ MODULE AccountCodes ------------------------------
(***************************************************************************)
(* The code of one user.  The activation of an account, the reset of its   *)
(* password and an invitation share one code and one expiration; a request *)
(* overwrites both, and a link is used by finding the user with its code   *)
(* and then writing, whatever the code has become.  A code is named by the *)
(* request that issued it; FirstCode is the one the user was created with. *)
(***************************************************************************)
EXTENDS Integers, FiniteSets

CONSTANTS Issues,           \* requests for a link
          Clicks,           \* requests with a link
          FirstCode, NoLink,
          MaxCodeFaults     \* bound: calls that throw

IssuedCodes == Issues \cup {FirstCode}
Purposes == {"activation", "reset", "invitation"}

ASSUME CodesAssumption == FirstCode \notin Issues /\ NoLink \notin IssuedCodes /\ MaxCodeFaults \in Nat

VARIABLES userCode,         \* user.code
          codeExpired,      \* user.codeExpiration has passed
          isActive,
          issue,            \* [Issues -> step]
          purposeOf,        \* [IssuedCodes -> what its request was for]
          mailedCode,       \* [Issues -> the code of the mail, or NoLink]
          lastMailed,       \* the code of the last mail
          click,            \* [Clicks -> step]
          clicked,          \* [Clicks -> its code]
          usedCodes,        \* [IssuedCodes -> clicks that succeeded]
          shared,           \* history: codes found by a click while another held them
          overlapped,       \* history: a link was requested while another was under way
          swept,            \* history: codes cleared by a click that had found another
          codeFaults

accountVars == <<userCode, codeExpired, isActive, issue, purposeOf, mailedCode, lastMailed, click,
              clicked, usedCodes, shared, overlapped, swept, codeFaults>>

CodesTypeOK ==
  /\ userCode \in IssuedCodes \cup {NoLink} /\ codeExpired \in BOOLEAN /\ isActive \in BOOLEAN
  /\ issue \in [Issues -> {"new", "read", "send", "done", "failed"}]
  /\ purposeOf \in [IssuedCodes -> Purposes]
  /\ mailedCode \in [Issues -> IssuedCodes \cup {NoLink}] /\ lastMailed \in IssuedCodes
  /\ click \in [Clicks -> {"new", "found", "done", "refused"}]
  /\ clicked \in [Clicks -> IssuedCodes \cup {NoLink}]
  /\ \A c \in IssuedCodes : usedCodes[c] \subseteq Clicks
  /\ shared \subseteq IssuedCodes /\ overlapped \in BOOLEAN /\ swept \subseteq IssuedCodes
  /\ codeFaults \in 0..MaxCodeFaults

\* The user has registered and has the mail with the activation link.
CodesInit ==
  /\ userCode = FirstCode /\ codeExpired = FALSE /\ isActive = FALSE
  /\ issue = [i \in Issues |-> "new"] /\ purposeOf = [c \in IssuedCodes |-> "activation"]
  /\ mailedCode = [i \in Issues |-> NoLink] /\ lastMailed = FirstCode
  /\ click = [k \in Clicks |-> "new"] /\ clicked = [k \in Clicks |-> NoLink]
  /\ usedCodes = [c \in IssuedCodes |-> {}]
  /\ shared = {} /\ overlapped = FALSE /\ swept = {} /\ codeFaults = 0

-----------------------------------------------------------------------------
(* Links. *)

\* startResetPassword writes the code and returns the user in one statement;
\* sendInvitationEmail (resetCode) reads the user in another.
IssueCode(i, purpose) ==
  /\ issue[i] = "new" /\ purpose \in {"reset", "invitation"}
  /\ userCode' = i /\ codeExpired' = FALSE
  /\ purposeOf' = [purposeOf EXCEPT ![i] = purpose]
  /\ issue' = [issue EXCEPT ![i] = IF purpose = "reset" THEN "send" ELSE "read"]
  /\ mailedCode' = [mailedCode EXCEPT ![i] = i]
  /\ overlapped' = (overlapped \/ \E j \in Issues : issue[j] \in {"read", "send"})
  /\ UNCHANGED <<isActive, lastMailed, click, clicked, usedCodes, shared, swept, codeFaults>>

\* The user as it is by then: the link may carry another code, or none.
ReadIssued(i) ==
  /\ issue[i] = "read"
  /\ mailedCode' = [mailedCode EXCEPT ![i] = userCode]
  /\ issue' = [issue EXCEPT ![i] = "send"]
  /\ UNCHANGED <<userCode, codeExpired, isActive, purposeOf, lastMailed, click, clicked, usedCodes,
                 shared, overlapped, swept, codeFaults>>

SendLink(i) ==
  /\ issue[i] = "send" /\ mailedCode[i] # NoLink
  /\ lastMailed' = mailedCode[i]
  /\ issue' = [issue EXCEPT ![i] = "done"]
  /\ UNCHANGED <<userCode, codeExpired, isActive, purposeOf, mailedCode, click, clicked, usedCodes,
                 shared, overlapped, swept, codeFaults>>

\* A user whose code is gone has no expiration to write in the mail either.
LinkFails(i) ==
  /\ issue[i] \in {"read", "send"}
  /\ \/ issue[i] = "send" /\ mailedCode[i] = NoLink /\ UNCHANGED codeFaults
     \/ codeFaults < MaxCodeFaults /\ codeFaults' = codeFaults + 1
  /\ issue' = [issue EXCEPT ![i] = "failed"]
  /\ UNCHANGED <<userCode, codeExpired, isActive, purposeOf, mailedCode, lastMailed, click, clicked,
                 usedCodes, shared, overlapped, swept>>

LinkExpires ==
  /\ userCode # NoLink /\ ~codeExpired
  /\ codeExpired' = TRUE
  /\ UNCHANGED <<userCode, isActive, issue, purposeOf, mailedCode, lastMailed, click, clicked,
                 usedCodes, shared, overlapped, swept, codeFaults>>

-----------------------------------------------------------------------------
(* activateAccount, resetPassword and acceptInvitation. *)

InMails == {FirstCode} \cup {mailedCode[i] : i \in {j \in Issues : issue[j] = "done"}}

FindWithCode(k, c) ==
  LET holders == {j \in Clicks \ {k} : click[j] = "found" /\ clicked[j] = c}
      found == userCode = c /\ ~codeExpired
  IN /\ click[k] = "new" /\ c \in InMails
     /\ clicked' = [clicked EXCEPT ![k] = c]
     /\ click' = [click EXCEPT ![k] = IF found THEN "found" ELSE "refused"]
     /\ shared' = IF found /\ holders # {} THEN shared \cup {c} ELSE shared
     /\ UNCHANGED <<userCode, codeExpired, isActive, issue, purposeOf, mailedCode, lastMailed,
                    usedCodes, overlapped, swept, codeFaults>>

\* Mutant: a reset keeps the code.
AfterUse(k) == IF purposeOf[clicked[k]] = "reset" THEN userCode ELSE NoLink

ClearedCode(k) == NoLink

MakesActive(k) == purposeOf[clicked[k]] # "reset"

\* The three writes clear the code; a reset leaves isActive as it is.
UseLink(k) ==
  /\ click[k] = "found"
  /\ userCode' = ClearedCode(k) /\ codeExpired' = FALSE
  /\ isActive' = (isActive \/ MakesActive(k))
  /\ usedCodes' = [usedCodes EXCEPT ![clicked[k]] = @ \cup {k}]
  /\ swept' = IF userCode \notin {clicked[k], NoLink} THEN swept \cup {userCode} ELSE swept
  /\ click' = [click EXCEPT ![k] = "done"]
  /\ UNCHANGED <<issue, purposeOf, mailedCode, lastMailed, clicked, shared, overlapped,
                 codeFaults>>

-----------------------------------------------------------------------------
CodesNext ==
  \/ \E i \in Issues : \/ \E purpose \in Purposes : IssueCode(i, purpose)
                       \/ ReadIssued(i) \/ SendLink(i) \/ LinkFails(i)
  \/ \E k \in Clicks : UseLink(k) \/ \E c \in IssuedCodes : FindWithCode(k, c)
  \/ LinkExpires

CodesSpec == CodesInit /\ [][CodesNext]_accountVars

-----------------------------------------------------------------------------
(* Properties. *)

\* The link of the last mail works until it is used or expires, whatever links came
\* before it, unless a request is under way, failed or overlapped another, or
\* a click with an older link cleared the newer code.
LastLinkWorks ==
  /\ ~overlapped /\ \A i \in Issues : issue[i] \in {"new", "done"}
  /\ usedCodes[lastMailed] = {} /\ lastMailed \notin swept
  => userCode = lastMailed

\* A link is used once, unless two clicks found it at the same time.
LinkUsedOnce == \A c \in IssuedCodes \ shared : Cardinality(usedCodes[c]) <= 1

\* An account that is not active and has no code is one whose password was
\* reset before its activation: no other order of links shuts it out.
InactiveHasCode ==
  ~isActive /\ userCode = NoLink =>
    \E c \in IssuedCodes : purposeOf[c] = "reset" /\ usedCodes[c] # {}

\* The link of the last mail works, once, and no order of links shuts a user out
\* who has not reset a password before activating the account.
CodesSound == CodesTypeOK /\ LastLinkWorks /\ LinkUsedOnce /\ InactiveHasCode
=============================================================================
