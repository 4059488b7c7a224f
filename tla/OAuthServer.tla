------------------------------ MODULE OAuthServer ------------------------------
(***************************************************************************)
(* The OAuth server seen by one user and one client: authorization codes,  *)
(* the token endpoint with its three grants, revocation, the management of *)
(* the client and the periodic cleanup.  Every await of a grant is a step. *)
(*                                                                         *)
(* A token request names the tokens it issues: access[g] and refresh[g]    *)
(* are the nodes that request g created, linked by LINKED_REFRESH.  What   *)
(* is checked of a request by looking at it alone (secret, redirect URI,   *)
(* PKCE verifier, grant type) either holds or ends it (Refuse).            *)
(***************************************************************************)
EXTENDS Integers, FiniteSets

CONSTANTS Codes,      \* authorization codes
          Grants,     \* requests to the token endpoint
          Scopes,     \* the client's allowedScopes
          None,
          Rotate,     \* oauth.rotateRefreshTokens
          MaxFaults   \* bound: database calls that throw

ASSUME OAuthAssumption == /\ None \notin Codes \cup Grants
                          /\ Rotate \in BOOLEAN /\ MaxFaults \in Nat

VARIABLES client,                 \* the OAuthClient node
          code, codeScope,        \* [Codes -> state of the node, scope it was approved for]
          access, refresh,        \* [Grants -> state of the token node]
          staleCodes, staleAccess, staleRefresh,    \* what has passed its expiresAt
          at, presented, family, scope,             \* [Grants -> progress of the request]
          raced, cut, ended,      \* history: requests that spent what was spent already,
                                  \* requests finished before a replay was noticed,
                                  \* codes whose session was ended from outside
          oauthFaults

Asked == SUBSET Scopes \ {{}}

tokens == <<access, refresh>>
clocks == <<staleCodes, staleAccess, staleRefresh>>
history == <<raced, cut, ended>>
data == <<presented, family, scope>>
oauthVars == <<client, code, codeScope, tokens, clocks, at, data, history, oauthFaults>>

CodeStates == {"none", "approved", "fresh", "used", "gone"}
TokenStates == {"none", "valid", "revoked", "gone"}
GrantSteps == {"new", "find", "replay", "mark", "check", "revoke", "issue", "link",
               "refused", "issued"}

OAuthTypeOK ==
  /\ client \in {"active", "inactive", "gone"}
  /\ code \in [Codes -> CodeStates] /\ codeScope \in [Codes -> SUBSET Scopes]
  /\ access \in [Grants -> TokenStates] /\ refresh \in [Grants -> TokenStates]
  /\ staleCodes \subseteq Codes
  /\ staleAccess \subseteq Grants /\ staleRefresh \subseteq Grants
  /\ at \in [Grants -> GrantSteps]
  /\ presented \in [Grants -> Codes \cup Grants \cup {None}]
  /\ family \in [Grants -> Codes \cup {None}]
  /\ scope \in [Grants -> SUBSET Scopes]
  /\ raced \subseteq Grants /\ cut \subseteq Grants /\ ended \subseteq Codes
  /\ oauthFaults \in 0..MaxFaults

OAuthInit ==
  /\ client = "active"
  /\ code = [c \in Codes |-> "none"] /\ codeScope = [c \in Codes |-> {}]
  /\ access = [g \in Grants |-> "none"] /\ refresh = [g \in Grants |-> "none"]
  /\ staleCodes = {} /\ staleAccess = {} /\ staleRefresh = {}
  /\ at = [g \in Grants |-> "new"] /\ presented = [g \in Grants |-> None]
  /\ family = [g \in Grants |-> None] /\ scope = [g \in Grants |-> {}]
  /\ raced = {} /\ cut = {} /\ ended = {}
  /\ oauthFaults = 0

To(g, step) == at' = [at EXCEPT ![g] = step]

\* A node that is there.
Stored(state) == state \in {"valid", "revoked"}

\* MATCH ... SET isRevoked = true: nothing happens to a node that is not there.
Revoked(state) == IF state = "valid" THEN "revoked" ELSE state

Deleted(state) == IF Stored(state) THEN "gone" ELSE state

-----------------------------------------------------------------------------
(* The authorization endpoint. *)

\* initiateAuthorization validates the client and the scopes asked for,
Authorize(c, s) ==
  /\ client = "active" /\ code[c] = "none"
  /\ code' = [code EXCEPT ![c] = "approved"]
  /\ codeScope' = [codeScope EXCEPT ![c] = s]
  /\ UNCHANGED <<client, tokens, clocks, at, data, history, oauthFaults>>

\* and stores the code, if the client is still there: the query matches it.
StoreCode(c) ==
  /\ code[c] = "approved"
  /\ code' = [code EXCEPT ![c] = IF client = "gone" THEN "gone" ELSE "fresh"]
  /\ UNCHANGED <<client, codeScope, tokens, clocks, at, data, history, oauthFaults>>

-----------------------------------------------------------------------------
(* The token endpoint: grant_type authorization_code. *)

\* validateClient has found the client active and its secret right.
BeginExchange(g, c) ==
  /\ at[g] = "new" /\ client = "active" /\ code[c] \notin {"none", "approved"}
  /\ To(g, "find")
  /\ presented' = [presented EXCEPT ![g] = c]
  /\ family' = [family EXCEPT ![g] = c]
  /\ UNCHANGED <<client, code, codeScope, tokens, clocks, scope, history, oauthFaults>>

\* The code is looked up.  A code that was used is a replay.
FindCode(g) ==
  LET c == presented[g]
  IN /\ at[g] = "find"
     /\ \/ code[c] = "used" /\ To(g, "replay")
        \/ code[c] = "fresh" /\ c \notin staleCodes /\ To(g, "mark")
        \/ (code[c] = "gone" \/ (code[c] = "fresh" /\ c \in staleCodes)) /\ To(g, "refused")
     /\ UNCHANGED <<client, code, codeScope, tokens, clocks, data, history, oauthFaults>>

\* Mutant: the refresh tokens linked to the revoked access tokens stay.
RevokeAllAccessOnly(g) ==
  /\ at[g] = "replay"
  /\ access' = [h \in Grants |-> IF family[h] = None THEN access[h] ELSE Revoked(access[h])]
  /\ cut' = cut \cup {h \in Grants : at[h] = "issued" /\ family[h] # None}
  /\ ended' = ended \cup Codes
  /\ To(g, "refused")
  /\ UNCHANGED <<client, code, codeScope, refresh, clocks, data, raced, oauthFaults>>

\* revokeAllUserTokens: every access token of this user and client, and the
\* refresh token linked to each; the request is refused.
RevokeAll(g) ==
  /\ at[g] = "replay"
  /\ access' = [h \in Grants |-> IF family[h] = None THEN access[h] ELSE Revoked(access[h])]
  /\ refresh' = [h \in Grants |-> IF family[h] # None /\ Stored(access[h])
                                    THEN Revoked(refresh[h]) ELSE refresh[h]]
  /\ cut' = cut \cup {h \in Grants : at[h] = "issued" /\ family[h] # None}
  /\ ended' = ended \cup Codes
  /\ To(g, "refused")
  /\ UNCHANGED <<client, code, codeScope, clocks, data, raced, oauthFaults>>

\* markAuthorizationCodeUsed: a MATCH on isUsed: false that matches nothing
\* does not throw, and the method returns true.
MarkCodeUsed(g) ==
  LET c == presented[g]
  IN /\ at[g] = "mark"
     /\ code' = [code EXCEPT ![c] = IF @ = "fresh" THEN "used" ELSE @]
     /\ raced' = IF code[c] = "fresh" THEN raced ELSE raced \cup {g}
     /\ scope' = [scope EXCEPT ![g] = codeScope[c]]
     /\ To(g, "issue")
     /\ UNCHANGED <<client, codeScope, tokens, clocks, presented, family, cut, ended, oauthFaults>>

-----------------------------------------------------------------------------
(* grant_type refresh_token. *)

BeginRefresh(g, h) ==
  /\ at[g] = "new" /\ client = "active" /\ refresh[h] # "none" /\ at[h] = "issued"
  /\ To(g, "check")
  /\ presented' = [presented EXCEPT ![g] = h]
  /\ family' = [family EXCEPT ![g] = family[h]]
  /\ UNCHANGED <<client, code, codeScope, tokens, clocks, scope, history, oauthFaults>>

\* validateRefreshToken; the scope may narrow but not expand.
ValidateRefresh(g, s) ==
  LET h == presented[g]
  IN /\ at[g] = "check"
     /\ IF refresh[h] = "valid" /\ h \notin staleRefresh /\ s \subseteq scope[h]
          THEN /\ scope' = [scope EXCEPT ![g] = s]
               /\ To(g, "revoke")
          ELSE To(g, "refused") /\ UNCHANGED scope
     /\ UNCHANGED <<client, code, codeScope, tokens, clocks, presented, family, history, oauthFaults>>

\* Mutant: the old refresh token stays valid.
RevokeOldNot(g) ==
  /\ at[g] = "revoke"
  /\ To(g, "issue")
  /\ UNCHANGED <<client, code, codeScope, tokens, clocks, data, history, oauthFaults>>

\* The old refresh token is revoked before the new one exists, and whether or
\* not there will be a new one.
RevokeOld(g) ==
  LET h == presented[g]
  IN /\ at[g] = "revoke"
     /\ refresh' = [refresh EXCEPT ![h] = Revoked(@)]
     /\ raced' = IF refresh[h] = "valid" THEN raced ELSE raced \cup {g}
     /\ ended' = IF Rotate THEN ended ELSE ended \cup {family[g]}
     /\ To(g, "issue")
     /\ UNCHANGED <<client, code, codeScope, access, clocks, data, cut, oauthFaults>>

-----------------------------------------------------------------------------
(* grant_type client_credentials, and what the grants share. *)

\* The client itself: an access token of no user.  Its scope matters to nobody
\* here.
BeginMachine(g) ==
  /\ at[g] = "new" /\ client = "active"
  /\ To(g, "issue")
  /\ UNCHANGED <<client, code, codeScope, tokens, clocks, data, history, oauthFaults>>

\* generateRefreshToken is called for a code, and for a refresh if rotation is on.
HasRefresh(g) == family[g] # None /\ (Rotate \/ presented[g] \in Codes)

\* createAccessToken matches the client: without one it creates nothing and
\* does not fail.
CreateAccessToken(g) ==
  /\ at[g] = "issue"
  /\ access' = [access EXCEPT ![g] = IF client = "gone" THEN "none" ELSE "valid"]
  /\ To(g, IF HasRefresh(g) THEN "link" ELSE "issued")
  /\ UNCHANGED <<client, code, codeScope, refresh, clocks, data, history, oauthFaults>>

\* createRefreshToken matches the access token.
CreateRefreshToken(g) ==
  /\ at[g] = "link"
  /\ refresh' = [refresh EXCEPT ![g] = IF Stored(access[g]) THEN "valid" ELSE "none"]
  /\ To(g, "issued")
  /\ UNCHANGED <<client, code, codeScope, access, clocks, data, history, oauthFaults>>

\* The code found does not belong to the client, the redirect URI or the
\* verifier presented with it.
Refuse(g) ==
  /\ at[g] = "find"
  /\ To(g, "refused")
  /\ UNCHANGED <<client, code, codeScope, tokens, clocks, data, history, oauthFaults>>

\* A database call throws.  What the request has spent by then stays spent.
GrantFails(g) ==
  /\ at[g] \in {"find", "replay", "mark", "check", "revoke", "issue", "link"}
  /\ oauthFaults < MaxFaults /\ oauthFaults' = oauthFaults + 1
  /\ ended' = IF at[g] \in {"issue", "link"} /\ family[g] # None
              THEN ended \cup {family[g]} ELSE ended
  /\ To(g, "refused")
  /\ UNCHANGED <<client, code, codeScope, tokens, clocks, data, raced, cut>>

-----------------------------------------------------------------------------
(* Revocation, management, time. *)

\* revokeToken: an access token alone, its refresh token stays,
RevokeAccess(g) ==
  /\ access[g] = "valid"
  /\ access' = [access EXCEPT ![g] = "revoked"]
  /\ UNCHANGED <<client, code, codeScope, refresh, clocks, at, data, history, oauthFaults>>

\* or a refresh token alone.
RevokeRefresh(g) ==
  /\ refresh[g] = "valid" /\ at[g] = "issued"
  /\ refresh' = [refresh EXCEPT ![g] = "revoked"]
  /\ ended' = ended \cup {family[g]}
  /\ UNCHANGED <<client, code, codeScope, access, clocks, at, data, raced, cut, oauthFaults>>

\* updateClient with isActive.
SetActive(b) ==
  /\ client # "gone"
  /\ client' = IF b THEN "active" ELSE "inactive"
  /\ UNCHANGED <<code, codeScope, tokens, clocks, at, data, history, oauthFaults>>

\* deleteClient: one statement over the client, its codes, its access tokens
\* and the refresh tokens linked to them.
DeleteClient ==
  /\ client # "gone"
  /\ client' = "gone"
  /\ code' = [c \in Codes |-> IF code[c] \in {"fresh", "used"} THEN "gone" ELSE code[c]]
  /\ access' = [g \in Grants |-> Deleted(access[g])]
  /\ refresh' = [g \in Grants |-> IF Stored(access[g]) THEN Deleted(refresh[g]) ELSE refresh[g]]
  /\ ended' = Codes
  /\ UNCHANGED <<codeScope, clocks, at, data, raced, cut, oauthFaults>>

\* expiresAt passes; an access token lives shorter than its refresh token.
CodeExpires(c) ==
  /\ code[c] \in {"fresh", "used"} /\ c \notin staleCodes
  /\ staleCodes' = staleCodes \cup {c}
  /\ UNCHANGED <<client, code, codeScope, tokens, staleAccess, staleRefresh, at, data, history, oauthFaults>>

AccessExpires(g) ==
  /\ Stored(access[g]) /\ g \notin staleAccess /\ at[g] = "issued"
  /\ staleAccess' = staleAccess \cup {g}
  /\ UNCHANGED <<client, code, codeScope, tokens, staleCodes, staleRefresh, at, data, history, oauthFaults>>

RefreshExpires(g) ==
  /\ Stored(refresh[g]) /\ g \in staleAccess \ staleRefresh
  /\ staleRefresh' = staleRefresh \cup {g}
  /\ ended' = ended \cup {family[g]}
  /\ UNCHANGED <<client, code, codeScope, tokens, staleCodes, staleAccess, at, data, raced, cut, oauthFaults>>

\* deleteExpiredTokens: expired access tokens, each with its refresh token
\* whether that has expired or not.  This ends the session.
CleanTokens ==
  /\ \E g \in staleAccess : Stored(access[g])
  /\ access' = [g \in Grants |-> IF g \in staleAccess THEN Deleted(access[g]) ELSE access[g]]
  /\ refresh' = [g \in Grants |-> IF g \in staleAccess /\ Stored(access[g])
                                    THEN Deleted(refresh[g]) ELSE refresh[g]]
  /\ ended' = ended \cup {family[g] : g \in {h \in staleAccess : refresh[h] = "valid"}}
  /\ UNCHANGED <<client, code, codeScope, clocks, at, data, raced, cut, oauthFaults>>

\* deleteExpiredAuthorizationCodes.
CleanCodes ==
  /\ \E c \in staleCodes : code[c] # "gone"
  /\ code' = [c \in Codes |-> IF c \in staleCodes THEN "gone" ELSE code[c]]
  /\ UNCHANGED <<client, codeScope, tokens, clocks, at, data, history, oauthFaults>>

-----------------------------------------------------------------------------
ExchangeStep(g) == (\E c \in Codes : BeginExchange(g, c)) \/ FindCode(g) \/ RevokeAll(g) \/ MarkCodeUsed(g)
RefreshStep(g) == \/ \E h \in Grants : BeginRefresh(g, h)
                  \/ \E s \in Asked : ValidateRefresh(g, s)
                  \/ RevokeOld(g)
IssueStep(g) == \/ BeginMachine(g) \/ CreateAccessToken(g)
                \/ CreateRefreshToken(g) \/ Refuse(g) \/ GrantFails(g)
TokenStep(g) == RevokeAccess(g) \/ RevokeRefresh(g) \/ AccessExpires(g) \/ RefreshExpires(g)
CodeStep(c) == (\E s \in Asked : Authorize(c, s)) \/ StoreCode(c) \/ CodeExpires(c)
ClientStep == (\E b \in BOOLEAN : SetActive(b)) \/ DeleteClient \/ CleanTokens \/ CleanCodes

OAuthNext ==
  \/ \E g \in Grants : ExchangeStep(g) \/ RefreshStep(g) \/ IssueStep(g) \/ TokenStep(g)
  \/ \E c \in Codes : CodeStep(c)
  \/ ClientStep

OAuthSpec == OAuthInit /\ [][OAuthNext]_oauthVars

-----------------------------------------------------------------------------
(* Properties. *)

\* No token, nor code, outlives its client, whatever was being issued when the
\* client was deleted: deleteClient and the MATCH of each create.
ClientTakesTokens ==
  client = "gone" => /\ \A g \in Grants : ~Stored(access[g]) /\ ~Stored(refresh[g])
                     /\ \A c \in Codes : code[c] \notin {"fresh", "used"}

\* However often a grant is refreshed, its scope stays within what the user
\* approved with the code.
ScopeNeverGrows == \A g \in Grants : family[g] # None => scope[g] \subseteq codeScope[family[g]]

\* A replayed code ends what was issued before it was noticed, the refreshed
\* tokens of the same session included.
ReplayEndsTokens == \A g \in cut : access[g] # "valid" /\ refresh[g] # "valid"

Spending(g) == at[g] \in {"issue", "link"}
Live(c) == {g \in Grants : family[g] = c /\ (refresh[g] = "valid" \/ (Spending(g) /\ HasRefresh(g)))}

\* A code has one session: at most one live refresh token, or one being
\* issued, and one more for each request that spent a code or a token at the
\* same time as another.
OneSessionUnlessRaced ==
  \A c \in Codes : Cardinality(Live(c)) <= 1 + Cardinality({g \in raced : family[g] = c})

\* Once no request is under way, a code that was used has a live refresh token,
\* unless the session was ended by a revocation, an expiry, a replay, a
\* cleanup, or a call that failed after the old token was spent.
SessionKept ==
  \A c \in Codes :
    code[c] = "used" /\ c \notin ended /\ (\A g \in Grants : at[g] \in {"new", "refused", "issued"})
      => \E g \in Grants : family[g] = c /\ refresh[g] = "valid"

\* A token and a code belong to a live client and to one approved scope: nothing
\* outlives its client, a refresh never widens the scope, and presenting a code
\* twice ends every token issued for it before.
GrantsSound == OAuthTypeOK /\ ClientTakesTokens /\ ScopeNeverGrows /\ ReplayEndsTokens

\* An approval is one session: one usable refresh token, unless requests raced,
\* and never none before the session is ended, revoked or expired.
SessionsSound == OneSessionUnlessRaced /\ SessionKept
=============================================================================
