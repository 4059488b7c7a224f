------------------------- MODULE OAuthServer_proofs -------------------------
(***************************************************************************)
(* GrantsSound for any number of codes, requests and scopes, and           *)
(* SessionsSound for any finite number of requests.                        *)
(*                                                                         *)
(* ClientTakesTokens, ScopeNeverGrows and ReplayEndsTokens are not         *)
(* inductive as they stand.  What holds them up is what a request knows    *)
(* while it waits (Knows): the code it presented is the family it issues   *)
(* in, the token it refreshes was issued in that family; how the two       *)
(* nodes of a request hang together (Linked): a refresh token is stored    *)
(* only under a stored access token, and only once the request is over;    *)
(* and that a family's scope is settled before a request joins it          *)
(* (Scoped).                                                               *)
(***************************************************************************)
EXTENDS OAuthServer, FiniteSetTheorems, TLAPS

Knows(g) ==
  /\ at[g] = "new" => family[g] = None /\ scope[g] = {}
  /\ at[g] \in {"find", "replay", "mark"} => presented[g] \in Codes /\ family[g] = presented[g]
  /\ at[g] \in {"check", "revoke", "link"} => family[g] # None
  /\ at[g] \in {"check", "revoke"} => presented[g] \in Grants
  /\ at[g] = "check" => at[presented[g]] = "issued" /\ family[presented[g]] = family[g]

Linked(g) ==
  /\ refresh[g] # "none" => at[g] = "issued" /\ family[g] # None
  /\ Stored(refresh[g]) => Stored(access[g])
  /\ g \in cut => at[g] = "issued" /\ access[g] # "valid" /\ refresh[g] # "valid"

Scoped(g) == family[g] # None => code[family[g]] # "none" /\ scope[g] \subseteq codeScope[family[g]]

OAuthInv ==
  /\ OAuthTypeOK /\ ClientTakesTokens
  /\ \A g \in Grants : Knows(g) /\ Linked(g) /\ Scoped(g)

-----------------------------------------------------------------------------
(* The invariant holds at the start, and implies what the run checks. *)

\* An empty server satisfies the invariant: no code, no token, no request.
LEMMA InvInit == OAuthInit => OAuthInv
<1> SUFFICES ASSUME OAuthInit PROVE OAuthInv
  OBVIOUS
<1>1. OAuthTypeOK
  <2>1. oauthFaults \in 0..MaxFaults
    BY OAuthAssumption, SMT DEF OAuthInit
  <2>2. QED
    BY <2>1, SMT DEF OAuthInit, OAuthTypeOK, CodeStates, TokenStates, GrantSteps
<1>2. ClientTakesTokens
  BY DEF OAuthInit, ClientTakesTokens
<1>3. ASSUME NEW g \in Grants PROVE Knows(g) /\ Linked(g) /\ Scoped(g)
  BY SMT DEF OAuthInit, Knows, Linked, Scoped
<1>4. QED
  BY <1>1, <1>2, <1>3 DEF OAuthInv

\* The invariant is a strengthening of the composite property of the run.
LEMMA InvSound == OAuthInv => GrantsSound
<1> SUFFICES ASSUME OAuthInv PROVE GrantsSound
  OBVIOUS
<1>1. ScopeNeverGrows
  BY DEF OAuthInv, Scoped, ScopeNeverGrows
<1>2. ReplayEndsTokens
  BY DEF OAuthInv, OAuthTypeOK, Linked, ReplayEndsTokens
<1>3. QED
  BY <1>1, <1>2 DEF OAuthInv, GrantsSound

-----------------------------------------------------------------------------
(* Each action preserves the invariant. *)

\* The scope of a code is set while no request has it as its family.
LEMMA AuthorizeStep ==
  ASSUME OAuthInv, NEW c \in Codes, NEW s \in Asked, Authorize(c, s)
  PROVE  OAuthInv'
<1> USE DEF Authorize, tokens, clocks, data, history, Asked
<1>1. OAuthTypeOK'
  BY SMT DEF OAuthInv, OAuthTypeOK, CodeStates
<1>2. ClientTakesTokens'
  BY SMT DEF ClientTakesTokens
<1>3. ASSUME NEW k \in Grants PROVE Knows(k)'
  BY SMT DEF OAuthInv, Knows
<1>4. ASSUME NEW k \in Grants PROVE Linked(k)'
  BY SMT DEF OAuthInv, Linked
<1>5. ASSUME NEW k \in Grants PROVE Scoped(k)'
  BY SMT DEF OAuthInv, Scoped
<1>6. QED
  BY <1>1, <1>2, <1>3, <1>4, <1>5 DEF OAuthInv

\* A code is stored only under a client that is there.
LEMMA StoreCodeStep ==
  ASSUME OAuthInv, NEW c \in Codes, StoreCode(c)
  PROVE  OAuthInv'
<1> USE DEF StoreCode, tokens, clocks, data, history
<1>1. OAuthTypeOK'
  BY SMT DEF OAuthInv, OAuthTypeOK, CodeStates
<1>2. ClientTakesTokens'
  BY SMT DEF OAuthInv, ClientTakesTokens
<1>3. ASSUME NEW k \in Grants PROVE Knows(k)'
  BY SMT DEF OAuthInv, Knows
<1>4. ASSUME NEW k \in Grants PROVE Linked(k)'
  BY SMT DEF OAuthInv, Linked
<1>5. ASSUME NEW k \in Grants PROVE Scoped(k)'
  BY SMT DEF OAuthInv, Scoped
<1>6. QED
  BY <1>1, <1>2, <1>3, <1>4, <1>5 DEF OAuthInv

\* A request joins the family of the code it presents.
LEMMA BeginExchangeStep ==
  ASSUME OAuthInv, NEW g \in Grants, NEW c \in Codes, BeginExchange(g, c)
  PROVE  OAuthInv'
<1> USE DEF BeginExchange, tokens, clocks, history, To
<1>1. OAuthTypeOK'
  BY SMT DEF OAuthInv, OAuthTypeOK, GrantSteps
<1>2. ClientTakesTokens'
  BY SMT DEF ClientTakesTokens
<1>3. ASSUME NEW k \in Grants PROVE Knows(k)'
  BY SMT DEF OAuthInv, OAuthTypeOK, Knows
<1>4. ASSUME NEW k \in Grants PROVE Linked(k)'
  BY SMT DEF OAuthInv, Linked
<1>5. ASSUME NEW k \in Grants PROVE Scoped(k)'
  BY SMT DEF OAuthInv, Knows, Scoped
<1>6. QED
  BY <1>1, <1>2, <1>3, <1>4, <1>5 DEF OAuthInv

\* Looking a code up moves the request alone.
LEMMA FindCodeStep ==
  ASSUME OAuthInv, NEW g \in Grants, FindCode(g)
  PROVE  OAuthInv'
<1> USE DEF FindCode, tokens, clocks, data, history, To
<1>1. OAuthTypeOK'
  BY SMT DEF OAuthInv, OAuthTypeOK, GrantSteps
<1>2. ClientTakesTokens'
  BY SMT DEF OAuthInv, ClientTakesTokens
<1>3. ASSUME NEW k \in Grants PROVE Knows(k)'
  BY SMT DEF OAuthInv, OAuthTypeOK, Knows
<1>4. ASSUME NEW k \in Grants PROVE Linked(k)'
  BY SMT DEF OAuthInv, OAuthTypeOK, Linked
<1>5. ASSUME NEW k \in Grants PROVE Scoped(k)'
  BY SMT DEF OAuthInv, Scoped
<1>6. QED
  BY <1>1, <1>2, <1>3, <1>4, <1>5 DEF OAuthInv

\* A replay revokes both nodes of every finished request: none is left valid.
LEMMA RevokeAllStep ==
  ASSUME OAuthInv, NEW g \in Grants, RevokeAll(g)
  PROVE  OAuthInv'
<1> USE DEF RevokeAll, clocks, data, To
<1>1. OAuthTypeOK'
  BY SMT DEF OAuthInv, OAuthTypeOK, TokenStates, GrantSteps, Revoked
<1>2. ClientTakesTokens'
  BY SMT DEF OAuthInv, ClientTakesTokens, Stored, Revoked
<1>3. ASSUME NEW k \in Grants PROVE Knows(k)'
  BY SMT DEF OAuthInv, Knows
<1>4. ASSUME NEW k \in Grants PROVE Linked(k)'
  BY SMT DEF OAuthInv, Linked, Stored, Revoked
<1>5. ASSUME NEW k \in Grants PROVE Scoped(k)'
  BY SMT DEF OAuthInv, Scoped
<1>6. QED
  BY <1>1, <1>2, <1>3, <1>4, <1>5 DEF OAuthInv

\* The scope of a request is the one its code was approved for.
LEMMA MarkCodeUsedStep ==
  ASSUME OAuthInv, NEW g \in Grants, MarkCodeUsed(g)
  PROVE  OAuthInv'
<1> USE DEF MarkCodeUsed, tokens, clocks, To
<1>1. OAuthTypeOK'
  BY SMT DEF OAuthInv, OAuthTypeOK, Knows, CodeStates, GrantSteps
<1>2. ClientTakesTokens'
  BY SMT DEF OAuthInv, ClientTakesTokens
<1>3. ASSUME NEW k \in Grants PROVE Knows(k)'
  BY SMT DEF OAuthInv, Knows
<1>4. ASSUME NEW k \in Grants PROVE Linked(k)'
  BY SMT DEF OAuthInv, Linked
<1>5. ASSUME NEW k \in Grants PROVE Scoped(k)'
  BY SMT DEF OAuthInv, Knows, Scoped
<1>6. QED
  BY <1>1, <1>2, <1>3, <1>4, <1>5 DEF OAuthInv

\* A refresh joins the family of the token it presents.
LEMMA BeginRefreshStep ==
  ASSUME OAuthInv, NEW g \in Grants, NEW h \in Grants, BeginRefresh(g, h)
  PROVE  OAuthInv'
<1> USE DEF BeginRefresh, tokens, clocks, history, To
<1>1. OAuthTypeOK'
  BY SMT DEF OAuthInv, OAuthTypeOK, GrantSteps
<1>2. ClientTakesTokens'
  BY SMT DEF ClientTakesTokens
<1>3. ASSUME NEW k \in Grants PROVE Knows(k)'
  BY SMT DEF OAuthInv, OAuthTypeOK, Knows, Linked
<1>4. ASSUME NEW k \in Grants PROVE Linked(k)'
  BY SMT DEF OAuthInv, Linked
<1>5. ASSUME NEW k \in Grants PROVE Scoped(k)'
  BY SMT DEF OAuthInv, Knows, Scoped
<1>6. QED
  BY <1>1, <1>2, <1>3, <1>4, <1>5 DEF OAuthInv

\* A narrowed scope stays within that of the token presented.
LEMMA ValidateRefreshStep ==
  ASSUME OAuthInv, NEW g \in Grants, NEW s \in Asked, ValidateRefresh(g, s)
  PROVE  OAuthInv'
<1> USE DEF ValidateRefresh, tokens, clocks, history, To, Asked
<1>1. OAuthTypeOK'
  BY SMT DEF OAuthInv, OAuthTypeOK, GrantSteps
<1>2. ClientTakesTokens'
  BY SMT DEF OAuthInv, ClientTakesTokens
<1>3. ASSUME NEW k \in Grants PROVE Knows(k)'
  BY SMT DEF OAuthInv, OAuthTypeOK, Knows
<1>4. ASSUME NEW k \in Grants PROVE Linked(k)'
  BY SMT DEF OAuthInv, OAuthTypeOK, Linked
<1>5. ASSUME NEW k \in Grants PROVE Scoped(k)'
  BY SMT DEF OAuthInv, OAuthTypeOK, Knows, Scoped
<1>6. QED
  BY <1>1, <1>2, <1>3, <1>4, <1>5 DEF OAuthInv

\* A refresh token that is spent is revoked, and its family is known.
LEMMA RevokeOldStep ==
  ASSUME OAuthInv, NEW g \in Grants, RevokeOld(g)
  PROVE  OAuthInv'
<1> USE DEF RevokeOld, clocks, data, To
<1>1. OAuthTypeOK'
  <2>1. refresh' \in [Grants -> TokenStates]
    BY SMT DEF OAuthInv, OAuthTypeOK, Knows, TokenStates, Revoked
  <2>2. at' \in [Grants -> GrantSteps] /\ raced' \subseteq Grants
    BY SMT DEF OAuthInv, OAuthTypeOK, GrantSteps
  <2>3. ended' \subseteq Codes
    BY SMT DEF OAuthInv, OAuthTypeOK, Knows
  <2>4. QED
    BY <2>1, <2>2, <2>3 DEF OAuthInv, OAuthTypeOK
<1>2. ClientTakesTokens'
  BY SMT DEF OAuthInv, ClientTakesTokens, Stored, Revoked
<1>3. ASSUME NEW k \in Grants PROVE Knows(k)'
  BY SMT DEF OAuthInv, Knows
<1>4. ASSUME NEW k \in Grants PROVE Linked(k)'
  BY SMT DEF OAuthInv, Linked, Stored, Revoked
<1>5. ASSUME NEW k \in Grants PROVE Scoped(k)'
  BY SMT DEF OAuthInv, Scoped
<1>6. QED
  BY <1>1, <1>2, <1>3, <1>4, <1>5 DEF OAuthInv

\* A client that asks for itself joins no family.
LEMMA BeginMachineStep ==
  ASSUME OAuthInv, NEW g \in Grants, BeginMachine(g)
  PROVE  OAuthInv'
<1> USE DEF BeginMachine, tokens, clocks, data, history, To
<1>1. OAuthTypeOK'
  BY SMT DEF OAuthInv, OAuthTypeOK, GrantSteps
<1>2. ClientTakesTokens'
  BY SMT DEF ClientTakesTokens
<1>3. ASSUME NEW k \in Grants PROVE Knows(k)'
  BY SMT DEF OAuthInv, Knows
<1>4. ASSUME NEW k \in Grants PROVE Linked(k)'
  BY SMT DEF OAuthInv, Linked
<1>5. ASSUME NEW k \in Grants PROVE Scoped(k)'
  BY SMT DEF OAuthInv, Scoped
<1>6. QED
  BY <1>1, <1>2, <1>3, <1>4, <1>5 DEF OAuthInv

\* Without a client no access token is stored.
LEMMA CreateAccessTokenStep ==
  ASSUME OAuthInv, NEW g \in Grants, CreateAccessToken(g)
  PROVE  OAuthInv'
<1> USE DEF CreateAccessToken, clocks, data, history, To
<1>1. OAuthTypeOK'
  BY SMT DEF OAuthInv, OAuthTypeOK, TokenStates, GrantSteps
<1>2. ClientTakesTokens'
  BY SMT DEF OAuthInv, ClientTakesTokens, Linked
<1>3. ASSUME NEW k \in Grants PROVE Knows(k)'
  BY SMT DEF OAuthInv, Knows, HasRefresh
<1>4. ASSUME NEW k \in Grants PROVE Linked(k)'
  BY SMT DEF OAuthInv, Linked, Stored
<1>5. ASSUME NEW k \in Grants PROVE Scoped(k)'
  BY SMT DEF OAuthInv, Scoped
<1>6. QED
  BY <1>1, <1>2, <1>3, <1>4, <1>5 DEF OAuthInv

\* A refresh token is stored under a stored access token.
LEMMA CreateRefreshTokenStep ==
  ASSUME OAuthInv, NEW g \in Grants, CreateRefreshToken(g)
  PROVE  OAuthInv'
<1> USE DEF CreateRefreshToken, clocks, data, history, To
<1>1. OAuthTypeOK'
  BY SMT DEF OAuthInv, OAuthTypeOK, TokenStates, GrantSteps
<1>2. ClientTakesTokens'
  BY SMT DEF OAuthInv, ClientTakesTokens, Linked
<1>3. ASSUME NEW k \in Grants PROVE Knows(k)'
  BY SMT DEF OAuthInv, Knows
<1>4. ASSUME NEW k \in Grants PROVE Linked(k)'
  BY SMT DEF OAuthInv, OAuthTypeOK, Knows, Linked
<1>5. ASSUME NEW k \in Grants PROVE Scoped(k)'
  BY SMT DEF OAuthInv, Scoped
<1>6. QED
  BY <1>1, <1>2, <1>3, <1>4, <1>5 DEF OAuthInv

\* A request refused over its own contents has no token.
LEMMA RefuseStep ==
  ASSUME OAuthInv, NEW g \in Grants, Refuse(g)
  PROVE  OAuthInv'
<1> USE DEF Refuse, tokens, clocks, data, history, To
<1>1. OAuthTypeOK'
  BY SMT DEF OAuthInv, OAuthTypeOK, GrantSteps
<1>2. ClientTakesTokens'
  BY SMT DEF OAuthInv, ClientTakesTokens
<1>3. ASSUME NEW k \in Grants PROVE Knows(k)'
  BY SMT DEF OAuthInv, Knows
<1>4. ASSUME NEW k \in Grants PROVE Linked(k)'
  BY SMT DEF OAuthInv, Linked
<1>5. ASSUME NEW k \in Grants PROVE Scoped(k)'
  BY SMT DEF OAuthInv, Scoped
<1>6. QED
  BY <1>1, <1>2, <1>3, <1>4, <1>5 DEF OAuthInv

\* A call that throws leaves the nodes as they are.
LEMMA GrantFailsStep ==
  ASSUME OAuthInv, NEW g \in Grants, GrantFails(g)
  PROVE  OAuthInv'
<1> USE OAuthAssumption DEF GrantFails, tokens, clocks, data, To
<1>1. OAuthTypeOK'
  BY SMT DEF OAuthInv, OAuthTypeOK, GrantSteps
<1>2. ClientTakesTokens'
  BY SMT DEF OAuthInv, ClientTakesTokens
<1>3. ASSUME NEW k \in Grants PROVE Knows(k)'
  BY SMT DEF OAuthInv, Knows
<1>4. ASSUME NEW k \in Grants PROVE Linked(k)'
  BY SMT DEF OAuthInv, Linked
<1>5. ASSUME NEW k \in Grants PROVE Scoped(k)'
  BY SMT DEF OAuthInv, Scoped
<1>6. QED
  BY <1>1, <1>2, <1>3, <1>4, <1>5 DEF OAuthInv

\* Revoking an access token leaves its refresh token under a stored node.
LEMMA RevokeAccessStep ==
  ASSUME OAuthInv, NEW g \in Grants, RevokeAccess(g)
  PROVE  OAuthInv'
<1> USE DEF RevokeAccess, clocks, data, history
<1>1. OAuthTypeOK'
  BY SMT DEF OAuthInv, OAuthTypeOK, TokenStates
<1>2. ClientTakesTokens'
  BY SMT DEF OAuthInv, ClientTakesTokens, Stored
<1>3. ASSUME NEW k \in Grants PROVE Knows(k)'
  BY SMT DEF OAuthInv, Knows
<1>4. ASSUME NEW k \in Grants PROVE Linked(k)'
  BY SMT DEF OAuthInv, Linked, Stored
<1>5. ASSUME NEW k \in Grants PROVE Scoped(k)'
  BY SMT DEF OAuthInv, Scoped
<1>6. QED
  BY <1>1, <1>2, <1>3, <1>4, <1>5 DEF OAuthInv

\* A refresh token on its own may be revoked.
LEMMA RevokeRefreshStep ==
  ASSUME OAuthInv, NEW g \in Grants, RevokeRefresh(g)
  PROVE  OAuthInv'
<1> USE DEF RevokeRefresh, clocks, data
<1>1. OAuthTypeOK'
  BY SMT DEF OAuthInv, OAuthTypeOK, Linked, TokenStates
<1>2. ClientTakesTokens'
  BY SMT DEF OAuthInv, ClientTakesTokens, Stored
<1>3. ASSUME NEW k \in Grants PROVE Knows(k)'
  BY SMT DEF OAuthInv, Knows
<1>4. ASSUME NEW k \in Grants PROVE Linked(k)'
  BY SMT DEF OAuthInv, Linked, Stored
<1>5. ASSUME NEW k \in Grants PROVE Scoped(k)'
  BY SMT DEF OAuthInv, Scoped
<1>6. QED
  BY <1>1, <1>2, <1>3, <1>4, <1>5 DEF OAuthInv

\* Time marks an access token stale.
LEMMA AccessExpiresStep ==
  ASSUME OAuthInv, NEW g \in Grants, AccessExpires(g)
  PROVE  OAuthInv'
<1> USE DEF AccessExpires, tokens, data, history
<1>1. OAuthTypeOK'
  BY SMT DEF OAuthInv, OAuthTypeOK
<1>2. ClientTakesTokens'
  BY SMT DEF OAuthInv, ClientTakesTokens
<1>3. ASSUME NEW k \in Grants PROVE Knows(k)'
  BY SMT DEF OAuthInv, Knows
<1>4. ASSUME NEW k \in Grants PROVE Linked(k)'
  BY SMT DEF OAuthInv, Linked
<1>5. ASSUME NEW k \in Grants PROVE Scoped(k)'
  BY SMT DEF OAuthInv, Scoped
<1>6. QED
  BY <1>1, <1>2, <1>3, <1>4, <1>5 DEF OAuthInv

\* Time marks a refresh token of a known family stale.
LEMMA RefreshExpiresStep ==
  ASSUME OAuthInv, NEW g \in Grants, RefreshExpires(g)
  PROVE  OAuthInv'
<1> USE DEF RefreshExpires, tokens, data
<1>1. OAuthTypeOK'
  BY SMT DEF OAuthInv, OAuthTypeOK, Linked, Stored
<1>2. ClientTakesTokens'
  BY SMT DEF OAuthInv, ClientTakesTokens
<1>3. ASSUME NEW k \in Grants PROVE Knows(k)'
  BY SMT DEF OAuthInv, Knows
<1>4. ASSUME NEW k \in Grants PROVE Linked(k)'
  BY SMT DEF OAuthInv, Linked
<1>5. ASSUME NEW k \in Grants PROVE Scoped(k)'
  BY SMT DEF OAuthInv, Scoped
<1>6. QED
  BY <1>1, <1>2, <1>3, <1>4, <1>5 DEF OAuthInv

\* Time marks a code stale.
LEMMA CodeExpiresStep ==
  ASSUME OAuthInv, NEW c \in Codes, CodeExpires(c)
  PROVE  OAuthInv'
<1> USE DEF CodeExpires, tokens, data, history
<1>1. OAuthTypeOK'
  BY SMT DEF OAuthInv, OAuthTypeOK
<1>2. ClientTakesTokens'
  BY SMT DEF OAuthInv, ClientTakesTokens
<1>3. ASSUME NEW k \in Grants PROVE Knows(k)'
  BY SMT DEF OAuthInv, Knows
<1>4. ASSUME NEW k \in Grants PROVE Linked(k)'
  BY SMT DEF OAuthInv, Linked
<1>5. ASSUME NEW k \in Grants PROVE Scoped(k)'
  BY SMT DEF OAuthInv, Scoped
<1>6. QED
  BY <1>1, <1>2, <1>3, <1>4, <1>5 DEF OAuthInv

\* A deactivated client keeps its nodes.
LEMMA SetActiveStep ==
  ASSUME OAuthInv, NEW b \in BOOLEAN, SetActive(b)
  PROVE  OAuthInv'
<1> USE DEF SetActive, tokens, clocks, data, history
<1>1. OAuthTypeOK'
  BY SMT DEF OAuthInv, OAuthTypeOK
<1>2. ClientTakesTokens'
  BY SMT DEF ClientTakesTokens
<1>3. ASSUME NEW k \in Grants PROVE Knows(k)'
  BY SMT DEF OAuthInv, Knows
<1>4. ASSUME NEW k \in Grants PROVE Linked(k)'
  BY SMT DEF OAuthInv, Linked
<1>5. ASSUME NEW k \in Grants PROVE Scoped(k)'
  BY SMT DEF OAuthInv, Scoped
<1>6. QED
  BY <1>1, <1>2, <1>3, <1>4, <1>5 DEF OAuthInv

\* The client takes every node linked to it.
LEMMA DeleteClientStep ==
  ASSUME OAuthInv, DeleteClient
  PROVE  OAuthInv'
<1> USE DEF DeleteClient, clocks, data
<1>1. OAuthTypeOK'
  <2>1. access' \in [Grants -> TokenStates] /\ refresh' \in [Grants -> TokenStates]
    BY SMT DEF OAuthInv, OAuthTypeOK, TokenStates, Deleted
  <2>2. code' \in [Codes -> CodeStates]
    BY SMT DEF OAuthInv, OAuthTypeOK, CodeStates
  <2>3. client' = "gone" /\ ended' = Codes /\ UNCHANGED <<codeScope, clocks, at, data, raced, cut, oauthFaults>>
    OBVIOUS
  <2>4. QED
    BY <2>1, <2>2, Zenon DEF OAuthInv, OAuthTypeOK
<1>2. ClientTakesTokens'
  BY SMT DEF OAuthInv, ClientTakesTokens, Linked, Stored, Deleted
<1>3. ASSUME NEW k \in Grants PROVE Knows(k)'
  BY SMT DEF OAuthInv, Knows
<1>4. ASSUME NEW k \in Grants PROVE Linked(k)'
  BY SMT DEF OAuthInv, Linked, Stored, Deleted
<1>5. ASSUME NEW k \in Grants PROVE Scoped(k)'
  BY SMT DEF OAuthInv, OAuthTypeOK, Scoped
<1>6. QED
  BY <1>1, <1>2, <1>3, <1>4, <1>5 DEF OAuthInv

\* The cleanup deletes a refresh token with its access token.
LEMMA CleanTokensStep ==
  ASSUME OAuthInv, CleanTokens
  PROVE  OAuthInv'
<1> USE DEF CleanTokens, clocks, data
<1>1. OAuthTypeOK'
  BY SMT DEF OAuthInv, OAuthTypeOK, Linked, TokenStates, Deleted
<1>2. ClientTakesTokens'
  BY SMT DEF OAuthInv, OAuthTypeOK, ClientTakesTokens
<1>3. ASSUME NEW k \in Grants PROVE Knows(k)'
  BY SMT DEF OAuthInv, Knows
<1>4. ASSUME NEW k \in Grants PROVE Linked(k)'
  BY SMT DEF OAuthInv, Linked, Stored, Deleted
<1>5. ASSUME NEW k \in Grants PROVE Scoped(k)'
  BY SMT DEF OAuthInv, Scoped
<1>6. QED
  BY <1>1, <1>2, <1>3, <1>4, <1>5 DEF OAuthInv

\* The cleanup of codes takes none back to before it was issued.
LEMMA CleanCodesStep ==
  ASSUME OAuthInv, CleanCodes
  PROVE  OAuthInv'
<1> USE DEF CleanCodes, tokens, clocks, data, history
<1>1. OAuthTypeOK'
  BY SMT DEF OAuthInv, OAuthTypeOK, CodeStates
<1>2. ClientTakesTokens'
  BY SMT DEF OAuthInv, ClientTakesTokens
<1>3. ASSUME NEW k \in Grants PROVE Knows(k)'
  BY SMT DEF OAuthInv, Knows
<1>4. ASSUME NEW k \in Grants PROVE Linked(k)'
  BY SMT DEF OAuthInv, Linked
<1>5. ASSUME NEW k \in Grants PROVE Scoped(k)'
  BY SMT DEF OAuthInv, OAuthTypeOK, Scoped
<1>6. QED
  BY <1>1, <1>2, <1>3, <1>4, <1>5 DEF OAuthInv

\* A step that changes nothing preserves the invariant.
LEMMA StutterStep == OAuthInv /\ UNCHANGED oauthVars => OAuthInv'
BY DEF OAuthInv, OAuthTypeOK, ClientTakesTokens, Knows, Linked, Scoped, oauthVars, tokens,
   clocks, data, history

-----------------------------------------------------------------------------
(* The theorems. *)

\* Every step of the server preserves the invariant.
THEOREM Inductive == OAuthInv /\ [OAuthNext]_oauthVars => OAuthInv'
<1> SUFFICES ASSUME OAuthInv, [OAuthNext]_oauthVars PROVE OAuthInv'
  OBVIOUS
<1>1. ASSUME NEW g \in Grants, ExchangeStep(g) PROVE OAuthInv'
  BY <1>1, BeginExchangeStep, FindCodeStep, RevokeAllStep, MarkCodeUsedStep,
     Zenon DEF ExchangeStep
<1>2. ASSUME NEW g \in Grants, RefreshStep(g) PROVE OAuthInv'
  BY <1>2, BeginRefreshStep, ValidateRefreshStep, RevokeOldStep, Zenon DEF RefreshStep
<1>3. ASSUME NEW g \in Grants, IssueStep(g) PROVE OAuthInv'
  BY <1>3, BeginMachineStep, CreateAccessTokenStep, CreateRefreshTokenStep, RefuseStep,
     GrantFailsStep, Zenon DEF IssueStep
<1>4. ASSUME NEW g \in Grants, TokenStep(g) PROVE OAuthInv'
  BY <1>4, RevokeAccessStep, RevokeRefreshStep, AccessExpiresStep, RefreshExpiresStep,
     Zenon DEF TokenStep
<1>5. ASSUME NEW c \in Codes, CodeStep(c) PROVE OAuthInv'
  BY <1>5, AuthorizeStep, StoreCodeStep, CodeExpiresStep, Zenon DEF CodeStep
<1>6. CASE ClientStep
  BY <1>6, SetActiveStep, DeleteClientStep, CleanTokensStep, CleanCodesStep,
     Zenon DEF ClientStep
<1>7. CASE UNCHANGED oauthVars
  BY <1>7, StutterStep
<1>8. QED
  BY <1>1, <1>2, <1>3, <1>4, <1>5, <1>6, <1>7, Zenon DEF OAuthNext

\* The invariant holds in every state the server reaches.
THEOREM AlwaysInv == OAuthSpec => []OAuthInv
BY InvInit, Inductive, PTL DEF OAuthSpec

\* Tokens and codes end with their client, a refresh never widens the scope the
\* user approved, and a replayed code leaves no token of a finished request
\* valid: for every number of codes, requests and scopes, with rotation or
\* without.
THEOREM TokensSound == OAuthSpec => []GrantsSound
BY AlwaysInv, InvSound, PTL

-----------------------------------------------------------------------------
(* One session per approval.  A code is used by a request that then issues  *)
(* its first refresh token; a refresh spends one token for the next.  So    *)
(* the live tokens of a code, counting those about to be issued, are none   *)
(* before it is used, and then one more only when a request spends what     *)
(* another has spent already.                                               *)

\* What a request that spends knows: the token presented is another's, of the
\* same code; the access token it links to is stored; it has not raced yet.
Spends(g) ==
  /\ family[g] # None => code[family[g]] \notin {"none", "approved"}
  /\ at[g] = "revoke" => at[presented[g]] = "issued" /\ family[presented[g]] = family[g]
  /\ at[g] = "link" => HasRefresh(g) /\ (family[g] \in ended \/ Stored(access[g]))
  /\ at[g] \in {"new", "find", "replay", "mark", "check", "revoke"} => g \notin raced
  /\ g \in staleAccess => at[g] = "issued"
  /\ family[g] # None /\ code[family[g]] = "fresh" => at[g] \in {"find", "replay", "mark", "refused"}

RacedOf(c) == {g \in raced : family[g] = c}
Bounded(c) == Cardinality(Live(c)) <= 1 + Cardinality(RacedOf(c))
Kept(c) == code[c] = "used" /\ c \notin ended => Live(c) # {}

SessionInv ==
  /\ client = "gone" => Codes \subseteq ended
  /\ \A g \in Grants : Spends(g)
  /\ \A c \in Codes : Bounded(c) /\ Kept(c)

\* The sets counted are finite.
LEMMA LivePieces ==
  ASSUME IsFiniteSet(Grants), OAuthTypeOK, NEW c
  PROVE  /\ IsFiniteSet(Live(c)) /\ IsFiniteSet(RacedOf(c))
         /\ Cardinality(Live(c)) \in Nat /\ Cardinality(RacedOf(c)) \in Nat
<1>1. Live(c) \subseteq Grants /\ RacedOf(c) \subseteq Grants
  BY DEF Live, RacedOf, OAuthTypeOK
<1> QED
  BY <1>1, FS_Subset, FS_CardinalityType

\* A step that adds no live token, forgets no race, and leaves a kept session
\* its tokens.
LEMMA SessionCalm ==
  ASSUME IsFiniteSet(Grants), OAuthTypeOK, OAuthTypeOK', SessionInv,
         client' = "gone" => Codes \subseteq ended',
         \A g \in Grants : Spends(g)',
         raced \subseteq raced',
         \A g \in raced : family'[g] = family[g],
         \A c \in Codes, g \in Grants : g \in Live(c)' => g \in Live(c),
         \A c \in Codes : code'[c] = "used" /\ c \notin ended' =>
           code[c] = "used" /\ c \notin ended /\ \A g \in Grants : g \in Live(c) => g \in Live(c)'
  PROVE  SessionInv'
<1>1. ASSUME NEW c \in Codes PROVE Bounded(c)'
  <2>1. Live(c)' \subseteq Live(c)
    BY DEF Live
  <2>2. RacedOf(c) \subseteq RacedOf(c)'
    BY DEF RacedOf
  <2>3. /\ IsFiniteSet(Live(c)) /\ IsFiniteSet(RacedOf(c)')
        /\ Cardinality(Live(c)) \in Nat /\ Cardinality(RacedOf(c)) \in Nat
        /\ Cardinality(Live(c)') \in Nat /\ Cardinality(RacedOf(c)') \in Nat
    <3>1. (IsFiniteSet(Grants) /\ OAuthTypeOK)' => (IsFiniteSet(RacedOf(c)) /\ Cardinality(Live(c)) \in Nat /\ Cardinality(RacedOf(c)) \in Nat)'
      BY LivePieces, PTL
    <3> QED
      BY <3>1, LivePieces
  <2>4. Cardinality(Live(c)') <= Cardinality(Live(c)) /\ Cardinality(RacedOf(c)) <= Cardinality(RacedOf(c)')
    BY <2>1, <2>2, <2>3, FS_Subset
  <2> QED
    BY <2>3, <2>4 DEF SessionInv, Bounded
<1>2. ASSUME NEW c \in Codes PROVE Kept(c)'
  <2>1. Live(c) \subseteq Grants
    BY DEF Live
  <2> QED
    BY <2>1 DEF SessionInv, Kept
<1> QED
  BY <1>1, <1>2 DEF SessionInv

\* The bound, from what joins the live tokens and what joins the races.
LEMMA OneMore ==
  ASSUME NEW L, NEW R, NEW L2, NEW R2, NEW x,
         IsFiniteSet(L), IsFiniteSet(R), IsFiniteSet(L2), IsFiniteSet(R2),
         Cardinality(L) <= 1 + Cardinality(R),
         \/ L = {} /\ L2 \subseteq {x}
         \/ L2 \subseteq L \cup {x} /\ R2 = R \cup {x} /\ x \notin R
         \/ \E y \in L : L2 \subseteq (L \ {y}) \cup {x} /\ R2 = R
         \/ L2 \subseteq L /\ R2 = R
  PROVE  Cardinality(L2) <= 1 + Cardinality(R2)
<1>0. Cardinality(L) \in Nat /\ Cardinality(R) \in Nat /\ Cardinality(L2) \in Nat /\ Cardinality(R2) \in Nat
  BY FS_CardinalityType
<1>1. CASE L = {} /\ L2 \subseteq {x}
  <2>1. IsFiniteSet({x}) /\ Cardinality({x}) = 1
    BY FS_Singleton
  <2> QED
    BY <1>0, <1>1, <2>1, FS_Subset
<1>2. CASE L2 \subseteq L \cup {x} /\ R2 = R \cup {x} /\ x \notin R
  <2>1. IsFiniteSet(L \cup {x}) /\ Cardinality(L \cup {x}) \in Nat /\ Cardinality(L \cup {x}) <= Cardinality(L) + 1
    BY <1>0, FS_AddElement
  <2>2. Cardinality(R2) = Cardinality(R) + 1
    BY <1>2, FS_AddElement
  <2>3. Cardinality(L2) <= Cardinality(L \cup {x})
    BY <1>2, <2>1, FS_Subset
  <2> QED
    BY <1>0, <2>1, <2>2, <2>3
<1>3. CASE \E y \in L : L2 \subseteq (L \ {y}) \cup {x} /\ R2 = R
  <2>1. PICK y \in L : L2 \subseteq (L \ {y}) \cup {x}
    BY <1>3
  <2> DEFINE M == L \ {y}
  <2>2. IsFiniteSet(M) /\ Cardinality(M) = Cardinality(L) - 1
    BY FS_RemoveElement
  <2>3. IsFiniteSet(M \cup {x}) /\ Cardinality(M \cup {x}) \in Nat /\ Cardinality(M \cup {x}) <= Cardinality(M) + 1
    <3> HIDE DEF M
    <3>1. IsFiniteSet(M \cup {x}) /\ Cardinality(M) \in Nat
      BY <2>2, FS_AddElement, FS_CardinalityType
    <3>2. Cardinality(M \cup {x}) = IF x \in M THEN Cardinality(M) ELSE Cardinality(M) + 1
      BY <2>2, FS_AddElement
    <3> QED
      BY <3>1, <3>2
  <2>4. Cardinality(L2) <= Cardinality(M \cup {x})
    BY <2>1, <2>3, FS_Subset
  <2> HIDE DEF M
  <2> QED
    BY <1>0, <1>3, <2>2, <2>3, <2>4
<1>4. CASE L2 \subseteq L /\ R2 = R
  BY <1>0, <1>4, FS_Subset
<1> QED
  BY <1>1, <1>2, <1>3, <1>4

\* Its two interesting cases: a race, and a token spent for the next.
LEMMA OneRaced ==
  ASSUME NEW L, NEW R, NEW L2, NEW R2, NEW x,
         IsFiniteSet(L) /\ IsFiniteSet(R) /\ IsFiniteSet(L2) /\ IsFiniteSet(R2),
         Cardinality(L) <= 1 + Cardinality(R),
         L2 \subseteq L \cup {x}, R2 = R \cup {x}, x \notin R
  PROVE  Cardinality(L2) <= 1 + Cardinality(R2)
BY OneMore

LEMMA OneSpent ==
  ASSUME NEW L, NEW R, NEW L2, NEW R2, NEW x, NEW y \in L,
         IsFiniteSet(L) /\ IsFiniteSet(R) /\ IsFiniteSet(L2) /\ IsFiniteSet(R2),
         Cardinality(L) <= 1 + Cardinality(R),
         L2 \subseteq (L \ {y}) \cup {x}, R2 = R
  PROVE  Cardinality(L2) <= 1 + Cardinality(R2)
BY OneMore

\* The sets are finite in the next state as well.
LEMMA LivePiecesNext ==
  ASSUME IsFiniteSet(Grants), OAuthTypeOK', NEW c
  PROVE  IsFiniteSet(Live(c)') /\ IsFiniteSet(RacedOf(c)')
<1>1. Live(c)' \subseteq Grants /\ RacedOf(c)' \subseteq Grants
  BY DEF Live, RacedOf, OAuthTypeOK
<1> QED
  BY <1>1, FS_Subset

\* A code is used: its first token is to be issued, or the request has raced.
LEMMA MarkCodeUsedSession ==
  ASSUME IsFiniteSet(Grants), OAuthInv, SessionInv, NEW g \in Grants, MarkCodeUsed(g)
  PROVE  SessionInv'
<1> DEFINE c == presented[g]
<1> USE DEF OAuthInv
<1>1. /\ c \in Codes /\ family[g] = c /\ at[g] = "mark" /\ g \notin raced /\ c # None
      /\ \A k \in Grants : Knows(k) /\ Linked(k) /\ Spends(k)
  BY OAuthAssumption DEF MarkCodeUsed, SessionInv, Knows, Spends
<1>2. /\ at' = [at EXCEPT ![g] = "issue"]
      /\ code' = [code EXCEPT ![c] = IF code[c] = "fresh" THEN "used" ELSE code[c]]
      /\ raced' = IF code[c] = "fresh" THEN raced ELSE raced \cup {g}
      /\ UNCHANGED <<client, access, refresh, staleAccess, presented, family, ended>>
  BY DEF MarkCodeUsed, To, tokens, clocks
<1>3. OAuthTypeOK'
  BY MarkCodeUsedStep
<1>4. client' = "gone" => Codes \subseteq ended'
  BY <1>2 DEF SessionInv
<1>5. ASSUME NEW k \in Grants PROVE Spends(k)'
  BY <1>1, <1>2, SMT DEF Spends, HasRefresh, OAuthTypeOK
<1>6. ASSUME NEW d \in Codes PROVE Bounded(d)'
  <2>1. CASE d # c
    <3>1. Live(d)' \subseteq Live(d) /\ RacedOf(d)' = RacedOf(d)
      BY <1>1, <1>2, <2>1, SMT DEF Live, RacedOf, Spending, HasRefresh, OAuthTypeOK
    <3> QED
      BY <3>1, <1>3, LivePieces, LivePiecesNext, OneMore DEF Bounded, SessionInv
  <2>2. CASE d = c /\ code[c] = "fresh"
    <3>1. Live(d) = {}
      BY <1>1, <2>2, SMT DEF Live, Spending, Spends, Linked
    <3>2. Live(d)' \subseteq {g}
      BY <1>1, <1>2, <2>2, SMT DEF Live, Spending, Spends, Linked, OAuthTypeOK
    <3> QED
      <4>1. IsFiniteSet(Live(d)) /\ IsFiniteSet(RacedOf(d)) /\ IsFiniteSet(Live(d)') /\ IsFiniteSet(RacedOf(d)')
        BY <1>3, LivePieces, LivePiecesNext
      <4>2. Cardinality(Live(d)) <= 1 + Cardinality(RacedOf(d))
        BY DEF Bounded, SessionInv
      <4>3. Cardinality(Live(d)') <= 1 + Cardinality(RacedOf(d)')
        BY ONLY <3>1, <3>2, <4>1, <4>2, OneMore, Zenon
      <4> QED
        BY <4>3 DEF Bounded
  <2>3. CASE d = c /\ code[c] # "fresh"
    <3>1. Live(d)' \subseteq Live(d) \cup {g}
      BY <1>1, <1>2, <2>3, SMT DEF Live, Spending, HasRefresh, OAuthTypeOK
    <3>2. RacedOf(d)' = RacedOf(d) \cup {g} /\ g \notin RacedOf(d)
      BY <1>1, <1>2, <2>3, SMT DEF RacedOf
    <3> QED
      <4>1. IsFiniteSet(Live(d)) /\ IsFiniteSet(RacedOf(d)) /\ IsFiniteSet(Live(d)') /\ IsFiniteSet(RacedOf(d)')
        BY <1>3, LivePieces, LivePiecesNext
      <4>2. Cardinality(Live(d)) <= 1 + Cardinality(RacedOf(d))
        BY DEF Bounded, SessionInv
      <4>3. PICK L, R, L2, R2 : L = Live(d) /\ R = RacedOf(d) /\ L2 = Live(d)' /\ R2 = RacedOf(d)'
        OBVIOUS
      <4>4. Cardinality(L2) <= 1 + Cardinality(R2)
        BY ONLY <3>1, <3>2, <4>1, <4>2, <4>3, OneRaced
      <4> QED
        BY <4>3, <4>4 DEF Bounded
  <2> QED
    BY <2>1, <2>2, <2>3
<1>7. ASSUME NEW d \in Codes PROVE Kept(d)'
  <2>1. CASE d = c
    <3>1. g \in Live(d)'
      BY <1>1, <1>2, <2>1, SMT DEF Live, Spending, HasRefresh, OAuthTypeOK
    <3> QED
      BY <2>1, <3>1 DEF Kept
  <2>2. CASE d # c
    <3>1. Live(d) \subseteq Live(d)'
      BY <1>1, <1>2, <2>2, SMT DEF Live, Spending, HasRefresh, OAuthTypeOK
    <3>2. code'[d] = code[d] /\ ended' = ended
      BY <1>2, <2>2 DEF OAuthTypeOK
    <3> QED
      BY <3>1, <3>2 DEF Kept, SessionInv
  <2> QED
    BY <2>1, <2>2
<1> QED
  BY <1>4, <1>5, <1>6, <1>7 DEF SessionInv

\* A token is spent for the next, or the request has raced.
LEMMA RevokeOldSession ==
  ASSUME IsFiniteSet(Grants), OAuthInv, SessionInv, NEW g \in Grants, RevokeOld(g)
  PROVE  SessionInv'
<1> DEFINE h == presented[g]
           c == family[g]
<1> USE DEF OAuthInv
<1>1. /\ h \in Grants /\ c \in Codes /\ c # None /\ at[g] = "revoke" /\ g \notin raced
      /\ at[h] = "issued" /\ family[h] = c /\ h # g
      /\ \A k \in Grants : Knows(k) /\ Linked(k) /\ Spends(k)
  BY OAuthAssumption DEF RevokeOld, SessionInv, Knows, Spends, OAuthTypeOK
<1>2. /\ at' = [at EXCEPT ![g] = "issue"]
      /\ refresh' = [refresh EXCEPT ![h] = Revoked(refresh[h])]
      /\ raced' = IF refresh[h] = "valid" THEN raced ELSE raced \cup {g}
      /\ ended' = IF Rotate THEN ended ELSE ended \cup {c}
      /\ UNCHANGED <<client, code, access, staleAccess, presented, family>>
  BY DEF RevokeOld, To, tokens, clocks, data
<1>3. OAuthTypeOK'
  BY RevokeOldStep
<1>4. client' = "gone" => Codes \subseteq ended'
  BY <1>2 DEF SessionInv
<1>5. ASSUME NEW k \in Grants PROVE Spends(k)'
  BY <1>1, <1>2, SMT DEF Spends, HasRefresh, OAuthTypeOK
<1>6. ASSUME NEW d \in Codes PROVE Bounded(d)'
  <2>1. CASE d # c
    <3>1. Live(d)' \subseteq Live(d) /\ RacedOf(d)' = RacedOf(d)
      BY <1>1, <1>2, <2>1, SMT DEF Live, RacedOf, Spending, HasRefresh, OAuthTypeOK
    <3> QED
      BY <3>1, <1>3, LivePieces, LivePiecesNext, OneMore DEF Bounded, SessionInv
  <2>2. CASE d = c /\ refresh[h] = "valid"
    <3>1. h \in Live(d)
      BY <1>1, <2>2 DEF Live
    <3>2. Live(d)' \subseteq (Live(d) \ {h}) \cup {g}
      BY <1>1, <1>2, <2>2, SMT DEF Live, Spending, HasRefresh, OAuthTypeOK, Revoked
    <3>3. RacedOf(d)' = RacedOf(d)
      BY <1>2, <2>2 DEF RacedOf
    <3> QED
      <4>1. IsFiniteSet(Live(d)) /\ IsFiniteSet(RacedOf(d)) /\ IsFiniteSet(Live(d)') /\ IsFiniteSet(RacedOf(d)')
        BY <1>3, LivePieces, LivePiecesNext
      <4>2. Cardinality(Live(d)) <= 1 + Cardinality(RacedOf(d))
        BY DEF Bounded, SessionInv
      <4>3. PICK L, R, L2, R2 : L = Live(d) /\ R = RacedOf(d) /\ L2 = Live(d)' /\ R2 = RacedOf(d)'
        OBVIOUS
      <4>4. Cardinality(L2) <= 1 + Cardinality(R2)
        BY ONLY <3>1, <3>2, <3>3, <4>1, <4>2, <4>3, OneSpent
      <4> QED
        BY <4>3, <4>4 DEF Bounded
  <2>3. CASE d = c /\ refresh[h] # "valid"
    <3>1. Live(d)' \subseteq Live(d) \cup {g}
      BY <1>1, <1>2, <2>3, SMT DEF Live, Spending, HasRefresh, OAuthTypeOK, Revoked
    <3>2. RacedOf(d)' = RacedOf(d) \cup {g} /\ g \notin RacedOf(d)
      BY <1>1, <1>2, <2>3, SMT DEF RacedOf
    <3> QED
      <4>1. IsFiniteSet(Live(d)) /\ IsFiniteSet(RacedOf(d)) /\ IsFiniteSet(Live(d)') /\ IsFiniteSet(RacedOf(d)')
        BY <1>3, LivePieces, LivePiecesNext
      <4>2. Cardinality(Live(d)) <= 1 + Cardinality(RacedOf(d))
        BY DEF Bounded, SessionInv
      <4>3. PICK L, R, L2, R2 : L = Live(d) /\ R = RacedOf(d) /\ L2 = Live(d)' /\ R2 = RacedOf(d)'
        OBVIOUS
      <4>4. Cardinality(L2) <= 1 + Cardinality(R2)
        BY ONLY <3>1, <3>2, <4>1, <4>2, <4>3, OneRaced
      <4> QED
        BY <4>3, <4>4 DEF Bounded
  <2> QED
    BY <2>1, <2>2, <2>3
<1>7. ASSUME NEW d \in Codes PROVE Kept(d)'
  <2>1. CASE d = c
    <3>1. Rotate => g \in Live(d)'
      BY <1>1, <1>2, <2>1, SMT DEF Live, Spending, HasRefresh, OAuthTypeOK
    <3> QED
      BY <1>2, <2>1, <3>1 DEF Kept
  <2>2. CASE d # c
    <3>1. Live(d) \subseteq Live(d)'
      BY <1>1, <1>2, <2>2, SMT DEF Live, Spending, HasRefresh, OAuthTypeOK
    <3>2. code'[d] = code[d] /\ (d \in ended => d \in ended')
      BY <1>2
    <3> QED
      BY <3>1, <3>2 DEF Kept, SessionInv
  <2> QED
    BY <2>1, <2>2
<1> QED
  BY <1>4, <1>5, <1>6, <1>7 DEF SessionInv

\* Every action keeps the sessions; all but two are calm.
LEMMA SessionStep ==
  ASSUME IsFiniteSet(Grants), OAuthInv, SessionInv, [OAuthNext]_oauthVars
  PROVE SessionInv'
<1> USE DEF OAuthInv
<1>1. ASSUME NEW c \in Codes, NEW s \in Asked, Authorize(c, s) PROVE SessionInv'
  <2> USE <1>1 DEF Authorize, tokens, clocks, data, history, Asked
  <2>1. OAuthTypeOK'
    BY AuthorizeStep DEF OAuthInv
  <2>2. client' = "gone" => Codes \subseteq ended'
    BY DEF SessionInv
  <2>3. ASSUME NEW k \in Grants PROVE Spends(k)'
    <3>1. Spends(k) /\ Knows(k) /\ Linked(k) /\ Scoped(k)
      BY DEF SessionInv
    <3> QED
      BY <3>1, <2>2, SMT DEF OAuthTypeOK, Spends, Knows, Linked, HasRefresh
  <2>4. ASSUME NEW d \in Codes, NEW k \in Grants, k \in Live(d)' PROVE k \in Live(d)
    BY <2>4, SMT DEF Live, Spending, HasRefresh, Knows, Linked, OAuthTypeOK
  <2>5. ASSUME NEW d \in Codes, code'[d] = "used", d \notin ended'
        PROVE  code[d] = "used" /\ d \notin ended /\ \A k \in Grants : k \in Live(d) => k \in Live(d)'
    BY <2>5, SMT DEF Live, Spending, HasRefresh, Knows, Linked, OAuthTypeOK, SessionInv
  <2>6. raced \subseteq raced' /\ \A k \in raced : family'[k] = family[k]
    BY DEF SessionInv, Spends, OAuthTypeOK
  <2> QED
    BY <2>1, <2>2, <2>3, <2>4, <2>5, <2>6, SessionCalm
<1>2. ASSUME NEW c \in Codes, StoreCode(c) PROVE SessionInv'
  <2> USE <1>2 DEF StoreCode, tokens, clocks, data, history
  <2>1. OAuthTypeOK'
    BY StoreCodeStep DEF OAuthInv
  <2>2. client' = "gone" => Codes \subseteq ended'
    BY DEF SessionInv
  <2>3. ASSUME NEW k \in Grants PROVE Spends(k)'
    <3>1. Spends(k) /\ Knows(k) /\ Linked(k) /\ Scoped(k)
      BY DEF SessionInv
    <3> QED
      BY <3>1, <2>2, SMT DEF OAuthTypeOK, Spends, Knows, Linked, HasRefresh
  <2>4. ASSUME NEW d \in Codes, NEW k \in Grants, k \in Live(d)' PROVE k \in Live(d)
    BY <2>4, SMT DEF Live, Spending, HasRefresh, Knows, Linked, OAuthTypeOK
  <2>5. ASSUME NEW d \in Codes, code'[d] = "used", d \notin ended'
        PROVE  code[d] = "used" /\ d \notin ended /\ \A k \in Grants : k \in Live(d) => k \in Live(d)'
    BY <2>5, SMT DEF Live, Spending, HasRefresh, Knows, Linked, OAuthTypeOK, SessionInv
  <2>6. raced \subseteq raced' /\ \A k \in raced : family'[k] = family[k]
    BY DEF SessionInv, Spends, OAuthTypeOK
  <2> QED
    BY <2>1, <2>2, <2>3, <2>4, <2>5, <2>6, SessionCalm
<1>3. ASSUME NEW g \in Grants, NEW c \in Codes, BeginExchange(g, c) PROVE SessionInv'
  <2> USE <1>3 DEF BeginExchange, tokens, clocks, history, To
  <2>1. OAuthTypeOK'
    BY BeginExchangeStep DEF OAuthInv
  <2>2. client' = "gone" => Codes \subseteq ended'
    BY DEF SessionInv
  <2>3. ASSUME NEW k \in Grants PROVE Spends(k)'
    <3>1. Spends(k) /\ Knows(k) /\ Linked(k) /\ Scoped(k)
      BY DEF SessionInv
    <3> QED
      BY <3>1, <2>2, SMT DEF OAuthTypeOK, Spends, Knows, Linked, HasRefresh
  <2>4. ASSUME NEW d \in Codes, NEW k \in Grants, k \in Live(d)' PROVE k \in Live(d)
    BY <2>4, SMT DEF Live, Spending, HasRefresh, Knows, Linked, OAuthTypeOK
  <2>5. ASSUME NEW d \in Codes, code'[d] = "used", d \notin ended'
        PROVE  code[d] = "used" /\ d \notin ended /\ \A k \in Grants : k \in Live(d) => k \in Live(d)'
    BY <2>5, SMT DEF Live, Spending, HasRefresh, Knows, Linked, OAuthTypeOK, SessionInv
  <2>6. raced \subseteq raced' /\ \A k \in raced : family'[k] = family[k]
    BY DEF SessionInv, Spends, OAuthTypeOK
  <2> QED
    BY <2>1, <2>2, <2>3, <2>4, <2>5, <2>6, SessionCalm
<1>4. ASSUME NEW g \in Grants, FindCode(g) PROVE SessionInv'
  <2> USE <1>4 DEF FindCode, tokens, clocks, data, history, To
  <2>1. OAuthTypeOK'
    BY FindCodeStep DEF OAuthInv
  <2>2. client' = "gone" => Codes \subseteq ended'
    BY DEF SessionInv
  <2>3. ASSUME NEW k \in Grants PROVE Spends(k)'
    <3>1. Spends(k) /\ Knows(k) /\ Linked(k) /\ Scoped(k)
      BY DEF SessionInv
    <3> QED
      BY <3>1, <2>2, SMT DEF OAuthTypeOK, Spends, Knows, Linked, HasRefresh
  <2>4. ASSUME NEW d \in Codes, NEW k \in Grants, k \in Live(d)' PROVE k \in Live(d)
    BY <2>4, SMT DEF Live, Spending, HasRefresh, Knows, Linked, OAuthTypeOK
  <2>5. ASSUME NEW d \in Codes, code'[d] = "used", d \notin ended'
        PROVE  code[d] = "used" /\ d \notin ended /\ \A k \in Grants : k \in Live(d) => k \in Live(d)'
    BY <2>5, SMT DEF Live, Spending, HasRefresh, Knows, Linked, OAuthTypeOK, SessionInv
  <2>6. raced \subseteq raced' /\ \A k \in raced : family'[k] = family[k]
    BY DEF SessionInv, Spends, OAuthTypeOK
  <2> QED
    BY <2>1, <2>2, <2>3, <2>4, <2>5, <2>6, SessionCalm
<1>5. ASSUME NEW g \in Grants, RevokeAll(g) PROVE SessionInv'
  <2> USE <1>5 DEF RevokeAll, clocks, data, To
  <2>1. OAuthTypeOK'
    BY RevokeAllStep DEF OAuthInv
  <2>2. client' = "gone" => Codes \subseteq ended'
    BY DEF SessionInv
  <2>3. ASSUME NEW k \in Grants PROVE Spends(k)'
    <3>1. Spends(k) /\ Knows(k) /\ Linked(k) /\ Scoped(k)
      BY DEF SessionInv
    <3> QED
      BY <3>1, <2>2, SMT DEF OAuthTypeOK, Spends, Knows, Linked, HasRefresh, Revoked, Stored
  <2>4. ASSUME NEW d \in Codes, NEW k \in Grants, k \in Live(d)' PROVE k \in Live(d)
    BY <2>4, SMT DEF Live, Spending, HasRefresh, Knows, Linked, OAuthTypeOK, Revoked, Stored
  <2>5. ASSUME NEW d \in Codes, code'[d] = "used", d \notin ended'
        PROVE  code[d] = "used" /\ d \notin ended /\ \A k \in Grants : k \in Live(d) => k \in Live(d)'
    BY <2>5, SMT DEF Live, Spending, HasRefresh, Knows, Linked, OAuthTypeOK, SessionInv, Revoked, Stored
  <2>6. raced \subseteq raced' /\ \A k \in raced : family'[k] = family[k]
    BY DEF SessionInv, Spends, OAuthTypeOK
  <2> QED
    BY <2>1, <2>2, <2>3, <2>4, <2>5, <2>6, SessionCalm
<1>6. ASSUME NEW g \in Grants, NEW h \in Grants, BeginRefresh(g, h) PROVE SessionInv'
  <2> USE <1>6 DEF BeginRefresh, tokens, clocks, history, To
  <2>1. OAuthTypeOK'
    BY BeginRefreshStep DEF OAuthInv
  <2>2. client' = "gone" => Codes \subseteq ended'
    BY DEF SessionInv
  <2>3. ASSUME NEW k \in Grants PROVE Spends(k)'
    <3>1. Spends(k) /\ Knows(k) /\ Linked(k) /\ Scoped(k) /\ Spends(h) /\ Linked(h) /\ Knows(h)
      BY DEF SessionInv
    <3> QED
      BY <3>1, <2>2, SMT DEF OAuthTypeOK, Spends, Knows, Linked, HasRefresh
  <2>4. ASSUME NEW d \in Codes, NEW k \in Grants, k \in Live(d)' PROVE k \in Live(d)
    BY <2>4, SMT DEF Live, Spending, HasRefresh, Knows, Linked, OAuthTypeOK
  <2>5. ASSUME NEW d \in Codes, code'[d] = "used", d \notin ended'
        PROVE  code[d] = "used" /\ d \notin ended /\ \A k \in Grants : k \in Live(d) => k \in Live(d)'
    BY <2>5, SMT DEF Live, Spending, HasRefresh, Knows, Linked, OAuthTypeOK, SessionInv
  <2>6. raced \subseteq raced' /\ \A k \in raced : family'[k] = family[k]
    BY DEF SessionInv, Spends, OAuthTypeOK
  <2> QED
    BY <2>1, <2>2, <2>3, <2>4, <2>5, <2>6, SessionCalm
<1>7. ASSUME NEW g \in Grants, NEW s \in Asked, ValidateRefresh(g, s) PROVE SessionInv'
  <2> USE <1>7 DEF ValidateRefresh, tokens, clocks, history, To
  <2>1. OAuthTypeOK'
    BY ValidateRefreshStep DEF OAuthInv
  <2>2. client' = "gone" => Codes \subseteq ended'
    BY DEF SessionInv
  <2>3. ASSUME NEW k \in Grants PROVE Spends(k)'
    <3>1. Spends(k) /\ Knows(k) /\ Linked(k) /\ Scoped(k)
      BY DEF SessionInv
    <3> QED
      BY <3>1, <2>2, SMT DEF OAuthTypeOK, Spends, Knows, Linked, HasRefresh
  <2>4. ASSUME NEW d \in Codes, NEW k \in Grants, k \in Live(d)' PROVE k \in Live(d)
    BY <2>4, SMT DEF Live, Spending, HasRefresh, Knows, Linked, OAuthTypeOK
  <2>5. ASSUME NEW d \in Codes, code'[d] = "used", d \notin ended'
        PROVE  code[d] = "used" /\ d \notin ended /\ \A k \in Grants : k \in Live(d) => k \in Live(d)'
    BY <2>5, SMT DEF Live, Spending, HasRefresh, Knows, Linked, OAuthTypeOK, SessionInv
  <2>6. raced \subseteq raced' /\ \A k \in raced : family'[k] = family[k]
    BY DEF SessionInv, Spends, OAuthTypeOK
  <2> QED
    BY <2>1, <2>2, <2>3, <2>4, <2>5, <2>6, SessionCalm
<1>8. ASSUME NEW g \in Grants, BeginMachine(g) PROVE SessionInv'
  <2> USE <1>8 DEF BeginMachine, tokens, clocks, data, history, To
  <2>1. OAuthTypeOK'
    BY BeginMachineStep DEF OAuthInv
  <2>2. client' = "gone" => Codes \subseteq ended'
    BY DEF SessionInv
  <2>3. ASSUME NEW k \in Grants PROVE Spends(k)'
    <3>1. Spends(k) /\ Knows(k) /\ Linked(k) /\ Scoped(k)
      BY DEF SessionInv
    <3> QED
      BY <3>1, <2>2, SMT DEF OAuthTypeOK, Spends, Knows, Linked, HasRefresh
  <2>4. ASSUME NEW d \in Codes, NEW k \in Grants, k \in Live(d)' PROVE k \in Live(d)
    BY <2>4, SMT DEF Live, Spending, HasRefresh, Knows, Linked, OAuthTypeOK
  <2>5. ASSUME NEW d \in Codes, code'[d] = "used", d \notin ended'
        PROVE  code[d] = "used" /\ d \notin ended /\ \A k \in Grants : k \in Live(d) => k \in Live(d)'
    BY <2>5, SMT DEF Live, Spending, HasRefresh, Knows, Linked, OAuthTypeOK, SessionInv
  <2>6. raced \subseteq raced' /\ \A k \in raced : family'[k] = family[k]
    BY DEF SessionInv, Spends, OAuthTypeOK
  <2> QED
    BY <2>1, <2>2, <2>3, <2>4, <2>5, <2>6, SessionCalm
<1>9. ASSUME NEW g \in Grants, CreateAccessToken(g) PROVE SessionInv'
  <2> USE <1>9 DEF CreateAccessToken, clocks, data, history, To
  <2>1. OAuthTypeOK'
    BY CreateAccessTokenStep DEF OAuthInv
  <2>2. client' = "gone" => Codes \subseteq ended'
    BY DEF SessionInv
  <2>3. ASSUME NEW k \in Grants PROVE Spends(k)'
    <3>1. Spends(k) /\ Knows(k) /\ Linked(k) /\ Scoped(k)
      BY DEF SessionInv
    <3> QED
      BY <3>1, <2>2, SMT DEF OAuthTypeOK, Spends, Knows, Linked, HasRefresh, Stored
  <2>4. ASSUME NEW d \in Codes, NEW k \in Grants, k \in Live(d)' PROVE k \in Live(d)
    BY <2>4, SMT DEF Live, Spending, HasRefresh, Knows, Linked, OAuthTypeOK
  <2>5. ASSUME NEW d \in Codes, code'[d] = "used", d \notin ended'
        PROVE  code[d] = "used" /\ d \notin ended /\ \A k \in Grants : k \in Live(d) => k \in Live(d)'
    BY <2>5, SMT DEF Live, Spending, HasRefresh, Knows, Linked, OAuthTypeOK, SessionInv
  <2>6. raced \subseteq raced' /\ \A k \in raced : family'[k] = family[k]
    BY DEF SessionInv, Spends, OAuthTypeOK
  <2> QED
    BY <2>1, <2>2, <2>3, <2>4, <2>5, <2>6, SessionCalm
<1>10. ASSUME NEW g \in Grants, CreateRefreshToken(g) PROVE SessionInv'
  <2> USE <1>10 DEF CreateRefreshToken, clocks, data, history, To
  <2>0. HasRefresh(g) /\ (family[g] \in ended \/ Stored(access[g]))
    BY DEF SessionInv, Spends
  <2>1. OAuthTypeOK'
    BY CreateRefreshTokenStep DEF OAuthInv
  <2>2. client' = "gone" => Codes \subseteq ended'
    BY DEF SessionInv
  <2>3. ASSUME NEW k \in Grants PROVE Spends(k)'
    <3>1. Spends(k) /\ Knows(k) /\ Linked(k) /\ Scoped(k)
      BY DEF SessionInv
    <3> QED
      BY <3>1, <2>2, SMT DEF OAuthTypeOK, Spends, Knows, Linked, HasRefresh
  <2>4. ASSUME NEW d \in Codes, NEW k \in Grants, k \in Live(d)' PROVE k \in Live(d)
    BY <2>0, <2>4, SMT DEF Live, Spending, HasRefresh, Knows, Linked, OAuthTypeOK
  <2>5. ASSUME NEW d \in Codes, code'[d] = "used", d \notin ended'
        PROVE  code[d] = "used" /\ d \notin ended /\ \A k \in Grants : k \in Live(d) => k \in Live(d)'
    BY <2>0, <2>5, SMT DEF Live, Spending, HasRefresh, Knows, Linked, OAuthTypeOK, SessionInv
  <2>6. raced \subseteq raced' /\ \A k \in raced : family'[k] = family[k]
    BY DEF SessionInv, Spends, OAuthTypeOK
  <2> QED
    BY <2>1, <2>2, <2>3, <2>4, <2>5, <2>6, SessionCalm
<1>11. ASSUME NEW g \in Grants, Refuse(g) PROVE SessionInv'
  <2> USE <1>11 DEF Refuse, tokens, clocks, data, history, To
  <2>1. OAuthTypeOK'
    BY RefuseStep DEF OAuthInv
  <2>2. client' = "gone" => Codes \subseteq ended'
    BY DEF SessionInv
  <2>3. ASSUME NEW k \in Grants PROVE Spends(k)'
    <3>1. Spends(k) /\ Knows(k) /\ Linked(k) /\ Scoped(k)
      BY DEF SessionInv
    <3> QED
      BY <3>1, <2>2, SMT DEF OAuthTypeOK, Spends, Knows, Linked, HasRefresh
  <2>4. ASSUME NEW d \in Codes, NEW k \in Grants, k \in Live(d)' PROVE k \in Live(d)
    BY <2>4, SMT DEF Live, Spending, HasRefresh, Knows, Linked, OAuthTypeOK
  <2>5. ASSUME NEW d \in Codes, code'[d] = "used", d \notin ended'
        PROVE  code[d] = "used" /\ d \notin ended /\ \A k \in Grants : k \in Live(d) => k \in Live(d)'
    BY <2>5, SMT DEF Live, Spending, HasRefresh, Knows, Linked, OAuthTypeOK, SessionInv
  <2>6. raced \subseteq raced' /\ \A k \in raced : family'[k] = family[k]
    BY DEF SessionInv, Spends, OAuthTypeOK
  <2> QED
    BY <2>1, <2>2, <2>3, <2>4, <2>5, <2>6, SessionCalm
<1>12. ASSUME NEW g \in Grants, GrantFails(g) PROVE SessionInv'
  <2> USE <1>12 DEF GrantFails, tokens, clocks, data, To
  <2>1. OAuthTypeOK'
    BY GrantFailsStep DEF OAuthInv
  <2>2. client' = "gone" => Codes \subseteq ended'
    BY DEF SessionInv
  <2>3. ASSUME NEW k \in Grants PROVE Spends(k)'
    <3>1. Spends(k) /\ Knows(k) /\ Linked(k) /\ Scoped(k)
      BY DEF SessionInv
    <3> QED
      BY <3>1, <2>2, SMT DEF OAuthTypeOK, Spends, Knows, Linked, HasRefresh
  <2>4. ASSUME NEW d \in Codes, NEW k \in Grants, k \in Live(d)' PROVE k \in Live(d)
    BY <2>4, SMT DEF Live, Spending, HasRefresh, Knows, Linked, OAuthTypeOK
  <2>5. ASSUME NEW d \in Codes, code'[d] = "used", d \notin ended'
        PROVE  code[d] = "used" /\ d \notin ended /\ \A k \in Grants : k \in Live(d) => k \in Live(d)'
    BY <2>5, SMT DEF Live, Spending, HasRefresh, Knows, Linked, OAuthTypeOK, SessionInv
  <2>6. raced \subseteq raced' /\ \A k \in raced : family'[k] = family[k]
    BY DEF SessionInv, Spends, OAuthTypeOK
  <2> QED
    BY <2>1, <2>2, <2>3, <2>4, <2>5, <2>6, SessionCalm
<1>13. ASSUME NEW g \in Grants, RevokeAccess(g) PROVE SessionInv'
  <2> USE <1>13 DEF RevokeAccess, clocks, data, history
  <2>1. OAuthTypeOK'
    BY RevokeAccessStep DEF OAuthInv
  <2>2. client' = "gone" => Codes \subseteq ended'
    BY DEF SessionInv
  <2>3. ASSUME NEW k \in Grants PROVE Spends(k)'
    <3>1. Spends(k) /\ Knows(k) /\ Linked(k) /\ Scoped(k)
      BY DEF SessionInv
    <3> QED
      BY <3>1, <2>2, SMT DEF OAuthTypeOK, Spends, Knows, Linked, HasRefresh, Stored
  <2>4. ASSUME NEW d \in Codes, NEW k \in Grants, k \in Live(d)' PROVE k \in Live(d)
    BY <2>4, SMT DEF Live, Spending, HasRefresh, Knows, Linked, OAuthTypeOK, Stored
  <2>5. ASSUME NEW d \in Codes, code'[d] = "used", d \notin ended'
        PROVE  code[d] = "used" /\ d \notin ended /\ \A k \in Grants : k \in Live(d) => k \in Live(d)'
    BY <2>5, SMT DEF Live, Spending, HasRefresh, Knows, Linked, OAuthTypeOK, SessionInv, Stored
  <2>6. raced \subseteq raced' /\ \A k \in raced : family'[k] = family[k]
    BY DEF SessionInv, Spends, OAuthTypeOK
  <2> QED
    BY <2>1, <2>2, <2>3, <2>4, <2>5, <2>6, SessionCalm
<1>14. ASSUME NEW g \in Grants, RevokeRefresh(g) PROVE SessionInv'
  <2> USE <1>14 DEF RevokeRefresh, clocks, data
  <2>1. OAuthTypeOK'
    BY RevokeRefreshStep DEF OAuthInv
  <2>2. client' = "gone" => Codes \subseteq ended'
    BY DEF SessionInv
  <2>3. ASSUME NEW k \in Grants PROVE Spends(k)'
    <3>1. Spends(k) /\ Knows(k) /\ Linked(k) /\ Scoped(k)
      BY DEF SessionInv
    <3> QED
      BY <3>1, <2>2, SMT DEF OAuthTypeOK, Spends, Knows, Linked, HasRefresh
  <2>4. ASSUME NEW d \in Codes, NEW k \in Grants, k \in Live(d)' PROVE k \in Live(d)
    BY <2>4, SMT DEF Live, Spending, HasRefresh, Knows, Linked, OAuthTypeOK
  <2>5. ASSUME NEW d \in Codes, code'[d] = "used", d \notin ended'
        PROVE  code[d] = "used" /\ d \notin ended /\ \A k \in Grants : k \in Live(d) => k \in Live(d)'
    BY <2>5, SMT DEF Live, Spending, HasRefresh, Knows, Linked, OAuthTypeOK, SessionInv
  <2>6. raced \subseteq raced' /\ \A k \in raced : family'[k] = family[k]
    BY DEF SessionInv, Spends, OAuthTypeOK
  <2> QED
    BY <2>1, <2>2, <2>3, <2>4, <2>5, <2>6, SessionCalm
<1>15. ASSUME NEW g \in Grants, AccessExpires(g) PROVE SessionInv'
  <2> USE <1>15 DEF AccessExpires, tokens, data, history
  <2>1. OAuthTypeOK'
    BY AccessExpiresStep DEF OAuthInv
  <2>2. client' = "gone" => Codes \subseteq ended'
    BY DEF SessionInv
  <2>3. ASSUME NEW k \in Grants PROVE Spends(k)'
    <3>1. Spends(k) /\ Knows(k) /\ Linked(k) /\ Scoped(k)
      BY DEF SessionInv
    <3> QED
      BY <3>1, <2>2, SMT DEF OAuthTypeOK, Spends, Knows, Linked, HasRefresh
  <2>4. ASSUME NEW d \in Codes, NEW k \in Grants, k \in Live(d)' PROVE k \in Live(d)
    BY <2>4, SMT DEF Live, Spending, HasRefresh, Knows, Linked, OAuthTypeOK
  <2>5. ASSUME NEW d \in Codes, code'[d] = "used", d \notin ended'
        PROVE  code[d] = "used" /\ d \notin ended /\ \A k \in Grants : k \in Live(d) => k \in Live(d)'
    BY <2>5, SMT DEF Live, Spending, HasRefresh, Knows, Linked, OAuthTypeOK, SessionInv
  <2>6. raced \subseteq raced' /\ \A k \in raced : family'[k] = family[k]
    BY DEF SessionInv, Spends, OAuthTypeOK
  <2> QED
    BY <2>1, <2>2, <2>3, <2>4, <2>5, <2>6, SessionCalm
<1>16. ASSUME NEW g \in Grants, RefreshExpires(g) PROVE SessionInv'
  <2> USE <1>16 DEF RefreshExpires, tokens, data
  <2>1. OAuthTypeOK'
    BY RefreshExpiresStep DEF OAuthInv
  <2>2. client' = "gone" => Codes \subseteq ended'
    BY DEF SessionInv
  <2>3. ASSUME NEW k \in Grants PROVE Spends(k)'
    <3>1. Spends(k) /\ Knows(k) /\ Linked(k) /\ Scoped(k)
      BY DEF SessionInv
    <3> QED
      BY <3>1, <2>2, SMT DEF OAuthTypeOK, Spends, Knows, Linked, HasRefresh
  <2>4. ASSUME NEW d \in Codes, NEW k \in Grants, k \in Live(d)' PROVE k \in Live(d)
    BY <2>4, SMT DEF Live, Spending, HasRefresh, Knows, Linked, OAuthTypeOK
  <2>5. ASSUME NEW d \in Codes, code'[d] = "used", d \notin ended'
        PROVE  code[d] = "used" /\ d \notin ended /\ \A k \in Grants : k \in Live(d) => k \in Live(d)'
    BY <2>5, SMT DEF Live, Spending, HasRefresh, Knows, Linked, OAuthTypeOK, SessionInv
  <2>6. raced \subseteq raced' /\ \A k \in raced : family'[k] = family[k]
    BY DEF SessionInv, Spends, OAuthTypeOK
  <2> QED
    BY <2>1, <2>2, <2>3, <2>4, <2>5, <2>6, SessionCalm
<1>17. ASSUME NEW c \in Codes, CodeExpires(c) PROVE SessionInv'
  <2> USE <1>17 DEF CodeExpires, tokens, data, history
  <2>1. OAuthTypeOK'
    BY CodeExpiresStep DEF OAuthInv
  <2>2. client' = "gone" => Codes \subseteq ended'
    BY DEF SessionInv
  <2>3. ASSUME NEW k \in Grants PROVE Spends(k)'
    <3>1. Spends(k) /\ Knows(k) /\ Linked(k) /\ Scoped(k)
      BY DEF SessionInv
    <3> QED
      BY <3>1, <2>2, SMT DEF OAuthTypeOK, Spends, Knows, Linked, HasRefresh
  <2>4. ASSUME NEW d \in Codes, NEW k \in Grants, k \in Live(d)' PROVE k \in Live(d)
    BY <2>4, SMT DEF Live, Spending, HasRefresh, Knows, Linked, OAuthTypeOK
  <2>5. ASSUME NEW d \in Codes, code'[d] = "used", d \notin ended'
        PROVE  code[d] = "used" /\ d \notin ended /\ \A k \in Grants : k \in Live(d) => k \in Live(d)'
    BY <2>5, SMT DEF Live, Spending, HasRefresh, Knows, Linked, OAuthTypeOK, SessionInv
  <2>6. raced \subseteq raced' /\ \A k \in raced : family'[k] = family[k]
    BY DEF SessionInv, Spends, OAuthTypeOK
  <2> QED
    BY <2>1, <2>2, <2>3, <2>4, <2>5, <2>6, SessionCalm
<1>18. ASSUME NEW b \in BOOLEAN, SetActive(b) PROVE SessionInv'
  <2> USE <1>18 DEF SetActive, tokens, clocks, data, history
  <2>1. OAuthTypeOK'
    BY SetActiveStep DEF OAuthInv
  <2>2. client' = "gone" => Codes \subseteq ended'
    BY DEF SessionInv
  <2>3. ASSUME NEW k \in Grants PROVE Spends(k)'
    <3>1. Spends(k) /\ Knows(k) /\ Linked(k) /\ Scoped(k)
      BY DEF SessionInv
    <3> QED
      BY <3>1, <2>2, SMT DEF OAuthTypeOK, Spends, Knows, Linked, HasRefresh
  <2>4. ASSUME NEW d \in Codes, NEW k \in Grants, k \in Live(d)' PROVE k \in Live(d)
    BY <2>4, SMT DEF Live, Spending, HasRefresh, Knows, Linked, OAuthTypeOK
  <2>5. ASSUME NEW d \in Codes, code'[d] = "used", d \notin ended'
        PROVE  code[d] = "used" /\ d \notin ended /\ \A k \in Grants : k \in Live(d) => k \in Live(d)'
    BY <2>5, SMT DEF Live, Spending, HasRefresh, Knows, Linked, OAuthTypeOK, SessionInv
  <2>6. raced \subseteq raced' /\ \A k \in raced : family'[k] = family[k]
    BY DEF SessionInv, Spends, OAuthTypeOK
  <2> QED
    BY <2>1, <2>2, <2>3, <2>4, <2>5, <2>6, SessionCalm
<1>19. ASSUME DeleteClient PROVE SessionInv'
  <2> USE <1>19 DEF DeleteClient, clocks, data
  <2>1. OAuthTypeOK'
    BY DeleteClientStep DEF OAuthInv
  <2>2. client' = "gone" => Codes \subseteq ended'
    BY DEF SessionInv
  <2>3. ASSUME NEW k \in Grants PROVE Spends(k)'
    <3>1. Spends(k) /\ Knows(k) /\ Linked(k) /\ Scoped(k)
      BY DEF SessionInv
    <3> QED
      BY <3>1, <2>2, SMT DEF OAuthTypeOK, Spends, Knows, Linked, HasRefresh, Stored, Deleted
  <2>4. ASSUME NEW d \in Codes, NEW k \in Grants, k \in Live(d)' PROVE k \in Live(d)
    BY <2>4, SMT DEF Live, Spending, HasRefresh, Knows, Linked, OAuthTypeOK, Stored, Deleted
  <2>5. ASSUME NEW d \in Codes, code'[d] = "used", d \notin ended'
        PROVE  code[d] = "used" /\ d \notin ended /\ \A k \in Grants : k \in Live(d) => k \in Live(d)'
    BY <2>5, SMT DEF Live, Spending, HasRefresh, Knows, Linked, OAuthTypeOK, SessionInv, Stored, Deleted
  <2>6. raced \subseteq raced' /\ \A k \in raced : family'[k] = family[k]
    BY DEF SessionInv, Spends, OAuthTypeOK
  <2> QED
    BY <2>1, <2>2, <2>3, <2>4, <2>5, <2>6, SessionCalm
<1>20. ASSUME CleanTokens PROVE SessionInv'
  <2> USE <1>20 DEF CleanTokens, clocks, data
  <2>1. OAuthTypeOK'
    BY CleanTokensStep DEF OAuthInv
  <2>2. client' = "gone" => Codes \subseteq ended'
    BY DEF SessionInv
  <2>3. ASSUME NEW k \in Grants PROVE Spends(k)'
    <3>1. Spends(k) /\ Knows(k) /\ Linked(k) /\ Scoped(k)
      BY DEF SessionInv
    <3> QED
      BY <3>1, <2>2, SMT DEF OAuthTypeOK, Spends, Knows, Linked, HasRefresh, Stored, Deleted
  <2>4. ASSUME NEW d \in Codes, NEW k \in Grants, k \in Live(d)' PROVE k \in Live(d)
    BY <2>4, SMT DEF Live, Spending, HasRefresh, Knows, Linked, OAuthTypeOK, Stored, Deleted
  <2>5. ASSUME NEW d \in Codes, code'[d] = "used", d \notin ended'
        PROVE  code[d] = "used" /\ d \notin ended /\ \A k \in Grants : k \in Live(d) => k \in Live(d)'
    BY <2>5, SMT DEF Live, Spending, HasRefresh, Knows, Linked, OAuthTypeOK, SessionInv, Stored, Deleted
  <2>6. raced \subseteq raced' /\ \A k \in raced : family'[k] = family[k]
    BY DEF SessionInv, Spends, OAuthTypeOK
  <2> QED
    BY <2>1, <2>2, <2>3, <2>4, <2>5, <2>6, SessionCalm
<1>21. ASSUME CleanCodes PROVE SessionInv'
  <2> USE <1>21 DEF CleanCodes, tokens, clocks, data, history
  <2>1. OAuthTypeOK'
    BY CleanCodesStep DEF OAuthInv
  <2>2. client' = "gone" => Codes \subseteq ended'
    BY DEF SessionInv
  <2>3. ASSUME NEW k \in Grants PROVE Spends(k)'
    <3>1. Spends(k) /\ Knows(k) /\ Linked(k) /\ Scoped(k)
      BY DEF SessionInv
    <3> QED
      BY <3>1, <2>2, SMT DEF OAuthTypeOK, Spends, Knows, Linked, HasRefresh
  <2>4. ASSUME NEW d \in Codes, NEW k \in Grants, k \in Live(d)' PROVE k \in Live(d)
    BY <2>4, SMT DEF Live, Spending, HasRefresh, Knows, Linked, OAuthTypeOK
  <2>5. ASSUME NEW d \in Codes, code'[d] = "used", d \notin ended'
        PROVE  code[d] = "used" /\ d \notin ended /\ \A k \in Grants : k \in Live(d) => k \in Live(d)'
    BY <2>5, SMT DEF Live, Spending, HasRefresh, Knows, Linked, OAuthTypeOK, SessionInv
  <2>6. raced \subseteq raced' /\ \A k \in raced : family'[k] = family[k]
    BY DEF SessionInv, Spends, OAuthTypeOK
  <2> QED
    BY <2>1, <2>2, <2>3, <2>4, <2>5, <2>6, SessionCalm
<1>22. CASE UNCHANGED oauthVars
  BY <1>22 DEF oauthVars, tokens, clocks, data, history, SessionInv, Spends, HasRefresh, Bounded, Kept, Live, RacedOf, Spending
<1> QED
  BY <1>1, <1>2, <1>3, <1>4, <1>5, <1>6, <1>7, <1>8, <1>9, <1>10, <1>11, <1>12, <1>13, <1>14, <1>15, <1>16, <1>17, <1>18, <1>19, <1>20, <1>21, <1>22, MarkCodeUsedSession, RevokeOldSession
     DEF OAuthNext, ExchangeStep, RefreshStep, IssueStep, TokenStep, CodeStep, ClientStep

\* For any number of codes and scopes and any finite number of requests: an
\* approval is one session, one usable refresh token unless requests raced, and
\* never none before the session is ended, revoked or expired.
THEOREM SessionsKept ==
  ASSUME IsFiniteSet(Grants)
  PROVE  OAuthSpec => []SessionsSound
<1>1. OAuthInit => SessionInv
  <2> SUFFICES ASSUME OAuthInit PROVE SessionInv
    OBVIOUS
  <2>1. client = "active" /\ \A g \in Grants : Spends(g)
    BY DEF OAuthInit, Spends
  <2>2. ASSUME NEW c \in Codes PROVE Bounded(c) /\ Kept(c)
    <3>1. Live(c) = {} /\ RacedOf(c) = {}
      BY OAuthAssumption DEF OAuthInit, Live, RacedOf, Spending
    <3>2. Cardinality(Live(c)) = 0 /\ Cardinality(RacedOf(c)) = 0
      BY <3>1, FS_EmptySet
    <3> QED
      BY <3>2 DEF OAuthInit, Bounded, Kept
  <2> QED
    BY <2>1, <2>2 DEF SessionInv
<1>2. OAuthInv /\ SessionInv => SessionsSound
  <2> SUFFICES ASSUME OAuthInv, SessionInv PROVE SessionsSound
    OBVIOUS
  <2>1. OneSessionUnlessRaced
    BY DEF SessionInv, Bounded, RacedOf, OneSessionUnlessRaced
  <2>2. SessionKept
    BY DEF SessionInv, Kept, Live, Spending, SessionKept
  <2> QED
    BY <2>1, <2>2 DEF SessionsSound
<1>3. OAuthInv /\ SessionInv /\ [OAuthNext]_oauthVars => SessionInv'
  BY SessionStep
<1> QED
  BY <1>1, <1>2, <1>3, AlwaysInv, PTL DEF OAuthSpec
=============================================================================
