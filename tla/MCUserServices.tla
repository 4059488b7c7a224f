---------------------------- MODULE MCUserServices ----------------------------
(***************************************************************************)
(* What a user meets on the way in and while connected: nine services that *)
(* share no state in the code, each explored on its own instance.  A       *)
(* behaviour exercises one of them, chosen at its start, and the others    *)
(* stay as they began: the states are the sum of theirs.                   *)
(***************************************************************************)
EXTENDS OAuthServer, TwoFactor, Registration, AccountCodes, TrialStart,
        Referral, ClientRegistry, Presence, ResponseCache, TLC

VARIABLE exercised

Services == {"OAuthServer", "TwoFactor", "Registration", "AccountCodes", "TrialStart",
             "Referral", "ClientRegistry", "Presence", "ResponseCache"}

Others(service, start) == exercised # service => start

\* A service that is not exercised begins in one of its initial states only.
Init ==
  /\ exercised \in Services
  /\ OAuthInit /\ CodesInit /\ TrialInit /\ RegistryInit /\ PresenceInit
  /\ TwoFactorInit /\ Others("TwoFactor", factors = {} /\ backup = [b \in BackupCodes |-> "none"])
  /\ RegistrationInit
  /\ Others("Registration", /\ way = [r \in Registrants |-> "password"]
                           /\ address = [r \in Registrants |-> CHOOSE a \in Addresses : TRUE])
  /\ ReferralInit
  /\ Others("Referral", payer = [p \in Payments |-> CHOOSE b \in Referred : TRUE])
  /\ CacheInit
  /\ Others("ResponseCache", /\ db = [x \in Elements |-> 0] /\ get = [r \in Readers |-> ListKey]
                            /\ changing = [w \in Writers |-> CHOOSE x \in Elements : TRUE])

Still(service, state) == IF exercised = service THEN TRUE ELSE UNCHANGED state

Next ==
  /\ UNCHANGED exercised
  /\ Still("OAuthServer", oauthVars)
  /\ Still("TwoFactor", twoFactorVars)
  /\ Still("Registration", registrationVars)
  /\ Still("AccountCodes", accountVars)
  /\ Still("TrialStart", trialVars)
  /\ Still("Referral", referralVars)
  /\ Still("ClientRegistry", registryVars)
  /\ Still("Presence", presenceVars)
  /\ Still("ResponseCache", cacheVars)
  /\ \/ exercised = "OAuthServer" /\ OAuthNext
     \/ exercised = "TwoFactor" /\ TwoFactorNext
     \/ exercised = "Registration" /\ RegistrationNext
     \/ exercised = "AccountCodes" /\ CodesNext
     \/ exercised = "TrialStart" /\ TrialNext
     \/ exercised = "Referral" /\ ReferralNext
     \/ exercised = "ClientRegistry" /\ RegistryNext
     \/ exercised = "Presence" /\ PresenceNext
     \/ exercised = "ResponseCache" /\ CacheNext

vars == <<exercised, oauthVars, twoFactorVars, registrationVars, accountVars,
          trialVars, referralVars, registryVars, presenceVars, cacheVars>>

Spec == Init /\ [][Next]_vars

\* Two requests of a service, two sockets or two scopes do not differ.  The
\* sets of a service that are permuted together have the same model values, and
\* so have those of different services, which never meet.
Symmetry == Permutations(Grants) \cup Permutations(Scopes)
=============================================================================
