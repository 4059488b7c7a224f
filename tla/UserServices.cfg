SPECIFICATION Spec
CONSTANTS
  Codes = {c1}
  Grants = {r1, r2}
  Scopes = {e1, e2}
  None = None
  Rotate = TRUE
  MaxFaults = 1
  Factors = {f1, k1}
  Passkeys = {k1}
  Challenges = {r1, r2}
  BackupCodes = {b1}
  Verifications = {r1, r2}
  Nothing = Nothing
  MaxTotpAttempts = 1
  MaxBackupAttempts = 1
  MaxTwoFactorFaults = 1
  Confirmations = {w1}
  Invitations = {f1, k1}
  Registrants = {r1, r2}
  Addresses = {f1, k1}
  NoInvite = None
  MaxRegistrationFaults = 1
  Issues = {e1, e2}
  Clicks = {r1, r2}
  FirstCode = First
  NoLink = None
  MaxCodeFaults = 1
  Activations = {r1, r2}
  TrialAttempts = 3
  NobodysCustomer = None
  MaxTrialFaults = 2
  Visits = {r1, r2}
  Referred = {b1}
  Payments = {r1, r2}
  NoCode = None
  MaxReferralFaults = 1
  Sockets = {r1, r2}
  Cleaners = {b1}
  MaxRedisFaults = 1
  MaxInstanceCrashes = 1
  Connections = {r1, r2}
  Beats = {b1}
  Sweeps = {b1}
  MaxPresenceCrashes = 1
  Elements = {f1, k1}
  ListKey = None
  Readers = {r1, r2}
  Writers = {w1}
  MaxCacheFaults = 1
INVARIANTS
  GrantsSound
  SessionsSound
  SecondFactorSound
  
  CodesSound
  
  ReferralsSound
  
  
  
CHECK_DEADLOCK FALSE
SYMMETRY Symmetry
