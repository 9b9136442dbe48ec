\* Setups, confirmations, disabling and logins of one user from three windows. Quiet once the secrets are used up.
SPECIFICATION MfaSpec
CONSTANTS
  Secrets = {s1, s2, s3, s4}
  Calls = {c1, c2, c3}
  NoSecret = NoSecret
SYMMETRY Symmetry
INVARIANT EnabledIsUsable
CHECK_DEADLOCK FALSE
