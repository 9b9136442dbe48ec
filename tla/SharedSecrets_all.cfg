\* Two recipients, a peek and a revocation racing over one secret, the cron,
\* crashes, and a clock that passes the expiry.
SPECIFICATION FairSpec
CONSTANTS
  Secrets = {s1}
  Users = {u1}
  Views = {v1, v2}
  Peeks = {k1}
  Revokes = {r1}
  Phrases = {p1, p2}
  None = None
  Ttls = {1}
  MaxTime = 2
INVARIANTS TypeOK BurnedBeforeOpened NoSilentLoss PeekNeverLies
PROPERTIES BurnIsForever KeepsPromise EveryRowErased
