\* Two addresses, two applicants, two reviewers; quiet once every request is decided.
SPECIFICATION Spec
CONSTANTS
  Ids = {i1, i2, i3}
  Emails = {e1, e2}
  Applicants = {p1, p2}
  Reviewers = {v1, v2}
  None = None
SYMMETRY Symmetry
INVARIANTS OneTenantPerAddress ApprovalMeansTenant OnlyRejectedRemoved OwnerLogsIn
PROPERTY LoginIsKept
CHECK_DEADLOCK FALSE
