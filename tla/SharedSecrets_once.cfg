\* Two recipients of one secret: both get the content.
SPECIFICATION Spec
CONSTANTS
  Secrets = {s1}
  Users = {u1}
  Views = {v1, v2}
  Peeks = {}
  Revokes = {}
  Phrases = {p1}
  None = None
  Ttls = {1}
  MaxTime = 2
INVARIANT AtMostOneContent
