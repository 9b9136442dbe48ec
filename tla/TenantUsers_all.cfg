\* Two invitations race for the last seat while the license grows or shrinks; or
\* two license updates change the type while a user is invited and deactivated.
SPECIFICATION Spec
CONSTANTS
  Users = {o, u1, u2}
  Owner = o
  Inviters = {c1, c2}
  Removers = {r1}
  Editors = {x1, x2}
  Types = {STANDARD, MSSP}
  Sizes = {1, 2}
  None = None
  MaxEdits = 2
SYMMETRY Symmetry
CONSTRAINT SeatsOrLogins
INVARIANTS SeatsBounded LoginMatchesTenant DeactivatedLoginGone
PROPERTY DeactivationIsFinal
