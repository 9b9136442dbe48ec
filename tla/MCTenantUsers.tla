--------------------------- MODULE MCTenantUsers ---------------------------
(* Instances of TenantUsers for TLC.                                       *)
EXTENDS TenantUsers, TLC

\* everybody but the owner and the calls in flight are interchangeable
Symmetry == Permutations(Users \ {Owner}) \cup Permutations(Inviters) \cup Permutations(Removers)
              \cup Permutations(Editors)

InFlight ==
  Cardinality({c \in Inviters: inviter[c].at # "idle"})
    + Cardinality({r \in Removers: remover[r].at # "idle"})
    + Cardinality({x \in Editors: editor[x].at # "idle"})

\* bound: two addresses compete for the seats of a tenant that keeps its type, by
\* invitations that come to an end once Supabase knows the address ...
FirstType == CHOOSE t \in Types: TRUE
Seats ==
  /\ tenant.type = FirstType /\ edits <= 1 /\ InFlight <= 3
  /\ \A x \in Editors: editor[x].new \in {None, FirstType}
  /\ Cardinality({c \in Inviters: inviter[c].at \in {"metadata", "store"}}) = 0

\* ... or the type changes under one invited address, two calls at a time
Logins ==
  /\ InFlight <= 2 /\ tenant.max > 1
  /\ Cardinality({u \in Users: user[u].row # "none" \/ \E c \in Inviters: inviter[c].u = u}) <= 2

SeatsOrLogins == Seats \/ Logins

=============================================================================
