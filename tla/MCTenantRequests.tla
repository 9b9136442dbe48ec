-------------------------- MODULE MCTenantRequests --------------------------
(* Instances of TenantRequests for TLC.                                    *)
EXTENDS TenantRequests, TLC

\* ids, calls in flight and addresses are interchangeable
Symmetry == Permutations(Ids) \cup Permutations(Applicants) \cup Permutations(Reviewers)
              \cup Permutations(Emails)

=============================================================================
