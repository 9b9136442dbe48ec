--------------------------- MODULE TenantRequests ---------------------------
(***************************************************************************)
(* How a customer gets an account: tenant-requests/tenant-requests.service *)
(* (submit, approve, reject) and createTenant of admin/admin.service, with *)
(* the invitation of the owner in supabase/supabase-admin.service.         *)
(*                                                                         *)
(* Applicants and reviewers are calls in flight, one database or Supabase  *)
(* call per action.  Any call may throw, and the process may die between   *)
(* two of them; either way the rest of the handler does not happen.        *)
(*                                                                         *)
(* approve gives the tenant the uuid of its request, so one Id names a     *)
(* request, its tenant and the tenant's owner.  createTenant makes a new   *)
(* uuid: an Id that never is a request.                                    *)
(***************************************************************************)
EXTENDS Naturals, FiniteSets

CONSTANTS
  Ids,         \* uuids of requests and of tenants
  Emails,      \* contact addresses
  Applicants,  \* calls of submit that may be in flight at once
  Reviewers,   \* calls of approve, reject and createTenant in flight at once
  None         \* no id, no address

ASSUME RequestsAssumption ==
  /\ None \notin Ids \cup Emails
  /\ Applicants \cap Reviewers = {}

VARIABLES
  req,        \* tenant_requests
  owner,      \* of each tenant: the row of its owner in users
  auth,       \* auth.users of Supabase: whether the address is known, and its tenant_id
  applicant,  \* where each call of submit stands
  reviewer,   \* where each call of approve, reject or createTenant stands
  rejected,   \* history: requests some reviewer has rejected
  broken,     \* history: tenants whose invitation was cut off by a failure
  hurried     \* history: tenants made while createTenant had checked their address

vars == <<req, owner, auth, applicant, reviewer, rejected, broken, hurried>>

-----------------------------------------------------------------------------
Live == {"PENDING", "APPROVED", "REJECTED"}

\* tenantId of the request is set by approve and always its own id
Request == [status: {"unused", "deleted"} \cup Live, email: Emails \cup {None},
            linked: BOOLEAN]

\* "none": there is no tenant; "made": supabaseUid is null; "linked": it is set
Owner == [row: {"none", "made", "linked"}, email: Emails \cup {None}]

Auth == [known: BOOLEAN, tenant: Ids \cup {None}]

Applicant == [at: {"idle", "delete", "create"}, email: Emails \cup {None}, old: Ids \cup {None}]

Reviewer == [at: {"idle", "approve", "create", "invite", "metadata", "store", "reject"},
             id: Ids \cup {None}, email: Emails \cup {None}]

Resting == [at |-> "idle", email |-> None, old |-> None]
Off     == [at |-> "idle", id |-> None, email |-> None]

Exists(i) == req[i].status \in Live
Made(i)   == owner[i].row # "none"

Init ==
  /\ req = [i \in Ids |-> [status |-> "unused", email |-> None, linked |-> FALSE]]
  /\ owner = [i \in Ids |-> [row |-> "none", email |-> None]]
  /\ auth = [e \in Emails |-> [known |-> FALSE, tenant |-> None]]
  /\ applicant = [p \in Applicants |-> Resting]
  /\ reviewer = [v \in Reviewers |-> Off]
  /\ rejected = {} /\ broken = {} /\ hurried = {}

-----------------------------------------------------------------------------
(* submit.  An address with a PENDING or APPROVED request is refused.      *)

SubmitNew(p, e) ==
  /\ applicant[p].at = "idle"
  /\ \A i \in Ids: Exists(i) => req[i].email # e
  /\ applicant' = [applicant EXCEPT ![p] = [at |-> "create", email |-> e, old |-> None]]
  /\ UNCHANGED <<req, owner, auth, reviewer, rejected, broken, hurried>>

SubmitAgain(p, i) ==
  /\ applicant[p].at = "idle" /\ req[i].status = "REJECTED"
  /\ applicant' = [applicant EXCEPT ![p] = [at |-> "delete", email |-> req[i].email, old |-> i]]
  /\ UNCHANGED <<req, owner, auth, reviewer, rejected, broken, hurried>>

\* mutant of SubmitDelete: the old request is deleted by its address
SubmitDeleteMutByEmail(p) ==
  /\ applicant[p].at = "delete"
  /\ req' = [i \in Ids |-> IF Exists(i) /\ req[i].email = applicant[p].email
                           THEN [req[i] EXCEPT !.status = "deleted"] ELSE req[i]]
  /\ applicant' = [applicant EXCEPT ![p].at = "create"]
  /\ UNCHANGED <<owner, auth, reviewer, rejected, broken, hurried>>

\* by id, whatever has become of the request; a deleted one makes it throw
SubmitDelete(p) ==
  /\ applicant[p].at = "delete" /\ Exists(applicant[p].old)
  /\ req' = [req EXCEPT ![applicant[p].old].status = "deleted"]
  /\ applicant' = [applicant EXCEPT ![p].at = "create"]
  /\ UNCHANGED <<owner, auth, reviewer, rejected, broken, hurried>>

\* contact_email is unique: the insert of the slower of two applicants throws
SubmitCreate(p, i) ==
  /\ applicant[p].at = "create" /\ req[i].status = "unused" /\ ~Made(i)
  /\ \A j \in Ids: Exists(j) => req[j].email # applicant[p].email
  /\ req' = [req EXCEPT ![i] = [status |-> "PENDING", email |-> applicant[p].email, linked |-> FALSE]]
  /\ applicant' = [applicant EXCEPT ![p] = Resting]
  /\ UNCHANGED <<owner, auth, reviewer, rejected, broken, hurried>>

SubmitFails(p) ==
  /\ applicant[p].at # "idle"
  /\ applicant' = [applicant EXCEPT ![p] = Resting]
  /\ UNCHANGED <<req, owner, auth, reviewer, rejected, broken, hurried>>

-----------------------------------------------------------------------------
(* approve and reject.                                                     *)

\* both read the request and refuse one that is not PENDING
Review(v, i, verdict) ==
  /\ reviewer[v].at = "idle" /\ req[i].status = "PENDING"
  /\ reviewer' = [reviewer EXCEPT ![v] = [at |-> verdict, id |-> i, email |-> None]]
  /\ UNCHANGED <<req, owner, auth, applicant, rejected, broken, hurried>>

Goes(v, at) == reviewer' = [reviewer EXCEPT ![v].at = at]

\* a tenant for address e is inserted by v: who has checked e by now did not see it
Inserted(v, i, e) ==
  /\ owner' = [owner EXCEPT ![i] = [row |-> "made", email |-> e]]
  /\ hurried' = IF \E w \in Reviewers \ {v}: reviewer[w].at = "create" /\ reviewer[w].email = e
                THEN hurried \cup {i} ELSE hurried

\* mutant of Approve: the request is not updated with the tenant
ApproveMutUnlinked(v) ==
  LET i == reviewer[v].id IN
  /\ reviewer[v].at = "approve" /\ ~Made(i) /\ Exists(i)
  /\ Inserted(v, i, req[i].email)
  /\ req' = [req EXCEPT ![i].status = "APPROVED"]
  /\ Goes(v, "invite")
  /\ UNCHANGED <<auth, applicant, rejected, broken>>

\* mutant of Approve: the tenant's id is not that of the request, so that nothing
\* stops the second of two approvals
ApproveMutTwice(v) ==
  LET i == reviewer[v].id IN
  /\ reviewer[v].at = "approve" /\ Exists(i)
  /\ Inserted(v, i, req[i].email)
  /\ req' = [req EXCEPT ![i] = [status |-> "APPROVED", email |-> req[i].email, linked |-> TRUE]]
  /\ Goes(v, "invite")
  /\ UNCHANGED <<auth, applicant, rejected, broken>>

\* the transaction: the tenant with the id of its request (a second one throws),
\* its owner, and the request by id, whatever its status by now
Approve(v) ==
  LET i == reviewer[v].id IN
  /\ reviewer[v].at = "approve" /\ ~Made(i) /\ Exists(i)
  /\ Inserted(v, i, req[i].email)
  /\ req' = [req EXCEPT ![i] = [status |-> "APPROVED", email |-> req[i].email, linked |-> TRUE]]
  /\ Goes(v, "invite")
  /\ UNCHANGED <<auth, applicant, rejected, broken>>

\* mutant of CreateTenant: nobody looks for a user with that address
CreateTenantMutUnchecked(v, e) ==
  /\ reviewer[v].at = "idle"
  /\ reviewer' = [reviewer EXCEPT ![v] = [at |-> "create", id |-> None, email |-> e]]
  /\ UNCHANGED <<req, owner, auth, applicant, rejected, broken, hurried>>

\* createTenant refuses the address of a user; the owners are the users known here
CreateTenant(v, e) ==
  /\ reviewer[v].at = "idle" /\ \A i \in Ids: Made(i) => owner[i].email # e
  /\ reviewer' = [reviewer EXCEPT ![v] = [at |-> "create", id |-> None, email |-> e]]
  /\ UNCHANGED <<req, owner, auth, applicant, rejected, broken, hurried>>

\* its transaction: a new uuid for the tenant, and the owner
CreateInsert(v, i) ==
  /\ reviewer[v].at = "create" /\ req[i].status = "unused" /\ ~Made(i)
  /\ Inserted(v, i, reviewer[v].email)
  /\ reviewer' = [reviewer EXCEPT ![v] = [at |-> "invite", id |-> i, email |-> None]]
  /\ UNCHANGED <<req, auth, applicant, rejected, broken>>

\* inviteUserByEmail: a new auth user, or the one the address has
Invite(v) ==
  /\ reviewer[v].at = "invite"
  /\ auth' = [auth EXCEPT ![owner[reviewer[v].id].email].known = TRUE]
  /\ Goes(v, "metadata")
  /\ UNCHANGED <<req, owner, applicant, rejected, broken, hurried>>

\* mutant of SetMetadata: its error is not thrown
SetMetadataMutLost(v) ==
  /\ reviewer[v].at = "metadata"
  /\ Goes(v, "store")
  /\ UNCHANGED <<req, owner, auth, applicant, rejected, broken, hurried>>

SetMetadata(v) ==
  /\ reviewer[v].at = "metadata"
  /\ auth' = [auth EXCEPT ![owner[reviewer[v].id].email].tenant = reviewer[v].id]
  /\ Goes(v, "store")
  /\ UNCHANGED <<req, owner, applicant, rejected, broken, hurried>>

Linked(e) == {i \in Ids: owner[i].row = "linked" /\ owner[i].email = e}

\* supabase_uid is unique over all users
Store(v) ==
  LET i == reviewer[v].id IN
  /\ reviewer[v].at = "store" /\ Linked(owner[i].email) = {}
  /\ owner' = [owner EXCEPT ![i].row = "linked"]
  /\ reviewer' = [reviewer EXCEPT ![v] = Off]
  /\ UNCHANGED <<req, auth, applicant, rejected, broken, hurried>>

\* the update is by id, whatever the status by now
Reject(v) ==
  LET i == reviewer[v].id IN
  /\ reviewer[v].at = "reject" /\ Exists(i)
  /\ req' = [req EXCEPT ![i].status = "REJECTED"]
  /\ rejected' = rejected \cup {i}
  /\ reviewer' = [reviewer EXCEPT ![v] = Off]
  /\ UNCHANGED <<owner, auth, applicant, broken, hurried>>

\* a call throws or the process dies; after the transaction nothing is undone
ReviewFails(v) ==
  /\ reviewer[v].at # "idle"
  /\ broken' = IF reviewer[v].at \in {"invite", "metadata", "store"}
               THEN broken \cup {reviewer[v].id} ELSE broken
  /\ reviewer' = [reviewer EXCEPT ![v] = Off]
  /\ UNCHANGED <<req, owner, auth, applicant, rejected, hurried>>

-----------------------------------------------------------------------------
SubmitStep(p) ==
  \/ \E e \in Emails: SubmitNew(p, e)
  \/ \E i \in Ids: SubmitAgain(p, i) \/ SubmitCreate(p, i)
  \/ SubmitDelete(p) \/ SubmitFails(p)

ReviewStep(v) ==
  \/ \E i \in Ids, verdict \in {"approve", "reject"}: Review(v, i, verdict)
  \/ \E e \in Emails: CreateTenant(v, e)
  \/ \E i \in Ids: CreateInsert(v, i)
  \/ Approve(v) \/ Invite(v) \/ SetMetadata(v) \/ Store(v) \/ Reject(v) \/ ReviewFails(v)

Next ==
  \/ \E p \in Applicants: SubmitStep(p)
  \/ \E v \in Reviewers: ReviewStep(v)

Spec == Init /\ [][Next]_vars

-----------------------------------------------------------------------------
(* Properties.                                                             *)

TypeOK ==
  /\ req \in [Ids -> Request]
  /\ owner \in [Ids -> Owner]
  /\ auth \in [Emails -> Auth]
  /\ applicant \in [Applicants -> Applicant]
  /\ reviewer \in [Reviewers -> Reviewer]
  /\ rejected \subseteq Ids /\ broken \subseteq Ids /\ hurried \subseteq Ids

\* A request is APPROVED exactly when its tenant and owner exist and are linked from
\* it (createTenant makes its tenants without a request); only a rejection that overlapped the approval, or the re-application after
\* it, breaks the tie, and no link points at a tenant that is not there.
ApprovalMeansTenant ==
  \A i \in Ids:
    /\ req[i].status = "APPROVED" => Made(i) /\ req[i].linked
    /\ Made(i) /\ req[i].status # "unused" =>
         /\ req[i].linked /\ (req[i].status = "APPROVED" \/ i \in rejected)
         /\ owner[i].email = req[i].email

\* Nobody's request disappears under review: only a request that was rejected is
\* ever removed, however many applicants use its address at once.
OnlyRejectedRemoved == \A i \in Ids: req[i].status = "deleted" => i \in rejected

\* An owner whose Supabase login is stored logs in with metadata, and into that
\* tenant, unless another tenant was made for the same address; one without a
\* login is being invited, or the invitation was cut off.
OwnerLogsIn ==
  \A i \in Ids:
    /\ owner[i].row = "linked" =>
         LET t == auth[owner[i].email].tenant IN
         t # None /\ (t = i \/ (Made(t) /\ owner[t].email = owner[i].email))
    /\ owner[i].row = "made" =>
         \/ i \in broken
         \/ \E v \in Reviewers: reviewer[v].id = i /\ reviewer[v].at \in {"invite", "metadata", "store"}

\* createTenant gives an address a second tenant only when one of the two came into
\* being between the check and the transaction of a createTenant; approve, which
\* looks at no users, may give it one at any time.
OneTenantPerAddress ==
  \A i, j \in Ids:
    i # j /\ Made(i) /\ Made(j) /\ owner[i].email = owner[j].email =>
      \/ {i, j} \cap hurried # {}
      \/ req[i].status # "unused" \/ req[j].status # "unused"

\* One approval in two hands makes one tenant: once an owner has a login, no step
\* takes it away or hands it to another address.
LoginIsKept ==
  [][\A i \in Ids: owner[i].row = "linked" => owner'[i] = owner[i]]_vars

-----------------------------------------------------------------------------
(* The strengthening that is inductive.                                    *)

\* a request has an address, and a rejection leaves its mark
RequestsGrounded ==
  \A i \in Ids:
    /\ req[i].status # "unused" => req[i].email \in Emails
    /\ req[i].status \in {"REJECTED", "deleted"} => i \in rejected
    /\ req[i].status = "unused" => i \notin rejected

ApplicantsGrounded ==
  \A p \in Applicants:
    /\ applicant[p].at # "idle" => applicant[p].email \in Emails
    /\ applicant[p].at = "delete" => applicant[p].old \in rejected

\* past the transaction there is a tenant, and past the metadata its address has one
Inviting == {"invite", "metadata", "store"}
ReviewersGrounded ==
  \A v \in Reviewers:
    /\ reviewer[v].at \notin {"idle", "create"} => reviewer[v].id \in Ids
    /\ reviewer[v].at \in Inviting => Made(reviewer[v].id)
    /\ reviewer[v].at = "create" => reviewer[v].email \in Emails
    /\ reviewer[v].at = "store" => auth[owner[reviewer[v].id].email].tenant # None

\* an address whose check passed has no owner but those made since
ChecksGrounded ==
  /\ \A v \in Reviewers, i \in Ids:
       reviewer[v].at = "create" /\ Made(i) /\ owner[i].email = reviewer[v].email => i \in hurried
  /\ \A i \in Ids: Made(i) => owner[i].email \in Emails

\* the metadata of an address names a tenant made for it
LoginsGrounded ==
  /\ \A e \in Emails:
       LET t == auth[e].tenant IN t # None => Made(t) /\ owner[t].email = e
  /\ \A i \in Ids: owner[i].row = "linked" => auth[owner[i].email].tenant # None

BeingInvited ==
  \A i \in Ids: owner[i].row = "made" =>
    i \in broken \/ \E v \in Reviewers: reviewer[v].id = i /\ reviewer[v].at \in Inviting

IInv ==
  /\ TypeOK /\ RequestsGrounded /\ ApplicantsGrounded /\ ApprovalMeansTenant
  /\ ReviewersGrounded /\ LoginsGrounded /\ BeingInvited
  /\ ChecksGrounded /\ OneTenantPerAddress

=============================================================================
