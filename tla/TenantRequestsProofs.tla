------------------------- MODULE TenantRequestsProofs -------------------------
(***************************************************************************)
(* Proofs about TenantRequests, for any number of requests, addresses,     *)
(* applicants and reviewers.                                               *)
(***************************************************************************)
EXTENDS TenantRequests, TLAPS

\* The invariant holds initially.
LEMMA Initially == Init => IInv
<1> SUFFICES ASSUME Init PROVE IInv
  OBVIOUS
<1> USE DEF Init, Resting, Off
<1>1. TypeOK
  BY DEF TypeOK, Request, Owner, Auth, Applicant, Reviewer
<1>2. RequestsGrounded /\ ApplicantsGrounded
  BY DEF RequestsGrounded, ApplicantsGrounded
<1>3. ApprovalMeansTenant /\ BeingInvited
  BY DEF ApprovalMeansTenant, BeingInvited, Made
<1>4. ReviewersGrounded /\ LoginsGrounded
  BY DEF ReviewersGrounded, LoginsGrounded, Inviting
<1>5. ChecksGrounded /\ OneTenantPerAddress
  BY DEF ChecksGrounded, OneTenantPerAddress, Made
<1>6. QED
  BY <1>1, <1>2, <1>3, <1>4, <1>5 DEF IInv

\* A new status is all that changes of a request.
LEMMA NewStatus ==
  ASSUME TypeOK, NEW i \in Ids, NEW s \in {"deleted"} \cup Live
  PROVE  [req EXCEPT ![i].status = s] \in [Ids -> Request]
<1>1. req \in [Ids -> Request] /\ req[i] \in Request
  BY DEF TypeOK
<1>2. [req[i] EXCEPT !.status = s] \in Request
  BY <1>1 DEF Request
<1>3. QED
  BY <1>1, <1>2

\* So it is with the login of an address.
LEMMA NewLogin ==
  ASSUME TypeOK, NEW e \in Emails, NEW t \in Ids
  PROVE  /\ [auth EXCEPT ![e].known = TRUE] \in [Emails -> Auth]
         /\ [auth EXCEPT ![e].tenant = t] \in [Emails -> Auth]
<1>1. auth \in [Emails -> Auth] /\ auth[e] \in Auth
  BY DEF TypeOK
<1>2. [auth[e] EXCEPT !.known = TRUE] \in Auth /\ [auth[e] EXCEPT !.tenant = t] \in Auth
  BY <1>1 DEF Auth
<1>3. QED
  BY <1>1, <1>2

\* Every step keeps the types.
LEMMA Step_TypeOK == IInv /\ [Next]_vars => TypeOK'
<1> SUFFICES ASSUME IInv, [Next]_vars PROVE TypeOK'
  OBVIOUS
<1>t. /\ TypeOK /\ RequestsGrounded /\ ApplicantsGrounded /\ ReviewersGrounded
      /\ ApprovalMeansTenant /\ ChecksGrounded
  BY DEF IInv
<1> USE DEF TypeOK, Request, Live, Owner, Auth, Applicant, Reviewer
<1>1. ASSUME NEW p \in Applicants, NEW e \in Emails, SubmitNew(p, e) PROVE TypeOK'
  BY <1>t, <1>1 DEF SubmitNew
<1>2. ASSUME NEW p \in Applicants, NEW i \in Ids, SubmitAgain(p, i) PROVE TypeOK'
  BY <1>t, <1>2 DEF SubmitAgain
<1>3. ASSUME NEW p \in Applicants, SubmitDelete(p) PROVE TypeOK'
  <2>1. applicant[p].old \in Ids
    BY <1>t, <1>3 DEF SubmitDelete, ApplicantsGrounded
  <2>2. req' \in [Ids -> Request]
    BY <1>t, <1>3, <2>1, NewStatus DEF SubmitDelete
  <2>3. applicant' \in [Applicants -> Applicant]
    <3>1. applicant[p] \in Applicant
      BY <1>t
    <3>2. [applicant[p] EXCEPT !.at = "create"] \in Applicant
      BY <3>1
    <3>3. QED
      BY <1>t, <1>3, <3>2 DEF SubmitDelete
  <2>4. QED
    BY <1>t, <1>3, <2>2 DEF SubmitDelete
<1>4. ASSUME NEW p \in Applicants, NEW i \in Ids, SubmitCreate(p, i) PROVE TypeOK'
  BY <1>t, <1>4 DEF SubmitCreate, Resting
<1>5. ASSUME NEW p \in Applicants, SubmitFails(p) PROVE TypeOK'
  BY <1>t, <1>5 DEF SubmitFails, Resting
<1>6. ASSUME NEW v \in Reviewers, NEW i \in Ids, NEW verdict \in {"approve", "reject"},
             Review(v, i, verdict)
      PROVE  TypeOK'
  BY <1>t, <1>6 DEF Review
<1>7. ASSUME NEW v \in Reviewers, Approve(v) PROVE TypeOK'
  BY <1>t, <1>7, ZenonT(60) DEF Approve, Inserted, Goes, Made, Exists, ReviewersGrounded, ApplicantsGrounded
<1>8. ASSUME NEW v \in Reviewers, Invite(v) PROVE TypeOK'
  <2>1. reviewer[v].id \in Ids /\ owner[reviewer[v].id].email \in Emails
    BY <1>t, <1>8 DEF Invite, ReviewersGrounded, ChecksGrounded, Inviting
  <2>2. auth' \in [Emails -> Auth]
    BY <1>t, <1>8, <2>1, NewLogin DEF Invite
  <2>3. reviewer' \in [Reviewers -> Reviewer]
    BY <1>t, <1>8, ZenonT(60) DEF Invite, Goes
  <2>4. QED
    BY <1>t, <1>8, <2>2, <2>3 DEF Invite
<1>9. ASSUME NEW v \in Reviewers, SetMetadata(v) PROVE TypeOK'
  <2>1. reviewer[v].id \in Ids /\ owner[reviewer[v].id].email \in Emails
    BY <1>t, <1>9
      DEF SetMetadata, ReviewersGrounded, ChecksGrounded, Inviting
  <2>2. auth' \in [Emails -> Auth]
    BY <1>t, <1>9, <2>1 DEF SetMetadata
  <2>3. reviewer' \in [Reviewers -> Reviewer]
    BY <1>t, <1>9, ZenonT(60) DEF SetMetadata, Goes
  <2>4. QED
    BY <1>t, <1>9, <2>2, <2>3 DEF SetMetadata
<1>10. ASSUME NEW v \in Reviewers, Store(v) PROVE TypeOK'
  BY <1>t, <1>10 DEF Store, Off, ReviewersGrounded
<1>11. ASSUME NEW v \in Reviewers, Reject(v) PROVE TypeOK'
  <2>1. reviewer[v].id \in Ids
    BY <1>t, <1>11 DEF Reject, ReviewersGrounded
  <2>2. req' \in [Ids -> Request]
    BY <1>t, <1>11, <2>1, NewStatus DEF Reject
  <2>3. reviewer' \in [Reviewers -> Reviewer]
    BY <1>t, <1>11 DEF Reject, Off
  <2>4. QED
    BY <1>t, <1>11, <2>2, <2>3 DEF Reject
<1>12. ASSUME NEW v \in Reviewers, ReviewFails(v) PROVE TypeOK'
  BY <1>t, <1>12 DEF ReviewFails, Off, ReviewersGrounded
<1>13. ASSUME NEW v \in Reviewers, NEW e \in Emails, CreateTenant(v, e) PROVE TypeOK'
  BY <1>t, <1>13 DEF CreateTenant
<1>14. ASSUME NEW v \in Reviewers, NEW i \in Ids, CreateInsert(v, i) PROVE TypeOK'
  BY <1>t, <1>14 DEF CreateInsert, Inserted, ReviewersGrounded
<1>15. ASSUME UNCHANGED vars PROVE TypeOK'
  BY <1>t, <1>15 DEF vars
<1>16. QED
  BY <1>1, <1>2, <1>3, <1>4, <1>5, <1>6, <1>7, <1>8, <1>9, <1>10, <1>11, <1>12, <1>13, <1>14,
     <1>15
    DEF Next, SubmitStep, ReviewStep

\* Every step keeps the rest of the invariant.
LEMMA Step_IInv == IInv /\ [Next]_vars => IInv'
<1> SUFFICES ASSUME IInv, [Next]_vars PROVE IInv'
  OBVIOUS
<1>t. /\ TypeOK /\ RequestsGrounded /\ ApplicantsGrounded /\ ApprovalMeansTenant
      /\ ReviewersGrounded /\ LoginsGrounded /\ BeingInvited /\ ChecksGrounded
      /\ OneTenantPerAddress
  BY DEF IInv
<1>p. TypeOK'
  BY Step_TypeOK
<1> USE DEF Inviting, Made
<1>1. ASSUME NEW p \in Applicants, NEW e \in Emails, SubmitNew(p, e) PROVE IInv'
  <2>1. RequestsGrounded'
    BY <1>t, <1>1 DEF SubmitNew, RequestsGrounded
  <2>2. ApplicantsGrounded'
    BY <1>t, <1>1 DEF SubmitNew, ApplicantsGrounded
  <2>3. ApprovalMeansTenant'
    BY <1>t, <1>1 DEF SubmitNew, ApprovalMeansTenant
  <2>4. ReviewersGrounded'
    BY <1>t, <1>1 DEF SubmitNew, ReviewersGrounded
  <2>5. LoginsGrounded'
    BY <1>t, <1>1 DEF SubmitNew, LoginsGrounded
  <2>6. BeingInvited'
    BY <1>t, <1>1 DEF SubmitNew, BeingInvited
  <2>7. ChecksGrounded'
    BY <1>t, <1>1 DEF SubmitNew, ChecksGrounded
  <2>8. OneTenantPerAddress'
    BY <1>t, <1>1 DEF SubmitNew, OneTenantPerAddress
  <2>9. QED
    BY <1>p, <2>1, <2>2, <2>3, <2>4, <2>5, <2>6, <2>7, <2>8 DEF IInv
<1>2. ASSUME NEW p \in Applicants, NEW i \in Ids, SubmitAgain(p, i) PROVE IInv'
  <2>1. RequestsGrounded'
    BY <1>t, <1>2 DEF SubmitAgain, RequestsGrounded
  <2>2. ApplicantsGrounded'
    BY <1>t, <1>2 DEF SubmitAgain, ApplicantsGrounded, RequestsGrounded
  <2>3. ApprovalMeansTenant'
    BY <1>t, <1>2 DEF SubmitAgain, ApprovalMeansTenant
  <2>4. ReviewersGrounded'
    BY <1>t, <1>2 DEF SubmitAgain, ReviewersGrounded
  <2>5. LoginsGrounded'
    BY <1>t, <1>2 DEF SubmitAgain, LoginsGrounded
  <2>6. BeingInvited'
    BY <1>t, <1>2 DEF SubmitAgain, BeingInvited
  <2>7. ChecksGrounded'
    BY <1>t, <1>2 DEF SubmitAgain, ChecksGrounded
  <2>8. OneTenantPerAddress'
    BY <1>t, <1>2 DEF SubmitAgain, OneTenantPerAddress
  <2>9. QED
    BY <1>p, <2>1, <2>2, <2>3, <2>4, <2>5, <2>6, <2>7, <2>8 DEF IInv
<1>3. ASSUME NEW p \in Applicants, SubmitDelete(p) PROVE IInv'
  <2>1. RequestsGrounded'
    BY <1>t, <1>3 DEF SubmitDelete, RequestsGrounded, ApplicantsGrounded
  <2>2. ApplicantsGrounded'
    BY <1>t, <1>3 DEF SubmitDelete, ApplicantsGrounded
  <2>3. ApprovalMeansTenant'
    BY <1>t, <1>3, RequestsAssumption
      DEF SubmitDelete, ApprovalMeansTenant, ApplicantsGrounded, RequestsGrounded, TypeOK, Exists,
          Live
  <2>4. ReviewersGrounded'
    BY <1>t, <1>3 DEF SubmitDelete, ReviewersGrounded
  <2>5. LoginsGrounded'
    BY <1>t, <1>3 DEF SubmitDelete, LoginsGrounded
  <2>6. BeingInvited'
    BY <1>t, <1>3 DEF SubmitDelete, BeingInvited
  <2>7. ChecksGrounded'
    BY <1>t, <1>3 DEF SubmitDelete, ChecksGrounded
  <2>8. OneTenantPerAddress'
    BY <1>t, <1>3 DEF SubmitDelete, OneTenantPerAddress
  <2>9. QED
    BY <1>p, <2>1, <2>2, <2>3, <2>4, <2>5, <2>6, <2>7, <2>8 DEF IInv
<1>4. ASSUME NEW p \in Applicants, NEW i \in Ids, SubmitCreate(p, i) PROVE IInv'
  <2>1. RequestsGrounded'
    BY <1>t, <1>4 DEF SubmitCreate, RequestsGrounded, ApplicantsGrounded
  <2>2. ApplicantsGrounded'
    BY <1>t, <1>4 DEF SubmitCreate, Resting, ApplicantsGrounded
  <2>3. ApprovalMeansTenant'
    BY <1>t, <1>4 DEF SubmitCreate, ApprovalMeansTenant, RequestsGrounded
  <2>4. ReviewersGrounded'
    BY <1>t, <1>4 DEF SubmitCreate, ReviewersGrounded
  <2>5. LoginsGrounded'
    BY <1>t, <1>4 DEF SubmitCreate, LoginsGrounded
  <2>6. BeingInvited'
    BY <1>t, <1>4 DEF SubmitCreate, BeingInvited
  <2>7. ChecksGrounded'
    BY <1>t, <1>4 DEF SubmitCreate, ChecksGrounded
  <2>8. OneTenantPerAddress'
    BY <1>t, <1>4 DEF SubmitCreate, OneTenantPerAddress
  <2>9. QED
    BY <1>p, <2>1, <2>2, <2>3, <2>4, <2>5, <2>6, <2>7, <2>8 DEF IInv
<1>5. ASSUME NEW p \in Applicants, SubmitFails(p) PROVE IInv'
  <2>1. RequestsGrounded'
    BY <1>t, <1>5 DEF SubmitFails, RequestsGrounded
  <2>2. ApplicantsGrounded'
    BY <1>t, <1>5 DEF SubmitFails, Resting, ApplicantsGrounded
  <2>3. ApprovalMeansTenant'
    BY <1>t, <1>5 DEF SubmitFails, ApprovalMeansTenant
  <2>4. ReviewersGrounded'
    BY <1>t, <1>5 DEF SubmitFails, ReviewersGrounded
  <2>5. LoginsGrounded'
    BY <1>t, <1>5 DEF SubmitFails, LoginsGrounded
  <2>6. BeingInvited'
    BY <1>t, <1>5 DEF SubmitFails, BeingInvited
  <2>7. ChecksGrounded'
    BY <1>t, <1>5 DEF SubmitFails, ChecksGrounded
  <2>8. OneTenantPerAddress'
    BY <1>t, <1>5 DEF SubmitFails, OneTenantPerAddress
  <2>9. QED
    BY <1>p, <2>1, <2>2, <2>3, <2>4, <2>5, <2>6, <2>7, <2>8 DEF IInv
<1>6. ASSUME NEW v \in Reviewers, NEW i \in Ids, NEW verdict \in {"approve", "reject"},
             Review(v, i, verdict)
      PROVE  IInv'
  <2>1. RequestsGrounded'
    BY <1>t, <1>6 DEF Review, RequestsGrounded
  <2>2. ApplicantsGrounded'
    BY <1>t, <1>6 DEF Review, ApplicantsGrounded
  <2>3. ApprovalMeansTenant'
    BY <1>t, <1>6 DEF Review, ApprovalMeansTenant
  <2>4. ReviewersGrounded'
    BY <1>t, <1>6 DEF Review, ReviewersGrounded
  <2>5. LoginsGrounded'
    BY <1>t, <1>6 DEF Review, LoginsGrounded
  <2>6. BeingInvited'
    BY <1>t, <1>6 DEF Review, BeingInvited
  <2>7. ChecksGrounded'
    BY <1>t, <1>6 DEF Review, ChecksGrounded
  <2>8. OneTenantPerAddress'
    BY <1>t, <1>6 DEF Review, OneTenantPerAddress
  <2>9. QED
    BY <1>p, <2>1, <2>2, <2>3, <2>4, <2>5, <2>6, <2>7, <2>8 DEF IInv
<1>7. ASSUME NEW v \in Reviewers, Approve(v) PROVE IInv'
  <2>1. RequestsGrounded'
    BY <1>t, <1>7 DEF Approve, Inserted, Exists, RequestsGrounded, Live
  <2>2. ApplicantsGrounded'
    BY <1>t, <1>7 DEF Approve, ApplicantsGrounded
  <2>3. ApprovalMeansTenant'
    BY <1>t, <1>7 DEF Approve, Inserted, ApprovalMeansTenant, TypeOK
  <2>4. ReviewersGrounded'
    BY <1>t, <1>7
      DEF Approve, Inserted, Goes, Exists, ReviewersGrounded, RequestsGrounded, BeingInvited, TypeOK,
          Live, Auth, Applicant, Reviewer
  <2>5. LoginsGrounded'
    BY <1>t, <1>7
      DEF Approve, Inserted, Goes, LoginsGrounded, RequestsGrounded, ApplicantsGrounded
  <2>6. BeingInvited'
    BY <1>t, <1>7 DEF Approve, Inserted, Goes, BeingInvited, TypeOK
  <2>7. ChecksGrounded'
    BY <1>t, <1>7
      DEF Approve, Inserted, Goes, ChecksGrounded, ReviewersGrounded, RequestsGrounded, Exists,
          Live, TypeOK
  <2>8. OneTenantPerAddress'
    BY <1>t, <1>7 DEF Approve, Inserted, Goes, OneTenantPerAddress, TypeOK
  <2>9. QED
    BY <1>p, <2>1, <2>2, <2>3, <2>4, <2>5, <2>6, <2>7, <2>8 DEF IInv
<1>8. ASSUME NEW v \in Reviewers, Invite(v) PROVE IInv'
  <2>1. RequestsGrounded'
    BY <1>t, <1>8 DEF Invite, RequestsGrounded
  <2>2. ApplicantsGrounded'
    BY <1>t, <1>8 DEF Invite, ApplicantsGrounded
  <2>3. ApprovalMeansTenant'
    BY <1>t, <1>8 DEF Invite, ApprovalMeansTenant
  <2>4. ReviewersGrounded'
    BY <1>t, <1>8
      DEF Invite, Goes, ReviewersGrounded, RequestsGrounded, ApprovalMeansTenant,
          LoginsGrounded, TypeOK, Request, Live, Owner, Auth, Applicant, Reviewer
  <2>5. LoginsGrounded'
    <3>1. /\ auth' \in [Emails -> Auth]
          /\ \A e \in Emails: auth'[e].tenant = auth[e].tenant
      BY <1>t, <1>8, <1>p DEF Invite, TypeOK, Auth
    <3>2. \A i \in Ids: owner[i].row = "linked" => owner[i].email \in Emails
      BY <1>t DEF ChecksGrounded
    <3>3. QED
      BY <1>t, <1>8, <3>1, <3>2 DEF Invite, LoginsGrounded
  <2>6. BeingInvited'
    BY <1>t, <1>8 DEF Invite, Goes, BeingInvited
  <2>7. ChecksGrounded'
    BY <1>t, <1>8 DEF Invite, Goes, ChecksGrounded
  <2>8. OneTenantPerAddress'
    BY <1>t, <1>8 DEF Invite, Goes, OneTenantPerAddress
  <2>9. QED
    BY <1>p, <2>1, <2>2, <2>3, <2>4, <2>5, <2>6, <2>7, <2>8 DEF IInv
<1>9. ASSUME NEW v \in Reviewers, SetMetadata(v) PROVE IInv'
  <2>1. RequestsGrounded'
    BY <1>t, <1>9 DEF SetMetadata, RequestsGrounded
  <2>2. ApplicantsGrounded'
    BY <1>t, <1>9 DEF SetMetadata, ApplicantsGrounded
  <2>3. ApprovalMeansTenant'
    BY <1>t, <1>9 DEF SetMetadata, ApprovalMeansTenant
  <2>4. ReviewersGrounded'
    <3>1. \A e \in Emails: auth[e].tenant # None => auth'[e].tenant # None
      BY <1>t, <1>9, RequestsAssumption DEF SetMetadata, TypeOK, ReviewersGrounded
    <3>2. reviewer[v].id \in Ids /\ owner[reviewer[v].id].email \in Emails
      BY <1>t, <1>9 DEF SetMetadata, ReviewersGrounded, ChecksGrounded
    <3>3. auth'[owner[reviewer[v].id].email].tenant # None
      BY <1>t, <1>9, <3>2, RequestsAssumption DEF SetMetadata, TypeOK
    <3>4. /\ reviewer'[v].id = reviewer[v].id
          /\ \A w \in Reviewers \ {v}: reviewer'[w] = reviewer[w]
      BY <1>9 DEF SetMetadata, Goes
    <3>5. \A w \in Reviewers: reviewer[w].at \in Inviting => owner[reviewer[w].id].email \in Emails
      BY <1>t DEF ReviewersGrounded, ChecksGrounded
    <3>6. ASSUME NEW w \in Reviewers, reviewer'[w].at = "create"
          PROVE  reviewer'[w].email \in Emails
      BY <1>t, <1>9, <3>4, <3>6 DEF SetMetadata, Goes, ReviewersGrounded, TypeOK
    <3>7. ASSUME NEW w \in Reviewers, reviewer'[w].at = "store"
          PROVE  auth'[owner[reviewer'[w].id].email].tenant # None
      BY <1>t, <1>9, <3>1, <3>3, <3>4, <3>5, <3>7 DEF ReviewersGrounded
    <3>8. /\ reviewer'[v].at = "store" /\ reviewer[v].at = "metadata"
          /\ UNCHANGED owner
      BY <1>t, <1>9 DEF SetMetadata, Goes, TypeOK
    <3>9. ASSUME NEW w \in Reviewers
          PROVE  /\ reviewer'[w].at \notin {"idle", "create"} => reviewer'[w].id \in Ids
                 /\ reviewer'[w].at \in Inviting => Made(reviewer'[w].id)
      BY <1>t, <3>4, <3>8 DEF ReviewersGrounded
    <3>10. QED
      BY <3>6, <3>7, <3>8, <3>9 DEF ReviewersGrounded
  <2>5. LoginsGrounded'
    <3> DEFINE i == reviewer[v].id
    <3>1. i \in Ids /\ Made(i) /\ owner[i].email \in Emails /\ i # None
      BY <1>t, <1>9, RequestsAssumption
        DEF SetMetadata, ReviewersGrounded, ChecksGrounded
    <3>2. /\ auth'[owner[i].email].tenant = i
          /\ \A e \in Emails \ {owner[i].email}: auth'[e] = auth[e]
      BY <1>t, <1>9, <3>1 DEF SetMetadata, TypeOK
    <3>3. \A j \in Ids: owner[j].row = "linked" => owner[j].email \in Emails
      BY <1>t DEF ChecksGrounded
    <3>4. ASSUME NEW e \in Emails, auth'[e].tenant # None
          PROVE  Made(auth'[e].tenant) /\ owner[auth'[e].tenant].email = e
      BY <1>t, <3>1, <3>2, <3>4 DEF LoginsGrounded
    <3>5. ASSUME NEW j \in Ids, owner[j].row = "linked"
          PROVE  auth'[owner[j].email].tenant # None
      BY <1>t, <3>1, <3>2, <3>3, <3>5 DEF LoginsGrounded
    <3>6. UNCHANGED owner
      BY <1>9 DEF SetMetadata
    <3>7. QED
      BY <3>4, <3>5, <3>6 DEF LoginsGrounded
  <2>6. BeingInvited'
    BY <1>t, <1>9 DEF SetMetadata, Goes, BeingInvited
  <2>7. ChecksGrounded'
    BY <1>t, <1>9 DEF SetMetadata, Goes, ChecksGrounded
  <2>8. OneTenantPerAddress'
    BY <1>t, <1>9 DEF SetMetadata, Goes, OneTenantPerAddress
  <2>9. QED
    BY <1>p, <2>1, <2>2, <2>3, <2>4, <2>5, <2>6, <2>7, <2>8 DEF IInv
<1>10. ASSUME NEW v \in Reviewers, Store(v) PROVE IInv'
  <2>1. RequestsGrounded'
    BY <1>t, <1>10 DEF Store, RequestsGrounded
  <2>2. ApplicantsGrounded'
    BY <1>t, <1>10 DEF Store, ApplicantsGrounded
  <2>3. ApprovalMeansTenant'
    BY <1>t, <1>10 DEF Store, ApprovalMeansTenant, ReviewersGrounded
  <2>4. ReviewersGrounded'
    BY <1>t, <1>10 DEF Store, Off, ReviewersGrounded
  <2>5. LoginsGrounded'
    BY <1>t, <1>10 DEF Store, LoginsGrounded, ReviewersGrounded
  <2>6. BeingInvited'
    BY <1>t, <1>10 DEF Store, BeingInvited, TypeOK
  <2>7. ChecksGrounded'
    <3>1. \A i \in Ids: owner'[i].email = owner[i].email /\ (Made(i)' => Made(i))
      BY <1>t, <1>10 DEF Store, ReviewersGrounded, TypeOK, Owner
    <3>2. \A w \in Reviewers: reviewer'[w].at = "create" => reviewer'[w] = reviewer[w]
      BY <1>t, <1>10 DEF Store, Off, TypeOK
    <3>3. QED
      BY <1>t, <1>10, <3>1, <3>2 DEF Store, ChecksGrounded
  <2>8. OneTenantPerAddress'
    <3>1. \A i \in Ids: owner'[i].email = owner[i].email /\ (Made(i)' => Made(i))
      BY <1>t, <1>10 DEF Store, ReviewersGrounded, TypeOK, Owner
    <3>2. QED
      BY <1>t, <1>10, <3>1 DEF Store, OneTenantPerAddress
  <2>9. QED
    BY <1>p, <2>1, <2>2, <2>3, <2>4, <2>5, <2>6, <2>7, <2>8 DEF IInv
<1>11. ASSUME NEW v \in Reviewers, Reject(v) PROVE IInv'
  <2>1. RequestsGrounded'
    BY <1>t, <1>11 DEF Reject, Exists, RequestsGrounded, Live
  <2>2. ApplicantsGrounded'
    BY <1>t, <1>11 DEF Reject, ApplicantsGrounded
  <2>3. ApprovalMeansTenant'
    BY <1>t, <1>11 DEF Reject, Exists, Live, ApprovalMeansTenant, TypeOK
  <2>4. ReviewersGrounded'
    BY <1>t, <1>11 DEF Reject, Off, ReviewersGrounded
  <2>5. LoginsGrounded'
    BY <1>t, <1>11 DEF Reject, LoginsGrounded
  <2>6. BeingInvited'
    BY <1>t, <1>11 DEF Reject, BeingInvited, RequestsGrounded, ReviewersGrounded
  <2>7. ChecksGrounded'
    BY <1>t, <1>11 DEF Reject, Off, ChecksGrounded
  <2>8. OneTenantPerAddress'
    BY <1>t, <1>11 DEF Reject, Off, OneTenantPerAddress
  <2>9. QED
    BY <1>p, <2>1, <2>2, <2>3, <2>4, <2>5, <2>6, <2>7, <2>8 DEF IInv
<1>12. ASSUME NEW v \in Reviewers, ReviewFails(v) PROVE IInv'
  <2>1. RequestsGrounded'
    BY <1>t, <1>12 DEF ReviewFails, RequestsGrounded
  <2>2. ApplicantsGrounded'
    BY <1>t, <1>12 DEF ReviewFails, ApplicantsGrounded
  <2>3. ApprovalMeansTenant'
    BY <1>t, <1>12 DEF ReviewFails, ApprovalMeansTenant
  <2>4. ReviewersGrounded'
    BY <1>t, <1>12 DEF ReviewFails, Off, ReviewersGrounded
  <2>5. LoginsGrounded'
    BY <1>t, <1>12 DEF ReviewFails, LoginsGrounded
  <2>6. BeingInvited'
    BY <1>t, <1>12 DEF ReviewFails, BeingInvited
  <2>7. ChecksGrounded'
    BY <1>t, <1>12 DEF ReviewFails, Off, ChecksGrounded
  <2>8. OneTenantPerAddress'
    BY <1>t, <1>12 DEF ReviewFails, Off, OneTenantPerAddress
  <2>9. QED
    BY <1>p, <2>1, <2>2, <2>3, <2>4, <2>5, <2>6, <2>7, <2>8 DEF IInv
<1>13. ASSUME NEW v \in Reviewers, NEW e \in Emails, CreateTenant(v, e) PROVE IInv'
  <2>1. RequestsGrounded'
    BY <1>t, <1>13 DEF CreateTenant, RequestsGrounded
  <2>2. ApplicantsGrounded'
    BY <1>t, <1>13 DEF CreateTenant, ApplicantsGrounded
  <2>3. ApprovalMeansTenant'
    BY <1>t, <1>13 DEF CreateTenant, ApprovalMeansTenant
  <2>4. ReviewersGrounded'
    BY <1>t, <1>13 DEF CreateTenant, ReviewersGrounded
  <2>5. LoginsGrounded'
    BY <1>t, <1>13 DEF CreateTenant, LoginsGrounded
  <2>6. BeingInvited'
    BY <1>t, <1>13 DEF CreateTenant, BeingInvited
  <2>7. ChecksGrounded'
    BY <1>t, <1>13 DEF CreateTenant, ChecksGrounded
  <2>8. OneTenantPerAddress'
    BY <1>t, <1>13 DEF CreateTenant, OneTenantPerAddress
  <2>9. QED
    BY <1>p, <2>1, <2>2, <2>3, <2>4, <2>5, <2>6, <2>7, <2>8 DEF IInv
<1>14. ASSUME NEW v \in Reviewers, NEW i \in Ids, CreateInsert(v, i) PROVE IInv'
  <2>1. RequestsGrounded'
    BY <1>t, <1>14 DEF CreateInsert, RequestsGrounded
  <2>2. ApplicantsGrounded'
    BY <1>t, <1>14 DEF CreateInsert, ApplicantsGrounded
  <2>3. ApprovalMeansTenant'
    BY <1>t, <1>14 DEF CreateInsert, Inserted, ApprovalMeansTenant, TypeOK
  <2>4. ReviewersGrounded'
    BY <1>t, <1>14 DEF CreateInsert, Inserted, ReviewersGrounded, TypeOK
  <2>5. LoginsGrounded'
    BY <1>t, <1>14 DEF CreateInsert, Inserted, LoginsGrounded, TypeOK
  <2>6. BeingInvited'
    BY <1>t, <1>14 DEF CreateInsert, Inserted, BeingInvited, TypeOK
  <2>7. ChecksGrounded'
    BY <1>t, <1>14 DEF CreateInsert, Inserted, ChecksGrounded, ReviewersGrounded, TypeOK
  <2>8. OneTenantPerAddress'
    BY <1>t, <1>14 DEF CreateInsert, Inserted, ChecksGrounded, OneTenantPerAddress, TypeOK
  <2>9. QED
    BY <1>p, <2>1, <2>2, <2>3, <2>4, <2>5, <2>6, <2>7, <2>8 DEF IInv
<1>15. ASSUME UNCHANGED vars PROVE IInv'
  BY <1>p, <1>15
    DEF vars, IInv, RequestsGrounded, ApplicantsGrounded, ApprovalMeansTenant,
        ReviewersGrounded, LoginsGrounded, BeingInvited, ChecksGrounded,
        OneTenantPerAddress
<1>16. QED
  BY <1>1, <1>2, <1>3, <1>4, <1>5, <1>6, <1>7, <1>8, <1>9, <1>10, <1>11, <1>12, <1>13,
     <1>14, <1>15
    DEF Next, SubmitStep, ReviewStep

\* The strengthening holds in every state.
THEOREM Invariance == Spec => []IInv
BY Initially, Step_IInv, PTL DEF Spec

\* The rows and the calls are what the schema and the handlers say, in every state.
THEOREM TypeCorrect == Spec => []TypeOK
<1>1. IInv => TypeOK
  BY DEF IInv
<1>2. QED
  BY Invariance, <1>1, PTL

\* A request is APPROVED exactly when its tenant exists and is linked from it, unless a
\* rejection overlapped its approval.
THEOREM ApprovedHasTenant == Spec => []ApprovalMeansTenant
<1>1. IInv => ApprovalMeansTenant
  BY DEF IInv
<1>2. QED
  BY Invariance, <1>1, PTL

\* submit only ever deletes a request that some reviewer has rejected.
THEOREM OnlyRejectedGo == Spec => []OnlyRejectedRemoved
<1>1. IInv => OnlyRejectedRemoved
  BY DEF IInv, RequestsGrounded, OnlyRejectedRemoved
<1>2. QED
  BY Invariance, <1>1, PTL

\* The login stored for an owner leads to a tenant approved for the owner's address, and
\* an owner without one is being invited or was cut off by a failure.
THEOREM OwnerHasLogin == Spec => []OwnerLogsIn
<1>1. ASSUME IInv PROVE OwnerLogsIn
  <2>1. ASSUME NEW i \in Ids, owner[i].row = "linked"
        PROVE  LET t == auth[owner[i].email].tenant
               IN  t # None /\ (t = i \/ (Made(t) /\ owner[t].email = owner[i].email))
    <3>1. owner[i].email \in Emails
      BY <1>1, <2>1 DEF IInv, ChecksGrounded, Made
    <3>2. QED
      BY <1>1, <2>1, <3>1 DEF IInv, LoginsGrounded
  <2>2. QED
    BY <1>1, <2>1 DEF IInv, BeingInvited, Inviting, OwnerLogsIn
<1>2. QED
  BY Invariance, <1>1, PTL

\* An address gets a second tenant from createTenant only when two of its calls
\* overlapped, or a request was approved, whatever the numbers of calls.
THEOREM OneTenant == Spec => []OneTenantPerAddress
<1>1. IInv => OneTenantPerAddress
  BY DEF IInv
<1>2. QED
  BY Invariance, <1>1, PTL

\* Whatever approvals, invitations and failures follow, an owner whose login is stored
\* keeps it.
THEOREM LoginStays == Spec => LoginIsKept
<1> DEFINE Keeps == \A i \in Ids: owner[i].row = "linked" => owner'[i] = owner[i]
<1>1. ASSUME IInv, [Next]_vars PROVE Keeps
  <2> SUFFICES ASSUME NEW i \in Ids, owner[i].row = "linked" PROVE owner'[i] = owner[i]
    OBVIOUS
  <2>1. ASSUME NEW v \in Reviewers, Approve(v) PROVE owner'[i] = owner[i]
    BY <2>1 DEF Approve, Inserted, Made
  <2>2. ASSUME NEW v \in Reviewers, Store(v) PROVE owner'[i] = owner[i]
    BY <2>2 DEF Store, Linked
  <2>3. ASSUME UNCHANGED owner PROVE owner'[i] = owner[i]
    BY <2>3
  <2>4. ASSUME NEW v \in Reviewers, NEW j \in Ids, CreateInsert(v, j) PROVE owner'[i] = owner[i]
    BY <2>4 DEF CreateInsert, Inserted, Made
  <2>5. QED
    BY <1>1, <2>1, <2>2, <2>3, <2>4
      DEF Next, SubmitStep, ReviewStep, vars, SubmitNew, SubmitAgain, SubmitDelete,
          SubmitCreate, SubmitFails, Review, CreateTenant, Invite, SetMetadata, Reject, ReviewFails
<1>2. QED
  BY Invariance, <1>1, PTL DEF Spec, LoginIsKept
=============================================================================
