---------------------------- MODULE AccountProofs ----------------------------
(***************************************************************************)
(* Proofs about the accounts of a tenant: about TenantUsers, for any       *)
(* number of users, of calls in flight and of license updates, and about   *)
(* MfaLifecycle, for any number of secrets and of calls in flight.         *)
(***************************************************************************)
EXTENDS TenantUsers, MfaLifecycle, FiniteSetTheorems, TLAPS

------------------------------------------------------------------------------
(* The users of a tenant.                                                  *)

\* The invariant holds initially.
LEMMA Initially == Init => IInv
<1> SUFFICES ASSUME Init PROVE IInv
  OBVIOUS
<1> USE UsersAssumption DEF Init, NotInviting, NotRemoving, NotEditing
<1>1. TypeOK
  <2>1. tenant \in Tenant /\ peak \in Sizes /\ edits \in 0..MaxEdits
    <3>1. tenant \in [active: {TRUE}, max: Sizes, type: Types] /\ peak = tenant.max /\ edits = 0
      OBVIOUS
    <3>2. tenant \in Tenant /\ peak \in Sizes
      BY <3>1 DEF Tenant
    <3>3. QED
      BY <3>2
  <2>2. user \in [Users -> User]
    BY DEF User
  <2>3. auth \in [Users -> Auth]
    BY DEF Auth
  <2>4. inviter \in [Inviters -> Inviter] /\ remover \in [Removers -> Remover]
    BY DEF Inviter, Remover
  <2>5. editor \in [Editors -> Editor]
    BY DEF Editor
  <2>6. QED
    BY <2>1, <2>2, <2>3, <2>4, <2>5 DEF TypeOK
<1>2. InvitersGrounded /\ RemoversGrounded /\ EditorsGrounded
  BY DEF InvitersGrounded, RemoversGrounded, EditorsGrounded, Created
<1>3. SeatsHeld
  <2>1. Active = {Owner} /\ Counted = {}
    BY DEF Active, Counted
  <2>2. Cardinality(Active) = 1 /\ Cardinality(Counted) = 0
    BY <2>1, FS_EmptySet, FS_Singleton
  <2>3. Cardinality(Inviters) \in Nat /\ Cardinality(Inviters) # 0
    BY FS_CardinalityType, FS_EmptySet
  <2>4. peak \in Nat \ {0} /\ tenant.max = peak /\ user[Owner].row = "active"
    OBVIOUS
  <2>5. QED
    BY <2>2, <2>3 DEF SeatsHeld
<1>4. LoginsGrounded
  BY DEF LoginsGrounded, Inviting, Created
<1>5. TypesGrounded
  BY DEF TypesGrounded
<1>6. QED
  BY <1>1, <1>2, <1>3, <1>4, <1>5 DEF IInv

\* The seats are few enough to count.
LEMMA Finite ==
  /\ IsFiniteSet(Active) /\ IsFiniteSet(Counted)
  /\ Cardinality(Active) \in Nat /\ Cardinality(Counted) \in Nat
  /\ Cardinality(Inviters) \in Nat
<1>1. IsFiniteSet(Active) /\ IsFiniteSet(Counted)
  BY UsersAssumption, FS_Subset DEF Active, Counted
<1>2. QED
  BY <1>1, UsersAssumption, FS_CardinalityType

\* A step sets a field or two of a record.
LEMMA NewInviter ==
  ASSUME TypeOK, NEW c \in Inviters, NEW a \in {"find", "create", "invite", "metadata", "store"}
  PROVE  [inviter EXCEPT ![c].at = a] \in [Inviters -> Inviter]
<1>1. inviter \in [Inviters -> Inviter] /\ inviter[c] \in Inviter
  BY DEF TypeOK
<1>2. [inviter[c] EXCEPT !.at = a] \in Inviter
  BY <1>1 DEF Inviter
<1>3. QED
  BY <1>1, <1>2

\* What the calls of Supabase and the update of the uid write.
LEMMA NewLogin ==
  ASSUME TypeOK, NEW u \in Users, NEW t \in Types \cup {None}
  PROVE  /\ [user EXCEPT ![u].uid = TRUE] \in [Users -> User]
         /\ [auth EXCEPT ![u].known = TRUE] \in [Users -> Auth]
         /\ [auth EXCEPT ![u].type = t] \in [Users -> Auth]
<1>1. /\ user \in [Users -> User] /\ user[u] \in User
      /\ auth \in [Users -> Auth] /\ auth[u] \in Auth
  BY DEF TypeOK
<1>2. [user[u] EXCEPT !.uid = TRUE] \in User
  BY <1>1 DEF User
<1>3. [auth[u] EXCEPT !.known = TRUE] \in Auth /\ [auth[u] EXCEPT !.type = t] \in Auth
  BY <1>1 DEF Auth
<1>4. QED
  BY <1>1, <1>2, <1>3

\* A license update that goes on to the logins.
LEMMA NewEditor ==
  ASSUME TypeOK, NEW x \in Editors, NEW S \in SUBSET Users
  PROVE  /\ [editor EXCEPT ![x].todo = S] \in [Editors -> Editor]
         /\ [editor EXCEPT ![x].at = "sync", ![x].todo = S] \in [Editors -> Editor]
<1>1. editor \in [Editors -> Editor] /\ editor[x] \in Editor
  BY DEF TypeOK
<1>2. [editor[x] EXCEPT !.todo = S] \in Editor /\ [editor[x] EXCEPT !.at = "sync", !.todo = S] \in Editor
  BY <1>1 DEF Editor
<1>3. [editor EXCEPT ![x].at = "sync", ![x].todo = S]
        = [editor EXCEPT ![x] = [editor[x] EXCEPT !.at = "sync", !.todo = S]]
  BY <1>1
<1>4. QED
  BY <1>1, <1>2

\* Every step keeps the types.
LEMMA Step_TypeOK == IInv /\ [Next]_vars => TypeOK'
<1> SUFFICES ASSUME IInv, [Next]_vars PROVE TypeOK'
  OBVIOUS
<1>t. TypeOK /\ InvitersGrounded /\ RemoversGrounded /\ EditorsGrounded
  BY DEF IInv
<1> USE DEF TypeOK, Tenant, User, Auth, Inviter, Remover, Editor, others
<1>1. ASSUME NEW c \in Inviters, NEW u \in Users, InviteRead(c, u) PROVE TypeOK'
  BY <1>t, <1>1 DEF InviteRead
<1>2. ASSUME NEW c \in Inviters, InviteCount(c) PROVE TypeOK'
  <2>1. inviter' \in [Inviters -> Inviter]
    BY <1>t, <1>2, NewInviter DEF InviteCount
  <2>2. QED
    BY <1>t, <1>2, <2>1 DEF InviteCount
<1>3. ASSUME NEW c \in Inviters, InviteFind(c) PROVE TypeOK'
  <2>1. inviter' \in [Inviters -> Inviter]
    BY <1>t, <1>3, NewInviter DEF InviteFind
  <2>2. QED
    BY <1>t, <1>3, <2>1 DEF InviteFind
<1>4. ASSUME NEW c \in Inviters, InviteCreate(c) PROVE TypeOK'
  <2>1. inviter' \in [Inviters -> Inviter]
    BY <1>t, <1>4, NewInviter DEF InviteCreate
  <2>2. inviter[c].u \in Users
    BY <1>t, <1>4 DEF InviteCreate, InvitersGrounded
  <2>3. user' \in [Users -> User]
    BY <1>t, <1>4, <2>2 DEF InviteCreate
  <2>4. QED
    BY <1>t, <1>4, <2>1, <2>3 DEF InviteCreate
<1>5. ASSUME NEW c \in Inviters, InviteAuth(c) PROVE TypeOK'
  <2>1. inviter' \in [Inviters -> Inviter]
    BY <1>t, <1>5, NewInviter DEF InviteAuth
  <2>2. inviter[c].u \in Users
    BY <1>t, <1>5 DEF InviteAuth, InvitersGrounded
  <2>3. auth' \in [Users -> Auth]
    BY <1>t, <1>5, <2>2, NewLogin DEF InviteAuth
  <2>4. QED
    BY <1>t, <1>5, <2>1, <2>3 DEF InviteAuth
<1>6. ASSUME NEW c \in Inviters, InviteMetadata(c) PROVE TypeOK'
  <2>1. inviter' \in [Inviters -> Inviter]
    BY <1>t, <1>6, NewInviter DEF InviteMetadata
  <2>2. inviter[c].u \in Users /\ inviter[c].type \in Types \cup {None}
    BY <1>t, <1>6 DEF InviteMetadata, InvitersGrounded
  <2>3. auth' \in [Users -> Auth]
    BY <1>t, <1>6, <2>2, NewLogin DEF InviteMetadata
  <2>4. QED
    BY <1>t, <1>6, <2>1, <2>3 DEF InviteMetadata
<1>7. ASSUME NEW c \in Inviters, InviteStore(c) PROVE TypeOK'
  <2>1. inviter' \in [Inviters -> Inviter]
    BY <1>t, <1>7 DEF InviteStore, NotInviting
  <2>2. inviter[c].u \in Users
    BY <1>t, <1>7 DEF InviteStore, InvitersGrounded
  <2>3. user' \in [Users -> User]
    BY <1>t, <1>7, <2>2, NewLogin DEF InviteStore
  <2>4. QED
    BY <1>t, <1>7, <2>1, <2>3 DEF InviteStore
<1>8. ASSUME NEW c \in Inviters, InviteFails(c) PROVE TypeOK'
  BY <1>t, <1>8 DEF InviteFails, NotInviting, InvitersGrounded
<1>9. ASSUME NEW r \in Removers, NEW u \in Users, RemoveRead(r, u) PROVE TypeOK'
  BY <1>t, <1>9 DEF RemoveRead
<1>10. ASSUME NEW r \in Removers, RemoveWrite(r) PROVE TypeOK'
  <2>1. remover[r] \in Remover /\ remover[r].u \in Users
    BY <1>t, <1>10 DEF RemoveWrite, RemoversGrounded
  <2>2. [remover[r] EXCEPT !.at = "delete"] \in Remover /\ NotRemoving \in Remover
    BY <2>1 DEF NotRemoving
  <2>3. remover' \in [Removers -> Remover]
    BY <1>t, <1>10, <2>2 DEF RemoveWrite
  <2>4. user[remover[r].u] \in User
    BY <1>t, <2>1
  <2>5. [user[remover[r].u] EXCEPT !.row = "inactive"] \in User
    BY <2>4
  <2>6. user' \in [Users -> User]
    BY <1>t, <1>10, <2>1, <2>5 DEF RemoveWrite
  <2>7. QED
    BY <1>t, <1>10, <2>3, <2>6 DEF RemoveWrite
<1>11. ASSUME NEW r \in Removers, RemoveLogin(r) PROVE TypeOK'
  BY <1>t, <1>11 DEF RemoveLogin, NotRemoving, RemoversGrounded
<1>12. ASSUME NEW r \in Removers, RemoveFails(r) PROVE TypeOK'
  BY <1>t, <1>12 DEF RemoveFails, NotRemoving, RemoversGrounded
<1>13. ASSUME NEW x \in Editors, NEW type \in Types \cup {None}, NEW max \in Sizes,
              LicenseRead(x, type, max)
       PROVE  TypeOK'
  BY <1>t, <1>13, UsersAssumption DEF LicenseRead
<1>14. ASSUME NEW x \in Editors, LicenseWrite(x) PROVE TypeOK'
  <2>1. ToSync(x) \subseteq Users
    BY DEF ToSync, Active
  <2>2. editor' \in [Editors -> Editor]
    BY <1>t, <1>14, <2>1, NewEditor DEF LicenseWrite
  <2>3. editor[x].max \in Sizes
    BY <1>t, <1>14 DEF LicenseWrite, EditorsGrounded
  <2>4. tenant' \in Tenant
    BY <1>t, <1>14, <2>3 DEF LicenseWrite
  <2>5. peak' \in Sizes /\ mixed' \subseteq Users
    BY <1>t, <1>14, <2>3 DEF LicenseWrite, Contended
  <2>6. QED
    BY <1>t, <1>14, <2>2, <2>4, <2>5 DEF LicenseWrite
<1>15. ASSUME NEW x \in Editors, LicenseDone(x) PROVE TypeOK'
  BY <1>t, <1>15 DEF LicenseDone, NotEditing
<1>16. ASSUME NEW x \in Editors, LicenseFails(x) PROVE TypeOK'
  BY <1>t, <1>16 DEF LicenseFails, NotEditing
<1>17. ASSUME NEW x \in Editors, NEW u \in Users, SyncOne(x, u) PROVE TypeOK'
  <2>1. editor' \in [Editors -> Editor]
    BY <1>t, <1>17, NewEditor DEF SyncOne
  <2>2. auth' \in [Users -> Auth]
    BY <1>t, <1>17, NewLogin DEF SyncOne
  <2>3. QED
    BY <1>t, <1>17, <2>1, <2>2 DEF SyncOne
<1>18. ASSUME NEW x \in Editors, NEW u \in Users, SyncFails(x, u) PROVE TypeOK'
  <2>1. editor' \in [Editors -> Editor]
    BY <1>t, <1>18, NewEditor DEF SyncFails
  <2>2. QED
    BY <1>t, <1>18, <2>1 DEF SyncFails
<1>19. ASSUME NEW active \in BOOLEAN, SetActive(active) PROVE TypeOK'
  BY <1>t, <1>19 DEF SetActive
<1>20. ASSUME UNCHANGED vars PROVE TypeOK'
  BY <1>t, <1>20 DEF vars
<1>21. QED
  BY <1>1, <1>2, <1>3, <1>4, <1>5, <1>6, <1>7, <1>8, <1>9, <1>10, <1>11, <1>12, <1>13, <1>14,
     <1>15, <1>16, <1>17, <1>18, <1>19, <1>20 DEF Next, InviteStep, RemoveStep, LicenseStep

\* Every step keeps InvitersGrounded.
LEMMA Step_InvitersGrounded == IInv /\ [Next]_vars => InvitersGrounded'
<1> SUFFICES ASSUME IInv, [Next]_vars PROVE InvitersGrounded'
  OBVIOUS
<1>t. /\ TypeOK /\ InvitersGrounded /\ RemoversGrounded /\ EditorsGrounded
      /\ SeatsHeld /\ LoginsGrounded /\ TypesGrounded
  BY DEF IInv
<1> USE DEF others
<1>1. ASSUME NEW c \in Inviters, NEW u \in Users, InviteRead(c, u) PROVE InvitersGrounded'
  BY <1>t, <1>1 DEF InviteRead, InvitersGrounded, SeatsHeld, Created
<1>2. ASSUME NEW c \in Inviters, InviteCount(c) PROVE InvitersGrounded'
  BY <1>t, <1>2 DEF InviteCount, InvitersGrounded, Created
<1>3. ASSUME NEW c \in Inviters, InviteFind(c) PROVE InvitersGrounded'
  BY <1>t, <1>3 DEF InviteFind, InvitersGrounded, Created
<1>4. ASSUME NEW c \in Inviters, InviteCreate(c) PROVE InvitersGrounded'
  BY <1>t, <1>4 DEF InviteCreate, InvitersGrounded, TypeOK
<1>5. ASSUME NEW c \in Inviters, InviteAuth(c) PROVE InvitersGrounded'
  BY <1>t, <1>5 DEF InviteAuth, InvitersGrounded, Created
<1>6. ASSUME NEW c \in Inviters, InviteMetadata(c) PROVE InvitersGrounded'
  BY <1>t, <1>6 DEF InviteMetadata, InvitersGrounded, Created
<1>7. ASSUME NEW c \in Inviters, InviteStore(c) PROVE InvitersGrounded'
  BY <1>t, <1>7 DEF InviteStore, NotInviting, InvitersGrounded, Created
<1>8. ASSUME NEW c \in Inviters, InviteFails(c) PROVE InvitersGrounded'
  BY <1>t, <1>8 DEF InviteFails, NotInviting, InvitersGrounded, Created
<1>9. ASSUME NEW r \in Removers, NEW u \in Users, RemoveRead(r, u) PROVE InvitersGrounded'
  BY <1>t, <1>9 DEF RemoveRead, InvitersGrounded
<1>10. ASSUME NEW r \in Removers, RemoveWrite(r) PROVE InvitersGrounded'
  BY <1>t, <1>10 DEF RemoveWrite, InvitersGrounded
<1>11. ASSUME NEW r \in Removers, RemoveLogin(r) PROVE InvitersGrounded'
  BY <1>t, <1>11 DEF RemoveLogin, InvitersGrounded
<1>12. ASSUME NEW r \in Removers, RemoveFails(r) PROVE InvitersGrounded'
  BY <1>t, <1>12 DEF RemoveFails, InvitersGrounded
<1>13. ASSUME NEW x \in Editors, NEW type \in Types \cup {None}, NEW max \in Sizes,
              LicenseRead(x, type, max)
       PROVE  InvitersGrounded'
  BY <1>t, <1>13 DEF LicenseRead, InvitersGrounded
<1>14. ASSUME NEW x \in Editors, LicenseWrite(x) PROVE InvitersGrounded'
  BY <1>t, <1>14, UsersAssumption
    DEF LicenseWrite, Contended, InvitersGrounded, EditorsGrounded, TypesGrounded, SeatsHeld,
        TypeOK, Inviter, Remover
<1>15. ASSUME NEW x \in Editors, LicenseDone(x) PROVE InvitersGrounded'
  BY <1>t, <1>15 DEF LicenseDone, InvitersGrounded
<1>16. ASSUME NEW x \in Editors, LicenseFails(x) PROVE InvitersGrounded'
  BY <1>t, <1>16 DEF LicenseFails, InvitersGrounded
<1>17. ASSUME NEW x \in Editors, NEW u \in Users, SyncOne(x, u) PROVE InvitersGrounded'
  BY <1>t, <1>17 DEF SyncOne, InvitersGrounded
<1>18. ASSUME NEW x \in Editors, NEW u \in Users, SyncFails(x, u) PROVE InvitersGrounded'
  BY <1>t, <1>18 DEF SyncFails, InvitersGrounded
<1>19. ASSUME NEW active \in BOOLEAN, SetActive(active) PROVE InvitersGrounded'
  BY <1>t, <1>19 DEF SetActive, InvitersGrounded
<1>20. ASSUME UNCHANGED vars PROVE InvitersGrounded'
  BY <1>t, <1>20 DEF vars, InvitersGrounded
<1>21. QED
  BY <1>1, <1>2, <1>3, <1>4, <1>5, <1>6, <1>7, <1>8, <1>9, <1>10, <1>11, <1>12, <1>13, <1>14,
     <1>15, <1>16, <1>17, <1>18, <1>19, <1>20 DEF Next, InviteStep, RemoveStep, LicenseStep

\* Every step keeps RemoversGrounded.
LEMMA Step_RemoversGrounded == IInv /\ [Next]_vars => RemoversGrounded'
<1> SUFFICES ASSUME IInv, [Next]_vars PROVE RemoversGrounded'
  OBVIOUS
<1>t. /\ TypeOK /\ InvitersGrounded /\ RemoversGrounded /\ EditorsGrounded
      /\ SeatsHeld /\ LoginsGrounded /\ TypesGrounded
  BY DEF IInv
<1> USE DEF others
<1>1. ASSUME NEW c \in Inviters, NEW u \in Users, InviteRead(c, u) PROVE RemoversGrounded'
  BY <1>t, <1>1 DEF InviteRead, RemoversGrounded
<1>2. ASSUME NEW c \in Inviters, InviteCount(c) PROVE RemoversGrounded'
  BY <1>t, <1>2 DEF InviteCount, RemoversGrounded
<1>3. ASSUME NEW c \in Inviters, InviteFind(c) PROVE RemoversGrounded'
  BY <1>t, <1>3 DEF InviteFind, RemoversGrounded
<1>4. ASSUME NEW c \in Inviters, InviteCreate(c) PROVE RemoversGrounded'
  BY <1>t, <1>4 DEF InviteCreate, RemoversGrounded
<1>5. ASSUME NEW c \in Inviters, InviteAuth(c) PROVE RemoversGrounded'
  BY <1>t, <1>5 DEF InviteAuth, RemoversGrounded
<1>6. ASSUME NEW c \in Inviters, InviteMetadata(c) PROVE RemoversGrounded'
  BY <1>t, <1>6 DEF InviteMetadata, RemoversGrounded
<1>7. ASSUME NEW c \in Inviters, InviteStore(c) PROVE RemoversGrounded'
  BY <1>t, <1>7 DEF InviteStore, RemoversGrounded
<1>8. ASSUME NEW c \in Inviters, InviteFails(c) PROVE RemoversGrounded'
  BY <1>t, <1>8 DEF InviteFails, RemoversGrounded
<1>9. ASSUME NEW r \in Removers, NEW u \in Users, RemoveRead(r, u) PROVE RemoversGrounded'
  BY <1>t, <1>9 DEF RemoveRead, RemoversGrounded
<1>10. ASSUME NEW r \in Removers, RemoveWrite(r) PROVE RemoversGrounded'
  BY <1>t, <1>10 DEF RemoveWrite, NotRemoving, RemoversGrounded, TypeOK
<1>11. ASSUME NEW r \in Removers, RemoveLogin(r) PROVE RemoversGrounded'
  BY <1>t, <1>11 DEF RemoveLogin, NotRemoving, RemoversGrounded
<1>12. ASSUME NEW r \in Removers, RemoveFails(r) PROVE RemoversGrounded'
  BY <1>t, <1>12 DEF RemoveFails, NotRemoving, RemoversGrounded
<1>13. ASSUME NEW x \in Editors, NEW type \in Types \cup {None}, NEW max \in Sizes,
              LicenseRead(x, type, max)
       PROVE  RemoversGrounded'
  BY <1>t, <1>13 DEF LicenseRead, RemoversGrounded
<1>14. ASSUME NEW x \in Editors, LicenseWrite(x) PROVE RemoversGrounded'
  BY <1>t, <1>14 DEF LicenseWrite, RemoversGrounded
<1>15. ASSUME NEW x \in Editors, LicenseDone(x) PROVE RemoversGrounded'
  BY <1>t, <1>15 DEF LicenseDone, RemoversGrounded
<1>16. ASSUME NEW x \in Editors, LicenseFails(x) PROVE RemoversGrounded'
  BY <1>t, <1>16 DEF LicenseFails, RemoversGrounded
<1>17. ASSUME NEW x \in Editors, NEW u \in Users, SyncOne(x, u) PROVE RemoversGrounded'
  BY <1>t, <1>17 DEF SyncOne, RemoversGrounded
<1>18. ASSUME NEW x \in Editors, NEW u \in Users, SyncFails(x, u) PROVE RemoversGrounded'
  BY <1>t, <1>18 DEF SyncFails, RemoversGrounded
<1>19. ASSUME NEW active \in BOOLEAN, SetActive(active) PROVE RemoversGrounded'
  BY <1>t, <1>19 DEF SetActive, RemoversGrounded
<1>20. ASSUME UNCHANGED vars PROVE RemoversGrounded'
  BY <1>t, <1>20 DEF vars, RemoversGrounded
<1>21. QED
  BY <1>1, <1>2, <1>3, <1>4, <1>5, <1>6, <1>7, <1>8, <1>9, <1>10, <1>11, <1>12, <1>13, <1>14,
     <1>15, <1>16, <1>17, <1>18, <1>19, <1>20 DEF Next, InviteStep, RemoveStep, LicenseStep

\* Every step keeps EditorsGrounded.
LEMMA Step_EditorsGrounded == IInv /\ [Next]_vars => EditorsGrounded'
<1> SUFFICES ASSUME IInv, [Next]_vars PROVE EditorsGrounded'
  OBVIOUS
<1>t. /\ TypeOK /\ InvitersGrounded /\ RemoversGrounded /\ EditorsGrounded
      /\ SeatsHeld /\ LoginsGrounded /\ TypesGrounded
  BY DEF IInv
<1> USE DEF others
<1>1. ASSUME NEW c \in Inviters, NEW u \in Users, InviteRead(c, u) PROVE EditorsGrounded'
  BY <1>t, <1>1 DEF InviteRead, EditorsGrounded
<1>2. ASSUME NEW c \in Inviters, InviteCount(c) PROVE EditorsGrounded'
  BY <1>t, <1>2 DEF InviteCount, EditorsGrounded
<1>3. ASSUME NEW c \in Inviters, InviteFind(c) PROVE EditorsGrounded'
  BY <1>t, <1>3 DEF InviteFind, EditorsGrounded
<1>4. ASSUME NEW c \in Inviters, InviteCreate(c) PROVE EditorsGrounded'
  BY <1>t, <1>4 DEF InviteCreate, EditorsGrounded
<1>5. ASSUME NEW c \in Inviters, InviteAuth(c) PROVE EditorsGrounded'
  BY <1>t, <1>5 DEF InviteAuth, EditorsGrounded
<1>6. ASSUME NEW c \in Inviters, InviteMetadata(c) PROVE EditorsGrounded'
  BY <1>t, <1>6 DEF InviteMetadata, EditorsGrounded
<1>7. ASSUME NEW c \in Inviters, InviteStore(c) PROVE EditorsGrounded'
  BY <1>t, <1>7 DEF InviteStore, EditorsGrounded
<1>8. ASSUME NEW c \in Inviters, InviteFails(c) PROVE EditorsGrounded'
  BY <1>t, <1>8 DEF InviteFails, EditorsGrounded
<1>9. ASSUME NEW r \in Removers, NEW u \in Users, RemoveRead(r, u) PROVE EditorsGrounded'
  BY <1>t, <1>9 DEF RemoveRead, EditorsGrounded
<1>10. ASSUME NEW r \in Removers, RemoveWrite(r) PROVE EditorsGrounded'
  BY <1>t, <1>10 DEF RemoveWrite, EditorsGrounded
<1>11. ASSUME NEW r \in Removers, RemoveLogin(r) PROVE EditorsGrounded'
  BY <1>t, <1>11 DEF RemoveLogin, EditorsGrounded
<1>12. ASSUME NEW r \in Removers, RemoveFails(r) PROVE EditorsGrounded'
  BY <1>t, <1>12 DEF RemoveFails, EditorsGrounded
<1>13. ASSUME NEW x \in Editors, NEW type \in Types \cup {None}, NEW max \in Sizes,
              LicenseRead(x, type, max)
       PROVE  EditorsGrounded'
  BY <1>t, <1>13 DEF LicenseRead, EditorsGrounded
<1>14. ASSUME NEW x \in Editors, LicenseWrite(x) PROVE EditorsGrounded'
  BY <1>t, <1>14 DEF LicenseWrite, EditorsGrounded, TypeOK
<1>15. ASSUME NEW x \in Editors, LicenseDone(x) PROVE EditorsGrounded'
  BY <1>t, <1>15 DEF LicenseDone, NotEditing, EditorsGrounded
<1>16. ASSUME NEW x \in Editors, LicenseFails(x) PROVE EditorsGrounded'
  BY <1>t, <1>16 DEF LicenseFails, NotEditing, EditorsGrounded
<1>17. ASSUME NEW x \in Editors, NEW u \in Users, SyncOne(x, u) PROVE EditorsGrounded'
  BY <1>t, <1>17 DEF SyncOne, EditorsGrounded
<1>18. ASSUME NEW x \in Editors, NEW u \in Users, SyncFails(x, u) PROVE EditorsGrounded'
  BY <1>t, <1>18 DEF SyncFails, EditorsGrounded
<1>19. ASSUME NEW active \in BOOLEAN, SetActive(active) PROVE EditorsGrounded'
  BY <1>t, <1>19 DEF SetActive, EditorsGrounded
<1>20. ASSUME UNCHANGED vars PROVE EditorsGrounded'
  BY <1>t, <1>20 DEF vars, EditorsGrounded
<1>21. QED
  BY <1>1, <1>2, <1>3, <1>4, <1>5, <1>6, <1>7, <1>8, <1>9, <1>10, <1>11, <1>12, <1>13, <1>14,
     <1>15, <1>16, <1>17, <1>18, <1>19, <1>20 DEF Next, InviteStep, RemoveStep, LicenseStep

\* Every step keeps LoginsGrounded.
LEMMA Step_LoginsGrounded == IInv /\ [Next]_vars => LoginsGrounded'
<1> SUFFICES ASSUME IInv, [Next]_vars PROVE LoginsGrounded'
  OBVIOUS
<1>t. /\ TypeOK /\ InvitersGrounded /\ RemoversGrounded /\ EditorsGrounded
      /\ SeatsHeld /\ LoginsGrounded /\ TypesGrounded
  BY DEF IInv
<1> USE DEF others
<1>1. ASSUME NEW c \in Inviters, NEW u \in Users, InviteRead(c, u) PROVE LoginsGrounded'
  BY <1>t, <1>1 DEF InviteRead, LoginsGrounded, Inviting, Created
<1>2. ASSUME NEW c \in Inviters, InviteCount(c) PROVE LoginsGrounded'
  BY <1>t, <1>2, UsersAssumption
    DEF InviteCount, InvitersGrounded, RemoversGrounded, EditorsGrounded, LoginsGrounded,
        TypesGrounded, SeatsHeld, Inviting, Created, TypeOK, Tenant, User, Auth, Inviter,
        Remover, Editor
<1>3. ASSUME NEW c \in Inviters, InviteFind(c) PROVE LoginsGrounded'
  BY <1>t, <1>3 DEF InviteFind, LoginsGrounded, Inviting, Created
<1>4. ASSUME NEW c \in Inviters, InviteCreate(c) PROVE LoginsGrounded'
  BY <1>t, <1>4 DEF InviteCreate, RemoversGrounded, LoginsGrounded, Inviting, Created, TypeOK
<1>5. ASSUME NEW c \in Inviters, InviteAuth(c) PROVE LoginsGrounded'
  BY <1>t, <1>5 DEF InviteAuth, LoginsGrounded, Inviting, Created, TypeOK
<1>6. ASSUME NEW c \in Inviters, InviteMetadata(c) PROVE LoginsGrounded'
  BY <1>t, <1>6 DEF InviteMetadata, LoginsGrounded, Inviting, Created
<1>7. ASSUME NEW c \in Inviters, InviteStore(c) PROVE LoginsGrounded'
  BY <1>t, <1>7, UsersAssumption DEF InviteStore, NotInviting, LoginsGrounded, Inviting, TypeOK
<1>8. ASSUME NEW c \in Inviters, InviteFails(c) PROVE LoginsGrounded'
  BY <1>t, <1>8, UsersAssumption DEF InviteFails, NotInviting, LoginsGrounded, Inviting
<1>9. ASSUME NEW r \in Removers, NEW u \in Users, RemoveRead(r, u) PROVE LoginsGrounded'
  BY <1>t, <1>9 DEF RemoveRead, LoginsGrounded, Inviting
<1>10. ASSUME NEW r \in Removers, RemoveWrite(r) PROVE LoginsGrounded'
  BY <1>t, <1>10 DEF RemoveWrite, NotRemoving, LoginsGrounded, Inviting, TypeOK
<1>11. ASSUME NEW r \in Removers, RemoveLogin(r) PROVE LoginsGrounded'
  BY <1>t, <1>11
    DEF RemoveLogin, NotRemoving, RemoversGrounded, LoginsGrounded, Inviting, Created, TypeOK
<1>12. ASSUME NEW r \in Removers, RemoveFails(r) PROVE LoginsGrounded'
  BY <1>t, <1>12 DEF RemoveFails, NotRemoving, LoginsGrounded, Inviting
<1>13. ASSUME NEW x \in Editors, NEW type \in Types \cup {None}, NEW max \in Sizes,
              LicenseRead(x, type, max)
       PROVE  LoginsGrounded'
  BY <1>t, <1>13 DEF LicenseRead, LoginsGrounded, Inviting
<1>14. ASSUME NEW x \in Editors, LicenseWrite(x) PROVE LoginsGrounded'
  BY <1>t, <1>14 DEF LicenseWrite, LoginsGrounded, Inviting
<1>15. ASSUME NEW x \in Editors, LicenseDone(x) PROVE LoginsGrounded'
  BY <1>t, <1>15 DEF LicenseDone, LoginsGrounded, Inviting
<1>16. ASSUME NEW x \in Editors, LicenseFails(x) PROVE LoginsGrounded'
  BY <1>t, <1>16 DEF LicenseFails, LoginsGrounded, Inviting
<1>17. ASSUME NEW x \in Editors, NEW u \in Users, SyncOne(x, u) PROVE LoginsGrounded'
  BY <1>t, <1>17 DEF SyncOne, LoginsGrounded, Inviting
<1>18. ASSUME NEW x \in Editors, NEW u \in Users, SyncFails(x, u) PROVE LoginsGrounded'
  BY <1>t, <1>18 DEF SyncFails, LoginsGrounded, Inviting
<1>19. ASSUME NEW active \in BOOLEAN, SetActive(active) PROVE LoginsGrounded'
  BY <1>t, <1>19 DEF SetActive, LoginsGrounded, Inviting
<1>20. ASSUME UNCHANGED vars PROVE LoginsGrounded'
  BY <1>t, <1>20 DEF vars, LoginsGrounded, Inviting
<1>21. QED
  BY <1>1, <1>2, <1>3, <1>4, <1>5, <1>6, <1>7, <1>8, <1>9, <1>10, <1>11, <1>12, <1>13, <1>14,
     <1>15, <1>16, <1>17, <1>18, <1>19, <1>20 DEF Next, InviteStep, RemoveStep, LicenseStep

\* Every step keeps TypesGrounded.
LEMMA Step_TypesGrounded == IInv /\ [Next]_vars => TypesGrounded'
<1> SUFFICES ASSUME IInv, [Next]_vars PROVE TypesGrounded'
  OBVIOUS
<1>t. /\ TypeOK /\ InvitersGrounded /\ RemoversGrounded /\ EditorsGrounded
      /\ SeatsHeld /\ LoginsGrounded /\ TypesGrounded
  BY DEF IInv
<1> USE DEF others
<1>1. ASSUME NEW c \in Inviters, NEW u \in Users, InviteRead(c, u) PROVE TypesGrounded'
  BY <1>t, <1>1 DEF InviteRead, LoginsGrounded, TypesGrounded, Inviting, Created
<1>2. ASSUME NEW c \in Inviters, InviteCount(c) PROVE TypesGrounded'
  BY <1>t, <1>2, UsersAssumption
    DEF InviteCount, InvitersGrounded, RemoversGrounded, EditorsGrounded, LoginsGrounded,
        TypesGrounded, SeatsHeld, Inviting, Created, TypeOK, Tenant, User, Auth, Inviter,
        Remover, Editor
<1>3. ASSUME NEW c \in Inviters, InviteFind(c) PROVE TypesGrounded'
  BY <1>t, <1>3 DEF InviteFind, TypesGrounded, Inviting
<1>4. ASSUME NEW c \in Inviters, InviteCreate(c) PROVE TypesGrounded'
  BY <1>t, <1>4, UsersAssumption
    DEF InviteCreate, InvitersGrounded, RemoversGrounded, EditorsGrounded, LoginsGrounded,
        TypesGrounded, SeatsHeld, Inviting, Created, TypeOK, Tenant, User, Auth, Inviter,
        Remover, Editor
<1>5. ASSUME NEW c \in Inviters, InviteAuth(c) PROVE TypesGrounded'
  BY <1>t, <1>5 DEF InviteAuth, TypesGrounded, Inviting, Created
<1>6. ASSUME NEW c \in Inviters, InviteMetadata(c) PROVE TypesGrounded'
  BY <1>t, <1>6 DEF InviteMetadata, TypesGrounded, Inviting, TypeOK
<1>7. ASSUME NEW c \in Inviters, InviteStore(c) PROVE TypesGrounded'
  BY <1>t, <1>7 DEF InviteStore, NotInviting, TypesGrounded, Inviting
<1>8. ASSUME NEW c \in Inviters, InviteFails(c) PROVE TypesGrounded'
  BY <1>t, <1>8 DEF InviteFails, NotInviting, TypesGrounded, Inviting
<1>9. ASSUME NEW r \in Removers, NEW u \in Users, RemoveRead(r, u) PROVE TypesGrounded'
  BY <1>t, <1>9 DEF RemoveRead, TypesGrounded, Inviting
<1>10. ASSUME NEW r \in Removers, RemoveWrite(r) PROVE TypesGrounded'
  BY <1>t, <1>10 DEF RemoveWrite, TypesGrounded, Inviting, Created
<1>11. ASSUME NEW r \in Removers, RemoveLogin(r) PROVE TypesGrounded'
  BY <1>t, <1>11
    DEF RemoveLogin, RemoversGrounded, LoginsGrounded, TypesGrounded, Inviting, Created
<1>12. ASSUME NEW r \in Removers, RemoveFails(r) PROVE TypesGrounded'
  BY <1>t, <1>12 DEF RemoveFails, InvitersGrounded, TypesGrounded, Inviting
<1>13. ASSUME NEW x \in Editors, NEW type \in Types \cup {None}, NEW max \in Sizes,
              LicenseRead(x, type, max)
       PROVE  TypesGrounded'
  BY <1>t, <1>13 DEF LicenseRead, LoginsGrounded, TypesGrounded, Inviting
<1>14. ASSUME NEW x \in Editors, LicenseWrite(x) PROVE TypesGrounded'
  <2> SUFFICES ASSUME NEW u \in Users \ (faulty \cup hasty \cup mixed')
               PROVE  /\ \A y \in Editors:
                           /\ editor'[y].at = "write" => editor'[y].old = tenant'.type
                           /\ editor'[y].at = "sync" /\ editor'[y].todo # {} => editor'[y].new = tenant'.type
                      /\ \A c \in Inviters: inviter[c].u # u
                      /\ user[u].row = "active" =>
                           auth[u].type = tenant'.type \/ u \in editor'[x].todo
    BY <1>14, <1>t DEF LicenseWrite, TypesGrounded, TypeOK, Editor
  <2>1. /\ u \in Users \ (faulty \cup hasty \cup mixed)
        /\ \A y \in Editors \ {x}: editor[y].at = "idle"
        /\ \A c \in Inviters: inviter[c].u # u
    BY <1>14 DEF LicenseWrite, Contended
  <2>2. editor[x].old = tenant.type
    BY <1>t, <1>14 DEF LicenseWrite, TypesGrounded
  <2>3. tenant'.type = IF editor[x].new = None THEN tenant.type ELSE editor[x].new
    BY <1>14 DEF LicenseWrite
  <2>4. /\ editor'[x].at = "sync" /\ editor'[x].new = editor[x].new /\ editor'[x].todo = ToSync(x)
        /\ \A y \in Editors \ {x}: editor'[y] = editor[y]
    BY <1>t, <1>14 DEF LicenseWrite, TypeOK
  <2>5. ASSUME user[u].row = "active" PROVE auth[u].type = tenant'.type \/ u \in editor'[x].todo
    <3>1. user[u].uid /\ auth[u].type = tenant.type
      BY <1>t, <1>14, <2>1, <2>5 DEF LicenseWrite, LoginsGrounded, TypesGrounded, Inviting
    <3>2. QED
      BY <2>2, <2>3, <2>4, <2>5, <3>1 DEF ToSync, Active
  <2>6. QED
    BY <2>1, <2>3, <2>4, <2>5 DEF ToSync
<1>15. ASSUME NEW x \in Editors, LicenseDone(x) PROVE TypesGrounded'
  BY <1>t, <1>15 DEF LicenseDone, NotEditing, TypesGrounded, Inviting
<1>16. ASSUME NEW x \in Editors, LicenseFails(x) PROVE TypesGrounded'
  BY <1>t, <1>16 DEF LicenseFails, NotEditing, TypesGrounded, Inviting
<1>17. ASSUME NEW x \in Editors, NEW u \in Users, SyncOne(x, u) PROVE TypesGrounded'
  <2>1. /\ editor'[x].at = editor[x].at /\ editor'[x].old = editor[x].old
        /\ editor'[x].new = editor[x].new /\ editor'[x].todo = editor[x].todo \ {u}
        /\ \A y \in Editors \ {x}: editor'[y] = editor[y]
    BY <1>t, <1>17 DEF SyncOne, TypeOK
  <2>2. /\ auth'[u].type = editor[x].new
        /\ \A w \in Users \ {u}: auth'[w] = auth[w]
    BY <1>t, <1>17 DEF SyncOne, TypeOK
  <2>3. editor[x].at = "sync" /\ editor[x].todo # {}
    BY <1>t, <1>17 DEF SyncOne, EditorsGrounded
  <2>4. QED
    BY <1>t, <1>17, <2>2, <2>3 DEF SyncOne, TypesGrounded, Inviting
<1>18. ASSUME NEW x \in Editors, NEW u \in Users, SyncFails(x, u) PROVE TypesGrounded'
  BY <1>t, <1>18 DEF SyncFails, TypesGrounded, Inviting
<1>19. ASSUME NEW active \in BOOLEAN, SetActive(active) PROVE TypesGrounded'
  BY <1>t, <1>19 DEF SetActive, TypesGrounded, SeatsHeld, Inviting
<1>20. ASSUME UNCHANGED vars PROVE TypesGrounded'
  BY <1>t, <1>20 DEF vars, TypesGrounded, Inviting
<1>21. QED
  BY <1>1, <1>2, <1>3, <1>4, <1>5, <1>6, <1>7, <1>8, <1>9, <1>10, <1>11, <1>12, <1>13, <1>14,
     <1>15, <1>16, <1>17, <1>18, <1>19, <1>20 DEF Next, InviteStep, RemoveStep, LicenseStep

\* Invitations in flight are all that can overrun the limit.
LEMMA Step_SeatsHeld == IInv /\ [Next]_vars => SeatsHeld'
<1> SUFFICES ASSUME IInv, [Next]_vars PROVE SeatsHeld'
  OBVIOUS
<1>t. TypeOK /\ InvitersGrounded /\ RemoversGrounded /\ EditorsGrounded /\ SeatsHeld
  BY DEF IInv
<1>n. /\ peak \in Nat /\ tenant.max \in Nat /\ Owner \in Users
      /\ \A c \in Inviters: inviter[c].max \in Nat
  <2>1. Sizes \subseteq Nat /\ Sizes \cup {0} \subseteq Nat /\ Owner \in Users
    BY UsersAssumption
  <2>2. peak \in Sizes /\ tenant.max \in Sizes
    BY <1>t DEF TypeOK, Tenant
  <2>3. ASSUME NEW c \in Inviters PROVE inviter[c].max \in Nat
    <3>1. inviter[c].max \in Sizes \cup {0}
      BY <1>t DEF TypeOK, Inviter
    <3>2. QED
      BY <2>1, <3>1
  <2>4. QED
    BY <2>1, <2>2, <2>3
\* a step that neither creates a user nor lets an invitation past the count
<1>s. ASSUME Active' \subseteq Active, Counted' \subseteq Counted, peak' \in Nat, peak <= peak',
             tenant'.max <= peak', user'[Owner].row = "active"
      PROVE  SeatsHeld'
  <2>1. /\ Cardinality(Active') <= Cardinality(Active) /\ Cardinality(Active') \in Nat
        /\ Cardinality(Counted') <= Cardinality(Counted) /\ Cardinality(Counted') \in Nat
    BY <1>s, Finite, FS_Subset, FS_CardinalityType
  <2>2. QED
    BY <1>t, <1>n, <1>s, <2>1, Finite DEF SeatsHeld
<1>1. ASSUME NEW c \in Inviters, InviteCount(c) PROVE SeatsHeld'
  <2>1. Active' = Active /\ UNCHANGED <<tenant, peak, user>>
    BY <1>1 DEF InviteCount, others, Active
  <2>2. Cardinality(Active) < peak
    BY <1>t, <1>n, <1>1, Finite DEF InviteCount, InvitersGrounded
  <2>3. Counted' \subseteq Inviters
    BY DEF Counted
  <2>4. Cardinality(Counted') <= Cardinality(Inviters) /\ Cardinality(Counted') \in Nat
    BY <2>3, UsersAssumption, FS_Subset, FS_CardinalityType
  <2>5. QED
    BY <1>t, <1>n, <2>1, <2>2, <2>4, Finite DEF SeatsHeld
<1>2. ASSUME NEW c \in Inviters, InviteCreate(c) PROVE SeatsHeld'
  <2> DEFINE u == inviter[c].u
  <2>1. u \in Users /\ u \notin Active /\ c \in Counted
    BY <1>t, <1>2 DEF InviteCreate, InvitersGrounded, Active, Counted
  <2>2. Active' = Active \cup {u} /\ user'[Owner].row = "active"
    BY <1>t, <1>2, <2>1 DEF InviteCreate, Active, TypeOK, SeatsHeld
  <2>3. Counted' = Counted \ {c}
    BY <1>t, <1>2 DEF InviteCreate, Counted, TypeOK
  <2>4. /\ Cardinality(Active') = Cardinality(Active) + 1
        /\ Cardinality(Counted') = Cardinality(Counted) - 1
    BY <2>1, <2>2, <2>3, Finite, FS_AddElement, FS_RemoveElement
  <2>5. UNCHANGED <<tenant, peak>>
    BY <1>2 DEF InviteCreate, others
  <2>6. QED
    BY <1>t, <2>2, <2>4, <2>5, Finite DEF SeatsHeld
<1>3. ASSUME NEW c \in Inviters,
             \/ \E u \in Users: InviteRead(c, u)
             \/ InviteFind(c) \/ InviteAuth(c) \/ InviteMetadata(c) \/ InviteFails(c)
      PROVE  SeatsHeld'
  <2>1. UNCHANGED <<tenant, user, peak>>
    BY <1>3 DEF InviteRead, InviteFind, InviteAuth, InviteMetadata, InviteFails, others
  <2>2. Counted' \subseteq Counted
    BY <1>t, <1>3
      DEF InviteRead, InviteFind, InviteAuth, InviteMetadata, InviteFails, NotInviting, Counted,
          TypeOK, Inviter
  <2>3. QED
    BY <1>t, <1>n, <1>s, <2>1, <2>2 DEF SeatsHeld, Active
<1>4. ASSUME NEW c \in Inviters, InviteStore(c) PROVE SeatsHeld'
  <2>1. Active' \subseteq Active /\ user'[Owner].row = "active"
    BY <1>t, <1>4 DEF InviteStore, Active, SeatsHeld
  <2>2. Counted' \subseteq Counted
    BY <1>4 DEF InviteStore, NotInviting, Counted
  <2>3. UNCHANGED <<tenant, peak>>
    BY <1>4 DEF InviteStore, others
  <2>4. QED
    BY <1>t, <1>n, <1>s, <2>1, <2>2, <2>3 DEF SeatsHeld
<1>5. ASSUME NEW r \in Removers, RemoveWrite(r) PROVE SeatsHeld'
  <2>1. Active' \subseteq Active /\ user'[Owner].row = "active"
    BY <1>t, <1>5 DEF RemoveWrite, RemoversGrounded, Active, SeatsHeld
  <2>2. UNCHANGED <<tenant, peak, inviter>>
    BY <1>5 DEF RemoveWrite, others
  <2>3. QED
    BY <1>t, <1>n, <1>s, <2>1, <2>2 DEF SeatsHeld, Counted
<1>6. ASSUME NEW x \in Editors, LicenseWrite(x) PROVE SeatsHeld'
  <2>1. UNCHANGED <<user, inviter>> /\ tenant'.max = editor[x].max /\ editor[x].max \in Nat
    BY <1>t, <1>6, UsersAssumption DEF LicenseWrite, EditorsGrounded
  <2>2. peak' \in Nat /\ peak <= peak' /\ tenant'.max <= peak'
    BY <1>n, <1>6, <2>1 DEF LicenseWrite
  <2>3. QED
    BY <1>t, <1>s, <2>1, <2>2 DEF SeatsHeld, Active, Counted
<1>7. ASSUME NEW active \in BOOLEAN, SetActive(active) PROVE SeatsHeld'
  <2>1. UNCHANGED <<user, inviter, peak>> /\ tenant'.max = tenant.max
    BY <1>7 DEF SetActive, others
  <2>2. QED
    BY <1>t, <2>1 DEF SeatsHeld, Active, Counted
<1>8. ASSUME UNCHANGED <<tenant, user, inviter, peak>> PROVE SeatsHeld'
  BY <1>t, <1>8 DEF SeatsHeld, Active, Counted
<1>9. QED
  BY <1>1, <1>2, <1>3, <1>4, <1>5, <1>6, <1>7, <1>8
    DEF Next, InviteStep, RemoveStep, LicenseStep, vars, others, RemoveRead, RemoveLogin,
        RemoveFails, LicenseRead, LicenseDone, LicenseFails, SyncOne, SyncFails

\* Every step keeps the invariant.
LEMMA Step_IInv == IInv /\ [Next]_vars => IInv'
BY Step_TypeOK, Step_InvitersGrounded, Step_RemoversGrounded, Step_EditorsGrounded,
   Step_SeatsHeld, Step_LoginsGrounded, Step_TypesGrounded DEF IInv

\* The strengthening holds in every state.
THEOREM Invariance == Spec => []IInv
BY Initially, Step_IInv, PTL DEF Spec

\* The rows and the calls are what the schema and the handlers say, in every state.
THEOREM TypeCorrect == Spec => []TypeOK
<1>1. IInv => TypeOK
  BY DEF IInv
<1>2. QED
  BY Invariance, <1>1, PTL

\* However many invitations pass the count of inviteUser at once, they overrun the user
\* limit by no more than all of them but one.
THEOREM SeatsAreBounded == Spec => []SeatsBounded
<1>1. ASSUME IInv PROVE SeatsBounded
  <2>1. peak \in Nat
    BY <1>1, UsersAssumption DEF IInv, TypeOK
  <2>2. QED
    BY <1>1, <2>1, Finite DEF IInv, SeatsHeld, SeatsBounded
<1>2. QED
  BY Invariance, <1>1, PTL

\* An active user whose handlers neither failed nor overlapped has a login with the type
\* the tenant has, however often the license changed.
THEOREM LoginsMatch == Spec => []LoginMatchesTenant
<1>1. IInv => LoginMatchesTenant
  BY DEF IInv, LoginsGrounded, TypesGrounded, LoginMatchesTenant, Quiet, Inviting
<1>2. QED
  BY Invariance, <1>1, PTL

\* deactivateUser leaves no login behind, unless one of its calls failed or an invitation
\* of the same user was under way.
THEOREM LoginsGone == Spec => []DeactivatedLoginGone
<1>1. IInv => DeactivatedLoginGone
  BY DEF IInv, LoginsGrounded, DeactivatedLoginGone, Quiet
<1>2. QED
  BY Invariance, <1>1, PTL

\* No invitation, however it overlaps a deactivation, makes a deactivated user active
\* again, and nobody deactivates the owner.
THEOREM DeactivatedForGood == Spec => DeactivationIsFinal
<1> DEFINE Final == \A u \in Users: /\ user[u].row = "inactive" => user'[u].row = "inactive"
                                    /\ user'[Owner].row = "active"
<1>1. ASSUME IInv, [Next]_vars PROVE Final
  <2>1. user'[Owner].row = "active"
    BY <1>1, Step_SeatsHeld DEF SeatsHeld
  <2>2. SUFFICES ASSUME NEW u \in Users, user[u].row = "inactive" PROVE user'[u].row = "inactive"
    BY <2>1
  <2>3. ASSUME NEW c \in Inviters, InviteCreate(c) \/ InviteStore(c)
        PROVE  user'[u].row = "inactive"
    BY <1>1, <2>2, <2>3 DEF InviteCreate, InviteStore, IInv, TypeOK, User
  <2>4. ASSUME NEW r \in Removers, RemoveWrite(r) PROVE user'[u].row = "inactive"
    BY <2>2, <2>4 DEF RemoveWrite
  <2>5. ASSUME UNCHANGED user PROVE user'[u].row = "inactive"
    BY <2>2, <2>5
  <2>6. QED
    BY <1>1, <2>3, <2>4, <2>5
      DEF Next, InviteStep, RemoveStep, LicenseStep, vars, InviteRead, InviteCount, InviteFind,
          InviteAuth, InviteMetadata, InviteFails, RemoveRead, RemoveLogin, RemoveFails,
          LicenseRead, LicenseWrite, LicenseDone, LicenseFails, SyncOne, SyncFails, SetActive
<1>2. QED
  BY Invariance, <1>1, PTL DEF Spec, DeactivationIsFinal

------------------------------------------------------------------------------
(* The second factor of one of them.                                       *)

\* The invariant holds initially.
LEMMA MfaInitially == MfaInit => MfaIInv
<1> SUFFICES ASSUME MfaInit PROVE MfaIInv
  OBVIOUS
<1>1. MfaTypeOK
  BY DEF MfaInit, MfaTypeOK, Row, Call, Idle
<1>2. SetupsOwn /\ VerifiedShown /\ Undisturbed
  BY DEF MfaInit, SetupsOwn, Setup, VerifiedShown, Undisturbed, Idle
<1>3. QED
  BY <1>1, <1>2 DEF MfaIInv

\* A call that ends, whatever it was doing, only makes the invariant easier.
LEMMA MfaEnding ==
  ASSUME MfaIInv, NEW c \in Calls, Done(c), UNCHANGED <<row, generated, shown, confirmed, raced>>
  PROVE  MfaIInv'
<1>1. MfaTypeOK'
  BY DEF MfaIInv, MfaTypeOK, Call, Idle, Done
<1>2. \A d \in Calls: call'[d] = call[d] \/ call'[d].at = "idle"
  BY DEF Idle, Done
<1>3. SetupsOwn' /\ VerifiedShown'
  BY <1>2 DEF MfaIInv, SetupsOwn, Setup, VerifiedShown
<1>4. ASSUME ~raced' PROVE Undisturbed'
  BY <1>2, <1>4 DEF MfaIInv, Undisturbed, Setup
<1>5. QED
  BY <1>1, <1>3, <1>4 DEF MfaIInv

\* Every step keeps the invariant.
LEMMA MfaStep == MfaIInv /\ [MfaNext]_mfaVars => MfaIInv'
<1> SUFFICES ASSUME MfaIInv, [MfaNext]_mfaVars PROVE MfaIInv'
  OBVIOUS
<1> USE DEF Setup
<1>t. MfaTypeOK /\ SetupsOwn /\ VerifiedShown /\ (~raced => Undisturbed)
  BY DEF MfaIInv
<1>1. ASSUME NEW c \in Calls, NEW s \in Secrets, SetupRead(c, s) PROVE MfaIInv'
  <2>1. MfaTypeOK'
    BY <1>t, <1>1 DEF SetupRead, MfaTypeOK, Call
  <2>2. SetupsOwn'
    BY <1>t, <1>1 DEF SetupRead, MfaTypeOK, SetupsOwn
  <2>3. VerifiedShown'
    BY <1>t, <1>1 DEF SetupRead, VerifiedShown
  <2>4. ASSUME ~raced' PROVE Undisturbed'
    BY <1>t, <1>1, <2>4 DEF SetupRead, Undisturbed
  <2>5. QED
    BY <2>1, <2>2, <2>3, <2>4 DEF MfaIInv
<1>2. ASSUME NEW c \in Calls, SetupSecret(c) PROVE MfaIInv'
  <2>1. MfaTypeOK'
    BY <1>t, <1>2 DEF SetupSecret, MfaTypeOK, Row, Call
  <2>2. SetupsOwn'
    BY <1>t, <1>2 DEF SetupSecret, SetupsOwn
  <2>3. VerifiedShown'
    BY <1>t, <1>2 DEF SetupSecret, VerifiedShown
  <2>4. ASSUME ~raced' PROVE Undisturbed'
    BY <1>t, <1>2, <2>4
      DEF SetupSecret, Others, MfaTypeOK, Row, Call, SetupsOwn,
          Undisturbed
  <2>5. QED
    BY <2>1, <2>2, <2>3, <2>4 DEF MfaIInv
<1>3. ASSUME NEW c \in Calls, SetupCodes(c) PROVE MfaIInv'
  <2>1. MfaTypeOK'
    BY <1>t, <1>3
      DEF SetupCodes, Done, Idle, MfaTypeOK, Row, Call, SetupsOwn
  <2>2. SetupsOwn'
    BY <1>t, <1>3 DEF SetupCodes, Done, Idle, MfaTypeOK, SetupsOwn
  <2>3. VerifiedShown'
    BY <1>t, <1>3 DEF SetupCodes, Done, Idle, VerifiedShown
  <2>4. ASSUME ~raced' PROVE Undisturbed'
    BY <1>t, <1>3, <2>4 DEF SetupCodes, Done, Idle, MfaTypeOK, Undisturbed
  <2>5. QED
    BY <2>1, <2>2, <2>3, <2>4 DEF MfaIInv
<1>4. ASSUME NEW c \in Calls, NEW next \in {"enable", "disable", "pass"}, Verify(c, next)
      PROVE  MfaIInv'
  <2>1. MfaTypeOK'
    BY <1>t, <1>4 DEF Verify, MfaTypeOK, Call
  <2>2. SetupsOwn'
    BY <1>t, <1>4 DEF Verify, SetupsOwn
  <2>3. VerifiedShown'
    BY <1>t, <1>4 DEF Verify, VerifiedShown
  <2>4. ASSUME ~raced' PROVE Undisturbed'
    BY <1>t, <1>4, <2>4 DEF Verify, Undisturbed
  <2>5. QED
    BY <2>1, <2>2, <2>3, <2>4 DEF MfaIInv
<1>5. ASSUME NEW c \in Calls, Enable(c) PROVE MfaIInv'
  <2>1. MfaTypeOK'
    BY <1>t, <1>5
      DEF Enable, Done, Idle, MfaTypeOK, Row, Call, VerifiedShown
  <2>2. SetupsOwn'
    BY <1>t, <1>5 DEF Enable, Done, Idle, SetupsOwn
  <2>3. VerifiedShown'
    BY <1>t, <1>5 DEF Enable, Done, Idle, VerifiedShown
  <2>4. ASSUME ~raced' PROVE Undisturbed'
    BY <1>t, <1>5, <2>4
      DEF Enable, Others, Done, Idle, MfaTypeOK, Row, Undisturbed
  <2>5. QED
    BY <2>1, <2>2, <2>3, <2>4 DEF MfaIInv
<1>6. ASSUME NEW c \in Calls, Disable(c) PROVE MfaIInv'
  <2>1. MfaTypeOK'
    BY <1>t, <1>6 DEF Disable, Done, Idle, MfaTypeOK, Row, Call
  <2>2. SetupsOwn'
    BY <1>t, <1>6 DEF Disable, Done, Idle, SetupsOwn
  <2>3. VerifiedShown'
    BY <1>t, <1>6 DEF Disable, Done, Idle, VerifiedShown
  <2>4. ASSUME ~raced' PROVE Undisturbed'
    BY <1>t, <1>6, <2>4
      DEF Disable, Others, Done, Idle, MfaTypeOK, Undisturbed
  <2>5. QED
    BY <2>1, <2>2, <2>3, <2>4 DEF MfaIInv
<1>7. ASSUME NEW c \in Calls, Pass(c) \/ Fails(c) PROVE MfaIInv'
  BY <1>7, MfaEnding DEF Pass, Fails
<1>8. ASSUME UNCHANGED mfaVars PROVE MfaIInv'
  BY <1>8 DEF mfaVars, MfaIInv, MfaTypeOK, SetupsOwn, VerifiedShown, Undisturbed
<1>9. QED
  BY <1>1, <1>2, <1>3, <1>4, <1>5, <1>6, <1>7, <1>8 DEF MfaNext, Step

\* The strengthening holds in every state.
THEOREM MfaInvariance == MfaSpec => []MfaIInv
BY MfaInitially, MfaStep, PTL DEF MfaSpec

\* The row and the calls are what the schema and the handlers say, in every state.
THEOREM MfaTypeCorrect == MfaSpec => []MfaTypeOK
<1>1. MfaIInv => MfaTypeOK
  BY DEF MfaIInv
<1>2. QED
  BY MfaInvariance, <1>1, PTL

\* An enabled second factor is one its user confirmed and holds the backup codes of, in
\* every run of setupMfa, enableMfa and disableMfa in which no write falls between the
\* read and the write of another call.
THEOREM Usable == MfaSpec => []EnabledIsUsable
<1>1. MfaIInv => EnabledIsUsable
  BY DEF MfaIInv, MfaTypeOK, Undisturbed, EnabledIsUsable
<1>2. QED
  BY MfaInvariance, <1>1, PTL
==============================================================================
