---------------------------- MODULE TenantUsers ----------------------------
(***************************************************************************)
(* The people of one tenant: inviteUser, deactivateUser, updateLicense,    *)
(* suspendTenant and reactivateTenant of admin/admin.service, with the     *)
(* Supabase calls of supabase/supabase-admin.service they make.            *)
(*                                                                         *)
(* Each call in flight takes one database or Supabase call per action.     *)
(* Any call may throw and the process may die: the rest of that handler    *)
(* does not happen ("faulty" remembers whose login that may have touched). *)
(*                                                                         *)
(* A user is named by the address, which is unique within the tenant; the  *)
(* row is never deleted, only made inactive.                               *)
(***************************************************************************)
EXTENDS Naturals, FiniteSets

CONSTANTS
  Users,     \* addresses
  Owner,     \* the one the tenant was created with
  Inviters,  \* calls of inviteUser that may be in flight at once
  Removers,  \* calls of deactivateUser
  Editors,   \* calls of updateLicense
  Types,     \* tenant types
  Sizes,     \* values of maxUsers
  None,      \* no address, no type
  MaxEdits   \* bound: license updates

ASSUME UsersAssumption ==
  /\ Owner \in Users /\ None \notin Users \cup Types
  /\ IsFiniteSet(Users) /\ IsFiniteSet(Inviters) /\ Inviters # {}
  /\ Sizes \subseteq Nat \ {0} /\ MaxEdits \in Nat

VARIABLES
  tenant,   \* its row: isActive, maxUsers, tenantType
  user,     \* the users: "uid" is supabaseUid # null
  auth,     \* auth.users of Supabase: "type" is app_metadata.tenant_type
  inviter, remover, editor,   \* where each call stands, with what it read
  edits,
  peak,     \* history: the most users the license ever allowed
  faulty,   \* history: users some call of whose handlers failed
  hasty,    \* history: users deactivated while their invitation was under way
  mixed     \* history: users whose tenant_type was written by two calls at once

vars == <<tenant, user, auth, inviter, remover, editor, edits, peak, faulty, hasty, mixed>>

-----------------------------------------------------------------------------
Tenant  == [active: BOOLEAN, max: Sizes, type: Types]
User    == [row: {"none", "active", "inactive"}, uid: BOOLEAN]
Auth    == [known: BOOLEAN, type: Types \cup {None}]
Inviter == [at: {"idle", "count", "find", "create", "invite", "metadata", "store"},
            u: Users \cup {None}, max: Sizes \cup {0}, type: Types \cup {None}]
Remover == [at: {"idle", "write", "delete"}, u: Users \cup {None}, uid: BOOLEAN]
Editor  == [at: {"idle", "write", "sync"}, old: Types \cup {None}, new: Types \cup {None},
            max: Sizes \cup {0}, todo: SUBSET Users]

NotInviting == [at |-> "idle", u |-> None, max |-> 0, type |-> None]
NotRemoving == [at |-> "idle", u |-> None, uid |-> FALSE]
NotEditing  == [at |-> "idle", old |-> None, new |-> None, max |-> 0, todo |-> {}]

Active == {u \in Users: user[u].row = "active"}

Init ==
  /\ tenant \in [active: {TRUE}, max: Sizes, type: Types]
  /\ user = [u \in Users |-> [row |-> IF u = Owner THEN "active" ELSE "none", uid |-> u = Owner]]
  /\ auth = [u \in Users |-> [known |-> u = Owner, type |-> IF u = Owner THEN tenant.type ELSE None]]
  /\ inviter = [c \in Inviters |-> NotInviting]
  /\ remover = [r \in Removers |-> NotRemoving]
  /\ editor = [x \in Editors |-> NotEditing]
  /\ edits = 0 /\ peak = tenant.max
  /\ faulty = {} /\ hasty = {} /\ mixed = {}

others == <<edits, peak, faulty, hasty, mixed>>

-----------------------------------------------------------------------------
(* inviteUser.                                                             *)

InviteRead(c, u) ==
  /\ inviter[c].at = "idle" /\ tenant.active
  /\ inviter' = [inviter EXCEPT ![c] = [at |-> "count", u |-> u, max |-> tenant.max,
                                        type |-> tenant.type]]
  /\ UNCHANGED <<tenant, user, auth, remover, editor, others>>

\* mutant of InviteCount: the limit itself lets one more in
InviteCountMutAtLimit(c) ==
  /\ inviter[c].at = "count" /\ Cardinality(Active) <= inviter[c].max
  /\ inviter' = [inviter EXCEPT ![c].at = "find"]
  /\ UNCHANGED <<tenant, user, auth, remover, editor, others>>

InviteCount(c) ==
  /\ inviter[c].at = "count" /\ Cardinality(Active) < inviter[c].max
  /\ inviter' = [inviter EXCEPT ![c].at = "find"]
  /\ UNCHANGED <<tenant, user, auth, remover, editor, others>>

\* an inactive user conflicts as well
InviteFind(c) ==
  /\ inviter[c].at = "find" /\ user[inviter[c].u].row = "none"
  /\ inviter' = [inviter EXCEPT ![c].at = "create"]
  /\ UNCHANGED <<tenant, user, auth, remover, editor, others>>

\* mutant of InviteCreate: an upsert, which makes an inactive user active again
InviteCreateMutUpsert(c) ==
  /\ inviter[c].at = "create"
  /\ user' = [user EXCEPT ![inviter[c].u] = [row |-> "active", uid |-> FALSE]]
  /\ inviter' = [inviter EXCEPT ![c].at = "invite"]
  /\ UNCHANGED <<tenant, auth, remover, editor, others>>

\* (email, tenant) is unique: the slower of two invitations throws
InviteCreate(c) ==
  /\ inviter[c].at = "create" /\ user[inviter[c].u].row = "none"
  /\ user' = [user EXCEPT ![inviter[c].u] = [row |-> "active", uid |-> FALSE]]
  /\ inviter' = [inviter EXCEPT ![c].at = "invite"]
  /\ UNCHANGED <<tenant, auth, remover, editor, others>>

\* inviteUserByEmail
InviteAuth(c) ==
  /\ inviter[c].at = "invite"
  /\ auth' = [auth EXCEPT ![inviter[c].u].known = TRUE]
  /\ inviter' = [inviter EXCEPT ![c].at = "metadata"]
  /\ UNCHANGED <<tenant, user, remover, editor, others>>

\* updateUserById, with the tenant type read at the start
InviteMetadata(c) ==
  /\ inviter[c].at = "metadata" /\ auth[inviter[c].u].known
  /\ auth' = [auth EXCEPT ![inviter[c].u].type = inviter[c].type]
  /\ inviter' = [inviter EXCEPT ![c].at = "store"]
  /\ UNCHANGED <<tenant, user, remover, editor, others>>

\* by id, whatever has become of the user
InviteStore(c) ==
  /\ inviter[c].at = "store"
  /\ user' = [user EXCEPT ![inviter[c].u].uid = TRUE]
  /\ inviter' = [inviter EXCEPT ![c] = NotInviting]
  /\ UNCHANGED <<tenant, auth, remover, editor, others>>

Created == {"invite", "metadata", "store"}

\* refused, thrown or died; a row already created stays
InviteFails(c) ==
  /\ inviter[c].at # "idle"
  /\ faulty' = IF inviter[c].at \in Created THEN faulty \cup {inviter[c].u} ELSE faulty
  /\ inviter' = [inviter EXCEPT ![c] = NotInviting]
  /\ UNCHANGED <<tenant, user, auth, remover, editor, edits, peak, hasty, mixed>>

-----------------------------------------------------------------------------
(* deactivateUser.                                                         *)

Inviting(u) == \E c \in Inviters: inviter[c].u = u /\ inviter[c].at \in Created

RemoveRead(r, u) ==
  /\ remover[r].at = "idle" /\ u # Owner /\ user[u].row = "active"
  /\ remover' = [remover EXCEPT ![r] = [at |-> "write", u |-> u, uid |-> user[u].uid]]
  /\ hasty' = IF Inviting(u) THEN hasty \cup {u} ELSE hasty
  /\ UNCHANGED <<tenant, user, auth, inviter, editor, edits, peak, faulty, mixed>>

\* mutant of RemoveWrite: the login is left alone
RemoveWriteMutKeepsLogin(r) ==
  /\ remover[r].at = "write"
  /\ user' = [user EXCEPT ![remover[r].u].row = "inactive"]
  /\ remover' = [remover EXCEPT ![r] = NotRemoving]
  /\ UNCHANGED <<tenant, auth, inviter, editor, others>>

\* the login is deleted next if the user had one when read
RemoveWrite(r) ==
  /\ remover[r].at = "write"
  /\ user' = [user EXCEPT ![remover[r].u].row = "inactive"]
  /\ remover' = [remover EXCEPT ![r] = IF remover[r].uid THEN [@ EXCEPT !.at = "delete"]
                                       ELSE NotRemoving]
  /\ UNCHANGED <<tenant, auth, inviter, editor, others>>

RemoveLogin(r) ==
  /\ remover[r].at = "delete" /\ auth[remover[r].u].known
  /\ auth' = [auth EXCEPT ![remover[r].u] = [known |-> FALSE, type |-> None]]
  /\ remover' = [remover EXCEPT ![r] = NotRemoving]
  /\ UNCHANGED <<tenant, user, inviter, editor, others>>

\* a failed deletion of the login is logged and ignored
RemoveFails(r) ==
  /\ remover[r].at # "idle"
  /\ faulty' = faulty \cup {remover[r].u}
  /\ remover' = [remover EXCEPT ![r] = NotRemoving]
  /\ UNCHANGED <<tenant, user, auth, inviter, editor, edits, peak, hasty, mixed>>

-----------------------------------------------------------------------------
(* updateLicense.  "type" is None when the request leaves it out.          *)

LicenseRead(x, type, max) ==
  /\ editor[x].at = "idle" /\ edits < MaxEdits
  /\ edits' = edits + 1
  /\ editor' = [editor EXCEPT ![x] = [at |-> "write", old |-> tenant.type, new |-> type,
                                      max |-> max, todo |-> {}]]
  /\ UNCHANGED <<tenant, user, auth, inviter, remover, peak, faulty, hasty, mixed>>

\* whose metadata two calls write at once, or with what they read before
Contended(x) ==
  IF \E y \in Editors \ {x}: editor[y].at # "idle" THEN Users
  ELSE {u \in Users: \E c \in Inviters: inviter[c].u = u}

\* mutant of ToSync: the type is compared with the tenant as updated
ToSyncMutAfterUpdate(x) == {}

\* the update answers the active users; those with a login are synchronized when
\* the type differs from the one read at the start
ToSync(x) ==
  IF editor[x].new \in {None, editor[x].old} THEN {} ELSE {u \in Active: user[u].uid}

LicenseWrite(x) ==
  /\ editor[x].at = "write"
  /\ tenant' = [tenant EXCEPT !.max = editor[x].max,
                              !.type = IF editor[x].new = None THEN @ ELSE editor[x].new]
  /\ editor' = [editor EXCEPT ![x].at = "sync", ![x].todo = ToSync(x)]
  /\ peak' = IF editor[x].max > peak THEN editor[x].max ELSE peak
  /\ mixed' = mixed \cup Contended(x)
  /\ UNCHANGED <<user, auth, inviter, remover, edits, faulty, hasty>>

\* Promise.allSettled: in any order
SyncOne(x, u) ==
  /\ u \in editor[x].todo /\ auth[u].known
  /\ auth' = [auth EXCEPT ![u].type = editor[x].new]
  /\ editor' = [editor EXCEPT ![x].todo = @ \ {u}]
  /\ UNCHANGED <<tenant, user, inviter, remover, others>>

\* a rejected one is ignored
SyncFails(x, u) ==
  /\ u \in editor[x].todo
  /\ faulty' = faulty \cup {u}
  /\ editor' = [editor EXCEPT ![x].todo = @ \ {u}]
  /\ UNCHANGED <<tenant, user, auth, inviter, remover, edits, peak, hasty, mixed>>

LicenseDone(x) ==
  /\ editor[x].at = "sync" /\ editor[x].todo = {}
  /\ editor' = [editor EXCEPT ![x] = NotEditing]
  /\ UNCHANGED <<tenant, user, auth, inviter, remover, others>>

LicenseFails(x) ==
  /\ editor[x].at = "write" \/ editor[x].todo # {}
  /\ faulty' = faulty \cup editor[x].todo
  /\ editor' = [editor EXCEPT ![x] = NotEditing]
  /\ UNCHANGED <<tenant, user, auth, inviter, remover, edits, peak, hasty, mixed>>

-----------------------------------------------------------------------------
\* suspendTenant and reactivateTenant; a check that went stale would only write the
\* value that is there
SetActive(active) ==
  /\ tenant.active # active
  /\ tenant' = [tenant EXCEPT !.active = active]
  /\ UNCHANGED <<user, auth, inviter, remover, editor, others>>

-----------------------------------------------------------------------------
InviteStep(c) ==
  \/ \E u \in Users: InviteRead(c, u)
  \/ InviteCount(c) \/ InviteFind(c) \/ InviteCreate(c)
  \/ InviteAuth(c) \/ InviteMetadata(c) \/ InviteStore(c) \/ InviteFails(c)

RemoveStep(r) ==
  \/ \E u \in Users: RemoveRead(r, u)
  \/ RemoveWrite(r) \/ RemoveLogin(r) \/ RemoveFails(r)

LicenseStep(x) ==
  \/ \E type \in Types \cup {None}, max \in Sizes: LicenseRead(x, type, max)
  \/ LicenseWrite(x) \/ LicenseDone(x) \/ LicenseFails(x)
  \/ \E u \in Users: SyncOne(x, u) \/ SyncFails(x, u)

Next ==
  \/ \E c \in Inviters: InviteStep(c)
  \/ \E r \in Removers: RemoveStep(r)
  \/ \E x \in Editors: LicenseStep(x)
  \/ \E active \in BOOLEAN: SetActive(active)

Spec == Init /\ [][Next]_vars

-----------------------------------------------------------------------------
(* Properties.                                                             *)

TypeOK ==
  /\ tenant \in Tenant
  /\ user \in [Users -> User]
  /\ auth \in [Users -> Auth]
  /\ inviter \in [Inviters -> Inviter]
  /\ remover \in [Removers -> Remover]
  /\ editor \in [Editors -> Editor]
  /\ edits \in 0..MaxEdits /\ peak \in Sizes
  /\ faulty \subseteq Users /\ hasty \subseteq Users /\ mixed \subseteq Users

\* The user limit can be overrun only by invitations in flight at once: by all of
\* them but one, over the most the license ever allowed.
SeatsBounded == Cardinality(Active) <= peak + Cardinality(Inviters) - 1

Quiet(u) ==
  /\ \A c \in Inviters: inviter[c].u # u
  /\ \A r \in Removers: remover[r].u # u
  /\ \A x \in Editors: editor[x].at = "idle"

\* When nothing is under way, an active user has a login, stored in the row and
\* carrying the type the tenant has now; only a failed call, a license update that
\* overlapped the invitation or another update, or a deactivation, spoils it.
LoginMatchesTenant ==
  \A u \in Users \ (faulty \cup mixed \cup hasty):
    Quiet(u) /\ user[u].row = "active" =>
      user[u].uid /\ auth[u].known /\ auth[u].type = tenant.type

\* When nothing is under way, a deactivated user has no login left, unless a call
\* failed or the user was deactivated during the invitation.
DeactivatedLoginGone ==
  \A u \in Users \ (faulty \cup hasty): Quiet(u) /\ user[u].row = "inactive" => ~auth[u].known

\* Deactivation is for good: no invitation brings a deactivated user back, and the
\* owner stays active.
DeactivationIsFinal ==
  [][\A u \in Users:
       /\ user[u].row = "inactive" => user'[u].row = "inactive"
       /\ user'[Owner].row = "active"]_vars

-----------------------------------------------------------------------------
(* The strengthening that is inductive.                                    *)

InvitersGrounded ==
  \A c \in Inviters:
    /\ inviter[c].at # "idle" => inviter[c].u \in Users /\ inviter[c].max <= peak
    /\ inviter[c].at \in Created => user[inviter[c].u].row # "none"

RemoversGrounded ==
  \A r \in Removers:
    /\ remover[r].at # "idle" => remover[r].u \in Users \ {Owner}
    /\ remover[r].at # "idle" => user[remover[r].u].row # "none"
    /\ remover[r].at = "delete" => user[remover[r].u].row = "inactive"

EditorsGrounded ==
  \A x \in Editors:
    /\ editor[x].at # "idle" => editor[x].max \in Sizes
    /\ editor[x].todo # {} => editor[x].at = "sync"

\* an invitation past the count holds a seat
Counted == {c \in Inviters: inviter[c].at \in {"find", "create"}}
SeatsHeld ==
  /\ Cardinality(Active) + Cardinality(Counted) <= peak + Cardinality(Inviters) - 1
  /\ tenant.max <= peak
  /\ user[Owner].row = "active"

\* of users whose handlers did not fail or overlap: whoever is past an invitation has
\* a login, and whoever was deactivated has a remover about to delete it
LoginsGrounded ==
  \A u \in Users \ (faulty \cup hasty):
    /\ user[u].row = "active" /\ ~Inviting(u) => user[u].uid /\ auth[u].known
    /\ user[u].row = "inactive" =>
         /\ ~Inviting(u)
         /\ auth[u].known => \E r \in Removers: remover[r].u = u /\ remover[r].at = "delete"
    /\ \A r \in Removers: remover[r].u = u /\ remover[r].at # "idle" => remover[r].uid /\ ~Inviting(u)
    /\ \A c \in Inviters: inviter[c].u = u /\ inviter[c].at \in {"metadata", "store"} => auth[u].known

\* the type is the tenant's wherever it was copied to, or is about to be written
TypesGrounded ==
  \A u \in Users \ (faulty \cup hasty \cup mixed):
    /\ \A x \in Editors:
         /\ editor[x].at = "write" => editor[x].old = tenant.type
         /\ editor[x].at = "sync" /\ editor[x].todo # {} => editor[x].new = tenant.type
    /\ \A c \in Inviters: inviter[c].u = u =>
         /\ inviter[c].at # "idle" => inviter[c].type = tenant.type
         /\ inviter[c].at = "store" => auth[u].type = tenant.type
    /\ user[u].row = "active" /\ ~Inviting(u) =>
         auth[u].type = tenant.type \/ \E x \in Editors: editor[x].at = "sync" /\ u \in editor[x].todo

IInv ==
  /\ TypeOK /\ InvitersGrounded /\ RemoversGrounded /\ EditorsGrounded
  /\ SeatsHeld /\ LoginsGrounded /\ TypesGrounded

=============================================================================
