---------------------------- MODULE SharedSecrets ----------------------------
(***************************************************************************)
(* One-time secret sharing: apps/backend/src/secrets/secrets.service.ts.   *)
(*                                                                         *)
(* Every HTTP handler is a request of its own and runs to its end once; a  *)
(* handler gives up the event loop at each await, so each database call is *)
(* an action and the code between two of them is an action.  The database  *)
(* executes one statement at a time (each handler issues single            *)
(* statements, no transaction).  A crash of the Node process loses every   *)
(* request in flight and keeps the database.                               *)
(*                                                                         *)
(* Abstracted: the ciphertext and the keys (a delivered content is the     *)
(* answer "content"), the labels and names, the log lines.                 *)
(***************************************************************************)
EXTENDS Naturals

CONSTANTS
  Secrets,    \* rows createSecret may insert (the uuid and the token are fresh)
  Users,      \* authenticated creators
  Views,      \* viewSecret requests
  Peeks,      \* peekSecret requests
  Revokes,    \* revokeSecret requests
  Phrases,    \* passphrases
  None,       \* no passphrase, no secret
  Ttls,       \* lifetimes a creator may ask for
  MaxTime     \* bound: the clock stops there

ASSUME SecretsAssumption ==
  /\ None \notin Secrets \cup Phrases
  /\ Ttls \subseteq Nat \ {0}
  /\ MaxTime \in Nat

VARIABLES
  now,     \* the clock
  rows,    \* table shared_secrets: a deleted row keeps its last columns
  view,    \* viewSecret requests: where each stands, and the record it read
  peek,    \* peekSecret requests
  revoke,  \* revokeSecret requests
  stamped  \* history: the viewSecret requests whose update reached the database

vars == <<now, rows, view, peek, revoke, stamped>>

-----------------------------------------------------------------------------
Stages == {"unborn", "drafted", "stored", "deleted", "aborted"}

Row == [stage: Stages, creator: Users \cup {None}, phrase: Phrases \cup {None},
        expiresAt: Nat, viewed: BOOLEAN, revoked: BOOLEAN]

Reasons == {"viewed", "revoked", "expired"}

ViewAnswers == {"content", "notFound", "needPhrase", "badPhrase", "failed", "lost"} \cup Reasons

\* token and passphrase, and what findUnique returned
View == [at: {"idle", "check", "burn", "open"} \cup ViewAnswers,
         secret: Secrets \cup {None}, phrase: Phrases \cup {None},
         sawViewed: BOOLEAN, sawRevoked: BOOLEAN]

Peek == [at: {"idle", "report", "live", "notFound", "failed", "lost"} \cup Reasons,
         secret: Secrets \cup {None}, sawViewed: BOOLEAN, sawRevoked: BOOLEAN]

Revoke == [at: {"idle", "write", "revoked", "notFound", "failed", "lost"},
           secret: Secrets \cup {None}]

Init ==
  /\ now = 0
  /\ rows = [s \in Secrets |-> [stage |-> "unborn", creator |-> None, phrase |-> None,
                                expiresAt |-> 0, viewed |-> FALSE, revoked |-> FALSE]]
  /\ view = [v \in Views |-> [at |-> "idle", secret |-> None, phrase |-> None,
                              sawViewed |-> FALSE, sawRevoked |-> FALSE]]
  /\ peek = [k \in Peeks |-> [at |-> "idle", secret |-> None,
                              sawViewed |-> FALSE, sawRevoked |-> FALSE]]
  /\ revoke = [r \in Revokes |-> [at |-> "idle", secret |-> None]]
  /\ stamped = {}

Stored(s) == rows[s].stage = "stored"

-----------------------------------------------------------------------------
(* createSecret: the expiry is computed before the insert.  Bound: a       *)
(* secret asks for a life that ends before the clock does.                 *)

CreateBegin(s, u, phrase, ttl) ==
  /\ rows[s].stage = "unborn"
  /\ now + ttl < MaxTime
  /\ rows' = [rows EXCEPT ![s] = [stage |-> "drafted", creator |-> u, phrase |-> phrase,
                                  expiresAt |-> now + ttl, viewed |-> FALSE, revoked |-> FALSE]]
  /\ UNCHANGED <<now, view, peek, revoke, stamped>>

CreateInsert(s) ==
  /\ rows[s].stage = "drafted"
  /\ \E stage \in {"stored", "aborted"}:   \* the insert succeeds or throws
       rows' = [rows EXCEPT ![s].stage = stage]
  /\ UNCHANGED <<now, view, peek, revoke, stamped>>

-----------------------------------------------------------------------------
(* viewSecret: read the row, check the copy, stamp viewedAt, decrypt.      *)

ViewGoes(v, at) == view' = [view EXCEPT ![v].at = at]

\* findUnique by token hash
ViewRead(v, s, phrase) ==
  /\ view[v].at = "idle"
  /\ view' = [view EXCEPT ![v] =
                [at |-> IF Stored(s) THEN "check" ELSE "notFound", secret |-> s,
                 phrase |-> phrase, sawViewed |-> rows[s].viewed,
                 sawRevoked |-> rows[s].revoked]]
  /\ UNCHANGED <<now, rows, peek, revoke, stamped>>

Expired(s) == now > rows[s].expiresAt

PhraseMatches(v) == rows[view[v].secret].phrase \in {None, view[v].phrase}

\* mutant of Refusal: a viewed copy is accepted
RefusalMutViewedAccepted(v) ==
  IF view[v].sawRevoked THEN "revoked"
  ELSE IF Expired(view[v].secret) THEN "expired"
  ELSE IF PhraseMatches(v) THEN "none" ELSE "badPhrase"

\* the checks on the copy, in their order
Refusal(v) ==
  IF view[v].sawRevoked THEN "revoked"
  ELSE IF view[v].sawViewed THEN "viewed"
  ELSE IF Expired(view[v].secret) THEN "expired"
  ELSE IF PhraseMatches(v) THEN "none"
  ELSE IF view[v].phrase = None THEN "needPhrase" ELSE "badPhrase"

\* the handler resumes with its copy
ViewCheck(v) ==
  /\ view[v].at = "check"
  /\ ViewGoes(v, IF Refusal(v) = "none" THEN "burn" ELSE Refusal(v))
  /\ UNCHANGED <<now, rows, peek, revoke, stamped>>

\* mutant of ViewBurn: the content goes out and the stamp is left for later
ViewBurnMutUnstamped(v) ==
  /\ view[v].at = "burn" /\ Stored(view[v].secret)
  /\ ViewGoes(v, "open")
  /\ UNCHANGED <<now, rows, peek, revoke, stamped>>

\* update viewedAt by id: it finds the row whatever its flags
ViewBurn(v) ==
  /\ view[v].at = "burn" /\ Stored(view[v].secret)
  /\ rows' = [rows EXCEPT ![view[v].secret].viewed = TRUE]
  /\ \E at \in {"open", "failed"}:         \* its acknowledgement may be lost
       ViewGoes(v, at)
  /\ stamped' = stamped \cup {v}
  /\ UNCHANGED <<now, peek, revoke>>

\* a database call throws: for the update, also when the row is gone
ViewFails(v) ==
  /\ view[v].at \in {"idle", "burn"}
  /\ ViewGoes(v, "failed")
  /\ UNCHANGED <<now, rows, peek, revoke, stamped>>

\* decrypt the copy and answer
ViewOpen(v) ==
  /\ view[v].at = "open"
  /\ ViewGoes(v, "content")
  /\ UNCHANGED <<now, rows, peek, revoke, stamped>>

-----------------------------------------------------------------------------
(* peekSecret: metadata only.                                              *)

PeekRead(k, s) ==
  /\ peek[k].at = "idle"
  /\ peek' = [peek EXCEPT ![k] =
                [at |-> IF Stored(s) THEN "report" ELSE "notFound", secret |-> s,
                 sawViewed |-> rows[s].viewed, sawRevoked |-> rows[s].revoked]]
  /\ UNCHANGED <<now, rows, view, revoke, stamped>>

PeekFails(k) ==
  /\ peek[k].at = "idle"
  /\ peek' = [peek EXCEPT ![k].at = "failed"]
  /\ UNCHANGED <<now, rows, view, revoke, stamped>>

\* mutants of BurnReason: a secret called expired in its last instant; a reason
\* no client knows
BurnReasonMutExpiredEarly(k) ==
  IF peek[k].sawViewed THEN "viewed"
  ELSE IF peek[k].sawRevoked THEN "revoked"
  ELSE IF now >= rows[peek[k].secret].expiresAt THEN "expired" ELSE "live"

BurnReasonMutUnknown(k) ==
  IF peek[k].sawViewed \/ peek[k].sawRevoked THEN "burned"
  ELSE IF Expired(peek[k].secret) THEN "expired" ELSE "live"

BurnReason(k) ==
  IF peek[k].sawViewed THEN "viewed"
  ELSE IF peek[k].sawRevoked THEN "revoked"
  ELSE IF Expired(peek[k].secret) THEN "expired" ELSE "live"

PeekReport(k) ==
  /\ peek[k].at = "report"
  /\ peek' = [peek EXCEPT ![k].at = BurnReason(k)]
  /\ UNCHANGED <<now, rows, view, revoke, stamped>>

-----------------------------------------------------------------------------
(* revokeSecret: find the caller's own row, then update it by id.          *)

RevokeRead(r, u, s) ==
  /\ revoke[r].at = "idle"
  /\ revoke' = [revoke EXCEPT ![r] =
                  [at |-> IF Stored(s) /\ rows[s].creator = u THEN "write" ELSE "notFound",
                   secret |-> s]]
  /\ UNCHANGED <<now, rows, view, peek, stamped>>

\* mutant of RevokeWrite: the update writes back the columns as they were created
RevokeWriteMutWholeRow(r) ==
  /\ revoke[r].at = "write" /\ Stored(revoke[r].secret)
  /\ rows' = [rows EXCEPT ![revoke[r].secret].revoked = TRUE, ![revoke[r].secret].viewed = FALSE]
  /\ revoke' = [revoke EXCEPT ![r].at = "revoked"]
  /\ UNCHANGED <<now, view, peek, stamped>>

RevokeWrite(r) ==
  /\ revoke[r].at = "write" /\ Stored(revoke[r].secret)
  /\ rows' = [rows EXCEPT ![revoke[r].secret].revoked = TRUE]
  /\ \E at \in {"revoked", "failed"}:      \* its acknowledgement may be lost
       revoke' = [revoke EXCEPT ![r].at = at]
  /\ UNCHANGED <<now, view, peek, stamped>>

\* a database call throws: for the update, also when the row is gone
RevokeFails(r) ==
  /\ revoke[r].at \in {"idle", "write"}
  /\ revoke' = [revoke EXCEPT ![r].at = "failed"]
  /\ UNCHANGED <<now, rows, view, peek, stamped>>

-----------------------------------------------------------------------------
(* cleanupBurnedSecrets, the nightly cron: one deleteMany.  A failure is   *)
(* swallowed and changes nothing.                                          *)

\* mutants of Dead: expired rows stay; a row goes in its last instant
DeadMutKeepsExpired(s) ==
  Stored(s) /\ (rows[s].viewed \/ rows[s].revoked)

DeadMutExpiredEarly(s) ==
  Stored(s) /\ (rows[s].viewed \/ rows[s].revoked \/ now >= rows[s].expiresAt)

Dead(s) ==
  Stored(s) /\ (rows[s].viewed \/ rows[s].revoked \/ Expired(s))

Cleanup ==
  /\ \E s \in Secrets: Dead(s)
  /\ rows' = [s \in Secrets |-> IF Dead(s) THEN [rows[s] EXCEPT !.stage = "deleted"] ELSE rows[s]]
  /\ UNCHANGED <<now, view, peek, revoke, stamped>>

-----------------------------------------------------------------------------
(* The environment: time, and a crash of the process.                      *)

Tick ==
  /\ now < MaxTime
  /\ now' = now + 1
  /\ UNCHANGED <<rows, view, peek, revoke, stamped>>

Crash ==
  /\ rows' = [s \in Secrets |-> IF rows[s].stage = "drafted"
                                THEN [rows[s] EXCEPT !.stage = "aborted"] ELSE rows[s]]
  /\ view' = [v \in Views |-> IF view[v].at \in {"check", "burn", "open"}
                              THEN [view[v] EXCEPT !.at = "lost"] ELSE view[v]]
  /\ peek' = [k \in Peeks |-> IF peek[k].at = "report"
                              THEN [peek[k] EXCEPT !.at = "lost"] ELSE peek[k]]
  /\ revoke' = [r \in Revokes |-> IF revoke[r].at = "write"
                                  THEN [revoke[r] EXCEPT !.at = "lost"] ELSE revoke[r]]
  /\ UNCHANGED <<now, stamped>>

-----------------------------------------------------------------------------
CreateStep(s) ==
  \/ \E u \in Users, phrase \in Phrases \cup {None}, ttl \in Ttls: CreateBegin(s, u, phrase, ttl)
  \/ CreateInsert(s)

ViewStep(v) ==
  \/ \E s \in Secrets, phrase \in Phrases \cup {None}: ViewRead(v, s, phrase)
  \/ ViewCheck(v) \/ ViewBurn(v) \/ ViewFails(v) \/ ViewOpen(v)

PeekStep(k) == (\E s \in Secrets: PeekRead(k, s)) \/ PeekReport(k) \/ PeekFails(k)

RevokeStep(r) ==
  \/ \E u \in Users, s \in Secrets: RevokeRead(r, u, s)
  \/ RevokeWrite(r) \/ RevokeFails(r)

Next ==
  \/ \E s \in Secrets: CreateStep(s)
  \/ \E v \in Views: ViewStep(v)
  \/ \E k \in Peeks: PeekStep(k)
  \/ \E r \in Revokes: RevokeStep(r)
  \/ Cleanup
  \/ Tick
  \/ Crash

Spec == Init /\ [][Next]_vars

(* The cron fires every night for as long as the service runs, and time    *)
(* passes.                                                                 *)
FairSpec == Spec /\ WF_vars(Cleanup) /\ WF_vars(Tick)

-----------------------------------------------------------------------------
(* Properties.                                                             *)

TypeOK ==
  /\ now \in Nat
  /\ rows \in [Secrets -> Row]
  /\ view \in [Views -> View]
  /\ peek \in [Peeks -> Peek]
  /\ revoke \in [Revokes -> Revoke]
  /\ stamped \subseteq Views

\* A request that holds or has given out the plaintext stamped viewedAt before,
\* and knew the passphrase: "stamp before decrypting so a crash after stamp still
\* burns the secret" (viewSecret).
BurnedBeforeOpened ==
  \A v \in Views: view[v].at \in {"open", "content"} =>
    rows[view[v].secret].viewed /\ PhraseMatches(v)

\* A secret is used up, or its row erased, only by a recipient who knew the
\* passphrase, by its creator's revocation, or by its age: no wrong guess, peek,
\* crash or cleanup takes it from a recipient it was meant for.
NoSilentLoss ==
  \A s \in Secrets: rows[s].viewed \/ rows[s].stage = "deleted" =>
    \/ \E v \in stamped: view[v].secret = s /\ PhraseMatches(v)
    \/ rows[s].revoked /\ \E r \in Revokes: revoke[r].secret = s /\ revoke[r].at # "notFound"
    \/ Expired(s)

\* What peekSecret reported of a burned secret is still true however old its copy
\* of the row was: the recipient is never told "burned" of a secret they can open.
PeekNeverLies ==
  \A k \in Peeks: LET s == peek[k].secret IN
    /\ peek[k].at = "viewed" => rows[s].viewed
    /\ peek[k].at = "revoked" => rows[s].revoked
    /\ peek[k].at = "expired" => Expired(s)

\* A recorded view, a recorded revocation and an erasure are final, though the
\* updates of viewSecret and revokeSecret act on copies the other has outdated: the
\* creator's list never loses sight of either.
BurnIsForever ==
  [][\A s \in Secrets:
       /\ rows[s].viewed => rows'[s].viewed
       /\ rows[s].revoked => rows'[s].revoked
       /\ rows[s].stage = "deleted" => rows'[s].stage = "deleted"]_vars

\* Every stored blob is erased in the end: "Delete them to minimise data at rest"
\* (cleanupBurnedSecrets).
EveryRowErased ==
  \A s \in Secrets: Stored(s) ~> rows[s].stage = "deleted"

\* "One-time secrets are destroyed after viewing": one recipient at most gets the
\* content.  The code does not keep this promise: two requests that both read the
\* row before either stamps it both answer with the content.
AtMostOneContent ==
  \A v, w \in Views: view[v].at = "content" /\ view[w].at = "content"
                      /\ view[v].secret = view[w].secret => v = w

(* What the code does promise: see OneTimeSecret.                          *)
Readable(s) == Stored(s) /\ ~rows[s].viewed /\ ~rows[s].revoked

Status == [s \in Secrets |->
  IF rows[s].stage \in {"unborn", "drafted", "aborted"} THEN "unborn"
  ELSE IF Readable(s) THEN "live" ELSE "burned"]

\* the requests that read the row of s unburned
Holders == [s \in Secrets |->
  {v \in Views: view[v].secret = s /\ view[v].at # "notFound"
                /\ ~view[v].sawViewed /\ ~view[v].sawRevoked}]

Given == [s \in Secrets |-> {v \in Views: view[v].secret = s /\ view[v].at = "content"}]

Promise == INSTANCE OneTimeSecret
             WITH Readers <- Views, status <- Status, holders <- Holders, given <- Given

\* viewSecret implements the one-time secret up to the race of its read and its
\* update: only a request that read the row while the secret was live is ever
\* answered with the content, and only after the secret is burned.
KeepsPromise == Promise!Spec

=============================================================================
