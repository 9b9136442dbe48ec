------------------------- MODULE SharedSecretsProofs -------------------------
(***************************************************************************)
(* Theorems about SharedSecrets, for every number of secrets, requests,    *)
(* users, passphrases and every clock bound.                               *)
(***************************************************************************)
EXTENDS SharedSecrets, TLAPS

-----------------------------------------------------------------------------
(* The inductive invariant.                                                *)

Born(s) == rows[s].stage \in {"stored", "deleted"}

\* a row that was never stored carries no mark
UnbornUnmarked == \A s \in Secrets: ~Born(s) => ~rows[s].viewed /\ ~rows[s].revoked

\* a request that read a row holds a born secret (its key columns are immutable)
ViewGrounded(v) ==
  /\ view[v].at = "idle" => view[v].secret = None /\ v \notin stamped
  /\ view[v].at \in {"check", "burn", "open", "content"} =>
       view[v].secret \in Secrets /\ Born(view[v].secret)
  /\ view[v].at \in {"burn", "open", "content"} =>
       PhraseMatches(v) /\ ~view[v].sawViewed /\ ~view[v].sawRevoked
  /\ view[v].at \in {"open", "content"} => rows[view[v].secret].viewed
  /\ v \in stamped =>
       view[v].secret \in Secrets /\ Born(view[v].secret) /\ PhraseMatches(v)

ViewsGrounded == \A v \in Views: ViewGrounded(v)

\* every mark has its author
MarksGrounded ==
  \A s \in Secrets:
    /\ rows[s].viewed => \E v \in stamped: view[v].secret = s
    /\ rows[s].revoked => \E r \in Revokes:
         revoke[r].secret = s /\ revoke[r].at \in {"write", "revoked", "failed", "lost"}
    /\ rows[s].stage = "deleted" => rows[s].viewed \/ rows[s].revoked \/ Expired(s)

\* a revocation in progress found a stored row
RevokesGrounded ==
  \A r \in Revokes: revoke[r].at = "write" => revoke[r].secret \in Secrets

\* a peek's copy only lags behind
PeekGrounded(k) ==
  LET s == peek[k].secret IN
    /\ peek[k].at \in {"report", "viewed", "revoked", "expired"} => s \in Secrets /\ Born(s)
    /\ peek[k].at = "report" /\ peek[k].sawViewed => rows[s].viewed
    /\ peek[k].at = "report" /\ peek[k].sawRevoked => rows[s].revoked
    /\ peek[k].at = "viewed" => rows[s].viewed
    /\ peek[k].at = "revoked" => rows[s].revoked
    /\ peek[k].at = "expired" => Expired(s)

PeeksGrounded == \A k \in Peeks: PeekGrounded(k)

IInv ==
  /\ TypeOK
  /\ UnbornUnmarked
  /\ ViewsGrounded
  /\ MarksGrounded
  /\ RevokesGrounded
  /\ PeeksGrounded

-----------------------------------------------------------------------------
(* Types.                                                                  *)

\* Every step keeps every column, request field and the clock in its type.
LEMMA TypeStep == TypeOK /\ [Next]_vars => TypeOK'
<1> SUFFICES ASSUME TypeOK, [Next]_vars PROVE TypeOK'
  OBVIOUS
<1> USE SecretsAssumption DEF TypeOK
<1>1. ASSUME NEW s \in Secrets, CreateStep(s) PROVE TypeOK'
  <2>1. ASSUME NEW u \in Users, NEW phrase \in Phrases \cup {None}, NEW ttl \in Ttls,
               CreateBegin(s, u, phrase, ttl)
        PROVE TypeOK'
    BY <2>1 DEF CreateBegin, Row, Stages
  <2>2. CASE CreateInsert(s)
    BY <2>2 DEF CreateInsert, Row, Stages
  <2>3. QED BY <1>1, <2>1, <2>2 DEF CreateStep
<1>2. ASSUME NEW v \in Views, ViewStep(v) PROVE TypeOK'
  <2>1. ASSUME NEW s \in Secrets, NEW phrase \in Phrases \cup {None}, ViewRead(v, s, phrase)
        PROVE TypeOK'
    BY <2>1 DEF ViewRead, View, ViewAnswers, Row
  <2>2. CASE ViewCheck(v)
    BY <2>2 DEF ViewCheck, ViewGoes, Refusal, View, ViewAnswers, Reasons
  <2>3. CASE ViewBurn(v)
    <3>1. rows' \in [Secrets -> Row]
      BY <2>3, ZenonT(60) DEF ViewBurn, Row
    <3>2. PICK at \in {"open", "failed"}: view' = [view EXCEPT ![v].at = at]
      BY <2>3 DEF ViewBurn, ViewGoes
    <3>3. view' \in [Views -> View]
      BY <3>2 DEF View, ViewAnswers
    <3>4. QED BY <2>3, <3>1, <3>3 DEF ViewBurn
  <2>4. CASE ViewFails(v)
    BY <2>4 DEF ViewFails, ViewGoes, View, ViewAnswers
  <2>5. CASE ViewOpen(v)
    BY <2>5 DEF ViewOpen, ViewGoes, View, ViewAnswers
  <2>6. QED BY <1>2, <2>1, <2>2, <2>3, <2>4, <2>5 DEF ViewStep
<1>3. ASSUME NEW k \in Peeks, PeekStep(k) PROVE TypeOK'
  <2>1. ASSUME NEW s \in Secrets, PeekRead(k, s) PROVE TypeOK'
    BY <2>1 DEF PeekRead, Peek, Row
  <2>2. CASE PeekReport(k)
    BY <2>2 DEF PeekReport, BurnReason, Peek, Reasons
  <2>3. CASE PeekFails(k)
    BY <2>3 DEF PeekFails, Peek
  <2>4. QED BY <1>3, <2>1, <2>2, <2>3 DEF PeekStep
<1>4. ASSUME NEW r \in Revokes, RevokeStep(r) PROVE TypeOK'
  <2>1. ASSUME NEW u \in Users, NEW s \in Secrets, RevokeRead(r, u, s) PROVE TypeOK'
    BY <2>1 DEF RevokeRead, Revoke
  <2>2. CASE RevokeWrite(r)
    <3>1. PICK at \in {"revoked", "failed"}: revoke' = [revoke EXCEPT ![r].at = at]
      BY <2>2 DEF RevokeWrite
    <3>2. revoke' \in [Revokes -> Revoke]
      BY <3>1 DEF Revoke
    <3>3. rows' = [rows EXCEPT ![revoke[r].secret].revoked = TRUE]
      BY <2>2 DEF RevokeWrite
    <3>4. rows' \in [Secrets -> Row]
      BY <3>3, ZenonT(60) DEF Row
    <3>5. QED BY <2>2, <3>2, <3>4 DEF RevokeWrite
  <2>3. CASE RevokeFails(r)
    BY <2>3 DEF RevokeFails, Revoke
  <2>4. QED BY <1>4, <2>1, <2>2, <2>3 DEF RevokeStep
<1>5. CASE Cleanup
  BY <1>5 DEF Cleanup, Row, Stages
<1>6. CASE Tick
  BY <1>6 DEF Tick
<1>7. CASE Crash
  <2>1. rows' \in [Secrets -> Row]
    BY <1>7, ZenonT(60) DEF Crash, Row, Stages
  <2>2. view' \in [Views -> View]
    BY <1>7 DEF Crash, View, ViewAnswers
  <2>3. peek' \in [Peeks -> Peek]
    BY <1>7 DEF Crash, Peek
  <2>4. revoke' \in [Revokes -> Revoke]
    BY <1>7 DEF Crash, Revoke
  <2>5. QED BY <1>7, <2>1, <2>2, <2>3, <2>4 DEF Crash
<1>8. CASE UNCHANGED vars
  BY <1>8 DEF vars
<1>9. QED BY <1>1, <1>2, <1>3, <1>4, <1>5, <1>6, <1>7, <1>8 DEF Next

\* The type invariant of the secrets service holds in every behaviour.
THEOREM TypeCorrect == Spec => []TypeOK
<1>1. Init => TypeOK
  BY DEF Init, TypeOK, Row, Stages, View, Peek, Revoke
<1>2. QED BY <1>1, TypeStep, PTL DEF Spec

-----------------------------------------------------------------------------
(* What a step does to the table, and to one request.                      *)

\* a born row keeps its key columns and its marks, and stays born
RowKept(s) ==
  Born(s) =>
    /\ Born(s)'
    /\ rows[s].stage = "deleted" => rows'[s].stage = "deleted"
    /\ rows'[s].phrase = rows[s].phrase
    /\ rows'[s].expiresAt = rows[s].expiresAt
    /\ rows[s].viewed => rows'[s].viewed
    /\ rows[s].revoked => rows'[s].revoked

\* No handler, cron or crash moves the clock back, unmarks a born row or rewrites
\* its passphrase or expiry.
LEMMA RowsAdvance ==
  ASSUME TypeOK, [Next]_vars
  PROVE  now' >= now /\ \A s \in Secrets: RowKept(s)
<1> USE DEF TypeOK, RowKept, Born
<1>0. ASSUME UNCHANGED <<now, rows>> PROVE now' >= now /\ \A s \in Secrets: RowKept(s)
  BY <1>0
<1>1. ASSUME NEW s \in Secrets, CreateStep(s)
      PROVE  now' >= now /\ \A x \in Secrets: RowKept(x)
  BY <1>1 DEF CreateStep, CreateBegin, CreateInsert, Row
<1>2. ASSUME NEW v \in Views, ViewStep(v)
      PROVE  now' >= now /\ \A x \in Secrets: RowKept(x)
  <2>1. CASE ViewBurn(v)
    <3>1. rows' = [rows EXCEPT ![view[v].secret].viewed = TRUE]
      BY <2>1 DEF ViewBurn
    <3>2. QED BY <2>1, <3>1 DEF ViewBurn, Row
  <2>2. CASE UNCHANGED <<now, rows>>
    BY <2>2, <1>0
  <2>3. QED BY <1>2, <2>1, <2>2 DEF ViewStep, ViewRead, ViewCheck, ViewFails, ViewOpen
<1>3. ASSUME NEW k \in Peeks, PeekStep(k)
      PROVE  now' >= now /\ \A x \in Secrets: RowKept(x)
  BY <1>0, <1>3 DEF PeekStep, PeekRead, PeekReport, PeekFails
<1>4. ASSUME NEW r \in Revokes, RevokeStep(r)
      PROVE  now' >= now /\ \A x \in Secrets: RowKept(x)
  <2>1. CASE RevokeWrite(r)
    <3>1. rows' = [rows EXCEPT ![revoke[r].secret].revoked = TRUE]
      BY <2>1 DEF RevokeWrite
    <3>2. QED BY <2>1, <3>1 DEF RevokeWrite, Row
  <2>2. CASE UNCHANGED <<now, rows>>
    BY <2>2, <1>0
  <2>3. QED BY <1>4, <2>1, <2>2 DEF RevokeStep, RevokeRead, RevokeFails
<1>5. CASE Cleanup
  BY <1>5 DEF Cleanup, Row, Dead, Stored
<1>6. CASE Tick
  BY <1>6 DEF Tick
<1>7. CASE Crash
  BY <1>7 DEF Crash, Row
<1>8. CASE UNCHANGED vars
  BY <1>8, <1>0 DEF vars
<1>9. QED BY <1>1, <1>2, <1>3, <1>4, <1>5, <1>6, <1>7, <1>8 DEF Next

\* Only a stored row is ever marked.
LEMMA UnbornStep == TypeOK /\ UnbornUnmarked /\ [Next]_vars => UnbornUnmarked'
<1> SUFFICES ASSUME TypeOK, UnbornUnmarked, [Next]_vars PROVE UnbornUnmarked'
  OBVIOUS
<1> USE DEF TypeOK, UnbornUnmarked, Born
<1>0. ASSUME UNCHANGED rows PROVE UnbornUnmarked'
  BY <1>0
<1>1. ASSUME NEW s \in Secrets, CreateStep(s) PROVE UnbornUnmarked'
  BY <1>1 DEF CreateStep, CreateBegin, CreateInsert, Row
<1>2. ASSUME NEW v \in Views, ViewStep(v) PROVE UnbornUnmarked'
  <2>1. CASE ViewBurn(v)
    <3>1. /\ rows' = [rows EXCEPT ![view[v].secret].viewed = TRUE]
          /\ rows[view[v].secret].stage = "stored"
      BY <2>1 DEF ViewBurn, Stored
    <3>2. QED BY <3>1 DEF Row
  <2>2. QED BY <1>0, <1>2, <2>1 DEF ViewStep, ViewRead, ViewCheck, ViewFails, ViewOpen
<1>3. ASSUME NEW k \in Peeks, PeekStep(k) PROVE UnbornUnmarked'
  BY <1>0, <1>3 DEF PeekStep, PeekRead, PeekReport, PeekFails
<1>4. ASSUME NEW r \in Revokes, RevokeStep(r) PROVE UnbornUnmarked'
  <2>1. CASE RevokeWrite(r)
    <3>1. /\ rows' = [rows EXCEPT ![revoke[r].secret].revoked = TRUE]
          /\ rows[revoke[r].secret].stage = "stored"
      BY <2>1 DEF RevokeWrite, Stored
    <3>2. QED BY <3>1 DEF Row
  <2>2. QED BY <1>0, <1>4, <2>1 DEF RevokeStep, RevokeRead, RevokeFails
<1>5. CASE Cleanup
  BY <1>5 DEF Cleanup, Row, Dead, Stored
<1>6. CASE Crash
  BY <1>6 DEF Crash, Row
<1>7. QED BY <1>0, <1>1, <1>2, <1>3, <1>4, <1>5, <1>6 DEF Next, Tick, vars

-----------------------------------------------------------------------------
(* Requests keep their footing while rows advance under them.              *)

\* A request that does not move itself stays grounded whatever the others do.
LEMMA IdleViewStep ==
  ASSUME TypeOK, [Next]_vars, NEW v \in Views, ViewGrounded(v),
         view'[v] = view[v], v \in stamped' => v \in stamped
  PROVE  ViewGrounded(v)'
<1>1. ASSUME view[v].secret \in Secrets, Born(view[v].secret)
      PROVE  /\ Born(view[v].secret)'
             /\ PhraseMatches(v) => PhraseMatches(v)'
             /\ rows[view[v].secret].viewed => rows'[view[v].secret].viewed
  BY <1>1, RowsAdvance DEF RowKept, Born, PhraseMatches
<1>2. QED BY <1>1 DEF ViewGrounded, Born, TypeOK, View, PhraseMatches

\* Each viewSecret step leaves its request with a born secret, the right
\* passphrase from the check on, and a stamped row from the update on.
LEMMA ViewsStep == TypeOK /\ ViewsGrounded /\ [Next]_vars => ViewsGrounded'
<1> SUFFICES ASSUME TypeOK, ViewsGrounded, [Next]_vars, NEW w \in Views
             PROVE  ViewGrounded(w)'
  BY DEF ViewsGrounded
<1>0. CASE view'[w] = view[w] /\ (w \in stamped' => w \in stamped)
  BY <1>0, IdleViewStep DEF ViewsGrounded
<1>1. ASSUME NEW v \in Views, ViewStep(v) PROVE ViewGrounded(w)'
  <2>1. CASE w # v
    BY <2>1, <1>0, <1>1 DEF ViewStep, ViewRead, ViewCheck, ViewBurn, ViewFails, ViewOpen,
                            ViewGoes, TypeOK
  <2> SUFFICES ASSUME w = v PROVE ViewGrounded(v)'
    BY <2>1
  <2> USE DEF TypeOK, View, ViewGrounded, Born, PhraseMatches
  <2>2. ASSUME NEW s \in Secrets, NEW phrase \in Phrases \cup {None}, ViewRead(v, s, phrase)
        PROVE  ViewGrounded(v)'
    BY <2>2 DEF ViewRead, Stored, ViewsGrounded
  <2>3. CASE ViewCheck(v)
    BY <2>3 DEF ViewCheck, ViewGoes, Refusal, ViewsGrounded
  <2>4. CASE ViewBurn(v)
    <3>1. PICK at \in {"open", "failed"}: view' = [view EXCEPT ![v].at = at]
      BY <2>4 DEF ViewBurn, ViewGoes
    <3>2. /\ view[v].at = "burn"
          /\ rows[view[v].secret].stage = "stored"
          /\ rows' = [rows EXCEPT ![view[v].secret].viewed = TRUE]
      BY <2>4 DEF ViewBurn, Stored
    <3>3. view[v].secret \in Secrets /\ Born(view[v].secret) /\ PhraseMatches(v)
          /\ ~view[v].sawViewed /\ ~view[v].sawRevoked
      BY <3>2 DEF ViewsGrounded
    <3>4. rows'[view[v].secret] = [rows[view[v].secret] EXCEPT !.viewed = TRUE]
      BY <3>2, <3>3
    <3>5. /\ rows'[view[v].secret].viewed
          /\ rows'[view[v].secret].stage = "stored"
          /\ rows'[view[v].secret].phrase = rows[view[v].secret].phrase
      BY <3>2, <3>3, <3>4 DEF Row
    <3>6. /\ view'[v].secret = view[v].secret /\ view'[v].phrase = view[v].phrase
          /\ view'[v].at = at
          /\ view'[v].sawViewed = view[v].sawViewed /\ view'[v].sawRevoked = view[v].sawRevoked
      BY <3>1
    <3>7. QED BY <3>3, <3>5, <3>6
  <2>5. CASE ViewFails(v)
    BY <2>5 DEF ViewFails, ViewGoes, ViewsGrounded
  <2>6. CASE ViewOpen(v)
    BY <2>6 DEF ViewOpen, ViewGoes, ViewsGrounded
  <2>7. QED BY <1>1, <2>2, <2>3, <2>4, <2>5, <2>6 DEF ViewStep
<1>2. CASE Crash
  <2>1. CASE view[w].at \in {"check", "burn", "open"}
    <3>1. /\ view'[w] = [view[w] EXCEPT !.at = "lost"]
          /\ stamped' = stamped
      BY <1>2, <2>1 DEF Crash
    <3>2. w \in stamped => view[w].secret \in Secrets /\ Born(view[w].secret) /\ PhraseMatches(w)
      BY DEF ViewsGrounded, ViewGrounded
    <3>3. w \in stamped =>
            /\ rows'[view[w].secret].stage \in {"stored", "deleted"}
            /\ rows'[view[w].secret].phrase = rows[view[w].secret].phrase
      BY <3>2, RowsAdvance DEF RowKept, Born
    <3>4. /\ view'[w].at = "lost" /\ view'[w].secret = view[w].secret
          /\ view'[w].phrase = view[w].phrase
      BY <3>1 DEF TypeOK, View
    <3>5. QED BY <3>1, <3>2, <3>3, <3>4 DEF ViewGrounded, PhraseMatches, Born
  <2>2. CASE view[w].at \notin {"check", "burn", "open"}
    BY <1>0, <1>2, <2>2 DEF Crash
  <2>3. QED BY <2>1, <2>2
<1>3. QED
  BY <1>0, <1>1, <1>2 DEF Next, CreateStep, CreateBegin, CreateInsert, PeekStep, PeekRead,
     PeekReport, PeekFails, RevokeStep, RevokeRead, RevokeWrite, RevokeFails, Cleanup, Tick, vars

\* A revocation that goes on to its update found the row.
LEMMA RevokesStep == TypeOK /\ RevokesGrounded /\ [Next]_vars => RevokesGrounded'
<1> SUFFICES ASSUME TypeOK, RevokesGrounded, [Next]_vars PROVE RevokesGrounded'
  OBVIOUS
<1> USE DEF TypeOK, RevokesGrounded, Revoke
<1>1. ASSUME NEW r \in Revokes, NEW u \in Users, NEW s \in Secrets, RevokeRead(r, u, s)
      PROVE  RevokesGrounded'
  BY <1>1 DEF RevokeRead
<1>2. ASSUME NEW r \in Revokes, RevokeWrite(r) PROVE RevokesGrounded'
  <2>1. PICK at \in {"revoked", "failed"}: revoke' = [revoke EXCEPT ![r].at = at]
    BY <1>2 DEF RevokeWrite
  <2>2. QED BY <2>1
<1>3. ASSUME NEW r \in Revokes, RevokeFails(r) PROVE RevokesGrounded'
  BY <1>3 DEF RevokeFails
<1>4. CASE Crash
  BY <1>4 DEF Crash
<1>5. CASE UNCHANGED revoke
  BY <1>5
<1>6. QED
  BY <1>1, <1>2, <1>3, <1>4, <1>5 DEF Next, CreateStep, CreateBegin, CreateInsert, ViewStep,
     ViewRead, ViewCheck, ViewBurn, ViewFails, ViewOpen, PeekStep, PeekRead, PeekReport,
     PeekFails, RevokeStep, Cleanup, Tick, vars

\* A peek that waits keeps a copy that only lags behind the row.
LEMMA IdlePeekStep ==
  ASSUME TypeOK, [Next]_vars, NEW k \in Peeks, PeekGrounded(k), peek'[k] = peek[k]
  PROVE  PeekGrounded(k)'
<1>1. ASSUME peek[k].secret \in Secrets, Born(peek[k].secret)
      PROVE  /\ rows'[peek[k].secret].stage \in {"stored", "deleted"}
             /\ rows[peek[k].secret].viewed => rows'[peek[k].secret].viewed
             /\ rows[peek[k].secret].revoked => rows'[peek[k].secret].revoked
             /\ Expired(peek[k].secret) => now' > rows'[peek[k].secret].expiresAt
  <2>1. rows[peek[k].secret].expiresAt \in Nat /\ now \in Nat /\ now' \in Nat
    BY <1>1, TypeStep DEF TypeOK, Row
  <2>2. now' >= now /\ RowKept(peek[k].secret)
    BY <1>1, RowsAdvance
  <2>3. QED BY <1>1, <2>1, <2>2 DEF RowKept, Born, Expired
<1>2. QED BY <1>1 DEF PeekGrounded, Born, Expired

\* peekSecret's report is true of the row now, whatever its copy said.
LEMMA PeeksStep == TypeOK /\ PeeksGrounded /\ [Next]_vars => PeeksGrounded'
<1> SUFFICES ASSUME TypeOK, PeeksGrounded, [Next]_vars, NEW j \in Peeks
             PROVE  PeekGrounded(j)'
  BY DEF PeeksGrounded
<1>0. CASE peek'[j] = peek[j]
  BY <1>0, IdlePeekStep DEF PeeksGrounded
<1>1. ASSUME NEW k \in Peeks, PeekStep(k) PROVE PeekGrounded(j)'
  <2>1. CASE j # k
    BY <2>1, <1>0, <1>1 DEF PeekStep, PeekRead, PeekReport, PeekFails, TypeOK
  <2> SUFFICES ASSUME j = k PROVE PeekGrounded(k)'
    BY <2>1
  <2> USE DEF TypeOK, Peek, PeekGrounded, Born
  <2>2. ASSUME NEW s \in Secrets, PeekRead(k, s) PROVE PeekGrounded(k)'
    BY <2>2 DEF PeekRead, Stored, Row
  <2>3. CASE PeekReport(k)
    BY <2>3 DEF PeekReport, BurnReason, PeeksGrounded, Expired
  <2>4. CASE PeekFails(k)
    BY <2>4 DEF PeekFails
  <2>5. QED BY <1>1, <2>2, <2>3, <2>4 DEF PeekStep
<1>2. CASE Crash
  <2>1. CASE peek[j].at = "report"
    BY <1>2, <2>1 DEF Crash, PeekGrounded, TypeOK, Peek
  <2>2. CASE peek[j].at # "report"
    BY <1>0, <1>2, <2>2 DEF Crash
  <2>3. QED BY <2>1, <2>2
<1>3. QED
  BY <1>0, <1>1, <1>2 DEF Next, CreateStep, CreateBegin, CreateInsert, ViewStep, ViewRead,
     ViewCheck, ViewBurn, ViewFails, ViewOpen, RevokeStep, RevokeRead, RevokeWrite,
     RevokeFails, Cleanup, Tick, vars

\* A request that stamped a row stays on record as having done so.
LEMMA StampedKept ==
  ASSUME TypeOK, ViewsGrounded, [Next]_vars, NEW v \in stamped
  PROVE  v \in stamped' /\ view'[v].secret = view[v].secret
<1> USE DEF TypeOK, View
<1>1. view[v].at # "idle"
  BY DEF ViewsGrounded, ViewGrounded
<1>2. ASSUME NEW w \in Views, ViewStep(w)
      PROVE  v \in stamped' /\ view'[v].secret = view[v].secret
  <2>1. ASSUME NEW at, ViewGoes(w, at) PROVE view'[v].secret = view[v].secret
    BY <2>1 DEF ViewGoes
  <2>2. CASE ViewBurn(w)
    BY <2>1, <2>2 DEF ViewBurn
  <2>3. QED
    BY <1>1, <1>2, <2>1, <2>2 DEF ViewStep, ViewRead, ViewCheck, ViewFails, ViewOpen
<1>3. CASE Crash
  BY <1>3 DEF Crash
<1>4. QED
  BY <1>2, <1>3 DEF Next, CreateStep, CreateBegin, CreateInsert, PeekStep, PeekRead,
     PeekReport, PeekFails, RevokeStep, RevokeRead, RevokeWrite, RevokeFails, Cleanup, Tick, vars

\* A revocation that found its row keeps it.
FoundRow(r) == revoke[r].at \in {"write", "revoked", "failed", "lost"}

LEMMA RevokeKept ==
  ASSUME TypeOK, [Next]_vars, NEW r \in Revokes, FoundRow(r), revoke[r].secret \in Secrets
  PROVE  FoundRow(r)' /\ revoke'[r].secret = revoke[r].secret
<1> USE DEF TypeOK, Revoke, FoundRow
<1>1. ASSUME NEW q \in Revokes, RevokeStep(q)
      PROVE  FoundRow(r)' /\ revoke'[r].secret = revoke[r].secret
  <2>1. CASE RevokeWrite(q)
    <3>1. PICK at \in {"revoked", "failed"}: revoke' = [revoke EXCEPT ![q].at = at]
      BY <2>1 DEF RevokeWrite
    <3>2. QED BY <3>1
  <2>2. CASE RevokeFails(q)
    BY <2>2 DEF RevokeFails
  <2>3. QED BY <1>1, <2>1, <2>2 DEF RevokeStep, RevokeRead
<1>2. CASE Crash
  BY <1>2 DEF Crash
<1>3. QED
  BY <1>1, <1>2 DEF Next, CreateStep, CreateBegin, CreateInsert, ViewStep, ViewRead, ViewCheck,
     ViewBurn, ViewFails, ViewOpen, PeekStep, PeekRead, PeekReport, PeekFails, Cleanup, Tick, vars

\* A mark that a step adds to a row has an author; a deletion has a cause.
LEMMA NewMarks ==
  ASSUME TypeOK, ViewsGrounded, RevokesGrounded, [Next]_vars, NEW s \in Secrets
  PROVE  /\ rows'[s].viewed => rows[s].viewed \/ \E v \in stamped': view'[v].secret = s
         /\ rows'[s].revoked => rows[s].revoked
                                \/ \E r \in Revokes: FoundRow(r)' /\ revoke'[r].secret = s
         /\ rows'[s].stage = "deleted" => rows[s].stage = "deleted" \/ Dead(s)
<1> DEFINE G == /\ rows'[s].viewed => rows[s].viewed \/ \E v \in stamped': view'[v].secret = s
                /\ rows'[s].revoked => rows[s].revoked
                                       \/ \E r \in Revokes: FoundRow(r)' /\ revoke'[r].secret = s
                /\ rows'[s].stage = "deleted" => rows[s].stage = "deleted" \/ Dead(s)
<1> SUFFICES G
  OBVIOUS
<1> USE DEF TypeOK, Row
<1>0. CASE UNCHANGED rows
  BY <1>0
<1>1. ASSUME NEW x \in Secrets, CreateStep(x) PROVE G
  BY <1>1 DEF CreateStep, CreateBegin, CreateInsert
<1>2. ASSUME NEW v \in Views, ViewBurn(v) PROVE G
  <2>1. PICK at \in {"open", "failed"}: view' = [view EXCEPT ![v].at = at]
    BY <1>2 DEF ViewBurn, ViewGoes
  <2>2. /\ rows' = [rows EXCEPT ![view[v].secret].viewed = TRUE]
        /\ v \in stamped'
        /\ view'[v].secret = view[v].secret
    BY <1>2, <2>1 DEF ViewBurn, View
  <2>3. QED BY <2>2
<1>3. ASSUME NEW r \in Revokes, RevokeWrite(r) PROVE G
  <2>1. PICK at \in {"revoked", "failed"}: revoke' = [revoke EXCEPT ![r].at = at]
    BY <1>3 DEF RevokeWrite
  <2>2. /\ rows' = [rows EXCEPT ![revoke[r].secret].revoked = TRUE]
        /\ revoke'[r].secret = revoke[r].secret
        /\ FoundRow(r)'
    BY <1>3, <2>1 DEF RevokeWrite, Revoke, FoundRow
  <2>3. QED BY <2>2
<1>4. CASE Cleanup
  BY <1>4 DEF Cleanup
<1>5. CASE Crash
  BY <1>5 DEF Crash
<1>6. QED
  BY <1>0, <1>1, <1>2, <1>3, <1>4, <1>5 DEF Next, ViewStep, ViewRead, ViewCheck, ViewFails,
     ViewOpen, PeekStep, PeekRead, PeekReport, PeekFails, RevokeStep, RevokeRead, RevokeFails,
     Tick, vars

\* Every mark has its author, every deletion its cause, after every step.
LEMMA MarksStep ==
  TypeOK /\ ViewsGrounded /\ RevokesGrounded /\ MarksGrounded /\ [Next]_vars => MarksGrounded'
<1> SUFFICES ASSUME TypeOK, ViewsGrounded, RevokesGrounded, MarksGrounded, [Next]_vars,
                    NEW s \in Secrets
             PROVE  /\ rows'[s].viewed => \E v \in stamped': view'[v].secret = s
                    /\ rows'[s].revoked =>
                         \E r \in Revokes: FoundRow(r)' /\ revoke'[r].secret = s
                    /\ rows'[s].stage = "deleted" =>
                         rows'[s].viewed \/ rows'[s].revoked \/ now' > rows'[s].expiresAt
  BY DEF MarksGrounded, FoundRow, Expired
<1>1. ASSUME rows[s].viewed PROVE \E v \in stamped': view'[v].secret = s
  BY <1>1, StampedKept DEF MarksGrounded
<1>2. ASSUME rows[s].revoked PROVE \E r \in Revokes: FoundRow(r)' /\ revoke'[r].secret = s
  BY <1>2, RevokeKept DEF MarksGrounded, FoundRow
<1>3. ASSUME rows[s].stage = "deleted" \/ Dead(s)
      PROVE  rows'[s].viewed \/ rows'[s].revoked \/ now' > rows'[s].expiresAt
  <2>1. Born(s) /\ (rows[s].viewed \/ rows[s].revoked \/ now > rows[s].expiresAt)
    BY <1>3 DEF MarksGrounded, Dead, Stored, Born, Expired
  <2>2. rows[s].expiresAt \in Nat /\ now \in Nat /\ now' \in Nat
    BY TypeStep DEF TypeOK, Row
  <2>3. now' >= now /\ RowKept(s)
    BY RowsAdvance
  <2>4. QED BY <2>1, <2>2, <2>3 DEF RowKept
<1>4. QED BY <1>1, <1>2, <1>3, NewMarks

-----------------------------------------------------------------------------
(* The invariant, and what follows from it.                                *)

\* The strengthening holds in every state.
LEMMA Invariant == Spec => []IInv
<1>1. Init => IInv
  BY DEF Init, IInv, TypeOK, Row, Stages, View, Peek, Revoke, UnbornUnmarked, Born, ViewsGrounded,
         ViewGrounded, MarksGrounded, RevokesGrounded, PeeksGrounded, PeekGrounded
<1>2. IInv /\ [Next]_vars => IInv'
  BY TypeStep, UnbornStep, ViewsStep, MarksStep, RevokesStep, PeeksStep DEF IInv
<1>3. QED BY <1>1, <1>2, PTL DEF Spec

\* viewSecret never holds plaintext of a row it has not stamped, nor without the
\* right passphrase.
THEOREM StampPrecedesOpening == Spec => []BurnedBeforeOpened
<1>1. IInv => BurnedBeforeOpened
  BY DEF IInv, ViewsGrounded, ViewGrounded, BurnedBeforeOpened
<1>2. QED BY <1>1, Invariant, PTL

\* A secret is used up or erased only by a recipient who knew the passphrase, a
\* revocation, or its age.
THEOREM NothingLostSilently == Spec => []NoSilentLoss
<1>1. IInv => NoSilentLoss
  <2> SUFFICES ASSUME IInv, NEW s \in Secrets, rows[s].viewed \/ rows[s].stage = "deleted"
               PROVE  \/ \E v \in stamped: view[v].secret = s /\ PhraseMatches(v)
                      \/ rows[s].revoked /\ \E r \in Revokes:
                           revoke[r].secret = s /\ revoke[r].at # "notFound"
                      \/ Expired(s)
    BY DEF NoSilentLoss
  <2>1. \A v \in stamped: PhraseMatches(v)
    BY DEF IInv, TypeOK, ViewsGrounded, ViewGrounded
  <2>2. CASE rows[s].viewed
    BY <2>1, <2>2 DEF IInv, MarksGrounded
  <2>3. CASE rows[s].revoked
    BY <2>3 DEF IInv, MarksGrounded
  <2>4. QED BY <2>2, <2>3 DEF IInv, MarksGrounded
<1>2. QED BY <1>1, Invariant, PTL

\* What peekSecret reported burned is burned.
THEOREM PeekIsTruthful == Spec => []PeekNeverLies
<1>1. IInv => PeekNeverLies
  BY DEF IInv, PeeksGrounded, PeekGrounded, PeekNeverLies
<1>2. QED BY <1>1, Invariant, PTL

\* No step takes back a view, a revocation or an erasure.
THEOREM BurningIsFinal == Spec => BurnIsForever
<1>1. IInv /\ [Next]_vars =>
        [\A s \in Secrets:
           /\ rows[s].viewed => rows'[s].viewed
           /\ rows[s].revoked => rows'[s].revoked
           /\ rows[s].stage = "deleted" => rows'[s].stage = "deleted"]_vars
  <2> SUFFICES ASSUME IInv, [Next]_vars, NEW s \in Secrets
               PROVE  /\ rows[s].viewed => rows'[s].viewed
                      /\ rows[s].revoked => rows'[s].revoked
                      /\ rows[s].stage = "deleted" => rows'[s].stage = "deleted"
    OBVIOUS
  <2>1. CASE Born(s)
    BY <2>1, RowsAdvance DEF IInv, RowKept
  <2>2. CASE ~Born(s)
    BY <2>2 DEF IInv, UnbornUnmarked, Born
  <2>3. QED BY <2>1, <2>2
<1>2. QED BY <1>1, Invariant, PTL DEF Spec, BurnIsForever

-----------------------------------------------------------------------------
(* The service implements the one-time secret.                             *)

\* Steps that leave every request's progress alone leave holders and given alone.
LEMMA SameView == ASSUME view' = view PROVE Holders' = Holders /\ Given' = Given
  BY DEF Holders, Given

\* The status of a secret depends on its row only.
LEMMA SameRows == ASSUME rows' = rows PROVE Status' = Status
  BY DEF Status, Readable, Stored

\* A request of the secrets service that does not read, stamp or open changes no
\* holder and gives nothing.
LEMMA QuietView ==
  ASSUME TypeOK, NEW v \in Views, NEW at,
         view' = [view EXCEPT ![v].at = at],
         view[v].secret = None \/ (view[v].at # "notFound" /\ at # "notFound"),
         view[v].at # "content", at # "content"
  PROVE  Holders' = Holders /\ Given' = Given
<1>1. ASSUME NEW s \in Secrets, NEW w \in Views
      PROVE  /\ w \in Holders[s] <=> w \in Holders'[s]
             /\ w \in Given[s] <=> w \in Given'[s]
  <2>1. CASE w = v
    BY <2>1, SecretsAssumption DEF TypeOK, View, Holders, Given
  <2>2. CASE w # v
    BY <2>2 DEF TypeOK, View, Holders, Given
  <2>3. QED BY <2>1, <2>2
<1>2. \A s \in Secrets: Holders[s] = Holders'[s] /\ Given[s] = Given'[s]
  BY <1>1 DEF Holders, Given
<1>3. QED BY <1>2 DEF Holders, Given

\* The initial states map to initial states of OneTimeSecret.
LEMMA PromiseInit == Init => Promise!Init
  BY SecretsAssumption DEF Init, Promise!Init, Status, Holders, Given

\* createSecret's insert makes the secret; its other steps are invisible.
LEMMA CreateImplements ==
  ASSUME IInv, NEW s \in Secrets, CreateStep(s)
  PROVE  Promise!Make(s) \/ UNCHANGED Promise!vars
<1>1. Holders' = Holders /\ Given' = Given
  BY SameView DEF CreateStep, CreateBegin, CreateInsert
<1>2. CASE CreateInsert(s) /\ rows'[s].stage = "stored"
  <2>1. rows' = [rows EXCEPT ![s].stage = "stored"]
    BY <1>2 DEF CreateInsert, IInv, TypeOK, Row
  <2>2. ~rows[s].viewed /\ ~rows[s].revoked /\ rows[s].stage = "drafted"
    BY <1>2 DEF CreateInsert, IInv, UnbornUnmarked, Born
  <2>3. Status[s] = "unborn"
    BY <2>2 DEF Status
  <2>4. Status' = [Status EXCEPT ![s] = "live"]
    BY <2>1, <2>2 DEF Status, Readable, Stored, IInv, TypeOK, Row
  <2>5. QED BY <1>1, <2>3, <2>4 DEF Promise!Make
<1>3. CASE ~(CreateInsert(s) /\ rows'[s].stage = "stored")
  <2>1. Status' = Status
    BY <1>3 DEF CreateStep, CreateBegin, CreateInsert, Status, Readable, Stored, IInv, TypeOK, Row
  <2>2. QED BY <1>1, <2>1 DEF Promise!vars
<1>4. QED BY <1>2, <1>3

\* Marking a stored row burns its secret, if it was not burned yet.
LEMMA MarkBurns ==
  ASSUME IInv, NEW s \in Secrets, Stored(s), Holders' = Holders, Given' = Given,
         \/ rows' = [rows EXCEPT ![s].viewed = TRUE]
         \/ rows' = [rows EXCEPT ![s].revoked = TRUE]
  PROVE  Promise!Burn({s}) \/ UNCHANGED Promise!vars
<1>1. rows'[s].stage = "stored" /\ (rows'[s].viewed \/ rows'[s].revoked)
  BY DEF IInv, TypeOK, Row, Stored
<1>2. \A x \in Secrets \ {s}: rows'[x] = rows[x]
  BY DEF IInv, TypeOK
<1>3. Status' = [x \in Secrets |-> IF x \in {s} THEN "burned" ELSE Status[x]]
  BY <1>1, <1>2 DEF Status, Readable, Stored
<1>4. Status[s] = "live" \/ Status[s] = "burned"
  BY DEF Status, Stored
<1>5. CASE Status[s] = "live"
  BY <1>3, <1>5 DEF Promise!Burn
<1>6. CASE Status[s] = "burned"
  <2>1. Status' = Status
    BY <1>3, <1>6 DEF Status
  <2>2. QED BY <2>1 DEF Promise!vars
<1>7. QED BY <1>4, <1>5, <1>6

\* viewSecret: reading a live row takes hold of the secret, the stamp burns it,
\* the answer gives it to a holder.
LEMMA ViewImplements ==
  ASSUME IInv, NEW v \in Views, ViewStep(v)
  PROVE  Promise!Next \/ UNCHANGED Promise!vars
<1> USE DEF IInv, TypeOK
<1>1. ASSUME NEW s \in Secrets, NEW phrase \in Phrases \cup {None}, ViewRead(v, s, phrase)
      PROVE  Promise!Hold(s, v) \/ UNCHANGED Promise!vars
  <2>1. Status' = Status
    BY <1>1, SameRows DEF ViewRead
  <2>2. view[v].secret = None /\ view[v].at = "idle"
    BY <1>1 DEF ViewRead, ViewsGrounded, ViewGrounded
  <2>3. \A w \in Views \ {v}: view'[w] = view[w]
    BY <1>1 DEF ViewRead
  <2>4. /\ view'[v].secret = s
        /\ view'[v].at = IF Stored(s) THEN "check" ELSE "notFound"
        /\ view'[v].sawViewed = rows[s].viewed
        /\ view'[v].sawRevoked = rows[s].revoked
    BY <1>1 DEF ViewRead
  <2>5. Given' = Given
    <3>1. \A x \in Secrets, w \in Views: w \in Given[x] <=> w \in Given'[x]
      BY <2>2, <2>3, <2>4, SecretsAssumption DEF Given
    <3>2. QED BY <3>1 DEF Given
  <2>6. CASE Readable(s)
    <3>1. Status[s] = "live"
      BY <2>6 DEF Status, Readable, Stored
    <3>2. \A x \in Secrets, w \in Views:
            w \in Holders'[x] <=> w \in Holders[x] \/ (x = s /\ w = v)
      BY <2>2, <2>3, <2>4, <2>6, SecretsAssumption DEF Holders, Readable
    <3>3. \A x \in Secrets: Holders'[x] = IF x = s THEN Holders[s] \cup {v} ELSE Holders[x]
      BY <3>2 DEF Holders
    <3>4. Holders' = [Holders EXCEPT ![s] = @ \cup {v}]
      BY <3>3 DEF Holders
    <3>5. QED BY <2>1, <2>5, <3>1, <3>4 DEF Promise!Hold
  <2>7. CASE ~Readable(s)
    <3>1. \A x \in Secrets, w \in Views: w \in Holders'[x] <=> w \in Holders[x]
      BY <2>2, <2>3, <2>4, <2>7, SecretsAssumption DEF Holders, Readable
    <3>2. Holders' = Holders
      BY <3>1 DEF Holders
    <3>3. QED BY <2>1, <2>5, <3>2 DEF Promise!vars
  <2>8. QED BY <2>6, <2>7
<1>2. CASE ViewCheck(v)
  <2>1. Refusal(v) \notin {"content", "notFound"} /\ view[v].at = "check"
    BY <1>2 DEF ViewCheck, Refusal
  <2> DEFINE at == IF Refusal(v) = "none" THEN "burn" ELSE Refusal(v)
  <2>2. view' = [view EXCEPT ![v].at = at] /\ at \notin {"content", "notFound"}
    BY <1>2, <2>1 DEF ViewCheck, ViewGoes
  <2> HIDE DEF at
  <2>3. Holders' = Holders /\ Given' = Given
    BY <2>1, <2>2, QuietView
  <2>4. QED BY <1>2, <2>3, SameRows DEF ViewCheck, Promise!vars
<1>3. CASE ViewBurn(v)
  <2>1. PICK at \in {"open", "failed"}: view' = [view EXCEPT ![v].at = at]
    BY <1>3 DEF ViewBurn, ViewGoes
  <2>2. /\ view[v].at = "burn" /\ view[v].secret \in Secrets /\ Stored(view[v].secret)
        /\ rows' = [rows EXCEPT ![view[v].secret].viewed = TRUE]
    BY <1>3 DEF ViewBurn, ViewsGrounded, ViewGrounded
  <2>3. Holders' = Holders /\ Given' = Given
    BY <2>1, <2>2, QuietView
  <2>4. Promise!Burn({view[v].secret}) \/ UNCHANGED Promise!vars
    BY <2>2, <2>3, MarkBurns
  <2>5. QED BY <2>2, <2>4 DEF Promise!Next
<1>4. CASE ViewFails(v)
  <2>1. /\ view' = [view EXCEPT ![v].at = "failed"]
        /\ view[v].at \in {"idle", "burn"}
    BY <1>4 DEF ViewFails, ViewGoes
  <2>2. Holders' = Holders /\ Given' = Given
    BY <2>1, QuietView
  <2>3. QED BY <1>4, <2>2, SameRows DEF ViewFails, Promise!vars
<1>5. CASE ViewOpen(v)
  <2> DEFINE s == view[v].secret
  <2>1. /\ s \in Secrets /\ Born(s) /\ rows[s].viewed
        /\ ~view[v].sawViewed /\ ~view[v].sawRevoked /\ view[v].at = "open"
        /\ view' = [view EXCEPT ![v].at = "content"]
    BY <1>5 DEF ViewOpen, ViewGoes, ViewsGrounded, ViewGrounded
  <2>2. Status' = Status
    BY <1>5, SameRows DEF ViewOpen
  <2>3. Status[s] = "burned" /\ v \in Holders[s]
    BY <2>1 DEF Status, Holders, Born, Readable
  <2>4. \A x \in Secrets, w \in Views:
          /\ w \in Holders'[x] <=> w \in Holders[x]
          /\ w \in Given'[x] <=> w \in Given[x] \/ (x = s /\ w = v)
    <3> SUFFICES ASSUME NEW x \in Secrets, NEW w \in Views
                 PROVE  /\ w \in Holders'[x] <=> w \in Holders[x]
                        /\ w \in Given'[x] <=> w \in Given[x] \/ (x = s /\ w = v)
      OBVIOUS
    <3>1. CASE w = v
      BY <2>1, <3>1 DEF Holders, Given, View
    <3>2. CASE w # v
      BY <2>1, <3>2 DEF Holders, Given, View
    <3>3. QED BY <3>1, <3>2
  <2>5. Holders' = Holders
    BY <2>4 DEF Holders
  <2>6. Given' = [Given EXCEPT ![s] = @ \cup {v}]
    <3>1. \A x \in Secrets: Given'[x] = IF x = s THEN Given[s] \cup {v} ELSE Given[x]
      BY <2>4 DEF Given
    <3>2. QED BY <2>1, <3>1 DEF Given
  <2>7. Promise!Give(s, v)
    BY <2>2, <2>3, <2>5, <2>6 DEF Promise!Give
  <2>8. QED BY <2>1, <2>7 DEF Promise!Next
<1>6. QED BY <1>1, <1>2, <1>3, <1>4, <1>5 DEF ViewStep, Promise!Next

\* revokeSecret burns the secret, and nothing else of it shows.
LEMMA RevokeImplements ==
  ASSUME IInv, NEW r \in Revokes, RevokeStep(r)
  PROVE  Promise!Next \/ UNCHANGED Promise!vars
<1>1. Holders' = Holders /\ Given' = Given
  BY SameView DEF RevokeStep, RevokeRead, RevokeWrite, RevokeFails
<1>2. CASE RevokeWrite(r)
  <2>1. /\ revoke[r].secret \in Secrets /\ Stored(revoke[r].secret)
        /\ rows' = [rows EXCEPT ![revoke[r].secret].revoked = TRUE]
    BY <1>2 DEF RevokeWrite, IInv, RevokesGrounded
  <2>2. QED BY <1>1, <2>1, MarkBurns DEF Promise!Next
<1>3. CASE UNCHANGED rows
  BY <1>1, <1>3, SameRows DEF Promise!vars
<1>4. QED BY <1>2, <1>3 DEF RevokeStep, RevokeRead, RevokeFails

\* cleanupBurnedSecrets burns the secrets it erases for their age alone.
LEMMA CleanupImplements ==
  ASSUME IInv, Cleanup
  PROVE  Promise!Next \/ UNCHANGED Promise!vars
<1> DEFINE S == {s \in Secrets: Dead(s) /\ Readable(s)}
<1>1. Holders' = Holders /\ Given' = Given
  BY SameView DEF Cleanup
<1>2. \A s \in S: Status[s] = "live"
  BY DEF Status, Readable, Stored
<1>3. \A s \in Secrets: Status'[s] = IF s \in S THEN "burned" ELSE Status[s]
  BY DEF Status, Readable, Stored, Dead, Cleanup, IInv, TypeOK, Row
<1>4. Status' = [s \in Secrets |-> IF s \in S THEN "burned" ELSE Status[s]]
  BY <1>3 DEF Status
<1>5. Promise!Burn(S)
  BY <1>1, <1>2, <1>4 DEF Promise!Burn
<1>6. QED BY <1>5 DEF Promise!Next

\* A crash loses requests and drafts: no holder is added, nothing is given.
LEMMA CrashImplements == ASSUME IInv, Crash PROVE UNCHANGED Promise!vars
<1> USE DEF IInv, TypeOK
<1>1. Status' = Status
  BY DEF Crash, Status, Readable, Stored, Row
<1>2. \A s \in Secrets, v \in Views:
        /\ v \in Holders'[s] <=> v \in Holders[s]
        /\ v \in Given'[s] <=> v \in Given[s]
  BY DEF Crash, Holders, Given, View
<1>3. Holders' = Holders /\ Given' = Given
  BY <1>2 DEF Holders, Given
<1>4. QED BY <1>1, <1>3 DEF Promise!vars

\* Every behaviour of the service is one of the one-time secret: whoever gets the
\* content took hold of the secret while it was live, before anybody burned it.
THEOREM Implements == Spec => KeepsPromise
<1>1. IInv /\ [Next]_vars => [Promise!Next]_Promise!vars
  <2> SUFFICES ASSUME IInv, [Next]_vars PROVE [Promise!Next]_Promise!vars
    OBVIOUS
  <2>1. ASSUME NEW s \in Secrets, CreateStep(s) PROVE Promise!Next \/ UNCHANGED Promise!vars
    BY <2>1, CreateImplements DEF Promise!Next
  <2>2. ASSUME NEW k \in Peeks, PeekStep(k) PROVE UNCHANGED Promise!vars
    BY <2>2, SameView, SameRows DEF PeekStep, PeekRead, PeekReport, PeekFails, Promise!vars
  <2>3. CASE Tick \/ UNCHANGED vars
    BY <2>3, SameView, SameRows DEF Tick, vars, Promise!vars
  <2>4. QED
    BY <2>1, <2>2, <2>3, ViewImplements, RevokeImplements, CleanupImplements, CrashImplements
    DEF Next
<1>2. QED BY <1>1, PromiseInit, Invariant, PTL DEF Spec, KeepsPromise, Promise!Spec

=============================================================================
