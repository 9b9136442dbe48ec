-------------------------- MODULE ThreatModelsProofs --------------------------
(***************************************************************************)
(* Proofs about ThreatModels, for any number of components, flows and      *)
(* calls in flight, any scores and any bound on the calls.                 *)
(***************************************************************************)
EXTENDS ThreatModels, TLAPS

\* A new threat carries its score.
LEMMA ScoredIsRow == ASSUME NEW x, NEW y PROVE Row(Scored(x, y))
  BY DEF Row, Scored

\* A change of one field leaves the other fields and renews the score.
LEMMA ChangedIsRow ==
  ASSUME NEW t, Row(t), NEW field \in Fields, NEW value
  PROVE  Row(Changed(t, field, value))
         /\ \A f \in Fields \ {field}: Changed(t, field, value)[f] = t[f]
<1>1. PICK u: u = [t EXCEPT ![field] = value]
  OBVIOUS
<1>2. Changed(t, field, value) = [u EXCEPT !.riskScore = u.likelihood * u.impact]
  BY <1>1, Zenon DEF Changed
<1>3. /\ u = [f \in DOMAIN t |-> IF f = field THEN value ELSE t[f]]
      /\ DOMAIN t = {"status", "likelihood", "impact", "riskScore"}
  BY <1>1 DEF Row
<1>4. Changed(t, field, value) = [status |-> u.status, likelihood |-> u.likelihood,
                                  impact |-> u.impact, riskScore |-> u.likelihood * u.impact]
  BY <1>2, <1>3
<1>5. QED
  BY <1>3, <1>4 DEF Row, Fields

\* What the catalogue says of components and flows is scored.
LEMMA CreatedIsRow ==
  ASSUME NEW got, NEW x \in ToCreate(got)
  PROVE  Row(x[2])
<1>1. CASE x \in ComponentThreats(got.components)
  <2>1. PICK k \in DOMAIN got.components: \E t \in Templates(got.components[k]):
          x = <<ComponentRef(k, t), Scored(t.likelihood, t.impact)>>
    BY <1>1 DEF ComponentThreats
  <2>2. QED
    BY <2>1, ScoredIsRow
<1>2. CASE x \in FlowThreats(got.flows)
  <2>1. PICK k \in DOMAIN got.flows: \E id \in DOMAIN FLOW_THREAT_RULES:
          x = <<<<k, id>>, Scored(FLOW_THREAT_RULES[id].likelihood, FLOW_THREAT_RULES[id].impact)>>
    BY <1>2 DEF FlowThreats
  <2>2. QED
    BY <2>1, ScoredIsRow
<1>3. QED
  BY <1>1, <1>2 DEF ToCreate

\* The rows of a batch are scored, and named by a reference that was not there
\* when the call read them and by the number of the call.
LEMMA BatchRows ==
  ASSUME NEW c, NEW got, NEW r \in DOMAIN Batch(c, ToCreate(got))
  PROVE  /\ Row(Batch(c, ToCreate(got))[r])
         /\ r = <<r[1], r[2]>> /\ r[2] = call[c].number /\ r[1] \notin got.refs
<1> DEFINE new == ToCreate(got)
<1>1. PICK x \in new: r = <<x[1], call[c].number>>
  BY DEF Batch
<1>2. r[1] \notin got.refs
  BY <1>1 DEF ToCreate
<1>3. (CHOOSE y \in new: y[1] = r[1]) \in new
  BY <1>1
<1>4. Row((CHOOSE y \in new: y[1] = r[1])[2])
  BY <1>3, CreatedIsRow
<1>5. QED
  BY <1>1, <1>2, <1>4 DEF Batch

\* The invariant holds initially.
LEMMA Initially == Init => IInv
  BY DEF Init, IInv, Holds, RowsScored, NumbersFresh, Inserting, Updating, OneThreatPerRule

-----------------------------------------------------------------------------
(* What the ways a call goes on have in common.                            *)

\* A call that begins.
LEMMA Begins ==
  ASSUME IInv, NEW c \in Calls, NEW do, NEW at, NEW arg, NEW p,
         Begin(c, do, at, arg, p), UNCHANGED <<threats, overlapped>>,
         do \in {"load", "addComponent", "deleteComponent", "addFlow", "deleteFlow", "deleteThreat",
                 "setStatus"}
         \/ (do = "addThreat" /\ at = "write" /\ Row(arg))
         \/ (do = "update" /\ at = "read" /\ arg.field \in Fields)
         \/ (do = "generate" /\ at = "start")
  PROVE  IInv'
<1>1. call' = [d \in Calls |-> IF d = c THEN [do |-> do, at |-> at, arg |-> arg, page |-> p,
                 got |-> None, number |-> started + 1, seen |-> {}] ELSE call[d]]
      /\ started' = started + 1
  BY DEF IInv, Begin
<1>2. ASSUME NEW e \in Calls PROVE Holds(call[e])'
  <2>1. CASE e = c
    BY <1>1, <2>1 DEF Holds, Filled, Row
  <2>2. CASE e # c
    BY <1>1, <2>2 DEF IInv, Holds
  <2>3. QED
    BY <2>1, <2>2
<1>3. NumbersFresh'
  BY <1>1 DEF IInv, NumbersFresh, Inserting, Updating
<1>4. QED
  BY <1>1, <1>2, <1>3, Zenon DEF IInv, RowsScored, OneThreatPerRule

\* A call that ends.
LEMMA Finishes ==
  ASSUME IInv, NEW c \in Calls, Ends(c), UNCHANGED <<threats, overlapped, started>>
  PROVE  IInv'
<1>1. call' = [d \in Calls |-> IF d = c THEN [do |-> "none"] ELSE call[d]]
  BY DEF IInv, Ends
<1>2. \A e \in Calls: Holds(call[e])'
  BY <1>1 DEF IInv, Holds
<1>3. NumbersFresh'
  BY <1>1 DEF IInv, NumbersFresh, Inserting, Updating
<1>4. QED
  BY <1>1, <1>2, <1>3 DEF IInv, RowsScored, OneThreatPerRule

\* A call of the page that goes on with a reload.
LEMMA Reloads ==
  ASSUME IInv, NEW c \in Calls, Pending(c), Reload(c)
  PROVE  IInv'
<1>2. call' = [d \in Calls |-> IF d = c THEN [do |-> "load", at |-> "read", arg |-> None,
                 page |-> call[c].page, got |-> None, number |-> call[c].number, seen |-> {}]
                 ELSE call[d]]
      /\ UNCHANGED <<threats, overlapped, started>>
  BY DEF IInv, Reload, model
<1>3. \A e \in Calls: Holds(call[e])'
  BY <1>2 DEF IInv, Holds, Filled
<1>4. NumbersFresh'
  BY <1>2 DEF IInv, NumbersFresh, Inserting, Updating
<1>5. QED
  BY <1>2, <1>3, <1>4, Zenon DEF IInv, RowsScored, OneThreatPerRule

\* The same call, that has seen more.
SeesMore(k, l) ==
  /\ l.do = k.do /\ (k.do # "none" => Filled(l))
  /\ k.do # "none" => /\ l.at = k.at /\ l.arg = k.arg /\ l.page = k.page /\ l.got = k.got
                     /\ l.number = k.number /\ k.seen \subseteq l.seen

\* A call that is told of a change is the same call.
LEMMA OnlySees ==
  ASSUME NEW k, Filled(k), NEW what
  PROVE  LET l == [k EXCEPT !.seen = k.seen \cup {what}]
         IN  SeesMore(k, l) /\ what \in l.seen
  BY DEF Filled, SeesMore

\* A call that has written waits for its answer or is over, and the others only see
\* more.
LEMMA Writes ==
  ASSUME IInv, NEW c \in Calls, Pending(c), NEW what, NEW got, Wrote(c, what, got)
  PROVE  /\ call' = [d \in Calls |-> call'[d]] /\ UNCHANGED started
         /\ Holds(call[c])' /\ ~Inserting(call'[c]) /\ ~Updating(call'[c])
         /\ \A d \in Calls \ {c}: /\ SeesMore(call[d], call'[d])
                                  /\ Pending(d) => what \in call'[d].seen
<1>1. Filled(call[c])
  BY DEF IInv, Holds, Pending
<1>2. call' = [d \in Calls |->
       CASE d = c /\ call[c].page  -> [call[c] EXCEPT !.at = "answer", !.got = got]
         [] d = c /\ ~call[c].page -> [do |-> "none"]
         [] d # c /\ Pending(d)    -> [call[d] EXCEPT !.seen = call[d].seen \cup {what}]
         [] OTHER                  -> call[d]]
  BY DEF Wrote
<1>3. call'[c] = IF call[c].page THEN [call[c] EXCEPT !.at = "answer", !.got = got]
                 ELSE [do |-> "none"]
  BY <1>2
<1>4. (Filled(call'[c]) /\ call'[c].at = "answer") \/ call'[c] = [do |-> "none"]
  BY <1>1, <1>3 DEF Filled
<1>5. Holds(call[c])' /\ ~Inserting(call'[c]) /\ ~Updating(call'[c])
  BY <1>4 DEF Holds, Inserting, Updating
<1>6. ASSUME NEW d \in Calls \ {c}
      PROVE  SeesMore(call[d], call'[d]) /\ (Pending(d) => what \in call'[d].seen)
  <2>1. CASE Pending(d)
    <3>1. Filled(call[d])
      BY <2>1 DEF IInv, Holds, Pending
    <3>2. call'[d] = [call[d] EXCEPT !.seen = call[d].seen \cup {what}]
      BY <1>2, <2>1
    <3>3. QED
      BY <3>1, <3>2, OnlySees
  <2>2. CASE ~Pending(d)
    BY <1>2, <2>2 DEF SeesMore, Pending
  <2>3. QED
    BY <2>1, <2>2
<1>7. call' = [d \in Calls |-> call'[d]] /\ UNCHANGED started
  BY <1>2 DEF Wrote
<1>8. QED
  BY <1>5, <1>6, <1>7

\* A call that only goes on with what it holds.
LEMMA Moves ==
  ASSUME IInv, NEW c \in Calls, UNCHANGED <<threats, overlapped, started>>,
         NEW k, Holds(k), k.number = call[c].number, Inserting(k) => Inserting(call[c]),
         Updating(k) => k.arg.row \in DOMAIN threats,
         call' = [d \in Calls |-> IF d = c THEN k ELSE call[d]]
  PROVE  IInv'
<1>1. \A e \in Calls: Holds(call[e])'
  BY DEF IInv, Holds
<1>2. NumbersFresh'
  BY DEF IInv, NumbersFresh, Inserting, Updating
<1>3. QED
  BY <1>1, <1>2 DEF IInv, RowsScored, OneThreatPerRule

\* Threats that are inserted by one call.
LEMMA Inserts ==
  ASSUME IInv, NEW c \in Calls, Pending(c), Inserting(call[c]),
         NEW what, NEW got, Wrote(c, what, got), NEW new,
         threats' = [r \in new \cup DOMAIN threats |-> threats'[r]],
         \A r \in DOMAIN threats \ new: threats'[r] = threats[r],
         \A r \in new: Row(threats'[r]) /\ r = <<r[1], r[2]>> /\ r[2] = call[c].number,
         what = <<"generated">> \/ \A r \in new: r[1] = <<>>
  PROVE  /\ call' = [d \in Calls |-> call'[d]] /\ \A e \in Calls: Holds(call[e])'
         /\ RowsScored' /\ NumbersFresh'
<1>1. /\ call' = [d \in Calls |-> call'[d]] /\ UNCHANGED started
      /\ Holds(call[c])' /\ ~Inserting(call'[c]) /\ ~Updating(call'[c])
      /\ \A d \in Calls \ {c}: /\ SeesMore(call[d], call'[d])
                               /\ Pending(d) => what \in call'[d].seen
  BY Writes
<1>a. call' = [d \in Calls |-> call'[d]] /\ UNCHANGED started
  BY <1>1
<1>b. Holds(call[c])' /\ ~Inserting(call'[c]) /\ ~Updating(call'[c])
  BY <1>1
<1>c. ASSUME NEW d \in Calls, d # c
      PROVE  SeesMore(call[d], call'[d]) /\ (Pending(d) => what \in call'[d].seen)
  <2>1. d \in Calls \ {c}
    BY <1>c
  <2>2. QED
    BY <1>1, <2>1, Zenon
<1>n. NumbersFresh
  BY DEF IInv
<1>d. DOMAIN threats' = new \cup DOMAIN threats
  OBVIOUS
<1>2. /\ call[c].number \in 1..started
      /\ \A r \in DOMAIN threats: r[2] # call[c].number
      /\ \A d \in Calls: /\ Updating(call[d]) => call[d].arg.row[2] # call[c].number
                         /\ Inserting(call[d]) /\ d # c => call[d].number # call[c].number
  BY <1>n DEF NumbersFresh
<1>3. \A r \in DOMAIN threats: r \notin new /\ threats'[r] = threats[r]
  BY <1>2
<1>4. RowsScored'
  BY <1>3 DEF IInv, RowsScored, Row
<1>5. NumbersFresh'
  <2>1. started' \in Nat /\ \A r \in DOMAIN threats': r[2] \in 0..started'
    BY <1>a, <1>n, <1>d, <1>2 DEF NumbersFresh
  <2>2. ASSUME NEW d \in Calls, Updating(call'[d])
        PROVE  d # c /\ Updating(call[d]) /\ call'[d].arg = call[d].arg
    <3>1. d # c
      BY <1>b, <2>2
    <3>2. SeesMore(call[d], call'[d])
      BY <1>c, <3>1
    <3>3. QED
      BY <2>2, <3>1, <3>2 DEF SeesMore, Updating
  <2>3. ASSUME NEW d \in Calls, Inserting(call'[d])
        PROVE  d # c /\ Inserting(call[d]) /\ call'[d].number = call[d].number
    <3>1. d # c
      BY <1>b, <2>3
    <3>2. SeesMore(call[d], call'[d])
      BY <1>c, <3>1
    <3>3. QED
      BY <2>3, <3>1, <3>2 DEF SeesMore, Inserting
  <2>4. QED
    <3>1. ASSUME NEW d \in Calls, Updating(call'[d]) PROVE call'[d].arg.row[2] \in 0..started'
      BY <1>a, <1>n, <2>2, <3>1 DEF NumbersFresh
    <3>2. ASSUME NEW d \in Calls, Inserting(call'[d])
          PROVE  /\ call'[d].number \in 1..started'
                 /\ \A r \in DOMAIN threats': r[2] # call'[d].number
      <4>1. d # c /\ Inserting(call[d]) /\ call'[d].number = call[d].number
        BY <2>3, <3>2
      <4>2. /\ call[d].number \in 1..started /\ call[d].number # call[c].number
            /\ \A r \in DOMAIN threats: r[2] # call[d].number
        BY <1>n, <4>1 DEF NumbersFresh
      <4>3. QED
        BY <1>a, <1>d, <4>1, <4>2
    <3>3. ASSUME NEW d \in Calls, Inserting(call'[d]), NEW e \in Calls
          PROVE  /\ Updating(call'[e]) => call'[e].arg.row[2] # call'[d].number
                 /\ Inserting(call'[e]) /\ d # e => call'[e].number # call'[d].number
      <4>1. CASE Updating(call'[e])
        <5>1. Updating(call[e]) /\ call'[e].arg = call[e].arg /\ ~Inserting(call'[e])
          BY <2>2, <4>1 DEF Updating, Inserting
        <5>2. Inserting(call[d]) /\ call'[d].number = call[d].number
          BY <2>3, <3>3
        <5>3. call[e].arg.row[2] # call[d].number
          BY <1>n, <5>1, <5>2 DEF NumbersFresh
        <5>4. QED
          BY <5>1, <5>2, <5>3
      <4>2. CASE Inserting(call'[e])
        BY <1>n, <2>3, <3>3, <4>2 DEF NumbersFresh, Updating, Inserting
      <4>3. QED
        BY <4>1, <4>2
    <3>4. QED
      BY <2>1, <3>1, <3>2, <3>3 DEF NumbersFresh
<1>6. ASSUME NEW e \in Calls PROVE Holds(call[e])'
  <2>1. CASE e = c
    BY <1>b, <2>1
  <2>2. CASE e # c
    <3>1. Holds(call[e]) /\ SeesMore(call[e], call'[e]) /\ (Pending(e) => what \in call'[e].seen)
      BY <1>c, <2>2 DEF IInv
    <3>2. Updating(call[e]) => call[e].arg.row[2] # call[c].number
      BY <1>2, Zenon
    <3>3. QED
      BY <1>3, <3>1, <3>2 DEF Holds, SeesMore, Updating, Pending
  <2>3. QED
    BY <2>1, <2>2
<1>7. QED
  BY <1>a, <1>4, <1>5, <1>6

\* Threats that are changed or removed; the updates under way are told of a change.
LEMMA Rewrites ==
  ASSUME IInv, UNCHANGED <<started, overlapped>>, call' = [d \in Calls |-> call'[d]],
         DOMAIN threats' \subseteq DOMAIN threats,
         threats' = [r \in DOMAIN threats' |-> threats'[r]],
         \A r \in DOMAIN threats': Row(threats'[r]),
         \A d \in Calls:
           \/ Holds(call[d])' /\ ~Inserting(call'[d]) /\ ~Updating(call'[d])
           \/ /\ SeesMore(call[d], call'[d])
              /\ \A r \in DOMAIN threats': Updating(call[d]) /\ threats'[r] # threats[r]
                                           => <<"updated", r>> \in call'[d].seen
  PROVE  IInv'
<1>1. ASSUME NEW e \in Calls PROVE Holds(call[e])'
  <2>1. CASE /\ SeesMore(call[e], call'[e])
             /\ \A r \in DOMAIN threats': Updating(call[e]) /\ threats'[r] # threats[r]
                                          => <<"updated", r>> \in call'[e].seen
    <3>1. Holds(call[e])
      BY DEF IInv
    <3>2. QED
      BY <2>1, <3>1 DEF Holds, SeesMore, Updating
  <2>2. QED
    BY <2>1
<1>2. NumbersFresh'
  BY DEF IInv, NumbersFresh, Inserting, Updating, SeesMore
<1>3. OneThreatPerRule'
  BY DEF IInv, OneThreatPerRule
<1>4. RowsScored'
  BY DEF IInv, RowsScored
<1>5. QED
  BY <1>1, <1>2, <1>3, <1>4 DEF IInv

\* Calls that write elsewhere.
LEMMA WritesElsewhere ==
  ASSUME IInv, NEW c \in Calls, Pending(c), NEW what, NEW got, Wrote(c, what, got),
         UNCHANGED <<threats, overlapped>>
  PROVE  IInv'
<1>1. /\ call' = [d \in Calls |-> call'[d]] /\ UNCHANGED started
      /\ Holds(call[c])' /\ ~Inserting(call'[c]) /\ ~Updating(call'[c])
      /\ \A d \in Calls \ {c}: SeesMore(call[d], call'[d])
  BY Writes
<1>2. threats' = [r \in DOMAIN threats' |-> threats'[r]] /\ \A r \in DOMAIN threats': Row(threats'[r])
  BY DEF IInv, RowsScored
<1>3. QED
  BY <1>1, <1>2, Rewrites

-----------------------------------------------------------------------------
(* Each action keeps the invariant.                                        *)

\* A call that an analyst starts.
LEMMA StepStarts ==
  ASSUME IInv, NEW c \in Calls, NEW p, Starts(c, p)
  PROVE  IInv'
<1>1. ASSUME NEW id, NEW type, AddComponent(c, id, type, p) PROVE IInv'
  BY <1>1, Begins DEF AddComponent
<1>2. ASSUME NEW id, DeleteComponent(c, id, p) PROVE IInv'
  BY <1>2, Begins DEF DeleteComponent, model
<1>3. ASSUME NEW id, NEW x, NEW y, NEW k, AddFlow(c, id, x, y, k, p) PROVE IInv'
  <2>1. Begin(c, "addFlow", "check",
           [id |-> id, flow |-> [source |-> x, target |-> y, context |-> k]], p)
        /\ UNCHANGED <<threats, overlapped>>
    BY <1>3 DEF AddFlow
  <2>2. QED
    BY <2>1, Begins
<1>4. ASSUME NEW id, DeleteFlow(c, id, p) PROVE IInv'
  BY <1>4, Begins DEF DeleteFlow, model
<1>5. ASSUME Generate(c, p) PROVE IInv'
  BY <1>5, Begins DEF Generate, model
<1>6. ASSUME NEW row, NEW field \in Fields, NEW value, UpdateThreat(c, row, field, value, p)
      PROVE  IInv'
  <2>1. PICK arg: arg = [row |-> row, field |-> field, value |-> value]
    OBVIOUS
  <2>2. Begin(c, "update", "read", arg, p) /\ UNCHANGED <<threats, overlapped>>
    BY <1>6, <2>1 DEF UpdateThreat, model
  <2>3. arg.field \in Fields
    BY <2>1
  <2>4. QED
    BY <2>2, <2>3, Begins
<1>7. ASSUME NEW row, DeleteThreat(c, row, p) PROVE IInv'
  BY <1>7, Begins DEF DeleteThreat, model
<1>8. ASSUME NEW new, SetStatus(c, new, p) PROVE IInv'
  BY <1>8, Begins DEF SetStatus, model
<1>9. QED
  BY <1>1, <1>2, <1>3, <1>4, <1>5, <1>6, <1>7, <1>8 DEF Starts, Fields

\* The page is opened.
LEMMA StepOpen == ASSUME IInv, NEW c \in Calls, Open(c) PROVE IInv'
  BY Begins DEF Open, model

\* A threat that is added by hand carries its score.
LEMMA StepAddThreat ==
  ASSUME IInv, NEW c \in Calls, NEW x, NEW y, AddThreat(c, x, y)
  PROVE  IInv'
<1>1. PICK arg: arg = Scored(x, y)
  OBVIOUS
<1>2. Begin(c, "addThreat", "write", arg, FALSE) /\ UNCHANGED <<threats, overlapped>> /\ Row(arg)
  BY <1>1, ScoredIsRow DEF AddThreat, model
<1>3. QED
  BY <1>2, Begins

\* An answer that reaches the page.
LEMMA StepAnswers ==
  ASSUME IInv, NEW c \in Calls, Answers(c)
  PROVE  IInv'
<1>1. CASE Loaded(c)
  BY <1>1, Finishes DEF Loaded, model
<1>2. CASE ComponentAdded(c)
  BY <1>2, Finishes DEF ComponentAdded, model
<1>3. CASE ComponentDeleted(c)
  BY <1>3, Finishes DEF ComponentDeleted, model
<1>4. CASE FlowAdded(c)
  BY <1>4, Reloads DEF FlowAdded, At, Pending
<1>5. CASE FlowDeleted(c)
  BY <1>5, Finishes DEF FlowDeleted, model
<1>6. CASE Generated(c)
  BY <1>6, Reloads DEF Generated, At, Pending
<1>7. CASE ThreatUpdated(c)
  BY <1>7, Finishes DEF ThreatUpdated, model
<1>8. CASE ThreatDeleted(c)
  BY <1>8, Finishes DEF ThreatDeleted, model
<1>9. CASE StatusSet(c)
  BY <1>9, Finishes DEF StatusSet, model
<1>10. CASE AnswerLost(c)
  BY <1>10, Finishes DEF AnswerLost, model
<1>11. QED
  BY <1>1, <1>2, <1>3, <1>4, <1>5, <1>6, <1>7, <1>8, <1>9, <1>10 DEF Answers

\* A call that changes no threat, or fails.
LEMMA StepElsewhere ==
  ASSUME IInv, NEW c \in Calls,
         \/ AddComponentWrite(c) \/ DeleteComponentWrite(c) \/ AddFlowWrite(c)
         \/ DeleteFlowWrite(c) \/ SetStatusWrite(c) \/ Fails(c)
  PROVE  IInv'
<1>1. CASE AddComponentWrite(c)
  BY <1>1, WritesElsewhere DEF AddComponentWrite, At, Pending
<1>2. CASE DeleteComponentWrite(c)
  BY <1>2, WritesElsewhere DEF DeleteComponentWrite, At, Pending
<1>3. CASE AddFlowWrite(c)
  BY <1>3, WritesElsewhere DEF AddFlowWrite, At, Pending
<1>4. CASE DeleteFlowWrite(c)
  BY <1>4, WritesElsewhere DEF DeleteFlowWrite, At, Pending
<1>5. CASE SetStatusWrite(c)
  BY <1>5, WritesElsewhere DEF SetStatusWrite, At, Pending
<1>6. CASE Fails(c)
  BY <1>6, Finishes DEF Fails, model
<1>7. QED
  BY <1>1, <1>2, <1>3, <1>4, <1>5, <1>6

\* A call that goes on, at another stage of what it does.
Stage(k, at, got, seen) ==
  [do |-> k.do, at |-> at, arg |-> k.arg, page |-> k.page, got |-> got,
   number |-> k.number, seen |-> seen]
Goes(c, k) == call' = [d \in Calls |-> IF d = c THEN k ELSE call[d]]

\* What a call holds when it goes on.
LEMMA Staged ==
  ASSUME NEW k, Filled(k), NEW at, NEW got
  PROVE  [k EXCEPT !.at = at, !.got = got] = Stage(k, at, got, k.seen)
<1>1. PICK m: m = [k EXCEPT !.at = at]
  OBVIOUS
<1>2. m = Stage(k, at, k.got, k.seen)
  BY <1>1 DEF Filled, Stage
<1>3. [m EXCEPT !.got = got] = Stage(k, at, got, k.seen)
  BY <1>2 DEF Stage
<1>4. QED
  BY <1>1, <1>3

\* What a call holds when it has read, and what it has seen is forgotten.
LEMMA StagedRead ==
  ASSUME NEW k, Filled(k), NEW got, NEW seen
  PROVE  [k EXCEPT !.got = got, !.seen = seen] = Stage(k, k.at, got, seen)
<1>1. PICK o: o = [k EXCEPT !.got = got]
  OBVIOUS
<1>2. o = Stage(k, k.at, got, k.seen)
  BY <1>1 DEF Filled, Stage
<1>3. [o EXCEPT !.seen = seen] = Stage(k, k.at, got, seen)
  BY <1>2 DEF Stage
<1>4. QED
  BY <1>1, <1>3

\* What a generation has read so far.
Got(C, F, refs) == [components |-> C, flows |-> F, refs |-> refs]

\* The stage a call goes on to with its next query, and what it holds of the answer.
LEMMA Moved ==
  ASSUME IInv, NEW c \in Calls
  PROVE  LET k == call[c] IN
    /\ AddFlowCheck(c) => k.do = "addFlow" /\ Goes(c, Stage(k, "write", k.got, k.seen))
    /\ GenerateOwner(c) => /\ k.do = "generate" /\ k.at = "start"
                           /\ Goes(c, Stage(k, "read", Unread, {}))
    /\ GenerateComponents(c) =>
         /\ k.do = "generate" /\ k.at = "read"
         /\ Goes(c, Stage(k, "read", Got(components, k.got.flows, k.got.refs), k.seen))
    /\ GenerateFlows(c) =>
         /\ k.do = "generate" /\ k.at = "read"
         /\ Goes(c, Stage(k, "read", Got(k.got.components, flows, k.got.refs), k.seen))
    /\ GenerateRefs(c) =>
         /\ k.do = "generate" /\ k.at = "read"
         /\ Goes(c, Stage(k, "read", Got(k.got.components, k.got.flows, References \ {<<>>}),
                          k.seen \ {<<"generated">>}))
    /\ UpdateThreatRead(c) =>
         /\ k.do = "update" /\ k.at = "read" /\ k.arg.row \in DOMAIN threats
         /\ Goes(c, Stage(k, "write", threats[k.arg.row], {}))
    /\ GetModel(c) => k.do = "load" /\ Goes(c, Stage(k, "answer", Model, k.seen))
<1> DEFINE k == call[c]
<1>1. call = [d \in Calls |-> call[d]] /\ (Pending(c) => Filled(k) /\ Holds(k))
  BY DEF IInv, Holds, Pending
<1>2. ASSUME AddFlowCheck(c) PROVE k.do = "addFlow" /\ Goes(c, Stage(k, "write", k.got, k.seen))
  BY <1>1, <1>2 DEF AddFlowCheck, At, Pending, Filled, Goes, Stage
<1>3. ASSUME GenerateOwner(c)
      PROVE  k.do = "generate" /\ k.at = "start" /\ Goes(c, Stage(k, "read", Unread, {}))
  <2>1. k.do = "generate" /\ k.at = "start"
    BY <1>3 DEF GenerateOwner, At
  <2>f. Filled(k)
    BY <1>1, <2>1 DEF Pending
  <2>2. PICK n: n = [k EXCEPT !.at = "read", !.got = Unread]
    OBVIOUS
  <2>3. n = Stage(k, "read", Unread, k.seen)
    BY <2>f, <2>2, Staged, Zenon
  <2>4. call' = [call EXCEPT ![c] = [n EXCEPT !.seen = {}]]
    BY <1>3, <2>2, Zenon DEF GenerateOwner
  <2>5. [n EXCEPT !.seen = {}] = Stage(k, "read", Unread, {})
    BY <2>3 DEF Stage
  <2>6. QED
    BY <1>1, <2>1, <2>4, <2>5, Zenon DEF Goes
<1>4. ASSUME k.do = "generate", k.at = "read"
      PROVE  Filled(k) /\ k.got = Got(k.got.components, k.got.flows, k.got.refs)
  BY <1>1, <1>4 DEF Holds, Pending, Got
<1>5. ASSUME GenerateComponents(c)
      PROVE  /\ k.do = "generate" /\ k.at = "read"
             /\ Goes(c, Stage(k, "read", Got(components, k.got.flows, k.got.refs), k.seen))
  BY <1>1, <1>4, <1>5 DEF GenerateComponents, At, Filled, Goes, Stage, Got
<1>6. ASSUME GenerateFlows(c)
      PROVE  /\ k.do = "generate" /\ k.at = "read"
             /\ Goes(c, Stage(k, "read", Got(k.got.components, flows, k.got.refs), k.seen))
  BY <1>1, <1>4, <1>6 DEF GenerateFlows, At, Filled, Goes, Stage, Got
<1>7. ASSUME GenerateRefs(c)
      PROVE  /\ k.do = "generate" /\ k.at = "read"
             /\ Goes(c, Stage(k, "read",
                              Got(k.got.components, k.got.flows, References \ {<<>>}),
                              k.seen \ {<<"generated">>}))
  <2> DEFINE refs == References \ {<<>>}
             seen == k.seen \ {<<"generated">>}
             got  == Got(k.got.components, k.got.flows, refs)
  <2>1. k.do = "generate" /\ k.at = "read"
    BY <1>7 DEF GenerateRefs, At
  <2>2. call' = [call EXCEPT ![c] = [k EXCEPT !.got = [k.got EXCEPT !.refs = refs], !.seen = seen]]
    BY <1>7 DEF GenerateRefs, References
  <2> HIDE DEF refs, seen
  <2>3. [k.got EXCEPT !.refs = refs] = got
    BY <1>4, <2>1 DEF Got
  <2> HIDE DEF got
  <2>f. Filled(k)
    BY <1>4, <2>1
  <2>4. [k EXCEPT !.got = got, !.seen = seen] = Stage(k, k.at, got, seen)
    BY <2>f, StagedRead, Zenon
  <2>5. Goes(c, Stage(k, "read", got, seen))
    BY <1>1, <2>1, <2>2, <2>3, <2>4 DEF Goes
  <2>6. QED
    BY <2>1, <2>5 DEF refs, seen, got
<1>8. ASSUME UpdateThreatRead(c)
      PROVE  /\ k.do = "update" /\ k.at = "read" /\ k.arg.row \in DOMAIN threats
             /\ Goes(c, Stage(k, "write", threats[k.arg.row], {}))
  <2>1. k.do = "update" /\ k.at = "read" /\ k.arg.row \in DOMAIN threats
    BY <1>8 DEF UpdateThreatRead, At
  <2>f. Filled(k)
    BY <1>1, <2>1 DEF Pending
  <2>2. PICK n: n = [k EXCEPT !.at = "write", !.got = threats[k.arg.row]]
    OBVIOUS
  <2>3. n = Stage(k, "write", threats[k.arg.row], k.seen)
    BY <2>f, <2>2, Staged, Zenon
  <2>4. call' = [call EXCEPT ![c] = [n EXCEPT !.seen = {}]]
    BY <1>8, <2>2, Zenon DEF UpdateThreatRead
  <2>5. [n EXCEPT !.seen = {}] = Stage(k, "write", threats[k.arg.row], {})
    BY <2>3 DEF Stage
  <2>6. QED
    BY <1>1, <2>1, <2>4, <2>5, Zenon DEF Goes
<1>9. ASSUME GetModel(c) PROVE k.do = "load" /\ Goes(c, Stage(k, "answer", Model, k.seen))
  <2>1. k.do = "load" /\ Filled(k)
    BY <1>1, <1>9 DEF GetModel, At, Pending
  <2>2. [k EXCEPT !.at = "answer", !.got = Model] = Stage(k, "answer", Model, k.seen)
    BY <2>1, Staged, Zenon
  <2>3. QED
    BY <1>1, <1>9, <2>1, <2>2, Zenon DEF GetModel, Goes
<1>10. QED
  BY <1>2, <1>3, <1>5, <1>6, <1>7, <1>8, <1>9

\* A call goes on to its next query, or with what it read.
LEMMA StepMoves ==
  ASSUME IInv, NEW c \in Calls,
         \/ AddFlowCheck(c) \/ GenerateOwner(c) \/ GenerateComponents(c) \/ GenerateFlows(c)
         \/ GenerateRefs(c) \/ UpdateThreatRead(c) \/ GetModel(c)
  PROVE  IInv'
<1> DEFINE k == call[c]
<1>1. UNCHANGED <<threats, overlapped, started>>
  BY DEF model, AddFlowCheck, GenerateOwner, GenerateComponents, GenerateFlows, GenerateRefs,
         UpdateThreatRead, GetModel
<1>2. ASSUME NEW at, NEW got, NEW seen, Goes(c, Stage(k, at, got, seen)),
             Holds(Stage(k, at, got, seen)),
             k.do \notin {"generate", "addThreat", "update"} \/ (k.do = "generate" /\ k.at # "answer")
             \/ (k.do = "update" /\ k.arg.row \in DOMAIN threats)
      PROVE  IInv'
  <2>1. PICK l: l = Stage(k, at, got, seen)
    OBVIOUS
  <2>2. /\ l.number = k.number /\ (Inserting(l) => Inserting(k))
        /\ Updating(l) => l.arg.row \in DOMAIN threats
    BY <1>2, <2>1 DEF Stage, Inserting, Updating
  <2>3. call' = [d \in Calls |-> IF d = c THEN l ELSE call[d]] /\ Holds(l)
    BY <1>2, <2>1 DEF Goes
  <2>4. QED
    BY <1>1, <2>2, <2>3, Moves
<1>3. CASE AddFlowCheck(c)
  <2>1. k.do = "addFlow" /\ Goes(c, Stage(k, "write", k.got, k.seen))
    BY <1>3, Moved
  <2>2. Holds(Stage(k, "write", k.got, k.seen))
    BY <2>1 DEF Holds, Filled, Stage
  <2>3. QED
    BY <1>2, <2>1, <2>2
<1>4. CASE GenerateOwner(c)
  <2>1. k.do = "generate" /\ k.at = "start" /\ Goes(c, Stage(k, "read", Unread, {}))
    BY <1>4, Moved
  <2>2. Holds(Stage(k, "read", Unread, {}))
    BY <2>1 DEF Holds, Filled, Unread, Stage
  <2>3. QED
    BY <1>2, <2>1, <2>2
<1>5. CASE GenerateComponents(c) \/ GenerateFlows(c)
  <2>1. /\ k.do = "generate" /\ k.at = "read" /\ Holds(k)
        /\ \/ Goes(c, Stage(k, "read", Got(components, k.got.flows, k.got.refs), k.seen))
           \/ Goes(c, Stage(k, "read", Got(k.got.components, flows, k.got.refs), k.seen))
    BY <1>5, Moved DEF IInv
  <2>2. ASSUME NEW C, NEW F PROVE Holds(Stage(k, "read", Got(C, F, k.got.refs), k.seen))
    BY <2>1 DEF Holds, Filled, Stage, Got
  <2>3. QED
    BY <1>2, <2>1, <2>2
<1>6. CASE GenerateRefs(c)
  <2> DEFINE refs == References \ {<<>>}
             seen == k.seen \ {<<"generated">>}
             got  == Got(k.got.components, k.got.flows, refs)
  <2>1. k.do = "generate" /\ k.at = "read" /\ Goes(c, Stage(k, "read", got, seen))
    BY <1>6, Moved
  <2>2. \A r \in DOMAIN threats: r[1] \in refs \cup {<<>>}
    BY DEF References
  <2>3. Holds(Stage(k, "read", got, seen))
    <3> HIDE DEF refs, seen
    <3>1. QED
      BY <2>1, <2>2 DEF Holds, Filled, Stage, Got
  <2> HIDE DEF got, seen
  <2>4. QED
    BY <1>2, <2>1, <2>3
<1>7. CASE UpdateThreatRead(c)
  <2>1. /\ k.do = "update" /\ k.at = "read" /\ k.arg.row \in DOMAIN threats
        /\ Goes(c, Stage(k, "write", threats[k.arg.row], {}))
    BY <1>7, Moved
  <2>2. Row(threats[k.arg.row]) /\ Holds(k)
    BY <2>1 DEF IInv, RowsScored
  <2>3. Holds(Stage(k, "write", threats[k.arg.row], {}))
    BY <2>1, <2>2 DEF Holds, Filled, Stage
  <2>4. QED
    BY <1>2, <2>1, <2>3
<1>8. CASE GetModel(c)
  <2>1. k.do = "load" /\ Goes(c, Stage(k, "answer", Model, k.seen))
    BY <1>8, Moved
  <2>2. Holds(Stage(k, "answer", Model, k.seen))
    BY <2>1 DEF Holds, Filled, Stage
  <2>3. QED
    BY <1>2, <2>1, <2>2
<1>9. QED
  BY <1>3, <1>4, <1>5, <1>6, <1>7, <1>8

\* A threat added by hand has no reference, and is of the number of its call.
LEMMA StepAddThreatWrite ==
  ASSUME IInv, NEW c \in Calls, AddThreatWrite(c)
  PROVE  IInv'
<1>1. Pending(c) /\ Inserting(call[c]) /\ Row(call[c].arg) /\ Wrote(c, <<"added by hand">>, None)
  BY DEF AddThreatWrite, At, Pending, Inserting, IInv, Holds
<1>2. PICK row: row = <<<<>>, call[c].number>>
  OBVIOUS
<1>3. row = <<row[1], row[2]>> /\ row[1] = <<>> /\ row[2] = call[c].number
  BY <1>2
<1>4. /\ threats' = [r \in {row} \cup DOMAIN threats |-> threats'[r]]
      /\ threats'[row] = call[c].arg
      /\ \A r \in DOMAIN threats \ {row}: threats'[r] = threats[r]
      /\ UNCHANGED overlapped
  BY <1>2 DEF AddThreatWrite, With, Joined
<1>5. \A r \in {row}: /\ Row(threats'[r]) /\ r = <<r[1], r[2]>> /\ r[2] = call[c].number
                      /\ r[1] = <<>>
  BY <1>1, <1>3, <1>4, Zenon
<1>6. /\ call' = [d \in Calls |-> call'[d]] /\ \A e \in Calls: Holds(call[e])'
      /\ RowsScored' /\ NumbersFresh'
  <2>1. PICK new: new = {row}
    OBVIOUS
  <2>2. /\ threats' = [r \in new \cup DOMAIN threats |-> threats'[r]]
        /\ \A r \in DOMAIN threats \ new: threats'[r] = threats[r]
    BY <1>4, <2>1
  <2>3. \A r \in new: Row(threats'[r]) /\ r = <<r[1], r[2]>> /\ r[2] = call[c].number
    BY <1>5, <2>1
  <2>4. \A r \in new: r[1] = <<>>
    BY <1>5, <2>1
  <2>5. QED
    BY <1>1, <1>4, <2>2, <2>3, <2>4, Inserts
<1>7. OneThreatPerRule'
  BY <1>3, <1>4 DEF IInv, OneThreatPerRule
<1>8. QED
  BY <1>6, <1>7 DEF IInv

\* A reference that the generation read is not inserted again, and one that it did
\* not read came with another generation that it overlaps.
LEMMA StepGenerateInsert ==
  ASSUME IInv, NEW c \in Calls, GenerateInsert(c)
  PROVE  IInv'
<1> DEFINE n   == call[c].number
           got == call[c].got
           B   == Batch(c, ToCreate(got))
           new == DOMAIN B
<1>1. /\ Pending(c) /\ Inserting(call[c]) /\ Wrote(c, <<"generated">>, None)
      /\ call[c].do = "generate" /\ call[c].at = "read" /\ got.refs # None
      /\ overlapped' = overlapped \cup IF <<"generated">> \in call[c].seen THEN {n} ELSE {}
      /\ threats' = Joined(threats, B)
  BY DEF GenerateInsert, At, Pending, Inserting
<1>2. \A r \in new: Row(B[r]) /\ r = <<r[1], r[2]>> /\ r[2] = n /\ r[1] \notin got.refs
  BY BatchRows
<1> HIDE DEF B
<1>3. /\ threats' = [r \in new \cup DOMAIN threats |-> threats'[r]]
      /\ \A r \in new: threats'[r] = B[r]
      /\ \A r \in DOMAIN threats \ new: threats'[r] = threats[r]
  BY <1>1 DEF Joined
<1>4. /\ call' = [d \in Calls |-> call'[d]] /\ \A e \in Calls: Holds(call[e])'
      /\ RowsScored' /\ NumbersFresh'
  <2>1. \A r \in new: Row(threats'[r]) /\ r = <<r[1], r[2]>> /\ r[2] = n
    BY <1>2, <1>3
  <2>2. QED
    BY <1>1, <1>3, <2>1, Inserts
<1>5. OneThreatPerRule'
  <2>1. ASSUME NEW r \in new, NEW q \in DOMAIN threats, r[1] = q[1], r[1] # <<>>
        PROVE  n \in overlapped'
    BY <1>1, <1>2, <2>1 DEF IInv, Holds
  <2>2. ASSUME NEW r \in new, NEW q \in new, r[1] = q[1] PROVE r = q
    BY <1>2, <2>2
  <2>3. DOMAIN threats' = new \cup DOMAIN threats /\ overlapped \subseteq overlapped'
    BY <1>1, <1>3
  <2>4. ASSUME NEW r \in DOMAIN threats', NEW q \in DOMAIN threats',
               r[1] = q[1], r[1] # <<>>, r # q
        PROVE  {r[2], q[2]} \cap overlapped' # {}
    <3>1. CASE r \in DOMAIN threats /\ q \in DOMAIN threats
      BY <2>3, <2>4, <3>1 DEF IInv, OneThreatPerRule
    <3>2. CASE r \in new /\ q \in DOMAIN threats
      BY <1>2, <2>1, <2>4, <3>2
    <3>3. CASE q \in new /\ r \in DOMAIN threats
      BY <1>2, <2>1, <2>4, <3>3
    <3>4. QED
      BY <2>2, <2>3, <2>4, <3>1, <3>2, <3>3
  <2>5. QED
    BY <2>4 DEF OneThreatPerRule
<1>6. QED
  BY <1>4, <1>5 DEF IInv

\* An update writes the row it read, changed, and every other update is told.
LEMMA StepUpdateThreatWrite ==
  ASSUME IInv, NEW c \in Calls, UpdateThreatWrite(c)
  PROVE  IInv'
<1> DEFINE a   == call[c].arg
           new == Changed(call[c].got, a.field, a.value)
<1>1. /\ Pending(c) /\ Wrote(c, <<"updated", a.row>>, a.value)
      /\ Row(call[c].got) /\ a.field \in Fields /\ a.row \in DOMAIN threats
      /\ UNCHANGED overlapped
  BY DEF UpdateThreatWrite, At, Pending, IInv, Holds
<1>2. Row(new)
  BY <1>1, ChangedIsRow
<1>3. threats' = [r \in DOMAIN threats |-> IF r = a.row THEN new ELSE threats[r]]
  BY DEF UpdateThreatWrite, IInv, RowsScored
<1> HIDE DEF new
<1>4. /\ threats' = [r \in DOMAIN threats' |-> threats'[r]]
      /\ \A r \in DOMAIN threats': Row(threats'[r])
      /\ \A r \in DOMAIN threats': threats'[r] # threats[r] => r = a.row
      /\ DOMAIN threats' = DOMAIN threats
  BY <1>2, <1>3 DEF IInv, RowsScored
<1>5. /\ call' = [d \in Calls |-> call'[d]] /\ UNCHANGED started
      /\ Holds(call[c])' /\ ~Inserting(call'[c]) /\ ~Updating(call'[c])
      /\ \A d \in Calls \ {c}: /\ SeesMore(call[d], call'[d])
                               /\ Pending(d) => <<"updated", a.row>> \in call'[d].seen
  BY <1>1, Writes
<1>6. QED
  BY <1>1, <1>4, <1>5, Rewrites DEF Pending, Updating

\* A deletion leaves the other threats as they are.
LEMMA StepDeleteThreatWrite ==
  ASSUME IInv, NEW c \in Calls, DeleteThreatWrite(c)
  PROVE  IInv'
<1>1. Pending(c) /\ Wrote(c, <<"added">>, None) /\ UNCHANGED overlapped
  BY DEF DeleteThreatWrite, At, Pending
<1>2. /\ DOMAIN threats' \subseteq DOMAIN threats
      /\ threats' = [r \in DOMAIN threats' |-> threats'[r]]
      /\ \A r \in DOMAIN threats': threats'[r] = threats[r]
  BY DEF DeleteThreatWrite, Without, Restrict
<1>3. \A r \in DOMAIN threats': Row(threats'[r])
  BY <1>2 DEF IInv, RowsScored
<1>4. /\ call' = [d \in Calls |-> call'[d]] /\ UNCHANGED started
      /\ Holds(call[c])' /\ ~Inserting(call'[c]) /\ ~Updating(call'[c])
      /\ \A d \in Calls \ {c}: SeesMore(call[d], call'[d])
  BY <1>1, Writes
<1>5. QED
  BY <1>1, <1>2, <1>3, <1>4, Rewrites

\* The deletion of the model leaves no threat, and tells every call.
LEMMA StepDeleteModel ==
  ASSUME IInv, NEW c \in Calls, DeleteModel(c)
  PROVE  IInv'
<1>1. call' = [d \in Calls |-> IF Pending(d)
                 THEN [call[d] EXCEPT !.seen = call[d].seen \cup {<<"added">>}] ELSE call[d]]
  BY DEF DeleteModel
<1>2. ASSUME NEW d \in Calls PROVE SeesMore(call[d], call'[d])
  <2>1. CASE Pending(d)
    <3>1. Filled(call[d])
      BY <2>1 DEF IInv, Holds, Pending
    <3>2. QED
      BY <1>1, <2>1, <3>1, OnlySees
  <2>2. CASE ~Pending(d)
    BY <1>1, <2>2 DEF SeesMore, Pending
  <2>3. QED
    BY <2>1, <2>2
<1>3. threats' = [r \in {} |-> None] /\ UNCHANGED <<started, overlapped>>
  BY DEF DeleteModel
<1>4. call' = [d \in Calls |-> call'[d]]
  BY <1>1
<1>5. QED
  BY <1>2, <1>3, <1>4, Rewrites

\* Every step keeps the invariant.
LEMMA Step == ASSUME IInv, [Next]_vars PROVE IInv'
<1>1. CASE UNCHANGED vars
  <2>1. UNCHANGED <<call, threats, started, overlapped>>
    BY <1>1 DEF vars, model
  <2>2. \A c \in Calls: Holds(call[c])'
    BY <2>1 DEF IInv, Holds
  <2>3. NumbersFresh' /\ RowsScored' /\ OneThreatPerRule'
    BY <2>1 DEF IInv, NumbersFresh, RowsScored, OneThreatPerRule, Inserting, Updating
  <2>4. QED
    BY <2>1, <2>2, <2>3 DEF IInv
<1>2. CASE Next
  <2>1. PICK c \in Calls:
          \/ \E p \in BOOLEAN: Starts(c, p)
          \/ Open(c) \/ DeleteModel(c)
          \/ \E x \in Scores, y \in Scores: AddThreat(c, x, y)
          \/ Serves(c) \/ Answers(c)
    BY <1>2 DEF Next
  <2>2. CASE Serves(c)
    BY <2>2, StepMoves, StepElsewhere, StepGenerateInsert, StepAddThreatWrite,
       StepUpdateThreatWrite, StepDeleteThreatWrite DEF Serves
  <2>3. QED
    BY <2>1, <2>2, StepStarts, StepOpen, StepDeleteModel, StepAddThreat, StepAnswers
<1>3. QED
  BY <1>1, <1>2

-----------------------------------------------------------------------------
(* A generation that saw the whole model leaves a threat for every rule.   *)

\* Components and flows that shrink need no more threats.
LEMMA FewerThreats ==
  ASSUME NEW f, NEW g, Within(f, g)
  PROVE  ComponentThreats(f) \subseteq ComponentThreats(g) /\ FlowThreats(f) \subseteq FlowThreats(g)
<1>1. ComponentThreats(f) \subseteq ComponentThreats(g)
  BY DEF Within, ComponentThreats
<1>2. FlowThreats(f) \subseteq FlowThreats(g)
  BY DEF Within, FlowThreats
<1>3. QED
  BY <1>1, <1>2

\* Fewer components and flows and more references are still covered.
LEMMA CoverKept ==
  ASSUME CoverInv, Within(components', components), Within(flows', flows),
         References \subseteq References', covered' => covered,
         \A d \in Calls: Reading(call'[d]) => Reading(call[d]) /\ call'[d].got = call[d].got
  PROVE  CoverInv'
<1>1. GenerationComplete'
  BY FewerThreats DEF CoverInv, GenerationComplete, References
<1>2. ASSUME NEW d \in Calls PROVE SawAll(call[d])'
  BY DEF CoverInv, SawAll, Reading, Within
<1>3. QED
  BY <1>1, <1>2 DEF CoverInv

\* A call that begins, ends or is reloaded is not reading, and no other call is
\* touched.
LEMMA NotReading ==
  ASSUME IInv, NEW c \in Calls, NEW k, ~Reading(k), Goes(c, k), NEW d \in Calls, Reading(call'[d])
  PROVE  Reading(call[d]) /\ call'[d].got = call[d].got
  BY DEF Goes

\* A call that wrote is not reading any more, and the others read what they read.
LEMMA WroteReading ==
  ASSUME IInv, NEW c \in Calls, Pending(c), NEW what, NEW got, Wrote(c, what, got),
         NEW d \in Calls, Reading(call'[d])
  PROVE  Reading(call[d]) /\ call'[d].got = call[d].got /\ what # <<"added">>
<1>1. ~Inserting(call'[c])
      /\ \A e \in Calls \ {c}: /\ SeesMore(call[e], call'[e])
                               /\ Pending(e) => what \in call'[e].seen
  BY Writes
<1>2. d \in Calls \ {c}
  BY <1>1 DEF Reading, Inserting
<1>3. SeesMore(call[d], call'[d]) /\ (Pending(d) => what \in call'[d].seen)
  BY <1>1, <1>2, Zenon
<1>4. Pending(d) /\ what \in call'[d].seen
  BY <1>3 DEF SeesMore, Reading, Pending
<1>5. Reading(call[d]) /\ call'[d].got = call[d].got
  BY <1>3, <1>4 DEF SeesMore, Reading, Pending
<1>6. QED
  BY <1>4, <1>5 DEF Reading

\* A call of which the components, the flows and the threats know nothing.
LEMMA CoverElsewhere ==
  ASSUME CoverInv, UNCHANGED <<components, flows, threats, covered>>,
         \A d \in Calls: Reading(call'[d]) => Reading(call[d]) /\ call'[d].got = call[d].got
  PROVE  CoverInv'
  BY CoverKept DEF Within, References

\* A call that begins reads nothing yet.
LEMMA CoverBegins ==
  ASSUME IInv, CoverInv, NEW c \in Calls, NEW do, NEW at, NEW arg, NEW p,
         Begin(c, do, at, arg, p), at # "read" \/ do # "generate",
         UNCHANGED <<components, flows, threats, covered>>
  PROVE  CoverInv'
<1>1. PICK k: k = [do |-> do, at |-> at, arg |-> arg, page |-> p, got |-> None,
                   number |-> started + 1, seen |-> {}]
  OBVIOUS
<1>2. Goes(c, k) /\ ~Reading(k)
  BY <1>1 DEF IInv, Begin, Goes, Reading
<1>3. QED
  BY <1>2, NotReading, CoverElsewhere

\* Calls that start leave all this alone.
LEMMA CoverStarts ==
  ASSUME IInv, CoverInv, NEW c \in Calls,
         \/ \E p \in BOOLEAN: Starts(c, p)
         \/ Open(c) \/ \E x \in Scores, y \in Scores: AddThreat(c, x, y)
  PROVE  CoverInv'
<1>1. ASSUME NEW p, NEW id, NEW type, AddComponent(c, id, type, p) PROVE CoverInv'
  BY <1>1, CoverBegins DEF AddComponent
<1>2. ASSUME NEW p, NEW id, DeleteComponent(c, id, p) PROVE CoverInv'
  BY <1>2, CoverBegins DEF DeleteComponent, model
<1>3. ASSUME NEW p, NEW id, NEW x, NEW y, NEW k, AddFlow(c, id, x, y, k, p) PROVE CoverInv'
  <2>1. Begin(c, "addFlow", "check",
           [id |-> id, flow |-> [source |-> x, target |-> y, context |-> k]], p)
        /\ UNCHANGED <<components, flows, threats, covered>>
    BY <1>3 DEF AddFlow
  <2>2. QED
    BY <2>1, CoverBegins
<1>4. ASSUME NEW p, NEW id, DeleteFlow(c, id, p) PROVE CoverInv'
  BY <1>4, CoverBegins DEF DeleteFlow, model
<1>5. ASSUME NEW p, Generate(c, p) PROVE CoverInv'
  BY <1>5, CoverBegins DEF Generate, model
<1>6. ASSUME NEW p, NEW row, NEW field, NEW value, UpdateThreat(c, row, field, value, p)
      PROVE  CoverInv'
  BY <1>6, CoverBegins DEF UpdateThreat, model
<1>7. ASSUME NEW p, NEW row, DeleteThreat(c, row, p) PROVE CoverInv'
  BY <1>7, CoverBegins DEF DeleteThreat, model
<1>8. ASSUME NEW p, NEW new, SetStatus(c, new, p) PROVE CoverInv'
  BY <1>8, CoverBegins DEF SetStatus, model
<1>9. ASSUME Open(c) PROVE CoverInv'
  BY <1>9, CoverBegins DEF Open, model
<1>10. ASSUME NEW x, NEW y, AddThreat(c, x, y) PROVE CoverInv'
  BY <1>10, CoverBegins DEF AddThreat, model
<1>11. QED
  BY <1>1, <1>2, <1>3, <1>4, <1>5, <1>6, <1>7, <1>8, <1>9, <1>10 DEF Starts

\* Calls that fail or that are answered leave all this alone.
LEMMA CoverEnds ==
  ASSUME IInv, CoverInv, NEW c \in Calls, Fails(c) \/ Answers(c)
  PROVE  CoverInv'
<1>1. UNCHANGED <<components, flows, threats, covered>> /\ (Ends(c) \/ Reload(c))
  BY DEF Fails, Answers, Loaded, ComponentAdded, ComponentDeleted, FlowAdded, FlowDeleted,
     Generated, ThreatUpdated, ThreatDeleted, StatusSet, AnswerLost, Reload, model
<1>2. CASE Ends(c)
  <2>1. Goes(c, [do |-> "none"]) /\ ~Reading([do |-> "none"])
    BY <1>2 DEF IInv, Ends, Goes, Reading
  <2>2. QED
    BY <1>1, <2>1, NotReading, CoverElsewhere
<1>3. CASE Reload(c)
  <2>1. PICK k: k = [do |-> "load", at |-> "read", arg |-> None, got |-> None,
                     page |-> call[c].page, number |-> call[c].number, seen |-> {}]
    OBVIOUS
  <2>2. Goes(c, k) /\ ~Reading(k)
    BY <1>3, <2>1 DEF IInv, Reload, Goes, Reading
  <2>3. QED
    BY <1>1, <2>2, NotReading, CoverElsewhere
<1>4. QED
  BY <1>1, <1>2, <1>3

\* Writes other than the insert of a generation: they shrink the model, grow the
\* threats, or say that they did not.
LEMMA CoverWrites ==
  ASSUME IInv, CoverInv, NEW c \in Calls,
         \/ AddComponentWrite(c) \/ DeleteComponentWrite(c) \/ AddFlowWrite(c) \/ DeleteFlowWrite(c)
         \/ AddThreatWrite(c) \/ UpdateThreatWrite(c) \/ DeleteThreatWrite(c) \/ SetStatusWrite(c)
  PROVE  CoverInv'
<1>1. ASSUME NEW got, Wrote(c, <<"added">>, got), Pending(c), ~covered' PROVE CoverInv'
  <2>1. \A d \in Calls: ~Reading(call'[d])
    BY <1>1, WroteReading
  <2>2. QED
    BY <1>1, <2>1 DEF CoverInv, SawAll, GenerationComplete
<1>2. ASSUME NEW what, NEW got, Wrote(c, what, got), Pending(c), UNCHANGED covered,
             Within(components', components), Within(flows', flows), References \subseteq References'
      PROVE  CoverInv'
  <2>1. \A d \in Calls: Reading(call'[d]) => Reading(call[d]) /\ call'[d].got = call[d].got
    BY <1>2, WroteReading
  <2>2. QED
    BY <1>2, <2>1, CoverKept
<1>3. CASE AddComponentWrite(c) \/ AddFlowWrite(c) \/ DeleteThreatWrite(c)
  BY <1>1, <1>3 DEF AddComponentWrite, AddFlowWrite, DeleteThreatWrite, At, Pending
<1>4. CASE DeleteComponentWrite(c)
  <2>1. Wrote(c, <<"removed">>, None) /\ Pending(c) /\ UNCHANGED <<covered, threats>>
    BY <1>4 DEF DeleteComponentWrite, At, Pending
  <2>2. Within(components', components) /\ Within(flows', flows)
    BY <1>4 DEF DeleteComponentWrite, Within, Without, Restrict
  <2>3. QED
    BY <1>2, <2>1, <2>2 DEF References
<1>5. CASE DeleteFlowWrite(c)
  <2>1. Wrote(c, <<"removed">>, None) /\ Pending(c) /\ UNCHANGED <<covered, threats, components>>
    BY <1>5 DEF DeleteFlowWrite, At, Pending
  <2>2. Within(components', components) /\ Within(flows', flows)
    BY <1>5, <2>1 DEF DeleteFlowWrite, Within, Without, Restrict
  <2>3. QED
    BY <1>2, <2>1, <2>2 DEF References
<1>6. CASE AddThreatWrite(c)
  <2>1. /\ Wrote(c, <<"added by hand">>, None) /\ Pending(c)
        /\ UNCHANGED <<covered, components, flows>> /\ DOMAIN threats \subseteq DOMAIN threats'
    BY <1>6 DEF AddThreatWrite, At, Pending, With, Joined
  <2>2. QED
    BY <1>2, <2>1 DEF References, Within
<1>7. CASE UpdateThreatWrite(c)
  <2>1. /\ Wrote(c, <<"updated", call[c].arg.row>>, call[c].arg.value) /\ Pending(c)
        /\ UNCHANGED <<covered, components, flows>> /\ DOMAIN threats' = DOMAIN threats
    BY <1>7 DEF UpdateThreatWrite, At, Pending
  <2>2. QED
    BY <1>2, <2>1 DEF References, Within
<1>8. CASE SetStatusWrite(c)
  <2>1. /\ Wrote(c, <<"status">>, None) /\ Pending(c)
        /\ UNCHANGED <<covered, components, flows, threats>>
    BY <1>8 DEF SetStatusWrite, At, Pending
  <2>2. QED
    BY <1>2, <2>1 DEF References, Within
<1>9. QED
  BY <1>3, <1>4, <1>5, <1>6, <1>7, <1>8

\* What a generation reads is there.
LEMMA CoverMoves ==
  ASSUME IInv, CoverInv, NEW c \in Calls,
         \/ AddFlowCheck(c) \/ GenerateOwner(c) \/ GenerateComponents(c) \/ GenerateFlows(c)
         \/ GenerateRefs(c) \/ UpdateThreatRead(c) \/ GetModel(c)
  PROVE  CoverInv'
<1> DEFINE k == call[c]
<1>1. UNCHANGED <<components, flows, threats, covered>>
  BY DEF model, AddFlowCheck, GenerateOwner, GenerateComponents, GenerateFlows, GenerateRefs,
         UpdateThreatRead, GetModel
<1>2. SawAll(k)
  BY DEF CoverInv
<1>3. ASSUME NEW at, NEW got, NEW seen, Goes(c, Stage(k, at, got, seen)),
             SawAll(Stage(k, at, got, seen))
      PROVE  CoverInv'
  <2>1. \A d \in Calls: SawAll(call'[d])
    BY <1>3 DEF CoverInv, Goes
  <2>2. QED
    BY <1>1, <2>1 DEF CoverInv, GenerationComplete, SawAll, References, Within
<1>4. CASE AddFlowCheck(c)
  <2>1. k.do = "addFlow" /\ Goes(c, Stage(k, "write", k.got, k.seen))
    BY <1>4, Moved
  <2>2. QED
    BY <1>3, <2>1 DEF SawAll, Reading, Stage
<1>5. CASE GenerateOwner(c)
  <2>1. Goes(c, Stage(k, "read", Unread, {}))
    BY <1>5, Moved
  <2>2. SawAll(Stage(k, "read", Unread, {}))
    BY DEF SawAll, Stage, Unread
  <2>3. QED
    BY <1>3, <2>1, <2>2
<1>6. CASE GenerateComponents(c)
  <2>1. /\ k.do = "generate" /\ k.at = "read"
        /\ Goes(c, Stage(k, "read", Got(components, k.got.flows, k.got.refs), k.seen))
    BY <1>6, Moved
  <2>2. SawAll(Stage(k, "read", Got(components, k.got.flows, k.got.refs), k.seen))
    BY <1>2, <2>1 DEF SawAll, Reading, Stage, Got, Within
  <2>3. QED
    BY <1>3, <2>1, <2>2
<1>7. CASE GenerateFlows(c)
  <2>1. /\ k.do = "generate" /\ k.at = "read"
        /\ Goes(c, Stage(k, "read", Got(k.got.components, flows, k.got.refs), k.seen))
    BY <1>7, Moved
  <2>2. SawAll(Stage(k, "read", Got(k.got.components, flows, k.got.refs), k.seen))
    BY <1>2, <2>1 DEF SawAll, Reading, Stage, Got, Within
  <2>3. QED
    BY <1>3, <2>1, <2>2
<1>8. CASE GenerateRefs(c)
  <2> DEFINE got  == Got(k.got.components, k.got.flows, References \ {<<>>})
             seen == k.seen \ {<<"generated">>}
  <2>1. k.do = "generate" /\ k.at = "read" /\ Goes(c, Stage(k, "read", got, seen))
    BY <1>8, Moved
  <2>2. <<"added">> \in k.seen => <<"added">> \in seen
    OBVIOUS
  <2>3. SawAll(Stage(k, "read", got, seen))
    <3> HIDE DEF seen
    <3>1. QED
      BY <1>2, <2>1, <2>2 DEF SawAll, Reading, Stage, Got
  <2> HIDE DEF got, seen
  <2>4. QED
    BY <1>3, <2>1, <2>3
<1>9. CASE UpdateThreatRead(c)
  <2>1. k.do = "update" /\ Goes(c, Stage(k, "write", threats[k.arg.row], {}))
    BY <1>9, Moved
  <2>2. SawAll(Stage(k, "write", threats[k.arg.row], {}))
    BY DEF SawAll, Reading, Stage
  <2>3. QED
    BY <1>3, <2>1, <2>2
<1>10. CASE GetModel(c)
  <2>1. Goes(c, Stage(k, "answer", Model, k.seen))
    BY <1>10, Moved
  <2>2. SawAll(Stage(k, "answer", Model, k.seen))
    BY DEF SawAll, Reading, Stage
  <2>3. QED
    BY <1>3, <2>1, <2>2
<1>11. QED
  BY <1>4, <1>5, <1>6, <1>7, <1>8, <1>9, <1>10

\* An insert leaves a threat of every rule of what was read, and that is no less
\* than what there is when nothing was added meanwhile.
LEMMA CoverInsert ==
  ASSUME IInv, CoverInv, NEW c \in Calls, GenerateInsert(c)
  PROVE  CoverInv'
<1> DEFINE got == call[c].got
           new == ToCreate(got)
           B   == Batch(c, new)
<1>1. /\ Pending(c) /\ Wrote(c, <<"generated">>, None) /\ UNCHANGED <<components, flows>>
      /\ call[c].do = "generate" /\ call[c].at = "read"
      /\ got.components # None /\ got.flows # None /\ got.refs # None
      /\ covered' => covered \/ <<"added">> \notin call[c].seen
      /\ threats' = Joined(threats, B)
  BY DEF GenerateInsert, At, Pending
<1>2. ASSUME NEW x \in new PROVE x[1] \in {r[1]: r \in DOMAIN B}
  <2>1. <<x[1], call[c].number>> \in DOMAIN B
    BY DEF Batch
  <2>2. <<x[1], call[c].number>>[1] = x[1]
    OBVIOUS
  <2> HIDE DEF B
  <2>3. QED
    BY <2>1, <2>2
<1> HIDE DEF B
<1>3. DOMAIN threats' = DOMAIN threats \cup DOMAIN B
  BY <1>1 DEF Joined
<1>4. References \subseteq References' /\ \A x \in new: x[1] \in References'
  BY <1>2, <1>3 DEF References
<1>5. \A d \in Calls: Reading(call'[d]) => Reading(call[d]) /\ call'[d].got = call[d].got
  BY <1>1, WroteReading
<1>6. CASE <<"added">> \notin call[c].seen
  <2>1. SawAll(call[c])
    BY DEF CoverInv
  <2>2. Within(components, got.components) /\ Within(flows, got.flows) /\ got.refs \subseteq References
    BY <1>1, <1>6, <2>1 DEF SawAll, Reading
  <2>3. /\ ComponentThreats(components) \subseteq ComponentThreats(got.components)
        /\ FlowThreats(flows) \subseteq FlowThreats(got.flows)
    BY <2>2, FewerThreats
  <2>4. ASSUME NEW x \in ComponentThreats(components) \cup FlowThreats(flows)
        PROVE  x[1] \in References'
    <3>1. x \in new \/ x[1] \in got.refs
      BY <2>3 DEF ToCreate
    <3>2. QED
      BY <1>4, <2>2, <3>1
  <2>5. GenerationComplete'
    BY <1>1, <2>4 DEF GenerationComplete, References
  <2>6. \A d \in Calls: SawAll(call[d])'
    BY <1>1, <1>4, <1>5 DEF CoverInv, SawAll, Within
  <2>7. QED
    BY <2>5, <2>6 DEF CoverInv
<1>7. CASE <<"added">> \in call[c].seen
  <2>1. Within(components', components) /\ Within(flows', flows) /\ (covered' => covered)
    BY <1>1, <1>7 DEF Within
  <2>2. QED
    BY <1>4, <1>5, <2>1, CoverKept
<1>8. QED
  BY <1>6, <1>7

\* The deletion of the model leaves nothing to cover, and tells every call.
LEMMA CoverDeleteModel ==
  ASSUME IInv, CoverInv, NEW c \in Calls, DeleteModel(c)
  PROVE  CoverInv'
<1>1. ~covered'
  BY DEF DeleteModel
<1>2. ASSUME NEW d \in Calls PROVE ~Reading(call'[d])
  <2>1. CASE Pending(d)
    <3>1. Filled(call[d])
      BY <2>1 DEF IInv, Holds, Pending
    <3>2. call'[d] = [call[d] EXCEPT !.seen = call[d].seen \cup {<<"added">>}]
      BY <2>1 DEF DeleteModel
    <3>3. <<"added">> \in call'[d].seen
      BY <3>1, <3>2, OnlySees
    <3>4. QED
      BY <3>3 DEF Reading
  <2>2. CASE ~Pending(d)
    BY <2>2 DEF DeleteModel, Reading, Pending
  <2>3. QED
    BY <2>1, <2>2
<1>3. QED
  BY <1>1, <1>2 DEF CoverInv, SawAll, GenerationComplete

\* Every step keeps a covered model covered.
LEMMA Step_CoverInv == ASSUME IInv, CoverInv, [Next]_vars PROVE CoverInv'
<1>1. CASE UNCHANGED vars
  BY <1>1, CoverElsewhere DEF vars, model
<1>2. CASE Next
  <2>1. PICK c \in Calls:
          \/ \E p \in BOOLEAN: Starts(c, p)
          \/ Open(c) \/ DeleteModel(c)
          \/ \E x \in Scores, y \in Scores: AddThreat(c, x, y)
          \/ Serves(c) \/ Answers(c)
    BY <1>2 DEF Next
  <2>2. CASE Serves(c)
    BY <2>2, CoverMoves, CoverWrites, CoverInsert, CoverEnds DEF Serves
  <2>3. QED
    BY <2>1, <2>2, CoverStarts, CoverEnds, CoverDeleteModel
<1>3. QED
  BY <1>1, <1>2

-----------------------------------------------------------------------------
(* The page's copy follows the model.                                      *)

\* The foreign keys hold when neither components nor flows change.
LEMMA GroundedKept ==
  ASSUME FlowsGrounded, UNCHANGED <<components, flows>>, used \subseteq used',
         \A d \in Calls: At(d, "addComponent", "write")'
           => (At(d, "addComponent", "write") /\ call'[d].arg = call[d].arg) \/ call'[d].arg.id \in used'
  PROVE  FlowsGrounded'
  BY DEF FlowsGrounded

\* A call of the page that is not answered yet, and no reload, finds the copy as
\* the model is.
LEMMA ShowsBefore ==
  ASSUME CopyFollows, NEW c \in Calls, OfPage(c), call[c].at # "answer", call[c].do # "load"
  PROVE  Shows(shown)
  BY DEF CopyFollows

\* What a call is to make of the copy does not change when nothing of it does.
LEMMA StillShows ==
  ASSUME NEW d \in Calls, UNCHANGED <<components, flows, threats, status, shown>>,
         call'[d] = call[d], Shows(Applied(call[d]))
  PROVE  Shows(Applied(call[d]))'
  BY Zenon DEF Shows, Applied

\* A call that begins: when the page starts one, none of the page is under way and
\* the copy is the model.
LEMMA PageBegins ==
  ASSUME IInv, PageInv, NEW c \in Calls, NEW do, NEW at, NEW arg, NEW p \in BOOLEAN,
         Begin(c, do, at, arg, p), UNCHANGED <<components, flows, threats, status, shown>>,
         used \subseteq used', do # "none", at # "answer", do = "load" => p /\ at = "read",
         do = "addThreat" => ~p,
         p /\ do = "update" => arg.field = "status",
         do = "addComponent" => arg.id \in used' \ used
  PROVE  PageInv'
<1>1. PICK k: k = [do |-> do, at |-> at, arg |-> arg, page |-> p, got |-> None,
                   number |-> started + 1, seen |-> {}]
  OBVIOUS
<1>2. /\ call' = [d \in Calls |-> IF d = c THEN k ELSE call[d]]
      /\ agrees' = (agrees /\ (p => \A d \in Calls: ~OfPage(d))) /\ ~Pending(c)
  BY <1>1 DEF IInv, Begin
<1>k. k.do = do /\ k.at = at /\ k.arg = arg /\ k.page = p /\ k.seen = {}
  BY <1>1
<1>3. FlowsGrounded'
  <2>1. \A d \in Calls: At(d, "addComponent", "write")'
          => (At(d, "addComponent", "write") /\ call'[d].arg = call[d].arg)
             \/ call'[d].arg.id \in used'
    BY <1>2, <1>k DEF At
  <2>2. QED
    BY <2>1, GroundedKept DEF PageInv
<1>4. PageCalls'
  BY <1>2, <1>k DEF PageInv, PageCalls, Pending, At, Model
<1>5. ASSUME agrees' PROVE CopyFollows'
  <2>1. CopyFollows /\ (p => \A d \in Calls: ~OfPage(d))
    BY <1>2, <1>5 DEF PageInv
  <2>2. \A d \in Calls: OfPage(d)' <=> IF d = c THEN p ELSE OfPage(d)
    BY <1>2, <1>k DEF OfPage, Pending
  <2>3. /\ shown' = [components |-> shown'.components, flows |-> shown'.flows,
                     threats |-> shown'.threats, status |-> shown'.status]
        /\ \A f \in DOMAIN shown'.flows: Tips(shown'.flows[f]) \subseteq used'
    BY <2>1 DEF CopyFollows
  <2>4. CASE p
    <3>1. Shows(shown)
      BY <2>1, <2>4 DEF CopyFollows
    <3>2. Shows(shown)'
      BY <3>1 DEF Shows
    <3>3. \A d \in Calls: OfPage(d)' => d = c
      BY <2>1, <2>2, <2>4
    <3>4. At(c, "addComponent", "write")'
            => \A f \in DOMAIN shown'.flows: call'[c].arg.id \notin Tips(shown'.flows[f])
      BY <1>2, <1>k, <2>1 DEF CopyFollows, At
    <3>5. QED
      BY <1>2, <1>k, <2>3, <2>4, <3>2, <3>3, <3>4 DEF CopyFollows
  <2>5. CASE ~p
    <3>1. \A d \in Calls: OfPage(d)' <=> OfPage(d) /\ d # c
      BY <1>2, <2>2, <2>5 DEF OfPage
    <3>2. ASSUME NEW d \in Calls, OfPage(d)'
          PROVE  /\ call'[d].seen = {} /\ \A e \in Calls: OfPage(e)' => e = d
                 /\ call'[d].at = "answer" /\ ~Reloading(call'[d]) => Shows(Applied(call[d]))'
                 /\ call'[d].do = "update" => call'[d].arg.field = "status"
                 /\ At(d, "addComponent", "write")'
                      => \A f \in DOMAIN shown'.flows: call'[d].arg.id \notin Tips(shown'.flows[f])
      <4>1. call'[d] = call[d] /\ OfPage(d)
        BY <1>2, <3>1, <3>2
      <4>2. Shows(Applied(call[d])) => Shows(Applied(call[d]))'
        BY <4>1, StillShows
      <4>3. QED
        BY <2>1, <3>1, <4>1, <4>2 DEF CopyFollows, At
    <3>3. Shows(shown) => Shows(shown)'
      BY DEF Shows
    <3>4. ASSUME \A d \in Calls: OfPage(d)' => call'[d].at # "answer" /\ call'[d].do # "load"
          PROVE  Shows(shown)'
      <4>1. \A d \in Calls: OfPage(d) => call[d].at # "answer" /\ call[d].do # "load"
        BY <1>2, <3>1, <3>4 DEF OfPage
      <4>2. QED
        BY <2>1, <3>3, <4>1 DEF CopyFollows
    <3>5. QED
      BY <2>3, <3>2, <3>4, Zenon DEF CopyFollows
  <2>6. QED
    BY <2>4, <2>5
<1>6. QED
  BY <1>3, <1>4, <1>5 DEF PageInv

\* Calls that start.
LEMMA PageStarts ==
  ASSUME IInv, PageInv, NEW c \in Calls,
         \/ \E p \in BOOLEAN: Starts(c, p)
         \/ Open(c) \/ \E x \in Scores, y \in Scores: AddThreat(c, x, y)
  PROVE  PageInv'
<1>1. ASSUME NEW p \in BOOLEAN, NEW id, NEW type, AddComponent(c, id, type, p) PROVE PageInv'
  <2>1. PICK arg: arg = [id |-> id, type |-> type]
    OBVIOUS
  <2>2. /\ Begin(c, "addComponent", "write", arg, p)
        /\ UNCHANGED <<components, flows, threats, status, shown>>
        /\ used \subseteq used' /\ arg.id \in used' \ used
    BY <1>1, <2>1 DEF AddComponent, page
  <2>3. QED
    BY <2>2, PageBegins
<1>2. ASSUME NEW p \in BOOLEAN, NEW id, DeleteComponent(c, id, p) PROVE PageInv'
  BY <1>2, PageBegins DEF DeleteComponent, model, page
<1>3. ASSUME NEW p \in BOOLEAN, NEW id, NEW x, NEW y, NEW k, AddFlow(c, id, x, y, k, p)
      PROVE  PageInv'
  <2>1. PICK arg: arg = [id |-> id, flow |-> [source |-> x, target |-> y, context |-> k]]
    OBVIOUS
  <2>2. /\ Begin(c, "addFlow", "check", arg, p)
        /\ UNCHANGED <<components, flows, threats, status, shown>> /\ used \subseteq used'
    BY <1>3, <2>1 DEF AddFlow, page
  <2>3. QED
    BY <2>2, PageBegins
<1>4. ASSUME NEW p \in BOOLEAN, NEW id, DeleteFlow(c, id, p) PROVE PageInv'
  BY <1>4, PageBegins DEF DeleteFlow, model, page
<1>5. ASSUME NEW p \in BOOLEAN, Generate(c, p) PROVE PageInv'
  BY <1>5, PageBegins DEF Generate, model, page
<1>6. ASSUME NEW p \in BOOLEAN, NEW row, NEW field, NEW value, UpdateThreat(c, row, field, value, p)
      PROVE  PageInv'
  <2>1. PICK arg: arg = [row |-> row, field |-> field, value |-> value]
    OBVIOUS
  <2>2. /\ Begin(c, "update", "read", arg, p)
        /\ UNCHANGED <<components, flows, threats, status, shown, used>>
        /\ p => arg.field = "status"
    BY <1>6, <2>1 DEF UpdateThreat, model
  <2>3. QED
    BY <2>2, PageBegins
<1>7. ASSUME NEW p \in BOOLEAN, NEW row, DeleteThreat(c, row, p) PROVE PageInv'
  BY <1>7, PageBegins DEF DeleteThreat, model, page
<1>8. ASSUME NEW p \in BOOLEAN, NEW new, SetStatus(c, new, p) PROVE PageInv'
  BY <1>8, PageBegins DEF SetStatus, model, page
<1>9. ASSUME Open(c) PROVE PageInv'
  BY <1>9, PageBegins DEF Open, model
<1>10. ASSUME NEW x, NEW y, AddThreat(c, x, y) PROVE PageInv'
  <2>1. PICK arg: arg = Scored(x, y)
    OBVIOUS
  <2>p. PICK p \in BOOLEAN: p = FALSE
    OBVIOUS
  <2>2. /\ Begin(c, "addThreat", "write", arg, p)
        /\ UNCHANGED <<components, flows, threats, status, used, shown>>
    BY <1>10, <2>1, <2>p DEF AddThreat, model, page
  <2>3. QED
    BY <2>p, <2>2, PageBegins
<1>11. QED
  BY <1>1, <1>2, <1>3, <1>4, <1>5, <1>6, <1>7, <1>8, <1>9, <1>10 DEF Starts

\* The copy after an answer has the shape of a copy, and no flows it did not have.
LEMMA AppliedIsCopy ==
  ASSUME CopyFollows, NEW k,
         k.do \in {"addComponent", "deleteComponent", "deleteFlow", "update", "deleteThreat",
                   "setStatus"}
  PROVE  LET s == Applied(k) IN
           /\ s = [components |-> s.components, flows |-> s.flows, threats |-> s.threats,
                   status |-> s.status]
           /\ \A f \in DOMAIN s.flows: f \in DOMAIN shown.flows /\ s.flows[f] = shown.flows[f]
<1>1. shown = [components |-> shown.components, flows |-> shown.flows,
               threats |-> shown.threats, status |-> shown.status]
  BY DEF CopyFollows
<1>2. CASE k.do = "addComponent"
  BY <1>1, <1>2 DEF Applied
<1>3. CASE k.do = "deleteComponent"
  BY <1>1, <1>3 DEF Applied
<1>4. CASE k.do = "deleteFlow"
  BY <1>1, <1>4 DEF Applied, Without, Restrict
<1>5. CASE k.do = "update"
  BY <1>1, <1>5 DEF Applied
<1>6. CASE k.do = "deleteThreat"
  BY <1>1, <1>6 DEF Applied
<1>7. CASE k.do = "setStatus"
  BY <1>1, <1>7 DEF Applied
<1>8. QED
  BY <1>2, <1>3, <1>4, <1>5, <1>6, <1>7

\* A call ends, and the copy is then what it was to become.
LEMMA PageEnds ==
  ASSUME IInv, PageInv, NEW c \in Calls, Pending(c), Ends(c),
         UNCHANGED <<components, flows, threats, status, used>>,
         agrees' => agrees \/ (shown' = Model /\ \A d \in Calls \ {c}: ~OfPage(d)),
         agrees' /\ agrees =>
           \/ UNCHANGED shown /\ call[c].at # "answer" /\ call[c].do # "load"
           \/ /\ shown' = Applied(call[c]) /\ call[c].at = "answer"
              /\ call[c].do \in {"addComponent", "deleteComponent", "deleteFlow", "update",
                                 "deleteThreat", "setStatus"}
           \/ shown' = Model /\ OfPage(c)
  PROVE  PageInv'
<1>1. call' = [d \in Calls |-> IF d = c THEN [do |-> "none"] ELSE call[d]]
  BY DEF IInv, Ends
<1>2. /\ \A d \in Calls: Pending(d)' <=> Pending(d) /\ d # c
      /\ \A d \in Calls: OfPage(d)' <=> OfPage(d) /\ d # c
      /\ \A d \in Calls: d # c => call'[d] = call[d]
  BY <1>1 DEF Pending, OfPage
<1>3. FlowsGrounded'
  <2>1. \A d \in Calls: At(d, "addComponent", "write")'
          => At(d, "addComponent", "write") /\ call'[d].arg = call[d].arg
    BY <1>1 DEF At
  <2>2. QED
    BY <2>1, GroundedKept DEF PageInv
<1>4. PageCalls'
  BY <1>2 DEF PageInv, PageCalls, At, Model
<1>5. shown' = Model => Shows(shown)' /\ shown' = [components |-> shown'.components,
        flows |-> shown'.flows, threats |-> shown'.threats, status |-> shown'.status]
        /\ \A f \in DOMAIN shown'.flows: Tips(shown'.flows[f]) \subseteq used'
  BY DEF PageInv, FlowsGrounded, Model, Shows, Restrict
<1>6. ASSUME agrees' PROVE CopyFollows'
  <2>1. CASE shown' = Model /\ \A d \in Calls \ {c}: ~OfPage(d)
    BY <1>2, <1>5, <2>1 DEF CopyFollows
  <2>2. CASE agrees
    <3>1. CopyFollows
      BY <2>2 DEF PageInv
    <3>2. CASE OfPage(c)
      <4>1. \A d \in Calls: ~OfPage(d)'
        BY <1>2, <3>1, <3>2 DEF CopyFollows
      <4>2. CASE UNCHANGED shown /\ call[c].at # "answer" /\ call[c].do # "load"
        <5>1. Shows(shown)
          BY <3>1, <3>2, <4>2, ShowsBefore
        <5>2. Shows(shown)'
          BY <4>2, <5>1 DEF Shows
        <5>3. QED
          BY <3>1, <4>1, <4>2, <5>2 DEF CopyFollows
      <4>3. CASE /\ shown' = Applied(call[c]) /\ call[c].at = "answer"
                 /\ call[c].do \in {"addComponent", "deleteComponent", "deleteFlow", "update",
                                    "deleteThreat", "setStatus"}
        <5>1. Shows(Applied(call[c]))
          BY <3>1, <3>2, <4>3 DEF CopyFollows, Reloading
        <5>2. Shows(shown)'
          BY <4>3, <5>1 DEF Shows
        <5>3. /\ shown' = [components |-> shown'.components, flows |-> shown'.flows,
                           threats |-> shown'.threats, status |-> shown'.status]
              /\ \A f \in DOMAIN shown'.flows:
                   f \in DOMAIN shown.flows /\ shown'.flows[f] = shown.flows[f]
          BY <3>1, <4>3, AppliedIsCopy
        <5>4. \A f \in DOMAIN shown'.flows: Tips(shown'.flows[f]) \subseteq used'
          BY <3>1, <5>3 DEF CopyFollows
        <5>5. QED
          BY <4>1, <5>2, <5>3, <5>4 DEF CopyFollows
      <4>4. CASE shown' = Model
        BY <1>5, <4>1, <4>4 DEF CopyFollows
      <4>5. QED
        BY <1>6, <2>2, <4>2, <4>3, <4>4
    <3>3. CASE ~OfPage(c)
      <4>1. call[c].at # "answer" /\ call[c].do # "load"
        BY <3>3 DEF PageInv, PageCalls, OfPage
      <4>2. UNCHANGED shown
        BY <1>6, <2>2, <3>3, <4>1
      <4>3. \A d \in Calls: (OfPage(d)' <=> OfPage(d)) /\ (OfPage(d) => call'[d] = call[d])
        BY <1>2, <3>3
      <4>4. ASSUME NEW d \in Calls, OfPage(d), Shows(Applied(call[d]))
            PROVE  Shows(Applied(call[d]))'
        <5>1. call'[d] = call[d]
          BY <4>3, <4>4
        <5>2. QED
          BY <4>2, <4>4, <5>1, StillShows
      <4>5. Shows(shown) => Shows(shown)'
        BY <4>2 DEF Shows
      <4>6. QED
        BY <3>1, <4>2, <4>3, <4>4, <4>5 DEF CopyFollows, At
    <3>4. QED
      BY <3>2, <3>3
  <2>3. QED
    BY <1>6, <2>1, <2>2
<1>7. QED
  BY <1>3, <1>4, <1>6 DEF PageInv

\* A handler that goes on with a reload leaves the copy to it.
LEMMA PageReloads ==
  ASSUME IInv, PageInv, NEW c \in Calls, Pending(c), call[c].at = "answer", Reload(c)
  PROVE  PageInv'
<1>1. PICK k: k = [do |-> "load", at |-> "read", arg |-> None, got |-> None,
                   page |-> call[c].page, number |-> call[c].number, seen |-> {}]
  OBVIOUS
<1>2. /\ call' = [d \in Calls |-> IF d = c THEN k ELSE call[d]]
      /\ UNCHANGED <<components, flows, threats, status, used, shown, agrees>>
  BY <1>1 DEF IInv, Reload, model
<1>k. k.do = "load" /\ k.at = "read" /\ k.page = call[c].page /\ k.seen = {}
  BY <1>1
<1>3. OfPage(c) /\ call[c].page \in BOOLEAN
  BY DEF PageInv, PageCalls, OfPage
<1>4. \A d \in Calls: (Pending(d)' <=> Pending(d)) /\ (OfPage(d)' <=> OfPage(d))
  BY <1>2, <1>k DEF Pending, OfPage
<1>5. FlowsGrounded'
  <2>1. \A d \in Calls: At(d, "addComponent", "write")'
          => At(d, "addComponent", "write") /\ call'[d].arg = call[d].arg
    BY <1>2, <1>k DEF At
  <2>2. QED
    BY <1>2, <2>1, GroundedKept DEF PageInv
<1>6. PageCalls'
  BY <1>2, <1>k, <1>3, <1>4 DEF PageInv, PageCalls, At, Model, OfPage
<1>7. ASSUME agrees PROVE CopyFollows'
  <2>1. CopyFollows /\ \A d \in Calls: OfPage(d) => d = c
    BY <1>3, <1>7 DEF PageInv, CopyFollows
  <2>2. \A d \in Calls: OfPage(d)' => d = c
    BY <1>4, <2>1
  <2>3. QED
    BY <1>2, <1>k, <1>3, <1>4, <2>1, <2>2 DEF CopyFollows, At
<1>8. QED
  BY <1>2, <1>5, <1>6, <1>7 DEF PageInv

\* Calls that fail, and answers.
LEMMA PageAnswers ==
  ASSUME IInv, PageInv, NEW c \in Calls, Fails(c) \/ Answers(c)
  PROVE  PageInv'
<1> DEFINE Six == {"addComponent", "deleteComponent", "deleteFlow", "update", "deleteThreat",
                   "setStatus"}
           Kept == UNCHANGED <<components, flows, threats, status, used>>
<1>1. CASE FlowAdded(c) \/ Generated(c)
  BY <1>1, PageReloads DEF FlowAdded, Generated, At, Pending
<1>2. ASSUME shown' = Applied(call[c]), call[c].at = "answer", call[c].do \in Six, Ends(c), Kept,
             UNCHANGED agrees
      PROVE  PageInv'
  <2>1. Pending(c)
    BY <1>2 DEF Pending
  <2>2. QED
    BY <1>2, <2>1, PageEnds
<1>3. CASE ComponentAdded(c)
  BY <1>2, <1>3 DEF ComponentAdded, Applied, At, model
<1>4. CASE ComponentDeleted(c)
  BY <1>2, <1>4 DEF ComponentDeleted, Applied, At, model
<1>5. CASE FlowDeleted(c)
  BY <1>2, <1>5 DEF FlowDeleted, Applied, At, model
<1>6. CASE ThreatUpdated(c)
  BY <1>2, <1>6 DEF ThreatUpdated, Applied, At, model
<1>7. CASE ThreatDeleted(c)
  BY <1>2, <1>7 DEF ThreatDeleted, Applied, At, model
<1>8. CASE StatusSet(c)
  BY <1>2, <1>8 DEF StatusSet, Applied, At, model
<1>9. CASE Loaded(c)
  <2>1. /\ At(c, "load", "answer") /\ Pending(c) /\ shown' = call[c].got /\ Ends(c) /\ Kept
        /\ agrees' = (agrees \/ (call[c].seen = {} /\ \A d \in Calls \ {c}: ~OfPage(d)))
    BY <1>9 DEF Loaded, At, Pending, model
  <2>2. OfPage(c) /\ (call[c].seen = {} => shown' = Model)
    BY <2>1 DEF PageInv, PageCalls, OfPage, At
  <2>3. agrees => call[c].seen = {}
    BY <2>2 DEF PageInv, CopyFollows
  <2>4. agrees' => agrees \/ (shown' = Model /\ \A d \in Calls \ {c}: ~OfPage(d))
    BY <2>1, <2>2
  <2>5. agrees' /\ agrees => shown' = Model /\ OfPage(c)
    BY <2>2, <2>3
  <2>6. QED
    BY <2>1, <2>4, <2>5, PageEnds
<1>10. CASE AnswerLost(c)
  <2>1. Pending(c) /\ Ends(c) /\ Kept /\ ~agrees'
    BY <1>10 DEF AnswerLost, model
  <2>2. QED
    BY <2>1, PageEnds
<1>11. CASE Fails(c)
  <2>1. /\ Pending(c) /\ Ends(c) /\ Kept /\ UNCHANGED shown /\ call[c].at # "answer"
        /\ agrees' = (agrees /\ ~At(c, "load", "read"))
    BY <1>11 DEF Fails, model
  <2>2. call[c].do = "load" => call[c].at \in {"read", "answer"}
    BY <2>1 DEF PageInv, PageCalls
  <2>3. QED
    BY <2>1, <2>2, PageEnds DEF At
<1>12. QED
  BY <1>1, <1>3, <1>4, <1>5, <1>6, <1>7, <1>8, <1>9, <1>10, <1>11 DEF Answers

\* A call that only goes on leaves the copy and the model alone; a load has read
\* the model as it is.
LEMMA PageMoves ==
  ASSUME IInv, PageInv, NEW c \in Calls,
         \/ AddFlowCheck(c) \/ GenerateOwner(c) \/ GenerateComponents(c) \/ GenerateFlows(c)
         \/ GenerateRefs(c) \/ UpdateThreatRead(c) \/ GetModel(c)
  PROVE  PageInv'
<1> DEFINE k == call[c]
<1>1. UNCHANGED <<components, flows, threats, status, used, shown, agrees>>
  BY DEF model, page, AddFlowCheck, GenerateOwner, GenerateComponents, GenerateFlows,
        GenerateRefs,
         UpdateThreatRead, GetModel
<1>2. \E at, got, seen:
        /\ Goes(c, Stage(k, at, got, seen))
        /\ k.do \in {"addFlow", "generate", "update", "load"} /\ k.at # "answer"
        /\ seen = {} \/ seen \subseteq k.seen
        /\ (k.do # "load" /\ at # "answer") \/ (k.do = "load" /\ at = "answer" /\ got = Model)
  <2>1. CASE AddFlowCheck(c)
    <3>1. k.do = "addFlow" /\ k.at = "check" /\ Goes(c, Stage(k, "write", k.got, k.seen))
      BY <2>1, Moved DEF AddFlowCheck, At
    <3>2. QED
      BY <3>1
  <2>2. CASE GenerateOwner(c)
    <3>1. k.do = "generate" /\ k.at = "start" /\ Goes(c, Stage(k, "read", Unread, {}))
      BY <2>2, Moved
    <3>2. QED
      BY <3>1
  <2>3. CASE GenerateComponents(c)
    <3>1. \E got: k.do = "generate" /\ k.at = "read" /\ Goes(c, Stage(k, "read", got, k.seen))
      BY <2>3, Moved
    <3>2. QED
      BY <3>1
  <2>4. CASE GenerateFlows(c)
    <3>1. \E got: k.do = "generate" /\ k.at = "read" /\ Goes(c, Stage(k, "read", got, k.seen))
      BY <2>4, Moved
    <3>2. QED
      BY <3>1
  <2>5. CASE GenerateRefs(c)
    <3>1. \E got: /\ k.do = "generate" /\ k.at = "read"
                  /\ Goes(c, Stage(k, "read", got, k.seen \ {<<"generated">>}))
      BY <2>5, Moved
    <3>2. PICK seen: seen = k.seen \ {<<"generated">>} /\ seen \subseteq k.seen
      OBVIOUS
    <3>3. QED
      BY <3>1, <3>2
  <2>6. CASE UpdateThreatRead(c)
    <3>1. k.do = "update" /\ k.at = "read" /\ Goes(c, Stage(k, "write", threats[k.arg.row], {}))
      BY <2>6, Moved
    <3>2. QED
      BY <3>1
  <2>7. CASE GetModel(c)
    <3>1. k.do = "load" /\ k.at = "read" /\ Goes(c, Stage(k, "answer", Model, k.seen))
      BY <2>7, Moved DEF GetModel, At
    <3>2. QED
      BY <3>1
  <2>8. QED
    BY <2>1, <2>2, <2>3, <2>4, <2>5, <2>6, <2>7
<1>3. PICK l: /\ Goes(c, l) /\ l.do = k.do /\ l.arg = k.arg /\ l.page = k.page
              /\ k.do \in {"addFlow", "generate", "update", "load"} /\ k.at # "answer"
              /\ l.seen = {} \/ l.seen \subseteq k.seen
              /\ (k.do # "load" /\ l.at # "answer") \/ (k.do = "load" /\ l.at = "answer" /\ l.got = Model)
  BY <1>2 DEF Stage
<1>4. /\ \A d \in Calls: call'[d] = IF d = c THEN l ELSE call[d]
      /\ \A d \in Calls: (Pending(d)' <=> Pending(d)) /\ (OfPage(d)' <=> OfPage(d))
  BY <1>3 DEF Goes, Pending, OfPage
<1>5. FlowsGrounded'
  <2>1. \A d \in Calls: At(d, "addComponent", "write")'
          => At(d, "addComponent", "write") /\ call'[d].arg = call[d].arg
    BY <1>3, <1>4 DEF At
  <2>2. QED
    BY <1>1, <2>1, GroundedKept DEF PageInv
<1>6. PageCalls'
  BY <1>1, <1>3, <1>4 DEF PageInv, PageCalls, At, Model
<1>7. ASSUME agrees PROVE CopyFollows'
  <2>1. CopyFollows
    BY <1>7 DEF PageInv
  <2>2. ASSUME NEW d \in Calls, d # c, Shows(Applied(call[d])) PROVE Shows(Applied(call[d]))'
    <3>1. call'[d] = call[d]
      BY <1>4, <2>2
    <3>2. QED
      BY <1>1, <2>2, <3>1, StillShows
  <2>3. ASSUME NEW d \in Calls, OfPage(d)'
        PROVE  /\ call'[d].seen = {} /\ \A e \in Calls: OfPage(e)' => e = d
               /\ call'[d].at = "answer" /\ ~Reloading(call'[d]) => Shows(Applied(call[d]))'
               /\ call'[d].do = "update" => call'[d].arg.field = "status"
               /\ At(d, "addComponent", "write")'
                    => \A f \in DOMAIN shown'.flows: call'[d].arg.id \notin Tips(shown'.flows[f])
    BY <1>1, <1>3, <1>4, <2>1, <2>2, <2>3 DEF CopyFollows, Reloading, At
  <2>4. ASSUME \A d \in Calls: OfPage(d)' => call'[d].at # "answer" /\ call'[d].do # "load"
        PROVE  Shows(shown)'
    <3>1. \A d \in Calls: OfPage(d) => call[d].at # "answer" /\ call[d].do # "load"
      BY <1>3, <1>4, <2>4
    <3>2. QED
      BY <1>1, <2>1, <3>1 DEF CopyFollows, Shows
  <2>5. /\ shown' = [components |-> shown'.components, flows |-> shown'.flows,
                     threats |-> shown'.threats, status |-> shown'.status]
        /\ \A f \in DOMAIN shown'.flows: Tips(shown'.flows[f]) \subseteq used'
    BY <1>1, <2>1 DEF CopyFollows
  <2>6. QED
    BY <2>3, <2>4, <2>5, Zenon DEF CopyFollows
<1>8. QED
  BY <1>1, <1>5, <1>6, <1>7 DEF PageInv

\* A call that writes: the page then waits for an answer whose application makes
\* its copy the model.
LEMMA PageWrites ==
  ASSUME IInv, PageInv, NEW c \in Calls, Pending(c), call[c].at # "answer", call[c].do # "load",
         NEW what, NEW got, Wrote(c, what, got), FlowsGrounded', UNCHANGED used,
         CopyFollows /\ OfPage(c) /\ ~Reloading(call[c]) /\ Shows(shown)
           /\ call'[c] = Stage(call[c], "answer", got, call[c].seen) => Shows(Applied(call[c]))'
  PROVE  PageInv'
<1> DEFINE k == call[c]
<1>0. agrees' = (agrees /\ k.page) /\ UNCHANGED shown
  BY DEF Wrote, page
<1>1. /\ \A d \in Calls \ {c}: /\ SeesMore(call[d], call'[d])
                               /\ Pending(d) => what \in call'[d].seen
      /\ agrees' = (agrees /\ k.page) /\ UNCHANGED shown
  BY <1>0, Writes
<1>a. ASSUME NEW d \in Calls, d # c
      PROVE  SeesMore(call[d], call'[d]) /\ (Pending(d) => what \in call'[d].seen)
  <2>1. d \in Calls \ {c}
    BY <1>a
  <2>2. QED
    BY <1>1, <2>1, Zenon
<1>2. Filled(k) /\ k.page \in BOOLEAN
  BY DEF IInv, Holds, Pending, PageInv, PageCalls
<1>3. call'[c] = IF k.page THEN Stage(k, "answer", got, k.seen) ELSE [do |-> "none"]
  <2>1. call'[c] = IF k.page THEN [k EXCEPT !.at = "answer", !.got = got] ELSE [do |-> "none"]
    BY DEF Wrote
  <2>2. [k EXCEPT !.at = "answer", !.got = got] = Stage(k, "answer", got, k.seen)
    BY <1>2, Staged, Zenon
  <2>3. QED
    BY <2>1, <2>2
<1>4. PageCalls'
  <2>1. ASSUME NEW d \in Calls, Pending(d)', d # c
        PROVE  /\ call'[d].page \in BOOLEAN
               /\ call'[d].at = "answer" \/ call'[d].do = "load" => call'[d].page
               /\ call'[d].do = "load" => call'[d].at \in {"read", "answer"}
               /\ call'[d].do = "addThreat" => ~call'[d].page
               /\ call'[d].seen # {}
    BY <1>a, <2>1 DEF SeesMore, Pending, PageInv, PageCalls
  <2>2. ASSUME Pending(c)' PROVE call'[c].page \in BOOLEAN /\ call'[c].page /\ call'[c].do = k.do
    BY <1>2, <1>3, <2>2 DEF Stage, Pending
  <2>3. k.do # "load" /\ (k.do = "addThreat" => ~k.page)
    BY DEF PageInv, PageCalls
  <2>4. Pending(c)' => k.page
    BY <1>3 DEF Pending
  <2>5. QED
    BY <2>1, <2>2, <2>3, <2>4 DEF PageCalls, At
<1>5. ASSUME agrees' PROVE CopyFollows'
  <2>1. k.page /\ CopyFollows /\ OfPage(c)
    BY <1>1, <1>5 DEF PageInv, OfPage
  <2>2. Shows(shown)
    BY <2>1, ShowsBefore
  <2>3. call'[c] = Stage(k, "answer", got, k.seen)
    BY <1>3, <2>1
  <2>4. ASSUME NEW d \in Calls, OfPage(d)' PROVE d = c
    BY <1>a, <2>1, <2>4 DEF SeesMore, OfPage, Pending, CopyFollows
  <2>5. /\ call'[c].do = k.do /\ call'[c].at = "answer" /\ call'[c].seen = {}
        /\ call'[c].arg = k.arg /\ OfPage(c)'
    BY <2>1, <2>3 DEF Stage, OfPage, Pending, CopyFollows
  <2>6. ~Reloading(k) => Shows(Applied(call[c]))'
    BY <2>1, <2>2, <2>3
  <2>7. /\ shown' = [components |-> shown'.components, flows |-> shown'.flows,
                     threats |-> shown'.threats, status |-> shown'.status]
        /\ \A f \in DOMAIN shown'.flows: Tips(shown'.flows[f]) \subseteq used'
    BY <1>1, <2>1 DEF CopyFollows
  <2>8. /\ call'[c].do = "update" => call'[c].arg.field = "status"
        /\ Reloading(call'[c]) <=> Reloading(k)
        /\ ~At(c, "addComponent", "write")'
    BY <2>1, <2>5 DEF CopyFollows, Reloading, At
  <2>9. QED
    BY <2>4, <2>5, <2>6, <2>7, <2>8 DEF CopyFollows
<1>6. QED
  BY <1>4, <1>5 DEF PageInv

\* A call that was under way when another wrote is the same call.
LEMMA StillAdding ==
  ASSUME IInv, NEW c \in Calls, Pending(c), call[c].do # "addComponent" \/ call[c].at # "answer",
         NEW what, NEW got, Wrote(c, what, got), NEW d \in Calls, At(d, "addComponent", "write")'
  PROVE  At(d, "addComponent", "write") /\ call'[d].arg = call[d].arg
<1>1. CASE d = c
  <2>1. call'[c] = IF call[c].page THEN [call[c] EXCEPT !.at = "answer", !.got = got]
                   ELSE [do |-> "none"]
    BY DEF Wrote
  <2>2. Filled(call[c])
    BY DEF IInv, Holds, Pending
  <2>3. call'[c] = Stage(call[c], "answer", got, call[c].seen) \/ call'[c] = [do |-> "none"]
    BY <2>1, <2>2, Staged, Zenon
  <2>4. QED
    BY <1>1, <2>3 DEF Stage, At
<1>2. CASE d # c
  <2>1. d \in Calls \ {c}
    BY <1>2
  <2>2. SeesMore(call[d], call'[d])
    BY <2>1, Writes, Zenon
  <2>3. QED
    BY <2>2 DEF SeesMore, At
<1>3. QED
  BY <1>1, <1>2

\* The foreign keys hold whatever is written: a flow is only added between components,
\* and a component's flows go with it.
LEMMA GroundedWrites ==
  ASSUME IInv, PageInv, NEW c \in Calls,
         \/ AddComponentWrite(c) \/ DeleteComponentWrite(c) \/ AddFlowWrite(c) \/ DeleteFlowWrite(c)
         \/ AddThreatWrite(c) \/ UpdateThreatWrite(c) \/ DeleteThreatWrite(c) \/ SetStatusWrite(c)
         \/ GenerateInsert(c)
  PROVE  FlowsGrounded' /\ UNCHANGED used
<1> DEFINE a == call[c].arg
<1>1. FlowsGrounded
  BY DEF PageInv
<1>2. \A d \in Calls: At(d, "addComponent", "write")'
        => At(d, "addComponent", "write") /\ call'[d].arg = call[d].arg
  BY StillAdding DEF AddComponentWrite, DeleteComponentWrite, AddFlowWrite, DeleteFlowWrite,
     AddThreatWrite, UpdateThreatWrite, DeleteThreatWrite, SetStatusWrite, GenerateInsert, At, Pending
<1>3. CASE AddComponentWrite(c)
  <2>1. /\ a.id \in used /\ UNCHANGED <<flows, used>>
        /\ DOMAIN components' = DOMAIN components \cup {a.id}
    BY <1>1, <1>3 DEF AddComponentWrite, FlowsGrounded, With, Joined
  <2>2. QED
    BY <1>1, <1>2, <2>1 DEF FlowsGrounded
<1>4. CASE DeleteComponentWrite(c)
  <2>1. /\ DOMAIN components' = DOMAIN components \ {a.id}
        /\ flows' = [f \in DOMAIN flows \ {f \in DOMAIN flows: a.id \in Tips(flows[f])} |-> flows[f]]
        /\ UNCHANGED used
    BY <1>4 DEF DeleteComponentWrite, Without, Restrict, Tips
  <2>2. QED
    BY <1>1, <1>2, <2>1 DEF FlowsGrounded
<1>5. CASE AddFlowWrite(c)
  <2>1. /\ flows' = [f \in DOMAIN flows \cup {a.id} |-> IF f = a.id THEN a.flow ELSE flows[f]]
        /\ Tips(a.flow) \subseteq DOMAIN components /\ UNCHANGED <<components, used>>
    BY <1>5 DEF AddFlowWrite, With, Joined, Tips
  <2>2. QED
    BY <1>1, <1>2, <2>1 DEF FlowsGrounded
<1>6. CASE DeleteFlowWrite(c)
  <2>1. /\ flows' = [f \in DOMAIN flows \ {a.id} |-> flows[f]] /\ UNCHANGED <<components, used>>
    BY <1>6 DEF DeleteFlowWrite, Without, Restrict
  <2>2. QED
    BY <1>1, <1>2, <2>1 DEF FlowsGrounded
<1>7. CASE \/ AddThreatWrite(c) \/ UpdateThreatWrite(c) \/ DeleteThreatWrite(c) \/ SetStatusWrite(c)
           \/ GenerateInsert(c)
  <2>1. UNCHANGED <<components, flows, used>>
    BY <1>7
      DEF AddThreatWrite, UpdateThreatWrite, DeleteThreatWrite, SetStatusWrite, GenerateInsert
  <2>2. QED
    BY <1>1, <1>2, <2>1, GroundedKept
<1>8. QED
  BY <1>3, <1>4, <1>5, <1>6, <1>7

\* What ThreatUpdated and ComponentDeleted make of the copy.
LEMMA AppliedUpdate ==
  ASSUME NEW c \in Calls, UNCHANGED shown, call'[c].do = "update",
         call'[c].arg.row \in DOMAIN shown.threats
  PROVE  Applied(call[c])' = [shown EXCEPT !.threats[call'[c].arg.row].status = call'[c].got]
  BY DEF Applied

\* The same of a deleted component.
LEMMA AppliedDelete ==
  ASSUME NEW c \in Calls, UNCHANGED shown, call'[c].do = "deleteComponent"
  PROVE  Applied(call[c])' = [shown EXCEPT !.components = Without(@, {call'[c].arg.id})]
  BY DEF Applied

\* What the page makes of the answer to each write is what was written.
LEMMA AppliesWrite ==
  ASSUME IInv, CopyFollows, NEW c \in Calls, OfPage(c), Shows(shown), UNCHANGED shown, NEW got,
         call'[c] = Stage(call[c], "answer", got, call[c].seen),
         \/ AddComponentWrite(c) \/ DeleteComponentWrite(c) \/ DeleteFlowWrite(c)
         \/ UpdateThreatWrite(c) /\ got = call[c].arg.value
         \/ DeleteThreatWrite(c) \/ SetStatusWrite(c)
  PROVE  Shows(Applied(call[c]))'
<1> DEFINE a == call[c].arg
           s == Applied(call[c])'
<1>1. /\ call'[c].do = call[c].do /\ call'[c].arg = a /\ call'[c].got = got
      /\ shown = [components |-> components, flows |-> shown.flows,
                  threats |-> threats, status |-> status]
      /\ flows = [f \in {f \in DOMAIN shown.flows: Tips(shown.flows[f]) \subseteq DOMAIN components}
                    |-> shown.flows[f]]
  BY DEF CopyFollows, Stage, Shows, Restrict
<1>2. CASE AddComponentWrite(c)
  <2>1. /\ At(c, "addComponent", "write") /\ UNCHANGED <<flows, threats, status>>
        /\ components' = With(components, a.id, a.type)
        /\ DOMAIN components' = DOMAIN components \cup {a.id}
    BY <1>2 DEF AddComponentWrite, With, Joined
  <2>2. s = [components |-> With(components, a.id, a.type), flows |-> shown.flows,
             threats |-> threats, status |-> status]
    BY <1>1, <2>1, SMTT(20) DEF Applied, At
  <2>3. \A f \in DOMAIN shown.flows: a.id \notin Tips(shown.flows[f])
    BY <2>1 DEF CopyFollows
  <2>4. {f \in DOMAIN shown.flows: Tips(shown.flows[f]) \subseteq DOMAIN components'}
          = {f \in DOMAIN shown.flows: Tips(shown.flows[f]) \subseteq DOMAIN components}
    BY <2>1, <2>3
  <2>5. QED
    BY <1>1, <2>1, <2>2, <2>4 DEF Shows, Restrict
<1>3. CASE DeleteComponentWrite(c)
  <2>1. /\ At(c, "deleteComponent", "write") /\ UNCHANGED <<threats, status>>
        /\ components' = [x \in DOMAIN components \ {a.id} |-> components[x]]
        /\ flows' = [f \in DOMAIN flows \ {f \in DOMAIN flows: a.id \in Tips(flows[f])} |-> flows[f]]
    BY <1>3 DEF DeleteComponentWrite, Without, Restrict, Tips
  <2>2. s = [components |-> [x \in DOMAIN components \ {a.id} |-> components[x]],
             flows |-> shown.flows, threats |-> threats, status |-> status]
    <3>1. call'[c].do = "deleteComponent" /\ call'[c].arg.id = a.id
      BY <1>1, <2>1 DEF At
    <3>2. s = [shown EXCEPT !.components = Without(shown.components, {call'[c].arg.id})]
      BY <3>1, AppliedDelete
    <3>3. QED
      BY <1>1, <3>1, <3>2 DEF Without, Restrict
  <2>3. DOMAIN flows \ {f \in DOMAIN flows: a.id \in Tips(flows[f])}
          = {f \in DOMAIN shown.flows: Tips(shown.flows[f]) \subseteq DOMAIN components'}
    BY <1>1, <2>1
  <2>4. flows' = [f \in {f \in DOMAIN shown.flows: Tips(shown.flows[f]) \subseteq DOMAIN components'}
                    |-> shown.flows[f]]
    BY <1>1, <2>1, <2>3
  <2>5. QED
    BY <2>1, <2>2, <2>4 DEF Shows, Restrict
<1>4. CASE DeleteFlowWrite(c)
  <2>1. /\ At(c, "deleteFlow", "write") /\ UNCHANGED <<components, threats, status>>
        /\ flows' = [f \in DOMAIN flows \ {a.id} |-> flows[f]]
    BY <1>4 DEF DeleteFlowWrite, Without, Restrict
  <2>2. s = [components |-> components, threats |-> threats, status |-> status,
             flows |-> [f \in DOMAIN shown.flows \ {a.id} |-> shown.flows[f]]]
    BY <1>1, <2>1, SMTT(20) DEF Applied, At, Without, Restrict
  <2>3. QED
    BY <1>1, <2>1, <2>2 DEF Shows, Restrict
<1>5. CASE UpdateThreatWrite(c) /\ got = a.value
  <2>1. /\ At(c, "update", "write") /\ UNCHANGED <<components, flows, status>>
        /\ a.row \in DOMAIN threats /\ a.field = "status"
        /\ threats' = [threats EXCEPT ![a.row] = Changed(call[c].got, "status", a.value)]
    BY <1>5 DEF UpdateThreatWrite, At, CopyFollows
  <2>2. call[c].got = threats[a.row] /\ Row(threats[a.row])
    <3>1. /\ Row(call[c].got) /\ Row(threats[a.row])
          /\ <<"updated", a.row>> \notin call[c].seen
               => \A f \in Fields: call[c].got[f] = threats[a.row][f]
      BY <2>1 DEF IInv, Holds, RowsScored, At
    <3>2. call[c].seen = {}
      BY DEF CopyFollows
    <3>3. QED
      BY <3>1, <3>2 DEF Row, Fields
  <2>3. Changed(threats[a.row], "status", a.value) = [threats[a.row] EXCEPT !.status = a.value]
    <3>1. PICK t: t = threats[a.row] /\ Row(t)
      BY <2>2
    <3>2. [t EXCEPT !["status"] = a.value] = [status |-> a.value, likelihood |-> t.likelihood,
             impact |-> t.impact, riskScore |-> t.likelihood * t.impact]
      BY <3>1 DEF Row
    <3>3. PICK u: u = [t EXCEPT !["status"] = a.value]
      OBVIOUS
    <3>4. Changed(t, "status", a.value) = [u EXCEPT !.riskScore = u.likelihood * u.impact]
      BY <3>3, Zenon DEF Changed
    <3>5. [u EXCEPT !.riskScore = u.likelihood * u.impact] = u
      BY <3>2, <3>3
    <3>6. [t EXCEPT !.status = a.value] = [status |-> a.value, likelihood |-> t.likelihood,
             impact |-> t.impact, riskScore |-> t.likelihood * t.impact]
      BY <3>1 DEF Row
    <3>7. Changed(t, "status", a.value) = u
      BY <3>4, <3>5, Zenon
    <3>8. u = [t EXCEPT !.status = a.value]
      BY <3>2, <3>3, <3>6, Zenon
    <3>9. Changed(t, "status", a.value) = [t EXCEPT !.status = a.value]
      BY <3>7, <3>8, Zenon
    <3>10. t = threats[a.row]
      BY <3>1
    <3>11. QED
      BY <3>9, <3>10, Zenon
  <2>4. s = [components |-> components, flows |-> shown.flows, status |-> status,
             threats |-> [threats EXCEPT ![a.row] = [threats[a.row] EXCEPT !.status = a.value]]]
    <3>1. /\ call'[c].do = "update" /\ call'[c].arg.row = a.row /\ call'[c].got = a.value
          /\ a.row \in DOMAIN shown.threats
      BY <1>1, <1>5, <2>1 DEF At
    <3>2. s = [shown EXCEPT !.threats[a.row].status = a.value]
      BY <3>1, AppliedUpdate, SMTT(20)
    <3>3. QED
      BY <1>1, <3>2
  <2>a. PICK new: new = [threats EXCEPT ![a.row] = [threats[a.row] EXCEPT !.status = a.value]]
    OBVIOUS
  <2>b. threats' = new
    BY <2>1, <2>2, <2>3, <2>a, Zenon
  <2>c. s = [components |-> components, flows |-> shown.flows, status |-> status, threats |-> new]
    BY <2>4, <2>a, Zenon
  <2>5. UNCHANGED <<components, flows, status>>
    BY <2>1
  <2>6. QED
    BY <1>1, <2>5, <2>b, <2>c DEF Shows, Restrict
<1>6. CASE DeleteThreatWrite(c)
  <2>1. /\ At(c, "deleteThreat", "write") /\ UNCHANGED <<components, flows, status>>
        /\ threats' = [r \in DOMAIN threats \ {a.row} |-> threats[r]]
    BY <1>6 DEF DeleteThreatWrite, Without, Restrict
  <2>2. s = [components |-> components, flows |-> shown.flows, status |-> status,
             threats |-> [r \in DOMAIN threats \ {a.row} |-> threats[r]]]
    BY <1>1, <2>1 DEF Applied, At, Without, Restrict
  <2>3. QED
    BY <1>1, <2>1, <2>2 DEF Shows, Restrict
<1>7. CASE SetStatusWrite(c)
  <2>1. /\ At(c, "setStatus", "write") /\ UNCHANGED <<components, flows, threats>>
        /\ status' = a
    BY <1>7 DEF SetStatusWrite
  <2>2. s = [components |-> components, flows |-> shown.flows, status |-> a, threats |-> threats]
    BY <1>1, <2>1 DEF Applied, At
  <2>3. QED
    BY <1>1, <2>1, <2>2 DEF Shows, Restrict
<1>8. QED
  BY <1>2, <1>3, <1>4, <1>5, <1>6, <1>7

\* Every write keeps the copy, or has the page's answer to come.
LEMMA PageServes ==
  ASSUME IInv, PageInv, NEW c \in Calls,
         \/ AddComponentWrite(c) \/ DeleteComponentWrite(c) \/ AddFlowWrite(c) \/ DeleteFlowWrite(c)
         \/ AddThreatWrite(c) \/ UpdateThreatWrite(c) \/ DeleteThreatWrite(c) \/ SetStatusWrite(c)
         \/ GenerateInsert(c)
  PROVE  PageInv'
<1> DEFINE Writing(got) ==
      /\ \E what: Wrote(c, what, got)
      /\ Pending(c) /\ call[c].at # "answer" /\ call[c].do # "load"
<1>1. FlowsGrounded' /\ UNCHANGED used
  BY GroundedWrites
<1>2. ASSUME NEW got, Writing(got), Reloading(call[c]) \/ ~OfPage(c) PROVE PageInv'
  BY <1>1, <1>2, PageWrites
<1>3. ASSUME NEW got, Writing(got),
             \/ AddComponentWrite(c) \/ DeleteComponentWrite(c) \/ DeleteFlowWrite(c)
             \/ UpdateThreatWrite(c) /\ got = call[c].arg.value
             \/ DeleteThreatWrite(c) \/ SetStatusWrite(c)
      PROVE  PageInv'
  <2>1. UNCHANGED shown
    BY <1>3 DEF Wrote, page
  <2>2. QED
    BY <1>1, <1>3, <2>1, AppliesWrite, PageWrites
<1>4. CASE AddFlowWrite(c) \/ GenerateInsert(c)
  BY <1>2, <1>4 DEF AddFlowWrite, GenerateInsert, At, Pending, Reloading
<1>5. CASE AddThreatWrite(c)
  <2>1. Writing(None) /\ call[c].do = "addThreat"
    BY <1>5 DEF AddThreatWrite, At, Pending
  <2>2. ~OfPage(c)
    BY <2>1 DEF OfPage, PageInv, PageCalls
  <2>3. QED
    BY <1>2, <2>1, <2>2
<1>6. CASE \/ AddComponentWrite(c) \/ DeleteComponentWrite(c) \/ DeleteFlowWrite(c)
           \/ DeleteThreatWrite(c) \/ SetStatusWrite(c)
  BY <1>3, <1>6 DEF AddComponentWrite, DeleteComponentWrite, DeleteFlowWrite, DeleteThreatWrite,
     SetStatusWrite, At, Pending
<1>7. CASE UpdateThreatWrite(c)
  BY <1>3, <1>7 DEF UpdateThreatWrite, At, Pending
<1>8. QED
  BY <1>4, <1>5, <1>6, <1>7

\* The model is deleted elsewhere: the copy is not the page's any more.
LEMMA PageDeleteModel ==
  ASSUME IInv, PageInv, NEW c \in Calls, DeleteModel(c)
  PROVE  PageInv'
<1>1. ~agrees' /\ UNCHANGED used /\ DOMAIN components' = {} /\ DOMAIN flows' = {}
      /\ flows' = [f \in DOMAIN flows' |-> flows'[f]]
  BY DEF DeleteModel
<1>2. ASSUME NEW d \in Calls
      PROVE  SeesMore(call[d], call'[d]) /\ (Pending(d) => call'[d].seen # {})
  <2>1. CASE Pending(d)
    <3>1. Filled(call[d])
      BY <2>1 DEF IInv, Holds, Pending
    <3>2. PICK what: call'[d] = [call[d] EXCEPT !.seen = call[d].seen \cup {what}]
      BY <2>1 DEF DeleteModel
    <3>a. /\ SeesMore(call[d], [call[d] EXCEPT !.seen = call[d].seen \cup {what}])
          /\ what \in [call[d] EXCEPT !.seen = call[d].seen \cup {what}].seen
      BY <3>1, OnlySees, Zenon
    <3>3. SeesMore(call[d], call'[d]) /\ what \in call'[d].seen
      BY <3>2, <3>a, Zenon
    <3>4. QED
      BY <3>3
  <2>2. CASE ~Pending(d)
    BY <2>2 DEF DeleteModel, SeesMore, Pending
  <2>3. QED
    BY <2>1, <2>2
<1>3. \A d \in Calls: At(d, "addComponent", "write")' => call'[d].arg.id \in used'
  BY <1>1, <1>2 DEF SeesMore, At, PageInv, FlowsGrounded
<1>4. FlowsGrounded'
  BY <1>1, <1>3 DEF FlowsGrounded
<1>5. ASSUME NEW d \in Calls, Pending(d)'
      PROVE  /\ call'[d].page \in BOOLEAN
             /\ call'[d].at = "answer" \/ call'[d].do = "load" => call'[d].page
             /\ call'[d].do = "load" => call'[d].at \in {"read", "answer"}
             /\ call'[d].do = "addThreat" => ~call'[d].page
             /\ call'[d].seen # {}
  BY <1>2, <1>5 DEF SeesMore, Pending, PageInv, PageCalls
<1>6. PageCalls'
  BY <1>5 DEF PageCalls
<1>7. QED
  BY <1>1, <1>4, <1>6 DEF PageInv

\* Every step keeps the copy following the model.
LEMMA Step_PageInv == ASSUME IInv, PageInv, [Next]_vars PROVE PageInv'
<1>1. CASE UNCHANGED vars
  <2>1. UNCHANGED <<components, flows, threats, status, used, call, shown, agrees>>
    BY <1>1 DEF vars, model, page
  <2>2. FlowsGrounded' /\ PageCalls'
    BY <2>1 DEF PageInv, FlowsGrounded, PageCalls, Pending, At, Model
  <2>a. ASSUME NEW d \in Calls, Shows(Applied(call[d])) PROVE Shows(Applied(call[d]))'
    <3>1. call'[d] = call[d]
      BY <2>1
    <3>2. QED
      BY <2>1, <2>a, <3>1, StillShows
  <2>b. Shows(shown) => Shows(shown)'
    BY <2>1 DEF Shows
  <2>3. CopyFollows => CopyFollows'
    BY <2>1, <2>a, <2>b DEF CopyFollows, OfPage, Pending, At
  <2>4. QED
    BY <2>1, <2>2, <2>3 DEF PageInv
<1>2. CASE Next
  <2>1. PICK c \in Calls:
          \/ \E p \in BOOLEAN: Starts(c, p)
          \/ Open(c) \/ DeleteModel(c)
          \/ \E x \in Scores, y \in Scores: AddThreat(c, x, y)
          \/ Serves(c) \/ Answers(c)
    BY <1>2 DEF Next
  <2>2. CASE Serves(c)
    BY <2>2, PageMoves, PageServes, PageAnswers DEF Serves
  <2>3. QED
    BY <2>1, <2>2, PageStarts, PageAnswers, PageDeleteModel
<1>3. QED
  BY <1>1, <1>2

-----------------------------------------------------------------------------
(* The theorems.                                                           *)

\* The strengthening holds in every state.
THEOREM Invariance == Spec => []IInv
  BY Initially, Step, PTL DEF Spec

\* Whatever updates overlap, the score of a threat is its likelihood times its impact
\* (updateThreat, generateThreats and addThreat write the pair and its product).
THEOREM ScoreCorrect == Spec => []ScoreIsProduct
<1>1. IInv => ScoreIsProduct
  BY DEF IInv, RowsScored, Row, ScoreIsProduct
<1>2. QED
  BY <1>1, Invariance, PTL

\* A rule has two threats only when two generations overlapped (generateThreats).
THEOREM OneThreat == Spec => []OneThreatPerRule
<1>1. IInv => OneThreatPerRule
  BY DEF IInv
<1>2. QED
  BY <1>1, Invariance, PTL

\* A generation leaves no rule of the model without its threat: it need not see one
\* state of the model, as long as nothing is added while it reads (generateThreats).
THEOREM GenerationCovers == Spec => []GenerationComplete
<1>1. Init => CoverInv
  BY DEF Init, CoverInv, GenerationComplete, SawAll, Reading
<1>2. IInv /\ CoverInv /\ [Next]_vars => CoverInv'
  BY Step_CoverInv
<1>3. Spec => []CoverInv
  BY <1>1, <1>2, Invariance, PTL DEF Spec
<1>4. CoverInv => GenerationComplete
  BY DEF CoverInv
<1>5. QED
  BY <1>3, <1>4, PTL

\* While nobody else edits the model and the page's calls do not overlap, the page shows
\* the model whenever nothing is under way (the handlers of threat-models/[id]/page.tsx).
THEOREM PageShowsModel == Spec => []PageIsModel
<1>1. Init => PageInv
  <2>1. ASSUME Init PROVE PageInv
    <3>1. components = [x \in DOMAIN components |-> components[x]]
          /\ flows = [f \in DOMAIN flows |-> flows[f]]
          /\ \A f \in DOMAIN flows: Tips(flows[f]) \subseteq DOMAIN components
      BY <2>1 DEF Init, Tips
    <3>2. /\ shown = Model /\ used = DOMAIN components \cup DOMAIN flows
          /\ \A c \in Calls: call[c].do = "none"
      BY <2>1 DEF Init
    <3>3. Shows(shown)
      BY <3>1, <3>2 DEF Shows, Model, Restrict
    <3>4. CopyFollows
      BY <3>1, <3>2, <3>3 DEF CopyFollows, OfPage, Pending, At, Model
    <3>5. QED
      BY <3>1, <3>2, <3>4 DEF PageInv, FlowsGrounded, PageCalls, Pending, At
  <2>2. QED
    BY <2>1
<1>2. IInv /\ PageInv /\ [Next]_vars => PageInv'
  BY Step_PageInv
<1>3. Spec => []PageInv
  BY <1>1, <1>2, Invariance, PTL DEF Spec
<1>4. PageInv => PageIsModel
  BY DEF PageInv, CopyFollows, Shows, Tips, PageIsModel
<1>5. QED
  BY <1>3, <1>4, PTL

\* An update takes no other update back that it did not overlap (updateThreat).
THEOREM UpdatesKeep == Spec => UpdatesKeepOthers
<1> DEFINE Kept(r, field) ==
      threats'[r][field] # threats[r][field] =>
        \E c \in Calls: /\ At(c, "update", "write") /\ call[c].arg.row = r
                        /\ call[c].arg.field = field \/ <<"updated", r>> \in call[c].seen
<1>1. ASSUME IInv, [Next]_vars, NEW r \in DOMAIN threats \cap DOMAIN threats', NEW field \in Fields
      PROVE  Kept(r, field)
  <2>1. CASE UNCHANGED threats
    BY <2>1
  <2>2. ASSUME NEW c \in Calls, AddThreatWrite(c) PROVE UNCHANGED threats[r]
    <3>1. Inserting(call[c]) /\ threats' = With(threats, <<<<>>, call[c].number>>, call[c].arg)
      BY <2>2 DEF AddThreatWrite, At, Inserting
    <3>2. r # <<<<>>, call[c].number>>
      BY <1>1, <3>1 DEF IInv, NumbersFresh
    <3>3. QED
      BY <3>1, <3>2 DEF With, Joined
  <2>3. ASSUME NEW c \in Calls, GenerateInsert(c) PROVE UNCHANGED threats[r]
    <3> DEFINE B == Batch(c, ToCreate(call[c].got))
    <3>1. Inserting(call[c]) /\ threats' = Joined(threats, B)
      BY <2>3 DEF GenerateInsert, At, Inserting
    <3>2. \A q \in DOMAIN B: q[2] = call[c].number
      BY BatchRows
    <3> HIDE DEF B
    <3>3. r \notin DOMAIN B
      BY <1>1, <3>1, <3>2 DEF IInv, NumbersFresh
    <3>4. QED
      BY <3>1, <3>3 DEF Joined
  <2>4. ASSUME NEW c \in Calls, DeleteThreatWrite(c) PROVE UNCHANGED threats[r]
    BY <2>4 DEF DeleteThreatWrite, Without, Restrict
  <2>5. ASSUME NEW c \in Calls, UpdateThreatWrite(c) PROVE Kept(r, field)
    <3> DEFINE a   == call[c].arg
               new == Changed(call[c].got, a.field, a.value)
    <3>1. /\ At(c, "update", "write") /\ Row(call[c].got) /\ a.field \in Fields
          /\ a.row \in DOMAIN threats
          /\ <<"updated", a.row>> \notin call[c].seen
               => \A f \in Fields: call[c].got[f] = threats[a.row][f]
      BY <1>1, <2>5 DEF UpdateThreatWrite, At, IInv, Holds
    <3>2. \A f \in Fields \ {a.field}: new[f] = call[c].got[f]
      BY <3>1, ChangedIsRow
    <3>3. threats' = [q \in DOMAIN threats |-> IF q = a.row THEN new ELSE threats[q]]
      BY <1>1, <2>5 DEF UpdateThreatWrite, IInv, RowsScored
    <3> HIDE DEF new
    <3>4. CASE r = a.row
      BY <3>1, <3>2, <3>3, <3>4
    <3>5. CASE r # a.row
      BY <3>3, <3>5
    <3>6. QED
      BY <3>4, <3>5
  <2>6. ASSUME NEW c \in Calls, DeleteModel(c) PROVE FALSE
    BY <2>6 DEF DeleteModel
  <2>7. CASE UNCHANGED vars
    BY <2>1, <2>7 DEF vars, model
  <2>8. CASE Next
    <3>1. PICK c \in Calls:
            \/ \E p \in BOOLEAN: Starts(c, p)
            \/ Open(c) \/ DeleteModel(c)
            \/ \E x \in Scores, y \in Scores: AddThreat(c, x, y)
            \/ Serves(c) \/ Answers(c)
      BY <2>8 DEF Next
    <3>2. CASE (\E p \in BOOLEAN: Starts(c, p)) \/ Open(c)
               \/ \E x \in Scores, y \in Scores: AddThreat(c, x, y)
      BY <2>1, <3>2
        DEF Starts, Open, AddThreat, AddComponent, DeleteComponent, AddFlow, DeleteFlow,
        Generate, UpdateThreat, DeleteThreat, SetStatus, model
    <3>3. CASE Answers(c)
      BY <2>1, <3>3 DEF Answers, Loaded, ComponentAdded, ComponentDeleted, FlowAdded, FlowDeleted,
        Generated, ThreatUpdated, ThreatDeleted, StatusSet, AnswerLost, Reload, model
    <3>4. CASE Serves(c)
      <4>1. CASE \/ AddThreatWrite(c) \/ GenerateInsert(c) \/ DeleteThreatWrite(c)
                 \/ UpdateThreatWrite(c)
        BY <2>2, <2>3, <2>4, <2>5, <4>1
      <4>2. CASE \/ AddComponentWrite(c) \/ DeleteComponentWrite(c) \/ AddFlowCheck(c)
                 \/ AddFlowWrite(c) \/ DeleteFlowWrite(c) \/ GenerateOwner(c)
                 \/ GenerateComponents(c) \/ GenerateFlows(c) \/ GenerateRefs(c)
                 \/ UpdateThreatRead(c) \/ SetStatusWrite(c) \/ GetModel(c) \/ Fails(c)
        BY <2>1, <4>2 DEF AddComponentWrite, DeleteComponentWrite, AddFlowCheck, AddFlowWrite,
          DeleteFlowWrite, GenerateOwner, GenerateComponents, GenerateFlows, GenerateRefs,
          UpdateThreatRead, SetStatusWrite, GetModel, Fails, model
      <4>3. QED
        BY <3>4, <4>1, <4>2 DEF Serves
    <3>5. QED
      BY <2>6, <3>1, <3>2, <3>3, <3>4
  <2>9. QED
    BY <1>1, <2>7, <2>8
<1>2. IInv /\ [Next]_vars =>
        [\A r \in DOMAIN threats \cap DOMAIN threats': \A field \in {"status", "likelihood", "impact"}:
           threats'[r][field] # threats[r][field] =>
             \E c \in Calls: /\ At(c, "update", "write") /\ call[c].arg.row = r
                             /\ call[c].arg.field = field \/ <<"updated", r>> \in call[c].seen]_vars
  BY <1>1 DEF Fields
<1>3. QED
  BY <1>2, Invariance, PTL DEF Spec, UpdatesKeepOthers
=============================================================================
