----------------------------- MODULE ThreatModels -----------------------------
(***************************************************************************)
(* One threat model of threat-models/threat-models.service: its components, *)
(* the data flows between them and its threats, generated from the          *)
(* catalogue of StrideRules or added by hand; and an analyst's page         *)
(* threat-models/[id]/page.tsx, which shows a copy of the model.            *)
(*                                                                          *)
(* A call is one action for each of its database calls that can interleave; *)
(* a call of the page ends with an action that applies the answer to the    *)
(* copy.  The other calls are those of other analysts.                      *)
(***************************************************************************)
EXTENDS Naturals, FiniteSets, StrideRules, Functions

CONSTANTS
  Components, Flows,  \* ids the database may give
  Types,              \* types of components of the instance
  Contexts,           \* the contexts of flows of the instance
  Statuses,           \* new statuses of threats and of the model that are tried
  Scores,             \* new values of likelihood and impact that are tried, 1 to 5 in the code
  Calls,              \* calls in flight at once
  None,
  MaxCalls            \* bound: calls started

ASSUME ThreatModelsAssumption ==
  /\ Types \subseteq DOMAIN COMPONENT_THREATS
  /\ Scores \subseteq 1..5
  /\ MaxCalls \in Nat

VARIABLES
  components,  \* the components of the model: their types
  flows,       \* its flows: [source, target, context]
  threats,     \* its threats
  used,        \* ids that were given to a component or a flow
  status,      \* of the model; None once it is deleted
  call,        \* where each call stands, with what it read
  started,     \* calls started so far
  shown,       \* the page's copy of the model
  loading,     \* the page says it is loading and offers nothing
  updating,    \* updatingThreat: the threat whose status may not be chosen
  covered,     \* history: a generation saw the whole model, and nothing was added since
  overlapped,  \* history: generations that another one passed
  agrees       \* history: nobody but the page's calls, one at a time, since it was loaded

model == <<components, flows, threats, used, status>>
page  == <<shown, loading, updating>>
vars  == <<model, call, started, page, covered, overlapped, agrees>>

-----------------------------------------------------------------------------
ModelStatuses  == {"DRAFT", "REVIEW", "APPROVED", "ARCHIVED"}
ThreatStatuses == {"OPEN", "MITIGATED", "ACCEPTED", "FALSE_POSITIVE"}

Templates(type) == Range(COMPONENT_THREATS[type])

\* sourceRef: of a component and a template; <<flow, rule>> of a flow, <<>> of a threat added by hand
ComponentRef(c, t) == <<c, t.stride, t.technique>>
\* a row of tm_threats is named by its reference and the call that inserted it
Scored(likelihood, impact) ==
  [status |-> "OPEN", likelihood |-> likelihood, impact |-> impact,
   riskScore |-> likelihood * impact]

Model == [components |-> components, flows |-> flows, threats |-> threats, status |-> status]

Without(f, S) == Restrict(f, DOMAIN f \ S)
Joined(f, g)  == [z \in DOMAIN f \cup DOMAIN g |-> IF z \in DOMAIN g THEN g[z] ELSE f[z]]
With(f, x, y) == Joined(f, [z \in {x} |-> y])

Init ==
  /\ \E C \in SUBSET Components: components \in [C -> Types]
  /\ \E F \in SUBSET Flows:
       flows \in [F -> [source: DOMAIN components, target: DOMAIN components, context: Contexts]]
  /\ threats = [r \in {} |-> None]
  /\ used = DOMAIN components \cup DOMAIN flows
  /\ status = "DRAFT"
  /\ call = [c \in Calls |-> [do |-> "none"]] /\ started = 0
  /\ shown = Model /\ loading = FALSE /\ updating = None
  /\ covered = FALSE /\ overlapped = {} /\ agrees = TRUE

-----------------------------------------------------------------------------
(* A call begins, on the page or elsewhere; reads and writes; is answered. *)

Pending(c) == call[c].do # "none"
OfPage(c)  == Pending(c) /\ call[c].page
Busy(do)   == \E c \in Calls: OfPage(c) /\ call[c].do = do     \* its button is disabled
At(c, do, at) == call[c].do = do /\ call[c].at = at

Begin(c, do, at, arg, p) ==
  /\ ~Pending(c) /\ started < MaxCalls
  /\ p => ~loading
  /\ call' = [call EXCEPT ![c] = [do |-> do, at |-> at, arg |-> arg, page |-> p, got |-> None,
                                  number |-> started + 1, seen |-> {}]]
  /\ started' = started + 1
  /\ agrees' = (agrees /\ (p => \A d \in Calls: ~OfPage(d)))

\* call c has written; the others it overlaps have "seen" it
Wrote(c, what, got) ==
  /\ call' = [d \in Calls |->
       CASE d = c /\ call[c].page  -> [call[c] EXCEPT !.at = "answer", !.got = got]
         [] d = c /\ ~call[c].page -> [do |-> "none"]
         [] d # c /\ Pending(d)    -> [call[d] EXCEPT !.seen = @ \cup {what}]
         [] OTHER                  -> call[d]]
  /\ agrees' = (agrees /\ call[c].page)
  /\ UNCHANGED <<started, page>>

Ends(c) == call' = [call EXCEPT ![c] = [do |-> "none"]]

\* refused, or a query throws; the page logs it and leaves its copy alone
Fails(c) ==
  /\ Pending(c) /\ call[c].at # "answer"
  /\ Ends(c)
  /\ loading' = (loading /\ ~At(c, "load", "read"))
  /\ updating' = IF OfPage(c) /\ call[c].do = "update" THEN None ELSE updating
  /\ agrees' = (agrees /\ ~At(c, "load", "read"))
  /\ UNCHANGED <<model, started, shown, covered, overlapped>>

\* what was done is done, but the page is told it failed
AnswerLost(c) ==
  /\ Pending(c) /\ call[c].at = "answer"
  /\ Ends(c)
  /\ loading' = (loading /\ call[c].do # "load")
  /\ updating' = IF call[c].do = "update" THEN None ELSE updating
  /\ agrees' = FALSE
  /\ UNCHANGED <<model, started, shown, covered, overlapped>>

\* reload(): part of another handler
Reload(c) ==
  /\ call' = [call EXCEPT ![c] = [do |-> "load", at |-> "read", arg |-> None, got |-> None,
                                 page |-> call[c].page, number |-> call[c].number, seen |-> {}]]
  /\ loading' = TRUE
  /\ UNCHANGED <<model, started, shown, updating, covered, overlapped, agrees>>

-----------------------------------------------------------------------------
(* The page is opened; getModel.                                           *)

Open(c) ==
  /\ \A d \in Calls: ~OfPage(d)
  /\ Begin(c, "load", "read", None, TRUE)
  /\ loading' = TRUE
  /\ UNCHANGED <<model, shown, updating, covered, overlapped>>

GetModel(c) ==
  /\ At(c, "load", "read") /\ status # None
  /\ call' = [call EXCEPT ![c] = [call[c] EXCEPT !.at = "answer", !.got = Model]]
  /\ UNCHANGED <<model, started, page, covered, overlapped, agrees>>

Loaded(c) ==
  /\ At(c, "load", "answer")
  /\ shown' = call[c].got /\ loading' = FALSE
  /\ agrees' = (agrees \/ (call[c].seen = {} /\ \A d \in Calls \ {c}: ~OfPage(d)))
  /\ Ends(c)
  /\ UNCHANGED <<model, started, updating, covered, overlapped>>

-----------------------------------------------------------------------------
(* Components.                                                             *)

AddComponent(c, id, type, p) ==
  /\ id \notin used
  /\ p => ~Busy("addComponent")
  /\ Begin(c, "addComponent", "write", [id |-> id, type |-> type], p)
  /\ used' = used \cup {id}
  /\ UNCHANGED <<components, flows, threats, status, page, covered, overlapped>>

AddComponentWrite(c) ==
  LET a == call[c].arg IN
  /\ At(c, "addComponent", "write") /\ status # None
  /\ components' = With(components, a.id, a.type)
  /\ covered' = FALSE
  /\ Wrote(c, <<"added">>, None)
  /\ UNCHANGED <<flows, threats, used, status, overlapped>>

ComponentAdded(c) ==
  LET a == call[c].arg IN
  /\ At(c, "addComponent", "answer")
  /\ shown' = [shown EXCEPT !.components = With(@, a.id, a.type)]
  /\ Ends(c)
  /\ UNCHANGED <<model, started, loading, updating, covered, overlapped, agrees>>

DeleteComponent(c, id, p) ==
  /\ id \in DOMAIN (IF p THEN shown.components ELSE components)
  /\ Begin(c, "deleteComponent", "write", [id |-> id], p)
  /\ UNCHANGED <<model, page, covered, overlapped>>

\* its flows go with it; its threats stay, with their sourceRef
DeleteComponentWrite(c) ==
  LET id == call[c].arg.id IN
  /\ At(c, "deleteComponent", "write") /\ id \in DOMAIN components
  /\ components' = Without(components, {id})
  /\ flows' = Without(flows, {f \in DOMAIN flows: id \in {flows[f].source, flows[f].target}})
  /\ Wrote(c, <<"removed">>, None)
  /\ UNCHANGED <<threats, used, status, covered, overlapped>>

ComponentDeleted(c) ==
  /\ At(c, "deleteComponent", "answer")
  /\ shown' = [shown EXCEPT !.components = Without(@, {call[c].arg.id})]
  /\ Ends(c)
  /\ UNCHANGED <<model, started, loading, updating, covered, overlapped, agrees>>

-----------------------------------------------------------------------------
(* Data flows.                                                             *)

AddFlow(c, id, source, target, context, p) ==
  /\ id \notin used
  /\ p => /\ ~Busy("addFlow") /\ Cardinality(DOMAIN shown.components) > 1
          /\ {source, target} \subseteq DOMAIN shown.components
  /\ Begin(c, "addFlow", "check",
           [id |-> id, flow |-> [source |-> source, target |-> target, context |-> context]], p)
  /\ used' = used \cup {id}
  /\ UNCHANGED <<components, flows, threats, status, page, covered, overlapped>>

AddFlowCheck(c) ==
  LET f == call[c].arg.flow IN
  /\ At(c, "addFlow", "check") /\ {f.source, f.target} \subseteq DOMAIN components
  /\ call' = [call EXCEPT ![c].at = "write"]
  /\ UNCHANGED <<model, started, page, covered, overlapped, agrees>>

\* the foreign keys refuse a component deleted since
AddFlowWrite(c) ==
  LET a == call[c].arg IN
  /\ At(c, "addFlow", "write") /\ {a.flow.source, a.flow.target} \subseteq DOMAIN components
  /\ flows' = With(flows, a.id, a.flow)
  /\ covered' = FALSE
  /\ Wrote(c, <<"added">>, None)
  /\ UNCHANGED <<components, threats, used, status, overlapped>>

FlowAdded(c) == At(c, "addFlow", "answer") /\ Reload(c)

DeleteFlow(c, id, p) ==
  /\ id \in DOMAIN (IF p THEN shown.flows ELSE flows)
  /\ Begin(c, "deleteFlow", "write", [id |-> id], p)
  /\ UNCHANGED <<model, page, covered, overlapped>>

DeleteFlowWrite(c) ==
  LET id == call[c].arg.id IN
  /\ At(c, "deleteFlow", "write") /\ id \in DOMAIN flows
  /\ flows' = Without(flows, {id})
  /\ Wrote(c, <<"removed">>, None)
  /\ UNCHANGED <<components, threats, used, status, covered, overlapped>>

FlowDeleted(c) ==
  /\ At(c, "deleteFlow", "answer")
  /\ shown' = [shown EXCEPT !.flows = Without(@, {call[c].arg.id})]
  /\ Ends(c)
  /\ UNCHANGED <<model, started, loading, updating, covered, overlapped, agrees>>

-----------------------------------------------------------------------------
(* Generation: three queries at once, then one insert.                     *)

Unread == [components |-> None, flows |-> None, refs |-> None]

\* the page's button waits for the last generation, and for a component
Generate(c, p) ==
  /\ p => ~Busy("generate") /\ DOMAIN shown.components # {}
  /\ Begin(c, "generate", "start", None, p)
  /\ UNCHANGED <<model, page, covered, overlapped>>

GenerateOwner(c) ==
  /\ At(c, "generate", "start") /\ status # None
  /\ call' = [call EXCEPT ![c] = [call[c] EXCEPT !.at = "read", !.got = Unread, !.seen = {}]]
  /\ UNCHANGED <<model, started, page, covered, overlapped, agrees>>

GenerateComponents(c) ==
  /\ At(c, "generate", "read") /\ call[c].got.components = None
  /\ call' = [call EXCEPT ![c].got.components = components]
  /\ UNCHANGED <<model, started, page, covered, overlapped, agrees>>

GenerateFlows(c) ==
  /\ At(c, "generate", "read") /\ call[c].got.flows = None
  /\ call' = [call EXCEPT ![c].got.flows = flows]
  /\ UNCHANGED <<model, started, page, covered, overlapped, agrees>>

\* existingRefs; generations that ended before this are no overlap
GenerateRefs(c) ==
  /\ At(c, "generate", "read") /\ call[c].got.refs = None
  /\ call' = [call EXCEPT ![c] =
       [call[c] EXCEPT !.got = [call[c].got EXCEPT !.refs = {r[1]: r \in DOMAIN threats} \ {<<>>}],
                       !.seen = call[c].seen \ {<<"generated">>}]]
  /\ UNCHANGED <<model, started, page, covered, overlapped, agrees>>

\* what the catalogue says of these components and flows, by sourceRef
ComponentThreats(C) ==
  UNION {{<<ComponentRef(x, t), Scored(t.likelihood, t.impact)>>: t \in Templates(C[x])}:
           x \in DOMAIN C}

FlowThreats(F) ==
  UNION {{<<<<x, id>>, Scored(FLOW_THREAT_RULES[id].likelihood, FLOW_THREAT_RULES[id].impact)>>:
            id \in {r \in DOMAIN FLOW_THREAT_RULES: Condition(r, F[x].context)}}: x \in DOMAIN F}

\* mutant of ToCreate: forgets what was generated before
ToCreateMutAll(got) == ComponentThreats(got.components) \cup FlowThreats(got.flows)
\* mutant of ToCreate: the reference does not name the component
ToCreateMutAnyComponent(got) ==
  {x \in ComponentThreats(got.components) \cup FlowThreats(got.flows):
     Tail(x[1]) \notin {Tail(r): r \in got.refs}}
ToCreate(got) ==
  {x \in ComponentThreats(got.components) \cup FlowThreats(got.flows): x[1] \notin got.refs}

Batch(c, new) ==
  [r \in {<<x[1], call[c].number>>: x \in new} |-> (CHOOSE x \in new: x[1] = r[1])[2]]

\* the foreign keys refuse the insert when what a threat is of was deleted since
GenerateInsert(c) ==
  LET got == call[c].got
      new == ToCreate(got)
  IN
  /\ At(c, "generate", "read")
  /\ None \notin {got.components, got.flows, got.refs}
  /\ new # {} => status # None
  /\ {x[1][1]: x \in new} \subseteq DOMAIN components \cup DOMAIN flows
  /\ threats' = Joined(threats, Batch(c, new))
  /\ covered' = (covered \/ <<"added">> \notin call[c].seen)
  /\ overlapped' = overlapped \cup IF <<"generated">> \in call[c].seen THEN {call[c].number} ELSE {}
  /\ Wrote(c, <<"generated">>, None)
  /\ UNCHANGED <<components, flows, used, status>>

\* mutant of Generated: trusts the answer and does not reload
GeneratedMutNoReload(c) ==
  /\ At(c, "generate", "answer")
  /\ Ends(c)
  /\ UNCHANGED <<model, started, page, covered, overlapped, agrees>>

Generated(c) == At(c, "generate", "answer") /\ Reload(c)

-----------------------------------------------------------------------------
(* Threats.                                                                *)

\* of a body with a likelihood and an impact; the page has no form for it
AddThreat(c, likelihood, impact) ==
  /\ Begin(c, "addThreat", "write", Scored(likelihood, impact), FALSE)
  /\ UNCHANGED <<model, page, covered, overlapped>>

AddThreatWrite(c) ==
  /\ At(c, "addThreat", "write") /\ status # None
  /\ threats' = With(threats, <<<<>>, call[c].number>>, call[c].arg)
  /\ Wrote(c, <<"added by hand">>, None)
  /\ UNCHANGED <<components, flows, used, status, covered, overlapped>>

\* a change of one field; the page only has one for the status
UpdateThreat(c, row, field, value, p) ==
  /\ row \in DOMAIN (IF p THEN shown.threats ELSE threats)
  /\ p => field = "status" /\ updating # row
  /\ Begin(c, "update", "read", [row |-> row, field |-> field, value |-> value], p)
  /\ updating' = IF p THEN row ELSE updating
  /\ UNCHANGED <<model, shown, loading, covered, overlapped>>

UpdateThreatRead(c) ==
  LET row == call[c].arg.row IN
  /\ At(c, "update", "read") /\ row \in DOMAIN threats
  /\ call' = [call EXCEPT ![c] = [call[c] EXCEPT !.at = "write", !.got = threats[row], !.seen = {}]]
  /\ UNCHANGED <<model, started, page, covered, overlapped, agrees>>

Changed(t, field, value) ==
  LET u == [t EXCEPT ![field] = value] IN [u EXCEPT !.riskScore = u.likelihood * u.impact]

\* mutant of UpdateThreatWrite: the score is the old one
UpdateThreatWriteMutKeepsScore(c) ==
  LET a == call[c].arg IN
  /\ At(c, "update", "write") /\ a.row \in DOMAIN threats
  /\ threats' = [threats EXCEPT ![a.row] = [call[c].got EXCEPT ![a.field] = a.value]]
  /\ Wrote(c, <<"updated", a.row>>, a.value)
  /\ UNCHANGED <<components, flows, used, status, covered, overlapped>>

\* mutant of UpdateThreatWrite: the status of an update that names none is OPEN
UpdateThreatWriteMutReopens(c) ==
  LET a == call[c].arg
      t == IF a.field = "status" THEN call[c].got ELSE [call[c].got EXCEPT !.status = "OPEN"]
  IN
  /\ At(c, "update", "write") /\ a.row \in DOMAIN threats
  /\ threats' = [threats EXCEPT ![a.row] = Changed(t, a.field, a.value)]
  /\ Wrote(c, <<"updated", a.row>>, a.value)
  /\ UNCHANGED <<components, flows, used, status, covered, overlapped>>

\* every field is written, the others as they were read
UpdateThreatWrite(c) ==
  LET a == call[c].arg IN
  /\ At(c, "update", "write") /\ a.row \in DOMAIN threats
  /\ threats' = [threats EXCEPT ![a.row] = Changed(call[c].got, a.field, a.value)]
  /\ Wrote(c, <<"updated", a.row>>, a.value)
  /\ UNCHANGED <<components, flows, used, status, covered, overlapped>>

ThreatUpdated(c) ==
  LET a == call[c].arg IN
  /\ At(c, "update", "answer")
  /\ shown' = IF a.row \in DOMAIN shown.threats
              THEN [shown EXCEPT !.threats[a.row].status = call[c].got] ELSE shown
  /\ updating' = None
  /\ Ends(c)
  /\ UNCHANGED <<model, started, loading, covered, overlapped, agrees>>

DeleteThreat(c, row, p) ==
  /\ row \in DOMAIN (IF p THEN shown.threats ELSE threats)
  /\ Begin(c, "deleteThreat", "write", [row |-> row], p)
  /\ UNCHANGED <<model, page, covered, overlapped>>

\* a deleted threat is generated again
DeleteThreatWrite(c) ==
  LET row == call[c].arg.row IN
  /\ At(c, "deleteThreat", "write") /\ row \in DOMAIN threats
  /\ threats' = Without(threats, {row})
  /\ covered' = FALSE
  /\ Wrote(c, <<"added">>, None)
  /\ UNCHANGED <<components, flows, used, status, overlapped>>

ThreatDeleted(c) ==
  /\ At(c, "deleteThreat", "answer")
  /\ shown' = [shown EXCEPT !.threats = Without(@, {call[c].arg.row})]
  /\ Ends(c)
  /\ UNCHANGED <<model, started, loading, updating, covered, overlapped, agrees>>

-----------------------------------------------------------------------------
(* The model itself.                                                       *)

SetStatus(c, new, p) ==
  /\ Begin(c, "setStatus", "write", new, p)
  /\ UNCHANGED <<model, page, covered, overlapped>>

SetStatusWrite(c) ==
  /\ At(c, "setStatus", "write") /\ status # None
  /\ status' = call[c].arg
  /\ Wrote(c, <<"status">>, None)
  /\ UNCHANGED <<components, flows, threats, used, covered, overlapped>>

StatusSet(c) ==
  /\ At(c, "setStatus", "answer")
  /\ shown' = [shown EXCEPT !.status = call[c].arg]
  /\ Ends(c)
  /\ UNCHANGED <<model, started, loading, updating, covered, overlapped, agrees>>

\* from the list of models; everything goes with it
DeleteModel(c) ==
  /\ ~Pending(c) /\ status # None
  /\ components' = [x \in {} |-> None] /\ flows' = [x \in {} |-> None]
  /\ threats' = [x \in {} |-> None]
  /\ status' = None
  /\ covered' = FALSE /\ agrees' = FALSE
  /\ call' = [d \in Calls |-> IF Pending(d) THEN [call[d] EXCEPT !.seen = @ \cup {<<"added">>}]
                              ELSE call[d]]
  /\ UNCHANGED <<used, started, page, overlapped>>

-----------------------------------------------------------------------------
Starts(c, p) ==
  \/ \E id \in Components, type \in Types: AddComponent(c, id, type, p)
  \/ \E id \in Components: DeleteComponent(c, id, p)
  \/ \E id \in Flows, x \in Components, y \in Components, k \in Contexts: AddFlow(c, id, x, y, k, p)
  \/ \E id \in Flows: DeleteFlow(c, id, p)
  \/ Generate(c, p)
  \/ \E row \in DOMAIN shown.threats \cup DOMAIN threats:
       \/ \E new \in Statuses \cap ThreatStatuses: UpdateThreat(c, row, "status", new, p)
       \/ \E field \in {"likelihood", "impact"}, new \in Scores: UpdateThreat(c, row, field, new, p)
       \/ DeleteThreat(c, row, p)
  \/ \E new \in Statuses \cap ModelStatuses: SetStatus(c, new, p)

Serves(c) ==
  \/ AddComponentWrite(c) \/ DeleteComponentWrite(c) \/ AddFlowCheck(c) \/ AddFlowWrite(c)
  \/ DeleteFlowWrite(c) \/ GenerateOwner(c) \/ GenerateComponents(c) \/ GenerateFlows(c)
  \/ GenerateRefs(c) \/ GenerateInsert(c) \/ AddThreatWrite(c) \/ UpdateThreatRead(c)
  \/ UpdateThreatWrite(c) \/ DeleteThreatWrite(c) \/ SetStatusWrite(c) \/ GetModel(c) \/ Fails(c)

Answers(c) ==
  \/ Loaded(c) \/ ComponentAdded(c) \/ ComponentDeleted(c) \/ FlowAdded(c) \/ FlowDeleted(c)
  \/ Generated(c) \/ ThreatUpdated(c) \/ ThreatDeleted(c) \/ StatusSet(c) \/ AnswerLost(c)

Next ==
  \E c \in Calls:
    \/ \E p \in BOOLEAN: Starts(c, p)
    \/ Open(c) \/ DeleteModel(c)
    \/ \E x \in Scores, y \in Scores: AddThreat(c, x, y)
    \/ Serves(c) \/ Answers(c)

Spec == Init /\ [][Next]_vars

-----------------------------------------------------------------------------
(* Properties.                                                             *)

\* A risk score is always likelihood times impact, whatever updates overlap: each
\* one computes it from the pair it writes (updateThreat, generateThreats, addThreat).
ScoreIsProduct ==
  \A r \in DOMAIN threats: threats[r].riskScore = threats[r].likelihood * threats[r].impact

\* A rule of a component or flow has one threat, unless two generations overlapped:
\* generateThreats skips the references it read, and nothing makes them unique.
OneThreatPerRule ==
  \A r \in DOMAIN threats: \A q \in DOMAIN threats:
    r[1] = q[1] /\ r[1] # <<>> /\ r # q => {r[2], q[2]} \cap overlapped # {}

\* Once a generation has run, and nothing was added to the model during it or since,
\* every rule that applies to the model has its threat: also for a generation that
\* read the components before and the flows after a deletion.
GenerationComplete ==
  covered => {x[1]: x \in ComponentThreats(components) \cup FlowThreats(flows)}
               \subseteq {r[1]: r \in DOMAIN threats}

\* An update changes the field it names, and its score; what another update changed is
\* only taken back by one that read the threat before (updateThreat writes every field).
UpdatesKeepOthers ==
  [][\A r \in DOMAIN threats \cap DOMAIN threats': \A field \in {"status", "likelihood", "impact"}:
       threats'[r][field] # threats[r][field] =>
         \E c \in Calls: /\ At(c, "update", "write") /\ call[c].arg.row = r
                         /\ call[c].arg.field = field \/ <<"updated", r>> \in call[c].seen]_vars

\* While nobody else edits the model and the page's calls do not overlap, its copy is the
\* model whenever nothing is under way; only the flows of a component it deleted stay
\* in the copy (handleDeleteComponent) until the next reload.
PageIsModel ==
  agrees /\ (\A c \in Calls: ~OfPage(c)) =>
    /\ shown.components = components /\ shown.threats = threats /\ shown.status = status
    /\ flows = Restrict(shown.flows,
         {f \in DOMAIN shown.flows:
            {shown.flows[f].source, shown.flows[f].target} \subseteq DOMAIN components})
-----------------------------------------------------------------------------
(* The strengthening of ScoreIsProduct, OneThreatPerRule and               *)
(* UpdatesKeepOthers that is inductive.                                    *)

Fields == {"status", "likelihood", "impact"}
Row(t) == t = [status |-> t.status, likelihood |-> t.likelihood, impact |-> t.impact,
               riskScore |-> t.likelihood * t.impact]
Filled(k) == k = [do |-> k.do, at |-> k.at, arg |-> k.arg, page |-> k.page, got |-> k.got,
                  number |-> k.number, seen |-> k.seen]

RowsScored ==
  /\ threats = [r \in DOMAIN threats |-> threats[r]]
  /\ \A r \in DOMAIN threats: Row(threats[r]) /\ r = <<r[1], r[2]>>

\* what a call holds: a row as it was read or sent, and, unless the call was told of
\* a change since, as the row still is; the references of all but newer threats
Holds(k) ==
  /\ k.do # "none" => Filled(k)
  /\ k.do = "addThreat" /\ k.at = "write" => Row(k.arg)
  /\ k.do = "update" /\ k.at # "answer" => k.arg.field \in Fields
  /\ k.do = "update" /\ k.at = "write" =>
       /\ Row(k.got)
       /\ k.arg.row \in DOMAIN threats /\ <<"updated", k.arg.row>> \notin k.seen
            => \A f \in Fields: k.got[f] = threats[k.arg.row][f]
  /\ k.do = "generate" /\ k.at = "read" =>
       /\ k.got = [components |-> k.got.components, flows |-> k.got.flows, refs |-> k.got.refs]
       /\ k.got.refs # None /\ <<"generated">> \notin k.seen
            => \A r \in DOMAIN threats: r[1] \in k.got.refs \cup {<<>>}

\* a call inserts rows of its own number once, and no row of that number was there before
Inserting(k) == k.do \in {"generate", "addThreat"} /\ k.at # "answer"
Updating(k)  == k.do = "update" /\ k.at = "write"

NumbersFresh ==
  /\ started \in Nat
  /\ \A r \in DOMAIN threats: r[2] \in 0..started
  /\ \A c \in Calls: Updating(call[c]) => call[c].arg.row[2] \in 0..started
  /\ \A c \in Calls: Inserting(call[c]) =>
       /\ call[c].number \in 1..started
       /\ \A r \in DOMAIN threats: r[2] # call[c].number
       /\ \A d \in Calls: /\ Updating(call[d]) => call[d].arg.row[2] # call[c].number
                          /\ Inserting(call[d]) /\ c # d => call[d].number # call[c].number

IInv ==
  /\ call = [c \in Calls |-> call[c]]
  /\ \A c \in Calls: Holds(call[c])
  /\ RowsScored /\ NumbersFresh /\ OneThreatPerRule

-----------------------------------------------------------------------------
(* What is inductive, with IInv, for GenerationComplete.                   *)

Within(f, g) == \A x \in DOMAIN f: x \in DOMAIN g /\ f[x] = g[x]
References   == {r[1]: r \in DOMAIN threats}

\* a generation under way that was told of no addition read no less than there is, and
\* the references it found are still there
Reading(k) == k.do = "generate" /\ k.at = "read" /\ <<"added">> \notin k.seen
SawAll(k)  ==
  Reading(k) =>
    /\ k.got.components # None => Within(components, k.got.components)
    /\ k.got.flows # None => Within(flows, k.got.flows)
    /\ k.got.refs # None => k.got.refs \subseteq References

CoverInv == GenerationComplete /\ \A c \in Calls: SawAll(call[c])

-----------------------------------------------------------------------------
(* What is inductive, with IInv, for PageIsModel.                          *)

Tips(f) == {f.source, f.target}

\* the foreign keys of the flows, and ids that are never given twice
FlowsGrounded ==
  /\ flows = [f \in DOMAIN flows |-> flows[f]]
  /\ \A f \in DOMAIN flows: Tips(flows[f]) \subseteq DOMAIN components
  /\ DOMAIN components \subseteq used
  /\ \A c \in Calls: At(c, "addComponent", "write") => call[c].arg.id \in used

\* a copy that shows the model
Shows(s) ==
  /\ s.components = components /\ s.threats = threats /\ s.status = status
  /\ flows = Restrict(s.flows, {f \in DOMAIN s.flows: Tips(s.flows[f]) \subseteq DOMAIN components})

\* the copy once the answer k waits for is applied
Applied(k) ==
  CASE k.do = "addComponent"    -> [shown EXCEPT !.components = With(@, k.arg.id, k.arg.type)]
    [] k.do = "deleteComponent" -> [shown EXCEPT !.components = Without(@, {k.arg.id})]
    [] k.do = "deleteFlow"      -> [shown EXCEPT !.flows = Without(@, {k.arg.id})]
    [] k.do = "update"          -> IF k.arg.row \in DOMAIN shown.threats
                                   THEN [shown EXCEPT !.threats[k.arg.row].status = k.got] ELSE shown
    [] k.do = "deleteThreat"    -> [shown EXCEPT !.threats = Without(@, {k.arg.row})]
    [] k.do = "setStatus"       -> [shown EXCEPT !.status = k.arg]

Reloading(k) == k.do \in {"load", "addFlow", "generate"}

\* the copy is the model, or will be once the answer under way is applied
CopyFollows ==
  /\ shown = [components |-> shown.components, flows |-> shown.flows,
              threats |-> shown.threats, status |-> shown.status]
  /\ \A f \in DOMAIN shown.flows: Tips(shown.flows[f]) \subseteq used
  /\ \A c \in Calls: OfPage(c) =>
       /\ call[c].seen = {} /\ \A d \in Calls: OfPage(d) => d = c
       /\ call[c].at = "answer" /\ ~Reloading(call[c]) => Shows(Applied(call[c]))
       /\ call[c].do = "update" => call[c].arg.field = "status"
       /\ At(c, "addComponent", "write")
            => \A f \in DOMAIN shown.flows: call[c].arg.id \notin Tips(shown.flows[f])
  /\ (\A c \in Calls: OfPage(c) => call[c].at # "answer" /\ call[c].do # "load") => Shows(shown)

\* only the page's calls are answered and reload; a load that was told of no write since
\* holds the model as it is
PageCalls ==
  \A c \in Calls: Pending(c) =>
    /\ call[c].page \in BOOLEAN
    /\ call[c].at = "answer" \/ call[c].do = "load" => call[c].page
    /\ call[c].do = "load" => call[c].at \in {"read", "answer"}
    /\ call[c].do = "addThreat" => ~call[c].page
    /\ At(c, "load", "answer") /\ call[c].seen = {} => call[c].got = Model

PageInv == FlowsGrounded /\ PageCalls /\ (agrees => CopyFollows)
=============================================================================
