--------------------------- MODULE SiemIntegration ---------------------------
(***************************************************************************)
(* One integration with a SIEM and one detection: deploy, undeploy,        *)
(* testConnection, the searches and the history sync of                    *)
(* integrations/integrations.service.                                      *)
(*                                                                         *)
(* A call in flight takes one database or SIEM call per action.  Every     *)
(* request to a SIEM carries a timeout, so it ends; what it did there      *)
(* before it timed out stays.  The SIEM is external: it holds the rules    *)
(* and the jobs the code's requests make, and answers or does not.         *)
(***************************************************************************)
EXTENDS Naturals, FiniteSets

CONSTANTS
  Platforms,  \* platforms the integration may have
  Hosts,      \* values of its host
  Names,      \* names the detection has had, numbered from 1
  Calls,      \* requests in flight at once
  None,       \* null
  MaxPushes,  \* bound: rules created in the SIEM
  MaxPolls,   \* polls of a search job, 30 in the code
  MaxJobs,    \* bound: scheduled runs of the rule today
  Window      \* jobs the history request asks for, 50 in the code

KnownPlatforms == {"SPLUNK", "QRADAR", "SENTINEL", "DEFENDER", "ELASTIC", "CHRONICLE", "CUSTOM"}

ASSUME SiemAssumption ==
  /\ Platforms \subseteq KnownPlatforms
  /\ Hosts # {} /\ None \notin Nat
  /\ Names \subseteq Nat \ {0} /\ 1 \in Names
  /\ MaxPushes \in Nat /\ MaxPolls \in Nat \ {0} /\ MaxJobs \in Nat /\ Window \in Nat \ {0}

VARIABLES
  integration,  \* its row; "exists" is FALSE once it was removed
  name,         \* the name of the detection
  dep,          \* the siem_deployments row of the two
  stat,         \* detection_stats: today's triggerCount
  call,         \* where each request stands, with what it read
  rules,        \* external: the rules the SIEM holds
  pushes,       \* external: serial number of the next rule
  jobs,         \* external: how often the rule ran today, and which of the runs triggered
  leaks         \* history: "forgot", a remoteId was written over, an answer did not come, the SIEM
                \* did not follow, or the integration was changed; "raced", handlers overlapped or died

vars == <<integration, name, dep, stat, call, rules, pushes, jobs, leaks>>
siem == <<rules, pushes, jobs>>

-----------------------------------------------------------------------------
Writing == {"push", "store", "find", "remove", "mark"}
FirstHost == CHOOSE h \in Hosts: TRUE
Idle == [at |-> "idle", host |-> FirstHost, name |-> 1,
         remoteId |-> None, status |-> "none", polls |-> 0, done |-> FALSE]

Init ==
  /\ integration \in [platform: Platforms, host: {FirstHost}, exists: {TRUE},
                      status: {"UNCONFIGURED"}]
  /\ name = 1
  /\ dep = [status |-> "none", remoteId |-> None] /\ stat = 0
  /\ call = [c \in Calls |-> Idle]
  /\ rules = {} /\ pushes = 1 /\ jobs = [runs |-> 0, hits |-> {}]
  /\ leaks = {}

Platform == integration.platform

\* a handler uses the host and the name it read at the start
Begin(c, at) == call' = [call EXCEPT ![c] = [Idle EXCEPT !.at = at]]

End(c) == call' = [call EXCEPT ![c] = Idle]

\* the two handlers that write the deployment, both under way
Overlapping(c) ==
  IF \E d \in Calls \ {c}: call[d].at \in Writing THEN {"raced"} ELSE {}

-----------------------------------------------------------------------------
(* pushToSiem: what each platform identifies a rule by.  "key" is what     *)
(* must be unique or is replaced, "id" is what the answer calls the rule.  *)

RuleKey(c) ==
  CASE Platform = "SPLUNK"                    -> call[c].name
    [] Platform \in {"SENTINEL", "ELASTIC"}   -> 0
    [] OTHER                                  -> pushes

RuleId(c) ==
  CASE Platform = "SPLUNK"   -> call[c].name
    [] Platform = "SENTINEL" -> 0
    [] OTHER                 -> pushes

NewRule(c)  == [host |-> call[c].host, key |-> RuleKey(c), id |-> RuleId(c)]
Taken(c)    == \E r \in rules: r.host = call[c].host /\ r.key = RuleKey(c)
Conflict(c) == Platform # "SENTINEL" /\ Taken(c)

\* a disabled integration refuses, which changes nothing
DeployRead(c) ==
  /\ call[c].at = "idle" /\ integration.exists
  /\ call' = [call EXCEPT ![c] = [Idle EXCEPT !.at = "push", !.host = integration.host,
                                              !.name = name]]
  /\ leaks' = leaks \cup Overlapping(c)
  /\ UNCHANGED <<integration, name, dep, stat, siem>>

Answered(c, id, s) ==
  call' = [call EXCEPT ![c] = [Idle EXCEPT !.at = "store", !.remoteId = id, !.status = s]]

\* the SIEM takes the rule and its answer names it
PushCreates(c) ==
  /\ call[c].at = "push" /\ Platform # "CUSTOM" /\ ~Conflict(c) /\ pushes < MaxPushes
  /\ rules' = rules \cup {NewRule(c)} /\ pushes' = pushes + 1
  /\ Answered(c, RuleId(c), "deployed")
  /\ UNCHANGED <<integration, name, dep, stat, jobs, leaks>>

\* the SIEM takes the rule; the answer is late, no JSON, or has no id
PushUnanswered(c, s) ==
  /\ call[c].at = "push" /\ Platform # "CUSTOM" /\ ~Conflict(c) /\ pushes < MaxPushes
  /\ s = "deployed" => Platform # "SENTINEL"
  /\ rules' = rules \cup {NewRule(c)} /\ pushes' = pushes + 1
  /\ Answered(c, None, s)
  /\ leaks' = leaks \cup {"forgot"}
  /\ UNCHANGED <<integration, name, dep, stat, jobs>>

Unpushed(c) ==
  /\ Answered(c, None, "error")
  /\ UNCHANGED <<integration, name, dep, stat, siem, leaks>>

\* Splunk Cloud: the three requests of a browser's login gave no session
PushNoSession(c) == call[c].at = "push" /\ Platform = "SPLUNK" /\ Unpushed(c)

\* Azure gave no token
PushNoToken(c) == call[c].at = "push" /\ Platform = "SENTINEL" /\ Unpushed(c)

\* an HTTP error, or a rule of that name
PushRefused(c) == call[c].at = "push" /\ Platform # "CUSTOM" /\ Unpushed(c)

\* SIGMA and CUSTOM have no remote side
PushNothing(c) ==
  /\ call[c].at = "push" /\ Platform = "CUSTOM"
  /\ Answered(c, None, "deployed")
  /\ UNCHANGED <<integration, name, dep, stat, siem, leaks>>

\* mutant of DeployStore: an error keeps the row as it was
DeployStoreMutKeepsError(c) ==
  /\ call[c].at = "store" /\ integration.exists
  /\ dep' = IF call[c].status = "error" /\ dep.status # "none" THEN dep
            ELSE [status |-> "deployed", remoteId |-> None]
  /\ End(c)
  /\ UNCHANGED <<integration, name, stat, siem, leaks>>

\* the upsert writes remoteId and status whatever the row says
DeployStore(c) ==
  /\ call[c].at = "store" /\ integration.exists
  /\ dep' = [status |-> call[c].status, remoteId |-> call[c].remoteId]
  /\ leaks' = IF dep.remoteId \notin {None, call[c].remoteId}
              THEN leaks \cup {"forgot"} ELSE leaks
  /\ End(c)
  /\ UNCHANGED <<integration, name, stat, siem>>

\* the integration is gone: the upsert throws on its foreign key
DeployUnstored(c) ==
  /\ call[c].at = "store" /\ ~integration.exists
  /\ End(c)
  /\ UNCHANGED <<integration, name, dep, stat, siem, leaks>>

-----------------------------------------------------------------------------
(* undeploy.                                                               *)

UndeployRead(c) ==
  /\ call[c].at = "idle" /\ integration.exists
  /\ call' = [call EXCEPT ![c] = [Idle EXCEPT !.at = "find", !.host = integration.host]]
  /\ leaks' = leaks \cup Overlapping(c)
  /\ UNCHANGED <<integration, name, dep, stat, siem>>

ToMark(c) == call' = [call EXCEPT ![c] = [Idle EXCEPT !.at = "mark"]]

UndeployFind(c) ==
  /\ call[c].at = "find" /\ dep.status # "none"
  /\ IF dep.remoteId = None THEN ToMark(c)
     ELSE call' = [call EXCEPT ![c].at = "remove", ![c].remoteId = dep.remoteId]
  /\ UNCHANGED <<integration, name, dep, stat, siem, leaks>>

\* 404 No deployment found
UndeployNothing(c) ==
  /\ call[c].at = "find" /\ dep.status = "none"
  /\ End(c)
  /\ UNCHANGED <<integration, name, dep, stat, siem, leaks>>

\* removeFromSiem: the rules the request of each platform names.  Elastic is
\* asked by rule_id, the key, with the id it answered; two have no request
Named(c) ==
  {r \in rules:
    /\ r.host = call[c].host
    /\ CASE Platform \in {"SPLUNK", "QRADAR", "SENTINEL"} -> r.id = call[c].remoteId
         [] Platform = "ELASTIC"                          -> r.key = call[c].remoteId
         [] OTHER                                         -> FALSE}

\* the status of the answer is not looked at
UndeployRemove(c) ==
  /\ call[c].at = "remove"
  /\ rules' = rules \ Named(c)
  /\ leaks' = IF Named(c) = {} THEN leaks \cup {"forgot"} ELSE leaks
  /\ ToMark(c)
  /\ UNCHANGED <<integration, name, dep, stat, pushes, jobs>>

\* refused, or thrown and caught: it makes no difference to the row
UndeployIgnored(c) ==
  /\ call[c].at = "remove"
  /\ leaks' = leaks \cup {"forgot"}
  /\ ToMark(c)
  /\ UNCHANGED <<integration, name, dep, stat, siem>>

\* mutant of UndeployMark: the row of a deployment stays as it was
UndeployMarkMutKeeps(c) ==
  /\ call[c].at = "mark"
  /\ End(c)
  /\ UNCHANGED <<integration, name, dep, stat, siem, leaks>>

\* remoteId stays; without the row the update throws
UndeployMark(c) ==
  /\ call[c].at = "mark"
  /\ dep' = IF dep.status = "none" THEN dep ELSE [dep EXCEPT !.status = "removed"]
  /\ End(c)
  /\ UNCHANGED <<integration, name, stat, siem, leaks>>

-----------------------------------------------------------------------------
(* testConnection: the status is written by id, whatever was changed.      *)

TestRead(c) ==
  /\ call[c].at = "idle" /\ integration.exists
  /\ Begin(c, "ping")
  /\ UNCHANGED <<integration, name, dep, stat, siem, leaks>>

\* every platform answers or fails in time; SIGMA and CUSTOM always succeed
Ping(c, s) ==
  /\ call[c].at = "ping"
  /\ s = "ERROR" => Platform # "CUSTOM"
  /\ call' = [call EXCEPT ![c].at = "status", ![c].status = s]
  /\ UNCHANGED <<integration, name, dep, stat, siem, leaks>>

TestStore(c) ==
  /\ call[c].at = "status"
  /\ integration' = IF integration.exists THEN [integration EXCEPT !.status = call[c].status]
                    ELSE integration
  /\ End(c)
  /\ UNCHANGED <<name, dep, stat, siem, leaks>>

-----------------------------------------------------------------------------
(* runDetectionSearch and runArbitraryQuery: create a job, poll, fetch.    *)

\* any row will do, a removed one as well
SearchRead(c) ==
  /\ call[c].at = "idle" /\ integration.exists /\ Platform = "SPLUNK"
  /\ dep.status # "none"
  /\ Begin(c, "poll")
  /\ UNCHANGED <<integration, name, dep, stat, siem, leaks>>

\* the query of a playbook or a schedule needs no deployment
QueryRead(c) ==
  /\ call[c].at = "idle" /\ integration.exists /\ Platform = "SPLUNK"
  /\ Begin(c, "poll")
  /\ UNCHANGED <<integration, name, dep, stat, siem, leaks>>

\* external: the job of the search is done
JobDone(c) ==
  /\ call[c].at = "poll" /\ ~call[c].done
  /\ call' = [call EXCEPT ![c].done = TRUE]
  /\ UNCHANGED <<integration, name, dep, stat, siem, leaks>>

\* mutant of Poll: a poll that fails is not counted
PollMutUncounted(c, answered) ==
  /\ call[c].at = "poll" /\ call[c].polls < MaxPolls
  /\ call' = [call EXCEPT ![c].polls = IF answered THEN call[c].polls + 1 ELSE 0,
                          ![c].at = IF answered /\ call[c].done THEN "results" ELSE "poll"]
  /\ UNCHANGED <<integration, name, dep, stat, siem, leaks>>

\* a poll that throws or is refused counts as one that is not done
Poll(c, answered) ==
  /\ call[c].at = "poll" /\ call[c].polls < MaxPolls
  /\ call' = [call EXCEPT ![c].polls = call[c].polls + 1,
                          ![c].at = IF answered /\ call[c].done THEN "results" ELSE "poll"]
  /\ UNCHANGED <<integration, name, dep, stat, siem, leaks>>

\* 400 Search timed out: a job that finishes now is never looked at
SearchTimesOut(c) ==
  /\ call[c].at = "poll" /\ call[c].polls = MaxPolls
  /\ End(c)
  /\ UNCHANGED <<integration, name, dep, stat, siem, leaks>>

SearchResults(c) ==
  /\ call[c].at = "results"
  /\ End(c)
  /\ UNCHANGED <<integration, name, dep, stat, siem, leaks>>

-----------------------------------------------------------------------------
(* fetchSplunkHistory.                                                     *)

SyncRead(c) ==
  /\ call[c].at = "idle" /\ integration.exists /\ Platform = "SPLUNK" /\ dep.remoteId # None
  /\ call' = [call EXCEPT ![c] = [Idle EXCEPT !.at = "list", !.host = integration.host,
                                              !.remoteId = dep.remoteId]]
  /\ UNCHANGED <<integration, name, dep, stat, siem, leaks>>

Triggered == Cardinality(jobs.hits)
Latest(n) == {j \in jobs.hits: j + n > jobs.runs}

\* the latest runs; one whose details do not come counts as not triggered
SyncList(c, n) ==
  /\ call[c].at = "list" /\ \E r \in rules: r.host = call[c].host /\ r.id = call[c].remoteId
  /\ jobs.runs > 0 /\ n \in 0..Cardinality(Latest(Window))
  /\ call' = [call EXCEPT ![c].at = "count", ![c].polls = n]
  /\ UNCHANGED <<integration, name, dep, stat, siem, leaks>>

\* no such search, an HTTP error, or nothing to count
SyncNothing(c) ==
  /\ call[c].at = "list"
  /\ End(c)
  /\ UNCHANGED <<integration, name, dep, stat, siem, leaks>>

\* mutant of SyncStore: the runs are counted again
SyncStoreMutAdds(c) ==
  /\ call[c].at = "count"
  /\ stat' = stat + call[c].polls
  /\ End(c)
  /\ UNCHANGED <<integration, name, dep, siem, leaks>>

\* the upsert sets the count of the day
SyncStore(c) ==
  /\ call[c].at = "count"
  /\ stat' = call[c].polls
  /\ End(c)
  /\ UNCHANGED <<integration, name, dep, siem, leaks>>

-----------------------------------------------------------------------------
(* Changes of the rows, and of the SIEM on its own.                        *)

\* bound: never back to an earlier name, and only where a rule is known by name
Rename(n) ==
  /\ Platform = "SPLUNK" /\ n > name /\ name' = n
  /\ UNCHANGED <<integration, dep, stat, call, siem, leaks>>

\* the deployments stay, for a host that knows nothing of them; bound: once
ChangeHost(h) ==
  /\ integration.exists /\ h # integration.host /\ integration.host = FirstHost
  /\ integration' = [integration EXCEPT !.host = h]
  /\ leaks' = leaks \cup {"forgot"}
  /\ UNCHANGED <<name, dep, stat, call, siem>>

\* the deployments go with it, the rules do not
RemoveIntegration ==
  /\ integration.exists
  /\ integration' = [integration EXCEPT !.exists = FALSE]
  /\ dep' = [status |-> "none", remoteId |-> None]
  /\ leaks' = leaks \cup {"forgot"}
  /\ UNCHANGED <<name, stat, call, siem>>

\* a database call throws, or the process dies
CallDies(c) ==
  /\ call[c].at # "idle"
  /\ leaks' = IF call[c].at \in Writing THEN leaks \cup {"raced"} ELSE leaks
  /\ End(c)
  /\ UNCHANGED <<integration, name, dep, stat, siem>>

\* external: the scheduled search of a rule runs
RuleRuns(triggered) ==
  /\ Platform = "SPLUNK" /\ rules # {} /\ jobs.runs < MaxJobs
  /\ jobs' = [runs |-> jobs.runs + 1,
              hits |-> jobs.hits \cup (IF triggered THEN {jobs.runs + 1} ELSE {})]
  /\ UNCHANGED <<integration, name, dep, stat, call, rules, pushes, leaks>>

-----------------------------------------------------------------------------
\* what a call does next
Advance(c) ==
  \/ PushCreates(c) \/ PushNothing(c)
  \/ PushNoSession(c) \/ PushNoToken(c) \/ PushRefused(c)
  \/ \E s \in {"deployed", "error"}: PushUnanswered(c, s)
  \/ DeployStore(c) \/ DeployUnstored(c)
  \/ UndeployFind(c) \/ UndeployNothing(c) \/ UndeployRemove(c) \/ UndeployIgnored(c)
  \/ UndeployMark(c)
  \/ \E s \in {"CONNECTED", "ERROR"}: Ping(c, s)
  \/ TestStore(c)
  \/ \E a \in BOOLEAN: Poll(c, a)
  \/ SearchTimesOut(c) \/ SearchResults(c)
  \/ \E n \in 0..Window: SyncList(c, n)
  \/ SyncNothing(c) \/ SyncStore(c)

Arrive(c) ==
  DeployRead(c) \/ UndeployRead(c) \/ TestRead(c) \/ SearchRead(c) \/ QueryRead(c) \/ SyncRead(c)

Environment ==
  \/ \E n \in Names: Rename(n)
  \/ \E h \in Hosts: ChangeHost(h)
  \/ RemoveIntegration
  \/ \E b \in BOOLEAN: RuleRuns(b)

Next ==
  \/ \E c \in Calls: Arrive(c) \/ Advance(c) \/ JobDone(c) \/ CallDies(c)
  \/ Environment

Spec == Init /\ [][Next]_vars

-----------------------------------------------------------------------------
Quiet == \A c \in Calls: call[c].at \notin Writing

\* A deployment shown as deployed runs: when no handler is at work on it and
\* none overlapped another or died, the rule its remoteId names is in the SIEM.
DeployedIsRunning ==
  Quiet /\ dep.status = "deployed" /\ dep.remoteId # None /\ "raced" \notin leaks
    => \E r \in rules: r.id = dep.remoteId

\* No rule is forgotten without a reason: one in the SIEM that the row does not
\* show as deployed was lost by an answer that did not come, an undeployment the
\* SIEM did not follow, a remoteId written over, or a change of the integration.
NothingForgotten ==
  Quiet /\ leaks = {} => \A r \in rules: dep = [status |-> "deployed", remoteId |-> r.id]

\* The trigger count of a day never exceeds the runs that triggered, however
\* often and in whatever order the history is synced.
NeverOvercounts == stat <= Triggered

\* The steps a handler has left before it answers, at most.
StepsLeft(k) ==
  CASE k.at = "idle"                                    -> 0
    [] k.at \in {"store", "mark", "status", "results", "count"} -> 1
    [] k.at \in {"push", "ping", "list", "remove"}      -> 2
    [] k.at = "find"                                    -> 3
    [] k.at = "poll"  -> 2 + (MaxPolls - k.polls) + (IF k.done THEN 0 ELSE 1)

\* Every request gets nearer to its answer with every step it takes, whatever the
\* SIEM does: no fetch is without a timeout, no poll without a limit, nothing is
\* retried for ever.
CallsEnd ==
  [][\A c \in Calls: call[c].at # "idle" /\ call'[c] # call[c]
                      => StepsLeft(call'[c]) < StepsLeft(call[c])]_vars
-----------------------------------------------------------------------------
(* What is inductive: IInv for the first two, with CountInv for the third.  *)

Ats == Writing \cup {"idle", "ping", "status", "poll", "results", "list", "count"}
CallStatuses == {"none", "deployed", "error", "CONNECTED", "ERROR"}
Call == [at: Ats, host: Hosts, name: Names, remoteId: Nat \cup {None}, status: CallStatuses,
         polls: Nat, done: BOOLEAN]

TypeOK ==
  /\ integration \in [platform: Platforms, host: Hosts, exists: BOOLEAN,
                      status: {"UNCONFIGURED", "CONNECTED", "ERROR"}]
  /\ name \in Names /\ stat \in Nat
  /\ dep \in [status: {"none", "deployed", "error", "removed"}, remoteId: Nat \cup {None}]
  /\ call \in [Calls -> Call]
  /\ rules \subseteq [host: Hosts, key: Nat, id: Nat]
  /\ pushes \in Nat /\ jobs \in [runs: Nat, hits: SUBSET Nat] /\ leaks \subseteq {"forgot", "raced"}

Running(id) == \E r \in rules: r.id = id

\* no two handlers that write the deployment are under way
OneWriter ==
  "raced" \notin leaks =>
    \A c \in Calls: \A d \in Calls: call[c].at \in Writing /\ call[d].at \in Writing => c = d

\* what a call carries, once no other can have changed it
Carries(k) ==
  /\ k.at = "poll" => k.polls <= MaxPolls
  /\ k.at = "store" => k.status \in {"deployed", "error"}
  /\ k.at = "status" => k.status \in {"CONNECTED", "ERROR"}
  /\ k.at = "store" /\ k.remoteId # None => k.status = "deployed"
  /\ k.at = "store" /\ k.remoteId # None /\ "raced" \notin leaks => Running(k.remoteId)
  /\ k.at \in {"push", "find", "remove"} /\ leaks = {} => k.host = FirstHost
  /\ k.at = "remove" /\ leaks = {} => k.remoteId = dep.remoteId

Removing == \E c \in Calls: call[c].at = "mark"

\* the rule is there until an undeployment that will say so has removed it
RuleBehindRow ==
  "raced" \notin leaks /\ dep.status = "deployed" /\ dep.remoteId # None /\ ~Removing
    => Running(dep.remoteId)

\* a rule is in the row or in the hands of the call that will write it there
RowBehindRule ==
  leaks = {} =>
    /\ integration.exists /\ integration.host = FirstHost
    /\ \A r \in rules:
         /\ r.host = FirstHost /\ (Platform = "ELASTIC" => r.key = 0)
         /\ \/ dep = [status |-> "deployed", remoteId |-> r.id] /\ ~Removing
            \/ \E c \in Calls: call[c].at = "store" /\ call[c].remoteId = r.id

IInv ==
  /\ TypeOK /\ OneWriter
  /\ \A c \in Calls: Carries(call[c])
  /\ RuleBehindRow /\ RowBehindRule

\* the runs are numbered, and a count a call is to write was read off them
CountInv ==
  /\ jobs.hits \subseteq 1..jobs.runs
  /\ \A c \in Calls: call[c].at = "count" => call[c].polls <= Triggered
  /\ NeverOvercounts
=============================================================================
