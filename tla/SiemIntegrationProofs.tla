------------------------ MODULE SiemIntegrationProofs ------------------------
(***************************************************************************)
(* Proofs about SiemIntegration, for any number of calls in flight, any    *)
(* platforms, hosts and names.                                             *)
(***************************************************************************)
EXTENDS SiemIntegration, FiniteSetTheorems, TLAPS

\* A call at rest has the types.
LEMMA IdleIsCall == Idle \in Call
  BY SiemAssumption DEF Idle, Call, Ats, CallStatuses, FirstHost

\* The invariant holds initially.
LEMMA Initially == Init => IInv
<1> SUFFICES ASSUME Init PROVE IInv
  OBVIOUS
<1>h. FirstHost \in Hosts
  BY SiemAssumption DEF FirstHost
<1>i. integration \in [platform: Platforms, host: Hosts, exists: BOOLEAN,
                      status: {"UNCONFIGURED", "CONNECTED", "ERROR"}]
  BY <1>h DEF Init
<1>1. TypeOK
  BY <1>i, IdleIsCall, SiemAssumption DEF Init, TypeOK
<1>2. OneWriter /\ (\A c \in Calls: Carries(call[c]))
  BY DEF Init, OneWriter, Carries, Idle, Writing
<1>3. RuleBehindRow /\ RowBehindRule
  BY DEF Init, RuleBehindRow, RowBehindRule
<1>4. QED
  BY <1>1, <1>2, <1>3 DEF IInv

\* The rule a call would create has the types.
LEMMA RuleIsTyped ==
  ASSUME TypeOK, NEW c \in Calls
  PROVE  NewRule(c) \in [host: Hosts, key: Nat, id: Nat] /\ RuleId(c) \in Nat
<1>1. call[c].host \in Hosts /\ call[c].name \in Nat /\ pushes \in Nat
  BY SiemAssumption DEF TypeOK, Call
<1>2. RuleKey(c) \in Nat /\ RuleId(c) \in Nat
  BY <1>1 DEF RuleKey, RuleId
<1>3. QED
  BY <1>1, <1>2 DEF NewRule

\* Every step keeps the types.
LEMMA Step_TypeOK == IInv /\ [Next]_vars => TypeOK'
<1> SUFFICES ASSUME IInv, [Next]_vars PROVE TypeOK'
  OBVIOUS
<1>t. TypeOK
  BY DEF IInv
<1>c. \A c \in Calls: Carries(call[c])
  BY DEF IInv
<1>1. ASSUME NEW c \in Calls, DeployRead(c) PROVE TypeOK'
  BY <1>t, <1>1, SiemAssumption, IdleIsCall
    DEF DeployRead, Overlapping, TypeOK, Call, Ats, CallStatuses, Writing, siem
<1>2. ASSUME NEW c \in Calls, PushCreates(c) PROVE TypeOK'
  <2>1. NewRule(c) \in [host: Hosts, key: Nat, id: Nat] /\ RuleId(c) \in Nat
    BY <1>t, RuleIsTyped
  <2>2. call' \in [Calls -> Call]
    BY <1>t, <1>2, <2>1, IdleIsCall
      DEF PushCreates, Answered, TypeOK, Call, Ats, CallStatuses, Writing
  <2>3. QED
    BY <1>t, <1>2, <2>1, <2>2 DEF PushCreates, TypeOK
<1>3. ASSUME NEW c \in Calls, NEW s \in {"deployed", "error"}, PushUnanswered(c, s) PROVE TypeOK'
  <2>1. NewRule(c) \in [host: Hosts, key: Nat, id: Nat] /\ RuleId(c) \in Nat
    BY <1>t, RuleIsTyped
  <2>2. call' \in [Calls -> Call]
    BY <1>t, <1>3, <2>1, IdleIsCall
      DEF PushUnanswered, Answered, TypeOK, Call, Ats, CallStatuses, Writing
  <2>3. QED
    BY <1>t, <1>3, <2>1, <2>2 DEF PushUnanswered, TypeOK
<1>4. ASSUME NEW c \in Calls, PushNothing(c) PROVE TypeOK'
  BY <1>t, <1>4, SiemAssumption, IdleIsCall
    DEF PushNothing, Answered, TypeOK, Call, Ats, CallStatuses, Writing, siem
<1>5. ASSUME NEW c \in Calls, PushNoSession(c) PROVE TypeOK'
  BY <1>t, <1>5, SiemAssumption, IdleIsCall
    DEF PushNoSession, Unpushed, Answered, TypeOK, Call, Ats, CallStatuses, Writing, siem
<1>6. ASSUME NEW c \in Calls, PushNoToken(c) PROVE TypeOK'
  BY <1>t, <1>6, SiemAssumption, IdleIsCall
    DEF PushNoToken, Unpushed, Answered, TypeOK, Call, Ats, CallStatuses, Writing, siem
<1>7. ASSUME NEW c \in Calls, PushRefused(c) PROVE TypeOK'
  BY <1>t, <1>7, SiemAssumption, IdleIsCall
    DEF PushRefused, Unpushed, Answered, TypeOK, Call, Ats, CallStatuses, Writing, siem
<1>8. ASSUME NEW c \in Calls, DeployStore(c) PROVE TypeOK'
  <2>1. call[c].status \in {"deployed", "error"} /\ call[c].remoteId \in Nat \cup {None}
    BY <1>t, <1>c, <1>8 DEF DeployStore, Carries, TypeOK, Call
  <2>2. call' \in [Calls -> Call]
    BY <1>t, <1>8, IdleIsCall DEF DeployStore, End, TypeOK
  <2>3. QED
    BY <1>t, <1>8, <2>1, <2>2 DEF DeployStore, TypeOK, siem
<1>9. ASSUME NEW c \in Calls, DeployUnstored(c) PROVE TypeOK'
  BY <1>t, <1>9, IdleIsCall DEF DeployUnstored, End, TypeOK, siem
<1>10. ASSUME NEW c \in Calls, UndeployRead(c) PROVE TypeOK'
  BY <1>t, <1>10, SiemAssumption, IdleIsCall
    DEF UndeployRead, Overlapping, TypeOK, Call, Ats, CallStatuses, Writing, siem
<1>11. ASSUME NEW c \in Calls, UndeployFind(c) PROVE TypeOK'
  <2>1. call[c] \in Call /\ dep.remoteId \in Nat \cup {None}
    BY <1>t DEF TypeOK
  <2>2. [Idle EXCEPT !.at = "mark"] \in Call
    BY IdleIsCall DEF Call, Ats, Writing
  <2>3. [call[c] EXCEPT !.at = "remove", !.remoteId = dep.remoteId] \in Call
    BY <2>1 DEF Call, Ats, Writing
  <2>4. call' \in [Calls -> Call]
    BY <1>t, <1>11, <2>2, <2>3 DEF UndeployFind, ToMark, TypeOK
  <2>5. QED
    BY <1>t, <1>11, <2>4 DEF UndeployFind, TypeOK, siem
<1>12. ASSUME NEW c \in Calls, UndeployNothing(c) PROVE TypeOK'
  BY <1>t, <1>12, IdleIsCall DEF UndeployNothing, End, TypeOK, siem
<1>13. ASSUME NEW c \in Calls, UndeployRemove(c) PROVE TypeOK'
  BY <1>t, <1>13, SiemAssumption, IdleIsCall
    DEF UndeployRemove, ToMark, Named, TypeOK, Call, Ats, CallStatuses, Writing, siem
<1>14. ASSUME NEW c \in Calls, UndeployIgnored(c) PROVE TypeOK'
  BY <1>t, <1>14, SiemAssumption, IdleIsCall
    DEF UndeployIgnored, ToMark, TypeOK, Call, Ats, CallStatuses, Writing, siem
<1>15. ASSUME NEW c \in Calls, UndeployMark(c) PROVE TypeOK'
  BY <1>t, <1>15, SiemAssumption, IdleIsCall DEF UndeployMark, End, TypeOK, Call, siem
<1>16. ASSUME NEW c \in Calls, TestRead(c) PROVE TypeOK'
  BY <1>t, <1>16, SiemAssumption, IdleIsCall
    DEF TestRead, Begin, TypeOK, Call, Ats, CallStatuses, Writing, siem
<1>17. ASSUME NEW c \in Calls, NEW s \in {"CONNECTED", "ERROR"}, Ping(c, s) PROVE TypeOK'
  <2>1. call[c] \in Call
    BY <1>t DEF TypeOK
  <2>2. [call[c] EXCEPT !.at = "status", !.status = s] \in Call
    BY <2>1 DEF Call, Ats, CallStatuses, Writing
  <2>3. call' \in [Calls -> Call]
    BY <1>t, <1>17, <2>2 DEF Ping, TypeOK
  <2>4. QED
    BY <1>t, <1>17, <2>3 DEF Ping, TypeOK, siem
<1>18. ASSUME NEW c \in Calls, TestStore(c) PROVE TypeOK'
  <2>1. call[c].status \in {"CONNECTED", "ERROR"}
    BY <1>c, <1>18 DEF TestStore, Carries
  <2>2. integration' \in [platform: Platforms, host: Hosts, exists: BOOLEAN,
                         status: {"UNCONFIGURED", "CONNECTED", "ERROR"}]
    BY <1>t, <1>18, <2>1 DEF TestStore, TypeOK
  <2>3. call' \in [Calls -> Call]
    BY <1>t, <1>18, IdleIsCall DEF TestStore, End, TypeOK
  <2>4. QED
    BY <1>t, <1>18, <2>2, <2>3 DEF TestStore, TypeOK, siem
<1>19. ASSUME NEW c \in Calls, SearchRead(c) PROVE TypeOK'
  BY <1>t, <1>19, SiemAssumption, IdleIsCall
    DEF SearchRead, Begin, TypeOK, Call, Ats, CallStatuses, Writing, siem
<1>20. ASSUME NEW c \in Calls, QueryRead(c) PROVE TypeOK'
  BY <1>t, <1>20, SiemAssumption, IdleIsCall
    DEF QueryRead, Begin, TypeOK, Call, Ats, CallStatuses, Writing, siem
<1>21. ASSUME NEW c \in Calls, JobDone(c) PROVE TypeOK'
  <2>1. call[c] \in Call
    BY <1>t DEF TypeOK
  <2>2. [call[c] EXCEPT !.done = TRUE] \in Call
    BY <2>1 DEF Call, Ats, CallStatuses, Writing
  <2>3. call' \in [Calls -> Call]
    BY <1>t, <1>21, <2>2 DEF JobDone, TypeOK
  <2>4. QED
    BY <1>t, <1>21, <2>3 DEF JobDone, TypeOK, siem
<1>22. ASSUME NEW c \in Calls, NEW b \in BOOLEAN, Poll(c, b) PROVE TypeOK'
  <2>1. call[c] \in Call /\ call[c].polls + 1 \in Nat
    BY <1>t DEF TypeOK, Call
  <2>2. [call[c] EXCEPT !.polls = call[c].polls + 1,
                       !.at = IF b /\ call[c].done THEN "results" ELSE "poll"] \in Call
    BY <2>1 DEF Call, Ats, CallStatuses, Writing
  <2>3. call' \in [Calls -> Call]
    BY <1>t, <1>22, <2>2 DEF Poll, TypeOK
  <2>4. QED
    BY <1>t, <1>22, <2>3 DEF Poll, TypeOK, siem
<1>23. ASSUME NEW c \in Calls, SearchTimesOut(c) PROVE TypeOK'
  BY <1>t, <1>23, IdleIsCall DEF SearchTimesOut, End, TypeOK, siem
<1>24. ASSUME NEW c \in Calls, SearchResults(c) PROVE TypeOK'
  BY <1>t, <1>24, IdleIsCall DEF SearchResults, End, TypeOK, siem
<1>25. ASSUME NEW c \in Calls, SyncRead(c) PROVE TypeOK'
  BY <1>t, <1>25, SiemAssumption, IdleIsCall
    DEF SyncRead, TypeOK, Call, Ats, CallStatuses, Writing, siem
<1>26. ASSUME NEW c \in Calls, NEW n \in 0..Window, SyncList(c, n) PROVE TypeOK'
  <2>1. call[c] \in Call /\ n \in Nat
    BY <1>t DEF TypeOK
  <2>2. [call[c] EXCEPT !.at = "count", !.polls = n] \in Call
    BY <2>1 DEF Call, Ats, CallStatuses, Writing
  <2>3. call' \in [Calls -> Call]
    BY <1>t, <1>26, <2>2 DEF SyncList, TypeOK
  <2>4. QED
    BY <1>t, <1>26, <2>3 DEF SyncList, TypeOK, siem
<1>27. ASSUME NEW c \in Calls, SyncNothing(c) PROVE TypeOK'
  BY <1>t, <1>27, IdleIsCall DEF SyncNothing, End, TypeOK, siem
<1>28. ASSUME NEW c \in Calls, SyncStore(c) PROVE TypeOK'
  BY <1>t, <1>28, IdleIsCall DEF SyncStore, End, TypeOK, Call, siem
<1>29. ASSUME NEW c \in Calls, CallDies(c) PROVE TypeOK'
  BY <1>t, <1>29, IdleIsCall DEF CallDies, End, TypeOK, siem
<1>30. ASSUME NEW n \in Names, Rename(n) PROVE TypeOK'
  BY <1>t, <1>30 DEF Rename, TypeOK, siem
<1>31. ASSUME NEW h \in Hosts, ChangeHost(h) PROVE TypeOK'
  BY <1>t, <1>31, SiemAssumption, IdleIsCall DEF ChangeHost, TypeOK, Call, siem
<1>32. ASSUME RemoveIntegration PROVE TypeOK'
  BY <1>t, <1>32, SiemAssumption, IdleIsCall DEF RemoveIntegration, TypeOK, Call, siem
<1>33. ASSUME NEW b \in BOOLEAN, RuleRuns(b) PROVE TypeOK'
  BY <1>t, <1>33 DEF RuleRuns, TypeOK
<1>34. ASSUME UNCHANGED vars PROVE TypeOK'
  BY <1>t, <1>34 DEF vars, TypeOK
<1>35. QED
  BY <1>1, <1>2, <1>3, <1>4, <1>5, <1>6, <1>7, <1>8, <1>9, <1>10, <1>11, <1>12, <1>13, <1>14,
     <1>15, <1>16, <1>17, <1>18, <1>19, <1>20, <1>21, <1>22, <1>23, <1>24, <1>25, <1>26, <1>27,
     <1>28, <1>29, <1>30, <1>31, <1>32, <1>33, <1>34 DEF Next, Advance, Arrive, Environment

\* A rule stays with its row, or with the call that will write it there, while
\* that call does not end and nobody says that an undeployment is over.
LEMMA RowStays ==
  ASSUME IInv, NEW c \in Calls, UNCHANGED <<dep, rules>>, leaks \subseteq leaks',
         \/ UNCHANGED integration
         \/ integration' = [integration EXCEPT !.status = call[c].status],
         \A d \in Calls \ {c}: call'[d] = call[d],
         call[c].at # "store" \/ leaks' # {},
         call'[c].at # "mark" \/ leaks' # {}
  PROVE  RowBehindRule'
<1>1. RowBehindRule /\ TypeOK
  BY DEF IInv
<1>2. /\ integration'.exists = integration.exists /\ integration'.host = integration.host
      /\ integration'.platform = integration.platform
  BY <1>1 DEF TypeOK
<1>3. CASE leaks' # {}
  BY <1>3 DEF RowBehindRule
<1>4. CASE leaks' = {}
  <2>1. leaks = {} /\ (Removing' => Removing)
    BY <1>4 DEF Removing
  <2>2. ASSUME NEW r \in rules, \E d \in Calls: call[d].at = "store" /\ call[d].remoteId = r.id
        PROVE  \E d \in Calls: call'[d].at = "store" /\ call'[d].remoteId = r.id
    BY <1>4, <2>2
  <2>3. QED
    BY <1>1, <1>2, <2>1 DEF RowBehindRule, Platform
<1>5. QED
  BY <1>3, <1>4

\* Every step keeps the rest of the invariant.
LEMMA Step_IInv == IInv /\ [Next]_vars => IInv'
<1> SUFFICES ASSUME IInv, [Next]_vars PROVE IInv'
  OBVIOUS
<1>t. TypeOK /\ OneWriter /\ (\A c \in Calls: Carries(call[c])) /\ RuleBehindRow /\ RowBehindRule
  BY DEF IInv
<1>p. TypeOK'
  BY Step_TypeOK
<1>1. ASSUME NEW c \in Calls, DeployRead(c) PROVE IInv'
  <2>1. OneWriter'
    BY <1>1 DEF OneWriter, DeployRead, Overlapping
  <2>2. ASSUME NEW e \in Calls PROVE Carries(call[e])'
    BY <1>t, <1>1 DEF Carries, RowBehindRule, DeployRead, Overlapping, Writing
  <2>3. RuleBehindRow'
    BY <1>t, <1>1 DEF RuleBehindRow, Running, Removing, DeployRead, siem
  <2>4. /\ UNCHANGED <<dep, rules>> /\ leaks \subseteq leaks'
        /\ UNCHANGED integration
        /\ \A d \in Calls \ {c}: call'[d] = call[d]
        /\ call[c].at # "store" \/ leaks' # {}
        /\ call'[c].at # "mark" \/ leaks' # {}
    BY <1>1 DEF DeployRead, siem
  <2>5. RowBehindRule'
    BY <2>4, RowStays
  <2>6. QED
    BY <1>p, <2>1, <2>2, <2>3, <2>5 DEF IInv
<1>2. ASSUME NEW c \in Calls, PushCreates(c) PROVE IInv'
  <2>1. OneWriter'
    BY <1>t, <1>2 DEF OneWriter, PushCreates, Answered, Writing
  <2>2. ASSUME NEW e \in Calls PROVE Carries(call[e])'
    <3>1. CASE e = c
      <4>1. NewRule(c) \in rules' /\ NewRule(c).id = RuleId(c)
        BY <1>2 DEF PushCreates, NewRule
      <4>2. call'[c].at = "store" /\ call'[c].remoteId = RuleId(c) /\ call'[c].status = "deployed"
        BY <1>t, <1>2 DEF PushCreates, Answered, TypeOK
      <4>3. QED
        BY <3>1, <4>1, <4>2 DEF Carries, Running
    <3>2. CASE e # c
      BY <1>t, <1>2, <3>2 DEF Carries, Running, PushCreates, Answered
    <3>3. QED
      BY <3>1, <3>2
  <2>3. RuleBehindRow'
    BY <1>t, <1>2 DEF RuleBehindRow, Running, Removing, PushCreates, Answered
  <2>4. RowBehindRule'
    BY <1>t, <1>2
      DEF RowBehindRule, Removing, Carries, Platform, PushCreates, NewRule, RuleKey, Answered,
          TypeOK
  <2>5. QED
    BY <1>p, <2>1, <2>2, <2>3, <2>4 DEF IInv
<1>3. ASSUME NEW c \in Calls, NEW s \in {"deployed", "error"}, PushUnanswered(c, s) PROVE IInv'
  <2>1. OneWriter'
    BY <1>t, <1>3 DEF OneWriter, PushUnanswered, Answered, Writing
  <2>2. ASSUME NEW e \in Calls PROVE Carries(call[e])'
    BY <1>t, <1>3 DEF Carries, Running, PushUnanswered, Answered
  <2>3. RuleBehindRow'
    BY <1>t, <1>3 DEF RuleBehindRow, Running, Removing, PushUnanswered, Answered
  <2>4. RowBehindRule'
    BY <1>t, <1>3, SiemAssumption
      DEF RowBehindRule, Removing, Carries, OneWriter, Platform, PushUnanswered, Conflict,
          Taken, NewRule, RuleKey, RuleId, Answered, Idle, Writing, TypeOK, Call, siem
  <2>5. QED
    BY <1>p, <2>1, <2>2, <2>3, <2>4 DEF IInv
<1>4. ASSUME NEW c \in Calls, PushNothing(c) PROVE IInv'
  <2>1. OneWriter'
    BY <1>t, <1>4 DEF OneWriter, PushNothing, Answered, Writing
  <2>2. ASSUME NEW e \in Calls PROVE Carries(call[e])'
    BY <1>t, <1>4 DEF Carries, Running, PushNothing, Answered, siem
  <2>3. RuleBehindRow'
    BY <1>t, <1>4 DEF RuleBehindRow, Running, Removing, PushNothing, Answered, siem
  <2>4. /\ UNCHANGED <<dep, rules>> /\ leaks \subseteq leaks'
        /\ UNCHANGED integration
        /\ \A d \in Calls \ {c}: call'[d] = call[d]
        /\ call[c].at # "store" \/ leaks' # {}
        /\ call'[c].at # "mark" \/ leaks' # {}
    BY <1>4 DEF PushNothing, Answered, siem
  <2>5. RowBehindRule'
    BY <2>4, RowStays
  <2>6. QED
    BY <1>p, <2>1, <2>2, <2>3, <2>5 DEF IInv
<1>5. ASSUME NEW c \in Calls, PushNoSession(c) PROVE IInv'
  <2>1. OneWriter'
    BY <1>t, <1>5 DEF OneWriter, PushNoSession, Unpushed, Answered, Writing
  <2>2. ASSUME NEW e \in Calls PROVE Carries(call[e])'
    BY <1>t, <1>5 DEF Carries, Running, PushNoSession, Unpushed, Answered, siem
  <2>3. RuleBehindRow'
    BY <1>t, <1>5 DEF RuleBehindRow, Running, Removing, PushNoSession, Unpushed, Answered, siem
  <2>4. /\ UNCHANGED <<dep, rules>> /\ leaks \subseteq leaks'
        /\ UNCHANGED integration
        /\ \A d \in Calls \ {c}: call'[d] = call[d]
        /\ call[c].at # "store" \/ leaks' # {}
        /\ call'[c].at # "mark" \/ leaks' # {}
    BY <1>5 DEF PushNoSession, Unpushed, Answered, siem
  <2>5. RowBehindRule'
    BY <2>4, RowStays
  <2>6. QED
    BY <1>p, <2>1, <2>2, <2>3, <2>5 DEF IInv
<1>6. ASSUME NEW c \in Calls, PushNoToken(c) PROVE IInv'
  <2>1. OneWriter'
    BY <1>t, <1>6 DEF OneWriter, PushNoToken, Unpushed, Answered, Writing
  <2>2. ASSUME NEW e \in Calls PROVE Carries(call[e])'
    BY <1>t, <1>6 DEF Carries, Running, PushNoToken, Unpushed, Answered, siem
  <2>3. RuleBehindRow'
    BY <1>t, <1>6 DEF RuleBehindRow, Running, Removing, PushNoToken, Unpushed, Answered, siem
  <2>4. /\ UNCHANGED <<dep, rules>> /\ leaks \subseteq leaks'
        /\ UNCHANGED integration
        /\ \A d \in Calls \ {c}: call'[d] = call[d]
        /\ call[c].at # "store" \/ leaks' # {}
        /\ call'[c].at # "mark" \/ leaks' # {}
    BY <1>6 DEF PushNoToken, Unpushed, Answered, siem
  <2>5. RowBehindRule'
    BY <2>4, RowStays
  <2>6. QED
    BY <1>p, <2>1, <2>2, <2>3, <2>5 DEF IInv
<1>7. ASSUME NEW c \in Calls, PushRefused(c) PROVE IInv'
  <2>1. OneWriter'
    BY <1>t, <1>7 DEF OneWriter, PushRefused, Unpushed, Answered, Writing
  <2>2. ASSUME NEW e \in Calls PROVE Carries(call[e])'
    BY <1>t, <1>7 DEF Carries, Running, PushRefused, Unpushed, Answered, siem
  <2>3. RuleBehindRow'
    BY <1>t, <1>7 DEF RuleBehindRow, Running, Removing, PushRefused, Unpushed, Answered, siem
  <2>4. /\ UNCHANGED <<dep, rules>> /\ leaks \subseteq leaks'
        /\ UNCHANGED integration
        /\ \A d \in Calls \ {c}: call'[d] = call[d]
        /\ call[c].at # "store" \/ leaks' # {}
        /\ call'[c].at # "mark" \/ leaks' # {}
    BY <1>7 DEF PushRefused, Unpushed, Answered, siem
  <2>5. RowBehindRule'
    BY <2>4, RowStays
  <2>6. QED
    BY <1>p, <2>1, <2>2, <2>3, <2>5 DEF IInv
<1>8. ASSUME NEW c \in Calls, DeployStore(c) PROVE IInv'
  <2>1. OneWriter'
    BY <1>t, <1>8 DEF OneWriter, DeployStore, End, Writing
  <2>2. ASSUME NEW e \in Calls PROVE Carries(call[e])'
    BY <1>t, <1>8 DEF Carries, OneWriter, DeployStore, End, Idle, Writing, TypeOK
  <2>3. RuleBehindRow'
    BY <1>t, <1>8 DEF RuleBehindRow, Running, Carries, DeployStore, siem
  <2>4. RowBehindRule'
    BY <1>t, <1>8, SiemAssumption
      DEF RowBehindRule, Removing, Carries, OneWriter, Platform, DeployStore, End, Idle,
          Writing, TypeOK, siem
  <2>5. QED
    BY <1>p, <2>1, <2>2, <2>3, <2>4 DEF IInv
<1>9. ASSUME NEW c \in Calls, DeployUnstored(c) PROVE IInv'
  <2>1. OneWriter'
    BY <1>t, <1>9 DEF OneWriter, DeployUnstored, End, Writing
  <2>2. ASSUME NEW e \in Calls PROVE Carries(call[e])'
    BY <1>t, <1>9 DEF Carries, Running, DeployUnstored, End, Idle, siem
  <2>3. RuleBehindRow'
    BY <1>t, <1>9 DEF RuleBehindRow, Running, Removing, DeployUnstored, End, siem
  <2>4. /\ UNCHANGED <<dep, rules>> /\ leaks \subseteq leaks'
        /\ UNCHANGED integration
        /\ \A d \in Calls \ {c}: call'[d] = call[d]
        /\ call[c].at # "store" \/ leaks' # {}
        /\ call'[c].at # "mark" \/ leaks' # {}
    BY <1>t, <1>9 DEF DeployUnstored, End, siem, RowBehindRule
  <2>5. RowBehindRule'
    BY <2>4, RowStays
  <2>6. QED
    BY <1>p, <2>1, <2>2, <2>3, <2>5 DEF IInv
<1>10. ASSUME NEW c \in Calls, UndeployRead(c) PROVE IInv'
  <2>1. OneWriter'
    BY <1>10 DEF OneWriter, UndeployRead, Overlapping
  <2>2. ASSUME NEW e \in Calls PROVE Carries(call[e])'
    BY <1>t, <1>10 DEF Carries, RowBehindRule, UndeployRead, Overlapping, Writing
  <2>3. RuleBehindRow'
    BY <1>t, <1>10 DEF RuleBehindRow, Running, Removing, UndeployRead, siem
  <2>4. /\ UNCHANGED <<dep, rules>> /\ leaks \subseteq leaks'
        /\ UNCHANGED integration
        /\ \A d \in Calls \ {c}: call'[d] = call[d]
        /\ call[c].at # "store" \/ leaks' # {}
        /\ call'[c].at # "mark" \/ leaks' # {}
    BY <1>10 DEF UndeployRead, siem
  <2>5. RowBehindRule'
    BY <2>4, RowStays
  <2>6. QED
    BY <1>p, <2>1, <2>2, <2>3, <2>5 DEF IInv
<1>11. ASSUME NEW c \in Calls, UndeployFind(c) PROVE IInv'
  <2>1. OneWriter'
    BY <1>t, <1>11 DEF OneWriter, UndeployFind, ToMark, Idle, Writing, TypeOK, Call, siem
  <2>2. ASSUME NEW e \in Calls PROVE Carries(call[e])'
    <3>1. CASE e # c
      BY <1>t, <1>11, <3>1 DEF Carries, Running, UndeployFind, siem, ToMark, TypeOK
    <3>2. CASE e = c /\ dep.remoteId = None
      BY <1>t, <1>11, <3>2 DEF Carries, UndeployFind, ToMark, Idle, TypeOK
    <3>3. CASE e = c /\ dep.remoteId # None
      <4>1. /\ call'[c].at = "remove" /\ call'[c].remoteId = dep.remoteId
            /\ call'[c].host = call[c].host
        BY <1>t, <1>11, <3>3 DEF UndeployFind, TypeOK, Call
      <4>2. leaks = {} => call[c].host = FirstHost
        BY <1>t, <1>11 DEF UndeployFind, Carries
      <4>3. QED
        BY <1>11, <3>3, <4>1, <4>2 DEF Carries, UndeployFind
    <3>4. QED
      BY <3>1, <3>2, <3>3
  <2>3. RuleBehindRow'
    BY <1>t, <1>11 DEF RuleBehindRow, Running, Removing, UndeployFind, siem, TypeOK
  <2>4. RowBehindRule'
    <3>1. CASE leaks # {}
      BY <1>11, <3>1 DEF RowBehindRule, UndeployFind
    <3>2. CASE leaks = {} /\ dep.remoteId = None
      <4>1. \A d \in Calls: call[d].at # "store"
        BY <1>t, <1>11, <3>2 DEF OneWriter, Writing, UndeployFind
      <4>2. \A r \in rules: r.id # None
        BY <1>t, SiemAssumption DEF TypeOK
      <4>3. rules = {}
        BY <1>t, <3>2, <4>1, <4>2 DEF RowBehindRule
      <4>4. QED
        BY <1>t, <1>11, <4>3 DEF RowBehindRule, UndeployFind, siem
    <3>3. CASE leaks = {} /\ dep.remoteId # None
      <4>1. call'[c].at = "remove" /\ \A d \in Calls \ {c}: call'[d] = call[d]
        BY <1>t, <1>11, <3>3 DEF UndeployFind, TypeOK, Call
      <4>2. UNCHANGED <<integration, dep, rules, leaks>> /\ call[c].at = "find"
        BY <1>11 DEF UndeployFind, siem
      <4>3. QED
        BY <4>1, <4>2, RowStays
    <3>4. QED
      BY <3>1, <3>2, <3>3
  <2>5. QED
    BY <1>p, <2>1, <2>2, <2>3, <2>4 DEF IInv
<1>12. ASSUME NEW c \in Calls, UndeployNothing(c) PROVE IInv'
  <2>1. OneWriter'
    BY <1>t, <1>12 DEF OneWriter, UndeployNothing, End, Writing
  <2>2. ASSUME NEW e \in Calls PROVE Carries(call[e])'
    BY <1>t, <1>12 DEF Carries, Running, UndeployNothing, End, Idle, siem
  <2>3. RuleBehindRow'
    BY <1>12 DEF RuleBehindRow, UndeployNothing
  <2>4. /\ UNCHANGED <<dep, rules>> /\ leaks \subseteq leaks'
        /\ UNCHANGED integration
        /\ \A d \in Calls \ {c}: call'[d] = call[d]
        /\ call[c].at # "store" \/ leaks' # {}
        /\ call'[c].at # "mark" \/ leaks' # {}
    BY <1>12 DEF UndeployNothing, End, Idle, siem
  <2>5. RowBehindRule'
    BY <2>4, RowStays
  <2>6. QED
    BY <1>p, <2>1, <2>2, <2>3, <2>5 DEF IInv
<1>13. ASSUME NEW c \in Calls, UndeployRemove(c) PROVE IInv'
  <2>1. OneWriter'
    BY <1>t, <1>13 DEF OneWriter, UndeployRemove, ToMark, Writing
  <2>2. ASSUME NEW e \in Calls PROVE Carries(call[e])'
    BY <1>t, <1>13 DEF Carries, OneWriter, UndeployRemove, ToMark, Writing
  <2>3. RuleBehindRow'
    BY <1>t, <1>13 DEF RuleBehindRow, Removing, UndeployRemove, ToMark, TypeOK
  <2>4. RowBehindRule'
    <3>1. CASE leaks' # {}
      BY <3>1 DEF RowBehindRule
    <3>2. CASE leaks' = {}
      <4>1. leaks = {} /\ Named(c) # {} /\ rules' = rules \ Named(c) /\ UNCHANGED <<integration, dep>>
        BY <1>13, <3>2 DEF UndeployRemove
      <4>2. \A d \in Calls: call[d].at # "store"
        BY <1>t, <1>13, <4>1 DEF OneWriter, Writing, UndeployRemove
      <4>3. \A r \in rules: r.id = dep.remoteId /\ r.host = FirstHost /\ (Platform = "ELASTIC" => r.key = 0)
        BY <1>t, <4>1, <4>2 DEF RowBehindRule
      <4>4. call[c].host = FirstHost /\ call[c].remoteId = dep.remoteId
        BY <1>t, <1>13, <4>1 DEF Carries, UndeployRemove
      <4>5. rules' = {}
        BY <4>1, <4>3 DEF Named
      <4>6. QED
        BY <1>t, <4>1, <4>5 DEF RowBehindRule
    <3>3. QED
      BY <3>1, <3>2
  <2>5. QED
    BY <1>p, <2>1, <2>2, <2>3, <2>4 DEF IInv
<1>14. ASSUME NEW c \in Calls, UndeployIgnored(c) PROVE IInv'
  <2>1. OneWriter'
    BY <1>t, <1>14 DEF OneWriter, UndeployIgnored, ToMark, Writing
  <2>2. ASSUME NEW e \in Calls PROVE Carries(call[e])'
    BY <1>t, <1>14 DEF Carries, Running, UndeployIgnored, ToMark, siem
  <2>3. RuleBehindRow'
    BY <1>t, <1>14 DEF RuleBehindRow, Removing, UndeployIgnored, ToMark, TypeOK
  <2>4. /\ UNCHANGED <<dep, rules>> /\ leaks \subseteq leaks'
        /\ UNCHANGED integration
        /\ \A d \in Calls \ {c}: call'[d] = call[d]
        /\ call[c].at # "store" \/ leaks' # {}
        /\ call'[c].at # "mark" \/ leaks' # {}
    BY <1>14 DEF UndeployIgnored, ToMark, siem
  <2>5. RowBehindRule'
    BY <2>4, RowStays
  <2>6. QED
    BY <1>p, <2>1, <2>2, <2>3, <2>5 DEF IInv
<1>15. ASSUME NEW c \in Calls, UndeployMark(c) PROVE IInv'
  <2>1. OneWriter'
    BY <1>t, <1>15 DEF OneWriter, UndeployMark, End, Writing
  <2>2. ASSUME NEW e \in Calls PROVE Carries(call[e])'
    BY <1>t, <1>15 DEF Carries, Running, UndeployMark, End, Idle, siem
  <2>3. RuleBehindRow'
    BY <1>15 DEF RuleBehindRow, UndeployMark
  <2>4. RowBehindRule'
    BY <1>t, <1>15 DEF RowBehindRule, Removing, OneWriter, UndeployMark, Writing, siem
  <2>5. QED
    BY <1>p, <2>1, <2>2, <2>3, <2>4 DEF IInv
<1>16. ASSUME NEW c \in Calls, TestRead(c) PROVE IInv'
  <2>1. OneWriter'
    BY <1>t, <1>16 DEF OneWriter, TestRead, Begin, Writing
  <2>2. ASSUME NEW e \in Calls PROVE Carries(call[e])'
    BY <1>t, <1>16 DEF Carries, Running, TestRead, Begin, siem
  <2>3. RuleBehindRow'
    BY <1>t, <1>16 DEF RuleBehindRow, Running, Removing, TestRead, Begin, siem
  <2>4. /\ UNCHANGED <<dep, rules>> /\ leaks \subseteq leaks'
        /\ UNCHANGED integration
        /\ \A d \in Calls \ {c}: call'[d] = call[d]
        /\ call[c].at # "store" \/ leaks' # {}
        /\ call'[c].at # "mark" \/ leaks' # {}
    BY <1>16 DEF TestRead, Begin, siem
  <2>5. RowBehindRule'
    BY <2>4, RowStays
  <2>6. QED
    BY <1>p, <2>1, <2>2, <2>3, <2>5 DEF IInv
<1>17. ASSUME NEW c \in Calls, NEW s \in {"CONNECTED", "ERROR"}, Ping(c, s) PROVE IInv'
  <2>1. OneWriter'
    BY <1>t, <1>17 DEF OneWriter, Ping, Writing, TypeOK
  <2>2. ASSUME NEW e \in Calls PROVE Carries(call[e])'
    BY <1>t, <1>17 DEF Carries, Running, RowBehindRule, Ping, TypeOK, siem
  <2>3. RuleBehindRow'
    BY <1>t, <1>17 DEF RuleBehindRow, Running, Removing, Carries, Ping, TypeOK, siem
  <2>4. /\ UNCHANGED <<dep, rules>> /\ leaks \subseteq leaks'
        /\ UNCHANGED integration
        /\ \A d \in Calls \ {c}: call'[d] = call[d]
        /\ call[c].at # "store" \/ leaks' # {}
        /\ call'[c].at # "mark" \/ leaks' # {}
    BY <1>t, <1>17 DEF Ping, TypeOK, siem
  <2>5. RowBehindRule'
    BY <2>4, RowStays
  <2>6. QED
    BY <1>p, <2>1, <2>2, <2>3, <2>5 DEF IInv
<1>18. ASSUME NEW c \in Calls, TestStore(c) PROVE IInv'
  <2>1. OneWriter'
    BY <1>t, <1>18 DEF OneWriter, TestStore, End, Idle, Writing
  <2>2. ASSUME NEW e \in Calls PROVE Carries(call[e])'
    BY <1>t, <1>18 DEF Carries, Running, RowBehindRule, TestStore, End, Idle, siem
  <2>3. RuleBehindRow'
    BY <1>t, <1>18 DEF RuleBehindRow, Running, Removing, TestStore, End, siem
  <2>4. /\ UNCHANGED <<dep, rules>> /\ leaks \subseteq leaks'
        /\ UNCHANGED integration \/ integration' = [integration EXCEPT !.status = call[c].status]
        /\ \A d \in Calls \ {c}: call'[d] = call[d]
        /\ call[c].at # "store" \/ leaks' # {}
        /\ call'[c].at # "mark" \/ leaks' # {}
    BY <1>18 DEF TestStore, End, Idle, siem
  <2>5. RowBehindRule'
    BY <2>4, RowStays
  <2>6. QED
    BY <1>p, <2>1, <2>2, <2>3, <2>5 DEF IInv
<1>19. ASSUME NEW c \in Calls, SearchRead(c) PROVE IInv'
  <2>1. OneWriter'
    BY <1>t, <1>19 DEF OneWriter, SearchRead, Begin, Writing
  <2>2. ASSUME NEW e \in Calls PROVE Carries(call[e])'
    BY <1>t, <1>19, SiemAssumption DEF Carries, Running, SearchRead, Begin, Idle, siem
  <2>3. RuleBehindRow'
    BY <1>t, <1>19 DEF RuleBehindRow, Running, Removing, SearchRead, Begin, siem
  <2>4. /\ UNCHANGED <<dep, rules>> /\ leaks \subseteq leaks'
        /\ UNCHANGED integration
        /\ \A d \in Calls \ {c}: call'[d] = call[d]
        /\ call[c].at # "store" \/ leaks' # {}
        /\ call'[c].at # "mark" \/ leaks' # {}
    BY <1>19 DEF SearchRead, Begin, siem
  <2>5. RowBehindRule'
    BY <2>4, RowStays
  <2>6. QED
    BY <1>p, <2>1, <2>2, <2>3, <2>5 DEF IInv
<1>20. ASSUME NEW c \in Calls, QueryRead(c) PROVE IInv'
  <2>1. OneWriter'
    BY <1>t, <1>20 DEF OneWriter, QueryRead, Begin, Writing
  <2>2. ASSUME NEW e \in Calls PROVE Carries(call[e])'
    BY <1>t, <1>20, SiemAssumption DEF Carries, Running, QueryRead, Begin, Idle, siem
  <2>3. RuleBehindRow'
    BY <1>t, <1>20 DEF RuleBehindRow, Running, Removing, QueryRead, Begin, siem
  <2>4. /\ UNCHANGED <<dep, rules>> /\ leaks \subseteq leaks'
        /\ UNCHANGED integration
        /\ \A d \in Calls \ {c}: call'[d] = call[d]
        /\ call[c].at # "store" \/ leaks' # {}
        /\ call'[c].at # "mark" \/ leaks' # {}
    BY <1>20 DEF QueryRead, Begin, siem
  <2>5. RowBehindRule'
    BY <2>4, RowStays
  <2>6. QED
    BY <1>p, <2>1, <2>2, <2>3, <2>5 DEF IInv
<1>21. ASSUME NEW c \in Calls, JobDone(c) PROVE IInv'
  <2>1. OneWriter'
    BY <1>t, <1>21 DEF OneWriter, JobDone
  <2>2. ASSUME NEW e \in Calls PROVE Carries(call[e])'
    BY <1>t, <1>21 DEF Carries, Running, JobDone, siem
  <2>3. RuleBehindRow'
    BY <1>t, <1>21 DEF RuleBehindRow, Running, Removing, JobDone, siem
  <2>4. /\ UNCHANGED <<dep, rules>> /\ leaks \subseteq leaks'
        /\ UNCHANGED integration
        /\ \A d \in Calls \ {c}: call'[d] = call[d]
        /\ call[c].at # "store" \/ leaks' # {}
        /\ call'[c].at # "mark" \/ leaks' # {}
    BY <1>21 DEF JobDone, siem
  <2>5. RowBehindRule'
    BY <2>4, RowStays
  <2>6. QED
    BY <1>p, <2>1, <2>2, <2>3, <2>5 DEF IInv
<1>22. ASSUME NEW c \in Calls, NEW b \in BOOLEAN, Poll(c, b) PROVE IInv'
  <2>1. OneWriter'
    BY <1>t, <1>22 DEF OneWriter, Poll, TypeOK, Call, siem
  <2>2. ASSUME NEW e \in Calls PROVE Carries(call[e])'
    BY <1>t, <1>22, SiemAssumption DEF Carries, Running, Poll, TypeOK, Call, siem
  <2>3. RuleBehindRow'
    BY <1>t, <1>22 DEF RuleBehindRow, Running, Removing, OneWriter, Poll, TypeOK, siem
  <2>4. /\ UNCHANGED <<dep, rules>> /\ leaks \subseteq leaks'
        /\ UNCHANGED integration
        /\ \A d \in Calls \ {c}: call'[d] = call[d]
        /\ call[c].at # "store" \/ leaks' # {}
        /\ call'[c].at # "mark" \/ leaks' # {}
    BY <1>t, <1>22 DEF Poll, TypeOK, siem
  <2>5. RowBehindRule'
    BY <2>4, RowStays
  <2>6. QED
    BY <1>p, <2>1, <2>2, <2>3, <2>5 DEF IInv
<1>23. ASSUME NEW c \in Calls, SearchTimesOut(c) PROVE IInv'
  <2>1. OneWriter'
    BY <1>t, <1>23 DEF OneWriter, SearchTimesOut, End, Idle, Writing
  <2>2. ASSUME NEW e \in Calls PROVE Carries(call[e])'
    BY <1>t, <1>23 DEF Carries, Running, SearchTimesOut, End, Idle, siem
  <2>3. RuleBehindRow'
    BY <1>t, <1>23 DEF RuleBehindRow, Running, Removing, SearchTimesOut, End, siem
  <2>4. /\ UNCHANGED <<dep, rules>> /\ leaks \subseteq leaks'
        /\ UNCHANGED integration
        /\ \A d \in Calls \ {c}: call'[d] = call[d]
        /\ call[c].at # "store" \/ leaks' # {}
        /\ call'[c].at # "mark" \/ leaks' # {}
    BY <1>23 DEF SearchTimesOut, End, Idle, siem
  <2>5. RowBehindRule'
    BY <2>4, RowStays
  <2>6. QED
    BY <1>p, <2>1, <2>2, <2>3, <2>5 DEF IInv
<1>24. ASSUME NEW c \in Calls, SearchResults(c) PROVE IInv'
  <2>1. OneWriter'
    BY <1>t, <1>24 DEF OneWriter, SearchResults, End, Idle, Writing
  <2>2. ASSUME NEW e \in Calls PROVE Carries(call[e])'
    BY <1>t, <1>24 DEF Carries, Running, SearchResults, End, Idle, siem
  <2>3. RuleBehindRow'
    BY <1>t, <1>24 DEF RuleBehindRow, Running, Removing, SearchResults, End, siem
  <2>4. /\ UNCHANGED <<dep, rules>> /\ leaks \subseteq leaks'
        /\ UNCHANGED integration
        /\ \A d \in Calls \ {c}: call'[d] = call[d]
        /\ call[c].at # "store" \/ leaks' # {}
        /\ call'[c].at # "mark" \/ leaks' # {}
    BY <1>24 DEF SearchResults, End, Idle, siem
  <2>5. RowBehindRule'
    BY <2>4, RowStays
  <2>6. QED
    BY <1>p, <2>1, <2>2, <2>3, <2>5 DEF IInv
<1>25. ASSUME NEW c \in Calls, SyncRead(c) PROVE IInv'
  <2>1. OneWriter'
    BY <1>t, <1>25 DEF OneWriter, SyncRead, Writing
  <2>2. ASSUME NEW e \in Calls PROVE Carries(call[e])'
    BY <1>t, <1>25 DEF Carries, Running, SyncRead, siem
  <2>3. RuleBehindRow'
    BY <1>t, <1>25 DEF RuleBehindRow, Running, Removing, SyncRead, siem
  <2>4. /\ UNCHANGED <<dep, rules>> /\ leaks \subseteq leaks'
        /\ UNCHANGED integration
        /\ \A d \in Calls \ {c}: call'[d] = call[d]
        /\ call[c].at # "store" \/ leaks' # {}
        /\ call'[c].at # "mark" \/ leaks' # {}
    BY <1>25 DEF SyncRead, siem
  <2>5. RowBehindRule'
    BY <2>4, RowStays
  <2>6. QED
    BY <1>p, <2>1, <2>2, <2>3, <2>5 DEF IInv
<1>26. ASSUME NEW c \in Calls, NEW n \in 0..Window, SyncList(c, n) PROVE IInv'
  <2>1. OneWriter'
    BY <1>t, <1>26 DEF OneWriter, SyncList, Writing, TypeOK
  <2>2. ASSUME NEW e \in Calls PROVE Carries(call[e])'
    BY <1>t, <1>26 DEF Carries, OneWriter, Running, RowBehindRule, SyncList, Writing, TypeOK, siem
  <2>3. RuleBehindRow'
    BY <1>t, <1>26 DEF RuleBehindRow, Running, Removing, OneWriter, SyncList, TypeOK, siem
  <2>4. /\ UNCHANGED <<dep, rules>> /\ leaks \subseteq leaks'
        /\ UNCHANGED integration
        /\ \A d \in Calls \ {c}: call'[d] = call[d]
        /\ call[c].at # "store" \/ leaks' # {}
        /\ call'[c].at # "mark" \/ leaks' # {}
    BY <1>t, <1>26 DEF SyncList, TypeOK, siem
  <2>5. RowBehindRule'
    BY <2>4, RowStays
  <2>6. QED
    BY <1>p, <2>1, <2>2, <2>3, <2>5 DEF IInv
<1>27. ASSUME NEW c \in Calls, SyncNothing(c) PROVE IInv'
  <2>1. OneWriter'
    BY <1>t, <1>27 DEF OneWriter, SyncNothing, End, Idle, Writing
  <2>2. ASSUME NEW e \in Calls PROVE Carries(call[e])'
    BY <1>t, <1>27 DEF Carries, Running, SyncNothing, End, Idle, siem
  <2>3. RuleBehindRow'
    BY <1>t, <1>27 DEF RuleBehindRow, Running, Removing, SyncNothing, End, siem
  <2>4. /\ UNCHANGED <<dep, rules>> /\ leaks \subseteq leaks'
        /\ UNCHANGED integration
        /\ \A d \in Calls \ {c}: call'[d] = call[d]
        /\ call[c].at # "store" \/ leaks' # {}
        /\ call'[c].at # "mark" \/ leaks' # {}
    BY <1>27 DEF SyncNothing, End, Idle, siem
  <2>5. RowBehindRule'
    BY <2>4, RowStays
  <2>6. QED
    BY <1>p, <2>1, <2>2, <2>3, <2>5 DEF IInv
<1>28. ASSUME NEW c \in Calls, SyncStore(c) PROVE IInv'
  <2>1. OneWriter'
    BY <1>t, <1>28 DEF OneWriter, SyncStore, End, Idle, Writing
  <2>2. ASSUME NEW e \in Calls PROVE Carries(call[e])'
    BY <1>t, <1>28 DEF Carries, Running, SyncStore, End, Idle, siem
  <2>3. RuleBehindRow'
    BY <1>t, <1>28 DEF RuleBehindRow, Running, Removing, SyncStore, End, siem
  <2>4. /\ UNCHANGED <<dep, rules>> /\ leaks \subseteq leaks'
        /\ UNCHANGED integration
        /\ \A d \in Calls \ {c}: call'[d] = call[d]
        /\ call[c].at # "store" \/ leaks' # {}
        /\ call'[c].at # "mark" \/ leaks' # {}
    BY <1>28 DEF SyncStore, End, Idle, siem
  <2>5. RowBehindRule'
    BY <2>4, RowStays
  <2>6. QED
    BY <1>p, <2>1, <2>2, <2>3, <2>5 DEF IInv
<1>29. ASSUME NEW c \in Calls, CallDies(c) PROVE IInv'
  <2>1. OneWriter'
    BY <1>t, <1>29 DEF OneWriter, CallDies, End, Idle, Writing
  <2>2. ASSUME NEW e \in Calls PROVE Carries(call[e])'
    BY <1>t, <1>29 DEF Carries, Running, CallDies, End, Idle, siem
  <2>3. RuleBehindRow'
    BY <1>t, <1>29 DEF RuleBehindRow, Running, Removing, CallDies, End, Writing, siem
  <2>4. /\ UNCHANGED <<dep, rules>> /\ leaks \subseteq leaks'
        /\ UNCHANGED integration
        /\ \A d \in Calls \ {c}: call'[d] = call[d]
        /\ call[c].at # "store" \/ leaks' # {}
        /\ call'[c].at # "mark" \/ leaks' # {}
    BY <1>t, <1>29 DEF CallDies, End, Idle, Writing, TypeOK, Call, siem
  <2>5. RowBehindRule'
    BY <2>4, RowStays
  <2>6. QED
    BY <1>p, <2>1, <2>2, <2>3, <2>5 DEF IInv
<1>30. ASSUME NEW n \in Names, Rename(n) PROVE IInv'
  <2>1. OneWriter'
    BY <1>t, <1>30 DEF OneWriter, Rename
  <2>2. ASSUME NEW e \in Calls PROVE Carries(call[e])'
    BY <1>t, <1>30 DEF Carries, Running, Rename, siem
  <2>3. RuleBehindRow'
    BY <1>t, <1>30 DEF RuleBehindRow, Running, Removing, Rename, siem
  <2>4. RowBehindRule'
    BY <1>t, <1>30 DEF RowBehindRule, Removing, Platform, Rename, siem
  <2>5. QED
    BY <1>p, <2>1, <2>2, <2>3, <2>4 DEF IInv
<1>31. ASSUME NEW h \in Hosts, ChangeHost(h) PROVE IInv'
  <2>1. OneWriter'
    BY <1>t, <1>31 DEF OneWriter, ChangeHost
  <2>2. ASSUME NEW e \in Calls PROVE Carries(call[e])'
    BY <1>31 DEF FirstHost, ChangeHost
  <2>3. RuleBehindRow'
    BY <1>t, <1>31 DEF RuleBehindRow, Running, Removing, ChangeHost, siem
  <2>4. RowBehindRule'
    BY <1>t, <1>31, SiemAssumption
      DEF RowBehindRule, Removing, Carries, OneWriter, Platform, ChangeHost, Idle, Writing,
          TypeOK, Call, siem
  <2>5. QED
    BY <1>p, <2>1, <2>2, <2>3, <2>4 DEF IInv
<1>32. ASSUME RemoveIntegration PROVE IInv'
  <2>1. OneWriter'
    BY <1>t, <1>32 DEF OneWriter, RemoveIntegration
  <2>2. ASSUME NEW e \in Calls PROVE Carries(call[e])'
    BY <1>t, <1>32 DEF Carries, Running, RemoveIntegration, siem
  <2>3. RuleBehindRow'
    BY <1>32 DEF RuleBehindRow, RemoveIntegration
  <2>4. RowBehindRule'
    BY <1>t, <1>32, SiemAssumption
      DEF RowBehindRule, Removing, Carries, OneWriter, Platform, RemoveIntegration, Idle,
          Writing, TypeOK, Call, siem
  <2>5. QED
    BY <1>p, <2>1, <2>2, <2>3, <2>4 DEF IInv
<1>33. ASSUME NEW b \in BOOLEAN, RuleRuns(b) PROVE IInv'
  <2>1. OneWriter'
    BY <1>t, <1>33 DEF OneWriter, RuleRuns
  <2>2. ASSUME NEW e \in Calls PROVE Carries(call[e])'
    BY <1>t, <1>33 DEF Carries, Running, RuleRuns
  <2>3. RuleBehindRow'
    BY <1>t, <1>33 DEF RuleBehindRow, Running, Removing, RuleRuns
  <2>4. RowBehindRule'
    BY <1>t, <1>33 DEF RowBehindRule, Removing, Platform, RuleRuns
  <2>5. QED
    BY <1>p, <2>1, <2>2, <2>3, <2>4 DEF IInv
<1>34. ASSUME UNCHANGED vars PROVE IInv'
  BY <1>p, <1>34
    DEF vars, IInv, OneWriter, Carries, Running, RuleBehindRow, Removing, RowBehindRule,
        Platform
<1>35. QED
  BY <1>1, <1>2, <1>3, <1>4, <1>5, <1>6, <1>7, <1>8, <1>9, <1>10, <1>11, <1>12, <1>13, <1>14,
     <1>15, <1>16, <1>17, <1>18, <1>19, <1>20, <1>21, <1>22, <1>23, <1>24, <1>25, <1>26, <1>27,
     <1>28, <1>29, <1>30, <1>31, <1>32, <1>33, <1>34 DEF Next, Advance, Arrive, Environment

\* The inductive invariant of the integration.
THEOREM Invariance == Spec => []IInv
<1>1. IInv /\ [Next]_vars => IInv'
  BY Step_IInv
<1>2. QED
  BY <1>1, Initially, PTL DEF Spec

\* The types of the rows, of the calls and of what the SIEM holds.
THEOREM TypeCorrect == Spec => []TypeOK
  BY Invariance, PTL DEF IInv

\* The rule of a row shown as deployed is in the SIEM, when no handler is at
\* work and none overlapped another or died (deploy and undeploy).
THEOREM DeployedRuns == Spec => []DeployedIsRunning
<1>1. IInv => DeployedIsRunning
  BY DEF IInv, DeployedIsRunning, RuleBehindRow, Removing, Running, Quiet, Writing
<1>2. QED
  BY <1>1, Invariance, PTL

\* A rule of the SIEM that no row names was lost in one of the ways the code
\* leaves open (pushToSiem, removeFromSiem, changes of the integration).
THEOREM NothingLost == Spec => []NothingForgotten
<1>1. IInv => NothingForgotten
  BY DEF IInv, NothingForgotten, RowBehindRule, Quiet, Writing
<1>2. QED
  BY <1>1, Invariance, PTL

\* Of every step but the three about counts: it leaves the runs and the stat
\* alone, and no call has a count in hand it did not have.
LEMMA CountsUntouched ==
  ASSUME TypeOK, [Next]_vars,
         \A e \in Calls: \A n \in 0..Window: ~SyncList(e, n),
         \A e \in Calls: ~SyncStore(e), \A b \in BOOLEAN: ~RuleRuns(b)
  PROVE  /\ UNCHANGED <<jobs, stat>>
         /\ \A c \in Calls: call'[c].at = "count"
                             => call[c].at = "count" /\ call'[c].polls = call[c].polls
<1> DEFINE Untouched ==
      /\ UNCHANGED <<jobs, stat>>
      /\ \A c \in Calls: call'[c].at = "count"
                          => call[c].at = "count" /\ call'[c].polls = call[c].polls
<1> SUFFICES Untouched
  OBVIOUS
<1>1. ASSUME NEW e \in Calls, DeployRead(e) PROVE Untouched
  BY <1>1 DEF DeployRead, siem
<1>2. ASSUME NEW e \in Calls, PushCreates(e) PROVE Untouched
  BY <1>2 DEF PushCreates, Answered
<1>3. ASSUME NEW e \in Calls, NEW s \in {"deployed", "error"}, PushUnanswered(e, s)
      PROVE  Untouched
  BY <1>3 DEF PushUnanswered, Answered
<1>4. ASSUME NEW e \in Calls, PushNothing(e) PROVE Untouched
  BY <1>4 DEF PushNothing, Answered, siem
<1>5. ASSUME NEW e \in Calls, PushNoSession(e) PROVE Untouched
  BY <1>5 DEF PushNoSession, Unpushed, Answered, siem
<1>6. ASSUME NEW e \in Calls, PushNoToken(e) PROVE Untouched
  BY <1>6 DEF PushNoToken, Unpushed, Answered, siem
<1>7. ASSUME NEW e \in Calls, PushRefused(e) PROVE Untouched
  BY <1>7 DEF PushRefused, Unpushed, Answered, siem
<1>8. ASSUME NEW e \in Calls, DeployStore(e) PROVE Untouched
  BY <1>8 DEF DeployStore, End, Idle, siem
<1>9. ASSUME NEW e \in Calls, DeployUnstored(e) PROVE Untouched
  BY <1>9 DEF DeployUnstored, End, Idle, siem
<1>10. ASSUME NEW e \in Calls, UndeployRead(e) PROVE Untouched
  BY <1>10 DEF UndeployRead, siem
<1>11. ASSUME NEW e \in Calls, UndeployFind(e) PROVE Untouched
  <2>1. call \in [Calls -> Call] /\ Idle \in Call
    BY IdleIsCall DEF TypeOK
  <2>2. /\ call'[e].at \in {"mark", "remove"}
        /\ \A d \in Calls \ {e}: call'[d] = call[d]
    BY <1>11, <2>1 DEF UndeployFind, ToMark, Call
  <2>3. UNCHANGED <<jobs, stat>>
    BY <1>11 DEF UndeployFind, siem
  <2>4. QED
    BY <2>2, <2>3
<1>12. ASSUME NEW e \in Calls, UndeployNothing(e) PROVE Untouched
  BY <1>12 DEF UndeployNothing, End, Idle, siem
<1>13. ASSUME NEW e \in Calls, UndeployRemove(e) PROVE Untouched
  BY <1>13 DEF UndeployRemove, ToMark
<1>14. ASSUME NEW e \in Calls, UndeployIgnored(e) PROVE Untouched
  BY <1>14 DEF UndeployIgnored, ToMark, siem
<1>15. ASSUME NEW e \in Calls, UndeployMark(e) PROVE Untouched
  BY <1>15 DEF UndeployMark, End, Idle, siem
<1>16. ASSUME NEW e \in Calls, TestRead(e) PROVE Untouched
  BY <1>16 DEF TestRead, Begin, siem
<1>17. ASSUME NEW e \in Calls, NEW s \in {"CONNECTED", "ERROR"}, Ping(e, s) PROVE Untouched
  BY <1>17 DEF Ping, TypeOK, Call, siem
<1>18. ASSUME NEW e \in Calls, TestStore(e) PROVE Untouched
  BY <1>18 DEF TestStore, End, Idle, siem
<1>19. ASSUME NEW e \in Calls, SearchRead(e) PROVE Untouched
  BY <1>19 DEF SearchRead, Begin, siem
<1>20. ASSUME NEW e \in Calls, QueryRead(e) PROVE Untouched
  BY <1>20 DEF QueryRead, Begin, siem
<1>21. ASSUME NEW e \in Calls, JobDone(e) PROVE Untouched
  BY <1>21 DEF JobDone, TypeOK, Call, siem
<1>22. ASSUME NEW e \in Calls, NEW b \in BOOLEAN, Poll(e, b) PROVE Untouched
  BY <1>22 DEF Poll, TypeOK, Call, siem
<1>23. ASSUME NEW e \in Calls, SearchTimesOut(e) PROVE Untouched
  BY <1>23 DEF SearchTimesOut, End, Idle, siem
<1>24. ASSUME NEW e \in Calls, SearchResults(e) PROVE Untouched
  BY <1>24 DEF SearchResults, End, Idle, siem
<1>25. ASSUME NEW e \in Calls, SyncRead(e) PROVE Untouched
  BY <1>25 DEF SyncRead, siem
<1>26. ASSUME NEW e \in Calls, SyncNothing(e) PROVE Untouched
  BY <1>26 DEF SyncNothing, End, Idle, siem
<1>27. ASSUME NEW e \in Calls, CallDies(e) PROVE Untouched
  BY <1>27 DEF CallDies, End, Idle, siem
<1>28. ASSUME NEW n \in Names, Rename(n) PROVE Untouched
  BY <1>28 DEF Rename, siem
<1>29. ASSUME NEW h \in Hosts, ChangeHost(h) PROVE Untouched
  BY <1>29 DEF ChangeHost, siem
<1>30. ASSUME RemoveIntegration PROVE Untouched
  BY <1>30 DEF RemoveIntegration, siem
<1>31. ASSUME UNCHANGED vars PROVE Untouched
  BY <1>31 DEF vars
<1>32. QED
  BY <1>1, <1>2, <1>3, <1>4, <1>5, <1>6, <1>7, <1>8, <1>9, <1>10, <1>11, <1>12, <1>13, <1>14,
     <1>15, <1>16, <1>17, <1>18, <1>19, <1>20, <1>21, <1>22, <1>23, <1>24, <1>25, <1>26, <1>27,
     <1>28, <1>29, <1>30, <1>31
     DEF Next, Advance, Arrive, Environment

\* Every step keeps the invariant of the counts.
LEMMA Step_CountInv == TypeOK /\ CountInv /\ [Next]_vars => CountInv'
<1> SUFFICES ASSUME TypeOK, CountInv, [Next]_vars PROVE CountInv'
  OBVIOUS
<1>f. jobs.runs \in Nat /\ IsFiniteSet(jobs.hits) /\ Triggered \in Nat
  <2>1. jobs.runs \in Nat /\ jobs.hits \in SUBSET (1..jobs.runs)
    BY DEF CountInv, TypeOK
  <2>2. IsFiniteSet(1..jobs.runs)
    BY <2>1, FS_Interval
  <2>3. IsFiniteSet(jobs.hits)
    BY <2>1, <2>2, FS_Subset
  <2>4. QED
    BY <2>1, <2>3, FS_CardinalityType DEF Triggered
<1>1. ASSUME NEW c \in Calls, NEW n \in 0..Window, SyncList(c, n) PROVE CountInv'
  <2>1. UNCHANGED <<jobs, stat>>
    BY <1>1 DEF SyncList, siem
  <2>2. Cardinality(Latest(Window)) <= Triggered /\ Cardinality(Latest(Window)) \in Nat
    BY <1>f, FS_Subset, FS_CardinalityType DEF Latest, Triggered
  <2>3. n <= Triggered
    BY <1>1, <1>f, <2>2 DEF SyncList
  <2>4. ASSUME NEW d \in Calls, call'[d].at = "count" PROVE call'[d].polls <= Triggered
    BY <1>1, <2>3, <2>4 DEF SyncList, CountInv, TypeOK, Call
  <2>5. QED
    BY <2>1, <2>4 DEF CountInv, NeverOvercounts, Triggered
<1>2. ASSUME NEW c \in Calls, SyncStore(c) PROVE CountInv'
  <2>1. UNCHANGED jobs /\ stat' = call[c].polls /\ call[c].polls <= Triggered
    BY <1>2 DEF SyncStore, CountInv, siem
  <2>2. ASSUME NEW d \in Calls, call'[d].at = "count" PROVE call'[d].polls <= Triggered
    BY <1>2, <2>2 DEF SyncStore, End, Idle, CountInv, TypeOK
  <2>3. QED
    BY <2>1, <2>2 DEF CountInv, NeverOvercounts, Triggered
<1>3. ASSUME NEW b \in BOOLEAN, RuleRuns(b) PROVE CountInv'
  <2>1. UNCHANGED <<stat, call>>
    BY <1>3 DEF RuleRuns
  <2>2. /\ jobs'.runs = jobs.runs + 1
        /\ jobs'.hits = jobs.hits \/ jobs'.hits = jobs.hits \cup {jobs.runs + 1}
    BY <1>3 DEF RuleRuns
  <2>3. jobs'.hits \subseteq 1..jobs'.runs
    BY <1>f, <2>2 DEF CountInv
  <2>a. Cardinality(jobs.hits) \in Nat
    BY <1>f, FS_CardinalityType
  <2>b. \/ Cardinality(jobs.hits \cup {jobs.runs + 1}) = Cardinality(jobs.hits)
        \/ Cardinality(jobs.hits \cup {jobs.runs + 1}) = Cardinality(jobs.hits) + 1
    BY <1>f, FS_AddElement
  <2>4. Triggered' \in Nat /\ Triggered <= Triggered'
    BY <2>2, <2>a, <2>b DEF Triggered
  <2>5. stat \in Nat /\ \A d \in Calls: call[d].polls \in Nat
    BY DEF TypeOK, Call
  <2>6. stat' <= Triggered'
    BY <1>f, <2>1, <2>4, <2>5 DEF CountInv, NeverOvercounts
  <2>7. \A d \in Calls: call'[d].at = "count" => call'[d].polls <= Triggered'
    BY <1>f, <2>1, <2>4, <2>5 DEF CountInv
  <2>8. QED
    BY <2>3, <2>6, <2>7 DEF CountInv, NeverOvercounts
<1>4. CASE /\ \A c \in Calls: \A n \in 0..Window: ~SyncList(c, n)
           /\ \A c \in Calls: ~SyncStore(c)
           /\ \A b \in BOOLEAN: ~RuleRuns(b)
  <2>1. /\ UNCHANGED <<jobs, stat>>
        /\ \A c \in Calls: call'[c].at = "count"
                            => call[c].at = "count" /\ call'[c].polls = call[c].polls
    BY <1>4, CountsUntouched
  <2>2. QED
    BY <2>1 DEF CountInv, NeverOvercounts, Triggered
<1>5. QED
  BY <1>1, <1>2, <1>3, <1>4

\* The count of the day never exceeds the runs that triggered: fetchSplunkHistory
\* sets it from a list of different runs, however late it writes it.
THEOREM CountsHold == Spec => []NeverOvercounts
<1>1. Init => CountInv
  BY FS_EmptySet DEF Init, CountInv, NeverOvercounts, Triggered, Idle
<1>2. TypeOK /\ CountInv /\ [Next]_vars => CountInv'
  BY Step_CountInv
<1>3. Spec => []CountInv
  BY <1>1, <1>2, TypeCorrect, PTL DEF Spec
<1>4. CountInv => NeverOvercounts
  BY DEF CountInv
<1>5. QED
  BY <1>3, <1>4, PTL

\* Every step of a call leaves it fewer steps to take.
LEMMA Step_CallsEnd ==
  ASSUME IInv, [Next]_vars, NEW c \in Calls, call[c].at # "idle", call'[c] # call[c]
  PROVE  StepsLeft(call'[c]) < StepsLeft(call[c])
<1>t. TypeOK /\ (\A e \in Calls: Carries(call[e]))
  BY DEF IInv
<1>1. ASSUME NEW e \in Calls, DeployRead(e) PROVE StepsLeft(call'[c]) < StepsLeft(call[c])
  BY <1>1 DEF DeployRead
<1>2. ASSUME NEW e \in Calls, PushCreates(e) PROVE StepsLeft(call'[c]) < StepsLeft(call[c])
  BY <1>2 DEF StepsLeft, PushCreates, Answered
<1>3. ASSUME NEW e \in Calls, NEW s \in {"deployed", "error"}, PushUnanswered(e, s)
      PROVE  StepsLeft(call'[c]) < StepsLeft(call[c])
  BY <1>3 DEF StepsLeft, PushUnanswered, Answered
<1>4. ASSUME NEW e \in Calls, PushNothing(e) PROVE StepsLeft(call'[c]) < StepsLeft(call[c])
  BY <1>4 DEF StepsLeft, PushNothing, Answered
<1>5. ASSUME NEW e \in Calls, PushNoSession(e) PROVE StepsLeft(call'[c]) < StepsLeft(call[c])
  BY <1>5 DEF StepsLeft, PushNoSession, Unpushed, Answered
<1>6. ASSUME NEW e \in Calls, PushNoToken(e) PROVE StepsLeft(call'[c]) < StepsLeft(call[c])
  BY <1>6 DEF StepsLeft, PushNoToken, Unpushed, Answered
<1>7. ASSUME NEW e \in Calls, PushRefused(e) PROVE StepsLeft(call'[c]) < StepsLeft(call[c])
  BY <1>7 DEF StepsLeft, PushRefused, Unpushed, Answered
<1>8. ASSUME NEW e \in Calls, DeployStore(e) PROVE StepsLeft(call'[c]) < StepsLeft(call[c])
  BY <1>8 DEF StepsLeft, DeployStore, End, Idle
<1>9. ASSUME NEW e \in Calls, DeployUnstored(e) PROVE StepsLeft(call'[c]) < StepsLeft(call[c])
  BY <1>9 DEF StepsLeft, DeployUnstored, End, Idle
<1>10. ASSUME NEW e \in Calls, UndeployRead(e) PROVE StepsLeft(call'[c]) < StepsLeft(call[c])
  BY <1>10 DEF UndeployRead
<1>11. ASSUME NEW e \in Calls, UndeployFind(e) PROVE StepsLeft(call'[c]) < StepsLeft(call[c])
  BY <1>t, <1>11 DEF StepsLeft, UndeployFind, ToMark, Idle, TypeOK, Call
<1>12. ASSUME NEW e \in Calls, UndeployNothing(e) PROVE StepsLeft(call'[c]) < StepsLeft(call[c])
  BY <1>12 DEF StepsLeft, UndeployNothing, End, Idle
<1>13. ASSUME NEW e \in Calls, UndeployRemove(e) PROVE StepsLeft(call'[c]) < StepsLeft(call[c])
  BY <1>13 DEF StepsLeft, UndeployRemove, ToMark
<1>14. ASSUME NEW e \in Calls, UndeployIgnored(e) PROVE StepsLeft(call'[c]) < StepsLeft(call[c])
  BY <1>14 DEF StepsLeft, UndeployIgnored, ToMark
<1>15. ASSUME NEW e \in Calls, UndeployMark(e) PROVE StepsLeft(call'[c]) < StepsLeft(call[c])
  BY <1>15 DEF StepsLeft, UndeployMark, End, Idle
<1>16. ASSUME NEW e \in Calls, TestRead(e) PROVE StepsLeft(call'[c]) < StepsLeft(call[c])
  BY <1>16 DEF TestRead, Begin
<1>17. ASSUME NEW e \in Calls, NEW s \in {"CONNECTED", "ERROR"}, Ping(e, s)
       PROVE  StepsLeft(call'[c]) < StepsLeft(call[c])
  BY <1>t, <1>17 DEF StepsLeft, Ping, TypeOK
<1>18. ASSUME NEW e \in Calls, TestStore(e) PROVE StepsLeft(call'[c]) < StepsLeft(call[c])
  BY <1>18 DEF StepsLeft, TestStore, End, Idle
<1>19. ASSUME NEW e \in Calls, SearchRead(e) PROVE StepsLeft(call'[c]) < StepsLeft(call[c])
  BY <1>19 DEF SearchRead, Begin
<1>20. ASSUME NEW e \in Calls, QueryRead(e) PROVE StepsLeft(call'[c]) < StepsLeft(call[c])
  BY <1>20 DEF QueryRead, Begin
<1>21. ASSUME NEW e \in Calls, JobDone(e) PROVE StepsLeft(call'[c]) < StepsLeft(call[c])
  BY <1>t, <1>21, SiemAssumption DEF StepsLeft, JobDone, TypeOK, Call
<1>22. ASSUME NEW e \in Calls, NEW b \in BOOLEAN, Poll(e, b)
       PROVE  StepsLeft(call'[c]) < StepsLeft(call[c])
  BY <1>t, <1>22, SiemAssumption DEF StepsLeft, Poll, Idle, Writing, TypeOK, Call, Carries, siem
<1>23. ASSUME NEW e \in Calls, SearchTimesOut(e) PROVE StepsLeft(call'[c]) < StepsLeft(call[c])
  BY <1>23, SiemAssumption DEF StepsLeft, SearchTimesOut, End, Idle
<1>24. ASSUME NEW e \in Calls, SearchResults(e) PROVE StepsLeft(call'[c]) < StepsLeft(call[c])
  BY <1>24 DEF StepsLeft, SearchResults, End, Idle
<1>25. ASSUME NEW e \in Calls, SyncRead(e) PROVE StepsLeft(call'[c]) < StepsLeft(call[c])
  BY <1>25 DEF SyncRead
<1>26. ASSUME NEW e \in Calls, NEW n \in 0..Window, SyncList(e, n)
       PROVE  StepsLeft(call'[c]) < StepsLeft(call[c])
  BY <1>t, <1>26, SiemAssumption
    DEF StepsLeft, SyncList, Idle, Writing, TypeOK, Call, Carries, siem
<1>27. ASSUME NEW e \in Calls, SyncNothing(e) PROVE StepsLeft(call'[c]) < StepsLeft(call[c])
  BY <1>27 DEF StepsLeft, SyncNothing, End, Idle
<1>28. ASSUME NEW e \in Calls, SyncStore(e) PROVE StepsLeft(call'[c]) < StepsLeft(call[c])
  BY <1>28 DEF StepsLeft, SyncStore, End, Idle
<1>29. ASSUME NEW e \in Calls, CallDies(e) PROVE StepsLeft(call'[c]) < StepsLeft(call[c])
  <2>1. call'[c].at = "idle"
    BY <1>29 DEF CallDies, End, Idle
  <2>2. StepsLeft(call'[c]) = 0
    BY <2>1 DEF StepsLeft
  <2>3. call[c].at \in Ats /\ call[c].polls \in Nat
    BY <1>t DEF TypeOK, Call
  <2>4. StepsLeft(call[c]) > 0
    <3>1. CASE call[c].at = "poll"
      BY <1>t, <2>3, <3>1, SiemAssumption DEF StepsLeft, Carries
    <3>2. CASE call[c].at # "poll"
      BY <2>3, <3>2 DEF StepsLeft, Ats, Writing
    <3>3. QED
      BY <3>1, <3>2
  <2>5. QED
    BY <2>2, <2>4
<1>30. ASSUME NEW n \in Names, Rename(n) PROVE StepsLeft(call'[c]) < StepsLeft(call[c])
  BY <1>30 DEF Rename
<1>31. ASSUME NEW h \in Hosts, ChangeHost(h) PROVE StepsLeft(call'[c]) < StepsLeft(call[c])
  BY <1>31 DEF ChangeHost
<1>32. ASSUME RemoveIntegration PROVE StepsLeft(call'[c]) < StepsLeft(call[c])
  BY <1>32 DEF RemoveIntegration
<1>33. ASSUME NEW b \in BOOLEAN, RuleRuns(b) PROVE StepsLeft(call'[c]) < StepsLeft(call[c])
  BY <1>33 DEF RuleRuns
<1>34. ASSUME UNCHANGED vars PROVE StepsLeft(call'[c]) < StepsLeft(call[c])
  BY <1>34 DEF vars
<1>35. QED
  BY <1>1, <1>2, <1>3, <1>4, <1>5, <1>6, <1>7, <1>8, <1>9, <1>10, <1>11, <1>12, <1>13, <1>14,
     <1>15, <1>16, <1>17, <1>18, <1>19, <1>20, <1>21, <1>22, <1>23, <1>24, <1>25, <1>26, <1>27,
     <1>28, <1>29, <1>30, <1>31, <1>32, <1>33, <1>34 DEF Next, Advance, Arrive, Environment

\* No request hangs: every step brings its answer nearer (the timeouts of every
\* fetch, the limit of the polls).
THEOREM EveryCallEnds == Spec => CallsEnd
<1>1. IInv /\ [Next]_vars
      => \A c \in Calls: call[c].at # "idle" /\ call'[c] # call[c]
                        => StepsLeft(call'[c]) < StepsLeft(call[c])
  BY Step_CallsEnd
<1>2. QED
  BY <1>1, Invariance, PTL DEF Spec, CallsEnd
=============================================================================
