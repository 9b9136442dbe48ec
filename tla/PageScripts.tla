------------------------------ MODULE PageScripts ------------------------------
(***************************************************************************)
(* What the pages of the console offer and what their handlers do.         *)
(*                                                                         *)
(* A handler is a script: the names of its steps, in order.  ConsolePages  *)
(* gives every step its meaning; those that are awaited calls are          *)
(*   add  addHere  addMany  save  saveAll  enable  settle  touch  put      *)
(*   remove  post  swap  reload  fetch  fetchIf  debounce                  *)
(* and what stands between two of them runs without a pause.  A button is  *)
(* a script, the script of its failure (its catch and finally), the moves  *)
(* it makes from the state a row is shown in to the one it asks for, and   *)
(* the lock it takes until a "free".  A confirmation asked before a call   *)
(* is part of the button.  A page is the buttons of its parts and how it   *)
(* loads; "props" are those of the proposals that the detections page can  *)
(* show in place of its list.  Of a row only the field its handlers decide *)
(* on is kept.                                                             *)
(***************************************************************************)
EXTENDS Naturals, Sequences

(* Locks: "whole" one flag for the page, "row" a flag for each row, "last" *)
(* the id of the row last begun, "each" the key of something else, "form"  *)
(* the flag of a dialog that is mounted anew each time it opens, "card" of *)
(* a row's card, "panel" of the panel of the open row.                     *)
Lock(name, kind) == [name |-> name, kind |-> kind]
NoLock == Lock("", "")

Button(moves, run, catch, lock) == [moves |-> moves, run |-> run, catch |-> catch, lock |-> lock]
Plain == {<<"", "">>}
New(states) == {<<"", s>>: s \in states}
Stay(states) == {<<s, s>>: s \in states}
To(states, t) == {<<s, t>>: s \in states \ {t}}
Change(states) == {m \in states \X states: m[1] # m[2]}

Opens == Button(Plain, <<"form">>, <<>>, NoLock)
Shuts == Button(Plain, <<"shut">>, <<>>, NoLock)
Edits(states) == Button(Stay(states), <<"edit">>, <<>>, NoLock)
ShutsEdit(states) == Button(Stay(states), <<"shut">>, <<>>, NoLock)
Selects(states) == Button(Stay(states), <<"select">>, <<>>, NoLock)
Closes(states) == Button(Stay(states), <<"close">>, <<>>, NoLock)

\* the load of a page shows a spinner instead of the list unless it says otherwise
Page(states) ==
  [states |-> states, first |-> states, filters |-> {}, refilter |-> <<"reload">>,
   bar |-> {}, list |-> {}, props |-> {}, panel |-> {}, form |-> {}, edit |-> {},
   over |-> FALSE, spins |-> TRUE, keeps |-> TRUE, whole |-> FALSE]
AllOrOne(states) == {states} \cup {{s}: s \in states}
AllOr(states, s) == {states, {s}}
OneOf(states) == {{s}: s \in states}

Flip(st) == IF st = "enabled" THEN "disabled" ELSE "enabled"
Switched == {"enabled", "disabled"}

------------------------------------------------------------------------------
(* SOC: change requests *)

ChangeNext == {<<"DRAFT", "REVIEW">>, <<"REVIEW", "APPROVED">>, <<"APPROVED", "IMPLEMENTING">>,
               <<"IMPLEMENTING", "COMPLETED">>}
ChangeStates == {"DRAFT", "REVIEW", "APPROVED", "IMPLEMENTING", "COMPLETED", "REJECTED"}
ChangesCreate == Button(New({"DRAFT"}), <<"add", "shut", "reload", "free">>, <<"free">>, Lock("saving", "whole"))
ChangesAdvance == Button(ChangeNext, <<"save", "reload", "patchIf">>, <<>>, NoLock)
ChangesReject == Button(To(ChangeStates \ {"COMPLETED"}, "REJECTED"), <<"save", "reload", "closeIf">>, <<>>, NoLock)
ChangesPanel == {ChangesAdvance, ChangesReject, Closes(ChangeStates)}
ChangesBar == {Opens}
ChangesList == {Selects(ChangeStates)}
ChangesForm == {ChangesCreate, Shuts}
ChangesPage ==
  [Page(ChangeStates) EXCEPT !.filters = AllOr(ChangeStates, "REVIEW"), !.over = TRUE,
     !.bar = ChangesBar, !.list = ChangesList, !.panel = ChangesPanel, !.form = ChangesForm]

(* SOC: service requests *)

RequestNext == {<<"OPEN", "IN_PROGRESS">>, <<"IN_PROGRESS", "PENDING_APPROVAL">>}
RequestStates == {"OPEN", "IN_PROGRESS", "PENDING_APPROVAL", "RESOLVED", "CANCELLED"}
RequestsCreate == Button(New({"OPEN"}), <<"add", "shut", "reload", "free">>, <<"free">>, Lock("saving", "whole"))
RequestsAdvance == Button(RequestNext, <<"save", "reload", "patchIf">>, <<>>, NoLock)
RequestsResolve == Button({<<"PENDING_APPROVAL", "RESOLVED">>}, <<"save", "reload", "closeIf">>, <<>>, NoLock)
RequestsCancelMutStaysOpen == Button(To(RequestStates \ {"RESOLVED"}, "CANCELLED"), <<"save", "reload">>, <<>>, NoLock)
RequestsCancel == Button(To(RequestStates \ {"RESOLVED"}, "CANCELLED"), <<"save", "reload", "closeIf">>, <<>>, NoLock)
RequestsDeleteMutNoFinally == Button(Stay(RequestStates), <<"remove", "closeIf", "reload", "free">>, <<>>, Lock("deleting", "whole"))
RequestsDelete == Button(Stay(RequestStates), <<"remove", "closeIf", "reload", "free">>, <<"free">>, Lock("deleting", "whole"))
RequestsPanel == {RequestsAdvance, RequestsCancel, RequestsDelete, Closes(RequestStates)}
RequestsDialogs == {RequestsResolve}
RequestsBar == {Opens}
RequestsList == {Selects(RequestStates), RequestsDelete}
RequestsForm == {RequestsCreate, Shuts}
RequestsPage ==
  [Page(RequestStates) EXCEPT !.filters = AllOr(RequestStates, "IN_PROGRESS"), !.over = TRUE, !.bar = RequestsBar,
     !.list = RequestsList, !.panel = RequestsPanel \cup RequestsDialogs, !.form = RequestsForm]

(* SOC: incidents; the filters of this page choose from the list it loaded *)

IncidentNext == {<<"NEW", "INVESTIGATING">>, <<"INVESTIGATING", "MITIGATED">>, <<"MITIGATED", "RESOLVED">>}
IncidentStates == {"NEW", "INVESTIGATING", "MITIGATED", "RESOLVED"}
IncidentsAdvanceMutNoReload == Button(IncidentNext, <<"save">>, <<>>, NoLock)
IncidentsAdvance == Button(IncidentNext, <<"save", "reload">>, <<>>, NoLock)
IncidentsCreate == Button(New({"NEW"}), <<"add", "reload", "shut", "free">>, <<"free">>, Lock("saving", "form"))
IncidentsForm == {IncidentsCreate, Shuts}
IncidentsBar == {Opens}
IncidentsList == {IncidentsAdvance}
IncidentsPage ==
  [Page(IncidentStates) EXCEPT !.bar = IncidentsBar, !.list = IncidentsList, !.form = IncidentsForm]

(* SOC: documents, pinned or not; the editor takes the place of the page *)

DocStates == {"pinned", "unpinned"}
DocsOpenNew == Button(Plain, <<"close", "form">>, <<>>, NoLock)
DocsOpenEdit == Button(Stay(DocStates), <<"close", "edit">>, <<>>, NoLock)
DocsCreate == Button(New({"unpinned"}), <<"add", "shut", "reload", "free">>, <<"free">>, Lock("saving", "whole"))
DocsUpdate == Button(Stay(DocStates), <<"touch", "shut", "reload", "free">>, <<"free">>, Lock("saving", "whole"))
DocsPin == Button(Change(DocStates), <<"save", "reload">>, <<>>, NoLock)
DocsDelete == Button(Stay(DocStates), <<"remove", "closeIf", "reload">>, <<>>, NoLock)
DocsEditor == {DocsUpdate, ShutsEdit(DocStates)}
DocsForm == {DocsCreate, Shuts}
DocsPanel == {DocsPin, DocsOpenEdit, DocsDelete, Closes(DocStates)}
DocsBar == {DocsOpenNew}
DocsList == {Selects(DocStates), DocsPin, DocsOpenEdit, DocsDelete}
DocsPage ==
  [Page(DocStates) EXCEPT !.over = TRUE, !.bar = DocsBar, !.list = DocsList, !.panel = DocsPanel,
     !.form = DocsForm, !.edit = DocsEditor]

(* SOC: shared secrets; the form is part of the page and stays after a create *)

SecretStates == {"active", "revoked"}
SecretsCreate == Button(New({"active"}), <<"add", "free", "reload">>, <<"free">>, Lock("creating", "whole"))
SecretsRevoke == Button(To(SecretStates, "revoked"), <<"save", "reload">>, <<>>, NoLock)
SecretsBar == {SecretsCreate}
SecretsList == {SecretsRevoke}
SecretsPage ==
  [Page(SecretStates) EXCEPT !.bar = SecretsBar, !.list = SecretsList, !.spins = FALSE]

(* SOC: roster; the state of a shift is its week, an empty cell is no row *)

Weeks == {"this week", "next week"}
RosterSave == Button(New(Weeks), <<"addHere", "shut", "reload", "free">>, <<"free">>, Lock("saving", "whole"))
RosterUpdate == Button(Stay(Weeks), <<"put", "shut", "reload", "free">>, <<"free">>, Lock("saving", "whole"))
RosterClear == Button(Stay(Weeks), <<"remove", "shut", "reload", "free">>, <<"free">>, Lock("saving", "whole"))
RosterGrid == {Edits(Weeks)}
RosterModal == {RosterUpdate, RosterClear, ShutsEdit(Weeks)}
RosterPage ==
  [Page(Weeks) EXCEPT !.first = {"this week"}, !.filters = OneOf(Weeks), !.bar = {Opens},
     !.list = RosterGrid, !.form = {RosterSave, Shuts}, !.edit = RosterModal]

(* SOC: channels; the state of a message is its channel *)

Channels == {"general", "incidents"}
CollabPoll == Button(Plain, <<"reload">>, <<>>, NoLock)
CollabSend == Button(New(Channels), <<"addHere", "reload", "free">>, <<"free">>, Lock("sending", "whole"))
CollabDelete == Button(Stay(Channels), <<"remove", "dropRow">>, <<>>, NoLock)
CollabMessages == {CollabDelete}
CollabInput == {CollabSend, CollabPoll}
CollabPage ==
  [Page(Channels) EXCEPT !.first = {"general"}, !.filters = OneOf(Channels), !.bar = CollabInput,
     !.list = CollabMessages, !.spins = FALSE]

------------------------------------------------------------------------------
(* Hunt missions: the panel stays beside the list; any status may follow   *)
(* any, so two of the four are enough                                      *)

MissionStates == {"PLANNED", "ACTIVE"}
MissionsOpen == Button(Stay(MissionStates), <<"select", "fetch">>, <<>>, NoLock)
MissionsStatus == Button(Change(MissionStates), <<"save", "reload", "fetchIf">>, <<>>, NoLock)
MissionsDelete == Button(Stay(MissionStates), <<"remove", "closeIf", "reload">>, <<>>, NoLock)
MissionsAddEvidence == Button(Stay(MissionStates), <<"touch", "reload", "fetch", "free">>, <<"free">>, Lock("busy", "panel"))
MissionsDeleteEvidence == Button(Stay(MissionStates), <<"touch", "reload", "fetch">>, <<>>, NoLock)
MissionsAddIOC == Button(Stay(MissionStates), <<"touch", "reload", "fetch", "free">>, <<"free">>, Lock("busy", "panel"))
MissionsDeleteIOC == Button(Stay(MissionStates), <<"touch", "reload", "fetch">>, <<>>, NoLock)
MissionsCreate == Button(New({"PLANNED"}), <<"add", "shut", "free", "reload", "selectNew", "fetch">>, <<"free">>, Lock("busy", "form"))
MissionsForm == {MissionsCreate, Shuts}
MissionsRow == {MissionsOpen, MissionsStatus, MissionsDelete}
MissionsEvidence == {MissionsAddEvidence, MissionsDeleteEvidence}
MissionsIOCs == {MissionsAddIOC, MissionsDeleteIOC}
MissionsPanel == MissionsEvidence \cup MissionsIOCs \cup {Closes(MissionStates)}
MissionsPage ==
  [Page(MissionStates) EXCEPT !.filters = AllOrOne(MissionStates), !.bar = {Opens},
     !.list = MissionsRow, !.panel = MissionsPanel, !.form = MissionsForm]

(* Hunt playbooks: the rows are the schedules *)

PlaybooksQuery == Button(Plain, <<"post", "free">>, <<"free">>, Lock("runningQuery", "each"))
PlaybooksLaunch == Button(Plain, <<"post", "shut", "free">>, <<"free">>, Lock("launching", "whole"))
PlaybooksSchedule == Button(New({"enabled"}), <<"add", "putNew", "shut", "free">>, <<"free">>, Lock("savingSchedule", "whole"))
PlaybooksUnschedule == Button(Stay(Switched), <<"remove", "dropRow">>, <<>>, NoLock)
PlaybooksCard == {PlaybooksQuery, Opens}
PlaybooksSchedules == {PlaybooksUnschedule}
PlaybooksModals == {PlaybooksLaunch, PlaybooksSchedule, Shuts}
PlaybooksPage ==
  [Page(Switched) EXCEPT !.bar = PlaybooksCard, !.list = PlaybooksSchedules, !.form = PlaybooksModals]

------------------------------------------------------------------------------
(* Detections: the library or, in its place, the proposals, with a panel   *)
(* and dialogs.  What is created, copied or imported is switched on; an    *)
(* enabled proposal is dropped from the proposals and from nothing else.   *)

DetectionsToggleMutListOnly == Button(Change(Switched), <<"save", "flipRow", "free">>, <<"free", "reload">>, Lock("toggling", "row"))
DetectionsToggle == Button(Change(Switched), <<"save", "flipRow", "flipIf", "free">>, <<"free", "reload">>, Lock("toggling", "row"))
DetectionsBulk == Button(New(Switched), <<"saveAll", "setAll", "free">>, <<"free", "reload">>, Lock("bulkToggling", "whole"))
DetectionsHistory == Button(Stay(Switched), <<"touch", "free", "reload">>, <<"free">>, Lock("loadingHistory", "each"))
DetectionsSearch == Button(Stay(Switched), <<"touch", "free">>, <<"free">>, Lock("loadingRunSearch", "each"))
DetectionsDuplicate == Button({<<s, "enabled">>: s \in Switched}, <<"add", "putNew", "selectNew", "free">>, <<"free">>, Lock("duplicating", "last"))
DetectionsCreate == Button(New({"enabled"}), <<"add", "putNew", "selectNew", "shut", "free">>, <<"free">>, Lock("creating", "whole"))
DetectionsUpdate == Button(Stay(Switched), <<"touch", "putRow", "putIf", "shut", "free">>, <<"free">>, Lock("creating", "whole"))
DetectionsImport == Button(Plain, <<"addMany", "free", "reload">>, <<"free">>, Lock("importing", "whole"))
DetectionsRefresh == Button(Plain, <<"reload">>, <<>>, NoLock)
ProposalsEnable == Button(New({"enabled"}), <<"enable", "free">>, <<"free">>, Lock("enablingProposal", "row"))
DetectionsBar == {Opens, DetectionsBulk, DetectionsRefresh}
DetectionsTable == {Selects(Switched), DetectionsToggle}
ProposalsList == {ProposalsEnable}
DetectionsPanel == {DetectionsToggle, Edits(Switched), DetectionsDuplicate, Closes(Switched)}
DetectionsDeployed == {DetectionsHistory, DetectionsSearch}
DetectionsForm == {DetectionsCreate, Shuts}
DetectionsEdit == {DetectionsUpdate, ShutsEdit(Switched)}
DetectionsImportModal == {DetectionsImport}
DetectionsPage ==
  [Page(Switched) EXCEPT !.filters = AllOrOne(Switched), !.bar = DetectionsBar, !.list = DetectionsTable,
     !.props = ProposalsList, !.panel = DetectionsPanel \cup DetectionsDeployed,
     !.form = DetectionsForm \cup DetectionsImportModal, !.edit = DetectionsEdit, !.spins = FALSE, !.keeps = FALSE]

(* Detections: the log sources *)

SourceStates == {"declared"}
SourcesAdd == Button(New(SourceStates), <<"add", "putNew", "free">>, <<"free">>, Lock("addingSource", "each"))
SourcesRemove == Button(Stay(SourceStates), <<"remove", "dropRow">>, <<>>, NoLock)
SourcesModal == {SourcesAdd}
SourcesRows == {SourcesRemove}
SourcesPage == [Page(SourceStates) EXCEPT !.bar = SourcesModal, !.list = SourcesRows, !.spins = FALSE]

(* Detections: the deployments of the open detection, a row for each       *)
(* integration.  A detection created or copied while they are shown is     *)
(* opened in its place; they stay until they are opened again.             *)

DeploymentStates == {"none", "deployed", "removed"}
DeployPut == Button(To(DeploymentStates, "deployed"), <<"save", "putRow", "free">>, <<"free">>, Lock("deployingId", "last"))
DeployRemove == Button({<<"deployed", "removed">>}, <<"save", "putRow", "free">>, <<"free">>, Lock("deployingId", "last"))
DeployOpen == Button(Plain, <<"reload">>, <<>>, NoLock)
DeploySwap == Button(New({"none"}), <<"swap">>, <<>>, NoLock)
DeployList == {DeployPut, DeployRemove}
DeployPage == [Page(DeploymentStates) EXCEPT !.bar = {DeployOpen, DeploySwap}, !.list = DeployList]

------------------------------------------------------------------------------
(* Members: the permission groups; adding a member is a dialog on a group *)

GroupStates == {"group"}
GroupsCreate == Button(New(GroupStates), <<"add", "reload", "shut", "free">>, <<"free">>, Lock("saving", "form"))
GroupsUpdate == Button(Stay(GroupStates), <<"touch", "reload", "shut", "free">>, <<"free">>, Lock("saving", "form"))
GroupsAddMember == Button(Stay(GroupStates), <<"touch", "reload", "shut", "free">>, <<"free">>, Lock("adding", "form"))
GroupsRemoveMember == Button(Stay(GroupStates), <<"touch", "reload">>, <<>>, NoLock)
GroupsDelete == Button(Stay(GroupStates), <<"remove", "reload", "free">>, <<"free">>, Lock("deletingGroup", "whole"))
GroupsList == {Edits(GroupStates), GroupsDelete, GroupsRemoveMember}
GroupsForm == {GroupsCreate, Shuts}
GroupsDialogs == {GroupsUpdate, GroupsAddMember, ShutsEdit(GroupStates)}
GroupsPage ==
  [Page(GroupStates) EXCEPT !.bar = {Opens}, !.list = GroupsList, !.form = GroupsForm, !.edit = GroupsDialogs]

(* Integrations: the connected ones *)

ActiveTest == Button(Stay(Switched), <<"touch", "free">>, <<"free">>, Lock("testingId", "last"))
ActiveDelete == Button(Stay(Switched), <<"remove", "dropRow", "free">>, <<"free">>, Lock("deletingId", "last"))
ActiveToggle == Button(Change(Switched), <<"save", "putRow">>, <<>>, NoLock)
ActiveCreate == Button(New({"enabled"}), <<"add", "putNew", "shut", "free">>, <<"free">>, Lock("submitting", "form"))
ActiveUpdate == Button(Stay(Switched), <<"touch", "putRow", "shut", "free">>, <<"free">>, Lock("submitting", "form"))
ActiveBar == {Opens}
ActiveCard == {ActiveTest, ActiveToggle, Edits(Switched), ActiveDelete}
ActiveForm == {ActiveCreate, Shuts}
ActiveEdit == {ActiveUpdate, ShutsEdit(Switched)}
ActivePage ==
  [Page(Switched) EXCEPT !.bar = ActiveBar, !.list = ActiveCard, !.form = ActiveForm, !.edit = ActiveEdit]

(* Integrations: the catalogue, which a new connection leaves for the list above *)

BrowseConnect == Button(New({"enabled"}), <<"add", "putNew", "shut", "leave", "free">>, <<"free">>, Lock("submitting", "form"))
BrowseCatalogue == {Opens}
BrowseForm == {BrowseConnect, Shuts}
BrowsePage == [Page(Switched) EXCEPT !.bar = BrowseCatalogue, !.form = BrowseForm, !.spins = FALSE]

(* Threat models: the list *)

ModelStates == {"DRAFT", "APPROVED"}
ModelsCreate == Button(New({"DRAFT"}), <<"add", "shut", "leave", "free">>, <<"free">>, Lock("creating", "whole"))
ModelsDelete == Button(Stay(ModelStates), <<"remove", "dropRow">>, <<>>, NoLock)
ModelsBar == {Opens}
ModelsList == {ModelsDelete}
ModelsForm == {ModelsCreate, Shuts}
ModelsPage == [Page(ModelStates) EXCEPT !.bar = ModelsBar, !.list = ModelsList, !.form = ModelsForm]

------------------------------------------------------------------------------
(* Administration: leads *)

LeadStates == {"PENDING", "APPROVED", "REJECTED"}
LeadsProvision == Button({<<"PENDING", "APPROVED">>}, <<"settle", "free", "reload">>, <<"free">>, Lock("provisioning", "card"))
LeadsDecline == Button({<<"PENDING", "REJECTED">>}, <<"settle", "free", "reload">>, <<"free">>, Lock("declining", "card"))
LeadsCard == {LeadsProvision, LeadsDecline}
LeadsPage ==
  [Page(LeadStates) EXCEPT !.first = {"PENDING"}, !.filters = AllOrOne(LeadStates), !.list = LeadsCard, !.keeps = FALSE]

(* Administration: support cases; a card's form is a copy of its row; any  *)
(* status may follow any, so two of the four are enough                    *)

CaseStates == {"OPEN", "CLOSED"}
CasesSave == Button(Change(CaseStates), <<"save", "free", "reload">>, <<"free">>, Lock("saving", "card"))
CasesCreate == Button(New({"OPEN"}), <<"add", "shut", "free", "reload">>, <<"free">>, Lock("saving", "form"))
CasesBar == {Opens}
CasesCard == {CasesSave}
CasesForm == {CasesCreate, Shuts}
CasesPage ==
  [Page(CaseStates) EXCEPT !.filters = AllOrOne(CaseStates), !.bar = CasesBar, !.list = CasesCard,
     !.form = CasesForm, !.keeps = FALSE]

(* Administration: tenants; a filter waits 300 ms before it loads *)

TenantStates == {"active", "suspended"}
TenantsCreate == Button(New({"active"}), <<"add", "free", "reload">>, <<"free">>, Lock("creating", "whole"))
TenantsClose == Shuts
TenantsBar == {Opens}
TenantsForm == {TenantsCreate, TenantsClose}
TenantsPage ==
  [Page(TenantStates) EXCEPT !.filters = AllOrOne(TenantStates), !.refilter = <<"debounce", "reload">>,
     !.bar = TenantsBar, !.form = TenantsForm, !.keeps = FALSE]

(* Administration: one tenant, with its users; all of it is hidden while it loads *)

UserStates == {"owner", "active", "inactive"}
TenantLicense == Button(Plain, <<"post", "free", "reload">>, <<"free">>, Lock("saving", "whole"))
TenantSuspend == Button(Plain, <<"post", "free", "reload">>, <<"free">>, Lock("suspending", "whole"))
TenantInvite == Button(New({"active"}), <<"add", "free", "reload">>, <<"free">>, Lock("inviting", "whole"))
TenantDeactivate == Button({<<"active", "inactive">>}, <<"settle", "reload">>, <<>>, NoLock)
TenantHeader == {TenantSuspend}
TenantBar == {TenantLicense}
TenantInviteForm == {TenantInvite}
TenantUsersList == {TenantDeactivate}
TenantPage ==
  [Page(UserStates) EXCEPT !.bar = TenantHeader \cup TenantBar \cup TenantInviteForm,
     !.list = TenantUsersList, !.keeps = FALSE, !.whole = TRUE]

Pages ==
  [changes |-> ChangesPage, requests |-> RequestsPage, incidents |-> IncidentsPage, docs |-> DocsPage,
   secrets |-> SecretsPage, roster |-> RosterPage, collab |-> CollabPage, missions |-> MissionsPage,
   playbooks |-> PlaybooksPage, detections |-> DetectionsPage,
   sources |-> SourcesPage, deploy |-> DeployPage, groups |-> GroupsPage, active |-> ActivePage,
   browse |-> BrowsePage, models |-> ModelsPage, leads |-> LeadsPage, cases |-> CasesPage,
   tenants |-> TenantsPage, tenant |-> TenantPage]
=============================================================================
