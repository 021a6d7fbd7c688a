----------------------------- MODULE AgentsPages -----------------------------
(***************************************************************************)
(* The pages of an account in the agents' mini-app, side by side: they     *)
(* share no state, so a behaviour is one of one page (the routes of        *)
(* App.tsx), in the state a navigation leaves it in.                       *)
(***************************************************************************)
EXTENDS AgentsTasks, AgentsLeads, AgentsCampaigns, AgentsAutomation

Init ==
  \/ \E scenario \in {"list", "act", "read"} : TasksStart(scenario)
  \/ LeadsStart \/ AcquisitionStart \/ BlacklistStart \/ AnalyticsStart
  \/ FilterStart \/ SearchStart
  \/ PickerStart \/ SendStart \/ ComposerStart
  \/ \E scenario \in {"form", "list"} : CampaignsStart(scenario)
  \/ \E scenario \in {"form", "save"} : AutomationStart(scenario)
  \/ \E scenario \in {"search", "add"} : BulkStart(scenario)

Next ==
  \/ TasksNext \/ LeadsNext \/ AcquisitionNext \/ BlacklistNext \/ AnalyticsNext
  \/ FilterNext \/ SearchNext \/ PickerNext \/ SendNext \/ ComposerNext \/ CampaignsNext
  \/ AutomationNext \/ BulkNext \/ Discard \/ Fail

\* The loading states that the code of these pages leaves on, with nothing in flight.
Lasting == CASE At("filter") -> CountLasts [] At("bulk") -> BulkSearchesLast [] OTHER -> {}

Spec == Init /\ [][Next]_vars

\* On every page a control is disabled, and a spinner turns, only as long as a request
\* of its operation is in flight, in whatever order answers come, fail or find the form
\* closed; but for the two that the code sets before a timer and leaves on when the
\* timer is cleared: the count of a filter that is blanked (MemberFilterDialog.tsx) and
\* the search of groups whose query is cleared (AutomationTasksSection.tsx).
PageControlsEnd == ControlsEndBut(Lasting)
=============================================================================
