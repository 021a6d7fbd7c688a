------------------------------ MODULE WebShell ------------------------------
(***************************************************************************)
(* Shell, notifications and settings of the agents' mini-app, and session, *)
(* scraper and bulk addition of the dashboard, side by side: they share no *)
(* state, so a behaviour is one of one of them.                            *)
(***************************************************************************)
EXTENDS AgentsShell, AgentsNotifications, AgentsSettings,
        DashboardSession, DashboardScraper, DashboardBulkAdd

\* All but the shell, which can start with accounts in any state.
OtherStart ==
  \/ \E scenario \in {"poll", "sheet"} : NotificationsStart(scenario)
  \/ \E status \in {<<"inactive", "none">>, <<"inactive", "whop">>, <<"active", "whop">>} :
       SubscriptionStart(status)
  \/ TokensStart
  \/ SessionStart
  \/ \E scenario \in {"read", "scrape", "leads"} : ScraperStart(scenario)
  \/ \E scenario \in {"watch", "pick", "send"} : BulkAddStart(scenario)

Init ==
  \/ \E auth \in [Accounts -> AuthStates \cup {"absent"}], scenario \in {"link", "remove"} :
       ShellStart(auth, scenario)
  \/ OtherStart

Next ==
  \/ ShellNext \/ NotificationsNext \/ SubscriptionNext \/ TokensNext
  \/ SessionNext \/ ScraperNext \/ BulkAddNext
  \/ Discard \/ Fail

Spec == Init /\ [][Next]_vars

\* In every one of them a control is disabled, and a spinner turns, only as long as a
\* request of its operation is in flight, in whatever order answers come or fail; but
\* for the notification sheet, which starts as loading and, opened without an account,
\* keeps its buttons disabled (App.tsx).
ShellControlsEnd == ControlsEndBut(IF At("notifications") THEN SheetLoadingLasts ELSE {})
=============================================================================
