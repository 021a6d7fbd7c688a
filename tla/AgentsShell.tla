----------------------------- MODULE AgentsShell -----------------------------
(***************************************************************************)
(* The shell of the agents' mini-app (apps/miniapp-agents/src/App.tsx):    *)
(* the linked accounts and their refresh, the route, the wizard that links *)
(* an account, the removal of accounts and workspaces, the state of the    *)
(* selected account in the header.                                         *)
(***************************************************************************)
EXTENDS WebView

CONSTANTS
  Accounts,     \* numbers: ids of the user's linked accounts
  Spaces,       \* numbers: ids of the user's workspaces
  SpaceOf       \* the workspace of each account

\* An account is pending until its login has come to the password, and when it failed.
AuthStates == {"pending", "pending_2fa", "active"}
ShellKinds == {"session", "accounts", "link", "start", "verify", "remove", "leave",
               "status"}

Smallest(S) == CHOOSE x \in S : \A y \in S : x <= y

\* The app with the accounts of its first workspace on the settings page.  What
\* the user does is bounded to one of two scenarios: to link accounts, or to
\* navigate and to remove accounts and workspaces.
ShellStart(auth, scenario) ==
  /\ srv = [auth |-> auth, spaces |-> Spaces]
  /\ ui = [at |-> "shell", scenario |-> scenario, busy |-> {}, space |-> Smallest(Spaces),
           accounts |-> [a \in Accounts |-> IF SpaceOf[a] = Smallest(Spaces)
                                            THEN auth[a] ELSE "absent"],
           page |-> "settings", account |-> None,
           wizard |-> FALSE, linking |-> None, step |-> "code",
           target |-> None, status |-> None]
  /\ net = [kind \in ShellKinds |-> {}]

Linked(u) == {a \in Accounts : u.accounts[a] # "absent"}

\* selectedAccount: the route's, else the first active one, else the first.
Selected(u) ==
  LET active == {a \in Linked(u) : u.accounts[a] = "active"}
  IN CASE u.account \in Linked(u) -> u.account
       [] u.account \notin Linked(u) /\ active # {} -> Smallest(active)
       [] u.account \notin Linked(u) /\ active = {} /\ Linked(u) # {} -> Smallest(Linked(u))
       [] OTHER -> None

\* appReady: the pages and the wizard are mounted.
Ready == At("shell") /\ ui.busy \cap {"session", "accounts"} = {}
OnSettings(scenario) ==
  Ready /\ ui.page = "settings" /\ ~ui.wizard /\ ui.scenario = scenario

\* The header lists the accounts when there are several.
HeaderLists == At("shell") /\ Cardinality(Linked(ui)) > 1

StatusRequest(a, first) == [account |-> a, first |-> first]

\* A render and its effects: when another account is selected the requests for
\* the state of the last one are cancelled and the state of the new one is read.
CommitUncancelled(u, n) ==
  LET sel == Selected(u)
  IN /\ ui' = IF sel = None THEN [u EXCEPT !.status = None] ELSE u
     /\ net' = IF sel \in {None, Selected(ui)} THEN n
               ELSE Sending(n, "status", {}, StatusRequest(sel, TRUE))

Commit(u, n) ==
  LET sel == Selected(u)
      kept == Cancelled(n, "status")
  IN /\ ui' = IF sel = None THEN [u EXCEPT !.status = None] ELSE u
     /\ net' = CASE sel = Selected(ui) -> n
                 [] sel # Selected(ui) /\ sel = None -> kept
                 [] OTHER -> Sending(kept, "status", {}, StatusRequest(sel, TRUE))

-----------------------------------------------------------------------------
(* Refresh *)

\* refresh(), by the operation that awaits it, which then sets the wizard's step
\* or frees its controls.
Refreshing(n, u, ops, step) ==
  Sending(n, "accounts", ops \cup {"accounts"}, [space |-> u.space, step |-> step])

ServeAccounts ==
  \E q \in Asked("shell", "accounts") :
    Serve("accounts", q, srv,
          [a \in Accounts |-> IF SpaceOf[a] = q.arg.space THEN srv.auth[a] ELSE "absent"])

\* The answer of any refresh is shown, and ends the loading state of all.
AccountsArrive ==
  \E q \in Answers("shell", "accounts") :
    /\ Commit([Free(ui, q.ops) EXCEPT !.accounts = IF Refused(q) THEN @ ELSE q.ans,
                                      !.step = IF q.arg.step = None THEN @ ELSE q.arg.step],
              Taking(net, "accounts", q))
    /\ UNCHANGED srv

ServeSession ==
  \E q \in Asked("shell", "session") : Serve("session", q, srv, srv.spaces)

\* refreshSession ends.  The end of its loading state runs one effect that
\* refreshes the accounts; another workspace runs a second one, which also
\* clears what is shown.
SessionArrives ==
  \E q \in Answers("shell", "session") :
    /\ LET space == IF Refused(q) \/ ui.space \in q.ans THEN ui.space ELSE Smallest(q.ans)
           u == [Busy(Free(ui, q.ops), {"accounts"}) EXCEPT
                   !.space = space,
                   !.accounts = IF space = ui.space THEN @ ELSE [a \in Accounts |-> "absent"]]
           one == Refreshing(Taking(net, "session", q), u, {}, None)
       IN Commit(u, IF space = ui.space THEN one ELSE Refreshing(one, u, {"cleared"}, None))
    /\ UNCHANGED srv

-----------------------------------------------------------------------------
(* The wizard *)

\* openCreateWizard, the card's "resume setup", closeWizard
OpenWizard ==
  /\ OnSettings("link")
  /\ Show([ui EXCEPT !.wizard = TRUE, !.linking = None, !.step = "code"])

ResumeWizard ==
  /\ OnSettings("link")
  /\ \E a \in Linked(ui) :
       /\ ui.accounts[a] # "active"
       /\ Show([ui EXCEPT !.wizard = TRUE, !.linking = a,
                  !.step = IF ui.accounts[a] = "pending_2fa" THEN "password" ELSE "code"])

CloseWizard ==
  /\ Ready /\ ui.wizard
  /\ Show([ui EXCEPT !.wizard = FALSE, !.linking = None, !.step = "code"])

\* The step the open wizard shows: that of an account that is known and listed,
\* before that the phone entry.
WizardShows(step) ==
  Ready /\ ui.wizard /\ ui.step = step /\ ui.linking \in Linked(ui)

PhoneEntry == Ready /\ ui.wizard /\ ui.step = "code" /\ ui.linking \notin Linked(ui)

Link == PhoneEntry /\ "link" \notin ui.busy /\ Ask(ui, "link", "link", ui.space)

\* Linking creates an account of the workspace, or starts again with one that the
\* user has, but not with an active one.
ServeLink ==
  \E q \in Asked("shell", "link"), a \in Accounts :
    /\ srv.auth[a] # "active" /\ (srv.auth[a] = "absent" => SpaceOf[a] = q.arg)
    /\ Serve("link", q, [srv EXCEPT !.auth[a] = "pending"], a)

\* The link is answered: the code is asked for, whether or not the wizard is
\* still open.
LinkArrives ==
  \E q \in Answers("shell", "link") :
    IF Refused(q) THEN Take("link", q, ui)
    ELSE Further("link", q, [ui EXCEPT !.linking = q.ans], "start", q.ans)

\* A code is sent, also to an account that waited for its password; an active
\* account stays so.
ServeStart ==
  \E q \in Asked("shell", "start") :
    LET auth == IF srv.auth[q.arg] = "active" THEN "active" ELSE "pending"
    IN /\ srv.auth[q.arg] # "absent"
       /\ Serve("start", q, [srv EXCEPT !.auth[q.arg] = auth], auth)

\* The wizard's step for an answer of Telegram.
StepFor(auth, otherwise) == IF auth = "pending_2fa" THEN "password" ELSE otherwise

StartArrives ==
  \E q \in Answers("shell", "start") :
    IF Refused(q) THEN Take("start", q, ui)
    ELSE /\ ui' = Busy(ui, {"accounts"})
         /\ net' = Refreshing(Taking(net, "start", q), ui, q.ops, StepFor(q.ans, "code"))
         /\ UNCHANGED srv

\* The code's and the password's forms have no busy state: they may be
\* submitted again while a request is in flight.
Verify ==
  /\ \E step \in {"code", "password"} : WizardShows(step)
  /\ Room
  /\ net' = Sending(net, "verify", {}, [account |-> ui.linking, step |-> ui.step])
  /\ UNCHANGED <<ui, srv>>

\* A wrong password, as a wrong code, makes the login start again.
ServeVerify ==
  \E q \in Asked("shell", "verify") :
    /\ srv.auth[q.arg.account] = IF q.arg.step = "code" THEN "pending" ELSE "pending_2fa"
    /\ \E auth \in IF q.arg.step = "code" THEN {"pending_2fa", "active"} ELSE {"pending", "active"} :
         Serve("verify", q, [srv EXCEPT !.auth[q.arg.account] = auth],
               IF auth = "pending" THEN Failed ELSE auth)

VerifyArrives ==
  \E q \in Answers("shell", "verify") :
    IF Refused(q) THEN Take("verify", q, ui)
    ELSE /\ ui' = Busy(ui, {"accounts"})
         /\ net' = Refreshing(Taking(net, "verify", q), ui, {}, StepFor(q.ans, "finish"))
         /\ UNCHANGED srv

SkipPassword ==
  /\ WizardShows("password")
  /\ Show([ui EXCEPT !.step = "finish"])

-----------------------------------------------------------------------------
(* Navigation *)

\* The tabs: the pages other than the settings are alike for the shell.
Tabs == {"settings", "outreach"}

\* u on a page of account a.  The path of the settings has no account; without an
\* account every path is that of the settings.
PathOf(u, page, a) ==
  [u EXCEPT !.page = IF a = None THEN "settings" ELSE page,
            !.account = IF page = "settings" THEN None ELSE a]

\* handleTabNavigate
Navigate ==
  /\ At("shell") /\ Room /\ ui.scenario = "remove"
  /\ \E page \in Tabs \ {ui.page} : Commit(PathOf(ui, page, Selected(ui)), net)
  /\ UNCHANGED srv

\* openWorkspace: the account list of the header, the wizard's last step.
OpenAccount ==
  /\ At("shell") /\ Room
  /\ \E a \in Linked(ui) :
       /\ HeaderLists \/ (WizardShows("finish") /\ a = ui.linking)
       /\ Commit(PathOf([ui EXCEPT !.wizard = FALSE, !.linking = None, !.step = "finish"],
                        "outreach", a), net)
  /\ UNCHANGED srv

\* The state of the selected account is read every minute.
PollStatus ==
  /\ At("shell") /\ Selected(ui) # None /\ Room
  /\ net' = Sending(net, "status", {}, StatusRequest(Selected(ui), FALSE))
  /\ UNCHANGED <<ui, srv>>

ServeStatus ==
  \E q \in Asked("shell", "status") :
    srv.auth[q.arg.account] # "absent" /\ Serve("status", q, srv, q.arg.account)

StatusArrives ==
  \E q \in Answers("shell", "status") :
    Take("status", q, [ui EXCEPT !.status = CASE ~Refused(q) -> q.ans
                                              [] Refused(q) /\ q.arg.first -> None
                                              [] OTHER -> @])

-----------------------------------------------------------------------------
(* Removal of accounts and workspaces *)

AskRemoval ==
  /\ OnSettings("remove") /\ "remove" \notin ui.busy
  /\ \E a \in Linked(ui) : Show([ui EXCEPT !.target = a])

CancelRemoval ==
  /\ At("shell") /\ ui.target # None /\ "remove" \notin ui.busy
  /\ Show([ui EXCEPT !.target = None])

\* The route is that of the moment of the confirmation.
ConfirmRemoval ==
  /\ At("shell") /\ ui.target # None /\ "remove" \notin ui.busy
  /\ Ask(ui, "remove", "remove", [account |-> ui.target, shown |-> ui.account = ui.target])

ServeRemoval ==
  \E q \in Asked("shell", "remove") :
    /\ srv.auth[q.arg.account] # "absent"
    /\ Serve("remove", q, [srv EXCEPT !.auth[q.arg.account] = "absent"], "removed")

\* A failure keeps the dialog open; otherwise the accounts are refreshed and
\* the controls are free when that ends.
Removed(q) ==
  /\ Commit([Busy(ui, {"accounts"}) EXCEPT
               !.target = None,
               !.page = IF q.arg.shown THEN "settings" ELSE @,
               !.account = IF q.arg.shown THEN None ELSE @],
            Refreshing(Taking(net, "remove", q), ui, q.ops, None))
  /\ UNCHANGED srv

RemovalFailureKept ==
  \E q \in Answers("shell", "remove") :
    IF Refused(q) THEN net' = Taking(net, "remove", q) /\ UNCHANGED <<ui, srv>> ELSE Removed(q)

RemovalArrives ==
  \E q \in Answers("shell", "remove") :
    IF Refused(q) THEN Take("remove", q, ui) ELSE Removed(q)

\* An owner deletes the workspace, or renames it when it is the last: the
\* session is refreshed afterwards.
LeaveSpace ==
  /\ OnSettings("remove") /\ Room
  /\ net' = Sending(net, "leave", {}, ui.space)
  /\ UNCHANGED <<ui, srv>>

ServeLeave ==
  \E q \in Asked("shell", "leave") :
    Serve("leave", q, [srv EXCEPT !.spaces = IF @ = {q.arg} THEN @ ELSE @ \ {q.arg}], "left")

LeaveArrives ==
  \E q \in Answers("shell", "leave") :
    IF Refused(q) THEN Take("leave", q, ui)
    ELSE /\ ui' = Busy(ui, {"session"})
         /\ net' = Sending(Taking(net, "leave", q), "session", {"session"}, "again")
         /\ UNCHANGED srv

-----------------------------------------------------------------------------
ShellNext ==
  \/ ServeAccounts \/ AccountsArrive \/ ServeSession \/ SessionArrives
  \/ ServeLink \/ LinkArrives \/ ServeStart \/ StartArrives
  \/ ServeVerify \/ VerifyArrives \/ ServeStatus \/ StatusArrives
  \/ ServeRemoval \/ RemovalArrives \/ ServeLeave \/ LeaveArrives
  \/ OpenWizard \/ ResumeWizard \/ CloseWizard \/ Link \/ Verify \/ SkipPassword
  \/ Navigate \/ OpenAccount \/ PollStatus
  \/ AskRemoval \/ CancelRemoval \/ ConfirmRemoval \/ LeaveSpace

\* The state in the header is that of the selected account or not known, from the
\* first answer for that account on, also when it is a failure; until then the state
\* of the account selected before stays.  An answer for an account that was left is
\* not taken (the agentStatus effect).
StatusOfSelected ==
  At("shell") =>
    \/ ui.status \in {None, Selected(ui)}
    \/ \E q \in Live("status") : q.arg = StatusRequest(Selected(ui), TRUE)
=============================================================================
