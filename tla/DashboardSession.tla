--------------------------- MODULE DashboardSession ---------------------------
(***************************************************************************)
(* Who is signed in to the dashboard: the login page, the session in the   *)
(* browser's storage, the interceptors of the API client, the routes and   *)
(* their guards, the logout, and the page that accepts an invitation       *)
(* (dashboard/src: pages/LoginPage.tsx, lib/auth.ts, lib/api.ts, App.tsx,  *)
(* lib/permissions.ts, components/, pages/AcceptPage.tsx).                 *)
(*                                                                         *)
(* A token is the user it was issued to and its generation; the server     *)
(* accepts those of the user's present generation.                         *)
(***************************************************************************)
EXTENDS WebView

CONSTANTS
  People,         \* numbers of the users
  BotOwners,      \* those who own the bot
  MaxExpiries     \* bound: how often the tokens of a bot owner expire; others do not

ASSUME DashboardSessionAssumption == People \subseteq Nat /\ BotOwners \subseteq People

SessionKinds == {"auth", "me", "data", "leave", "accept"}

-----------------------------------------------------------------------------
(* Roles and routes: permissions.ts *)

Roles == {"owner", "admin", "user"}

\* null is no token, no user and no page.
ASSUME SessionNoneAssumption ==
  None \notin (People \X Nat) \cup [id: People, role: Roles] \cup {"login", "accept"}

\* The routes, by the one that has their guard.
Guards == [workspace |-> Roles, admin |-> {"owner", "admin"}]

CanAccess(path, role) == role \in Guards[path]

\* The links of the sidebar and of the bottom bar: filterNav of the role.
Menu(role) == {path \in DOMAIN Guards : CanAccess(path, role)}

\* getRole: nobody signed in counts as a user.
StoredRole(u) == IF u.user = None THEN "user" ELSE u.user.role

\* The role given at a login: Telegram's makes users of all but the owners.
RoleOf(person, via) ==
  CASE person \in BotOwners -> "owner" [] via = "form" -> "admin" [] OTHER -> "user"

-----------------------------------------------------------------------------
(* The storage: auth.ts *)

AccountsWith(accounts, user) == {a \in accounts : a.id # user.id} \cup {user}

StoreAuth(u, token, user) ==
  [u EXCEPT !.token = token, !.user = user, !.accounts = AccountsWith(@, user)]
SignedOut(u) == [u EXCEPT !.token = None, !.user = None]     \* switchAccount
ClearAuth(u) == [SignedOut(u) EXCEPT !.accounts = {}]
IsAuthenticated(u) == u.token # None

-----------------------------------------------------------------------------
(* Loads of a page.  They abort every request, and read the menu from the  *)
(* role stored then, which is not read again.  A load that the code asks   *)
(* for (location.href) comes later: answers are taken until then.  Bound:  *)
(* the user waits for it.                                                  *)

NoRequests == [kind \in SessionKinds |-> {}]

Acting == At("session") /\ ui.loading = None

Loaded(u, page) == [u EXCEPT !.page = page, !.menu = StoredRole(u), !.busy = {}, !.loading = None]

\* The login page is mounted: Telegram's widget is listened to unless the user has
\* just logged out.  The timer that would end this is cleared by the next render,
\* which finds the flag removed.
LoginMounted(u, redirect) ==
  [u EXCEPT !.page = "login", !.redirect = redirect, !.ready = ~u.justOut, !.justOut = FALSE]
LoginLoaded(u, redirect) == LoginMounted(Loaded(u, "login"), redirect)

DashboardLoaded(u) == IF IsAuthenticated(u) THEN Loaded(u, "workspace") ELSE LoginLoaded(u, FALSE)

\* AcceptPage: the invitation of the link, or the one kept over the login, is
\* sent, or kept for the login to come back with; nothing is in flight then.
AcceptLoaded(u, link) ==
  IF ~link /\ ~u.pending THEN Loaded(u, "accept")
  ELSE IF IsAuthenticated(u) THEN [Loaded(u, "accept") EXCEPT !.pending = FALSE]
  ELSE LoginLoaded([u EXCEPT !.pending = TRUE], TRUE)

SessionStart ==
  /\ srv = [generation |-> [p \in People |-> 0]]
  /\ ui = [at |-> "session", page |-> "login", redirect |-> FALSE, ready |-> TRUE,
           busy |-> {}, menu |-> "user",
           loading |-> None,     \* the page whose load was asked for
           token |-> None, user |-> None, accounts |-> {},     \* localStorage
           pending |-> FALSE, justOut |-> FALSE]                \* sessionStorage
  /\ net = NoRequests

\* The request interceptor: an explicit token goes before the stored one.
BearerStored(explicit) == IF ui.token # None THEN ui.token ELSE explicit
Bearer(explicit) == IF explicit # None THEN explicit ELSE ui.token

Denied == <<>>      \* the answer 401
Owner(token) == IF token # None /\ token[2] = srv.generation[token[1]] THEN <<token[1]>> ELSE Denied

\* The response interceptor: whoever is signed in by now is signed out.
Unauthorized(kind, q) == Take(kind, q, [ClearAuth(ui) EXCEPT !.loading = "login"])

\* The accept page is loaded, by a link or after the login.
AcceptOpens(u, link) ==
  /\ ui' = AcceptLoaded(u, link)
  /\ net' = IF (link \/ u.pending) /\ IsAuthenticated(u)
            THEN Sending(NoRequests, "accept", {}, Bearer(None)) ELSE NoRequests
  /\ UNCHANGED srv

\* The load that was asked for last, from what is stored by then.
Load ==
  /\ At("session")
  /\ \/ ui.loading = "login" /\ ui' = LoginLoaded(ui, FALSE) /\ net' = NoRequests /\ UNCHANGED srv
     \/ ui.loading = "accept" /\ AcceptOpens(ui, FALSE)

-----------------------------------------------------------------------------
(* The login *)

OnPage(page) == Acting /\ ui.page = page

\* The form, while no login is known to run.
SubmitLogin ==
  /\ OnPage("login") /\ "login" \notin ui.busy
  /\ \E p \in People : Ask(ui, "login", "auth", [person |-> p, via |-> "form", redirect |-> ui.redirect])

\* Telegram's widget signs in by itself, whatever runs.
WidgetSignsIn ==
  /\ OnPage("login") /\ ui.ready
  /\ \E p \in People : Ask(ui, "login", "auth", [person |-> p, via |-> "telegram", redirect |-> ui.redirect])

\* The page is loaded with an account picked at Telegram in its address, and not
\* just after a logout.
ReturnFromTelegram ==
  /\ OnPage("login") /\ ~ui.justOut
  /\ LET u == LoginLoaded(ui, FALSE)
     IN \E p \in People :
          /\ ui' = Busy(u, {"login"})
          /\ net' = Sending(NoRequests, "auth", {"login"},
                            [person |-> p, via |-> "telegram", redirect |-> ui.redirect])
  /\ UNCHANGED srv

ServeAuth ==
  \E q \in Asked("session", "auth") :
    Serve("auth", q, srv, <<q.arg.person, srv.generation[q.arg.person]>>)

\* fetchCurrentUser, of the token that was just issued.
AuthArrives ==
  \E q \in Answers("session", "auth") :
    IF Refused(q) THEN Take("auth", q, ui)
    ELSE Further("auth", q, ui, "me",
                 [token |-> q.ans, bearer |-> Bearer(q.ans), via |-> q.arg.via, redirect |-> q.arg.redirect])

ServeMe == \E q \in Asked("session", "me") : Serve("me", q, srv, Owner(q.arg.bearer))

\* The session is stored, even when another was since, and the dashboard shown, or
\* the load of the login's page asked for.
MeArrives ==
  \E q \in Answers("session", "me") :
    IF Refused(q) THEN Take("me", q, ui)
    ELSE IF q.ans = Denied THEN Unauthorized("me", q)
    ELSE LET u == StoreAuth(ui, q.arg.token,
                            [id |-> q.ans[1], role |-> RoleOf(q.ans[1], q.arg.via)])
         IN Take("me", q, IF q.arg.redirect THEN [u EXCEPT !.loading = "accept"]
                          ELSE [u EXCEPT !.page = "workspace"])

\* An account on the list is picked, which ends the session, or removed.
SwitchAccount ==
  OnPage("login") /\ ui.accounts # {} /\ Show([SignedOut(ui) EXCEPT !.redirect = FALSE])
RemoveAccount == OnPage("login") /\ \E a \in ui.accounts : Show([ui EXCEPT !.accounts = @ \ {a}])

-----------------------------------------------------------------------------
(* The dashboard *)

OpenAddress ==
  /\ Acting
  /\ \/ ui' = DashboardLoaded(ui) /\ net' = NoRequests /\ UNCHANGED srv
     \/ ui' = LoginLoaded(ui, FALSE) /\ net' = NoRequests /\ UNCHANGED srv
     \/ \E link \in BOOLEAN : AcceptOpens(ui, link)

\* A link of the menu, which is that of the role at the load.
FollowUnguarded ==
  /\ Acting /\ ui.page \in DOMAIN Guards
  /\ \E path \in Menu(ui.menu) :
       Show(IF ~IsAuthenticated(ui) THEN LoginMounted(ui, FALSE) ELSE [ui EXCEPT !.page = path])

\* A route that the role of now may not open leads to the workspace, and none is open
\* to nobody.
FollowLink ==
  /\ Acting /\ ui.page \in DOMAIN Guards
  /\ \E path \in Menu(ui.menu) :
       Show(IF ~IsAuthenticated(ui) THEN LoginMounted(ui, FALSE)
            ELSE [ui EXCEPT !.page = IF CanAccess(path, StoredRole(ui)) THEN path ELSE "workspace"])

\* What the pages of the dashboard ask for.
AskData ==
  /\ Acting /\ ui.page \in DOMAIN Guards /\ Room
  /\ net' = Sending(net, "data", {}, Bearer(None))
  /\ UNCHANGED <<ui, srv>>

ServeData == \E q \in Asked("session", "data") : Serve("data", q, srv, Owner(q.arg))
DataArrives ==
  \E q \in Answers("session", "data") :
    IF q.ans = Denied THEN Unauthorized("data", q) ELSE Take("data", q, ui)

\* An answer to an invitation that joined its workspace leads to the dashboard.
ServeAccept == \E q \in Asked("session", "accept") : Serve("accept", q, srv, Owner(q.arg))
AcceptArrives ==
  \E q \in Answers("session", "accept") :
    IF Refused(q) THEN Take("accept", q, ui)
    ELSE IF q.ans = Denied THEN Unauthorized("accept", q)
    ELSE ui' = DashboardLoaded(ui) /\ net' = NoRequests /\ UNCHANGED srv

Logout ==
  /\ Acting /\ ui.page \in DOMAIN Guards /\ Room
  /\ net' = Sending(net, "leave", {}, Bearer(None))
  /\ UNCHANGED <<ui, srv>>

ServeLogout == \E q \in Asked("session", "leave") : Serve("leave", q, srv, "ok")

\* Whatever the server said, the session ends and a load of the login page follows.
LogoutArrives ==
  \E q \in Answers("session", "leave") :
    Take("leave", q, [ClearAuth(ui) EXCEPT !.justOut = TRUE, !.loading = "login"])

TokensExpire ==
  /\ At("session")
  /\ \E p \in BotOwners :
       /\ srv.generation[p] < MaxExpiries
       /\ srv' = [srv EXCEPT !.generation[p] = @ + 1]
  /\ UNCHANGED <<ui, net>>

SessionNext ==
  \/ Load \/ SubmitLogin \/ WidgetSignsIn \/ ReturnFromTelegram \/ ServeAuth \/ AuthArrives
  \/ ServeMe \/ MeArrives \/ SwitchAccount \/ RemoveAccount
  \/ OpenAddress \/ FollowLink \/ AskData \/ ServeData \/ DataArrives
  \/ ServeAccept \/ AcceptArrives \/ Logout \/ ServeLogout \/ LogoutArrives \/ TokensExpire

\* The user shown and the token sent belong together, whatever logins, answers to
\* requests of an earlier session and logouts end in whichever order (the comment
\* on the request interceptor, storeAuth and the response interceptor).
UserIsOfToken ==
  At("session") =>
    IF ui.token = None THEN ui.user = None ELSE ui.user # None /\ ui.user.id = ui.token[1]

\* A page of a role is shown only to whom the role stored now lets see it, although
\* the menu that leads there is that of the role at the last load, and another login
\* may end, or a late answer end the session, while the page is shown; but for the
\* time until the load that follows such an answer (GuardRoute, filterNav).
PageOfRole ==
  At("session") /\ ui.loading = None /\ ui.page \in DOMAIN Guards =>
    CanAccess(ui.page, StoredRole(ui))
=============================================================================
