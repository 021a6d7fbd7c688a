--------------------------- MODULE WebShellProofs ---------------------------
(***************************************************************************)
(* Theorems about the shells of the web applications and the dashboard's   *)
(* pages, for every value of the constants: an invariant for each, of the  *)
(* dashboard's session, scraper and bulk addition and the mini-app's       *)
(* tokens, subscription, accounts and notifications, and at the end the    *)
(* theorems about all of them.                                             *)
(***************************************************************************)
EXTENDS WebShell, WebViewProofs

-----------------------------------------------------------------------------
(* The session of the dashboard *)

Tokens == People \X Nat
SessionUsers == [id: People, role: Roles]

SessionUi == [at: {"session"}, page: {"login", "workspace", "admin", "accept"},
              redirect: BOOLEAN, ready: BOOLEAN, busy: SUBSET {"login"}, menu: Roles,
              loading: {"login", "accept", None},
              token: Tokens \cup {None}, user: SessionUsers \cup {None},
              accounts: SUBSET SessionUsers, pending: BOOLEAN, justOut: BOOLEAN]

\* The user of u is the one its token was issued to.
Consistent(u) ==
  IF u.token = None THEN u.user = None ELSE u.user # None /\ u.user.id = u.token[1]

\* The page of u, unless another is about to be loaded, is one for its user.
Guarded(u) == u.loading = None /\ u.page = "admin" => CanAccess("admin", StoredRole(u))

Fits(u) == u \in SessionUi /\ Consistent(u) /\ Guarded(u)

(***************************************************************************)
(* UserIsOfToken is not inductive: the answer to a login's second request  *)
(* becomes the user shown, so it must name the owner of the token the      *)
(* first one issued.  It does because the second request carries that very *)
(* token, whoever is signed in by then.                                    *)
(***************************************************************************)
AuthRequest(q) ==
  /\ q.ops = {"login"} /\ q.arg.person \in People
  /\ q.ans \in Tokens \cup {None, Failed}

MeRequest(q) ==
  /\ q.ops = {"login"} /\ q.arg.token \in Tokens /\ q.arg.bearer = q.arg.token
  /\ q.ans \in {None, Failed, Denied, <<q.arg.token[1]>>}

SessionRequest(kind, q) ==
  /\ kind = "auth" => AuthRequest(q)
  /\ kind = "me" => MeRequest(q)
  /\ kind \notin {"auth", "me"} => q.ops = {}

SessionRequests(n) ==
  /\ IsNet(n, SessionKinds)
  /\ \A kind \in SessionKinds : \A q \in n[kind] : SessionRequest(kind, q)

SessionInv ==
  /\ srv \in [generation: [People -> Nat]]
  /\ Fits(ui) /\ SessionRequests(net) /\ ControlsEnd

(***************************************************************************)
(* What is sent, executed and taken                                        *)
(***************************************************************************)
LEMMA NoRequestsNet == SessionRequests(NoRequests)
<1>1. \A kind \in SessionKinds : NoRequests[kind] = {}
  BY DEF NoRequests
<1>2. NoRequests = [kind \in SessionKinds |-> NoRequests[kind]]
  BY DEF NoRequests
<1> HIDE DEF NoRequests
<1>3. IsNet(NoRequests, SessionKinds)
  BY <1>1, <1>2 DEF IsNet
<1> QED
  BY <1>1, <1>3 DEF SessionRequests

LEMMA SessionSending ==
  ASSUME NEW n, SessionRequests(n), NEW kind \in SessionKinds, NEW ops, NEW arg,
         SessionRequest(kind, Request(ops, arg))
  PROVE  SessionRequests(Sending(n, kind, ops, arg))
<1> DEFINE m == Sending(n, kind, ops, arg)
<1>1. /\ IsNet(m, SessionKinds) /\ m[kind] = n[kind] \cup {Request(ops, arg)}
      /\ \A k \in SessionKinds \ {kind} : m[k] = n[k]
  BY SendingNet DEF SessionRequests
<1> HIDE DEF m
<1> QED
  BY <1>1 DEF SessionRequests, m

LEMMA SessionExecuted ==
  ASSUME NEW n, SessionRequests(n), NEW kind \in SessionKinds, NEW q \in n[kind], NEW ans,
         SessionRequest(kind, [q EXCEPT !.ans = ans])
  PROVE  SessionRequests(Executed(n, kind, q, ans))
<1> DEFINE m == Executed(n, kind, q, ans)
           r == [q EXCEPT !.ans = ans]
<1>1. /\ IsNet(m, SessionKinds) /\ m[kind] = (n[kind] \ {q}) \cup {r}
      /\ \A k \in SessionKinds \ {kind} : m[k] = n[k]
  BY ExecutedNet DEF SessionRequests
<1>2. SessionRequest(kind, r)
  OBVIOUS
<1> HIDE DEF m, r
<1>3. SessionRequests(m)
  BY <1>1, <1>2 DEF SessionRequests
<1> QED
  BY <1>3 DEF m

LEMMA SessionTaking ==
  ASSUME NEW n, SessionRequests(n), NEW kind \in SessionKinds, NEW q
  PROVE  SessionRequests(Taking(n, kind, q))
<1> DEFINE m == Taking(n, kind, q)
<1>1. /\ IsNet(m, SessionKinds) /\ m[kind] = n[kind] \ {q}
      /\ \A k \in SessionKinds \ {kind} : m[k] = n[k]
  BY TakingNet DEF SessionRequests
<1> HIDE DEF m
<1> QED
  BY <1>1 DEF SessionRequests, m

(***************************************************************************)
(* Views: what changes of them keeps them fitting                          *)
(***************************************************************************)
LEMMA StoredRoles ==
  ASSUME NEW u \in SessionUi
  PROVE  StoredRole(u) \in Roles
  BY DEF StoredRole, SessionUi, SessionUsers, Roles

LEMMA FitsElsewhere ==
  ASSUME NEW u \in SessionUi, Consistent(u), u.page # "admin" \/ u.loading # None
  PROVE  Fits(u)
  BY DEF Fits, Guarded

\* The user and the token of u, and whether it is on its page, do not depend on the rest.
LEMMA FitsAlike ==
  ASSUME NEW u, Fits(u), NEW v \in SessionUi,
         v.token = u.token, v.user = u.user, v.page = u.page, v.loading = u.loading
  PROVE  Fits(v)
  BY DEF Fits, Consistent, Guarded, StoredRole

LEMMA BusySession ==
  ASSUME NEW u, Fits(u)
  PROVE  /\ \A S \in SUBSET {"login"} : Fits(Busy(u, S)) /\ Busy(u, S).busy = u.busy \cup S
         /\ \A S : Fits(Free(u, S)) /\ Free(u, S).busy = u.busy \ S
<1>1. ASSUME NEW B \in SUBSET {"login"}
      PROVE  Fits([u EXCEPT !.busy = B]) /\ [u EXCEPT !.busy = B].busy = B
  <2> DEFINE v == [u EXCEPT !.busy = B]
  <2>1. /\ v \in SessionUi /\ v.busy = B
        /\ v.token = u.token /\ v.user = u.user /\ v.page = u.page /\ v.loading = u.loading
    BY DEF Fits, SessionUi
  <2> HIDE DEF v
  <2> QED
    BY <2>1, FitsAlike DEF v
<1>2. ASSUME NEW S \in SUBSET {"login"}
      PROVE  Fits(Busy(u, S)) /\ Busy(u, S).busy = u.busy \cup S
  <2>1. u.busy \cup S \in SUBSET {"login"}
    BY DEF Fits, SessionUi
  <2> QED
    BY <1>1, <2>1 DEF Busy
<1>3. ASSUME NEW S PROVE Fits(Free(u, S)) /\ Free(u, S).busy = u.busy \ S
  <2>1. u.busy \ S \in SUBSET {"login"}
    BY DEF Fits, SessionUi
  <2> QED
    BY <1>1, <2>1 DEF Free
<1> QED
  BY <1>2, <1>3

LEMMA LoadedUi ==
  ASSUME NEW u \in SessionUi, Consistent(u)
  PROVE  /\ \A redirect \in BOOLEAN :
              Fits(LoginMounted(u, redirect)) /\ LoginMounted(u, redirect).busy = u.busy
         /\ \A page \in {"login", "workspace", "accept"} :
              Fits(Loaded(u, page)) /\ Loaded(u, page).busy = {}
         /\ \A redirect \in BOOLEAN :
              Fits(LoginLoaded(u, redirect)) /\ LoginLoaded(u, redirect).busy = {}
<1>1. ASSUME NEW v \in SessionUi, Consistent(v), NEW redirect \in BOOLEAN
      PROVE  Fits(LoginMounted(v, redirect)) /\ LoginMounted(v, redirect).busy = v.busy
  <2> DEFINE m(ready) == [v EXCEPT !.page = "login", !.redirect = redirect, !.ready = ready, !.justOut = FALSE]
             l == LoginMounted(v, redirect)
  <2>a. ASSUME NEW ready \in BOOLEAN
        PROVE  m(ready) \in SessionUi /\ Consistent(m(ready)) /\ m(ready).page = "login" /\ m(ready).busy = v.busy
    BY <1>1 DEF SessionUi, Consistent
  <2>b. l = m(~v.justOut)
    BY DEF LoginMounted
  <2> HIDE DEF m
  <2>1. l \in SessionUi /\ Consistent(l) /\ l.page = "login" /\ l.busy = v.busy
    BY <2>a, <2>b
  <2> HIDE DEF l
  <2> QED
    BY <2>1, FitsElsewhere DEF l
<1>2. ASSUME NEW page \in {"login", "workspace", "accept"}
      PROVE  Fits(Loaded(u, page)) /\ Loaded(u, page).busy = {}
  <2> DEFINE l == Loaded(u, page)
  <2>1. l \in SessionUi /\ Consistent(l) /\ l.page = page /\ l.busy = {}
    BY StoredRoles DEF Loaded, SessionUi, Consistent
  <2> HIDE DEF l
  <2> QED
    BY <2>1, FitsElsewhere DEF l
<1> QED
  BY <1>1, <1>2 DEF LoginLoaded, Fits

LEMMA SignedOutUi ==
  ASSUME NEW u \in SessionUi
  PROVE  /\ SignedOut(u) \in SessionUi /\ Consistent(SignedOut(u)) /\ SignedOut(u).busy = u.busy
         /\ SignedOut(u).page = u.page
         /\ ClearAuth(u) \in SessionUi /\ Consistent(ClearAuth(u)) /\ ClearAuth(u).busy = u.busy
<1>1. /\ SignedOut(u) \in SessionUi /\ Consistent(SignedOut(u)) /\ SignedOut(u).busy = u.busy
      /\ SignedOut(u).page = u.page
  BY DEF SignedOut, SessionUi, Consistent
<1>2. ASSUME NEW v \in SessionUi, Consistent(v)
      PROVE  LET w == [v EXCEPT !.accounts = {}]
             IN  w \in SessionUi /\ Consistent(w) /\ w.busy = v.busy
  BY <1>2 DEF SessionUi, Consistent
<1> QED
  BY <1>1, <1>2 DEF ClearAuth

\* A view whose page is about to be left fits whatever page it is on.
LEMMA LeavingUi ==
  ASSUME NEW u \in SessionUi, Consistent(u), NEW page \in {"login", "accept"}
  PROVE  /\ Fits([u EXCEPT !.loading = page]) /\ [u EXCEPT !.loading = page].busy = u.busy
         /\ LET v == [u EXCEPT !.justOut = TRUE, !.loading = page] IN Fits(v) /\ v.busy = u.busy
<1>1. page # None
  BY SessionNoneAssumption
<1>2. ASSUME NEW v \in SessionUi, Consistent(v)
      PROVE  Fits([v EXCEPT !.loading = page]) /\ [v EXCEPT !.loading = page].busy = v.busy
  <2> DEFINE w == [v EXCEPT !.loading = page]
  <2>1. w \in SessionUi /\ Consistent(w) /\ w.loading = page /\ w.busy = v.busy
    BY <1>2 DEF SessionUi, Consistent
  <2> HIDE DEF w
  <2> QED
    BY <1>1, <2>1, FitsElsewhere DEF w
<1>3. LET v == [u EXCEPT !.justOut = TRUE] IN v \in SessionUi /\ Consistent(v) /\ v.busy = u.busy
  BY DEF SessionUi, Consistent
<1>4. [u EXCEPT !.justOut = TRUE, !.loading = page] = [[u EXCEPT !.justOut = TRUE] EXCEPT !.loading = page]
  OBVIOUS
<1> QED
  BY <1>2, <1>3, <1>4

LEMMA AcceptUi ==
  ASSUME NEW u \in SessionUi, Consistent(u), NEW link \in BOOLEAN
  PROVE  Fits(AcceptLoaded(u, link)) /\ AcceptLoaded(u, link).busy = {}
<1>1. LET v == [u EXCEPT !.pending = TRUE] IN v \in SessionUi /\ Consistent(v)
  BY DEF SessionUi, Consistent
<1>2. ASSUME NEW v, Fits(v)
      PROVE  Fits([v EXCEPT !.pending = FALSE]) /\ [v EXCEPT !.pending = FALSE].busy = v.busy
  <2> DEFINE w == [v EXCEPT !.pending = FALSE]
  <2>1. /\ w \in SessionUi /\ w.busy = v.busy
        /\ w.token = v.token /\ w.user = v.user /\ w.page = v.page /\ w.loading = v.loading
    BY <1>2 DEF Fits, SessionUi
  <2> HIDE DEF w
  <2> QED
    BY <1>2, <2>1, FitsAlike DEF w
<1>3. CASE ~link /\ ~u.pending
  BY <1>3, LoadedUi DEF AcceptLoaded
<1>4. CASE (link \/ u.pending) /\ IsAuthenticated(u)
  BY <1>2, <1>4, LoadedUi DEF AcceptLoaded
<1>5. CASE (link \/ u.pending) /\ ~IsAuthenticated(u)
  BY <1>1, <1>5, LoadedUi DEF AcceptLoaded
<1> QED
  BY <1>3, <1>4, <1>5

\* The user stored with a token is the one it was issued to.
LEMMA StoreAuthUi ==
  ASSUME NEW u \in SessionUi, NEW token \in Tokens, NEW user \in SessionUsers, user.id = token[1]
  PROVE  LET v == StoreAuth(u, token, user)
         IN  v \in SessionUi /\ Consistent(v) /\ v.busy = u.busy
<1>1. AccountsWith(u.accounts, user) \in SUBSET SessionUsers
  BY DEF AccountsWith, SessionUi
<1>2. token # None /\ user # None
  BY SessionNoneAssumption DEF Tokens, SessionUsers
<1> QED
  BY <1>1, <1>2 DEF StoreAuth, SessionUi, Consistent

(***************************************************************************)
(* Steps that load a page, send, execute or take a request, or change the  *)
(* view alone.                                                             *)
(***************************************************************************)
\* A load aborts every request; the accept page may send its own.
LEMMA LoadStep ==
  ASSUME SessionInv, UNCHANGED srv, Fits(ui'), ui'.busy = {},
         net' = NoRequests \/ \E token : net' = Sending(NoRequests, "accept", {}, token)
  PROVE  SessionInv'
<1>1. ControlsEnd'
  BY DEF ControlsEnd, ControlsEndBut
<1>2. "accept" \in SessionKinds /\ \A token : SessionRequest("accept", Request({}, token))
  BY RequestFields DEF SessionKinds, SessionRequest
<1>3. SessionRequests(net')
  BY <1>2, NoRequestsNet, SessionSending
<1> QED
  BY <1>1, <1>3 DEF SessionInv

LEMMA AcceptOpensStep ==
  ASSUME SessionInv, NEW u \in SessionUi, Consistent(u), NEW link \in BOOLEAN, AcceptOpens(u, link)
  PROVE  SessionInv'
<1>1. Fits(ui') /\ ui'.busy = {}
  BY AcceptUi DEF AcceptOpens
<1> QED
  BY <1>1, LoadStep DEF AcceptOpens

LEMMA SessionAsk ==
  ASSUME SessionInv, UNCHANGED srv, NEW kind \in SessionKinds, NEW ops \in SUBSET {"login"}, NEW arg,
         SessionRequest(kind, Request(ops, arg)),
         ui' = Busy(ui, ops) \/ (ops = {} /\ UNCHANGED ui), net' = Sending(net, kind, ops, arg)
  PROVE  SessionInv'
<1>1. Fits(ui') /\ ui'.busy \subseteq ui.busy \cup ops
  BY BusySession DEF SessionInv
<1>2. SessionRequests(net')
  BY SessionSending DEF SessionInv
<1>3. ControlsEnd'
  BY <1>1, SentEnds DEF SessionInv, SessionRequests
<1> QED
  BY <1>1, <1>2, <1>3 DEF SessionInv

LEMMA SessionServe ==
  ASSUME SessionInv, UNCHANGED <<ui, srv>>, NEW kind \in SessionKinds, NEW q \in net[kind], NEW ans,
         SessionRequest(kind, [q EXCEPT !.ans = ans]), net' = Executed(net, kind, q, ans)
  PROVE  SessionInv'
<1>1. SessionRequests(net')
  BY SessionExecuted DEF SessionInv
<1>2. ControlsEnd'
  BY ExecutedEnds DEF SessionInv, SessionRequests
<1> QED
  BY <1>1, <1>2 DEF SessionInv

LEMMA SessionTakes ==
  ASSUME SessionInv, NEW kind \in SessionKinds, NEW q \in net[kind],
         NEW u, Fits(u), u.busy = ui.busy, Take(kind, q, u)
  PROVE  SessionInv'
<1>1. Fits(ui') /\ ui'.busy = ui.busy \ q.ops
  BY BusySession DEF Take
<1>2. SessionRequests(net')
  BY SessionTaking DEF SessionInv, Take
<1>3. ControlsEnd'
  BY <1>1, TakenEnds DEF SessionInv, SessionRequests, Take
<1> QED
  BY <1>1, <1>2, <1>3 DEF SessionInv, Take

LEMMA SessionShow ==
  ASSUME SessionInv, NEW u, Fits(u), u.busy = ui.busy, Show(u)
  PROVE  SessionInv'
<1>1. ui' = u /\ net' = net /\ srv' = srv
  BY DEF Show
<1>2. ControlsEnd'
  BY <1>1, ShownEnds DEF SessionInv
<1> QED
  BY <1>1, <1>2 DEF SessionInv

LEMMA UnauthorizedStep ==
  ASSUME SessionInv, NEW kind \in SessionKinds, NEW q \in net[kind], Unauthorized(kind, q)
  PROVE  SessionInv'
<1> DEFINE u == [ClearAuth(ui) EXCEPT !.loading = "login"]
<1>1. Fits(u) /\ u.busy = ui.busy
  BY SignedOutUi, LeavingUi DEF SessionInv, Fits
<1>2. Take(kind, q, u)
  BY DEF Unauthorized
<1> HIDE DEF u
<1> QED
  BY <1>1, <1>2, SessionTakes

-----------------------------------------------------------------------------
LEMMA SessionInit == SessionStart => SessionInv
<1> SUFFICES ASSUME SessionStart PROVE SessionInv
  OBVIOUS
<1>1. srv \in [generation: [People -> Nat]]
  BY DEF SessionStart
<1>2. ui \in SessionUi /\ Consistent(ui) /\ ui.busy = {} /\ ui.page = "login"
  BY DEF SessionStart, SessionUi, Consistent, Roles
<1>3. ControlsEnd
  BY <1>2 DEF ControlsEnd, ControlsEndBut
<1> QED
  BY <1>1, <1>2, <1>3, NoRequestsNet, FitsElsewhere DEF SessionStart, SessionInv

\* The requests whose answer a page takes, or that the server executes.
LEMMA SessionAnswers ==
  ASSUME SessionInv, NEW kind \in SessionKinds
  PROVE  /\ \A q \in Asked("session", kind) : q \in net[kind] /\ q.ans = None
         /\ \A q \in Answers("session", kind) : q \in net[kind] /\ q.ans # None /\ q.live
         /\ \A q \in net[kind] : IsRequest(q) /\ SessionRequest(kind, q)
  BY DEF Asked, Answers, Answered, SessionInv, SessionRequests, IsNet

\* The server's answer to a request is one that the kind admits.
LEMMA SessionServed ==
  ASSUME SessionInv, NEW kind \in SessionKinds, NEW q \in net[kind], NEW ans, Serve(kind, q, srv, ans),
         kind = "auth" => ans \in Tokens \cup {Failed},
         kind = "me" => ans \in {Failed, Denied, <<q.arg.token[1]>>}
  PROVE  SessionInv'
<1> DEFINE r == [q EXCEPT !.ans = ans]
<1>1. r.ops = q.ops /\ r.arg = q.arg /\ r.ans = ans
  BY SessionAnswers, AnsweredFields
<1>2. SessionRequest(kind, q)
  BY SessionAnswers
<1> HIDE DEF r
<1>3. SessionRequest(kind, r)
  BY <1>1, <1>2 DEF SessionRequest, AuthRequest, MeRequest
<1> QED
  BY <1>3, SessionServe DEF Serve, r

LEMMA LoadSessionStep ==
  ASSUME SessionInv, Load
  PROVE  SessionInv'
<1>1. CASE ui' = LoginLoaded(ui, FALSE) /\ net' = NoRequests /\ UNCHANGED srv
  BY <1>1, LoadedUi, LoadStep DEF SessionInv, Fits
<1>2. CASE AcceptOpens(ui, FALSE)
  BY <1>2, AcceptOpensStep DEF SessionInv, Fits
<1> QED
  BY <1>1, <1>2 DEF Load

LEMMA LoginStep ==
  ASSUME SessionInv, SubmitLogin \/ WidgetSignsIn \/ ReturnFromTelegram
  PROVE  SessionInv'
<1> DEFINE arg(p, via) == [person |-> p, via |-> via, redirect |-> ui.redirect]
<1>1. ASSUME NEW p \in People, NEW via
      PROVE  "auth" \in SessionKinds /\ SessionRequest("auth", Request({"login"}, arg(p, via)))
  BY RequestFields DEF SessionKinds, SessionRequest, AuthRequest
<1>2. CASE SubmitLogin \/ WidgetSignsIn
  <2>1. PICK p \in People, via \in {"form", "telegram"} : Ask(ui, "login", "auth", arg(p, via))
    BY <1>2 DEF SubmitLogin, WidgetSignsIn
  <2> QED
    BY <1>1, <2>1, SessionAsk DEF Ask
<1>3. CASE ReturnFromTelegram
  <2> DEFINE u == LoginLoaded(ui, FALSE)
  <2>1. PICK p \in People : /\ ui' = Busy(u, {"login"})
                            /\ net' = Sending(NoRequests, "auth", {"login"}, arg(p, "telegram"))
                            /\ UNCHANGED srv
    BY <1>3 DEF ReturnFromTelegram
  <2>2. Fits(u) /\ u.busy = {}
    BY LoadedUi DEF SessionInv, Fits
  <2> HIDE DEF u
  <2>3. Fits(ui') /\ ui'.busy = {"login"}
    BY <2>1, <2>2, BusySession
  <2>4. SessionRequests(net')
    BY <1>1, <2>1, NoRequestsNet, SessionSending
  <2>5. ControlsEnd'
    <3>1. \A op \in {"login"} : InFlight(net', op)
      BY <1>1, <2>1, NoRequestsNet, SendingNet DEF SessionRequests
    <3> QED
      BY <2>3, <3>1, ControlsInFlightNext
  <2> QED
    BY <2>1, <2>3, <2>4, <2>5 DEF SessionInv
<1> QED
  BY <1>2, <1>3

\* The second request of a login carries the token of the first one's answer.
LEMMA AuthArrivesStep ==
  ASSUME SessionInv, AuthArrives
  PROVE  SessionInv'
<1>0. "auth" \in SessionKinds /\ "me" \in SessionKinds
  BY DEF SessionKinds
<1>1. PICK q \in Answers("session", "auth") :
        IF Refused(q) THEN Take("auth", q, ui)
        ELSE Further("auth", q, ui, "me", [token |-> q.ans, bearer |-> Bearer(q.ans),
                                           via |-> q.arg.via, redirect |-> q.arg.redirect])
  BY DEF AuthArrives
<1>2. q \in net["auth"] /\ q.ans # None /\ q.live /\ AuthRequest(q)
  BY <1>0, SessionAnswers DEF SessionRequest
<1>3. CASE Refused(q)
  BY <1>0, <1>1, <1>2, <1>3, SessionTakes DEF SessionInv
<1>4. CASE ~Refused(q)
  <2> DEFINE arg == [token |-> q.ans, bearer |-> Bearer(q.ans), via |-> q.arg.via,
                     redirect |-> q.arg.redirect]
             n == Taking(net, "auth", q)
  <2>1. ui' = ui /\ srv' = srv /\ net' = Sending(n, "me", q.ops, arg)
    BY <1>1, <1>4 DEF Further
  <2>2. q.ans \in Tokens /\ Bearer(q.ans) = q.ans
    BY <1>2, <1>4 DEF AuthRequest, Refused, Bearer
  <2>3. arg.token = q.ans /\ arg.bearer = q.ans
    BY <2>2
  <2> HIDE DEF arg
  <2>4. SessionRequest("me", Request(q.ops, arg))
    BY <1>2, <2>2, <2>3, RequestFields DEF SessionRequest, MeRequest, AuthRequest
  <2>5. SessionRequests(n)
    BY <1>0, SessionTaking DEF SessionInv
  <2>6. SessionRequests(net')
    BY <1>0, <2>1, <2>4, <2>5, SessionSending
  <2>7. ControlsEnd'
    BY <1>0, <2>1, FurtherEnds DEF SessionInv, SessionRequests
  <2> QED
    BY <2>1, <2>6, <2>7 DEF SessionInv
<1> QED
  BY <1>3, <1>4

LEMMA MeArrivesStep ==
  ASSUME SessionInv, MeArrives
  PROVE  SessionInv'
<1>0. "me" \in SessionKinds
  BY DEF SessionKinds
<1> DEFINE u(q) == StoreAuth(ui, q.arg.token, [id |-> q.ans[1], role |-> RoleOf(q.ans[1], q.arg.via)])
<1>1. PICK q \in Answers("session", "me") :
        IF Refused(q) THEN Take("me", q, ui)
        ELSE IF q.ans = Denied THEN Unauthorized("me", q)
        ELSE Take("me", q, IF q.arg.redirect THEN [u(q) EXCEPT !.loading = "accept"]
                           ELSE [u(q) EXCEPT !.page = "workspace"])
  BY DEF MeArrives
<1>2. q \in net["me"] /\ q.ans # None /\ q.live /\ MeRequest(q)
  BY <1>0, SessionAnswers DEF SessionRequest
<1>3. CASE Refused(q)
  BY <1>0, <1>1, <1>2, <1>3, SessionTakes DEF SessionInv
<1>4. CASE ~Refused(q) /\ q.ans = Denied
  BY <1>0, <1>1, <1>2, <1>4, UnauthorizedStep
<1>5. CASE ~Refused(q) /\ q.ans # Denied
  <2> DEFINE user == [id |-> q.ans[1], role |-> RoleOf(q.ans[1], q.arg.via)]
  <2>1. q.arg.token \in Tokens /\ q.ans[1] = q.arg.token[1] /\ q.arg.token[1] \in People
    BY <1>2, <1>5 DEF MeRequest, Refused, Tokens
  <2>2. user \in SessionUsers /\ user.id = q.arg.token[1]
    BY <2>1 DEF SessionUsers, RoleOf, Roles
  <2> HIDE DEF user
  <2>3. u(q) \in SessionUi /\ Consistent(u(q)) /\ u(q).busy = ui.busy
    BY <2>1, <2>2, StoreAuthUi DEF SessionInv, Fits, user
  <2> HIDE DEF u
  <2>4. CASE q.arg.redirect
    <3> DEFINE v == [u(q) EXCEPT !.loading = "accept"]
    <3>1. Fits(v) /\ v.busy = ui.busy
      BY <2>3, LeavingUi
    <3>2. Take("me", q, v)
      BY <1>1, <1>5, <2>4
    <3> HIDE DEF v
    <3> QED
      BY <1>0, <1>2, <3>1, <3>2, SessionTakes
  <2>5. CASE ~q.arg.redirect
    <3> DEFINE v == [u(q) EXCEPT !.page = "workspace"]
    <3>1. v \in SessionUi /\ Consistent(v) /\ v.page = "workspace" /\ v.busy = ui.busy
      BY <2>3 DEF SessionUi, Consistent
    <3>2. Take("me", q, v)
      BY <1>1, <1>5, <2>5
    <3> HIDE DEF v
    <3>3. Fits(v)
      BY <3>1, FitsElsewhere
    <3> QED
      BY <1>0, <1>2, <3>1, <3>2, <3>3, SessionTakes
  <2> QED
    BY <2>4, <2>5
<1> QED
  BY <1>3, <1>4, <1>5

LEMMA ServeSessionStep ==
  ASSUME SessionInv, ServeAuth \/ ServeMe \/ ServeData \/ ServeAccept \/ ServeLogout
  PROVE  SessionInv'
<1>0. {"auth", "me", "data", "leave", "accept"} = SessionKinds
  BY DEF SessionKinds
<1>1. CASE ServeAuth
  <2>1. PICK q \in Asked("session", "auth") :
          Serve("auth", q, srv, <<q.arg.person, srv.generation[q.arg.person]>>)
    BY <1>1 DEF ServeAuth
  <2>2. q \in net["auth"] /\ q.arg.person \in People
    BY <1>0, SessionAnswers DEF SessionRequest, AuthRequest
  <2>3. <<q.arg.person, srv.generation[q.arg.person]>> \in Tokens
    BY <2>2 DEF Tokens, SessionInv
  <2> QED
    BY <1>0, <2>1, <2>2, <2>3, SessionServed
<1>2. CASE ServeMe
  <2>1. PICK q \in Asked("session", "me") : Serve("me", q, srv, Owner(q.arg.bearer))
    BY <1>2 DEF ServeMe
  <2>2. q \in net["me"] /\ q.arg.bearer = q.arg.token
    BY <1>0, SessionAnswers DEF SessionRequest, MeRequest
  <2>3. Owner(q.arg.bearer) \in {Denied, <<q.arg.token[1]>>}
    BY <2>2 DEF Owner
  <2> QED
    BY <1>0, <2>1, <2>2, <2>3, SessionServed
<1>3. ASSUME NEW kind \in {"data", "leave", "accept"}, NEW q \in Asked("session", kind), NEW ans,
             Serve(kind, q, srv, ans)
      PROVE  SessionInv'
  BY <1>0, <1>3, SessionAnswers, SessionServed
<1> QED
  BY <1>1, <1>2, <1>3 DEF ServeData, ServeAccept, ServeLogout

LEMMA PageStep ==
  ASSUME SessionInv, SwitchAccount \/ RemoveAccount \/ OpenAddress \/ FollowLink
  PROVE  SessionInv'
<1>0. ui \in SessionUi /\ Consistent(ui) /\ Fits(ui)
  BY DEF SessionInv, Fits
<1>1. CASE SwitchAccount
  <2> DEFINE u == [SignedOut(ui) EXCEPT !.redirect = FALSE]
  <2>1. u \in SessionUi /\ Consistent(u) /\ u.page = ui.page /\ u.busy = ui.busy
    <3>1. ASSUME NEW v \in SessionUi, Consistent(v)
          PROVE  LET r == [v EXCEPT !.redirect = FALSE]
                 IN  r \in SessionUi /\ Consistent(r) /\ r.page = v.page /\ r.busy = v.busy
      BY <3>1 DEF SessionUi, Consistent
    <3> QED
      BY <1>0, <3>1, SignedOutUi
  <2>2. Show(u) /\ ui.page = "login"
    BY <1>1 DEF SwitchAccount, OnPage
  <2> HIDE DEF u
  <2>3. Fits(u)
    BY <2>1, <2>2, FitsElsewhere
  <2> QED
    BY <2>1, <2>2, <2>3, SessionShow
<1>2. CASE RemoveAccount
  <2>1. PICK a : Show([ui EXCEPT !.accounts = @ \ {a}])
    BY <1>2 DEF RemoveAccount
  <2> DEFINE u == [ui EXCEPT !.accounts = @ \ {a}]
  <2>2. /\ u \in SessionUi /\ u.busy = ui.busy
        /\ u.token = ui.token /\ u.user = ui.user /\ u.page = ui.page /\ u.loading = ui.loading
    BY <1>0 DEF SessionUi
  <2> HIDE DEF u
  <2>3. Fits(u)
    BY <1>0, <2>2, FitsAlike
  <2> QED
    BY <2>1, <2>2, <2>3, SessionShow DEF u
<1>3. CASE OpenAddress
  <2>1. CASE ui' = DashboardLoaded(ui) /\ net' = NoRequests /\ UNCHANGED srv
    BY <1>0, <2>1, LoadedUi, LoadStep DEF DashboardLoaded
  <2>2. CASE ui' = LoginLoaded(ui, FALSE) /\ net' = NoRequests /\ UNCHANGED srv
    BY <1>0, <2>2, LoadedUi, LoadStep
  <2>3. CASE \E link \in BOOLEAN : AcceptOpens(ui, link)
    BY <1>0, <2>3, AcceptOpensStep
  <2> QED
    BY <1>3, <2>1, <2>2, <2>3 DEF OpenAddress
<1>4. CASE FollowLink
  <2>1. PICK path \in Menu(ui.menu) :
          Show(IF ~IsAuthenticated(ui) THEN LoginMounted(ui, FALSE)
               ELSE [ui EXCEPT !.page = IF CanAccess(path, StoredRole(ui)) THEN path ELSE "workspace"])
    BY <1>4 DEF FollowLink
  <2>2. CASE ~IsAuthenticated(ui)
    BY <1>0, <2>1, <2>2, LoadedUi, SessionShow
  <2>3. CASE IsAuthenticated(ui)
    <3> DEFINE page == IF CanAccess(path, StoredRole(ui)) THEN path ELSE "workspace"
               u == [ui EXCEPT !.page = page]
    <3>1. page \in {"workspace", "admin"} /\ (page = "admin" => CanAccess("admin", StoredRole(ui)))
      BY DEF Menu, Guards
    <3>2. Show(u)
      BY <2>1, <2>3
    <3> HIDE DEF page
    <3>3. /\ u \in SessionUi /\ u.busy = ui.busy /\ u.page = page
          /\ u.token = ui.token /\ u.user = ui.user
      BY <1>0, <3>1 DEF SessionUi
    <3> HIDE DEF u
    <3>4. Consistent(u) /\ StoredRole(u) = StoredRole(ui)
      BY <1>0, <3>3 DEF Consistent, StoredRole
    <3>5. Fits(u)
      BY <3>1, <3>3, <3>4 DEF Fits, Guarded
    <3> QED
      BY <3>2, <3>3, <3>5, SessionShow
  <2> QED
    BY <2>2, <2>3
<1> QED
  BY <1>1, <1>2, <1>3, <1>4

LEMMA DashboardStep ==
  ASSUME SessionInv, AskData \/ DataArrives \/ AcceptArrives \/ Logout \/ LogoutArrives
  PROVE  SessionInv'
<1>0. {"auth", "me", "data", "leave", "accept"} = SessionKinds
  BY DEF SessionKinds
<1>1. ASSUME NEW kind \in {"data", "leave"}, NEW arg,
             net' = Sending(net, kind, {}, arg), UNCHANGED <<ui, srv>>
      PROVE  SessionInv'
  <2>1. SessionRequest(kind, Request({}, arg))
    BY RequestFields DEF SessionRequest
  <2> QED
    BY <1>0, <1>1, <2>1, SessionAsk
<1>2. ASSUME NEW kind \in {"data", "accept"}, NEW q \in Answers("session", kind),
             Take(kind, q, ui) \/ Unauthorized(kind, q)
      PROVE  SessionInv'
  BY <1>0, <1>2, SessionAnswers, SessionTakes, UnauthorizedStep DEF SessionInv
<1>3. CASE AskData \/ Logout
  BY <1>1, <1>3 DEF AskData, Logout
<1>4. CASE DataArrives
  BY <1>2, <1>4 DEF DataArrives
<1>5. CASE AcceptArrives
  <2>1. ui' = DashboardLoaded(ui) /\ net' = NoRequests /\ UNCHANGED srv => SessionInv'
    BY LoadedUi, LoadStep DEF DashboardLoaded, SessionInv, Fits
  <2> QED
    BY <1>2, <1>5, <2>1 DEF AcceptArrives
<1>6. CASE LogoutArrives
  <2>1. PICK q \in Answers("session", "leave") :
          Take("leave", q, [ClearAuth(ui) EXCEPT !.justOut = TRUE, !.loading = "login"])
    BY <1>6 DEF LogoutArrives
  <2> DEFINE u == [ClearAuth(ui) EXCEPT !.justOut = TRUE, !.loading = "login"]
  <2>2. Fits(u) /\ u.busy = ui.busy
    BY SignedOutUi, LeavingUi DEF SessionInv, Fits
  <2> HIDE DEF u
  <2> QED
    BY <1>0, <2>1, <2>2, SessionAnswers, SessionTakes DEF u
<1> QED
  BY <1>3, <1>4, <1>5, <1>6

LEMMA SessionInvNext ==
  ASSUME SessionInv, [SessionNext \/ Discard \/ Fail]_vars
  PROVE  SessionInv'
<1>1. CASE UNCHANGED vars
  BY <1>1 DEF SessionInv, ControlsEnd, ControlsEndBut, vars
<1>2. CASE TokensExpire
  <2>1. srv' \in [generation: [People -> Nat]]
    BY <1>2 DEF TokensExpire, SessionInv
  <2> QED
    BY <1>2, <2>1 DEF TokensExpire, SessionInv, ControlsEnd, ControlsEndBut
<1>3. CASE Discard
  <2>0. PICK kind \in SessionKinds : \E q \in net[kind] : ~q.live /\ net' = Taking(net, kind, q)
    BY <1>3, DiscardedRequest DEF SessionInv, SessionRequests
  <2>1. PICK q \in net[kind] : ~q.live /\ net' = Taking(net, kind, q)
    BY <2>0
  <2>2. UNCHANGED <<ui, srv>>
    BY <1>3, DiscardedRequest DEF SessionInv, SessionRequests
  <2>3. SessionRequests(net') /\ ControlsEnd'
    BY <2>1, <2>2, SessionTaking, TakenEnds DEF SessionInv, SessionRequests
  <2> QED
    BY <2>2, <2>3 DEF SessionInv
<1>4. CASE Fail
  <2>0. PICK kind \in SessionKinds : \E q \in net[kind] : net' = Executed(net, kind, q, Failed)
    BY <1>4, FailedRequest DEF SessionInv, SessionRequests
  <2>1. PICK q \in net[kind] : net' = Executed(net, kind, q, Failed)
    BY <2>0
  <2>2. UNCHANGED <<ui, srv>>
    BY <1>4, FailedRequest DEF SessionInv, SessionRequests
  <2>3. Serve(kind, q, srv, Failed)
    BY <2>1, <2>2 DEF Serve
  <2> QED
    BY <2>3, SessionServed
<1> QED
  BY <1>1, <1>2, <1>3, <1>4, LoadSessionStep, LoginStep, AuthArrivesStep, MeArrivesStep, ServeSessionStep, PageStep,
     DashboardStep DEF SessionNext

-----------------------------------------------------------------------------
(* The scraper page of the dashboard *)

IsScraperUi(u) ==
  u \in [at: {"scraper"}, scenario: {u.scenario}, busy: {u.busy}, groups: {u.groups},
         group: {u.group}, detail: {u.detail}, loading: BOOLEAN, tab: {u.tab}, page: {u.page},
         listed: {u.listed}, open: {u.open}, messages: {u.messages}, job: {u.job},
         timer: BOOLEAN, leads: {u.leads}]

ScrapeStatuses == {"queued", "pending", "running", "completed", "failed"}

IsScraperSrv(s) == s \in [scrapes: Seq(ScrapeStatuses), leads: {s.leads}]

ScraperRequest(kind, q) ==
  /\ kind = "scrape" => q.ops = {"scrape"}
  /\ kind # "scrape" => "scrape" \notin q.ops
  /\ kind \in {"detail", "status", "mark"} => q.ops = {}

ScraperRequests(n) ==
  /\ IsNet(n, ScraperKinds)
  /\ \A kind \in ScraperKinds : \A q \in n[kind] : ScraperRequest(kind, q)

(***************************************************************************)
(* Why is the job shown the last one?  While a scrape is being started     *)
(* there is no job to show and nothing to poll, only one is started at a   *)
(* time, and the polls that are not cancelled ask for the job shown.       *)
(***************************************************************************)
Starting(u, s, n) ==
  /\ n["scrape"] # {} => "scrape" \in u.busy /\ u.job = None
  /\ \A q, r \in n["scrape"] : q = r
  /\ \A q \in n["scrape"] : q.ans \notin {None, Failed} => q.ans.id = Len(s.scrapes)

Polling(u, n) ==
  /\ u.timer => u.job # None
  /\ \A q \in n["status"] : /\ q.live => u.job # None /\ q.arg = u.job.id
                            /\ q.ans \notin {None, Failed} => q.ans.id = q.arg

Latest(u, s) == u.job # None => u.job.id = Len(s.scrapes)

ScraperInv ==
  /\ IsScraperUi(ui) /\ IsScraperSrv(srv) /\ ScraperRequests(net)
  /\ Starting(ui, srv, net) /\ Polling(ui, net) /\ Latest(ui, srv)
  /\ ControlsEnd

LEMMA ScraperSending ==
  ASSUME NEW n, ScraperRequests(n), NEW kind \in ScraperKinds, NEW ops, NEW arg,
         ScraperRequest(kind, Request(ops, arg))
  PROVE  /\ ScraperRequests(Sending(n, kind, ops, arg))
         /\ Sending(n, kind, ops, arg)[kind] = n[kind] \cup {Request(ops, arg)}
         /\ \A k \in ScraperKinds \ {kind} : Sending(n, kind, ops, arg)[k] = n[k]
<1> DEFINE m == Sending(n, kind, ops, arg)
<1>1. /\ IsNet(m, ScraperKinds) /\ m[kind] = n[kind] \cup {Request(ops, arg)}
      /\ \A k \in ScraperKinds \ {kind} : m[k] = n[k]
  BY SendingNet DEF ScraperRequests
<1> HIDE DEF m
<1>2. ScraperRequests(m)
  BY <1>1 DEF ScraperRequests
<1> QED
  BY <1>1, <1>2 DEF m

LEMMA ScraperExecuted ==
  ASSUME NEW n, ScraperRequests(n), NEW kind \in ScraperKinds, NEW q \in n[kind], NEW ans
  PROVE  LET r == [q EXCEPT !.ans = ans]
         IN  /\ r.ops = q.ops /\ r.arg = q.arg /\ r.ans = ans /\ r.live = q.live
             /\ ScraperRequests(Executed(n, kind, q, ans))
             /\ Executed(n, kind, q, ans)[kind] = (n[kind] \ {q}) \cup {r}
             /\ \A k \in ScraperKinds \ {kind} : Executed(n, kind, q, ans)[k] = n[k]
<1> DEFINE m == Executed(n, kind, q, ans)
           r == [q EXCEPT !.ans = ans]
<1>1. /\ IsNet(m, ScraperKinds) /\ m[kind] = (n[kind] \ {q}) \cup {r}
      /\ \A k \in ScraperKinds \ {kind} : m[k] = n[k]
  BY ExecutedNet DEF ScraperRequests
<1>2. r.ops = q.ops /\ r.arg = q.arg /\ r.ans = ans /\ r.live = q.live
  BY AnsweredFields DEF ScraperRequests, IsNet
<1> HIDE DEF m, r
<1>3. ScraperRequest(kind, r)
  BY <1>2 DEF ScraperRequests, ScraperRequest
<1>4. ScraperRequests(m)
  BY <1>1, <1>3 DEF ScraperRequests
<1> QED
  BY <1>1, <1>2, <1>4 DEF m, r

LEMMA ScraperTaking ==
  ASSUME NEW n, ScraperRequests(n), NEW kind \in ScraperKinds, NEW q
  PROVE  /\ ScraperRequests(Taking(n, kind, q))
         /\ Taking(n, kind, q)[kind] = n[kind] \ {q}
         /\ \A k \in ScraperKinds \ {kind} : Taking(n, kind, q)[k] = n[k]
<1> DEFINE m == Taking(n, kind, q)
<1>1. /\ IsNet(m, ScraperKinds) /\ m[kind] = n[kind] \ {q}
      /\ \A k \in ScraperKinds \ {kind} : m[k] = n[k]
  BY TakingNet DEF ScraperRequests
<1> HIDE DEF m
<1>2. ScraperRequests(m)
  BY <1>1 DEF ScraperRequests
<1> QED
  BY <1>1, <1>2 DEF m

\* Only requests that are a step of no operation are cancelled.
LEMMA ScraperCancelled ==
  ASSUME NEW n, ScraperRequests(n), NEW kind \in {"detail", "status"}
  PROVE  /\ ScraperRequests(Cancelled(n, kind))
         /\ \A q \in Cancelled(n, kind)[kind] : ~q.live /\ \E r \in n[kind] : q.arg = r.arg /\ q.ans = r.ans
         /\ \A k \in ScraperKinds \ {kind} : Cancelled(n, kind)[k] = n[k]
         /\ \A op : InFlight(n, op) => InFlight(Cancelled(n, kind), op)
<1> DEFINE m == Cancelled(n, kind)
<1>0. kind \in ScraperKinds
  BY DEF ScraperKinds
<1>1. /\ IsNet(m, ScraperKinds) /\ m[kind] = {[q EXCEPT !.live = FALSE] : q \in n[kind]}
      /\ \A k \in ScraperKinds \ {kind} : m[k] = n[k]
      /\ \A op : InFlight(n, op) => InFlight(m, op) \/ \E q \in n[kind] : q.live /\ op \in q.ops
  BY <1>0, CancelledNet DEF ScraperRequests
<1>2. \A q \in n[kind] : IsRequest(q) /\ q.ops = {}
  BY <1>0 DEF ScraperRequests, ScraperRequest, IsNet
<1> HIDE DEF m
<1>3. ASSUME NEW q \in m[kind]
      PROVE  /\ ~q.live /\ q.ops = {}
             /\ \E r \in n[kind] : q.arg = r.arg /\ q.ans = r.ans
  <2>1. PICK r \in n[kind] : q = [r EXCEPT !.live = FALSE]
    BY <1>1
  <2>2. ~q.live /\ q.ops = r.ops /\ q.arg = r.arg /\ q.ans = r.ans
    BY <1>2, <2>1, CancelledFields
  <2> QED
    BY <1>2, <2>2
<1>4. ScraperRequests(m)
  BY <1>1, <1>3 DEF ScraperRequests, ScraperRequest
<1> QED
  BY <1>1, <1>2, <1>3, <1>4 DEF m

LEMMA ScraperFlags ==
  ASSUME NEW u, IsScraperUi(u), NEW S
  PROVE  /\ IsScraperUi(Busy(u, S)) /\ Busy(u, S).busy = u.busy \cup S
         /\ Busy(u, S).job = u.job /\ Busy(u, S).timer = u.timer
         /\ IsScraperUi(Free(u, S)) /\ Free(u, S).busy = u.busy \ S
         /\ Free(u, S).job = u.job /\ Free(u, S).timer = u.timer
  BY DEF IsScraperUi, Busy, Free

\* What an answer about a scrape makes of the page.
JobShown(u, job) == [u EXCEPT !.job = job, !.timer = Polled(job.status)]

LEMMA JobShownUi ==
  ASSUME NEW u, IsScraperUi(u), NEW job
  PROVE  IsScraperUi(JobShown(u, job)) /\ JobShown(u, job).job = job /\ JobShown(u, job).busy = u.busy
<1> DEFINE polled == Polled(job.status)
<1>1. polled \in BOOLEAN
  BY DEF Polled
<1>2. JobShown(u, job) = [u EXCEPT !.job = job, !.timer = polled]
  BY DEF JobShown
<1> HIDE DEF polled
<1> QED
  BY <1>1, <1>2 DEF IsScraperUi

(***************************************************************************)
(* Steps that have nothing to do with the scrape.                          *)
(***************************************************************************)
LEMMA ScraperKept ==
  ASSUME ScraperInv, IsScraperUi(ui'), IsScraperSrv(srv'), ScraperRequests(net'), ControlsEnd',
         ui'.job = ui.job, ui'.timer = ui.timer, "scrape" \in ui.busy => "scrape" \in ui'.busy,
         Len(srv'.scrapes) = Len(srv.scrapes),
         net'["scrape"] = net["scrape"], net'["status"] = net["status"]
  PROVE  ScraperInv'
  BY DEF ScraperInv, Starting, Polling, Latest

Elsewhere == ScraperKinds \ {"scrape", "status"}

LEMMA ScraperAsk ==
  ASSUME ScraperInv, UNCHANGED srv, NEW kind \in Elsewhere, NEW ops, NEW arg, NEW u, IsScraperUi(u),
         u.job = ui.job, u.timer = ui.timer, u.busy = ui.busy, "scrape" \notin ops,
         kind \in {"detail", "mark"} => ops = {},
         ui' = Busy(u, ops) \/ ui' = u, net' = Sending(net, kind, ops, arg)
  PROVE  ScraperInv'
<1>0. kind \in ScraperKinds /\ {"scrape", "status"} \subseteq ScraperKinds \ {kind}
  BY DEF Elsewhere, ScraperKinds
<1>1. ScraperRequest(kind, Request(ops, arg))
  BY RequestFields DEF ScraperRequest, Elsewhere
<1>2. /\ ScraperRequests(net')
      /\ net'["scrape"] = net["scrape"] /\ net'["status"] = net["status"]
  BY <1>0, <1>1, ScraperSending DEF ScraperInv
<1>3. /\ IsScraperUi(ui') /\ ui'.job = ui.job /\ ui'.timer = ui.timer
      /\ ui.busy \subseteq ui'.busy /\ ui'.busy \subseteq ui.busy \cup ops
  BY ScraperFlags
<1>4. ControlsEnd'
  BY <1>0, <1>3, SentEnds DEF ScraperInv, ScraperRequests
<1> QED
  BY <1>2, <1>3, <1>4, ScraperKept DEF ScraperInv

LEMMA ScraperServe ==
  ASSUME ScraperInv, NEW kind \in Elsewhere, NEW q \in net[kind], NEW s, NEW ans,
         IsScraperSrv(s), Len(s.scrapes) = Len(srv.scrapes), Serve(kind, q, s, ans)
  PROVE  ScraperInv'
<1>0. kind \in ScraperKinds /\ {"scrape", "status"} \subseteq ScraperKinds \ {kind}
  BY DEF Elsewhere, ScraperKinds
<1>1. ui' = ui /\ srv' = s /\ net' = Executed(net, kind, q, ans)
  BY DEF Serve
<1>2. /\ ScraperRequests(net')
      /\ net'["scrape"] = net["scrape"] /\ net'["status"] = net["status"]
  BY <1>0, <1>1, ScraperExecuted DEF ScraperInv
<1>3. ControlsEnd'
  BY <1>0, <1>1, ExecutedEnds DEF ScraperInv, ScraperRequests
<1> QED
  BY <1>1, <1>2, <1>3, ScraperKept DEF ScraperInv

LEMMA ScraperTake ==
  ASSUME ScraperInv, NEW kind \in Elsewhere, NEW q \in net[kind], NEW u, IsScraperUi(u),
         u.job = ui.job, u.timer = ui.timer, u.busy = ui.busy, Take(kind, q, u)
  PROVE  ScraperInv'
<1>0. kind \in ScraperKinds /\ {"scrape", "status"} \subseteq ScraperKinds \ {kind}
  BY DEF Elsewhere, ScraperKinds
<1>1. ui' = Free(u, q.ops) /\ srv' = srv /\ net' = Taking(net, kind, q)
  BY DEF Take
<1>2. /\ ScraperRequests(net')
      /\ net'["scrape"] = net["scrape"] /\ net'["status"] = net["status"]
  BY <1>0, <1>1, ScraperTaking DEF ScraperInv
<1>3. "scrape" \notin q.ops
  BY <1>0 DEF ScraperInv, ScraperRequests, ScraperRequest
<1>4. IsScraperUi(ui') /\ ui'.job = ui.job /\ ui'.timer = ui.timer /\ ui'.busy = ui.busy \ q.ops
  BY <1>1, ScraperFlags
<1>5. ControlsEnd'
  BY <1>0, <1>1, <1>4, TakenEnds DEF ScraperInv, ScraperRequests
<1> QED
  BY <1>1, <1>2, <1>3, <1>4, <1>5, ScraperKept DEF ScraperInv

LEMMA ScraperAnswers ==
  ASSUME ScraperInv, NEW kind \in ScraperKinds
  PROVE  /\ \A q \in Asked("scraper", kind) : q \in net[kind] /\ q.ans = None
         /\ \A q \in Answers("scraper", kind) : q \in net[kind] /\ q.ans # None /\ q.live
  BY DEF Asked, Answers, Answered

\* Listed begins with a net that has what the present one has elsewhere.
LEMMA ListedStep ==
  ASSUME ScraperInv, UNCHANGED srv, NEW u, IsScraperUi(u), u.job = ui.job, u.timer = ui.timer,
         u.busy = ui.busy, NEW n, ScraperRequests(n),
         n["scrape"] = net["scrape"], n["status"] = net["status"],
         \A op : InFlight(net, op) => InFlight(n, op),
         Listed(u, n)
  PROVE  ScraperInv'
<1>0. "conversations" \in ScraperKinds /\ {"scrape", "status"} \subseteq ScraperKinds \ {"conversations"}
  BY DEF ScraperKinds
<1>1. \A op \in ui.busy : InFlight(n, op)
  BY ControlsInFlight DEF ScraperInv
<1>2. CASE ui' = Busy(u, {"list"}) /\ net' = ListAsked(n, u, 1)
  <2> DEFINE arg == [group |-> u.group, page |-> 1]
  <2>1. net' = Sending(n, "conversations", {"list"}, arg)
    BY <1>2 DEF ListAsked
  <2> HIDE DEF arg
  <2>2. ScraperRequest("conversations", Request({"list"}, arg))
    BY RequestFields DEF ScraperRequest
  <2>3. /\ ScraperRequests(net')
        /\ net'["scrape"] = net["scrape"] /\ net'["status"] = net["status"]
    BY <1>0, <2>1, <2>2, ScraperSending
  <2>4. \A op : InFlight(n, op) \/ op \in {"list"} => InFlight(net', op)
    BY <1>0, <2>1, SendingNet DEF ScraperRequests
  <2>5. /\ IsScraperUi(ui') /\ ui'.job = ui.job /\ ui'.timer = ui.timer
        /\ ui'.busy = ui.busy \cup {"list"}
    BY <1>2, ScraperFlags
  <2>6. ControlsEnd'
    BY <1>1, <2>4, <2>5, ControlsInFlightNext
  <2> QED
    BY <2>3, <2>5, <2>6, ScraperKept DEF ScraperInv
<1>3. CASE ui' = [u EXCEPT !.listed = {}, !.page = 1] /\ net' = n
  <2>1. /\ IsScraperUi(ui') /\ ui'.job = ui.job /\ ui'.timer = ui.timer /\ ui'.busy = ui.busy
    BY <1>3 DEF IsScraperUi
  <2>2. ControlsEnd'
    BY <1>1, <1>3, <2>1, ControlsInFlightNext
  <2> QED
    BY <1>3, <2>1, <2>2, ScraperKept DEF ScraperInv
<1> QED
  BY <1>2, <1>3 DEF Listed

LEMMA ReadingStep ==
  ASSUME ScraperInv, SelectGroup \/ SelectTab \/ TurnConversations \/ ToggleConversation
  PROVE  ScraperInv'
<1>0. {"detail", "conversations", "messages"} \subseteq Elsewhere
  BY DEF Elsewhere, ScraperKinds
<1>1. CASE SelectGroup
  <2> DEFINE kept == Cancelled(net, "detail")
             opened(g) == Sending(kept, "detail", {}, g)
  <2>1. /\ ScraperRequests(kept) /\ kept["scrape"] = net["scrape"] /\ kept["status"] = net["status"]
        /\ \A op : InFlight(net, op) => InFlight(kept, op)
    BY ScraperCancelled DEF ScraperInv, ScraperKinds
  <2>2. ASSUME NEW g
        PROVE  /\ ScraperRequests(opened(g))
               /\ opened(g)["scrape"] = net["scrape"] /\ opened(g)["status"] = net["status"]
               /\ \A op : InFlight(net, op) => InFlight(opened(g), op)
    <3>1. "detail" \in ScraperKinds /\ ScraperRequest("detail", Request({}, g))
      BY RequestFields DEF ScraperKinds, ScraperRequest
    <3> HIDE DEF kept
    <3>2. \A op : InFlight(kept, op) => InFlight(opened(g), op)
      BY <2>1, <3>1, SendingNet DEF ScraperRequests
    <3> QED
      BY <2>1, <3>1, <3>2, ScraperSending DEF ScraperKinds
  <2> DEFINE closed == [ui EXCEPT !.group = None, !.detail = None]
             chosen(g) == [ui EXCEPT !.group = g, !.loading = TRUE]
  <2>3. /\ IsScraperUi(closed) /\ closed.job = ui.job /\ closed.timer = ui.timer
        /\ closed.busy = ui.busy
    BY DEF ScraperInv, IsScraperUi
  <2>4. ASSUME NEW g
        PROVE  /\ IsScraperUi(chosen(g)) /\ chosen(g).job = ui.job /\ chosen(g).timer = ui.timer
               /\ chosen(g).busy = ui.busy
    BY DEF ScraperInv, IsScraperUi
  <2>5. UNCHANGED srv /\ (Listed(closed, kept) \/ \E g : Listed(chosen(g), opened(g)))
    BY <1>1 DEF SelectGroup
  <2> HIDE DEF kept, opened, closed, chosen
  <2> QED
    BY <2>1, <2>2, <2>3, <2>4, <2>5, ListedStep
<1>2. CASE SelectTab
  <2>1. PICK tab : Listed([ui EXCEPT !.tab = tab], net)
    BY <1>2 DEF SelectTab
  <2> DEFINE u == [ui EXCEPT !.tab = tab]
  <2>2. IsScraperUi(u) /\ u.job = ui.job /\ u.timer = ui.timer /\ u.busy = ui.busy
    BY DEF ScraperInv, IsScraperUi
  <2>3. Listed(u, net) /\ UNCHANGED srv
    BY <1>2, <2>1 DEF SelectTab
  <2> HIDE DEF u
  <2> QED
    BY <2>2, <2>3, ListedStep DEF ScraperInv
<1>3. CASE TurnConversations
  <2>1. /\ ui' = Busy(ui, {"list"}) /\ UNCHANGED srv
        /\ net' = Sending(net, "conversations", {"list"}, [group |-> ui.group, page |-> 3 - ui.page])
    BY <1>3 DEF TurnConversations, ListAsked
  <2> QED
    BY <1>0, <2>1, ScraperAsk DEF ScraperInv
<1>4. CASE ToggleConversation
  <2> DEFINE u == [ui EXCEPT !.open = None, !.messages = None]
             v(c) == [ui EXCEPT !.open = c, !.messages = None]
  <2>1. IsScraperUi(u) /\ u.job = ui.job /\ u.timer = ui.timer /\ u.busy = ui.busy
    BY DEF ScraperInv, IsScraperUi
  <2>2. ASSUME NEW c
        PROVE  IsScraperUi(v(c)) /\ v(c).job = ui.job /\ v(c).timer = ui.timer /\ v(c).busy = ui.busy
    BY DEF ScraperInv, IsScraperUi
  <2>3. Show(u) \/ \E c : Ask(v(c), "messages", "messages", c)
    BY <1>4 DEF ToggleConversation
  <2> HIDE DEF u, v
  <2>4. CASE Show(u)
    BY <2>1, <2>4, ScraperKept, ShownEnds DEF Show, ScraperInv
  <2>5. ASSUME NEW c, Ask(v(c), "messages", "messages", c) PROVE ScraperInv'
    BY <1>0, <2>2, <2>5, ScraperAsk DEF Ask
  <2> QED
    BY <2>3, <2>4, <2>5
<1> QED
  BY <1>1, <1>2, <1>3, <1>4

LEMMA LeadsStep ==
  ASSUME ScraperInv, LoadScrapedLeads \/ ExtractLeads \/ ExtractArrives \/ MarkLead
  PROVE  ScraperInv'
<1>0. {"leads", "extract", "mark"} \subseteq Elsewhere
  BY DEF Elsewhere, ScraperKinds
<1>1. CASE LoadScrapedLeads
  <2>1. /\ ui' = Busy(ui, {"leads"}) /\ UNCHANGED srv
        /\ net' = Sending(net, "leads", {} \cup {"leads"}, ui.group)
    BY <1>1 DEF LoadScrapedLeads, LeadsListed
  <2>2. {} \cup {"leads"} = {"leads"}
    OBVIOUS
  <2> QED
    BY <1>0, <2>1, <2>2, ScraperAsk DEF ScraperInv
<1>2. CASE ExtractLeads
  BY <1>0, <1>2, ScraperAsk DEF ExtractLeads, Ask, ScraperInv
<1>3. CASE MarkLead
  <2>1. PICK arg : net' = Sending(net, "mark", {}, arg)
    BY <1>3 DEF MarkLead
  <2> QED
    BY <1>0, <1>3, <2>1, ScraperAsk DEF MarkLead, ScraperInv
<1>4. CASE ExtractArrives
  <2>0. /\ {"leads", "extract"} \subseteq ScraperKinds
        /\ {"scrape", "status"} \subseteq (ScraperKinds \ {"leads"}) \cap (ScraperKinds \ {"extract"})
    BY DEF ScraperKinds
  <2>1. PICK q \in Answers("scraper", "extract") :
          IF Refused(q) THEN Take("extract", q, ui)
          ELSE /\ ui' = Busy(ui, {"leads"})
               /\ net' = LeadsListed(Taking(net, "extract", q), [ui EXCEPT !.group = q.arg], q.ops)
               /\ UNCHANGED srv
    BY <1>4 DEF ExtractArrives
  <2>2. q \in net["extract"]
    BY <2>0, ScraperAnswers
  <2>3. CASE Refused(q)
    BY <1>0, <2>1, <2>2, <2>3, ScraperTake DEF ScraperInv
  <2>4. CASE ~Refused(q)
    <3> DEFINE n == Taking(net, "extract", q)
               ops == q.ops \cup {"leads"}
    <3>1. PICK arg : net' = Sending(n, "leads", ops, arg)
      BY <2>1, <2>4 DEF LeadsListed
    <3>2. "scrape" \notin ops
      BY <2>0, <2>2 DEF ScraperInv, ScraperRequests, ScraperRequest
    <3>3. /\ ScraperRequests(n) /\ n["scrape"] = net["scrape"] /\ n["status"] = net["status"]
      BY <2>0, ScraperTaking DEF ScraperInv
    <3> HIDE DEF n
    <3>4. ScraperRequest("leads", Request(ops, arg))
      BY <3>2, RequestFields DEF ScraperRequest
    <3>5. ScraperRequests(net') /\ net'["scrape"] = net["scrape"] /\ net'["status"] = net["status"]
      BY <2>0, <3>1, <3>3, <3>4, ScraperSending
    <3>6. /\ IsScraperUi(ui') /\ ui'.job = ui.job /\ ui'.timer = ui.timer
          /\ ui'.busy = ui.busy \cup {"leads"} /\ srv' = srv
      BY <2>1, <2>4, ScraperFlags DEF ScraperInv
    <3>7. ControlsEnd'
      BY <2>0, <3>1, <3>6, FurtherEnds DEF n, ScraperInv, ScraperRequests
    <3> QED
      BY <3>5, <3>6, <3>7, ScraperKept DEF ScraperInv
  <2> QED
    BY <2>3, <2>4
<1> QED
  BY <1>1, <1>2, <1>3, <1>4

\* What the server executes besides a scrape.
LEMMA ScraperServeStep ==
  ASSUME ScraperInv,
         \/ ServeScraped \/ ServeDetail \/ ServeConversations \/ ServeMessages
         \/ ServeScrapedLeads \/ ServeExtract \/ ServeMarkLead
  PROVE  ScraperInv'
<1>0. {"groups", "detail", "conversations", "messages", "leads", "extract", "mark"} \subseteq Elsewhere
  BY DEF Elsewhere, ScraperKinds
<1>1. ASSUME NEW kind \in Elsewhere, NEW q \in Asked("scraper", kind), NEW ans, Serve(kind, q, srv, ans)
      PROVE  ScraperInv'
  <2>1. kind \in ScraperKinds
    BY DEF Elsewhere
  <2>2. q \in net[kind]
    BY <2>1, ScraperAnswers
  <2> QED
    BY <1>1, <2>2, ScraperServe DEF ScraperInv
<1>2. ASSUME NEW kind \in Elsewhere, NEW q \in Asked("scraper", kind), NEW leads, NEW ans,
             Serve(kind, q, [srv EXCEPT !.leads = leads], ans)
      PROVE  ScraperInv'
  <2> DEFINE s == [srv EXCEPT !.leads = leads]
  <2>1. IsScraperSrv(s) /\ s.scrapes = srv.scrapes
    BY DEF ScraperInv, IsScraperSrv
  <2>2. q \in net[kind]
    BY ScraperAnswers DEF Elsewhere
  <2>3. Serve(kind, q, s, ans)
    BY <1>2
  <2> HIDE DEF s
  <2> QED
    BY <2>1, <2>2, <2>3, ScraperServe
<1>3. CASE ServeExtract
  BY <1>0, <1>2, <1>3 DEF ServeExtract
<1>4. CASE ServeMarkLead
  BY <1>0, <1>2, <1>4 DEF ServeMarkLead
<1>5. CASE \/ ServeScraped \/ ServeDetail \/ ServeConversations \/ ServeMessages \/ ServeScrapedLeads
  BY <1>0, <1>1, <1>5 DEF ServeScraped, ServeDetail, ServeConversations, ServeMessages, ServeScrapedLeads
<1> QED
  BY <1>3, <1>4, <1>5

LEMMA ScraperTakeStep ==
  ASSUME ScraperInv,
         \/ ScrapedArrive \/ DetailArrives \/ ConversationsArrive \/ MessagesArrive
         \/ ScrapedLeadsArrive \/ LeadMarked
  PROVE  ScraperInv'
<1>0. {"groups", "detail", "conversations", "messages", "leads", "mark"} \subseteq Elsewhere
  BY DEF Elsewhere, ScraperKinds
<1>1. ASSUME NEW kind \in Elsewhere, NEW q \in Answers("scraper", kind), NEW u, IsScraperUi(u),
             u.job = ui.job, u.timer = ui.timer, u.busy = ui.busy, Take(kind, q, u)
      PROVE  ScraperInv'
  <2>1. q \in net[kind]
    BY ScraperAnswers DEF Elsewhere
  <2> QED
    BY <1>1, <2>1, ScraperTake
<1>2. IsScraperUi(ui)
  BY DEF ScraperInv
<1>3. CASE ScrapedArrive
  <2>1. \A S : LET u == [ui EXCEPT !.groups = S]
               IN  IsScraperUi(u) /\ u.job = ui.job /\ u.timer = ui.timer /\ u.busy = ui.busy
    BY <1>2 DEF IsScraperUi
  <2> QED
    BY <1>0, <1>1, <1>2, <1>3, <2>1 DEF ScrapedArrive
<1>4. CASE DetailArrives
  <2>1. \A d : LET u == [ui EXCEPT !.detail = d, !.loading = FALSE]
               IN  IsScraperUi(u) /\ u.job = ui.job /\ u.timer = ui.timer /\ u.busy = ui.busy
    BY <1>2 DEF IsScraperUi
  <2>2. PICK q \in Answers("scraper", "detail") :
          Take("detail", q, [ui EXCEPT !.detail = IF Refused(q) THEN @ ELSE q.ans, !.loading = FALSE])
    BY <1>4 DEF DetailArrives
  <2> QED
    BY <1>0, <1>1, <2>1, <2>2
<1>5. CASE ConversationsArrive
  <2>1. \A S, page : LET u == [ui EXCEPT !.listed = S, !.page = page]
                     IN  IsScraperUi(u) /\ u.job = ui.job /\ u.timer = ui.timer /\ u.busy = ui.busy
    BY <1>2 DEF IsScraperUi
  <2> QED
    BY <1>0, <1>1, <1>2, <1>5, <2>1 DEF ConversationsArrive
<1>6. CASE MessagesArrive
  <2>1. \A m : LET u == [ui EXCEPT !.messages = m]
               IN  IsScraperUi(u) /\ u.job = ui.job /\ u.timer = ui.timer /\ u.busy = ui.busy
    BY <1>2 DEF IsScraperUi
  <2> QED
    BY <1>0, <1>1, <1>2, <1>6, <2>1 DEF MessagesArrive
<1>7. CASE ScrapedLeadsArrive \/ LeadMarked
  <2>1. \A S : LET u == [ui EXCEPT !.leads = S]
               IN  IsScraperUi(u) /\ u.job = ui.job /\ u.timer = ui.timer /\ u.busy = ui.busy
    BY <1>2 DEF IsScraperUi
  <2> QED
    BY <1>0, <1>1, <1>2, <1>7, <2>1 DEF ScrapedLeadsArrive, LeadMarked
<1> QED
  BY <1>3, <1>4, <1>5, <1>6, <1>7

-----------------------------------------------------------------------------
(* The scrape *)

\* A scrape is started only when none is being started.
LEMMA StartScrapeStep ==
  ASSUME ScraperInv, StartScrape
  PROVE  ScraperInv'
<1> DEFINE n == Cancelled(net, "status")
<1>0. {"scrape", "status"} \subseteq ScraperKinds /\ "scrape" \in ScraperKinds \ {"status"}
      /\ "status" \in ScraperKinds \ {"scrape"}
  BY DEF ScraperKinds
<1>1. /\ ui' = Busy([ui EXCEPT !.job = None, !.timer = FALSE], {"scrape"}) /\ srv' = srv
      /\ net' = Sending(n, "scrape", {"scrape"}, ui.group) /\ "scrape" \notin ui.busy
  BY DEF StartScrape
<1>2. /\ ScraperRequests(n) /\ n["scrape"] = net["scrape"]
      /\ \A q \in n["status"] : ~q.live /\ \E r \in net["status"] : q.arg = r.arg /\ q.ans = r.ans
      /\ \A op : InFlight(net, op) => InFlight(n, op)
  BY <1>0, ScraperCancelled DEF ScraperInv
<1> HIDE DEF n
<1>3. n["scrape"] = {}
  BY <1>1, <1>2 DEF ScraperInv, Starting
<1>4. ScraperRequest("scrape", Request({"scrape"}, ui.group))
  BY RequestFields DEF ScraperRequest
<1>5. /\ ScraperRequests(net') /\ net'["scrape"] = {Request({"scrape"}, ui.group)}
      /\ net'["status"] = n["status"]
  BY <1>0, <1>1, <1>2, <1>3, <1>4, ScraperSending
<1>6. /\ IsScraperUi(ui') /\ ui'.job = None /\ ui'.timer = FALSE /\ ui'.busy = ui.busy \cup {"scrape"}
  <2> DEFINE u == [ui EXCEPT !.job = None, !.timer = FALSE]
  <2>1. IsScraperUi(u) /\ u.job = None /\ ~u.timer /\ u.busy = ui.busy
    BY DEF ScraperInv, IsScraperUi
  <2>2. ui' = Busy(u, {"scrape"})
    BY <1>1
  <2> HIDE DEF u
  <2> QED
    BY <2>1, <2>2, ScraperFlags
<1>7. ControlsEnd'
  <2>1. \A op \in ui.busy : InFlight(n, op)
    BY <1>2, ControlsInFlight DEF ScraperInv
  <2>2. \A op : InFlight(n, op) \/ op \in {"scrape"} => InFlight(net', op)
    BY <1>0, <1>1, <1>2, SendingNet DEF ScraperRequests
  <2> QED
    BY <1>6, <2>1, <2>2, ControlsInFlightNext
<1>8. Starting(ui', srv', net')
  BY <1>5, <1>6, RequestFields DEF Starting
<1>9. Polling(ui', net')
  BY <1>2, <1>5, <1>6 DEF Polling, ScraperInv
<1> QED
  BY <1>1, <1>5, <1>6, <1>7, <1>8, <1>9 DEF ScraperInv, Latest

LEMMA ServeScrapeStep ==
  ASSUME ScraperInv, ServeScrape
  PROVE  ScraperInv'
<1>0. "scrape" \in ScraperKinds /\ "status" \in ScraperKinds \ {"scrape"}
  BY DEF ScraperKinds
<1> DEFINE s == [srv EXCEPT !.scrapes = Append(@, "queued")]
           ans == [id |-> Len(srv.scrapes) + 1, status |-> "pending"]
<1>1. PICK q \in Asked("scraper", "scrape") : Serve("scrape", q, s, ans)
  BY DEF ServeScrape
<1>2. q \in net["scrape"]
  BY <1>0, ScraperAnswers
<1>3. ui' = ui /\ srv' = s /\ net' = Executed(net, "scrape", q, ans)
  BY <1>1 DEF Serve
<1>4. IsScraperSrv(s) /\ Len(s.scrapes) = Len(srv.scrapes) + 1
  BY DEF ScraperInv, IsScraperSrv, ScrapeStatuses
<1>5. ans.id = Len(srv.scrapes) + 1
  OBVIOUS
<1> HIDE DEF s, ans
<1> DEFINE r == [q EXCEPT !.ans = ans]
<1>6. /\ ScraperRequests(net') /\ net'["scrape"] = (net["scrape"] \ {q}) \cup {r} /\ r.ans = ans
      /\ net'["status"] = net["status"]
  BY <1>0, <1>2, <1>3, ScraperExecuted DEF ScraperInv
<1>7. net["scrape"] = {q} /\ "scrape" \in ui.busy /\ ui.job = None
  BY <1>2 DEF ScraperInv, Starting
<1>8. net'["scrape"] = {r}
  BY <1>6, <1>7
<1> HIDE DEF r
<1>9. Starting(ui', srv', net') /\ Polling(ui', net') /\ Latest(ui', srv')
  BY <1>3, <1>4, <1>5, <1>6, <1>7, <1>8 DEF ScraperInv, Starting, Polling, Latest
<1>10. ControlsEnd'
  BY <1>0, <1>2, <1>3, ExecutedEnds DEF ScraperInv, ScraperRequests
<1> QED
  BY <1>3, <1>4, <1>6, <1>9, <1>10 DEF ScraperInv

LEMMA ScrapeArrivesStep ==
  ASSUME ScraperInv, ScrapeArrives
  PROVE  ScraperInv'
<1>0. "scrape" \in ScraperKinds /\ "status" \in ScraperKinds \ {"scrape"}
  BY DEF ScraperKinds
<1> DEFINE v(q) == JobShown(ui, q.ans)
<1>1. PICK q \in Answers("scraper", "scrape") : Take("scrape", q, IF Refused(q) THEN ui ELSE v(q))
  BY DEF ScrapeArrives, JobShown
<1>2. q \in net["scrape"] /\ q.ans # None /\ q.ops = {"scrape"} /\ net["scrape"] = {q}
      /\ (~Refused(q) => q.ans.id = Len(srv.scrapes)) /\ ui.job = None
  BY <1>0, ScraperAnswers DEF ScraperInv, ScraperRequests, ScraperRequest, Starting, Refused
<1>3. /\ IsScraperUi(v(q)) /\ v(q).job = q.ans /\ v(q).busy = ui.busy
  BY JobShownUi DEF ScraperInv
<1> DEFINE u == IF Refused(q) THEN ui ELSE v(q)
<1>4. /\ IsScraperUi(u) /\ u.busy = ui.busy /\ (u.timer => u.job # None) /\ Latest(u, srv)
  BY <1>2, <1>3 DEF ScraperInv, Polling, Latest
<1>5. ui' = Free(u, q.ops) /\ srv' = srv /\ net' = Taking(net, "scrape", q)
  BY <1>1 DEF Take
<1> HIDE DEF u
<1>6. /\ IsScraperUi(ui') /\ ui'.job = u.job /\ ui'.timer = u.timer /\ ui'.busy = ui.busy \ q.ops
  BY <1>4, <1>5, ScraperFlags
<1>7. ScraperRequests(net') /\ net'["scrape"] = {} /\ net'["status"] = net["status"]
  BY <1>0, <1>2, <1>5, ScraperTaking DEF ScraperInv
<1>8. Starting(ui', srv', net')
  BY <1>7 DEF Starting
<1>9. Polling(ui', net')
  BY <1>2, <1>4, <1>6, <1>7 DEF Polling, ScraperInv
<1>10. ControlsEnd'
  BY <1>0, <1>5, <1>6, TakenEnds DEF ScraperInv, ScraperRequests
<1> QED
  BY <1>4, <1>5, <1>6, <1>7, <1>8, <1>9, <1>10 DEF ScraperInv, Latest

\* A poll asks for the job shown, and a poll of another is not taken.
LEMMA PollStep ==
  ASSUME ScraperInv, PollScrape \/ ServeScrapeStatus \/ ScrapeStatusArrives
  PROVE  ScraperInv'
<1>0. "status" \in ScraperKinds /\ "scrape" \in ScraperKinds \ {"status"}
  BY DEF ScraperKinds
<1>1. CASE PollScrape
  <2> DEFINE r == Request({}, ui.job.id)
  <2>1. /\ ui' = [ui EXCEPT !.timer = FALSE] /\ srv' = srv
        /\ net' = Sending(net, "status", {}, ui.job.id) /\ ui.timer
    BY <1>1 DEF PollScrape
  <2>2. ScraperRequest("status", r)
    BY RequestFields DEF ScraperRequest
  <2>3. /\ ScraperRequests(net') /\ net'["status"] = net["status"] \cup {r}
        /\ net'["scrape"] = net["scrape"]
    BY <1>0, <2>1, <2>2, ScraperSending DEF ScraperInv
  <2>4. r.arg = ui.job.id /\ r.ans = None
    BY RequestFields
  <2>5. IsScraperUi(ui') /\ ui'.job = ui.job /\ ~ui'.timer /\ ui'.busy = ui.busy
    BY <2>1 DEF ScraperInv, IsScraperUi
  <2> HIDE DEF r
  <2>6. Polling(ui', net')
    BY <2>1, <2>3, <2>4, <2>5 DEF ScraperInv, Polling
  <2>7. ControlsEnd'
    BY <1>0, <2>1, <2>5, SentEnds DEF ScraperInv, ScraperRequests
  <2> QED
    BY <2>1, <2>3, <2>5, <2>6, <2>7 DEF ScraperInv, Starting, Latest
<1>2. CASE ServeScrapeStatus
  <2>1. PICK q \in Asked("scraper", "status") :
          Serve("status", q, srv, [id |-> q.arg, status |-> srv.scrapes[q.arg]])
    BY <1>2 DEF ServeScrapeStatus
  <2> DEFINE ans == [id |-> q.arg, status |-> srv.scrapes[q.arg]]
             r == [q EXCEPT !.ans = ans]
  <2>2. ui' = ui /\ srv' = srv /\ net' = Executed(net, "status", q, ans) /\ q \in net["status"]
    BY <1>0, <2>1, ScraperAnswers DEF Serve
  <2>3. ans.id = q.arg
    OBVIOUS
  <2> HIDE DEF ans
  <2>4. /\ ScraperRequests(net') /\ net'["status"] = (net["status"] \ {q}) \cup {r}
        /\ net'["scrape"] = net["scrape"] /\ r.arg = q.arg /\ r.ans = ans /\ r.live = q.live
    BY <1>0, <2>2, ScraperExecuted DEF ScraperInv
  <2> HIDE DEF r
  <2>5. Polling(ui', net')
    BY <2>2, <2>3, <2>4 DEF ScraperInv, Polling
  <2>6. ControlsEnd'
    BY <1>0, <2>2, ExecutedEnds DEF ScraperInv, ScraperRequests
  <2> QED
    BY <2>2, <2>4, <2>5, <2>6 DEF ScraperInv, Starting, Latest
<1>3. CASE ScrapeStatusArrives
  <2> DEFINE again == [ui EXCEPT !.timer = TRUE]
             v(q) == JobShown(ui, q.ans)
  <2>1. PICK q \in Answers("scraper", "status") :
          Take("status", q, IF Refused(q) THEN again ELSE v(q))
    BY <1>3 DEF ScrapeStatusArrives, JobShown
  <2>2. /\ q \in net["status"] /\ q.ans # None /\ ui.job # None /\ q.arg = ui.job.id
        /\ (~Refused(q) => q.ans.id = ui.job.id) /\ net["scrape"] = {}
    BY <1>0, ScraperAnswers DEF ScraperInv, Polling, Starting, Refused
  <2> DEFINE u == IF Refused(q) THEN again ELSE v(q)
  <2>3. /\ IsScraperUi(u) /\ u.busy = ui.busy /\ u.job # None /\ u.job.id = ui.job.id
    <3>1. IsScraperUi(again) /\ again.busy = ui.busy /\ again.job = ui.job
      BY DEF ScraperInv, IsScraperUi
    <3>2. IsScraperUi(v(q)) /\ v(q).busy = ui.busy /\ v(q).job = q.ans
      BY JobShownUi DEF ScraperInv
    <3> QED
      BY <2>2, <3>1, <3>2
  <2>4. ui' = Free(u, q.ops) /\ srv' = srv /\ net' = Taking(net, "status", q)
    BY <2>1 DEF Take
  <2> HIDE DEF u
  <2>5. /\ IsScraperUi(ui') /\ ui'.job = u.job /\ ui'.busy = ui.busy \ q.ops
    BY <2>3, <2>4, ScraperFlags
  <2>6. /\ ScraperRequests(net') /\ net'["status"] = net["status"] \ {q}
        /\ net'["scrape"] = {}
    BY <1>0, <2>2, <2>4, ScraperTaking DEF ScraperInv
  <2>7. Starting(ui', srv', net') /\ Polling(ui', net') /\ Latest(ui', srv')
    BY <2>2, <2>3, <2>4, <2>5, <2>6 DEF Starting, Polling, Latest, ScraperInv
  <2>8. ControlsEnd'
    BY <1>0, <2>4, <2>5, TakenEnds DEF ScraperInv, ScraperRequests
  <2> QED
    BY <2>4, <2>5, <2>6, <2>7, <2>8 DEF ScraperInv
<1> QED
  BY <1>1, <1>2, <1>3

-----------------------------------------------------------------------------
LEMMA ScraperInit ==
  ASSUME NEW scenario, ScraperStart(scenario)
  PROVE  ScraperInv
<1>0. "groups" \in ScraperKinds /\ "scrape" # "groups" /\ {"scrape", "status"} \subseteq ScraperKinds
  BY DEF ScraperKinds
<1> DEFINE q0 == Request({"groups"}, None)
<1>1. /\ \A kind \in ScraperKinds : net[kind] = IF kind = "groups" THEN {q0} ELSE {}
      /\ net = [kind \in ScraperKinds |-> net[kind]]
  BY DEF ScraperStart
<1>2. IsRequest(q0) /\ q0.ops = {"groups"} /\ q0.live
  BY RequestFields
<1> HIDE DEF q0
<1>3. ScraperRequests(net)
  BY <1>1, <1>2 DEF ScraperRequests, IsNet, ScraperRequest
<1>4. IsScraperUi(ui) /\ ui.busy = {"groups"} /\ ui.job = None /\ ~ui.timer
  BY DEF ScraperStart, IsScraperUi
<1>5. IsScraperSrv(srv)
  BY DEF ScraperStart, IsScraperSrv
<1>6. ControlsEnd
  BY <1>0, <1>1, <1>2, <1>4 DEF ControlsEnd, ControlsEndBut
<1>7. net["scrape"] = {} /\ net["status"] = {}
  BY <1>0, <1>1
<1> QED
  BY <1>3, <1>4, <1>5, <1>6, <1>7 DEF ScraperInv, Starting, Polling, Latest

LEMMA ScraperInvNext ==
  ASSUME ScraperInv, [ScraperNext \/ Discard \/ Fail]_vars
  PROVE  ScraperInv'
<1>0. {"scrape", "status"} \subseteq ScraperKinds
  BY DEF ScraperKinds
<1>1. CASE UNCHANGED vars
  BY <1>1 DEF ScraperInv, ControlsEnd, ControlsEndBut, vars
<1>2. CASE ScrapeGoesOn
  <2>1. ui' = ui /\ net' = net
    BY <1>2 DEF ScrapeGoesOn
  <2>2. IsScraperSrv(srv') /\ Len(srv'.scrapes) = Len(srv.scrapes)
    <3>1. PICK i \in DOMAIN srv.scrapes, next \in ScrapeStatuses :
            srv' = [srv EXCEPT !.scrapes[i] = next]
      BY <1>2 DEF ScrapeGoesOn, ScrapeStatuses
    <3> DEFINE f == [srv.scrapes EXCEPT ![i] = next]
    <3>2. srv' = [srv EXCEPT !.scrapes = f]
      BY <3>1
    <3>3. f \in Seq(ScrapeStatuses) /\ Len(f) = Len(srv.scrapes)
      BY DEF ScraperInv, IsScraperSrv
    <3> HIDE DEF f
    <3> QED
      BY <3>2, <3>3 DEF ScraperInv, IsScraperSrv
  <2>3. ControlsEnd'
    BY <2>1, ShownEnds DEF ScraperInv
  <2> QED
    BY <2>1, <2>2, <2>3, ScraperKept DEF ScraperInv
<1>3. CASE Discard
  <2>1. PICK kind \in ScraperKinds : \E q \in net[kind] : ~q.live /\ net' = Taking(net, kind, q)
    BY <1>3, DiscardedRequest DEF ScraperInv, ScraperRequests
  <2>2. PICK q \in net[kind] : ~q.live /\ net' = Taking(net, kind, q)
    BY <2>1
  <2>3. ui' = ui /\ srv' = srv
    BY <1>3, DiscardedRequest DEF ScraperInv, ScraperRequests
  <2>4. /\ ScraperRequests(net') /\ \A k \in ScraperKinds : net'[k] \subseteq net[k]
    BY <2>2, ScraperTaking DEF ScraperInv
  <2>5. ControlsEnd'
    BY <2>2, <2>3, TakenEnds DEF ScraperInv, ScraperRequests
  <2>6. net'["scrape"] \subseteq net["scrape"] /\ net'["status"] \subseteq net["status"]
    BY <1>0, <2>4
  <2> QED
    BY <2>3, <2>4, <2>5, <2>6 DEF ScraperInv, Starting, Polling
<1>4. CASE Fail
  <2>1. PICK kind \in ScraperKinds : \E q \in net[kind] : net' = Executed(net, kind, q, Failed)
    BY <1>4, FailedRequest DEF ScraperInv, ScraperRequests
  <2>2. PICK q \in net[kind] : net' = Executed(net, kind, q, Failed)
    BY <2>1
  <2>3. ui' = ui /\ srv' = srv
    BY <1>4, FailedRequest DEF ScraperInv, ScraperRequests
  <2> DEFINE r == [q EXCEPT !.ans = Failed]
  <2>4. /\ ScraperRequests(net') /\ r.arg = q.arg /\ r.ans = Failed /\ r.live = q.live
        /\ net'[kind] = (net[kind] \ {q}) \cup {r}
        /\ \A k \in ScraperKinds \ {kind} : net'[k] = net[k]
    BY <2>2, ScraperExecuted DEF ScraperInv
  <2> HIDE DEF r
  <2>5. ControlsEnd'
    BY <2>2, <2>3, ExecutedEnds DEF ScraperInv, ScraperRequests
  <2>6. Starting(ui, srv, net')
    <3>1. CASE kind = "scrape"
      BY <2>4, <3>1 DEF ScraperInv, Starting
    <3>2. CASE kind # "scrape"
      BY <1>0, <2>4, <3>2 DEF ScraperInv, Starting
    <3> QED
      BY <3>1, <3>2
  <2>7. Polling(ui, net')
    <3>1. CASE kind = "status"
      BY <2>4, <3>1 DEF ScraperInv, Polling
    <3>2. CASE kind # "status"
      BY <1>0, <2>4, <3>2 DEF ScraperInv, Polling
    <3> QED
      BY <3>1, <3>2
  <2> QED
    BY <2>3, <2>4, <2>5, <2>6, <2>7 DEF ScraperInv
<1> QED
  BY <1>1, <1>2, <1>3, <1>4, ReadingStep, LeadsStep, ScraperServeStep, ScraperTakeStep,
     StartScrapeStep, ServeScrapeStep, ScrapeArrivesStep, PollStep DEF ScraperNext

-----------------------------------------------------------------------------
(* The page that adds members in bulk *)

IsBulkUi(u) ==
  u \in [at: {"bulkadd"}, scenario: {u.scenario}, busy: {u.busy}, agent: {u.agent},
         jobs: {u.jobs}, open: BOOLEAN, for: {u.for}, source: BOOLEAN, target: {u.target},
         page: {u.page}, rows: {u.rows}, there: {u.there}, selected: {u.selected}]

\* An answer about jobs ends both flags, so that is all its request may be a step of.
BulkRequests(n) ==
  /\ IsNet(n, BulkAddKinds)
  /\ \A q \in n["jobs"] : q.ops \subseteq {"jobs", "refresh"}

Apart(u) == u.selected \cap u.there = {}

BulkInv == IsBulkUi(ui) /\ Apart(ui) /\ BulkRequests(net) /\ ControlsEnd

LEMMA BulkSending ==
  ASSUME NEW n, BulkRequests(n), NEW kind \in BulkAddKinds, NEW ops, NEW arg,
         kind = "jobs" => ops \subseteq {"jobs", "refresh"}
  PROVE  BulkRequests(Sending(n, kind, ops, arg))
<1> DEFINE m == Sending(n, kind, ops, arg)
<1>1. /\ IsNet(m, BulkAddKinds) /\ m[kind] = n[kind] \cup {Request(ops, arg)}
      /\ \A k \in BulkAddKinds \ {kind} : m[k] = n[k]
  BY SendingNet DEF BulkRequests
<1>2. "jobs" \in BulkAddKinds
  BY DEF BulkAddKinds
<1> HIDE DEF m
<1>3. \A q \in m["jobs"] : q.ops \subseteq {"jobs", "refresh"}
  BY <1>1, <1>2, RequestFields DEF BulkRequests
<1> QED
  BY <1>1, <1>3 DEF BulkRequests, m

LEMMA BulkExecuted ==
  ASSUME NEW n, BulkRequests(n), NEW kind \in BulkAddKinds, NEW q \in n[kind], NEW ans
  PROVE  BulkRequests(Executed(n, kind, q, ans))
<1> DEFINE m == Executed(n, kind, q, ans)
           r == [q EXCEPT !.ans = ans]
<1>1. /\ IsNet(m, BulkAddKinds) /\ m[kind] = (n[kind] \ {q}) \cup {r}
      /\ \A k \in BulkAddKinds \ {kind} : m[k] = n[k]
  BY ExecutedNet DEF BulkRequests
<1>2. "jobs" \in BulkAddKinds
  BY DEF BulkAddKinds
<1>3. r.ops = q.ops
  BY AnsweredFields DEF BulkRequests, IsNet
<1> HIDE DEF m, r
<1>4. \A k \in m["jobs"] : k.ops \subseteq {"jobs", "refresh"}
  BY <1>1, <1>2, <1>3 DEF BulkRequests
<1> QED
  BY <1>1, <1>4 DEF BulkRequests, m

LEMMA BulkTaking ==
  ASSUME NEW n, BulkRequests(n), NEW kind \in BulkAddKinds, NEW q
  PROVE  BulkRequests(Taking(n, kind, q))
<1> DEFINE m == Taking(n, kind, q)
<1>1. /\ IsNet(m, BulkAddKinds) /\ m[kind] = n[kind] \ {q}
      /\ \A k \in BulkAddKinds \ {kind} : m[k] = n[k]
  BY TakingNet DEF BulkRequests
<1>2. "jobs" \in BulkAddKinds
  BY DEF BulkAddKinds
<1> HIDE DEF m
<1>3. \A k \in m["jobs"] : k.ops \subseteq {"jobs", "refresh"}
  BY <1>1, <1>2 DEF BulkRequests
<1> QED
  BY <1>1, <1>3 DEF BulkRequests, m

LEMMA BulkFlags ==
  ASSUME NEW u, IsBulkUi(u), NEW S
  PROVE  /\ IsBulkUi(Busy(u, S)) /\ Busy(u, S).busy = u.busy \cup S
         /\ Busy(u, S).selected = u.selected /\ Busy(u, S).there = u.there
         /\ IsBulkUi(Free(u, S)) /\ Free(u, S).busy = u.busy \ S
         /\ Free(u, S).selected = u.selected /\ Free(u, S).there = u.there
  BY DEF IsBulkUi, Busy, Free

\* What the user does without a request.
LEMMA BulkShow ==
  ASSUME BulkInv, NEW u, IsBulkUi(u), Apart(u), u.busy = ui.busy, ui' = u, net' = net
  PROVE  BulkInv'
<1>1. ControlsEnd'
  BY ShownEnds DEF BulkInv
<1> QED
  BY <1>1 DEF BulkInv

LEMMA BulkAsk ==
  ASSUME BulkInv, NEW kind \in BulkAddKinds, NEW ops, NEW arg, NEW u, IsBulkUi(u), Apart(u),
         u.busy = ui.busy, kind = "jobs" => ops \subseteq {"jobs", "refresh"},
         ui' = Busy(u, ops), net' = Sending(net, kind, ops, arg)
  PROVE  BulkInv'
<1>1. /\ IsBulkUi(ui') /\ Apart(ui') /\ ui'.busy = ui.busy \cup ops
  BY BulkFlags DEF Apart
<1>2. BulkRequests(net')
  BY BulkSending DEF BulkInv
<1>3. ControlsEnd'
  BY <1>1, SentEnds DEF BulkInv, BulkRequests
<1> QED
  BY <1>1, <1>2, <1>3 DEF BulkInv

LEMMA BulkServe ==
  ASSUME BulkInv, NEW kind \in BulkAddKinds, NEW q \in net[kind], NEW s, NEW ans,
         Serve(kind, q, s, ans)
  PROVE  BulkInv'
<1>1. ui' = ui /\ net' = Executed(net, kind, q, ans)
  BY DEF Serve
<1>2. BulkRequests(net')
  BY <1>1, BulkExecuted DEF BulkInv
<1>3. ControlsEnd'
  BY <1>1, ExecutedEnds DEF BulkInv, BulkRequests
<1> QED
  BY <1>1, <1>2, <1>3 DEF BulkInv

LEMMA BulkTake ==
  ASSUME BulkInv, NEW kind \in BulkAddKinds, NEW q \in net[kind], NEW u, IsBulkUi(u), Apart(u),
         u.busy = ui.busy, Take(kind, q, u)
  PROVE  BulkInv'
<1>1. ui' = Free(u, q.ops) /\ net' = Taking(net, kind, q)
  BY DEF Take
<1>2. /\ IsBulkUi(ui') /\ Apart(ui') /\ ui'.busy = ui.busy \ q.ops
  BY <1>1, BulkFlags DEF Apart
<1>3. BulkRequests(net')
  BY <1>1, BulkTaking DEF BulkInv
<1>4. ControlsEnd'
  BY <1>1, <1>2, TakenEnds DEF BulkInv, BulkRequests
<1> QED
  BY <1>2, <1>3, <1>4 DEF BulkInv

\* An answer after which the jobs are loaded.
LEMMA BulkReload ==
  ASSUME BulkInv, NEW kind \in BulkAddKinds, NEW q \in net[kind], NEW u, IsBulkUi(u), Apart(u),
         u.busy = ui.busy, NEW op \in {"jobs", "refresh"}, NEW a,
         ui' = Busy(Free(u, q.ops), {op}), net' = JobsAsked(Taking(net, kind, q), a, op)
  PROVE  BulkInv'
<1>0. "jobs" \in BulkAddKinds
  BY DEF BulkAddKinds
<1> DEFINE f == Free(u, q.ops)
<1>1. IsBulkUi(f) /\ Apart(f) /\ f.busy = ui.busy \ q.ops
  BY BulkFlags DEF Apart
<1>2. ui' = Busy(f, {op})
  OBVIOUS
<1> HIDE DEF f
<1>3. IsBulkUi(ui') /\ Apart(ui') /\ ui'.busy = (ui.busy \ q.ops) \cup {op}
  BY <1>1, <1>2, BulkFlags DEF Apart
<1>4. net' = Sending(Taking(net, kind, q), "jobs", {op}, a)
  BY DEF JobsAsked
<1>5. BulkRequests(net')
  <2>1. BulkRequests(Taking(net, kind, q))
    BY BulkTaking DEF BulkInv
  <2> QED
    BY <1>0, <1>4, <2>1, BulkSending
<1>6. ControlsEnd'
  BY <1>0, <1>3, <1>4, FurtherEnds DEF BulkInv, BulkRequests
<1> QED
  BY <1>3, <1>5, <1>6 DEF BulkInv

LEMMA BulkAnswers ==
  ASSUME NEW kind
  PROVE  /\ \A q \in Asked("bulkadd", kind) : q \in net[kind]
         /\ \A q \in Answers("bulkadd", kind) : q \in net[kind]
  BY DEF Asked, Answers, Answered

-----------------------------------------------------------------------------
\* The jobs, and what the user asks for.
LEMMA BulkJobsStep ==
  ASSUME BulkInv, SelectBulkAgent \/ RefreshJobs \/ JobsArrive \/ SyncGroups \/ VerifyJoins
                  \/ VerifyJoinsArrives \/ BulkJobsGoOn
  PROVE  BulkInv'
<1>0. {"jobs", "names", "verify"} \subseteq BulkAddKinds
  BY DEF BulkAddKinds
<1> USE DEF BulkInv
<1>1. CASE SelectBulkAgent
  <2>1. PICK a \in (BulkAgents \cup {None}) \ {ui.agent} :
          IF a = None THEN ui' = [ui EXCEPT !.agent = a, !.jobs = {}] /\ net' = net
          ELSE /\ ui' = Busy([ui EXCEPT !.agent = a], {"jobs"})
               /\ net' = JobsAsked(Sending(net, "names", {}, a), a, "jobs")
    BY <1>1 DEF SelectBulkAgent
  <2>2. CASE a = None
    <3> DEFINE u == [ui EXCEPT !.agent = a, !.jobs = {}]
    <3>1. IsBulkUi(u) /\ Apart(u) /\ u.busy = ui.busy
      BY DEF IsBulkUi, Apart
    <3> QED
      BY <2>1, <2>2, <3>1, BulkShow
  <2>3. CASE a # None
    <3> DEFINE u == [ui EXCEPT !.agent = a]
               n == Sending(net, "names", {}, a)
    <3>1. IsBulkUi(u) /\ Apart(u) /\ u.busy = ui.busy
      BY DEF IsBulkUi, Apart
    <3>2. BulkRequests(n)
      BY <1>0, BulkSending
    <3>3. \A op : InFlight(net, op) => InFlight(n, op)
      BY <1>0, SendingNet DEF BulkRequests
    <3>4. ui' = Busy(u, {"jobs"}) /\ net' = Sending(n, "jobs", {"jobs"}, a)
      BY <2>1, <2>3 DEF JobsAsked
    <3> HIDE DEF u, n
    <3>5. IsBulkUi(ui') /\ Apart(ui') /\ ui'.busy = ui.busy \cup {"jobs"}
      BY <3>1, <3>4, BulkFlags DEF Apart
    <3>6. BulkRequests(net') /\ \A op : InFlight(net', op) <=> InFlight(n, op) \/ op \in {"jobs"}
      BY <1>0, <3>2, <3>4, BulkSending, SendingNet DEF BulkRequests
    <3>7. ControlsEnd'
      BY <3>3, <3>5, <3>6, ControlsInFlight, ControlsInFlightNext
    <3> QED
      BY <3>5, <3>6, <3>7
  <2> QED
    BY <2>2, <2>3
<1>2. CASE RefreshJobs
  BY <1>0, <1>2, BulkAsk DEF RefreshJobs, JobsAsked
<1>3. CASE JobsArrive
  <2>1. PICK q \in Answers("bulkadd", "jobs") :
          /\ ui' = Free([ui EXCEPT !.jobs = IF Refused(q) THEN {} ELSE q.ans], {"jobs", "refresh"})
          /\ net' = Taking(net, "jobs", q)
    BY <1>3 DEF JobsArrive
  <2> DEFINE u == [ui EXCEPT !.jobs = IF Refused(q) THEN {} ELSE q.ans]
  <2>2. IsBulkUi(u) /\ Apart(u) /\ u.busy = ui.busy
    BY DEF IsBulkUi, Apart
  <2>3. q \in net["jobs"] /\ q.ops \subseteq {"jobs", "refresh"}
    BY BulkAnswers DEF BulkRequests
  <2>4. ui' = Free(u, {"jobs", "refresh"})
    BY <2>1
  <2> HIDE DEF u
  <2>5. IsBulkUi(ui') /\ Apart(ui') /\ ui'.busy = ui.busy \ {"jobs", "refresh"}
    BY <2>2, <2>4, BulkFlags DEF Apart
  <2>6. BulkRequests(net')
    BY <1>0, <2>1, BulkTaking
  <2>7. ControlsEnd'
    BY <1>0, <2>1, <2>3, <2>5, TakenEnds DEF BulkRequests
  <2> QED
    BY <2>5, <2>6, <2>7
<1>4. CASE SyncGroups
  BY <1>0, <1>4, BulkAsk DEF SyncGroups, Ask
<1>5. CASE VerifyJoins
  BY <1>0, <1>5, BulkAsk DEF VerifyJoins, Ask
<1>6. CASE VerifyJoinsArrives
  <2>1. PICK q \in Answers("bulkadd", "verify") :
          IF Refused(q) THEN Take("verify", q, ui)
          ELSE /\ ui' = Busy(Free(ui, q.ops), {"refresh"})
               /\ net' = JobsAsked(Taking(net, "verify", q), q.arg, "refresh")
    BY <1>6 DEF VerifyJoinsArrives
  <2>2. q \in net["verify"]
    BY BulkAnswers
  <2>3. CASE Refused(q)
    BY <1>0, <2>1, <2>2, <2>3, BulkTake
  <2>4. CASE ~Refused(q)
    BY <1>0, <2>1, <2>2, <2>4, BulkReload
  <2> QED
    BY <2>3, <2>4
<1>7. CASE BulkJobsGoOn
  BY <1>7, BulkShow DEF BulkJobsGoOn
<1> QED
  BY <1>1, <1>2, <1>3, <1>4, <1>5, <1>6, <1>7

\* Whom the user may select is not in the target.
LEMMA BulkFormStep ==
  ASSUME BulkInv, OpenBulkForm \/ CloseBulkForm \/ EditBulkForm \/ SelectUsers \/ SubmitBulk
  PROVE  BulkInv'
<1>0. {"search", "target", "create"} \subseteq BulkAddKinds
  BY DEF BulkAddKinds
<1> USE DEF BulkInv
<1>1. CASE OpenBulkForm
  <2> DEFINE there == IF ui.for = ui.agent /\ ui.target = None THEN ui.there ELSE {}
             u == [ui EXCEPT !.open = TRUE, !.for = ui.agent, !.source = FALSE, !.target = None,
                             !.page = 1, !.rows = {}, !.selected = {}, !.there = there]
  <2>1. ui' = u /\ net' = net
    BY <1>1 DEF OpenBulkForm, Show
  <2> HIDE DEF there
  <2>2. IsBulkUi(u) /\ Apart(u) /\ u.busy = ui.busy
    BY DEF IsBulkUi, Apart
  <2> QED
    BY <2>1, <2>2, BulkShow
<1>2. CASE CloseBulkForm
  <2> DEFINE u == [ui EXCEPT !.open = FALSE]
  <2>1. IsBulkUi(u) /\ Apart(u) /\ u.busy = ui.busy
    BY DEF IsBulkUi, Apart
  <2> QED
    BY <1>2, <2>1, BulkShow DEF CloseBulkForm, Show
<1>3. CASE EditBulkForm
  <2> DEFINE us == {[ui EXCEPT !.source = TRUE, !.page = 1]}
             \cup {[ui EXCEPT !.target = g] : g \in IF ui.scenario = "send" THEN {1} ELSE DOMAIN There}
             \cup (IF ui.scenario = "send" THEN {[ui EXCEPT !.for = a] : a \in BulkAgents}
                   ELSE {[ui EXCEPT !.page = IF ui.source THEN 3 - @ ELSE @]})
  <2>1. PICK u \in us : ui' = Busy(u, BusyFor(u)) /\ net' = Searched(TargetRead(net, u), u)
    BY <1>3 DEF EditBulkForm
  <2>2. IsBulkUi(u) /\ Apart(u) /\ u.busy = ui.busy
    <3>1. CASE u = [ui EXCEPT !.source = TRUE, !.page = 1]
      BY <3>1 DEF IsBulkUi, Apart
    <3>2. CASE u \in {[ui EXCEPT !.target = g] :
                        g \in IF ui.scenario = "send" THEN {1} ELSE DOMAIN There}
      BY <3>2 DEF IsBulkUi, Apart
    <3>3. CASE u \in {[ui EXCEPT !.for = a] : a \in BulkAgents}
      BY <3>3 DEF IsBulkUi, Apart
    <3>4. CASE u = [ui EXCEPT !.page = IF ui.source THEN 3 - @ ELSE @]
      <4> DEFINE page == IF ui.source THEN 3 - ui.page ELSE ui.page
      <4>1. u = [ui EXCEPT !.page = page]
        BY <3>4
      <4> HIDE DEF page
      <4> QED
        BY <4>1 DEF IsBulkUi, Apart
    <3> QED
      BY <3>1, <3>2, <3>3, <3>4
  <2> HIDE DEF us
  <2> DEFINE n == TargetRead(net, u)
  <2>3. /\ BulkRequests(n) /\ \A op : InFlight(net, op) => InFlight(n, op)
        /\ n # net => InFlight(n, "target")
    <3>1. CASE u.target # None /\ <<u.for, u.target>> # <<ui.for, ui.target>>
      <4>1. n = Sending(net, "target", {"target"}, u.target)
        BY <3>1 DEF TargetRead
      <4> HIDE DEF n
      <4> QED
        BY <1>0, <4>1, BulkSending, SendingNet DEF BulkRequests
    <3>2. CASE ~(u.target # None /\ <<u.for, u.target>> # <<ui.for, ui.target>>)
      BY <3>2 DEF TargetRead
    <3> QED
      BY <3>1, <3>2
  <2> DEFINE m == Searched(n, u)
  <2>4. /\ BulkRequests(m) /\ \A op : InFlight(n, op) => InFlight(m, op)
        /\ u.source => InFlight(m, "search")
    <3> HIDE DEF n
    <3>1. CASE u.source
      <4>1. m = Sending(n, "search", {"search"}, [target |-> u.target, page |-> u.page])
        BY <3>1 DEF Searched
      <4> HIDE DEF m
      <4> QED
        BY <1>0, <2>3, <4>1, BulkSending, SendingNet DEF BulkRequests
    <3>2. CASE ~u.source
      BY <2>3, <3>2 DEF Searched
    <3> QED
      BY <3>1, <3>2
  <2>5. \A op \in BusyFor(u) : InFlight(m, op)
    <3>1. \A op \in BusyFor(u) : (op = "search" /\ u.source) \/ (op = "target" /\ n # net)
      BY DEF BusyFor
    <3> HIDE DEF m, n
    <3> QED
      BY <2>3, <2>4, <3>1
  <2>6. IsBulkUi(ui') /\ Apart(ui') /\ ui'.busy = ui.busy \cup BusyFor(u)
    BY <2>1, <2>2, BulkFlags DEF Apart
  <2>7. net' = m
    BY <2>1
  <2> HIDE DEF m, n
  <2>8. ControlsEnd'
    BY <2>3, <2>4, <2>5, <2>6, <2>7, ControlsInFlight, ControlsInFlightNext
  <2> QED
    BY <2>4, <2>6, <2>7, <2>8
<1>4. CASE SelectUsers
  <2>1. \E s : ui' = [ui EXCEPT !.selected = s] /\ s \cap ui.there = {}
    <3>1. Selectable \cap ui.there = {}
      BY DEF Selectable
    <3>2. ASSUME NEW r \in Selectable,
                 Show([ui EXCEPT !.selected = IF r \in @ THEN @ \ {r} ELSE @ \cup {r}])
          PROVE  \E s : ui' = [ui EXCEPT !.selected = s] /\ s \cap ui.there = {}
      <4> DEFINE s == IF r \in ui.selected THEN ui.selected \ {r} ELSE ui.selected \cup {r}
      <4>1. ui' = [ui EXCEPT !.selected = s]
        BY <3>2 DEF Show
      <4>2. s \cap ui.there = {}
        BY <3>1 DEF Apart
      <4> QED
        BY <4>1, <4>2
    <3> QED
      BY <1>4, <3>1, <3>2 DEF SelectUsers, Show
  <2>2. PICK s : ui' = [ui EXCEPT !.selected = s] /\ s \cap ui.there = {}
    BY <2>1
  <2> DEFINE u == [ui EXCEPT !.selected = s]
  <2>3. IsBulkUi(u) /\ Apart(u) /\ u.busy = ui.busy
    BY <2>2 DEF IsBulkUi, Apart
  <2>4. net' = net
    BY <1>4 DEF SelectUsers, Show
  <2> QED
    BY <2>2, <2>3, <2>4, BulkShow
<1>5. CASE SubmitBulk
  BY <1>0, <1>5, BulkAsk DEF SubmitBulk, Ask
<1> QED
  BY <1>1, <1>2, <1>3, <1>4, <1>5

LEMMA BulkServeStep ==
  ASSUME BulkInv, ServeJobs \/ ServeBulkNames \/ ServeVerifyJoins \/ ServeUsers \/ ServeTarget
                  \/ ServeBulkJob
  PROVE  BulkInv'
<1>0. BulkAddKinds = {"jobs", "names", "verify", "search", "target", "create"}
  BY DEF BulkAddKinds
<1>1. CASE ServeJobs
  BY <1>0, <1>1, BulkAnswers, BulkServe DEF ServeJobs
<1>2. CASE ServeBulkNames
  BY <1>0, <1>2, BulkAnswers, BulkServe DEF ServeBulkNames
<1>3. CASE ServeVerifyJoins
  BY <1>0, <1>3, BulkAnswers, BulkServe DEF ServeVerifyJoins
<1>4. CASE ServeUsers
  BY <1>0, <1>4, BulkAnswers, BulkServe DEF ServeUsers
<1>5. CASE ServeTarget
  BY <1>0, <1>5, BulkAnswers, BulkServe DEF ServeTarget
<1>6. CASE ServeBulkJob
  BY <1>0, <1>6, BulkAnswers, BulkServe DEF ServeBulkJob
<1> QED
  BY <1>1, <1>2, <1>3, <1>4, <1>5, <1>6

\* The list of the target that arrives, even one asked for before, takes its members
\* out of the selection.
LEMMA BulkTakeStep ==
  ASSUME BulkInv, BulkNamesArrive \/ UsersArrive \/ TargetArrives \/ BulkJobArrives
  PROVE  BulkInv'
<1>0. {"names", "search", "target", "create"} \subseteq BulkAddKinds
  BY DEF BulkAddKinds
<1>a. IsBulkUi(ui) /\ Apart(ui)
  BY DEF BulkInv
<1>1. CASE BulkNamesArrive
  BY <1>0, <1>1, <1>a, BulkAnswers, BulkTake DEF BulkNamesArrive
<1>2. CASE UsersArrive
  <2>1. PICK q \in Answers("bulkadd", "search") :
          Take("search", q, [ui EXCEPT !.rows = IF Refused(q) THEN {} ELSE q.ans])
    BY <1>2 DEF UsersArrive
  <2> DEFINE u == [ui EXCEPT !.rows = IF Refused(q) THEN {} ELSE q.ans]
  <2>2. IsBulkUi(u) /\ Apart(u) /\ u.busy = ui.busy
    BY <1>a DEF IsBulkUi, Apart
  <2> QED
    BY <1>0, <2>1, <2>2, BulkAnswers, BulkTake
<1>3. CASE TargetArrives
  <2>1. PICK q \in Answers("bulkadd", "target") :
          LET there == IF Refused(q) THEN {} ELSE q.ans
          IN Take("target", q, [ui EXCEPT !.there = there, !.selected = @ \ there])
    BY <1>3 DEF TargetArrives
  <2> DEFINE there == IF Refused(q) THEN {} ELSE q.ans
             u == [ui EXCEPT !.there = there, !.selected = ui.selected \ there]
  <2>2. Take("target", q, u)
    BY <2>1
  <2> HIDE DEF there
  <2>3. IsBulkUi(u) /\ Apart(u) /\ u.busy = ui.busy
    BY <1>a DEF IsBulkUi, Apart
  <2> QED
    BY <1>0, <2>2, <2>3, BulkAnswers, BulkTake
<1>4. CASE BulkJobArrives
  <2> DEFINE closed == [ui EXCEPT !.open = FALSE]
  <2>1. IsBulkUi(closed) /\ Apart(closed) /\ closed.busy = ui.busy
    BY <1>a DEF IsBulkUi, Apart
  <2>2. PICK q \in Answers("bulkadd", "create") :
          IF Refused(q) \/ ui.agent # q.arg.agent
          THEN Take("create", q, IF Refused(q) THEN ui ELSE closed)
          ELSE /\ ui' = Busy(Free(closed, q.ops), {"jobs"})
               /\ net' = JobsAsked(Taking(net, "create", q), q.arg.agent, "jobs")
    BY <1>4 DEF BulkJobArrives
  <2> HIDE DEF closed
  <2>3. q \in net["create"]
    BY BulkAnswers
  <2>4. CASE Refused(q)
    BY <1>0, <1>a, <2>2, <2>3, <2>4, BulkTake
  <2>5. CASE ~Refused(q) /\ ui.agent # q.arg.agent
    BY <1>0, <2>1, <2>2, <2>3, <2>5, BulkTake
  <2>6. CASE ~Refused(q) /\ ui.agent = q.arg.agent
    BY <1>0, <2>1, <2>2, <2>3, <2>6, BulkReload
  <2> QED
    BY <2>4, <2>5, <2>6
<1> QED
  BY <1>1, <1>2, <1>3, <1>4

-----------------------------------------------------------------------------
LEMMA BulkInit ==
  ASSUME NEW scenario, BulkAddStart(scenario)
  PROVE  BulkInv
<1>1. IsNet(net, BulkAddKinds) /\ net["jobs"] = {}
  BY DEF BulkAddStart, IsNet, BulkAddKinds
<1>2. IsBulkUi(ui) /\ Apart(ui) /\ ui.busy = {}
  BY DEF BulkAddStart, IsBulkUi, Apart
<1> QED
  BY <1>1, <1>2 DEF BulkInv, BulkRequests, ControlsEnd, ControlsEndBut

LEMMA BulkInvNext ==
  ASSUME BulkInv, [BulkAddNext \/ Discard \/ Fail]_vars
  PROVE  BulkInv'
<1>1. CASE UNCHANGED vars
  BY <1>1 DEF BulkInv, ControlsEnd, ControlsEndBut, vars
<1>2. CASE Discard
  <2>1. PICK kind \in BulkAddKinds : \E q \in net[kind] : ~q.live /\ net' = Taking(net, kind, q)
    BY <1>2, DiscardedRequest DEF BulkInv, BulkRequests
  <2>2. PICK q \in net[kind] : ~q.live /\ net' = Taking(net, kind, q)
    BY <2>1
  <2>3. ui' = ui
    BY <1>2, DiscardedRequest DEF BulkInv, BulkRequests
  <2>4. BulkRequests(net')
    BY <2>2, BulkTaking DEF BulkInv
  <2>5. ControlsEnd'
    BY <2>2, <2>3, TakenEnds DEF BulkInv, BulkRequests
  <2> QED
    BY <2>3, <2>4, <2>5 DEF BulkInv
<1>3. CASE Fail
  <2>1. PICK kind \in BulkAddKinds : \E q \in net[kind] : net' = Executed(net, kind, q, Failed)
    BY <1>3, FailedRequest DEF BulkInv, BulkRequests
  <2>2. PICK q \in net[kind] : net' = Executed(net, kind, q, Failed)
    BY <2>1
  <2>3. ui' = ui
    BY <1>3, FailedRequest DEF BulkInv, BulkRequests
  <2>4. BulkRequests(net')
    BY <2>2, BulkExecuted DEF BulkInv
  <2>5. ControlsEnd'
    BY <2>2, <2>3, ExecutedEnds DEF BulkInv, BulkRequests
  <2> QED
    BY <2>3, <2>4, <2>5 DEF BulkInv
<1> QED
  BY <1>1, <1>2, <1>3, BulkJobsStep, BulkFormStep, BulkServeStep, BulkTakeStep DEF BulkAddNext

-----------------------------------------------------------------------------
(* The card of the MCP tokens *)

IsTokensUi(u) ==
  u \in [at: {"tokens"}, busy: {u.busy}, tokens: {u.tokens}, form: BOOLEAN, secret: {u.secret}]

IsTokensSrv(s) == s \in [tokens: {s.tokens}, newest: {s.newest}]

TokenRequest(kind, q) ==
  /\ kind = "create" => q.ops = {"create"}
  /\ kind = "revoke" => q.ops = {}

TokenRequests(n) ==
  /\ IsNet(n, TokenKinds)
  /\ \A kind \in TokenKinds : \A q \in n[kind] : TokenRequest(kind, q)

(***************************************************************************)
(* Why is the secret shown that of the newest token?  The button is        *)
(* disabled until the list is read again, so one creation is under way at  *)
(* a time, as a request for it or as the reading that follows; and nothing *)
(* is shown while the request is in flight, so that the server may create  *)
(* a newer token.  A card that was left has no live request.               *)
(***************************************************************************)
Making(q) == q.live /\ "create" \in q.ops

OneAtATime(u, n) ==
  \A k, l \in TokenKinds : \A q \in n[k] : \A r \in n[l] :
    Making(q) /\ Making(r) => "create" \in u.busy /\ k = l /\ q = r

NothingShown(u, s, n) ==
  \A q \in n["create"] : q.live =>
    u.secret = None /\ (q.ans \notin {None, Failed} => q.ans = s.newest)

TokensInv ==
  /\ IsTokensUi(ui) /\ IsTokensSrv(srv) /\ TokenRequests(net)
  /\ ui.secret \in {None, srv.newest}
  /\ OneAtATime(ui, net) /\ NothingShown(ui, srv, net)
  /\ ControlsEnd

LEMMA TokensFlags ==
  ASSUME NEW u, IsTokensUi(u), NEW S
  PROVE  /\ IsTokensUi(Busy(u, S)) /\ Busy(u, S).busy = u.busy \cup S /\ Busy(u, S).secret = u.secret
         /\ IsTokensUi(Free(u, S)) /\ Free(u, S).busy = u.busy \ S /\ Free(u, S).secret = u.secret
  BY DEF IsTokensUi, Busy, Free

LEMMA TokensSending ==
  ASSUME NEW n, TokenRequests(n), NEW kind \in TokenKinds, NEW ops, NEW arg,
         TokenRequest(kind, Request(ops, arg))
  PROVE  /\ TokenRequests(Sending(n, kind, ops, arg))
         /\ Sending(n, kind, ops, arg)[kind] = n[kind] \cup {Request(ops, arg)}
         /\ \A k \in TokenKinds \ {kind} : Sending(n, kind, ops, arg)[k] = n[k]
<1> DEFINE m == Sending(n, kind, ops, arg)
<1>1. /\ IsNet(m, TokenKinds) /\ m[kind] = n[kind] \cup {Request(ops, arg)}
      /\ \A k \in TokenKinds \ {kind} : m[k] = n[k]
  BY SendingNet DEF TokenRequests
<1> HIDE DEF m
<1>2. TokenRequests(m)
  BY <1>1 DEF TokenRequests
<1> QED
  BY <1>1, <1>2 DEF m

LEMMA TokensTaking ==
  ASSUME NEW n, TokenRequests(n), NEW kind \in TokenKinds, NEW q
  PROVE  /\ TokenRequests(Taking(n, kind, q))
         /\ Taking(n, kind, q)[kind] = n[kind] \ {q}
         /\ \A k \in TokenKinds \ {kind} : Taking(n, kind, q)[k] = n[k]
<1> DEFINE m == Taking(n, kind, q)
<1>1. /\ IsNet(m, TokenKinds) /\ m[kind] = n[kind] \ {q}
      /\ \A k \in TokenKinds \ {kind} : m[k] = n[k]
  BY TakingNet DEF TokenRequests
<1> HIDE DEF m
<1>2. TokenRequests(m)
  BY <1>1 DEF TokenRequests
<1> QED
  BY <1>1, <1>2 DEF m

LEMMA TokensAnswers ==
  ASSUME NEW kind
  PROVE  /\ \A q \in Asked("tokens", kind) : q \in net[kind]
         /\ \A q \in Answers("tokens", kind) : q \in net[kind] /\ q.ans # None /\ q.live
  BY DEF Asked, Answers, Answered

\* A request that the server executes, or that fails.
LEMMA TokensExecuted ==
  ASSUME TokensInv, NEW kind \in TokenKinds, NEW q \in net[kind], NEW ans,
         IsTokensSrv(srv'), ui' = ui, net' = Executed(net, kind, q, ans),
         kind = "create" /\ q.live /\ ans \notin {None, Failed} => ans = srv'.newest,
         srv'.newest = srv.newest \/ (kind = "create" /\ q.live)
  PROVE  TokensInv'
<1> DEFINE r == [q EXCEPT !.ans = ans]
<1>0. "create" \in TokenKinds
  BY DEF TokenKinds
<1>1. /\ IsNet(net', TokenKinds) /\ net'[kind] = (net[kind] \ {q}) \cup {r}
      /\ \A k \in TokenKinds \ {kind} : net'[k] = net[k]
  BY ExecutedNet DEF TokensInv, TokenRequests
<1>2. IsRequest(r) /\ r.ops = q.ops /\ r.ans = ans /\ r.live = q.live
  BY AnsweredFields DEF TokensInv, TokenRequests, IsNet
<1> HIDE DEF r
<1>3. TokenRequest(kind, r)
  BY <1>2 DEF TokensInv, TokenRequests, TokenRequest
<1>4. TokenRequests(net')
  BY <1>1, <1>3 DEF TokensInv, TokenRequests
<1>5. OneAtATime(ui', net')
  <2> SUFFICES ASSUME NEW k \in TokenKinds, NEW l \in TokenKinds, NEW x \in net'[k], NEW y \in net'[l],
                      Making(x), Making(y)
               PROVE  "create" \in ui.busy /\ k = l /\ x = y
    BY DEF OneAtATime
  <2>1. Making(r) <=> Making(q)
    BY <1>2 DEF Making
  <2>2. (x \in net[k] /\ ~(k = kind /\ x = q)) \/ (k = kind /\ x = r)
    BY <1>1
  <2>3. (y \in net[l] /\ ~(l = kind /\ y = q)) \/ (l = kind /\ y = r)
    BY <1>1
  <2>4. ASSUME NEW a \in TokenKinds, NEW b \in TokenKinds, NEW v \in net[a], NEW w \in net[b],
               Making(v), Making(w)
        PROVE  "create" \in ui.busy /\ a = b /\ v = w
    BY <2>4 DEF TokensInv, OneAtATime
  <2> QED
    BY <2>1, <2>2, <2>3, <2>4
<1>6. NothingShown(ui', srv', net')
  <2>1. CASE kind = "create"
    <3>1. \A x \in net["create"] \ {q} : x.live => ~q.live
      BY <1>0, <2>1 DEF TokensInv, TokenRequests, TokenRequest, OneAtATime, Making
    <3> QED
      BY <1>1, <1>2, <2>1, <3>1 DEF TokensInv, NothingShown
  <2>2. CASE kind # "create"
    BY <1>0, <1>1, <2>2 DEF TokensInv, NothingShown
  <2> QED
    BY <2>1, <2>2
<1>7. ui'.secret \in {None, srv'.newest}
  BY DEF TokensInv, NothingShown
<1>8. ControlsEnd'
  BY ExecutedEnds DEF TokensInv, TokenRequests
<1> QED
  BY <1>4, <1>5, <1>6, <1>7, <1>8 DEF TokensInv

\* A request that is taken and not gone on with.
LEMMA TokensTaken ==
  ASSUME TokensInv, NEW kind \in TokenKinds, NEW q \in net[kind], UNCHANGED srv,
         net' = Taking(net, kind, q), IsTokensUi(ui'), ui'.secret = ui.secret,
         ui'.busy = ui.busy \/ ui'.busy = ui.busy \ q.ops, q.live => ui'.busy = ui.busy \ q.ops,
         ~q.live => ui'.busy = ui.busy
  PROVE  TokensInv'
<1>0. "create" \in TokenKinds
  BY DEF TokenKinds
<1>1. /\ TokenRequests(net') /\ net'[kind] = net[kind] \ {q}
      /\ \A k \in TokenKinds \ {kind} : net'[k] = net[k]
  BY TokensTaking DEF TokensInv
<1>2. OneAtATime(ui', net')
  <2> SUFFICES ASSUME NEW k \in TokenKinds, NEW l \in TokenKinds, NEW x \in net'[k], NEW y \in net'[l],
                      Making(x), Making(y)
               PROVE  "create" \in ui'.busy /\ k = l /\ x = y
    BY DEF OneAtATime
  <2>1. x \in net[k] /\ y \in net[l] /\ ~(k = kind /\ x = q)
    BY <1>1
  <2>2. "create" \in ui.busy /\ k = l /\ x = y
    BY <2>1 DEF TokensInv, OneAtATime
  <2>3. ~Making(q)
    BY <2>1 DEF TokensInv, OneAtATime
  <2> QED
    BY <2>2, <2>3 DEF Making
<1>3. NothingShown(ui', srv', net')
  BY <1>0, <1>1 DEF TokensInv, NothingShown
<1>4. ControlsEnd'
  BY TakenEnds DEF TokensInv, TokenRequests
<1> QED
  BY <1>1, <1>2, <1>3, <1>4 DEF TokensInv

\* A request about no creation is sent, after another such was taken perhaps.
LEMMA TokensRead ==
  ASSUME TokensInv, NEW n, TokenRequests(n), \A k \in TokenKinds : n[k] \subseteq net[k],
         NEW kind \in {"tokens", "revoke"}, NEW ops, NEW arg, "create" \notin ops,
         kind = "revoke" => ops = {},
         net' = Sending(n, kind, ops, arg), UNCHANGED srv, IsTokensUi(ui'),
         ui'.secret = ui.secret, ui.busy \subseteq ui'.busy, ControlsEnd'
  PROVE  TokensInv'
<1>0. "create" \in TokenKinds /\ kind \in TokenKinds /\ kind # "create"
  BY DEF TokenKinds
<1> DEFINE r == Request(ops, arg)
<1>1. r.ops = ops
  BY RequestFields
<1>2. TokenRequest(kind, r)
  BY <1>0, <1>1 DEF TokenRequest
<1>3. /\ TokenRequests(net') /\ net'[kind] = n[kind] \cup {r}
      /\ \A k \in TokenKinds \ {kind} : net'[k] = n[k]
  BY <1>0, <1>2, TokensSending
<1> HIDE DEF r
<1>4. ~Making(r)
  BY <1>1 DEF Making
<1>5. \A k \in TokenKinds : \A q \in net'[k] : Making(q) => q \in net[k]
  BY <1>3, <1>4
<1>6. OneAtATime(ui', net')
  BY <1>5 DEF TokensInv, OneAtATime
<1>7. NothingShown(ui', srv', net')
  BY <1>0, <1>3 DEF TokensInv, NothingShown
<1> QED
  BY <1>3, <1>6, <1>7 DEF TokensInv

-----------------------------------------------------------------------------
\* The button of the form is disabled while a creation is under way.
LEMMA CreateTokenStep ==
  ASSUME TokensInv, TokenForm \/ CreateToken
  PROVE  TokensInv'
<1>0. "create" \in TokenKinds
  BY DEF TokenKinds
<1>1. CASE TokenForm
  <2> DEFINE closed == [ui EXCEPT !.form = FALSE]
             opened == [ui EXCEPT !.form = TRUE, !.secret = None]
  <2>1. /\ IsTokensUi(closed) /\ closed.busy = ui.busy /\ closed.secret = ui.secret
        /\ IsTokensUi(opened) /\ opened.busy = ui.busy /\ opened.secret = None
    BY DEF TokensInv, IsTokensUi
  <2>2. (ui' = closed \/ ui' = opened) /\ net' = net /\ srv' = srv
    BY <1>1 DEF TokenForm, Show
  <2> HIDE DEF closed, opened
  <2>3. ControlsEnd'
    BY <2>1, <2>2, ShownEnds DEF TokensInv
  <2> QED
    BY <2>1, <2>2, <2>3 DEF TokensInv, OneAtATime, NothingShown
<1>2. CASE CreateToken
  <2> DEFINE u == [ui EXCEPT !.secret = None]
             r == Request({"create"}, None)
  <2>1. IsTokensUi(u) /\ u.busy = ui.busy /\ u.secret = None
    BY DEF TokensInv, IsTokensUi
  <2>2. /\ ui' = Busy(u, {"create"}) /\ net' = Sending(net, "create", {"create"}, None)
        /\ srv' = srv /\ "create" \notin ui.busy
    BY <1>2 DEF CreateToken, Ask
  <2> HIDE DEF u
  <2>3. IsTokensUi(ui') /\ ui'.busy = ui.busy \cup {"create"} /\ ui'.secret = None
    BY <2>1, <2>2, TokensFlags
  <2>4. r.ops = {"create"} /\ r.ans = None
    BY RequestFields
  <2>5. /\ TokenRequests(net') /\ net'["create"] = net["create"] \cup {r}
        /\ \A k \in TokenKinds \ {"create"} : net'[k] = net[k]
    <3>1. TokenRequest("create", r)
      BY <2>4 DEF TokenRequest
    <3> QED
      BY <1>0, <2>2, <3>1, TokensSending DEF TokensInv
  <2> HIDE DEF r
  <2>6. \A k \in TokenKinds : \A q \in net[k] : ~Making(q)
    BY <2>2 DEF TokensInv, OneAtATime
  <2>7. \A k \in TokenKinds : \A q \in net'[k] : Making(q) => k = "create" /\ q = r
    BY <2>5, <2>6
  <2>8. OneAtATime(ui', net')
    BY <2>3, <2>7 DEF OneAtATime
  <2>9. NothingShown(ui', srv', net')
    BY <2>2, <2>3, <2>4, <2>5 DEF TokensInv, NothingShown
  <2>10. ControlsEnd'
    BY <1>0, <2>2, <2>3, SentEnds DEF TokensInv, TokenRequests
  <2> QED
    BY <2>2, <2>3, <2>5, <2>8, <2>9, <2>10 DEF TokensInv
<1> QED
  BY <1>1, <1>2

LEMMA TokensServeStep ==
  ASSUME TokensInv, ServeCreateToken \/ ServeRevoke \/ ServeTokens
  PROVE  TokensInv'
<1>0. {"create", "revoke", "tokens"} \subseteq TokenKinds
  BY DEF TokenKinds
<1>1. CASE ServeCreateToken
  <2>1. PICK q \in Asked("tokens", "create") :
          Serve("create", q, [tokens |-> Append(srv.tokens, "active"),
                              newest |-> IF q.live THEN Len(srv.tokens) + 1 ELSE srv.newest],
                Len(srv.tokens) + 1)
    BY <1>1 DEF ServeCreateToken
  <2> DEFINE id == Len(srv.tokens) + 1
             newest == IF q.live THEN id ELSE srv.newest
  <2>2. /\ ui' = ui /\ net' = Executed(net, "create", q, id)
        /\ srv' = [tokens |-> Append(srv.tokens, "active"), newest |-> newest]
    BY <2>1 DEF Serve
  <2>3. IsTokensSrv(srv') /\ srv'.newest = newest
    BY <2>2 DEF IsTokensSrv
  <2> QED
    BY <1>0, <2>2, <2>3, TokensAnswers, TokensExecuted
<1>2. CASE ServeRevoke
  <2>1. PICK q \in Asked("tokens", "revoke") :
          Serve("revoke", q, [srv EXCEPT !.tokens[q.arg] = "revoked"], "done")
    BY <1>2 DEF ServeRevoke
  <2>2. /\ ui' = ui /\ net' = Executed(net, "revoke", q, "done")
        /\ srv' = [srv EXCEPT !.tokens[q.arg] = "revoked"]
    BY <2>1 DEF Serve
  <2>3. IsTokensSrv(srv') /\ srv'.newest = srv.newest
    BY <2>2 DEF TokensInv, IsTokensSrv
  <2> QED
    BY <1>0, <2>2, <2>3, TokensAnswers, TokensExecuted
<1>3. CASE ServeTokens
  <2>1. PICK q \in Asked("tokens", "tokens") :
          ui' = ui /\ net' = Executed(net, "tokens", q, srv.tokens) /\ srv' = srv
    BY <1>3 DEF ServeTokens, Serve
  <2>2. IsTokensSrv(srv')
    BY <2>1 DEF TokensInv
  <2> QED
    BY <1>0, <2>1, <2>2, TokensAnswers, TokensExecuted
<1> QED
  BY <1>1, <1>2, <1>3

\* What is created is shown, and the list is read as the next step of the creation.
LEMMA TokenCreatedStep ==
  ASSUME TokensInv, TokenCreated
  PROVE  TokensInv'
<1>0. {"create", "tokens"} \subseteq TokenKinds
  BY DEF TokenKinds
<1>1. PICK q \in Answers("tokens", "create") :
        IF Refused(q) THEN Take("create", q, ui)
        ELSE /\ ui' = Busy([ui EXCEPT !.secret = q.ans], {"list"})
             /\ net' = Sending(Taking(net, "create", q), "tokens", q.ops \cup {"list"}, None)
             /\ UNCHANGED srv
  BY DEF TokenCreated
<1>2. q \in net["create"] /\ q.live /\ q.ans # None /\ q.ops = {"create"} /\ Making(q)
  BY <1>0, TokensAnswers DEF TokensInv, TokenRequests, TokenRequest, Making
<1>3. CASE Refused(q)
  <2>1. ui' = Free(ui, q.ops) /\ net' = Taking(net, "create", q) /\ srv' = srv
    BY <1>1, <1>3 DEF Take
  <2>2. IsTokensUi(ui') /\ ui'.busy = ui.busy \ q.ops /\ ui'.secret = ui.secret
    BY <2>1, TokensFlags DEF TokensInv
  <2> QED
    BY <1>0, <1>2, <2>1, <2>2, TokensTaken
<1>4. CASE ~Refused(q)
  <2> DEFINE u == [ui EXCEPT !.secret = q.ans]
             n == Taking(net, "create", q)
             ops == q.ops \cup {"list"}
             r == Request(ops, None)
  <2>1. IsTokensUi(u) /\ u.busy = ui.busy /\ u.secret = q.ans
    BY DEF TokensInv, IsTokensUi
  <2>2. ui' = Busy(u, {"list"}) /\ net' = Sending(n, "tokens", ops, None) /\ srv' = srv
    BY <1>1, <1>4
  <2> HIDE DEF u
  <2>3. IsTokensUi(ui') /\ ui'.busy = ui.busy \cup {"list"} /\ ui'.secret = q.ans
    BY <2>1, <2>2, TokensFlags
  <2>4. q.ans = srv.newest
    BY <1>2, <1>4 DEF TokensInv, NothingShown, Refused
  <2>5. /\ TokenRequests(n) /\ n["create"] = net["create"] \ {q}
        /\ \A k \in TokenKinds \ {"create"} : n[k] = net[k]
    BY <1>0, TokensTaking DEF TokensInv
  <2>6. /\ TokenRequests(net') /\ net'["tokens"] = n["tokens"] \cup {r}
        /\ \A k \in TokenKinds \ {"tokens"} : net'[k] = n[k]
    <3>1. TokenRequest("tokens", r)
      BY DEF TokenRequest
    <3>2. "tokens" \in TokenKinds
      BY <1>0
    <3> HIDE DEF n, ops
    <3> QED
      BY <2>2, <2>5, <3>1, <3>2, TokensSending
  <2> HIDE DEF n, r
  <2>7. \A k \in TokenKinds : \A x \in net[k] : Making(x) => k = "create" /\ x = q /\ "create" \in ui.busy
    BY <1>0, <1>2 DEF TokensInv, OneAtATime
  <2>8. \A k \in TokenKinds : \A x \in net'[k] : Making(x) => k = "tokens" /\ x = r
    BY <2>5, <2>6, <2>7
  <2>9. OneAtATime(ui', net')
    BY <1>0, <1>2, <2>3, <2>7, <2>8 DEF OneAtATime
  <2>10. NothingShown(ui', srv', net')
    <3>1. net'["create"] = net["create"] \ {q} /\ \A x \in net["create"] \ {q} : ~x.live
      BY <1>0, <1>2, <2>5, <2>6, <2>7 DEF TokensInv, TokenRequests, TokenRequest, Making
    <3> QED
      BY <3>1 DEF NothingShown
  <2>11. ControlsEnd'
    <3>1. net' = Sending(Taking(net, "create", q), "tokens", ops, None)
      BY <2>2 DEF n
    <3>2. \A op \in ui'.busy : op \in ops \/ (op \in ui.busy /\ ~(q.live /\ op \in q.ops))
      BY <2>3
    <3> HIDE DEF ops
    <3> QED
      BY <1>0, <3>1, <3>2, FurtherEnds DEF TokensInv, TokenRequests
  <2> QED
    BY <2>2, <2>3, <2>4, <2>6, <2>9, <2>10, <2>11 DEF TokensInv
<1> QED
  BY <1>3, <1>4

LEMMA TokensListStep ==
  ASSUME TokensInv, RevokeToken \/ RevokeArrives \/ TokensArrive
  PROVE  TokensInv'
<1>0. {"revoke", "tokens"} \subseteq TokenKinds
  BY DEF TokenKinds
<1>1. CASE RevokeToken
  <2>1. ui' = ui /\ srv' = srv /\ \E i : net' = Sending(net, "revoke", {}, i)
    BY <1>1 DEF RevokeToken
  <2>2. ControlsEnd'
    BY <1>0, <2>1, SentEnds DEF TokensInv, TokenRequests
  <2>3. IsTokensUi(ui') /\ TokenRequests(net)
    BY <2>1 DEF TokensInv
  <2> QED
    BY <2>1, <2>2, <2>3, TokensRead
<1>2. CASE RevokeArrives
  <2>1. PICK q \in Answers("tokens", "revoke") :
          IF Refused(q) THEN Take("revoke", q, ui)
          ELSE /\ ui' = Busy(ui, {"list"})
               /\ net' = Sending(Taking(net, "revoke", q), "tokens", {"list"}, None)
               /\ UNCHANGED srv
    BY <1>2 DEF RevokeArrives
  <2>2. q \in net["revoke"] /\ q.ops = {} /\ q.live
    BY <1>0, TokensAnswers DEF TokensInv, TokenRequests, TokenRequest
  <2>3. CASE Refused(q)
    <3>1. ui' = Free(ui, q.ops) /\ net' = Taking(net, "revoke", q) /\ srv' = srv
      BY <2>1, <2>3 DEF Take
    <3>2. IsTokensUi(ui') /\ ui'.busy = ui.busy \ q.ops /\ ui'.secret = ui.secret
      BY <3>1, TokensFlags DEF TokensInv
    <3> QED
      BY <1>0, <2>2, <3>1, <3>2, TokensTaken
  <2>4. CASE ~Refused(q)
    <3> DEFINE n == Taking(net, "revoke", q)
    <3>1. ui' = Busy(ui, {"list"}) /\ net' = Sending(n, "tokens", {"list"}, None) /\ srv' = srv
      BY <2>1, <2>4
    <3>2. IsTokensUi(ui') /\ ui'.busy = ui.busy \cup {"list"} /\ ui'.secret = ui.secret
      BY <3>1, TokensFlags DEF TokensInv
    <3>3. TokenRequests(n) /\ \A k \in TokenKinds : n[k] \subseteq net[k]
      BY <1>0, TokensTaking DEF TokensInv
    <3>4. ControlsEnd'
      <4>1. \A op \in ui'.busy :
              op \in {"list"} \/ (op \in ui.busy /\ ~(q.live /\ op \in q.ops))
        BY <2>2, <3>2
      <4> QED
        BY <1>0, <3>1, <4>1, FurtherEnds DEF TokensInv, TokenRequests
    <3> HIDE DEF n
    <3> QED
      BY <3>1, <3>2, <3>3, <3>4, TokensRead
  <2> QED
    BY <2>3, <2>4
<1>3. CASE TokensArrive
  <2>1. PICK q \in Answers("tokens", "tokens") :
          Take("tokens", q, [ui EXCEPT !.tokens = IF Refused(q) THEN @ ELSE q.ans])
    BY <1>3 DEF TokensArrive
  <2> DEFINE u == [ui EXCEPT !.tokens = IF Refused(q) THEN @ ELSE q.ans]
  <2>2. IsTokensUi(u) /\ u.busy = ui.busy /\ u.secret = ui.secret
    BY DEF TokensInv, IsTokensUi
  <2>3. ui' = Free(u, q.ops) /\ net' = Taking(net, "tokens", q) /\ srv' = srv
    BY <2>1 DEF Take
  <2> HIDE DEF u
  <2>4. IsTokensUi(ui') /\ ui'.busy = ui.busy \ q.ops /\ ui'.secret = ui.secret
    BY <2>2, <2>3, TokensFlags
  <2> QED
    BY <1>0, <2>3, <2>4, TokensAnswers, TokensTaken
<1> QED
  BY <1>1, <1>2, <1>3

\* A card that is mounted again shows nothing, and the requests of the last are
\* not live.
LEMMA TokensLeaveStep ==
  ASSUME TokensInv, TokensLeave
  PROVE  TokensInv'
<1> DEFINE n == AllCancelled(net)
           r == Request({"list"}, None)
<1>0. {"create", "tokens"} \subseteq TokenKinds
  BY DEF TokenKinds
<1>1. /\ ui' = [ui EXCEPT !.busy = {"list"}, !.tokens = <<>>, !.form = FALSE, !.secret = None]
      /\ net' = Sending(n, "tokens", {"list"}, None) /\ srv' = srv
  BY DEF TokensLeave
<1>2. IsTokensUi(ui') /\ ui'.busy = {"list"} /\ ui'.secret = None
  BY <1>1 DEF TokensInv, IsTokensUi
<1>3. /\ IsNet(n, TokenKinds)
      /\ \A k \in TokenKinds : \A x \in n[k] : ~x.live /\ \E q \in net[k] : x.ops = q.ops
  BY AllCancelledNet DEF TokensInv, TokenRequests
<1>4. TokenRequests(n)
  BY <1>3 DEF TokensInv, TokenRequests, TokenRequest
<1> HIDE DEF n
<1>5. r.ops = {"list"} /\ TokenRequest("tokens", r)
  BY RequestFields DEF TokenRequest
<1>6. /\ TokenRequests(net') /\ net'["tokens"] = n["tokens"] \cup {r}
      /\ \A k \in TokenKinds \ {"tokens"} : net'[k] = n[k]
  BY <1>0, <1>1, <1>4, <1>5, TokensSending
<1> HIDE DEF r
<1>7. \A k \in TokenKinds : \A x \in net'[k] : ~Making(x)
  BY <1>3, <1>5, <1>6 DEF Making
<1>8. OneAtATime(ui', net') /\ NothingShown(ui', srv', net')
  BY <1>0, <1>2, <1>3, <1>6, <1>7 DEF OneAtATime, NothingShown
<1>9. ControlsEnd'
  BY <1>0, <1>1, <1>2, <1>3, SendingNet, ControlsInFlightNext
<1> QED
  BY <1>1, <1>2, <1>6, <1>8, <1>9 DEF TokensInv

LEMMA TokensInit == TokensStart => TokensInv
<1> SUFFICES ASSUME TokensStart PROVE TokensInv
  OBVIOUS
<1> DEFINE r == Request({"list"}, None)
<1>0. {"create", "tokens"} \subseteq TokenKinds
  BY DEF TokenKinds
<1>1. /\ net = [kind \in TokenKinds |-> net[kind]] /\ net["tokens"] = {r}
      /\ \A kind \in TokenKinds \ {"tokens"} : net[kind] = {}
  BY <1>0 DEF TokensStart
<1>2. IsRequest(r) /\ r.ops = {"list"} /\ r.live
  BY RequestFields
<1> HIDE DEF r
<1>3. TokenRequests(net) /\ \A k \in TokenKinds : \A q \in net[k] : ~Making(q)
  BY <1>1, <1>2 DEF TokenRequests, IsNet, TokenRequest, Making
<1>4. /\ IsTokensUi(ui) /\ ui.busy = {"list"} /\ ui.secret = None
      /\ IsTokensSrv(srv)
  BY DEF TokensStart, IsTokensUi, IsTokensSrv
<1>5. ControlsEnd
  BY <1>0, <1>1, <1>2, <1>4 DEF ControlsEnd, ControlsEndBut
<1>6. OneAtATime(ui, net) /\ NothingShown(ui, srv, net)
  BY <1>0, <1>1, <1>3 DEF OneAtATime, NothingShown
<1> QED
  BY <1>3, <1>4, <1>5, <1>6 DEF TokensInv

LEMMA TokensInvNext ==
  ASSUME TokensInv, [TokensNext \/ Discard \/ Fail]_vars
  PROVE  TokensInv'
<1>1. CASE UNCHANGED vars
  BY <1>1 DEF TokensInv, ControlsEnd, ControlsEndBut, vars
<1>2. CASE Discard
  <2>1. PICK kind \in TokenKinds : \E q \in net[kind] : ~q.live /\ net' = Taking(net, kind, q)
    BY <1>2, DiscardedRequest DEF TokensInv, TokenRequests
  <2>2. ui' = ui /\ srv' = srv
    BY <1>2, DiscardedRequest DEF TokensInv, TokenRequests
  <2>3. IsTokensUi(ui')
    BY <2>2 DEF TokensInv
  <2> QED
    BY <2>1, <2>2, <2>3, TokensTaken
<1>3. CASE Fail
  <2>1. PICK kind \in TokenKinds : \E q \in net[kind] : net' = Executed(net, kind, q, Failed)
    BY <1>3, FailedRequest DEF TokensInv, TokenRequests
  <2>2. ui' = ui /\ srv' = srv
    BY <1>3, FailedRequest DEF TokensInv, TokenRequests
  <2>3. IsTokensSrv(srv')
    BY <2>2 DEF TokensInv
  <2> QED
    BY <2>1, <2>2, <2>3, TokensExecuted
<1> QED
  BY <1>1, <1>2, <1>3, CreateTokenStep, TokensServeStep, TokenCreatedStep, TokensListStep,
     TokensLeaveStep DEF TokensNext

-----------------------------------------------------------------------------
(* The subscription form *)

IsFormUi(u) ==
  u \in [at: {"subscription"}, busy: {u.busy}, status: {u.status}, awaiting: BOOLEAN]

FormInv == IsFormUi(ui) /\ IsNet(net, SubscriptionKinds) /\ ControlsEnd

LEMMA FormAsk ==
  ASSUME FormInv, NEW kind \in SubscriptionKinds, NEW ops, NEW arg,
         ui' = Busy(ui, ops) \/ (ui' = ui /\ ops = {}), net' = Sending(net, kind, ops, arg)
  PROVE  FormInv'
<1>1. IsFormUi(ui') /\ ui'.busy = ui.busy \cup ops
  BY DEF FormInv, IsFormUi, Busy
<1>2. IsNet(net', SubscriptionKinds)
  BY SendingNet DEF FormInv
<1>3. ControlsEnd'
  BY <1>1, SentEnds DEF FormInv
<1> QED
  BY <1>1, <1>2, <1>3 DEF FormInv

LEMMA FormServe ==
  ASSUME FormInv, NEW kind \in SubscriptionKinds, NEW q \in Asked("subscription", kind),
         NEW s, NEW ans, Serve(kind, q, s, ans)
  PROVE  FormInv'
<1>1. ui' = ui /\ net' = Executed(net, kind, q, ans) /\ q \in net[kind]
  BY DEF Serve, Asked
<1>2. IsNet(net', SubscriptionKinds)
  BY <1>1, ExecutedNet DEF FormInv
<1>3. ControlsEnd'
  BY <1>1, ExecutedEnds DEF FormInv
<1> QED
  BY <1>1, <1>2, <1>3 DEF FormInv

LEMMA FormTake ==
  ASSUME FormInv, NEW kind \in SubscriptionKinds, NEW q, NEW u, IsFormUi(u), u.busy = ui.busy,
         Take(kind, q, u)
  PROVE  FormInv'
<1>1. ui' = Free(u, q.ops) /\ net' = Taking(net, kind, q)
  BY DEF Take
<1>2. IsFormUi(ui') /\ ui'.busy = ui.busy \ q.ops
  BY <1>1 DEF IsFormUi, Free
<1>3. IsNet(net', SubscriptionKinds)
  BY <1>1, TakingNet DEF FormInv
<1>4. ControlsEnd'
  BY <1>1, <1>2, TakenEnds DEF FormInv
<1> QED
  BY <1>2, <1>3, <1>4 DEF FormInv

\* The operation goes on with reading the state.
LEMMA FormFurther ==
  ASSUME FormInv, NEW kind \in SubscriptionKinds, NEW q, NEW arg, Further(kind, q, ui, "status", arg)
  PROVE  FormInv'
<1>0. "status" \in SubscriptionKinds
  BY DEF SubscriptionKinds
<1>1. ui' = ui /\ net' = Sending(Taking(net, kind, q), "status", q.ops, arg)
  BY DEF Further
<1>2. IsNet(net', SubscriptionKinds)
  BY <1>0, <1>1, TakingNet, SendingNet DEF FormInv
<1>3. ControlsEnd'
  BY <1>0, <1>1, FurtherEnds DEF FormInv
<1> QED
  BY <1>1, <1>2, <1>3 DEF FormInv

LEMMA FormAsksStep ==
  ASSUME FormInv, Redeem \/ Checkout \/ CancelSubscription \/ PaymentTick \/ Pay \/ Webhook
                  \/ StopAwaiting \/ SubscriptionLeaves
  PROVE  FormInv'
<1>0. {"redeem", "checkout", "cancel", "cancelWhop", "status", "sync"} \subseteq SubscriptionKinds
  BY DEF SubscriptionKinds
<1>1. CASE Redeem
  BY <1>0, <1>1, FormAsk DEF Redeem, SubscriptionAsks, Ask
<1>2. CASE Checkout
  BY <1>0, <1>2, FormAsk DEF Checkout, SubscriptionAsks, Ask
<1>3. CASE CancelSubscription
  BY <1>0, <1>3, FormAsk DEF CancelSubscription, SubscriptionAsks, Ask
<1>4. CASE PaymentTick
  BY <1>0, <1>4, FormAsk DEF PaymentTick
<1>5. CASE Pay \/ Webhook
  <2>1. ui' = ui /\ net' = net
    BY <1>5 DEF Pay, Webhook
  <2> QED
    BY <2>1, ShownEnds DEF FormInv
<1>6. CASE StopAwaiting
  <2>1. ui' = [ui EXCEPT !.awaiting = FALSE] /\ net' = net
    BY <1>6 DEF StopAwaiting, Show
  <2>2. IsFormUi(ui') /\ ui'.busy = ui.busy
    BY <2>1 DEF FormInv, IsFormUi
  <2> QED
    BY <2>1, <2>2, ShownEnds DEF FormInv
<1>7. CASE SubscriptionLeaves
  <2>1. ui' = [ui EXCEPT !.busy = {}, !.awaiting = FALSE] /\ net' = AllCancelled(net)
    BY <1>7 DEF SubscriptionLeaves
  <2>2. IsFormUi(ui') /\ ui'.busy = {}
    BY <2>1 DEF FormInv, IsFormUi
  <2>3. IsNet(net', SubscriptionKinds)
    BY <2>1, AllCancelledNet DEF FormInv
  <2>4. ControlsEnd'
    BY <2>2 DEF ControlsEnd, ControlsEndBut
  <2> QED
    BY <2>2, <2>3, <2>4 DEF FormInv
<1> QED
  BY <1>1, <1>2, <1>3, <1>4, <1>5, <1>6, <1>7

LEMMA FormServeStep ==
  ASSUME FormInv, ServeRedeem \/ ServeCheckout \/ ServeSync \/ ServeSubscription \/ ServeCancel
  PROVE  FormInv'
<1>0. {"redeem", "checkout", "cancel", "cancelWhop", "status", "sync"} \subseteq SubscriptionKinds
  BY DEF SubscriptionKinds
<1>1. CASE ServeRedeem
  BY <1>0, <1>1, FormServe DEF ServeRedeem
<1>2. CASE ServeCheckout
  BY <1>0, <1>2, FormServe DEF ServeCheckout
<1>3. CASE ServeSync
  BY <1>0, <1>3, FormServe DEF ServeSync
<1>4. CASE ServeSubscription
  BY <1>0, <1>4, FormServe DEF ServeSubscription
<1>5. CASE ServeCancel
  BY <1>0, <1>5, FormServe DEF ServeCancel
<1> QED
  BY <1>1, <1>2, <1>3, <1>4, <1>5

\* What an answer makes of the form.
LEMMA FormShows ==
  /\ \A status : IsFormUi(ui) => IsFormUi([ui EXCEPT !.status = status])
                                 /\ [ui EXCEPT !.status = status].busy = ui.busy
  /\ \A b \in BOOLEAN : IsFormUi(ui) => IsFormUi([ui EXCEPT !.awaiting = b])
                                        /\ [ui EXCEPT !.awaiting = b].busy = ui.busy
  /\ \A status : \A b \in BOOLEAN :
       IsFormUi(ui) => IsFormUi([ui EXCEPT !.status = status, !.awaiting = b])
                       /\ [ui EXCEPT !.status = status, !.awaiting = b].busy = ui.busy
  BY DEF IsFormUi

LEMMA FormTakeStep ==
  ASSUME FormInv, RedeemArrives \/ CheckoutArrives \/ SyncArrives \/ SubscriptionArrives
                  \/ CancelArrives
  PROVE  FormInv'
<1>0. {"redeem", "checkout", "cancel", "cancelWhop", "status", "sync"} \subseteq SubscriptionKinds
  BY DEF SubscriptionKinds
<1>a. IsFormUi(ui)
  BY DEF FormInv
<1>1. CASE RedeemArrives
  <2>1. PICK q :
          \/ Take("redeem", q, [ui EXCEPT !.status = <<"active", "promo">>])
          \/ Further("redeem", q, ui, "status", "user")
          \/ Take("redeem", q, ui)
    BY <1>1 DEF RedeemArrives
  <2> QED
    BY <1>0, <1>a, <2>1, FormShows, FormTake, FormFurther
<1>2. CASE CheckoutArrives
  <2>1. PICK q : Take("checkout", q, [ui EXCEPT !.awaiting = @ \/ ~Refused(q)])
    BY <1>2 DEF CheckoutArrives
  <2> DEFINE awaiting == ui.awaiting \/ ~Refused(q)
  <2>2. awaiting \in BOOLEAN /\ Take("checkout", q, [ui EXCEPT !.awaiting = awaiting])
    BY <2>1
  <2> HIDE DEF awaiting
  <2> QED
    BY <1>0, <1>a, <2>2, FormShows, FormTake
<1>3. CASE SyncArrives
  BY <1>0, <1>3, FormFurther DEF SyncArrives
<1>4. CASE SubscriptionArrives
  <2>1. PICK q : Take("status", q,
                   IF Refused(q) THEN ui
                   ELSE [ui EXCEPT !.status = q.ans,
                                   !.awaiting = @ /\ ~(q.arg = "tick" /\ q.ans[1] = "active")])
    BY <1>4 DEF SubscriptionArrives
  <2> DEFINE awaiting == ui.awaiting /\ ~(q.arg = "tick" /\ q.ans[1] = "active")
             u == [ui EXCEPT !.status = q.ans, !.awaiting = awaiting]
  <2>2. awaiting \in BOOLEAN /\ Take("status", q, IF Refused(q) THEN ui ELSE u)
    BY <2>1
  <2> HIDE DEF awaiting
  <2>3. IsFormUi(u) /\ u.busy = ui.busy
    BY <1>a, <2>2, FormShows
  <2> HIDE DEF u
  <2> QED
    BY <1>0, <1>a, <2>2, <2>3, FormTake
<1>5. CASE CancelArrives
  <2>1. \/ \E q : Take("cancel", q, ui)
        \/ \E q : Take("cancel", q, [ui EXCEPT !.status = <<"inactive", "none">>])
        \/ \E q : Take("cancelWhop", q, ui)
        \/ \E q : Further("cancelWhop", q, ui, "status", "user")
    BY <1>5 DEF CancelArrives
  <2> QED
    BY <1>0, <1>a, <2>1, FormShows, FormTake, FormFurther
<1> QED
  BY <1>1, <1>2, <1>3, <1>4, <1>5

LEMMA FormInit ==
  ASSUME NEW status, SubscriptionStart(status)
  PROVE  FormInv
<1>1. IsFormUi(ui) /\ ui.busy = {}
  BY DEF SubscriptionStart, IsFormUi
<1>2. IsRequest(Request({}, "first"))
  BY RequestFields
<1>3. IsNet(net, SubscriptionKinds)
  BY <1>2 DEF SubscriptionStart, IsNet
<1> QED
  BY <1>1, <1>3 DEF FormInv, ControlsEnd, ControlsEndBut

LEMMA FormInvNext ==
  ASSUME FormInv, [SubscriptionNext \/ Discard \/ Fail]_vars
  PROVE  FormInv'
<1>1. CASE UNCHANGED vars
  BY <1>1 DEF FormInv, ControlsEnd, ControlsEndBut, vars
<1>2. CASE Discard
  <2>1. PICK kind \in SubscriptionKinds : \E q \in net[kind] : ~q.live /\ net' = Taking(net, kind, q)
    BY <1>2, DiscardedRequest DEF FormInv
  <2>2. PICK q \in net[kind] : ~q.live /\ net' = Taking(net, kind, q)
    BY <2>1
  <2>3. ui' = ui
    BY <1>2, DiscardedRequest DEF FormInv
  <2>4. IsNet(net', SubscriptionKinds) /\ ControlsEnd'
    BY <2>2, <2>3, TakingNet, TakenEnds DEF FormInv
  <2> QED
    BY <2>3, <2>4 DEF FormInv
<1>3. CASE Fail
  <2>1. PICK kind \in SubscriptionKinds : \E q \in net[kind] : net' = Executed(net, kind, q, Failed)
    BY <1>3, FailedRequest DEF FormInv
  <2>2. PICK q \in net[kind] : net' = Executed(net, kind, q, Failed)
    BY <2>1
  <2>3. ui' = ui
    BY <1>3, FailedRequest DEF FormInv
  <2>4. IsNet(net', SubscriptionKinds) /\ ControlsEnd'
    BY <2>2, <2>3, ExecutedNet, ExecutedEnds DEF FormInv
  <2> QED
    BY <2>3, <2>4 DEF FormInv
<1> QED
  BY <1>1, <1>2, <1>3, FormAsksStep, FormServeStep, FormTakeStep DEF SubscriptionNext

-----------------------------------------------------------------------------
(* The shell of the mini-app *)

IsShellUi(u) ==
  u \in [at: {"shell"}, scenario: {u.scenario}, busy: {u.busy}, space: {u.space},
         accounts: {u.accounts}, page: {u.page}, account: {u.account}, wizard: BOOLEAN,
         linking: {u.linking}, step: {u.step}, target: {u.target}, status: {u.status}]

\* No control waits for these requests.
Unawaited == {"status", "verify", "leave"}

ShellRequests(n) ==
  IsNet(n, ShellKinds) /\ \A kind \in Unawaited : \A q \in n[kind] : q.ops = {}

(***************************************************************************)
(* The requests for the state of an account that are not cancelled are for *)
(* the one selected, and each is answered about the account it names.      *)
(***************************************************************************)
StatusOf(u, n) ==
  \A q \in n["status"] : /\ q.live => q.arg.account = Selected(u)
                         /\ q.ans \notin {None, Failed} => q.ans = q.arg.account

ShellInv == IsShellUi(ui) /\ ShellRequests(net) /\ StatusOf(ui, net) /\ ControlsEnd

(***************************************************************************)
(* The state shown is that of the account selected, or the first request   *)
(* for it is not answered yet: the invariant that StatusOfSelected names.  *)
(***************************************************************************)
Known(u, n) ==
  \/ u.status \in {None, Selected(u)}
  \/ \E q \in n["status"] : q.live /\ q.arg = StatusRequest(Selected(u), TRUE)

StatusKept == Known(ui, net) => Known(ui', net')

\* A request for the state of an account goes on.
StatusLives(n, m) == \A q \in n["status"] : q.live => \E x \in m["status"] : x.live /\ x.arg = q.arg

\* What is selected depends on the accounts and the route alone.
LEMMA SelectedSame ==
  ASSUME NEW u, NEW v, u.accounts = v.accounts, u.account = v.account
  PROVE  Selected(u) = Selected(v)
  BY DEF Selected, Linked

\* A step that selects no other account and whose requests go on.
LEMMA KnownKept ==
  ASSUME ui'.accounts = ui.accounts, ui'.account = ui.account, ui'.status = ui.status,
         StatusLives(net, net')
  PROVE  StatusKept
<1>1. Selected(ui') = Selected(ui)
  BY SelectedSame
<1> QED
  BY <1>1 DEF StatusKept, Known, StatusLives

LEMMA ShellFlags ==
  ASSUME NEW u, IsShellUi(u), NEW S
  PROVE  /\ IsShellUi(Busy(u, S)) /\ Busy(u, S).busy = u.busy \cup S
         /\ Busy(u, S).accounts = u.accounts /\ Busy(u, S).account = u.account
         /\ Busy(u, S).status = u.status
         /\ IsShellUi(Free(u, S)) /\ Free(u, S).busy = u.busy \ S
         /\ Free(u, S).accounts = u.accounts /\ Free(u, S).account = u.account
         /\ Free(u, S).status = u.status
  BY DEF IsShellUi, Busy, Free

LEMMA ShellSending ==
  ASSUME NEW n, ShellRequests(n), NEW kind \in ShellKinds, NEW ops, NEW arg,
         kind \in Unawaited => ops = {}
  PROVE  /\ ShellRequests(Sending(n, kind, ops, arg))
         /\ Sending(n, kind, ops, arg)[kind] = n[kind] \cup {Request(ops, arg)}
         /\ \A k \in ShellKinds \ {kind} : Sending(n, kind, ops, arg)[k] = n[k]
         /\ \A op : InFlight(Sending(n, kind, ops, arg), op) <=> InFlight(n, op) \/ op \in ops
<1> DEFINE m == Sending(n, kind, ops, arg)
<1>0. "status" \in Unawaited /\ Unawaited \subseteq ShellKinds
  BY DEF Unawaited, ShellKinds
<1>1. /\ IsNet(m, ShellKinds) /\ m[kind] = n[kind] \cup {Request(ops, arg)}
      /\ \A k \in ShellKinds \ {kind} : m[k] = n[k]
      /\ \A op : InFlight(m, op) <=> InFlight(n, op) \/ op \in ops
  BY SendingNet DEF ShellRequests
<1>2. Request(ops, arg).ops = ops
  BY RequestFields
<1> HIDE DEF m
<1>3. ShellRequests(m)
  BY <1>0, <1>1, <1>2 DEF ShellRequests
<1> QED
  BY <1>1, <1>3 DEF m

LEMMA ShellTaking ==
  ASSUME NEW n, ShellRequests(n), NEW kind \in ShellKinds, NEW q
  PROVE  /\ ShellRequests(Taking(n, kind, q))
         /\ Taking(n, kind, q)[kind] = n[kind] \ {q}
         /\ \A k \in ShellKinds \ {kind} : Taking(n, kind, q)[k] = n[k]
         /\ \A op : InFlight(n, op) => InFlight(Taking(n, kind, q), op) \/ (q.live /\ op \in q.ops)
<1> DEFINE m == Taking(n, kind, q)
<1>0. "status" \in Unawaited /\ Unawaited \subseteq ShellKinds
  BY DEF Unawaited, ShellKinds
<1>1. /\ IsNet(m, ShellKinds) /\ m[kind] = n[kind] \ {q}
      /\ \A k \in ShellKinds \ {kind} : m[k] = n[k]
      /\ \A op : InFlight(n, op) => InFlight(m, op) \/ (q.live /\ op \in q.ops)
  BY TakingNet DEF ShellRequests
<1> HIDE DEF m
<1>2. ShellRequests(m)
  BY <1>0, <1>1 DEF ShellRequests
<1> QED
  BY <1>1, <1>2 DEF m

\* The effect on the selected account is cleaned up.
LEMMA StatusCancelled ==
  ASSUME NEW n, ShellRequests(n)
  PROVE  LET m == Cancelled(n, "status")
         IN /\ ShellRequests(m)
            /\ \A r \in m["status"] : ~r.live /\ \E q \in n["status"] : r.arg = q.arg /\ r.ans = q.ans
            /\ \A op : InFlight(n, op) => InFlight(m, op)
<1> DEFINE m == Cancelled(n, "status")
<1>0. "status" \in Unawaited /\ Unawaited \subseteq ShellKinds
  BY DEF Unawaited, ShellKinds
<1>1. /\ IsNet(m, ShellKinds) /\ m["status"] = {[q EXCEPT !.live = FALSE] : q \in n["status"]}
      /\ \A k \in ShellKinds \ {"status"} : m[k] = n[k]
      /\ \A op : InFlight(n, op) => InFlight(m, op) \/ \E q \in n["status"] : q.live /\ op \in q.ops
  BY <1>0, CancelledNet DEF ShellRequests
<1>2. \A q \in n["status"] : IsRequest(q) /\ q.ops = {}
  BY <1>0 DEF ShellRequests, IsNet
<1> HIDE DEF m
<1>3. \A r \in m["status"] : /\ ~r.live /\ r.ops = {}
                             /\ \E q \in n["status"] : r.arg = q.arg /\ r.ans = q.ans
  <2> SUFFICES ASSUME NEW r \in m["status"]
               PROVE  /\ ~r.live /\ r.ops = {}
                      /\ \E q \in n["status"] : r.arg = q.arg /\ r.ans = q.ans
    OBVIOUS
  <2>1. PICK q \in n["status"] : r = [q EXCEPT !.live = FALSE]
    BY <1>1
  <2> QED
    BY <1>2, <2>1, CancelledFields
<1>4. ShellRequests(m)
  BY <1>0, <1>1, <1>3 DEF ShellRequests
<1> QED
  BY <1>1, <1>2, <1>3, <1>4 DEF m

\* A step that selects no other account.
LEMMA ShellStays ==
  ASSUME ShellInv, IsShellUi(ui'), ui'.accounts = ui.accounts, ui'.account = ui.account,
         ShellRequests(net'), StatusOf(ui, net'), ControlsEnd'
  PROVE  ShellInv'
<1>1. Selected(ui') = Selected(ui)
  BY SelectedSame
<1>2. StatusOf(ui', net')
  BY <1>1 DEF StatusOf
<1> QED
  BY <1>2 DEF ShellInv

\* A render, whatever it does to the selection.
LEMMA CommitStep ==
  ASSUME ShellInv, NEW u, IsShellUi(u), NEW n, ShellRequests(n),
         n["status"] = net["status"], u.status = ui.status, \A op \in u.busy : InFlight(n, op),
         Commit(u, n)
  PROVE  ShellInv' /\ StatusKept
<1> DEFINE sel == Selected(u)
           kept == Cancelled(n, "status")
<1>0. "status" \in Unawaited /\ Unawaited \subseteq ShellKinds
  BY DEF Unawaited, ShellKinds
<1>1. /\ ui' = IF sel = None THEN [u EXCEPT !.status = None] ELSE u
      /\ net' = CASE sel = Selected(ui) -> n
                  [] sel # Selected(ui) /\ sel = None -> kept
                  [] OTHER -> Sending(kept, "status", {}, StatusRequest(sel, TRUE))
  BY DEF Commit
<1>2. /\ IsShellUi(ui') /\ ui'.busy = u.busy /\ ui'.accounts = u.accounts
      /\ ui'.account = u.account /\ ui'.status \in {None, u.status}
  BY <1>1 DEF IsShellUi
<1>3. Selected(ui') = sel
  BY <1>2, SelectedSame
<1>4. /\ ShellRequests(kept) /\ \A op : InFlight(n, op) => InFlight(kept, op)
      /\ \A r \in kept["status"] : ~r.live /\ \E q \in n["status"] : r.arg = q.arg /\ r.ans = q.ans
  BY StatusCancelled
<1>5. \A q \in n["status"] : /\ q.live => q.arg.account = Selected(ui)
                             /\ q.ans \notin {None, Failed} => q.ans = q.arg.account
  BY DEF ShellInv, StatusOf
<1>b. sel = None => ui'.status = None
  BY <1>1 DEF IsShellUi
<1> HIDE DEF sel, kept
<1>6. /\ ShellRequests(net') /\ \A op : InFlight(n, op) => InFlight(net', op)
      /\ \A q \in net'["status"] : /\ q.live => q.arg.account = sel
                                   /\ q.ans \notin {None, Failed} => q.ans = q.arg.account
      /\ StatusKept
  <2>a. sel = None => StatusKept
    BY <1>b DEF StatusKept, Known
  <2>1. CASE sel = Selected(ui)
    <3>1. net' = n
      BY <1>1, <2>1
    <3>2. StatusKept
      BY <1>2, <1>3, <2>1, <3>1 DEF StatusKept, Known
    <3> QED
      BY <1>1, <1>5, <3>1, <3>2, <2>1
  <2>2. CASE sel # Selected(ui) /\ sel = None
    <3>1. net' = kept
      BY <1>1, <2>2
    <3> QED
      BY <1>4, <1>5, <2>2, <2>a, <3>1
  <2>3. CASE sel # Selected(ui) /\ sel # None
    <3> DEFINE arg == StatusRequest(sel, TRUE)
               r == Request({}, arg)
    <3>1. net' = Sending(kept, "status", {}, arg)
      BY <1>1, <2>3
    <3>2. r.arg = arg /\ r.ans = None /\ r.live /\ arg.account = sel /\ arg = StatusRequest(Selected(ui'), TRUE)
      BY <1>3, RequestFields DEF StatusRequest
    <3> HIDE DEF arg
    <3>3. /\ ShellRequests(net') /\ net'["status"] = kept["status"] \cup {r}
          /\ \A op : InFlight(kept, op) => InFlight(net', op)
      BY <1>0, <1>4, <3>1, ShellSending
    <3> HIDE DEF r
    <3>4. StatusKept
      BY <3>2, <3>3 DEF StatusKept, Known
    <3> QED
      BY <1>4, <1>5, <3>2, <3>3, <3>4
  <2> QED
    BY <2>1, <2>2, <2>3
<1>7. StatusOf(ui', net')
  BY <1>3, <1>6 DEF StatusOf
<1>8. ControlsEnd'
  BY <1>2, <1>6, ControlsInFlightNext
<1> QED
  BY <1>2, <1>6, <1>7, <1>8 DEF ShellInv

LEMMA ShellShow ==
  ASSUME ShellInv, NEW u, IsShellUi(u), u.accounts = ui.accounts, u.account = ui.account,
         u.busy = ui.busy, u.status = ui.status, Show(u)
  PROVE  ShellInv' /\ StatusKept
<1>1. ui' = u /\ net' = net
  BY DEF Show
<1>2. ControlsEnd'
  BY <1>1, ShownEnds DEF ShellInv
<1>3. StatusKept
  BY <1>1, KnownKept DEF StatusLives
<1> QED
  BY <1>1, <1>2, <1>3, ShellStays DEF ShellInv

LEMMA ShellAsk ==
  ASSUME ShellInv, NEW kind \in ShellKinds, NEW ops, NEW arg, net' = Sending(net, kind, ops, arg),
         ui' = Busy(ui, ops) \/ (ui' = ui /\ ops = {}),
         kind \in Unawaited => ops = {}, kind = "status" => arg.account = Selected(ui)
  PROVE  ShellInv' /\ StatusKept
<1> DEFINE r == Request(ops, arg)
<1>0. "status" \in Unawaited /\ Unawaited \subseteq ShellKinds
  BY DEF Unawaited, ShellKinds
<1>1. /\ IsShellUi(ui') /\ ui'.busy = ui.busy \cup ops /\ ui'.accounts = ui.accounts
      /\ ui'.account = ui.account /\ ui'.status = ui.status
  BY ShellFlags DEF ShellInv
<1>2. r.arg = arg /\ r.ans = None
  BY RequestFields
<1>3. /\ ShellRequests(net') /\ net'[kind] = net[kind] \cup {r}
      /\ \A k \in ShellKinds \ {kind} : net'[k] = net[k]
  BY ShellSending DEF ShellInv
<1> HIDE DEF r
<1>4. StatusOf(ui, net')
  <2>1. CASE kind = "status"
    BY <1>2, <1>3, <2>1 DEF ShellInv, StatusOf
  <2>2. CASE kind # "status"
    BY <1>0, <1>3, <2>2 DEF ShellInv, StatusOf
  <2> QED
    BY <2>1, <2>2
<1>5. ControlsEnd'
  BY <1>1, SentEnds DEF ShellInv, ShellRequests
<1>6. StatusKept
  BY <1>0, <1>1, <1>3, KnownKept DEF StatusLives
<1> QED
  BY <1>1, <1>3, <1>4, <1>5, <1>6, ShellStays

\* A request that the server executes, or that fails.
LEMMA ShellExecuted ==
  ASSUME ShellInv, NEW kind \in ShellKinds, NEW q \in net[kind], NEW ans, ui' = ui,
         net' = Executed(net, kind, q, ans),
         kind = "status" => ans = q.arg.account \/ ans = Failed
  PROVE  ShellInv' /\ StatusKept
<1> DEFINE r == [q EXCEPT !.ans = ans]
<1>0. "status" \in Unawaited /\ Unawaited \subseteq ShellKinds
  BY DEF Unawaited, ShellKinds
<1>1. /\ IsNet(net', ShellKinds) /\ net'[kind] = (net[kind] \ {q}) \cup {r}
      /\ \A k \in ShellKinds \ {kind} : net'[k] = net[k]
  BY ExecutedNet DEF ShellInv, ShellRequests
<1>2. r.ops = q.ops /\ r.arg = q.arg /\ r.ans = ans /\ r.live = q.live
  BY AnsweredFields DEF ShellInv, ShellRequests, IsNet
<1> HIDE DEF r
<1>3. ShellRequests(net')
  <2>1. \A k \in Unawaited : \A x \in net'[k] : x \in net[k] \/ (k = kind /\ x = r)
    BY <1>0, <1>1
  <2> QED
    BY <1>1, <1>2, <2>1 DEF ShellInv, ShellRequests
<1>4. StatusOf(ui, net')
  <2>1. CASE kind = "status"
    BY <1>1, <1>2, <2>1 DEF ShellInv, StatusOf
  <2>2. CASE kind # "status"
    BY <1>0, <1>1, <2>2 DEF ShellInv, StatusOf
  <2> QED
    BY <2>1, <2>2
<1>5. ControlsEnd'
  BY ExecutedEnds DEF ShellInv, ShellRequests
<1>6. StatusKept
  BY <1>0, <1>1, <1>2, KnownKept DEF StatusLives
<1> QED
  BY <1>3, <1>4, <1>5, <1>6, ShellStays DEF ShellInv

\* A request that is taken, or gone on with.
LEMMA ShellTaken ==
  ASSUME ShellInv, NEW kind \in ShellKinds, NEW q, net' = Taking(net, kind, q), IsShellUi(ui'),
         ui'.accounts = ui.accounts, ui'.account = ui.account,
         ui'.busy = ui.busy \ q.ops \/ (ui'.busy = ui.busy /\ ~q.live)
  PROVE  /\ ShellInv' /\ net'["status"] = net["status"] \ (IF kind = "status" THEN {q} ELSE {})
         /\ (kind # "status" \/ ~q.live) /\ ui'.status = ui.status => StatusKept
<1>0. "status" \in Unawaited /\ Unawaited \subseteq ShellKinds
  BY DEF Unawaited, ShellKinds
<1>a. ShellRequests(net)
  BY DEF ShellInv
<1> DEFINE n == Taking(net, kind, q)
<1>b. kind \in ShellKinds
  OBVIOUS
<1>c. /\ ShellRequests(n) /\ n[kind] = net[kind] \ {q}
      /\ \A k \in ShellKinds \ {kind} : n[k] = net[k]
  BY ONLY <1>a, <1>b, ShellTaking
<1>1. /\ ShellRequests(net') /\ net'[kind] = net[kind] \ {q}
      /\ \A k \in ShellKinds \ {kind} : net'[k] = net[k]
  BY <1>c
<1>2. StatusOf(ui, net')
  BY <1>0, <1>1 DEF ShellInv, StatusOf
<1>3. ControlsEnd'
  BY TakenEnds DEF ShellInv, ShellRequests
<1>4. net'["status"] = net["status"] \ (IF kind = "status" THEN {q} ELSE {})
  BY <1>0, <1>1
<1>5. ASSUME kind # "status" \/ ~q.live, ui'.status = ui.status PROVE StatusKept
  <2>1. StatusLives(net, net')
    BY <1>4, <1>5 DEF StatusLives
  <2> QED
    BY <1>5, <2>1, KnownKept
<1> QED
  BY <1>1, <1>2, <1>3, <1>4, <1>5, ShellStays

LEMMA ShellTake ==
  ASSUME ShellInv, NEW kind \in ShellKinds \ {"status"}, NEW q, Take(kind, q, ui)
  PROVE  ShellInv' /\ StatusKept
<1>1. ui' = Free(ui, q.ops) /\ net' = Taking(net, kind, q)
  BY DEF Take
<1>2. /\ IsShellUi(ui') /\ ui'.busy = ui.busy \ q.ops /\ ui'.accounts = ui.accounts
      /\ ui'.account = ui.account /\ ui'.status = ui.status
  BY <1>1, ShellFlags DEF ShellInv
<1> QED
  BY <1>1, <1>2, ShellTaken

LEMMA ShellFurther ==
  ASSUME ShellInv, NEW kind \in ShellKinds \ {"status"}, NEW q, NEW next \in ShellKinds \ Unawaited, NEW ops,
         NEW arg, net' = Sending(Taking(net, kind, q), next, ops, arg), q.ops \subseteq ops,
         IsShellUi(ui'), ui'.accounts = ui.accounts, ui'.account = ui.account,
         ui'.busy \subseteq ui.busy \cup ops, ui'.status = ui.status
  PROVE  ShellInv' /\ StatusKept
<1> DEFINE n == Taking(net, kind, q)
<1>0. "status" \in Unawaited /\ Unawaited \subseteq ShellKinds
  BY DEF Unawaited, ShellKinds
<1>1. /\ ShellRequests(n) /\ n[kind] = net[kind] \ {q}
      /\ \A k \in ShellKinds \ {kind} : n[k] = net[k]
  BY ShellTaking DEF ShellInv
<1>2. n["status"] = net["status"]
  BY <1>0, <1>1
<1>3. \A op \in ui'.busy : op \in ops \/ (op \in ui.busy /\ ~(q.live /\ op \in q.ops))
  OBVIOUS
<1>4. ControlsEnd'
  BY <1>3, FurtherEnds DEF ShellInv, ShellRequests
<1>5. net' = Sending(n, next, ops, arg)
  OBVIOUS
<1> HIDE DEF n
<1>6. ShellRequests(net') /\ net'["status"] = n["status"]
  BY <1>0, <1>1, <1>5, ShellSending
<1>7. StatusOf(ui, net')
  BY <1>2, <1>6 DEF ShellInv, StatusOf
<1>8. StatusKept
  BY <1>2, <1>6, KnownKept DEF StatusLives
<1> QED
  BY <1>4, <1>6, <1>7, <1>8, ShellStays

LEMMA ShellAnswers ==
  ASSUME NEW kind
  PROVE  /\ \A q \in Asked("shell", kind) : q \in net[kind]
         /\ \A q \in Answers("shell", kind) : q \in net[kind] /\ q.ans # None /\ q.live
  BY DEF Asked, Answers, Answered

-----------------------------------------------------------------------------
LEMMA ShellServeStep ==
  ASSUME ShellInv, ServeAccounts \/ ServeSession \/ ServeLink \/ ServeStart \/ ServeVerify
                   \/ ServeStatus \/ ServeRemoval \/ ServeLeave
  PROVE  ShellInv' /\ StatusKept
<1>0. ShellKinds = {"session", "accounts", "link", "start", "verify", "remove", "leave", "status"}
  BY DEF ShellKinds
<1>1. ASSUME NEW kind \in ShellKinds, NEW q \in Asked("shell", kind), NEW s, NEW ans,
             Serve(kind, q, s, ans), kind = "status" => ans = q.arg.account
      PROVE  ShellInv' /\ StatusKept
  <2>1. ui' = ui /\ net' = Executed(net, kind, q, ans) /\ q \in net[kind]
    BY <1>1, ShellAnswers DEF Serve
  <2> QED
    BY <1>1, <2>1, ShellExecuted
<1>2. CASE ServeAccounts
  BY <1>0, <1>1, <1>2 DEF ServeAccounts
<1>3. CASE ServeSession
  BY <1>0, <1>1, <1>3 DEF ServeSession
<1>4. CASE ServeLink
  BY <1>0, <1>1, <1>4 DEF ServeLink
<1>5. CASE ServeStart
  BY <1>0, <1>1, <1>5 DEF ServeStart
<1>6. CASE ServeVerify
  BY <1>0, <1>1, <1>6 DEF ServeVerify
<1>7. CASE ServeStatus
  BY <1>0, <1>1, <1>7 DEF ServeStatus
<1>8. CASE ServeRemoval
  BY <1>0, <1>1, <1>8 DEF ServeRemoval
<1>9. CASE ServeLeave
  BY <1>0, <1>1, <1>9 DEF ServeLeave
<1> QED
  BY <1>2, <1>3, <1>4, <1>5, <1>6, <1>7, <1>8, <1>9

LEMMA ShellAskStep ==
  ASSUME ShellInv, Link \/ Verify \/ PollStatus \/ ConfirmRemoval \/ LeaveSpace
  PROVE  ShellInv' /\ StatusKept
<1>0. {"link", "verify", "status", "remove", "leave"} \subseteq ShellKinds /\ "link" \notin Unawaited
      /\ "remove" \notin Unawaited
  BY DEF ShellKinds, Unawaited
<1>1. CASE Link
  BY <1>0, <1>1, ShellAsk DEF Link, Ask
<1>2. CASE Verify
  BY <1>0, <1>2, ShellAsk DEF Verify
<1>3. CASE PollStatus
  <2> DEFINE arg == StatusRequest(Selected(ui), FALSE)
  <2>1. net' = Sending(net, "status", {}, arg) /\ ui' = ui
    BY <1>3 DEF PollStatus
  <2>2. arg.account = Selected(ui)
    BY DEF StatusRequest
  <2> HIDE DEF arg
  <2> QED
    BY <1>0, <2>1, <2>2, ShellAsk
<1>4. CASE ConfirmRemoval
  BY <1>0, <1>4, ShellAsk DEF ConfirmRemoval, Ask
<1>5. CASE LeaveSpace
  BY <1>0, <1>5, ShellAsk DEF LeaveSpace
<1> QED
  BY <1>1, <1>2, <1>3, <1>4, <1>5

\* The wizard and the dialog of a removal.
LEMMA ShellShowStep ==
  ASSUME ShellInv, OpenWizard \/ ResumeWizard \/ CloseWizard \/ SkipPassword \/ AskRemoval
                   \/ CancelRemoval
  PROVE  ShellInv' /\ StatusKept
<1> DEFINE wizard(w, linking, step) == [ui EXCEPT !.wizard = w, !.linking = linking, !.step = step]
           step(x) == [ui EXCEPT !.step = x]
           target(x) == [ui EXCEPT !.target = x]
           Fine(u) == IsShellUi(u) /\ u.accounts = ui.accounts /\ u.account = ui.account
                      /\ u.busy = ui.busy /\ u.status = ui.status
<1>1. /\ \A w \in BOOLEAN : \A a, x : Fine(wizard(w, a, x))
      /\ \A x : Fine(step(x)) /\ Fine(target(x))
  <2>1. ASSUME NEW w \in BOOLEAN, NEW a, NEW x PROVE Fine(wizard(w, a, x))
    BY DEF ShellInv, IsShellUi
  <2>2. ASSUME NEW x PROVE Fine(step(x)) /\ Fine(target(x))
    BY DEF ShellInv, IsShellUi
  <2> QED
    BY <2>1, <2>2
<1>2. \/ \E w \in BOOLEAN : \E a, x : Show(wizard(w, a, x))
      \/ \E x : Show(step(x))
      \/ \E x : Show(target(x))
  <2>1. CASE OpenWizard
    BY <2>1 DEF OpenWizard
  <2>2. CASE ResumeWizard
    BY <2>2 DEF ResumeWizard
  <2>3. CASE CloseWizard
    BY <2>3 DEF CloseWizard
  <2>4. CASE SkipPassword
    BY <2>4 DEF SkipPassword
  <2>5. CASE AskRemoval
    BY <2>5 DEF AskRemoval
  <2>6. CASE CancelRemoval
    BY <2>6 DEF CancelRemoval
  <2> QED
    BY <2>1, <2>2, <2>3, <2>4, <2>5, <2>6
<1>3. PICK u : Fine(u) /\ Show(u)
  <2> HIDE DEF wizard, step, target, Fine
  <2> QED
    BY <1>1, <1>2
<1> QED
  BY <1>3, ShellShow

\* Answers after which nothing else is selected.
LEMMA ShellTakeStep ==
  ASSUME ShellInv, LinkArrives \/ StartArrives \/ VerifyArrives \/ StatusArrives \/ LeaveArrives
  PROVE  ShellInv' /\ StatusKept
<1>0. /\ {"link", "start", "verify", "status", "leave"} \subseteq ShellKinds
      /\ {"start", "accounts", "session"} \subseteq ShellKinds \ Unawaited
      /\ {"verify", "leave"} \subseteq Unawaited
  BY DEF ShellKinds, Unawaited
<1>1. CASE LinkArrives
  <2>1. PICK q : \/ Take("link", q, ui)
                 \/ Further("link", q, [ui EXCEPT !.linking = q.ans], "start", q.ans)
    BY <1>1 DEF LinkArrives
  <2>2. CASE Take("link", q, ui)
    BY <1>0, <2>2, ShellTake
  <2>3. CASE Further("link", q, [ui EXCEPT !.linking = q.ans], "start", q.ans)
    <3>1. /\ ui' = [ui EXCEPT !.linking = q.ans]
          /\ net' = Sending(Taking(net, "link", q), "start", q.ops, q.ans)
      BY <2>3 DEF Further
    <3>2. /\ IsShellUi(ui') /\ ui'.accounts = ui.accounts /\ ui'.account = ui.account
          /\ ui'.busy = ui.busy /\ ui'.status = ui.status
      BY <3>1 DEF ShellInv, IsShellUi
    <3> QED
      BY <1>0, <3>1, <3>2, ShellFurther
  <2> QED
    BY <2>1, <2>2, <2>3
<1>2. ASSUME NEW kind \in ShellKinds \ {"status"}, NEW q, NEW next \in ShellKinds \ Unawaited, NEW ops,
             NEW arg, NEW S, net' = Sending(Taking(net, kind, q), next, ops, arg), q.ops \subseteq ops,
             ui' = Busy(ui, S), S \subseteq ops
      PROVE  ShellInv' /\ StatusKept
  <2>1. /\ IsShellUi(ui') /\ ui'.busy = ui.busy \cup S /\ ui'.accounts = ui.accounts
        /\ ui'.account = ui.account /\ ui'.status = ui.status
    BY <1>2, ShellFlags DEF ShellInv
  <2> QED
    BY <1>2, <2>1, ShellFurther
<1>3. CASE StartArrives
  <2>1. PICK q : \/ Take("start", q, ui)
                 \/ /\ ui' = Busy(ui, {"accounts"})
                    /\ net' = Refreshing(Taking(net, "start", q), ui, q.ops, StepFor(q.ans, "code"))
    BY <1>3 DEF StartArrives
  <2>2. CASE Take("start", q, ui)
    BY <1>0, <2>2, ShellTake
  <2>3. CASE /\ ui' = Busy(ui, {"accounts"})
             /\ net' = Refreshing(Taking(net, "start", q), ui, q.ops, StepFor(q.ans, "code"))
    BY <1>0, <1>2, <2>3 DEF Refreshing
  <2> QED
    BY <2>1, <2>2, <2>3
<1>4. CASE VerifyArrives
  <2>1. PICK q \in Answers("shell", "verify") :
          \/ Take("verify", q, ui)
          \/ /\ ui' = Busy(ui, {"accounts"})
             /\ net' = Refreshing(Taking(net, "verify", q), ui, {}, StepFor(q.ans, "finish"))
    BY <1>4 DEF VerifyArrives
  <2>2. CASE Take("verify", q, ui)
    BY <1>0, <2>2, ShellTake
  <2>a. q.ops = {}
    BY <1>0, ShellAnswers DEF ShellInv, ShellRequests
  <2>3. CASE /\ ui' = Busy(ui, {"accounts"})
             /\ net' = Refreshing(Taking(net, "verify", q), ui, {}, StepFor(q.ans, "finish"))
    BY <1>0, <1>2, <2>3, <2>a DEF Refreshing
  <2> QED
    BY <2>1, <2>2, <2>3
<1>5. CASE StatusArrives
  <2>1. PICK q \in Answers("shell", "status") :
          Take("status", q, [ui EXCEPT !.status = CASE ~Refused(q) -> q.ans
                                                    [] Refused(q) /\ q.arg.first -> None
                                                    [] OTHER -> @])
    BY <1>5 DEF StatusArrives
  <2> DEFINE status == CASE ~Refused(q) -> q.ans
                         [] Refused(q) /\ q.arg.first -> None
                         [] OTHER -> ui.status
             u == [ui EXCEPT !.status = status]
  <2>2. q \in net["status"] /\ q.ans # None /\ q.live
    BY ShellAnswers
  <2>3. \/ status \in {None, Selected(ui)}
        \/ status = ui.status /\ ~q.arg.first
    BY <2>2 DEF ShellInv, StatusOf, Refused
  <2>4. ui' = Free(u, q.ops) /\ net' = Taking(net, "status", q)
    BY <2>1 DEF Take
  <2> HIDE DEF status
  <2>5. /\ IsShellUi(u) /\ u.accounts = ui.accounts /\ u.account = ui.account
        /\ u.busy = ui.busy /\ u.status = status
    BY DEF ShellInv, IsShellUi
  <2> HIDE DEF u
  <2>6. /\ IsShellUi(ui') /\ ui'.accounts = ui.accounts /\ ui'.account = ui.account
        /\ ui'.busy = ui.busy \ q.ops /\ ui'.status = status
    BY <2>4, <2>5, ShellFlags
  <2>7. ShellInv' /\ net'["status"] = net["status"] \ {q}
    BY <1>0, <2>4, <2>6, ShellTaken
  <2>8. Selected(ui') = Selected(ui)
    BY <2>6, SelectedSame
  <2>9. CASE status \in {None, Selected(ui)}
    BY <2>6, <2>7, <2>8, <2>9 DEF StatusKept, Known
  <2>10. CASE status = ui.status /\ ~q.arg.first
    <3>1. q.arg # StatusRequest(Selected(ui), TRUE)
      BY <2>10 DEF StatusRequest
    <3> QED
      BY <2>6, <2>7, <2>8, <2>10, <3>1 DEF StatusKept, Known
  <2> QED
    BY <2>3, <2>7, <2>9, <2>10
<1>6. CASE LeaveArrives
  <2>1. PICK q \in Answers("shell", "leave") :
          \/ Take("leave", q, ui)
          \/ /\ ui' = Busy(ui, {"session"})
             /\ net' = Sending(Taking(net, "leave", q), "session", {"session"}, "again")
    BY <1>6 DEF LeaveArrives
  <2>2. CASE Take("leave", q, ui)
    BY <1>0, <2>2, ShellTake
  <2>a. q.ops = {}
    BY <1>0, ShellAnswers DEF ShellInv, ShellRequests
  <2>3. CASE /\ ui' = Busy(ui, {"session"})
             /\ net' = Sending(Taking(net, "leave", q), "session", {"session"}, "again")
    BY <1>0, <1>2, <2>3, <2>a
  <2> QED
    BY <2>1, <2>2, <2>3
<1> QED
  BY <1>1, <1>3, <1>4, <1>5, <1>6

LEMMA ShellCommitStep ==
  ASSUME ShellInv, Navigate \/ OpenAccount \/ AccountsArrive \/ SessionArrives \/ RemovalArrives
  PROVE  ShellInv' /\ StatusKept
<1>0. /\ {"accounts", "session", "remove"} \subseteq ShellKinds \ Unawaited
      /\ "status" \in ShellKinds /\ "status" \in Unawaited
  BY DEF ShellKinds, Unawaited
<1>a. IsShellUi(ui) /\ ShellRequests(net) /\ \A op \in ui.busy : InFlight(net, op)
  BY ControlsInFlight DEF ShellInv
\* A view without the flags of q and with those of ops, after q is taken and
\* accounts are asked for by the operations ops.
<1>b. ASSUME NEW kind \in ShellKinds \ Unawaited, NEW q
      PROVE  /\ ShellRequests(Taking(net, kind, q)) /\ Taking(net, kind, q)["status"] = net["status"]
             /\ \A op \in ui.busy \ q.ops : InFlight(Taking(net, kind, q), op)
  BY <1>0, <1>a, ShellTaking
<1>c. ASSUME NEW n, ShellRequests(n), NEW u, NEW ops, NEW step
      PROVE  LET m == Refreshing(n, u, ops, step)
             IN  /\ ShellRequests(m) /\ m["status"] = n["status"]
                 /\ \A op : InFlight(m, op) <=> InFlight(n, op) \/ op \in ops \cup {"accounts"}
  BY <1>0, <1>c, ShellSending DEF Refreshing
<1>1. CASE Navigate
  <2>1. PICK page \in Tabs \ {ui.page} : Commit(PathOf(ui, page, Selected(ui)), net)
    BY <1>1 DEF Navigate
  <2> DEFINE u == PathOf(ui, page, Selected(ui))
  <2>2. IsShellUi(u) /\ u.busy = ui.busy /\ u.status = ui.status
    BY <1>a DEF PathOf, IsShellUi
  <2> HIDE DEF u
  <2> QED
    BY <1>a, <2>1, <2>2, CommitStep DEF u
<1>2. CASE OpenAccount
  <2> DEFINE closed == [ui EXCEPT !.wizard = FALSE, !.linking = None, !.step = "finish"]
  <2>1. PICK a \in Linked(ui) : Commit(PathOf(closed, "outreach", a), net)
    BY <1>2 DEF OpenAccount
  <2>2. IsShellUi(closed) /\ closed.busy = ui.busy /\ closed.status = ui.status
    BY <1>a DEF IsShellUi
  <2> HIDE DEF closed
  <2> DEFINE u == PathOf(closed, "outreach", a)
  <2>3. IsShellUi(u) /\ u.busy = ui.busy /\ u.status = ui.status
    BY <2>2 DEF PathOf, IsShellUi
  <2> HIDE DEF u
  <2> QED
    BY <1>a, <2>1, <2>3, CommitStep DEF u
<1>3. CASE AccountsArrive
  <2>1. PICK q \in Answers("shell", "accounts") :
          Commit([Free(ui, q.ops) EXCEPT !.accounts = IF Refused(q) THEN @ ELSE q.ans,
                                         !.step = IF q.arg.step = None THEN @ ELSE q.arg.step],
                 Taking(net, "accounts", q))
    BY <1>3 DEF AccountsArrive
  <2> DEFINE free == Free(ui, q.ops)
             accounts == IF Refused(q) THEN free.accounts ELSE q.ans
             step == IF q.arg.step = None THEN free.step ELSE q.arg.step
             u == [free EXCEPT !.accounts = accounts, !.step = step]
             n == Taking(net, "accounts", q)
  <2>2. Commit(u, n)
    BY <2>1
  <2>3. IsShellUi(free) /\ free.busy = ui.busy \ q.ops /\ free.status = ui.status
    BY <1>a, ShellFlags
  <2> HIDE DEF free, accounts, step
  <2>4. IsShellUi(u) /\ u.busy = ui.busy \ q.ops /\ u.status = ui.status
    BY <2>3 DEF IsShellUi
  <2>5. ShellRequests(n) /\ n["status"] = net["status"] /\ \A op \in u.busy : InFlight(n, op)
    BY <1>0, <1>b, <2>4
  <2> HIDE DEF u, n
  <2> QED
    BY <2>2, <2>4, <2>5, CommitStep
<1>4. CASE SessionArrives
  <2>1. PICK q \in Answers("shell", "session") :
          LET space == IF Refused(q) \/ ui.space \in q.ans THEN ui.space ELSE Smallest(q.ans)
              u == [Busy(Free(ui, q.ops), {"accounts"}) EXCEPT
                      !.space = space,
                      !.accounts = IF space = ui.space THEN @ ELSE [a \in Accounts |-> "absent"]]
              one == Refreshing(Taking(net, "session", q), u, {}, None)
          IN Commit(u, IF space = ui.space THEN one ELSE Refreshing(one, u, {"cleared"}, None))
    BY <1>4 DEF SessionArrives
  <2> DEFINE space == IF Refused(q) \/ ui.space \in q.ans THEN ui.space ELSE Smallest(q.ans)
             free == Free(ui, q.ops)
             asks == Busy(free, {"accounts"})
             accounts == IF space = ui.space THEN asks.accounts ELSE [a \in Accounts |-> "absent"]
             u == [asks EXCEPT !.space = space, !.accounts = accounts]
             taken == Taking(net, "session", q)
             one == Refreshing(taken, u, {}, None)
             two == Refreshing(one, u, {"cleared"}, None)
             n == IF space = ui.space THEN one ELSE two
  <2>2. Commit(u, n)
    BY <2>1
  <2>3. IsShellUi(free) /\ free.busy = ui.busy \ q.ops /\ free.status = ui.status
    BY <1>a, ShellFlags
  <2> HIDE DEF free
  <2>4. IsShellUi(asks) /\ asks.busy = (ui.busy \ q.ops) \cup {"accounts"} /\ asks.status = ui.status
    BY <2>3, ShellFlags
  <2> HIDE DEF asks, accounts, space
  <2>5. IsShellUi(u) /\ u.busy = (ui.busy \ q.ops) \cup {"accounts"} /\ u.status = ui.status
    BY <2>4 DEF IsShellUi
  <2> HIDE DEF u
  <2>6. /\ ShellRequests(taken) /\ taken["status"] = net["status"]
        /\ \A op \in ui.busy \ q.ops : InFlight(taken, op)
    BY <1>0, <1>b
  <2> HIDE DEF taken
  <2>7. /\ ShellRequests(one) /\ one["status"] = taken["status"]
        /\ \A op : InFlight(one, op) <=> InFlight(taken, op) \/ op \in {} \cup {"accounts"}
    BY <1>c, <2>6
  <2> HIDE DEF one
  <2>8. /\ ShellRequests(two) /\ two["status"] = one["status"]
        /\ \A op : InFlight(two, op) <=> InFlight(one, op) \/ op \in {"cleared"} \cup {"accounts"}
    BY <1>c, <2>7
  <2> HIDE DEF two
  <2>9. ShellRequests(n) /\ n["status"] = net["status"] /\ \A op \in u.busy : InFlight(n, op)
    BY <2>5, <2>6, <2>7, <2>8
  <2> HIDE DEF n
  <2> QED
    BY <2>2, <2>5, <2>9, CommitStep
<1>5. CASE RemovalArrives
  <2>1. PICK q \in Answers("shell", "remove") : IF Refused(q) THEN Take("remove", q, ui) ELSE Removed(q)
    BY <1>5 DEF RemovalArrives
  <2>2. CASE Refused(q)
    BY <1>0, <2>1, <2>2, ShellTake
  <2>3. CASE ~Refused(q)
    <3> DEFINE asks == Busy(ui, {"accounts"})
               page == IF q.arg.shown THEN "settings" ELSE asks.page
               account == IF q.arg.shown THEN None ELSE asks.account
               u == [asks EXCEPT !.target = None, !.page = page, !.account = account]
               taken == Taking(net, "remove", q)
               n == Refreshing(taken, ui, q.ops, None)
    <3>1. Commit(u, n)
      BY <2>1, <2>3 DEF Removed
    <3>2. IsShellUi(asks) /\ asks.busy = ui.busy \cup {"accounts"} /\ asks.status = ui.status
      BY <1>a, ShellFlags
    <3> HIDE DEF asks, page, account
    <3>3. IsShellUi(u) /\ u.busy = ui.busy \cup {"accounts"} /\ u.status = ui.status
      BY <3>2 DEF IsShellUi
    <3>4. /\ ShellRequests(taken) /\ taken["status"] = net["status"]
          /\ \A op \in ui.busy \ q.ops : InFlight(taken, op)
      BY <1>0, <1>b
    <3> HIDE DEF u, taken
    <3>5. /\ ShellRequests(n) /\ n["status"] = taken["status"]
          /\ \A op : InFlight(n, op) <=> InFlight(taken, op) \/ op \in q.ops \cup {"accounts"}
      BY <1>c, <3>4
    <3> HIDE DEF n
    <3>6. \A op \in u.busy : InFlight(n, op)
      BY <3>3, <3>4, <3>5
    <3> QED
      BY <3>1, <3>3, <3>4, <3>5, <3>6, CommitStep
  <2> QED
    BY <2>2, <2>3
<1> QED
  BY <1>1, <1>2, <1>3, <1>4, <1>5

-----------------------------------------------------------------------------
LEMMA ShellInit ==
  ASSUME NEW auth, NEW scenario, ShellStart(auth, scenario)
  PROVE  ShellInv /\ Known(ui, net)
<1>1. IsShellUi(ui) /\ ui.busy = {} /\ ui.status = None
  BY DEF ShellStart, IsShellUi
<1>2. IsNet(net, ShellKinds) /\ \A kind \in ShellKinds : net[kind] = {}
  BY DEF ShellStart, IsNet
<1>3. "status" \in Unawaited /\ Unawaited \subseteq ShellKinds
  BY DEF Unawaited, ShellKinds
<1> QED
  BY <1>1, <1>2, <1>3 DEF ShellInv, Known, ShellRequests, StatusOf, ControlsEnd, ControlsEndBut

LEMMA ShellInvNext ==
  ASSUME ShellInv, [ShellNext \/ Discard \/ Fail]_vars
  PROVE  ShellInv' /\ StatusKept
<1>1. CASE UNCHANGED vars
  BY <1>1 DEF ShellInv, ControlsEnd, ControlsEndBut, StatusKept, Known, StatusOf, vars
<1>2. CASE Discard
  <2>1. PICK kind \in ShellKinds : \E q \in net[kind] : ~q.live /\ net' = Taking(net, kind, q)
    BY <1>2, DiscardedRequest DEF ShellInv, ShellRequests
  <2>2. ui' = ui
    BY <1>2, DiscardedRequest DEF ShellInv, ShellRequests
  <2>3. IsShellUi(ui')
    BY <2>2 DEF ShellInv
  <2> QED
    BY <2>1, <2>2, <2>3, ShellTaken
<1>3. CASE Fail
  <2>1. PICK kind \in ShellKinds : \E q \in net[kind] : net' = Executed(net, kind, q, Failed)
    BY <1>3, FailedRequest DEF ShellInv, ShellRequests
  <2>2. ui' = ui
    BY <1>3, FailedRequest DEF ShellInv, ShellRequests
  <2> QED
    BY <2>1, <2>2, ShellExecuted
<1> QED
  BY <1>1, <1>2, <1>3, ShellServeStep, ShellAskStep, ShellShowStep, ShellTakeStep, ShellCommitStep
  DEF ShellNext

-----------------------------------------------------------------------------
(* Notifications and toasts *)

BoxItems == Seq([account: Inboxes, seen: BOOLEAN])

\* Notifications are numbered, so those of an answer have a greatest one.
Numbered(S) == \E n \in Nat : S \subseteq 0 .. n

IsBoxUi(u) ==
  /\ u \in [at: {"notifications"}, busy: {u.busy}, selected: {u.selected}, scenario: {u.scenario},
            last: Nat, toasts: {u.toasts}, timer: {u.timer}, handle: {u.handle}, open: BOOLEAN,
            listed: BOOLEAN, since: {u.since}]
  /\ u.handle = [i \in 1 .. MaxItems |-> u.handle[i]]

\* What was toasted since the first answer is not newer than last.
BoxSettled(u) == Numbered(u.since) /\ \A i \in u.since : i <= u.last

BoxRequest(kind, q) ==
  kind \in {"initial", "poll"} /\ q.ans \notin {None, Failed} =>
    Numbered(q.ans.all) /\ Numbered(q.ans.unseen)

BoxNet(n) ==
  IsNet(n, NotificationKinds) /\ \A kind \in NotificationKinds : \A q \in n[kind] : BoxRequest(kind, q)

\* The sheet is open for an account: it was read, or its request is in flight.
SheetRead(u) == u.open /\ u.selected # None

\* What a flag waits for is in flight, but of the sheet before it is first read.
BoxEnds(u, n) == \A op \in u.busy : InFlight(n, op) \/ (op = "sheet" /\ ~SheetRead(u))

(***************************************************************************)
(* ToastedOnce rests on last: it is never behind what was toasted since it *)
(* was set, so an answer that is overtaken toasts nothing that the other   *)
(* one has toasted.                                                        *)
(***************************************************************************)
BoxInv ==
  /\ IsBoxUi(ui) /\ BoxSettled(ui) /\ BoxNet(net) /\ srv \in [items: BoxItems]
  /\ BoxEnds(ui, net)

\* No handle of a step is new but of a notification that was not toasted before.
BoxFresh ==
  \A i \in 1 .. MaxItems : ui'.handle[i] \in {None, ui.handle[i]} \/ i \notin ui.since

\* v is u but for the flags, the toasts that go and the sheet.
BoxQuiet(u, v) ==
  /\ IsBoxUi(v) /\ v.last = u.last /\ v.since = u.since
  /\ \A i \in 1 .. MaxItems : v.handle[i] \in {None, u.handle[i]}

\* v has the flags of u, and shows the same sheet.
SameSheet(u, v) == v.busy = u.busy /\ v.open = u.open /\ v.selected = u.selected

LEMMA BoxKindsAre == NotificationKinds = {"initial", "poll", "sheet", "seen"}
  BY DEF NotificationKinds

LEMMA BoxSending ==
  ASSUME NEW n, BoxNet(n), NEW kind \in NotificationKinds, NEW ops, NEW arg
  PROVE  /\ BoxNet(Sending(n, kind, ops, arg))
         /\ \A op : InFlight(Sending(n, kind, ops, arg), op) <=> InFlight(n, op) \/ op \in ops
<1> DEFINE m == Sending(n, kind, ops, arg)
<1>1. /\ IsNet(m, NotificationKinds) /\ m[kind] = n[kind] \cup {Request(ops, arg)}
      /\ \A k \in NotificationKinds \ {kind} : m[k] = n[k]
      /\ \A op : InFlight(m, op) <=> InFlight(n, op) \/ op \in ops
  BY SendingNet DEF BoxNet
<1>2. BoxRequest(kind, Request(ops, arg))
  BY RequestFields DEF BoxRequest
<1> HIDE DEF m
<1>3. BoxNet(m)
  BY <1>1, <1>2 DEF BoxNet
<1> QED
  BY <1>1, <1>3 DEF m

LEMMA BoxTaking ==
  ASSUME NEW n, BoxNet(n), NEW kind \in NotificationKinds, NEW q
  PROVE  /\ BoxNet(Taking(n, kind, q))
         /\ \A op : InFlight(n, op) => InFlight(Taking(n, kind, q), op) \/ (q.live /\ op \in q.ops)
<1> DEFINE m == Taking(n, kind, q)
<1>1. /\ IsNet(m, NotificationKinds) /\ m[kind] = n[kind] \ {q}
      /\ \A k \in NotificationKinds \ {kind} : m[k] = n[k]
      /\ \A op : InFlight(n, op) => InFlight(m, op) \/ (q.live /\ op \in q.ops)
  BY TakingNet DEF BoxNet
<1> HIDE DEF m
<1>2. BoxNet(m)
  BY <1>1 DEF BoxNet
<1> QED
  BY <1>1, <1>2 DEF m

\* The view changes quietly, and sends at most.
LEMMA BoxShown ==
  ASSUME BoxInv, BoxQuiet(ui, ui'), UNCHANGED srv, BoxNet(net'),
         BoxEnds(ui', net')
  PROVE  BoxInv' /\ BoxFresh
<1>1. BoxSettled(ui')
  BY DEF BoxInv, BoxSettled, BoxQuiet
<1> QED
  BY <1>1 DEF BoxInv, BoxQuiet, BoxFresh

\* What the view may do quietly.
LEMMA BoxViews ==
  ASSUME NEW u, IsBoxUi(u)
  PROVE  /\ BoxQuiet(u, u)
         /\ \A ops : BoxQuiet(u, Busy(u, ops)) /\ Busy(u, ops).busy = u.busy \cup ops
                     /\ (SheetRead(Busy(u, ops)) <=> SheetRead(u))
         /\ \A b \in BOOLEAN : LET v == [u EXCEPT !.open = b]
                               IN  BoxQuiet(u, v) /\ v.busy = u.busy /\ (SheetRead(v) <=> b /\ u.selected # None)
         /\ \A b \in BOOLEAN : LET v == [u EXCEPT !.listed = b] IN BoxQuiet(u, v) /\ SameSheet(u, v)
         /\ \A a : LET v == [u EXCEPT !.selected = a]
                   IN  BoxQuiet(u, v) /\ v.busy = u.busy /\ (SheetRead(v) <=> u.open /\ a # None)
         /\ \A id : BoxQuiet(u, WithoutToast(u, id)) /\ SameSheet(u, WithoutToast(u, id))
         /\ \A id : BoxQuiet(u, DismissTimers(u, id)) /\ SameSheet(u, DismissTimers(u, id))
<1>1. \A ops : BoxQuiet(u, Busy(u, ops)) /\ Busy(u, ops).busy = u.busy \cup ops
               /\ (SheetRead(Busy(u, ops)) <=> SheetRead(u))
  BY DEF IsBoxUi, BoxQuiet, Busy, SheetRead
<1>2. \A b \in BOOLEAN : LET v == [u EXCEPT !.open = b]
                         IN  BoxQuiet(u, v) /\ v.busy = u.busy /\ (SheetRead(v) <=> b /\ u.selected # None)
  BY DEF IsBoxUi, BoxQuiet, SameSheet, SheetRead
<1>3. \A b \in BOOLEAN : LET v == [u EXCEPT !.listed = b] IN BoxQuiet(u, v) /\ SameSheet(u, v)
  BY DEF IsBoxUi, BoxQuiet, SameSheet, SheetRead
<1>4. \A a : LET v == [u EXCEPT !.selected = a]
             IN  BoxQuiet(u, v) /\ v.busy = u.busy /\ (SheetRead(v) <=> u.open /\ a # None)
  BY DEF IsBoxUi, BoxQuiet, SameSheet, SheetRead
<1>5. ASSUME NEW id PROVE BoxQuiet(u, WithoutToast(u, id)) /\ SameSheet(u, WithoutToast(u, id))
  <2> DEFINE rest == SelectSeq(u.toasts, LAMBDA toast : toast.id # id)
  <2>1. WithoutToast(u, id) = [u EXCEPT !.toasts = rest]
    BY DEF WithoutToast
  <2> HIDE DEF rest
  <2> QED
    BY <2>1 DEF IsBoxUi, BoxQuiet, SameSheet, SheetRead
<1>6. ASSUME NEW id PROVE BoxQuiet(u, DismissTimers(u, id)) /\ SameSheet(u, DismissTimers(u, id))
  <2> DEFINE h == [u.handle EXCEPT ![id] = None]
             timers == [u.timer EXCEPT ![u.handle[id]] = None]
  <2>1. CASE u.handle[id] = None
    BY <2>1 DEF DismissTimers, BoxQuiet, SameSheet
  <2>2. CASE u.handle[id] # None
    <3>1. DismissTimers(u, id) = [u EXCEPT !.timer = timers, !.handle = h]
      BY <2>2 DEF DismissTimers, IsBoxUi
    <3>2. h = [i \in 1 .. MaxItems |-> h[i]] /\ \A i \in 1 .. MaxItems : h[i] \in {None, u.handle[i]}
      BY DEF IsBoxUi
    <3> HIDE DEF h, timers
    <3> QED
      BY <3>1, <3>2 DEF IsBoxUi, BoxQuiet, SameSheet, SheetRead
  <2> QED
    BY <2>1, <2>2
<1>7. BoxQuiet(u, u)
  BY DEF BoxQuiet
<1> QED
  BY <1>1, <1>2, <1>3, <1>4, <1>5, <1>6, <1>7

LEMMA BoxQuietTwice ==
  ASSUME NEW u, NEW v, NEW w, BoxQuiet(u, v), BoxQuiet(v, w)
  PROVE  BoxQuiet(u, w) /\ (SameSheet(u, v) /\ SameSheet(v, w) => SameSheet(u, w))
  BY DEF BoxQuiet, SameSheet

LEMMA BoxHas ==
  ASSUME BoxInv
  PROVE  IsBoxUi(ui) /\ BoxNet(net) /\ BoxQuiet(ui, ui) /\ SameSheet(ui, ui) /\ BoxEnds(ui, net)
  BY BoxViews DEF BoxInv, SameSheet

\* The same sheet waits for the same.
LEMMA BoxEndsAlike ==
  ASSUME NEW n, NEW u, BoxEnds(u, n), NEW v, v.busy = u.busy, SheetRead(v) => SheetRead(u)
  PROVE  BoxEnds(v, n)
  BY DEF BoxEnds

LEMMA SameSheetReads ==
  ASSUME NEW u, NEW v, SameSheet(u, v)
  PROVE  v.busy = u.busy /\ (SheetRead(v) <=> SheetRead(u))
  BY DEF SameSheet, SheetRead

LEMMA BoxOpens ==
  ASSUME BoxInv, NEW u, BoxQuiet(ui, u), SameSheet(ui, u), OpenSheet(u), UNCHANGED srv
  PROVE  BoxInv' /\ BoxFresh
<1>0. "sheet" \in NotificationKinds
  BY BoxKindsAre
<1>a. IsBoxUi(u)
  BY DEF BoxQuiet
<1> DEFINE v == [u EXCEPT !.open = TRUE]
<1>1. BoxQuiet(u, v) /\ v.busy = u.busy /\ (SheetRead(v) <=> u.selected # None)
  BY <1>a, BoxViews
<1>2. BoxQuiet(ui, v) /\ IsBoxUi(v) /\ v.busy = ui.busy
  BY <1>1, BoxQuietTwice DEF BoxQuiet, SameSheet
<1>b. IF u.open \/ u.selected = None THEN ui' = v /\ UNCHANGED net
      ELSE /\ ui' = Busy(v, {"sheet"})
           /\ net' = Listing(net, u.selected, {})
  BY DEF OpenSheet
<1> HIDE DEF v
<1>3. CASE (u.open \/ u.selected = None) /\ ui' = v /\ UNCHANGED net
  <2>1. SheetRead(v) => SheetRead(ui)
    BY <1>1, <1>3 DEF SameSheet, SheetRead
  <2> QED
    BY <1>2, <1>3, <2>1, BoxHas, BoxEndsAlike, BoxShown
<1>4. CASE ui' = Busy(v, {"sheet"}) /\ net' = Listing(net, u.selected, {})
  <2>1. BoxQuiet(v, ui') /\ ui'.busy = ui.busy \cup {"sheet"}
    BY <1>2, <1>4, BoxViews
  <2>2. BoxNet(net') /\ \A op : InFlight(net', op) <=> InFlight(net, op) \/ op \in {} \cup {"sheet"}
    BY <1>0, <1>4, BoxHas, BoxSending DEF Listing
  <2>3. BoxQuiet(ui, ui')
    BY <1>2, <2>1, BoxQuietTwice
  <2>4. BoxEnds(ui', net')
    BY <2>1, <2>2, BoxHas DEF BoxEnds
  <2> QED
    BY <2>2, <2>3, <2>4, BoxShown
<1> QED
  BY <1>b, <1>3, <1>4

\* One request is sent for an operation whose flag is set, or for none.
LEMMA BoxSends ==
  ASSUME BoxInv, NEW u, BoxQuiet(ui, u), u.busy = ui.busy, SheetRead(u) => SheetRead(ui), NEW ops, ui' = Busy(u, ops) \/ (ui' = u /\ ops = {}),
         NEW kind \in NotificationKinds, NEW arg, net' = Sending(net, kind, ops, arg), UNCHANGED srv
  PROVE  BoxInv' /\ BoxFresh
<1>1. IsBoxUi(u)
  BY DEF BoxQuiet
<1>2. BoxQuiet(u, ui') /\ ui'.busy = u.busy \cup ops /\ (SheetRead(ui') <=> SheetRead(u))
  BY <1>1, BoxViews
<1>3. BoxQuiet(ui, ui')
  BY <1>2, BoxQuietTwice
<1>4. BoxNet(net') /\ \A op : InFlight(net', op) <=> InFlight(net, op) \/ op \in ops
  BY BoxHas, BoxSending
<1>5. BoxEnds(ui', net')
  BY <1>2, <1>4, BoxHas DEF BoxEnds
<1> QED
  BY <1>3, <1>4, <1>5, BoxShown

LEMMA BoxViewStep ==
  ASSUME BoxInv, Bell \/ CloseSheet \/ DismissToast \/ ToastAction \/ ToastTimer
  PROVE  BoxInv' /\ BoxFresh
<1>a. IsBoxUi(ui) /\ BoxQuiet(ui, ui) /\ SameSheet(ui, ui)
  BY BoxHas
<1>1. CASE Bell
  BY <1>1, <1>a, BoxOpens DEF Bell
<1>2. CASE CloseSheet
  <2>1. ui' = [ui EXCEPT !.open = FALSE] /\ UNCHANGED <<net, srv>>
    BY <1>2 DEF CloseSheet, Show
  <2>2. BoxQuiet(ui, ui') /\ ui'.busy = ui.busy /\ ~SheetRead(ui')
    BY <1>a, <2>1, BoxViews
  <2> QED
    BY <2>1, <2>2, BoxHas, BoxEndsAlike, BoxShown
<1>3. ASSUME NEW id
      PROVE  LET v == WithoutToast(DismissTimers(ui, id), id) IN BoxQuiet(ui, v) /\ SameSheet(ui, v)
  <2> DEFINE u == DismissTimers(ui, id)
  <2>1. BoxQuiet(ui, u) /\ SameSheet(ui, u)
    BY <1>a, BoxViews
  <2> HIDE DEF u
  <2>2. BoxQuiet(u, WithoutToast(u, id)) /\ SameSheet(u, WithoutToast(u, id))
    BY <2>1, BoxViews DEF BoxQuiet
  <2> QED
    BY <2>1, <2>2, BoxQuietTwice DEF u
<1>4. CASE DismissToast
  <2>1. PICK id : ui' = WithoutToast(DismissTimers(ui, id), id) /\ UNCHANGED <<net, srv>>
    BY <1>4 DEF DismissToast, Show
  <2> QED
    BY <1>3, <2>1, BoxHas, SameSheetReads, BoxEndsAlike, BoxShown
<1>5. CASE ToastAction
  <2>1. PICK id : OpenSheet(WithoutToast(DismissTimers(ui, id), id)) /\ UNCHANGED srv
    BY <1>5 DEF ToastAction
  <2> DEFINE v == WithoutToast(DismissTimers(ui, id), id)
  <2>2. BoxQuiet(ui, v) /\ SameSheet(ui, v) /\ OpenSheet(v)
    BY <1>3, <2>1
  <2> HIDE DEF v
  <2> QED
    BY <2>1, <2>2, BoxOpens
<1>6. CASE ToastTimer
  <2>1. PICK k \in Timers : /\ ui' = [WithoutToast(ui, ui.timer[k]) EXCEPT !.timer[k] = None,
                                                                           !.handle[ui.timer[k]] = None]
                            /\ UNCHANGED <<net, srv>>
    BY <1>6 DEF ToastTimer
  <2> DEFINE u == WithoutToast(ui, ui.timer[k])
             h == [u.handle EXCEPT ![ui.timer[k]] = None]
             timers == [u.timer EXCEPT ![k] = None]
  <2>2. BoxQuiet(ui, u) /\ SameSheet(ui, u)
    BY <1>a, BoxViews
  <2>3. ui' = [u EXCEPT !.timer = timers, !.handle = h]
    BY <2>1
  <2> HIDE DEF u
  <2>4. h = [i \in 1 .. MaxItems |-> h[i]] /\ \A i \in 1 .. MaxItems : h[i] \in {None, u.handle[i]}
    BY <2>2 DEF BoxQuiet, IsBoxUi
  <2> HIDE DEF h, timers
  <2>5. BoxQuiet(u, ui') /\ SameSheet(u, ui')
    BY <2>2, <2>3, <2>4 DEF BoxQuiet, IsBoxUi, SameSheet
  <2>6. BoxQuiet(ui, ui') /\ SameSheet(ui, ui')
    BY <2>2, <2>5, BoxQuietTwice
  <2> QED
    BY <2>1, <2>6, BoxHas, SameSheetReads, BoxEndsAlike, BoxShown
<1> QED
  BY <1>1, <1>2, <1>4, <1>5, <1>6

LEMMA BoxAskStep ==
  ASSUME BoxInv, RefreshSheet \/ MarkAllSeen \/ ClickNotification \/ SelectInbox \/ Poll
  PROVE  BoxInv' /\ BoxFresh
<1>0. {"initial", "poll", "sheet", "seen"} = NotificationKinds
  BY BoxKindsAre
<1>a. IsBoxUi(ui) /\ BoxQuiet(ui, ui) /\ BoxNet(net)
  BY BoxHas
<1>1. CASE RefreshSheet
  <2>1. ui' = Busy(ui, {"sheet"}) /\ net' = Sending(net, "sheet", {"sheet"}, ui.selected) /\ UNCHANGED srv
    BY <1>1 DEF RefreshSheet, Listing
  <2> QED
    BY <1>0, <1>a, <2>1, BoxSends
<1>2. CASE MarkAllSeen
  BY <1>0, <1>2, <1>a, BoxSends DEF MarkAllSeen, Ask
<1>3. CASE ClickNotification
  <2>1. PICK stays \in BOOLEAN : ui' = [ui EXCEPT !.open = stays]
    BY <1>3 DEF ClickNotification
  <2>2. net' = Sending(net, "seen", {}, ui.selected) /\ UNCHANGED srv
    BY <1>3 DEF ClickNotification
  <2>3. BoxQuiet(ui, ui') /\ ui'.busy = ui.busy
    BY <1>a, <2>1, BoxViews
  <2>4. SheetRead(ui)
    BY <1>3 DEF ClickNotification, SheetShows, SheetRead
  <2> QED
    BY <1>0, <2>2, <2>3, <2>4, BoxSends
<1>4. CASE Poll
  BY <1>0, <1>4, <1>a, BoxSends DEF Poll
<1>5. CASE SelectInbox
  <2>1. PICK a \in Inboxes \cup {None}, listing \in BOOLEAN :
          LET read == IF a = None THEN net ELSE Sending(net, "initial", {}, a)
          IN  /\ listing <=> ui.open /\ a \notin {None, ui.selected}
              /\ ui' = Busy([ui EXCEPT !.selected = a], IF listing THEN {"sheet"} ELSE {})
              /\ net' = IF listing THEN Listing(read, a, {}) ELSE read
    <3>1. PICK a \in Inboxes \cup {None} :
            LET listing == ui.open /\ a \notin {None, ui.selected}
                read == IF a = None THEN net ELSE Sending(net, "initial", {}, a)
            IN  /\ ui' = Busy([ui EXCEPT !.selected = a], IF listing THEN {"sheet"} ELSE {})
                /\ net' = IF listing THEN Listing(read, a, {}) ELSE read
      BY <1>5 DEF SelectInbox
    <3> DEFINE l == ui.open /\ a \notin {None, ui.selected}
    <3>2. /\ l \in BOOLEAN
          /\ l <=> ui.open /\ a \notin {None, ui.selected}
          /\ LET read == IF a = None THEN net ELSE Sending(net, "initial", {}, a)
             IN  /\ ui' = Busy([ui EXCEPT !.selected = a], IF l THEN {"sheet"} ELSE {})
                 /\ net' = IF l THEN Listing(read, a, {}) ELSE read
      BY <3>1
    <3> HIDE DEF l
    <3> QED
      BY <3>2
  <2> DEFINE read == IF a = None THEN net ELSE Sending(net, "initial", {}, a)
             ops == IF listing THEN {"sheet"} ELSE {}
             u == [ui EXCEPT !.selected = a]
  <2>2. BoxNet(read) /\ \A op : InFlight(net, op) => InFlight(read, op)
    BY <1>0, <1>a, BoxSending
  <2>3. BoxQuiet(ui, u) /\ u.busy = ui.busy /\ ui' = Busy(u, ops) /\ (SheetRead(u) <=> ui.open /\ a # None)
    BY <1>a, <2>1, BoxViews
  <2>3a. SheetRead(u) => SheetRead(ui) \/ "sheet" \in ops
    BY <2>1, <2>3 DEF SheetRead
  <2>4. net' = IF listing THEN Listing(read, a, {}) ELSE read
    BY <2>1
  <2> HIDE DEF read, u
  <2>5. BoxNet(net') /\ \A op : InFlight(read, op) \/ op \in ops => InFlight(net', op)
    <3>1. CASE listing
      <4>1. net' = Sending(read, "sheet", {} \cup {"sheet"}, a) /\ ops = {"sheet"}
        BY <2>4, <3>1 DEF Listing
      <4> QED
        BY <1>0, <2>2, <4>1, BoxSending
    <3> QED
      BY <2>2, <2>4, <3>1
  <2> HIDE DEF ops
  <2>6. BoxQuiet(u, ui') /\ ui'.busy = ui.busy \cup ops /\ (SheetRead(ui') <=> SheetRead(u))
    BY <2>3, BoxViews DEF BoxQuiet
  <2>7. BoxQuiet(ui, ui') /\ UNCHANGED srv
    BY <1>5, <2>3, <2>6, BoxQuietTwice DEF SelectInbox
  <2>8. BoxEnds(ui', net')
    BY <2>2, <2>5, <2>6, <2>3a, BoxHas DEF BoxEnds
  <2> QED
    BY <2>5, <2>7, <2>8, BoxShown
<1> QED
  BY <1>1, <1>2, <1>3, <1>4, <1>5

LEMMA GreatestIsMax ==
  ASSUME NEW S, Numbered(S), S # {}
  PROVE  Max(S) \in S /\ \A k \in S : k <= Max(S)
<1>1. PICK n \in Nat : S \subseteq 0 .. n
  BY DEF Numbered
<1>2. PICK m \in S : \A k \in S : k <= m
  BY <1>1, GreatestNatural
<1>3. m \in S /\ \A k \in S : m >= k
  BY <1>1, <1>2
<1>4. Max(S) \in S /\ \A k \in S : Max(S) >= k
  BY <1>3 DEF Max
<1> QED
  BY <1>1, <1>4

LEMMA NumberedUnion ==
  ASSUME NEW S, Numbered(S), NEW T, Numbered(T)
  PROVE  Numbered(S \cup T)
<1>1. PICK m \in Nat : S \subseteq 0 .. m
  BY DEF Numbered
<1>2. PICK n \in Nat : T \subseteq 0 .. n
  BY DEF Numbered
<1>3. S \cup T \subseteq 0 .. (m + n)
  BY <1>1, <1>2
<1> QED
  BY <1>3 DEF Numbered

LEMMA NumberedNatural ==
  ASSUME NEW n \in Nat
  PROVE  Numbered({n}) /\ Numbered({})
<1>1. {n} \subseteq 0 .. n /\ {} \subseteq 0 .. 0
  OBVIOUS
<1> QED
  BY <1>1 DEF Numbered

\* The answer of q is taken, and u what it makes of the view.
LEMMA BoxTakes ==
  ASSUME BoxInv, NEW kind \in NotificationKinds, NEW q, NEW u, Take(kind, q, u),
         IsBoxUi(u), SameSheet(ui, u), BoxSettled(u)
  PROVE  BoxInv' /\ ui'.handle = u.handle
<1>1. ui' = Free(u, q.ops) /\ net' = Taking(net, kind, q) /\ UNCHANGED srv
  BY DEF Take
<1>2. IsBoxUi(ui') /\ ui'.busy = ui.busy \ q.ops /\ ui'.last = u.last /\ ui'.since = u.since
      /\ ui'.handle = u.handle /\ (SheetRead(ui') <=> SheetRead(ui))
  BY <1>1 DEF IsBoxUi, Free, SameSheet, SheetRead
<1>3. BoxNet(net') /\ \A op : InFlight(net, op) => InFlight(net', op) \/ (q.live /\ op \in q.ops)
  BY <1>1, BoxHas, BoxTaking
<1>4. BoxEnds(ui', net')
  BY <1>2, <1>3, BoxHas DEF BoxEnds
<1> QED
  BY <1>1, <1>2, <1>3, <1>4 DEF BoxInv, BoxSettled

LEMMA BoxSeenStep ==
  ASSUME BoxInv, SheetArrives \/ SeenArrives
  PROVE  BoxInv' /\ BoxFresh
<1>0. {"initial", "poll", "sheet", "seen"} = NotificationKinds
  BY BoxKindsAre
<1>a. IsBoxUi(ui) /\ BoxQuiet(ui, ui) /\ SameSheet(ui, ui) /\ BoxNet(net) /\ BoxSettled(ui)
  BY BoxHas DEF BoxInv
<1>1. CASE SheetArrives
  <2>1. PICK q : Take("sheet", q, [ui EXCEPT !.listed = IF Refused(q) THEN @ ELSE q.ans.unseen # {}])
    BY <1>1 DEF SheetArrives
  <2> DEFINE b == IF Refused(q) THEN ui.listed ELSE q.ans.unseen # {}
             u == [ui EXCEPT !.listed = b]
  <2>2. b \in BOOLEAN
    BY <1>a DEF IsBoxUi
  <2>3. Take("sheet", q, u)
    BY <2>1
  <2> HIDE DEF b
  <2>4. BoxQuiet(ui, u) /\ SameSheet(ui, u)
    BY <1>a, <2>2, BoxViews
  <2> HIDE DEF u
  <2>5. IsBoxUi(u) /\ BoxSettled(u)
    BY <1>a, <2>4 DEF BoxQuiet, BoxSettled
  <2>6. BoxInv' /\ ui'.handle = u.handle
    BY <1>0, <2>3, <2>4, <2>5, BoxTakes
  <2> QED
    BY <2>4, <2>6 DEF BoxQuiet, BoxFresh
<1>2. ASSUME NEW q, Take("seen", q, ui) PROVE BoxInv' /\ BoxFresh
  <2>1. BoxInv' /\ ui'.handle = ui.handle
    BY <1>0, <1>2, <1>a, BoxTakes
  <2> QED
    BY <2>1 DEF BoxFresh
<1>3. ASSUME NEW q, ui' = Busy(ui, {"sheet"}), net' = Listing(Taking(net, "seen", q), q.arg, q.ops),
             UNCHANGED srv
      PROVE  BoxInv' /\ BoxFresh
  <2> DEFINE n == Taking(net, "seen", q)
             ops == q.ops \cup {"sheet"}
  <2>1. BoxNet(n) /\ \A op : InFlight(net, op) => InFlight(n, op) \/ op \in q.ops
    BY <1>0, <1>a, BoxTaking
  <2>2. net' = Sending(n, "sheet", ops, q.arg)
    BY <1>3 DEF Listing
  <2> HIDE DEF n
  <2>3. BoxNet(net') /\ \A op : InFlight(net', op) <=> InFlight(n, op) \/ op \in ops
    BY <1>0, <2>1, <2>2, BoxSending
  <2>4. BoxQuiet(ui, ui') /\ ui'.busy = ui.busy \cup {"sheet"} /\ (SheetRead(ui') <=> SheetRead(ui))
    BY <1>3, <1>a, BoxViews
  <2>5. BoxEnds(ui', net')
    BY <2>1, <2>3, <2>4, BoxHas DEF BoxEnds
  <2> QED
    BY <1>3, <2>3, <2>4, <2>5, BoxShown
<1>4. CASE SeenArrives
  BY <1>2, <1>3, <1>4 DEF SeenArrives
<1> QED
  BY <1>1, <1>4

\* The first answer sets last, also downwards, and nothing was toasted since.
LEMMA InitialArrivesStep ==
  ASSUME BoxInv, InitialArrives
  PROVE  BoxInv' /\ BoxFresh
<1>0. "initial" \in NotificationKinds
  BY BoxKindsAre
<1>a. IsBoxUi(ui) /\ BoxNet(net) /\ BoxSettled(ui) /\ SameSheet(ui, ui)
  BY BoxHas DEF BoxInv
<1>1. PICK q \in net["initial"] :
        /\ q.ans # None
        /\ Take("initial", q, IF Refused(q) THEN ui
                              ELSE [ui EXCEPT !.last = Max(q.ans.all \cup {0}), !.since = {}])
  BY DEF InitialArrives, Answers, Answered
<1>2. CASE Refused(q)
  <2>1. BoxInv' /\ ui'.handle = ui.handle
    BY <1>0, <1>1, <1>2, <1>a, BoxTakes
  <2> QED
    BY <2>1 DEF BoxFresh
<1>3. CASE ~Refused(q)
  <2> DEFINE last == Max(q.ans.all \cup {0})
             u == [ui EXCEPT !.last = last, !.since = {}]
  <2>1. Numbered(q.ans.all)
    BY <1>0, <1>1, <1>3, <1>a DEF BoxNet, BoxRequest, Refused
  <2>2. Numbered(q.ans.all \cup {0})
    BY <2>1, NumberedUnion, NumberedNatural
  <2>3. last \in q.ans.all \cup {0}
    BY <2>2, GreatestIsMax
  <2>4. Take("initial", q, u)
    BY <1>1, <1>3
  <2> HIDE DEF last
  <2>5. last \in Nat
    BY <2>1, <2>3 DEF Numbered
  <2>6. IsBoxUi(u) /\ SameSheet(ui, u) /\ u.since = {} /\ u.handle = ui.handle
    BY <1>a, <2>5 DEF IsBoxUi, SameSheet
  <2> HIDE DEF u
  <2>7. BoxSettled(u)
    BY <2>6, NumberedNatural DEF BoxSettled
  <2>8. BoxInv' /\ ui'.handle = u.handle
    BY <1>0, <2>4, <2>6, <2>7, BoxTakes
  <2> QED
    BY <2>6, <2>8 DEF BoxFresh
<1> QED
  BY <1>2, <1>3

\* A poll toasts what is newer than last, and last becomes the newest of it.
LEMMA PollArrivesStep ==
  ASSUME BoxInv, PollArrives
  PROVE  BoxInv' /\ BoxFresh
<1>0. "poll" \in NotificationKinds
  BY BoxKindsAre
<1>a. IsBoxUi(ui) /\ BoxNet(net) /\ BoxSettled(ui) /\ SameSheet(ui, ui)
  BY BoxHas DEF BoxInv
<1>1. PICK q \in net["poll"] :
        LET new == IF Refused(q) THEN {} ELSE Toasting(q.ans)
        IN  /\ q.ans # None
            /\ Take("poll", q, PushToasts([ui EXCEPT !.last = Max(new \cup {@}),
                                                     !.since = @ \cup new], new))
  BY DEF PollArrives, Answers, Answered
<1> DEFINE new == IF Refused(q) THEN {} ELSE Toasting(q.ans)
           last == Max(new \cup {ui.last})
           since == ui.since \cup new
           u == [ui EXCEPT !.last = last, !.since = since]
<1>2. Take("poll", q, PushToasts(u, new))
  BY <1>1
<1>3. ui.last \in Nat
  BY <1>a DEF IsBoxUi
<1>4. Numbered(new) /\ \A i \in new : i > ui.last
  <2>1. CASE Refused(q)
    BY <2>1, NumberedNatural
  <2>2. CASE ~Refused(q)
    <3>1. Numbered(q.ans.unseen)
      BY <1>0, <1>1, <1>a, <2>2 DEF BoxNet, BoxRequest, Refused
    <3>2. new \subseteq q.ans.unseen /\ \A i \in new : i > ui.last
      BY <2>2 DEF Toasting
    <3> QED
      BY <3>1, <3>2 DEF Numbered
  <2> QED
    BY <2>1, <2>2
<1> HIDE DEF new
<1>5. Numbered(new \cup {ui.last}) /\ Numbered(since)
  BY <1>3, <1>4, <1>a, NumberedUnion, NumberedNatural DEF BoxSettled
<1>6. last \in new \cup {ui.last} /\ \A i \in new \cup {ui.last} : i <= last
  BY <1>5, GreatestIsMax
<1> HIDE DEF last
<1>7. last \in Nat
  BY <1>3, <1>4, <1>6 DEF Numbered
<1>8. \A i \in since : i <= last
  <2>1. \A i \in ui.since : i \in Nat /\ i <= ui.last
    BY <1>a DEF BoxSettled, Numbered
  <2>2. ui.last <= last /\ \A i \in new : i <= last
    BY <1>6
  <2>3. \A i \in ui.since : i <= last
    BY <1>3, <1>7, <2>1, <2>2
  <2> QED
    BY <2>2, <2>3
<1> HIDE DEF since
<1>9. IsBoxUi(u) /\ SameSheet(ui, u) /\ u.last = last /\ u.since = since /\ u.handle = ui.handle
  BY <1>7, <1>a DEF IsBoxUi, SameSheet
<1> HIDE DEF u
<1> DEFINE timer == CHOOSE t \in Injection(new, FreeTimers(u)) : TRUE
           order == SetToSortSeq(new, <)
           toasts == [k \in DOMAIN order |-> [id |-> order[k], timer |-> timer[order[k]]]] \o u.toasts
           shown == SubSeq(toasts, 1, Min({ToastLimit, Len(toasts)}))
           timers == [k \in Timers |-> IF k \in Range(timer) THEN AntiFunction(timer)[k] ELSE u.timer[k]]
           handle == [id \in DOMAIN u.handle |-> IF id \in new THEN timer[id] ELSE u.handle[id]]
           v == [u EXCEPT !.toasts = shown, !.timer = timers, !.handle = handle]
<1>10. PushToasts(u, new) = v
  BY <1>9 DEF PushToasts, IsBoxUi
<1> HIDE DEF timer, shown, timers
<1>11. /\ handle = [i \in 1 .. MaxItems |-> handle[i]]
       /\ \A i \in 1 .. MaxItems : i \notin new => handle[i] = ui.handle[i]
  BY <1>9, <1>a DEF IsBoxUi
<1> HIDE DEF handle
<1>12. IsBoxUi(v) /\ SameSheet(ui, v) /\ v.last = last /\ v.since = since /\ v.handle = handle
  BY <1>9, <1>11 DEF IsBoxUi, SameSheet
<1>13. Take("poll", q, v)
  BY <1>2, <1>10
<1> HIDE DEF v
<1>14. BoxSettled(v)
  BY <1>5, <1>8, <1>12 DEF BoxSettled
<1>15. BoxInv' /\ ui'.handle = v.handle
  BY <1>0, <1>12, <1>13, <1>14, BoxTakes
<1>16. \A i \in 1 .. MaxItems : i \in new => i \notin ui.since
  BY <1>3, <1>4, <1>a DEF BoxSettled, Numbered
<1> QED
  BY <1>11, <1>12, <1>15, <1>16 DEF BoxFresh

LEMMA BoxExecutes ==
  ASSUME BoxInv, NEW kind \in NotificationKinds, NEW q \in net[kind], NEW ans,
         net' = Executed(net, kind, q, ans), ui' = ui, srv' \in [items: BoxItems],
         ans = Failed \/ (kind \in {"initial", "poll"} => Numbered(ans.all) /\ Numbered(ans.unseen))
  PROVE  BoxInv' /\ BoxFresh
<1> DEFINE n == Executed(net, kind, q, ans)
           r == [q EXCEPT !.ans = ans]
<1>1. /\ IsNet(n, NotificationKinds) /\ n[kind] = (net[kind] \ {q}) \cup {r}
      /\ \A k \in NotificationKinds \ {kind} : n[k] = net[k]
      /\ \A op : InFlight(net, op) => InFlight(n, op)
  BY ExecutedNet DEF BoxInv, BoxNet
<1>2. r.ans = ans
  BY AnsweredFields DEF BoxInv, BoxNet, IsNet
<1>3. BoxRequest(kind, r)
  BY <1>2 DEF BoxRequest
<1>4. net' = n
  OBVIOUS
<1> HIDE DEF n, r
<1>5. BoxNet(n)
  BY <1>1, <1>3 DEF BoxInv, BoxNet
<1>6. BoxEnds(ui', net')
  BY <1>1, <1>4, BoxHas DEF BoxEnds
<1> QED
  BY <1>4, <1>5, <1>6 DEF BoxInv, BoxFresh

LEMMA BoxServerStep ==
  ASSUME BoxInv, Notified \/ ServeNotifications \/ ServeSeen
  PROVE  BoxInv' /\ BoxFresh
<1>0. {"initial", "poll", "sheet", "seen"} = NotificationKinds
  BY BoxKindsAre
<1>1. CASE Notified
  <2>1. PICK a \in Inboxes : srv' = [srv EXCEPT !.items = Append(srv.items, [account |-> a, seen |-> FALSE])]
    BY <1>1 DEF Notified
  <2>2. UNCHANGED <<ui, net>>
    BY <1>1 DEF Notified
  <2> DEFINE items == Append(srv.items, [account |-> a, seen |-> FALSE])
  <2>3. items \in BoxItems
    BY DEF BoxInv, BoxItems
  <2>4. srv' \in [items: BoxItems]
    BY <2>1, <2>3 DEF BoxInv
  <2> QED
    BY <2>2, <2>4 DEF BoxInv, BoxFresh
<1>2. CASE ServeNotifications
  <2>1. PICK kind \in {"initial", "poll", "sheet"} : \E q \in net[kind] :
          Serve(kind, q, srv, [all |-> InboxOf(q.arg), unseen |-> Unseen(q.arg)])
    BY <1>2 DEF ServeNotifications, Asked
  <2>2. PICK q \in net[kind] : Serve(kind, q, srv, [all |-> InboxOf(q.arg), unseen |-> Unseen(q.arg)])
    BY <2>1
  <2>3. Len(srv.items) \in Nat /\ DOMAIN srv.items = 1 .. Len(srv.items)
    BY DEF BoxInv, BoxItems
  <2>4. Numbered(InboxOf(q.arg)) /\ Numbered(Unseen(q.arg))
    <3>1. InboxOf(q.arg) \subseteq 0 .. Len(srv.items) /\ Unseen(q.arg) \subseteq InboxOf(q.arg)
      BY <2>3 DEF InboxOf, Unseen
    <3> QED
      BY <2>3, <3>1 DEF Numbered
  <2> DEFINE ans == [all |-> InboxOf(q.arg), unseen |-> Unseen(q.arg)]
  <2>5. ans.all = InboxOf(q.arg) /\ ans.unseen = Unseen(q.arg)
    OBVIOUS
  <2>6. srv' = srv /\ net' = Executed(net, kind, q, ans) /\ ui' = ui
    BY <2>2 DEF Serve
  <2> HIDE DEF ans
  <2>7. srv' \in [items: BoxItems]
    BY <2>6 DEF BoxInv
  <2> QED
    BY <1>0, <2>4, <2>5, <2>6, <2>7, BoxExecutes
<1>3. CASE ServeSeen
  <2>1. PICK q \in net["seen"] :
          Serve("seen", q, [srv EXCEPT !.items = [i \in DOMAIN srv.items |->
            IF srv.items[i].account = q.arg THEN [srv.items[i] EXCEPT !.seen = TRUE] ELSE srv.items[i]]], "seen")
    BY <1>3 DEF ServeSeen, Asked
  <2> DEFINE items == [i \in DOMAIN srv.items |->
               IF srv.items[i].account = q.arg THEN [srv.items[i] EXCEPT !.seen = TRUE] ELSE srv.items[i]]
  <2>2. items \in BoxItems
    <3>0. srv.items \in Seq([account: Inboxes, seen: BOOLEAN])
      BY DEF BoxInv, BoxItems
    <3>1. \A i \in 1 .. Len(srv.items) : srv.items[i] \in [account: Inboxes, seen: BOOLEAN]
      <4>1. \A T : \A s \in Seq(T) : \A i \in 1 .. Len(s) : s[i] \in T
        OBVIOUS
      <4> HIDE DEF items
      <4> QED
        BY <3>0, <4>1
    <3>2. DOMAIN srv.items = 1 .. Len(srv.items) /\ Len(srv.items) \in Nat
      BY ONLY <3>0
    <3>3. items \in [1 .. Len(srv.items) -> [account: Inboxes, seen: BOOLEAN]]
      BY <3>1, <3>2
    <3> QED
      BY <3>2, <3>3 DEF BoxItems
  <2>3. srv' = [srv EXCEPT !.items = items] /\ net' = Executed(net, "seen", q, "seen") /\ ui' = ui
    BY <2>1 DEF Serve
  <2> HIDE DEF items
  <2>4. srv' \in [items: BoxItems]
    BY <2>2, <2>3 DEF BoxInv
  <2> QED
    BY <1>0, <2>3, <2>4, BoxExecutes
<1> QED
  BY <1>1, <1>2, <1>3

LEMMA BoxInit ==
  ASSUME NEW scenario, NotificationsStart(scenario)
  PROVE  BoxInv
<1>1. IsBoxUi(ui) /\ ui.since = {} /\ BoxEnds(ui, net)
  BY DEF NotificationsStart, IsBoxUi, BoxEnds, SheetRead
<1>2. BoxNet(net)
  BY DEF NotificationsStart, BoxNet, IsNet
<1>3. srv \in [items: BoxItems]
  BY DEF NotificationsStart, BoxItems
<1>4. BoxSettled(ui)
  BY <1>1, NumberedNatural DEF BoxSettled
<1> QED
  BY <1>1, <1>2, <1>3, <1>4 DEF BoxInv

LEMMA BoxInvNext ==
  ASSUME BoxInv, [NotificationsNext \/ Discard \/ Fail]_vars
  PROVE  BoxInv' /\ BoxFresh
<1>1. CASE UNCHANGED vars
  BY <1>1 DEF BoxInv, BoxNet, BoxFresh, vars
<1>2. CASE Discard
  <2>1. IsNet(net, NotificationKinds)
    BY DEF BoxInv, BoxNet
  <2>2. UNCHANGED <<ui, srv>> /\ \E kind \in NotificationKinds : \E q \in net[kind] :
                                   ~q.live /\ net' = Taking(net, kind, q)
    BY <1>2, <2>1, DiscardedRequest
  <2>3. PICK kind \in NotificationKinds : \E q \in net[kind] : ~q.live /\ net' = Taking(net, kind, q)
    BY <2>2
  <2>4. PICK q \in net[kind] : ~q.live /\ net' = Taking(net, kind, q)
    BY <2>3
  <2>5. BoxNet(net') /\ \A op : InFlight(net, op) => InFlight(net', op)
    BY <2>4, BoxHas, BoxTaking
  <2>6. BoxQuiet(ui, ui') /\ BoxEnds(ui', net')
    BY <2>2, <2>5, BoxHas DEF BoxEnds
  <2> QED
    BY <2>2, <2>5, <2>6, BoxShown
<1>3. CASE Fail
  <2>1. IsNet(net, NotificationKinds)
    BY DEF BoxInv, BoxNet
  <2>2. UNCHANGED <<ui, srv>> /\ \E kind \in NotificationKinds : \E q \in net[kind] :
                                   net' = Executed(net, kind, q, Failed)
    BY <1>3, <2>1, FailedRequest
  <2>3. srv' \in [items: BoxItems]
    BY <2>2 DEF BoxInv
  <2> QED
    BY <2>2, <2>3, BoxExecutes
<1> QED
  BY <1>1, <1>2, <1>3, BoxViewStep, BoxAskStep, BoxSeenStep, InitialArrivesStep, PollArrivesStep,
     BoxServerStep DEF NotificationsNext

-----------------------------------------------------------------------------
(* The pages side by side: whose step a step is *)

LEMMA ShellAt == ShellNext => At("shell")
<1>1. ServeAccounts \/ AccountsArrive \/ ServeSession \/ SessionArrives \/ ServeLink => At("shell")
  BY PageRequests DEF ServeAccounts, AccountsArrive, ServeSession, SessionArrives, ServeLink
<1>2. LinkArrives \/ ServeStart \/ StartArrives \/ ServeVerify \/ VerifyArrives => At("shell")
  BY PageRequests DEF LinkArrives, ServeStart, StartArrives, ServeVerify, VerifyArrives
<1>3. ServeStatus \/ StatusArrives \/ ServeRemoval \/ RemovalArrives \/ ServeLeave => At("shell")
  BY PageRequests DEF ServeStatus, StatusArrives, ServeRemoval, RemovalArrives, ServeLeave
<1>4. LeaveArrives \/ Navigate \/ OpenAccount \/ PollStatus \/ CancelRemoval => At("shell")
  BY PageRequests DEF LeaveArrives, Navigate, OpenAccount, PollStatus, CancelRemoval
<1>5. ConfirmRemoval => At("shell")
  BY PageRequests DEF ConfirmRemoval
<1>6. OpenWizard \/ ResumeWizard \/ AskRemoval \/ LeaveSpace => At("shell")
  BY DEF OpenWizard, ResumeWizard, AskRemoval, LeaveSpace, OnSettings, Ready
<1>7. CloseWizard => At("shell")
  BY DEF CloseWizard, Ready
<1>8. Link => At("shell")
  BY DEF Link, PhoneEntry, OnSettings, WizardShows, Ready
<1>9. Verify \/ SkipPassword => At("shell")
  BY DEF Verify, SkipPassword, WizardShows, Ready
<1> QED
  BY <1>1, <1>2, <1>3, <1>4, <1>5, <1>6, <1>7, <1>8, <1>9 DEF ShellNext

LEMMA NotificationsAt == NotificationsNext => At("notifications")
<1>1. Notified \/ ServeNotifications \/ ServeSeen \/ SelectInbox \/ InitialArrives
      => At("notifications")
  BY PageRequests DEF Notified, ServeNotifications, ServeSeen, SelectInbox, InitialArrives
<1>2. Poll \/ PollArrives \/ ToastTimer \/ DismissToast \/ ToastAction => At("notifications")
  BY PageRequests DEF Poll, PollArrives, ToastTimer, DismissToast, ToastAction
<1>3. Bell \/ CloseSheet \/ SheetArrives \/ SeenArrives => At("notifications")
  BY PageRequests DEF Bell, CloseSheet, SheetArrives, SeenArrives
<1>4. RefreshSheet \/ MarkAllSeen \/ ClickNotification => At("notifications")
  BY DEF RefreshSheet, MarkAllSeen, ClickNotification, SheetShows
<1> QED
  BY <1>1, <1>2, <1>3, <1>4 DEF NotificationsNext

LEMMA SubscriptionAt == SubscriptionNext => At("subscription")
<1>1. ServeRedeem \/ RedeemArrives \/ ServeCheckout \/ CheckoutArrives \/ Pay => At("subscription")
  BY PageRequests DEF ServeRedeem, RedeemArrives, ServeCheckout, CheckoutArrives, Pay
<1>2. Webhook \/ PaymentTick \/ StopAwaiting \/ ServeSync \/ SyncArrives => At("subscription")
  BY PageRequests DEF Webhook, PaymentTick, StopAwaiting, ServeSync, SyncArrives
<1>3. ServeSubscription \/ SubscriptionArrives \/ ServeCancel \/ CancelArrives \/ SubscriptionLeaves
      => At("subscription")
  BY PageRequests DEF ServeSubscription, SubscriptionArrives, ServeCancel, CancelArrives,
      SubscriptionLeaves
<1>4. Redeem \/ Checkout \/ CancelSubscription => At("subscription")
  BY DEF Redeem, Checkout, CancelSubscription, SubscriptionAsks
<1> QED
  BY <1>1, <1>2, <1>3, <1>4 DEF SubscriptionNext

LEMMA TokensAt == TokensNext => At("tokens")
<1>1. TokenForm \/ CreateToken \/ ServeCreateToken \/ TokenCreated \/ RevokeToken => At("tokens")
  BY PageRequests DEF TokenForm, CreateToken, ServeCreateToken, TokenCreated, RevokeToken
<1>2. ServeRevoke \/ RevokeArrives \/ ServeTokens \/ TokensArrive \/ TokensLeave => At("tokens")
  BY PageRequests DEF ServeRevoke, RevokeArrives, ServeTokens, TokensArrive, TokensLeave
<1> QED
  BY <1>1, <1>2 DEF TokensNext

LEMMA SessionAt == SessionNext => At("session")
<1>1. ServeAuth \/ AuthArrives \/ ServeMe \/ MeArrives \/ OpenAddress => At("session")
  BY PageRequests DEF ServeAuth, AuthArrives, ServeMe, MeArrives, OpenAddress, Acting
<1>2. FollowLink \/ AskData \/ ServeData \/ DataArrives \/ ServeAccept => At("session")
  BY PageRequests DEF FollowLink, AskData, ServeData, DataArrives, ServeAccept, Acting
<1>3. AcceptArrives \/ Logout \/ ServeLogout \/ LogoutArrives \/ TokensExpire \/ Load => At("session")
  BY PageRequests DEF AcceptArrives, Logout, ServeLogout, LogoutArrives, TokensExpire, Acting, Load
<1>4. SubmitLogin \/ WidgetSignsIn \/ ReturnFromTelegram \/ SwitchAccount \/ RemoveAccount
      => At("session")
  BY DEF SubmitLogin, WidgetSignsIn, ReturnFromTelegram, SwitchAccount, RemoveAccount, OnPage, Acting
<1> QED
  BY <1>1, <1>2, <1>3, <1>4 DEF SessionNext

LEMMA ScraperAt == ScraperNext => At("scraper")
<1>1. ServeScraped \/ ScrapedArrive \/ SelectGroup \/ ServeDetail \/ DetailArrives => At("scraper")
  BY PageRequests DEF ServeScraped, ScrapedArrive, SelectGroup, ServeDetail, DetailArrives
<1>2. ServeConversations \/ ConversationsArrive \/ ServeMessages \/ MessagesArrive \/ ServeScrape
      => At("scraper")
  BY PageRequests DEF ServeConversations, ConversationsArrive, ServeMessages, MessagesArrive,
      ServeScrape
<1>3. ScrapeArrives \/ PollScrape \/ ServeScrapeStatus \/ ScrapeStatusArrives \/ ScrapeGoesOn
      => At("scraper")
  BY PageRequests DEF ScrapeArrives, PollScrape, ServeScrapeStatus, ScrapeStatusArrives,
      ScrapeGoesOn
<1>4. ServeScrapedLeads \/ ScrapedLeadsArrive \/ ServeExtract \/ ExtractArrives \/ ServeMarkLead
      => At("scraper")
  BY PageRequests DEF ServeScrapedLeads, ScrapedLeadsArrive, ServeExtract, ExtractArrives,
      ServeMarkLead
<1>5. LeadMarked => At("scraper")
  BY PageRequests DEF LeadMarked
<1>6. SelectTab \/ TurnConversations \/ ToggleConversation => At("scraper")
  BY DEF SelectTab, TurnConversations, ToggleConversation, Reading
<1>7. StartScrape \/ LoadScrapedLeads \/ ExtractLeads \/ MarkLead => At("scraper")
  BY DEF StartScrape, LoadScrapedLeads, ExtractLeads, MarkLead, Working
<1> QED
  BY <1>1, <1>2, <1>3, <1>4, <1>5, <1>6, <1>7 DEF ScraperNext

LEMMA BulkAddAt == BulkAddNext => At("bulkadd")
<1>1. SelectBulkAgent \/ RefreshJobs \/ ServeJobs \/ JobsArrive \/ SyncGroups => At("bulkadd")
  BY PageRequests DEF SelectBulkAgent, RefreshJobs, ServeJobs, JobsArrive, SyncGroups
<1>2. ServeBulkNames \/ BulkNamesArrive \/ VerifyJoins \/ ServeVerifyJoins \/ VerifyJoinsArrives
      => At("bulkadd")
  BY PageRequests DEF ServeBulkNames, BulkNamesArrive, VerifyJoins, ServeVerifyJoins,
      VerifyJoinsArrives
<1>3. BulkJobsGoOn \/ OpenBulkForm \/ CloseBulkForm \/ EditBulkForm \/ ServeUsers => At("bulkadd")
  BY PageRequests DEF BulkJobsGoOn, OpenBulkForm, CloseBulkForm, EditBulkForm, ServeUsers
<1>4. UsersArrive \/ ServeTarget \/ TargetArrives \/ SelectUsers \/ SubmitBulk => At("bulkadd")
  BY PageRequests DEF UsersArrive, ServeTarget, TargetArrives, SelectUsers, SubmitBulk
<1>5. ServeBulkJob \/ BulkJobArrives => At("bulkadd")
  BY PageRequests DEF ServeBulkJob, BulkJobArrives
<1> QED
  BY <1>1, <1>2, <1>3, <1>4, <1>5 DEF BulkAddNext

\* The pages share the discarding and the failing of requests, and nothing else.
LEMMA StepOfPage ==
  ASSUME [Next]_vars
  PROVE  /\ At("shell") => [ShellNext \/ Discard \/ Fail]_vars
         /\ At("notifications") => [NotificationsNext \/ Discard \/ Fail]_vars
         /\ At("subscription") => [SubscriptionNext \/ Discard \/ Fail]_vars
         /\ At("tokens") => [TokensNext \/ Discard \/ Fail]_vars
         /\ At("session") => [SessionNext \/ Discard \/ Fail]_vars
         /\ At("scraper") => [ScraperNext \/ Discard \/ Fail]_vars
         /\ At("bulkadd") => [BulkAddNext \/ Discard \/ Fail]_vars
<1>1. CASE ShellNext
  BY <1>1, ShellAt DEF At
<1>2. CASE NotificationsNext
  BY <1>2, NotificationsAt DEF At
<1>3. CASE SubscriptionNext
  BY <1>3, SubscriptionAt DEF At
<1>4. CASE TokensNext
  BY <1>4, TokensAt DEF At
<1>5. CASE SessionNext
  BY <1>5, SessionAt DEF At
<1>6. CASE ScraperNext
  BY <1>6, ScraperAt DEF At
<1>7. CASE BulkAddNext
  BY <1>7, BulkAddAt DEF At
<1>8. CASE Discard \/ Fail \/ UNCHANGED vars
  BY <1>8
<1> QED
  BY <1>1, <1>2, <1>3, <1>4, <1>5, <1>6, <1>7, <1>8 DEF Next

(***************************************************************************)
(* The page that is shown keeps its own invariant.                         *)
(***************************************************************************)
PagesInv ==
  \/ ShellInv /\ Known(ui, net)
  \/ BoxInv \/ FormInv \/ TokensInv \/ SessionInv \/ ScraperInv \/ BulkInv

\* What the invariant of each page is for.
LEMMA InvariantOfPage ==
  /\ ShellInv => At("shell") /\ ControlsEnd
  /\ ShellInv /\ Known(ui, net) => StatusOfSelected
  /\ BoxInv => At("notifications") /\ DOMAIN ui.handle = 1 .. MaxItems /\ ShellControlsEnd
  /\ FormInv => At("subscription") /\ ControlsEnd
  /\ TokensInv => At("tokens") /\ SecretIsNewest /\ ControlsEnd
  /\ SessionInv => At("session") /\ UserIsOfToken /\ PageOfRole /\ ControlsEnd
  /\ ScraperInv => At("scraper") /\ JobIsLatest /\ ControlsEnd
  /\ BulkInv => At("bulkadd") /\ SelectedNotThere /\ ControlsEnd
<1>1. ShellInv => At("shell") /\ ControlsEnd
  BY DEF ShellInv, IsShellUi, At
<1>0. ShellInv /\ Known(ui, net) => StatusOfSelected
  BY DEF Known, StatusOfSelected, Live
<1>2. BoxInv => At("notifications") /\ DOMAIN ui.handle = 1 .. MaxItems /\ ShellControlsEnd
  <2>1. BoxInv => At("notifications") /\ DOMAIN ui.handle = 1 .. MaxItems
    BY DEF BoxInv, IsBoxUi, At
  <2>2. BoxInv => \A op \in ui.busy \ SheetLoadingLasts : InFlight(net, op)
    BY DEF BoxInv, BoxEnds, SheetRead, SheetLoadingLasts
  <2> QED
    BY <2>1, <2>2 DEF ShellControlsEnd, ControlsEndBut, InFlight
<1>3. FormInv => At("subscription") /\ ControlsEnd
  BY DEF FormInv, IsFormUi, At
<1>4. TokensInv => At("tokens") /\ SecretIsNewest /\ ControlsEnd
  BY DEF TokensInv, IsTokensUi, SecretIsNewest, At
<1>5. SessionInv => At("session") /\ UserIsOfToken /\ PageOfRole /\ ControlsEnd
  <2>1. SessionInv => At("session") /\ ControlsEnd /\ ui \in SessionUi
    BY DEF SessionInv, Fits, SessionUi, At
  <2>2. SessionInv => UserIsOfToken
    BY DEF SessionInv, Fits, UserIsOfToken, Consistent
  <2>3. SessionInv => PageOfRole
    <3>1. SessionInv => CanAccess("workspace", StoredRole(ui))
      BY <2>1, StoredRoles DEF CanAccess, Guards
    <3>2. DOMAIN Guards = {"workspace", "admin"}
      BY DEF Guards
    <3> QED
      BY <3>1, <3>2 DEF SessionInv, Fits, Guarded, PageOfRole
  <2> QED
    BY <2>1, <2>2, <2>3
<1>6. ScraperInv => At("scraper") /\ JobIsLatest /\ ControlsEnd
  <2>1. ScraperInv => At("scraper") /\ ControlsEnd
    BY DEF ScraperInv, IsScraperUi, At
  <2>2. ScraperInv => JobIsLatest
    BY DEF ScraperInv, Latest, JobIsLatest
  <2> QED
    BY <2>1, <2>2
<1>7. BulkInv => At("bulkadd") /\ SelectedNotThere /\ ControlsEnd
  <2>1. BulkInv => At("bulkadd") /\ ControlsEnd
    BY DEF BulkInv, IsBulkUi, At
  <2>2. BulkInv => SelectedNotThere
    BY DEF BulkInv, Apart, SelectedNotThere
  <2> QED
    BY <2>1, <2>2
<1> QED
  BY <1>0, <1>1, <1>2, <1>3, <1>4, <1>5, <1>6, <1>7

LEMMA PagesInit == Init => PagesInv
<1>1. ASSUME NEW auth, NEW scenario, ShellStart(auth, scenario) PROVE ShellInv /\ Known(ui, net)
  BY <1>1, ShellInit
<1>2. OtherStart => PagesInv
  BY BoxInit, FormInit, TokensInit, SessionInit, ScraperInit, BulkInit DEF OtherStart, PagesInv
<1> QED
  BY <1>1, <1>2 DEF Init, PagesInv

LEMMA PagesInvNext == PagesInv /\ [Next]_vars => PagesInv'
<1> SUFFICES ASSUME PagesInv, [Next]_vars PROVE PagesInv'
  OBVIOUS
<1>1. CASE ShellInv /\ Known(ui, net)
  BY <1>1, StepOfPage, InvariantOfPage, ShellInvNext DEF PagesInv, StatusKept
<1>2. CASE BoxInv
  BY <1>2, StepOfPage, InvariantOfPage, BoxInvNext DEF PagesInv
<1>3. CASE FormInv
  BY <1>3, StepOfPage, InvariantOfPage, FormInvNext DEF PagesInv
<1>4. CASE TokensInv
  BY <1>4, StepOfPage, InvariantOfPage, TokensInvNext DEF PagesInv
<1>5. CASE SessionInv
  BY <1>5, StepOfPage, InvariantOfPage, SessionInvNext DEF PagesInv
<1>6. CASE ScraperInv
  BY <1>6, StepOfPage, InvariantOfPage, ScraperInvNext DEF PagesInv
<1>7. CASE BulkInv
  BY <1>7, StepOfPage, InvariantOfPage, BulkInvNext DEF PagesInv
<1> QED
  BY <1>1, <1>2, <1>3, <1>4, <1>5, <1>6, <1>7 DEF PagesInv

LEMMA PagesInvariant == Spec => []PagesInv
  BY PagesInit, PagesInvNext, PTL DEF Spec

\* What a page has to keep says nothing of another page.
LEMMA HoldsElsewhere ==
  /\ ~At("shell") => StatusOfSelected
  /\ ~At("tokens") => SecretIsNewest
  /\ ~At("session") => UserIsOfToken /\ PageOfRole
  /\ ~At("scraper") => JobIsLatest
  /\ ~At("bulkadd") => SelectedNotThere
<1>1. (~At("tokens") => SecretIsNewest) /\ (~At("session") => UserIsOfToken /\ PageOfRole)
  BY DEF SecretIsNewest, UserIsOfToken, PageOfRole
<1>2. (~At("scraper") => JobIsLatest) /\ (~At("bulkadd") => SelectedNotThere)
  BY DEF JobIsLatest, SelectedNotThere
<1> QED
  BY <1>1, <1>2 DEF StatusOfSelected

LEMMA ControlsEndElsewhere == ~At("notifications") /\ ControlsEnd => ShellControlsEnd
  BY DEF ControlsEnd, ShellControlsEnd

LEMMA PagesHold ==
  ASSUME PagesInv
  PROVE  /\ SecretIsNewest /\ UserIsOfToken /\ PageOfRole /\ JobIsLatest /\ SelectedNotThere
         /\ StatusOfSelected /\ ShellControlsEnd
<1> USE ControlsEndElsewhere
<1>1. CASE ShellInv /\ Known(ui, net)
  BY <1>1, InvariantOfPage, HoldsElsewhere DEF At
<1>2. CASE BoxInv \/ FormInv
  BY <1>2, InvariantOfPage, HoldsElsewhere DEF At
<1>3. CASE TokensInv
  BY <1>3, InvariantOfPage, HoldsElsewhere DEF At
<1>4. CASE SessionInv
  BY <1>4, InvariantOfPage, HoldsElsewhere DEF At
<1>5. CASE ScraperInv
  BY <1>5, InvariantOfPage, HoldsElsewhere DEF At
<1>6. CASE BulkInv
  BY <1>6, InvariantOfPage, HoldsElsewhere DEF At
<1> QED
  BY <1>1, <1>2, <1>3, <1>4, <1>5, <1>6 DEF PagesInv

(***************************************************************************)
(* No button, field or spinner stays disabled or turning once the requests *)
(* that it waits for have ended: also when a request was cancelled or came *)
(* too late, when an operation goes on with a refresh or two, when an      *)
(* answer about jobs ends the flags of two operations, and when two        *)
(* requests about the same are in flight.  The one exception is that of    *)
(* the code: the notification sheet starts as loading, and without an      *)
(* account nothing ends that.                                              *)
(***************************************************************************)
THEOREM PagesControlsEnd == Spec => []ShellControlsEnd
<1>1. PagesInv => ShellControlsEnd
  BY PagesHold
<1> QED
  BY <1>1, PagesInvariant, PTL

(***************************************************************************)
(* For any users, and however many logins are in flight: the user shown is *)
(* always the one the stored token was issued to.                          *)
(***************************************************************************)
THEOREM UserAlwaysOfToken == Spec => []UserIsOfToken
<1>1. PagesInv => UserIsOfToken
  BY PagesHold
<1> QED
  BY <1>1, PagesInvariant, PTL

(***************************************************************************)
(* For any users, roles and order of logins and late answers: nobody has a *)
(* page open that the role stored now does not let them see, although the  *)
(* menu is that of the role at the last load.                              *)
(***************************************************************************)
THEOREM PageAlwaysOfRole == Spec => []PageOfRole
<1>1. PagesInv => PageOfRole
  BY PagesHold
<1> QED
  BY <1>1, PagesInvariant, PTL

(***************************************************************************)
(* For any number of scrapes: the job on display is the one started last,  *)
(* whichever polls of earlier jobs are still in flight.                    *)
(***************************************************************************)
THEOREM JobAlwaysLatest == Spec => []JobIsLatest
<1>1. PagesInv => JobIsLatest
  BY PagesHold
<1> QED
  BY <1>1, PagesInvariant, PTL

(***************************************************************************)
(* For any groups and members: nobody is selected who is on the list of    *)
(* the target's members, whichever target that list was read for.          *)
(***************************************************************************)
THEOREM SelectedNeverThere == Spec => []SelectedNotThere
<1>1. PagesInv => SelectedNotThere
  BY PagesHold
<1> QED
  BY <1>1, PagesInvariant, PTL

(***************************************************************************)
(* For any number of tokens: the secret on display is that of the newest   *)
(* token the card created, also when the card was left and mounted again   *)
(* while tokens were created for it.                                       *)
(***************************************************************************)
THEOREM SecretAlwaysNewest == Spec => []SecretIsNewest
<1>1. PagesInv => SecretIsNewest
  BY PagesHold
<1> QED
  BY <1>1, PagesInvariant, PTL

(***************************************************************************)
(* For any accounts and workspaces: the state shown is that of the account *)
(* selected, or not known, or the first request for that account is still  *)
(* in flight.  Whatever changes the selection, a refresh, a removal or a   *)
(* navigation, cancels the requests for the account before and asks for    *)
(* the state of the new one.                                               *)
(***************************************************************************)
THEOREM StatusAlwaysOfSelected == Spec => []StatusOfSelected
<1>1. PagesInv => StatusOfSelected
  BY PagesHold
<1> QED
  BY <1>1, PagesInvariant, PTL

(***************************************************************************)
(* For any number of notifications, accounts and requests in flight: what  *)
(* was toasted since the first answer is not toasted again, even if the    *)
(* answers of polls overtake each other.                                   *)
(***************************************************************************)
THEOREM AlwaysToastedOnce == Spec => ToastedOnce
<1>1. PagesInv /\ [Next]_vars =>
        [At("notifications") => \A i \in DOMAIN ui.handle :
           ui'.handle[i] \notin {None, ui.handle[i]} => i \notin ui.since]_vars
  <2> SUFFICES ASSUME PagesInv, [Next]_vars, At("notifications")
               PROVE  \A i \in DOMAIN ui.handle :
                        ui'.handle[i] \notin {None, ui.handle[i]} => i \notin ui.since
    OBVIOUS
  <2>1. BoxInv
    BY InvariantOfPage DEF PagesInv, At
  <2> QED
    BY <2>1, StepOfPage, InvariantOfPage, BoxInvNext DEF BoxFresh
<1> QED
  BY <1>1, PagesInvariant, PTL DEF Spec, ToastedOnce
=============================================================================
