---------------------------- MODULE AgentsSettings ----------------------------
(***************************************************************************)
(* Two cards of the settings page of the agents' mini-app (App.tsx): the   *)
(* subscription form, with promo codes, the checkout at Whop and the       *)
(* cancellation, and the card of the MCP tokens.                           *)
(***************************************************************************)
EXTENDS WebView

CONSTANT MaxTokens    \* bound: MCP tokens created

-----------------------------------------------------------------------------
(* The subscription form *)

SubscriptionKinds == {"redeem", "checkout", "sync", "status", "cancel", "cancelWhop"}

\* The state of a subscription and who provides it; what was paid at Whop is
\* known to the server after its webhook or a synchronisation.
SubscriptionStart(status) ==
  /\ srv = [status |-> status, code |-> "fresh", paid |-> FALSE]
  /\ ui = [at |-> "subscription", busy |-> {}, status |-> status, awaiting |-> FALSE]
  /\ net = [kind \in SubscriptionKinds |->      \* the first effect reconciles once
              IF kind = "sync" /\ status = <<"inactive", "whop">>
              THEN {Request({}, "first")} ELSE {}]

IsActive(u) == u.status[1] = "active"

\* What the buttons of the form allow.
SubscriptionOffers(u) ==
  {op \in {"redeem", "checkout", "cancel"} : op \notin u.busy /\ (op = "cancel" => IsActive(u))}

SubscriptionAsks(op, kind) ==
  At("subscription") /\ op \in SubscriptionOffers(ui) /\ Ask(ui, op, kind, "user")

Redeem == SubscriptionAsks("redeem", "redeem")
Checkout == SubscriptionAsks("checkout", "checkout")

\* Whop keeps the access until the period ends, so the state is read again;
\* another subscription is cleared.
CancelSubscription ==
  SubscriptionAsks("cancel", IF ui.status[2] = "whop" THEN "cancelWhop" ELSE "cancel")

ServeRedeem ==
  \E q \in Asked("subscription", "redeem") :
    IF srv.code = "fresh"
    THEN Serve("redeem", q, [srv EXCEPT !.code = "used", !.status = <<"active", "promo">>], "done")
    ELSE Serve("redeem", q, srv, "already")

\* A code that was redeemed before, by a request whose answer was lost perhaps,
\* is no failure: the state is read.
RedeemArrives ==
  \E q \in Answers("subscription", "redeem") :
    CASE q.ans = "done" -> Take("redeem", q, [ui EXCEPT !.status = <<"active", "promo">>])
      [] q.ans = "already" -> Further("redeem", q, ui, "status", "user")
      [] OTHER -> Take("redeem", q, ui)

ServeCheckout == \E q \in Asked("subscription", "checkout") : Serve("checkout", q, srv, "url")

CheckoutArrives ==
  \E q \in Answers("subscription", "checkout") :
    Take("checkout", q, [ui EXCEPT !.awaiting = @ \/ ~Refused(q)])

\* The user pays in another window; the webhook of Whop.
Pay ==
  /\ At("subscription") /\ ui.awaiting /\ ~srv.paid
  /\ srv' = [srv EXCEPT !.paid = TRUE]
  /\ UNCHANGED <<ui, net>>

Fulfilled(s) == IF s.paid THEN [s EXCEPT !.status = <<"active", "whop">>] ELSE s

Webhook ==
  /\ At("subscription") /\ Fulfilled(srv) # srv
  /\ srv' = Fulfilled(srv)
  /\ UNCHANGED <<ui, net>>

\* While a payment is awaited the state is read every five seconds, and the
\* server synchronised when the window is shown again, for five minutes.
PaymentTick ==
  /\ At("subscription") /\ ui.awaiting /\ Room
  /\ \E kind \in {"status", "sync"} : net' = Sending(net, kind, {}, "tick")
  /\ UNCHANGED <<ui, srv>>

StopAwaiting == At("subscription") /\ ui.awaiting /\ Show([ui EXCEPT !.awaiting = FALSE])

ServeSync == \E q \in Asked("subscription", "sync") : Serve("sync", q, Fulfilled(srv), "done")

\* reconcile reads the state also when the synchronisation failed.
SyncArrives ==
  \E q \in Answers("subscription", "sync") : Further("sync", q, ui, "status", q.arg)

ServeSubscription == \E q \in Asked("subscription", "status") : Serve("status", q, srv, srv.status)

SubscriptionArrives ==
  \E q \in Answers("subscription", "status") :
    Take("status", q,
      IF Refused(q) THEN ui
      ELSE [ui EXCEPT !.status = q.ans,
                      !.awaiting = @ /\ ~(q.arg = "tick" /\ q.ans[1] = "active")])

ServeCancel ==
  \/ \E q \in Asked("subscription", "cancel") :
       Serve("cancel", q, [srv EXCEPT !.status = <<"inactive", "none">>], "done")
  \/ \E q \in Asked("subscription", "cancelWhop") : Serve("cancelWhop", q, srv, "done")

CancelArrives ==
  \/ \E q \in Answers("subscription", "cancel") :
       Take("cancel", q, IF Refused(q) THEN ui
                         ELSE [ui EXCEPT !.status = <<"inactive", "none">>])
  \/ \E q \in Answers("subscription", "cancelWhop") :
       IF Refused(q) THEN Take("cancelWhop", q, ui)
       ELSE Further("cancelWhop", q, ui, "status", "user")

\* The card leaves the page, at a refresh of the accounts too.
SubscriptionLeaves ==
  /\ At("subscription")
  /\ ui' = [ui EXCEPT !.busy = {}, !.awaiting = FALSE]
  /\ net' = AllCancelled(net)
  /\ UNCHANGED srv

SubscriptionNext ==
  \/ Redeem \/ ServeRedeem \/ RedeemArrives
  \/ Checkout \/ ServeCheckout \/ CheckoutArrives \/ Pay \/ Webhook
  \/ PaymentTick \/ StopAwaiting \/ ServeSync \/ SyncArrives
  \/ ServeSubscription \/ SubscriptionArrives
  \/ CancelSubscription \/ ServeCancel \/ CancelArrives \/ SubscriptionLeaves

-----------------------------------------------------------------------------
(* The card of the MCP tokens *)

TokenKinds == {"tokens", "create", "revoke"}

TokensStart ==
  /\ srv = [tokens |-> <<>>,      \* the state of each token, in order of creation
            newest |-> None]      \* history: the last one created for this card
  /\ ui = [at |-> "tokens", busy |-> {"list"}, tokens |-> <<>>, form |-> FALSE,
           secret |-> None]       \* the token whose secret is displayed
  /\ net = [kind \in TokenKinds |-> IF kind = "tokens" THEN {Request({"list"}, None)} ELSE {}]

TokenForm ==
  /\ At("tokens")
  /\ Show(IF ui.form THEN [ui EXCEPT !.form = FALSE]
          ELSE [ui EXCEPT !.form = TRUE, !.secret = None])

CreateKeepsSecret ==
  At("tokens") /\ ui.form /\ "create" \notin ui.busy /\ Ask(ui, "create", "create", None)

\* The button of the form is disabled while a token is being created.
CreateToken ==
  /\ At("tokens") /\ ui.form /\ "create" \notin ui.busy
  /\ Ask([ui EXCEPT !.secret = None], "create", "create", None)

ServeCreateToken ==
  \E q \in Asked("tokens", "create") :
    /\ Len(srv.tokens) < MaxTokens
    /\ Serve("create", q, [tokens |-> Append(srv.tokens, "active"),
                           newest |-> IF q.live THEN Len(srv.tokens) + 1 ELSE srv.newest],
             Len(srv.tokens) + 1)

\* The secret is known to this answer alone; the list is loaded again.
TokenCreated ==
  \E q \in Answers("tokens", "create") :
    IF Refused(q) THEN Take("create", q, ui)
    ELSE /\ ui' = Busy([ui EXCEPT !.secret = q.ans], {"list"})
         /\ net' = Sending(Taking(net, "create", q), "tokens", q.ops \cup {"list"}, None)
         /\ UNCHANGED srv

RevokeToken ==
  /\ At("tokens") /\ Room /\ "list" \notin ui.busy
  /\ \E i \in DOMAIN ui.tokens :
       ui.tokens[i] = "active" /\ net' = Sending(net, "revoke", {}, i)
  /\ UNCHANGED <<ui, srv>>

ServeRevoke ==
  \E q \in Asked("tokens", "revoke") :
    Serve("revoke", q, [srv EXCEPT !.tokens[q.arg] = "revoked"], "done")

RevokeArrives ==
  \E q \in Answers("tokens", "revoke") :
    IF Refused(q) THEN Take("revoke", q, ui)
    ELSE /\ ui' = Busy(ui, {"list"})
         /\ net' = Sending(Taking(net, "revoke", q), "tokens", {"list"}, None)
         /\ UNCHANGED srv

ServeTokens == \E q \in Asked("tokens", "tokens") : Serve("tokens", q, srv, srv.tokens)

TokensArrive ==
  \E q \in Answers("tokens", "tokens") :
    Take("tokens", q, [ui EXCEPT !.tokens = IF Refused(q) THEN @ ELSE q.ans])

\* The card leaves the page and is mounted again, at a refresh of the accounts too.
TokensLeave ==
  /\ At("tokens") /\ Room
  /\ ui' = [ui EXCEPT !.busy = {"list"}, !.tokens = <<>>, !.form = FALSE, !.secret = None]
  /\ net' = Sending(AllCancelled(net), "tokens", {"list"}, None)
  /\ UNCHANGED srv

TokensNext ==
  \/ TokenForm \/ CreateToken \/ ServeCreateToken \/ TokenCreated
  \/ RevokeToken \/ ServeRevoke \/ RevokeArrives \/ ServeTokens \/ TokensArrive
  \/ TokensLeave

\* The secret on display, which can not be read again, is that of the newest
\* token that this card has created (MCPTokensCard.handleCreate).
SecretIsNewest == At("tokens") => ui.secret \in {None, srv.newest}
=============================================================================
