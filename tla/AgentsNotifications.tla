------------------------- MODULE AgentsNotifications -------------------------
(***************************************************************************)
(* Notifications and toasts of the agents' mini-app: the poll of the       *)
(* selected account's notifications, the badge, the toasts with their      *)
(* timers and the notification sheet (App.tsx, ToastContainer.tsx).        *)
(***************************************************************************)
EXTENDS WebView, SequencesExt

CONSTANTS
  Inboxes,      \* accounts whose notifications may be selected
  MaxItems,     \* bound: notifications the server creates, numbered in order
  ToastLimit,   \* 3 in the code
  MaxTimers     \* bound: toast timers pending at a time

Timers == 1 .. MaxTimers
NotificationKinds == {"initial", "poll", "sheet", "seen"}

\* What the user does is bounded to one of two scenarios: to be shown toasts by
\* the poll and to open and click them, or to use the sheet.
NotificationsStart(scenario) ==
  /\ srv = [items |-> <<>>]
  /\ ui = [at |-> "notifications", busy |-> {"sheet"}, selected |-> None, scenario |-> scenario,
           last |-> 0, toasts |-> <<>>,
           timer |-> [k \in Timers |-> None],    \* what each pending timer removes
           handle |-> [i \in 1 .. MaxItems |-> None],    \* toastTimersRef
           open |-> FALSE, listed |-> FALSE,
           since |-> {}]    \* history: toasted by polls since last was set
  /\ net = [kind \in NotificationKinds |-> {}]

InboxOf(a) == {i \in DOMAIN srv.items : srv.items[i].account = a}
Unseen(a) == {i \in InboxOf(a) : ~srv.items[i].seen}

\* A notification of an account arrives at the server.
Notified ==
  /\ At("notifications") /\ Len(srv.items) < MaxItems
  /\ \E a \in Inboxes :
       srv' = [srv EXCEPT !.items = Append(@, [account |-> a, seen |-> FALSE])]
  /\ UNCHANGED <<ui, net>>

-----------------------------------------------------------------------------
(* Toasts *)

Showing(u) == {u.toasts[k].id : k \in DOMAIN u.toasts}
FreeTimers(u) == {k \in Timers : u.timer[k] = None /\ \A j \in DOMAIN u.toasts : u.toasts[j].timer # k}

\* pushToast for each of ids, the newest first: each goes in front, and the oldest
\* toasts are cut off.  Each gets a timer of its own, and the handle that
\* dismissToast uses is the newest timer of the id.
PushToasts(u, ids) ==
  LET timer == CHOOSE t \in Injection(ids, FreeTimers(u)) : TRUE
      order == SetToSortSeq(ids, <)
      new == [k \in DOMAIN order |-> [id |-> order[k], timer |-> timer[order[k]]]]
      toasts == new \o u.toasts
  IN [u EXCEPT !.toasts = SubSeq(toasts, 1, Min({ToastLimit, Len(toasts)})),
               !.timer = [k \in Timers |-> IF k \in Range(timer) THEN AntiFunction(timer)[k] ELSE @[k]],
               !.handle = [id \in DOMAIN @ |-> IF id \in ids THEN timer[id] ELSE @[id]]]

WithoutToast(u, id) == [u EXCEPT !.toasts = SelectSeq(@, LAMBDA toast : toast.id # id)]

\* dismissToast: the newest timer of the id is cleared, older ones are not.
DismissTimers(u, id) ==
  IF u.handle[id] = None THEN u
  ELSE [u EXCEPT !.timer[u.handle[id]] = None, !.handle[id] = None]

\* Five seconds after a push.
ToastTimer ==
  /\ At("notifications")
  /\ \E k \in Timers :
       /\ ui.timer[k] # None
       /\ ui' = [WithoutToast(ui, ui.timer[k]) EXCEPT !.timer[k] = None,
                                                      !.handle[ui.timer[k]] = None]
  /\ UNCHANGED <<net, srv>>

-----------------------------------------------------------------------------
(* The sheet *)

\* Its refresh, for the account of this render, as a step of the operations.
Listing(n, a, ops) == Sending(n, "sheet", ops \cup {"sheet"}, a)

\* The effect of the sheet reads the notifications when it opens.
OpenSheet(u) ==
  IF u.open \/ u.selected = None THEN ui' = [u EXCEPT !.open = TRUE] /\ UNCHANGED net
  ELSE /\ ui' = Busy([u EXCEPT !.open = TRUE], {"sheet"})
       /\ net' = Listing(net, u.selected, {})

\* The bell of the header, and a toast, which it also dismisses.
Bell ==
  /\ At("notifications") /\ Room /\ ~ui.open /\ ui.scenario = "sheet"
  /\ OpenSheet(ui)
  /\ UNCHANGED srv

ToastAction ==
  /\ At("notifications") /\ Room
  /\ \E id \in Showing(ui) : OpenSheet(WithoutToast(DismissTimers(ui, id), id))
  /\ UNCHANGED srv

DismissToast ==
  /\ At("notifications")
  /\ \E id \in Showing(ui) : Show(WithoutToast(DismissTimers(ui, id), id))

\* The buttons and the list of the open sheet.
SheetShows == At("notifications") /\ ui.open /\ ui.selected # None

RefreshSheet ==
  /\ SheetShows /\ Room /\ ui.scenario = "sheet" /\ "sheet" \notin ui.busy
  /\ ui' = Busy(ui, {"sheet"})
  /\ net' = Listing(net, ui.selected, {})
  /\ UNCHANGED srv

\* An answer is listed whatever account is selected by now.
SheetArrives ==
  \E q \in Answers("notifications", "sheet") :
    Take("sheet", q, [ui EXCEPT !.listed = IF Refused(q) THEN @ ELSE q.ans.unseen # {}])

MarkAllSeen ==
  /\ SheetShows /\ ui.scenario = "sheet" /\ ui.busy \cap {"seen", "sheet"} = {}
  /\ Ask(ui, "seen", "seen", ui.selected)

\* A click on a notification marks all of the account as seen, without reading
\* them again, and may lead to its job.
ClickNotification ==
  /\ SheetShows /\ Room /\ ui.listed
  /\ \E stays \in {FALSE, ui.scenario = "sheet"} : ui' = [ui EXCEPT !.open = stays]
  /\ net' = Sending(net, "seen", {}, ui.selected)
  /\ UNCHANGED srv

CloseSheet == At("notifications") /\ ui.open /\ Show([ui EXCEPT !.open = FALSE])

ServeSeen ==
  \E q \in Asked("notifications", "seen") :
    Serve("seen", q, [srv EXCEPT !.items = [i \in DOMAIN @ |->
            IF @[i].account = q.arg THEN [@[i] EXCEPT !.seen = TRUE] ELSE @[i]]], "seen")

SeenArrives ==
  \E q \in Answers("notifications", "seen") :
    IF Refused(q) \/ q.ops = {} THEN Take("seen", q, ui)
    ELSE /\ ui' = Busy(ui, {"sheet"})
         /\ net' = Listing(Taking(net, "seen", q), q.arg, q.ops)
         /\ UNCHANGED srv

-----------------------------------------------------------------------------
(* The poll *)

\* The effect of the selected account runs when it, the loading state or the
\* wizard changes, and also when a refresh brings the same account again.
SelectInbox ==
  /\ At("notifications") /\ Room
  /\ \E a \in Inboxes \cup {None} :
       LET listing == ui.open /\ a \notin {None, ui.selected}
           read == IF a = None THEN net ELSE Sending(net, "initial", {}, a)
       IN /\ ui' = Busy([ui EXCEPT !.selected = a], IF listing THEN {"sheet"} ELSE {})
          /\ net' = IF listing THEN Listing(read, a, {}) ELSE read
  /\ UNCHANGED srv

\* The interval of 30 seconds, cleared with the effect; a request it has sent
\* goes on.
Poll ==
  /\ At("notifications") /\ Room /\ ui.selected # None /\ ui.scenario = "poll"
  /\ net' = Sending(net, "poll", {}, ui.selected)
  /\ UNCHANGED <<ui, srv>>

ServeNotifications ==
  \E kind \in {"initial", "poll", "sheet"} : \E q \in Asked("notifications", kind) :
    Serve(kind, q, srv, [all |-> InboxOf(q.arg), unseen |-> Unseen(q.arg)])

\* The first answer sets the number after which polls toast, also downwards.
InitialArrives ==
  \E q \in Answers("notifications", "initial") :
    Take("initial", q, IF Refused(q) THEN ui
                       ELSE [ui EXCEPT !.last = Max(q.ans.all \cup {0}), !.since = {}])

\* What a poll toasts is judged when its answer arrives.
Toasting(ans) == {i \in ans.unseen : i > ui.last}

\* Every one that is new is toasted, and last is the newest of them.
PollForgetful ==
  \E q \in Answers("notifications", "poll") :
    LET new == IF Refused(q) THEN {} ELSE Toasting(q.ans)
    IN /\ Cardinality(FreeTimers(ui)) >= Cardinality(new)
       /\ Take("poll", q, PushToasts([ui EXCEPT !.since = @ \cup new], new))

PollArrives ==
  \E q \in Answers("notifications", "poll") :
    LET new == IF Refused(q) THEN {} ELSE Toasting(q.ans)
    IN /\ Cardinality(FreeTimers(ui)) >= Cardinality(new)
       /\ Take("poll", q, PushToasts([ui EXCEPT !.last = Max(new \cup {@}),
                                                 !.since = @ \cup new], new))

NotificationsNext ==
  \/ Notified \/ ServeNotifications \/ ServeSeen
  \/ SelectInbox \/ InitialArrives \/ Poll \/ PollArrives
  \/ ToastTimer \/ DismissToast \/ ToastAction
  \/ Bell \/ CloseSheet \/ RefreshSheet \/ SheetArrives
  \/ MarkAllSeen \/ ClickNotification \/ SeenArrives

\* The sheet starts as loading, and is until it is first read, for an account.
SheetLoadingLasts == IF ui.open /\ ui.selected # None THEN {} ELSE {"sheet"}

\* Between two first answers polls toast a notification at most once, although
\* the answers of polls may overtake each other (lastNotifIdRef).
ToastedOnce ==
  [][At("notifications") =>
       \A i \in DOMAIN ui.handle :
         ui'.handle[i] \notin {None, ui.handle[i]} => i \notin ui.since]_vars
=============================================================================
