----------------------------- MODULE AgentsLeads -----------------------------
(***************************************************************************)
(* Pages of the agents' mini-app about an account's leads and its limits:  *)
(* the list of leads, the form that acquires them, the blacklist and the   *)
(* analytics with the safety settings (AccountLeadsPage and                *)
(* AccountAnalyticsPage of App.tsx, LeadsAcquisitionSection.tsx,           *)
(* BlacklistSection.tsx).                                                  *)
(***************************************************************************)
EXTENDS WebView

CONSTANTS
  Leads,        \* numbers
  LeadOwner,    \* the account that captured each lead, a number
  Queries,      \* texts the user may search for
  MaxEntries    \* bound: entries ever added to the blacklist

-----------------------------------------------------------------------------
(* The list of leads, one per page *)

LeadKinds == {"leads", "mark", "contact"}

LeadsArg(u) == [account |-> u.account, page |-> u.page]

LeadsStart ==
  /\ srv = [dismissed |-> {}]
  /\ ui = [at |-> "leads", busy |-> {"load"}, account |-> 1, page |-> 1, pages |-> 1,
           leads |-> {}, contacting |-> None]
  /\ net = [kind \in LeadKinds |-> IF kind = "leads"
              THEN {Request({"load"}, [account |-> 1, page |-> 1])} ELSE {}]

\* refresh() of u, which neither cancels one in flight nor looks whose it is.
LeadsRefreshed(n, u) == Sending(n, "leads", {"load"}, LeadsArg(u))

RefreshLeads == At("leads") /\ "load" \notin ui.busy /\ Ask(ui, "load", "leads", LeadsArg(ui))

\* The pages' buttons; another account keeps the page.
TurnLeads ==
  /\ At("leads") /\ Room
  /\ \E u \in {[ui EXCEPT !.page = @ - 1], [ui EXCEPT !.page = @ + 1], [ui EXCEPT !.account = 3 - @]} :
       /\ u.page >= 1
       /\ u.page > ui.page => u.page <= ui.pages
       /\ ui.pages > 1 \/ u.page = ui.page
       /\ Ask(u, "load", "leads", LeadsArg(u))

LeadsOf(a) == {l \in Leads : LeadOwner[l] = a}
ServeLeads ==
  \E q \in Asked("leads", "leads") :
    LET mine == LeadsOf(q.arg.account)
    IN Serve("leads", q, srv,
             [pages |-> Cardinality(mine),
              leads |-> {<<l, l \in srv.dismissed>> : l \in
                {m \in mine : Cardinality({k \in mine : k <= m}) = q.arg.page}}])

LeadsArrive ==
  \E q \in Answers("leads", "leads") :
    Take("leads", q, IF Refused(q) THEN ui
                     ELSE [ui EXCEPT !.pages = q.ans.pages, !.leads = q.ans.leads])

OpenContact ==
  /\ At("leads") /\ ui.contacting = None
  /\ \E lead \in ui.leads : ~lead[2] /\ Show([ui EXCEPT !.contacting = lead[1]])

CloseContact == At("leads") /\ ui.contacting # None /\ Show([ui EXCEPT !.contacting = None])

\* The lead is marked as contacted before the job is created.
SendContact ==
  /\ At("leads") /\ ui.contacting # None /\ "send" \notin ui.busy
  /\ Ask(ui, "send", "mark", [account |-> ui.account, lead |-> ui.contacting, as |-> "contacted"])

DismissLead ==
  /\ At("leads") /\ Room
  /\ \E lead \in ui.leads :
       /\ ~lead[2]
       /\ net' = Sending(net, "mark", {}, [account |-> ui.account, lead |-> lead[1], as |-> "dismissed"])
  /\ UNCHANGED <<ui, srv>>

ServeMark ==
  \E q \in Asked("leads", "mark") :
    Serve("mark", q, [srv EXCEPT !.dismissed = IF q.arg.as = "dismissed" THEN @ \cup {q.arg.lead}
                                               ELSE @ \ {q.arg.lead}], "done")

MarkArrives ==
  \E q \in Answers("leads", "mark") :
    CASE Refused(q) -> Take("mark", q, ui)
      [] ~Refused(q) /\ q.arg.as = "contacted" -> Further("mark", q, ui, "contact", q.arg)
      [] OTHER -> /\ ui' = Busy(ui, {"load"})
                  /\ net' = LeadsRefreshed(Taking(net, "mark", q), ui)
                  /\ UNCHANGED srv

ServeContact ==
  \E q \in Asked("leads", "contact") :
    Serve("contact", q, srv, "done")

\* The dialog closes, also one opened meanwhile for another lead.
ContactArrives ==
  \E q \in Answers("leads", "contact") :
    IF Refused(q) THEN Take("contact", q, ui)
    ELSE /\ ui' = Busy(Free([ui EXCEPT !.contacting = None], q.ops), {"load"})
         /\ net' = LeadsRefreshed(Taking(net, "contact", q), ui)
         /\ UNCHANGED srv

LeadsNext ==
  \/ RefreshLeads \/ TurnLeads \/ ServeLeads \/ LeadsArrive
  \/ OpenContact \/ CloseContact \/ SendContact \/ DismissLead
  \/ ServeMark \/ MarkArrives \/ ServeContact \/ ContactArrives

-----------------------------------------------------------------------------
(* The form that acquires leads *)

AcquisitionKinds == {"groups", "scrape", "capture"}

EmptyForm == [type |-> "scrape", query |-> None, timer |-> FALSE, listed |-> None,
              group |-> None, keywords |-> FALSE]

AcquisitionStart ==
  /\ srv = [scrapes |-> {}, captures |-> FALSE]
  /\ ui = [at |-> "acquisition", busy |-> {}, open |-> FALSE, form |-> EmptyForm]
  /\ net = [kind \in AcquisitionKinds |-> {}]

\* resetForm: the cleared query also ends the loading state.
AcquisitionForm ==
  At("acquisition") /\ Show([Free(ui, {"search"}) EXCEPT !.open = ~@, !.form = EmptyForm])

\* A text typed, or a type chosen, restarts the timer of the search.
Typed(form) == [form EXCEPT !.timer = form.query # None,
                            !.listed = IF form.query = None THEN None ELSE @]

EditAcquisition ==
  /\ At("acquisition") /\ ui.open
  /\ \/ \E query \in Queries \cup {None} :
          Show([IF query = None /\ ui.form.type = "scrape" THEN Free(ui, {"search"}) ELSE ui EXCEPT
                  !.form = Typed([ui.form EXCEPT !.query = query])])
     \/ \E type \in {"scrape", "capture"} \ {ui.form.type} :
          Show([ui EXCEPT !.form = [Typed([ui.form EXCEPT !.type = type]) EXCEPT !.listed = None]])
     \/ ui.form.type = "capture" /\ Show([ui EXCEPT !.form.keywords = ~@])

\* A group is chosen from the list, which puts its name into the search.
ChooseGroup ==
  /\ At("acquisition") /\ ui.open /\ ui.form.type = "scrape"
  /\ ui.form.listed # None /\ "search" \notin ui.busy
  /\ Show([ui EXCEPT !.form = Typed([ui.form EXCEPT !.group = ui.form.listed,
                                                    !.query = ui.form.listed])])

\* 400 or 350 ms after the last key; only the scrape's list has a loading state.
SearchTimer ==
  /\ At("acquisition") /\ ui.form.timer /\ Room
  /\ LET ops == IF ui.form.type = "scrape" THEN {"search"} ELSE {}
     IN /\ ui' = Busy([ui EXCEPT !.form.timer = FALSE], ops)
        /\ net' = Sending(net, "groups", ops, ui.form.query)
  /\ UNCHANGED srv

ServeGroups == \E q \in Asked("acquisition", "groups") : Serve("groups", q, srv, q.arg)

\* Of searches in flight the last answer is listed, whatever is typed by now.
GroupsArrive ==
  \E q \in Answers("acquisition", "groups") :
    Take("groups", q, [ui EXCEPT !.form.listed = IF Refused(q) THEN None ELSE q.ans])

CanSubmit(form) == IF form.type = "scrape" THEN form.group # None ELSE form.keywords

SubmitAcquisition ==
  /\ At("acquisition") /\ ui.open /\ "save" \notin ui.busy /\ CanSubmit(ui.form)
  /\ Ask(ui, "save", ui.form.type, ui.form.group)

ServeAcquisition ==
  \E kind \in {"scrape", "capture"} : \E q \in Asked("acquisition", kind) :
    Serve(kind, q, IF kind = "scrape" THEN [srv EXCEPT !.scrapes = @ \cup {q.arg}]
                   ELSE [srv EXCEPT !.captures = TRUE], "done")

\* A scrape closes the form whether it was queued or not, a capture leaves it open.
AcquisitionArrives ==
  \E kind \in {"scrape", "capture"} : \E q \in Answers("acquisition", kind) :
    Take(kind, q, [ui EXCEPT !.open = @ /\ kind # "scrape"])

AcquisitionNext ==
  \/ AcquisitionForm \/ EditAcquisition \/ ChooseGroup \/ SearchTimer \/ ServeGroups
  \/ GroupsArrive \/ SubmitAcquisition \/ ServeAcquisition \/ AcquisitionArrives

-----------------------------------------------------------------------------
(* The blacklist *)

Entries == 1 .. MaxEntries
BlacklistKinds == {"list", "delete", "add"}

BlacklistStart ==
  /\ srv = [listed |-> {1}, next |-> 2]
  /\ ui = [at |-> "blacklist", busy |-> {"list"}, listed |-> {}, form |-> FALSE, editing |-> None]
  /\ net = [kind \in BlacklistKinds |-> IF kind = "list" THEN {Request({"list"}, None)} ELSE {}]

ServeBlacklist == \E q \in Asked("blacklist", "list") : Serve("list", q, srv, srv.listed)
BlacklistArrives ==
  \E q \in Answers("blacklist", "list") :
    Take("list", q, [ui EXCEPT !.listed = IF Refused(q) THEN @ ELSE q.ans])

OpenEntry ==
  /\ At("blacklist")
  /\ \/ ~ui.form /\ Show([ui EXCEPT !.form = TRUE])
     \/ \E i \in ui.listed : "list" \notin ui.busy /\ Show([ui EXCEPT !.form = TRUE, !.editing = i])

CloseEntry == At("blacklist") /\ ui.form /\ Show([ui EXCEPT !.form = FALSE, !.editing = None])

DeleteEntry ==
  /\ At("blacklist") /\ Room /\ "list" \notin ui.busy
  /\ \E i \in ui.listed : net' = Sending(net, "delete", {}, i)
  /\ UNCHANGED <<ui, srv>>

\* An edited entry is deleted and then added with its new values.
SaveEntry ==
  /\ At("blacklist") /\ ui.form /\ "save" \notin ui.busy
  /\ IF ui.editing = None THEN Ask(ui, "save", "add", None) ELSE Ask(ui, "save", "delete", ui.editing)

ServeDelete ==
  \E q \in Asked("blacklist", "delete") :
    Serve("delete", q, [srv EXCEPT !.listed = @ \ {q.arg}], "done")

DeleteArrives ==
  \E q \in Answers("blacklist", "delete") :
    LET u == [ui EXCEPT !.listed = IF Refused(q) THEN @ ELSE @ \ {q.arg}]
    IN IF "save" \in q.ops /\ ~Refused(q) THEN Further("delete", q, u, "add", None)
       ELSE Take("delete", q, u)

ServeAdd ==
  \E q \in Asked("blacklist", "add") :
    /\ srv.next \in Entries
    /\ Serve("add", q, [listed |-> srv.listed \cup {srv.next}, next |-> srv.next + 1], srv.next)

\* A failure leaves the form as it is.
AddArrives ==
  \E q \in Answers("blacklist", "add") :
    Take("add", q, IF Refused(q) THEN ui
                   ELSE [ui EXCEPT !.listed = @ \cup {q.ans}, !.form = FALSE, !.editing = None])

BlacklistNext ==
  \/ ServeBlacklist \/ BlacklistArrives \/ OpenEntry \/ CloseEntry \/ DeleteEntry
  \/ SaveEntry \/ ServeDelete \/ DeleteArrives \/ ServeAdd \/ AddArrives

-----------------------------------------------------------------------------
(* Analytics and safety settings *)

AnalyticsKinds == {"analytics", "safety"}

AnalyticsStart ==
  /\ srv = [safety |-> [a \in {1, 2} |-> a]]    \* the account whose limits these are
  /\ ui = [at |-> "analytics", busy |-> {"load"}, account |-> 1, form |-> None, editing |-> FALSE]
  /\ net = [kind \in AnalyticsKinds |-> IF kind = "analytics" THEN {Request({"load"}, 1)} ELSE {}]

AnalyticsLoaded == At("analytics") /\ "load" \notin ui.busy

\* The button, and another account: while one is loading nothing else is shown.
LoadAnalytics ==
  \/ AnalyticsLoaded /\ Ask(ui, "load", "analytics", ui.account)
  \/ At("analytics") /\ Ask([ui EXCEPT !.account = 3 - @], "load", "analytics", 3 - ui.account)

ServeAnalytics ==
  \E q \in Asked("analytics", "analytics") : Serve("analytics", q, srv, srv.safety[q.arg])

\* The settings of any answer fill the form, over what was typed.
AnalyticsArrive ==
  \E q \in Answers("analytics", "analytics") :
    Take("analytics", q, [ui EXCEPT !.form = IF Refused(q) THEN @ ELSE q.ans])

EditSafety == AnalyticsLoaded /\ Show([ui EXCEPT !.editing = ~@])

SaveSafety ==
  /\ AnalyticsLoaded /\ ui.editing /\ "save" \notin ui.busy
  /\ Ask(ui, "save", "safety", [account |-> ui.account, form |-> ui.form])

ServeSafety ==
  \E q \in Asked("analytics", "safety") :
    Serve("safety", q, [srv EXCEPT !.safety[q.arg.account] = q.arg.form], "done")

\* The settings are read again for the account that they were saved for.
SafetySaved ==
  \E q \in Answers("analytics", "safety") :
    IF Refused(q) THEN Take("safety", q, ui)
    ELSE /\ ui' = Busy(Free([ui EXCEPT !.editing = FALSE], q.ops), {"load"})
         /\ net' = Sending(Taking(net, "safety", q), "analytics", {"load"}, q.arg.account)
         /\ UNCHANGED srv

AnalyticsNext ==
  \/ LoadAnalytics \/ ServeAnalytics \/ AnalyticsArrive
  \/ EditSafety \/ SaveSafety \/ ServeSafety \/ SafetySaved
=============================================================================
