--------------------------- MODULE DashboardScraper ---------------------------
(***************************************************************************)
(* The page of the dashboard that scrapes groups and reads what was        *)
(* scraped (dashboard/src/pages/ScraperPage.tsx): the selected group, its  *)
(* conversations, its leads, the scrape that was started last and its      *)
(* polled status.                                                          *)
(***************************************************************************)
EXTENDS WebView

CONSTANTS
  Groups,       \* numbers of the scraped groups
  MaxScrapes    \* bound: scrapes ever started

ScraperKinds == {"groups", "detail", "conversations", "messages", "scrape", "status",
                 "leads", "extract", "mark"}

\* What the user does is bounded to one of three scenarios: to read what was
\* scraped, to scrape, or to work on the leads.  Each group has one lead.
ScraperStart(scenario) ==
  /\ srv = [scrapes |-> <<>>, leads |-> [g \in Groups |-> "none"]]
  /\ ui = [at |-> "scraper", scenario |-> scenario, busy |-> {"groups"}, groups |-> {},
           group |-> None, detail |-> None, loading |-> FALSE,   \* groupDetail(Loading)
           tab |-> "leaderboard", page |-> 1, listed |-> {}, open |-> None, messages |-> None,
           job |-> None, timer |-> FALSE,                        \* lastScrapeJob, its poll
           leads |-> {}]
  /\ net = [kind \in ScraperKinds |-> IF kind = "groups" THEN {Request({"groups"}, None)} ELSE {}]

\* The first effect.
ServeScraped == \E q \in Asked("scraper", "groups") : Serve("groups", q, srv, Groups)
ScrapedArrive ==
  \E q \in Answers("scraper", "groups") :
    Take("groups", q, IF Refused(q) THEN ui ELSE [ui EXCEPT !.groups = q.ans])

Reading == At("scraper") /\ ui.scenario = "read"
Working(scenario) == At("scraper") /\ ui.scenario = scenario /\ ui.group # None

-----------------------------------------------------------------------------
(* The group and its conversations *)

\* loadConversations of u, which cancels none in flight.
ListAsked(n, u, page) == Sending(n, "conversations", {"list"}, [group |-> u.group, page |-> page])

\* The effect on the group and the tab: the first page of the conversations, or
\* none on another tab.
Listed(u, n) ==
  IF u.group # None /\ u.tab = "conversations"
  THEN /\ ui' = Busy(u, {"list"})
       /\ net' = ListAsked(n, u, 1)
  ELSE /\ ui' = [u EXCEPT !.listed = {}, !.page = 1]
       /\ net' = n

\* Another group: the request for the last one's detail is cancelled, which leaves
\* the loading state to the next; no group clears what is shown of it.
SelectGroup ==
  /\ At("scraper") /\ Room
  /\ \E g \in (ui.groups \cup {None}) \ {ui.group} :
       LET kept == Cancelled(net, "detail")
       IN IF g = None THEN Listed([ui EXCEPT !.group = None, !.detail = None], kept)
          ELSE Listed([ui EXCEPT !.group = g, !.loading = TRUE], Sending(kept, "detail", {}, g))
  /\ UNCHANGED srv

ServeDetail == \E q \in Asked("scraper", "detail") : Serve("detail", q, srv, "detail")

\* A failure leaves the detail of the group before.
DetailArrives ==
  \E q \in Answers("scraper", "detail") :
    Take("detail", q, [ui EXCEPT !.detail = IF Refused(q) THEN @ ELSE q.ans, !.loading = FALSE])

SelectTab ==
  /\ Reading /\ ui.group # None /\ Room
  /\ \E tab \in {"leaderboard", "conversations"} \ {ui.tab} : Listed([ui EXCEPT !.tab = tab], net)
  /\ UNCHANGED srv

\* The pages of the conversations, of which each group has two.
TurnConversations ==
  /\ Reading /\ ui.group # None /\ ui.tab = "conversations" /\ "list" \notin ui.busy
  /\ ui.listed # {} /\ Room
  /\ ui' = Busy(ui, {"list"})
  /\ net' = ListAsked(net, ui, 3 - ui.page)
  /\ UNCHANGED srv

ServeConversations ==
  \E q \in Asked("scraper", "conversations") :
    Serve("conversations", q, srv, [page |-> q.arg.page, ids |-> {<<q.arg.group, q.arg.page>>}])

\* The list and its page are those of the last answer, whatever is selected by now.
ConversationsArrive ==
  \E q \in Answers("scraper", "conversations") :
    Take("conversations", q,
         IF Refused(q) THEN ui ELSE [ui EXCEPT !.listed = q.ans.ids, !.page = q.ans.page])

\* One conversation is open at a time; its messages replace what is shown when
\* they arrive, also under another that was opened since.
ToggleConversation ==
  /\ Reading /\ ui.group # None /\ ui.tab = "conversations" /\ "list" \notin ui.busy
  /\ \E c \in ui.listed :
       IF ui.open = c THEN Show([ui EXCEPT !.open = None, !.messages = None])
       ELSE Ask([ui EXCEPT !.open = c, !.messages = None], "messages", "messages", c)

ServeMessages == \E q \in Asked("scraper", "messages") : Serve("messages", q, srv, "messages")
MessagesArrive ==
  \E q \in Answers("scraper", "messages") :
    Take("messages", q, IF Refused(q) THEN ui ELSE [ui EXCEPT !.messages = q.ans])

-----------------------------------------------------------------------------
(* The scrape *)

Polled(status) == status \in {"pending", "running"}

\* Another scrape takes the place of the last one, whose poll is cancelled.
StartScrape ==
  /\ Working("scrape") /\ "scrape" \notin ui.busy /\ Room
  /\ ui' = Busy([ui EXCEPT !.job = None, !.timer = FALSE], {"scrape"})
  /\ net' = Sending(Cancelled(net, "status"), "scrape", {"scrape"}, ui.group)
  /\ UNCHANGED srv

\* A pending job is created and dispatched.
ServeScrape ==
  \E q \in Asked("scraper", "scrape") :
    /\ Len(srv.scrapes) < MaxScrapes
    /\ Serve("scrape", q, [srv EXCEPT !.scrapes = Append(@, "queued")],
             [id |-> Len(srv.scrapes) + 1, status |-> "pending"])

\* The poll of the new job starts a second later.
ScrapeArrives ==
  \E q \in Answers("scraper", "scrape") :
    Take("scrape", q, IF Refused(q) THEN ui ELSE [ui EXCEPT !.job = q.ans, !.timer = Polled(q.ans.status)])

PollScrape ==
  /\ At("scraper") /\ ui.timer /\ Room
  /\ ui' = [ui EXCEPT !.timer = FALSE]
  /\ net' = Sending(net, "status", {}, ui.job.id)
  /\ UNCHANGED srv

ServeScrapeStatus ==
  \E q \in Asked("scraper", "status") :
    Serve("status", q, srv, [id |-> q.arg, status |-> srv.scrapes[q.arg]])

StatusUncancelled ==
  \E q \in Answered("scraper", "status") :
    Take("status", q, IF Refused(q) THEN [ui EXCEPT !.timer = ui.job # None]
                      ELSE [ui EXCEPT !.job = q.ans, !.timer = Polled(q.ans.status)])

\* The poll goes on while the job is pending or running, and after a failure.
ScrapeStatusArrives ==
  \E q \in Answers("scraper", "status") :
    Take("status", q, IF Refused(q) THEN [ui EXCEPT !.timer = TRUE]
                      ELSE [ui EXCEPT !.job = q.ans, !.timer = Polled(q.ans.status)])

\* What becomes of the jobs.
ScrapeGoesOn ==
  /\ At("scraper")
  /\ \E i \in DOMAIN srv.scrapes :
       \E next \in CASE srv.scrapes[i] = "queued" -> {"running", "pending"}
                     [] srv.scrapes[i] = "pending" -> {"queued"}
                     [] srv.scrapes[i] = "running" -> {"completed", "failed"}
                     [] OTHER -> {} :
         srv' = [srv EXCEPT !.scrapes[i] = next]
  /\ UNCHANGED <<ui, net>>

-----------------------------------------------------------------------------
(* The leads; the searches, the leaderboard and the activity are read alike. *)

LeadsListed(n, u, ops) == Sending(n, "leads", ops \cup {"leads"}, u.group)

LoadScrapedLeads ==
  /\ Working("leads") /\ Room
  /\ ui' = Busy(ui, {"leads"})
  /\ net' = LeadsListed(net, ui, {})
  /\ UNCHANGED srv

ServeScrapedLeads ==
  \E q \in Asked("scraper", "leads") :
    Serve("leads", q, srv, IF srv.leads[q.arg] = "none" THEN {} ELSE {<<q.arg, srv.leads[q.arg]>>})

ScrapedLeadsArrive ==
  \E q \in Answers("scraper", "leads") :
    Take("leads", q, IF Refused(q) THEN ui ELSE [ui EXCEPT !.leads = q.ans])

\* The leads found are read again before the button is free.
ExtractLeads == Working("leads") /\ "extract" \notin ui.busy /\ Ask(ui, "extract", "extract", ui.group)

ServeExtract ==
  \E q \in Asked("scraper", "extract") :
    Serve("extract", q, [srv EXCEPT !.leads[q.arg] = IF @ = "none" THEN "new" ELSE @], "ok")

ExtractArrives ==
  \E q \in Answers("scraper", "extract") :
    IF Refused(q) THEN Take("extract", q, ui)
    ELSE /\ ui' = Busy(ui, {"leads"})
         /\ net' = LeadsListed(Taking(net, "extract", q),
                               [ui EXCEPT !.group = q.arg], q.ops)
         /\ UNCHANGED srv

\* A lead is marked in the list once the server has marked it; contacted is a mark
\* alike.
MarkLead ==
  /\ Working("leads") /\ "leads" \notin ui.busy /\ Room
  /\ \E lead \in ui.leads :
       /\ lead[2] # "dismissed"
       /\ net' = Sending(net, "mark", {}, [lead |-> lead[1], as |-> "dismissed"])
  /\ UNCHANGED <<ui, srv>>

ServeMarkLead ==
  \E q \in Asked("scraper", "mark") :
    Serve("mark", q, [srv EXCEPT !.leads[q.arg.lead] = q.arg.as], "ok")

LeadMarked ==
  \E q \in Answers("scraper", "mark") :
    Take("mark", q, IF Refused(q) THEN ui
                    ELSE [ui EXCEPT !.leads = {<<lead[1], IF lead[1] = q.arg.lead THEN q.arg.as
                                                          ELSE lead[2]>> : lead \in @}])

ScraperNext ==
  \/ ServeScraped \/ ScrapedArrive \/ SelectGroup \/ ServeDetail \/ DetailArrives
  \/ SelectTab \/ TurnConversations \/ ServeConversations \/ ConversationsArrive
  \/ ToggleConversation \/ ServeMessages \/ MessagesArrive
  \/ StartScrape \/ ServeScrape \/ ScrapeArrives \/ PollScrape \/ ServeScrapeStatus
  \/ ScrapeStatusArrives \/ ScrapeGoesOn
  \/ LoadScrapedLeads \/ ServeScrapedLeads \/ ScrapedLeadsArrive
  \/ ExtractLeads \/ ServeExtract \/ ExtractArrives \/ MarkLead \/ ServeMarkLead \/ LeadMarked

\* The job on display is the one started last, although polls of the job before
\* and answers to its start may still arrive (the effect of lastScrapeJob).
JobIsLatest == At("scraper") /\ ui.job # None => ui.job.id = Len(srv.scrapes)
=============================================================================
