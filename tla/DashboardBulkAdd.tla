--------------------------- MODULE DashboardBulkAdd ---------------------------
(***************************************************************************)
(* The page of the dashboard that adds members to groups                   *)
(* (dashboard/src/pages/admin/BulkAddPage.tsx): the jobs of the selected   *)
(* agent, which refresh while some are at work, and the form of a new job. *)
(***************************************************************************)
EXTENDS WebView

CONSTANTS
  BulkAgents,   \* numbers of the agents
  Users,        \* numbers of the members of the source group
  There,        \* the members of each target group, a sequence of sets
  MaxJobs       \* bound: jobs ever created

ASSUME DashboardBulkAddAssumption == \A g \in DOMAIN There : There[g] \subseteq Users

BulkAddKinds == {"jobs", "names", "verify", "search", "target", "create"}

\* What the user does is bounded to one of three scenarios: to watch the jobs of
\* agents, or, with an agent selected, to pick members in the form on the pages of
\* their list, or to send the form for the first group.
BulkAddStart(scenario) ==
  /\ srv = [jobs |-> <<[agent |-> 1, target |-> 1, ids |-> {}, status |-> "running"]>>]
  /\ ui = [at |-> "bulkadd", scenario |-> scenario, busy |-> {},
           agent |-> IF scenario = "watch" THEN None ELSE 1,
           jobs |-> IF scenario = "watch" THEN {} ELSE {<<1, "running">>},
           open |-> FALSE, for |-> None, source |-> FALSE, target |-> None, page |-> 1,
           rows |-> {},       \* the members found and whether they are in the target
           there |-> {},      \* targetMemberIds
           selected |-> {}]
  /\ net = [kind \in BulkAddKinds |-> {}]

-----------------------------------------------------------------------------
(* The jobs *)

\* loadJobs: a refresh in the background has a flag of its own.
JobsAsked(n, a, op) == Sending(n, "jobs", {op}, a)

\* Another agent: the handler and the effect on it both load its jobs, which is
\* one request here, and cancel none in flight.
SelectBulkAgent ==
  /\ At("bulkadd") /\ ui.scenario = "watch" /\ Room
  /\ \E a \in (BulkAgents \cup {None}) \ {ui.agent} :
       IF a = None THEN ui' = [ui EXCEPT !.agent = a, !.jobs = {}] /\ net' = net
       ELSE /\ ui' = Busy([ui EXCEPT !.agent = a], {"jobs"})
            /\ net' = JobsAsked(Sending(net, "names", {}, a), a, "jobs")
  /\ UNCHANGED srv

ActiveJobs(jobs) == \E job \in jobs : job[2] \in {"running", "pending", "queued"}

\* Every ten seconds while a job that is listed is at work.
RefreshJobs ==
  /\ At("bulkadd") /\ ui.scenario = "watch" /\ ui.agent # None /\ ActiveJobs(ui.jobs) /\ Room
  /\ ui' = Busy(ui, {"refresh"})
  /\ net' = JobsAsked(net, ui.agent, "refresh")
  /\ UNCHANGED srv

ServeJobs ==
  \E q \in Asked("bulkadd", "jobs") :
    Serve("jobs", q, srv,
          {<<i, srv.jobs[i].status>> : i \in {j \in DOMAIN srv.jobs : srv.jobs[j].agent = q.arg}})

\* Any answer ends both loading states, and is listed whichever agent is selected
\* by now; a failure empties the list, after which nothing refreshes it.
JobsArrive ==
  \E q \in Answers("bulkadd", "jobs") :
    /\ ui' = Free([ui EXCEPT !.jobs = IF Refused(q) THEN {} ELSE q.ans], {"jobs", "refresh"})
    /\ net' = Taking(net, "jobs", q)
    /\ UNCHANGED srv

\* syncAgentGroups: the names of the groups are read again.
SyncGroups ==
  /\ At("bulkadd") /\ ui.scenario = "watch" /\ ui.agent # None /\ "sync" \notin ui.busy
  /\ Ask(ui, "sync", "names", ui.agent)

ServeBulkNames == \E q \in Asked("bulkadd", "names") : Serve("names", q, srv, "names")
BulkNamesArrive == \E q \in Answers("bulkadd", "names") : Take("names", q, ui)

VerifyJoins ==
  /\ At("bulkadd") /\ ui.scenario = "watch" /\ ui.agent # None /\ "verify" \notin ui.busy
  /\ Ask(ui, "verify", "verify", ui.agent)

ServeVerifyJoins == \E q \in Asked("bulkadd", "verify") : Serve("verify", q, srv, "verified")

\* The jobs of the agent that was verified are refreshed.
VerifyJoinsArrives ==
  \E q \in Answers("bulkadd", "verify") :
    IF Refused(q) THEN Take("verify", q, ui)
    ELSE /\ ui' = Busy(Free(ui, q.ops), {"refresh"})
         /\ net' = JobsAsked(Taking(net, "verify", q), q.arg, "refresh")
         /\ UNCHANGED srv

\* What becomes of the jobs.
BulkJobsGoOn ==
  /\ At("bulkadd") /\ ui.scenario = "watch"
  /\ \E i \in DOMAIN srv.jobs :
       /\ srv.jobs[i].status \in {"pending", "running"}
       /\ srv' = [srv EXCEPT !.jobs[i].status = IF @ = "pending" THEN "running" ELSE "completed"]
  /\ UNCHANGED <<ui, net>>

-----------------------------------------------------------------------------
(* The form *)

OpenBulkForm ==
  /\ At("bulkadd") /\ ui.scenario # "watch" /\ ~ui.open /\ ui.agent # None
  /\ Show([ui EXCEPT !.open = TRUE, !.for = ui.agent, !.source = FALSE, !.target = None,
                     !.page = 1, !.rows = {}, !.selected = {},
                     !.there = IF ui.for = ui.agent /\ ui.target = None THEN @ ELSE {}])

CloseBulkForm == At("bulkadd") /\ ui.open /\ Show([ui EXCEPT !.open = FALSE])

\* The effects on what the form is for: the source group is searched, and the
\* members of the target are read if it, or the agent, is another.
Searched(n, u) ==
  IF u.source THEN Sending(n, "search", {"search"}, [target |-> u.target, page |-> u.page]) ELSE n
TargetRead(n, u) ==
  IF u.target # None /\ <<u.for, u.target>> # <<ui.for, ui.target>>
  THEN Sending(n, "target", {"target"}, u.target) ELSE n
BusyFor(u) ==
  (IF u.source THEN {"search"} ELSE {}) \cup
  (IF TargetRead(net, u) # net THEN {"target"} ELSE {})

\* Another agent keeps the groups and the selection of the last one.
EditBulkForm ==
  /\ At("bulkadd") /\ ui.open /\ Room
  /\ \E u \in {[ui EXCEPT !.source = TRUE, !.page = 1]}
             \cup {[ui EXCEPT !.target = g] : g \in IF ui.scenario = "send" THEN {1} ELSE DOMAIN There}
             \cup (IF ui.scenario = "send" THEN {[ui EXCEPT !.for = a] : a \in BulkAgents}
                   ELSE {[ui EXCEPT !.page = IF ui.source THEN 3 - @ ELSE @]}) :
       /\ u # ui
       /\ ui' = Busy(u, BusyFor(u))
       /\ net' = Searched(TargetRead(net, u), u)
  /\ UNCHANGED srv

\* The members of the page asked for; the server knows those its jobs added.
ServeUsers ==
  \E q \in Asked("bulkadd", "search") :
    LET added == UNION {srv.jobs[i].ids :
                          i \in {j \in DOMAIN srv.jobs : srv.jobs[j].target = q.arg.target}}
    IN Serve("search", q, srv, {<<m, m \in added>> : m \in {k \in Users : k % 2 = q.arg.page % 2}})

\* Of searches in flight the last answer is listed.
UsersArrive ==
  \E q \in Answers("bulkadd", "search") :
    Take("search", q, [ui EXCEPT !.rows = IF Refused(q) THEN {} ELSE q.ans])

ServeTarget == \E q \in Asked("bulkadd", "target") : Serve("target", q, srv, There[q.arg])

TargetKeepsSelection ==
  \E q \in Answers("bulkadd", "target") :
    Take("target", q, [ui EXCEPT !.there = IF Refused(q) THEN {} ELSE q.ans])

\* The members of the target, or of one picked before whose answer was late,
\* leave the selection.
TargetArrives ==
  \E q \in Answers("bulkadd", "target") :
    LET there == IF Refused(q) THEN {} ELSE q.ans
    IN Take("target", q, [ui EXCEPT !.there = there, !.selected = @ \ there])

\* The rows with a box to tick: members neither in the target nor added before.
Selectable == {row[1] : row \in {r \in ui.rows : ~r[2]}} \ ui.there

SelectUsers ==
  /\ At("bulkadd") /\ ui.open /\ ui.source
  /\ \/ \E m \in Selectable :
          "search" \notin ui.busy /\ Show([ui EXCEPT !.selected = IF m \in @ THEN @ \ {m} ELSE @ \cup {m}])
     \/ Show([ui EXCEPT !.selected = Selectable])
     \/ Show([ui EXCEPT !.selected = {}])

\* An interval of less than an hour is raised to it.
SubmitBulk ==
  /\ At("bulkadd") /\ ui.scenario = "send" /\ ui.open /\ ui.target # None /\ ui.selected # {} /\ "submit" \notin ui.busy
  /\ Ask(ui, "submit", "create", [agent |-> ui.for, target |-> ui.target, ids |-> ui.selected])

ServeBulkJob ==
  \E q \in Asked("bulkadd", "create") :
    /\ Len(srv.jobs) < MaxJobs
    /\ Serve("create", q,
             [srv EXCEPT !.jobs = Append(@, [agent |-> q.arg.agent, target |-> q.arg.target,
                                              ids |-> q.arg.ids, status |-> "pending"])], "ok")

\* The form closes; the jobs are loaded if they are those of its agent.
BulkJobArrives ==
  \E q \in Answers("bulkadd", "create") :
    IF Refused(q) \/ ui.agent # q.arg.agent
    THEN Take("create", q, IF Refused(q) THEN ui ELSE [ui EXCEPT !.open = FALSE])
    ELSE /\ ui' = Busy(Free([ui EXCEPT !.open = FALSE], q.ops), {"jobs"})
         /\ net' = JobsAsked(Taking(net, "create", q), q.arg.agent, "jobs")
         /\ UNCHANGED srv

BulkAddNext ==
  \/ SelectBulkAgent \/ RefreshJobs \/ ServeJobs \/ JobsArrive \/ SyncGroups \/ ServeBulkNames
  \/ BulkNamesArrive \/ VerifyJoins \/ ServeVerifyJoins \/ VerifyJoinsArrives \/ BulkJobsGoOn
  \/ OpenBulkForm \/ CloseBulkForm \/ EditBulkForm \/ ServeUsers \/ UsersArrive
  \/ ServeTarget \/ TargetArrives \/ SelectUsers \/ SubmitBulk \/ ServeBulkJob \/ BulkJobArrives

\* Nobody is selected who is on the list of the target's members, although members
\* can be selected while that list is being read and a list read for another
\* target may replace it (the effect on the target, toggleUser, selectAll).
SelectedNotThere == At("bulkadd") => ui.selected \cap ui.there = {}
=============================================================================
