----------------------------- MODULE AgentsTasks -----------------------------
(***************************************************************************)
(* The task activity of the agents' mini-app: the list of an account's     *)
(* jobs with its filter and pages, the actions on a job, the window with   *)
(* its send log, and the report of the log (TaskActivity of App.tsx,       *)
(* LogsReportModal.tsx, LogReportDocument.tsx, exportLogsPdf.tsx).         *)
(***************************************************************************)
EXTENDS WebView, SequencesExt

CONSTANTS
  Jobs,         \* numbers of the account's jobs; the first is at work
  RowsPerPage,  \* 10 jobs, 25 rows of the window, 20 rows of the report
  MaxLog        \* bound: entries of the send log

ASSUME AgentsTasksAssumption == RowsPerPage \in Nat \ {0} /\ IsFiniteSet(Jobs)

JobStatuses == {"scheduled", "queued", "running", "completed", "failed", "aborted"}

\* A job as the list shows it: its status and why it was stopped.
Job(status, stop) == [status |-> status, stop |-> stop]

TaskKinds == {"jobs", "names", "stop", "rerun", "logs", "export", "upload"}

\* What the user does is bounded to one of three scenarios: to filter and to
\* turn the list, to act on jobs, or to read logs.
TasksStart(scenario) ==
  /\ srv = [jobs |-> [j \in Jobs |-> Job(IF j = 1 THEN "queued" ELSE "completed", "none")],
            log |-> 0]                      \* entries of the first job's log
  /\ ui = [at |-> "tasks", scenario |-> scenario, busy |-> {"load"}, jobs |-> <<>>, filter |-> "all", page |-> 1,
           menu |-> None, confirm |-> None,
           window |-> None, log |-> 0, logPage |-> 1]
  /\ net = [kind \in TaskKinds |-> IF kind = "jobs" THEN {Request({"load"}, None)} ELSE {}]

-----------------------------------------------------------------------------
(* Filter and pages *)

\* The jobs that pass the filter; the filters by date, type, group and text are
\* alike.  (SelectSeq, written out for the proofs.)
FilteredJobs(u) ==
  LET shown[n \in 0 .. Len(u.jobs)] ==
        IF n = 0 THEN <<>>
        ELSE IF u.filter \in {"all", u.jobs[n].status} THEN Append(shown[n - 1], u.jobs[n])
        ELSE shown[n - 1]
  IN shown[Len(u.jobs)]

CeilDiv(n, d) == (n + d - 1) \div d
TotalPages(n) == IF n = 0 THEN 1 ELSE CeilDiv(n, RowsPerPage)

PageOfShort(s, p) == SubSeq(s, (p - 1) * RowsPerPage + 1, Min({p * RowsPerPage - 1, Len(s)}))

\* The rows of page p of a list.
PageOf(s, p) == SubSeq(s, (p - 1) * RowsPerPage + 1, Min({p * RowsPerPage, Len(s)}))

\* The window falls back to the last page when its rows get fewer.
SafePage(u) == Min({u.logPage, TotalPages(u.log)})

LogRows(u) == PageOf([i \in 1 .. u.log |-> i], SafePage(u))

\* The report: a cover and then pages of rows, one at least.
LedgerPages(n) == IF n = 0 THEN 1 ELSE CeilDiv(n, RowsPerPage)
ReportPages(n) ==
  <<<<>>>> \o [p \in 1 .. LedgerPages(n) |-> PageOf([i \in 1 .. n |-> i], p)]

SetFilter ==
  /\ At("tasks") /\ ui.scenario = "list"
  /\ \E f \in {"all", "failed"} \ {ui.filter} : Show([ui EXCEPT !.filter = f, !.page = 1])

TurnPage ==
  /\ At("tasks") /\ ui.scenario = "list"
  /\ \E p \in {ui.page - 1, ui.page + 1} :
       /\ p >= 1 /\ p <= Max({ui.page, TotalPages(Len(FilteredJobs(ui)))})
       /\ Show([ui EXCEPT !.page = p])

TurnLogPage ==
  /\ At("tasks") /\ ui.window # None
  /\ \E p \in {SafePage(ui) - 1, SafePage(ui) + 1} :
       p \in 1 .. TotalPages(ui.log) /\ Show([ui EXCEPT !.logPage = p])

-----------------------------------------------------------------------------
(* The list *)

\* load(): the button, and the first effect; refreshJobs(): every 15 seconds, and
\* every 5 while the window of a job at work is open.
LoadTasks == At("tasks") /\ "load" \notin ui.busy /\ Ask(ui, "load", "jobs", None)

RefreshTasks ==
  /\ At("tasks") /\ Room
  /\ net' = Sending(net, "jobs", {}, None)
  /\ UNCHANGED <<ui, srv>>

ServeTasks ==
  \E q \in Asked("tasks", "jobs") : Serve("jobs", q, srv, [j \in 1 .. Cardinality(Jobs) |-> srv.jobs[j]])

\* A load then reads the names of groups it does not know, and whatever becomes
\* of them ends; a refresh after an action closes the confirmation.
TasksArrive ==
  \E q \in Answers("tasks", "jobs") :
    LET u == [ui EXCEPT !.jobs = IF Refused(q) THEN @ ELSE q.ans,
                        !.confirm = IF "confirm" \in q.ops THEN None ELSE @]
    IN IF "load" \in q.ops /\ ~Refused(q) THEN Further("jobs", q, u, "names", None)
       ELSE Take("jobs", q, u)

ServeNames == \E q \in Asked("tasks", "names") : Serve("names", q, srv, "names")
NamesArrive == \E q \in Answers("tasks", "names") : Take("names", q, ui)

\* What becomes of the job that is at work.
JobGoesOn ==
  /\ At("tasks")
  /\ \E next \in CASE srv.jobs[1].status = "queued" -> {Job("running", "none")}
                   [] srv.jobs[1].status = "running" ->
                        {Job("completed", "none"), Job("failed", "flood"),
                         Job("scheduled", "flood")}
                   [] srv.jobs[1].status = "scheduled" -> {Job("running", "none")}
                   [] OTHER -> {} :
       /\ srv' = [srv EXCEPT !.jobs[1] = next,
                             !.log = IF @ < MaxLog /\ ui.scenario = "read" THEN @ + 1 ELSE @]
       /\ UNCHANGED <<ui, net>>

-----------------------------------------------------------------------------
(* Actions on a job *)

\* The overflow menu of a job.
JobMenu(job) ==
  {action \in {"stop", "resume", "retry", "logs", "export"} :
     CASE action = "stop" -> job.status \in {"running", "queued", "scheduled"}
       [] action = "resume" ->
            job.stop # "none" /\ (job.status \in {"failed", "aborted"} \/ job.stop = "flood")
       [] action = "retry" -> job.status \in {"failed", "aborted"}
       [] OTHER -> \/ job.status \in {"completed", "failed", "aborted", "running", "queued"}
                   \/ job.stop # "none"}

OpenMenu ==
  /\ At("tasks") /\ ui.scenario # "list" /\ "load" \notin ui.busy /\ ui.menu = None
  /\ \E j \in DOMAIN PageOf(FilteredJobs(ui), ui.page) :
       Show([ui EXCEPT !.menu = j])

CloseMenu == At("tasks") /\ ui.menu # None /\ Show([ui EXCEPT !.menu = None])

\* A choice of the open menu, by the job as the list shows it now.
Chosen(action) ==
  /\ At("tasks") /\ ui.menu \in DOMAIN ui.jobs
  /\ action \in JobMenu(ui.jobs[ui.menu])

\* The menu stays open under the confirmation; an action already confirmed keeps
\* its window.
AskAction ==
  \E action \in {"stop", "resume", "retry"} :
    /\ Chosen(action) /\ ui.scenario = "act" /\ ui.confirm = None
    /\ Show([ui EXCEPT !.confirm = [job |-> ui.menu, action |-> action]])

CancelAction ==
  At("tasks") /\ ui.confirm # None /\ "confirm" \notin ui.busy /\ Show([ui EXCEPT !.confirm = None])

\* Both resume and retry run the job again.
ConfirmAction ==
  /\ At("tasks") /\ ui.confirm # None /\ "confirm" \notin ui.busy
  /\ Ask([ui EXCEPT !.menu = None], "confirm",
         IF ui.confirm.action = "stop" THEN "stop" ELSE "rerun", ui.confirm.job)

\* The server takes an action only in the states it is meant for.
Accepts(kind, job) ==
  IF kind = "stop" THEN job.status \in {"queued", "running", "scheduled"}
  ELSE job.status \in {"failed", "aborted"}

ServeAction ==
  \E kind \in {"stop", "rerun"} : \E q \in Asked("tasks", kind) :
    IF Accepts(kind, srv.jobs[q.arg])
    THEN Serve(kind, q, [srv EXCEPT !.jobs[q.arg] = IF kind = "stop" THEN Job("aborted", @.stop)
                                                     ELSE Job("queued", "none")], "done")
    ELSE Serve(kind, q, srv, Failed)

ActionKeepsBusy ==
  \E kind \in {"stop", "rerun"} : \E q \in Answers("tasks", kind) :
    IF Refused(q)
    THEN /\ ui' = [ui EXCEPT !.confirm = None]
         /\ net' = Taking(net, kind, q)
         /\ UNCHANGED srv
    ELSE Further(kind, q, ui, "jobs", None)

\* The list is read again before the confirmation closes.
ActionArrives ==
  \E kind \in {"stop", "rerun"} : \E q \in Answers("tasks", kind) :
    IF Refused(q) THEN Take(kind, q, [ui EXCEPT !.confirm = None])
    ELSE Further(kind, q, ui, "jobs", None)

-----------------------------------------------------------------------------
(* The log of a job *)

OpenLogs ==
  /\ Chosen("logs") /\ ui.scenario = "read"
  /\ Ask([ui EXCEPT !.menu = None, !.window = ui.menu], "logs", "logs", ui.menu)

\* Closing the window resets its page.
CloseLogs ==
  At("tasks") /\ ui.window # None /\ Show([ui EXCEPT !.window = None, !.logPage = 1])

LogOf(j) == IF j = 1 THEN srv.log ELSE 1
ServeLogs ==
  \E kind \in {"logs", "export"} : \E q \in Asked("tasks", kind) : Serve(kind, q, srv, LogOf(q.arg))

LogsArrive ==
  \E q \in Answers("tasks", "logs") :
    Take("logs", q, [ui EXCEPT !.log = IF Refused(q) THEN 0 ELSE q.ans])

\* One report is made at a time; in Telegram it is sent to the user's chat.
ExportLogs ==
  /\ Chosen("export") /\ ui.scenario = "read" /\ "export" \notin ui.busy
  /\ Ask([ui EXCEPT !.menu = None], "export", "export", ui.menu)

ExportArrives ==
  \E q \in Answers("tasks", "export") :
    IF Refused(q) THEN Take("export", q, ui) ELSE Further("export", q, ui, "upload", q.ans)

ServeUpload == \E q \in Asked("tasks", "upload") : Serve("upload", q, srv, "sent")
UploadArrives == \E q \in Answers("tasks", "upload") : Take("upload", q, ui)

TasksNext ==
  \/ LoadTasks \/ RefreshTasks \/ ServeTasks \/ TasksArrive \/ ServeNames \/ NamesArrive
  \/ JobGoesOn \/ SetFilter \/ TurnPage \/ TurnLogPage \/ OpenMenu \/ CloseMenu
  \/ AskAction \/ CancelAction \/ ConfirmAction \/ ServeAction \/ ActionArrives
  \/ OpenLogs \/ CloseLogs \/ ServeLogs \/ LogsArrive
  \/ ExportLogs \/ ExportArrives \/ ServeUpload \/ UploadArrives

\* The pages of a list, and of the report of a log, show every row once and in
\* order, whatever the number of rows (paginatedJobs, paginated, ledgerPages), and
\* the window of a log that has rows shows some, also after another log, or a
\* shorter one, has arrived under its page (LogsReportModal.safePage).
PagesShowAll ==
  At("tasks") =>
    LET jobs == FilteredJobs(ui)
        pages == [p \in 1 .. TotalPages(Len(jobs)) |-> PageOf(jobs, p)]
    IN /\ FlattenSeq(pages) = jobs
       /\ FlattenSeq(ReportPages(ui.log)) = [i \in 1 .. ui.log |-> i]
       /\ ui.log > 0 => LogRows(ui) # <<>>
=============================================================================
