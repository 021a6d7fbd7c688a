-------------------------- MODULE AgentsAutomation --------------------------
(***************************************************************************)
(* The automation tasks of an account in the agents' mini-app: their list, *)
(* the form of a task, and the form that adds members in bulk              *)
(* (AutomationTasksSection.tsx).                                           *)
(***************************************************************************)
EXTENDS MemberFilter

CONSTANTS
  MaxTasks,     \* bound: tasks, and additions of members, ever created
  Targets       \* groups that members may be added to

-----------------------------------------------------------------------------
(* Tasks that the mini-app writes: what one answers (a template under the    *)
(* name its kind gives it), where it sends notices, and whether, how soon    *)
(* and within which limits it responds to a lead.                            *)

TaskTypes == {"reply_message", "notify_destination", "lead_capture"}

\* Of the four limits three are alike.
LimitNames == {"cooldown", "max_new"}
NoLimits == [name \in LimitNames |-> None]

\* 0 stands for a text that a task does not have, None for a number.
Task(key, ack, message, dest) ==
  [key |-> key, ack |-> ack, message |-> message, dest |-> dest,
   auto |-> FALSE, delay |-> None, limits |-> NoLimits,
   labelled |-> FALSE,     \* lead_label and ask_contact
   enabled |-> TRUE]

Responding(task, delay, limits) == [task EXCEPT !.auto = TRUE, !.delay = delay, !.limits = limits]

\* What the form starts with; 0 is a field that is blank.
DefaultDelay == 3
DefaultLimits == [cooldown |-> 43200, max_new |-> 0]

AutomationKinds == {"tasks", "groups", "create", "update", "delete"}

NewForm == [key |-> "reply_message", template |-> 0, mode |-> "group", group |-> 0, text |-> 0,
            auto |-> FALSE, delay |-> DefaultDelay, limits |-> DefaultLimits]

\* What the user does is bounded to one of two scenarios: to open and to fill the
\* form, or to save and to delete tasks.
AutomationStart(scenario) ==
  /\ LET own == Responding(Task("lead_capture", 1, 0, 0), 5, [cooldown |-> 60, max_new |-> 10])
         acquired == [Responding(Task("lead_capture", 1, 0, 0), 5, NoLimits) EXCEPT !.labelled = TRUE]
         off == [Task("notify_destination", 0, 0, 7) EXCEPT !.enabled = FALSE]
     IN srv = [tasks |-> IF scenario = "save" THEN <<own>>
                         ELSE <<own, acquired, Task("notify_destination", 0, 1, 3), off>>,
               deleted |-> {}]
  /\ ui = [at |-> "automation", scenario |-> scenario, busy |-> {"load"}, tasks |-> {}, open |-> FALSE, editing |-> None,
           opened |-> None, form |-> NewForm, groups |-> {}, query |-> FALSE, timer |-> FALSE,
           deleting |-> None]
  /\ net = [kind \in AutomationKinds |-> IF kind = "tasks" THEN {Request({"load"}, None)} ELSE {}]

ServeAutomation ==
  \E q \in Asked("automation", "tasks") :
    Serve("tasks", q, srv, {<<i, srv.tasks[i]>> : i \in DOMAIN srv.tasks \ srv.deleted})

AutomationArrives ==
  \E q \in Answers("automation", "tasks") :
    Take("tasks", q, IF Refused(q) THEN ui ELSE [ui EXCEPT !.tasks = q.ans])

\* The search of the groups of a task, 350 ms after the last key; without a text
\* nothing is listed, until a search still under way is answered.
Queried(u, query) ==
  [u EXCEPT !.query = query, !.timer = query,
            !.groups = IF u.query /\ ~query THEN {} ELSE @]

SearchGroups ==
  At("automation") /\ ui.scenario = "form" /\ ui.open /\ Show(Queried(ui, ~ui.query))

GroupTimer ==
  /\ At("automation") /\ ui.timer /\ Room
  /\ ui' = [ui EXCEPT !.timer = FALSE]
  /\ net' = Sending(net, "groups", {}, None)
  /\ UNCHANGED srv

ServeTaskGroups == \E q \in Asked("automation", "groups") : Serve("groups", q, srv, {3})
TaskGroupsArrive ==
  \E q \in Answers("automation", "groups") :
    Take("groups", q, [ui EXCEPT !.groups = IF Refused(q) THEN {} ELSE q.ans])

TaskFormReset(u) == Queried([u EXCEPT !.editing = None, !.opened = None, !.form = NewForm], FALSE)

\* The form is opened empty, or cancelled.
ToggleTask == At("automation") /\ Show([TaskFormReset(ui) EXCEPT !.open = ~@])

\* The destination of a task is a group if the search last found it, else a text;
\* numbers that it does not have are filled in.
OpenedForm(task) ==
  [key |-> task.key,
   template |-> IF task.ack # 0 THEN task.ack ELSE task.message,
   mode |-> IF task.dest \in ui.groups THEN "group" ELSE "text",
   group |-> IF task.dest \in ui.groups THEN task.dest ELSE 0,
   text |-> IF task.dest \in ui.groups THEN 0 ELSE task.dest,
   auto |-> task.auto,
   delay |-> IF task.delay = None THEN DefaultDelay ELSE task.delay,
   limits |-> [name \in LimitNames |-> IF task.limits[name] = None THEN DefaultLimits[name]
                                                                    ELSE task.limits[name]]]

OpenEditForm ==
  /\ At("automation") /\ "load" \notin ui.busy
  /\ \E row \in ui.tasks :
       Show(Queried([ui EXCEPT !.open = TRUE, !.editing = row[1], !.opened = row[2],
                               !.form = OpenedForm(row[2])], row[2].dest \in ui.groups))

\* A group that is chosen clears the search.
EditTask ==
  /\ At("automation") /\ ui.scenario = "form" /\ ui.open
  /\ LET touched == [ui EXCEPT !.opened = None]
     IN \/ \E form \in {[ui.form EXCEPT !.key = key] : key \in TaskTypes}
                 \cup {[ui.form EXCEPT !.template = 2], [ui.form EXCEPT !.auto = ~@],
                       [ui.form EXCEPT !.limits["cooldown"] = 0],
                       [ui.form EXCEPT !.mode = "text", !.text = 7]} :
             Show([touched EXCEPT !.form = form])
        \/ \E g \in ui.groups :
             Show(Queried([touched EXCEPT !.form.mode = "group", !.form.group = g], FALSE))

\* What the form saves of its fields; a number that is blank is left out, or 3
\* seconds as the delay.
SavedTexts(form) ==
  Task(form.key,
       IF form.key = "lead_capture" THEN form.template ELSE 0,
       IF form.key = "lead_capture" THEN 0 ELSE form.template,
       IF form.key = "notify_destination" THEN (IF form.mode = "group" THEN form.group ELSE form.text) ELSE 0)

SavedLimits(form) ==
  [name \in LimitNames |-> IF form.limits[name] > 0 THEN form.limits[name] ELSE None]

SavedUnlimited(form) ==
  IF form.key = "lead_capture" /\ form.auto
  THEN Responding(SavedTexts(form), DefaultDelay, SavedLimits(form))
  ELSE SavedTexts(form)

Saved(form) ==
  IF form.key = "lead_capture" /\ form.auto
  THEN Responding(SavedTexts(form), IF form.delay = 0 THEN DefaultDelay ELSE form.delay, SavedLimits(form))
  ELSE SavedTexts(form)

CanSave == ui.form.key = "notify_destination" => IF ui.form.mode = "group" THEN ui.form.group # 0 ELSE ui.form.text # 0

SaveTask ==
  /\ At("automation") /\ ui.scenario = "save" /\ ui.open /\ "save" \notin ui.busy /\ CanSave
  /\ IF ui.editing = None THEN Ask(ui, "save", "create", Saved(ui.form))
     ELSE Ask(ui, "save", "update", [id |-> ui.editing, task |-> Saved(ui.form)])

ServeTask ==
  \/ \E q \in Asked("automation", "create") :
       /\ Len(srv.tasks) < MaxTasks
       /\ Serve("create", q, [srv EXCEPT !.tasks = Append(@, q.arg)], "ok")
  \/ \E q \in Asked("automation", "update") :
       IF q.arg.id \in srv.deleted THEN Serve("update", q, srv, Failed)
       ELSE Serve("update", q, [srv EXCEPT !.tasks[q.arg.id] = q.arg.task], "ok")
  \/ \E q \in Asked("automation", "delete") :
       Serve("delete", q, [srv EXCEPT !.deleted = @ \cup {q.arg}], "ok")

\* What goes on with the list read again: the flag of the save until it is there.
Reread(kind, q, u) ==
  /\ ui' = Busy(u, {"load"})
  /\ net' = [Taking(net, kind, q) EXCEPT !["tasks"] = @ \cup {Request(q.ops \cup {"load"}, None)}]
  /\ UNCHANGED srv

TaskSaved ==
  \E kind \in {"create", "update"} : \E q \in Answers("automation", kind) :
    IF Refused(q) THEN Take(kind, q, ui) ELSE Reread(kind, q, [ui EXCEPT !.open = FALSE])

AskDeleteTask ==
  /\ At("automation") /\ ui.scenario = "save"
  /\ \/ \E row \in ui.tasks : "load" \notin ui.busy /\ Show([ui EXCEPT !.deleting = row[1]])
     \/ ui.deleting # None /\ Show([ui EXCEPT !.deleting = None])

DeleteTask ==
  /\ At("automation") /\ ui.deleting # None /\ "save" \notin ui.busy
  /\ Ask(ui, "save", "delete", ui.deleting)

TaskDeleted ==
  \E q \in Answers("automation", "delete") :
    IF Refused(q) THEN Take("delete", q, ui) ELSE Reread("delete", q, [ui EXCEPT !.deleting = None])

AutomationNext ==
  \/ ServeAutomation \/ AutomationArrives \/ ToggleTask \/ OpenEditForm \/ EditTask
  \/ SearchGroups \/ GroupTimer \/ ServeTaskGroups \/ TaskGroupsArrive \/ SaveTask \/ ServeTask
  \/ TaskSaved \/ AskDeleteTask \/ DeleteTask \/ TaskDeleted

\* What a task does survives in the task saved over it.
Keeps(saved, task) ==
  /\ \A field \in {"key", "ack", "message", "dest", "auto"} : saved[field] = task[field]
  /\ task.delay # None => saved.delay = task.delay
  /\ \A name \in LimitNames : task.limits[name] # None => saved.limits[name] = task.limits[name]

\* A task of the mini-app that is opened and saved without a change answers, sends
\* notices and responds as it did, whatever the form held before and whichever
\* groups its searches have found by then (openEditForm, handleSave).  It does
\* not stay the same: it loses its label and request for a contact, gets the
\* limits that the form shows for those it did not have, and is enabled.
UntouchedKeeps ==
  At("automation") /\ ui.editing # None /\ ui.opened # None => Keeps(Saved(ui.form), ui.opened)

-----------------------------------------------------------------------------
(* The form that adds members of a source group to a target group, one every *)
(* interval.                                                                 *)

BulkSides == {"sources", "targets"}
BulkKinds == BulkSides \cup {"held", "add"}

\* A group is searched for by a text; not blank is all that matters of it.
NoSearch == [query |-> FALSE, timer |-> FALSE, found |-> {}]

\* What the user does is bounded to one of two scenarios: to search for and choose
\* groups, or to choose one source, then targets of all there are, and to add members.
BulkStart(scenario) ==
  /\ srv = [adds |-> {}, working |-> {}]     \* the additions, and those at work
  /\ ui = [at |-> "bulk", scenario |-> scenario, busy |-> {}, open |-> FALSE,
           search |-> [side \in BulkSides |-> NoSearch], group |-> [side \in BulkSides |-> None],
           held |-> {}, selected |-> {}, interval |-> "allowed"]
  /\ net = [kind \in BulkKinds |-> {}]

\* The effect on a text: its loading state is set at once, and reset by any answer.
\* A text that is cleared ends the timer and not the loading state.
BulkTyped(u, side, query) ==
  IF query THEN [Busy(u, {side}) EXCEPT !.search[side].query = TRUE, !.search[side].timer = TRUE]
  ELSE IF u.search[side].query THEN [u EXCEPT !.search[side] = NoSearch]
  ELSE u

\* The effect on the target: the members of its additions at work are looked up.
Retargeted(u) ==
  LET g == u.group["targets"]
      kept == Cancelled(net, "held")
  IN /\ ui' = IF g = None THEN [u EXCEPT !.held = {}] ELSE u
     /\ net' = CASE g = ui.group["targets"] -> net
                 [] g # ui.group["targets"] /\ g = None -> kept
                 [] OTHER -> Sending(kept, "held", {}, g)
     /\ UNCHANGED srv

EmptyBulk(u) ==
  [BulkTyped(BulkTyped(u, "sources", FALSE), "targets", FALSE) EXCEPT
     !.group = [side \in BulkSides |-> None], !.selected = {}, !.interval = "allowed"]

ToggleBulk == At("bulk") /\ Retargeted([EmptyBulk(ui) EXCEPT !.open = ~@])

TypeBulkGroup ==
  /\ At("bulk") /\ ui.scenario = "search" /\ ui.open
  /\ \E side \in BulkSides, query \in BOOLEAN : Show(BulkTyped(ui, side, query))

\* 350 ms after the last key.
BulkGroupTimer ==
  /\ At("bulk") /\ Room
  /\ \E side \in BulkSides :
       /\ ui.search[side].timer
       /\ ui' = [ui EXCEPT !.search[side].timer = FALSE]
       /\ net' = Sending(net, side, {side}, None)
  /\ UNCHANGED srv

ServeBulkGroups == \E side \in BulkSides : \E q \in Asked("bulk", side) : Serve(side, q, srv, Targets)

BulkGroupsArrive ==
  \E side \in BulkSides : \E q \in Answers("bulk", side) :
    Take(side, q, [ui EXCEPT !.search[side].found = IF Refused(q) THEN {} ELSE q.ans])

\* The groups to choose from, none while the search is loading, and None, to clear
\* the field.
Offered(side) ==
  CASE ui.scenario = "search" -> {None} \cup (IF ui.search[side].query /\ side \notin ui.busy
                                             THEN ui.search[side].found ELSE {})
    [] ui.scenario = "add" /\ side = "sources" -> {CHOOSE g \in Targets : TRUE}
    [] OTHER -> IF ui.group["sources"] = None THEN {} ELSE {None} \cup Targets

\* A group is chosen or cleared, which clears the text; another target drops the
\* selection, another source does not.
PickBulkGroup ==
  /\ At("bulk") /\ ui.open /\ Room
  /\ \E side \in BulkSides : \E g \in Offered(side) \ {ui.group[side]} :
       Retargeted([BulkTyped(ui, side, FALSE) EXCEPT
                     !.group[side] = g, !.selected = IF side = "targets" THEN {} ELSE @])

EditBulk ==
  /\ At("bulk") /\ ui.scenario = "add" /\ ui.open
  /\ \/ \E m \in Members \ ui.held : ui.group["sources"] # None /\ Show([ui EXCEPT !.selected = SymDiff(@, {m})])
     \/ \E interval \in {"allowed", "less"} : Show([ui EXCEPT !.interval = interval])

HeldOf(g) == UNION {add.ids : add \in {a \in srv.working : a.target = g}}
ServeBulkHeld == \E q \in Asked("bulk", "held") : Serve("held", q, srv, HeldOf(q.arg))

BulkHeldArrivesLate ==
  \E q \in Answered("bulk", "held") :
    Take("held", q, [ui EXCEPT !.held = IF Refused(q) THEN {} ELSE q.ans])

\* A look-up for a target left since is dropped, except that its failure empties
\* the held members of any.
BulkHeldArrives ==
  \E q \in Answered("bulk", "held") :
    /\ q.live \/ Refused(q)
    /\ Take("held", q, [ui EXCEPT !.held = IF Refused(q) THEN {} ELSE q.ans])

\* Less than an hour between members is allowed once it is acknowledged.
SaveBulk ==
  /\ At("bulk") /\ ui.open /\ "save" \notin ui.busy /\ ui.selected # {}
  /\ None \notin {ui.group["sources"], ui.group["targets"]}
  /\ ui.interval # "less" /\ Cardinality(srv.adds) < MaxTasks
  /\ Ask(ui, "save", "add", [target |-> ui.group["targets"], ids |-> ui.selected])

ServeBulk ==
  \E q \in Asked("bulk", "add") :
    Serve("add", q, [adds |-> srv.adds \cup {q.arg}, working |-> srv.working \cup {q.arg}], "ok")

BulkSaved ==
  \E q \in Answers("bulk", "add") :
    IF Refused(q) THEN Take("add", q, ui)
    ELSE /\ ui' = Free([EmptyBulk(ui) EXCEPT !.open = FALSE, !.held = {}], q.ops)
         /\ net' = Cancelled(Taking(net, "add", q), "held")
         /\ UNCHANGED srv

BulkWorks ==
  /\ At("bulk")
  /\ \E add \in srv.working : srv' = [srv EXCEPT !.working = @ \ {add}]
  /\ UNCHANGED <<ui, net>>

BulkNext ==
  \/ ToggleBulk \/ TypeBulkGroup \/ BulkGroupTimer \/ ServeBulkGroups \/ BulkGroupsArrive
  \/ PickBulkGroup \/ EditBulk \/ ServeBulkHeld \/ BulkHeldArrives
  \/ SaveBulk \/ ServeBulk \/ BulkSaved \/ BulkWorks

\* A loading state is set also while the timer of the search runs, and stays when its
\* text is cleared before the timer has fired.
BulkSearchesLast == {side \in BulkSides : ui.search[side].timer \/ ~ui.search[side].query}

\* Once the look-up is answered, the members that the picker disables are those of
\* additions to the target that is chosen now, and none when no target is, however
\* quickly targets were changed.
HeldIsOfTarget ==
  At("bulk") /\ Live("held") = {} =>
    ui.held \subseteq UNION {add.ids : add \in {a \in srv.adds : a.target = ui.group["targets"]}}
=============================================================================
