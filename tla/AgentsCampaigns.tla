--------------------------- MODULE AgentsCampaigns ---------------------------
(***************************************************************************)
(* The page of the agents' mini-app that sends messages: the picker of     *)
(* members with its automatic claims, the form that is prepared, confirmed *)
(* and sent, its composer, and the recurring campaigns (CampaignsPage.tsx, *)
(* ClaimAwareMemberPicker.tsx, MessageComposer.tsx, SchedulePicker.tsx).   *)
(***************************************************************************)
EXTENDS MemberFilter

CONSTANTS
  GroupMembers,   \* the members of each source group, a sequence of sets
  MaxSends,       \* bound: sends at work for the user to start another
  MaxRows,        \* bound: rows the composer ever shows
  MaxCampaigns    \* bound: campaigns ever created

ASSUME AgentsCampaignsAssumption == \A g \in DOMAIN GroupMembers : GroupMembers[g] \subseteq Members

SourceGroups == DOMAIN GroupMembers

-----------------------------------------------------------------------------
(* The picker of members: who holds the claim of each of them is None, "me"  *)
(* (this agent) or "other".                                                  *)

PickerKinds == {"rows", "held", "claim"}

PickerStart ==
  /\ srv = [claim |-> [m \in Members |-> IF m = 1 THEN None ELSE "other"],
            sending |-> [g \in SourceGroups |-> IF g = 1 THEN {1} ELSE {}]]   \* by sends at work
  /\ ui = [at |-> "picker", busy |-> {}, source |-> None, rows |-> {}, held |-> {},
           selected |-> {},
           timer |-> {},      \* the members that the timer will claim, if it runs
           claimed |-> {},    \* claimedRef
           missed |-> {}]     \* members that calls claimed in vain
  /\ net = [kind \in PickerKinds |-> {}]

\* The search effect, which does not cancel the search before it.
RowsAsked(n, source) == Sending(n, "rows", {"rows"}, source)

\* Another source: nobody is selected or remembered as claimed any more, and the
\* sends at work are looked up for it.
PickSource ==
  /\ At("picker") /\ Room
  /\ \E g \in (SourceGroups \cup {None}) \ {ui.source} :
       LET u == [ui EXCEPT !.source = g, !.selected = {}, !.claimed = {}, !.missed = {}, !.timer = {}]
       IN IF g = None
          THEN /\ ui' = [u EXCEPT !.rows = {}, !.held = {}]
               /\ net' = Cancelled(net, "held")
          ELSE /\ ui' = Busy(u, {"rows"})
               /\ net' = RowsAsked(Sending(Cancelled(net, "held"), "held", {}, g), g)
  /\ UNCHANGED srv

\* A text typed, another page, admins shown or hidden, a filter applied; bound:
\* while nothing is in flight.
SearchRows ==
  /\ At("picker") /\ ui.source # None /\ \A kind \in PickerKinds : net[kind] = {}
  /\ Ask(ui, "rows", "rows", ui.source)

ServeRows ==
  \E q \in Asked("picker", "rows") :
    Serve("rows", q, srv, {<<m, srv.claim[m]>> : m \in GroupMembers[q.arg]})

RowsArrive ==
  \E q \in Answers("picker", "rows") :
    Take("rows", q, [ui EXCEPT !.rows = IF Refused(q) THEN {} ELSE q.ans])

ServeHeld == \E q \in Asked("picker", "held") : Serve("held", q, srv, srv.sending[q.arg])

\* The sends of a source left since are not looked at, but a failure to read them
\* empties the held members of any.
HeldArrives ==
  \E q \in Answered("picker", "held") :
    /\ q.live \/ Refused(q)
    /\ Take("held", q, [ui EXCEPT !.held = IF Refused(q) THEN {} ELSE q.ans])

\* A row with a box to tick; selectAll takes those that nobody claims.
CanTick(row) == row[2] # "other" /\ row[1] \notin ui.held
SelectAll == {row[1] : row \in {r \in ui.rows : r[2] = None /\ CanTick(r)}}

SelectedKeepsTimer(u, ids) ==
  [u EXCEPT !.selected = ids, !.timer = IF @ = {} THEN ids \ u.claimed ELSE @]

\* Another selection restarts the timer, for those of it that are not yet claimed.
Selected(u, ids) == [u EXCEPT !.selected = ids, !.timer = ids \ u.claimed]

ChangeSelection ==
  /\ At("picker") /\ ui.source # None
  /\ \/ \E row \in ui.rows : CanTick(row) /\ Show(Selected(ui, SymDiff(ui.selected, {row[1]})))
     \/ Show(Selected(ui, ui.selected \cup SelectAll))
     \/ Show(Selected(ui, {}))

\* 700 ms after the selection last changed; bound: while no look-up is in flight.
ClaimTimer ==
  /\ At("picker") /\ ui.timer # {} /\ Room /\ net["held"] = {}
  /\ ui' = [ui EXCEPT !.timer = {}]
  /\ net' = Sending(net, "claim", {}, [source |-> ui.source, ids |-> ui.timer])
  /\ UNCHANGED srv

\* The claims that the server makes; the answer tells which are this agent's now.
WithClaims(claim, ids) == [m \in Members |-> IF m \in ids /\ claim[m] = None THEN "me" ELSE claim[m]]
Mine(ids) == {m \in ids : srv.claim[m] # "other"}

ServePickerClaim ==
  \E q \in Asked("picker", "claim") :
    Serve("claim", q, [srv EXCEPT !.claim = WithClaims(@, q.arg.ids)], Mine(q.arg.ids))

\* What was claimed shows in the rows once they are read again.  An answer that comes
\* after another source was chosen is remembered for that one.
PickerClaimArrives ==
  \E q \in Answers("picker", "claim") :
    LET mine == IF Refused(q) THEN {} ELSE q.ans
        u == [ui EXCEPT !.claimed = @ \cup mine,
                         !.missed = (@ \cup q.arg.ids) \ (ui.claimed \cup mine)]
        asks == mine # {} /\ ui.source # None
    IN /\ ui' = IF asks THEN Busy(u, {"rows"}) ELSE u
       /\ net' = IF asks THEN RowsAsked(Taking(net, "claim", q), ui.source) ELSE Taking(net, "claim", q)
       /\ UNCHANGED srv

\* The claims of other agents expire; bound: they claim no member again.
PickerWorld ==
  /\ At("picker")
  /\ \E m \in Members : srv.claim[m] = "other" /\ srv' = [srv EXCEPT !.claim[m] = None]
  /\ UNCHANGED <<ui, net>>

PickerNext ==
  \/ PickSource \/ SearchRows \/ ServeRows \/ RowsArrive \/ ServeHeld \/ HeldArrives
  \/ ChangeSelection \/ ClaimTimer \/ ServePickerClaim \/ PickerClaimArrives \/ PickerWorld

\* Once the timer has fired and its call is answered, every selected member has
\* been claimed for the agent, or a call for it failed or found it claimed by
\* another, however quickly the selection and the source were changed; of which source,
\* an answer that comes late does not tell (claimedRef).
AutoClaimed ==
  At("picker") /\ ui.timer = {} /\ Live("claim") = {} => ui.selected \subseteq ui.claimed \cup ui.missed

-----------------------------------------------------------------------------
(* The form: the picker's selection is any set of members.                   *)

SendKinds == {"preflight", "claim", "send", "post"}

SendStart ==
  /\ srv = [claim |-> [m \in Members |-> None], checked |-> {}, jobs |-> {}, sent |-> {}]
  /\ ui = [at |-> "send", busy |-> {}, open |-> FALSE, source |-> None, target |-> "members",
           groups |-> FALSE, selected |-> {}, summary |-> None]
  /\ net = [kind \in SendKinds |-> {}]

EmptySend(u) == [u EXCEPT !.source = None, !.target = "members", !.groups = FALSE,
                          !.selected = {}, !.summary = None]

\* The form is opened, or cancelled, also while it is being sent.
ToggleForm == At("send") /\ Show([EmptySend(ui) EXCEPT !.open = ~@])

\* Only another kind of target drops the summary; bound: the user fills in one kind.
EditSend ==
  /\ At("send") /\ ui.open
  /\ \/ ~ui.groups /\ \E g \in SourceGroups \ {ui.source} : Show([ui EXCEPT !.source = g, !.selected = {}])
     \/ ui.target = "members" /\ ui.source # None
        /\ \E ids \in SUBSET Members \ {ui.selected} : Show([ui EXCEPT !.selected = ids])
     \/ ui.target = "groups" /\ ~ui.groups /\ ui.source = None /\ Show([ui EXCEPT !.groups = TRUE])
     \/ \E target \in {"members", "groups"} : Show([ui EXCEPT !.target = target, !.summary = None])

IsFormValid == IF ui.target = "members" THEN ui.source # None ELSE ui.groups

CanSubmitSend ==
  /\ At("send") /\ ui.open /\ ui.busy \cap {"prepare", "save"} = {} /\ IsFormValid

\* A summary tells how many the message would go to, and for members whom.
Prepare ==
  /\ CanSubmitSend /\ ui.summary = None
  /\ Ask(ui, "prepare", "preflight",
         IF ui.target = "members" THEN [source |-> ui.source, ids |-> ui.selected]
         ELSE [source |-> 0, ids |-> {}])

\* The selected members of the source that the message has not gone to.
ServePreflight ==
  \E q \in Asked("send", "preflight") :
    LET ids == IF q.arg.source = 0 THEN {} ELSE (q.arg.ids \cap GroupMembers[q.arg.source]) \ srv.sent
    IN Serve("preflight", q, srv, [ids |-> ids, count |-> IF q.arg.source = 0 THEN 1 ELSE Cardinality(ids)])

PreflightArrives ==
  \E q \in Answers("send", "preflight") :
    Take("preflight", q, IF Refused(q) THEN ui ELSE [ui EXCEPT !.summary = q.ans])

\* The members of the summary are claimed, whether or not the picker did.
ConfirmSend ==
  /\ CanSubmitSend /\ ui.summary # None /\ ui.summary.count > 0 /\ Cardinality(srv.checked \cup srv.jobs) < MaxSends
  /\ IF ui.target = "members"
     THEN Ask(ui, "save", "claim", [source |-> ui.source, ids |-> ui.summary.ids])
     ELSE Ask(ui, "save", "post", None)

ServeSendClaim ==
  \E q \in Asked("send", "claim") :
    Serve("claim", q, [srv EXCEPT !.claim = WithClaims(@, q.arg.ids)], Mine(q.arg.ids))

SendClaimArrivesNow ==
  \E q \in Answers("send", "claim") :
    IF Refused(q) \/ q.ans = {}
    THEN Take("claim", q, IF Refused(q) THEN ui ELSE [ui EXCEPT !.summary = None])
    ELSE Further("claim", q, ui, "send",
                 [ids |-> q.ans \cup ui.selected, confirmed |-> q.arg.ids])

\* The recipients are those of the summary confirmed that are the agent's now.
SendClaimArrives ==
  \E q \in Answers("send", "claim") :
    IF Refused(q) \/ q.ans = {}
    THEN Take("claim", q, IF Refused(q) THEN ui ELSE [ui EXCEPT !.summary = None])
    ELSE Further("claim", q, ui, "send", [ids |-> q.ans, confirmed |-> q.arg.ids])

\* The server looks whether all the members are claimed by the agent, and if so goes
\* on to the job.
CheckSend ==
  \E q \in Asked("send", "send") :
    /\ q.arg \notin srv.checked
    /\ IF \A m \in q.arg.ids : srv.claim[m] = "me"
       THEN srv' = [srv EXCEPT !.checked = @ \cup {q.arg}] /\ UNCHANGED <<ui, net>>
       ELSE Serve("send", q, srv, "conflicts")

\* The job is created whatever became of the claims since, and of the request.
CreateSend ==
  /\ At("send")
  /\ \E job \in srv.checked :
       /\ srv' = [srv EXCEPT !.checked = @ \ {job}, !.jobs = @ \cup {job}]
       /\ \/ \E q \in Asked("send", "send") : q.arg = job /\ net' = Executed(net, "send", q, "ok")
          \/ (\A q \in Asked("send", "send") : q.arg # job) /\ UNCHANGED net
  /\ UNCHANGED ui

ServePost == \E q \in Asked("send", "post") : Serve("post", q, srv, "ok")

SendArrives ==
  \E kind \in {"send", "post"} : \E q \in Answers("send", kind) :
    Take(kind, q, CASE q.ans = Failed -> ui
                    [] q.ans = "conflicts" -> [ui EXCEPT !.summary = None]
                    [] OTHER -> EmptySend(ui))

\* A job sends its messages and releases the claims of its agent; claims expire, and
\* other agents claim; bound: they claim member 2.
SendWorld ==
  /\ At("send")
  /\ \/ \E job \in srv.jobs :
          srv' = [srv EXCEPT !.jobs = @ \ {job}, !.sent = @ \cup job.ids,
                             !.claim = [m \in Members |-> IF m \in job.ids /\ @[m] = "me" THEN None ELSE @[m]]]
     \/ \E m \in Members : srv.claim[m] # None /\ srv' = [srv EXCEPT !.claim[m] = None]
     \/ srv.claim[2] = None /\ srv' = [srv EXCEPT !.claim[2] = "other"]
  /\ UNCHANGED <<ui, net>>

SendNext ==
  \/ ToggleForm \/ EditSend \/ Prepare \/ ServePreflight \/ PreflightArrives
  \/ ConfirmSend \/ ServeSendClaim \/ SendClaimArrives \/ CheckSend \/ CreateSend \/ ServePost
  \/ SendArrives \/ SendWorld

\* Nobody gets a message whom the summary that the user confirmed did not count,
\* although the form can be edited, cancelled and opened again while the claims
\* are made (handleSend).
SentAsConfirmed == At("send") => \A job \in srv.jobs : job.ids \subseteq job.confirmed

-----------------------------------------------------------------------------
(* The composer: a message is <<its row, its text>>, its media the row the   *)
(* file was chosen for.                                                      *)

ComposerKinds == {"upload"}

ComposerStart ==
  /\ srv = [uploads |-> 0]
  /\ ui = [at |-> "composer", busy |-> {}, messages |-> <<1>>, media |-> <<None>>, rows |-> 1]
  /\ net = [kind \in ComposerKinds |-> {}]

EditComposer ==
  /\ At("composer")
  /\ \/ /\ ui.rows < MaxRows
        /\ Show([ui EXCEPT !.messages = Append(@, ui.rows + 1), !.media = Append(@, None),
                           !.rows = @ + 1])
     \/ /\ Len(ui.messages) > 1
        /\ \E i \in DOMAIN ui.messages :
             Show([ui EXCEPT !.messages = RemoveAt(@, i), !.media = RemoveAt(@, i)])
     \/ \E i \in DOMAIN ui.media : ui.media[i] # None /\ Show([ui EXCEPT !.media[i] = None])

\* Files of more than 20 MB are not uploaded.  An upload keeps the rows it was
\* started with.
UploadMedia ==
  /\ At("composer")
  /\ \E i \in DOMAIN ui.messages :
       Ask(ui, "upload", "upload", [messages |-> ui.messages, media |-> ui.media, row |-> i])

ServeMedia == \E q \in Asked("composer", "upload") : Serve("upload", q, srv, "url")

MediaArrivesByIndex ==
  \E q \in Answers("composer", "upload") :
    Take("upload", q, IF Refused(q) \/ q.arg.row \notin DOMAIN ui.media THEN ui
                      ELSE [ui EXCEPT !.media[q.arg.row] = q.arg.messages[q.arg.row]])

\* The rows of an upload come back with it, over what was typed, added or removed
\* meanwhile.
MediaArrives ==
  \E q \in Answers("composer", "upload") :
    Take("upload", q, IF Refused(q) THEN ui
                      ELSE [ui EXCEPT !.messages = q.arg.messages,
                                      !.media = [q.arg.media EXCEPT ![q.arg.row] = q.arg.messages[q.arg.row]]])

ComposerNext == EditComposer \/ UploadMedia \/ ServeMedia \/ MediaArrives

\* A file goes out with the message it was chosen for, although rows are added and
\* removed while it is uploaded (MessageComposer.handleUpload).
MediaStaysWithMessage ==
  At("composer") =>
    /\ Len(ui.media) = Len(ui.messages)
    /\ \A i \in DOMAIN ui.media : ui.media[i] \in {None, ui.messages[i]}

-----------------------------------------------------------------------------
(* Campaigns: each has a status, and a recurring one an end of its schedule. *)

CampaignKinds == {"list", "create", "activate", "update", "quick", "act"}
Ends == {"never", "after_n_runs"}

\* What the user does is bounded to one of two scenarios: the form of a recurring
\* campaign, or the buttons of the list and the dialog.
CampaignsStart(scenario) ==
  /\ srv = [campaigns |-> <<[status |-> "active", end |-> "after_n_runs"]>>]
  /\ ui = [at |-> "campaigns", scenario |-> scenario, busy |-> {}, list |-> {}, dialog |-> FALSE,
           recurring |-> FALSE, editing |-> None, end |-> "never"]
  /\ net = [kind \in CampaignKinds |-> IF kind = "list" THEN {Request({}, None)} ELSE {}]

Existing == {i \in DOMAIN srv.campaigns : srv.campaigns[i].status # "deleted"}
ServeCampaigns ==
  \E q \in Asked("campaigns", "list") :
    Serve("list", q, srv, {<<i, srv.campaigns[i]>> : i \in Existing})

\* The list takes its place whatever was read or done since it was asked for.
CampaignsArrive ==
  \E q \in Answers("campaigns", "list") :
    Take("list", q, IF Refused(q) THEN ui ELSE [ui EXCEPT !.list = q.ans])

\* The form of a recurring campaign; its schedule, whose end is one of its fields.
\* A campaign without an end leaves in the form the end of the one edited before.
EditSchedule ==
  /\ At("campaigns") /\ ui.scenario = "form"
  /\ \/ ~ui.recurring /\ Show([ui EXCEPT !.recurring = TRUE])
     \/ ui.recurring /\ \E end \in Ends \ {ui.end} : Show([ui EXCEPT !.end = end])

CampaignMenu(c) ==
  IF c.end = None THEN {}
  ELSE CASE c.status = "active" -> {"pause", "run", "edit", "delete"}
         [] c.status = "paused" -> {"resume", "run", "edit", "delete"}
         [] OTHER -> {}

EditCampaign ==
  /\ At("campaigns") /\ ui.scenario = "form"
  /\ \E row \in ui.list :
       /\ "edit" \in CampaignMenu(row[2])
       /\ Show([ui EXCEPT !.recurring = TRUE, !.editing = row[1],
                          !.end = IF row[2].end = "never" THEN @ ELSE row[2].end])

CampaignFormReset(u) == [u EXCEPT !.recurring = FALSE, !.editing = None, !.end = "never"]

CancelCampaign == At("campaigns") /\ ui.recurring /\ Show(CampaignFormReset(ui))

\* A new campaign is created and then activated.
SaveCampaign ==
  /\ At("campaigns") /\ ui.recurring /\ "save" \notin ui.busy
  /\ IF ui.editing = None THEN Ask(ui, "save", "create", ui.end)
     ELSE Ask(ui, "save", "update", [id |-> ui.editing, end |-> ui.end])

ServeCreate ==
  \E kind \in {"create", "quick"} : \E q \in Asked("campaigns", kind) :
    /\ Len(srv.campaigns) < MaxCampaigns
    /\ LET c == [status |-> "draft", end |-> q.arg]
       IN Serve(kind, q, [srv EXCEPT !.campaigns = Append(@, c)], <<Len(srv.campaigns) + 1, c>>)

CreateArrives ==
  \E q \in Answers("campaigns", "create") :
    IF Refused(q) THEN Take("create", q, ui) ELSE Further("create", q, ui, "activate", q.ans[1])

\* A campaign at work takes no update, and an update without an end leaves the end.
ServeSave ==
  \/ \E q \in Asked("campaigns", "activate") :
       Serve("activate", q, [srv EXCEPT !.campaigns[q.arg].status = "active"], "ok")
  \/ \E q \in Asked("campaigns", "update") :
       IF srv.campaigns[q.arg.id].status \in {"draft", "paused"}
       THEN Serve("update", q,
                  IF q.arg.end = "never" THEN srv
                  ELSE [srv EXCEPT !.campaigns[q.arg.id].end = q.arg.end], "ok")
       ELSE Serve("update", q, srv, Failed)

\* A failure leaves the form as it is, also when the campaign was created.
CampaignSaved ==
  \E kind \in {"activate", "update"} : \E q \in Answers("campaigns", kind) :
    IF Refused(q) THEN Take(kind, q, ui)
    ELSE /\ ui' = Free(CampaignFormReset(ui), q.ops)
         /\ net' = Sending(Taking(net, kind, q), "list", {}, None)
         /\ UNCHANGED srv

\* The buttons of a campaign are never disabled; all but "run" read the list again.
ActOnCampaign ==
  /\ At("campaigns") /\ Room
  /\ \E row \in ui.list : \E action \in CampaignMenu(row[2]) \ {"edit"} :
       /\ ui.scenario = "list" \/ action = "pause"
       /\ net' = Sending(net, "act", {}, [id |-> row[1], action |-> action])
  /\ UNCHANGED <<ui, srv>>

AfterAction(c, action) ==
  CASE action = "pause" /\ c.status = "active" -> {[c EXCEPT !.status = "paused"]}
    [] action = "resume" /\ c.status = "paused" -> {[c EXCEPT !.status = "active"]}
    [] action = "delete" /\ c.status \in {"draft", "paused"} -> {[c EXCEPT !.status = "deleted"]}
    [] action = "run" /\ c.status \in {"active", "paused"} -> {c}
    [] OTHER -> {}

ServeCampaignAction ==
  \E q \in Asked("campaigns", "act") :
    LET after == AfterAction(srv.campaigns[q.arg.id], q.arg.action)
    IN IF after = {} THEN Serve("act", q, srv, Failed)
       ELSE \E c \in after : Serve("act", q, [srv EXCEPT !.campaigns[q.arg.id] = c], "ok")

CampaignActed ==
  \E q \in Answers("campaigns", "act") :
    IF Refused(q) \/ q.arg.action = "run" THEN Take("act", q, ui)
    ELSE Further("act", q, ui, "list", None)

\* A dialog that creates a campaign without a schedule, which stays a draft.
QuickCreate ==
  /\ At("campaigns") /\ ui.scenario = "list"
  /\ \/ Show([ui EXCEPT !.dialog = ~@])
     \/ ui.dialog /\ "quick" \notin ui.busy /\ Ask(ui, "quick", "quick", None)

QuickArrives ==
  \E q \in Answers("campaigns", "quick") :
    Take("quick", q, IF Refused(q) THEN ui ELSE [ui EXCEPT !.list = @ \cup {q.ans}, !.dialog = FALSE])

CampaignsNext ==
  \/ ServeCampaigns \/ CampaignsArrive
  \/ EditSchedule \/ EditCampaign \/ CancelCampaign \/ SaveCampaign \/ ServeCreate \/ CreateArrives
  \/ ServeSave \/ CampaignSaved \/ ActOnCampaign \/ ServeCampaignAction \/ CampaignActed
  \/ QuickCreate \/ QuickArrives

=============================================================================
