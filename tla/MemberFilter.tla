---------------------------- MODULE MemberFilter ----------------------------
(***************************************************************************)
(* The member filter of the agents' mini-app: a list of conditions joined  *)
(* by AND or OR, edited in the dialog of the send and bulk-add forms,      *)
(* which narrows their member picker, or on the search page, which lists   *)
(* the members found (features/memberSearch).                              *)
(***************************************************************************)
EXTENDS WebView, SequencesExt

CONSTANTS
  Members,        \* numbers of the members of the source group
  Keywords,       \* values of a condition
  Has,            \* the keywords each member's messages contain
  MaxConditions,  \* bound: conditions of the dialog's filter, one less than the page's
  PageSize,       \* 50 members in an answer
  MaxPages        \* 40 pages are read of what a filter matches

ASSUME MemberFilterAssumption ==
  /\ PageSize \in Nat \ {0} /\ MaxPages \in Nat \ {0}
  /\ IsFiniteSet(Members)
  /\ Has \in [Members -> SUBSET Keywords]

-----------------------------------------------------------------------------
(* Filters: a condition is a value to look for, None while it is blank; the  *)
(* fields, operators and match modes of a condition are alike.               *)

EmptyGroup == [op |-> "AND", conditions |-> <<None>>]

Edits(filter, most) ==
  LET f == IF filter = None THEN EmptyGroup ELSE filter
      n == Len(f.conditions)
  IN {[f EXCEPT !.conditions[i] = value] : i \in 1 .. n, value \in Keywords \cup {None}}
     \cup (IF n < most THEN {[f EXCEPT !.conditions = Append(@, None)]} ELSE {})
     \cup (IF n > 1 THEN {[f EXCEPT !.conditions = RemoveAt(@, i)] : i \in 1 .. n}
                         \cup {[f EXCEPT !.op = op] : op \in {"AND", "OR"}}
           ELSE {})

\* isFilterUsable: some condition is not blank.
Usable(filter) ==
  filter # None /\ \E i \in DOMAIN filter.conditions : filter.conditions[i] # None

\* The server takes no blank condition.
Refuses(filter) == \E i \in DOMAIN filter.conditions : filter.conditions[i] = None

Matches(filter) ==
  {m \in Members :
     LET holds == {i \in DOMAIN filter.conditions : filter.conditions[i] \in Has[m]}
     IN IF filter.op = "AND" THEN holds = DOMAIN filter.conditions ELSE holds # {}}

\* Page p of the members that a filter matches.
FoundOn(filter, p) ==
  {m \in Matches(filter) :
     Cardinality({k \in Matches(filter) : k < m}) \in (p - 1) * PageSize .. p * PageSize - 1}

PagesRead(total) == Min({MaxPages, (total + PageSize - 1) \div PageSize})

-----------------------------------------------------------------------------
(* The dialog *)

FilterKinds == {"count", "first", "rest"}

FilterStart ==
  /\ srv = [members |-> Members]
  /\ ui = [at |-> "filter", busy |-> {}, open |-> FALSE, draft |-> None,
           count |-> None, timer |-> FALSE,
           found |-> {},                       \* ids of the pages read so far
           filter |-> None, narrow |-> None]   \* bulkFilter and bulkNarrowIds of the form
  /\ net = [kind \in FilterKinds |-> {}]

\* The effect on the draft: a usable one takes a new key, which makes the counts
\* in flight obsolete, and is counted after 300 ms.  Another one stops the timer
\* and leaves "counting" as it is.
Counting(u) == u.open /\ Usable(u.draft)

CountSet(u) ==
  IF Counting(u) THEN [Busy(u, {"count"}) EXCEPT !.timer = TRUE]
  ELSE [u EXCEPT !.count = None, !.timer = FALSE]

CountsObsolete(u, n) == IF Counting(u) THEN Cancelled(n, "count") ELSE n

Drafted(u) == ui' = CountSet(u) /\ net' = CountsObsolete(u, net)

\* The dialog starts from the filter of the form; before that the effect runs once
\* with the draft it was closed with.
OpenFilter ==
  /\ At("filter") /\ ~ui.open
  /\ LET before == [ui EXCEPT !.open = TRUE, !.count = None]
         after == [CountSet(before) EXCEPT !.draft = ui.filter]
     IN /\ ui' = CountSet(after)
        /\ net' = CountsObsolete(after, CountsObsolete(before, net))
  /\ UNCHANGED srv

EditDraft ==
  /\ At("filter") /\ ui.open
  /\ \E d \in Edits(ui.draft, MaxConditions) \ {ui.draft} : Drafted([ui EXCEPT !.draft = d])
  /\ UNCHANGED srv

\* The dialog can also be closed while a filter is being applied.
CloseFilter ==
  At("filter") /\ ui.open /\ Drafted([ui EXCEPT !.open = FALSE]) /\ UNCHANGED srv

CountTimer ==
  /\ At("filter") /\ ui.timer /\ Room
  /\ ui' = [ui EXCEPT !.timer = FALSE]
  /\ net' = Sending(net, "count", {"count"}, ui.draft)
  /\ UNCHANGED srv

ServeCount ==
  \E q \in Asked("filter", "count") :
    Serve("count", q, srv, IF Refuses(q.arg) THEN Failed ELSE Cardinality(Matches(q.arg)))

AnyCountArrives ==
  \E q \in Answered("filter", "count") :
    Take("count", q, [ui EXCEPT !.count = IF Refused(q) THEN None ELSE q.ans])

CountArrives ==
  \E q \in Answers("filter", "count") :
    Take("count", q, [ui EXCEPT !.count = IF Refused(q) THEN None ELSE q.ans])

\* onApply and onClose: no ids, or none found, leave the picker as wide as it was
\* without a filter.
Applied(u, filter, ids) ==
  [Free(u, {"apply"}) EXCEPT !.filter = filter, !.narrow = IF ids = {} THEN None ELSE ids,
                             !.open = FALSE, !.count = None, !.timer = FALSE, !.found = {}]

ApplyFilter ==
  /\ At("filter") /\ ui.open /\ Usable(ui.draft) /\ "apply" \notin ui.busy
  /\ Ask(ui, "apply", "first", ui.draft)

ServeFirst ==
  \E q \in Asked("filter", "first") :
    Serve("first", q, srv, IF Refuses(q.arg) THEN Failed
                           ELSE [total |-> Cardinality(Matches(q.arg)), ids |-> FoundOn(q.arg, 1)])

RestOf(filter, total) ==
  {Request({"apply"}, [filter |-> filter, page |-> p]) : p \in 2 .. PagesRead(total)}

\* The other pages are asked for together; a search that fails counts as one that
\* found nothing.
FirstArrives ==
  \E q \in Answers("filter", "first") :
    IF Refused(q) \/ PagesRead(q.ans.total) < 2
    THEN Take("first", q, Applied(ui, q.arg, IF Refused(q) THEN {} ELSE q.ans.ids))
    ELSE /\ ui' = [ui EXCEPT !.found = q.ans.ids]
         /\ net' = [Taking(net, "first", q) EXCEPT !["rest"] = RestOf(q.arg, q.ans.total)]
         /\ UNCHANGED srv

ServeRest ==
  \E q \in Asked("filter", "rest") :
    Serve("rest", q, srv, IF Refuses(q.arg.filter) THEN Failed ELSE FoundOn(q.arg.filter, q.arg.page))

\* A page that fails is left out.
RestArrives ==
  \E q \in Answers("filter", "rest") :
    LET found == ui.found \cup (IF Refused(q) THEN {} ELSE q.ans)
    IN IF net["rest"] = {q} THEN Take("rest", q, Applied(ui, q.arg.filter, found))
       ELSE /\ ui' = [ui EXCEPT !.found = found]
            /\ net' = Taking(net, "rest", q)
            /\ UNCHANGED srv

ClearFilter ==
  /\ At("filter") /\ ui.open /\ "apply" \notin ui.busy
  /\ Show([ui EXCEPT !.draft = None, !.count = None, !.timer = FALSE,
                     !.filter = None, !.narrow = None, !.open = FALSE])

FilterNext ==
  \/ OpenFilter \/ EditDraft \/ CloseFilter \/ CountTimer \/ ServeCount \/ CountArrives
  \/ ApplyFilter \/ ServeFirst \/ FirstArrives \/ ServeRest \/ RestArrives \/ ClearFilter

\* "counting" is shown also while the timer runs, and stays when a draft is blanked,
\* or the dialog closed, before the timer has fired.
CountLasts == IF ~ui.timer /\ Counting(ui) THEN {} ELSE {"count"}

\* The members that the picker of the form lists.
Listed == IF ui.narrow = None THEN Members ELSE ui.narrow

\* A count that is shown as final is the count of the filter as it now stands,
\* however the edits and the answers of earlier counts interleave (countKeyRef).
CountIsOfDraft ==
  At("filter") /\ ui.open /\ Usable(ui.draft) /\ ui.count # None /\ "count" \notin ui.busy
    => ui.count = Cardinality(Matches(ui.draft))

\* The ids that narrow the picker are matches of the filter the form carries, also
\* when the draft was edited, or the dialog closed and opened, while they were
\* being read page by page (handleApply, resolveFilterMemberIds).
NarrowIsOfFilter ==
  At("filter") /\ ui.narrow # None => ui.filter # None /\ ui.narrow \subseteq Matches(ui.filter)

\* What the dialog counts and what the picker lists follow the filter in force.
FilterSettles == CountIsOfDraft /\ NarrowIsOfFilter

\* Once a filter is applied the picker lists members that it matches, and no
\* others (CampaignsPage: "narrows the member picker to matching ids").
FilterNarrows ==
  At("filter") /\ ui.filter # None => Listed \subseteq Matches(ui.filter)

-----------------------------------------------------------------------------
(* The search page *)

SearchKinds == {"search"}

SearchStart ==
  /\ srv = [members |-> Members]
  /\ ui = [at |-> "search", busy |-> {}, draft |-> EmptyGroup, page |-> 1,
           results |-> None, error |-> FALSE]
  /\ net = [kind \in SearchKinds |-> {}]

\* Another filter goes back to page 1; what was found stays until it is searched.
EditSearch ==
  /\ At("search")
  /\ \E d \in Edits(ui.draft, MaxConditions + 1) : Show([ui EXCEPT !.draft = d, !.page = 1])

\* The button, the pages of the results, and the retry of a search that failed;
\* the latter two are not shown while a search runs.
SearchPages ==
  IF ui.error THEN {1, ui.page}
  ELSE IF ui.results = None \/ ui.results.ids = {} THEN {1}
  ELSE {1} \cup {p \in {ui.page - 1, ui.page + 1} :
                   p >= 1 /\ (p > ui.page => ui.results.more \/ ui.page < ui.results.pages)}

SearchNow ==
  /\ At("search") /\ "search" \notin ui.busy
  /\ \E p \in SearchPages :
       /\ p = 1 => Usable(ui.draft) \/ ui.page = 1
       /\ Ask([ui EXCEPT !.page = p, !.error = FALSE], "search", "search",
              [filter |-> ui.draft, page |-> p])

ServeSearch ==
  \E q \in Asked("search", "search") :
    LET total == Cardinality(Matches(q.arg.filter))
    IN Serve("search", q, srv,
             IF Refuses(q.arg.filter) THEN Failed
             ELSE [ids |-> FoundOn(q.arg.filter, q.arg.page),
                   pages |-> (total + PageSize - 1) \div PageSize,
                   more |-> total > q.arg.page * PageSize])

SearchArrives ==
  \E q \in Answers("search", "search") :
    Take("search", q, IF Refused(q) THEN [ui EXCEPT !.error = TRUE]
                      ELSE [ui EXCEPT !.results = q.ans])

SearchNext == EditSearch \/ SearchNow \/ ServeSearch \/ SearchArrives
=============================================================================
