-------------------------- MODULE AgentsPagesProofs --------------------------
(***************************************************************************)
(* Theorems about the pages of an account in the agents' mini-app, for     *)
(* every value of the constants: an invariant for each page, and at the    *)
(* end the theorems about all of them.                                     *)
(***************************************************************************)
EXTENDS AgentsPages, WebViewProofs, FiniteSetTheorems, SequenceTheorems

-----------------------------------------------------------------------------
(* The form that adds members in bulk *)

\* A search of groups, and which group is chosen on each side.
IsSearch(s) == s \in [query: BOOLEAN, timer: BOOLEAN, found: {s.found}]

IsBulkUi(u) ==
  /\ u \in [at: {"bulk"}, scenario: {u.scenario}, busy: {u.busy}, open: BOOLEAN, search: {u.search},
            group: {u.group}, held: {u.held}, selected: {u.selected}, interval: {u.interval}]
  /\ u.search = [side \in BulkSides |-> u.search[side]] /\ \A side \in BulkSides : IsSearch(u.search[side])
  /\ u.group = [side \in BulkSides |-> u.group[side]]

IsBulkSrv(s) == s \in [adds: {s.adds}, working: SUBSET s.adds]

AddedTo(s, g) == UNION {add.ids : add \in {a \in s.adds : a.target = g}}

\* A look-up goes on without flags; one that is not cancelled is for the target
\* chosen now, and its answer names members of additions to the target it is for.
HeldRequest(g, s, q) ==
  /\ q.ops = {}
  /\ q.live => q.arg = g
  /\ q.ans \in {None, Failed} \/ q.ans \subseteq AddedTo(s, q.arg)

BulkRequests(g, s, n) == IsNet(n, BulkKinds) /\ \A q \in n["held"] : HeldRequest(g, s, q)

HeldOfTarget(g, held, s, n) ==
  (\E q \in n["held"] : q.live) \/ held \subseteq AddedTo(s, g)

\* The flags of u with a request behind them: a search may be loading before its
\* timer has fired, and after its text was cleared.
Awaited(u) == u.busy \ {side \in BulkSides : u.search[side].timer \/ ~u.search[side].query}

(***************************************************************************)
(* HeldIsOfTarget is not inductive: the answer of a look-up becomes the    *)
(* members held.  What saves it is that every change of the target cancels *)
(* the look-ups before it, so that the one that is taken is for the target *)
(* there is, and that additions are never forgotten.                       *)
(***************************************************************************)
BulkState(u, s, n) ==
  /\ IsBulkUi(u) /\ IsBulkSrv(s)
  /\ BulkRequests(u.group["targets"], s, n) /\ HeldOfTarget(u.group["targets"], u.held, s, n)
  /\ AllInFlight(Awaited(u), n)

BulkInv == BulkState(ui, srv, net)

LEMMA BulkKindsAre == BulkKinds = {"sources", "targets", "held", "add"} /\ BulkSides = {"sources", "targets"}
  BY DEF BulkKinds, BulkSides

\* The view keeps the target, and may empty the members held.
LEMMA BulkKept ==
  ASSUME NEW u, NEW v, NEW s, NEW t, NEW n, BulkState(u, s, n), IsBulkUi(v), IsBulkSrv(t),
         v.group["targets"] = u.group["targets"], v.held \subseteq u.held,
         Awaited(v) \subseteq Awaited(u), s.adds \subseteq t.adds
  PROVE  BulkState(v, t, n)
<1> DEFINE g == u.group["targets"]
<1>1. \A h : AddedTo(s, h) \subseteq AddedTo(t, h)
  BY DEF AddedTo
<1>2. BulkRequests(g, t, n)
  BY <1>1 DEF BulkState, BulkRequests, HeldRequest
<1>3. HeldOfTarget(g, v.held, t, n)
  BY <1>1 DEF BulkState, HeldOfTarget
<1>4. AllInFlight(Awaited(v), n)
  BY EndsFewer DEF BulkState
<1> QED
  BY <1>2, <1>3, <1>4 DEF BulkState

LEMMA BulkFlags ==
  ASSUME NEW u, IsBulkUi(u), NEW S
  PROVE  /\ IsBulkUi(Busy(u, S)) /\ Busy(u, S).busy = u.busy \cup S /\ Busy(u, S).search = u.search
         /\ Busy(u, S).group = u.group /\ Busy(u, S).held = u.held
         /\ IsBulkUi(Free(u, S)) /\ Free(u, S).busy = u.busy \ S /\ Free(u, S).search = u.search
         /\ Free(u, S).group = u.group /\ Free(u, S).held = u.held
  BY DEF IsBulkUi, Busy, Free

\* A search, or an addition, is sent; the view sets no flag without it.
LEMMA BulkSending ==
  ASSUME NEW u, NEW v, NEW s, NEW n, BulkState(u, s, n), NEW kind \in {"sources", "targets", "add"}, NEW ops, NEW arg,
         IsBulkUi(v), v.group = u.group, v.held = u.held, Awaited(v) \subseteq Awaited(u) \cup ops
  PROVE  BulkState(v, s, Sending(n, kind, ops, arg))
<1> DEFINE m == Sending(n, kind, ops, arg)
<1>0. IsNet(n, BulkKinds) /\ kind \in BulkKinds
  BY BulkKindsAre DEF BulkState, BulkRequests
<1>1. IsNet(m, BulkKinds) /\ m["held"] = n["held"]
  BY <1>0, BulkKindsAre, SendingNet
<1>2. AllInFlight(Awaited(v), m)
  BY <1>0, EndsSent DEF BulkState
<1> HIDE DEF m
<1> QED
  BY <1>1, <1>2 DEF BulkState, BulkRequests, HeldOfTarget, m

LEMMA BulkExecuted ==
  ASSUME NEW u, NEW s, NEW n, BulkState(u, s, n), NEW kind \in BulkKinds, NEW q \in n[kind], NEW ans,
         kind = "held" => ans = Failed \/ ans \subseteq AddedTo(s, q.arg)
  PROVE  BulkState(u, s, Executed(n, kind, q, ans))
<1> DEFINE m == Executed(n, kind, q, ans)
           r == [q EXCEPT !.ans = ans]
           g == u.group["targets"]
<1>0. IsNet(n, BulkKinds) /\ "held" \in BulkKinds
  BY BulkKindsAre DEF BulkState, BulkRequests
<1>1. /\ IsNet(m, BulkKinds) /\ m[kind] = (n[kind] \ {q}) \cup {r}
      /\ \A k \in BulkKinds \ {kind} : m[k] = n[k]
  BY <1>0, ExecutedNet
<1>2. r.ops = q.ops /\ r.arg = q.arg /\ r.ans = ans /\ r.live = q.live
  BY <1>0, AnsweredFields DEF IsNet
<1>3. AllInFlight(Awaited(u), m)
  BY <1>0, EndsExecuted DEF BulkState
<1>4. /\ \A k \in n["held"] : HeldRequest(g, s, k)
      /\ HeldOfTarget(g, u.held, s, n)
  BY DEF BulkState, BulkRequests
<1> HIDE DEF m, r, g
<1>5. \A k \in m["held"] : HeldRequest(g, s, k)
  BY <1>0, <1>1, <1>2, <1>4 DEF HeldRequest
<1>6. HeldOfTarget(g, u.held, s, m)
  BY <1>0, <1>1, <1>2, <1>4 DEF HeldOfTarget
<1> QED
  BY <1>1, <1>3, <1>5, <1>6 DEF BulkState, BulkRequests, m, g

\* A request that is taken: a look-up with the members that are held from then on.
LEMMA BulkTaking ==
  ASSUME NEW u, NEW v, NEW s, NEW n, BulkState(u, s, n), NEW kind \in BulkKinds, NEW q,
         IsBulkUi(v), v.group = u.group,
         IF kind = "held" /\ q.live THEN v.held \subseteq AddedTo(s, u.group["targets"])
         ELSE v.held = u.held \/ v.held = {},
         \A op \in Awaited(v) : op \in Awaited(u) /\ ~(q.live /\ op \in q.ops)
  PROVE  BulkState(v, s, Taking(n, kind, q))
<1> DEFINE m == Taking(n, kind, q)
           g == u.group["targets"]
<1>0. IsNet(n, BulkKinds) /\ "held" \in BulkKinds /\ kind \in BulkKinds
  BY BulkKindsAre DEF BulkState, BulkRequests
<1>1. /\ IsNet(m, BulkKinds) /\ m[kind] = n[kind] \ {q}
      /\ \A k \in BulkKinds \ {kind} : m[k] = n[k]
  <2>1. /\ IsNet(Taking(n, kind, q), BulkKinds)
        /\ Taking(n, kind, q)[kind] = n[kind] \ {q}
        /\ \A k \in BulkKinds \ {kind} : Taking(n, kind, q)[k] = n[k]
    BY ONLY <1>0, TakingNet
  <2> QED
    BY <2>1
<1>2. AllInFlight(Awaited(v), m)
  BY <1>0, EndsTaken DEF BulkState
<1>3. /\ \A k \in n["held"] : HeldRequest(g, s, k)
      /\ HeldOfTarget(g, u.held, s, n)
  BY DEF BulkState, BulkRequests
<1> HIDE DEF m, g
<1>4. \A k \in m["held"] : HeldRequest(g, s, k)
  BY <1>0, <1>1, <1>3
<1>5. HeldOfTarget(g, v.held, s, m)
  <2>1. CASE kind = "held" /\ q.live
    BY <2>1 DEF HeldOfTarget, g
  <2>2. CASE ~(kind = "held" /\ q.live)
    <3>1. \A k \in n["held"] : k.live => k \in m["held"]
      BY <1>0, <1>1, <2>2
    <3> QED
      BY <1>3, <2>2, <3>1 DEF HeldOfTarget
  <2> QED
    BY <2>1, <2>2
<1> QED
  BY <1>1, <1>2, <1>4, <1>5 DEF BulkState, BulkRequests, m, g

\* The look-ups are cancelled, in a view with any target.
LEMMA BulkCancelled ==
  ASSUME NEW u, NEW s, NEW n, BulkState(u, s, n), NEW g
  PROVE  LET m == Cancelled(n, "held")
         IN  BulkRequests(g, s, m) /\ AllInFlight(Awaited(u), m)
<1> DEFINE m == Cancelled(n, "held")
           o == u.group["targets"]
<1>0. IsNet(n, BulkKinds) /\ "held" \in BulkKinds
  BY BulkKindsAre DEF BulkState, BulkRequests
<1>1. /\ IsNet(m, BulkKinds)
      /\ \A op : InFlight(n, op) => InFlight(m, op) \/ \E q \in n["held"] : q.live /\ op \in q.ops
  BY <1>0, CancelledNet
<1>2. \A r \in m["held"] : \E q \in n["held"] :
        ~r.live /\ r.ops = q.ops /\ r.arg = q.arg /\ r.ans = q.ans
  BY <1>0, CancelledRequests
<1>3. \A q \in n["held"] : HeldRequest(o, s, q)
  BY DEF BulkState, BulkRequests
<1> HIDE DEF m, o
<1>4. ASSUME NEW r \in m["held"] PROVE HeldRequest(g, s, r)
  <2>1. PICK q \in n["held"] : ~r.live /\ r.ops = q.ops /\ r.arg = q.arg /\ r.ans = q.ans
    BY <1>2
  <2>2. HeldRequest(o, s, q)
    BY <1>3
  <2> QED
    BY <2>1, <2>2 DEF HeldRequest
<1>5. \A op : InFlight(n, op) => InFlight(m, op)
  BY <1>1, <1>3 DEF HeldRequest
<1>6. AllInFlight(Awaited(u), m)
  BY <1>5 DEF BulkState, AllInFlight
<1> QED
  BY <1>1, <1>4, <1>6 DEF BulkRequests, m

-----------------------------------------------------------------------------
\* A text that is typed or cleared leaves its flag without a request behind it.
LEMMA BulkTypedUi ==
  ASSUME NEW u, IsBulkUi(u), NEW side \in BulkSides, NEW query \in BOOLEAN
  PROVE  LET v == BulkTyped(u, side, query)
         IN  /\ IsBulkUi(v) /\ Awaited(v) \subseteq Awaited(u)
             /\ v.group = u.group /\ v.held = u.held /\ v.open = u.open
<1> DEFINE v == BulkTyped(u, side, query)
<1>0. IsSearch(u.search[side])
  BY DEF IsBulkUi
<1>1. CASE query
  <2> DEFINE b == Busy(u, {side})
             sought == [[u.search[side] EXCEPT !.query = TRUE] EXCEPT !.timer = TRUE]
  <2>1. v = [b EXCEPT !.search = [u.search EXCEPT ![side] = sought]]
    <3>1. IsBulkUi(b) /\ b.search = u.search
      BY BulkFlags
    <3>2. v = [b EXCEPT !.search[side].query = TRUE, !.search[side].timer = TRUE]
      BY <1>1 DEF BulkTyped
    <3> HIDE DEF b, v
    <3> QED
      BY <3>1, <3>2 DEF IsBulkUi
  <2>2. IsBulkUi(b) /\ b.busy = u.busy \cup {side} /\ b.group = u.group /\ b.held = u.held /\ b.open = u.open
    BY BulkFlags DEF Busy, IsBulkUi
  <2>3. IsSearch(sought) /\ sought.timer
    BY <1>0 DEF IsSearch
  <2> HIDE DEF b, sought, v
  <2>4. /\ v.search = [u.search EXCEPT ![side] = sought] /\ v.busy = u.busy \cup {side}
        /\ v.group = u.group /\ v.held = u.held /\ v.open = u.open
        /\ v \in [at: {"bulk"}, scenario: {v.scenario}, busy: {v.busy}, open: BOOLEAN, search: {v.search},
                  group: {v.group}, held: {v.held}, selected: {v.selected}, interval: {v.interval}]
    BY <2>1, <2>2 DEF IsBulkUi
  <2>5. /\ v.search = [x \in BulkSides |-> v.search[x]] /\ v.search[side] = sought
        /\ \A x \in BulkSides \ {side} : v.search[x] = u.search[x]
    BY <2>4 DEF IsBulkUi
  <2> QED
    BY <2>3, <2>4, <2>5 DEF IsBulkUi, Awaited, v
<1>2. CASE ~query /\ u.search[side].query
  <2>1. v = [u EXCEPT !.search = [u.search EXCEPT ![side] = NoSearch]]
    BY <1>2 DEF BulkTyped, IsBulkUi
  <2>2. IsSearch(NoSearch) /\ ~NoSearch.query
    BY DEF IsSearch, NoSearch
  <2> HIDE DEF v
  <2>4. /\ v.search = [u.search EXCEPT ![side] = NoSearch] /\ v.busy = u.busy
        /\ v.group = u.group /\ v.held = u.held /\ v.open = u.open
        /\ v \in [at: {"bulk"}, scenario: {v.scenario}, busy: {v.busy}, open: BOOLEAN, search: {v.search},
                  group: {v.group}, held: {v.held}, selected: {v.selected}, interval: {v.interval}]
    BY <2>1 DEF IsBulkUi
  <2>5. /\ v.search = [x \in BulkSides |-> v.search[x]] /\ v.search[side] = NoSearch
        /\ \A x \in BulkSides \ {side} : v.search[x] = u.search[x]
    BY <2>4 DEF IsBulkUi
  <2> QED
    BY <2>2, <2>4, <2>5 DEF IsBulkUi, Awaited, v
<1>3. CASE ~query /\ ~u.search[side].query
  BY <1>3 DEF BulkTyped
<1> QED
  BY <1>1, <1>2, <1>3

LEMMA EmptyBulkUi ==
  ASSUME NEW u, IsBulkUi(u)
  PROVE  LET e == EmptyBulk(u)
         IN  IsBulkUi(e) /\ Awaited(e) \subseteq Awaited(u) /\ e.held = u.held /\ e.open = u.open
<1> DEFINE t == BulkTyped(u, "sources", FALSE)
           v == BulkTyped(t, "targets", FALSE)
           e == EmptyBulk(u)
<1>1. IsBulkUi(t) /\ Awaited(t) \subseteq Awaited(u) /\ t.held = u.held /\ t.open = u.open
  BY BulkKindsAre, BulkTypedUi
<1> HIDE DEF t
<1>2. IsBulkUi(v) /\ Awaited(v) \subseteq Awaited(t) /\ v.held = t.held /\ v.open = t.open
  BY <1>1, BulkKindsAre, BulkTypedUi
<1> HIDE DEF v
<1>3. e = [v EXCEPT !.group = [side \in BulkSides |-> None], !.selected = {}, !.interval = "allowed"]
  BY DEF EmptyBulk, v, t
<1> HIDE DEF e
<1>4. /\ IsBulkUi(e) /\ e.search = v.search /\ e.busy = v.busy /\ e.held = v.held /\ e.open = v.open
  BY <1>2, <1>3 DEF IsBulkUi
<1> QED
  BY <1>1, <1>2, <1>4 DEF Awaited, e

\* What the user does without a request.
LEMMA BulkShow ==
  ASSUME BulkInv, NEW u, IsBulkUi(u), Awaited(u) \subseteq Awaited(ui), u.group = ui.group, u.held = ui.held, Show(u)
  PROVE  BulkInv'
<1>1. ui' = u /\ net' = net /\ srv' = srv
  BY DEF Show
<1>2. BulkState(u, srv, net)
  BY BulkKept DEF BulkInv, BulkState
<1> QED
  BY <1>1, <1>2 DEF BulkInv

LEMMA BulkServe ==
  ASSUME BulkInv, NEW kind \in BulkKinds, NEW q \in net[kind], NEW s, NEW ans,
         IsBulkSrv(s), srv.adds \subseteq s.adds, Serve(kind, q, s, ans),
         kind = "held" => ans = Failed \/ ans \subseteq AddedTo(srv, q.arg)
  PROVE  BulkInv'
<1>1. ui' = ui /\ srv' = s /\ net' = Executed(net, kind, q, ans)
  BY DEF Serve
<1>2. BulkState(ui, srv, net')
  BY <1>1, BulkExecuted DEF BulkInv
<1>3. BulkState(ui, s, net')
  BY <1>2, BulkKept DEF BulkState
<1> QED
  BY <1>1, <1>3 DEF BulkInv

LEMMA BulkTake ==
  ASSUME BulkInv, NEW kind \in BulkKinds, NEW q \in net[kind], NEW u, IsBulkUi(u),
         u.busy = ui.busy, Awaited(u) = Awaited(ui), u.group = ui.group,
         Take(kind, q, u),
         IF kind = "held" /\ q.live THEN u.held \subseteq AddedTo(srv, ui.group["targets"])
         ELSE u.held = ui.held \/ u.held = {}
  PROVE  BulkInv'
<1>1. ui' = Free(u, q.ops) /\ net' = Taking(net, kind, q) /\ srv' = srv
  BY DEF Take
<1> DEFINE v == Free(u, q.ops)
<1>2. /\ IsBulkUi(v) /\ v.busy = u.busy \ q.ops /\ v.search = u.search
      /\ v.group = u.group /\ v.held = u.held
  BY BulkFlags
<1> HIDE DEF v
<1>3. \A op \in Awaited(v) : op \in Awaited(ui) /\ ~(q.live /\ op \in q.ops)
  <2>1. Awaited(v) = Awaited(u) \ q.ops
    BY <1>2 DEF Awaited
  <2> QED
    BY <2>1
<1>4. BulkState(v, srv, Taking(net, kind, q))
  BY <1>2, <1>3, BulkTaking DEF BulkInv
<1> QED
  BY <1>1, <1>4 DEF BulkInv, v

\* The effect on the target: nobody is held when there is none, and a look-up for
\* another that is chosen is in flight.
LEMMA RetargetedStep ==
  ASSUME BulkInv, NEW u, IsBulkUi(u), Awaited(u) \subseteq Awaited(ui), u.held = ui.held, Retargeted(u)
  PROVE  BulkInv'
<1> DEFINE g == u.group["targets"]
           m == Cancelled(net, "held")
           w == [u EXCEPT !.held = {}]
<1>1. /\ IF g = None THEN ui' = w ELSE ui' = u
      /\ srv' = srv
      /\ g = ui.group["targets"] => net' = net
      /\ g # ui.group["targets"] /\ g = None => net' = m
      /\ g # ui.group["targets"] /\ g # None => net' = Sending(m, "held", {}, g)
  BY DEF Retargeted
<1>2. IsBulkUi(w) /\ w.held = {} /\ w.group = u.group /\ Awaited(w) = Awaited(u)
  BY DEF IsBulkUi, Awaited
<1>3. BulkRequests(g, srv, m) /\ AllInFlight(Awaited(ui), m) /\ IsBulkSrv(srv)
  BY BulkCancelled DEF BulkInv, BulkState, BulkRequests
<1> HIDE DEF m, w
<1>4. /\ IsBulkUi(ui') /\ ui'.group["targets"] = g /\ Awaited(ui') \subseteq Awaited(ui)
      /\ ui'.held \subseteq ui.held /\ (g = None => ui'.held = {})
  BY <1>1, <1>2
<1> HIDE DEF g
<1>5. CASE g = ui.group["targets"]
  <2>1. BulkState(ui', srv, net)
    BY <1>3, <1>4, <1>5, BulkKept DEF BulkInv
  <2> QED
    BY <1>1, <1>5, <2>1 DEF BulkInv
<1>6. CASE g # ui.group["targets"] /\ g = None
  <2>1. net' = m
    BY <1>1, <1>6
  <2>2. HeldOfTarget(g, ui'.held, srv, net')
    BY <1>4, <1>6 DEF HeldOfTarget
  <2>3. AllInFlight(Awaited(ui'), net')
    BY <1>3, <1>4, <2>1, EndsFewer
  <2> QED
    BY <1>1, <1>3, <1>4, <2>1, <2>2, <2>3 DEF BulkInv, BulkState
<1>7. CASE g # ui.group["targets"] /\ g # None
  <2> DEFINE n == Sending(m, "held", {}, g)
             r == Request({}, g)
  <2>1. IsNet(m, BulkKinds) /\ "held" \in BulkKinds
    BY <1>3, BulkKindsAre DEF BulkRequests
  <2>2. IsNet(n, BulkKinds) /\ n["held"] = m["held"] \cup {r}
    BY <2>1, SendingNet
  <2>3. HeldRequest(g, srv, r) /\ r.live
    BY RequestFields DEF HeldRequest
  <2>4. AllInFlight(Awaited(ui'), n)
    BY <1>3, <1>4, <2>1, EndsSent
  <2> HIDE DEF n, r
  <2>5. BulkRequests(g, srv, n) /\ HeldOfTarget(g, ui'.held, srv, n)
    BY <1>3, <2>2, <2>3 DEF BulkRequests, HeldOfTarget
  <2>6. net' = n
    BY <1>1, <1>7 DEF n
  <2> QED
    BY <1>1, <1>3, <1>4, <2>4, <2>5, <2>6 DEF BulkInv, BulkState
<1> QED
  BY <1>5, <1>6, <1>7

LEMMA BulkTargetStep ==
  ASSUME BulkInv, ToggleBulk \/ PickBulkGroup
  PROVE  BulkInv'
<1>a. IsBulkUi(ui)
  BY DEF BulkInv, BulkState
<1>1. CASE ToggleBulk
  <2> DEFINE e == EmptyBulk(ui)
             u == [e EXCEPT !.open = ~e.open]
  <2>1. Retargeted(u)
    BY <1>1 DEF ToggleBulk
  <2>2. IsBulkUi(e) /\ Awaited(e) \subseteq Awaited(ui) /\ e.held = ui.held
    BY <1>a, EmptyBulkUi
  <2> HIDE DEF e
  <2>3. IsBulkUi(u) /\ Awaited(u) \subseteq Awaited(ui) /\ u.held = ui.held
    BY <2>2 DEF IsBulkUi, Awaited
  <2> HIDE DEF u
  <2> QED
    BY <2>1, <2>3, RetargetedStep
<1>2. CASE PickBulkGroup
  <2>1. PICK side \in BulkSides : \E g :
          Retargeted([BulkTyped(ui, side, FALSE) EXCEPT
                        !.group[side] = g, !.selected = IF side = "targets" THEN {} ELSE @])
    BY <1>2 DEF PickBulkGroup
  <2>2. PICK g :
          Retargeted([BulkTyped(ui, side, FALSE) EXCEPT
                        !.group[side] = g, !.selected = IF side = "targets" THEN {} ELSE @])
    BY <2>1
  <2> DEFINE t == BulkTyped(ui, side, FALSE)
             u == [t EXCEPT !.group[side] = g, !.selected = IF side = "targets" THEN {} ELSE @]
  <2>3. Retargeted(u)
    BY <2>2
  <2>4. IsBulkUi(t) /\ Awaited(t) \subseteq Awaited(ui) /\ t.held = ui.held
    BY <1>a, BulkTypedUi
  <2> HIDE DEF t
  <2>5. IsBulkUi(u) /\ u.search = t.search /\ u.busy = t.busy /\ u.held = t.held
    BY <2>4 DEF IsBulkUi
  <2> HIDE DEF u
  <2>6. Awaited(u) \subseteq Awaited(ui)
    BY <2>4, <2>5 DEF Awaited
  <2> QED
    BY <2>3, <2>4, <2>5, <2>6, RetargetedStep
<1> QED
  BY <1>1, <1>2

LEMMA BulkFormStep ==
  ASSUME BulkInv, TypeBulkGroup \/ BulkGroupTimer \/ EditBulk \/ SaveBulk
  PROVE  BulkInv'
<1>a. IsBulkUi(ui)
  BY DEF BulkInv, BulkState
<1>1. CASE TypeBulkGroup
  <2>1. PICK side \in BulkSides, query \in BOOLEAN : Show(BulkTyped(ui, side, query))
    BY <1>1 DEF TypeBulkGroup
  <2> DEFINE u == BulkTyped(ui, side, query)
  <2>2. IsBulkUi(u) /\ Awaited(u) \subseteq Awaited(ui) /\ u.group = ui.group /\ u.held = ui.held
    BY <1>a, BulkTypedUi
  <2>3. Show(u)
    BY <2>1
  <2> HIDE DEF u
  <2> QED
    BY <2>2, <2>3, BulkShow
<1>2. CASE BulkGroupTimer
  <2>1. PICK side \in BulkSides :
          /\ ui' = [ui EXCEPT !.search[side].timer = FALSE]
          /\ net' = Sending(net, side, {side}, None) /\ srv' = srv
    BY <1>2 DEF BulkGroupTimer
  <2> DEFINE fired == [ui.search[side] EXCEPT !.timer = FALSE]
  <2>2. ui' = [ui EXCEPT !.search = [ui.search EXCEPT ![side] = fired]]
    BY <2>1
  <2>3. IsSearch(fired)
    BY <1>a DEF IsBulkUi, IsSearch
  <2> HIDE DEF fired
  <2>4. /\ ui'.search = [ui.search EXCEPT ![side] = fired] /\ ui'.busy = ui.busy
        /\ ui'.group = ui.group /\ ui'.held = ui.held
        /\ ui' \in [at: {"bulk"}, scenario: {ui'.scenario}, busy: {ui'.busy}, open: BOOLEAN, search: {ui'.search},
                    group: {ui'.group}, held: {ui'.held}, selected: {ui'.selected}, interval: {ui'.interval}]
    BY <1>a, <2>2 DEF IsBulkUi
  <2>5. /\ ui'.search = [x \in BulkSides |-> ui'.search[x]] /\ ui'.search[side] = fired
        /\ \A x \in BulkSides \ {side} : ui'.search[x] = ui.search[x]
    BY <1>a, <2>4 DEF IsBulkUi
  <2>6. IsBulkUi(ui')
    BY <1>a, <2>3, <2>4, <2>5 DEF IsBulkUi
  <2>7. Awaited(ui') \subseteq Awaited(ui) \cup {side}
    BY <2>4, <2>5 DEF Awaited
  <2>8. BulkState(ui', srv, net')
    BY <2>1, <2>4, <2>6, <2>7, BulkKindsAre, BulkSending DEF BulkInv
  <2> QED
    BY <2>1, <2>8 DEF BulkInv
<1>3. CASE EditBulk
  <2>1. PICK u : /\ Show(u) /\ IsBulkUi(u) /\ u.busy = ui.busy /\ u.search = ui.search
                 /\ u.group = ui.group /\ u.held = ui.held
    <3>1. ASSUME NEW ids
          PROVE  LET u == [ui EXCEPT !.selected = ids]
                 IN  /\ IsBulkUi(u) /\ u.busy = ui.busy /\ u.search = ui.search
                     /\ u.group = ui.group /\ u.held = ui.held
      BY <1>a DEF IsBulkUi
    <3>2. ASSUME NEW interval
          PROVE  LET u == [ui EXCEPT !.interval = interval]
                 IN  /\ IsBulkUi(u) /\ u.busy = ui.busy /\ u.search = ui.search
                     /\ u.group = ui.group /\ u.held = ui.held
      BY <1>a DEF IsBulkUi
    <3>3. CASE \E m \in Members \ ui.held :
                 ui.group["sources"] # None /\ Show([ui EXCEPT !.selected = SymDiff(ui.selected, {m})])
      BY <3>1, <3>3
    <3>4. CASE \E interval \in {"allowed", "less"} : Show([ui EXCEPT !.interval = interval])
      BY <3>2, <3>4
    <3> QED
      BY <1>3, <3>3, <3>4 DEF EditBulk
  <2>2. Awaited(u) = Awaited(ui)
    BY <2>1 DEF Awaited
  <2> QED
    BY <2>1, <2>2, BulkShow
<1>4. CASE SaveBulk
  <2>1. PICK arg : ui' = Busy(ui, {"save"}) /\ net' = Sending(net, "add", {"save"}, arg) /\ srv' = srv
    BY <1>4 DEF SaveBulk, Ask
  <2>2. /\ IsBulkUi(ui') /\ ui'.busy = ui.busy \cup {"save"} /\ ui'.search = ui.search
        /\ ui'.group = ui.group /\ ui'.held = ui.held
    BY <1>a, <2>1, BulkFlags
  <2>3. Awaited(ui') \subseteq Awaited(ui) \cup {"save"}
    BY <2>2 DEF Awaited
  <2>4. BulkState(ui', srv, net')
    BY <2>1, <2>2, <2>3, BulkSending DEF BulkInv
  <2> QED
    BY <2>1, <2>4 DEF BulkInv
<1> QED
  BY <1>1, <1>2, <1>3, <1>4

LEMMA BulkServerStep ==
  ASSUME BulkInv, ServeBulkGroups \/ ServeBulkHeld \/ ServeBulk \/ BulkWorks
  PROVE  BulkInv'
<1>a. IsBulkUi(ui) /\ IsBulkSrv(srv)
  BY DEF BulkInv, BulkState
<1>1. CASE ServeBulkGroups
  <2>1. PICK side \in BulkSides : \E q \in net[side] : Serve(side, q, srv, Targets)
    BY <1>1, PageRequests DEF ServeBulkGroups
  <2>2. side \in BulkKinds /\ side # "held"
    BY BulkKindsAre
  <2> QED
    BY <1>a, <2>1, <2>2, BulkServe
<1>2. CASE ServeBulkHeld
  <2>1. PICK q \in net["held"] : Serve("held", q, srv, HeldOf(q.arg))
    BY <1>2, PageRequests DEF ServeBulkHeld
  <2>2. HeldOf(q.arg) \subseteq AddedTo(srv, q.arg)
    BY <1>a DEF HeldOf, AddedTo, IsBulkSrv
  <2> QED
    BY <1>a, BulkKindsAre, <2>1, <2>2, BulkServe
<1>3. CASE ServeBulk
  <2>1. PICK q \in net["add"] :
          Serve("add", q, [adds |-> srv.adds \cup {q.arg}, working |-> srv.working \cup {q.arg}], "ok")
    BY <1>3, PageRequests DEF ServeBulk
  <2> DEFINE s == [adds |-> srv.adds \cup {q.arg}, working |-> srv.working \cup {q.arg}]
  <2>2. IsBulkSrv(s) /\ srv.adds \subseteq s.adds
    BY <1>a DEF IsBulkSrv
  <2>3. Serve("add", q, s, "ok")
    BY <2>1
  <2> HIDE DEF s
  <2> QED
    BY BulkKindsAre, <2>2, <2>3, BulkServe
<1>4. CASE BulkWorks
  <2>1. PICK add \in srv.working : srv' = [srv EXCEPT !.working = @ \ {add}]
    BY <1>4 DEF BulkWorks
  <2>2. ui' = ui /\ net' = net
    BY <1>4 DEF BulkWorks
  <2>3. IsBulkSrv(srv') /\ srv'.adds = srv.adds
    BY <1>a, <2>1 DEF IsBulkSrv
  <2>4. BulkState(ui, srv', net)
    BY <1>a, <2>3, BulkKept DEF BulkInv
  <2> QED
    BY <2>2, <2>4 DEF BulkInv
<1> QED
  BY <1>1, <1>2, <1>3, <1>4

LEMMA BulkTakeStep ==
  ASSUME BulkInv, BulkGroupsArrive \/ BulkHeldArrives \/ BulkSaved
  PROVE  BulkInv'
<1>a. IsBulkUi(ui)
  BY DEF BulkInv, BulkState
<1>1. CASE BulkGroupsArrive
  <2>1. PICK side \in BulkSides : \E q \in Answers("bulk", side) :
          Take(side, q, [ui EXCEPT !.search[side].found = IF Refused(q) THEN {} ELSE q.ans])
    BY <1>1 DEF BulkGroupsArrive
  <2>2. PICK q \in net[side] :
          Take(side, q, [ui EXCEPT !.search[side].found = IF Refused(q) THEN {} ELSE q.ans])
    BY <2>1, PageRequests
  <2> DEFINE found == IF Refused(q) THEN {} ELSE q.ans
             listed == [ui.search[side] EXCEPT !.found = found]
             u == [ui EXCEPT !.search = [ui.search EXCEPT ![side] = listed]]
  <2>3. Take(side, q, u)
    BY <2>2
  <2> HIDE DEF found
  <2>4. IsSearch(listed) /\ listed.timer = ui.search[side].timer /\ listed.query = ui.search[side].query
    BY <1>a DEF IsBulkUi, IsSearch
  <2> HIDE DEF listed
  <2>5. /\ u.search = [ui.search EXCEPT ![side] = listed] /\ u.busy = ui.busy
        /\ u.group = ui.group /\ u.held = ui.held
        /\ u \in [at: {"bulk"}, scenario: {u.scenario}, busy: {u.busy}, open: BOOLEAN, search: {u.search},
                  group: {u.group}, held: {u.held}, selected: {u.selected}, interval: {u.interval}]
    BY <1>a DEF IsBulkUi
  <2> HIDE DEF u
  <2>6. /\ u.search = [x \in BulkSides |-> u.search[x]] /\ u.search[side] = listed
        /\ \A x \in BulkSides \ {side} : u.search[x] = ui.search[x]
    BY <1>a, <2>5 DEF IsBulkUi
  <2>7. IsBulkUi(u)
    BY <1>a, <2>4, <2>5, <2>6 DEF IsBulkUi
  <2>8. Awaited(u) = Awaited(ui)
    BY <2>4, <2>5, <2>6 DEF Awaited
  <2>9. side \in BulkKinds /\ side # "held"
    BY BulkKindsAre
  <2> QED
    BY <2>3, <2>5, <2>7, <2>8, <2>9, BulkTake
<1>2. CASE BulkHeldArrives
  <2>1. PICK q \in Answered("bulk", "held") :
          /\ q.live \/ Refused(q)
          /\ Take("held", q, [ui EXCEPT !.held = IF Refused(q) THEN {} ELSE q.ans])
    BY <1>2 DEF BulkHeldArrives
  <2> DEFINE held == IF Refused(q) THEN {} ELSE q.ans
             u == [ui EXCEPT !.held = held]
  <2>2. q \in net["held"] /\ HeldRequest(ui.group["targets"], srv, q) /\ q.ans # None
    BY PageRequests DEF BulkInv, BulkState, BulkRequests
  <2>3. IF q.live THEN held \subseteq AddedTo(srv, ui.group["targets"]) ELSE held = {}
    BY <2>1, <2>2 DEF HeldRequest, Refused
  <2>4. Take("held", q, u)
    BY <2>1
  <2> HIDE DEF held
  <2>5. IsBulkUi(u) /\ u.busy = ui.busy /\ u.search = ui.search /\ u.group = ui.group /\ u.held = held
    BY <1>a DEF IsBulkUi
  <2> HIDE DEF u
  <2>6. Awaited(u) = Awaited(ui)
    BY <2>5 DEF Awaited
  <2> QED
    BY BulkKindsAre, <2>2, <2>3, <2>4, <2>5, <2>6, BulkTake
<1>3. CASE BulkSaved
  <2>1. PICK q \in net["add"] :
          IF Refused(q) THEN Take("add", q, ui)
          ELSE /\ ui' = Free([EmptyBulk(ui) EXCEPT !.open = FALSE, !.held = {}], q.ops)
               /\ net' = Cancelled(Taking(net, "add", q), "held")
               /\ UNCHANGED srv
    BY <1>3, PageRequests DEF BulkSaved
  <2>2. CASE Refused(q)
    BY <1>a, BulkKindsAre, <2>1, <2>2, BulkTake
  <2>3. CASE ~Refused(q)
    <3> DEFINE e == EmptyBulk(ui)
               u == [e EXCEPT !.open = FALSE, !.held = {}]
               n == Taking(net, "add", q)
               f == Free(ui, q.ops)
    <3>1. ui' = Free(u, q.ops) /\ net' = Cancelled(n, "held") /\ srv' = srv
      BY <2>1, <2>3
    <3>2. IsBulkUi(e) /\ Awaited(e) \subseteq Awaited(ui)
      BY <1>a, EmptyBulkUi
    <3> HIDE DEF e
    <3>3. IsBulkUi(u) /\ Awaited(u) \subseteq Awaited(ui) /\ u.held = {}
      BY <3>2 DEF IsBulkUi, Awaited
    <3> HIDE DEF u
    <3>4. /\ IsBulkUi(f) /\ f.busy = ui.busy \ q.ops /\ f.search = ui.search
          /\ f.group = ui.group /\ f.held = ui.held
      BY <1>a, BulkFlags
    <3>5. /\ IsBulkUi(ui') /\ ui'.busy = u.busy \ q.ops /\ ui'.search = u.search /\ ui'.held = {}
      BY <3>1, <3>3, BulkFlags
    <3> HIDE DEF f
    <3>6. Awaited(f) = Awaited(ui) \ q.ops /\ Awaited(ui') = Awaited(u) \ q.ops
      BY <3>4, <3>5 DEF Awaited
    <3>7. BulkState(f, srv, n)
      BY BulkKindsAre, <3>4, <3>6, BulkTaking DEF BulkInv
    <3> HIDE DEF n
    <3>8. BulkRequests(ui'.group["targets"], srv, net') /\ AllInFlight(Awaited(f), net')
      BY <3>1, <3>7, BulkCancelled
    <3>9. AllInFlight(Awaited(ui'), net') /\ HeldOfTarget(ui'.group["targets"], ui'.held, srv, net')
      BY <3>3, <3>5, <3>6, <3>8, EndsFewer DEF HeldOfTarget
    <3> QED
      BY <3>1, <3>5, <3>8, <3>9 DEF BulkInv, BulkState
  <2> QED
    BY <2>2, <2>3
<1> QED
  BY <1>1, <1>2, <1>3

-----------------------------------------------------------------------------
LEMMA BulkInit == ASSUME NEW scenario, BulkStart(scenario) PROVE BulkInv
<1>1. IsNet(net, BulkKinds) /\ net["held"] = {}
  BY DEF BulkStart, IsNet, BulkKinds
<1>2. IsBulkUi(ui) /\ ui.held = {} /\ ui.busy = {} /\ IsBulkSrv(srv)
  BY DEF BulkStart, IsBulkUi, IsBulkSrv, IsSearch, NoSearch
<1> QED
  BY <1>1, <1>2 DEF BulkInv, BulkState, BulkRequests, HeldOfTarget, AllInFlight, Awaited

LEMMA BulkInvNext ==
  ASSUME BulkInv, [BulkNext \/ Discard \/ Fail]_vars
  PROVE  BulkInv'
<1>a. IsNet(net, BulkKinds) /\ IsBulkUi(ui)
  BY DEF BulkInv, BulkState, BulkRequests
<1>1. CASE UNCHANGED vars
  BY <1>1 DEF BulkInv, vars
<1>2. CASE Discard
  <2>1. PICK kind \in BulkKinds : \E q \in net[kind] : ~q.live /\ net' = Taking(net, kind, q)
    BY <1>2, <1>a, DiscardedRequest
  <2>2. PICK q \in net[kind] : ~q.live /\ net' = Taking(net, kind, q)
    BY <2>1
  <2>3. ui' = ui /\ srv' = srv
    BY <1>2, <1>a, DiscardedRequest
  <2>4. BulkState(ui, srv, net')
    BY <1>a, <2>2, BulkTaking DEF BulkInv
  <2> QED
    BY <2>3, <2>4 DEF BulkInv
<1>3. CASE Fail
  <2>1. PICK kind \in BulkKinds : \E q \in net[kind] : net' = Executed(net, kind, q, Failed)
    BY <1>3, <1>a, FailedRequest
  <2>2. PICK q \in net[kind] : net' = Executed(net, kind, q, Failed)
    BY <2>1
  <2>3. ui' = ui /\ srv' = srv
    BY <1>3, <1>a, FailedRequest
  <2>4. BulkState(ui, srv, net')
    BY <2>2, BulkExecuted DEF BulkInv
  <2> QED
    BY <2>3, <2>4 DEF BulkInv
<1> QED
  BY <1>1, <1>2, <1>3, BulkTargetStep, BulkFormStep, BulkServerStep, BulkTakeStep DEF BulkNext

\* What is busy without a request is a search that the code leaves loading.
LEMMA BulkInvEnds ==
  ASSUME BulkInv
  PROVE  ControlsEndBut(BulkSearchesLast)
  BY DEF BulkInv, BulkState, AllInFlight, Awaited, InFlight, ControlsEndBut, BulkSearchesLast

-----------------------------------------------------------------------------
(* The form that sends messages to claimed members *)

IsSendUi(u) ==
  u \in [at: {"send"}, busy: {u.busy}, open: BOOLEAN, source: {u.source}, target: {u.target},
         groups: BOOLEAN, selected: {u.selected}, summary: {u.summary}]

Confirmed(job) == job.ids \subseteq job.confirmed

IsSendSrv(s) ==
  /\ s \in [claim: {s.claim}, checked: {s.checked}, jobs: {s.jobs}, sent: {s.sent}]
  /\ \A job \in s.checked \cup s.jobs : Confirmed(job)

\* What was claimed is some of what a claim asked for, and what is sent for goes to
\* members that the summary named.
SendRequest(kind, q) ==
  CASE kind = "claim" -> q.ans \in {None, Failed} \/ q.ans \subseteq q.arg.ids
    [] kind = "send" -> Confirmed(q.arg)
    [] OTHER -> TRUE

SendRequests(n) ==
  IsNet(n, SendKinds) /\ \A kind \in SendKinds : \A q \in n[kind] : SendRequest(kind, q)

(***************************************************************************)
(* SentAsConfirmed is not inductive: a job is the argument of a request,   *)
(* checked by the server before, which was made of the answer to the one   *)
(* before it.  The form is in none of the three conditions, so it may      *)
(* change meanwhile as it likes.                                           *)
(***************************************************************************)
SendInv == IsSendUi(ui) /\ IsSendSrv(srv) /\ SendRequests(net) /\ ControlsEnd

LEMMA SendFlags ==
  ASSUME NEW u, IsSendUi(u), NEW S
  PROVE  /\ IsSendUi(Busy(u, S)) /\ Busy(u, S).busy = u.busy \cup S
         /\ IsSendUi(Free(u, S)) /\ Free(u, S).busy = u.busy \ S
  BY DEF IsSendUi, Busy, Free

\* A request that is sent has no answer yet.
LEMMA SendSending ==
  ASSUME NEW n, SendRequests(n), NEW kind \in SendKinds, NEW ops, NEW arg,
         kind = "send" => Confirmed(arg)
  PROVE  SendRequests(Sending(n, kind, ops, arg))
<1> DEFINE m == Sending(n, kind, ops, arg)
<1>1. /\ IsNet(m, SendKinds) /\ m[kind] = n[kind] \cup {Request(ops, arg)}
      /\ \A k \in SendKinds \ {kind} : m[k] = n[k]
  BY SendingNet DEF SendRequests
<1>2. SendRequest(kind, Request(ops, arg))
  BY RequestFields DEF SendRequest
<1> HIDE DEF m
<1>3. \A k \in SendKinds : \A q \in m[k] : SendRequest(k, q)
  BY <1>1, <1>2 DEF SendRequests
<1> QED
  BY <1>1, <1>3 DEF SendRequests, m

LEMMA SendExecuted ==
  ASSUME NEW n, SendRequests(n), NEW kind \in SendKinds, NEW q \in n[kind], NEW ans,
         kind = "claim" => ans = Failed \/ ans \subseteq q.arg.ids
  PROVE  SendRequests(Executed(n, kind, q, ans))
<1> DEFINE m == Executed(n, kind, q, ans)
           r == [q EXCEPT !.ans = ans]
<1>1. /\ IsNet(m, SendKinds) /\ m[kind] = (n[kind] \ {q}) \cup {r}
      /\ \A k \in SendKinds \ {kind} : m[k] = n[k]
  BY ExecutedNet DEF SendRequests
<1>2. r.arg = q.arg /\ r.ans = ans
  BY AnsweredFields DEF SendRequests, IsNet
<1> HIDE DEF m, r
<1>3. SendRequest(kind, q)
  BY DEF SendRequests
<1>4. SendRequest(kind, r)
  BY <1>2, <1>3 DEF SendRequest
<1>5. \A k \in SendKinds : \A p \in m[k] : SendRequest(k, p)
  BY <1>1, <1>4 DEF SendRequests
<1> QED
  BY <1>1, <1>5 DEF SendRequests, m

LEMMA SendTaking ==
  ASSUME NEW n, SendRequests(n), NEW kind \in SendKinds, NEW q
  PROVE  SendRequests(Taking(n, kind, q))
<1> DEFINE m == Taking(n, kind, q)
<1>1. /\ IsNet(m, SendKinds) /\ m[kind] = n[kind] \ {q}
      /\ \A k \in SendKinds \ {kind} : m[k] = n[k]
  BY TakingNet DEF SendRequests
<1> HIDE DEF m
<1>2. \A k \in SendKinds : \A p \in m[k] : SendRequest(k, p)
  BY <1>1 DEF SendRequests
<1> QED
  BY <1>1, <1>2 DEF SendRequests, m

LEMMA SendShow ==
  ASSUME SendInv, NEW u, IsSendUi(u), u.busy = ui.busy, Show(u)
  PROVE  SendInv'
<1>1. ui' = u /\ net' = net /\ srv' = srv
  BY DEF Show
<1>2. ControlsEnd'
  BY <1>1, ShownEnds DEF SendInv
<1> QED
  BY <1>1, <1>2 DEF SendInv

LEMMA SendAsk ==
  ASSUME SendInv, NEW kind \in SendKinds \ {"send"}, NEW op, NEW arg, Ask(ui, op, kind, arg)
  PROVE  SendInv'
<1>1. ui' = Busy(ui, {op}) /\ net' = Sending(net, kind, {op}, arg) /\ srv' = srv
  BY DEF Ask
<1>2. IsSendUi(ui') /\ ui'.busy = ui.busy \cup {op}
  BY <1>1, SendFlags DEF SendInv
<1>3. SendRequests(net')
  BY <1>1, SendSending DEF SendInv
<1>4. ControlsEnd'
  BY <1>1, <1>2, SentEnds DEF SendInv, SendRequests
<1> QED
  BY <1>1, <1>2, <1>3, <1>4 DEF SendInv

LEMMA SendServe ==
  ASSUME SendInv, NEW kind \in SendKinds, NEW q \in net[kind], NEW s, IsSendSrv(s), NEW ans,
         Serve(kind, q, s, ans), kind = "claim" => ans \subseteq q.arg.ids
  PROVE  SendInv'
<1>1. ui' = ui /\ srv' = s /\ net' = Executed(net, kind, q, ans)
  BY DEF Serve
<1>2. SendRequests(net')
  BY <1>1, SendExecuted DEF SendInv
<1>3. ControlsEnd'
  BY <1>1, ExecutedEnds DEF SendInv, SendRequests
<1> QED
  BY <1>1, <1>2, <1>3 DEF SendInv

LEMMA SendTake ==
  ASSUME SendInv, NEW kind \in SendKinds, NEW q \in net[kind], NEW u, IsSendUi(u),
         u.busy = ui.busy, Take(kind, q, u)
  PROVE  SendInv'
<1>1. ui' = Free(u, q.ops) /\ net' = Taking(net, kind, q) /\ srv' = srv
  BY DEF Take
<1>2. IsSendUi(ui') /\ ui'.busy = ui.busy \ q.ops
  BY <1>1, SendFlags
<1>3. SendRequests(net')
  BY <1>1, SendTaking DEF SendInv
<1>4. ControlsEnd'
  BY <1>1, <1>2, TakenEnds DEF SendInv, SendRequests
<1> QED
  BY <1>1, <1>2, <1>3, <1>4 DEF SendInv

\* What the form does to its own fields.
LEMMA SendUi ==
  ASSUME NEW u, IsSendUi(u), NEW ids, NEW summary
  PROVE  /\ LET v == [u EXCEPT !.selected = ids] IN IsSendUi(v) /\ v.busy = u.busy
         /\ LET v == [u EXCEPT !.groups = TRUE] IN IsSendUi(v) /\ v.busy = u.busy
         /\ LET v == [u EXCEPT !.summary = summary] IN IsSendUi(v) /\ v.busy = u.busy
         /\ LET v == [u EXCEPT !.open = ~@] IN IsSendUi(v) /\ v.busy = u.busy
         /\ IsSendUi(EmptySend(u)) /\ EmptySend(u).busy = u.busy
  BY DEF IsSendUi, EmptySend

-----------------------------------------------------------------------------
LEMMA SendFormStep ==
  ASSUME SendInv, ToggleForm \/ EditSend \/ Prepare \/ ConfirmSend
  PROVE  SendInv'
<1>a. IsSendUi(ui)
  BY DEF SendInv
<1>b. {"preflight", "claim", "post"} \subseteq SendKinds \ {"send"}
  BY DEF SendKinds
<1>1. CASE ToggleForm
  <2> DEFINE e == EmptySend(ui)
  <2>1. Show([e EXCEPT !.open = ~@])
    BY <1>1 DEF ToggleForm
  <2>2. IsSendUi(e) /\ e.busy = ui.busy
    BY <1>a, SendUi
  <2> HIDE DEF e
  <2> QED
    BY <2>1, <2>2, SendUi, SendShow
<1>2. CASE EditSend
  <2>1. CASE \E g : Show([ui EXCEPT !.source = g, !.selected = {}])
    <3>1. PICK g : Show([ui EXCEPT !.source = g, !.selected = {}])
      BY <2>1
    <3> DEFINE v == [ui EXCEPT !.source = g, !.selected = {}]
    <3>2. IsSendUi(v) /\ v.busy = ui.busy
      BY <1>a DEF IsSendUi
    <3> QED
      BY <3>1, <3>2, SendShow
  <2>2. CASE \E ids : Show([ui EXCEPT !.selected = ids])
    BY <1>a, <2>2, SendUi, SendShow
  <2>3. CASE Show([ui EXCEPT !.groups = TRUE])
    BY <1>a, <2>3, SendUi, SendShow
  <2>4. CASE \E target : Show([ui EXCEPT !.target = target, !.summary = None])
    <3>1. PICK target : Show([ui EXCEPT !.target = target, !.summary = None])
      BY <2>4
    <3> DEFINE v == [ui EXCEPT !.target = target, !.summary = None]
    <3>2. IsSendUi(v) /\ v.busy = ui.busy
      BY <1>a DEF IsSendUi
    <3> QED
      BY <3>1, <3>2, SendShow
  <2> QED
    BY <1>2, <2>1, <2>2, <2>3, <2>4 DEF EditSend
<1>3. CASE Prepare
  BY <1>3, <1>b, SendAsk DEF Prepare
<1>4. CASE ConfirmSend
  BY <1>4, <1>b, SendAsk DEF ConfirmSend
<1> QED
  BY <1>1, <1>2, <1>3, <1>4

\* The server claims some of the members it is asked to, and creates jobs for members
\* that were confirmed.
LEMMA SendServerStep ==
  ASSUME SendInv, ServePreflight \/ ServeSendClaim \/ CheckSend \/ CreateSend \/ ServePost \/ SendWorld
  PROVE  SendInv'
<1>a. IsSendSrv(srv)
  BY DEF SendInv
<1>b. {"preflight", "claim", "send", "post"} \subseteq SendKinds
  BY DEF SendKinds
<1>1. CASE ServePreflight
  BY <1>1, <1>a, <1>b, PageRequests, SendServe DEF ServePreflight
<1>2. CASE ServeSendClaim
  <2>1. PICK q \in net["claim"] :
          Serve("claim", q, [srv EXCEPT !.claim = WithClaims(srv.claim, q.arg.ids)], Mine(q.arg.ids))
    BY <1>2, PageRequests DEF ServeSendClaim
  <2>2. Mine(q.arg.ids) \subseteq q.arg.ids
    BY DEF Mine
  <2> DEFINE claim == WithClaims(srv.claim, q.arg.ids)
             s == [srv EXCEPT !.claim = claim]
  <2>3. Serve("claim", q, s, Mine(q.arg.ids))
    BY <2>1
  <2> HIDE DEF claim
  <2>4. IsSendSrv(s)
    BY <1>a DEF IsSendSrv
  <2> HIDE DEF s
  <2> QED
    BY <1>b, <2>2, <2>3, <2>4, SendServe
<1>3. CASE CheckSend
  <2>1. PICK q \in net["send"] :
          \/ srv' = [srv EXCEPT !.checked = @ \cup {q.arg}] /\ ui' = ui /\ net' = net
          \/ Serve("send", q, srv, "conflicts")
    BY <1>3, PageRequests DEF CheckSend
  <2>2. SendRequest("send", q)
    BY <1>b DEF SendInv, SendRequests
  <2>3. Confirmed(q.arg)
    BY <2>2 DEF SendRequest
  <2>4. CASE srv' = [srv EXCEPT !.checked = @ \cup {q.arg}] /\ ui' = ui /\ net' = net
    <3>1. IsSendSrv(srv')
      BY <1>a, <2>3, <2>4 DEF IsSendSrv
    <3>2. ControlsEnd'
      BY <2>4, ShownEnds DEF SendInv
    <3> QED
      BY <2>4, <3>1, <3>2 DEF SendInv
  <2>5. CASE Serve("send", q, srv, "conflicts")
    BY <1>a, <1>b, <2>5, SendServe
  <2> QED
    BY <2>1, <2>4, <2>5
<1>6. CASE CreateSend
  <2>1. PICK job \in srv.checked :
          /\ srv' = [srv EXCEPT !.checked = @ \ {job}, !.jobs = @ \cup {job}]
          /\ (\E q \in net["send"] : net' = Executed(net, "send", q, "ok")) \/ net' = net
    BY <1>6, PageRequests DEF CreateSend
  <2>2. ui' = ui
    BY <1>6 DEF CreateSend
  <2>3. IsSendSrv(srv')
    BY <1>a, <2>1 DEF IsSendSrv
  <2>4. CASE net' = net
    BY <2>2, <2>3, <2>4, ShownEnds DEF SendInv
  <2>5. CASE \E q \in net["send"] : net' = Executed(net, "send", q, "ok")
    <3>1. PICK q \in net["send"] : net' = Executed(net, "send", q, "ok")
      BY <2>5
    <3>2. SendRequests(net')
      BY <1>b, <3>1, SendExecuted DEF SendInv
    <3>3. ControlsEnd'
      BY <1>b, <2>2, <3>1, ExecutedEnds DEF SendInv, SendRequests
    <3> QED
      BY <2>2, <2>3, <3>2, <3>3 DEF SendInv
  <2> QED
    BY <2>1, <2>4, <2>5
<1>4. CASE ServePost
  BY <1>4, <1>a, <1>b, PageRequests, SendServe DEF ServePost
<1>5. CASE SendWorld
  <2>1. ui' = ui /\ net' = net
    BY <1>5 DEF SendWorld
  <2>2. IsSendSrv(srv')
    <3>1. CASE \E claim, sent : \E job \in srv.jobs :
                 srv' = [srv EXCEPT !.jobs = @ \ {job}, !.sent = sent, !.claim = claim]
      BY <1>a, <3>1 DEF IsSendSrv
    <3>2. CASE \E claim : srv' = [srv EXCEPT !.claim = claim]
      BY <1>a, <3>2 DEF IsSendSrv
    <3> QED
      BY <1>5, <3>1, <3>2 DEF SendWorld
  <2>3. ControlsEnd'
    BY <2>1, ShownEnds DEF SendInv
  <2> QED
    BY <2>1, <2>2, <2>3 DEF SendInv
<1> QED
  BY <1>1, <1>2, <1>3, <1>4, <1>5, <1>6

LEMMA SendTakeStep ==
  ASSUME SendInv, PreflightArrives \/ SendClaimArrives \/ SendArrives
  PROVE  SendInv'
<1>a. IsSendUi(ui)
  BY DEF SendInv
<1>b. {"preflight", "claim", "send", "post"} \subseteq SendKinds
  BY DEF SendKinds
<1>1. CASE PreflightArrives
  <2>1. PICK q \in net["preflight"] :
          Take("preflight", q, IF Refused(q) THEN ui ELSE [ui EXCEPT !.summary = q.ans])
    BY <1>1, PageRequests DEF PreflightArrives
  <2> QED
    BY <1>a, <1>b, <2>1, SendUi, SendTake
<1>2. CASE SendClaimArrives
  <2>1. PICK q \in net["claim"] :
          /\ q.ans # None
          /\ IF Refused(q) \/ q.ans = {}
             THEN Take("claim", q, IF Refused(q) THEN ui ELSE [ui EXCEPT !.summary = None])
             ELSE Further("claim", q, ui, "send", [ids |-> q.ans, confirmed |-> q.arg.ids])
    BY <1>2, PageRequests DEF SendClaimArrives
  <2>2. CASE Refused(q) \/ q.ans = {}
    BY <1>a, <1>b, <2>1, <2>2, SendUi, SendTake
  <2>3. CASE ~(Refused(q) \/ q.ans = {})
    <3> DEFINE arg == [ids |-> q.ans, confirmed |-> q.arg.ids]
               n == Taking(net, "claim", q)
    <3>1. ui' = ui /\ srv' = srv /\ net' = Sending(n, "send", q.ops, arg)
      BY <2>1, <2>3 DEF Further
    <3>2. SendRequest("claim", q)
      BY <1>b DEF SendInv, SendRequests
    <3>3. Confirmed(arg)
      BY <2>1, <2>3, <3>2 DEF SendRequest, Refused, Confirmed
    <3>4. SendRequests(n)
      BY <1>b, SendTaking DEF SendInv
    <3> HIDE DEF arg
    <3>5. ControlsEnd'
      <4>1. \A op \in ui'.busy : op \in q.ops \/ (op \in ui.busy /\ ~(q.live /\ op \in q.ops))
        BY <3>1
      <4> QED
        BY <1>b, <3>1, <4>1, FurtherEnds DEF SendInv, SendRequests
    <3> HIDE DEF n
    <3>6. SendRequests(net')
      BY <1>b, <3>1, <3>3, <3>4, SendSending
    <3> QED
      BY <3>1, <3>5, <3>6 DEF SendInv
  <2> QED
    BY <2>2, <2>3
<1>3. CASE SendArrives
  <2>1. PICK kind \in {"send", "post"} : \E q \in Answers("send", kind) :
          Take(kind, q, CASE q.ans = Failed -> ui
                          [] q.ans = "conflicts" -> [ui EXCEPT !.summary = None]
                          [] OTHER -> EmptySend(ui))
    BY <1>3 DEF SendArrives
  <2>2. PICK q \in net[kind] :
          Take(kind, q, CASE q.ans = Failed -> ui
                          [] q.ans = "conflicts" -> [ui EXCEPT !.summary = None]
                          [] OTHER -> EmptySend(ui))
    BY <2>1, PageRequests
  <2> DEFINE u == CASE q.ans = Failed -> ui
                    [] q.ans = "conflicts" -> [ui EXCEPT !.summary = None]
                    [] OTHER -> EmptySend(ui)
  <2>3. IsSendUi(u) /\ u.busy = ui.busy
    BY <1>a, SendUi
  <2>4. Take(kind, q, u)
    BY <2>2
  <2> HIDE DEF u
  <2> QED
    BY <1>b, <2>3, <2>4, SendTake
<1> QED
  BY <1>1, <1>2, <1>3

-----------------------------------------------------------------------------
LEMMA SendInit == SendStart => SendInv
<1> SUFFICES ASSUME SendStart PROVE SendInv
  OBVIOUS
<1>1. IsNet(net, SendKinds) /\ \A kind \in SendKinds : net[kind] = {}
  BY DEF SendStart, IsNet
<1>2. IsSendUi(ui) /\ ui.busy = {}
  BY DEF SendStart, IsSendUi
<1>3. IsSendSrv(srv)
  BY DEF SendStart, IsSendSrv
<1> QED
  BY <1>1, <1>2, <1>3 DEF SendInv, SendRequests, ControlsEnd, ControlsEndBut

LEMMA SendInvNext ==
  ASSUME SendInv, [SendNext \/ Discard \/ Fail]_vars
  PROVE  SendInv'
<1>a. IsNet(net, SendKinds)
  BY DEF SendInv, SendRequests
<1>1. CASE UNCHANGED vars
  BY <1>1 DEF SendInv, ControlsEnd, ControlsEndBut, vars
<1>2. CASE Discard
  <2>1. PICK kind \in SendKinds : \E q \in net[kind] : ~q.live /\ net' = Taking(net, kind, q)
    BY <1>2, <1>a, DiscardedRequest
  <2>2. PICK q \in net[kind] : ~q.live /\ net' = Taking(net, kind, q)
    BY <2>1
  <2>3. ui' = ui /\ srv' = srv
    BY <1>2, <1>a, DiscardedRequest
  <2>4. SendRequests(net')
    BY <2>2, SendTaking DEF SendInv
  <2>5. ControlsEnd'
    BY <1>a, <2>2, <2>3, TakenEnds DEF SendInv
  <2> QED
    BY <2>3, <2>4, <2>5 DEF SendInv
<1>3. CASE Fail
  <2>1. PICK kind \in SendKinds : \E q \in net[kind] : net' = Executed(net, kind, q, Failed)
    BY <1>3, <1>a, FailedRequest
  <2>2. PICK q \in net[kind] : net' = Executed(net, kind, q, Failed)
    BY <2>1
  <2>3. ui' = ui /\ srv' = srv
    BY <1>3, <1>a, FailedRequest
  <2>4. SendRequests(net')
    BY <2>2, SendExecuted DEF SendInv
  <2>5. ControlsEnd'
    BY <1>a, <2>2, <2>3, ExecutedEnds DEF SendInv
  <2> QED
    BY <2>3, <2>4, <2>5 DEF SendInv
<1> QED
  BY <1>1, <1>2, <1>3, SendFormStep, SendServerStep, SendTakeStep DEF SendNext

-----------------------------------------------------------------------------
(* The picker of members and its automatic claims *)

IsPickerUi(u) ==
  u \in [at: {"picker"}, busy: {u.busy}, source: {u.source}, rows: {u.rows}, held: {u.held},
         selected: {u.selected}, timer: {u.timer}, claimed: {u.claimed}, missed: {u.missed}]

\* Claims, and look-ups of the members held, go on without flags.
PickerRequests(n) == IsNet(n, PickerKinds) /\ \A q \in n["held"] \cup n["claim"] : q.ops = {}

Covered(u, n) ==
  \A m \in u.selected :
    m \in u.timer \cup u.claimed \cup u.missed \/ \E q \in n["claim"] : q.live /\ m \in q.arg.ids

(***************************************************************************)
(* AutoClaimed is not inductive: with the call still in flight it says     *)
(* nothing of whom the call is for, and with the timer running of whom it  *)
(* will be for.  Covered does: whoever is selected is accounted for, or a  *)
(* call in flight asks for them, or the timer will.                        *)
(***************************************************************************)
PickerInv == IsPickerUi(ui) /\ PickerRequests(net) /\ Covered(ui, net) /\ ControlsEnd

LEMMA CoveredKept ==
  ASSUME NEW u, NEW v, NEW n, NEW m, Covered(u, n),
         v.timer = u.timer, v.selected = u.selected,
         u.claimed \cup u.missed \subseteq v.claimed \cup v.missed,
         \A q \in n["claim"] : q.live =>
           \/ \E r \in m["claim"] : r.live /\ r.arg = q.arg
           \/ q.arg.ids \subseteq v.claimed \cup v.missed
  PROVE  Covered(v, m)
  BY DEF Covered

LEMMA PickerFlags ==
  ASSUME NEW u, IsPickerUi(u), NEW S
  PROVE  LET b == Busy(u, S)
             f == Free(u, S)
         IN  /\ IsPickerUi(b) /\ b.busy = u.busy \cup S /\ b.timer = u.timer
             /\ b.selected = u.selected /\ b.claimed = u.claimed /\ b.missed = u.missed
             /\ IsPickerUi(f) /\ f.busy = u.busy \ S /\ f.timer = u.timer
             /\ f.selected = u.selected /\ f.claimed = u.claimed /\ f.missed = u.missed
  BY DEF IsPickerUi, Busy, Free

\* The fields that the search and the look-ups write.
LEMMA PickerShown ==
  ASSUME NEW u, IsPickerUi(u), NEW rows, NEW held
  PROVE  /\ LET v == [u EXCEPT !.rows = rows]
            IN  /\ IsPickerUi(v) /\ v.busy = u.busy /\ v.timer = u.timer
                /\ v.selected = u.selected /\ v.claimed = u.claimed /\ v.missed = u.missed
         /\ LET v == [u EXCEPT !.held = held]
            IN  /\ IsPickerUi(v) /\ v.busy = u.busy /\ v.timer = u.timer
                /\ v.selected = u.selected /\ v.claimed = u.claimed /\ v.missed = u.missed
  BY DEF IsPickerUi

LEMMA PickerSending ==
  ASSUME NEW n, PickerRequests(n), NEW kind \in PickerKinds, NEW ops, NEW arg,
         kind # "rows" => ops = {}
  PROVE  /\ PickerRequests(Sending(n, kind, ops, arg))
         /\ \A k \in PickerKinds : n[k] \subseteq Sending(n, kind, ops, arg)[k]
         /\ Request(ops, arg) \in Sending(n, kind, ops, arg)[kind]
<1> DEFINE m == Sending(n, kind, ops, arg)
<1>0. PickerKinds = {"rows", "held", "claim"}
  BY DEF PickerKinds
<1>1. /\ IsNet(m, PickerKinds) /\ m[kind] = n[kind] \cup {Request(ops, arg)}
      /\ \A k \in PickerKinds \ {kind} : m[k] = n[k]
  BY SendingNet DEF PickerRequests
<1> HIDE DEF m
<1>2. \A q \in m["held"] \cup m["claim"] : q.ops = {}
  BY <1>0, <1>1, RequestFields DEF PickerRequests
<1>3. \A k \in PickerKinds : n[k] \subseteq m[k]
  BY <1>1
<1> QED
  BY <1>1, <1>2, <1>3 DEF PickerRequests, m

\* An answer, and a failure, leave what the claims in flight ask for.
LEMMA PickerExecuted ==
  ASSUME NEW n, PickerRequests(n), NEW kind \in PickerKinds, NEW q \in n[kind], NEW ans,
         NEW m, m = Executed(n, kind, q, ans)
  PROVE  /\ PickerRequests(m)
         /\ \A p \in n["claim"] : p.live => \E r \in m["claim"] : r.live /\ r.arg = p.arg
<1> DEFINE e == [q EXCEPT !.ans = ans]
<1>0. PickerKinds = {"rows", "held", "claim"}
  BY DEF PickerKinds
<1>1. /\ IsNet(m, PickerKinds) /\ m[kind] = (n[kind] \ {q}) \cup {e}
      /\ \A k \in PickerKinds \ {kind} : m[k] = n[k]
  BY ExecutedNet DEF PickerRequests
<1>2. e.ops = q.ops /\ e.arg = q.arg /\ e.live = q.live
  BY AnsweredFields DEF PickerRequests, IsNet
<1> HIDE DEF e
<1>3. \A p \in m["held"] \cup m["claim"] : p.ops = {}
  BY <1>0, <1>1, <1>2 DEF PickerRequests
<1>4. ASSUME NEW p \in n["claim"], p.live
      PROVE  \E r \in m["claim"] : r.live /\ r.arg = p.arg
  <2>1. CASE p = q /\ kind = "claim"
    BY <1>1, <1>2, <1>4, <2>1
  <2>2. CASE ~(p = q /\ kind = "claim")
    BY <1>0, <1>1, <1>4, <2>2
  <2> QED
    BY <2>1, <2>2
<1> QED
  BY <1>1, <1>3, <1>4 DEF PickerRequests

LEMMA PickerTaking ==
  ASSUME NEW n, PickerRequests(n), NEW kind \in PickerKinds, NEW q
  PROVE  /\ PickerRequests(Taking(n, kind, q))
         /\ IF kind = "claim" THEN Taking(n, kind, q)["claim"] = n["claim"] \ {q}
            ELSE Taking(n, kind, q)["claim"] = n["claim"]
<1> DEFINE m == Taking(n, kind, q)
<1>0. PickerKinds = {"rows", "held", "claim"}
  BY DEF PickerKinds
<1>1. /\ IsNet(m, PickerKinds) /\ m[kind] = n[kind] \ {q}
      /\ \A k \in PickerKinds \ {kind} : m[k] = n[k]
  BY TakingNet DEF PickerRequests
<1> HIDE DEF m
<1>2. \A p \in m["held"] \cup m["claim"] : p.ops = {}
  BY <1>0, <1>1 DEF PickerRequests
<1>3. PickerRequests(m)
  BY <1>1, <1>2 DEF PickerRequests
<1> QED
  BY <1>0, <1>1, <1>3 DEF m

\* A look-up that is cancelled was awaited by no control.
LEMMA PickerCancelled ==
  ASSUME NEW n, PickerRequests(n)
  PROVE  /\ PickerRequests(Cancelled(n, "held"))
         /\ \A op : InFlight(n, op) => InFlight(Cancelled(n, "held"), op)
<1> DEFINE m == Cancelled(n, "held")
<1>0. PickerKinds = {"rows", "held", "claim"}
  BY DEF PickerKinds
<1>1. /\ IsNet(m, PickerKinds)
      /\ \A k \in PickerKinds \ {"held"} : m[k] = n[k]
      /\ \A op : InFlight(n, op) => InFlight(m, op) \/ \E q \in n["held"] : q.live /\ op \in q.ops
  BY <1>0, CancelledNet DEF PickerRequests
<1>2. \A r \in m["held"] : \E q \in n["held"] : r.ops = q.ops
  BY <1>0, CancelledRequests DEF PickerRequests
<1> HIDE DEF m
<1>3. \A q \in m["held"] \cup m["claim"] : q.ops = {}
  BY <1>0, <1>1, <1>2 DEF PickerRequests
<1>4. \A op : InFlight(n, op) => InFlight(m, op)
  BY <1>1 DEF PickerRequests
<1>5. PickerRequests(m)
  BY <1>1, <1>3 DEF PickerRequests
<1> QED
  BY <1>4, <1>5 DEF m

-----------------------------------------------------------------------------
\* Nobody is selected for a source that was just chosen.
LEMMA PickSourceStep ==
  ASSUME PickerInv, PickSource
  PROVE  PickerInv'
<1>a. IsPickerUi(ui) /\ PickerRequests(net)
  BY DEF PickerInv
<1>0. PickerKinds = {"rows", "held", "claim"}
  BY DEF PickerKinds
<1> DEFINE n == Cancelled(net, "held")
<1>1. PickerRequests(n) /\ \A op : InFlight(net, op) => InFlight(n, op)
  BY <1>a, PickerCancelled
<1> HIDE DEF n
<1>2. PICK g : LET u == [ui EXCEPT !.source = g, !.selected = {}, !.claimed = {}, !.missed = {}, !.timer = {}]
               IN IF g = None
                  THEN /\ ui' = [u EXCEPT !.rows = {}, !.held = {}]
                       /\ net' = n
                  ELSE /\ ui' = Busy(u, {"rows"})
                       /\ net' = Sending(Sending(n, "held", {}, g), "rows", {"rows"}, g)
  BY DEF PickSource, RowsAsked, n
<1> DEFINE u == [ui EXCEPT !.source = g, !.selected = {}, !.claimed = {}, !.missed = {}, !.timer = {}]
           v == [u EXCEPT !.rows = {}, !.held = {}]
<1>3. IsPickerUi(u) /\ u.busy = ui.busy /\ u.selected = {}
  BY <1>a DEF IsPickerUi
<1>4. \/ g = None /\ ui' = v /\ net' = n
      \/ g # None /\ ui' = Busy(u, {"rows"}) /\ net' = Sending(Sending(n, "held", {}, g), "rows", {"rows"}, g)
  BY <1>2
<1> HIDE DEF u
<1>5. IsPickerUi(v) /\ v.busy = ui.busy /\ v.selected = {}
  BY <1>3 DEF IsPickerUi
<1>6. \A op \in ui.busy : InFlight(n, op)
  BY <1>1, ControlsInFlight DEF PickerInv
<1> HIDE DEF v
<1>7. CASE ui' = v /\ net' = n
  <2>1. ControlsEnd'
    BY <1>5, <1>6, <1>7, ControlsInFlightNext
  <2>2. Covered(ui', net')
    BY <1>5, <1>7 DEF Covered
  <2> QED
    BY <1>1, <1>5, <1>7, <2>1, <2>2 DEF PickerInv
<1>8. CASE /\ ui' = Busy(u, {"rows"})
           /\ net' = Sending(Sending(n, "held", {}, g), "rows", {"rows"}, g)
  <2> DEFINE w == Sending(n, "held", {}, g)
  <2>1. PickerRequests(w)
    BY <1>0, <1>1, PickerSending
  <2>2. \A op : InFlight(n, op) => InFlight(w, op)
    BY <1>0, <1>1, SendingNet DEF PickerRequests
  <2>3. net' = Sending(w, "rows", {"rows"}, g)
    BY <1>8
  <2> HIDE DEF w
  <2>4. PickerRequests(net')
    BY <1>0, <2>1, <2>3, PickerSending
  <2>5. \A op : InFlight(w, op) \/ op \in {"rows"} => InFlight(net', op)
    BY <1>0, <2>1, <2>3, SendingNet DEF PickerRequests
  <2>6. IsPickerUi(ui') /\ ui'.busy = ui.busy \cup {"rows"} /\ ui'.selected = {}
    BY <1>3, <1>8, PickerFlags
  <2>7. ControlsEnd'
    BY <1>6, <2>2, <2>5, <2>6, ControlsInFlightNext
  <2>8. Covered(ui', net')
    BY <2>6 DEF Covered
  <2> QED
    BY <2>4, <2>6, <2>7, <2>8 DEF PickerInv
<1> QED
  BY <1>4, <1>7, <1>8

LEMMA SearchRowsStep ==
  ASSUME PickerInv, SearchRows
  PROVE  PickerInv'
<1>0. PickerKinds = {"rows", "held", "claim"}
  BY DEF PickerKinds
<1>1. ui' = Busy(ui, {"rows"}) /\ net' = Sending(net, "rows", {"rows"}, ui.source)
  BY DEF SearchRows, Ask
<1>2. /\ IsPickerUi(ui') /\ ui'.busy = ui.busy \cup {"rows"} /\ ui'.timer = ui.timer
      /\ ui'.selected = ui.selected /\ ui'.claimed = ui.claimed /\ ui'.missed = ui.missed
  BY <1>1, PickerFlags DEF PickerInv
<1>3. PickerRequests(net') /\ net["claim"] \subseteq net'["claim"]
  BY <1>0, <1>1, PickerSending DEF PickerInv
<1>4. Covered(ui', net')
  BY <1>2, <1>3, CoveredKept DEF PickerInv
<1>5. ControlsEnd'
  BY <1>0, <1>1, <1>2, SentEnds DEF PickerInv, PickerRequests
<1> QED
  BY <1>2, <1>3, <1>4, <1>5 DEF PickerInv

\* Whoever of the selection is not claimed already, the timer is set for.
LEMMA ChangeSelectionStep ==
  ASSUME PickerInv, ChangeSelection
  PROVE  PickerInv'
<1>1. PICK ids : Show(Selected(ui, ids))
  BY DEF ChangeSelection
<1>2. ui' = [ui EXCEPT !.selected = ids, !.timer = ids \ ui.claimed] /\ net' = net
  BY <1>1 DEF Show, Selected
<1>3. /\ IsPickerUi(ui') /\ ui'.busy = ui.busy /\ ui'.selected = ids
      /\ ui'.timer = ids \ ui.claimed /\ ui'.claimed = ui.claimed
  BY <1>2 DEF PickerInv, IsPickerUi
<1>4. Covered(ui', net')
  BY <1>3 DEF Covered
<1>5. ControlsEnd'
  BY <1>2, <1>3, ShownEnds DEF PickerInv
<1> QED
  BY <1>2, <1>3, <1>4, <1>5 DEF PickerInv

\* The call asks for all that the timer was set for.
LEMMA ClaimTimerStep ==
  ASSUME PickerInv, ClaimTimer
  PROVE  PickerInv'
<1>0. PickerKinds = {"rows", "held", "claim"}
  BY DEF PickerKinds
<1> DEFINE arg == [source |-> ui.source, ids |-> ui.timer]
<1>1. ui' = [ui EXCEPT !.timer = {}] /\ net' = Sending(net, "claim", {}, arg)
  BY DEF ClaimTimer
<1>2. arg.ids = ui.timer
  OBVIOUS
<1> HIDE DEF arg
<1>3. /\ IsPickerUi(ui') /\ ui'.busy = ui.busy
      /\ ui'.selected = ui.selected /\ ui'.claimed = ui.claimed /\ ui'.missed = ui.missed
  BY <1>1 DEF PickerInv, IsPickerUi
<1>4. PickerRequests(net') /\ Request({}, arg) \in net'["claim"]
  BY <1>0, <1>1, PickerSending DEF PickerInv
<1>5. Covered(ui', net')
  <2>1. net["claim"] \subseteq net'["claim"]
    BY <1>0, <1>1, PickerSending DEF PickerInv
  <2> QED
    BY <1>2, <1>3, <1>4, <2>1, RequestFields DEF PickerInv, Covered
<1>6. ControlsEnd'
  BY <1>0, <1>1, <1>3, SentEnds DEF PickerInv, PickerRequests
<1> QED
  BY <1>3, <1>4, <1>5, <1>6 DEF PickerInv

LEMMA PickerServe ==
  ASSUME PickerInv, NEW kind \in PickerKinds, NEW q \in net[kind], NEW ans,
         ui' = ui, net' = Executed(net, kind, q, ans)
  PROVE  PickerInv'
<1>1. /\ PickerRequests(net')
      /\ \A p \in net["claim"] : p.live => \E r \in net'["claim"] : r.live /\ r.arg = p.arg
  BY PickerExecuted DEF PickerInv
<1>2. Covered(ui', net')
  BY <1>1, CoveredKept DEF PickerInv
<1>3. ControlsEnd'
  BY ExecutedEnds DEF PickerInv, PickerRequests
<1> QED
  BY <1>1, <1>2, <1>3 DEF PickerInv

\* An answer about the rows or the members held.
LEMMA PickerTake ==
  ASSUME PickerInv, NEW kind \in {"rows", "held"}, NEW q \in net[kind], NEW u, IsPickerUi(u),
         u.busy = ui.busy, u.timer = ui.timer, u.selected = ui.selected,
         u.claimed = ui.claimed, u.missed = ui.missed, Take(kind, q, u)
  PROVE  PickerInv'
<1>0. kind \in PickerKinds /\ kind # "claim"
  BY DEF PickerKinds
<1>1. ui' = Free(u, q.ops) /\ net' = Taking(net, kind, q)
  BY DEF Take
<1>2. /\ IsPickerUi(ui') /\ ui'.busy = ui.busy \ q.ops /\ ui'.timer = ui.timer
      /\ ui'.selected = ui.selected /\ ui'.claimed = ui.claimed /\ ui'.missed = ui.missed
  BY <1>1, PickerFlags
<1>3. PickerRequests(net') /\ net'["claim"] = net["claim"]
  BY <1>0, <1>1, PickerTaking DEF PickerInv
<1>4. Covered(ui', net')
  BY <1>2, <1>3, CoveredKept DEF PickerInv
<1>5. ControlsEnd'
  BY <1>0, <1>1, <1>2, TakenEnds DEF PickerInv, PickerRequests
<1> QED
  BY <1>2, <1>3, <1>4, <1>5 DEF PickerInv

LEMMA PickerReadStep ==
  ASSUME PickerInv, RowsArrive \/ HeldArrives
  PROVE  PickerInv'
<1>a. IsPickerUi(ui)
  BY DEF PickerInv
<1>1. CASE RowsArrive
  <2>1. PICK q \in net["rows"] :
          Take("rows", q, [ui EXCEPT !.rows = IF Refused(q) THEN {} ELSE q.ans])
    BY <1>1, PageRequests DEF RowsArrive
  <2> QED
    BY <1>a, <2>1, PickerShown, PickerTake
<1>2. CASE HeldArrives
  <2>1. PICK q \in net["held"] :
          Take("held", q, [ui EXCEPT !.held = IF Refused(q) THEN {} ELSE q.ans])
    BY <1>2, PageRequests DEF HeldArrives
  <2> QED
    BY <1>a, <2>1, PickerShown, PickerTake
<1> QED
  BY <1>1, <1>2

\* Everybody that a call asked for is claimed or missed once it is answered.
LEMMA PickerClaimStep ==
  ASSUME PickerInv, PickerClaimArrives
  PROVE  PickerInv'
<1>0. PickerKinds = {"rows", "held", "claim"}
  BY DEF PickerKinds
<1>a. IsPickerUi(ui) /\ PickerRequests(net)
  BY DEF PickerInv
<1>1. PICK q \in net["claim"] :
        LET mine == IF Refused(q) THEN {} ELSE q.ans
            u == [ui EXCEPT !.claimed = @ \cup mine,
                         !.missed = (@ \cup q.arg.ids) \ (ui.claimed \cup mine)]
            asks == mine # {} /\ ui.source # None
        IN /\ ui' = IF asks THEN Busy(u, {"rows"}) ELSE u
           /\ net' = IF asks THEN RowsAsked(Taking(net, "claim", q), ui.source) ELSE Taking(net, "claim", q)
  BY PageRequests DEF PickerClaimArrives
<1> DEFINE mine == IF Refused(q) THEN {} ELSE q.ans
           u == [ui EXCEPT !.claimed = ui.claimed \cup mine,
                           !.missed = (ui.missed \cup q.arg.ids) \ (ui.claimed \cup mine)]
           n == Taking(net, "claim", q)
<1>2. \/ ui' = u /\ net' = n
      \/ ui' = Busy(u, {"rows"}) /\ net' = Sending(n, "rows", {"rows"}, ui.source)
  BY <1>1 DEF RowsAsked
<1> HIDE DEF mine
<1>3. /\ IsPickerUi(u) /\ u.busy = ui.busy /\ u.timer = ui.timer /\ u.selected = ui.selected
      /\ u.claimed = ui.claimed \cup mine
      /\ u.missed = (ui.missed \cup q.arg.ids) \ (ui.claimed \cup mine)
  BY <1>a DEF IsPickerUi
<1> HIDE DEF u
<1>4. PickerRequests(n) /\ n["claim"] = net["claim"] \ {q} /\ q.ops = {}
  BY <1>0, <1>a, PickerTaking DEF PickerRequests
<1>5. ASSUME NEW v, v.timer = u.timer, v.selected = u.selected, v.claimed = u.claimed, v.missed = u.missed,
             NEW m, n["claim"] \subseteq m["claim"]
      PROVE  Covered(v, m)
  <2>1. \A p \in net["claim"] : p.live =>
          \/ \E r \in m["claim"] : r.live /\ r.arg = p.arg
          \/ p.arg.ids \subseteq v.claimed \cup v.missed
    BY <1>3, <1>4, <1>5
  <2>2. /\ v.timer = ui.timer /\ v.selected = ui.selected
        /\ ui.claimed \cup ui.missed \subseteq v.claimed \cup v.missed
    BY <1>3, <1>5
  <2> QED
    BY <2>1, <2>2, CoveredKept DEF PickerInv
<1>6. CASE ui' = u /\ net' = n
  <2>1. ControlsEnd'
    BY <1>0, <1>3, <1>4, <1>6, TakenEnds DEF PickerInv, PickerRequests, n
  <2>2. Covered(ui', net')
    BY <1>5, <1>6
  <2> QED
    BY <1>3, <1>4, <1>6, <2>1, <2>2 DEF PickerInv
<1>7. CASE ui' = Busy(u, {"rows"}) /\ net' = Sending(n, "rows", {"rows"}, ui.source)
  <2>1. /\ IsPickerUi(ui') /\ ui'.busy = ui.busy \cup {"rows"} /\ ui'.timer = u.timer
        /\ ui'.selected = u.selected /\ ui'.claimed = u.claimed /\ ui'.missed = u.missed
    BY <1>3, <1>7, PickerFlags
  <2>2. PickerRequests(net') /\ n["claim"] \subseteq net'["claim"]
    BY <1>0, <1>4, <1>7, PickerSending
  <2>3. Covered(ui', net')
    BY <1>5, <2>1, <2>2
  <2>4. ControlsEnd'
    <3>1. \A op \in ui'.busy : op \in {"rows"} \/ (op \in ui.busy /\ ~(q.live /\ op \in q.ops))
      BY <1>4, <2>1
    <3>2. net' = Sending(Taking(net, "claim", q), "rows", {"rows"}, ui.source)
      BY <1>7 DEF n
    <3> QED
      BY <1>0, <3>1, <3>2, FurtherEnds DEF PickerInv, PickerRequests
  <2> QED
    BY <2>1, <2>2, <2>3, <2>4 DEF PickerInv
<1> QED
  BY <1>2, <1>6, <1>7

-----------------------------------------------------------------------------
LEMMA PickerInit == PickerStart => PickerInv
<1> SUFFICES ASSUME PickerStart PROVE PickerInv
  OBVIOUS
<1>1. IsNet(net, PickerKinds) /\ net["held"] = {} /\ net["claim"] = {}
  BY DEF PickerStart, IsNet, PickerKinds
<1>2. IsPickerUi(ui) /\ ui.busy = {} /\ ui.selected = {}
  BY DEF PickerStart, IsPickerUi
<1> QED
  BY <1>1, <1>2 DEF PickerInv, PickerRequests, Covered, ControlsEnd, ControlsEndBut

LEMMA PickerInvNext ==
  ASSUME PickerInv, [PickerNext \/ Discard \/ Fail]_vars
  PROVE  PickerInv'
<1>a. IsNet(net, PickerKinds)
  BY DEF PickerInv, PickerRequests
<1>b. PickerKinds = {"rows", "held", "claim"}
  BY DEF PickerKinds
<1>1. CASE UNCHANGED vars
  BY <1>1 DEF PickerInv, ControlsEnd, ControlsEndBut, vars
<1>2. CASE Discard
  <2>1. PICK kind \in PickerKinds : \E q \in net[kind] : ~q.live /\ net' = Taking(net, kind, q)
    BY <1>2, <1>a, DiscardedRequest
  <2>2. PICK q \in net[kind] : ~q.live /\ net' = Taking(net, kind, q)
    BY <2>1
  <2>3. ui' = ui /\ srv' = srv
    BY <1>2, <1>a, DiscardedRequest
  <2>4. /\ PickerRequests(net')
        /\ IF kind = "claim" THEN net'["claim"] = net["claim"] \ {q} ELSE net'["claim"] = net["claim"]
    BY <2>2, PickerTaking DEF PickerInv
  <2>5. \A p \in net["claim"] : p.live => p \in net'["claim"]
    BY <2>2, <2>4
  <2>6. Covered(ui', net')
    BY <2>3, <2>5, CoveredKept DEF PickerInv
  <2>7. ControlsEnd'
    BY <1>a, <2>2, <2>3, TakenEnds DEF PickerInv
  <2> QED
    BY <2>3, <2>4, <2>6, <2>7 DEF PickerInv
<1>3. CASE Fail
  <2>1. PICK kind \in PickerKinds : \E q \in net[kind] : net' = Executed(net, kind, q, Failed)
    BY <1>3, <1>a, FailedRequest
  <2>2. ui' = ui
    BY <1>3, <1>a, FailedRequest
  <2> QED
    BY <2>1, <2>2, PickerServe
<1>4. CASE ServeRows \/ ServeHeld \/ ServePickerClaim
  <2>1. PICK kind \in PickerKinds : \E q \in net[kind] : \E ans : net' = Executed(net, kind, q, ans) /\ ui' = ui
    BY <1>4, <1>b, PageRequests DEF ServeRows, ServeHeld, ServePickerClaim, Serve
  <2> QED
    BY <2>1, PickerServe
<1>5. CASE PickerWorld
  BY <1>5, ShownEnds DEF PickerWorld, PickerInv, ControlsEnd, ControlsEndBut
<1> QED
  BY <1>1, <1>2, <1>3, <1>4, <1>5, PickSourceStep, SearchRowsStep, ChangeSelectionStep,
     ClaimTimerStep, PickerReadStep, PickerClaimStep DEF PickerNext

-----------------------------------------------------------------------------
(* The form of an automation task *)

\* A number of a task is positive, or it does not have it.
Positive == (Nat \ {0}) \cup {None}

\* A task has what its type gives it, and nothing else.
SavedTasks ==
  {t \in [key: TaskTypes, ack: Nat, message: Nat, dest: Nat, auto: BOOLEAN, delay: Positive,
          limits: [LimitNames -> Positive], labelled: BOOLEAN, enabled: BOOLEAN] :
     /\ IF t.key = "lead_capture" THEN t.message = 0 /\ t.dest = 0
        ELSE t.ack = 0 /\ ~t.auto /\ (t.key # "notify_destination" => t.dest = 0)
     /\ ~t.auto => t.delay = None /\ t.limits = NoLimits}

TaskForms == [key: TaskTypes, template: Nat, mode: {"group", "text"}, group: Nat, text: Nat,
              auto: BOOLEAN, delay: Nat, limits: [LimitNames -> Nat]]

LEMMA RespondingIsTask ==
  ASSUME NEW task \in SavedTasks, task.key = "lead_capture",
         NEW delay \in Positive, NEW limits \in [LimitNames -> Positive]
  PROVE  Responding(task, delay, limits) \in SavedTasks
BY DEF Responding, SavedTasks

\* What is saved of a form is a task of this kind, and a form that is opened for one
\* saves what that one does.
LEMMA SavedIsTask ==
  ASSUME NEW form \in TaskForms
  PROVE  Saved(form) \in SavedTasks
<1>1. SavedTexts(form) \in SavedTasks /\ SavedTexts(form).auto = FALSE
  BY DEF SavedTexts, SavedTasks, TaskForms, Task, TaskTypes, NoLimits, Positive
<1>2. CASE ~(form.key = "lead_capture" /\ form.auto)
  BY <1>1, <1>2 DEF Saved
<1>3. CASE form.key = "lead_capture" /\ form.auto
  <2> DEFINE delay == IF form.delay = 0 THEN DefaultDelay ELSE form.delay
  <2>1. SavedLimits(form) \in [LimitNames -> Positive]
    BY DEF SavedLimits, TaskForms, Positive
  <2>2. delay \in Positive
    BY DEF TaskForms, Positive, DefaultDelay
  <2>3. Saved(form) = Responding(SavedTexts(form), delay, SavedLimits(form))
    BY <1>3 DEF Saved
  <2> HIDE DEF delay
  <2>4. SavedTexts(form).key = "lead_capture"
    BY <1>3 DEF SavedTexts, Task
  <2> QED
    BY <1>1, <2>1, <2>2, <2>3, <2>4, RespondingIsTask
<1> QED
  BY <1>2, <1>3

LEMMA OpenedFormKeeps ==
  ASSUME NEW task \in SavedTasks
  PROVE  OpenedForm(task) \in TaskForms /\ Keeps(Saved(OpenedForm(task)), task)
<1> DEFINE form == OpenedForm(task)
<1>0. /\ task.key \in TaskTypes /\ task.ack \in Nat /\ task.message \in Nat /\ task.dest \in Nat
      /\ task.auto \in BOOLEAN /\ task.delay \in Positive
      /\ \A name \in LimitNames : task.limits[name] \in Positive
      /\ IF task.key = "lead_capture" THEN task.message = 0 /\ task.dest = 0
         ELSE task.ack = 0 /\ ~task.auto /\ (task.key # "notify_destination" => task.dest = 0)
      /\ ~task.auto => task.delay = None /\ task.limits = NoLimits
  BY DEF SavedTasks
<1>1. form.limits \in [LimitNames -> Nat] /\ form.delay \in Nat
  <2>1. \A name \in LimitNames : DefaultLimits[name] \in Nat
    BY DEF DefaultLimits, LimitNames
  <2> QED
    BY <1>0, <2>1 DEF OpenedForm, Positive, DefaultDelay
<1>2. /\ form.key = task.key /\ form.auto = task.auto
      /\ form.template = IF task.ack # 0 THEN task.ack ELSE task.message
      /\ (IF form.mode = "group" THEN form.group ELSE form.text) = task.dest
      /\ task.delay # None => form.delay = task.delay
      /\ \A name \in LimitNames : task.limits[name] # None => form.limits[name] = task.limits[name]
  BY DEF OpenedForm
<1>3. form \in TaskForms
  BY <1>0, <1>1 DEF OpenedForm, TaskForms
<1> HIDE DEF form
<1> DEFINE texts == SavedTexts(form)
           saved == Saved(form)
<1>4. /\ texts.key = task.key /\ texts.ack = task.ack /\ texts.message = task.message
      /\ texts.dest = task.dest /\ texts.auto = FALSE
      /\ texts = Task(texts.key, texts.ack, texts.message, texts.dest)
  BY <1>0, <1>2 DEF SavedTexts, Task
<1> HIDE DEF texts
<1>5. CASE task.auto
  <2> DEFINE delay == IF form.delay = 0 THEN DefaultDelay ELSE form.delay
             limits == SavedLimits(form)
  <2>1. saved = Responding(texts, delay, limits)
    BY <1>0, <1>2, <1>5 DEF Saved, texts
  <2>2. task.delay # None => delay = task.delay
    BY <1>0, <1>2 DEF Positive
  <2>3. \A name \in LimitNames : task.limits[name] # None => limits[name] = task.limits[name]
    BY <1>0, <1>2 DEF SavedLimits, Positive
  <2> HIDE DEF delay, limits, saved
  <2>4. /\ saved.key = texts.key /\ saved.ack = texts.ack /\ saved.message = texts.message
        /\ saved.dest = texts.dest /\ saved.auto = TRUE /\ saved.delay = delay /\ saved.limits = limits
    BY <1>4, <2>1 DEF Responding, Task
  <2> QED
    BY <1>3, <1>4, <1>5, <2>2, <2>3, <2>4 DEF Keeps, form, saved
<1>6. CASE ~task.auto
  <2>1. saved = texts
    BY <1>0, <1>2, <1>6 DEF Saved, texts
  <2>2. \A name \in LimitNames : task.limits[name] = None
    BY <1>0, <1>6 DEF NoLimits
  <2> HIDE DEF saved
  <2> QED
    BY <1>0, <1>3, <1>4, <1>6, <2>1, <2>2 DEF Keeps, form, saved
<1> QED
  BY <1>0, <1>5, <1>6

ListedTasks(rows) == \A row \in rows : row[2] \in SavedTasks

IsAutomationUi(u) ==
  /\ u \in [at: {"automation"}, scenario: {u.scenario}, busy: {u.busy}, tasks: {u.tasks},
            open: BOOLEAN, editing: {u.editing}, opened: {u.opened}, form: TaskForms,
            groups: SUBSET Nat, query: BOOLEAN, timer: BOOLEAN, deleting: {u.deleting}]
  /\ ListedTasks(u.tasks)

Untouched(u) == u.opened # None => Keeps(Saved(u.form), u.opened)

IsAutomationSrv(s) == s \in [tasks: Seq(SavedTasks), deleted: {s.deleted}]

AutomationRequest(kind, q) ==
  CASE kind = "tasks" -> q.ans \in {None, Failed} \/ ListedTasks(q.ans)
    [] kind = "groups" -> q.ans \in {None, Failed} \/ q.ans \subseteq Nat
    [] kind = "create" -> q.arg \in SavedTasks
    [] kind = "update" -> q.arg.task \in SavedTasks
    [] OTHER -> TRUE

AutomationRequests(n) ==
  /\ IsNet(n, AutomationKinds)
  /\ \A kind \in AutomationKinds : \A q \in n[kind] : AutomationRequest(kind, q)

(***************************************************************************)
(* UntouchedKeeps is not inductive: what Saved makes of a form does not    *)
(* keep every task; one that had both a message and an acknowledgement     *)
(* would lose one.  So the invariant follows the tasks from the form to    *)
(* the server and back to the list.                                        *)
(***************************************************************************)
AutomationInv ==
  /\ IsAutomationUi(ui) /\ Untouched(ui) /\ IsAutomationSrv(srv) /\ AutomationRequests(net)
  /\ ControlsEnd

LEMMA AutomationFlags ==
  ASSUME NEW u, IsAutomationUi(u), NEW S
  PROVE  LET b == Busy(u, S)
             f == Free(u, S)
         IN  /\ IsAutomationUi(b) /\ b.busy = u.busy \cup S /\ (Untouched(u) => Untouched(b))
             /\ IsAutomationUi(f) /\ f.busy = u.busy \ S /\ (Untouched(u) => Untouched(f))
  BY DEF IsAutomationUi, Untouched, Busy, Free

LEMMA QueriedUi ==
  ASSUME NEW u, IsAutomationUi(u), NEW query \in BOOLEAN
  PROVE  LET v == Queried(u, query)
         IN IsAutomationUi(v) /\ v.busy = u.busy /\ v.opened = u.opened /\ v.form = u.form /\ v.open = u.open
  BY DEF IsAutomationUi, Queried

LEMMA TaskFormResetUi ==
  ASSUME NEW u, IsAutomationUi(u)
  PROVE  LET v == TaskFormReset(u)
         IN IsAutomationUi(v) /\ v.busy = u.busy /\ v.opened = None /\ v.open = u.open
<1> DEFINE w == [u EXCEPT !.editing = None, !.opened = None, !.form = NewForm]
<1>1. NewForm \in TaskForms
  BY DEF NewForm, TaskForms, TaskTypes, LimitNames, DefaultLimits, DefaultDelay
<1>2. IsAutomationUi(w) /\ w.busy = u.busy /\ w.opened = None /\ w.open = u.open
  BY <1>1 DEF IsAutomationUi
<1>3. TaskFormReset(u) = Queried(w, FALSE)
  BY DEF TaskFormReset
<1> HIDE DEF w
<1> QED
  BY <1>2, <1>3, QueriedUi

LEMMA AutomationSending ==
  ASSUME NEW n, AutomationRequests(n), NEW kind \in AutomationKinds, NEW ops, NEW arg,
         kind = "create" => arg \in SavedTasks, kind = "update" => arg.task \in SavedTasks
  PROVE  AutomationRequests(Sending(n, kind, ops, arg))
<1> DEFINE m == Sending(n, kind, ops, arg)
<1>1. /\ IsNet(m, AutomationKinds) /\ m[kind] = n[kind] \cup {Request(ops, arg)}
      /\ \A k \in AutomationKinds \ {kind} : m[k] = n[k]
  BY SendingNet DEF AutomationRequests
<1>2. AutomationRequest(kind, Request(ops, arg))
  BY RequestFields DEF AutomationRequest
<1> HIDE DEF m
<1>3. \A k \in AutomationKinds : \A q \in m[k] : AutomationRequest(k, q)
  BY <1>1, <1>2 DEF AutomationRequests
<1> QED
  BY <1>1, <1>3 DEF AutomationRequests, m

LEMMA AutomationExecuted ==
  ASSUME NEW n, AutomationRequests(n), NEW kind \in AutomationKinds, NEW q \in n[kind], NEW ans,
         kind = "tasks" => ans = Failed \/ ListedTasks(ans),
         kind = "groups" => ans = Failed \/ ans \subseteq Nat
  PROVE  AutomationRequests(Executed(n, kind, q, ans))
<1> DEFINE m == Executed(n, kind, q, ans)
           r == [q EXCEPT !.ans = ans]
<1>1. /\ IsNet(m, AutomationKinds) /\ m[kind] = (n[kind] \ {q}) \cup {r}
      /\ \A k \in AutomationKinds \ {kind} : m[k] = n[k]
  BY ExecutedNet DEF AutomationRequests
<1>2. r.arg = q.arg /\ r.ans = ans
  BY AnsweredFields DEF AutomationRequests, IsNet
<1> HIDE DEF m, r
<1>3. AutomationRequest(kind, q)
  BY DEF AutomationRequests
<1>4. AutomationRequest(kind, r)
  BY <1>2, <1>3 DEF AutomationRequest
<1>5. \A k \in AutomationKinds : \A p \in m[k] : AutomationRequest(k, p)
  BY <1>1, <1>4 DEF AutomationRequests
<1> QED
  BY <1>1, <1>5 DEF AutomationRequests, m

LEMMA AutomationTaking ==
  ASSUME NEW n, AutomationRequests(n), NEW kind \in AutomationKinds, NEW q
  PROVE  AutomationRequests(Taking(n, kind, q))
<1> DEFINE m == Taking(n, kind, q)
<1>1. /\ IsNet(m, AutomationKinds) /\ m[kind] = n[kind] \ {q}
      /\ \A k \in AutomationKinds \ {kind} : m[k] = n[k]
  BY TakingNet DEF AutomationRequests
<1> HIDE DEF m
<1>2. \A k \in AutomationKinds : \A p \in m[k] : AutomationRequest(k, p)
  BY <1>1 DEF AutomationRequests
<1> QED
  BY <1>1, <1>2 DEF AutomationRequests, m

LEMMA AutomationShow ==
  ASSUME AutomationInv, NEW u, IsAutomationUi(u), Untouched(u), u.busy = ui.busy, Show(u)
  PROVE  AutomationInv'
<1>1. ui' = u /\ net' = net /\ srv' = srv
  BY DEF Show
<1>2. ControlsEnd'
  BY <1>1, ShownEnds DEF AutomationInv
<1> QED
  BY <1>1, <1>2 DEF AutomationInv

LEMMA AutomationAsk ==
  ASSUME AutomationInv, NEW kind \in AutomationKinds, NEW op, NEW arg, Ask(ui, op, kind, arg),
         kind = "create" => arg \in SavedTasks, kind = "update" => arg.task \in SavedTasks
  PROVE  AutomationInv'
<1>1. ui' = Busy(ui, {op}) /\ net' = Sending(net, kind, {op}, arg) /\ srv' = srv
  BY DEF Ask
<1>2. IsAutomationUi(ui') /\ Untouched(ui') /\ ui'.busy = ui.busy \cup {op}
  BY <1>1, AutomationFlags DEF AutomationInv
<1>3. AutomationRequests(net')
  BY <1>1, AutomationSending DEF AutomationInv
<1>4. ControlsEnd'
  BY <1>1, <1>2, SentEnds DEF AutomationInv, AutomationRequests
<1> QED
  BY <1>1, <1>2, <1>3, <1>4 DEF AutomationInv

LEMMA AutomationServe ==
  ASSUME AutomationInv, NEW kind \in AutomationKinds, NEW q \in net[kind], NEW s,
         IsAutomationSrv(s), NEW ans, Serve(kind, q, s, ans),
         kind = "tasks" => ListedTasks(ans), kind = "groups" => ans \subseteq Nat
  PROVE  AutomationInv'
<1>1. ui' = ui /\ srv' = s /\ net' = Executed(net, kind, q, ans)
  BY DEF Serve
<1>2. AutomationRequests(net')
  BY <1>1, AutomationExecuted DEF AutomationInv
<1>3. ControlsEnd'
  BY <1>1, ExecutedEnds DEF AutomationInv, AutomationRequests
<1> QED
  BY <1>1, <1>2, <1>3 DEF AutomationInv

LEMMA AutomationTake ==
  ASSUME AutomationInv, NEW kind \in AutomationKinds, NEW q \in net[kind], NEW u,
         IsAutomationUi(u), Untouched(u), u.busy = ui.busy, Take(kind, q, u)
  PROVE  AutomationInv'
<1>1. ui' = Free(u, q.ops) /\ net' = Taking(net, kind, q) /\ srv' = srv
  BY DEF Take
<1>2. IsAutomationUi(ui') /\ Untouched(ui') /\ ui'.busy = ui.busy \ q.ops
  BY <1>1, AutomationFlags
<1>3. AutomationRequests(net')
  BY <1>1, AutomationTaking DEF AutomationInv
<1>4. ControlsEnd'
  BY <1>1, <1>2, TakenEnds DEF AutomationInv, AutomationRequests
<1> QED
  BY <1>1, <1>2, <1>3, <1>4 DEF AutomationInv

\* The list is read again, in the name of the operation that calls for it.
LEMMA RereadStep ==
  ASSUME AutomationInv, NEW kind \in AutomationKinds, NEW q \in net[kind], NEW u,
         IsAutomationUi(u), Untouched(u), u.busy = ui.busy, Reread(kind, q, u)
  PROVE  AutomationInv'
<1>0. "tasks" \in AutomationKinds
  BY DEF AutomationKinds
<1>1. ui' = Busy(u, {"load"}) /\ srv' = srv
  BY DEF Reread
<1> DEFINE ops == q.ops \cup {"load"}
<1>2. net' = Sending(Taking(net, kind, q), "tasks", ops, None)
  BY DEF Reread, Sending
<1>3. IsAutomationUi(ui') /\ Untouched(ui') /\ ui'.busy = ui.busy \cup {"load"}
  BY <1>1, AutomationFlags
<1>4. \A op \in ui'.busy : op \in ops \/ (op \in ui.busy /\ ~(q.live /\ op \in q.ops))
  BY <1>3
<1> HIDE DEF ops
<1>5. AutomationRequests(net')
  <2>1. AutomationRequests(Taking(net, kind, q))
    BY AutomationTaking DEF AutomationInv
  <2> QED
    BY <1>0, <1>2, <2>1, AutomationSending
<1>6. ControlsEnd'
  BY <1>0, <1>2, <1>4, FurtherEnds DEF AutomationInv, AutomationRequests
<1> QED
  BY <1>1, <1>3, <1>5, <1>6 DEF AutomationInv

-----------------------------------------------------------------------------
\* The form is opened for a task as the list shows it, or empty.
LEMMA TaskOpenStep ==
  ASSUME AutomationInv, ToggleTask \/ OpenEditForm
  PROVE  AutomationInv'
<1>a. IsAutomationUi(ui) /\ Untouched(ui)
  BY DEF AutomationInv
<1>1. CASE ToggleTask
  <2> DEFINE v == TaskFormReset(ui)
             u == [v EXCEPT !.open = ~v.open]
  <2>1. Show(u)
    BY <1>1 DEF ToggleTask
  <2>2. IsAutomationUi(v) /\ v.busy = ui.busy /\ v.opened = None
    BY <1>a, TaskFormResetUi
  <2> HIDE DEF v
  <2>3. IsAutomationUi(u) /\ u.busy = ui.busy /\ u.opened = None
    BY <2>2 DEF IsAutomationUi
  <2> QED
    BY <2>1, <2>3, AutomationShow DEF Untouched
<1>2. CASE OpenEditForm
  <2>1. PICK row \in ui.tasks :
          Show(Queried([ui EXCEPT !.open = TRUE, !.editing = row[1], !.opened = row[2],
                                  !.form = OpenedForm(row[2])], row[2].dest \in ui.groups))
    BY <1>2 DEF OpenEditForm
  <2> DEFINE task == row[2]
             form == OpenedForm(task)
             v == [ui EXCEPT !.open = TRUE, !.editing = row[1], !.opened = task, !.form = form]
             found == task.dest \in ui.groups
  <2>2. task \in SavedTasks
    BY <1>a DEF IsAutomationUi, ListedTasks
  <2>3. Show(Queried(v, found)) /\ found \in BOOLEAN
    BY <2>1
  <2> HIDE DEF task, found
  <2>4. form \in TaskForms /\ Keeps(Saved(form), task)
    BY <2>2, OpenedFormKeeps
  <2> HIDE DEF form
  <2>5. IsAutomationUi(v) /\ v.busy = ui.busy /\ v.opened = task /\ v.form = form
    BY <1>a, <2>4 DEF IsAutomationUi
  <2> HIDE DEF v
  <2> DEFINE w == Queried(v, found)
  <2>6. IsAutomationUi(w) /\ w.busy = ui.busy /\ w.opened = task /\ w.form = form
    BY <2>3, <2>5, QueriedUi
  <2>7. Untouched(w)
    BY <2>4, <2>6 DEF Untouched
  <2> HIDE DEF w
  <2> QED
    BY <2>3, <2>6, <2>7, AutomationShow DEF w
<1> QED
  BY <1>1, <1>2

\* A form that is edited counts as touched.
LEMMA TaskEditStep ==
  ASSUME AutomationInv, EditTask
  PROVE  AutomationInv'
<1>a. IsAutomationUi(ui)
  BY DEF AutomationInv
<1> DEFINE touched == [ui EXCEPT !.opened = None]
<1>1. IsAutomationUi(touched) /\ touched.busy = ui.busy /\ touched.opened = None /\ touched.form = ui.form
  BY <1>a DEF IsAutomationUi
<1>2. \/ \E form \in {[ui.form EXCEPT !.key = key] : key \in TaskTypes}
               \cup {[ui.form EXCEPT !.template = 2], [ui.form EXCEPT !.auto = ~@],
                     [ui.form EXCEPT !.limits["cooldown"] = 0],
                     [ui.form EXCEPT !.mode = "text", !.text = 7]} :
           Show([touched EXCEPT !.form = form])
      \/ \E g \in ui.groups :
           Show(Queried([touched EXCEPT !.form.mode = "group", !.form.group = g], FALSE))
  BY DEF EditTask
<1> HIDE DEF touched
<1>b. ui.form \in TaskForms /\ ui.groups \subseteq Nat
  BY <1>a DEF IsAutomationUi
<1>3. ASSUME NEW form \in TaskForms, Show([touched EXCEPT !.form = form])
      PROVE  AutomationInv'
  <2> DEFINE u == [touched EXCEPT !.form = form]
  <2>1. IsAutomationUi(u) /\ u.busy = ui.busy /\ u.opened = None
    BY <1>1 DEF IsAutomationUi
  <2> QED
    BY <1>3, <2>1, AutomationShow DEF Untouched
<1>4. ASSUME NEW g \in ui.groups,
             Show(Queried([touched EXCEPT !.form.mode = "group", !.form.group = g], FALSE))
      PROVE  AutomationInv'
  <2> DEFINE form == [ui.form EXCEPT !.mode = "group", !.group = g]
             u == [touched EXCEPT !.form = form]
  <2>1. form \in TaskForms
    BY <1>b DEF TaskForms
  <2>2. Show(Queried(u, FALSE))
    BY <1>1, <1>4 DEF IsAutomationUi
  <2> HIDE DEF form
  <2>3. IsAutomationUi(u) /\ u.busy = ui.busy /\ u.opened = None
    BY <1>1, <2>1 DEF IsAutomationUi
  <2> HIDE DEF u
  <2>4. LET w == Queried(u, FALSE) IN IsAutomationUi(w) /\ w.busy = ui.busy /\ w.opened = None
    BY <2>3, QueriedUi
  <2> QED
    BY <2>2, <2>4, AutomationShow DEF Untouched
<1>5. ASSUME NEW form \in {[ui.form EXCEPT !.key = key] : key \in TaskTypes}
                   \cup {[ui.form EXCEPT !.template = 2], [ui.form EXCEPT !.auto = ~@],
                         [ui.form EXCEPT !.limits["cooldown"] = 0],
                         [ui.form EXCEPT !.mode = "text", !.text = 7]}
      PROVE  form \in TaskForms
  <2>1. CASE \E key \in TaskTypes : form = [ui.form EXCEPT !.key = key]
    BY <1>b, <2>1 DEF TaskForms
  <2>2. CASE form = [ui.form EXCEPT !.template = 2]
    BY <1>b, <2>2 DEF TaskForms
  <2>3. CASE form = [ui.form EXCEPT !.auto = ~@]
    BY <1>b, <2>3 DEF TaskForms
  <2>4. CASE form = [ui.form EXCEPT !.mode = "text", !.text = 7]
    BY <1>b, <2>4 DEF TaskForms
  <2>5. CASE form = [ui.form EXCEPT !.limits["cooldown"] = 0]
    <3>1. [ui.form.limits EXCEPT !["cooldown"] = 0] \in [LimitNames -> Nat]
      BY <1>b DEF TaskForms
    <3> QED
      BY <1>b, <2>5, <3>1 DEF TaskForms
  <2> QED
    BY <1>5, <2>1, <2>2, <2>3, <2>4, <2>5
<1> QED
  BY <1>2, <1>3, <1>4, <1>5

\* The search of the groups.
LEMMA TaskGroupsStep ==
  ASSUME AutomationInv, SearchGroups \/ GroupTimer \/ ServeTaskGroups \/ TaskGroupsArrive
  PROVE  AutomationInv'
<1>a. IsAutomationUi(ui) /\ Untouched(ui) /\ IsAutomationSrv(srv)
  BY DEF AutomationInv
<1>b. "groups" \in AutomationKinds
  BY DEF AutomationKinds
<1>1. CASE SearchGroups
  <2> DEFINE query == ~ui.query
  <2>1. query \in BOOLEAN
    OBVIOUS
  <2>2. Show(Queried(ui, query))
    BY <1>1 DEF SearchGroups
  <2> HIDE DEF query
  <2> QED
    BY <1>a, <2>1, <2>2, QueriedUi, AutomationShow DEF Untouched
<1>2. CASE GroupTimer
  <2>1. ui' = [ui EXCEPT !.timer = FALSE] /\ net' = Sending(net, "groups", {}, None) /\ srv' = srv
    BY <1>2 DEF GroupTimer
  <2>2. IsAutomationUi(ui') /\ Untouched(ui') /\ ui'.busy = ui.busy
    BY <1>a, <2>1 DEF IsAutomationUi, Untouched
  <2>3. AutomationRequests(net')
    BY <1>b, <2>1, AutomationSending DEF AutomationInv
  <2>4. ControlsEnd'
    BY <1>b, <2>1, <2>2, SentEnds DEF AutomationInv, AutomationRequests
  <2> QED
    BY <1>a, <2>1, <2>2, <2>3, <2>4 DEF AutomationInv
<1>3. CASE ServeTaskGroups
  <2>1. PICK q \in net["groups"] : Serve("groups", q, srv, {3})
    BY <1>3, PageRequests DEF ServeTaskGroups
  <2> QED
    BY <1>a, <1>b, <2>1, AutomationServe
<1>4. CASE TaskGroupsArrive
  <2>1. PICK q \in net["groups"] :
          q.ans # None /\ Take("groups", q, [ui EXCEPT !.groups = IF Refused(q) THEN {} ELSE q.ans])
    BY <1>4, PageRequests DEF TaskGroupsArrive
  <2> DEFINE groups == IF Refused(q) THEN {} ELSE q.ans
             u == [ui EXCEPT !.groups = groups]
  <2>2. AutomationRequest("groups", q)
    BY <1>b DEF AutomationInv, AutomationRequests
  <2>3. groups \subseteq Nat
    BY <2>1, <2>2 DEF AutomationRequest, Refused
  <2>4. Take("groups", q, u)
    BY <2>1
  <2> HIDE DEF groups
  <2>5. IsAutomationUi(u) /\ Untouched(u) /\ u.busy = ui.busy
    BY <1>a, <2>3 DEF IsAutomationUi, Untouched
  <2> QED
    BY <1>b, <2>4, <2>5, AutomationTake
<1> QED
  BY <1>1, <1>2, <1>3, <1>4

LEMMA TaskListStep ==
  ASSUME AutomationInv, ServeAutomation \/ AutomationArrives
  PROVE  AutomationInv'
<1>a. IsAutomationUi(ui) /\ Untouched(ui) /\ IsAutomationSrv(srv)
  BY DEF AutomationInv
<1>b. "tasks" \in AutomationKinds
  BY DEF AutomationKinds
<1>1. CASE ServeAutomation
  <2> DEFINE rows == {<<i, srv.tasks[i]>> : i \in DOMAIN srv.tasks \ srv.deleted}
  <2>1. PICK q \in net["tasks"] : Serve("tasks", q, srv, rows)
    BY <1>1, PageRequests DEF ServeAutomation
  <2>2. \A i \in DOMAIN srv.tasks : srv.tasks[i] \in SavedTasks
    BY <1>a DEF IsAutomationSrv
  <2>3. ListedTasks(rows)
    BY <2>2 DEF ListedTasks
  <2> HIDE DEF rows
  <2> QED
    BY <1>a, <1>b, <2>1, <2>3, AutomationServe
<1>2. CASE AutomationArrives
  <2>1. PICK q \in net["tasks"] :
          q.ans # None /\ Take("tasks", q, IF Refused(q) THEN ui ELSE [ui EXCEPT !.tasks = q.ans])
    BY <1>2, PageRequests DEF AutomationArrives
  <2>2. CASE Refused(q)
    BY <1>a, <1>b, <2>1, <2>2, AutomationTake
  <2>3. CASE ~Refused(q)
    <3> DEFINE u == [ui EXCEPT !.tasks = q.ans]
    <3>1. AutomationRequest("tasks", q)
      BY <1>b DEF AutomationInv, AutomationRequests
    <3>2. ListedTasks(q.ans)
      BY <2>1, <2>3, <3>1 DEF AutomationRequest, Refused
    <3>3. IsAutomationUi(u) /\ Untouched(u) /\ u.busy = ui.busy
      BY <1>a, <3>2 DEF IsAutomationUi, Untouched
    <3> QED
      BY <1>b, <2>1, <2>3, <3>3, AutomationTake
  <2> QED
    BY <2>2, <2>3
<1> QED
  BY <1>1, <1>2

\* The tasks that the user saves and deletes, and the server keeps.
LEMMA TaskSaveStep ==
  ASSUME AutomationInv, SaveTask \/ ServeTask \/ AskDeleteTask \/ DeleteTask
  PROVE  AutomationInv'
<1>a. IsAutomationUi(ui) /\ Untouched(ui) /\ IsAutomationSrv(srv)
  BY DEF AutomationInv
<1>b. {"create", "update", "delete"} \subseteq AutomationKinds
  BY DEF AutomationKinds
<1>1. CASE SaveTask
  <2>1. Saved(ui.form) \in SavedTasks
    BY <1>a, SavedIsTask DEF IsAutomationUi
  <2> DEFINE arg == [id |-> ui.editing, task |-> Saved(ui.form)]
  <2>2. arg.task \in SavedTasks
    BY <2>1
  <2>3. Ask(ui, "save", "create", Saved(ui.form)) \/ Ask(ui, "save", "update", arg)
    BY <1>1 DEF SaveTask
  <2> HIDE DEF arg
  <2> QED
    BY <1>b, <2>1, <2>2, <2>3, AutomationAsk
<1>2. CASE ServeTask
  <2>1. CASE \E q \in net["create"] : Serve("create", q, [srv EXCEPT !.tasks = Append(@, q.arg)], "ok")
    <3>1. PICK q \in net["create"] : Serve("create", q, [srv EXCEPT !.tasks = Append(@, q.arg)], "ok")
      BY <2>1
    <3> DEFINE tasks == Append(srv.tasks, q.arg)
               s == [srv EXCEPT !.tasks = tasks]
    <3>2. AutomationRequest("create", q)
      BY <1>b DEF AutomationInv, AutomationRequests
    <3>3. tasks \in Seq(SavedTasks)
      BY <1>a, <3>2 DEF AutomationRequest, IsAutomationSrv
    <3>4. Serve("create", q, s, "ok")
      BY <3>1
    <3> HIDE DEF tasks
    <3>5. IsAutomationSrv(s)
      BY <1>a, <3>3 DEF IsAutomationSrv
    <3> HIDE DEF s
    <3> QED
      BY <1>b, <3>4, <3>5, AutomationServe
  <2>2. CASE \E q \in net["update"] :
               \/ Serve("update", q, srv, Failed)
               \/ Serve("update", q, [srv EXCEPT !.tasks[q.arg.id] = q.arg.task], "ok")
    <3>1. PICK q \in net["update"] :
               \/ Serve("update", q, srv, Failed)
               \/ Serve("update", q, [srv EXCEPT !.tasks[q.arg.id] = q.arg.task], "ok")
      BY <2>2
    <3> DEFINE task == q.arg.task
               tasks == [srv.tasks EXCEPT ![q.arg.id] = task]
               s == [srv EXCEPT !.tasks = tasks]
    <3>2. AutomationRequest("update", q)
      BY <1>b DEF AutomationInv, AutomationRequests
    <3>3. task \in SavedTasks /\ srv.tasks \in Seq(SavedTasks)
      BY <1>a, <3>2 DEF AutomationRequest, IsAutomationSrv
    <3>4. Serve("update", q, srv, Failed) \/ Serve("update", q, s, "ok")
      BY <1>a, <3>1 DEF IsAutomationSrv
    <3> HIDE DEF task
    <3>5. tasks \in Seq(SavedTasks)
      <4>1. CASE q.arg.id \in 1 .. Len(srv.tasks)
        BY <3>3, <4>1, ExceptSeq
      <4>2. CASE q.arg.id \notin 1 .. Len(srv.tasks)
        <5>1. srv.tasks = [i \in 1 .. Len(srv.tasks) |-> srv.tasks[i]]
          BY <3>3
        <5>2. tasks = srv.tasks
          BY <4>2, <5>1
        <5> QED
          BY <3>3, <5>2
      <4> QED
        BY <4>1, <4>2
    <3> HIDE DEF tasks
    <3>6. IsAutomationSrv(s)
      BY <1>a, <3>5 DEF IsAutomationSrv
    <3> HIDE DEF s
    <3> QED
      BY <1>a, <1>b, <3>4, <3>6, AutomationServe
  <2>3. CASE \E q \in net["delete"] : Serve("delete", q, [srv EXCEPT !.deleted = @ \cup {q.arg}], "ok")
    <3>1. PICK q \in net["delete"] : Serve("delete", q, [srv EXCEPT !.deleted = @ \cup {q.arg}], "ok")
      BY <2>3
    <3> DEFINE s == [srv EXCEPT !.deleted = @ \cup {q.arg}]
    <3>2. IsAutomationSrv(s) /\ Serve("delete", q, s, "ok")
      BY <1>a, <3>1 DEF IsAutomationSrv
    <3> HIDE DEF s
    <3> QED
      BY <1>b, <3>2, AutomationServe
  <2> QED
    BY <1>2, <2>1, <2>2, <2>3, PageRequests DEF ServeTask
<1>3. CASE AskDeleteTask
  <2>1. PICK id : Show([ui EXCEPT !.deleting = id])
    BY <1>3 DEF AskDeleteTask
  <2> DEFINE u == [ui EXCEPT !.deleting = id]
  <2>2. IsAutomationUi(u) /\ Untouched(u) /\ u.busy = ui.busy
    BY <1>a DEF IsAutomationUi, Untouched
  <2> QED
    BY <2>1, <2>2, AutomationShow
<1>4. CASE DeleteTask
  <2>1. Ask(ui, "save", "delete", ui.deleting)
    BY <1>4 DEF DeleteTask
  <2> QED
    BY <1>b, <2>1, AutomationAsk
<1> QED
  BY <1>1, <1>2, <1>3, <1>4

LEMMA TaskSavedStep ==
  ASSUME AutomationInv, TaskSaved \/ TaskDeleted
  PROVE  AutomationInv'
<1>a. IsAutomationUi(ui) /\ Untouched(ui)
  BY DEF AutomationInv
<1>b. {"create", "update", "delete"} \subseteq AutomationKinds
  BY DEF AutomationKinds
<1>1. ASSUME NEW kind \in {"create", "update", "delete"}, NEW q \in net[kind], NEW u,
             u \in {[ui EXCEPT !.open = FALSE], [ui EXCEPT !.deleting = None]},
             Take(kind, q, ui) \/ Reread(kind, q, u)
      PROVE  AutomationInv'
  <2>1. IsAutomationUi(u) /\ Untouched(u) /\ u.busy = ui.busy
    BY <1>a, <1>1 DEF IsAutomationUi, Untouched
  <2> QED
    BY <1>a, <1>b, <1>1, <2>1, AutomationTake, RereadStep
<1>2. CASE TaskSaved
  <2>1. PICK kind \in {"create", "update"} : \E q \in Answers("automation", kind) :
          IF Refused(q) THEN Take(kind, q, ui) ELSE Reread(kind, q, [ui EXCEPT !.open = FALSE])
    BY <1>2 DEF TaskSaved
  <2>2. \E q \in net[kind] : Take(kind, q, ui) \/ Reread(kind, q, [ui EXCEPT !.open = FALSE])
    BY <2>1, PageRequests
  <2> QED
    BY <1>1, <2>2
<1>3. CASE TaskDeleted
  <2>1. \E q \in net["delete"] : Take("delete", q, ui) \/ Reread("delete", q, [ui EXCEPT !.deleting = None])
    BY <1>3, PageRequests DEF TaskDeleted
  <2> QED
    BY <1>1, <2>1
<1> QED
  BY <1>2, <1>3

-----------------------------------------------------------------------------
LEMMA AutomationInit ==
  ASSUME NEW scenario, AutomationStart(scenario)
  PROVE  AutomationInv
<1>0. "tasks" \in AutomationKinds
  BY DEF AutomationKinds
<1>1. net = [kind \in AutomationKinds |-> IF kind = "tasks" THEN {Request({"load"}, None)} ELSE {}]
  BY DEF AutomationStart
<1>2. IsNet(net, AutomationKinds)
  BY <1>1, RequestFields DEF IsNet
<1>3. AutomationRequests(net)
  BY <1>1, <1>2, RequestFields DEF AutomationRequests, AutomationRequest
<1>4. IsAutomationUi(ui) /\ Untouched(ui) /\ ui.busy = {"load"}
  <2>1. NewForm \in TaskForms
    BY DEF NewForm, TaskForms, TaskTypes, LimitNames, DefaultLimits, DefaultDelay
  <2> QED
    BY <2>1 DEF AutomationStart, IsAutomationUi, ListedTasks, Untouched
<1>5. IsAutomationSrv(srv)
  <2> DEFINE capture == Task("lead_capture", 1, 0, 0)
             limits == [cooldown |-> 60, max_new |-> 10]
             own == Responding(capture, 5, limits)
             acquired == [Responding(capture, 5, NoLimits) EXCEPT !.labelled = TRUE]
             notice == Task("notify_destination", 0, 1, 3)
             off == [Task("notify_destination", 0, 0, 7) EXCEPT !.enabled = FALSE]
  <2>1. {own, acquired, notice, off} \subseteq SavedTasks
    <3>1. limits \in [LimitNames -> Positive] /\ NoLimits \in [LimitNames -> Positive]
      BY DEF LimitNames, Positive, NoLimits
    <3> HIDE DEF limits
    <3>a. capture \in SavedTasks /\ capture.key = "lead_capture"
      BY <3>1 DEF SavedTasks, Task, TaskTypes, Positive
    <3> HIDE DEF capture
    <3>b. 5 \in Positive
      BY DEF Positive
    <3>c. ASSUME NEW task \in SavedTasks
          PROVE  [task EXCEPT !.labelled = TRUE] \in SavedTasks
      BY DEF SavedTasks
    <3>2. own \in SavedTasks /\ acquired \in SavedTasks
      BY <3>1, <3>a, <3>b, <3>c, RespondingIsTask
    <3>3. notice \in SavedTasks /\ off \in SavedTasks
      BY <3>1 DEF SavedTasks, Task, TaskTypes, Positive
    <3> QED
      BY <3>2, <3>3
  <2>2. srv = [tasks |-> IF scenario = "save" THEN <<own>> ELSE <<own, acquired, notice, off>>, deleted |-> {}]
    BY DEF AutomationStart
  <2> HIDE DEF own, acquired, notice, off
  <2>3. srv.tasks \in Seq(SavedTasks) /\ srv = [tasks |-> srv.tasks, deleted |-> srv.deleted]
    BY <2>1, <2>2
  <2> QED
    BY <2>3 DEF IsAutomationSrv
<1>6. ControlsEnd
  <2>1. Request({"load"}, None) \in net["tasks"] /\ DOMAIN net = AutomationKinds
    BY <1>0, <1>1
  <2> QED
    BY <1>0, <1>4, <2>1, RequestFields DEF ControlsEnd, ControlsEndBut
<1> QED
  BY <1>3, <1>4, <1>5, <1>6 DEF AutomationInv

LEMMA AutomationInvNext ==
  ASSUME AutomationInv, [AutomationNext \/ Discard \/ Fail]_vars
  PROVE  AutomationInv'
<1>a. IsNet(net, AutomationKinds)
  BY DEF AutomationInv, AutomationRequests
<1>1. CASE UNCHANGED vars
  BY <1>1 DEF AutomationInv, ControlsEnd, ControlsEndBut, vars
<1>2. CASE Discard
  <2>1. PICK kind \in AutomationKinds : \E q \in net[kind] : ~q.live /\ net' = Taking(net, kind, q)
    BY <1>2, <1>a, DiscardedRequest
  <2>2. PICK q \in net[kind] : ~q.live /\ net' = Taking(net, kind, q)
    BY <2>1
  <2>3. ui' = ui /\ srv' = srv
    BY <1>2, <1>a, DiscardedRequest
  <2>4. AutomationRequests(net')
    BY <2>2, AutomationTaking DEF AutomationInv
  <2>5. ControlsEnd'
    BY <1>a, <2>2, <2>3, TakenEnds DEF AutomationInv
  <2> QED
    BY <2>3, <2>4, <2>5 DEF AutomationInv
<1>3. CASE Fail
  <2>1. PICK kind \in AutomationKinds : \E q \in net[kind] : net' = Executed(net, kind, q, Failed)
    BY <1>3, <1>a, FailedRequest
  <2>2. PICK q \in net[kind] : net' = Executed(net, kind, q, Failed)
    BY <2>1
  <2>3. ui' = ui /\ srv' = srv
    BY <1>3, <1>a, FailedRequest
  <2>4. AutomationRequests(net')
    BY <2>2, AutomationExecuted DEF AutomationInv
  <2>5. ControlsEnd'
    BY <1>a, <2>2, <2>3, ExecutedEnds DEF AutomationInv
  <2> QED
    BY <2>3, <2>4, <2>5 DEF AutomationInv
<1> QED
  BY <1>1, <1>2, <1>3, TaskOpenStep, TaskEditStep, TaskGroupsStep, TaskListStep, TaskSaveStep,
     TaskSavedStep DEF AutomationNext

-----------------------------------------------------------------------------
(* The composer of messages *)

\* What RemoveAt leaves of a sequence.
LEMMA RemovedAt ==
  ASSUME NEW S, NEW s \in Seq(S), NEW i \in 1 .. Len(s)
  PROVE  /\ RemoveAt(s, i) \in Seq(S)
         /\ Len(RemoveAt(s, i)) = Len(s) - 1
         /\ \A j \in 1 .. Len(s) - 1 : RemoveAt(s, i)[j] = IF j < i THEN s[j] ELSE s[j + 1]
<1> DEFINE head == SubSeq(s, 1, i - 1)
           tail == SubSeq(s, i + 1, Len(s))
<1>1. Len(s) \in Nat /\ i \in Int /\ i \in 1 .. Len(s)
  OBVIOUS
<1>2. \A k \in 1 .. Len(s) : s[k] \in S
  OBVIOUS
<1>3. /\ head \in Seq(S) /\ Len(head) = i - 1
      /\ \A k \in 1 .. i - 1 : head[k] = s[k]
  <2>1. \A k \in 1 .. i - 1 : s[k] \in S
    BY <1>1, <1>2
  <2>2. /\ head \in Seq(S) /\ Len(head) = IF 1 <= i - 1 THEN (i - 1) - 1 + 1 ELSE 0
        /\ \A k \in 1 .. (i - 1) - 1 + 1 : head[k] = s[1 + k - 1]
    BY <1>1, <2>1, SubSeqProperties
  <2> HIDE DEF head
  <2> QED
    BY <1>1, <2>2
<1>4. /\ tail \in Seq(S) /\ Len(tail) = Len(s) - i
      /\ \A k \in 1 .. Len(s) - i : tail[k] = s[i + k]
  <2>1. \A k \in i + 1 .. Len(s) : s[k] \in S
    BY <1>1, <1>2
  <2>2. /\ tail \in Seq(S) /\ Len(tail) = IF i + 1 <= Len(s) THEN Len(s) - (i + 1) + 1 ELSE 0
        /\ \A k \in 1 .. Len(s) - (i + 1) + 1 : tail[k] = s[i + 1 + k - 1]
    BY <1>1, <2>1, SubSeqProperties
  <2> HIDE DEF tail
  <2> QED
    BY <1>1, <2>2
<1>5. RemoveAt(s, i) = head \o tail
  BY DEF RemoveAt
<1> HIDE DEF head, tail
<1>6. /\ head \o tail \in Seq(S)
      /\ Len(head \o tail) = (i - 1) + (Len(s) - i)
      /\ \A j \in 1 .. (i - 1) + (Len(s) - i) :
           (head \o tail)[j] = IF j <= i - 1 THEN head[j] ELSE tail[j - (i - 1)]
  <2>1. /\ head \o tail \in Seq(S)
        /\ Len(head \o tail) = Len(head) + Len(tail)
        /\ \A j \in 1 .. Len(head) + Len(tail) :
             (head \o tail)[j] = IF j <= Len(head) THEN head[j] ELSE tail[j - Len(head)]
    BY <1>3, <1>4, ConcatProperties
  <2> QED
    BY ONLY <1>3, <1>4, <2>1
<1>7. ASSUME NEW j \in 1 .. Len(s) - 1
      PROVE  (head \o tail)[j] = IF j < i THEN s[j] ELSE s[j + 1]
  <2>1. CASE j < i
    BY <1>1, <1>3, <1>6, <2>1
  <2>2. CASE ~(j < i)
    <3>1. j - (i - 1) \in 1 .. Len(s) - i /\ i + (j - (i - 1)) = j + 1
      BY <1>1, <2>2
    <3>2. (head \o tail)[j] = tail[j - (i - 1)]
      BY <1>1, <1>6, <2>2
    <3> QED
      BY <1>4, <2>2, <3>1, <3>2
  <2> QED
    BY <2>1, <2>2
<1> QED
  BY <1>1, <1>5, <1>6, <1>7

\* The rows of the composer: each file is there with the message it was chosen for.
AreRows(messages, media) ==
  /\ messages \in Seq(Nat) /\ media \in Seq(Nat \cup {None}) /\ Len(media) = Len(messages)
  /\ \A i \in 1 .. Len(messages) : media[i] \in {None, messages[i]}

LEMMA RowAdded ==
  ASSUME NEW messages, NEW media, AreRows(messages, media), NEW row \in Nat
  PROVE  AreRows(Append(messages, row), Append(media, None))
<1> DEFINE more == Append(messages, row)
           files == Append(media, None)
<1>0. messages \in Seq(Nat) /\ media \in Seq(Nat \cup {None}) /\ Len(messages) \in Nat
  BY DEF AreRows
<1>1. /\ more \in Seq(Nat) /\ Len(more) = Len(messages) + 1
      /\ \A i \in 1 .. Len(messages) : more[i] = messages[i]
  BY <1>0, AppendProperties
<1>2. /\ files \in Seq(Nat \cup {None}) /\ Len(files) = Len(media) + 1
      /\ \A i \in 1 .. Len(media) : files[i] = media[i]
      /\ files[Len(media) + 1] = None
  BY <1>0, AppendProperties
<1> HIDE DEF more, files
<1>3. ASSUME NEW i \in 1 .. Len(more) PROVE files[i] \in {None, more[i]}
  <2>0. Len(media) = Len(messages)
    BY DEF AreRows
  <2>1. CASE i \in 1 .. Len(messages)
    BY <1>1, <1>2, <2>0, <2>1 DEF AreRows
  <2>2. CASE i = Len(messages) + 1
    BY <1>2, <2>0, <2>2
  <2> QED
    BY <1>0, <1>1, <2>1, <2>2
<1> QED
  BY <1>1, <1>2, <1>3 DEF AreRows, more, files

LEMMA RowRemoved ==
  ASSUME NEW messages, NEW media, AreRows(messages, media), NEW i \in 1 .. Len(messages)
  PROVE  AreRows(RemoveAt(messages, i), RemoveAt(media, i))
<1> DEFINE fewer == RemoveAt(messages, i)
           files == RemoveAt(media, i)
<1>0. /\ messages \in Seq(Nat) /\ media \in Seq(Nat \cup {None})
      /\ Len(messages) \in Nat /\ Len(media) = Len(messages) /\ i \in Nat
  BY DEF AreRows
<1>1. /\ fewer \in Seq(Nat) /\ Len(fewer) = Len(messages) - 1
      /\ \A j \in 1 .. Len(messages) - 1 : fewer[j] = IF j < i THEN messages[j] ELSE messages[j + 1]
  BY <1>0, RemovedAt
<1>2. /\ files \in Seq(Nat \cup {None}) /\ Len(files) = Len(media) - 1
      /\ \A j \in 1 .. Len(media) - 1 : files[j] = IF j < i THEN media[j] ELSE media[j + 1]
  BY <1>0, RemovedAt
<1> HIDE DEF fewer, files
<1>3. ASSUME NEW j \in 1 .. Len(fewer) PROVE files[j] \in {None, fewer[j]}
  <2>1. j \in 1 .. Len(messages) /\ j + 1 \in 1 .. Len(messages)
    BY <1>0, <1>1
  <2> QED
    BY <1>0, <1>1, <1>2, <2>1 DEF AreRows
<1> QED
  BY <1>0, <1>1, <1>2, <1>3 DEF AreRows, fewer, files

LEMMA MediaSet ==
  ASSUME NEW messages, NEW media, AreRows(messages, media), NEW i \in 1 .. Len(messages),
         NEW file \in {None, messages[i]}
  PROVE  AreRows(messages, [media EXCEPT ![i] = file])
<1> DEFINE files == [media EXCEPT ![i] = file]
<1>0. /\ messages \in Seq(Nat) /\ media \in Seq(Nat \cup {None})
      /\ Len(media) = Len(messages) /\ file \in Nat \cup {None}
  BY DEF AreRows
<1>1. /\ files \in Seq(Nat \cup {None}) /\ Len(files) = Len(media)
      /\ \A j \in 1 .. Len(media) : files[j] = IF j = i THEN file ELSE media[j]
  BY <1>0, ExceptSeq
<1> HIDE DEF files
<1>2. \A j \in 1 .. Len(messages) : files[j] \in {None, messages[j]}
  BY <1>0, <1>1 DEF AreRows
<1> QED
  BY <1>0, <1>1, <1>2 DEF AreRows, files

IsComposerUi(u) ==
  /\ u \in [at: {"composer"}, busy: {u.busy}, messages: {u.messages}, media: {u.media}, rows: Nat]
  /\ AreRows(u.messages, u.media)

\* An upload brings its rows with it, and has one to put the file into.
UploadRequest(q) ==
  AreRows(q.arg.messages, q.arg.media) /\ q.arg.row \in 1 .. Len(q.arg.messages)

ComposerRequests(n) == IsNet(n, ComposerKinds) /\ \A q \in n["upload"] : UploadRequest(q)

(***************************************************************************)
(* MediaStaysWithMessage has to hold of the rows that an upload carries,   *)
(* too, as they replace those shown.                                       *)
(***************************************************************************)
ComposerInv == IsComposerUi(ui) /\ ComposerRequests(net) /\ ControlsEnd

LEMMA UploadKind == ComposerKinds = {"upload"}
  BY DEF ComposerKinds

LEMMA ComposerFlags ==
  ASSUME NEW u, IsComposerUi(u), NEW S
  PROVE  /\ IsComposerUi(Busy(u, S)) /\ Busy(u, S).busy = u.busy \cup S
         /\ IsComposerUi(Free(u, S)) /\ Free(u, S).busy = u.busy \ S
  BY DEF IsComposerUi, Busy, Free

LEMMA ComposerExecuted ==
  ASSUME NEW n, ComposerRequests(n), NEW q \in n["upload"], NEW ans
  PROVE  ComposerRequests(Executed(n, "upload", q, ans))
<1> DEFINE m == Executed(n, "upload", q, ans)
           r == [q EXCEPT !.ans = ans]
<1>1. IsNet(m, ComposerKinds) /\ m["upload"] = (n["upload"] \ {q}) \cup {r}
  BY UploadKind, ExecutedNet DEF ComposerRequests
<1>2. r.arg = q.arg
  BY UploadKind, AnsweredFields DEF ComposerRequests, IsNet
<1> HIDE DEF m, r
<1>3. \A p \in m["upload"] : UploadRequest(p)
  BY <1>1, <1>2 DEF ComposerRequests, UploadRequest
<1> QED
  BY <1>1, <1>3 DEF ComposerRequests, m

LEMMA ComposerTaking ==
  ASSUME NEW n, ComposerRequests(n), NEW q
  PROVE  ComposerRequests(Taking(n, "upload", q))
<1> DEFINE m == Taking(n, "upload", q)
<1>1. IsNet(m, ComposerKinds) /\ m["upload"] = n["upload"] \ {q}
  BY UploadKind, TakingNet DEF ComposerRequests
<1> HIDE DEF m
<1>2. \A p \in m["upload"] : UploadRequest(p)
  BY <1>1 DEF ComposerRequests
<1> QED
  BY <1>1, <1>2 DEF ComposerRequests, m

LEMMA ComposerShow ==
  ASSUME ComposerInv, NEW u, IsComposerUi(u), u.busy = ui.busy, Show(u)
  PROVE  ComposerInv'
<1>1. ui' = u /\ net' = net
  BY DEF Show
<1>2. ControlsEnd'
  BY <1>1, ShownEnds DEF ComposerInv
<1> QED
  BY <1>1, <1>2 DEF ComposerInv

LEMMA EditComposerStep ==
  ASSUME ComposerInv, EditComposer
  PROVE  ComposerInv'
<1>a. /\ IsComposerUi(ui) /\ AreRows(ui.messages, ui.media) /\ ui.rows \in Nat
      /\ DOMAIN ui.messages = 1 .. Len(ui.messages) /\ DOMAIN ui.media = 1 .. Len(ui.messages)
  BY DEF ComposerInv, IsComposerUi, AreRows
<1>1. CASE Show([ui EXCEPT !.messages = Append(@, ui.rows + 1), !.media = Append(@, None), !.rows = @ + 1])
  <2> DEFINE rows == ui.rows + 1
             messages == Append(ui.messages, rows)
             media == Append(ui.media, None)
             u == [ui EXCEPT !.messages = messages, !.media = media, !.rows = rows]
  <2>1. Show(u)
    BY <1>1
  <2>2. rows \in Nat
    BY <1>a
  <2> HIDE DEF rows
  <2>3. AreRows(messages, media)
    BY <1>a, <2>2, RowAdded
  <2> HIDE DEF messages, media
  <2>4. IsComposerUi(u) /\ u.busy = ui.busy
    BY <1>a, <2>2, <2>3 DEF IsComposerUi
  <2> QED
    BY <2>1, <2>4, ComposerShow
<1>2. ASSUME NEW i \in DOMAIN ui.messages,
             Show([ui EXCEPT !.messages = RemoveAt(@, i), !.media = RemoveAt(@, i)])
      PROVE  ComposerInv'
  <2> DEFINE messages == RemoveAt(ui.messages, i)
             media == RemoveAt(ui.media, i)
             u == [ui EXCEPT !.messages = messages, !.media = media]
  <2>1. Show(u)
    BY <1>2
  <2>2. AreRows(messages, media)
    BY <1>a, RowRemoved
  <2> HIDE DEF messages, media
  <2>3. IsComposerUi(u) /\ u.busy = ui.busy
    BY <1>a, <2>2 DEF IsComposerUi
  <2> QED
    BY <2>1, <2>3, ComposerShow
<1>3. ASSUME NEW i \in DOMAIN ui.media, Show([ui EXCEPT !.media[i] = None])
      PROVE  ComposerInv'
  <2> DEFINE media == [ui.media EXCEPT ![i] = None]
             u == [ui EXCEPT !.media = media]
  <2>1. Show(u)
    BY <1>3
  <2>2. AreRows(ui.messages, media)
    BY <1>a, MediaSet
  <2> HIDE DEF media
  <2>3. IsComposerUi(u) /\ u.busy = ui.busy
    BY <1>a, <2>2 DEF IsComposerUi
  <2> QED
    BY <2>1, <2>3, ComposerShow
<1> QED
  BY <1>1, <1>2, <1>3 DEF EditComposer

LEMMA UploadStep ==
  ASSUME ComposerInv, UploadMedia
  PROVE  ComposerInv'
<1>a. IsComposerUi(ui) /\ AreRows(ui.messages, ui.media)
  BY DEF ComposerInv, IsComposerUi
<1>1. PICK i \in DOMAIN ui.messages :
        Ask(ui, "upload", "upload", [messages |-> ui.messages, media |-> ui.media, row |-> i])
  BY DEF UploadMedia
<1> DEFINE arg == [messages |-> ui.messages, media |-> ui.media, row |-> i]
           r == Request({"upload"}, arg)
<1>2. ui' = Busy(ui, {"upload"}) /\ net' = Sending(net, "upload", {"upload"}, arg)
  BY <1>1 DEF Ask
<1>3. arg.row \in 1 .. Len(arg.messages) /\ AreRows(arg.messages, arg.media)
  BY <1>a DEF AreRows
<1> HIDE DEF arg
<1>4. UploadRequest(r)
  BY <1>3, RequestFields DEF UploadRequest
<1>5. IsNet(net', ComposerKinds) /\ net'["upload"] = net["upload"] \cup {r}
  BY <1>2, UploadKind, SendingNet DEF ComposerInv, ComposerRequests
<1> HIDE DEF r
<1>6. ComposerRequests(net')
  BY <1>4, <1>5 DEF ComposerInv, ComposerRequests
<1>7. IsComposerUi(ui') /\ ui'.busy = ui.busy \cup {"upload"}
  BY <1>2, <1>a, ComposerFlags
<1>8. ControlsEnd'
  BY <1>2, <1>7, UploadKind, SentEnds DEF ComposerInv, ComposerRequests
<1> QED
  BY <1>6, <1>7, <1>8 DEF ComposerInv

\* The rows that come back with an upload, with its file in the row it is for.
LEMMA MediaArrivesStep ==
  ASSUME ComposerInv, MediaArrives
  PROVE  ComposerInv'
<1>a. IsComposerUi(ui)
  BY DEF ComposerInv
<1>1. PICK q \in net["upload"] :
        Take("upload", q, IF Refused(q) THEN ui
                          ELSE [ui EXCEPT !.messages = q.arg.messages,
                                          !.media = [q.arg.media EXCEPT ![q.arg.row] = q.arg.messages[q.arg.row]]])
  BY PageRequests DEF MediaArrives
<1> DEFINE messages == q.arg.messages
           media == [q.arg.media EXCEPT ![q.arg.row] = q.arg.messages[q.arg.row]]
           u == [ui EXCEPT !.messages = messages, !.media = media]
<1>2. AreRows(messages, media)
  BY MediaSet DEF ComposerInv, ComposerRequests, UploadRequest
<1>3. Take("upload", q, ui) \/ Take("upload", q, u)
  BY <1>1
<1> HIDE DEF messages, media
<1>4. IsComposerUi(u) /\ u.busy = ui.busy
  BY <1>2, <1>a DEF IsComposerUi
<1> HIDE DEF u
<1>5. net' = Taking(net, "upload", q) /\ ui' \in {Free(ui, q.ops), Free(u, q.ops)}
  BY <1>3 DEF Take
<1>6. IsComposerUi(ui') /\ ui'.busy = ui.busy \ q.ops
  BY <1>4, <1>5, <1>a, ComposerFlags
<1>7. ComposerRequests(net')
  BY <1>5, ComposerTaking DEF ComposerInv
<1>8. ControlsEnd'
  BY <1>5, <1>6, UploadKind, TakenEnds DEF ComposerInv, ComposerRequests
<1> QED
  BY <1>6, <1>7, <1>8 DEF ComposerInv

LEMMA ComposerInit == ComposerStart => ComposerInv
<1> SUFFICES ASSUME ComposerStart PROVE ComposerInv
  OBVIOUS
<1>1. IsNet(net, ComposerKinds) /\ net["upload"] = {}
  BY DEF ComposerStart, IsNet, ComposerKinds
<1>2. AreRows(<<1>>, <<None>>)
  BY DEF AreRows
<1>3. IsComposerUi(ui) /\ ui.busy = {}
  BY <1>2 DEF ComposerStart, IsComposerUi
<1> QED
  BY <1>1, <1>3 DEF ComposerInv, ComposerRequests, ControlsEnd, ControlsEndBut

LEMMA ComposerInvNext ==
  ASSUME ComposerInv, [ComposerNext \/ Discard \/ Fail]_vars
  PROVE  ComposerInv'
<1>a. IsNet(net, ComposerKinds)
  BY DEF ComposerInv, ComposerRequests
<1>1. CASE UNCHANGED vars
  BY <1>1 DEF ComposerInv, ControlsEnd, ControlsEndBut, vars
<1>2. CASE Discard
  <2>1. PICK q \in net["upload"] : ~q.live /\ net' = Taking(net, "upload", q)
    BY <1>2, <1>a, UploadKind, DiscardedRequest
  <2>2. ui' = ui
    BY <1>2, <1>a, DiscardedRequest
  <2>3. ComposerRequests(net')
    BY <2>1, ComposerTaking DEF ComposerInv
  <2>4. ControlsEnd'
    BY <1>a, <2>1, <2>2, UploadKind, TakenEnds DEF ComposerInv
  <2> QED
    BY <2>2, <2>3, <2>4 DEF ComposerInv
<1>3. ASSUME NEW q \in net["upload"], NEW ans, net' = Executed(net, "upload", q, ans), ui' = ui
      PROVE  ComposerInv'
  <2>1. ComposerRequests(net')
    BY <1>3, ComposerExecuted DEF ComposerInv
  <2>2. ControlsEnd'
    BY <1>a, <1>3, UploadKind, ExecutedEnds DEF ComposerInv
  <2> QED
    BY <1>3, <2>1, <2>2 DEF ComposerInv
<1>4. CASE Fail
  <2>1. PICK q \in net["upload"] : net' = Executed(net, "upload", q, Failed)
    BY <1>4, <1>a, UploadKind, FailedRequest
  <2>2. ui' = ui
    BY <1>4, <1>a, FailedRequest
  <2> QED
    BY <1>3, <2>1, <2>2
<1>5. CASE ServeMedia
  BY <1>3, <1>5, PageRequests DEF ServeMedia, Serve
<1> QED
  BY <1>1, <1>2, <1>4, <1>5, EditComposerStep, UploadStep, MediaArrivesStep DEF ComposerNext

-----------------------------------------------------------------------------
(* The dialog of the member filter *)

LEMMA MatchesCounted ==
  ASSUME NEW filter
  PROVE  Cardinality(Matches(filter)) \in Nat
<1>1. IsFiniteSet(Members)
  BY MemberFilterAssumption
<1>2. Matches(filter) \subseteq Members
  BY DEF Matches
<1> QED
  BY <1>1, <1>2, FS_Subset, FS_CardinalityType

\* There is a second page to ask for when a filter matches more than the first.
LEMMA RestIsAsked ==
  ASSUME NEW filter, NEW total \in Nat, ~(PagesRead(total) < 2)
  PROVE  Request({"apply"}, [filter |-> filter, page |-> 2]) \in RestOf(filter, total)
<1> DEFINE pages == (total + PageSize - 1) \div PageSize
<1>1. MaxPages \in Int /\ pages \in Int
  BY MemberFilterAssumption
<1>2. PagesRead(total) = Min({MaxPages, pages})
  BY DEF PagesRead
<1> HIDE DEF pages
<1>3. \E x \in {MaxPages, pages} : \A y \in {MaxPages, pages} : x <= y
  BY <1>1
<1>4. PagesRead(total) \in {MaxPages, pages}
  BY <1>2, <1>3 DEF Min
<1>5. 2 \in 2 .. PagesRead(total)
  BY <1>1, <1>4
<1> QED
  BY <1>5 DEF RestOf

IsFilterUi(u) ==
  u \in [at: {"filter"}, busy: SUBSET {"apply", "count"}, open: BOOLEAN, draft: {u.draft},
         count: {u.count}, timer: BOOLEAN, found: {u.found},
         filter: {u.filter}, narrow: {u.narrow}]

Answer(q) == q.ans \notin {None, Failed}

\* What a count finds is what its filter matches; the pages are read with the flag of
\* the button, and hold matches of the filter that was applied.
FilterRequest(kind, q) ==
  CASE kind = "count" -> q.ops = {"count"} /\ (Answer(q) => q.ans = Cardinality(Matches(q.arg)))
    [] kind = "first" -> /\ q.live /\ q.arg # None
                         /\ Answer(q) => q.ans.total \in Nat /\ q.ans.ids \subseteq Matches(q.arg)
    [] kind = "rest" -> /\ q.live /\ q.ops = {"apply"} /\ q.arg.filter # None
                        /\ Answer(q) => q.ans \subseteq Matches(q.arg.filter)

FilterRequests(n) ==
  IsNet(n, FilterKinds) /\ \A kind \in FilterKinds : \A q \in n[kind] : FilterRequest(kind, q)

\* The counts that are not cancelled are of the draft as it stands, and so is the one
\* shown; one is awaited only while its timer runs or it is in flight.
CountOf(u, n) ==
  Counting(u) =>
    /\ \A q \in n["count"] : q.live => q.arg = u.draft
    /\ u.count # None /\ "count" \notin u.busy => u.count = Cardinality(Matches(u.draft))
    /\ "count" \in u.busy => u.timer \/ \E q \in n["count"] : q.live

\* The pages in flight, and what the pages before them found, are of one filter.
FoundOf(u, n) ==
  \A q, r \in n["rest"] : r.arg.filter = q.arg.filter /\ u.found \subseteq Matches(q.arg.filter)

NarrowOf(u) == u.narrow # None => u.filter # None /\ u.narrow \subseteq Matches(u.filter)

(***************************************************************************)
(* FilterSettles is not inductive: a count is shown when it arrives, and   *)
(* the pages of a search are gathered before they narrow the picker.  So   *)
(* the invariant says for which filter each of those in flight is.  It     *)
(* does not say that the filter applied is the draft: the draft may be     *)
(* edited while its pages are read.                                        *)
(***************************************************************************)
FilterState(u, n) ==
  IsFilterUi(u) /\ FilterRequests(n) /\ CountOf(u, n) /\ FoundOf(u, n) /\ NarrowOf(u)

FilterInv == FilterState(ui, net) /\ AllInFlight(ui.busy \ {"count"}, net)

LEMMA FilterKindsAre == FilterKinds = {"count", "first", "rest"}
  BY DEF FilterKinds

\* A count of the draft, or the first page of a filter, is asked for.
LEMMA FilterSending ==
  ASSUME NEW u, NEW n, FilterState(u, n), NEW kind \in {"count", "first"}, NEW ops, NEW arg,
         kind = "count" => ops = {"count"} /\ arg = u.draft, kind = "first" => arg # None
  PROVE  FilterState(u, Sending(n, kind, ops, arg))
<1> DEFINE m == Sending(n, kind, ops, arg)
           r == Request(ops, arg)
<1>1. /\ IsNet(m, FilterKinds) /\ m[kind] = n[kind] \cup {r}
      /\ \A k \in FilterKinds \ {kind} : m[k] = n[k]
  BY FilterKindsAre, SendingNet DEF FilterState, FilterRequests
<1>2. r.ops = ops /\ r.arg = arg /\ r.ans = None /\ r.live
  BY RequestFields
<1> HIDE DEF m, r
<1>3. FilterRequest(kind, r)
  BY <1>2 DEF FilterRequest, Answer
<1>4. FilterRequests(m)
  BY <1>1, <1>3 DEF FilterState, FilterRequests
<1>5. CountOf(u, m)
  <2>1. CASE kind = "count"
    BY <1>1, <1>2, <2>1 DEF FilterState, CountOf
  <2>2. CASE kind = "first"
    BY <1>1, <2>2, FilterKindsAre DEF FilterState, CountOf
  <2> QED
    BY <2>1, <2>2
<1>6. m["rest"] = n["rest"]
  BY <1>1, FilterKindsAre
<1>7. FoundOf(u, m)
  BY <1>6 DEF FilterState, FoundOf
<1> QED
  BY <1>4, <1>5, <1>7 DEF FilterState, m

LEMMA FilterExecuted ==
  ASSUME NEW u, NEW n, FilterState(u, n), NEW kind \in FilterKinds, NEW q \in n[kind], NEW ans,
         FilterRequest(kind, [q EXCEPT !.ans = ans])
  PROVE  FilterState(u, Executed(n, kind, q, ans))
<1> DEFINE m == Executed(n, kind, q, ans)
           e == [q EXCEPT !.ans = ans]
<1>1. /\ IsNet(m, FilterKinds) /\ m[kind] = (n[kind] \ {q}) \cup {e}
      /\ \A k \in FilterKinds \ {kind} : m[k] = n[k]
  BY ExecutedNet DEF FilterState, FilterRequests
<1>2. e.arg = q.arg /\ e.live = q.live
  BY AnsweredFields DEF FilterState, FilterRequests, IsNet
<1>3. FilterRequest(kind, e)
  OBVIOUS
<1> HIDE DEF m, e
<1>4. FilterRequests(m)
  BY <1>1, <1>3 DEF FilterState, FilterRequests
<1>5. \A k \in FilterKinds :
        /\ \A p \in m[k] : \E o \in n[k] : o.arg = p.arg /\ o.live = p.live
        /\ \A o \in n[k] : \E p \in m[k] : o.live = p.live
  BY <1>1, <1>2
<1>6. CountOf(u, m)
  <2>1. /\ \A p \in m["count"] : \E o \in n["count"] : o.arg = p.arg /\ o.live = p.live
        /\ \A o \in n["count"] : \E p \in m["count"] : o.live = p.live
    BY <1>5, FilterKindsAre
  <2> QED
    BY <2>1 DEF FilterState, CountOf
<1>7. FoundOf(u, m)
  <2>1. \A p \in m["rest"] : \E o \in n["rest"] : o.arg = p.arg
    BY <1>5, FilterKindsAre
  <2> QED
    BY <2>1 DEF FilterState, FoundOf
<1> QED
  BY <1>4, <1>6, <1>7 DEF FilterState, m

\* The requests become fewer, but for a count that is awaited.
LEMMA FilterTaking ==
  ASSUME NEW u, NEW n, FilterState(u, n), NEW kind \in FilterKinds, NEW q, kind # "count" \/ ~q.live
  PROVE  FilterState(u, Taking(n, kind, q))
<1> DEFINE m == Taking(n, kind, q)
<1>1. /\ IsNet(m, FilterKinds) /\ m[kind] = n[kind] \ {q}
      /\ \A k \in FilterKinds \ {kind} : m[k] = n[k]
  BY TakingNet DEF FilterState, FilterRequests
<1> HIDE DEF m
<1>2. \A k \in FilterKinds : m[k] \subseteq n[k]
  BY <1>1
<1>3. m["count"] \subseteq n["count"] /\ m["rest"] \subseteq n["rest"]
  BY <1>2, FilterKindsAre
<1>4. FilterRequests(m)
  BY <1>1, <1>2 DEF FilterState, FilterRequests
<1>5. \A p \in n["count"] : p.live => p \in m["count"]
  BY <1>1, FilterKindsAre
<1>6. CountOf(u, m) /\ FoundOf(u, m)
  BY <1>3, <1>5 DEF FilterState, CountOf, FoundOf
<1> QED
  BY <1>4, <1>6 DEF FilterState, m

\* The view changes, and keeps what its requests are about.
LEMMA FilterKept ==
  ASSUME NEW u, NEW v, NEW n, FilterState(u, n), IsFilterUi(v),
         v.open = u.open, v.draft = u.draft, v.count = u.count,
         "count" \in v.busy <=> "count" \in u.busy,
         v.timer = u.timer \/ \E q \in n["count"] : q.live,
         v.found = u.found, v.filter = u.filter, v.narrow = u.narrow
  PROVE  FilterState(v, n)
<1>1. CountOf(v, n)
  BY DEF FilterState, CountOf, Counting
<1>2. FoundOf(v, n) /\ NarrowOf(v)
  BY DEF FilterState, FoundOf, NarrowOf
<1> QED
  BY <1>1, <1>2 DEF FilterState

\* The counts in flight are cancelled, and another is awaited.
LEMMA FilterCancelled ==
  ASSUME NEW n, FilterRequests(n)
  PROVE  LET m == Cancelled(n, "count")
         IN  /\ FilterRequests(m) /\ \A q \in m["count"] : ~q.live
             /\ m["rest"] = n["rest"]
             /\ \A op : InFlight(n, op) /\ op # "count" => InFlight(m, op)
<1> DEFINE m == Cancelled(n, "count")
<1>1. /\ IsNet(m, FilterKinds) /\ \A k \in FilterKinds \ {"count"} : m[k] = n[k]
      /\ \A op : InFlight(n, op) => InFlight(m, op) \/ \E q \in n["count"] : q.live /\ op \in q.ops
  BY FilterKindsAre, CancelledNet DEF FilterRequests
<1>2. \A r \in m["count"] :
        ~r.live /\ \E q \in n["count"] : r.ops = q.ops /\ r.arg = q.arg /\ r.ans = q.ans
  BY FilterKindsAre, CancelledRequests DEF FilterRequests
<1> HIDE DEF m
<1>3. \A q \in n["count"] : FilterRequest("count", q)
  BY FilterKindsAre DEF FilterRequests
<1>4. \A q \in n["count"] : q.ops = {"count"}
  BY <1>3 DEF FilterRequest
<1>5. ASSUME NEW r \in m["count"] PROVE FilterRequest("count", r)
  <2>1. PICK q \in n["count"] : r.ops = q.ops /\ r.arg = q.arg /\ r.ans = q.ans
    BY <1>2
  <2> QED
    BY <1>3, <2>1 DEF FilterRequest, Answer
<1>6. FilterRequests(m)
  BY <1>1, <1>5 DEF FilterRequests
<1>7. \A op : InFlight(n, op) /\ op # "count" => InFlight(m, op)
  BY <1>1, <1>4
<1>8. m["rest"] = n["rest"]
  BY <1>1, FilterKindsAre
<1> QED
  BY <1>2, <1>6, <1>7, <1>8 DEF m

-----------------------------------------------------------------------------
\* The effect on the draft, in a view and with requests that are otherwise as they
\* should be.
LEMMA DraftedState ==
  ASSUME NEW u, IsFilterUi(u), NarrowOf(u), NEW n, FilterRequests(n), FoundOf(u, n),
         AllInFlight(u.busy \ {"count"}, n)
  PROVE  LET v == CountSet(u)
             m == CountsObsolete(u, n)
         IN  FilterState(v, m) /\ AllInFlight(v.busy \ {"count"}, m) /\ v.found = u.found
<1> DEFINE v == CountSet(u)
           m == CountsObsolete(u, n)
<1>1. CASE Counting(u)
  <2>1. v = [Busy(u, {"count"}) EXCEPT !.timer = TRUE] /\ m = Cancelled(n, "count")
    BY <1>1 DEF CountSet, CountsObsolete
  <2>2. /\ IsFilterUi(v) /\ v.busy = u.busy \cup {"count"} /\ v.found = u.found /\ v.timer
        /\ v.narrow = u.narrow /\ v.filter = u.filter
    BY <2>1 DEF IsFilterUi, Busy
  <2> HIDE DEF v, m
  <2>3. /\ FilterRequests(m) /\ \A q \in m["count"] : ~q.live
        /\ m["rest"] = n["rest"]
        /\ \A op : InFlight(n, op) /\ op # "count" => InFlight(m, op)
    BY <2>1, FilterCancelled
  <2>4. CountOf(v, m)
    BY <2>2, <2>3 DEF CountOf
  <2>5. FoundOf(v, m) /\ NarrowOf(v)
    BY <2>2, <2>3 DEF FoundOf, NarrowOf
  <2>6. AllInFlight(v.busy \ {"count"}, m)
    BY <2>2, <2>3 DEF AllInFlight
  <2> QED
    BY <2>2, <2>3, <2>4, <2>5, <2>6 DEF FilterState, v, m
<1>2. CASE ~Counting(u)
  <2>1. v = [u EXCEPT !.count = None, !.timer = FALSE] /\ m = n
    BY <1>2 DEF CountSet, CountsObsolete
  <2>2. /\ IsFilterUi(v) /\ v.busy = u.busy /\ v.found = u.found
        /\ v.open = u.open /\ v.draft = u.draft
        /\ v.narrow = u.narrow /\ v.filter = u.filter
    BY <2>1 DEF IsFilterUi
  <2> HIDE DEF v, m
  <2>3. CountOf(v, m)
    BY <1>2, <2>2 DEF CountOf, Counting
  <2>4. FoundOf(v, m) /\ NarrowOf(v)
    BY <2>1, <2>2 DEF FoundOf, NarrowOf
  <2> QED
    BY <2>1, <2>2, <2>3, <2>4 DEF FilterState, v, m
<1> QED
  BY <1>1, <1>2

LEMMA DraftedStep ==
  ASSUME FilterInv, NEW u, IsFilterUi(u), u.busy = ui.busy, u.found = ui.found, NarrowOf(u),
         Drafted(u)
  PROVE  FilterInv'
<1>1. FilterRequests(net) /\ FoundOf(u, net) /\ AllInFlight(u.busy \ {"count"}, net)
  BY DEF FilterInv, FilterState, FoundOf
<1>2. ui' = CountSet(u) /\ net' = CountsObsolete(u, net)
  BY DEF Drafted
<1> QED
  BY <1>1, <1>2, DraftedState DEF FilterInv

\* The dialog is opened: the effect runs with the draft of before, then with the filter.
LEMMA OpenFilterStep ==
  ASSUME FilterInv, OpenFilter
  PROVE  FilterInv'
<1> DEFINE before == [ui EXCEPT !.open = TRUE, !.count = None]
           u == CountSet(before)
           n == CountsObsolete(before, net)
           after == [u EXCEPT !.draft = ui.filter]
<1>1. ui' = CountSet(after) /\ net' = CountsObsolete(after, n)
  BY DEF OpenFilter
<1>2. IsFilterUi(before) /\ NarrowOf(before) /\ before.busy = ui.busy /\ before.found = ui.found
  BY DEF FilterInv, FilterState, IsFilterUi, NarrowOf
<1> HIDE DEF before
<1>3. FilterRequests(net) /\ FoundOf(before, net) /\ AllInFlight(before.busy \ {"count"}, net)
  BY <1>2 DEF FilterInv, FilterState, FoundOf
<1>4. FilterState(u, n) /\ AllInFlight(u.busy \ {"count"}, n)
  BY <1>2, <1>3, DraftedState
<1> HIDE DEF u, n
<1>5. /\ IsFilterUi(after) /\ NarrowOf(after) /\ FoundOf(after, n)
      /\ FilterRequests(n) /\ after.busy = u.busy
  BY <1>4 DEF FilterState, IsFilterUi, NarrowOf, FoundOf
<1> HIDE DEF after
<1> QED
  BY <1>1, <1>4, <1>5, DraftedState DEF FilterInv

LEMMA DraftStep ==
  ASSUME FilterInv, EditDraft \/ CloseFilter
  PROVE  FilterInv'
<1>a. IsFilterUi(ui) /\ NarrowOf(ui)
  BY DEF FilterInv, FilterState
<1>1. CASE EditDraft
  <2>1. PICK d : Drafted([ui EXCEPT !.draft = d])
    BY <1>1 DEF EditDraft
  <2> DEFINE u == [ui EXCEPT !.draft = d]
  <2>2. IsFilterUi(u) /\ u.busy = ui.busy /\ u.found = ui.found /\ NarrowOf(u)
    BY <1>a DEF IsFilterUi, NarrowOf
  <2>3. Drafted(u)
    BY <2>1
  <2> HIDE DEF u
  <2> QED
    BY <2>2, <2>3, DraftedStep
<1>2. CASE CloseFilter
  <2> DEFINE u == [ui EXCEPT !.open = FALSE]
  <2>1. Drafted(u)
    BY <1>2 DEF CloseFilter
  <2>2. IsFilterUi(u) /\ u.busy = ui.busy /\ u.found = ui.found /\ NarrowOf(u)
    BY <1>a DEF IsFilterUi, NarrowOf
  <2> HIDE DEF u
  <2> QED
    BY <2>1, <2>2, DraftedStep
<1> QED
  BY <1>1, <1>2

\* The count of the draft, and the search that applies it, are asked for; a filter is
\* cleared.
LEMMA FilterAskStep ==
  ASSUME FilterInv, CountTimer \/ ApplyFilter \/ ClearFilter
  PROVE  FilterInv'
<1>a. FilterState(ui, net) /\ IsFilterUi(ui) /\ IsNet(net, FilterKinds)
  BY DEF FilterInv, FilterState, FilterRequests
<1>1. CASE CountTimer
  <2>1. ui' = [ui EXCEPT !.timer = FALSE] /\ net' = Sending(net, "count", {"count"}, ui.draft)
    BY <1>1 DEF CountTimer
  <2>2. /\ IsFilterUi(ui') /\ ui'.busy = ui.busy /\ ui'.open = ui.open /\ ui'.draft = ui.draft
        /\ ui'.count = ui.count
        /\ ui'.found = ui.found /\ ui'.filter = ui.filter /\ ui'.narrow = ui.narrow
    BY <1>a, <2>1 DEF IsFilterUi
  <2>3. FilterState(ui, net')
    BY <1>a, <2>1, FilterSending
  <2>4. \E q \in net'["count"] : q.live
    <3>1. Request({"count"}, ui.draft) \in net'["count"]
      BY <1>a, <2>1, FilterKindsAre, SendingNet
    <3> QED
      BY <3>1, RequestFields
  <2>5. FilterState(ui', net')
    BY <2>2, <2>3, <2>4, FilterKept
  <2>6. AllInFlight(ui'.busy \ {"count"}, net')
    BY <1>a, <2>1, <2>2, FilterKindsAre, EndsSent DEF FilterInv
  <2> QED
    BY <2>5, <2>6 DEF FilterInv
<1>2. CASE ApplyFilter
  <2>1. /\ ui' = Busy(ui, {"apply"}) /\ net' = Sending(net, "first", {"apply"}, ui.draft)
        /\ ui.draft # None
    BY <1>2 DEF ApplyFilter, Ask, Usable
  <2>2. /\ IsFilterUi(ui') /\ ui'.busy = ui.busy \cup {"apply"}
        /\ ui'.open = ui.open /\ ui'.draft = ui.draft
        /\ ui'.count = ui.count /\ ui'.timer = ui.timer
        /\ ui'.found = ui.found /\ ui'.filter = ui.filter /\ ui'.narrow = ui.narrow
    BY <1>a, <2>1 DEF IsFilterUi, Busy
  <2>3. FilterState(ui, net')
    BY <1>a, <2>1, FilterSending
  <2>4. FilterState(ui', net')
    BY <2>2, <2>3, FilterKept
  <2>5. AllInFlight(ui'.busy \ {"count"}, net')
    BY <1>a, <2>1, <2>2, FilterKindsAre, EndsSent DEF FilterInv
  <2> QED
    BY <2>4, <2>5 DEF FilterInv
<1>3. CASE ClearFilter
  <2>1. /\ ui' = [ui EXCEPT !.draft = None, !.count = None, !.timer = FALSE,
                            !.filter = None, !.narrow = None, !.open = FALSE]
        /\ net' = net
    BY <1>3 DEF ClearFilter, Show
  <2>2. /\ IsFilterUi(ui') /\ ui'.busy = ui.busy /\ ~ui'.open
        /\ ui'.found = ui.found /\ ui'.narrow = None
    BY <1>a, <2>1 DEF IsFilterUi
  <2>3. CountOf(ui', net') /\ NarrowOf(ui')
    BY <2>2 DEF CountOf, Counting, NarrowOf
  <2>4. FoundOf(ui', net')
    BY <1>a, <2>1, <2>2 DEF FilterState, FoundOf
  <2>5. AllInFlight(ui'.busy \ {"count"}, net')
    BY <2>1, <2>2 DEF FilterInv
  <2> QED
    BY <1>a, <2>1, <2>2, <2>3, <2>4, <2>5 DEF FilterInv, FilterState
<1> QED
  BY <1>1, <1>2, <1>3

LEMMA FilterServe ==
  ASSUME FilterInv, NEW kind \in FilterKinds, NEW q \in net[kind], NEW ans,
         FilterRequest(kind, [q EXCEPT !.ans = ans]), ui' = ui, net' = Executed(net, kind, q, ans)
  PROVE  FilterInv'
<1>1. FilterState(ui', net')
  BY FilterExecuted DEF FilterInv
<1>2. AllInFlight(ui'.busy \ {"count"}, net')
  BY EndsExecuted DEF FilterInv, FilterState, FilterRequests
<1> QED
  BY <1>1, <1>2 DEF FilterInv

\* A failure is nobody's count and nobody's page.
LEMMA FilterFails ==
  ASSUME FilterInv, NEW kind \in FilterKinds, NEW q \in net[kind],
         ui' = ui, net' = Executed(net, kind, q, Failed)
  PROVE  FilterInv'
<1> DEFINE e == [q EXCEPT !.ans = Failed]
<1>1. FilterRequest(kind, q)
  BY DEF FilterInv, FilterState, FilterRequests
<1>2. e.ops = q.ops /\ e.arg = q.arg /\ e.live = q.live /\ e.ans = Failed
  BY AnsweredFields DEF FilterInv, FilterState, FilterRequests, IsNet
<1> HIDE DEF e
<1>3. FilterRequest(kind, e)
  BY <1>1, <1>2, FilterKindsAre DEF FilterRequest, Answer
<1> QED
  BY <1>3, FilterServe DEF e

LEMMA FilterServeStep ==
  ASSUME FilterInv, ServeCount \/ ServeFirst \/ ServeRest
  PROVE  FilterInv'
<1>a. \A kind \in FilterKinds : \A q \in net[kind] : FilterRequest(kind, q) /\ IsRequest(q)
  BY DEF FilterInv, FilterState, FilterRequests, IsNet
<1>1. CASE ServeCount
  <2>1. PICK q \in net["count"] :
          Serve("count", q, srv, IF Refuses(q.arg) THEN Failed ELSE Cardinality(Matches(q.arg)))
    BY <1>1, PageRequests DEF ServeCount
  <2>2. CASE Refuses(q.arg)
    BY <2>1, <2>2, FilterKindsAre, FilterFails DEF Serve
  <2>3. CASE ~Refuses(q.arg)
    <3> DEFINE ans == Cardinality(Matches(q.arg))
               e == [q EXCEPT !.ans = ans]
    <3>1. ui' = ui /\ net' = Executed(net, "count", q, ans)
      BY <2>1, <2>3 DEF Serve
    <3>2. FilterRequest("count", q)
      BY <1>a, FilterKindsAre
    <3>3. e.ops = q.ops /\ e.arg = q.arg /\ e.ans = ans
      BY <1>a, FilterKindsAre, AnsweredFields
    <3> HIDE DEF e
    <3>4. FilterRequest("count", e)
      BY <3>2, <3>3 DEF FilterRequest
    <3> HIDE DEF ans
    <3> QED
      BY <3>1, <3>4, FilterKindsAre, FilterServe DEF e
  <2> QED
    BY <2>2, <2>3
<1>2. CASE ServeFirst
  <2>1. PICK q \in net["first"] :
          Serve("first", q, srv, IF Refuses(q.arg) THEN Failed
                                 ELSE [total |-> Cardinality(Matches(q.arg)), ids |-> FoundOn(q.arg, 1)])
    BY <1>2, PageRequests DEF ServeFirst
  <2>2. CASE Refuses(q.arg)
    BY <2>1, <2>2, FilterKindsAre, FilterFails DEF Serve
  <2>3. CASE ~Refuses(q.arg)
    <3> DEFINE ans == [total |-> Cardinality(Matches(q.arg)), ids |-> FoundOn(q.arg, 1)]
               e == [q EXCEPT !.ans = ans]
    <3>1. ui' = ui /\ net' = Executed(net, "first", q, ans)
      BY <2>1, <2>3 DEF Serve
    <3>2. FilterRequest("first", q)
      BY <1>a, FilterKindsAre
    <3>3. e.arg = q.arg /\ e.live = q.live /\ e.ans = ans
      BY <1>a, FilterKindsAre, AnsweredFields
    <3> HIDE DEF e
    <3>4. ans.total \in Nat /\ ans.ids \subseteq Matches(q.arg)
      BY MatchesCounted DEF FoundOn
    <3> HIDE DEF ans
    <3>5. FilterRequest("first", e)
      BY <3>2, <3>3, <3>4 DEF FilterRequest
    <3> QED
      BY <3>1, <3>5, FilterKindsAre, FilterServe DEF e
  <2> QED
    BY <2>2, <2>3
<1>3. CASE ServeRest
  <2>1. PICK q \in net["rest"] :
          Serve("rest", q, srv, IF Refuses(q.arg.filter) THEN Failed ELSE FoundOn(q.arg.filter, q.arg.page))
    BY <1>3, PageRequests DEF ServeRest
  <2>2. CASE Refuses(q.arg.filter)
    BY <2>1, <2>2, FilterKindsAre, FilterFails DEF Serve
  <2>3. CASE ~Refuses(q.arg.filter)
    <3> DEFINE ans == FoundOn(q.arg.filter, q.arg.page)
               e == [q EXCEPT !.ans = ans]
    <3>1. ui' = ui /\ net' = Executed(net, "rest", q, ans)
      BY <2>1, <2>3 DEF Serve
    <3>2. FilterRequest("rest", q)
      BY <1>a, FilterKindsAre
    <3>3. e.ops = q.ops /\ e.arg = q.arg /\ e.live = q.live /\ e.ans = ans
      BY <1>a, FilterKindsAre, AnsweredFields
    <3> HIDE DEF e
    <3>4. ans \subseteq Matches(q.arg.filter)
      BY DEF FoundOn
    <3> HIDE DEF ans
    <3>5. FilterRequest("rest", e)
      BY <3>2, <3>3, <3>4 DEF FilterRequest
    <3> QED
      BY <3>1, <3>5, FilterKindsAre, FilterServe DEF e
  <2> QED
    BY <2>2, <2>3
<1> QED
  BY <1>1, <1>2, <1>3

LEMMA CountArrivesStep ==
  ASSUME FilterInv, CountArrives
  PROVE  FilterInv'
<1>a. FilterState(ui, net) /\ IsFilterUi(ui) /\ FilterRequests(net) /\ IsNet(net, FilterKinds)
  BY DEF FilterInv, FilterState, FilterRequests
<1>1. PICK q \in net["count"] :
        /\ q.ans # None /\ q.live
        /\ Take("count", q, [ui EXCEPT !.count = IF Refused(q) THEN None ELSE q.ans])
  BY PageRequests DEF CountArrives
<1> DEFINE count == IF Refused(q) THEN None ELSE q.ans
           u == [ui EXCEPT !.count = count]
<1>2. ui' = Free(u, q.ops) /\ net' = Taking(net, "count", q)
  BY <1>1 DEF Take
<1>3. FilterRequest("count", q)
  BY FilterKindsAre DEF FilterInv, FilterState, FilterRequests
<1>4. q.ops = {"count"} /\ (count = None \/ count = Cardinality(Matches(q.arg)))
  BY <1>1, <1>3 DEF FilterRequest, Answer, Refused
<1> HIDE DEF count
<1>5. /\ IsFilterUi(ui') /\ ui'.busy = ui.busy \ {"count"} /\ ui'.open = ui.open /\ ui'.draft = ui.draft
      /\ ui'.count = count /\ ui'.found = ui.found /\ ui'.filter = ui.filter /\ ui'.narrow = ui.narrow
  <2>1. /\ IsFilterUi(u) /\ u.busy = ui.busy /\ u.open = ui.open /\ u.draft = ui.draft
        /\ u.count = count /\ u.found = ui.found /\ u.filter = ui.filter /\ u.narrow = ui.narrow
    BY <1>a DEF IsFilterUi
  <2>2. ui' = [u EXCEPT !.busy = @ \ {"count"}]
    BY <1>2, <1>4 DEF Free
  <2> HIDE DEF u
  <2> QED
    BY <2>1, <2>2 DEF IsFilterUi
<1>6. /\ IsNet(net', FilterKinds) /\ net'["count"] = net["count"] \ {q}
      /\ \A k \in FilterKinds \ {"count"} : net'[k] = net[k]
  <2> DEFINE n == Taking(net, "count", q)
  <2>0. IsNet(net, FilterKinds) /\ "count" \in FilterKinds
    BY <1>a, FilterKindsAre
  <2>1. /\ IsNet(n, FilterKinds) /\ n["count"] = net["count"] \ {q}
        /\ \A k \in FilterKinds \ {"count"} : n[k] = net[k]
    BY <2>0, TakingNet
  <2>2. net' = n
    BY <1>2
  <2> QED
    BY <2>1, <2>2
<1>7. FilterRequests(net')
  BY <1>6, <1>a, FilterKindsAre DEF FilterRequests
<1>8. CountOf(ui', net')
  <2> SUFFICES ASSUME Counting(ui)
               PROVE  /\ \A r \in net'["count"] : r.live => r.arg = ui.draft
                      /\ count # None => count = Cardinality(Matches(ui.draft))
    BY <1>5 DEF CountOf, Counting
  <2>1. \A r \in net["count"] : r.live => r.arg = ui.draft
    BY <1>a DEF FilterState, CountOf
  <2> QED
    BY <1>1, <1>4, <1>6, <2>1
<1>9. FoundOf(ui', net') /\ NarrowOf(ui')
  <2>1. net'["rest"] = net["rest"]
    BY <1>6, FilterKindsAre
  <2> QED
    BY <1>5, <1>a, <2>1 DEF FilterState, FoundOf, NarrowOf
<1>10. AllInFlight(ui'.busy \ {"count"}, net')
  BY <1>2, <1>4, <1>5, <1>a, FilterKindsAre, EndsTaken DEF FilterInv
<1> QED
  BY <1>5, <1>7, <1>8, <1>9, <1>10 DEF FilterInv, FilterState

\* A filter comes into force with what it found, and the dialog is closed.
LEMMA AppliedStep ==
  ASSUME FilterInv, NEW kind \in {"first", "rest"}, NEW q \in net[kind], NEW filter, filter # None,
         NEW ids, ids \subseteq Matches(filter), Take(kind, q, Applied(ui, filter, ids))
  PROVE  FilterInv'
<1>a. FilterState(ui, net) /\ IsFilterUi(ui)
  BY DEF FilterInv, FilterState
<1> DEFINE u == Applied(ui, filter, ids)
<1>1. ui' = Free(u, q.ops) /\ net' = Taking(net, kind, q)
  BY DEF Take
<1>2. /\ IsFilterUi(u) /\ u.busy \subseteq {"count"} /\ ~u.open /\ u.found = {} /\ u.filter = filter
      /\ u.narrow = None \/ u.narrow = ids
  BY <1>a DEF IsFilterUi, Applied, Free
<1> HIDE DEF u
<1>3. /\ IsFilterUi(ui') /\ ui'.busy \subseteq {"count"} /\ ~ui'.open /\ ui'.found = {} /\ ui'.filter = filter
      /\ ui'.narrow = None \/ ui'.narrow = ids
  BY <1>1, <1>2 DEF IsFilterUi, Free
<1>4. FilterState(ui, net')
  BY <1>1, <1>a, FilterKindsAre, FilterTaking
<1>5. CountOf(ui', net') /\ NarrowOf(ui')
  BY <1>3 DEF CountOf, Counting, NarrowOf
<1>6. FoundOf(ui', net')
  BY <1>3, <1>4 DEF FilterState, FoundOf
<1>7. AllInFlight(ui'.busy \ {"count"}, net')
  BY <1>3 DEF AllInFlight
<1> QED
  BY <1>3, <1>4, <1>5, <1>6, <1>7 DEF FilterInv, FilterState

\* The first page: the others are asked for, if there are any.
LEMMA FirstArrivesStep ==
  ASSUME FilterInv, FirstArrives
  PROVE  FilterInv'
<1>a. FilterState(ui, net) /\ IsFilterUi(ui) /\ FilterRequests(net)
  BY DEF FilterInv, FilterState
<1>1. PICK q \in net["first"] :
        /\ q.ans # None
        /\ IF Refused(q) \/ PagesRead(q.ans.total) < 2
           THEN Take("first", q, Applied(ui, q.arg, IF Refused(q) THEN {} ELSE q.ans.ids))
           ELSE /\ ui' = [ui EXCEPT !.found = q.ans.ids]
                /\ net' = [Taking(net, "first", q) EXCEPT !["rest"] = RestOf(q.arg, q.ans.total)]
  BY PageRequests DEF FirstArrives
<1>2. FilterRequest("first", q)
  BY <1>a, FilterKindsAre DEF FilterRequests
<1>3. q.arg # None /\ (~Refused(q) => q.ans.total \in Nat /\ q.ans.ids \subseteq Matches(q.arg))
  BY <1>1, <1>2 DEF FilterRequest, Answer, Refused
<1>4. CASE Refused(q) \/ PagesRead(q.ans.total) < 2
  <2> DEFINE ids == IF Refused(q) THEN {} ELSE q.ans.ids
  <2>1. ids \subseteq Matches(q.arg)
    BY <1>3
  <2>2. Take("first", q, Applied(ui, q.arg, ids))
    BY <1>1, <1>4
  <2> HIDE DEF ids
  <2> QED
    BY <1>3, <2>1, <2>2, FilterKindsAre, AppliedStep
<1>5. CASE ~(Refused(q) \/ PagesRead(q.ans.total) < 2)
  <2> DEFINE n == Taking(net, "first", q)
             rest == RestOf(q.arg, q.ans.total)
  <2>1. ui' = [ui EXCEPT !.found = q.ans.ids] /\ net' = [n EXCEPT !["rest"] = rest]
    BY <1>1, <1>5
  <2>2. FilterState(ui, n)
    BY <1>a, FilterKindsAre, FilterTaking
  <2>3. \A r \in rest : /\ IsRequest(r) /\ r.live /\ r.ops = {"apply"} /\ r.ans = None
                        /\ r.arg.filter = q.arg
    <3> TAKE r \in rest
    <3>1. PICK p \in 2 .. PagesRead(q.ans.total) : r = Request({"apply"}, [filter |-> q.arg, page |-> p])
      BY DEF RestOf
    <3> QED
      BY <3>1, RequestFields
  <2>4. PICK r \in rest : TRUE
    BY <1>3, <1>5, RestIsAsked
  <2> HIDE DEF n, rest
  <2>5. /\ net' = [k \in FilterKinds |-> net'[k]] /\ net'["rest"] = rest
        /\ \A k \in FilterKinds \ {"rest"} : net'[k] = n[k]
    BY <2>1, <2>2, FilterKindsAre DEF FilterState, FilterRequests, IsNet
  <2>6. \A p \in rest : FilterRequest("rest", p)
    BY <1>3, <2>3 DEF FilterRequest, Answer
  <2>7. FilterRequests(net')
    BY <2>2, <2>3, <2>5, <2>6 DEF FilterState, FilterRequests, IsNet
  <2>8. /\ IsFilterUi(ui') /\ ui'.busy = ui.busy /\ ui'.open = ui.open /\ ui'.draft = ui.draft
        /\ ui'.count = ui.count /\ ui'.timer = ui.timer /\ ui'.found = q.ans.ids
        /\ ui'.filter = ui.filter /\ ui'.narrow = ui.narrow
    BY <1>a, <2>1 DEF IsFilterUi
  <2>9. CountOf(ui', net')
    BY <2>2, <2>5, <2>8, FilterKindsAre DEF FilterState, CountOf, Counting
  <2>10. FoundOf(ui', net')
    BY <1>3, <1>5, <2>3, <2>5, <2>8 DEF FoundOf
  <2>11. NarrowOf(ui')
    BY <2>2, <2>8 DEF FilterState, NarrowOf
  <2>12. AllInFlight(ui'.busy \ {"count"}, net')
    <3>1. r \in net'["rest"] /\ r.live /\ r.ops = {"apply"} /\ "rest" \in DOMAIN net'
      BY <2>3, <2>5, FilterKindsAre
    <3>2. ui'.busy \ {"count"} \subseteq {"apply"}
      BY <2>8 DEF IsFilterUi
    <3> QED
      BY <3>1, <3>2 DEF AllInFlight, InFlight
  <2> QED
    BY <2>7, <2>8, <2>9, <2>10, <2>11, <2>12 DEF FilterInv, FilterState
<1> QED
  BY <1>4, <1>5

\* Another page: it is the last one, or the button waits for those still in flight.
LEMMA RestArrivesStep ==
  ASSUME FilterInv, RestArrives
  PROVE  FilterInv'
<1>a. FilterState(ui, net) /\ IsFilterUi(ui) /\ FilterRequests(net) /\ FoundOf(ui, net)
  BY DEF FilterInv, FilterState
<1>1. PICK q \in net["rest"] :
        /\ q.ans # None
        /\ LET found == ui.found \cup (IF Refused(q) THEN {} ELSE q.ans)
           IN IF net["rest"] = {q} THEN Take("rest", q, Applied(ui, q.arg.filter, found))
              ELSE /\ ui' = [ui EXCEPT !.found = found]
                   /\ net' = Taking(net, "rest", q)
  BY PageRequests DEF RestArrives
<1> DEFINE found == ui.found \cup (IF Refused(q) THEN {} ELSE q.ans)
<1>2. \A r \in net["rest"] : FilterRequest("rest", r)
  BY <1>a, FilterKindsAre DEF FilterRequests
<1>3. q.arg.filter # None /\ (Refused(q) \/ q.ans \subseteq Matches(q.arg.filter))
  BY <1>1, <1>2 DEF FilterRequest, Answer, Refused
<1>4. found \subseteq Matches(q.arg.filter)
  BY <1>3, <1>a DEF FoundOf
<1>5. IF net["rest"] = {q} THEN Take("rest", q, Applied(ui, q.arg.filter, found))
      ELSE ui' = [ui EXCEPT !.found = found] /\ net' = Taking(net, "rest", q)
  BY <1>1
<1> HIDE DEF found
<1>6. CASE net["rest"] = {q}
  BY <1>3, <1>4, <1>5, <1>6, FilterKindsAre, AppliedStep
<1>7. CASE net["rest"] # {q}
  <2>1. ui' = [ui EXCEPT !.found = found] /\ net' = Taking(net, "rest", q)
    BY <1>5, <1>7
  <2>2. PICK r \in net["rest"] : r # q
    BY <1>7
  <2>3. FilterState(ui, net')
    BY <1>a, <2>1, FilterKindsAre, FilterTaking
  <2>4. net'["rest"] = net["rest"] \ {q} /\ IsNet(net', FilterKinds)
    <3> DEFINE n == Taking(net, "rest", q)
    <3>1. IsNet(net, FilterKinds) /\ "rest" \in FilterKinds
      BY <1>a, FilterKindsAre DEF FilterRequests
    <3>2. n["rest"] = net["rest"] \ {q} /\ IsNet(n, FilterKinds)
      BY <3>1, TakingNet
    <3>3. net' = n
      BY <2>1
    <3> QED
      BY <3>2, <3>3
  <2>5. /\ IsFilterUi(ui') /\ ui'.busy = ui.busy /\ ui'.open = ui.open /\ ui'.draft = ui.draft
        /\ ui'.count = ui.count /\ ui'.timer = ui.timer /\ ui'.found = found
        /\ ui'.filter = ui.filter /\ ui'.narrow = ui.narrow
    BY <1>a, <2>1 DEF IsFilterUi
  <2>6. CountOf(ui', net')
    BY <2>3, <2>5 DEF FilterState, CountOf, Counting
  <2>7. NarrowOf(ui')
    BY <2>3, <2>5 DEF FilterState, NarrowOf
  <2>8. FoundOf(ui', net')
    BY <1>4, <1>a, <2>4, <2>5 DEF FoundOf
  <2>9. AllInFlight(ui'.busy \ {"count"}, net')
    <3>1. r \in net'["rest"] /\ "rest" \in DOMAIN net'
      BY <2>2, <2>4, FilterKindsAre DEF IsNet
    <3>2. r.live /\ r.ops = {"apply"}
      BY <1>2 DEF FilterRequest
    <3>3. ui'.busy \ {"count"} \subseteq {"apply"}
      BY <2>5 DEF IsFilterUi
    <3> QED
      BY <3>1, <3>2, <3>3 DEF AllInFlight, InFlight
  <2> QED
    BY <2>3, <2>5, <2>6, <2>7, <2>8, <2>9 DEF FilterInv, FilterState
<1> QED
  BY <1>6, <1>7

-----------------------------------------------------------------------------
LEMMA FilterInit == FilterStart => FilterInv
<1> SUFFICES ASSUME FilterStart PROVE FilterInv
  OBVIOUS
<1>1. IsNet(net, FilterKinds) /\ \A kind \in FilterKinds : net[kind] = {}
  BY DEF FilterStart, IsNet
<1>2. IsFilterUi(ui) /\ ui.busy = {} /\ ~ui.open /\ ui.narrow = None
  BY DEF FilterStart, IsFilterUi
<1>3. FilterRequests(net) /\ FoundOf(ui, net)
  BY <1>1, FilterKindsAre DEF FilterRequests, FoundOf
<1>4. CountOf(ui, net) /\ NarrowOf(ui)
  BY <1>2 DEF CountOf, Counting, NarrowOf
<1> QED
  BY <1>2, <1>3, <1>4 DEF FilterInv, FilterState, AllInFlight

LEMMA FilterInvNext ==
  ASSUME FilterInv, [FilterNext \/ Discard \/ Fail]_vars
  PROVE  FilterInv'
<1>a. IsNet(net, FilterKinds) /\ FilterState(ui, net)
  BY DEF FilterInv, FilterState, FilterRequests
<1>1. CASE UNCHANGED vars
  BY <1>1 DEF FilterInv, vars
<1>2. CASE Discard
  <2>1. PICK kind \in FilterKinds : \E q \in net[kind] : ~q.live /\ net' = Taking(net, kind, q)
    BY <1>2, <1>a, DiscardedRequest
  <2>2. PICK q \in net[kind] : ~q.live /\ net' = Taking(net, kind, q)
    BY <2>1
  <2>3. ui' = ui
    BY <1>2, <1>a, DiscardedRequest
  <2>4. FilterState(ui', net')
    BY <1>a, <2>2, <2>3, FilterTaking
  <2>5. AllInFlight(ui'.busy \ {"count"}, net')
    BY <1>a, <2>2, <2>3, EndsTaken DEF FilterInv
  <2> QED
    BY <2>4, <2>5 DEF FilterInv
<1>3. CASE Fail
  <2>1. PICK kind \in FilterKinds : \E q \in net[kind] : net' = Executed(net, kind, q, Failed)
    BY <1>3, <1>a, FailedRequest
  <2>2. ui' = ui
    BY <1>3, <1>a, FailedRequest
  <2> QED
    BY <2>1, <2>2, FilterFails
<1> QED
  BY <1>1, <1>2, <1>3, OpenFilterStep, DraftStep, FilterAskStep, FilterServeStep, CountArrivesStep,
     FirstArrivesStep, RestArrivesStep DEF FilterNext

\* What is busy without a request is the count that the code leaves on.
LEMMA FilterInvEnds ==
  ASSUME FilterInv, At("filter")
  PROVE  ControlsEndBut(CountLasts)
<1>a. FilterRequests(net) /\ CountOf(ui, net) /\ IsNet(net, FilterKinds)
  BY DEF FilterInv, FilterState, FilterRequests
<1> SUFFICES ASSUME NEW op \in ui.busy \ CountLasts
             PROVE  InFlight(net, op)
  BY DEF ControlsEndBut, InFlight
<1>1. CASE op # "count"
  BY <1>1 DEF FilterInv, AllInFlight
<1>2. CASE op = "count"
  <2>1. ~ui.timer /\ Counting(ui)
    BY <1>2 DEF CountLasts
  <2>2. PICK q \in net["count"] : q.live
    BY <1>2, <1>a, <2>1 DEF CountOf
  <2>3. FilterRequest("count", q) /\ "count" \in DOMAIN net
    BY <1>a, FilterKindsAre DEF FilterRequests, IsNet
  <2> QED
    BY <1>2, <2>2, <2>3 DEF FilterRequest, InFlight
<1> QED
  BY <1>1, <1>2

-----------------------------------------------------------------------------
(* The task activity *)

IsList(s) == \E S : s \in Seq(S)

\* FlattenSeq is what the function that concatenates step by step ends with: the
\* least place where two such functions differ would be no place.
Concatenates(f, seqs, n) == f = [i \in 1 .. n |-> IF i = 1 THEN seqs[i] ELSE f[i - 1] \o seqs[i]]

LEMMA Flattening ==
  ASSUME NEW n \in Nat \ {0}, NEW T, NEW seqs \in [1 .. n -> Seq(T)], NEW f, Concatenates(f, seqs, n)
  PROVE  FlattenSeq(seqs) = f[n]
<1> DEFINE Flat(x) == x = [i \in 1 .. n |-> IF i = 1 THEN seqs[i] ELSE x[i - 1] \o seqs[i]]
           g == CHOOSE x : Flat(x)
<1>1. Len(seqs) = n
  OBVIOUS
<1>2. FlattenSeq(seqs) = g[n]
  BY <1>1 DEF FlattenSeq
<1>3. Flat(f)
  BY DEF Concatenates
<1>4. Flat(g)
  <2> HIDE DEF Flat
  <2> QED
    BY <1>3
<1> HIDE DEF g
<1>5. \A i \in 1 .. n : g[i] = IF i = 1 THEN seqs[i] ELSE g[i - 1] \o seqs[i]
  BY <1>4
<1>6. \A i \in 1 .. n : f[i] = IF i = 1 THEN seqs[i] ELSE f[i - 1] \o seqs[i]
  BY <1>3
<1> HIDE DEF Flat
<1>7. ASSUME g[n] # f[n] PROVE FALSE
  <2> DEFINE S == {i \in 1 .. n : g[i] # f[i]}
  <2>1. S \subseteq Nat /\ n \in S
    BY <1>7
  <2> HIDE DEF S
  <2>2. PICK m \in S : \A k \in S : m <= k
    BY <2>1, LeastNatural
  <2>3. m \in 1 .. n /\ g[m] # f[m]
    BY <2>2 DEF S
  <2>4. m # 1
    BY <2>3, <1>5, <1>6
  <2>5. m - 1 \in 1 .. n /\ m - 1 \notin S
    BY <2>2, <2>3, <2>4
  <2>6. g[m - 1] = f[m - 1]
    BY <2>5 DEF S
  <2> QED
    BY <1>5, <1>6, <2>3, <2>4, <2>6
<1> QED
  BY <1>2, <1>7

\* Parts of a list each of which begins where the one before ends, the last at the
\* end, make up the list; part i ends at h[i].
PartsOf(s, n, h, seqs) ==
  /\ h \in [0 .. n -> 0 .. Len(s)] /\ h[0] = 0 /\ h[n] = Len(s)
  /\ \A i \in 1 .. n : h[i - 1] <= h[i]
  /\ seqs = [i \in 1 .. n |-> SubSeq(s, h[i - 1] + 1, h[i])]

LEMMA Gathered ==
  ASSUME NEW T, NEW s \in Seq(T), NEW n \in Nat \ {0}, NEW h, NEW seqs, PartsOf(s, n, h, seqs)
  PROVE  FlattenSeq(seqs) = s
<1> SUFFICES ASSUME h \in [0 .. n -> 0 .. Len(s)], h[0] = 0, h[n] = Len(s),
                    \A i \in 1 .. n : h[i - 1] <= h[i],
                    seqs = [i \in 1 .. n |-> SubSeq(s, h[i - 1] + 1, h[i])]
             PROVE  FlattenSeq(seqs) = s
  BY DEF PartsOf
<1> DEFINE f == [i \in 1 .. n |-> SubSeq(s, 1, h[i])]
<1>1. \A i \in 1 .. n : i - 1 \in 0 .. n /\ i \in 0 .. n
  OBVIOUS
<1>2. \A i \in 1 .. n : h[i - 1] \in 0 .. Len(s) /\ h[i] \in h[i - 1] .. Len(s)
  BY <1>1, SMTT(30)
<1>3. ASSUME NEW i \in 1 .. n PROVE seqs[i] \in Seq(T)
  <2> DEFINE a == h[i - 1] + 1
             b == h[i]
  <2>1. a \in Int /\ b \in Int /\ a >= 1 /\ b <= Len(s) /\ Len(s) \in Nat
    BY <1>2
  <2>2. seqs[i] = SubSeq(s, a, b)
    OBVIOUS
  <2> HIDE DEF a, b
  <2>3. \A j \in a .. b : s[j] \in T
    <3>1. \A j \in a .. b : j \in 1 .. Len(s)
      BY <2>1
    <3> QED
      BY <3>1
  <2>4. SubSeq(s, a, b) \in Seq(T)
    BY <2>1, <2>3, SubSeqProperties
  <2> QED
    BY <2>2, <2>4
<1>4. seqs \in [1 .. n -> Seq(T)]
  BY <1>3
<1>5. ASSUME NEW i \in 1 .. n, i # 1 PROVE f[i] = f[i - 1] \o seqs[i]
  <2> DEFINE k == h[i - 1]
             m == h[i]
  <2>0. i - 1 \in 1 .. n
    BY <1>5
  <2>1. k \in 0 .. Len(s) /\ m \in k .. Len(s) /\ i - 1 \in 1 .. n
    BY ONLY <1>2, <2>0, i \in 1 .. n
  <2>2. f[i - 1] = SubSeq(s, 1, k) /\ seqs[i] = SubSeq(s, k + 1, m) /\ f[i] = SubSeq(s, 1, m)
    BY <2>1
  <2> HIDE DEF k, m, f
  <2>3. 1 \in 1 .. Len(s) + 1 /\ k \in 1 - 1 .. Len(s)
    BY <2>1
  <2>4. SubSeq(s, 1, k) \o SubSeq(s, k + 1, m) = SubSeq(s, 1, m)
    BY <2>1, <2>3, ConcatAdjacentSubSeq
  <2> QED
    BY <2>2, <2>4
<1>6. f[1] = seqs[1]
  BY <1>1
<1>7. Concatenates(f, seqs, n)
  <2> DEFINE g == [i \in 1 .. n |-> IF i = 1 THEN seqs[i] ELSE f[i - 1] \o seqs[i]]
  <2>1. f = [i \in 1 .. n |-> f[i]]
    OBVIOUS
  <2> HIDE DEF f
  <2>2. \A i \in 1 .. n : f[i] = g[i]
    BY <1>5, <1>6
  <2> QED
    BY <2>1, <2>2 DEF Concatenates
<1>8. f[n] = s
  BY SubSeqFull
<1> HIDE DEF f
<1> QED
  BY <1>4, <1>7, <1>8, Flattening

LEMMA LeastOfTwo ==
  ASSUME NEW a \in Int, NEW b \in Int
  PROVE  Min({a, b}) = IF a <= b THEN a ELSE b
<1>1. \E x \in {a, b} : \A y \in {a, b} : x <= y
  OBVIOUS
<1>2. Min({a, b}) \in {a, b} /\ \A y \in {a, b} : Min({a, b}) <= y
  BY <1>1 DEF Min
<1> QED
  BY <1>2

\* The last page is the one that reaches the end.
LEMMA PagesReachEnd ==
  ASSUME NEW n \in Nat
  PROVE  /\ TotalPages(n) \in Nat \ {0}
         /\ n <= TotalPages(n) * RowsPerPage
         /\ (TotalPages(n) - 1) * RowsPerPage <= n
         /\ n > 0 => (TotalPages(n) - 1) * RowsPerPage < n
<1>1. RowsPerPage \in Nat \ {0}
  BY AgentsTasksAssumption
<1>2. CASE n = 0
  BY <1>1, <1>2 DEF TotalPages
<1>3. CASE n # 0
  <2> DEFINE t == (n + RowsPerPage - 1) \div RowsPerPage
  <2>1. TotalPages(n) = t
    BY <1>3 DEF TotalPages, CeilDiv
  <2>2. t \in Int /\ t * RowsPerPage <= n + RowsPerPage - 1 /\ n + RowsPerPage - 1 < t * RowsPerPage + RowsPerPage
    BY <1>1
  <2> HIDE DEF t
  <2>3. (t - 1) * RowsPerPage = t * RowsPerPage - RowsPerPage
    BY <1>1, <2>2
  <2>4. t > 0
    BY <1>1, <1>3, <2>2
  <2> QED
    BY <1>1, <1>3, <2>1, <2>2, <2>3, <2>4
<1> QED
  BY <1>2, <1>3

\* Where page p of a list of n rows ends.
PageEnd(n, p) == Min({p * RowsPerPage, n})

LEMMA PageEnds ==
  ASSUME NEW n \in Nat
  PROVE  /\ PageEnd(n, 0) = 0 /\ PageEnd(n, TotalPages(n)) = n
         /\ \A p \in 0 .. TotalPages(n) : PageEnd(n, p) \in 0 .. n
         /\ \A p \in 1 .. TotalPages(n) :
              PageEnd(n, p - 1) = (p - 1) * RowsPerPage /\ PageEnd(n, p - 1) <= PageEnd(n, p)
<1> DEFINE t == TotalPages(n)
<1>1. RowsPerPage \in Nat \ {0}
  BY AgentsTasksAssumption
<1>2. t \in Nat \ {0} /\ n <= t * RowsPerPage /\ (t - 1) * RowsPerPage <= n
  BY PagesReachEnd
<1> HIDE DEF t
<1>3. \A p \in Nat : p * RowsPerPage \in Nat
  BY <1>1
<1>4. \A p \in Nat : PageEnd(n, p) = IF p * RowsPerPage <= n THEN p * RowsPerPage ELSE n
  BY <1>3, LeastOfTwo DEF PageEnd
<1>5. ASSUME NEW p \in 1 .. t
      PROVE  PageEnd(n, p - 1) = (p - 1) * RowsPerPage /\ PageEnd(n, p - 1) <= PageEnd(n, p)
  <2> DEFINE a == p - 1
             b == t - 1
  <2>1. a \in Nat /\ b \in Nat /\ a <= b /\ p = a + 1 /\ p \in Nat
    BY <1>2
  <2> HIDE DEF a, b
  <2>2. a * RowsPerPage <= b * RowsPerPage /\ p * RowsPerPage = a * RowsPerPage + RowsPerPage
    BY <1>1, <2>1
  <2>3. b * RowsPerPage <= n
    BY <1>2 DEF b
  <2>4. a * RowsPerPage <= n
    BY <1>3, <2>1, <2>2, <2>3
  <2>5. PageEnd(n, a) = a * RowsPerPage
    BY <1>4, <2>1, <2>4
  <2>6. PageEnd(n, a) <= PageEnd(n, p)
    BY <1>1, <1>3, <1>4, <2>1, <2>2, <2>4, <2>5
  <2> QED
    BY <2>5, <2>6 DEF a
<1>6. PageEnd(n, 0) = 0
  BY <1>1, <1>4
<1>7. PageEnd(n, t) = n
  BY <1>2, <1>3, <1>4
<1>8. \A p \in 0 .. t : PageEnd(n, p) \in 0 .. n
  BY <1>3, <1>4
<1> QED
  BY <1>5, <1>6, <1>7, <1>8 DEF t

LEMMA PageIs ==
  ASSUME NEW T, NEW s \in Seq(T), NEW p \in 1 .. TotalPages(Len(s))
  PROVE  PageOf(s, p) = SubSeq(s, PageEnd(Len(s), p - 1) + 1, PageEnd(Len(s), p))
<1>1. PageEnd(Len(s), p - 1) = (p - 1) * RowsPerPage
  BY PageEnds
<1> QED
  BY <1>1 DEF PageOf, PageEnd

LEMMA PagesMakeUpList ==
  ASSUME NEW T, NEW s \in Seq(T)
  PROVE  FlattenSeq([p \in 1 .. TotalPages(Len(s)) |-> PageOf(s, p)]) = s
<1> DEFINE n == Len(s)
           t == TotalPages(n)
           h == [p \in 0 .. t |-> PageEnd(n, p)]
           seqs == [p \in 1 .. t |-> PageOf(s, p)]
<1>1. t \in Nat \ {0}
  BY PagesReachEnd
<1>2. \A p \in 1 .. t : p - 1 \in 0 .. t /\ p \in 0 .. t
  BY <1>1
<1>3. /\ h \in [0 .. t -> 0 .. n] /\ h[0] = 0 /\ h[t] = n
      /\ \A p \in 1 .. t : h[p - 1] <= h[p]
  <2>1. 0 \in 0 .. t /\ t \in 0 .. t
    BY <1>1
  <2> HIDE DEF t
  <2> QED
    BY <1>2, <2>1, PageEnds DEF t
<1>4. \A p \in 1 .. t : seqs[p] = SubSeq(s, h[p - 1] + 1, h[p])
  BY <1>2, PageIs
<1>5. seqs = [p \in 1 .. t |-> SubSeq(s, h[p - 1] + 1, h[p])]
  BY <1>4
<1> HIDE DEF t, h, seqs
<1>6. FlattenSeq(seqs) = s
  <2>1. PartsOf(s, t, h, seqs)
    BY <1>3, <1>5 DEF PartsOf, n
  <2> QED
    BY <1>1, <2>1, Gathered
<1> QED
  BY <1>6 DEF seqs, t, n

\* The cover of the report is a page without rows.
LEMMA ReportMakesUpLog ==
  ASSUME NEW n \in Nat
  PROVE  FlattenSeq(ReportPages(n)) = [i \in 1 .. n |-> i]
<1> DEFINE s == [i \in 1 .. n |-> i]
           t == TotalPages(n)
           pages == [p \in 1 .. t |-> PageOf(s, p)]
           h == [p \in 0 .. t + 1 |-> IF p = 0 THEN 0 ELSE PageEnd(n, p - 1)]
<1>1. s \in Seq(Nat) /\ Len(s) = n
  OBVIOUS
<1>2. ReportPages(n) = <<<<>>>> \o pages
  BY DEF ReportPages, LedgerPages, TotalPages
<1>3. t \in Nat \ {0} /\ t + 1 \in Nat \ {0}
  BY PagesReachEnd
<1>4. /\ PageEnd(n, 0) = 0 /\ PageEnd(n, t) = n
      /\ \A p \in 0 .. t : PageEnd(n, p) \in 0 .. n
      /\ \A p \in 1 .. t : PageEnd(n, p - 1) <= PageEnd(n, p)
  BY PageEnds
<1>5. \A p \in 1 .. t : PageOf(s, p) = SubSeq(s, PageEnd(n, p - 1) + 1, PageEnd(n, p))
  BY <1>1, PageIs
<1> HIDE DEF s, t
<1>6. ASSUME NEW i \in 1 .. t + 1
      PROVE  (<<<<>>>> \o pages)[i] = SubSeq(s, h[i - 1] + 1, h[i])
  <2>1. i \in 0 .. t + 1 /\ i - 1 \in 0 .. t + 1
    BY <1>3
  <2>2. CASE i = 1
    <3>1. h[0] = 0 /\ h[1] = 0
      BY <1>3, <1>4
    <3>2. SubSeq(s, 1, 0) = <<>>
      BY <1>1
    <3> QED
      BY <1>3, <2>2, <3>1, <3>2
  <2>3. CASE i # 1
    <3>1. i - 1 \in 1 .. t /\ i - 1 # 0 /\ i # 0
      BY <1>3, <2>3
    <3>2. (<<<<>>>> \o pages)[i] = PageOf(s, i - 1)
      BY <1>3, <2>3, <3>1
    <3>3. h[i - 1] = PageEnd(n, (i - 1) - 1) /\ h[i] = PageEnd(n, i - 1)
      BY <2>1, <3>1
    <3> QED
      BY <1>5, <3>1, <3>2, <3>3
  <2> QED
    BY <2>2, <2>3
<1>7. h \in [0 .. t + 1 -> 0 .. Len(s)] /\ h[0] = 0 /\ h[t + 1] = Len(s)
  <2>1. ASSUME NEW p \in 0 .. t + 1 PROVE h[p] \in 0 .. n
    <3>1. CASE p = 0
      BY <3>1
    <3>2. CASE p # 0
      <4>1. p - 1 \in 0 .. t
        BY <1>3, <3>2
      <4> QED
        BY <1>4, <3>2, <4>1
    <3> QED
      BY <3>1, <3>2
  <2>2. h[0] = 0 /\ h[t + 1] = PageEnd(n, (t + 1) - 1)
    BY <1>3
  <2>3. (t + 1) - 1 = t
    BY <1>3
  <2> QED
    BY <1>1, <1>4, <2>1, <2>2, <2>3
<1>8. ASSUME NEW i \in 1 .. t + 1 PROVE h[i - 1] <= h[i]
  <2>1. CASE i = 1
    BY <1>3, <1>4, <2>1
  <2>2. CASE i # 1
    <3>1. i - 1 \in 1 .. t /\ i - 1 \in 0 .. t + 1 /\ i \in 0 .. t + 1 /\ i # 0 /\ i - 1 # 0
      BY <1>3, <2>2
    <3>2. h[i - 1] = PageEnd(n, (i - 1) - 1) /\ h[i] = PageEnd(n, i - 1)
      BY <3>1
    <3> QED
      BY <1>4, <3>1, <3>2
  <2> QED
    BY <2>1, <2>2
<1>9. <<<<>>>> \o pages = [i \in 1 .. t + 1 |-> SubSeq(s, h[i - 1] + 1, h[i])]
  <2> DEFINE seqs == <<<<>>>> \o pages
  <2>1. seqs = [i \in 1 .. t + 1 |-> seqs[i]]
    BY <1>3
  <2> HIDE DEF seqs, h, pages
  <2>2. \A i \in 1 .. t + 1 : seqs[i] = SubSeq(s, h[i - 1] + 1, h[i])
    BY <1>6 DEF seqs
  <2> QED
    BY <2>1, <2>2 DEF seqs
<1> DEFINE seqs == <<<<>>>> \o pages
<1>10. seqs = [i \in 1 .. t + 1 |-> SubSeq(s, h[i - 1] + 1, h[i])]
  BY <1>9
<1> HIDE DEF seqs, h, pages
<1>11. FlattenSeq(seqs) = s
  <2>1. PartsOf(s, t + 1, h, seqs)
    BY <1>7, <1>8, <1>10 DEF PartsOf
  <2> QED
    BY <1>1, <1>3, <2>1, Gathered
<1> QED
  BY <1>2, <1>11 DEF seqs, s

LEMMA WindowShowsRows ==
  ASSUME NEW u, u.log \in Nat \ {0}, u.logPage \in Nat \ {0}
  PROVE  LogRows(u) # <<>>
<1> DEFINE s == [i \in 1 .. u.log |-> i]
           p == SafePage(u)
           t == TotalPages(u.log)
<1>1. s \in Seq(Nat) /\ Len(s) = u.log
  OBVIOUS
<1>2. t \in Nat \ {0} /\ (t - 1) * RowsPerPage < u.log
  BY PagesReachEnd
<1>3. p \in 1 .. t
  BY <1>2, LeastOfTwo DEF SafePage
<1> HIDE DEF s, t, p
<1>4. RowsPerPage \in Nat \ {0}
  BY AgentsTasksAssumption
<1> DEFINE a == (p - 1) * RowsPerPage
           b == p * RowsPerPage
<1>5. a \in Nat /\ b = a + RowsPerPage /\ b \in Nat
  <2>1. p - 1 \in Nat /\ p \in Nat
    BY <1>2, <1>3
  <2> QED
    BY <1>4, <2>1
<1>6. a <= (t - 1) * RowsPerPage
  <2>1. p - 1 \in Nat /\ t - 1 \in Nat /\ p - 1 <= t - 1
    BY <1>2, <1>3
  <2> QED
    BY <1>4, <2>1
<1>7. a < u.log
  BY <1>2, <1>4, <1>5, <1>6
<1>8. LogRows(u) = SubSeq(s, a + 1, Min({b, Len(s)}))
  BY DEF LogRows, PageOf, s, p
<1> HIDE DEF a, b
<1>9. Min({b, Len(s)}) \in Int /\ Min({b, Len(s)}) >= a + 1 /\ Min({b, Len(s)}) <= Len(s)
  BY <1>1, <1>4, <1>5, <1>7, LeastOfTwo
<1> DEFINE m == Min({b, Len(s)})
<1> HIDE DEF m
<1>10. m \in Int /\ m >= a + 1 /\ m <= Len(s)
  BY <1>9 DEF m
<1>11. Len(SubSeq(s, a + 1, m)) = m - (a + 1) + 1
  BY <1>1, <1>5, <1>10
<1>12. LogRows(u) = SubSeq(s, a + 1, m)
  BY <1>8 DEF m
<1>13. Len(SubSeq(s, a + 1, m)) # 0
  BY <1>5, <1>10, <1>11
<1>14. \A x : Len(x) # 0 => x # <<>>
  OBVIOUS
<1> QED
  BY <1>12, <1>13, <1>14

\* The jobs shown among the first n, by the ones before; kept(n) job n passes the
\* filter.
ShownStep(jobs, kept, f, n) ==
  IF n = 0 THEN <<>> ELSE IF kept[n] THEN Append(f[n - 1], jobs[n]) ELSE f[n - 1]

ShownBy(jobs, kept, f, k) == f = [n \in 0 .. k |-> ShownStep(jobs, kept, f, n)]

LEMMA ShownExists ==
  ASSUME NEW S, NEW jobs \in Seq(S), NEW kept, NEW k \in 0 .. Len(jobs)
  PROVE  \E f : ShownBy(jobs, kept, f, k)
<1> DEFINE Bad == {n \in 0 .. Len(jobs) : ~\E f : ShownBy(jobs, kept, f, n)}
<1>1. ASSUME Bad # {} PROVE FALSE
  <2>1. Bad \subseteq Nat
    OBVIOUS
  <2> HIDE DEF Bad
  <2>2. PICK m \in Bad : \A n \in Bad : m <= n
    BY <1>1, <2>1, LeastNatural
  <2>3. m \in 0 .. Len(jobs) /\ ~\E f : ShownBy(jobs, kept, f, m)
    BY <2>2 DEF Bad
  <2>4. CASE m = 0
    <3> DEFINE f == [n \in 0 .. 0 |-> <<>>]
    <3>1. f = [n \in 0 .. 0 |-> ShownStep(jobs, kept, f, n)]
      BY DEF ShownStep
    <3> QED
      BY <2>3, <2>4, <3>1 DEF ShownBy
  <2>5. CASE m # 0
    <3>1. m - 1 \in 0 .. Len(jobs) /\ m - 1 \notin Bad
      BY <2>2, <2>3, <2>5
    <3>2. PICK f : ShownBy(jobs, kept, f, m - 1)
      BY <3>1 DEF Bad
    <3> DEFINE g == [n \in 0 .. m |-> IF n = m THEN ShownStep(jobs, kept, f, m) ELSE f[n]]
    <3>3. \A n \in 0 .. m - 1 : g[n] = f[n] /\ f[n] = ShownStep(jobs, kept, f, n)
      <4>1. ASSUME NEW n \in 0 .. m - 1 PROVE f[n] = ShownStep(jobs, kept, f, n)
        <5> DEFINE a == [i \in 0 .. m - 1 |-> ShownStep(jobs, kept, f, i)]
        <5>1. f = a
          BY <3>2 DEF ShownBy
        <5>2. a[n] = ShownStep(jobs, kept, f, n)
          OBVIOUS
        <5> HIDE DEF a
        <5> QED
          BY <5>1, <5>2
      <4>2. ASSUME NEW n \in 0 .. m - 1 PROVE g[n] = f[n]
        <5>1. n \in 0 .. m /\ n # m
          BY <2>3
        <5> QED
          BY <5>1
      <4> QED
        BY <4>1, <4>2
    <3>4. \A n \in 0 .. m : g[n] = ShownStep(jobs, kept, g, n)
      <4>1. ASSUME NEW n \in 0 .. m PROVE ShownStep(jobs, kept, g, n) = ShownStep(jobs, kept, f, n)
        <5>1. CASE n = 0
          BY <5>1 DEF ShownStep
        <5>2. CASE n # 0
          <6>1. g[n - 1] = f[n - 1]
            BY <2>3, <3>3, <5>2
          <6> HIDE DEF g
          <6> QED
            BY <6>1 DEF ShownStep
        <5> QED
          BY <5>1, <5>2
      <4>2. ASSUME NEW n \in 0 .. m PROVE g[n] = ShownStep(jobs, kept, f, n)
        <5>1. CASE n = m
          BY <5>1
        <5>2. CASE n # m
          <6>1. n \in 0 .. m - 1
            BY <2>3, <5>2
          <6> HIDE DEF g
          <6> QED
            BY <3>3, <6>1
        <5> QED
          BY <5>1, <5>2
      <4> HIDE DEF g
      <4> QED
        BY <4>1, <4>2
    <3>5. g = [n \in 0 .. m |-> g[n]]
      OBVIOUS
    <3> HIDE DEF g
    <3>6. ShownBy(jobs, kept, g, m)
      BY <3>4, <3>5 DEF ShownBy
    <3> QED
      BY <2>3, <3>6
  <2> QED
    BY <2>4, <2>5
<1> QED
  BY <1>1

LEMMA ShownIsList ==
  ASSUME NEW S, NEW jobs \in Seq(S), NEW kept, NEW f, ShownBy(jobs, kept, f, Len(jobs))
  PROVE  f[Len(jobs)] \in Seq(S)
<1> DEFINE Bad == {n \in 0 .. Len(jobs) : f[n] \notin Seq(S)}
<1>1. \A n \in 0 .. Len(jobs) : f[n] = ShownStep(jobs, kept, f, n)
  BY DEF ShownBy
<1>2. ASSUME Bad # {} PROVE FALSE
  <2>1. Bad \subseteq Nat
    OBVIOUS
  <2> HIDE DEF Bad
  <2>2. PICK m \in Bad : \A n \in Bad : m <= n
    BY <1>2, <2>1, LeastNatural
  <2>3. m \in 0 .. Len(jobs) /\ f[m] \notin Seq(S)
    BY <2>2 DEF Bad
  <2>4. CASE m = 0
    <3>1. f[m] = <<>>
      BY <1>1, <2>3, <2>4 DEF ShownStep
    <3> QED
      BY <2>3, <3>1
  <2>5. CASE m # 0
    <3>1. m - 1 \in 0 .. Len(jobs) /\ m - 1 \notin Bad /\ m \in 1 .. Len(jobs)
      BY <2>2, <2>3, <2>5
    <3>2. f[m - 1] \in Seq(S) /\ jobs[m] \in S
      BY <3>1 DEF Bad
    <3>3. Append(f[m - 1], jobs[m]) \in Seq(S)
      BY <3>2
    <3>4. f[m] = ShownStep(jobs, kept, f, m)
      BY <1>1, <2>3
    <3> QED
      BY <2>3, <2>5, <3>2, <3>3, <3>4 DEF ShownStep
  <2> QED
    BY <2>4, <2>5
<1>3. Len(jobs) \in 0 .. Len(jobs)
  OBVIOUS
<1> QED
  BY <1>2, <1>3

LEMMA FilteredIsList ==
  ASSUME NEW u, IsList(u.jobs)
  PROVE  IsList(FilteredJobs(u))
<1>1. PICK S : u.jobs \in Seq(S)
  BY DEF IsList
<1> DEFINE kept == [n \in 0 .. Len(u.jobs) |-> u.filter \in {"all", u.jobs[n].status}]
           Filters(f) == f = [n \in 0 .. Len(u.jobs) |->
                                IF n = 0 THEN <<>>
                                ELSE IF u.filter \in {"all", u.jobs[n].status} THEN Append(f[n - 1], u.jobs[n])
                                ELSE f[n - 1]]
           shown == CHOOSE f : Filters(f)
<1>2. FilteredJobs(u) = shown[Len(u.jobs)]
  BY DEF FilteredJobs
<1>3. \A f : Filters(f) <=> ShownBy(u.jobs, kept, f, Len(u.jobs))
  <2> TAKE f
  <2> DEFINE a == [n \in 0 .. Len(u.jobs) |->
                     IF n = 0 THEN <<>>
                     ELSE IF u.filter \in {"all", u.jobs[n].status} THEN Append(f[n - 1], u.jobs[n])
                     ELSE f[n - 1]]
             b == [n \in 0 .. Len(u.jobs) |-> ShownStep(u.jobs, kept, f, n)]
  <2>1. a = b
    BY DEF ShownStep
  <2> QED
    BY <2>1 DEF ShownBy
<1>4. \E f : Filters(f)
  <2>1. \E f : ShownBy(u.jobs, kept, f, Len(u.jobs))
    <3>1. Len(u.jobs) \in 0 .. Len(u.jobs)
      BY <1>1
    <3> HIDE DEF kept
    <3> QED
      BY <1>1, <3>1, ShownExists
  <2> HIDE DEF Filters
  <2> QED
    BY <1>3, <2>1
<1>5. Filters(shown)
  <2> HIDE DEF Filters
  <2> QED
    BY <1>4
<1> HIDE DEF shown, kept, Filters
<1>6. shown[Len(u.jobs)] \in Seq(S)
  BY <1>1, <1>3, <1>5, ShownIsList
<1> QED
  BY <1>2, <1>6 DEF IsList
IsTaskUi(u) ==
  /\ u \in [at: {"tasks"}, scenario: {u.scenario}, busy: {u.busy}, jobs: {u.jobs}, filter: {u.filter},
            page: {u.page}, menu: {u.menu}, confirm: {u.confirm}, window: {u.window}, log: Nat,
            logPage: Nat \ {0}]
  /\ IsList(u.jobs)

IsTaskSrv(s) == s \in [jobs: {s.jobs}, log: Nat]

TaskRequest(kind, q) ==
  /\ kind = "jobs" => q.ans \in {None, Failed} \/ IsList(q.ans)
  /\ kind = "logs" => q.ans \in {None, Failed} \/ q.ans \in Nat

TaskRequests(n) ==
  IsNet(n, TaskKinds) /\ \A kind \in TaskKinds : \A q \in n[kind] : TaskRequest(kind, q)

(***************************************************************************)
(* PagesShowAll is about pages and a log of which it does not say what     *)
(* they are: the invariant says that the list is one, that a log has a     *)
(* number of entries, and that pages are counted from one.                 *)
(***************************************************************************)
TasksInv == IsTaskUi(ui) /\ IsTaskSrv(srv) /\ TaskRequests(net) /\ ControlsEnd

\* The page may show v for u: flags are left alone.
TaskShows(u, v) == IsTaskUi(v) /\ v.busy = u.busy

LEMMA TaskKindsAre ==
  TaskKinds = {"jobs", "names", "stop", "rerun", "logs", "export", "upload"}
  BY DEF TaskKinds

LEMMA TasksHas ==
  ASSUME TasksInv
  PROVE  /\ IsTaskUi(ui) /\ IsTaskSrv(srv) /\ TaskRequests(net) /\ TaskShows(ui, ui)
         /\ \A op \in ui.busy : InFlight(net, op)
  BY ControlsInFlight DEF TasksInv, TaskShows

LEMMA TasksFlags ==
  ASSUME NEW u, IsTaskUi(u), NEW ops
  PROVE  /\ IsTaskUi(Busy(u, ops)) /\ Busy(u, ops).busy = u.busy \cup ops
         /\ IsTaskUi(Free(u, ops)) /\ Free(u, ops).busy = u.busy \ ops
  BY DEF IsTaskUi, Busy, Free

\* What the page may do without a flag.
LEMMA TasksViews ==
  ASSUME NEW u, IsTaskUi(u)
  PROVE  /\ \A a, p : TaskShows(u, [u EXCEPT !.filter = a, !.page = p])
         /\ \A p : TaskShows(u, [u EXCEPT !.page = p])
         /\ \A p \in Nat \ {0} : TaskShows(u, [u EXCEPT !.logPage = p])
         /\ \A j : TaskShows(u, [u EXCEPT !.menu = j])
         /\ \A c : TaskShows(u, [u EXCEPT !.confirm = c])
         /\ \A j, w : TaskShows(u, [u EXCEPT !.menu = j, !.window = w])
         /\ \A w : \A p \in Nat \ {0} : TaskShows(u, [u EXCEPT !.window = w, !.logPage = p])
         /\ \A n \in Nat : TaskShows(u, [u EXCEPT !.log = n])
         /\ \A s, c : IsList(s) => TaskShows(u, [u EXCEPT !.jobs = s, !.confirm = c])
<1>1. \A a, p : TaskShows(u, [u EXCEPT !.filter = a, !.page = p])
  BY DEF IsTaskUi, TaskShows
<1>2. \A p : TaskShows(u, [u EXCEPT !.page = p])
  BY DEF IsTaskUi, TaskShows
<1>3. \A p \in Nat \ {0} : TaskShows(u, [u EXCEPT !.logPage = p])
  BY DEF IsTaskUi, TaskShows
<1>4. \A j : TaskShows(u, [u EXCEPT !.menu = j])
  BY DEF IsTaskUi, TaskShows
<1>5. \A c : TaskShows(u, [u EXCEPT !.confirm = c])
  BY DEF IsTaskUi, TaskShows
<1>6. \A j, w : TaskShows(u, [u EXCEPT !.menu = j, !.window = w])
  BY DEF IsTaskUi, TaskShows
<1>7. \A w : \A p \in Nat \ {0} : TaskShows(u, [u EXCEPT !.window = w, !.logPage = p])
  BY DEF IsTaskUi, TaskShows
<1>8. \A n \in Nat : TaskShows(u, [u EXCEPT !.log = n])
  BY DEF IsTaskUi, TaskShows
<1>9. \A s, c : IsList(s) => TaskShows(u, [u EXCEPT !.jobs = s, !.confirm = c])
  BY DEF IsTaskUi, TaskShows
<1> QED
  BY <1>1, <1>2, <1>3, <1>4, <1>5, <1>6, <1>7, <1>8, <1>9

LEMMA TasksSending ==
  ASSUME NEW n, TaskRequests(n), NEW kind \in TaskKinds, NEW ops, NEW arg
  PROVE  /\ TaskRequests(Sending(n, kind, ops, arg))
         /\ \A op : InFlight(Sending(n, kind, ops, arg), op) <=> InFlight(n, op) \/ op \in ops
<1> DEFINE m == Sending(n, kind, ops, arg)
<1>1. /\ IsNet(m, TaskKinds) /\ m[kind] = n[kind] \cup {Request(ops, arg)}
      /\ \A k \in TaskKinds \ {kind} : m[k] = n[k]
      /\ \A op : InFlight(m, op) <=> InFlight(n, op) \/ op \in ops
  BY SendingNet DEF TaskRequests
<1>2. TaskRequest(kind, Request(ops, arg))
  BY RequestFields DEF TaskRequest
<1> HIDE DEF m
<1>3. TaskRequests(m)
  BY <1>1, <1>2 DEF TaskRequests
<1> QED
  BY <1>1, <1>3 DEF m

LEMMA TasksExecuted ==
  ASSUME NEW n, TaskRequests(n), NEW kind \in TaskKinds, NEW q \in n[kind], NEW ans,
         kind = "jobs" => ans = Failed \/ IsList(ans),
         kind = "logs" => ans = Failed \/ ans \in Nat
  PROVE  /\ TaskRequests(Executed(n, kind, q, ans))
         /\ \A op : InFlight(n, op) => InFlight(Executed(n, kind, q, ans), op)
<1> DEFINE m == Executed(n, kind, q, ans)
           r == [q EXCEPT !.ans = ans]
<1>1. /\ IsNet(m, TaskKinds) /\ m[kind] = (n[kind] \ {q}) \cup {r}
      /\ \A k \in TaskKinds \ {kind} : m[k] = n[k]
      /\ \A op : InFlight(n, op) => InFlight(m, op)
  BY ExecutedNet DEF TaskRequests
<1>2. r.ans = ans
  BY AnsweredFields DEF TaskRequests, IsNet
<1> HIDE DEF m, r
<1>3. TaskRequest(kind, r)
  BY <1>2 DEF TaskRequest
<1>4. TaskRequests(m)
  BY <1>1, <1>3 DEF TaskRequests
<1> QED
  BY <1>1, <1>4 DEF m

LEMMA TasksTaking ==
  ASSUME NEW n, TaskRequests(n), NEW kind \in TaskKinds, NEW q
  PROVE  /\ TaskRequests(Taking(n, kind, q))
         /\ \A op : InFlight(n, op) => InFlight(Taking(n, kind, q), op) \/ (q.live /\ op \in q.ops)
<1> DEFINE m == Taking(n, kind, q)
<1>1. /\ IsNet(m, TaskKinds) /\ m[kind] = n[kind] \ {q}
      /\ \A k \in TaskKinds \ {kind} : m[k] = n[k]
      /\ \A op : InFlight(n, op) => InFlight(m, op) \/ (q.live /\ op \in q.ops)
  BY TakingNet DEF TaskRequests
<1> HIDE DEF m
<1>2. TaskRequests(m)
  BY <1>1 DEF TaskRequests
<1> QED
  BY <1>1, <1>2 DEF m

\* The page and the requests after a step, the server left alone.
LEMMA TasksKept ==
  ASSUME TasksInv, IsTaskUi(ui'), UNCHANGED srv, TaskRequests(net'),
         \A op \in ui'.busy : InFlight(net', op)
  PROVE  TasksInv'
  BY ControlsInFlightNext DEF TasksInv

LEMMA TasksShow ==
  ASSUME TasksInv, NEW u, TaskShows(ui, u), Show(u)
  PROVE  TasksInv'
  BY TasksHas, TasksKept DEF TaskShows, Show

LEMMA TasksAsk ==
  ASSUME TasksInv, NEW u, TaskShows(ui, u), NEW op, NEW kind \in TaskKinds, NEW arg, Ask(u, op, kind, arg)
  PROVE  TasksInv'
<1>1. ui' = Busy(u, {op}) /\ net' = Sending(net, kind, {op}, arg) /\ UNCHANGED srv
  BY DEF Ask
<1>2. IsTaskUi(ui') /\ ui'.busy = ui.busy \cup {op}
  BY <1>1, TasksFlags DEF TaskShows
<1>3. TaskRequests(net') /\ \A o : InFlight(net', o) <=> InFlight(net, o) \/ o \in {op}
  BY <1>1, TasksHas, TasksSending
<1> QED
  BY <1>1, <1>2, <1>3, TasksHas, TasksKept

LEMMA TasksServe ==
  ASSUME TasksInv, NEW kind \in TaskKinds, NEW q \in net[kind], NEW s, IsTaskSrv(s), NEW ans,
         kind = "jobs" => ans = Failed \/ IsList(ans),
         kind = "logs" => ans = Failed \/ ans \in Nat,
         Serve(kind, q, s, ans)
  PROVE  TasksInv'
<1>1. srv' = s /\ net' = Executed(net, kind, q, ans) /\ UNCHANGED ui
  BY DEF Serve
<1>2. TaskRequests(net') /\ \A op : InFlight(net, op) => InFlight(net', op)
  BY <1>1, TasksHas, TasksExecuted
<1>3. ControlsEnd'
  BY <1>1, <1>2, TasksHas, ControlsInFlightNext
<1> QED
  BY <1>1, <1>2, <1>3, TasksHas DEF TasksInv

LEMMA TasksTake ==
  ASSUME TasksInv, NEW kind \in TaskKinds, NEW q, NEW u, TaskShows(ui, u), Take(kind, q, u)
  PROVE  TasksInv'
<1>1. ui' = Free(u, q.ops) /\ net' = Taking(net, kind, q) /\ UNCHANGED srv
  BY DEF Take
<1>2. IsTaskUi(ui') /\ ui'.busy = ui.busy \ q.ops
  BY <1>1, TasksFlags DEF TaskShows
<1>3. TaskRequests(net') /\ \A op : InFlight(net, op) => InFlight(net', op) \/ (q.live /\ op \in q.ops)
  BY <1>1, TasksHas, TasksTaking
<1> QED
  BY <1>1, <1>2, <1>3, TasksHas, TasksKept

LEMMA TasksFurther ==
  ASSUME TasksInv, NEW kind \in TaskKinds, NEW q, NEW u, TaskShows(ui, u), NEW next \in TaskKinds, NEW arg,
         Further(kind, q, u, next, arg)
  PROVE  TasksInv'
<1> DEFINE m == Taking(net, kind, q)
<1>1. ui' = u /\ net' = Sending(m, next, q.ops, arg) /\ UNCHANGED srv
  BY DEF Further
<1>2. TaskRequests(m) /\ \A op : InFlight(net, op) => InFlight(m, op) \/ (q.live /\ op \in q.ops)
  BY TasksHas, TasksTaking
<1> HIDE DEF m
<1>3. TaskRequests(net') /\ \A op : InFlight(net', op) <=> InFlight(m, op) \/ op \in q.ops
  BY <1>1, <1>2, TasksSending
<1> QED
  BY <1>1, <1>2, <1>3, TasksHas, TasksKept DEF TaskShows

LEMMA TasksListStep ==
  ASSUME TasksInv, LoadTasks \/ RefreshTasks \/ SetFilter \/ TurnPage \/ TurnLogPage \/ OpenMenu \/ CloseMenu
  PROVE  TasksInv'
<1>0. "jobs" \in TaskKinds
  BY TaskKindsAre
<1>a. IsTaskUi(ui) /\ TaskShows(ui, ui)
  BY TasksHas
<1>1. CASE LoadTasks
  BY <1>0, <1>1, <1>a, TasksAsk DEF LoadTasks
<1>2. CASE RefreshTasks
  <2>1. net' = Sending(net, "jobs", {}, None) /\ UNCHANGED <<ui, srv>>
    BY <1>2 DEF RefreshTasks
  <2>2. TaskRequests(net') /\ \A op : InFlight(net, op) => InFlight(net', op)
    BY <1>0, <2>1, TasksHas, TasksSending
  <2> QED
    BY <2>1, <2>2, TasksHas, TasksKept
<1>3. CASE SetFilter
  BY <1>3, <1>a, TasksViews, TasksShow DEF SetFilter
<1>4. CASE TurnPage
  BY <1>4, <1>a, TasksViews, TasksShow DEF TurnPage
<1>5. CASE TurnLogPage
  <2>1. PICK p : p \in 1 .. TotalPages(ui.log) /\ Show([ui EXCEPT !.logPage = p])
    BY <1>5 DEF TurnLogPage
  <2>2. TotalPages(ui.log) \in Nat
    BY <1>a, PagesReachEnd DEF IsTaskUi
  <2>3. p \in Nat \ {0}
    BY <2>1, <2>2
  <2> QED
    BY <1>a, <2>1, <2>3, TasksViews, TasksShow
<1>6. CASE OpenMenu
  BY <1>6, <1>a, TasksViews, TasksShow DEF OpenMenu
<1>7. CASE CloseMenu
  BY <1>7, <1>a, TasksViews, TasksShow DEF CloseMenu
<1> QED
  BY <1>1, <1>2, <1>3, <1>4, <1>5, <1>6, <1>7

LEMMA TasksActionStep ==
  ASSUME TasksInv, AskAction \/ CancelAction \/ ConfirmAction \/ OpenLogs \/ CloseLogs \/ ExportLogs
  PROVE  TasksInv'
<1>0. {"stop", "rerun", "logs", "export"} \subseteq TaskKinds
  BY TaskKindsAre
<1>a. IsTaskUi(ui)
  BY TasksHas
<1>1. CASE AskAction
  BY <1>1, <1>a, TasksViews, TasksShow DEF AskAction
<1>2. CASE CancelAction
  BY <1>2, <1>a, TasksViews, TasksShow DEF CancelAction
<1>3. CASE ConfirmAction
  <2> DEFINE kind == IF ui.confirm.action = "stop" THEN "stop" ELSE "rerun"
  <2>1. Ask([ui EXCEPT !.menu = None], "confirm", kind, ui.confirm.job)
    BY <1>3 DEF ConfirmAction
  <2>2. kind \in TaskKinds
    BY <1>0
  <2> HIDE DEF kind
  <2> QED
    BY <1>a, <2>1, <2>2, TasksViews, TasksAsk
<1>4. CASE OpenLogs
  BY <1>0, <1>4, <1>a, TasksViews, TasksAsk DEF OpenLogs
<1>5. CASE CloseLogs
  <2>1. Show([ui EXCEPT !.window = None, !.logPage = 1]) /\ 1 \in Nat \ {0}
    BY <1>5 DEF CloseLogs
  <2> QED
    BY <1>a, <2>1, TasksViews, TasksShow
<1>6. CASE ExportLogs
  BY <1>0, <1>6, <1>a, TasksViews, TasksAsk DEF ExportLogs
<1> QED
  BY <1>1, <1>2, <1>3, <1>4, <1>5, <1>6

LEMMA TasksServerStep ==
  ASSUME TasksInv, ServeTasks \/ ServeNames \/ JobGoesOn \/ ServeAction \/ ServeLogs \/ ServeUpload
  PROVE  TasksInv'
<1>0. {"jobs", "names", "stop", "rerun", "logs", "export", "upload"} = TaskKinds
  BY TaskKindsAre
<1>a. IsTaskSrv(srv)
  BY TasksHas
<1>b. \A kind : \A q \in Asked("tasks", kind) : q \in net[kind]
  BY PageRequests
<1>1. CASE ServeTasks
  <2> DEFINE list == [j \in 1 .. Cardinality(Jobs) |-> srv.jobs[j]]
  <2>1. PICK q \in Asked("tasks", "jobs") : Serve("jobs", q, srv, list)
    BY <1>1 DEF ServeTasks
  <2>2. Cardinality(Jobs) \in Nat
    BY AgentsTasksAssumption, FS_CardinalityType
  <2>3. list \in Seq({srv.jobs[j] : j \in 1 .. Cardinality(Jobs)})
    BY <2>2
  <2>4. IsList(list)
    BY <2>3 DEF IsList
  <2> HIDE DEF list
  <2> QED
    BY <1>0, <1>a, <1>b, <2>1, <2>4, TasksServe
<1>2. CASE ServeNames
  BY <1>0, <1>2, <1>a, <1>b, TasksServe DEF ServeNames
<1>3. CASE JobGoesOn
  <2>1. PICK next : /\ srv' = [srv EXCEPT !.jobs[1] = next,
                                          !.log = IF @ < MaxLog /\ ui.scenario = "read" THEN @ + 1 ELSE @]
                    /\ UNCHANGED <<ui, net>>
    BY <1>3 DEF JobGoesOn
  <2> DEFINE jobs == [srv.jobs EXCEPT ![1] = next]
             log == IF srv.log < MaxLog /\ ui.scenario = "read" THEN srv.log + 1 ELSE srv.log
  <2>2. srv' = [srv EXCEPT !.jobs = jobs, !.log = log]
    BY <2>1
  <2>3. log \in Nat
    BY <1>a DEF IsTaskSrv
  <2> HIDE DEF jobs, log
  <2>4. IsTaskSrv(srv')
    BY <1>a, <2>2, <2>3 DEF IsTaskSrv
  <2>5. ControlsEnd'
    BY <2>1, TasksHas, ControlsInFlightNext
  <2> QED
    BY <2>1, <2>4, <2>5, TasksHas DEF TasksInv
<1>4. CASE ServeAction
  <2>1. PICK kind, q :
          /\ kind \in {"stop", "rerun"} /\ q \in Asked("tasks", kind)
          /\ IF Accepts(kind, srv.jobs[q.arg])
             THEN Serve(kind, q, [srv EXCEPT !.jobs[q.arg] = IF kind = "stop" THEN Job("aborted", @.stop)
                                                              ELSE Job("queued", "none")], "done")
             ELSE Serve(kind, q, srv, Failed)
    BY <1>4 DEF ServeAction
  <2>2. kind \in TaskKinds /\ kind \notin {"jobs", "logs"} /\ q \in net[kind]
    BY <1>0, <1>b, <2>1
  <2>3. ASSUME NEW job PROVE IsTaskSrv([srv EXCEPT !.jobs[q.arg] = job])
    <3> DEFINE jobs == [srv.jobs EXCEPT ![q.arg] = job]
    <3>1. [srv EXCEPT !.jobs[q.arg] = job] = [srv EXCEPT !.jobs = jobs]
      OBVIOUS
    <3> HIDE DEF jobs
    <3>2. IsTaskSrv([srv EXCEPT !.jobs = jobs])
      BY <1>a DEF IsTaskSrv
    <3> QED
      BY <3>1, <3>2
  <2> DEFINE job == IF kind = "stop" THEN Job("aborted", srv.jobs[q.arg].stop) ELSE Job("queued", "none")
             s == [srv EXCEPT !.jobs[q.arg] = job]
  <2>4. Serve(kind, q, s, "done") \/ Serve(kind, q, srv, Failed)
    BY <2>1
  <2>5. IsTaskSrv(s)
    <3> HIDE DEF job
    <3> QED
      BY <2>3
  <2> HIDE DEF s
  <2> QED
    BY <1>a, <2>2, <2>4, <2>5, TasksServe
<1>5. CASE ServeLogs
  <2>1. PICK kind, q :
          kind \in {"logs", "export"} /\ q \in Asked("tasks", kind) /\ Serve(kind, q, srv, LogOf(q.arg))
    BY <1>5 DEF ServeLogs
  <2>2. LogOf(q.arg) \in Nat
    BY <1>a DEF LogOf, IsTaskSrv
  <2>3. kind \in TaskKinds /\ kind # "jobs" /\ q \in net[kind]
    BY <1>0, <1>b, <2>1
  <2> QED
    BY <1>a, <2>1, <2>2, <2>3, TasksServe
<1>6. CASE ServeUpload
  BY <1>0, <1>6, <1>a, <1>b, TasksServe DEF ServeUpload
<1> QED
  BY <1>1, <1>2, <1>3, <1>4, <1>5, <1>6

LEMMA TasksAnswerStep ==
  ASSUME TasksInv,
         TasksArrive \/ NamesArrive \/ ActionArrives \/ LogsArrive \/ ExportArrives \/ UploadArrives
  PROVE  TasksInv'
<1>0. {"jobs", "names", "stop", "rerun", "logs", "export", "upload"} = TaskKinds
  BY TaskKindsAre
<1>a. IsTaskUi(ui) /\ TaskShows(ui, ui)
  BY TasksHas
<1>b. \A kind \in TaskKinds : \A q \in Answers("tasks", kind) : TaskRequest(kind, q) /\ q.ans # None
  BY PageRequests, TasksHas DEF TaskRequests
<1>1. CASE TasksArrive
  <2>1. PICK q \in Answers("tasks", "jobs") :
          LET u == [ui EXCEPT !.jobs = IF Refused(q) THEN @ ELSE q.ans,
                              !.confirm = IF "confirm" \in q.ops THEN None ELSE @]
          IN  Further("jobs", q, u, "names", None) \/ Take("jobs", q, u)
    BY <1>1 DEF TasksArrive
  <2> DEFINE jobs == IF Refused(q) THEN ui.jobs ELSE q.ans
             confirm == IF "confirm" \in q.ops THEN None ELSE ui.confirm
             u == [ui EXCEPT !.jobs = jobs, !.confirm = confirm]
  <2>2. IsList(jobs)
    BY <1>0, <1>a, <1>b DEF TaskRequest, Refused, IsTaskUi
  <2>3. Further("jobs", q, u, "names", None) \/ Take("jobs", q, u)
    BY <2>1
  <2> HIDE DEF jobs, confirm
  <2>4. TaskShows(ui, u)
    BY <1>a, <2>2, TasksViews
  <2> HIDE DEF u
  <2> QED
    BY <1>0, <2>3, <2>4, TasksTake, TasksFurther
<1>2. CASE NamesArrive
  BY <1>0, <1>2, <1>a, TasksTake DEF NamesArrive
<1>3. CASE ActionArrives
  <2>1. PICK kind, q : /\ kind \in {"stop", "rerun"}
                       /\ \/ Take(kind, q, [ui EXCEPT !.confirm = None])
                          \/ Further(kind, q, ui, "jobs", None)
    BY <1>3 DEF ActionArrives
  <2> QED
    BY <1>0, <1>a, <2>1, TasksViews, TasksTake, TasksFurther
<1>4. CASE LogsArrive
  <2>1. PICK q \in Answers("tasks", "logs") :
          Take("logs", q, [ui EXCEPT !.log = IF Refused(q) THEN 0 ELSE q.ans])
    BY <1>4 DEF LogsArrive
  <2> DEFINE n == IF Refused(q) THEN 0 ELSE q.ans
             u == [ui EXCEPT !.log = n]
  <2>2. n \in Nat
    BY <1>0, <1>b DEF TaskRequest, Refused
  <2>3. Take("logs", q, u)
    BY <2>1
  <2> HIDE DEF n
  <2>4. TaskShows(ui, u)
    BY <1>a, <2>2, TasksViews
  <2> HIDE DEF u
  <2> QED
    BY <1>0, <2>3, <2>4, TasksTake
<1>5. CASE ExportArrives
  <2>1. PICK q : Take("export", q, ui) \/ Further("export", q, ui, "upload", q.ans)
    BY <1>5 DEF ExportArrives
  <2> QED
    BY <1>0, <1>a, <2>1, TasksTake, TasksFurther
<1>6. CASE UploadArrives
  BY <1>0, <1>6, <1>a, TasksTake DEF UploadArrives
<1> QED
  BY <1>1, <1>2, <1>3, <1>4, <1>5, <1>6

LEMMA TasksInit == (\E scenario \in {"list", "act", "read"} : TasksStart(scenario)) => TasksInv
<1> SUFFICES ASSUME NEW scenario \in {"list", "act", "read"}, TasksStart(scenario) PROVE TasksInv
  OBVIOUS
<1>1. <<>> \in Seq({})
  OBVIOUS
<1>2. IsTaskUi(ui) /\ ui.busy = {"load"}
  BY <1>1 DEF TasksStart, IsTaskUi, IsList
<1>3. IsTaskSrv(srv)
  BY DEF TasksStart, IsTaskSrv
<1>4. "jobs" \in TaskKinds
  BY TaskKindsAre
<1>5. net = [kind \in TaskKinds |-> IF kind = "jobs" THEN {Request({"load"}, None)} ELSE {}]
  BY DEF TasksStart
<1>6. IsNet(net, TaskKinds) /\ \A kind \in TaskKinds : \A q \in net[kind] : q = Request({"load"}, None)
  <2>1. \A kind \in TaskKinds : net[kind] \subseteq {Request({"load"}, None)}
    BY <1>5
  <2> QED
    BY <1>5, <2>1, RequestFields DEF IsNet
<1>7. TaskRequests(net)
  BY <1>6, RequestFields DEF TaskRequests, TaskRequest
<1>8. ControlsEnd
  <2>1. Request({"load"}, None) \in net["jobs"] /\ "jobs" \in DOMAIN net
    BY <1>4, <1>5
  <2> QED
    BY <1>2, <2>1, RequestFields DEF ControlsEnd, ControlsEndBut
<1> QED
  BY <1>2, <1>3, <1>7, <1>8 DEF TasksInv

LEMMA TasksInvNext == TasksInv /\ [TasksNext \/ Discard \/ Fail]_vars => TasksInv'
<1> SUFFICES ASSUME TasksInv, [TasksNext \/ Discard \/ Fail]_vars PROVE TasksInv'
  OBVIOUS
<1>0. IsNet(net, TaskKinds)
  BY TasksHas DEF TaskRequests
<1>1. CASE TasksNext
  BY <1>1, TasksListStep, TasksActionStep, TasksServerStep, TasksAnswerStep DEF TasksNext
<1>2. CASE Discard
  <2>1. PICK kind, q :
          kind \in TaskKinds /\ q \in net[kind] /\ ~q.live /\ net' = Taking(net, kind, q) /\ UNCHANGED <<ui, srv>>
    BY <1>0, <1>2, DiscardedRequest
  <2>2. TaskRequests(net') /\ \A op : InFlight(net, op) => InFlight(net', op)
    BY <2>1, TasksHas, TasksTaking
  <2> QED
    BY <2>1, <2>2, TasksHas, TasksKept
<1>3. CASE Fail
  <2>1. PICK kind, q :
          kind \in TaskKinds /\ q \in net[kind] /\ net' = Executed(net, kind, q, Failed) /\ UNCHANGED <<ui, srv>>
    BY <1>0, <1>3, FailedRequest
  <2>2. TaskRequests(net') /\ \A op : InFlight(net, op) => InFlight(net', op)
    BY <2>1, TasksHas, TasksExecuted
  <2> QED
    BY <2>1, <2>2, TasksHas, TasksKept
<1>4. CASE UNCHANGED vars
  BY <1>4, TasksHas, TasksKept DEF vars
<1> QED
  BY <1>1, <1>2, <1>3, <1>4

LEMMA TasksInvShowsAll == TasksInv => PagesShowAll
<1> SUFFICES ASSUME TasksInv PROVE PagesShowAll
  OBVIOUS
<1> DEFINE jobs == FilteredJobs(ui)
<1>1. ui.log \in Nat /\ ui.logPage \in Nat \ {0} /\ IsList(ui.jobs)
  BY TasksHas DEF IsTaskUi
<1>2. IsList(jobs)
  BY <1>1, FilteredIsList
<1> HIDE DEF jobs
<1>3. PICK S : jobs \in Seq(S)
  BY <1>2 DEF IsList
<1>4. FlattenSeq([p \in 1 .. TotalPages(Len(jobs)) |-> PageOf(jobs, p)]) = jobs
  BY <1>3, PagesMakeUpList
<1>5. FlattenSeq(ReportPages(ui.log)) = [i \in 1 .. ui.log |-> i]
  BY <1>1, ReportMakesUpLog
<1>6. ui.log > 0 => LogRows(ui) # <<>>
  BY <1>1, WindowShowsRows
<1> QED
  BY <1>4, <1>5, <1>6 DEF PagesShowAll, jobs

-----------------------------------------------------------------------------
(* The other pages: leads, blacklist, analytics, search and campaigns *)

\* Marking a lead is a step of an operation only when it is contacted.
MarksOnly(n) == \A q \in n["mark"] : q.arg.as = "contacted" \/ q.ops = {}

(***************************************************************************)
(* A lead that is dismissed and one that is contacted are marked by the    *)
(* same request.  What follows the first takes no flags over, and loses    *)
(* none because there are none.                                            *)
(***************************************************************************)
LeadsInv == Alive("leads", LeadKinds, ui, net) /\ MarksOnly(net)

LEMMA MarksKept ==
  ASSUME NEW n, IsNet(n, LeadKinds), MarksOnly(n), NEW kind \in LeadKinds
  PROVE  /\ \A ops, arg : kind # "mark" \/ arg.as = "contacted" \/ ops = {} =>
                            MarksOnly(Sending(n, kind, ops, arg))
         /\ \A q : MarksOnly(Taking(n, kind, q))
         /\ \A q \in n[kind] : \A ans : MarksOnly(Executed(n, kind, q, ans))
<1>0. "mark" \in LeadKinds
  BY DEF LeadKinds
<1>1. ASSUME NEW ops, NEW arg, kind # "mark" \/ arg.as = "contacted" \/ ops = {}
      PROVE  MarksOnly(Sending(n, kind, ops, arg))
  <2> DEFINE m == Sending(n, kind, ops, arg)
  <2>1. m[kind] = n[kind] \cup {Request(ops, arg)} /\ \A k \in LeadKinds \ {kind} : m[k] = n[k]
    BY SendingNet
  <2> HIDE DEF m
  <2>2. MarksOnly(m)
    BY <1>0, <1>1, <2>1, RequestFields DEF MarksOnly
  <2> QED
    BY <2>2 DEF m
<1>2. ASSUME NEW q PROVE MarksOnly(Taking(n, kind, q))
  <2> DEFINE m == Taking(n, kind, q)
  <2>1. m[kind] = n[kind] \ {q} /\ \A k \in LeadKinds \ {kind} : m[k] = n[k]
    BY TakingNet
  <2> HIDE DEF m
  <2>2. MarksOnly(m)
    BY <1>0, <2>1 DEF MarksOnly
  <2> QED
    BY <2>2 DEF m
<1>3. ASSUME NEW q \in n[kind], NEW ans PROVE MarksOnly(Executed(n, kind, q, ans))
  <2> DEFINE m == Executed(n, kind, q, ans)
             r == [q EXCEPT !.ans = ans]
  <2>1. m[kind] = (n[kind] \ {q}) \cup {r} /\ \A k \in LeadKinds \ {kind} : m[k] = n[k]
    BY ExecutedNet
  <2>2. r.ops = q.ops /\ r.arg = q.arg
    BY AnsweredFields DEF IsNet
  <2> HIDE DEF m, r
  <2>3. MarksOnly(m)
    BY <1>0, <2>1, <2>2 DEF MarksOnly
  <2> QED
    BY <2>3 DEF m
<1> QED
  BY <1>1, <1>2, <1>3

LEMMA LeadsFormStep ==
  ASSUME LeadsInv, RefreshLeads \/ TurnLeads \/ OpenContact \/ CloseContact \/ SendContact \/ DismissLead
  PROVE  LeadsInv'
<1>0. {"leads", "mark", "contact"} = LeadKinds
  BY DEF LeadKinds
<1>a. Alive("leads", LeadKinds, ui, net) /\ IsNet(net, LeadKinds) /\ MarksOnly(net) /\ Shows(ui, ui)
  BY DEF LeadsInv, Alive, Shows
<1>1. ASSUME NEW u, Shows(ui, u), Ask(u, "load", "leads", LeadsArg(u)) PROVE LeadsInv'
  BY <1>0, <1>1, <1>a, AliveAsk, MarksKept DEF LeadsInv, Ask
<1>2. CASE RefreshLeads
  BY <1>1, <1>2, <1>a DEF RefreshLeads
<1>3. CASE TurnLeads
  <2>1. PICK u : /\ u \in {[ui EXCEPT !.page = @ - 1], [ui EXCEPT !.page = @ + 1], [ui EXCEPT !.account = 3 - @]}
                 /\ Ask(u, "load", "leads", LeadsArg(u))
    BY <1>3 DEF TurnLeads
  <2>2. /\ \A p : Shows(ui, [ui EXCEPT !.page = p])
        /\ \A a : Shows(ui, [ui EXCEPT !.account = a])
    BY DEF Shows
  <2>3. Shows(ui, u)
    BY <2>1, <2>2
  <2> QED
    BY <1>1, <2>1, <2>3
<1>4. ASSUME NEW c, Show([ui EXCEPT !.contacting = c]) PROVE LeadsInv'
  <2>1. Shows(ui, [ui EXCEPT !.contacting = c])
    BY DEF Shows
  <2> QED
    BY <1>4, <1>a, <2>1, AliveShow DEF LeadsInv, Show
<1>5. CASE OpenContact \/ CloseContact
  BY <1>4, <1>5 DEF OpenContact, CloseContact
<1>6. CASE SendContact
  <2> DEFINE arg == [account |-> ui.account, lead |-> ui.contacting, as |-> "contacted"]
  <2>1. Ask(ui, "send", "mark", arg) /\ arg.as = "contacted"
    BY <1>6 DEF SendContact
  <2> HIDE DEF arg
  <2>2. MarksOnly(net')
    BY <1>0, <1>a, <2>1, MarksKept DEF Ask
  <2> QED
    BY <1>0, <1>a, <2>1, <2>2, AliveAsk DEF LeadsInv
<1>7. CASE DismissLead
  <2>1. PICK arg : net' = Sending(net, "mark", {}, arg) /\ ui' = ui
    BY <1>7 DEF DismissLead
  <2> QED
    BY <1>0, <1>a, <2>1, AliveSent, MarksKept DEF LeadsInv
<1> QED
  BY <1>2, <1>3, <1>5, <1>6, <1>7

LEMMA LeadsNetStep ==
  ASSUME LeadsInv, ServeLeads \/ ServeMark \/ ServeContact \/ LeadsArrive \/ MarkArrives \/ ContactArrives
  PROVE  LeadsInv'
<1>0. {"leads", "mark", "contact"} = LeadKinds
  BY DEF LeadKinds
<1>a. Alive("leads", LeadKinds, ui, net) /\ IsNet(net, LeadKinds) /\ MarksOnly(net) /\ Shows(ui, ui)
  BY DEF LeadsInv, Alive, Shows
<1>1. ASSUME NEW kind \in LeadKinds, NEW q \in net[kind], NEW s, NEW ans, Serve(kind, q, s, ans)
      PROVE  LeadsInv'
  <2>1. MarksOnly(net')
    BY <1>1, <1>a, MarksKept DEF Serve
  <2> QED
    BY <1>1, <1>a, <2>1, AliveServe DEF LeadsInv
<1>2. ASSUME NEW kind \in LeadKinds, NEW q, NEW u, Shows(ui, u), Take(kind, q, u) PROVE LeadsInv'
  BY <1>2, <1>a, AliveTake, MarksKept DEF LeadsInv, Take
<1>3. ASSUME NEW kind \in LeadKinds, NEW q, NEW u, Shows(ui, u),
             ui' = Busy(Free(u, q.ops), {"load"}) \/ (ui' = Busy(u, {"load"}) /\ q.ops = {}),
             net' = LeadsRefreshed(Taking(net, kind, q), ui)
      PROVE  LeadsInv'
  <2>1. Alive("leads", LeadKinds, ui', net')
    BY <1>0, <1>3, <1>a, AliveTakenSent DEF LeadsRefreshed
  <2>2. IsNet(Taking(net, kind, q), LeadKinds) /\ MarksOnly(Taking(net, kind, q))
    BY <1>a, TakingNet, MarksKept
  <2> QED
    BY <1>0, <1>3, <2>1, <2>2, MarksKept DEF LeadsInv, LeadsRefreshed
<1>4. CASE ServeLeads \/ ServeMark \/ ServeContact
  BY <1>0, <1>1, <1>4, PageRequests DEF ServeLeads, ServeMark, ServeContact
<1>5. CASE LeadsArrive
  <2>1. PICK q : Take("leads", q, IF Refused(q) THEN ui
                                  ELSE [ui EXCEPT !.pages = q.ans.pages, !.leads = q.ans.leads])
    BY <1>5 DEF LeadsArrive
  <2>2. Shows(ui, [ui EXCEPT !.pages = q.ans.pages, !.leads = q.ans.leads])
    BY DEF Shows
  <2> QED
    BY <1>0, <1>2, <1>a, <2>1, <2>2
<1>6. CASE MarkArrives
  <2>1. PICK q \in net["mark"] :
          \/ Take("mark", q, ui)
          \/ Further("mark", q, ui, "contact", q.arg)
          \/ /\ q.arg.as # "contacted" /\ ui' = Busy(ui, {"load"})
             /\ net' = LeadsRefreshed(Taking(net, "mark", q), ui)
    BY <1>6, PageRequests DEF MarkArrives
  <2>2. CASE Further("mark", q, ui, "contact", q.arg)
    <3>1. IsNet(Taking(net, "mark", q), LeadKinds) /\ MarksOnly(Taking(net, "mark", q))
      BY <1>0, <1>a, TakingNet, MarksKept
    <3>2. MarksOnly(net')
      BY <1>0, <2>2, <3>1, MarksKept DEF Further
    <3> QED
      BY <1>0, <1>a, <2>2, <3>2, AliveFurther DEF LeadsInv
  <2>3. CASE q.arg.as # "contacted" /\ ui' = Busy(ui, {"load"}) /\ net' = LeadsRefreshed(Taking(net, "mark", q), ui)
    <3>1. q.ops = {}
      BY <1>a, <2>3 DEF MarksOnly
    <3> QED
      BY <1>0, <1>3, <1>a, <2>3, <3>1 DEF Shows
  <2> QED
    BY <1>0, <1>2, <1>a, <2>1, <2>2, <2>3
<1>7. CASE ContactArrives
  <2>1. PICK q : \/ Take("contact", q, ui)
                 \/ /\ ui' = Busy(Free([ui EXCEPT !.contacting = None], q.ops), {"load"})
                    /\ net' = LeadsRefreshed(Taking(net, "contact", q), ui)
    BY <1>7 DEF ContactArrives
  <2>2. Shows(ui, [ui EXCEPT !.contacting = None])
    BY DEF Shows
  <2> QED
    BY <1>0, <1>2, <1>3, <1>a, <2>1, <2>2 DEF Shows
<1> QED
  BY <1>4, <1>5, <1>6, <1>7

LEMMA LeadsInit == LeadsStart => LeadsInv
<1> SUFFICES ASSUME LeadsStart PROVE LeadsInv
  OBVIOUS
<1> DEFINE r == Request({"load"}, [account |-> 1, page |-> 1])
<1>1. ui.at = "leads" /\ {"at", "busy"} \subseteq DOMAIN ui /\ ui.busy = {"load"}
      /\ net = [kind \in LeadKinds |-> IF kind = "leads" THEN {r} ELSE {}]
  BY DEF LeadsStart
<1>2. IsRequest(r) /\ r.ops = {"load"} /\ r.live
  BY RequestFields
<1> HIDE DEF r
<1>3. Alive("leads", LeadKinds, ui, net) /\ MarksOnly(net)
  BY <1>1, <1>2, AliveStart DEF LeadKinds, MarksOnly
<1> QED
  BY <1>3 DEF LeadsInv

LEMMA LeadsInvNext == LeadsInv /\ [LeadsNext \/ Discard \/ Fail]_vars => LeadsInv'
<1> SUFFICES ASSUME LeadsInv, [LeadsNext \/ Discard \/ Fail]_vars PROVE LeadsInv'
  OBVIOUS
<1>a. Alive("leads", LeadKinds, ui, net) /\ IsNet(net, LeadKinds) /\ MarksOnly(net)
  BY DEF LeadsInv, Alive
<1>1. CASE LeadsNext
  BY <1>1, LeadsFormStep, LeadsNetStep DEF LeadsNext
<1>2. CASE Discard
  <2>1. PICK kind, q : kind \in LeadKinds /\ net' = Taking(net, kind, q)
    BY <1>2, <1>a, DiscardedRequest
  <2> QED
    BY <1>2, <1>a, <2>1, AliveFails, MarksKept DEF LeadsInv
<1>3. CASE Fail
  <2>1. PICK kind, q : kind \in LeadKinds /\ q \in net[kind] /\ net' = Executed(net, kind, q, Failed)
    BY <1>3, <1>a, FailedRequest
  <2> QED
    BY <1>3, <1>a, <2>1, AliveFails, MarksKept DEF LeadsInv
<1>4. CASE UNCHANGED vars
  BY <1>4, <1>a DEF LeadsInv, vars
<1> QED
  BY <1>1, <1>2, <1>3, <1>4

\* The kind of the request that the form sends is what the form is for.
HasType(u) ==
  /\ {"at", "busy", "form", "open"} \subseteq DOMAIN u /\ "type" \in DOMAIN u.form
  /\ u.form.type \in {"scrape", "capture"}

AcquisitionInv == Alive("acquisition", AcquisitionKinds, ui, net) /\ HasType(ui)

\* The page may show v for u, and the form is still for something.
FormShows(u, v) == Shows(u, v) /\ HasType(v)

LEMMA FormViews ==
  ASSUME NEW u, HasType(u)
  PROVE  /\ FormShows(u, u)
         /\ \A ops : FormShows(u, Free(u, ops))
         /\ \A b : FormShows(u, [u EXCEPT !.open = b])
         /\ \A f : "type" \in DOMAIN f /\ f.type \in {"scrape", "capture"} => FormShows(u, [u EXCEPT !.form = f])
         /\ \A b, f : "type" \in DOMAIN f /\ f.type \in {"scrape", "capture"} =>
              FormShows(u, [u EXCEPT !.open = b, !.form = f])
<1>1. \A ops : FormShows(u, Free(u, ops))
  BY DEF Free, FormShows, Shows, HasType
<1>2. \A b : FormShows(u, [u EXCEPT !.open = b])
  BY DEF FormShows, Shows, HasType
<1>3. \A f : "type" \in DOMAIN f /\ f.type \in {"scrape", "capture"} => FormShows(u, [u EXCEPT !.form = f])
  BY DEF FormShows, Shows, HasType
<1>4. \A b, f : "type" \in DOMAIN f /\ f.type \in {"scrape", "capture"} =>
         FormShows(u, [u EXCEPT !.open = b, !.form = f])
  BY DEF FormShows, Shows, HasType
<1> QED
  BY <1>1, <1>2, <1>3, <1>4 DEF FormShows, Shows

LEMMA TypedForm ==
  ASSUME NEW f, "type" \in DOMAIN f
  PROVE  DOMAIN Typed(f) = DOMAIN f /\ Typed(f).type = f.type
  BY DEF Typed

LEMMA FormShowsTwice ==
  ASSUME NEW u, NEW v, NEW w, FormShows(u, v), FormShows(v, w)
  PROVE  FormShows(u, w)
  BY DEF FormShows, Shows

LEMMA AcquisitionInit == AcquisitionStart => AcquisitionInv
<1> SUFFICES ASSUME AcquisitionStart PROVE AcquisitionInv
  OBVIOUS
<1>1. ui.at = "acquisition" /\ HasType(ui) /\ ui.busy = {} /\ net = [kind \in AcquisitionKinds |-> {}]
  BY DEF AcquisitionStart, HasType, EmptyForm
<1>2. IsRequest(Request({}, None)) /\ "groups" \in AcquisitionKinds
  BY RequestFields DEF AcquisitionKinds
<1> QED
  BY <1>1, <1>2, AliveStart DEF AcquisitionInv, HasType

LEMMA AcquisitionFormStep ==
  ASSUME AcquisitionInv, AcquisitionForm \/ EditAcquisition \/ ChooseGroup
  PROVE  AcquisitionInv'
<1>a. HasType(ui) /\ FormShows(ui, ui)
  BY FormViews DEF AcquisitionInv
<1>1. ASSUME NEW u, FormShows(ui, u), Show(u) PROVE AcquisitionInv'
  BY <1>1, AliveShow DEF AcquisitionInv, FormShows, Show
<1>2. CASE AcquisitionForm
  <2> DEFINE v == Free(ui, {"search"})
  <2>1. FormShows(ui, v)
    BY <1>a, FormViews
  <2>2. PICK b : Show([v EXCEPT !.open = b, !.form = EmptyForm])
    <3> HIDE DEF v
    <3>1. Show([v EXCEPT !.open = ~v.open, !.form = EmptyForm])
      BY <1>2 DEF AcquisitionForm, v
    <3> QED
      BY <3>1
  <2> HIDE DEF v
  <2>3. "type" \in DOMAIN EmptyForm /\ EmptyForm.type \in {"scrape", "capture"}
    BY DEF EmptyForm
  <2>4. FormShows(v, [v EXCEPT !.open = b, !.form = EmptyForm])
    BY <2>1, <2>3, FormViews DEF FormShows
  <2> QED
    BY <1>1, <2>1, <2>2, <2>4, FormShowsTwice
<1>3. ASSUME NEW u, FormShows(ui, u), NEW f, "type" \in DOMAIN f, f.type \in {"scrape", "capture"},
             Show([u EXCEPT !.form = f])
      PROVE  AcquisitionInv'
  <2>1. FormShows(u, [u EXCEPT !.form = f])
    BY <1>3, FormViews DEF FormShows
  <2> QED
    BY <1>1, <1>3, <2>1, FormShowsTwice
<1>4. \A query : LET f == Typed([ui.form EXCEPT !.query = query])
                 IN  "type" \in DOMAIN f /\ f.type \in {"scrape", "capture"}
  <2> TAKE query
  <2> DEFINE f == [ui.form EXCEPT !.query = query]
  <2>1. "type" \in DOMAIN f /\ f.type \in {"scrape", "capture"}
    BY <1>a DEF HasType
  <2> HIDE DEF f
  <2> QED
    BY <2>1, TypedForm DEF f
<1>5. CASE EditAcquisition
  <2>1. \/ \E query : Show([IF query = None /\ ui.form.type = "scrape" THEN Free(ui, {"search"}) ELSE ui EXCEPT
                              !.form = Typed([ui.form EXCEPT !.query = query])])
        \/ \E type \in {"scrape", "capture"} :
             Show([ui EXCEPT !.form = [Typed([ui.form EXCEPT !.type = type]) EXCEPT !.listed = None]])
        \/ Show([ui EXCEPT !.form.keywords = ~@])
    BY <1>5 DEF EditAcquisition
  <2>2. ASSUME NEW query, Show([IF query = None /\ ui.form.type = "scrape" THEN Free(ui, {"search"}) ELSE ui EXCEPT
                                  !.form = Typed([ui.form EXCEPT !.query = query])])
        PROVE  AcquisitionInv'
    <3> DEFINE u == IF query = None /\ ui.form.type = "scrape" THEN Free(ui, {"search"}) ELSE ui
               f == Typed([ui.form EXCEPT !.query = query])
    <3>1. FormShows(ui, u)
      BY <1>a, FormViews
    <3>2. Show([u EXCEPT !.form = f])
      BY <2>2
    <3>3. "type" \in DOMAIN f /\ f.type \in {"scrape", "capture"}
      BY <1>4
    <3> HIDE DEF u, f
    <3> QED
      BY <1>3, <3>1, <3>2, <3>3
  <2>3. ASSUME NEW type \in {"scrape", "capture"},
               Show([ui EXCEPT !.form = [Typed([ui.form EXCEPT !.type = type]) EXCEPT !.listed = None]])
        PROVE  AcquisitionInv'
    <3> DEFINE e == [ui.form EXCEPT !.type = type]
               g == Typed(e)
               f == [g EXCEPT !.listed = None]
    <3>1. "type" \in DOMAIN e /\ e.type = type
      BY <1>a DEF HasType
    <3> HIDE DEF e
    <3>2. "type" \in DOMAIN g /\ g.type = type
      BY <3>1, TypedForm
    <3> HIDE DEF g
    <3>3. "type" \in DOMAIN f /\ f.type = type
      BY <3>2
    <3>4. Show([ui EXCEPT !.form = f])
      BY <2>3 DEF e, g
    <3> HIDE DEF f
    <3> QED
      BY <1>3, <1>a, <3>3, <3>4
  <2>4. ASSUME Show([ui EXCEPT !.form.keywords = ~@]) PROVE AcquisitionInv'
    <3> DEFINE f == [ui.form EXCEPT !.keywords = ~ui.form.keywords]
    <3>1. "type" \in DOMAIN f /\ f.type \in {"scrape", "capture"}
      BY <1>a DEF HasType
    <3>2. Show([ui EXCEPT !.form = f])
      BY <2>4
    <3> HIDE DEF f
    <3> QED
      BY <1>3, <1>a, <3>1, <3>2
  <2> QED
    BY <2>1, <2>2, <2>3, <2>4
<1>6. CASE ChooseGroup
  <2> DEFINE e == [ui.form EXCEPT !.group = ui.form.listed, !.query = ui.form.listed]
             f == Typed(e)
  <2>1. "type" \in DOMAIN e /\ e.type \in {"scrape", "capture"}
    BY <1>a DEF HasType
  <2>2. Show([ui EXCEPT !.form = f])
    BY <1>6 DEF ChooseGroup
  <2> HIDE DEF e
  <2>3. "type" \in DOMAIN f /\ f.type \in {"scrape", "capture"}
    BY <2>1, TypedForm
  <2> HIDE DEF f
  <2> QED
    BY <1>3, <1>a, <2>2, <2>3
<1> QED
  BY <1>2, <1>5, <1>6

LEMMA AcquisitionNetStep ==
  ASSUME AcquisitionInv,
         \/ SearchTimer \/ ServeGroups \/ GroupsArrive
         \/ SubmitAcquisition \/ ServeAcquisition \/ AcquisitionArrives
  PROVE  AcquisitionInv'
<1>0. {"groups", "scrape", "capture"} = AcquisitionKinds
  BY DEF AcquisitionKinds
<1>a. Alive("acquisition", AcquisitionKinds, ui, net) /\ HasType(ui) /\ FormShows(ui, ui)
  BY FormViews DEF AcquisitionInv
<1>1. \A u, ops : HasType(u) => HasType(Busy(u, ops)) /\ HasType(Free(u, ops))
  BY DEF HasType, Busy, Free
<1>2. ASSUME NEW kind \in AcquisitionKinds, NEW q, NEW u, FormShows(ui, u), Take(kind, q, u)
      PROVE  AcquisitionInv'
  BY <1>1, <1>2, <1>a, AliveTake DEF AcquisitionInv, Take, FormShows
<1>3. ASSUME NEW x, NEW y, x \in {"timer", "listed"}
      PROVE  LET f == [ui.form EXCEPT ![x] = y] IN FormShows(ui, [ui EXCEPT !.form = f])
  <2> DEFINE f == [ui.form EXCEPT ![x] = y]
  <2>1. "type" \in DOMAIN f /\ f.type \in {"scrape", "capture"}
    BY <1>3, <1>a DEF HasType
  <2> HIDE DEF f
  <2> QED
    BY <1>a, <2>1, FormViews DEF f
<1>4. CASE SearchTimer
  <2> DEFINE ops == IF ui.form.type = "scrape" THEN {"search"} ELSE {}
             u == [ui EXCEPT !.form = [ui.form EXCEPT !["timer"] = FALSE]]
  <2>1. ui' = Busy(u, ops) /\ net' = Sending(net, "groups", ops, ui.form.query)
    BY <1>4 DEF SearchTimer
  <2>2. FormShows(ui, u)
    BY <1>3
  <2> HIDE DEF ops, u
  <2> QED
    BY <1>0, <1>1, <1>a, <2>1, <2>2, AliveSent DEF AcquisitionInv, FormShows
<1>5. CASE ServeGroups \/ ServeAcquisition
  <2>1. PICK kind, q, s, ans : kind \in AcquisitionKinds /\ q \in net[kind] /\ Serve(kind, q, s, ans)
    BY <1>0, <1>5, PageRequests DEF ServeGroups, ServeAcquisition
  <2> QED
    BY <1>a, <2>1, AliveServe DEF AcquisitionInv, Serve
<1>6. CASE GroupsArrive
  <2>1. PICK q : Take("groups", q, [ui EXCEPT !.form.listed = IF Refused(q) THEN None ELSE q.ans])
    BY <1>6 DEF GroupsArrive
  <2> DEFINE y == IF Refused(q) THEN None ELSE q.ans
             u == [ui EXCEPT !.form = [ui.form EXCEPT !["listed"] = y]]
  <2>2. Take("groups", q, u)
    BY <2>1
  <2> HIDE DEF y
  <2>3. FormShows(ui, u)
    BY <1>3
  <2> HIDE DEF u
  <2> QED
    BY <1>0, <1>2, <2>2, <2>3
<1>7. CASE SubmitAcquisition
  <2>1. ui.form.type \in AcquisitionKinds /\ Ask(ui, "save", ui.form.type, ui.form.group)
    BY <1>0, <1>7, <1>a DEF SubmitAcquisition, HasType
  <2> QED
    BY <1>1, <1>a, <2>1, AliveAsk DEF AcquisitionInv, Ask, FormShows
<1>8. CASE AcquisitionArrives
  <2>1. PICK kind, q : /\ kind \in {"scrape", "capture"}
                       /\ Take(kind, q, [ui EXCEPT !.open = @ /\ kind # "scrape"])
    BY <1>8 DEF AcquisitionArrives
  <2> DEFINE b == ui.open /\ kind # "scrape"
  <2>2. Take(kind, q, [ui EXCEPT !.open = b])
    BY <2>1
  <2> HIDE DEF b
  <2> QED
    BY <1>0, <1>2, <1>a, <2>1, <2>2, FormViews
<1> QED
  BY <1>4, <1>5, <1>6, <1>7, <1>8

LEMMA AcquisitionInvNext == AcquisitionInv /\ [AcquisitionNext \/ Discard \/ Fail]_vars => AcquisitionInv'
<1> SUFFICES ASSUME AcquisitionInv, [AcquisitionNext \/ Discard \/ Fail]_vars PROVE AcquisitionInv'
  OBVIOUS
<1>1. CASE AcquisitionNext
  BY <1>1, AcquisitionFormStep, AcquisitionNetStep DEF AcquisitionNext
<1>2. CASE Discard \/ Fail \/ UNCHANGED vars
  BY <1>2, AliveFails DEF AcquisitionInv, Discard, Fail, vars
<1> QED
  BY <1>1, <1>2

LEMMA BlacklistInit == BlacklistStart => Alive("blacklist", BlacklistKinds, ui, net)
<1> SUFFICES ASSUME BlacklistStart PROVE Alive("blacklist", BlacklistKinds, ui, net)
  OBVIOUS
<1>1. ui.at = "blacklist" /\ {"at", "busy"} \subseteq DOMAIN ui /\ ui.busy = {"list"} /\ "list" \in BlacklistKinds
      /\ net = [kind \in BlacklistKinds |-> IF kind = "list" THEN {Request({"list"}, None)} ELSE {}]
  BY DEF BlacklistStart, BlacklistKinds
<1> QED
  BY <1>1, RequestFields, AliveStart

LEMMA BlacklistStep ==
  ASSUME Alive("blacklist", BlacklistKinds, ui, net), [BlacklistNext \/ Discard \/ Fail]_vars
  PROVE  Alive("blacklist", BlacklistKinds, ui, net)'
<1>0. {"list", "delete", "add"} = BlacklistKinds
  BY DEF BlacklistKinds
<1>1. Shows(ui, ui)
  BY DEF Shows
<1>2. /\ \A s : Shows(ui, [ui EXCEPT !.listed = s])
      /\ \A b : Shows(ui, [ui EXCEPT !.form = b])
      /\ \A b, i : Shows(ui, [ui EXCEPT !.form = b, !.editing = i])
      /\ \A s, b, i : Shows(ui, [ui EXCEPT !.listed = s, !.form = b, !.editing = i])
  BY DEF Shows
<1>3. CASE ServeBlacklist \/ ServeDelete \/ ServeAdd
  <2>1. PICK kind, q, s, ans : kind \in BlacklistKinds /\ q \in net[kind] /\ Serve(kind, q, s, ans)
    BY <1>0, <1>3, PageRequests DEF ServeBlacklist, ServeDelete, ServeAdd
  <2> QED
    BY <2>1, AliveServe
<1>4. CASE OpenEntry \/ CloseEntry
  BY <1>2, <1>4, AliveShow DEF OpenEntry, CloseEntry
<1>5. CASE SaveEntry
  BY <1>0, <1>1, <1>5, AliveAsk DEF SaveEntry
<1>6. CASE DeleteEntry
  BY <1>0, <1>1, <1>6, AliveSent DEF DeleteEntry
<1>7. CASE BlacklistArrives
  <2>1. PICK q, s : Take("list", q, [ui EXCEPT !.listed = s])
    BY <1>7 DEF BlacklistArrives
  <2> QED
    BY <1>0, <1>2, <2>1, AliveTake
<1>8. CASE DeleteArrives
  <2>1. PICK q, s : \/ Further("delete", q, [ui EXCEPT !.listed = s], "add", None)
                    \/ Take("delete", q, [ui EXCEPT !.listed = s])
    BY <1>8 DEF DeleteArrives
  <2> QED
    BY <1>0, <1>2, <2>1, AliveTake, AliveFurther
<1>9. CASE AddArrives
  <2>1. PICK q : Take("add", q, IF Refused(q) THEN ui
                                ELSE [ui EXCEPT !.listed = @ \cup {q.ans}, !.form = FALSE, !.editing = None])
    BY <1>9 DEF AddArrives
  <2> QED
    BY <1>0, <1>1, <1>2, <2>1, AliveTake
<1>10. CASE Discard \/ Fail \/ UNCHANGED vars
  BY <1>10, AliveFails DEF vars
<1> QED
  BY <1>3, <1>4, <1>5, <1>6, <1>7, <1>8, <1>9, <1>10 DEF BlacklistNext

LEMMA AnalyticsInit == AnalyticsStart => Alive("analytics", AnalyticsKinds, ui, net)
<1> SUFFICES ASSUME AnalyticsStart PROVE Alive("analytics", AnalyticsKinds, ui, net)
  OBVIOUS
<1>1. ui.at = "analytics" /\ {"at", "busy"} \subseteq DOMAIN ui /\ ui.busy = {"load"} /\ "analytics" \in AnalyticsKinds
      /\ net = [kind \in AnalyticsKinds |-> IF kind = "analytics" THEN {Request({"load"}, 1)} ELSE {}]
  BY DEF AnalyticsStart, AnalyticsKinds
<1> QED
  BY <1>1, RequestFields, AliveStart

LEMMA AnalyticsStep ==
  ASSUME Alive("analytics", AnalyticsKinds, ui, net), [AnalyticsNext \/ Discard \/ Fail]_vars
  PROVE  Alive("analytics", AnalyticsKinds, ui, net)'
<1>0. {"analytics", "safety"} = AnalyticsKinds
  BY DEF AnalyticsKinds
<1>1. Shows(ui, ui)
  BY DEF Shows
<1>2. /\ \A a : Shows(ui, [ui EXCEPT !.account = a])
      /\ \A f : Shows(ui, [ui EXCEPT !.form = f])
      /\ \A b : Shows(ui, [ui EXCEPT !.editing = b])
  BY DEF Shows
<1>3. CASE ServeAnalytics \/ ServeSafety
  <2>1. PICK kind, q, s, ans : kind \in AnalyticsKinds /\ q \in net[kind] /\ Serve(kind, q, s, ans)
    BY <1>0, <1>3, PageRequests DEF ServeAnalytics, ServeSafety
  <2> QED
    BY <2>1, AliveServe
<1>4. CASE LoadAnalytics
  <2>1. PICK arg : \/ Ask(ui, "load", "analytics", arg)
                   \/ \E a : Ask([ui EXCEPT !.account = a], "load", "analytics", arg)
    BY <1>4 DEF LoadAnalytics
  <2> QED
    BY <1>0, <1>1, <1>2, <2>1, AliveAsk
<1>5. CASE SaveSafety
  BY <1>0, <1>1, <1>5, AliveAsk DEF SaveSafety
<1>6. CASE EditSafety
  BY <1>2, <1>6, AliveShow DEF EditSafety
<1>7. CASE AnalyticsArrive
  <2>1. PICK q, f : Take("analytics", q, [ui EXCEPT !.form = f])
    BY <1>7 DEF AnalyticsArrive
  <2> QED
    BY <1>0, <1>2, <2>1, AliveTake
<1>8. CASE SafetySaved
  <2>1. PICK q : \/ Take("safety", q, ui)
                 \/ /\ ui' = Busy(Free([ui EXCEPT !.editing = FALSE], q.ops), {"load"})
                    /\ net' = Sending(Taking(net, "safety", q), "analytics", {"load"}, q.arg.account)
    BY <1>8 DEF SafetySaved
  <2> QED
    BY <1>0, <1>1, <1>2, <2>1, AliveTake, AliveTakenSent
<1>9. CASE Discard \/ Fail \/ UNCHANGED vars
  BY <1>9, AliveFails DEF vars
<1> QED
  BY <1>3, <1>4, <1>5, <1>6, <1>7, <1>8, <1>9 DEF AnalyticsNext

LEMMA SearchInit == SearchStart => Alive("search", SearchKinds, ui, net)
<1> SUFFICES ASSUME SearchStart PROVE Alive("search", SearchKinds, ui, net)
  OBVIOUS
<1>1. ui.at = "search" /\ {"at", "busy"} \subseteq DOMAIN ui /\ ui.busy = {}
      /\ "search" \in SearchKinds /\ net = [kind \in SearchKinds |-> {}]
  BY DEF SearchStart, SearchKinds
<1> QED
  BY <1>1, RequestFields, AliveStart

LEMMA SearchStep ==
  ASSUME Alive("search", SearchKinds, ui, net), [SearchNext \/ Discard \/ Fail]_vars
  PROVE  Alive("search", SearchKinds, ui, net)'
<1>0. "search" \in SearchKinds
  BY DEF SearchKinds
<1>1. /\ \A d, p : Shows(ui, [ui EXCEPT !.draft = d, !.page = p])
      /\ \A p, b : Shows(ui, [ui EXCEPT !.page = p, !.error = b])
      /\ \A b : Shows(ui, [ui EXCEPT !.error = b])
      /\ \A r : Shows(ui, [ui EXCEPT !.results = r])
  BY DEF Shows
<1>2. CASE EditSearch
  BY <1>1, <1>2, AliveShow DEF EditSearch
<1>3. CASE SearchNow
  <2>1. PICK p, arg : Ask([ui EXCEPT !.page = p, !.error = FALSE], "search", "search", arg)
    BY <1>3 DEF SearchNow
  <2> QED
    BY <1>0, <1>1, <2>1, AliveAsk
<1>4. CASE ServeSearch
  <2>1. PICK q, s, ans : q \in net["search"] /\ Serve("search", q, s, ans)
    BY <1>4, PageRequests DEF ServeSearch
  <2> QED
    BY <1>0, <2>1, AliveServe
<1>5. CASE SearchArrives
  <2>1. PICK q : Take("search", q, IF Refused(q) THEN [ui EXCEPT !.error = TRUE]
                                   ELSE [ui EXCEPT !.results = q.ans])
    BY <1>5 DEF SearchArrives
  <2> QED
    BY <1>0, <1>1, <2>1, AliveTake
<1>6. CASE Discard \/ Fail \/ UNCHANGED vars
  BY <1>6, AliveFails DEF vars
<1> QED
  BY <1>2, <1>3, <1>4, <1>5, <1>6 DEF SearchNext

LEMMA CampaignsInit ==
  (\E scenario \in {"form", "list"} : CampaignsStart(scenario)) => Alive("campaigns", CampaignKinds, ui, net)
<1> SUFFICES ASSUME NEW scenario, CampaignsStart(scenario) PROVE Alive("campaigns", CampaignKinds, ui, net)
  OBVIOUS
<1>1. ui.at = "campaigns" /\ {"at", "busy"} \subseteq DOMAIN ui /\ ui.busy = {} /\ "list" \in CampaignKinds
      /\ net = [kind \in CampaignKinds |-> IF kind = "list" THEN {Request({}, None)} ELSE {}]
  BY DEF CampaignsStart, CampaignKinds
<1> QED
  BY <1>1, RequestFields, AliveStart

LEMMA CampaignsStep ==
  ASSUME Alive("campaigns", CampaignKinds, ui, net), [CampaignsNext \/ Discard \/ Fail]_vars
  PROVE  Alive("campaigns", CampaignKinds, ui, net)'
<1>0. {"list", "create", "activate", "update", "quick", "act"} = CampaignKinds
  BY DEF CampaignKinds
<1>1. Shows(ui, ui)
  BY DEF Shows
<1>2. /\ \A l : Shows(ui, [ui EXCEPT !.list = l])
      /\ \A l, b : Shows(ui, [ui EXCEPT !.list = l, !.dialog = b])
      /\ \A b : Shows(ui, [ui EXCEPT !.dialog = b])
      /\ \A b : Shows(ui, [ui EXCEPT !.recurring = b])
      /\ \A end : Shows(ui, [ui EXCEPT !.end = end])
      /\ \A b, i, end : Shows(ui, [ui EXCEPT !.recurring = b, !.editing = i, !.end = end])
  BY DEF Shows
<1>3. Shows(ui, CampaignFormReset(ui))
  BY <1>2 DEF CampaignFormReset
<1>4. CASE ServeCampaigns \/ ServeCreate \/ ServeSave \/ ServeCampaignAction
  <2>1. PICK kind, q, s, ans : kind \in CampaignKinds /\ q \in net[kind] /\ Serve(kind, q, s, ans)
    <3>1. CASE ServeCampaigns
      BY <1>0, <3>1, PageRequests DEF ServeCampaigns
    <3>2. CASE ServeCreate
      BY <1>0, <3>2, PageRequests DEF ServeCreate
    <3>3. CASE ServeSave
      BY <1>0, <3>3, PageRequests DEF ServeSave
    <3>4. CASE ServeCampaignAction
      BY <1>0, <3>4, PageRequests DEF ServeCampaignAction
    <3> QED
      BY <1>4, <3>1, <3>2, <3>3, <3>4
  <2> QED
    BY <2>1, AliveServe
<1>5. CASE EditSchedule \/ CancelCampaign
  BY <1>2, <1>3, <1>5, AliveShow DEF EditSchedule, CancelCampaign
<1>6. CASE EditCampaign
  <2>1. PICK i, end : Show([ui EXCEPT !.recurring = TRUE, !.editing = i, !.end = end])
    BY <1>6 DEF EditCampaign
  <2> QED
    BY <1>2, <2>1, AliveShow
<1>7. CASE SaveCampaign
  BY <1>0, <1>1, <1>7, AliveAsk DEF SaveCampaign
<1>8. CASE ActOnCampaign
  <2>1. PICK arg : net' = Sending(net, "act", {}, arg) /\ ui' = ui
    BY <1>8 DEF ActOnCampaign
  <2> QED
    BY <1>0, <1>1, <2>1, AliveSent
<1>9. CASE QuickCreate
  <2>1. \/ \E b : Show([ui EXCEPT !.dialog = b])
        \/ Ask(ui, "quick", "quick", None)
    BY <1>9 DEF QuickCreate
  <2> QED
    BY <1>0, <1>1, <1>2, <2>1, AliveAsk, AliveShow
<1>10. CASE CampaignsArrive
  <2>1. PICK q : Take("list", q, IF Refused(q) THEN ui ELSE [ui EXCEPT !.list = q.ans])
    BY <1>10 DEF CampaignsArrive
  <2> QED
    BY <1>0, <1>1, <1>2, <2>1, AliveTake
<1>11. CASE CreateArrives
  <2>1. PICK q : Take("create", q, ui) \/ Further("create", q, ui, "activate", q.ans[1])
    BY <1>11 DEF CreateArrives
  <2> QED
    BY <1>0, <1>1, <2>1, AliveTake, AliveFurther
<1>12. CASE CampaignSaved
  <2>1. PICK kind, q : /\ kind \in {"activate", "update"}
                       /\ \/ Take(kind, q, ui)
                          \/ /\ ui' = Free(CampaignFormReset(ui), q.ops)
                             /\ net' = Sending(Taking(net, kind, q), "list", {}, None)
    BY <1>12 DEF CampaignSaved
  <2> QED
    BY <1>0, <1>1, <1>3, <2>1, AliveTake, AliveTakenSent
<1>13. CASE CampaignActed
  <2>1. PICK q : Take("act", q, ui) \/ Further("act", q, ui, "list", None)
    BY <1>13 DEF CampaignActed
  <2> QED
    BY <1>0, <1>1, <2>1, AliveTake, AliveFurther
<1>14. CASE QuickArrives
  <2>1. PICK q, l : Take("quick", q, ui) \/ Take("quick", q, [ui EXCEPT !.list = l, !.dialog = FALSE])
    BY <1>14 DEF QuickArrives
  <2> QED
    BY <1>0, <1>1, <1>2, <2>1, AliveTake
<1>15. CASE Discard \/ Fail \/ UNCHANGED vars
  BY <1>15, AliveFails DEF vars
<1> QED
  BY <1>4, <1>5, <1>6, <1>7, <1>8, <1>9, <1>10, <1>11, <1>12, <1>13, <1>14, <1>15 DEF CampaignsNext

-----------------------------------------------------------------------------
(* The pages side by side: whose step a step is *)

LEMMA TasksAt== TasksNext => At("tasks")
<1>1. LoadTasks \/ RefreshTasks \/ ServeTasks \/ TasksArrive \/ ServeNames => At("tasks")
  BY PageRequests DEF LoadTasks, RefreshTasks, ServeTasks, TasksArrive, ServeNames
<1>2. NamesArrive \/ JobGoesOn \/ SetFilter \/ TurnPage \/ TurnLogPage => At("tasks")
  BY PageRequests DEF NamesArrive, JobGoesOn, SetFilter, TurnPage, TurnLogPage
<1>3. OpenMenu => At("tasks")
  BY PageRequests DEF OpenMenu
<1>4. CloseMenu => At("tasks")
  BY PageRequests DEF CloseMenu
<1>5. AskAction => At("tasks")
  BY DEF AskAction, Chosen
<1>6. CancelAction => At("tasks")
  BY PageRequests DEF CancelAction
<1>7. ConfirmAction => At("tasks")
  BY PageRequests DEF ConfirmAction
<1>8. ServeAction => At("tasks")
  BY PageRequests DEF ServeAction
<1>9. ActionArrives => At("tasks")
  BY PageRequests DEF ActionArrives
<1>10. OpenLogs => At("tasks")
  BY DEF OpenLogs, Chosen
<1>11. CloseLogs => At("tasks")
  BY PageRequests DEF CloseLogs
<1>12. ServeLogs => At("tasks")
  BY PageRequests DEF ServeLogs
<1>13. LogsArrive => At("tasks")
  BY PageRequests DEF LogsArrive
<1>14. ExportLogs => At("tasks")
  BY DEF ExportLogs, Chosen
<1>15. ExportArrives => At("tasks")
  BY PageRequests DEF ExportArrives
<1>16. ServeUpload => At("tasks")
  BY PageRequests DEF ServeUpload
<1>17. UploadArrives => At("tasks")
  BY PageRequests DEF UploadArrives
<1> QED
  BY <1>1, <1>2, <1>3, <1>4, <1>5, <1>6, <1>7, <1>8, <1>9, <1>10, <1>11, <1>12, <1>13, <1>14, <1>15, <1>16, <1>17 DEF TasksNext

LEMMA LeadsAt == LeadsNext => At("leads")
<1>1. RefreshLeads \/ TurnLeads \/ ServeLeads \/ LeadsArrive \/ OpenContact => At("leads")
  BY PageRequests DEF RefreshLeads, TurnLeads, ServeLeads, LeadsArrive, OpenContact
<1>2. CloseContact \/ SendContact \/ DismissLead \/ ServeMark \/ MarkArrives => At("leads")
  BY PageRequests DEF CloseContact, SendContact, DismissLead, ServeMark, MarkArrives
<1>3. ServeContact \/ ContactArrives => At("leads")
  BY PageRequests DEF ServeContact, ContactArrives
<1> QED
  BY <1>1, <1>2, <1>3 DEF LeadsNext

LEMMA AcquisitionAt == AcquisitionNext => At("acquisition")
<1>1. AcquisitionForm \/ EditAcquisition \/ ChooseGroup \/ SearchTimer \/ ServeGroups => At("acquisition")
  BY PageRequests DEF AcquisitionForm, EditAcquisition, ChooseGroup, SearchTimer, ServeGroups
<1>2. GroupsArrive \/ SubmitAcquisition \/ ServeAcquisition \/ AcquisitionArrives => At("acquisition")
  BY PageRequests DEF GroupsArrive, SubmitAcquisition, ServeAcquisition, AcquisitionArrives
<1> QED
  BY <1>1, <1>2 DEF AcquisitionNext

LEMMA BlacklistAt == BlacklistNext => At("blacklist")
<1>1. ServeBlacklist \/ BlacklistArrives \/ OpenEntry \/ CloseEntry \/ DeleteEntry => At("blacklist")
  BY PageRequests DEF ServeBlacklist, BlacklistArrives, OpenEntry, CloseEntry, DeleteEntry
<1>2. SaveEntry \/ ServeDelete \/ DeleteArrives \/ ServeAdd \/ AddArrives => At("blacklist")
  BY PageRequests DEF SaveEntry, ServeDelete, DeleteArrives, ServeAdd, AddArrives
<1> QED
  BY <1>1, <1>2 DEF BlacklistNext

LEMMA AnalyticsAt == AnalyticsNext => At("analytics")
<1>1. LoadAnalytics => At("analytics")
  BY DEF LoadAnalytics, AnalyticsLoaded
<1>2. ServeAnalytics => At("analytics")
  BY PageRequests DEF ServeAnalytics
<1>3. AnalyticsArrive => At("analytics")
  BY PageRequests DEF AnalyticsArrive
<1>4. EditSafety => At("analytics")
  BY DEF EditSafety, AnalyticsLoaded
<1>5. SaveSafety => At("analytics")
  BY DEF SaveSafety, AnalyticsLoaded
<1>6. ServeSafety \/ SafetySaved => At("analytics")
  BY PageRequests DEF ServeSafety, SafetySaved
<1> QED
  BY <1>1, <1>2, <1>3, <1>4, <1>5, <1>6 DEF AnalyticsNext

LEMMA FilterAt == FilterNext => At("filter")
<1>1. OpenFilter \/ EditDraft \/ CloseFilter \/ CountTimer \/ ServeCount => At("filter")
  BY PageRequests DEF OpenFilter, EditDraft, CloseFilter, CountTimer, ServeCount
<1>2. CountArrives \/ ApplyFilter \/ ServeFirst \/ FirstArrives \/ ServeRest => At("filter")
  BY PageRequests DEF CountArrives, ApplyFilter, ServeFirst, FirstArrives, ServeRest
<1>3. RestArrives \/ ClearFilter => At("filter")
  BY PageRequests DEF RestArrives, ClearFilter
<1> QED
  BY <1>1, <1>2, <1>3 DEF FilterNext

LEMMA SearchAt == SearchNext => At("search")
<1>1. EditSearch \/ SearchNow \/ ServeSearch \/ SearchArrives => At("search")
  BY PageRequests DEF EditSearch, SearchNow, ServeSearch, SearchArrives
<1> QED
  BY <1>1 DEF SearchNext

LEMMA PickerAt == PickerNext => At("picker")
<1>1. PickSource \/ SearchRows \/ ServeRows \/ RowsArrive \/ ServeHeld => At("picker")
  BY PageRequests DEF PickSource, SearchRows, ServeRows, RowsArrive, ServeHeld
<1>2. HeldArrives \/ ChangeSelection \/ ClaimTimer \/ ServePickerClaim \/ PickerClaimArrives => At("picker")
  BY PageRequests DEF HeldArrives, ChangeSelection, ClaimTimer, ServePickerClaim, PickerClaimArrives
<1>3. PickerWorld => At("picker")
  BY PageRequests DEF PickerWorld
<1> QED
  BY <1>1, <1>2, <1>3 DEF PickerNext

LEMMA SendAt == SendNext => At("send")
<1>1. ToggleForm => At("send")
  BY PageRequests DEF ToggleForm
<1>2. EditSend => At("send")
  BY PageRequests DEF EditSend
<1>3. Prepare => At("send")
  BY DEF Prepare, CanSubmitSend
<1>4. ServePreflight => At("send")
  BY PageRequests DEF ServePreflight
<1>5. PreflightArrives => At("send")
  BY PageRequests DEF PreflightArrives
<1>6. ConfirmSend => At("send")
  BY DEF ConfirmSend, CanSubmitSend
<1>7. ServeSendClaim => At("send")
  BY PageRequests DEF ServeSendClaim
<1>8. SendClaimArrives => At("send")
  BY PageRequests DEF SendClaimArrives
<1>9. CheckSend \/ CreateSend => At("send")
  BY PageRequests DEF CheckSend, CreateSend
<1>10. ServePost => At("send")
  BY PageRequests DEF ServePost
<1>11. SendArrives \/ SendWorld => At("send")
  BY PageRequests DEF SendArrives, SendWorld
<1> QED
  BY <1>1, <1>2, <1>3, <1>4, <1>5, <1>6, <1>7, <1>8, <1>9, <1>10, <1>11 DEF SendNext

LEMMA ComposerAt == ComposerNext => At("composer")
<1>1. EditComposer \/ UploadMedia \/ ServeMedia \/ MediaArrives => At("composer")
  BY PageRequests DEF EditComposer, UploadMedia, ServeMedia, MediaArrives
<1> QED
  BY <1>1 DEF ComposerNext

LEMMA CampaignsAt == CampaignsNext => At("campaigns")
<1>1. ServeCampaigns \/ CampaignsArrive \/ EditSchedule \/ EditCampaign \/ CancelCampaign => At("campaigns")
  BY PageRequests DEF ServeCampaigns, CampaignsArrive, EditSchedule, EditCampaign, CancelCampaign
<1>2. SaveCampaign \/ ServeCreate \/ CreateArrives \/ ServeSave \/ CampaignSaved => At("campaigns")
  BY PageRequests DEF SaveCampaign, ServeCreate, CreateArrives, ServeSave, CampaignSaved
<1>3. ActOnCampaign \/ ServeCampaignAction \/ CampaignActed \/ QuickCreate \/ QuickArrives => At("campaigns")
  BY PageRequests DEF ActOnCampaign, ServeCampaignAction, CampaignActed, QuickCreate, QuickArrives
<1> QED
  BY <1>1, <1>2, <1>3 DEF CampaignsNext

LEMMA AutomationAt == AutomationNext => At("automation")
<1>1. ServeAutomation \/ AutomationArrives \/ ToggleTask \/ OpenEditForm \/ EditTask => At("automation")
  BY PageRequests DEF ServeAutomation, AutomationArrives, ToggleTask, OpenEditForm, EditTask
<1>2. SearchGroups \/ GroupTimer \/ ServeTaskGroups \/ TaskGroupsArrive \/ SaveTask => At("automation")
  BY PageRequests DEF SearchGroups, GroupTimer, ServeTaskGroups, TaskGroupsArrive, SaveTask
<1>3. ServeTask \/ TaskSaved \/ AskDeleteTask \/ DeleteTask \/ TaskDeleted => At("automation")
  BY PageRequests DEF ServeTask, TaskSaved, AskDeleteTask, DeleteTask, TaskDeleted
<1> QED
  BY <1>1, <1>2, <1>3 DEF AutomationNext

LEMMA BulkAt == BulkNext => At("bulk")
<1>1. ToggleBulk \/ TypeBulkGroup \/ BulkGroupTimer \/ ServeBulkGroups \/ BulkGroupsArrive => At("bulk")
  BY PageRequests DEF ToggleBulk, TypeBulkGroup, BulkGroupTimer, ServeBulkGroups, BulkGroupsArrive
<1>2. PickBulkGroup \/ EditBulk \/ ServeBulkHeld \/ BulkHeldArrives => At("bulk")
  BY PageRequests DEF PickBulkGroup, EditBulk, ServeBulkHeld, BulkHeldArrives
<1>3. SaveBulk \/ ServeBulk \/ BulkSaved \/ BulkWorks => At("bulk")
  BY PageRequests DEF SaveBulk, ServeBulk, BulkSaved, BulkWorks
<1> QED
  BY <1>1, <1>2, <1>3 DEF BulkNext

\* The pages share the discarding and the failing of requests, and nothing else.
LEMMA StepOfPage ==
  ASSUME [Next]_vars
  PROVE  /\ At("tasks") => [TasksNext \/ Discard \/ Fail]_vars
         /\ At("leads") => [LeadsNext \/ Discard \/ Fail]_vars
         /\ At("acquisition") => [AcquisitionNext \/ Discard \/ Fail]_vars
         /\ At("blacklist") => [BlacklistNext \/ Discard \/ Fail]_vars
         /\ At("analytics") => [AnalyticsNext \/ Discard \/ Fail]_vars
         /\ At("filter") => [FilterNext \/ Discard \/ Fail]_vars
         /\ At("search") => [SearchNext \/ Discard \/ Fail]_vars
         /\ At("picker") => [PickerNext \/ Discard \/ Fail]_vars
         /\ At("send") => [SendNext \/ Discard \/ Fail]_vars
         /\ At("composer") => [ComposerNext \/ Discard \/ Fail]_vars
         /\ At("campaigns") => [CampaignsNext \/ Discard \/ Fail]_vars
         /\ At("automation") => [AutomationNext \/ Discard \/ Fail]_vars
         /\ At("bulk") => [BulkNext \/ Discard \/ Fail]_vars
<1>1. CASE TasksNext
  BY <1>1, TasksAt DEF At
<1>2. CASE LeadsNext
  BY <1>2, LeadsAt DEF At
<1>3. CASE AcquisitionNext
  BY <1>3, AcquisitionAt DEF At
<1>4. CASE BlacklistNext
  BY <1>4, BlacklistAt DEF At
<1>5. CASE AnalyticsNext
  BY <1>5, AnalyticsAt DEF At
<1>6. CASE FilterNext
  BY <1>6, FilterAt DEF At
<1>7. CASE SearchNext
  BY <1>7, SearchAt DEF At
<1>8. CASE PickerNext
  BY <1>8, PickerAt DEF At
<1>9. CASE SendNext
  BY <1>9, SendAt DEF At
<1>10. CASE ComposerNext
  BY <1>10, ComposerAt DEF At
<1>11. CASE CampaignsNext
  BY <1>11, CampaignsAt DEF At
<1>12. CASE AutomationNext
  BY <1>12, AutomationAt DEF At
<1>13. CASE BulkNext
  BY <1>13, BulkAt DEF At
<1>14. CASE Discard \/ Fail \/ UNCHANGED vars
  BY <1>14
<1> QED
  BY <1>1, <1>2, <1>3, <1>4, <1>5, <1>6, <1>7, <1>8, <1>9, <1>10, <1>11, <1>12, <1>13, <1>14
     DEF Next

(***************************************************************************)
(* The page that is shown keeps its own invariant.                         *)
(***************************************************************************)
PagesInv ==
  \/ TasksInv \/ LeadsInv \/ AcquisitionInv
  \/ Alive("blacklist", BlacklistKinds, ui, net) \/ Alive("analytics", AnalyticsKinds, ui, net)
  \/ FilterInv \/ Alive("search", SearchKinds, ui, net)
  \/ PickerInv \/ SendInv \/ ComposerInv \/ Alive("campaigns", CampaignKinds, ui, net)
  \/ AutomationInv \/ BulkInv

\* A page on which everything ends has nothing that lasts.
LEMMA LastingOrEnds == ControlsEnd => PageControlsEnd
  BY DEF ControlsEnd, PageControlsEnd, ControlsEndBut

\* What the invariant of each page is for.
LEMMA InvariantOfPage ==
  /\ TasksInv => At("tasks") /\ PagesShowAll /\ PageControlsEnd
  /\ LeadsInv => At("leads") /\ PageControlsEnd
  /\ AcquisitionInv => At("acquisition") /\ PageControlsEnd
  /\ \A page, kinds : Alive(page, kinds, ui, net) => At(page) /\ PageControlsEnd
  /\ FilterInv => At("filter") /\ FilterSettles /\ PageControlsEnd
  /\ PickerInv => At("picker") /\ AutoClaimed /\ PageControlsEnd
  /\ SendInv => At("send") /\ SentAsConfirmed /\ PageControlsEnd
  /\ ComposerInv => At("composer") /\ MediaStaysWithMessage /\ PageControlsEnd
  /\ AutomationInv => At("automation") /\ UntouchedKeeps /\ PageControlsEnd
  /\ BulkInv => At("bulk") /\ HeldIsOfTarget /\ PageControlsEnd
<1>1. TasksInv => At("tasks") /\ PagesShowAll /\ PageControlsEnd
  BY TasksInvShowsAll, LastingOrEnds DEF TasksInv, IsTaskUi, At
<1>2. \A page, kinds : Alive(page, kinds, ui, net) => At(page) /\ PageControlsEnd
  BY ControlsInFlight, LastingOrEnds DEF Alive, At
<1>3. FilterInv => At("filter") /\ FilterSettles /\ PageControlsEnd
  <2> SUFFICES ASSUME FilterInv PROVE At("filter") /\ FilterSettles /\ PageControlsEnd
    OBVIOUS
  <2>1. At("filter") /\ FilterSettles
    <3>1. At("filter")
      BY DEF FilterInv, FilterState, IsFilterUi, At
    <3>2. CountIsOfDraft
      BY DEF FilterInv, FilterState, CountOf, Counting, CountIsOfDraft
    <3>3. NarrowIsOfFilter
      BY DEF FilterInv, FilterState, NarrowOf, NarrowIsOfFilter
    <3> QED
      BY <3>1, <3>2, <3>3 DEF FilterSettles
  <2>2. Lasting = CountLasts
    BY <2>1 DEF Lasting, At
  <2> QED
    BY <2>1, <2>2, FilterInvEnds DEF PageControlsEnd
<1>4. PickerInv => At("picker") /\ AutoClaimed /\ PageControlsEnd
  BY LastingOrEnds DEF PickerInv, IsPickerUi, Covered, AutoClaimed, Live, At
<1>5. SendInv => At("send") /\ SentAsConfirmed /\ PageControlsEnd
  BY LastingOrEnds DEF SendInv, IsSendUi, IsSendSrv, Confirmed, SentAsConfirmed, At
<1>6. ComposerInv => At("composer") /\ MediaStaysWithMessage /\ PageControlsEnd
  BY LastingOrEnds DEF ComposerInv, IsComposerUi, AreRows, MediaStaysWithMessage, At
<1>7. AutomationInv => At("automation") /\ UntouchedKeeps /\ PageControlsEnd
  BY LastingOrEnds DEF AutomationInv, IsAutomationUi, Untouched, UntouchedKeeps, At
<1>8. BulkInv => At("bulk") /\ HeldIsOfTarget /\ PageControlsEnd
  <2> SUFFICES ASSUME BulkInv PROVE At("bulk") /\ HeldIsOfTarget /\ PageControlsEnd
    OBVIOUS
  <2>1. At("bulk") /\ HeldIsOfTarget
    BY DEF BulkInv, BulkState, IsBulkUi, HeldOfTarget, AddedTo, HeldIsOfTarget, Live, At
  <2>2. Lasting = BulkSearchesLast
    BY <2>1 DEF Lasting, At
  <2> QED
    BY <2>1, <2>2, BulkInvEnds DEF PageControlsEnd
<1> QED
  BY <1>1, <1>2, <1>3, <1>4, <1>5, <1>6, <1>7, <1>8 DEF LeadsInv, AcquisitionInv

LEMMA PagesInit == Init => PagesInv
<1>1. (\E scenario \in {"form", "save"} : AutomationStart(scenario)) => AutomationInv
  BY AutomationInit
<1>2. (\E scenario \in {"search", "add"} : BulkStart(scenario)) => BulkInv
  BY BulkInit
<1> QED
  BY <1>1, <1>2, TasksInit, LeadsInit, AcquisitionInit, BlacklistInit, AnalyticsInit, FilterInit, SearchInit,
     PickerInit, SendInit, ComposerInit, CampaignsInit
     DEF Init, PagesInv

LEMMA PagesInvNext == PagesInv /\ [Next]_vars => PagesInv'
<1> SUFFICES ASSUME PagesInv, [Next]_vars PROVE PagesInv'
  OBVIOUS
<1>1. CASE TasksInv
  BY <1>1, StepOfPage, InvariantOfPage, TasksInvNext DEF PagesInv
<1>2. CASE LeadsInv
  BY <1>2, StepOfPage, InvariantOfPage, LeadsInvNext DEF PagesInv
<1>3. CASE AcquisitionInv
  BY <1>3, StepOfPage, InvariantOfPage, AcquisitionInvNext DEF PagesInv
<1>4. CASE Alive("blacklist", BlacklistKinds, ui, net)
  BY <1>4, StepOfPage, InvariantOfPage, BlacklistStep DEF PagesInv
<1>5. CASE Alive("analytics", AnalyticsKinds, ui, net)
  BY <1>5, StepOfPage, InvariantOfPage, AnalyticsStep DEF PagesInv
<1>6. CASE FilterInv
  BY <1>6, StepOfPage, InvariantOfPage, FilterInvNext DEF PagesInv
<1>7. CASE Alive("search", SearchKinds, ui, net)
  BY <1>7, StepOfPage, InvariantOfPage, SearchStep DEF PagesInv
<1>8. CASE PickerInv
  BY <1>8, StepOfPage, InvariantOfPage, PickerInvNext DEF PagesInv
<1>9. CASE SendInv
  BY <1>9, StepOfPage, InvariantOfPage, SendInvNext DEF PagesInv
<1>10. CASE ComposerInv
  BY <1>10, StepOfPage, InvariantOfPage, ComposerInvNext DEF PagesInv
<1>11. CASE Alive("campaigns", CampaignKinds, ui, net)
  BY <1>11, StepOfPage, InvariantOfPage, CampaignsStep DEF PagesInv
<1>12. CASE AutomationInv
  BY <1>12, StepOfPage, InvariantOfPage, AutomationInvNext DEF PagesInv
<1>13. CASE BulkInv
  BY <1>13, StepOfPage, InvariantOfPage, BulkInvNext DEF PagesInv
<1> QED
  BY <1>1, <1>2, <1>3, <1>4, <1>5, <1>6, <1>7, <1>8, <1>9, <1>10, <1>11, <1>12, <1>13 DEF PagesInv

LEMMA PagesInvariant == Spec => []PagesInv
  BY PagesInit, PagesInvNext, PTL DEF Spec

\* What a page has to keep says nothing of another page.
LEMMA HoldsElsewhere ==
  /\ ~At("tasks") => PagesShowAll
  /\ ~At("filter") => FilterSettles
  /\ ~At("picker") => AutoClaimed
  /\ ~At("send") => SentAsConfirmed
  /\ ~At("composer") => MediaStaysWithMessage
  /\ ~At("automation") => UntouchedKeeps
  /\ ~At("bulk") => HeldIsOfTarget
<1>1. ~At("tasks") => PagesShowAll
  BY DEF PagesShowAll
<1>2. ~At("filter") => FilterSettles
  BY DEF FilterSettles, CountIsOfDraft, NarrowIsOfFilter
<1>3. (~At("picker") => AutoClaimed) /\ (~At("send") => SentAsConfirmed)
      /\ (~At("composer") => MediaStaysWithMessage)
  BY DEF AutoClaimed, SentAsConfirmed, MediaStaysWithMessage
<1>4. (~At("automation") => UntouchedKeeps) /\ (~At("bulk") => HeldIsOfTarget)
  BY DEF UntouchedKeeps, HeldIsOfTarget
<1> QED
  BY <1>1, <1>2, <1>3, <1>4

LEMMA PagesHold ==
  ASSUME PagesInv
  PROVE  /\ PagesShowAll /\ FilterSettles /\ AutoClaimed /\ SentAsConfirmed
         /\ MediaStaysWithMessage /\ UntouchedKeeps /\ HeldIsOfTarget /\ PageControlsEnd
<1>1. CASE TasksInv
  BY <1>1, InvariantOfPage, HoldsElsewhere DEF At
<1>2. CASE FilterInv
  BY <1>2, InvariantOfPage, HoldsElsewhere DEF At
<1>3. CASE PickerInv
  BY <1>3, InvariantOfPage, HoldsElsewhere DEF At
<1>4. CASE SendInv
  BY <1>4, InvariantOfPage, HoldsElsewhere DEF At
<1>5. CASE ComposerInv
  BY <1>5, InvariantOfPage, HoldsElsewhere DEF At
<1>6. CASE AutomationInv
  BY <1>6, InvariantOfPage, HoldsElsewhere DEF At
<1>7. CASE BulkInv
  BY <1>7, InvariantOfPage, HoldsElsewhere DEF At
<1>8. CASE PageControlsEnd /\ \E page \in {"leads", "acquisition", "blacklist", "analytics", "search",
                                      "campaigns"} : At(page)
  BY <1>8, HoldsElsewhere DEF At
<1> QED
  BY <1>1, <1>2, <1>3, <1>4, <1>5, <1>6, <1>7, <1>8, InvariantOfPage DEF PagesInv

(***************************************************************************)
(* No button, field or spinner of any page stays disabled or turning once  *)
(* the requests that it waits for have ended: through the two requests of  *)
(* a send, the names and the list that a load and an action of the task    *)
(* activity read, the pages of a filter that are read together, the list   *)
(* that a save reads again, and whatever else the user does meanwhile.     *)
(* The two loading states that the code does leave on are excepted where   *)
(* it does: the count of a filter that is blanked or unusable, and the     *)
(* search of groups on a side whose query is cleared.  Neither lasts in a  *)
(* filter that is being counted, or in a search with a text.               *)
(***************************************************************************)
THEOREM PagesControlsEnd == Spec => []PageControlsEnd
<1>1. PagesInv => PageControlsEnd
  BY PagesHold
<1> QED
  BY <1>1, PagesInvariant, PTL

(***************************************************************************)
(* For any jobs, any log and any number of rows to a page: the pages of    *)
(* the list and of the report show every row once and in order, and the    *)
(* window of a log with rows shows some, whatever answer came last.        *)
(***************************************************************************)
THEOREM PagesAlwaysShowAll == Spec => []PagesShowAll
<1>1. PagesInv => PagesShowAll
  BY PagesHold
<1> QED
  BY <1>1, PagesInvariant, PTL

(***************************************************************************)
(* For any members, keywords and size of a page, and filters of any        *)
(* length: a count that is shown as final is that of the filter as it now  *)
(* stands, and the members that narrow the picker are matches of the       *)
(* filter the form carries.                                                *)
(***************************************************************************)
THEOREM FilterAlwaysSettles == Spec => []FilterSettles
<1>1. PagesInv => FilterSettles
  BY PagesHold
<1> QED
  BY <1>1, PagesInvariant, PTL

(***************************************************************************)
(* For any members and source groups: once the timer has fired and its     *)
(* call is answered, every selected member has been claimed for the agent, *)
(* or a call for it failed or found it claimed by another.                 *)
(***************************************************************************)
THEOREM AlwaysAutoClaimed == Spec => []AutoClaimed
<1>1. PagesInv => AutoClaimed
  BY PagesHold
<1> QED
  BY <1>1, PagesInvariant, PTL

(***************************************************************************)
(* For any members and groups, and as many jobs as one likes: nobody gets  *)
(* a message whom the summary that the user confirmed did not count.       *)
(***************************************************************************)
THEOREM SentAlwaysAsConfirmed == Spec => []SentAsConfirmed
<1>1. PagesInv => SentAsConfirmed
  BY PagesHold
<1> QED
  BY <1>1, PagesInvariant, PTL

(***************************************************************************)
(* For any number of rows and of uploads at a time: a file goes out with   *)
(* the message it was chosen for, although rows are added and removed      *)
(* while it is uploaded.                                                   *)
(***************************************************************************)
THEOREM MediaAlwaysWithMessage == Spec => []MediaStaysWithMessage
<1>1. PagesInv => MediaStaysWithMessage
  BY PagesHold
<1> QED
  BY <1>1, PagesInvariant, PTL

(***************************************************************************)
(* For any number of tasks: one that is opened and saved without a change  *)
(* keeps its texts, where it goes and the delay and the limits it has,     *)
(* whatever the form held before and whichever groups its searches have    *)
(* found by then.  What it does not keep is what the form has no field     *)
(* for, and a limit that it has not is given one.                          *)
(***************************************************************************)
THEOREM UntouchedAlwaysKeeps == Spec => []UntouchedKeeps
<1>1. PagesInv => UntouchedKeeps
  BY PagesHold
<1> QED
  BY <1>1, PagesInvariant, PTL

(***************************************************************************)
(* For any members, targets and additions: once the look-up is answered,   *)
(* the members that the picker disables are those of additions to the      *)
(* target that is chosen now, however quickly targets were changed.        *)
(***************************************************************************)
THEOREM HeldAlwaysOfTarget == Spec => []HeldIsOfTarget
<1>1. PagesInv => HeldIsOfTarget
  BY PagesHold
<1> QED
  BY <1>1, PagesInvariant, PTL
=============================================================================
