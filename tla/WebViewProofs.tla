---------------------------- MODULE WebViewProofs ----------------------------
(***************************************************************************)
(* Lemmas about the requests in flight, which the proofs about the pages   *)
(* share: what each operation on net does to the requests of a kind, and   *)
(* to the operations that have a step in flight.                           *)
(***************************************************************************)
EXTENDS WebView, WellFoundedInduction, TLAPS

IsRequest(q) == q \in [ops: {q.ops}, arg: {q.arg}, ans: {q.ans}, live: BOOLEAN]

\* n is a state of net for a page with these kinds of requests.
IsNet(n, kinds) ==
  /\ n = [kind \in kinds |-> n[kind]]
  /\ \A kind \in kinds : \A q \in n[kind] : IsRequest(q)

\* A step of operation op is in flight in n.
InFlight(n, op) == \E kind \in DOMAIN n : \E q \in n[kind] : q.live /\ op \in q.ops

LEMMA ControlsInFlight == ControlsEnd <=> \A op \in ui.busy : InFlight(net, op)
  BY DEF ControlsEnd, ControlsEndBut, InFlight

\* A request that is sent is live, and nobody has answered it.
LEMMA RequestFields ==
  ASSUME NEW ops, NEW arg
  PROVE  /\ IsRequest(Request(ops, arg))
         /\ Request(ops, arg).ops = ops
         /\ Request(ops, arg).arg = arg
         /\ Request(ops, arg).ans = None
         /\ Request(ops, arg).live
  BY DEF Request, IsRequest

\* The server's answer, and the cleanup of an effect, leave the rest of a request.
LEMMA AnsweredFields ==
  ASSUME NEW q, IsRequest(q), NEW ans
  PROVE  LET r == [q EXCEPT !.ans = ans]
         IN  IsRequest(r) /\ r.ops = q.ops /\ r.arg = q.arg /\ r.ans = ans /\ r.live = q.live
  BY DEF IsRequest

LEMMA CancelledFields ==
  ASSUME NEW q, IsRequest(q)
  PROVE  LET r == [q EXCEPT !.live = FALSE]
         IN  IsRequest(r) /\ r.ops = q.ops /\ r.arg = q.arg /\ r.ans = q.ans /\ ~r.live
  BY DEF IsRequest

LEMMA SendingNet ==
  ASSUME NEW kinds, NEW n, IsNet(n, kinds), NEW kind \in kinds, NEW ops, NEW arg
  PROVE  /\ IsNet(Sending(n, kind, ops, arg), kinds)
         /\ Sending(n, kind, ops, arg)[kind] = n[kind] \cup {Request(ops, arg)}
         /\ \A k \in kinds \ {kind} : Sending(n, kind, ops, arg)[k] = n[k]
         /\ \A op : InFlight(Sending(n, kind, ops, arg), op) <=> InFlight(n, op) \/ op \in ops
<1> DEFINE m == Sending(n, kind, ops, arg)
<1>1. /\ m = [k \in kinds |-> m[k]]
      /\ m[kind] = n[kind] \cup {Request(ops, arg)}
      /\ \A k \in kinds \ {kind} : m[k] = n[k]
  BY DEF IsNet, Sending
<1> HIDE DEF m
<1>2. DOMAIN n = kinds /\ DOMAIN m = kinds
  BY <1>1 DEF IsNet
<1>3. IsNet(m, kinds)
  BY <1>1, RequestFields DEF IsNet
<1>4. ASSUME NEW op PROVE InFlight(m, op) <=> InFlight(n, op) \/ op \in ops
  BY <1>1, <1>2, RequestFields DEF InFlight
<1> QED
  BY <1>1, <1>3, <1>4 DEF m

LEMMA ExecutedNet ==
  ASSUME NEW kinds, NEW n, IsNet(n, kinds), NEW kind \in kinds, NEW q \in n[kind], NEW ans
  PROVE  /\ IsNet(Executed(n, kind, q, ans), kinds)
         /\ Executed(n, kind, q, ans)[kind] = (n[kind] \ {q}) \cup {[q EXCEPT !.ans = ans]}
         /\ \A k \in kinds \ {kind} : Executed(n, kind, q, ans)[k] = n[k]
         /\ \A op : InFlight(n, op) => InFlight(Executed(n, kind, q, ans), op)
<1> DEFINE m == Executed(n, kind, q, ans)
           r == [q EXCEPT !.ans = ans]
<1>1. /\ m = [k \in kinds |-> m[k]]
      /\ m[kind] = (n[kind] \ {q}) \cup {r}
      /\ \A k \in kinds \ {kind} : m[k] = n[k]
  BY DEF IsNet, Executed
<1>2. DOMAIN n = kinds /\ DOMAIN m = kinds
  BY <1>1 DEF IsNet
<1>3. IsRequest(r) /\ r.ops = q.ops /\ r.live = q.live
  BY AnsweredFields DEF IsNet
<1> HIDE DEF m, r
<1>4. IsNet(m, kinds)
  BY <1>1, <1>3 DEF IsNet
<1>5. ASSUME NEW op, InFlight(n, op) PROVE InFlight(m, op)
  BY <1>1, <1>2, <1>3, <1>5 DEF InFlight
<1> QED
  BY <1>1, <1>4, <1>5 DEF m, r

LEMMA TakingNet ==
  ASSUME NEW kinds, NEW n, IsNet(n, kinds), NEW kind \in kinds, NEW q
  PROVE  /\ IsNet(Taking(n, kind, q), kinds)
         /\ Taking(n, kind, q)[kind] = n[kind] \ {q}
         /\ \A k \in kinds \ {kind} : Taking(n, kind, q)[k] = n[k]
         /\ \A op : InFlight(n, op) => InFlight(Taking(n, kind, q), op) \/ (q.live /\ op \in q.ops)
<1> DEFINE m == Taking(n, kind, q)
<1>1. /\ m = [k \in kinds |-> m[k]]
      /\ m[kind] = n[kind] \ {q}
      /\ \A k \in kinds \ {kind} : m[k] = n[k]
  BY DEF IsNet, Taking
<1> HIDE DEF m
<1>2. DOMAIN n = kinds /\ DOMAIN m = kinds
  BY <1>1 DEF IsNet
<1>3. IsNet(m, kinds)
  BY <1>1 DEF IsNet
<1>4. ASSUME NEW op, InFlight(n, op) PROVE InFlight(m, op) \/ (q.live /\ op \in q.ops)
  BY <1>1, <1>2, <1>4 DEF InFlight
<1> QED
  BY <1>1, <1>3, <1>4 DEF m

LEMMA CancelledNet ==
  ASSUME NEW kinds, NEW n, IsNet(n, kinds), NEW kind \in kinds
  PROVE  /\ IsNet(Cancelled(n, kind), kinds)
         /\ Cancelled(n, kind)[kind] = {[q EXCEPT !.live = FALSE] : q \in n[kind]}
         /\ \A k \in kinds \ {kind} : Cancelled(n, kind)[k] = n[k]
         /\ \A op : InFlight(n, op) =>
              InFlight(Cancelled(n, kind), op) \/ \E q \in n[kind] : q.live /\ op \in q.ops
<1> DEFINE m == Cancelled(n, kind)
<1>1. /\ m = [k \in kinds |-> m[k]]
      /\ m[kind] = {[q EXCEPT !.live = FALSE] : q \in n[kind]}
      /\ \A k \in kinds \ {kind} : m[k] = n[k]
  BY DEF IsNet, Cancelled
<1> HIDE DEF m
<1>2. DOMAIN n = kinds /\ DOMAIN m = kinds
  BY <1>1 DEF IsNet
<1>3. \A r \in m[kind] : IsRequest(r)
  BY <1>1, CancelledFields DEF IsNet
<1>4. IsNet(m, kinds)
  BY <1>1, <1>3 DEF IsNet
<1>5. ASSUME NEW op, InFlight(n, op)
      PROVE  InFlight(m, op) \/ \E q \in n[kind] : q.live /\ op \in q.ops
  BY <1>1, <1>2, <1>5 DEF InFlight
<1> QED
  BY <1>1, <1>4, <1>5 DEF m

LEMMA CancelledRequests ==
  ASSUME NEW kinds, NEW n, IsNet(n, kinds), NEW kind \in kinds, NEW r \in Cancelled(n, kind)[kind]
  PROVE  ~r.live /\ \E q \in n[kind] : r.ops = q.ops /\ r.arg = q.arg /\ r.ans = q.ans
<1>1. PICK q \in n[kind] : r = [q EXCEPT !.live = FALSE]
  BY CancelledNet
<1>2. IsRequest(q)
  BY DEF IsNet
<1> QED
  BY <1>1, <1>2, CancelledFields

LEMMA AllCancelledNet ==
  ASSUME NEW kinds, NEW n, IsNet(n, kinds)
  PROVE  /\ IsNet(AllCancelled(n), kinds)
         /\ \A k \in kinds : AllCancelled(n)[k] = {[q EXCEPT !.live = FALSE] : q \in n[k]}
         /\ \A k \in kinds : \A r \in AllCancelled(n)[k] :
              /\ ~r.live
              /\ \E q \in n[k] : r.ops = q.ops /\ r.arg = q.arg /\ r.ans = q.ans
<1> DEFINE m == AllCancelled(n)
<1>1. /\ m = [k \in kinds |-> m[k]]
      /\ \A k \in kinds : m[k] = {[q EXCEPT !.live = FALSE] : q \in n[k]}
  BY DEF IsNet, AllCancelled
<1> HIDE DEF m
<1>2. \A k \in kinds : \A r \in m[k] : \E q \in n[k] : r = [q EXCEPT !.live = FALSE]
  BY <1>1
<1>3. \A k \in kinds : \A r \in m[k] :
        /\ IsRequest(r) /\ ~r.live
        /\ \E q \in n[k] : r.ops = q.ops /\ r.arg = q.arg /\ r.ans = q.ans
  <2> SUFFICES ASSUME NEW k \in kinds, NEW r \in m[k]
               PROVE  /\ IsRequest(r) /\ ~r.live
                      /\ \E q \in n[k] : r.ops = q.ops /\ r.arg = q.arg /\ r.ans = q.ans
    OBVIOUS
  <2>1. PICK q \in n[k] : r = [q EXCEPT !.live = FALSE]
    BY <1>2
  <2>2. IsRequest(q)
    BY DEF IsNet
  <2> QED
    BY <2>1, <2>2, CancelledFields
<1>4. IsNet(m, kinds)
  BY <1>1, <1>3 DEF IsNet
<1> QED
  BY <1>1, <1>3, <1>4 DEF m

-----------------------------------------------------------------------------
(***************************************************************************)
(* ControlsEnd after a step that sends, executes or takes a request.       *)
(***************************************************************************)
LEMMA ControlsInFlightNext == ControlsEnd' <=> \A op \in ui'.busy : InFlight(net', op)
  BY DEF ControlsEnd, ControlsEndBut, InFlight

LEMMA SentEnds ==
  ASSUME ControlsEnd, NEW kinds, IsNet(net, kinds), NEW kind \in kinds, NEW ops, NEW arg,
         net' = Sending(net, kind, ops, arg),
         \A op \in ui'.busy : op \in ui.busy \/ op \in ops
  PROVE  ControlsEnd'
<1>1. \A op \in ui'.busy : InFlight(net, op) \/ op \in ops
  BY ControlsInFlight
<1>2. \A op : InFlight(net, op) \/ op \in ops => InFlight(net', op)
  BY SendingNet
<1> QED
  BY <1>1, <1>2, ControlsInFlightNext

LEMMA ExecutedEnds ==
  ASSUME ControlsEnd, NEW kinds, IsNet(net, kinds), NEW kind \in kinds, NEW q \in net[kind], NEW ans,
         net' = Executed(net, kind, q, ans), ui'.busy \subseteq ui.busy
  PROVE  ControlsEnd'
<1>1. \A op \in ui'.busy : InFlight(net, op)
  BY ControlsInFlight
<1>2. \A op : InFlight(net, op) => InFlight(net', op)
  BY ExecutedNet
<1> QED
  BY <1>1, <1>2, ControlsInFlightNext

LEMMA TakenEnds ==
  ASSUME ControlsEnd, NEW kinds, IsNet(net, kinds), NEW kind \in kinds, NEW q,
         net' = Taking(net, kind, q),
         \A op \in ui'.busy : op \in ui.busy /\ ~(q.live /\ op \in q.ops)
  PROVE  ControlsEnd'
<1>1. \A op \in ui'.busy : InFlight(net, op)
  BY ControlsInFlight
<1>2. \A op : InFlight(net, op) => InFlight(net', op) \/ (q.live /\ op \in q.ops)
  BY TakingNet
<1> QED
  BY <1>1, <1>2, ControlsInFlightNext

LEMMA FurtherEnds ==
  ASSUME ControlsEnd, NEW kinds, IsNet(net, kinds), NEW kind \in kinds, NEW q,
         NEW next \in kinds, NEW ops, NEW arg,
         net' = Sending(Taking(net, kind, q), next, ops, arg),
         \A op \in ui'.busy : op \in ops \/ (op \in ui.busy /\ ~(q.live /\ op \in q.ops))
  PROVE  ControlsEnd'
<1>1. IsNet(Taking(net, kind, q), kinds)
  BY TakingNet
<1>2. \A op \in ui'.busy : op \in ops \/ (InFlight(net, op) /\ ~(q.live /\ op \in q.ops))
  BY ControlsInFlight
<1>3. \A op : InFlight(net, op) => InFlight(Taking(net, kind, q), op) \/ (q.live /\ op \in q.ops)
  BY TakingNet
<1>4. \A op : InFlight(Taking(net, kind, q), op) \/ op \in ops => InFlight(net', op)
  BY <1>1, SendingNet
<1> QED
  BY <1>2, <1>3, <1>4, ControlsInFlightNext

LEMMA ShownEnds ==
  ASSUME ControlsEnd, net' = net, ui'.busy \subseteq ui.busy
  PROVE  ControlsEnd'
  BY ControlsInFlight, ControlsInFlightNext

\* For the pages that leave flags set: each of the operations S has a step in flight
\* after a step that sends, executes or takes a request.
AllInFlight(S, n) == \A op \in S : InFlight(n, op)

LEMMA EndsFewer ==
  ASSUME NEW S, NEW n, AllInFlight(S, n), NEW T, T \subseteq S
  PROVE  AllInFlight(T, n)
  BY DEF AllInFlight

LEMMA EndsSent ==
  ASSUME NEW kinds, NEW n, IsNet(n, kinds), NEW S, AllInFlight(S, n), NEW kind \in kinds, NEW ops, NEW arg,
         NEW T, T \subseteq S \cup ops
  PROVE  AllInFlight(T, Sending(n, kind, ops, arg))
  BY SendingNet DEF AllInFlight

LEMMA EndsExecuted ==
  ASSUME NEW kinds, NEW n, IsNet(n, kinds), NEW S, AllInFlight(S, n), NEW kind \in kinds, NEW q \in n[kind],
         NEW ans
  PROVE  AllInFlight(S, Executed(n, kind, q, ans))
  BY ExecutedNet DEF AllInFlight

LEMMA EndsTaken ==
  ASSUME NEW kinds, NEW n, IsNet(n, kinds), NEW S, AllInFlight(S, n), NEW kind \in kinds, NEW q,
         NEW T, \A op \in T : op \in S /\ ~(q.live /\ op \in q.ops)
  PROVE  AllInFlight(T, Taking(n, kind, q))
  BY TakingNet DEF AllInFlight

\* An answer nobody takes, and a failure, belong to a request of some kind.
LEMMA DiscardedRequest ==
  ASSUME NEW kinds, IsNet(net, kinds), Discard
  PROVE  /\ UNCHANGED <<ui, srv>>
         /\ \E kind \in kinds : \E q \in net[kind] : ~q.live /\ net' = Taking(net, kind, q)
  BY DEF Discard, IsNet

LEMMA FailedRequest ==
  ASSUME NEW kinds, IsNet(net, kinds), Fail
  PROVE  /\ UNCHANGED <<ui, srv>>
         /\ \E kind \in kinds : \E q \in net[kind] : net' = Executed(net, kind, q, Failed)
  BY DEF Fail, IsNet

-----------------------------------------------------------------------------
(* Least and greatest numbers, with which the pages' proofs do induction *)

LEMMA LeastNatural ==
  ASSUME NEW S, S \subseteq Nat, S # {}
  PROVE  \E m \in S : \A k \in S : m <= k
<1>1. PICK m \in S : \A k \in S : <<k, m>> \notin OpToRel(<, Nat)
  BY NatLessThanWellFounded, WFMin
<1>2. \A k \in S : ~(k < m)
  BY <1>1 DEF OpToRel
<1> QED
  BY <1>2

\* The greatest is the number that is as far from the bound as the least.
LEMMA GreatestNatural ==
  ASSUME NEW n \in Nat, NEW S, S \subseteq 0 .. n, S # {}
  PROVE  \E m \in S : \A k \in S : k <= m
<1> DEFINE T == {n - k : k \in S}
<1>1. T \subseteq Nat /\ T # {}
  <2>1. \A k \in S : k \in Int /\ 0 <= k /\ k <= n
    OBVIOUS
  <2>2. \A k \in S : n - k \in Nat
    BY <2>1
  <2> QED
    BY <2>2
<1>2. PICK d \in T : \A e \in T : d <= e
  <2> HIDE DEF T
  <2> QED
    BY <1>1, LeastNatural
<1>3. PICK m \in S : d = n - m
  OBVIOUS
<1>4. \A k \in S : n - m <= n - k
  BY <1>2, <1>3
<1> QED
  BY <1>4

-----------------------------------------------------------------------------
(* Pages of which the flags and the requests are all that matters *)

\* What the page shows has flags, and each that is set has a live request behind it.
Alive(page, kinds, u, n) ==
  u.at = page /\ {"at", "busy"} \subseteq DOMAIN u /\ IsNet(n, kinds) /\ \A op \in u.busy : InFlight(n, op)

\* The page may show v for u: no flag is set.
Shows(u, v) == DOMAIN v = DOMAIN u /\ v.at = u.at /\ v.busy \subseteq u.busy

LEMMA AliveFlags ==
  ASSUME NEW u, {"at", "busy"} \subseteq DOMAIN u, NEW ops
  PROVE  /\ DOMAIN Busy(u, ops) = DOMAIN u /\ Busy(u, ops).busy = u.busy \cup ops /\ Busy(u, ops).at = u.at
         /\ DOMAIN Free(u, ops) = DOMAIN u /\ Free(u, ops).busy = u.busy \ ops /\ Free(u, ops).at = u.at
  BY DEF Busy, Free

LEMMA AliveEnds ==
  ASSUME NEW page, NEW kinds, Alive(page, kinds, ui', net')
  PROVE  ControlsEnd'
  BY ControlsInFlightNext DEF Alive

LEMMA AliveShow ==
  ASSUME NEW page, NEW kinds, Alive(page, kinds, ui, net), NEW u, Shows(ui, u), Show(u)
  PROVE  Alive(page, kinds, ui', net')
  BY DEF Alive, Shows, Show

LEMMA AliveSent ==
  ASSUME NEW page, NEW kinds, NEW u, NEW n, Alive(page, kinds, u, n), NEW v, Shows(u, v), NEW kind \in kinds, NEW ops, NEW arg
  PROVE  /\ Alive(page, kinds, v, Sending(n, kind, ops, arg))
         /\ Alive(page, kinds, Busy(v, ops), Sending(n, kind, ops, arg))
<1> DEFINE m == Sending(n, kind, ops, arg)
<1>1. IsNet(m, kinds) /\ \A op : InFlight(m, op) <=> InFlight(n, op) \/ op \in ops
  BY SendingNet DEF Alive
<1>2. v.at = page /\ {"at", "busy"} \subseteq DOMAIN v /\ v.busy \subseteq u.busy
  BY DEF Alive, Shows
<1>3. /\ Busy(v, ops).at = page /\ {"at", "busy"} \subseteq DOMAIN Busy(v, ops)
      /\ Busy(v, ops).busy = v.busy \cup ops
  BY <1>2, AliveFlags
<1> HIDE DEF m
<1> QED
  BY <1>1, <1>2, <1>3 DEF Alive, m

LEMMA AliveAsk ==
  ASSUME NEW page, NEW kinds, Alive(page, kinds, ui, net), NEW u, Shows(ui, u), NEW op, NEW kind \in kinds, NEW arg,
         Ask(u, op, kind, arg)
  PROVE  Alive(page, kinds, ui', net')
  BY AliveSent DEF Ask

LEMMA AliveServe ==
  ASSUME NEW page, NEW kinds, Alive(page, kinds, ui, net), NEW kind \in kinds, NEW q \in net[kind], NEW s, NEW ans,
         Serve(kind, q, s, ans)
  PROVE  Alive(page, kinds, ui', net')
<1>1. IsNet(net', kinds) /\ \A op : InFlight(net, op) => InFlight(net', op)
  BY ExecutedNet DEF Alive, Serve
<1> QED
  BY <1>1 DEF Alive, Serve

\* The flags of the request are reset, or nobody waits for it, or another goes on
\* with them.
LEMMA AliveTaken ==
  ASSUME NEW page, NEW kinds, NEW u, NEW n, Alive(page, kinds, u, n), NEW v, Shows(u, v), NEW kind \in kinds, NEW q
  PROVE  /\ Alive(page, kinds, Free(v, q.ops), Taking(n, kind, q))
         /\ q.ops = {} => Alive(page, kinds, v, Taking(n, kind, q))
         /\ ~q.live => Alive(page, kinds, v, Taking(n, kind, q))
         /\ \A next \in kinds : \A arg : Alive(page, kinds, v, Sending(Taking(n, kind, q), next, q.ops, arg))
<1> DEFINE m == Taking(n, kind, q)
           w == Free(v, q.ops)
<1>1. IsNet(m, kinds) /\ \A op : InFlight(n, op) => InFlight(m, op) \/ (q.live /\ op \in q.ops)
  BY TakingNet DEF Alive
<1>2. v.at = page /\ {"at", "busy"} \subseteq DOMAIN v /\ v.busy \subseteq u.busy
  BY DEF Alive, Shows
<1>3. w.at = page /\ {"at", "busy"} \subseteq DOMAIN w /\ w.busy = v.busy \ q.ops
  BY <1>2, AliveFlags
<1> HIDE DEF m, w
<1>4. Alive(page, kinds, w, m)
  BY <1>1, <1>2, <1>3 DEF Alive
<1>5. (q.ops = {} => Alive(page, kinds, v, m)) /\ (~q.live => Alive(page, kinds, v, m))
  BY <1>1, <1>2 DEF Alive
<1>6. ASSUME NEW next \in kinds, NEW arg PROVE Alive(page, kinds, v, Sending(m, next, q.ops, arg))
  <2>1. /\ IsNet(Sending(m, next, q.ops, arg), kinds)
        /\ \A op : InFlight(Sending(m, next, q.ops, arg), op) <=> InFlight(m, op) \/ op \in q.ops
    BY <1>1, SendingNet
  <2> QED
    BY <1>1, <1>2, <2>1 DEF Alive
<1> QED
  BY <1>4, <1>5, <1>6 DEF m, w

LEMMA AliveTake ==
  ASSUME NEW page, NEW kinds, Alive(page, kinds, ui, net), NEW u, Shows(ui, u), NEW kind \in kinds, NEW q, Take(kind, q, u)
  PROVE  Alive(page, kinds, ui', net')
  BY AliveTaken DEF Take

LEMMA AliveFurther ==
  ASSUME NEW page, NEW kinds, Alive(page, kinds, ui, net), NEW u, Shows(ui, u), NEW kind \in kinds, NEW q,
         NEW next \in kinds, NEW arg, Further(kind, q, u, next, arg)
  PROVE  Alive(page, kinds, ui', net')
  BY AliveTaken DEF Further

\* The answer is taken and a request of other operations sent.
LEMMA AliveTakenSent ==
  ASSUME NEW page, NEW kinds, Alive(page, kinds, ui, net), NEW u, Shows(ui, u), NEW kind \in kinds, NEW q,
         NEW next \in kinds, NEW ops, NEW arg,
         net' = Sending(Taking(net, kind, q), next, ops, arg),
         \/ ui' = Busy(Free(u, q.ops), ops)
         \/ ui' = Free(u, q.ops)
         \/ ui' = Busy(u, ops) /\ q.ops = {}
  PROVE  Alive(page, kinds, ui', net')
<1> DEFINE m == Taking(net, kind, q)
           v == Free(u, q.ops)
<1>1. Alive(page, kinds, v, m) /\ (q.ops = {} => Alive(page, kinds, u, m))
  BY AliveTaken
<1> HIDE DEF m, v
<1>2. Shows(v, v) /\ Shows(u, u)
  BY DEF Shows
<1> QED
  BY <1>1, <1>2, AliveSent DEF m, v

LEMMA AliveFails ==
  ASSUME NEW page, NEW kinds, Alive(page, kinds, ui, net), Discard \/ Fail \/ UNCHANGED <<ui, net>>
  PROVE  Alive(page, kinds, ui', net')
<1>0. IsNet(net, kinds) /\ Shows(ui, ui)
  BY DEF Alive, Shows
<1>1. CASE Discard
  <2>1. PICK kind, q : kind \in kinds /\ ~q.live /\ net' = Taking(net, kind, q) /\ ui' = ui
    BY <1>0, <1>1, DiscardedRequest
  <2> QED
    BY <1>0, <2>1, AliveTaken
<1>2. CASE Fail
  <2>1. PICK kind, q : kind \in kinds /\ q \in net[kind] /\ net' = Executed(net, kind, q, Failed) /\ ui' = ui
    BY <1>0, <1>2, FailedRequest
  <2>2. IsNet(net', kinds) /\ \A op : InFlight(net, op) => InFlight(net', op)
    BY <1>0, <2>1, ExecutedNet
  <2> QED
    BY <2>1, <2>2 DEF Alive
<1>3. CASE UNCHANGED <<ui, net>>
  BY <1>3 DEF Alive
<1> QED
  BY <1>1, <1>2, <1>3

\* A page that starts with one request, for the flags that are set, or with none.
LEMMA AliveStart ==
  ASSUME NEW page, NEW kinds, ui.at = page, {"at", "busy"} \subseteq DOMAIN ui, NEW first \in kinds, NEW r, IsRequest(r),
         \/ /\ net = [kind \in kinds |-> IF kind = first THEN {r} ELSE {}]
            /\ r.live /\ ui.busy \subseteq r.ops
         \/ net = [kind \in kinds |-> {}] /\ ui.busy = {}
  PROVE  Alive(page, kinds, ui, net)
<1>1. CASE net = [kind \in kinds |-> {}] /\ ui.busy = {}
  BY <1>1 DEF Alive, IsNet
<1>2. CASE net = [kind \in kinds |-> IF kind = first THEN {r} ELSE {}] /\ r.live /\ ui.busy \subseteq r.ops
  <2>1. \A kind \in kinds : net[kind] \subseteq {r}
    BY <1>2
  <2>2. IsNet(net, kinds)
    BY <1>2, <2>1 DEF IsNet
  <2>3. first \in DOMAIN net /\ r \in net[first]
    BY <1>2
  <2>4. \A op \in ui.busy : InFlight(net, op)
    BY <1>2, <2>3 DEF InFlight
  <2> QED
    BY <2>2, <2>4 DEF Alive
<1> QED
  BY <1>1, <1>2

\* The requests that the page asks the server for, and takes the answers of, are in
\* flight.
LEMMA PageRequests ==
  ASSUME NEW page, NEW kind
  PROVE  /\ \A q \in Asked(page, kind) : At(page) /\ q \in net[kind] /\ q.ans = None
         /\ \A q \in Answered(page, kind) : At(page) /\ q \in net[kind] /\ q.ans # None
         /\ \A q \in Answers(page, kind) : At(page) /\ q \in net[kind] /\ q.ans # None /\ q.live
  BY DEF Asked, Answers, Answered
=============================================================================
