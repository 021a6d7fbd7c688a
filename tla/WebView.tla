------------------------------- MODULE WebView -------------------------------
(***************************************************************************)
(* What the pages of the web applications have in common: a React          *)
(* component with its state, the requests it has in flight, and the part   *)
(* of the server they read and write.  The modules of the pages extend     *)
(* this one.                                                               *)
(*                                                                         *)
(* One component is mounted at a time.  A request outlives the component:  *)
(* when it is unmounted, or an effect is cleaned up whose callbacks look   *)
(* at a cancelled flag, the request is no longer live; the server executes *)
(* it all the same and nobody takes its answer.                            *)
(***************************************************************************)
EXTENDS Naturals, Sequences, FiniteSets

CONSTANTS
  MaxNet,   \* bound: kinds of requests, and requests of a kind, in flight for the user
            \* to act, or a timer to fire; with 2, one request
  Failed,   \* the answer of a request that failed
  None

ASSUME WebViewAssumption == MaxNet \in Nat \ {0} /\ None # Failed

VARIABLES
  ui,       \* the mounted component: ui.at is its name, ui.busy the operations
            \* whose controls are disabled or show a spinner
  net,      \* the requests in flight: a set for each kind
  srv       \* the server's data that the component shows

vars == <<ui, net, srv>>

At(c) == ui.at = c

\* A request: the operations it is a step of, its argument, and the answer once
\* the server has executed it.
Request(ops, arg) == [ops |-> ops, arg |-> arg, ans |-> None, live |-> TRUE]

Live(kind) == {q \in net[kind] : q.live}

\* There is room for another request.
Room ==
  LET sent == {kind \in DOMAIN net : net[kind] # {}}
  IN Cardinality(sent) < MaxNet /\ \A kind \in sent : Cardinality(net[kind]) < MaxNet

\* The requests after one is sent, executed with an answer, or taken.  Requests
\* that are alike are one until the server has executed it.
Sending(n, kind, ops, arg) == [n EXCEPT ![kind] = @ \cup {Request(ops, arg)}]
Executed(n, kind, q, ans) == [n EXCEPT ![kind] = (@ \ {q}) \cup {[q EXCEPT !.ans = ans]}]
Taking(n, kind, q) == [n EXCEPT ![kind] = @ \ {q}]

\* The requests of kind after their effect is cleaned up or their component
\* unmounted.
Cancelled(n, kind) == [n EXCEPT ![kind] = {[q EXCEPT !.live = FALSE] : q \in @}]
AllCancelled(n) == [kind \in DOMAIN n |-> {[q EXCEPT !.live = FALSE] : q \in n[kind]}]

\* Set and reset of the flags of operations.
Busy(u, ops) == [u EXCEPT !.busy = @ \cup ops]
Free(u, ops) == [u EXCEPT !.busy = @ \ ops]

Refused(q) == q.ans = Failed

\* The requests of a page that the server has to execute, those it has executed,
\* and those whose answer the page has to take.
Asked(page, kind) == IF At(page) THEN {q \in net[kind] : q.ans = None} ELSE {}
Answered(page, kind) == IF At(page) THEN {q \in net[kind] : q.ans # None} ELSE {}
Answers(page, kind) == {q \in Answered(page, kind) : q.live}

\* The view does u and sends a request of operation op, whose flag it sets.
Ask(u, op, kind, arg) ==
  /\ Room
  /\ ui' = Busy(u, {op})
  /\ net' = Sending(net, kind, {op}, arg)
  /\ UNCHANGED srv

\* The server executes q, which leaves its data at s.
Serve(kind, q, s, ans) ==
  /\ srv' = s
  /\ net' = Executed(net, kind, q, ans)
  /\ UNCHANGED ui

\* The view takes the answer of q and does u; the flags of its operations are
\* reset.  Further: so that another request goes on with them.
Take(kind, q, u) ==
  /\ ui' = Free(u, q.ops)
  /\ net' = Taking(net, kind, q)
  /\ UNCHANGED srv

Further(kind, q, u, next, arg) ==
  /\ ui' = u
  /\ net' = Sending(Taking(net, kind, q), next, q.ops, arg)
  /\ UNCHANGED srv

\* A step of the view alone.
Show(u) == ui' = u /\ UNCHANGED <<net, srv>>

\* An answer nobody takes.
Discard ==
  \E kind \in DOMAIN net : \E q \in net[kind] :
    /\ q.ans # None /\ ~q.live
    /\ net' = Taking(net, kind, q)
    /\ UNCHANGED <<ui, srv>>

\* A request that does not reach the server, that the server refuses, or whose
\* answer is lost.
Fail ==
  \E kind \in DOMAIN net : \E q \in net[kind] :
    /\ q.ans # Failed
    /\ net' = Executed(net, kind, q, Failed)
    /\ UNCHANGED <<ui, srv>>

-----------------------------------------------------------------------------
(* What the pages have to keep *)

\* No control stays disabled, and no spinner turns, for an operation of which
\* no step is in flight; but for operations that the code leaves so.
ControlsEndBut(lasting) ==
  \A op \in ui.busy \ lasting :
    \E kind \in DOMAIN net : \E q \in net[kind] : q.live /\ op \in q.ops

ControlsEnd == ControlsEndBut({})
=============================================================================
