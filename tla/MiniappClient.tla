---------------------------- MODULE MiniappClient ----------------------------
(***************************************************************************)
(* The client that every page of the two mini-apps calls the API with:     *)
(* packages/miniapp-shared/src/api/base.ts (the token of the session, its  *)
(* refresh after a refusal, the workspace of the headers) and              *)
(* auth/useMiniappSession.ts (the identity's workspaces and the active     *)
(* one).                                                                   *)
(*                                                                         *)
(* A call is one invocation of apiRequest or apiUploadRequest.  JavaScript *)
(* runs one continuation at a time: an action is what runs between two     *)
(* awaits.                                                                 *)
(***************************************************************************)
EXTENDS Naturals, FiniteSets

CONSTANTS
  Calls,       \* the invocations of the client
  Abortable,   \* those of apiRequest that were given an abort signal
  Sessions,    \* those of fetchMe by useMiniappSession
  Workspaces,  \* workspaces the user may belong to
  MaxTokens,   \* bound: tokens the server issues
  None

ASSUME ClientAssumption ==
  /\ Abortable \subseteq Calls /\ Sessions \subseteq Calls
  /\ Abortable \cap Sessions = {}
  /\ MaxTokens \in Nat
  /\ None \notin Calls \cup Workspaces \cup Nat

VARIABLES
  stored,      \* the token in sessionStorage
  promise,     \* miniappTokenPromise: the call whose token request it is
  initData,    \* whether Telegram's init data can be found
  call,        \* the invocations
  context,     \* activeWorkspaceId, read when headers are built
  active,      \* the session's activeWorkspace
  listed,      \* the session's workspaces
  issued,      \* tokens the server has issued, numbered from 1
  member       \* the workspaces of the user, at the server

clientVars == <<stored, promise, initData, call>>
sessionVars == <<context, active, listed>>
serverVars == <<issued, member>>
vars == <<clientVars, sessionVars, serverVars>>

Tokens == 1 .. MaxTokens
Settled == {"done", "failed"}

TypeOK ==
  /\ stored \in Tokens \cup {None}
  /\ promise \in Calls \cup {None}
  /\ initData \in BOOLEAN
  /\ call \in [Calls ->
       [pc : {"idle", "initdata", "waiting", "sent", "answered"} \cup Settled,
        waits : Calls \cup {None},      \* the token request it awaits
        auth : Tokens \cup {None},      \* None: the init data header
        tries : 0 .. 2,
        refused : SUBSET Tokens,        \* history: tokens it saw refused
        aborted : BOOLEAN,
        list : SUBSET Workspaces]]
  /\ context \in Workspaces \cup {None} /\ active \in Workspaces \cup {None}
  /\ listed \subseteq Workspaces
  /\ issued \in 0 .. MaxTokens
  /\ member \subseteq Workspaces

Init ==
  /\ stored = None /\ promise = None /\ initData \in BOOLEAN
  /\ call = [c \in Calls |-> [pc |-> "idle", waits |-> None, auth |-> None,
                              tries |-> 0, refused |-> {}, aborted |-> FALSE,
                              list |-> {}]]
  \* Before the first identity, or with one that has arrived.
  /\ \/ active = None /\ listed = {}
     \/ active \in Workspaces /\ listed = Workspaces
  /\ context = active
  /\ issued = 0 /\ member = Workspaces

-----------------------------------------------------------------------------
(* Sending *)

\* How a call ends; what it carried matters no more.
Ended(r, pc) == [r EXCEPT !.pc = pc, !.waits = None, !.auth = None, !.aborted = FALSE,
                          !.list = {}]

\* The rest of buildHeaders and the fetch.  An aborted signal makes the fetch
\* reject at once.
Sent(r, auth) ==
  IF r.aborted THEN Ended(r, "failed")
  ELSE [r EXCEPT !.pc = "sent", !.waits = None, !.auth = auth, !.tries = @ + 1]

\* ensureMiniappToken with token in the storage: it, or the token request in
\* flight, or a wait for the init data.
EnsureToken(r, token) ==
  CASE token # None -> Sent(r, token)
    [] token = None /\ promise # None -> [r EXCEPT !.pc = "waiting", !.waits = promise]
    [] OTHER -> [r EXCEPT !.pc = "initdata"]

Start(c) ==
  /\ call[c].pc = "idle"
  /\ call' = [call EXCEPT ![c] = EnsureToken(@, stored)]
  /\ UNCHANGED <<stored, promise, initData, sessionVars, serverVars>>

\* Every call that found neither token nor promise asks for a token of its own
\* when the init data is there; the last to ask is the one that others join.
AskForToken(c) ==
  /\ call[c].pc = "initdata" /\ initData
  /\ call' = [call EXCEPT ![c].pc = "waiting", ![c].waits = c]
  /\ promise' = c
  /\ UNCHANGED <<stored, initData, sessionVars, serverVars>>

\* The wait for the init data ends without it: missingMiniappAuthError.
InitDataTimeout(c) ==
  /\ call[c].pc = "initdata" /\ ~initData
  /\ call' = [call EXCEPT ![c] = Ended(@, "failed")]
  /\ UNCHANGED <<stored, promise, initData, sessionVars, serverVars>>

InitDataArrives ==
  /\ ~initData
  /\ initData' = TRUE
  /\ UNCHANGED <<stored, promise, call, sessionVars, serverVars>>

\* Everyone who awaits the token request of c goes on, with the same headers.
ResumeAsker(c, auth) == [call EXCEPT ![c] = Sent(@, auth)]
Resume(c, auth) ==
  [d \in Calls |-> IF call[d].pc = "waiting" /\ call[d].waits = c
                   THEN Sent(call[d], auth) ELSE call[d]]

Asking(c) == call[c].pc = "waiting" /\ call[c].waits = c

TokenIssued(c) ==
  /\ Asking(c) /\ issued < MaxTokens
  /\ issued' = issued + 1
  /\ stored' = issued + 1
  /\ promise' = None
  /\ call' = Resume(c, issued + 1)
  /\ UNCHANGED <<initData, sessionVars, member>>

\* The token request fails: the callers fall back to the init data header.
TokenRefused(c) ==
  /\ Asking(c)
  /\ stored' = None
  /\ promise' = None
  /\ call' = Resume(c, None)
  /\ UNCHANGED <<initData, sessionVars, serverVars>>

-----------------------------------------------------------------------------
(* Answers *)

\* A token the server has refused stays refused; one it has not may have
\* expired whenever it is next used, and so may the init data.
Accepted(token) == \A d \in Calls : token \notin call[d].refused

\* Any other answer than 401, or no answer at all.  The server reads the
\* memberships of the user when it answers fetchMe.
Answered(c) ==
  /\ call[c].pc = "sent" /\ Accepted(call[c].auth)
  /\ \/ /\ c \in Sessions
        /\ call' = [call EXCEPT ![c].pc = "answered", ![c].list = member]
     \/ \E pc \in Settled :
          /\ c \in Sessions => pc = "failed"
          /\ call' = [call EXCEPT ![c] = Ended(@, pc)]
  /\ UNCHANGED <<stored, promise, initData, sessionVars, serverVars>>

\* What a 401 adds to the history of the call.
SawRefusal(r) == [r EXCEPT !.refused = @ \cup ({r.auth} \ {None})]

RefusedKeepsToken(c) ==
  /\ call[c].pc = "sent" /\ call[c].tries = 1
  /\ call' = [call EXCEPT ![c] = EnsureToken(SawRefusal(@), stored)]
  /\ UNCHANGED <<stored, promise, initData, sessionVars, serverVars>>

\* The first 401 empties the storage, whatever token it holds by now, and the
\* call is sent again.
RefusedOnce(c) ==
  /\ call[c].pc = "sent" /\ call[c].tries = 1
  /\ stored' = None
  /\ call' = [call EXCEPT ![c] = EnsureToken(SawRefusal(@), None)]
  /\ UNCHANGED <<promise, initData, sessionVars, serverVars>>

\* The second 401 reaches parseResponse, which empties the storage and throws.
RefusedTwice(c) ==
  /\ call[c].pc = "sent" /\ call[c].tries = 2
  /\ stored' = None
  /\ call' = [call EXCEPT ![c] = Ended(SawRefusal(@), "failed")]
  /\ UNCHANGED <<promise, initData, sessionVars, serverVars>>

\* The caller aborts: a pending fetch rejects, and a later one will.
Abort(c) ==
  /\ c \in Abortable
  /\ call[c].pc \notin {"idle", "answered"} \cup Settled /\ ~call[c].aborted
  /\ call' = [call EXCEPT ![c] = IF @.pc = "sent" THEN Ended(@, "failed")
                                 ELSE [@ EXCEPT !.aborted = TRUE]]
  /\ UNCHANGED <<stored, promise, initData, sessionVars, serverVars>>

-----------------------------------------------------------------------------
(* The session *)

\* identity.workspace: an owned workspace if there is one, else the first.
Home(list) == CHOOSE w \in list : TRUE

\* applyWorkspaceContext
Activate(w) == active' = w /\ context' = w

SessionGoesHome(c) ==
  /\ call[c].pc = "answered"
  /\ listed' = call[c].list
  /\ Activate(IF listed' = {} THEN None ELSE Home(listed'))
  /\ call' = [call EXCEPT ![c] = Ended(@, "done")]
  /\ UNCHANGED <<stored, promise, initData, serverVars>>

\* The identity arrives: the workspace of the headers stays if it is still in
\* the list, which is read after the await.
SessionArrives(c) ==
  /\ call[c].pc = "answered"
  /\ listed' = call[c].list
  /\ Activate(IF context \in listed' THEN context
              ELSE IF listed' = {} THEN None ELSE Home(listed'))
  /\ call' = [call EXCEPT ![c] = Ended(@, "done")]
  /\ UNCHANGED <<stored, promise, initData, serverVars>>

SwitchWorkspace(w) ==
  /\ w \in listed /\ w # active
  /\ Activate(w)
  /\ UNCHANGED <<clientVars, listed, serverVars>>

-----------------------------------------------------------------------------
(* The server *)

\* The user leaves a workspace, or it is deleted, from anywhere.
MembershipEnds ==
  /\ \E w \in member : member' = member \ {w}
  /\ UNCHANGED <<clientVars, sessionVars, issued>>

Next ==
  \/ \E c \in Calls :
       \/ Start(c) \/ AskForToken(c) \/ InitDataTimeout(c)
       \/ TokenIssued(c) \/ TokenRefused(c)
       \/ Answered(c) \/ RefusedOnce(c) \/ RefusedTwice(c) \/ Abort(c)
       \/ SessionArrives(c)
  \/ InitDataArrives
  \/ \E w \in Workspaces : SwitchWorkspace(w)
  \/ MembershipEnds

Spec == Init /\ [][Next]_vars

\* Every fetch and every wait for the init data ends, and the browser runs what
\* waits for it: a call that can go on does.
Proceeds(c) ==
  \/ AskForToken(c) \/ InitDataTimeout(c) \/ TokenIssued(c) \/ TokenRefused(c)
  \/ Answered(c) \/ RefusedOnce(c) \/ RefusedTwice(c) \/ SessionArrives(c)

FairSpec == Spec /\ \A c \in Calls : WF_vars(Proceeds(c))

-----------------------------------------------------------------------------
(* Properties *)

\* A token that any call has seen refused is never sent again: the retry after
\* a 401, the calls that join a token request and the late answers of other
\* calls cannot bring it back.
RefusedTokenNotSent ==
  [][\A c, d \in Calls : call'[c].tries > call[c].tries
                           => call'[c].auth \notin call'[d].refused]_vars

\* The active workspace changes only by the user's choice, or when the identity
\* that arrives no longer lists it: an identity asked for before a switch does
\* not undo the switch.
SwitchIsKept ==
  [][active' # active => \/ \E w \in Workspaces : SwitchWorkspace(w)
                         \/ active \notin listed']_vars

\* Every call of the client ends, whoever asks for the token it waits for and
\* however often the server refuses it.
EveryCallSettles == \A c \in Calls : call[c].pc # "idle" ~> call[c].pc \in Settled
=============================================================================
