---------------------------- MODULE MemberClaims ----------------------------
(***************************************************************************)
(* The claims of source-group members (bot/db/models/member_claim.py,      *)
(* bot/services/member_claim_service.py) and everything that makes, uses   *)
(* or ends one: the bulk-add, claim, release, claimed-send, cancel and     *)
(* retry endpoints (bot/dashboard/api/routers/agents.py), the runtimes     *)
(* that work through the members of a job (bot/agents/runtime.py) and the  *)
(* reconcile loop that expires claims (bot/services/scheduler.py).         *)
(*                                                                         *)
(* Each commit is an action.  A claim is made before its job exists, its   *)
(* id is added to the job's payload by a later transaction, and the job's  *)
(* execution reads the payload once, so three handlers hold copies.        *)
(*                                                                         *)
(* Dispatching and claiming a job is AgentJobQueue's business: here a job  *)
(* whose message is on its way is "waiting", and any idle worker may start *)
(* it; "created" is a row that nobody has dispatched yet.  All members     *)
(* belong to one source group.                                             *)
(***************************************************************************)
EXTENDS Integers

CONSTANTS
  Workspaces, Agents,
  Workspace,      \* Workspace[a]: the tenant of agent a
  Members,        \* the members of the source group
  Handlers,       \* coroutines of the API server that serve a request
  Workers,        \* executions of agent jobs
  Jobs,           \* rows of agent_jobs
  Ttl,            \* DEFAULT_CLAIM_TTL_MINUTES, in ticks
  MaxClaims,      \* bound: rows of member_claims for one member
  Requests,       \* the user requests that arrive besides claims, adds and sends
  None

ASSUME ConstantsAssumption ==
  /\ Workspace \in [Agents -> Workspaces]
  /\ None \notin Agents \cup Jobs
  /\ Ttl \in Nat /\ MaxClaims \in Nat
  /\ Requests \subseteq {"unclaimed", "release", "cancel", "retry"}

VARIABLES
  claim,     \* the rows of member_claims; <<m, n>> is the n-th for member m
  job,       \* the rows of agent_jobs
  handler,   \* requests in progress
  worker     \* executions in progress

vars == <<claim, job, handler, worker>>

-----------------------------------------------------------------------------
(* Rows and local states *)

Ids == Members \X (1..MaxClaims)

MaxAge == Ttl + 1

Claim == [status: {"absent", "active", "released", "expired"},
          agent: Agents \cup {None}, age: 0..MaxAge]

NoClaim == [status |-> "absent", agent |-> None, age |-> 0]

Stopped == {"failed", "aborted"}

\* claims: payload.claim_ids; done: the members in payload.progress.results
Job == [status: {"absent", "created", "waiting", "running", "completed"} \cup Stopped,
        kind: {"add", "send"}, agent: Agents \cup {None},
        members: SUBSET Members, claims: SUBSET Ids, done: SUBSET Members]

NoJob == [status |-> "absent", kind |-> "add", agent |-> None,
          members |-> {}, claims |-> {}, done |-> {}]

\* members and claims: normalized["user_ids"] and the claim ids of the request
Handler == [pc: {"idle", "create", "store", "release"}, kind: {"add", "send"},
            agent: Agents \cup {None}, members: SUBSET Members,
            claims: SUBSET Ids, job: Jobs \cup {None}]

IdleHandler == [pc |-> "idle", kind |-> "add", agent |-> None,
                members |-> {}, claims |-> {}, job |-> None]

\* todo: pending_user_ids; claims: the payload's claim_ids when it was read
Worker == [pc: {"idle", "run", "release", "settle"}, job: Jobs \cup {None},
           todo: SUBSET Members, claims: SUBSET Ids]

IdleWorker == [pc |-> "idle", job |-> None, todo |-> {}, claims |-> {}]

TypeOK ==
  /\ claim \in [Ids -> Claim]
  /\ job \in [Jobs -> Job]
  /\ handler \in [Handlers -> Handler]
  /\ worker \in [Workers -> Worker]

Active(i) == claim[i].status = "active"

\* Some agent of workspace s has an active claim of m.
Taken(s, m) == \E i \in Ids : i[1] = m /\ Active(i) /\ Workspace[claim[i].agent] = s

\* The id the next row for its member gets.
Fresh(i) ==
  /\ claim[i].status = "absent"
  /\ \A n \in 1..MaxClaims : n < i[2] => claim[<<i[1], n>>].status # "absent"

Closed(i, status) == [claim[i] EXCEPT !.status = status, !.age = 0]

-----------------------------------------------------------------------------
(* Operations of the claim service *)

\* Mutant: the unique index includes the agent.
FreeOfOwn(a, S) == {m \in S : ~ \E i \in Ids : i[1] = m /\ Active(i) /\ claim[i].agent = a}

\* Those of S whose insert meets no active claim of the workspace.
Free(a, S) == {m \in S : ~Taken(Workspace[a], m)}

\* Mutant: a claim ends those of the members in other workspaces.
ClaimMembersGlobally(a, S) ==
  claim' = [i \in Ids |-> IF i[1] \in Free(a, S) /\ Fresh(i)
                          THEN [status |-> "active", agent |-> a, age |-> 0]
                          ELSE IF i[1] \in Free(a, S) /\ Active(i) THEN Closed(i, "released")
                          ELSE claim[i]]

\* INSERT ... ON CONFLICT DO NOTHING
ClaimMembers(a, S) ==
  claim' = [i \in Ids |-> IF i[1] \in Free(a, S) /\ Fresh(i)
                          THEN [status |-> "active", agent |-> a, age |-> 0]
                          ELSE claim[i]]

\* The bound on rows leaves room for the insert.
Room(a, S) == \A m \in Free(a, S) : \E n \in 1..MaxClaims : Fresh(<<m, n>>)

\* The active claims of I that belong to the agent; others are not touched.
ReleaseClaims(a, I) ==
  claim' = [i \in Ids |-> IF i \in I /\ Active(i) /\ claim[i].agent = a
                          THEN Closed(i, "released") ELSE claim[i]]

\* Mutant: a claim that an unfinished job lists is in use and does not expire.
OverdueUnused(i) ==
  /\ Active(i) /\ claim[i].age > Ttl
  /\ \A j \in Jobs : job[j].status \in {"waiting", "running"} => i \notin job[j].claims

Overdue(i) == Active(i) /\ claim[i].age > Ttl

\* expire_stale_claims, once per round of the reconcile loop
Expire ==
  /\ \E i \in Ids : Overdue(i)
  /\ claim' = [i \in Ids |-> IF Overdue(i) THEN Closed(i, "expired") ELSE claim[i]]
  /\ UNCHANGED <<job, handler, worker>>

Tick ==
  /\ \E i \in Ids : Active(i) /\ claim[i].age < MaxAge
  /\ claim' = [i \in Ids |-> IF Active(i) /\ claim[i].age < MaxAge
                             THEN [claim[i] EXCEPT !.age = @ + 1] ELSE claim[i]]
  /\ UNCHANGED <<job, handler, worker>>

-----------------------------------------------------------------------------
(* Requests *)

Init ==
  /\ claim = [i \in Ids |-> NoClaim]
  /\ job = [j \in Jobs |-> NoJob]
  /\ handler = [h \in Handlers |-> IdleHandler]
  /\ worker = [w \in Workers |-> IdleWorker]

\* The claim endpoint claims members for no job.
ClaimOnly(a, S) ==
  /\ Free(a, S) # {} /\ Room(a, S)
  /\ ClaimMembers(a, S)
  /\ UNCHANGED <<job, handler, worker>>

\* The bulk-add endpoint goes on with the members it could claim; when there
\* are none it answers with the conflicts and has changed nothing.
BulkAddClaim(h, a, S) ==
  /\ handler[h].pc = "idle" /\ Free(a, S) # {} /\ Room(a, S)
  /\ ClaimMembers(a, S)
  /\ handler' = [handler EXCEPT ![h] = [pc |-> "create", kind |-> "add", agent |-> a,
                                        members |-> Free(a, S), claims |-> {}, job |-> None]]
  /\ UNCHANGED <<job, worker>>

\* A bulk add whose request names no known source group claims nothing.
UnclaimedAdd(a, j, S) ==
  /\ "unclaimed" \in Requests /\ job[j].status = "absent" /\ S # {}
  /\ job' = [job EXCEPT ![j] = [status |-> "waiting", kind |-> "add", agent |-> a,
                                members |-> S, claims |-> {}, done |-> {}]]
  /\ UNCHANGED <<claim, handler, worker>>

\* The claimed-send endpoint checks that the agent holds every recipient.
SendCheck(h, a, S) ==
  LET held == {i \in Ids : i[1] \in S /\ Active(i) /\ Workspace[claim[i].agent] = Workspace[a]}
  IN  /\ handler[h].pc = "idle" /\ S # {}
      /\ \A m \in S : \E i \in held : i[1] = m
      /\ \A i \in held : claim[i].agent = a
      /\ handler' = [handler EXCEPT ![h] = [pc |-> "create", kind |-> "send", agent |-> a,
                                            members |-> S, claims |-> held, job |-> None]]
      /\ UNCHANGED <<claim, job, worker>>

\* create_job commits the row; its payload has no claim ids yet.
CreateJob(h, j) ==
  /\ handler[h].pc = "create" /\ job[j].status = "absent"
  /\ job' = [job EXCEPT ![j] = [status |-> "created", kind |-> handler[h].kind,
                                agent |-> handler[h].agent, members |-> handler[h].members,
                                claims |-> {}, done |-> {}]]
  /\ handler' = [handler EXCEPT ![h].pc = "store", ![h].job = j]
  /\ UNCHANGED <<claim, worker>>

\* Mutant: the query does not ask for the agent.
ClaimIdsOfAnyone(h) == {i \in Ids : i[1] \in handler[h].members /\ Active(i)}

\* The ids the bulk-add endpoint selects: it does not know those it inserted.
ClaimIds(h) ==
  {i \in Ids : i[1] \in handler[h].members /\ Active(i) /\ claim[i].agent = handler[h].agent}

\* The dispatcher leaves a job that has been cancelled or started alone.
Dispatched(j) == IF job[j].status = "created" THEN "waiting" ELSE job[j].status

\* The payload is replaced by the request's, which has no progress, and the job
\* is dispatched.
StorePayload(j, ids) ==
  job' = [job EXCEPT ![j].status = Dispatched(j), ![j].claims = ids, ![j].done = {}]

StoreAddClaims(h) ==
  /\ handler[h].pc = "store" /\ handler[h].kind = "add"
  /\ IF ClaimIds(h) = {}
     THEN job' = [job EXCEPT ![handler[h].job].status = Dispatched(handler[h].job)]
     ELSE StorePayload(handler[h].job, ClaimIds(h))
  /\ handler' = [handler EXCEPT ![h] = IdleHandler]
  /\ UNCHANGED <<claim, worker>>

StoreSendClaims(h) ==
  /\ handler[h].pc = "store" /\ handler[h].kind = "send"
  /\ StorePayload(handler[h].job, handler[h].claims)
  /\ handler' = [handler EXCEPT ![h] = IdleHandler]
  /\ UNCHANGED <<claim, worker>>

\* The release endpoint
ReleaseOwn(a, I) ==
  /\ "release" \in Requests /\ \E i \in I : Active(i) /\ claim[i].agent = a
  /\ ReleaseClaims(a, I)
  /\ UNCHANGED <<job, handler, worker>>

\* Mutant: the status of a cancelled job is misspelt.
CancelMisspelt(h, j) ==
  /\ "cancel" \in Requests
  /\ handler[h].pc = "idle" /\ job[j].status \in {"created", "waiting", "running"}
  /\ job' = [job EXCEPT ![j].status = "cancelled"]
  /\ handler' = [handler EXCEPT ![h] = [pc |-> "release", kind |-> "add",
                                        agent |-> job[j].agent, members |-> {},
                                        claims |-> job[j].claims, job |-> None]]
  /\ UNCHANGED <<claim, worker>>

\* The cancel endpoint commits the status first ...
CancelJob(h, j) ==
  /\ "cancel" \in Requests
  /\ handler[h].pc = "idle" /\ job[j].status \in {"created", "waiting", "running"}
  /\ job' = [job EXCEPT ![j].status = "aborted"]
  /\ handler' = [handler EXCEPT ![h] = [pc |-> "release", kind |-> "add",
                                        agent |-> job[j].agent, members |-> {},
                                        claims |-> job[j].claims, job |-> None]]
  /\ UNCHANGED <<claim, worker>>

\* ... and then releases the claims of the payload it read.
CancelRelease(h) ==
  /\ handler[h].pc = "release"
  /\ ReleaseClaims(handler[h].agent, handler[h].claims)
  /\ handler' = [handler EXCEPT ![h] = IdleHandler]
  /\ UNCHANGED <<job, worker>>

\* create_job raises, a statement fails, or the server stops.
RequestFails(h) ==
  /\ handler[h].pc # "idle"
  /\ handler' = [handler EXCEPT ![h] = IdleHandler]
  /\ UNCHANGED <<claim, job, worker>>

\* The retry endpoint drops the progress and keeps the claim ids.
RetryJob(j) ==
  /\ "retry" \in Requests /\ job[j].status \in Stopped
  /\ job' = [job EXCEPT ![j].status = "waiting", ![j].done = {}]
  /\ UNCHANGED <<claim, handler, worker>>

-----------------------------------------------------------------------------
(* Executions *)

StartJob(w, j) ==
  /\ worker[w].pc = "idle" /\ job[j].status = "waiting"
  /\ job' = [job EXCEPT ![j].status = "running"]
  /\ worker' = [worker EXCEPT ![w] = [pc |-> "run", job |-> j, claims |-> job[j].claims,
                                      todo |-> job[j].members \ job[j].done]]
  /\ UNCHANGED <<claim, handler>>

\* The payload is written back as this execution read it, with its results;
\* the status column is not.
Progress(w, todo) ==
  LET j == worker[w].job
  IN  [job[j] EXCEPT !.claims = worker[w].claims, !.done = job[j].members \ todo]

\* One member is added or messaged.  Neither runtime looks at the claims.
Operate(w, m) ==
  /\ worker[w].pc = "run" /\ m \in worker[w].todo
  /\ worker' = [worker EXCEPT ![w].todo = @ \ {m}]
  /\ job' = [job EXCEPT ![worker[w].job] = Progress(w, worker[w].todo \ {m})]
  /\ UNCHANGED <<claim, handler>>

\* The batch is done, or a flood wait, a limit or an error ends it early.  The
\* finally clause of the bulk-add runtime releases the claims in every case;
\* the claimed-send runtime keeps them.
EndBatch(w) ==
  /\ worker[w].pc = "run"
  /\ worker' = [worker EXCEPT ![w].pc = IF job[worker[w].job].kind = "add"
                                        THEN "release" ELSE "settle"]
  /\ UNCHANGED <<claim, job, handler>>

FinallyRelease(w) ==
  /\ worker[w].pc = "release"
  /\ ReleaseClaims(job[worker[w].job].agent, worker[w].claims)
  /\ worker' = [worker EXCEPT ![w].pc = "settle"]
  /\ UNCHANGED <<job, handler>>

\* The exception is logged and the claims stay.
FinallyReleaseFails(w) ==
  /\ worker[w].pc = "release"
  /\ worker' = [worker EXCEPT ![w].pc = "settle"]
  /\ UNCHANGED <<claim, job, handler>>

\* The worker writes the outcome over whatever the status has become; a job that
\* was stopped early waits for its delayed message.  A claimed send completes
\* without the recipients beyond its threshold.
Settle(w, status) ==
  /\ worker[w].pc = "settle"
  /\ status = "completed" => job[worker[w].job].kind = "send" \/ worker[w].todo = {}
  /\ job' = [job EXCEPT ![worker[w].job] =
               [Progress(w, worker[w].todo) EXCEPT !.status = status]]
  /\ worker' = [worker EXCEPT ![w] = IdleWorker]
  /\ UNCHANGED <<claim, handler>>

\* The process dies, or the actor raises and leaves the row as it is.
WorkerStops(w) ==
  /\ worker[w].pc # "idle"
  /\ worker' = [worker EXCEPT ![w] = IdleWorker]
  /\ UNCHANGED <<claim, job, handler>>

\* reconcile_stale_jobs takes a job that has been running too long for stuck, and
\* dispatches a job whose endpoint never did.
RecoverJob(j) ==
  /\ job[j].status \in {"created", "running"}
  /\ job' = [job EXCEPT ![j].status = "waiting"]
  /\ UNCHANGED <<claim, handler, worker>>

-----------------------------------------------------------------------------
RequestStep(h) ==
  \/ \E a \in Agents, S \in SUBSET Members : BulkAddClaim(h, a, S) \/ SendCheck(h, a, S)
  \/ \E j \in Jobs : CreateJob(h, j) \/ CancelJob(h, j)
  \/ StoreAddClaims(h)
  \/ StoreSendClaims(h)
  \/ CancelRelease(h)
  \/ RequestFails(h)

WorkerStep(w) ==
  \/ \E j \in Jobs : StartJob(w, j)
  \/ \E m \in Members : Operate(w, m)
  \/ EndBatch(w)
  \/ FinallyRelease(w)
  \/ FinallyReleaseFails(w)
  \/ \E status \in {"completed", "failed", "waiting"} : Settle(w, status)
  \/ WorkerStops(w)

Next ==
  \/ \E a \in Agents, S \in SUBSET Members : ClaimOnly(a, S)
  \/ \E a \in Agents, I \in SUBSET Ids : ReleaseOwn(a, I)
  \/ \E a \in Agents, j \in Jobs, S \in SUBSET Members : UnclaimedAdd(a, j, S)
  \/ \E h \in Handlers : RequestStep(h)
  \/ \E w \in Workers : WorkerStep(w)
  \/ \E j \in Jobs : RetryJob(j) \/ RecoverJob(j)
  \/ Expire
  \/ Tick

Spec == Init /\ [][Next]_vars

\* Time passes, and the reconcile loop sleeps between its rounds and swallows
\* every exception, so it comes back.
FairSpec == Spec /\ WF_vars(Tick) /\ WF_vars(Expire)

-----------------------------------------------------------------------------
(* Properties *)

HeldBy(a, s, m) == \E i \in Ids : i[1] = m /\ Active(i) /\ claim[i].agent = a /\ Workspace[a] = s

\* FR-3, FR-11: however requests, releases and expiry interleave, two active
\* claims of a member are claims in two workspaces.
OneHolder ==
  \A i, k \in Ids :
    (i[1] = k[1] /\ Active(i) /\ Active(k)
      /\ Workspace[claim[i].agent] = Workspace[claim[k].agent]) => i = k

\* In the table c the ids of I are claims that agent a made of members of S.
Owns(c, a, S, I) ==
  \A i \in I : c[i].status # "absent" /\ c[i].agent = a /\ i[1] \in S

\* The ids a payload lists are claims that the job's own agent made of the job's
\* own members, although the bulk-add endpoint finds them by a second query
\* after its members may have been released, expired and claimed by others.
ListsOwnClaims ==
  \A j \in Jobs : Owns(claim, job[j].agent, job[j].members, job[j].claims)

\* AC-9: the rows implement MemberReservation; no agent's member is taken over.
Holder == [s \in Workspaces |-> [m \in Members |->
             IF \E a \in Agents : HeldBy(a, s, m)
             THEN CHOOSE a \in Agents : HeldBy(a, s, m) ELSE None]]

Reservation == INSTANCE MemberReservation WITH holder <- Holder

ReservationSpec == Reservation!Spec

\* FR-9, AC-6: whatever becomes of the operation, a claim ends.
ClaimEnds == \A i \in Ids : Active(i) ~> ~Active(i)

\* FR-12: a job does not operate on a member another agent has claimed.
Operates(w, m) == worker[w].pc = "run" /\ worker'[w].pc = "run"
                  /\ m \in worker[w].todo \ worker'[w].todo

HeldByOther(a, m) == \E b \in Agents \ {a} : HeldBy(b, Workspace[a], m)

OperatesOnOwnOrFree ==
  [][\A w \in Workers, m \in Members :
       Operates(w, m) => ~HeldByOther(job[worker[w].job].agent, m)]_vars

\* FR-12 for the members that the job did claim: they are still its agent's, or
\* free, when the job gets to them.
OperatesOnClaimed ==
  [][\A w \in Workers, m \in Members :
       (Operates(w, m) /\ \E i \in worker[w].claims : i[1] = m)
         => ~HeldByOther(job[worker[w].job].agent, m)]_vars

\* FR-13: a claim belongs to one operation.
OneOperationPerClaim ==
  \A j, k \in Jobs : j # k => job[j].claims \cap job[k].claims = {}

\* Comment at routers/agents.py:1482: a claimed-send job that has completed has
\* released the claims it lists.
CompletedSendReleased ==
  \A j \in Jobs : (job[j].kind = "send" /\ job[j].status = "completed")
                    => \A i \in job[j].claims : ~Active(i)
=============================================================================
