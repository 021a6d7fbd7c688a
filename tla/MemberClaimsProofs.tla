------------------------- MODULE MemberClaimsProofs -------------------------
(***************************************************************************)
(* Theorems about MemberClaims for every value of the constants: at most   *)
(* one active claim per member and workspace, payloads list only claims of *)
(* their own agent, and the rows implement MemberReservation.              *)
(***************************************************************************)
EXTENDS MemberClaims, TLAPS

(***************************************************************************)
(* What the operations of the claim service do to the table.               *)
(***************************************************************************)

\* A row is never removed and never changes its agent.
Kept ==
  \A i \in Ids : claim[i].status # "absent" =>
                   claim'[i].status # "absent" /\ claim'[i].agent = claim[i].agent

\* No claim is made.
OnlyEnds ==
  /\ claim' \in [Ids -> Claim]
  /\ \A i \in Ids :
       /\ claim'[i].agent = claim[i].agent
       /\ \/ claim'[i].status = claim[i].status
          \/ Active(i) /\ claim'[i].status \in {"released", "expired"}

LEMMA NoClaimType == NoClaim \in Claim
<1>1. 0 \in 0..MaxAge
  BY ConstantsAssumption DEF MaxAge
<1> QED
  BY <1>1 DEF NoClaim, Claim

LEMMA ClosedType ==
  ASSUME claim \in [Ids -> Claim], NEW i \in Ids, NEW status \in {"released", "expired"}
  PROVE  Closed(i, status) \in Claim /\ Closed(i, status).agent = claim[i].agent
           /\ Closed(i, status).status = status
<1>1. 0 \in 0..MaxAge
  BY ConstantsAssumption DEF MaxAge
<1> QED
  BY <1>1 DEF Closed, Claim

\* ReleaseClaims ends claims and makes none.
LEMMA ReleaseEnds ==
  ASSUME claim \in [Ids -> Claim], NEW a, NEW I, ReleaseClaims(a, I)
  PROVE  OnlyEnds
<1>1. \A i \in Ids : claim'[i] = IF i \in I /\ Active(i) /\ claim[i].agent = a
                                 THEN Closed(i, "released") ELSE claim[i]
  BY DEF ReleaseClaims
<1>2. \A i \in Ids : claim'[i] \in Claim
  BY <1>1, ClosedType
<1>3. claim' \in [Ids -> Claim]
  BY <1>2 DEF ReleaseClaims
<1>4. ASSUME NEW i \in Ids
      PROVE  /\ claim'[i].agent = claim[i].agent
             /\ \/ claim'[i].status = claim[i].status
                \/ Active(i) /\ claim'[i].status \in {"released", "expired"}
  <2>1. Closed(i, "released").agent = claim[i].agent /\ Closed(i, "released").status = "released"
    BY ClosedType
  <2> QED
    BY <1>1, <2>1
<1> QED
  BY <1>3, <1>4 DEF OnlyEnds

LEMMA ExpireEnds ==
  ASSUME claim \in [Ids -> Claim], Expire
  PROVE  OnlyEnds
<1>1. \A i \in Ids : claim'[i] = IF Overdue(i) THEN Closed(i, "expired") ELSE claim[i]
  BY DEF Expire
<1>2. \A i \in Ids : claim'[i] \in Claim
  BY <1>1, ClosedType
<1>3. claim' \in [Ids -> Claim]
  BY <1>2 DEF Expire
<1>4. ASSUME NEW i \in Ids
      PROVE  /\ claim'[i].agent = claim[i].agent
             /\ \/ claim'[i].status = claim[i].status
                \/ Active(i) /\ claim'[i].status \in {"released", "expired"}
  <2>1. Closed(i, "expired").agent = claim[i].agent /\ Closed(i, "expired").status = "expired"
    BY ClosedType
  <2> QED
    BY <1>1, <2>1 DEF Overdue
<1> QED
  BY <1>3, <1>4 DEF OnlyEnds

LEMMA TickEnds ==
  ASSUME claim \in [Ids -> Claim], Tick
  PROVE  OnlyEnds
<1>1. \A i \in Ids : claim'[i] = IF Active(i) /\ claim[i].age < MaxAge
                                 THEN [claim[i] EXCEPT !.age = @ + 1] ELSE claim[i]
  BY DEF Tick
<1>2. ASSUME NEW i \in Ids
      PROVE  /\ claim'[i] \in Claim
             /\ claim'[i].agent = claim[i].agent /\ claim'[i].status = claim[i].status
  <2>1. claim[i] \in Claim /\ claim[i].age \in 0..MaxAge
    BY DEF Claim
  <2>2. CASE Active(i) /\ claim[i].age < MaxAge
    <3>1. claim[i].age + 1 \in 0..MaxAge
      BY <2>1, <2>2, ConstantsAssumption DEF MaxAge
    <3> QED
      BY <1>1, <2>1, <2>2, <3>1 DEF Claim
  <2> QED
    BY <1>1, <2>1, <2>2
<1>3. claim' \in [Ids -> Claim]
  BY <1>2 DEF Tick
<1> QED
  BY <1>2, <1>3 DEF OnlyEnds

LEMMA UnchangedEnds ==
  ASSUME claim \in [Ids -> Claim], UNCHANGED claim
  PROVE  OnlyEnds
  BY DEF OnlyEnds

LEMMA EndsKeep ==
  ASSUME OnlyEnds
  PROVE  Kept
  BY DEF OnlyEnds, Kept, Active

\* A step that only ends claims leaves one holder where there was one.
LEMMA EndsOneHolder ==
  ASSUME OnlyEnds, OneHolder
  PROVE  OneHolder'
  BY DEF OnlyEnds, OneHolder, Active

LEMMA ClaimKeeps ==
  ASSUME claim \in [Ids -> Claim], NEW a \in Agents, NEW S \in SUBSET Members,
         ClaimMembers(a, S)
  PROVE  claim' \in [Ids -> Claim] /\ Kept
<1>1. 0 \in 0..MaxAge
  BY ConstantsAssumption DEF MaxAge
<1>2. [status |-> "active", agent |-> a, age |-> 0] \in Claim
  BY <1>1 DEF Claim
<1> QED
  BY <1>2 DEF ClaimMembers, Kept, Fresh

\* Two rows made by one insert are for two members, and a member of either has
\* no other active claim in the workspace.
LEMMA ClaimOneHolder ==
  ASSUME claim \in [Ids -> Claim], OneHolder, NEW a \in Agents, NEW S \in SUBSET Members,
         ClaimMembers(a, S)
  PROVE  OneHolder'
<1> DEFINE Won(i) == i[1] \in Free(a, S) /\ Fresh(i)
<1>1. \A i \in Ids : claim'[i] = IF Won(i) THEN [status |-> "active", agent |-> a, age |-> 0]
                                 ELSE claim[i]
  BY DEF ClaimMembers
<1>2. \A i, k \in Ids : (Fresh(i) /\ Fresh(k) /\ i[1] = k[1]) => i = k
  <2> SUFFICES ASSUME NEW i \in Ids, NEW k \in Ids, Fresh(i), Fresh(k), i[1] = k[1]
               PROVE  i = k
    OBVIOUS
  <2>1. /\ i[2] \in 1..MaxClaims /\ i = <<i[1], i[2]>>
        /\ k[2] \in 1..MaxClaims /\ k = <<k[1], k[2]>>
    BY DEF Ids
  <2>2. ~(i[2] < k[2]) /\ ~(k[2] < i[2])
    BY <2>1 DEF Fresh
  <2>3. i[2] = k[2]
    BY <2>1, <2>2, ConstantsAssumption
  <2> QED
    BY <2>1, <2>3
<1>3. \A i, k \in Ids : (Won(i) /\ Active(k) /\ i[1] = k[1])
                          => Workspace[claim[k].agent] # Workspace[a]
  BY DEF Free, Taken
<1>4. SUFFICES ASSUME NEW i \in Ids, NEW k \in Ids, i[1] = k[1],
                      claim'[i].status = "active", claim'[k].status = "active",
                      Workspace[claim'[i].agent] = Workspace[claim'[k].agent]
               PROVE  i = k
  BY DEF OneHolder, Active
<1>5. CASE Won(i) /\ Won(k)
  BY <1>2, <1>4, <1>5
<1>6. CASE Won(i) /\ ~Won(k)
  BY <1>1, <1>3, <1>4, <1>6 DEF Active
<1>7. CASE ~Won(i) /\ Won(k)
  BY <1>1, <1>3, <1>4, <1>7 DEF Active
<1>8. CASE ~Won(i) /\ ~Won(k)
  BY <1>1, <1>4, <1>8 DEF OneHolder, Active
<1> QED
  BY <1>5, <1>6, <1>7, <1>8

(***************************************************************************)
(* The inductive invariant.  A handler's or an execution's copy of claim   *)
(* ids is as good as the payload's: its claims were made by the agent of   *)
(* the job for members of the job, which no later step changes.            *)
(***************************************************************************)
ClaimantsKnown == \A i \in Ids : claim[i].status # "absent" => claim[i].agent \in Agents

HandlerKnows(c, t, r) ==
  /\ r.pc \in {"create", "store"} => r.agent \in Agents /\ Owns(c, r.agent, r.members, r.claims)
  /\ r.pc = "store" => /\ r.job \in Jobs
                       /\ t[r.job].status # "absent"
                       /\ t[r.job].agent = r.agent
                       /\ t[r.job].members = r.members

WorkerKnows(c, t, r) ==
  r.pc # "idle" => /\ r.job \in Jobs
                   /\ t[r.job].status # "absent"
                   /\ Owns(c, t[r.job].agent, t[r.job].members, r.claims)

ClaimInv ==
  /\ TypeOK
  /\ OneHolder
  /\ ClaimantsKnown
  /\ ListsOwnClaims
  /\ \A h \in Handlers : HandlerKnows(claim, job, handler[h])
  /\ \A w \in Workers : WorkerKnows(claim, job, worker[w])

\* A job is never removed and never changes its agent or its members.
JobsKept ==
  \A j \in Jobs : job[j].status # "absent" =>
    /\ job'[j].status # "absent"
    /\ job'[j].agent = job[j].agent
    /\ job'[j].members = job[j].members

\* What a step has to do to each variable.
ClaimsOK == claim' \in [Ids -> Claim] /\ Kept /\ OneHolder' /\ ClaimantsKnown'
JobsOK == job' \in [Jobs -> Job] /\ JobsKept /\ ListsOwnClaims'
HandlersOK == handler' \in [Handlers -> Handler]
              /\ \A h \in Handlers : HandlerKnows(claim', job', handler'[h])
WorkersOK == worker' \in [Workers -> Worker]
             /\ \A w \in Workers : WorkerKnows(claim', job', worker'[w])

LEMMA AllOK ==
  ASSUME ClaimsOK, JobsOK, HandlersOK, WorkersOK
  PROVE  ClaimInv'
  BY DEF ClaimsOK, JobsOK, HandlersOK, WorkersOK, ClaimInv, TypeOK

LEMMA OwnsKept ==
  ASSUME Kept, NEW a, NEW S, NEW I \in SUBSET Ids, Owns(claim, a, S, I)
  PROVE  Owns(claim', a, S, I)
  BY DEF Kept, Owns

LEMMA HandlerKept ==
  ASSUME Kept, JobsKept, NEW r \in Handler, HandlerKnows(claim, job, r)
  PROVE  HandlerKnows(claim', job', r)
<1>1. r.claims \in SUBSET Ids
  BY DEF Handler
<1>2. Owns(claim, r.agent, r.members, r.claims) => Owns(claim', r.agent, r.members, r.claims)
  BY <1>1, OwnsKept
<1> QED
  BY <1>2 DEF HandlerKnows, JobsKept

LEMMA WorkerKept ==
  ASSUME Kept, JobsKept, NEW r \in Worker, WorkerKnows(claim, job, r)
  PROVE  WorkerKnows(claim', job', r)
<1>1. r.claims \in SUBSET Ids
  BY DEF Worker
<1> SUFFICES ASSUME r.pc # "idle"
             PROVE  /\ r.job \in Jobs
                    /\ job'[r.job].status # "absent"
                    /\ Owns(claim', job'[r.job].agent, job'[r.job].members, r.claims)
  BY DEF WorkerKnows
<1>2. /\ r.job \in Jobs
      /\ job[r.job].status # "absent"
      /\ Owns(claim, job[r.job].agent, job[r.job].members, r.claims)
  BY DEF WorkerKnows
<1>3. Owns(claim', job[r.job].agent, job[r.job].members, r.claims)
  BY <1>1, <1>2, OwnsKept
<1>4. /\ job'[r.job].status # "absent"
      /\ job'[r.job].agent = job[r.job].agent
      /\ job'[r.job].members = job[r.job].members
  BY <1>2 DEF JobsKept
<1> QED
  BY <1>2, <1>3, <1>4

(***************************************************************************)
(* Steps that leave a variable alone or change one entry of it.            *)
(***************************************************************************)
LEMMA ClaimsEnd ==
  ASSUME ClaimInv, OnlyEnds
  PROVE  ClaimsOK
<1>1. OneHolder' /\ Kept
  BY EndsOneHolder, EndsKeep DEF ClaimInv
<1>2. ClaimantsKnown'
  BY DEF ClaimInv, ClaimantsKnown, OnlyEnds, Active
<1> QED
  BY <1>1, <1>2 DEF ClaimsOK, OnlyEnds

LEMMA ClaimsSame ==
  ASSUME ClaimInv, UNCHANGED claim
  PROVE  ClaimsOK
  BY ClaimsEnd, UnchangedEnds DEF ClaimInv, TypeOK

LEMMA ClaimsMade ==
  ASSUME ClaimInv, NEW a \in Agents, NEW S \in SUBSET Members, ClaimMembers(a, S)
  PROVE  ClaimsOK
<1>1. claim' \in [Ids -> Claim] /\ Kept /\ OneHolder'
  BY ClaimKeeps, ClaimOneHolder DEF ClaimInv, TypeOK
<1>2. ClaimantsKnown'
  BY DEF ClaimInv, ClaimantsKnown, ClaimMembers
<1> QED
  BY <1>1, <1>2 DEF ClaimsOK

LEMMA JobsSame ==
  ASSUME ClaimInv, Kept, UNCHANGED job
  PROVE  JobsOK
<1>1. job' \in [Jobs -> Job] /\ JobsKept
  BY DEF ClaimInv, TypeOK, JobsKept
<1>2. \A j \in Jobs : job[j].claims \in SUBSET Ids
  BY DEF ClaimInv, TypeOK, Job
<1>3. \A j \in Jobs : Owns(claim', job[j].agent, job[j].members, job[j].claims)
  BY <1>2, OwnsKept DEF ClaimInv, ListsOwnClaims
<1> QED
  BY <1>1, <1>3 DEF JobsOK, ListsOwnClaims

LEMMA JobChanged ==
  ASSUME ClaimInv, Kept, NEW j \in Jobs, NEW r \in Job,
         job' = [job EXCEPT ![j] = r],
         job[j].status # "absent" => /\ r.status # "absent"
                                     /\ r.agent = job[j].agent
                                     /\ r.members = job[j].members,
         Owns(claim', r.agent, r.members, r.claims)
  PROVE  JobsOK
<1>1. job' \in [Jobs -> Job] /\ JobsKept
  BY DEF ClaimInv, TypeOK, JobsKept
<1>2. \A k \in Jobs : job[k].claims \in SUBSET Ids
  BY DEF ClaimInv, TypeOK, Job
<1>3. \A k \in Jobs : Owns(claim', job[k].agent, job[k].members, job[k].claims)
  BY <1>2, OwnsKept DEF ClaimInv, ListsOwnClaims
<1>4. \A k \in Jobs : job'[k] = IF k = j THEN r ELSE job[k]
  BY DEF ClaimInv, TypeOK
<1>5. ListsOwnClaims'
  BY <1>3, <1>4 DEF ListsOwnClaims
<1> QED
  BY <1>1, <1>5 DEF JobsOK

LEMMA HandlersSame ==
  ASSUME ClaimInv, Kept, JobsKept, UNCHANGED handler
  PROVE  HandlersOK
  BY HandlerKept DEF ClaimInv, TypeOK, HandlersOK

LEMMA HandlerChanged ==
  ASSUME ClaimInv, Kept, JobsKept, NEW h \in Handlers, NEW r \in Handler,
         handler' = [handler EXCEPT ![h] = r], HandlerKnows(claim', job', r)
  PROVE  HandlersOK
<1>1. handler' \in [Handlers -> Handler]
  BY DEF ClaimInv, TypeOK
<1>2. ASSUME NEW k \in Handlers
      PROVE  HandlerKnows(claim', job', handler'[k])
  <2>1. CASE k = h
    BY <2>1 DEF ClaimInv, TypeOK
  <2>2. CASE k # h
    <3>1. handler'[k] = handler[k] /\ handler[k] \in Handler
      BY <2>2 DEF ClaimInv, TypeOK
    <3> QED
      BY <3>1, HandlerKept DEF ClaimInv
  <2> QED
    BY <2>1, <2>2
<1> QED
  BY <1>1, <1>2 DEF HandlersOK

LEMMA WorkersSame ==
  ASSUME ClaimInv, Kept, JobsKept, UNCHANGED worker
  PROVE  WorkersOK
  BY WorkerKept DEF ClaimInv, TypeOK, WorkersOK

LEMMA WorkerChanged ==
  ASSUME ClaimInv, Kept, JobsKept, NEW w \in Workers, NEW r \in Worker,
         worker' = [worker EXCEPT ![w] = r], WorkerKnows(claim', job', r)
  PROVE  WorkersOK
<1>1. worker' \in [Workers -> Worker]
  BY DEF ClaimInv, TypeOK
<1>2. ASSUME NEW k \in Workers
      PROVE  WorkerKnows(claim', job', worker'[k])
  <2>1. CASE k = w
    BY <2>1 DEF ClaimInv, TypeOK
  <2>2. CASE k # w
    <3>1. worker'[k] = worker[k] /\ worker[k] \in Worker
      BY <2>2 DEF ClaimInv, TypeOK
    <3> QED
      BY <3>1, WorkerKept DEF ClaimInv
  <2> QED
    BY <2>1, <2>2
<1> QED
  BY <1>1, <1>2 DEF WorkersOK

LEMMA IdleHandlerOK ==
  ASSUME NEW c, NEW t
  PROVE  IdleHandler \in Handler /\ HandlerKnows(c, t, IdleHandler)
  BY DEF IdleHandler, Handler, HandlerKnows

LEMMA IdleWorkerOK ==
  ASSUME NEW c, NEW t
  PROVE  IdleWorker \in Worker /\ WorkerKnows(c, t, IdleWorker)
  BY DEF IdleWorker, Worker, WorkerKnows

(***************************************************************************)
(* Every action preserves the invariant.                                   *)
(***************************************************************************)

\* A step that changes the table alone.
LEMMA TableStep ==
  ASSUME ClaimInv, ClaimsOK, UNCHANGED <<job, handler, worker>>
  PROVE  ClaimInv'
<1>1. Kept
  BY DEF ClaimsOK
<1>2. JobsOK
  BY <1>1, JobsSame
<1>3. JobsKept
  BY <1>2 DEF JobsOK
<1>4. HandlersOK /\ WorkersOK
  BY <1>1, <1>3, HandlersSame, WorkersSame
<1> QED
  BY <1>2, <1>4, AllOK

\* A step that writes one job and nothing else.
LEMMA JobStep ==
  ASSUME ClaimInv, NEW j \in Jobs, NEW r \in Job,
         job' = [job EXCEPT ![j] = r], UNCHANGED <<claim, handler, worker>>,
         job[j].status # "absent" => /\ r.status # "absent"
                                     /\ r.agent = job[j].agent
                                     /\ r.members = job[j].members,
         Owns(claim, r.agent, r.members, r.claims)
  PROVE  ClaimInv'
<1>1. ClaimsOK /\ Kept
  BY ClaimsSame DEF ClaimsOK
<1>2. Owns(claim', r.agent, r.members, r.claims)
  OBVIOUS
<1>3. JobsOK
  BY <1>1, <1>2, JobChanged
<1>4. HandlersOK /\ WorkersOK
  BY <1>1, <1>3, HandlersSame, WorkersSame DEF JobsOK
<1> QED
  BY <1>1, <1>3, <1>4, AllOK

\* The row of a job is a job, and its claims are its own.
LEMMA JobFacts ==
  ASSUME ClaimInv, NEW j \in Jobs
  PROVE  /\ job[j] \in Job
         /\ Owns(claim, job[j].agent, job[j].members, job[j].claims)
  BY DEF ClaimInv, TypeOK, ListsOwnClaims

\* A new status for a job that exists.
LEMMA StatusStep ==
  ASSUME ClaimInv, NEW j \in Jobs, NEW status \in {"waiting", "running", "aborted"},
         NEW done \in SUBSET Members
  PROVE  LET r == [job[j] EXCEPT !.status = status, !.done = done]
         IN  /\ r \in Job
             /\ r.status # "absent" /\ r.agent = job[j].agent /\ r.members = job[j].members
             /\ r.claims = job[j].claims
  BY JobFacts DEF Job, Stopped

LEMMA RetryJobInv ==
  ASSUME ClaimInv, NEW j \in Jobs, RetryJob(j)
  PROVE  ClaimInv'
<1> DEFINE r == [job[j] EXCEPT !.status = "waiting", !.done = {}]
<1>1. job' = [job EXCEPT ![j] = r] /\ UNCHANGED <<claim, handler, worker>>
  BY DEF RetryJob
<1>2. /\ r \in Job
      /\ r.status # "absent" /\ r.agent = job[j].agent /\ r.members = job[j].members
      /\ r.claims = job[j].claims
  BY StatusStep, Zenon
<1> HIDE DEF r
<1> QED
  BY <1>1, <1>2, JobFacts, JobStep

LEMMA RecoverJobInv ==
  ASSUME ClaimInv, NEW j \in Jobs, RecoverJob(j)
  PROVE  ClaimInv'
<1> DEFINE r == [job[j] EXCEPT !.status = "waiting"]
<1>1. job' = [job EXCEPT ![j] = r] /\ UNCHANGED <<claim, handler, worker>>
  BY DEF RecoverJob
<1>2. /\ r \in Job
      /\ r.status # "absent" /\ r.agent = job[j].agent /\ r.members = job[j].members
      /\ r.claims = job[j].claims
  BY JobFacts DEF Job
<1> HIDE DEF r
<1> QED
  BY <1>1, <1>2, JobFacts, JobStep

LEMMA UnclaimedAddInv ==
  ASSUME ClaimInv, NEW a \in Agents, NEW j \in Jobs, NEW S \in SUBSET Members,
         UnclaimedAdd(a, j, S)
  PROVE  ClaimInv'
<1> DEFINE r == [status |-> "waiting", kind |-> "add", agent |-> a,
                 members |-> S, claims |-> {}, done |-> {}]
<1>1. /\ job' = [job EXCEPT ![j] = r] /\ UNCHANGED <<claim, handler, worker>>
      /\ job[j].status = "absent"
  BY DEF UnclaimedAdd
<1>2. r \in Job
  BY DEF Job
<1>3. Owns(claim, r.agent, r.members, r.claims)
  BY DEF Owns
<1> HIDE DEF r
<1> QED
  BY <1>1, <1>2, <1>3, JobStep

\* A step of a request that writes no job and no execution.
LEMMA HandlerStep ==
  ASSUME ClaimInv, ClaimsOK, NEW h \in Handlers, NEW r \in Handler,
         handler' = [handler EXCEPT ![h] = r], UNCHANGED <<job, worker>>,
         HandlerKnows(claim', job, r)
  PROVE  ClaimInv'
<1>1. Kept
  BY DEF ClaimsOK
<1>2. JobsOK /\ JobsKept
  BY <1>1, JobsSame DEF JobsOK
<1>3. HandlerKnows(claim', job', r)
  OBVIOUS
<1>4. HandlersOK
  BY <1>1, <1>2, <1>3, HandlerChanged
<1>5. WorkersOK
  BY <1>1, <1>2, WorkersSame
<1> QED
  BY <1>2, <1>4, <1>5, AllOK

\* A step of a request that writes a job.
LEMMA HandlerJobStep ==
  ASSUME ClaimInv, UNCHANGED <<claim, worker>>,
         NEW h \in Handlers, NEW r \in Handler, handler' = [handler EXCEPT ![h] = r],
         NEW j \in Jobs, NEW row \in Job, job' = [job EXCEPT ![j] = row],
         job[j].status # "absent" => /\ row.status # "absent"
                                     /\ row.agent = job[j].agent
                                     /\ row.members = job[j].members,
         Owns(claim, row.agent, row.members, row.claims),
         HandlerKnows(claim, job', r)
  PROVE  ClaimInv'
<1>1. ClaimsOK /\ Kept
  BY ClaimsSame DEF ClaimsOK
<1>2. Owns(claim', row.agent, row.members, row.claims) /\ HandlerKnows(claim', job', r)
  OBVIOUS
<1>3. JobsOK /\ JobsKept
  BY <1>1, <1>2, JobChanged DEF JobsOK
<1>4. HandlersOK
  BY <1>1, <1>2, <1>3, HandlerChanged
<1>5. WorkersOK
  BY <1>1, <1>3, WorkersSame
<1> QED
  BY <1>1, <1>3, <1>4, <1>5, AllOK

LEMMA BulkAddClaimInv ==
  ASSUME ClaimInv, NEW h \in Handlers, NEW a \in Agents, NEW S \in SUBSET Members,
         BulkAddClaim(h, a, S)
  PROVE  ClaimInv'
<1> DEFINE r == [pc |-> "create", kind |-> "add", agent |-> a,
                 members |-> Free(a, S), claims |-> {}, job |-> None]
<1>1. /\ ClaimMembers(a, S) /\ UNCHANGED <<job, worker>>
      /\ handler' = [handler EXCEPT ![h] = r]
  BY DEF BulkAddClaim
<1>2. r \in Handler
  BY DEF Handler, Free
<1>3. HandlerKnows(claim', job, r)
  BY DEF HandlerKnows, Owns
<1>4. ClaimsOK
  BY <1>1, ClaimsMade
<1> HIDE DEF r
<1> QED
  BY <1>1, <1>2, <1>3, <1>4, HandlerStep

LEMMA SendCheckInv ==
  ASSUME ClaimInv, NEW h \in Handlers, NEW a \in Agents, NEW S \in SUBSET Members,
         SendCheck(h, a, S)
  PROVE  ClaimInv'
<1> DEFINE held == {i \in Ids : i[1] \in S /\ Active(i)
                                /\ Workspace[claim[i].agent] = Workspace[a]}
           r == [pc |-> "create", kind |-> "send", agent |-> a,
                 members |-> S, claims |-> held, job |-> None]
<1>1. /\ UNCHANGED <<claim, job, worker>>
      /\ \A i \in held : claim[i].agent = a
      /\ handler' = [handler EXCEPT ![h] = r]
  BY DEF SendCheck
<1>2. r \in Handler
  BY DEF Handler
<1>3. Owns(claim, a, S, held)
  BY <1>1 DEF Owns, Active
<1>4. HandlerKnows(claim', job, r)
  BY <1>1, <1>3 DEF HandlerKnows
<1>5. ClaimsOK
  BY <1>1, ClaimsSame
<1> HIDE DEF r
<1> QED
  BY <1>1, <1>2, <1>4, <1>5, HandlerStep

LEMMA CancelReleaseInv ==
  ASSUME ClaimInv, NEW h \in Handlers, CancelRelease(h)
  PROVE  ClaimInv'
<1>1. /\ ReleaseClaims(handler[h].agent, handler[h].claims) /\ UNCHANGED <<job, worker>>
      /\ handler' = [handler EXCEPT ![h] = IdleHandler]
  BY DEF CancelRelease
<1>2. OnlyEnds
  BY <1>1, ReleaseEnds DEF ClaimInv, TypeOK
<1>3. ClaimsOK
  BY <1>2, ClaimsEnd
<1> QED
  BY <1>1, <1>3, IdleHandlerOK, HandlerStep

LEMMA RequestFailsInv ==
  ASSUME ClaimInv, NEW h \in Handlers, RequestFails(h)
  PROVE  ClaimInv'
<1>1. UNCHANGED <<claim, job, worker>> /\ handler' = [handler EXCEPT ![h] = IdleHandler]
  BY DEF RequestFails
<1>2. ClaimsOK
  BY <1>1, ClaimsSame
<1> QED
  BY <1>1, <1>2, IdleHandlerOK, HandlerStep

LEMMA CreateJobInv ==
  ASSUME ClaimInv, NEW h \in Handlers, NEW j \in Jobs, CreateJob(h, j)
  PROVE  ClaimInv'
<1> DEFINE row == [status |-> "created", kind |-> handler[h].kind,
                   agent |-> handler[h].agent, members |-> handler[h].members,
                   claims |-> {}, done |-> {}]
           r == [handler[h] EXCEPT !.pc = "store", !.job = j]
<1>1. /\ UNCHANGED <<claim, worker>> /\ handler[h].pc = "create"
      /\ job' = [job EXCEPT ![j] = row] /\ job[j].status = "absent"
      /\ handler' = [handler EXCEPT ![h] = r]
  BY DEF CreateJob
<1>2. handler[h] \in Handler /\ HandlerKnows(claim, job, handler[h])
  BY DEF ClaimInv, TypeOK
<1>3. row \in Job /\ r \in Handler
  BY <1>2 DEF Job, Handler
<1>4. job'[j] = row
  BY <1>1 DEF ClaimInv, TypeOK
<1>5. /\ r.pc = "store" /\ r.job = j /\ r.agent = handler[h].agent
      /\ r.members = handler[h].members /\ r.claims = handler[h].claims
  BY <1>2 DEF Handler
<1>6. HandlerKnows(claim, job', r)
  BY <1>1, <1>2, <1>4, <1>5 DEF HandlerKnows
<1>7. Owns(claim, row.agent, row.members, row.claims)
  BY DEF Owns
<1> HIDE DEF r, row
<1> QED
  BY <1>1, <1>3, <1>6, <1>7, HandlerJobStep

\* The two ways a request stores what it knows about its job.
LEMMA StoreInv ==
  ASSUME ClaimInv, NEW h \in Handlers, handler[h].pc = "store",
         NEW ids \in SUBSET Ids, NEW done \in SUBSET Members,
         Owns(claim, handler[h].agent, handler[h].members, ids),
         job' = [job EXCEPT ![handler[h].job] = [job[handler[h].job] EXCEPT
                   !.status = Dispatched(handler[h].job), !.claims = ids, !.done = done]],
         handler' = [handler EXCEPT ![h] = IdleHandler],
         UNCHANGED <<claim, worker>>
  PROVE  ClaimInv'
<1> DEFINE j == handler[h].job
           row == [job[j] EXCEPT !.status = Dispatched(j), !.claims = ids, !.done = done]
<1>1. HandlerKnows(claim, job, handler[h])
  BY DEF ClaimInv
<1>2. /\ j \in Jobs /\ job[j].status # "absent"
      /\ job[j].agent = handler[h].agent /\ job[j].members = handler[h].members
  BY <1>1 DEF HandlerKnows
<1>3. job[j] \in Job
  BY <1>2 DEF ClaimInv, TypeOK
<1>4. /\ Dispatched(j) \in {"created", "waiting", "running", "completed"} \cup Stopped
      /\ Dispatched(j) # "absent"
  BY <1>2, <1>3 DEF Dispatched, Job, Stopped
<1>5. row \in Job
  BY <1>3, <1>4 DEF Job
<1>6. /\ row.status # "absent" /\ row.agent = job[j].agent /\ row.members = job[j].members
      /\ row.claims = ids
  BY <1>3, <1>4 DEF Job
<1>7. Owns(claim, row.agent, row.members, row.claims)
  BY <1>2, <1>6
<1>8. job' = [job EXCEPT ![j] = row]
  OBVIOUS
<1> HIDE DEF row, j
<1> QED
  BY <1>2, <1>5, <1>6, <1>7, <1>8, IdleHandlerOK, HandlerJobStep

LEMMA StoreAddClaimsInv ==
  ASSUME ClaimInv, NEW h \in Handlers, StoreAddClaims(h)
  PROVE  ClaimInv'
<1> DEFINE j == handler[h].job
<1>1. /\ handler[h].pc = "store" /\ UNCHANGED <<claim, worker>>
      /\ handler' = [handler EXCEPT ![h] = IdleHandler]
  BY DEF StoreAddClaims
<1>2. HandlerKnows(claim, job, handler[h])
  BY DEF ClaimInv
<1>3. /\ j \in Jobs /\ job[j].agent = handler[h].agent /\ job[j].members = handler[h].members
  BY <1>1, <1>2 DEF HandlerKnows
<1>4. job[j] \in Job /\ Owns(claim, job[j].agent, job[j].members, job[j].claims)
  BY <1>3, JobFacts
<1>5. CASE ClaimIds(h) = {}
  <2>1. job' = [job EXCEPT ![j] = [job[j] EXCEPT
                  !.status = Dispatched(j), !.claims = job[j].claims, !.done = job[j].done]]
    BY <1>4, <1>5 DEF StoreAddClaims, Job
  <2>2. job[j].claims \in SUBSET Ids /\ job[j].done \in SUBSET Members
    BY <1>4 DEF Job
  <2> QED
    BY <1>1, <1>3, <1>4, <2>1, <2>2, StoreInv
<1>6. CASE ClaimIds(h) # {}
  <2>1. job' = [job EXCEPT ![j] = [job[j] EXCEPT
                  !.status = Dispatched(j), !.claims = ClaimIds(h), !.done = {}]]
    BY <1>6 DEF StoreAddClaims, StorePayload
  <2>2. Owns(claim, handler[h].agent, handler[h].members, ClaimIds(h))
    BY DEF Owns, ClaimIds, Active
  <2>3. ClaimIds(h) \in SUBSET Ids
    BY DEF ClaimIds
  <2>4. {} \in SUBSET Members
    OBVIOUS
  <2> QED
    BY <1>1, <2>1, <2>2, <2>3, <2>4, StoreInv
<1> QED
  BY <1>5, <1>6

LEMMA StoreSendClaimsInv ==
  ASSUME ClaimInv, NEW h \in Handlers, StoreSendClaims(h)
  PROVE  ClaimInv'
<1>1. /\ handler[h].pc = "store" /\ UNCHANGED <<claim, worker>>
      /\ handler' = [handler EXCEPT ![h] = IdleHandler]
      /\ job' = [job EXCEPT ![handler[h].job] = [job[handler[h].job] EXCEPT
                   !.status = Dispatched(handler[h].job), !.claims = handler[h].claims, !.done = {}]]
  BY DEF StoreSendClaims, StorePayload
<1>2. HandlerKnows(claim, job, handler[h]) /\ handler[h] \in Handler
  BY DEF ClaimInv, TypeOK
<1>3. Owns(claim, handler[h].agent, handler[h].members, handler[h].claims)
  BY <1>1, <1>2 DEF HandlerKnows
<1>4. handler[h].claims \in SUBSET Ids
  BY <1>2 DEF Handler
<1>5. {} \in SUBSET Members
  OBVIOUS
<1> QED
  BY <1>1, <1>3, <1>4, <1>5, StoreInv

LEMMA CancelJobInv ==
  ASSUME ClaimInv, NEW h \in Handlers, NEW j \in Jobs, CancelJob(h, j)
  PROVE  ClaimInv'
<1> DEFINE row == [job[j] EXCEPT !.status = "aborted"]
           r == [pc |-> "release", kind |-> "add", agent |-> job[j].agent, members |-> {},
                 claims |-> job[j].claims, job |-> None]
<1>1. /\ UNCHANGED <<claim, worker>>
      /\ job' = [job EXCEPT ![j] = row]
      /\ handler' = [handler EXCEPT ![h] = r]
  BY DEF CancelJob
<1>2. /\ job[j] \in Job
      /\ Owns(claim, job[j].agent, job[j].members, job[j].claims)
  BY JobFacts
<1>3. /\ row \in Job /\ row.status # "absent" /\ row.agent = job[j].agent
      /\ row.members = job[j].members /\ row.claims = job[j].claims
  BY <1>2 DEF Job, Stopped
<1>5. r \in Handler
  BY <1>2 DEF Handler, Job
<1>6. HandlerKnows(claim, job', r)
  BY DEF HandlerKnows
<1> HIDE DEF r, row
<1> QED
  BY <1>1, <1>2, <1>3, <1>5, <1>6, HandlerJobStep

\* A step of an execution that changes neither claims nor jobs.
LEMMA WorkerStepInv ==
  ASSUME ClaimInv, ClaimsOK, NEW w \in Workers, NEW r \in Worker,
         worker' = [worker EXCEPT ![w] = r], UNCHANGED <<job, handler>>,
         WorkerKnows(claim', job, r)
  PROVE  ClaimInv'
<1>1. Kept
  BY DEF ClaimsOK
<1>2. JobsOK /\ JobsKept
  BY <1>1, JobsSame DEF JobsOK
<1>3. WorkerKnows(claim', job', r)
  OBVIOUS
<1>4. HandlersOK /\ WorkersOK
  BY <1>1, <1>2, <1>3, HandlersSame, WorkerChanged
<1> QED
  BY <1>2, <1>4, AllOK

\* A step of an execution that writes its job.
LEMMA WorkerJobStep ==
  ASSUME ClaimInv, UNCHANGED <<claim, handler>>,
         NEW w \in Workers, NEW r \in Worker, worker' = [worker EXCEPT ![w] = r],
         NEW j \in Jobs, NEW row \in Job, job' = [job EXCEPT ![j] = row],
         job[j].status # "absent", row.status # "absent",
         row.agent = job[j].agent, row.members = job[j].members,
         Owns(claim, row.agent, row.members, row.claims),
         WorkerKnows(claim, job', r)
  PROVE  ClaimInv'
<1>1. ClaimsOK /\ Kept
  BY ClaimsSame DEF ClaimsOK
<1>2. Owns(claim', row.agent, row.members, row.claims) /\ WorkerKnows(claim', job', r)
  OBVIOUS
<1>3. JobsOK /\ JobsKept
  BY <1>1, <1>2, JobChanged DEF JobsOK
<1>4. HandlersOK /\ WorkersOK
  BY <1>1, <1>2, <1>3, HandlersSame, WorkerChanged
<1> QED
  BY <1>1, <1>3, <1>4, AllOK

\* A busy execution's job exists, and its copy of the claims is the job's own.
LEMMA WorkerFacts ==
  ASSUME ClaimInv, NEW w \in Workers, worker[w].pc # "idle"
  PROVE  /\ worker[w] \in Worker
         /\ worker[w].job \in Jobs
         /\ job[worker[w].job] \in Job /\ job[worker[w].job].status # "absent"
         /\ Owns(claim, job[worker[w].job].agent, job[worker[w].job].members, worker[w].claims)
  BY DEF ClaimInv, TypeOK, WorkerKnows

LEMMA StartJobInv ==
  ASSUME ClaimInv, NEW w \in Workers, NEW j \in Jobs, StartJob(w, j)
  PROVE  ClaimInv'
<1> DEFINE row == [job[j] EXCEPT !.status = "running"]
           r == [pc |-> "run", job |-> j, claims |-> job[j].claims,
                 todo |-> job[j].members \ job[j].done]
<1>1. /\ UNCHANGED <<claim, handler>> /\ job[j].status = "waiting"
      /\ job' = [job EXCEPT ![j] = row]
      /\ worker' = [worker EXCEPT ![w] = r]
  BY DEF StartJob
<1>2. /\ job[j] \in Job
      /\ Owns(claim, job[j].agent, job[j].members, job[j].claims)
  BY JobFacts
<1>3. /\ row \in Job /\ row.status # "absent" /\ row.agent = job[j].agent
      /\ row.members = job[j].members /\ row.claims = job[j].claims
  BY <1>2 DEF Job, Stopped
<1>4. r \in Worker
  BY <1>2 DEF Worker, Job
<1>5. job'[j] = row
  BY <1>1 DEF ClaimInv, TypeOK
<1>6. WorkerKnows(claim, job', r)
  BY <1>2, <1>3, <1>5 DEF WorkerKnows
<1> HIDE DEF r, row
<1> QED
  BY <1>1, <1>2, <1>3, <1>4, <1>6, WorkerJobStep

\* The row an execution writes keeps the agent and the members of its job.
LEMMA ProgressFacts ==
  ASSUME ClaimInv, NEW w \in Workers, worker[w].pc # "idle", NEW todo
  PROVE  LET j == worker[w].job  row == Progress(w, todo)
         IN  /\ row \in Job
             /\ row.status = job[j].status /\ row.agent = job[j].agent
             /\ row.members = job[j].members /\ row.claims = worker[w].claims
<1>1. /\ worker[w].claims \in SUBSET Ids
      /\ job[worker[w].job] \in Job
      /\ job[worker[w].job].members \ todo \in SUBSET Members
  BY WorkerFacts DEF Worker, Job
<1> QED
  BY <1>1 DEF Progress, Job

LEMMA OperateInv ==
  ASSUME ClaimInv, NEW w \in Workers, NEW m \in Members, Operate(w, m)
  PROVE  ClaimInv'
<1> DEFINE j == worker[w].job
           row == Progress(w, worker[w].todo \ {m})
           r == [worker[w] EXCEPT !.todo = worker[w].todo \ {m}]
<1>1. /\ UNCHANGED <<claim, handler>> /\ worker[w].pc = "run"
      /\ job' = [job EXCEPT ![j] = row]
      /\ worker' = [worker EXCEPT ![w] = r]
  BY DEF Operate
<1>2. /\ worker[w] \in Worker /\ j \in Jobs
      /\ job[j].status # "absent"
      /\ Owns(claim, job[j].agent, job[j].members, worker[w].claims)
  BY <1>1, WorkerFacts
<1>3. /\ row \in Job /\ row.status = job[j].status /\ row.agent = job[j].agent
      /\ row.members = job[j].members /\ row.claims = worker[w].claims
  BY <1>1, ProgressFacts
<1>4. r \in Worker /\ r.job = j /\ r.claims = worker[w].claims
  BY <1>2 DEF Worker
<1>5. job'[j] = row
  BY <1>1, <1>2 DEF ClaimInv, TypeOK
<1> HIDE DEF r, row, j
<1>6. WorkerKnows(claim, job', r)
  BY <1>2, <1>3, <1>4, <1>5 DEF WorkerKnows
<1>7. Owns(claim, row.agent, row.members, row.claims)
  BY <1>2, <1>3
<1> QED
  BY <1>1, <1>2, <1>3, <1>4, <1>6, <1>7, WorkerJobStep

LEMMA SettleInv ==
  ASSUME ClaimInv, NEW w \in Workers, NEW status \in {"completed", "failed", "waiting"},
         Settle(w, status)
  PROVE  ClaimInv'
<1> DEFINE j == worker[w].job
           old == Progress(w, worker[w].todo)
           row == [old EXCEPT !.status = status]
<1>1. /\ UNCHANGED <<claim, handler>> /\ worker[w].pc = "settle"
      /\ job' = [job EXCEPT ![j] = row]
      /\ worker' = [worker EXCEPT ![w] = IdleWorker]
  BY DEF Settle
<1>2. /\ j \in Jobs /\ job[j].status # "absent"
      /\ Owns(claim, job[j].agent, job[j].members, worker[w].claims)
  BY <1>1, WorkerFacts
<1>3. /\ old \in Job /\ old.agent = job[j].agent
      /\ old.members = job[j].members /\ old.claims = worker[w].claims
  BY <1>1, ProgressFacts
<1> HIDE DEF old, j
<1>4. /\ row \in Job /\ row.status # "absent" /\ row.agent = old.agent
      /\ row.members = old.members /\ row.claims = old.claims
  BY <1>3 DEF Job, Stopped
<1> HIDE DEF row
<1>5. Owns(claim, row.agent, row.members, row.claims)
  BY <1>2, <1>3, <1>4
<1>6. row.agent = job[j].agent /\ row.members = job[j].members
  BY <1>3, <1>4
<1> QED
  BY <1>1, <1>2, <1>4, <1>5, <1>6, IdleWorkerOK, WorkerJobStep

LEMMA EndBatchInv ==
  ASSUME ClaimInv, NEW w \in Workers, EndBatch(w)
  PROVE  ClaimInv'
<1> DEFINE pc == IF job[worker[w].job].kind = "add" THEN "release" ELSE "settle"
           r == [worker[w] EXCEPT !.pc = pc]
<1>1. /\ UNCHANGED <<claim, job, handler>> /\ worker[w].pc = "run"
      /\ worker' = [worker EXCEPT ![w] = r]
  BY DEF EndBatch
<1>2. worker[w] \in Worker /\ WorkerKnows(claim, job, worker[w])
  BY DEF ClaimInv, TypeOK
<1>3. pc \in {"release", "settle"}
  OBVIOUS
<1> HIDE DEF pc
<1>4. r \in Worker /\ r.job = worker[w].job /\ r.claims = worker[w].claims
  BY <1>2, <1>3 DEF Worker
<1>5. WorkerKnows(claim', job, r)
  BY <1>1, <1>2, <1>4 DEF WorkerKnows
<1>6. ClaimsOK
  BY <1>1, ClaimsSame
<1> HIDE DEF r
<1> QED
  BY <1>1, <1>4, <1>5, <1>6, WorkerStepInv

\* Releasing, or failing to, moves on to the outcome.
LEMMA SettlingInv ==
  ASSUME ClaimInv, ClaimsOK, NEW w \in Workers, worker[w].pc = "release",
         worker' = [worker EXCEPT ![w].pc = "settle"], UNCHANGED <<job, handler>>
  PROVE  ClaimInv'
<1> DEFINE r == [worker[w] EXCEPT !.pc = "settle"]
<1>1. worker[w] \in Worker /\ WorkerKnows(claim, job, worker[w])
  BY DEF ClaimInv, TypeOK
<1>2. Kept /\ JobsKept
  BY DEF ClaimsOK, JobsKept
<1>3. WorkerKnows(claim', job', worker[w])
  BY <1>1, <1>2, WorkerKept
<1>4. r \in Worker /\ r.job = worker[w].job /\ r.claims = worker[w].claims
  BY <1>1 DEF Worker
<1>5. WorkerKnows(claim', job, r)
  BY <1>3, <1>4 DEF WorkerKnows
<1>6. worker' = [worker EXCEPT ![w] = r]
  OBVIOUS
<1> HIDE DEF r
<1> QED
  BY <1>4, <1>5, <1>6, WorkerStepInv

LEMMA FinallyReleaseInv ==
  ASSUME ClaimInv, NEW w \in Workers, FinallyRelease(w)
  PROVE  ClaimInv'
<1>1. /\ ReleaseClaims(job[worker[w].job].agent, worker[w].claims)
      /\ worker[w].pc = "release" /\ UNCHANGED <<job, handler>>
      /\ worker' = [worker EXCEPT ![w].pc = "settle"]
  BY DEF FinallyRelease
<1>2. OnlyEnds
  BY <1>1, ReleaseEnds DEF ClaimInv, TypeOK
<1> QED
  BY <1>1, <1>2, ClaimsEnd, SettlingInv

LEMMA FinallyReleaseFailsInv ==
  ASSUME ClaimInv, NEW w \in Workers, FinallyReleaseFails(w)
  PROVE  ClaimInv'
  BY ClaimsSame, SettlingInv DEF FinallyReleaseFails

LEMMA WorkerStopsInv ==
  ASSUME ClaimInv, NEW w \in Workers, WorkerStops(w)
  PROVE  ClaimInv'
  BY ClaimsSame, IdleWorkerOK, WorkerStepInv DEF WorkerStops

-----------------------------------------------------------------------------
LEMMA ClaimInvInit == Init => ClaimInv
<1> SUFFICES ASSUME Init PROVE ClaimInv
  OBVIOUS
<1>1. TypeOK
  BY NoClaimType, IdleHandlerOK, IdleWorkerOK DEF Init, TypeOK, NoJob, Job
<1>2. OneHolder /\ ClaimantsKnown
  BY DEF Init, OneHolder, ClaimantsKnown, Active, NoClaim
<1>3. ListsOwnClaims
  BY DEF Init, ListsOwnClaims, Owns, NoJob
<1>4. /\ \A h \in Handlers : HandlerKnows(claim, job, handler[h])
      /\ \A w \in Workers : WorkerKnows(claim, job, worker[w])
  BY IdleHandlerOK, IdleWorkerOK DEF Init
<1> QED
  BY <1>1, <1>2, <1>3, <1>4 DEF ClaimInv

LEMMA ClaimInvNext == ClaimInv /\ [Next]_vars => ClaimInv'
<1> SUFFICES ASSUME ClaimInv, [Next]_vars PROVE ClaimInv'
  OBVIOUS
<1>1. CASE UNCHANGED vars
  BY <1>1, ClaimsSame, TableStep DEF vars
<1>2. ASSUME NEW a \in Agents, NEW S \in SUBSET Members, ClaimOnly(a, S)
      PROVE  ClaimInv'
  BY <1>2, ClaimsMade, TableStep DEF ClaimOnly
<1>3. ASSUME NEW a \in Agents, NEW I \in SUBSET Ids, ReleaseOwn(a, I)
      PROVE  ClaimInv'
  <2>1. ReleaseClaims(a, I) /\ UNCHANGED <<job, handler, worker>>
    BY <1>3 DEF ReleaseOwn
  <2>2. OnlyEnds
    BY <2>1, ReleaseEnds DEF ClaimInv, TypeOK
  <2> QED
    BY <2>1, <2>2, ClaimsEnd, TableStep
<1>4. CASE Expire
  <2>1. OnlyEnds
    BY <1>4, ExpireEnds DEF ClaimInv, TypeOK
  <2> QED
    BY <1>4, <2>1, ClaimsEnd, TableStep DEF Expire
<1>5. CASE Tick
  <2>1. OnlyEnds
    BY <1>5, TickEnds DEF ClaimInv, TypeOK
  <2> QED
    BY <1>5, <2>1, ClaimsEnd, TableStep DEF Tick
<1>6. ASSUME NEW h \in Handlers, RequestStep(h)
      PROVE  ClaimInv'
  BY <1>6, BulkAddClaimInv, SendCheckInv, CreateJobInv, CancelJobInv, StoreAddClaimsInv,
     StoreSendClaimsInv, CancelReleaseInv, RequestFailsInv DEF RequestStep
<1>7. ASSUME NEW w \in Workers, WorkerStep(w)
      PROVE  ClaimInv'
  BY <1>7, StartJobInv, OperateInv, EndBatchInv, FinallyReleaseInv, FinallyReleaseFailsInv,
     SettleInv, WorkerStopsInv DEF WorkerStep
<1>8. ASSUME NEW j \in Jobs, RetryJob(j) \/ RecoverJob(j)
      PROVE  ClaimInv'
  BY <1>8, RetryJobInv, RecoverJobInv
<1>9. ASSUME NEW a \in Agents, NEW j \in Jobs, NEW S \in SUBSET Members, UnclaimedAdd(a, j, S)
      PROVE  ClaimInv'
  BY <1>9, UnclaimedAddInv
<1> QED
  BY <1>1, <1>2, <1>3, <1>4, <1>5, <1>6, <1>7, <1>8, <1>9 DEF Next

LEMMA ClaimInvariant == Spec => []ClaimInv
  BY ClaimInvInit, ClaimInvNext, PTL DEF Spec

\* Every reachable state is well typed: however requests and executions write
\* rows from what they read earlier, a row holds only the statuses of the
\* enumerations and ids of rows, and a claim's age stays in range.
THEOREM TypeCorrect == Spec => []TypeOK
<1>1. ClaimInv => TypeOK
  BY DEF ClaimInv
<1> QED
  BY <1>1, ClaimInvariant, PTL

\* FR-3, FR-11: in every reachable state a member has at most one active claim
\* in each workspace, for any number of requests, executions and crashes.
THEOREM OneHolderAlways == Spec => []OneHolder
<1>1. ClaimInv => OneHolder
  BY DEF ClaimInv
<1> QED
  BY <1>1, ClaimInvariant, PTL

\* The claim ids in a payload are always claims of the job's own agent for the
\* job's own members, so that releasing them frees nobody else's members.
THEOREM OwnClaimsAlways == Spec => []ListsOwnClaims
<1>1. ClaimInv => ListsOwnClaims
  BY DEF ClaimInv
<1> QED
  BY <1>1, ClaimInvariant, PTL

-----------------------------------------------------------------------------
(***************************************************************************)
(* The rows implement MemberReservation.  Where a member has one holder,   *)
(* the CHOOSE in Holder names it, so a step that makes claims is a Reserve *)
(* and a step that ends claims is a Free.                                  *)
(***************************************************************************)
HolderFacts ==
  \A s \in Workspaces, m \in Members :
    /\ Holder[s][m] \in Agents \cup {None}
    /\ \A a \in Agents : HeldBy(a, s, m) <=> Holder[s][m] = a

LEMMA HolderIsUnique == OneHolder => HolderFacts
<1> SUFFICES ASSUME OneHolder, NEW s \in Workspaces, NEW m \in Members
             PROVE  /\ Holder[s][m] \in Agents \cup {None}
                    /\ \A a \in Agents : HeldBy(a, s, m) <=> Holder[s][m] = a
  BY DEF HolderFacts
<1> DEFINE chosen == CHOOSE a \in Agents : HeldBy(a, s, m)
<1>1. Holder[s][m] = IF \E a \in Agents : HeldBy(a, s, m) THEN chosen ELSE None
  BY DEF Holder
<1>2. \A a, b \in Agents : (HeldBy(a, s, m) /\ HeldBy(b, s, m)) => a = b
  BY DEF HeldBy, OneHolder
<1>3. CASE \E a \in Agents : HeldBy(a, s, m)
  <2>1. chosen \in Agents /\ HeldBy(chosen, s, m)
    BY <1>3
  <2> HIDE DEF chosen
  <2> QED
    BY <1>1, <1>2, <1>3, <2>1
<1>4. CASE ~ \E a \in Agents : HeldBy(a, s, m)
  <2> HIDE DEF chosen
  <2> QED
    BY <1>1, <1>4, ConstantsAssumption
<1> QED
  BY <1>3, <1>4

LEMMA HolderIsUniqueNext == OneHolder' => HolderFacts'
  BY HolderIsUnique, PTL

\* Holder is determined by its values.
LEMMA HolderShape ==
  ASSUME NEW F, \A s \in Workspaces, m \in Members : Holder'[s][m] = F[s][m],
         F = [s \in Workspaces |-> [m \in Members |-> F[s][m]]]
  PROVE  Holder' = F
<1> DEFINE V(s, m) == IF \E a \in Agents : HeldBy(a, s, m)'
                      THEN CHOOSE a \in Agents : HeldBy(a, s, m)' ELSE None
<1>1. Holder' = [s \in Workspaces |-> [m \in Members |-> V(s, m)]]
  BY DEF Holder
<1> HIDE DEF V
<1>2. \A s \in Workspaces, m \in Members : V(s, m) = F[s][m]
  BY <1>1
<1> QED
  BY <1>1, <1>2

\* A step that only ends claims frees members.
LEMMA EndsFree ==
  ASSUME ClaimInv, OnlyEnds
  PROVE  Reservation!Next
<1> DEFINE F == {p \in Workspaces \X Members : Holder'[p[1]][p[2]] = None}
           G == [s \in Workspaces |-> [m \in Members |->
                   IF <<s, m>> \in F THEN None ELSE Holder[s][m]]]
<1>1. HolderFacts /\ HolderFacts'
  BY EndsOneHolder, HolderIsUnique, HolderIsUniqueNext DEF ClaimInv
<1>2. ASSUME NEW s \in Workspaces, NEW m \in Members
      PROVE  Holder'[s][m] = G[s][m]
  <2>1. G[s][m] = IF Holder'[s][m] = None THEN None ELSE Holder[s][m]
    OBVIOUS
  <2>2. ASSUME NEW a \in Agents, Holder'[s][m] = a
        PROVE  Holder[s][m] = a
    <3>1. HeldBy(a, s, m)'
      BY <1>1, <2>2 DEF HolderFacts
    <3>2. HeldBy(a, s, m)
      BY <3>1 DEF HeldBy, OnlyEnds, Active
    <3> QED
      BY <1>1, <3>2 DEF HolderFacts
  <2>3. Holder'[s][m] \in Agents \cup {None}
    BY <1>1 DEF HolderFacts
  <2> QED
    BY <2>1, <2>2, <2>3
<1>3. G = [s \in Workspaces |-> [m \in Members |-> G[s][m]]]
  OBVIOUS
<1> HIDE DEF G
<1>4. Holder' = G
  BY <1>2, <1>3, HolderShape
<1>5. Reservation!Free(F)
  BY <1>4 DEF Reservation!Free, G
<1>6. F \in SUBSET (Workspaces \X Members)
  OBVIOUS
<1> HIDE DEF F
<1> QED
  BY <1>5, <1>6 DEF Reservation!Next

\* A step that makes claims reserves the members that are free.
LEMMA ClaimReserves ==
  ASSUME ClaimInv, NEW a \in Agents, NEW S \in SUBSET Members, Room(a, S), ClaimMembers(a, S)
  PROVE  Reservation!Next
<1> DEFINE G == [s \in Workspaces |-> [m \in Members |->
                   IF s = Workspace[a] /\ m \in S /\ Holder[s][m] = None
                   THEN a ELSE Holder[s][m]]]
<1>1. HolderFacts /\ HolderFacts'
  BY ClaimOneHolder, HolderIsUnique, HolderIsUniqueNext DEF ClaimInv, TypeOK
<1>2. ASSUME NEW i \in Ids
      PROVE  claim'[i] = IF i[1] \in Free(a, S) /\ Fresh(i)
                         THEN [status |-> "active", agent |-> a, age |-> 0] ELSE claim[i]
  BY DEF ClaimMembers
<1>3. ASSUME NEW s \in Workspaces, NEW m \in Members
      PROVE  Holder'[s][m] = G[s][m]
  <2>1. G[s][m] = IF s = Workspace[a] /\ m \in S /\ Holder[s][m] = None
                  THEN a ELSE Holder[s][m]
    OBVIOUS
  <2>2. CASE s = Workspace[a] /\ m \in S /\ Holder[s][m] = None
    <3>1. m \in Free(a, S)
      <4> SUFFICES ASSUME NEW i \in Ids, i[1] = m, Active(i),
                          Workspace[claim[i].agent] = s
                   PROVE  FALSE
        BY <2>2 DEF Free, Taken
      <4>1. claim[i].agent \in Agents
        BY DEF ClaimInv, ClaimantsKnown, Active
      <4>2. HeldBy(claim[i].agent, s, m)
        BY DEF HeldBy
      <4> QED
        BY <1>1, <2>2, <4>1, <4>2, ConstantsAssumption DEF HolderFacts
    <3>2. PICK n \in 1..MaxClaims : Fresh(<<m, n>>)
      BY <3>1 DEF Room
    <3>3. <<m, n>> \in Ids /\ <<m, n>>[1] = m
      BY DEF Ids
    <3>4. claim'[<<m, n>>] = [status |-> "active", agent |-> a, age |-> 0]
      BY <1>2, <3>1, <3>2, <3>3
    <3>5. HeldBy(a, s, m)'
      BY <2>2, <3>3, <3>4 DEF HeldBy, Active
    <3> QED
      BY <1>1, <2>1, <2>2, <3>5 DEF HolderFacts
  <2>3. CASE ~(s = Workspace[a] /\ m \in S /\ Holder[s][m] = None)
    <3>1. \A b \in Agents : HeldBy(b, s, m) => HeldBy(b, s, m)'
      BY <1>2 DEF HeldBy, Active, Fresh
    <3>2. ASSUME NEW b \in Agents, HeldBy(b, s, m)'
          PROVE  HeldBy(b, s, m)
      <4>1. PICK i \in Ids : /\ i[1] = m /\ claim'[i].status = "active"
                             /\ claim'[i].agent = b /\ Workspace[b] = s
        BY <3>2 DEF HeldBy, Active
      <4>2. CASE i[1] \in Free(a, S) /\ Fresh(i)
        <5>1. b = a /\ s = Workspace[a] /\ m \in S
          BY <1>2, <4>1, <4>2 DEF Free
        <5>2. Holder[s][m] # None
          BY <2>3, <5>1
        <5>3. PICK h \in Agents : HeldBy(h, s, m)
          BY <1>1, <5>2 DEF HolderFacts
        <5>4. Taken(Workspace[a], m)
          BY <5>1, <5>3 DEF HeldBy, Taken
        <5> QED
          BY <4>1, <4>2, <5>4 DEF Free
      <4>3. CASE ~(i[1] \in Free(a, S) /\ Fresh(i))
        BY <1>2, <4>1, <4>3 DEF HeldBy, Active
      <4> QED
        BY <4>2, <4>3
    <3> QED
      BY <1>1, <2>1, <2>3, <3>1, <3>2, ConstantsAssumption DEF HolderFacts
  <2> QED
    BY <2>2, <2>3
<1>4. G = [s \in Workspaces |-> [m \in Members |-> G[s][m]]]
  OBVIOUS
<1> HIDE DEF G
<1>5. Holder' = G
  BY <1>3, <1>4, HolderShape
<1>6. Reservation!Reserve(a, S)
  BY <1>5 DEF Reservation!Reserve, G
<1> QED
  BY <1>6 DEF Reservation!Next

\* What a step does to the table: it ends claims or makes some.
LEMMA TableCases ==
  ASSUME ClaimInv, [Next]_vars
  PROVE  OnlyEnds \/ \E a \in Agents, S \in SUBSET Members : Room(a, S) /\ ClaimMembers(a, S)
<1> claim \in [Ids -> Claim]
  BY DEF ClaimInv, TypeOK
<1>1. CASE UNCHANGED vars
  BY <1>1, UnchangedEnds DEF vars
<1>2. ASSUME NEW a \in Agents, NEW S \in SUBSET Members, ClaimOnly(a, S)
      PROVE  Room(a, S) /\ ClaimMembers(a, S)
  BY <1>2 DEF ClaimOnly
<1>3. ASSUME NEW a \in Agents, NEW I \in SUBSET Ids, ReleaseOwn(a, I)
      PROVE  OnlyEnds
  BY <1>3, ReleaseEnds DEF ReleaseOwn
<1>4. CASE Expire \/ Tick
  BY <1>4, ExpireEnds, TickEnds
<1>5. ASSUME NEW h \in Handlers, RequestStep(h)
      PROVE  OnlyEnds \/ \E a \in Agents, S \in SUBSET Members : Room(a, S) /\ ClaimMembers(a, S)
  <2>1. ASSUME NEW a \in Agents, NEW S \in SUBSET Members, BulkAddClaim(h, a, S)
        PROVE  Room(a, S) /\ ClaimMembers(a, S)
    BY <2>1 DEF BulkAddClaim
  <2>2. ASSUME NEW a \in Agents, NEW S \in SUBSET Members, SendCheck(h, a, S)
        PROVE  UNCHANGED claim
    BY <2>2 DEF SendCheck
  <2>3. ASSUME NEW j \in Jobs, CreateJob(h, j) \/ CancelJob(h, j)
        PROVE  UNCHANGED claim
    BY <2>3 DEF CreateJob, CancelJob
  <2>4. CASE StoreAddClaims(h) \/ StoreSendClaims(h) \/ RequestFails(h)
    BY <2>4, UnchangedEnds DEF StoreAddClaims, StoreSendClaims, RequestFails
  <2>5. CASE CancelRelease(h)
    BY <2>5, ReleaseEnds DEF CancelRelease
  <2> QED
    BY <1>5, <2>1, <2>2, <2>3, <2>4, <2>5, UnchangedEnds DEF RequestStep
<1>6. ASSUME NEW w \in Workers, WorkerStep(w)
      PROVE  OnlyEnds
  <2>1. CASE FinallyRelease(w)
    BY <2>1, ReleaseEnds DEF FinallyRelease
  <2>2. CASE ~FinallyRelease(w)
    BY <1>6, <2>2, UnchangedEnds
       DEF WorkerStep, StartJob, Operate, EndBatch, FinallyReleaseFails, Settle, WorkerStops
  <2> QED
    BY <2>1, <2>2
<1>7. ASSUME NEW j \in Jobs, RetryJob(j) \/ RecoverJob(j)
      PROVE  OnlyEnds
  BY <1>7, UnchangedEnds DEF RetryJob, RecoverJob
<1>8. ASSUME NEW a \in Agents, NEW j \in Jobs, NEW S \in SUBSET Members, UnclaimedAdd(a, j, S)
      PROVE  OnlyEnds
  BY <1>8, UnchangedEnds DEF UnclaimedAdd
<1> QED
  BY <1>1, <1>2, <1>3, <1>4, <1>5, <1>6, <1>7, <1>8 DEF Next

LEMMA ReservationInit == Init => Reservation!Init
<1> SUFFICES ASSUME Init PROVE Reservation!Init
  OBVIOUS
<1>1. \A s \in Workspaces, m \in Members, a \in Agents : ~HeldBy(a, s, m)
  BY DEF Init, HeldBy, Active, NoClaim
<1> QED
  BY <1>1 DEF Holder, Reservation!Init

\* AC-9: whatever requests, executions and the expiry do, the claims of a member
\* are a reservation: a member changes hands only by becoming free first.
THEOREM ClaimsImplementReservation == Spec => ReservationSpec
<1>1. ClaimInv /\ [Next]_vars => [Reservation!Next]_Holder
  BY TableCases, EndsFree, ClaimReserves
<1>2. Spec => Reservation!Init /\ [][Reservation!Next]_Holder
  BY <1>1, ReservationInit, ClaimInvariant, PTL DEF Spec
<1> QED
  BY <1>2 DEF ReservationSpec, Reservation!Spec

=============================================================================
