--------------------------- MODULE AgentJobQueue ---------------------------
(***************************************************************************)
(* The life of an agent job: its row in agent_jobs, the Dramatiq messages  *)
(* that ask a worker to execute it, and everything that writes the row:    *)
(* the dispatcher, the reconcile loop, the scheduler, the cancel and retry *)
(* endpoints and the worker (bot/agents/dispatch.py, bot/agents/worker.py, *)
(* bot/services/scheduler.py, bot/dashboard/api/routers/agents.py).        *)
(*                                                                         *)
(* A handler that reads a row, awaits, and writes it back is split at the  *)
(* await: a SQLAlchemy session keeps the object it first read              *)
(* (db/session.py: expire_on_commit=False, autoflush=False) and its UPDATE *)
(* is by primary key alone, so it overwrites what was committed in         *)
(* between.  Only the worker's claim and the scheduler's promotion are     *)
(* guarded UPDATEs.                                                        *)
(*                                                                         *)
(* Time: Tick ages every row and counts every delay down, so updated_at is *)
(* the age of the row, _resume_at the time left until it, and the delay of *)
(* a message the time left until it may be delivered.  Ages saturate once  *)
(* they exceed every cutoff.                                               *)
(***************************************************************************)
EXTENDS Integers, FiniteSets

CONSTANTS
  Jobs,              \* rows of agent_jobs
  Workers,           \* concurrent executions of the actor execute_agent_job
  Procs,             \* coroutines of the API server: requests and loops
  Slots,             \* bound: messages of the queue "agent" alive at once
  Reserve,           \* bound: slots the dispatcher leaves to the workers
  None,              \* no job, no message
  ActorMaxRetries,   \* max_retries of the actor
  MaxJobReschedules, \* MAX_JOB_RESCHEDULES
  RequeueAge,        \* pending_job_requeue_minutes
  StaleAge,          \* STALE_JOB_THRESHOLD_HOURS
  StuckAge,          \* stuck_job_threshold_hours
  StuckMaxRetries,   \* stuck_job_max_retries
  MaxDelay,          \* bound: longest flood wait or cooldown, in ticks
  MaxCrashes,        \* bound: crashes of a worker or of the API server
  Requests           \* the user requests that arrive besides job creation

ASSUME ConstantsAssumption ==
  /\ None \notin Jobs \cup Slots
  /\ ActorMaxRetries \in Nat /\ MaxJobReschedules \in Nat
  /\ ActorMaxRetries <= MaxJobReschedules
  /\ RequeueAge \in Nat /\ StaleAge \in Nat /\ StuckAge \in Nat
  /\ StuckMaxRetries \in Nat /\ MaxDelay \in Nat \ {0} /\ MaxCrashes \in Nat
  /\ Reserve \in Nat
  /\ Requests \subseteq {"schedule", "cancel", "retry"}

ASSUME SlotsAssumption == IsFiniteSet(Slots)

VARIABLES
  job,     \* the committed rows
  msg,     \* the messages of the queue "agent"
  worker,  \* the executions
  proc,    \* the coroutines of the API server
  crashes  \* crashes so far

vars == <<job, msg, worker, proc, crashes>>

-----------------------------------------------------------------------------
(* Rows, messages and local states *)

Terminal == {"completed", "aborted", "failed", "dispatch_stale"}
Claimable == {"pending", "queued", "enqueue_failed", "scheduled"}
Status == Terminal \cup Claimable \cup {"absent", "running"}

MaxAge == 1 + (IF StaleAge >= StuckAge THEN StaleAge ELSE StuckAge)

\* progress: the payload has a "progress" object; recoveries: its retry_count
Row == [status: Status, age: 0..MaxAge, resume: 0..MaxDelay,
        progress: BOOLEAN, recoveries: 0..StuckMaxRetries]

NoRow == [status |-> "absent", age |-> 0, resume |-> 0,
          progress |-> FALSE, recoveries |-> 0]

\* state "taken": delivered to a worker and not acknowledged yet
Message == [state: {"free", "waiting", "taken"}, job: Jobs \cup {None},
            retries: Nat, max: Nat, due: 0..MaxDelay]

NoMessage == [state |-> "free", job |-> None, retries |-> 0, max |-> 0, due |-> 0]

\* row: the AgentJob object of the execution's session
WorkerState == [pc: {"idle", "run", "stamp", "resched", "ack"}, delay: 0..MaxDelay,
                slot: Slots \cup {None}, job: Jobs \cup {None}, row: Row]

IdleWorker == [pc |-> "idle", delay |-> 0, slot |-> None, job |-> None, row |-> NoRow]

\* row: the AgentJob objects of the coroutine's session; stale, stuck: what a
\* scan selected; requeue, redo: the jobs a loop still has to dispatch
ProcState == [pc: {"idle", "read", "send", "mark", "markFailed", "cancel",
                   "retry", "reconcile", "loop"},
              job: Jobs \cup {None}, row: [Jobs -> Row],
              stale: SUBSET Jobs, stuck: SUBSET Jobs,
              requeue: SUBSET Jobs, redo: SUBSET Jobs]

NoRows == [j \in Jobs |-> NoRow]

IdleProc == [pc |-> "idle", job |-> None, row |-> NoRows,
             stale |-> {}, stuck |-> {}, requeue |-> {}, redo |-> {}]

TypeOK ==
  /\ job \in [Jobs -> Row]
  /\ msg \in [Slots -> Message]
  /\ worker \in [Workers -> WorkerState]
  /\ proc \in [Procs -> ProcState]
  /\ crashes \in 0..MaxCrashes

\* The copy of a row that a session keeps.
Loaded(row) == [row EXCEPT !.age = 0]

\* A commit that changes a row also sets updated_at.
Written(row, status) == [row EXCEPT !.status = status, !.age = 0]

\* Only the status column is written: the payload in the database stays.
WriteStatus(j, status) == job' = [job EXCEPT ![j] = Written(@, status)]

\* Status and payload are written from the session's object.
WriteRow(j, row, status) == job' = [job EXCEPT ![j] = Written(row, status)]

Goto(p, pc) == proc' = [proc EXCEPT ![p].pc = pc]

\* The coroutine has finished one dispatch: a loop goes on to its next job.
DispatchDone(p) ==
  proc' = [proc EXCEPT ![p] = IF @.requeue \cup @.redo = {} THEN IdleProc
                              ELSE [@ EXCEPT !.pc = "loop", !.job = None, !.row = NoRows]]

-----------------------------------------------------------------------------
Init ==
  /\ job = [j \in Jobs |-> NoRow]
  /\ msg = [s \in Slots |-> NoMessage]
  /\ worker = [w \in Workers |-> IdleWorker]
  /\ proc = [p \in Procs |-> IdleProc]
  /\ crashes = 0

-----------------------------------------------------------------------------
(* Requests *)

\* create_job / queue_automation_task_job commit the row as pending; the
\* endpoint then dispatches it.
CreateJob(p, j) ==
  /\ proc[p].pc = "idle" /\ job[j].status = "absent"
  /\ WriteStatus(j, "pending")
  /\ proc' = [proc EXCEPT ![p].pc = "read", ![p].job = j]
  /\ UNCHANGED <<msg, worker, crashes>>

\* create_job with scheduled_at: nothing is dispatched.
ScheduleJob(j) ==
  /\ "schedule" \in Requests /\ job[j].status = "absent"
  /\ WriteStatus(j, "scheduled")
  /\ UNCHANGED <<msg, worker, proc, crashes>>

\* scheduler._tick: the due rows that are still scheduled become pending in
\* one guarded UPDATE, and all of them are dispatched.
PromoteScheduled(p) ==
  /\ proc[p].pc = "idle"
  /\ \E due \in SUBSET {j \in Jobs : job[j].status = "scheduled"} :
       /\ due # {}
       /\ job' = [j \in Jobs |-> IF j \in due THEN Written(job[j], "pending") ELSE job[j]]
       /\ proc' = [proc EXCEPT ![p].pc = "loop", ![p].redo = due]
  /\ UNCHANGED <<msg, worker, crashes>>

CancelRead(p, j) ==
  /\ "cancel" \in Requests /\ proc[p].pc = "idle"
  /\ job[j].status \in {"pending", "queued", "running", "scheduled"}
  /\ proc' = [proc EXCEPT ![p].pc = "cancel", ![p].job = j]
  /\ UNCHANGED <<job, msg, worker, crashes>>

\* Mutant of CancelCommit: a status the enumeration does not have.
CancelCommitMisspelt(p) ==
  /\ proc[p].pc = "cancel"
  /\ WriteStatus(proc[p].job, "cancelled")
  /\ proc' = [proc EXCEPT ![p] = IdleProc]
  /\ UNCHANGED <<msg, worker, crashes>>

CancelCommit(p) ==
  /\ proc[p].pc = "cancel"
  /\ WriteStatus(proc[p].job, "aborted")
  /\ proc' = [proc EXCEPT ![p] = IdleProc]
  /\ UNCHANGED <<msg, worker, crashes>>

RetryRead(p, j) ==
  /\ "retry" \in Requests /\ proc[p].pc = "idle"
  /\ job[j].status \in {"failed", "aborted"}
  /\ proc' = [proc EXCEPT ![p].pc = "retry", ![p].job = j, ![p].row[j] = Loaded(job[j])]
  /\ UNCHANGED <<job, msg, worker, crashes>>

\* The payload loses progress, result and last_error; _resume_at stays.
RetryCommit(p) ==
  /\ proc[p].pc = "retry"
  /\ LET j == proc[p].job
     IN WriteRow(j, [proc[p].row[j] EXCEPT !.progress = FALSE, !.recoveries = 0], "pending")
  /\ proc' = [proc EXCEPT ![p].pc = "read", ![p].row = NoRows]
  /\ UNCHANGED <<msg, worker, crashes>>

-----------------------------------------------------------------------------
(* dispatch_agent_job: read, enqueue, then commit the new status *)

\* The dispatcher refuses a job that is finished, running or parked.
Dispatchable(row) == row.status \in Claimable /\ row.resume = 0

DispatchSkip(p) ==
  /\ proc[p].pc = "read" /\ ~Dispatchable(job[proc[p].job])
  /\ DispatchDone(p)
  /\ UNCHANGED <<job, msg, worker, crashes>>

DispatchRead(p) ==
  /\ proc[p].pc = "read" /\ Dispatchable(job[proc[p].job])
  /\ proc' = [proc EXCEPT ![p].pc = "send", ![p].row[proc[p].job] = Loaded(job[proc[p].job])]
  /\ UNCHANGED <<job, msg, worker, crashes>>

\* Bound: the dispatcher leaves Reserve slots to the successors that the
\* executions send.
Room == Cardinality({s \in Slots : msg[s].state = "free"}) > Reserve

DispatchSend(p) ==
  /\ proc[p].pc = "send" /\ Room
  /\ \E s \in Slots :
       /\ msg[s].state = "free"
       /\ msg' = [msg EXCEPT ![s] = [state |-> "waiting", job |-> proc[p].job, retries |-> 0,
                                     max |-> ActorMaxRetries, due |-> 0]]
  /\ Goto(p, "mark")
  /\ UNCHANGED <<job, worker, crashes>>

DispatchSendFails(p) ==
  /\ proc[p].pc = "send"
  /\ Goto(p, "markFailed")
  /\ UNCHANGED <<job, msg, worker, crashes>>

\* No UPDATE is emitted when the row was read as queued already.
DispatchMark(p) ==
  /\ proc[p].pc = "mark"
  /\ LET j == proc[p].job
     IN IF proc[p].row[j].status = "queued" THEN UNCHANGED job ELSE WriteStatus(j, "queued")
  /\ DispatchDone(p)
  /\ UNCHANGED <<msg, worker, crashes>>

DispatchMarkFailed(p) ==
  /\ proc[p].pc = "markFailed"
  /\ LET j == proc[p].job IN WriteRow(j, proc[p].row[j], "enqueue_failed")
  /\ DispatchDone(p)
  /\ UNCHANGED <<msg, worker, crashes>>

-----------------------------------------------------------------------------
(* reconcile_stale_jobs *)

NeverEnqueued(j) ==
  job[j].status = "pending" /\ job[j].age > RequeueAge /\ job[j].resume = 0

\* Mutant of Stale: the queued jobs forgotten.
StalePendingOnly(j) == job[j].status = "pending" /\ job[j].age > StaleAge /\ job[j].resume = 0

Stale(j) ==
  job[j].status \in {"pending", "queued"} /\ job[j].age > StaleAge /\ job[j].resume = 0

\* Mutant of Stuck: only jobs that checkpointed are looked at.
StuckWithProgress(j) == job[j].status = "running" /\ job[j].age > StuckAge /\ job[j].progress

Stuck(j) == job[j].status = "running" /\ job[j].age > StuckAge

ReconcileScan(p) ==
  /\ proc[p].pc = "idle"
  /\ LET requeue == {j \in Jobs : NeverEnqueued(j)}
         stale == {j \in Jobs : Stale(j)} \ requeue
         stuck == {j \in Jobs : Stuck(j)}
     IN /\ requeue \cup stale \cup stuck # {}
        /\ proc' = [proc EXCEPT
             ![p].pc = "reconcile", ![p].requeue = requeue,
             ![p].stale = stale, ![p].stuck = stuck,
             ![p].row = [j \in Jobs |-> IF j \in stale \cup stuck THEN Loaded(job[j]) ELSE NoRow]]
  /\ UNCHANGED <<job, msg, worker, crashes>>

\* The increment is made in place in the nested progress object, which the new
\* payload shares with the old one: the two compare equal and the payload is
\* not part of the UPDATE, unless there was no progress object before.
Recovered(j, row) ==
  IF row.progress THEN Written(job[j], "pending")
  ELSE Written([row EXCEPT !.progress = TRUE, !.recoveries = 1], "pending")

ReconcileCommit(p) ==
  /\ proc[p].pc = "reconcile"
  /\ LET row == proc[p].row
         exhausted == {j \in proc[p].stuck : row[j].recoveries >= StuckMaxRetries}
         recovered == proc[p].stuck \ exhausted
     IN /\ \E target \in {"dispatch_stale", "failed"} :
             job' = [j \in Jobs |->
                       CASE j \in proc[p].stale -> Written(row[j], target)
                         [] j \in exhausted -> Written(row[j], "failed")
                         [] j \in recovered -> Recovered(j, row[j])
                         [] OTHER -> job[j]]
        /\ proc' = [proc EXCEPT ![p] =
                      IF @.requeue \cup recovered = {} THEN IdleProc
                      ELSE [@ EXCEPT !.pc = "loop", !.row = NoRows, !.stale = {},
                                     !.stuck = {}, !.redo = recovered]]
  /\ UNCHANGED <<msg, worker, crashes>>

\* The pending jobs come first, each with its status read again.
LoopRequeue(p, j) ==
  /\ proc[p].pc = "loop" /\ j \in proc[p].requeue
  /\ LET rest == [proc[p] EXCEPT !.requeue = @ \ {j}]
     IN proc' = [proc EXCEPT ![p] =
          IF job[j].status = "pending" THEN [rest EXCEPT !.pc = "read", !.job = j]
          ELSE IF rest.requeue \cup rest.redo = {} THEN IdleProc ELSE rest]
  /\ UNCHANGED <<job, msg, worker, crashes>>

LoopRedo(p, j) ==
  /\ proc[p].pc = "loop" /\ proc[p].requeue = {} /\ j \in proc[p].redo
  /\ proc' = [proc EXCEPT ![p].pc = "read", ![p].job = j, ![p].redo = @ \ {j}]
  /\ UNCHANGED <<job, msg, worker, crashes>>

-----------------------------------------------------------------------------
(* execute_agent_job *)

Deliverable(s) == msg[s].state = "waiting" /\ msg[s].due = 0

\* A runtime of worker w is at work on job j.
Executes(w, j) == worker[w].pc = "run" /\ worker[w].job = j

\* Mutant of FinalAttempt: an off-by-one.
FinalAttemptOffByOne(m) == m.retries > m.max

FinalAttempt(m) == m.retries >= m.max

\* Mutant of Claim: the row is read and written without the guard.
ClaimUnguarded(w, s) ==
  /\ worker[w].pc = "idle" /\ Deliverable(s)
  /\ LET j == msg[s].job
         claimed == Written(job[j], "running")
     IN /\ job' = [job EXCEPT ![j] = claimed]
        /\ worker' = [worker EXCEPT ![w] = [pc |-> "run", delay |-> 0, slot |-> s,
                                            job |-> j, row |-> claimed]]
  /\ msg' = [msg EXCEPT ![s].state = "taken"]
  /\ UNCHANGED <<proc, crashes>>

\* The atomic claim, and the row loaded after it.
Claim(w, s) ==
  /\ worker[w].pc = "idle" /\ Deliverable(s)
  /\ LET j == msg[s].job
         claimed == Written(job[j], "running")
     IN /\ job[j].status \in Claimable
        /\ job' = [job EXCEPT ![j] = claimed]
        /\ worker' = [worker EXCEPT ![w] = [pc |-> "run", delay |-> 0, slot |-> s,
                                            job |-> j, row |-> claimed]]
  /\ msg' = [msg EXCEPT ![s].state = "taken"]
  /\ UNCHANGED <<proc, crashes>>

\* A message whose job is not claimable is acknowledged without effect.
Refuse(w, s) ==
  /\ worker[w].pc = "idle" /\ Deliverable(s)
  /\ job[msg[s].job].status \notin Claimable
  /\ msg' = [msg EXCEPT ![s] = NoMessage]
  /\ UNCHANGED <<job, worker, proc, crashes>>

\* The worker commits its object with another status; status "running" stands
\* for a commit that leaves the status attribute alone.
WorkerWrites(w, row, status, pc) ==
  /\ job' = [job EXCEPT ![worker[w].job] =
               Written(row, IF status = "running" THEN job[worker[w].job].status ELSE status)]
  /\ worker' = [worker EXCEPT ![w].pc = pc,
                             ![w].row = IF pc = "ack" THEN NoRow ELSE Written(row, status)]

\* A runtime persists a new progress object, without retry_count.
Checkpoint(w) ==
  /\ worker[w].pc = "run"
  /\ WorkerWrites(w, [worker[w].row EXCEPT !.progress = TRUE, !.recoveries = 0], "running", "run")
  /\ UNCHANGED <<msg, proc, crashes>>

Finish(w) ==
  /\ worker[w].pc = "run"
  /\ \E status \in {"completed", "failed"} :
       WorkerWrites(w, worker[w].row, status, "ack")
  /\ UNCHANGED <<msg, proc, crashes>>

\* AgentStopError, or AgentFloodWaitError before the final attempt (a flood on
\* the final attempt is Finish): pending, then _resume_at, then the message.
Park(w) ==
  /\ worker[w].pc = "run"
  /\ WorkerWrites(w, worker[w].row, "pending", "stamp")
  /\ UNCHANGED <<msg, proc, crashes>>

Stamp(w) ==
  /\ worker[w].pc = "stamp"
  /\ \E delay \in 1..MaxDelay :
       LET row == [worker[w].row EXCEPT !.resume = delay]
       IN /\ job' = [job EXCEPT ![worker[w].job] = Written(row, job[worker[w].job].status)]
          /\ worker' = [worker EXCEPT ![w].row = row, ![w].delay = delay, ![w].pc = "resched"]
  /\ UNCHANGED <<msg, proc, crashes>>

CanReschedule(m) == ~FinalAttempt(m) /\ m.retries < MaxJobReschedules

\* Mutant of Reschedule: the exception is raised on after the successor was
\* sent, so Dramatiq retries the original as well.
RescheduleAndRaise(w) ==
  /\ worker[w].pc = "resched" /\ CanReschedule(msg[worker[w].slot])
  /\ \E s \in Slots :
       /\ msg[s].state = "free"
       /\ msg' = [msg EXCEPT
             ![s] = [state |-> "waiting", job |-> worker[w].job,
                     retries |-> msg[worker[w].slot].retries + 1,
                     max |-> MaxJobReschedules, due |-> worker[w].delay],
             ![worker[w].slot].state = "waiting", ![worker[w].slot].retries = @ + 1]
  /\ worker' = [worker EXCEPT ![w] = IdleWorker]
  /\ UNCHANGED <<job, proc, crashes>>

Reschedule(w) ==
  /\ worker[w].pc = "resched" /\ CanReschedule(msg[worker[w].slot])
  /\ \E s \in Slots :
       /\ msg[s].state = "free"
       /\ msg' = [msg EXCEPT ![s] = [state |-> "waiting", job |-> worker[w].job,
                                     retries |-> msg[worker[w].slot].retries + 1,
                                     max |-> MaxJobReschedules, due |-> worker[w].delay]]
  /\ worker' = [worker EXCEPT ![w].pc = "ack", ![w].row = NoRow]
  /\ UNCHANGED <<job, proc, crashes>>

RescheduleRefused(w) ==
  /\ worker[w].pc = "resched" /\ ~CanReschedule(msg[worker[w].slot])
  /\ WorkerWrites(w, worker[w].row, "failed", "ack")
  /\ UNCHANGED <<msg, proc, crashes>>

\* ConnectionError or another exception before the final attempt: the row is
\* left running and Dramatiq delivers the message again after a backoff.
Raise(w) ==
  /\ worker[w].pc = "run" /\ ~FinalAttempt(msg[worker[w].slot])
  /\ LET s == worker[w].slot
     IN msg' = [msg EXCEPT ![s].state = "waiting", ![s].retries = @ + 1, ![s].due = 1]
  /\ worker' = [worker EXCEPT ![w] = IdleWorker]
  /\ UNCHANGED <<job, proc, crashes>>

Acknowledge(w) ==
  /\ worker[w].pc = "ack"
  /\ msg' = [msg EXCEPT ![worker[w].slot] = NoMessage]
  /\ worker' = [worker EXCEPT ![w] = IdleWorker]
  /\ UNCHANGED <<job, proc, crashes>>

-----------------------------------------------------------------------------
(* Crashes and time *)

\* The broker delivers the messages of a dead worker again.
WorkerCrash(w) ==
  /\ worker[w].pc # "idle" /\ crashes < MaxCrashes
  /\ crashes' = crashes + 1
  /\ msg' = [msg EXCEPT ![worker[w].slot].state = "waiting"]
  /\ worker' = [worker EXCEPT ![w] = IdleWorker]
  /\ UNCHANGED <<job, proc>>

ProcCrash(p) ==
  /\ proc[p].pc # "idle" /\ crashes < MaxCrashes
  /\ crashes' = crashes + 1
  /\ proc' = [proc EXCEPT ![p] = IdleProc]
  /\ UNCHANGED <<job, msg, worker>>

Less(n) == IF n = 0 THEN 0 ELSE n - 1

Later(row) == [row EXCEPT !.age = IF @ < MaxAge THEN @ + 1 ELSE @, !.resume = Less(@)]

Tick ==
  /\ job' = [j \in Jobs |-> IF job[j].status = "absent" THEN job[j] ELSE Later(job[j])]
  /\ msg' = [s \in Slots |-> [msg[s] EXCEPT !.due = Less(@)]]
  /\ worker' = [w \in Workers |-> [worker[w] EXCEPT !.row.resume = Less(@)]]
  /\ proc' = [p \in Procs |->
       [proc[p] EXCEPT !.row = [j \in Jobs |-> [proc[p].row[j] EXCEPT !.resume = Less(@)]]]]
  /\ UNCHANGED crashes

-----------------------------------------------------------------------------
Dispatching(p) ==
  \/ DispatchSkip(p) \/ DispatchRead(p) \/ DispatchSend(p)
  \/ DispatchMark(p) \/ DispatchMarkFailed(p)

Reconciling(p) ==
  \/ ReconcileScan(p) \/ ReconcileCommit(p)
  \/ \E j \in Jobs : LoopRequeue(p, j) \/ LoopRedo(p, j)

Requesting(p) ==
  \/ \E j \in Jobs : CreateJob(p, j) \/ CancelRead(p, j) \/ RetryRead(p, j)
  \/ CancelCommit(p) \/ RetryCommit(p) \/ PromoteScheduled(p)

Executing(w) ==
  \/ Finish(w) \/ Park(w) \/ Stamp(w) \/ Reschedule(w) \/ RescheduleRefused(w)
  \/ Raise(w) \/ Acknowledge(w)

Receiving(w) == \E s \in Slots : Claim(w, s) \/ Refuse(w, s)

Next ==
  \/ \E j \in Jobs : ScheduleJob(j)
  \/ \E p \in Procs : \/ Requesting(p) \/ Dispatching(p) \/ DispatchSendFails(p)
                      \/ Reconciling(p) \/ ProcCrash(p)
  \/ \E w \in Workers : Receiving(w) \/ Executing(w) \/ Checkpoint(w) \/ WorkerCrash(w)
  \/ Tick

Spec == Init /\ [][Next]_vars

(***************************************************************************)
(* Fairness.  Time passes; the loops of the API server and the worker      *)
(* pools run (FastAPI lifespan tasks, Dramatiq threads), an execution ends *)
(* at the latest at the actor's time_limit, and a Redis queue hands out    *)
(* its messages in order, so none of them is passed over for ever.  A      *)
(* handler that has begun ends.  No fairness for requests, for crashes,    *)
(* for Redis failing or recovering.                                        *)
(***************************************************************************)
Fairness ==
  /\ WF_vars(Tick)
  /\ \A p \in Procs : /\ WF_vars(Dispatching(p)) /\ WF_vars(Reconciling(p))
                      /\ WF_vars(CancelCommit(p) \/ RetryCommit(p))
  /\ \A w \in Workers : WF_vars(Executing(w))
  /\ \A s \in Slots : SF_vars(\E w \in Workers : Claim(w, s) \/ Refuse(w, s))

FairSpec == Spec /\ Fairness

-----------------------------------------------------------------------------
(* Safety *)

\* The poison-queue bug: whatever mixture of parking, raising and redelivery a
\* message goes through, its retry counter never passes the ceiling it
\* carries, and that ceiling is the actor's or MAX_JOB_RESCHEDULES
\* (worker.py 478-504 and 647-650).
RetriesBounded ==
  \A s \in Slots :
    /\ msg[s].retries <= msg[s].max
    /\ msg[s].state # "free" => msg[s].max \in {ActorMaxRetries, MaxJobReschedules}

\* A pending job with a future _resume_at is left alone by the reconcile loop
\* and by the dispatcher because "a delayed message is already enqueued"
\* (dispatch.py 30-33 and 79-81): such a job does have a message that will
\* be delivered, or an execution about to send one.
ParkedHasMessage ==
  \A j \in Jobs :
    job[j].status = "pending" /\ job[j].resume > 0
      => \E s \in Slots : msg[s].state # "free" /\ msg[s].job = j

\* At most one worker executes a job at a time: the promise of the atomic
\* claim (worker.py 663-667).
AtMostOneExecutor ==
  \A j \in Jobs : \A w, v \in Workers : Executes(w, j) /\ Executes(v, j) => w = v

\* A job that reached a terminal state leaves it only when a user retries it
\* ("never re-dispatch a job that has reached a terminal state", dispatch.py
\* 213-215).
Retried(j) == \E p \in Procs : proc[p].pc = "retry" /\ proc[p].job = j /\ proc'[p].pc = "read"

TerminalUntilRetried ==
  [][\A j \in Jobs : job[j].status \in Terminal /\ job'[j].status \notin Terminal
                       => Retried(j)]_vars

\* When Dramatiq delivers a raised job again and attempts are left, the job is
\* executed again ("this is retryable, but only up to a hard boundary",
\* worker.py 1166-1168): the delivery is not refused while nothing executes it.
RetryIsExecuted ==
  [][\A s \in Slots :
       (/\ Deliverable(s) /\ msg[s].retries > 0 /\ msg'[s].state = "free"
        /\ job[msg[s].job].status = "running")
       => \E w \in Workers : worker[w].pc # "idle" /\ worker[w].job = msg[s].job]_vars

\* Each time the reconcile loop recovers a stuck job it consumes one of the
\* job's stuck_job_max_retries: "set status to pending, increment retry_count"
\* (specs/008-agent-job-resilience/tasks.md 95; spec.md 80).
RecoveryIsCounted ==
  [][\A p \in Procs : proc[p].pc = "reconcile" /\ proc'[p].pc = "loop" =>
       \A j \in proc'[p].redo : job'[j].recoveries > proc[p].row[j].recoveries]_vars

-----------------------------------------------------------------------------
(* Liveness *)

\* No job is stranded before it is executed: a pending or queued job
\* eventually runs, is parked again, or is given up.
WaitingJobMoves ==
  \A j \in Jobs : \A status \in {"pending", "queued"} :
    (job[j].status = status) ~> (job[j].status # status)

\* A running job whose worker died, or whose exception left it running, is
\* eventually taken out of that state by the reconcile loop.
AbandonedJobRecovers ==
  \A j \in Jobs :
    (job[j].status = "running" /\ ~\E w \in Workers : Executes(w, j))
      ~> (job[j].status # "running")

\* reconcile_stale_jobs "also re-dispatches PENDING jobs that were never
\* enqueued (e.g. dispatch ran while the worker/redis was down)"
\* (dispatch.py 60-61): a job whose enqueue failed does not stay so.
EnqueueFailedRecovers ==
  \A j \in Jobs : (job[j].status = "enqueue_failed") ~> (job[j].status # "enqueue_failed")
=============================================================================
