------------------------ MODULE AgentJobQueueProofs ------------------------
(***************************************************************************)
(* Theorems about AgentJobQueue and AgentJobQueueHistory for every value   *)
(* of the constants: type correctness, the ceiling on retries, the         *)
(* exclusive claim, and the bound on the messages of a job.                *)
(***************************************************************************)
EXTENDS AgentJobQueueHistory, FiniteSetTheorems, TLAPS

(***************************************************************************)
(* Rows and local states built by the actions have the types of TypeOK.    *)
(***************************************************************************)
LEMMA MaxAgeType == MaxAge \in Nat /\ MaxDelay \in Nat /\ MaxDelay >= 1
  BY ConstantsAssumption DEF MaxAge

LEMMA NoRowType == NoRow \in Row
  BY MaxAgeType, ConstantsAssumption DEF NoRow, Row, Status

LEMMA WrittenType ==
  ASSUME NEW row \in Row, NEW status \in Status
  PROVE  Written(row, status) \in Row
<1>1. 0 \in 0..MaxAge
  BY MaxAgeType
<1> QED
  BY <1>1 DEF Written, Row

LEMMA LoadedType ==
  ASSUME NEW row \in Row
  PROVE  Loaded(row) \in Row
  BY MaxAgeType DEF Loaded, Row

LEMMA LessType ==
  ASSUME NEW n \in 0..MaxDelay
  PROVE  Less(n) \in 0..MaxDelay
  BY MaxAgeType DEF Less

LEMMA LaterType ==
  ASSUME NEW row \in Row
  PROVE  Later(row) \in Row
<1>1. row.age \in 0..MaxAge /\ row.resume \in 0..MaxDelay
  BY DEF Row
<1>2. (IF row.age < MaxAge THEN row.age + 1 ELSE row.age) \in 0..MaxAge
  BY <1>1, MaxAgeType
<1>3. Less(row.resume) \in 0..MaxDelay
  BY <1>1, LessType
<1> QED
  BY <1>2, <1>3 DEF Later, Row

LEMMA SmallerResumeType ==
  ASSUME NEW row \in Row
  PROVE  [row EXCEPT !.resume = Less(@)] \in Row
<1>1. Less(row.resume) \in 0..MaxDelay
  BY LessType DEF Row
<1> QED
  BY <1>1 DEF Row

LEMMA NoMessageType == NoMessage \in Message
  BY MaxAgeType DEF NoMessage, Message

LEMMA IdleWorkerType == IdleWorker \in WorkerState
  BY MaxAgeType, NoRowType DEF IdleWorker, WorkerState

LEMMA NoRowsType == NoRows \in [Jobs -> Row]
  BY NoRowType DEF NoRows

LEMMA IdleProcType == IdleProc \in ProcState
  BY NoRowsType DEF IdleProc, ProcState

-----------------------------------------------------------------------------
(* Type correctness *)

(***************************************************************************)
(* TypeOK alone is not inductive: an execution writes the row and raises   *)
(* the retry counter of the message it took, so it has to have one.        *)
(* Linked says who refers to what: an execution owns one taken message,    *)
(* shared with no other execution and about its job, a message is about a  *)
(* job, and a coroutine in the middle of a handler knows its job.          *)
(***************************************************************************)
OwnsMessage ==
  \A w \in Workers : worker[w].pc # "idle" =>
    /\ worker[w].slot \in Slots
    /\ worker[w].job \in Jobs
    /\ msg[worker[w].slot].state = "taken"
    /\ msg[worker[w].slot].job = worker[w].job

OwnsAlone ==
  \A w, v \in Workers :
    worker[w].pc # "idle" /\ worker[v].pc # "idle" /\ worker[w].slot = worker[v].slot => w = v

AboutJob == \A s \in Slots : msg[s].state # "free" => msg[s].job \in Jobs

KnowsJob ==
  \A p \in Procs : proc[p].pc \notin {"idle", "reconcile", "loop"} => proc[p].job \in Jobs

Linked == OwnsMessage /\ OwnsAlone /\ AboutJob /\ KnowsJob

LEMMA WriteStatusType ==
  ASSUME TypeOK, NEW j \in Jobs, NEW status \in Status, WriteStatus(j, status)
  PROVE  job' \in [Jobs -> Row]
<1>1. Written(job[j], status) \in Row
  BY WrittenType DEF TypeOK
<1> QED
  BY <1>1 DEF WriteStatus, TypeOK

LEMMA WriteRowType ==
  ASSUME TypeOK, NEW j \in Jobs, NEW row \in Row, NEW status \in Status, WriteRow(j, row, status)
  PROVE  job' \in [Jobs -> Row]
<1>1. Written(row, status) \in Row
  BY WrittenType
<1> QED
  BY <1>1 DEF WriteRow, TypeOK

LEMMA GotoType ==
  ASSUME TypeOK, NEW p \in Procs, NEW pc \in {"send", "mark", "markFailed"}, Goto(p, pc)
  PROVE  proc' \in [Procs -> ProcState]
<1>1. proc[p] \in ProcState
  BY DEF TypeOK
<1>2. [proc[p] EXCEPT !.pc = pc] \in ProcState
  BY <1>1 DEF ProcState
<1>3. proc' = [proc EXCEPT ![p] = [proc[p] EXCEPT !.pc = pc]]
  BY DEF Goto
<1> QED
  BY <1>2, <1>3 DEF TypeOK

LEMMA DispatchDoneType ==
  ASSUME TypeOK, NEW p \in Procs, DispatchDone(p)
  PROVE  proc' \in [Procs -> ProcState]
<1>1. [proc[p] EXCEPT !.pc = "loop", !.job = None, !.row = NoRows] \in ProcState
  BY NoRowsType DEF TypeOK, ProcState
<1> QED
  BY <1>1, IdleProcType, SMTT(30) DEF DispatchDone, TypeOK

LEMMA WorkerWritesType ==
  ASSUME TypeOK, NEW w \in Workers, worker[w].job \in Jobs, NEW row \in Row,
         NEW status \in Status, NEW pc \in {"run", "stamp", "resched", "ack"},
         WorkerWrites(w, row, status, pc)
  PROVE  job' \in [Jobs -> Row] /\ worker' \in [Workers -> WorkerState]
<1>1. job[worker[w].job].status \in Status
  BY DEF TypeOK, Row
<1>2. Written(row, IF status = "running" THEN job[worker[w].job].status ELSE status) \in Row
  BY <1>1, WrittenType
<1>3. job' \in [Jobs -> Row]
  BY <1>2 DEF WorkerWrites, TypeOK
<1>4. (IF pc = "ack" THEN NoRow ELSE Written(row, status)) \in Row
  BY NoRowType, WrittenType
<1> DEFINE new == [worker[w] EXCEPT !.pc = pc, !.row = IF pc = "ack" THEN NoRow ELSE Written(row, status)]
<1>5. new \in WorkerState
  <2>1. worker[w] \in WorkerState
    BY DEF TypeOK
  <2> QED
    BY <1>4, <2>1 DEF WorkerState
<1>6. worker' = [worker EXCEPT ![w] = new]
  BY DEF WorkerWrites, TypeOK
<1>7. worker' \in [Workers -> WorkerState]
  BY <1>5, <1>6 DEF TypeOK
<1> QED
  BY <1>3, <1>7

(***************************************************************************)
(* The coroutines of the API server keep the types.                        *)
(***************************************************************************)
LEMMA RequestingType ==
  ASSUME TypeOK, Linked, NEW p \in Procs, Requesting(p)
  PROVE  TypeOK'
<1>1. ASSUME NEW j \in Jobs, CreateJob(p, j) PROVE TypeOK'
  <2>1. job' \in [Jobs -> Row]
    BY <1>1, WriteStatusType DEF CreateJob, Status, Claimable
  <2>2. [proc[p] EXCEPT !.pc = "read", !.job = j] \in ProcState
    BY DEF TypeOK, ProcState
  <2>3. proc' = [proc EXCEPT ![p] = [proc[p] EXCEPT !.pc = "read", !.job = j]]
    BY <1>1 DEF CreateJob, TypeOK
  <2> QED
    BY <1>1, <2>1, <2>2, <2>3 DEF CreateJob, TypeOK
<1>2. ASSUME NEW j \in Jobs, CancelRead(p, j) PROVE TypeOK'
  <2>1. [proc[p] EXCEPT !.pc = "cancel", !.job = j] \in ProcState
    BY DEF TypeOK, ProcState
  <2>2. proc' = [proc EXCEPT ![p] = [proc[p] EXCEPT !.pc = "cancel", !.job = j]]
    BY <1>2 DEF CancelRead, TypeOK
  <2> QED
    BY <1>2, <2>1, <2>2 DEF CancelRead, TypeOK
<1>3. ASSUME NEW j \in Jobs, RetryRead(p, j) PROVE TypeOK'
  <2>1. Loaded(job[j]) \in Row
    BY LoadedType DEF TypeOK
  <2>2. [proc[p].row EXCEPT ![j] = Loaded(job[j])] \in [Jobs -> Row]
    BY <2>1 DEF TypeOK, ProcState
  <2> DEFINE new == [proc[p] EXCEPT !.pc = "retry", !.job = j,
                                    !.row = [proc[p].row EXCEPT ![j] = Loaded(job[j])]]
  <2> HIDE DEF new
  <2>3. new \in ProcState
    <3>1. proc[p] \in ProcState
      BY DEF TypeOK
    <3> QED
      BY <2>2, <3>1 DEF new, ProcState
  <2>4. proc' = [proc EXCEPT ![p] = new]
    BY <1>3, ZenonT(30) DEF new, RetryRead, TypeOK, ProcState
  <2> QED
    BY <1>3, <2>3, <2>4, ZenonT(30) DEF RetryRead, TypeOK
<1>4. ASSUME CancelCommit(p) PROVE TypeOK'
  <2>1. proc[p].job \in Jobs
    BY <1>4 DEF CancelCommit, Linked, KnowsJob
  <2>2. job' \in [Jobs -> Row]
    BY <1>4, <2>1, WriteStatusType DEF CancelCommit, Status, Terminal
  <2> QED
    BY <1>4, <2>2, IdleProcType DEF CancelCommit, TypeOK
<1>5. ASSUME RetryCommit(p) PROVE TypeOK'
  <2>1. proc[p].job \in Jobs
    BY <1>5 DEF RetryCommit, Linked, KnowsJob
  <2>2. proc[p].row[proc[p].job] \in Row
    BY <2>1 DEF TypeOK, ProcState
  <2>3. 0 \in 0..StuckMaxRetries
    BY ConstantsAssumption
  <2>4. [proc[p].row[proc[p].job] EXCEPT !.progress = FALSE, !.recoveries = 0] \in Row
    BY <2>2, <2>3 DEF Row
  <2>5. job' \in [Jobs -> Row]
    BY <1>5, <2>1, <2>4, WriteRowType DEF RetryCommit, Status, Claimable
  <2>6. [proc[p] EXCEPT !.pc = "read", !.row = NoRows] \in ProcState
    BY NoRowsType, ZenonT(30) DEF TypeOK, ProcState
  <2>7. proc' = [proc EXCEPT ![p] = [proc[p] EXCEPT !.pc = "read", !.row = NoRows]]
    BY <1>5 DEF RetryCommit, TypeOK
  <2> QED
    BY <1>5, <2>5, <2>6, <2>7 DEF RetryCommit, TypeOK
<1>6. ASSUME PromoteScheduled(p) PROVE TypeOK'
  <2>1. PICK due \in SUBSET Jobs :
          /\ job' = [j \in Jobs |-> IF j \in due THEN Written(job[j], "pending") ELSE job[j]]
          /\ proc' = [proc EXCEPT ![p].pc = "loop", ![p].redo = due]
    BY <1>6 DEF PromoteScheduled
  <2>2. \A j \in Jobs : Written(job[j], "pending") \in Row
    BY WrittenType DEF TypeOK, Status, Claimable
  <2>3. job' \in [Jobs -> Row]
    BY <2>1, <2>2 DEF TypeOK
  <2>4. [proc[p] EXCEPT !.pc = "loop", !.redo = due] \in ProcState
    BY DEF TypeOK, ProcState
  <2>5. proc' = [proc EXCEPT ![p] = [proc[p] EXCEPT !.pc = "loop", !.redo = due]]
    BY <2>1 DEF TypeOK
  <2> QED
    BY <1>6, <2>3, <2>4, <2>5 DEF PromoteScheduled, TypeOK
<1> QED
  BY <1>1, <1>2, <1>3, <1>4, <1>5, <1>6 DEF Requesting

LEMMA DispatchingType ==
  ASSUME TypeOK, Linked, NEW p \in Procs, Dispatching(p) \/ DispatchSendFails(p)
  PROVE  TypeOK'
<1>0. 0 \in 0..MaxDelay
  BY MaxAgeType
<1>1. CASE DispatchSkip(p)
  BY <1>1, DispatchDoneType DEF DispatchSkip, TypeOK
<1>2. CASE DispatchRead(p)
  <2>1. proc[p].job \in Jobs
    BY <1>2 DEF DispatchRead, Linked, KnowsJob
  <2> DEFINE rows == [proc[p].row EXCEPT ![proc[p].job] = Loaded(job[proc[p].job])]
             new == [proc[p] EXCEPT !.pc = "send", !.row = rows]
  <2>2. Loaded(job[proc[p].job]) \in Row
    BY <2>1, LoadedType DEF TypeOK
  <2>3. rows \in [Jobs -> Row]
    BY <2>2 DEF TypeOK, ProcState
  <2> HIDE DEF rows
  <2>4. new \in ProcState
    <3>1. proc[p] \in ProcState
      BY DEF TypeOK
    <3> QED
      BY <2>3, <3>1 DEF ProcState
  <2>5. proc' = [proc EXCEPT ![p] = new]
    BY <1>2 DEF rows, DispatchRead, TypeOK, ProcState
  <2> QED
    BY <1>2, <2>4, <2>5 DEF DispatchRead, TypeOK
<1>3. CASE DispatchSend(p)
  <2>1. [state |-> "waiting", job |-> proc[p].job, retries |-> 0,
         max |-> ActorMaxRetries, due |-> 0] \in Message
    BY <1>0, ConstantsAssumption DEF Message, TypeOK, ProcState
  <2>2. msg' \in [Slots -> Message]
    BY <1>3, <2>1 DEF DispatchSend, TypeOK
  <2> QED
    BY <1>3, <2>2, GotoType DEF DispatchSend, TypeOK
<1>4. CASE DispatchMark(p)
  <2>1. proc[p].job \in Jobs
    BY <1>4 DEF DispatchMark, Linked, KnowsJob
  <2>2. job' \in [Jobs -> Row]
    BY <1>4, <2>1, WriteStatusType DEF DispatchMark, Status, Claimable, TypeOK
  <2> QED
    BY <1>4, <2>2, DispatchDoneType DEF DispatchMark, TypeOK
<1>5. CASE DispatchMarkFailed(p)
  <2>1. proc[p].job \in Jobs
    BY <1>5 DEF DispatchMarkFailed, Linked, KnowsJob
  <2>2. proc[p].row[proc[p].job] \in Row
    BY <2>1 DEF TypeOK, ProcState
  <2>3. job' \in [Jobs -> Row]
    BY <1>5, <2>1, <2>2, WriteRowType DEF DispatchMarkFailed, Status, Claimable
  <2> QED
    BY <1>5, <2>3, DispatchDoneType DEF DispatchMarkFailed, TypeOK
<1>6. CASE DispatchSendFails(p)
  BY <1>6, GotoType DEF DispatchSendFails, TypeOK
<1> QED
  BY <1>1, <1>2, <1>3, <1>4, <1>5, <1>6 DEF Dispatching

LEMMA ReconcilingType ==
  ASSUME TypeOK, NEW p \in Procs, Reconciling(p)
  PROVE  TypeOK'
<1>0. proc[p] \in ProcState /\ proc[p].row \in [Jobs -> Row]
  BY DEF TypeOK, ProcState
<1>1. CASE ReconcileScan(p)
  <2> DEFINE requeue == {j \in Jobs : NeverEnqueued(j)}
             stale == {j \in Jobs : Stale(j)} \ requeue
             stuck == {j \in Jobs : Stuck(j)}
             rows == [j \in Jobs |-> IF j \in stale \cup stuck THEN Loaded(job[j]) ELSE NoRow]
             new == [proc[p] EXCEPT !.pc = "reconcile", !.requeue = requeue,
                                    !.stale = stale, !.stuck = stuck, !.row = rows]
  <2>1. rows \in [Jobs -> Row]
    BY LoadedType, NoRowType DEF TypeOK
  <2>2. requeue \in SUBSET Jobs /\ stale \in SUBSET Jobs /\ stuck \in SUBSET Jobs
    OBVIOUS
  <2>3. proc' = [proc EXCEPT ![p] = new]
    BY <1>1 DEF ReconcileScan, TypeOK
  <2> HIDE DEF rows, requeue, stale, stuck
  <2>4. new \in ProcState
    BY <1>0, <2>1, <2>2 DEF ProcState
  <2> HIDE DEF new
  <2>5. proc' \in [Procs -> ProcState]
    BY <2>3, <2>4 DEF TypeOK
  <2>6. UNCHANGED <<job, msg, worker, crashes>>
    BY <1>1 DEF ReconcileScan
  <2> QED
    BY <2>5, <2>6 DEF TypeOK
<1>2. CASE ReconcileCommit(p)
  <2> DEFINE row == proc[p].row
             exhausted == {j \in proc[p].stuck : row[j].recoveries >= StuckMaxRetries}
             recovered == proc[p].stuck \ exhausted
             new == [proc[p] EXCEPT !.pc = "loop", !.row = NoRows, !.stale = {},
                                    !.stuck = {}, !.redo = recovered]
  <2>1. PICK target \in {"dispatch_stale", "failed"} :
          job' = [j \in Jobs |->
                    CASE j \in proc[p].stale -> Written(row[j], target)
                      [] j \in exhausted -> Written(row[j], "failed")
                      [] j \in recovered -> Recovered(j, row[j])
                      [] OTHER -> job[j]]
    BY <1>2 DEF ReconcileCommit
  <2>2. \A j \in Jobs : Written(row[j], target) \in Row /\ Written(row[j], "failed") \in Row
    BY <1>0, WrittenType DEF Status, Terminal
  <2>3. ASSUME NEW j \in Jobs, row[j].recoveries < StuckMaxRetries
        PROVE  Recovered(j, row[j]) \in Row
    <3>1. row[j] \in Row /\ row[j].recoveries \in 0..StuckMaxRetries
      BY <1>0 DEF Row
    <3>2. 1 \in 0..StuckMaxRetries
      BY <2>3, <3>1, ConstantsAssumption
    <3>3. [row[j] EXCEPT !.progress = TRUE, !.recoveries = 1] \in Row
      BY <3>1, <3>2 DEF Row
    <3>4. Written([row[j] EXCEPT !.progress = TRUE, !.recoveries = 1], "pending") \in Row
      BY <3>3, WrittenType DEF Status, Claimable
    <3>5. Written(job[j], "pending") \in Row
      BY WrittenType DEF Status, Claimable, TypeOK
    <3> QED
      BY <3>4, <3>5 DEF Recovered
  <2>4. ASSUME NEW j \in recovered PROVE j \in Jobs /\ row[j].recoveries < StuckMaxRetries
    <3>1. j \in Jobs /\ ~(row[j].recoveries >= StuckMaxRetries)
      BY <1>0 DEF ProcState
    <3>2. row[j].recoveries \in Int /\ StuckMaxRetries \in Int
      BY <1>0, <3>1, ConstantsAssumption DEF Row
    <3> QED
      BY <3>1, <3>2
  <2>5. \A j \in recovered : Recovered(j, row[j]) \in Row
    BY <2>3, <2>4
  <2>6. recovered \in SUBSET Jobs
    BY <2>4
  <2> HIDE DEF recovered, exhausted, row
  <2>7. job' \in [Jobs -> Row]
    BY <2>1, <2>2, <2>5 DEF TypeOK
  <2>8. new \in ProcState
    BY <1>0, <2>6, NoRowsType DEF ProcState
  <2>9. proc' = [proc EXCEPT ![p] = IF proc[p].requeue \cup recovered = {} THEN IdleProc ELSE new]
    BY <1>2 DEF ReconcileCommit, recovered, exhausted, row
  <2> QED
    BY <1>2, <2>7, <2>8, <2>9, IdleProcType DEF ReconcileCommit, TypeOK
<1>3. ASSUME NEW j \in Jobs, LoopRequeue(p, j) PROVE TypeOK'
  <2> DEFINE rest == [proc[p] EXCEPT !.requeue = proc[p].requeue \ {j}]
             new == IF job[j].status = "pending" THEN [rest EXCEPT !.pc = "read", !.job = j]
                    ELSE IF rest.requeue \cup rest.redo = {} THEN IdleProc ELSE rest
  <2>1. rest \in ProcState
    BY <1>0 DEF ProcState
  <2>2. proc' = [proc EXCEPT ![p] = new]
    BY <1>3 DEF LoopRequeue
  <2> HIDE DEF rest
  <2>3. [rest EXCEPT !.pc = "read", !.job = j] \in ProcState
    BY <2>1 DEF ProcState
  <2>4. new \in ProcState
    BY <2>1, <2>3, IdleProcType
  <2> HIDE DEF new
  <2> QED
    BY <1>3, <2>2, <2>4 DEF LoopRequeue, TypeOK
<1>4. ASSUME NEW j \in Jobs, LoopRedo(p, j) PROVE TypeOK'
  <2>1. [proc[p] EXCEPT !.pc = "read", !.job = j, !.redo = @ \ {j}] \in ProcState
    BY <1>0 DEF ProcState
  <2>2. proc' = [proc EXCEPT ![p] = [proc[p] EXCEPT !.pc = "read", !.job = j, !.redo = @ \ {j}]]
    BY <1>4 DEF LoopRedo, TypeOK
  <2> QED
    BY <1>4, <2>1, <2>2 DEF LoopRedo, TypeOK
<1> QED
  BY <1>1, <1>2, <1>3, <1>4 DEF Reconciling

(***************************************************************************)
(* The executions and the passing of time keep the types.                  *)
(***************************************************************************)
LEMMA ReceivingType ==
  ASSUME TypeOK, Linked, NEW w \in Workers, Receiving(w)
  PROVE  TypeOK'
<1>1. PICK s \in Slots : Claim(w, s) \/ Refuse(w, s)
  BY DEF Receiving
<1>2. CASE Claim(w, s)
  <2> DEFINE j == msg[s].job
             claimed == Written(job[j], "running")
             new == [pc |-> "run", delay |-> 0, slot |-> s, job |-> j, row |-> claimed]
  <2>1. j \in Jobs
    BY <1>2 DEF Claim, Deliverable, Linked, AboutJob
  <2>2. claimed \in Row
    BY <2>1, WrittenType DEF TypeOK, Status
  <2>3. new \in WorkerState
    BY <2>1, <2>2, MaxAgeType DEF WorkerState
  <2>4. job' = [job EXCEPT ![j] = claimed] /\ worker' = [worker EXCEPT ![w] = new]
    BY <1>2 DEF Claim
  <2>5. [msg[s] EXCEPT !.state = "taken"] \in Message
    BY DEF TypeOK, Message
  <2>6. msg' = [msg EXCEPT ![s] = [msg[s] EXCEPT !.state = "taken"]]
    BY <1>2 DEF Claim
  <2>7. UNCHANGED <<proc, crashes>>
    BY <1>2 DEF Claim
  <2> HIDE DEF claimed, new
  <2> QED
    BY <2>2, <2>3, <2>4, <2>5, <2>6, <2>7 DEF TypeOK
<1>3. CASE Refuse(w, s)
  BY <1>3, NoMessageType DEF Refuse, TypeOK
<1> QED
  BY <1>1, <1>2, <1>3

LEMMA ExecutingType ==
  ASSUME TypeOK, Linked, NEW w \in Workers, Executing(w) \/ Checkpoint(w)
  PROVE  TypeOK'
<1>0. worker[w] \in WorkerState /\ worker[w].row \in Row
  BY DEF TypeOK, WorkerState
<1>1. worker[w].pc # "idle" => worker[w].job \in Jobs /\ worker[w].slot \in Slots
  BY DEF Linked, OwnsMessage
<1>2. CASE Checkpoint(w)
  <2>1. 0 \in 0..StuckMaxRetries
    BY ConstantsAssumption
  <2>2. [worker[w].row EXCEPT !.progress = TRUE, !.recoveries = 0] \in Row
    BY <1>0, <2>1 DEF Row
  <2> QED
    BY <1>1, <1>2, <2>2, WorkerWritesType DEF Checkpoint, Status, TypeOK
<1>3. CASE Finish(w)
  BY <1>0, <1>1, <1>3, WorkerWritesType DEF Finish, Status, Terminal, TypeOK
<1>4. CASE Park(w)
  BY <1>0, <1>1, <1>4, WorkerWritesType DEF Park, Status, Claimable, TypeOK
<1>5. CASE Stamp(w)
  <2> DEFINE j == worker[w].job
  <2>1. PICK delay \in 1..MaxDelay :
          /\ job' = [job EXCEPT ![j] = Written([worker[w].row EXCEPT !.resume = delay], job[j].status)]
          /\ worker' = [worker EXCEPT ![w].row = [worker[w].row EXCEPT !.resume = delay],
                                      ![w].delay = delay, ![w].pc = "resched"]
    BY <1>5 DEF Stamp
  <2> DEFINE row == [worker[w].row EXCEPT !.resume = delay]
             new == [worker[w] EXCEPT !.row = row, !.delay = delay, !.pc = "resched"]
  <2>2. delay \in 0..MaxDelay
    BY MaxAgeType
  <2>3. row \in Row
    BY <1>0, <2>2 DEF Row
  <2>4. Written(row, job[j].status) \in Row
    BY <1>1, <1>5, <2>3, WrittenType DEF Stamp, TypeOK, Row
  <2>5. job' = [job EXCEPT ![j] = Written(row, job[j].status)]
    BY <2>1
  <2>6. worker' = [worker EXCEPT ![w] = new]
    BY <2>1 DEF TypeOK
  <2> HIDE DEF row
  <2>7. new \in WorkerState
    BY <1>0, <2>2, <2>3 DEF WorkerState
  <2> HIDE DEF new
  <2> QED
    BY <1>5, <2>4, <2>5, <2>6, <2>7 DEF Stamp, TypeOK
<1>6. CASE Reschedule(w)
  <2> DEFINE new == [state |-> "waiting", job |-> worker[w].job,
                     retries |-> msg[worker[w].slot].retries + 1,
                     max |-> MaxJobReschedules, due |-> worker[w].delay]
  <2>1. msg[worker[w].slot].retries \in Nat
    BY <1>1, <1>6 DEF Reschedule, TypeOK, Message
  <2>2. new \in Message
    BY <1>0, <1>1, <1>6, <2>1, ConstantsAssumption DEF Reschedule, Message, WorkerState
  <2>3. PICK s \in Slots : msg' = [msg EXCEPT ![s] = new]
    BY <1>6 DEF Reschedule
  <2>4. [worker[w] EXCEPT !.pc = "ack", !.row = NoRow] \in WorkerState
    BY <1>0, NoRowType DEF WorkerState
  <2>5. worker' = [worker EXCEPT ![w] = [worker[w] EXCEPT !.pc = "ack", !.row = NoRow]]
    BY <1>6 DEF Reschedule, TypeOK
  <2> HIDE DEF new
  <2> QED
    BY <1>6, <2>2, <2>3, <2>4, <2>5 DEF Reschedule, TypeOK
<1>7. CASE RescheduleRefused(w)
  BY <1>0, <1>1, <1>7, WorkerWritesType DEF RescheduleRefused, Status, Terminal, TypeOK
<1>8. CASE Raise(w)
  <2> DEFINE s == worker[w].slot
             new == [msg[s] EXCEPT !.state = "waiting", !.retries = msg[s].retries + 1, !.due = 1]
  <2>1. s \in Slots /\ msg[s] \in Message
    BY <1>1, <1>8 DEF Raise, TypeOK
  <2>2. 1 \in 0..MaxDelay
    BY MaxAgeType
  <2>3. new \in Message
    <3>1. msg[s].retries + 1 \in Nat
      BY <2>1 DEF Message
    <3> QED
      BY <2>1, <2>2, <3>1 DEF Message
  <2>4. msg' = [msg EXCEPT ![s] = new]
    BY <1>8, <2>1 DEF Raise, TypeOK
  <2> HIDE DEF new
  <2> QED
    BY <1>8, <2>3, <2>4, IdleWorkerType DEF Raise, TypeOK
<1>9. CASE Acknowledge(w)
  BY <1>9, NoMessageType, IdleWorkerType DEF Acknowledge, TypeOK
<1> QED
  BY <1>2, <1>3, <1>4, <1>5, <1>6, <1>7, <1>8, <1>9 DEF Executing

LEMMA CrashType ==
  ASSUME TypeOK, (\E w \in Workers : WorkerCrash(w)) \/ (\E p \in Procs : ProcCrash(p))
  PROVE  TypeOK'
<1>1. crashes < MaxCrashes => crashes + 1 \in 0..MaxCrashes
  BY ConstantsAssumption DEF TypeOK
<1>2. ASSUME NEW w \in Workers, WorkerCrash(w) PROVE TypeOK'
  <2>1. \A s \in Slots : [msg[s] EXCEPT !.state = "waiting"] \in Message
    <3>1. \A m \in Message : [m EXCEPT !.state = "waiting"] \in Message
      BY DEF Message
    <3> QED
      BY <3>1 DEF TypeOK
  <2>2. msg' = [msg EXCEPT ![worker[w].slot] = [msg[worker[w].slot] EXCEPT !.state = "waiting"]]
    BY <1>2 DEF WorkerCrash
  <2>3. msg' \in [Slots -> Message]
    BY <2>1, <2>2 DEF TypeOK
  <2> QED
    BY <1>1, <1>2, <2>3, IdleWorkerType DEF WorkerCrash, TypeOK
<1>3. ASSUME NEW p \in Procs, ProcCrash(p) PROVE TypeOK'
  BY <1>1, <1>3, IdleProcType DEF ProcCrash, TypeOK
<1> QED
  BY <1>2, <1>3

LEMMA TickType ==
  ASSUME TypeOK, Tick
  PROVE  TypeOK'
<1>1. job' \in [Jobs -> Row]
  BY LaterType DEF Tick, TypeOK
<1>2. \A s \in Slots : [msg[s] EXCEPT !.due = Less(msg[s].due)] \in Message
  <2>1. ASSUME NEW s \in Slots PROVE Less(msg[s].due) \in 0..MaxDelay
    BY LessType DEF TypeOK, Message
  <2> QED
    BY <2>1 DEF TypeOK, Message
<1>3. ASSUME NEW w \in Workers
      PROVE  [worker[w] EXCEPT !.row.resume = Less(worker[w].row.resume)] \in WorkerState
  <2>1. worker[w] \in WorkerState /\ worker[w].row \in Row
    BY DEF TypeOK, WorkerState
  <2>2. [worker[w].row EXCEPT !.resume = Less(worker[w].row.resume)] \in Row
    BY <2>1, SmallerResumeType
  <2> QED
    BY <2>1, <2>2 DEF WorkerState
<1>4. ASSUME NEW p \in Procs
      PROVE  [proc[p] EXCEPT !.row = [j \in Jobs |->
                [proc[p].row[j] EXCEPT !.resume = Less(proc[p].row[j].resume)]]] \in ProcState
  <2> DEFINE rows == [j \in Jobs |-> [proc[p].row[j] EXCEPT !.resume = Less(proc[p].row[j].resume)]]
  <2>1. proc[p] \in ProcState /\ proc[p].row \in [Jobs -> Row]
    BY DEF TypeOK, ProcState
  <2>2. rows \in [Jobs -> Row]
    BY <2>1, SmallerResumeType
  <2> HIDE DEF rows
  <2>3. [proc[p] EXCEPT !.row = rows] \in ProcState
    BY <2>1, <2>2 DEF ProcState
  <2> QED
    BY <2>3 DEF rows
<1>5. msg' \in [Slots -> Message]
  BY <1>2 DEF Tick
<1>6. worker' \in [Workers -> WorkerState]
  BY <1>3 DEF Tick
<1>7. proc' \in [Procs -> ProcState]
  BY <1>4 DEF Tick
<1> QED
  BY <1>1, <1>5, <1>6, <1>7 DEF Tick, TypeOK

-----------------------------------------------------------------------------
(* Who refers to what *)

LEMMA KnowsJobStep ==
  ASSUME TypeOK, KnowsJob, NEW p \in Procs,
         Requesting(p) \/ Dispatching(p) \/ DispatchSendFails(p) \/ Reconciling(p) \/ ProcCrash(p)
  PROVE  KnowsJob'
<1>0. IdleProc.pc = "idle"
  BY DEF IdleProc
<1>1. ASSUME NEW j \in Jobs, CreateJob(p, j) \/ CancelRead(p, j) \/ RetryRead(p, j)
      PROVE  KnowsJob'
  <2>1. proc'[p].job = j /\ \A q \in Procs : q # p => proc'[q] = proc[q]
    BY <1>1 DEF CreateJob, CancelRead, RetryRead, TypeOK, ProcState
  <2> QED
    BY <2>1 DEF KnowsJob
<1>2. CASE CancelCommit(p) \/ ProcCrash(p)
  BY <1>0, <1>2, SMTT(30) DEF CancelCommit, ProcCrash, KnowsJob, TypeOK
<1>3. CASE RetryCommit(p)
  BY <1>3 DEF RetryCommit, KnowsJob, TypeOK, ProcState
<1>4. CASE PromoteScheduled(p)
  BY <1>4 DEF PromoteScheduled, KnowsJob, TypeOK, ProcState
<1>5. ASSUME DispatchDone(p) PROVE KnowsJob'
  BY <1>0, <1>5 DEF DispatchDone, KnowsJob, TypeOK, ProcState
<1>6. CASE DispatchSkip(p) \/ DispatchMark(p) \/ DispatchMarkFailed(p)
  BY <1>5, <1>6 DEF DispatchSkip, DispatchMark, DispatchMarkFailed
<1>7. CASE DispatchRead(p)
  <2>1. proc'[p].job = proc[p].job /\ \A q \in Procs : q # p => proc'[q] = proc[q]
    BY <1>7 DEF DispatchRead, TypeOK, ProcState
  <2> QED
    BY <1>7, <2>1 DEF DispatchRead, KnowsJob
<1>8. CASE DispatchSend(p) \/ DispatchSendFails(p)
  <2>1. proc'[p].job = proc[p].job /\ \A q \in Procs : q # p => proc'[q] = proc[q]
    BY <1>8 DEF DispatchSend, DispatchSendFails, Goto, TypeOK, ProcState
  <2>2. proc[p].pc = "send"
    BY <1>8 DEF DispatchSend, DispatchSendFails
  <2> QED
    BY <2>1, <2>2 DEF KnowsJob
<1>9. CASE ReconcileScan(p)
  <2>1. PICK new : proc' = [proc EXCEPT ![p] = new] /\ new.pc = "reconcile"
    <3>1. proc'[p].pc = "reconcile" /\ proc' = [proc EXCEPT ![p] = proc'[p]]
      BY <1>9 DEF ReconcileScan, TypeOK, ProcState
    <3> QED
      BY <3>1
  <2> QED
    BY <2>1 DEF KnowsJob, TypeOK
<1>10. CASE ReconcileCommit(p)
  <2>1. PICK new : proc' = [proc EXCEPT ![p] = new] /\ new.pc \in {"idle", "loop"}
    <3>1. proc'[p].pc \in {"idle", "loop"} /\ proc' = [proc EXCEPT ![p] = proc'[p]]
      BY <1>0, <1>10 DEF ReconcileCommit, TypeOK, ProcState
    <3> QED
      BY <3>1
  <2> QED
    BY <2>1 DEF KnowsJob, TypeOK
<1>11. ASSUME NEW j \in Jobs, LoopRequeue(p, j) PROVE KnowsJob'
  <2>1. proc'[p].pc \in {"idle", "loop"} \/ proc'[p].job = j
    BY <1>0, <1>11 DEF LoopRequeue, TypeOK, ProcState
  <2>2. \A q \in Procs : q # p => proc'[q] = proc[q]
    BY <1>11 DEF LoopRequeue, TypeOK
  <2> QED
    BY <2>1, <2>2 DEF KnowsJob
<1>12. ASSUME NEW j \in Jobs, LoopRedo(p, j) PROVE KnowsJob'
  BY <1>12 DEF LoopRedo, KnowsJob, TypeOK, ProcState
<1> QED
  BY <1>1, <1>2, <1>3, <1>4, <1>6, <1>7, <1>8, <1>9, <1>10, <1>11, <1>12
     DEF Requesting, Dispatching, Reconciling

(***************************************************************************)
(* The messages and executions that a step leaves alone stay linked.       *)
(***************************************************************************)
LinkedMessages == OwnsMessage /\ OwnsAlone /\ AboutJob

LEMMA ProcKeepsMessages ==
  ASSUME TypeOK, LinkedMessages, KnowsJob, NEW p \in Procs,
         Requesting(p) \/ Dispatching(p) \/ DispatchSendFails(p) \/ Reconciling(p) \/ ProcCrash(p)
  PROVE  LinkedMessages'
<1>1. CASE DispatchSend(p)
  <2>1. PICK s \in Slots :
          /\ msg[s].state = "free"
          /\ msg' = [msg EXCEPT ![s] = [state |-> "waiting", job |-> proc[p].job, retries |-> 0,
                                        max |-> ActorMaxRetries, due |-> 0]]
    BY <1>1 DEF DispatchSend
  <2>2. proc[p].job \in Jobs /\ worker' = worker
    BY <1>1 DEF DispatchSend, KnowsJob
  <2>3. msg'[s].job = proc[p].job /\ \A t \in Slots : t # s => msg'[t] = msg[t]
    BY <2>1 DEF TypeOK
  <2> QED
    BY <2>1, <2>2, <2>3 DEF LinkedMessages, OwnsMessage, OwnsAlone, AboutJob
<1>2. CASE UNCHANGED <<msg, worker>>
  BY <1>2 DEF LinkedMessages, OwnsMessage, OwnsAlone, AboutJob
<1>3. DispatchSend(p) \/ UNCHANGED <<msg, worker>>
  <2>1. Requesting(p) => UNCHANGED <<msg, worker>>
    BY DEF Requesting, CreateJob, CancelRead, RetryRead, CancelCommit, RetryCommit, PromoteScheduled
  <2>2. Dispatching(p) => DispatchSend(p) \/ UNCHANGED <<msg, worker>>
    BY DEF Dispatching, DispatchSkip, DispatchRead, DispatchMark, DispatchMarkFailed
  <2>3. Reconciling(p) => UNCHANGED <<msg, worker>>
    BY DEF Reconciling, ReconcileScan, ReconcileCommit, LoopRequeue, LoopRedo
  <2> QED
    BY <2>1, <2>2, <2>3 DEF DispatchSendFails, ProcCrash
<1> QED
  BY <1>1, <1>2, <1>3

LEMMA WorkerKeepsMessages ==
  ASSUME TypeOK, LinkedMessages, NEW w \in Workers,
         Receiving(w) \/ Executing(w) \/ Checkpoint(w) \/ WorkerCrash(w)
  PROVE  LinkedMessages'
<1>0. IdleWorker.pc = "idle" /\ NoMessage.state = "free"
  BY DEF IdleWorker, NoMessage
<1>1. ASSUME worker[w].pc # "idle", worker'[w].slot = worker[w].slot, worker'[w].job = worker[w].job,
             \A v \in Workers : v # w => worker'[v] = worker[v],
             \A s \in Slots : msg'[s] = msg[s]
                              \/ (msg[s].state = "free" /\ msg'[s].job = worker[w].job)
      PROVE  LinkedMessages'
  <2>1. \A v \in Workers : worker'[v].pc # "idle" =>
          worker[v].pc # "idle" /\ worker'[v].slot = worker[v].slot /\ worker'[v].job = worker[v].job
    BY <1>1
  <2>2. OwnsMessage'
    BY <1>1, <2>1 DEF LinkedMessages, OwnsMessage
  <2>3. OwnsAlone'
    BY <2>1 DEF LinkedMessages, OwnsAlone
  <2>4. AboutJob'
    BY <1>1 DEF LinkedMessages, AboutJob, OwnsMessage
  <2> QED
    BY <2>2, <2>3, <2>4 DEF LinkedMessages
<1>2. ASSUME worker[w].pc # "idle", worker' = [worker EXCEPT ![w] = IdleWorker],
             \A s \in Slots : s # worker[w].slot => msg'[s] = msg[s],
             msg'[worker[w].slot].state = "free" \/ msg'[worker[w].slot].job = worker[w].job
      PROVE  LinkedMessages'
  <2>1. \A v \in Workers : worker'[v].pc # "idle" => v # w /\ worker'[v] = worker[v]
    BY <1>0, <1>2 DEF TypeOK
  <2>2. \A v \in Workers : v # w /\ worker[v].pc # "idle" => worker[v].slot # worker[w].slot
    BY <1>2 DEF LinkedMessages, OwnsAlone
  <2>3. OwnsMessage'
    BY <1>2, <2>1, <2>2 DEF LinkedMessages, OwnsMessage
  <2>4. OwnsAlone'
    BY <2>1 DEF LinkedMessages, OwnsAlone
  <2>5. AboutJob'
    BY <1>2 DEF LinkedMessages, AboutJob, OwnsMessage
  <2> QED
    BY <2>3, <2>4, <2>5 DEF LinkedMessages
<1>3. CASE \E s \in Slots : Claim(w, s)
  <2>1. PICK s \in Slots : Claim(w, s)
    BY <1>3
  <2>2. /\ msg[s].state = "waiting" /\ msg'[s].state = "taken" /\ msg'[s].job = msg[s].job
        /\ \A t \in Slots : t # s => msg'[t] = msg[t]
    BY <2>1 DEF Claim, Deliverable, TypeOK, Message
  <2>3. /\ worker'[w].slot = s /\ worker'[w].job = msg[s].job
        /\ \A v \in Workers : v # w => worker'[v] = worker[v]
    BY <2>1 DEF Claim, TypeOK
  <2>4. \A v \in Workers : worker[v].pc # "idle" => worker[v].slot # s
    BY <2>2 DEF LinkedMessages, OwnsMessage
  <2>5. msg[s].job \in Jobs
    BY <2>2 DEF LinkedMessages, AboutJob
  <2>6. OwnsMessage'
    BY <2>2, <2>3, <2>4, <2>5 DEF LinkedMessages, OwnsMessage
  <2>7. OwnsAlone'
    BY <2>3, <2>4 DEF LinkedMessages, OwnsAlone
  <2>8. AboutJob'
    BY <2>2, <2>5 DEF LinkedMessages, AboutJob
  <2> QED
    BY <2>6, <2>7, <2>8 DEF LinkedMessages
<1>4. CASE \E s \in Slots : Refuse(w, s)
  <2>1. PICK s \in Slots : Refuse(w, s)
    BY <1>4
  <2>2. /\ msg[s].state = "waiting" /\ msg'[s].state = "free"
        /\ \A t \in Slots : t # s => msg'[t] = msg[t]
    BY <1>0, <2>1 DEF Refuse, Deliverable, TypeOK
  <2>3. worker' = worker
    BY <2>1 DEF Refuse
  <2> QED
    BY <2>2, <2>3 DEF LinkedMessages, OwnsMessage, OwnsAlone, AboutJob
<1>5. ASSUME NEW new, worker' = [worker EXCEPT ![w] = new],
             new.slot = worker[w].slot, new.job = worker[w].job
      PROVE  /\ worker'[w].slot = worker[w].slot /\ worker'[w].job = worker[w].job
             /\ \A v \in Workers : v # w => worker'[v] = worker[v]
  BY <1>5 DEF TypeOK
<1>6. CASE Checkpoint(w) \/ Finish(w) \/ Park(w) \/ RescheduleRefused(w)
  <2>1. worker[w].pc # "idle" /\ msg' = msg
    BY <1>6 DEF Checkpoint, Finish, Park, RescheduleRefused
  <2>2. PICK row, status, pc : WorkerWrites(w, row, status, pc)
    BY <1>6 DEF Checkpoint, Finish, Park, RescheduleRefused
  <2> DEFINE new == [worker[w] EXCEPT !.pc = pc, !.row = IF pc = "ack" THEN NoRow ELSE Written(row, status)]
  <2>3. worker' = [worker EXCEPT ![w] = new]
    BY <2>2 DEF WorkerWrites, TypeOK
  <2>4. new.slot = worker[w].slot /\ new.job = worker[w].job
    BY DEF TypeOK, WorkerState
  <2> HIDE DEF new
  <2>5. /\ worker'[w].slot = worker[w].slot /\ worker'[w].job = worker[w].job
        /\ \A v \in Workers : v # w => worker'[v] = worker[v]
    BY <1>5, <2>3, <2>4
  <2> QED
    BY <1>1, <2>1, <2>5
<1>7. CASE Stamp(w)
  <2>1. worker[w].pc # "idle" /\ msg' = msg
    BY <1>7 DEF Stamp
  <2>2. PICK row, delay : worker' = [worker EXCEPT ![w].row = row, ![w].delay = delay, ![w].pc = "resched"]
    BY <1>7 DEF Stamp
  <2> DEFINE new == [worker[w] EXCEPT !.row = row, !.delay = delay, !.pc = "resched"]
  <2>3. worker' = [worker EXCEPT ![w] = new]
    BY <2>2 DEF TypeOK
  <2>4. new.slot = worker[w].slot /\ new.job = worker[w].job
    BY DEF TypeOK, WorkerState
  <2> HIDE DEF new
  <2>5. /\ worker'[w].slot = worker[w].slot /\ worker'[w].job = worker[w].job
        /\ \A v \in Workers : v # w => worker'[v] = worker[v]
    BY <1>5, <2>3, <2>4
  <2> QED
    BY <1>1, <2>1, <2>5
<1>8. CASE Reschedule(w)
  <2> DEFINE new == [worker[w] EXCEPT !.pc = "ack", !.row = NoRow]
  <2>1. worker[w].pc # "idle"
    BY <1>8 DEF Reschedule
  <2>2. worker' = [worker EXCEPT ![w] = new]
    BY <1>8 DEF Reschedule, TypeOK
  <2>3. new.slot = worker[w].slot /\ new.job = worker[w].job
    BY DEF TypeOK, WorkerState
  <2> HIDE DEF new
  <2>4. /\ worker'[w].slot = worker[w].slot /\ worker'[w].job = worker[w].job
        /\ \A v \in Workers : v # w => worker'[v] = worker[v]
    BY <1>5, <2>2, <2>3
  <2>5. PICK s \in Slots :
          /\ msg[s].state = "free"
          /\ msg' = [msg EXCEPT ![s] = [state |-> "waiting", job |-> worker[w].job,
                                        retries |-> msg[worker[w].slot].retries + 1,
                                        max |-> MaxJobReschedules, due |-> worker[w].delay]]
    BY <1>8 DEF Reschedule
  <2>6. \A t \in Slots : msg'[t] = msg[t] \/ (msg[t].state = "free" /\ msg'[t].job = worker[w].job)
    BY <2>5 DEF TypeOK
  <2> QED
    BY <1>1, <2>1, <2>4, <2>6
<1>9. CASE Raise(w) \/ Acknowledge(w) \/ WorkerCrash(w)
  <2>1. worker[w].pc # "idle" /\ worker' = [worker EXCEPT ![w] = IdleWorker]
    BY <1>9 DEF Raise, Acknowledge, WorkerCrash
  <2>2. worker[w].slot \in Slots /\ msg[worker[w].slot].job = worker[w].job
    BY <2>1 DEF LinkedMessages, OwnsMessage
  <2>3. /\ \A s \in Slots : s # worker[w].slot => msg'[s] = msg[s]
        /\ msg'[worker[w].slot].state = "free" \/ msg'[worker[w].slot].job = worker[w].job
    BY <1>0, <1>9, <2>2 DEF Raise, Acknowledge, WorkerCrash, TypeOK, Message
  <2> QED
    BY <1>2, <2>1, <2>3
<1> QED
  BY <1>3, <1>4, <1>6, <1>7, <1>8, <1>9 DEF Receiving, Executing

LEMMA TickLinked ==
  ASSUME TypeOK, Linked, Tick
  PROVE  Linked'
<1>1. \A s \in Slots : msg'[s].state = msg[s].state /\ msg'[s].job = msg[s].job
  BY DEF Tick, TypeOK, Message
<1>2. \A w \in Workers : /\ worker'[w].pc = worker[w].pc /\ worker'[w].slot = worker[w].slot
                         /\ worker'[w].job = worker[w].job
  BY DEF Tick, TypeOK, WorkerState
<1>3. \A p \in Procs : proc'[p].pc = proc[p].pc /\ proc'[p].job = proc[p].job
  BY DEF Tick, TypeOK, ProcState
<1>4. OwnsMessage' /\ OwnsAlone'
  BY <1>1, <1>2 DEF Linked, OwnsMessage, OwnsAlone
<1>5. AboutJob' /\ KnowsJob'
  BY <1>1, <1>3 DEF Linked, AboutJob, KnowsJob
<1> QED
  BY <1>4, <1>5 DEF Linked

-----------------------------------------------------------------------------
TypeInv == TypeOK /\ Linked

LEMMA TypeInvInit == Init => TypeInv
<1> SUFFICES ASSUME Init PROVE TypeInv
  OBVIOUS
<1>1. IdleWorker.pc = "idle" /\ IdleProc.pc = "idle" /\ NoMessage.state = "free"
  BY DEF IdleWorker, IdleProc, NoMessage
<1>2. 0 \in 0..MaxCrashes
  BY ConstantsAssumption
<1>3. TypeOK
  BY <1>2, NoRowType, NoMessageType, IdleWorkerType, IdleProcType DEF Init, TypeOK
<1>4. Linked
  BY <1>1 DEF Init, Linked, OwnsMessage, OwnsAlone, AboutJob, KnowsJob
<1> QED
  BY <1>3, <1>4 DEF TypeInv

LEMMA TypeInvNext ==
  ASSUME TypeInv, [Next]_vars
  PROVE  TypeInv'
<1>0. TypeOK /\ Linked /\ LinkedMessages /\ KnowsJob
  BY DEF TypeInv, Linked, LinkedMessages
<1>1. CASE UNCHANGED vars
  BY <1>1 DEF TypeInv, TypeOK, Linked, OwnsMessage, OwnsAlone, AboutJob, KnowsJob, vars
<1>2. ASSUME NEW j \in Jobs, ScheduleJob(j) PROVE TypeInv'
  <2>1. TypeOK'
    BY <1>0, <1>2, WriteStatusType DEF ScheduleJob, Status, Claimable, TypeOK
  <2>2. Linked'
    BY <1>0, <1>2 DEF ScheduleJob, Linked, OwnsMessage, OwnsAlone, AboutJob, KnowsJob
  <2> QED
    BY <2>1, <2>2 DEF TypeInv
<1>3. ASSUME NEW p \in Procs,
             Requesting(p) \/ Dispatching(p) \/ DispatchSendFails(p) \/ Reconciling(p) \/ ProcCrash(p)
      PROVE  TypeInv'
  <2>1. TypeOK'
    BY <1>0, <1>3, RequestingType, DispatchingType, ReconcilingType, CrashType
  <2>2. KnowsJob' /\ LinkedMessages'
    BY <1>0, <1>3, KnowsJobStep, ProcKeepsMessages
  <2> QED
    BY <2>1, <2>2 DEF TypeInv, Linked, LinkedMessages
<1>4. ASSUME NEW w \in Workers, Receiving(w) \/ Executing(w) \/ Checkpoint(w) \/ WorkerCrash(w)
      PROVE  TypeInv'
  <2>1. TypeOK'
    BY <1>0, <1>4, ReceivingType, ExecutingType, CrashType
  <2>2. proc' = proc
    BY <1>4 DEF Receiving, Claim, Refuse, Executing, Checkpoint, Finish, Park, Stamp, Reschedule,
                RescheduleRefused, Raise, Acknowledge, WorkerCrash
  <2>3. KnowsJob'
    BY <1>0, <2>2 DEF KnowsJob
  <2>4. LinkedMessages'
    BY <1>0, <1>4, WorkerKeepsMessages
  <2> QED
    BY <2>1, <2>3, <2>4 DEF TypeInv, Linked, LinkedMessages
<1>5. CASE Tick
  BY <1>0, <1>5, TickType, TickLinked DEF TypeInv
<1> QED
  BY <1>1, <1>2, <1>3, <1>4, <1>5 DEF Next

LEMMA TypeInvariant == Spec => []TypeInv
  BY TypeInvInit, TypeInvNext, PTL DEF Spec

(***************************************************************************)
(* Every reachable state is well typed: whatever the handlers, the worker, *)
(* crashes and redeliveries do, rows hold only the statuses of JobStatus,  *)
(* and progress and _resume_at stay in range.                              *)
(***************************************************************************)
THEOREM TypeCorrect == Spec => []TypeOK
<1>1. TypeInv => TypeOK
  BY DEF TypeInv
<1> QED
  BY <1>1, TypeInvariant, PTL

-----------------------------------------------------------------------------
(* The ceiling on retries *)

LEMMA RetriesInit == Init => RetriesBounded
<1>1. NoMessage.state = "free" /\ NoMessage.retries = 0 /\ NoMessage.max = 0
  BY DEF NoMessage
<1> QED
  BY <1>1 DEF Init, RetriesBounded

(***************************************************************************)
(* A step that leaves the counter and the ceiling of every message alone   *)
(* except for one message, which it frees or gives a counter within its    *)
(* ceiling, keeps every counter within its ceiling.                        *)
(***************************************************************************)
LEMMA OneMessageChanges ==
  ASSUME TypeOK, RetriesBounded, NEW s \in Slots, NEW m, msg' = [msg EXCEPT ![s] = m],
         m.retries <= m.max,
         m.state # "free" => m.max \in {ActorMaxRetries, MaxJobReschedules}
  PROVE  RetriesBounded'
  BY DEF TypeOK, RetriesBounded

LEMMA RetriesNext ==
  ASSUME TypeInv, RetriesBounded, [Next]_vars
  PROVE  RetriesBounded'
<1>0. TypeOK /\ Linked
  BY DEF TypeInv
<1>1. NoMessage.state = "free" /\ NoMessage.retries <= NoMessage.max
  BY DEF NoMessage
<1>2. CASE UNCHANGED msg
  BY <1>2 DEF RetriesBounded
<1>3. CASE Tick
  <2>1. \A s \in Slots : /\ msg'[s].state = msg[s].state /\ msg'[s].retries = msg[s].retries
                         /\ msg'[s].max = msg[s].max
    BY <1>0, <1>3 DEF Tick, TypeOK, Message
  <2> QED
    BY <2>1 DEF RetriesBounded
<1>4. ASSUME NEW p \in Procs, DispatchSend(p) PROVE RetriesBounded'
  <2> DEFINE m == [state |-> "waiting", job |-> proc[p].job, retries |-> 0,
                   max |-> ActorMaxRetries, due |-> 0]
  <2>1. PICK s \in Slots : msg' = [msg EXCEPT ![s] = m]
    BY <1>4 DEF DispatchSend
  <2>2. m.retries <= m.max /\ m.max \in {ActorMaxRetries, MaxJobReschedules}
    BY ConstantsAssumption
  <2> HIDE DEF m
  <2> QED
    BY <1>0, <2>1, <2>2, OneMessageChanges
<1>5. ASSUME NEW w \in Workers, NEW s \in Slots, Claim(w, s) PROVE RetriesBounded'
  <2> DEFINE m == [msg[s] EXCEPT !.state = "taken"]
  <2>1. m.retries = msg[s].retries /\ m.max = msg[s].max /\ msg[s].state # "free"
    BY <1>0, <1>5 DEF Claim, Deliverable, TypeOK, Message
  <2>2. msg' = [msg EXCEPT ![s] = m]
    BY <1>0, <1>5 DEF Claim, TypeOK
  <2> HIDE DEF m
  <2> QED
    BY <1>0, <2>1, <2>2, OneMessageChanges DEF RetriesBounded
<1>6. ASSUME NEW w \in Workers, NEW s \in Slots, Refuse(w, s) PROVE RetriesBounded'
  BY <1>0, <1>1, <1>6, OneMessageChanges DEF Refuse
<1>7. ASSUME NEW w \in Workers, Reschedule(w) PROVE RetriesBounded'
  <2> DEFINE m == [state |-> "waiting", job |-> worker[w].job,
                   retries |-> msg[worker[w].slot].retries + 1,
                   max |-> MaxJobReschedules, due |-> worker[w].delay]
  <2>1. PICK s \in Slots : msg' = [msg EXCEPT ![s] = m]
    BY <1>7 DEF Reschedule
  <2>2. msg[worker[w].slot].retries \in Nat /\ msg[worker[w].slot].retries < MaxJobReschedules
    BY <1>0, <1>7 DEF Reschedule, CanReschedule, TypeOK, Message, Linked, OwnsMessage
  <2>3. m.retries <= m.max /\ m.max \in {ActorMaxRetries, MaxJobReschedules}
    BY <2>2, ConstantsAssumption
  <2> HIDE DEF m
  <2> QED
    BY <1>0, <2>1, <2>3, OneMessageChanges
<1>8. ASSUME NEW w \in Workers, Raise(w) PROVE RetriesBounded'
  <2> DEFINE s == worker[w].slot
             m == [msg[s] EXCEPT !.state = "waiting", !.retries = msg[s].retries + 1, !.due = 1]
  <2>1. /\ s \in Slots /\ msg[s] \in Message /\ msg[s].state = "taken"
        /\ ~(msg[s].retries >= msg[s].max) /\ msg[s].max \in {ActorMaxRetries, MaxJobReschedules}
    BY <1>0, <1>8 DEF Raise, FinalAttempt, TypeOK, Linked, OwnsMessage, RetriesBounded
  <2>2. m.retries = msg[s].retries + 1 /\ m.max = msg[s].max
    BY <2>1 DEF Message
  <2>3. msg' = [msg EXCEPT ![s] = m]
    BY <1>0, <1>8, <2>1 DEF Raise, TypeOK
  <2>4. m.retries <= m.max
    BY <2>1, <2>2 DEF Message
  <2> HIDE DEF m
  <2> QED
    BY <1>0, <2>1, <2>2, <2>3, <2>4, OneMessageChanges
<1>9. ASSUME NEW w \in Workers, Acknowledge(w) PROVE RetriesBounded'
  <2>1. worker[w].slot \in Slots
    BY <1>0, <1>9 DEF Acknowledge, Linked, OwnsMessage
  <2> QED
    BY <1>0, <1>1, <1>9, <2>1, OneMessageChanges DEF Acknowledge
<1>10. ASSUME NEW w \in Workers, WorkerCrash(w) PROVE RetriesBounded'
  <2> DEFINE s == worker[w].slot
             m == [msg[s] EXCEPT !.state = "waiting"]
  <2>1. s \in Slots /\ msg[s].state = "taken"
    BY <1>0, <1>10 DEF WorkerCrash, Linked, OwnsMessage
  <2>2. m.retries = msg[s].retries /\ m.max = msg[s].max
    BY <1>0, <2>1 DEF TypeOK, Message
  <2>3. msg' = [msg EXCEPT ![s] = m]
    BY <1>0, <1>10, <2>1 DEF WorkerCrash, TypeOK
  <2> HIDE DEF m
  <2> QED
    BY <1>0, <2>1, <2>2, <2>3, OneMessageChanges DEF RetriesBounded
<1>11. \/ UNCHANGED msg \/ Tick
       \/ \E p \in Procs : DispatchSend(p)
       \/ \E w \in Workers : \/ \E s \in Slots : Claim(w, s) \/ Refuse(w, s)
                           \/ Reschedule(w) \/ Raise(w) \/ Acknowledge(w) \/ WorkerCrash(w)
  <2>1. ASSUME NEW p \in Procs,
               Requesting(p) \/ Dispatching(p) \/ DispatchSendFails(p) \/ Reconciling(p) \/ ProcCrash(p)
        PROVE  DispatchSend(p) \/ UNCHANGED msg
    <3>1. Requesting(p) => UNCHANGED msg
      BY DEF Requesting, CreateJob, CancelRead, RetryRead, CancelCommit, RetryCommit, PromoteScheduled
    <3>2. Dispatching(p) => DispatchSend(p) \/ UNCHANGED msg
      BY DEF Dispatching, DispatchSkip, DispatchRead, DispatchMark, DispatchMarkFailed
    <3>3. Reconciling(p) => UNCHANGED msg
      BY DEF Reconciling, ReconcileScan, ReconcileCommit, LoopRequeue, LoopRedo
    <3> QED
      BY <2>1, <3>1, <3>2, <3>3 DEF DispatchSendFails, ProcCrash
  <2>2. ASSUME NEW w \in Workers, Executing(w) \/ Checkpoint(w)
        PROVE  Reschedule(w) \/ Raise(w) \/ Acknowledge(w) \/ UNCHANGED msg
    BY <2>2 DEF Executing, Checkpoint, Finish, Park, Stamp, RescheduleRefused
  <2>3. \A j \in Jobs : ScheduleJob(j) => UNCHANGED msg
    BY DEF ScheduleJob
  <2>4. UNCHANGED vars => UNCHANGED msg
    BY DEF vars
  <2> QED
    BY <2>1, <2>2, <2>3, <2>4 DEF Next, Receiving
<1> QED
  BY <1>2, <1>3, <1>4, <1>5, <1>6, <1>7, <1>8, <1>9, <1>10, <1>11

(***************************************************************************)
(* No message is ever retried beyond the ceiling it carries, for any       *)
(* number of jobs, workers, coroutines and crashes.                        *)
(***************************************************************************)
THEOREM RetryCeiling == Spec => []RetriesBounded
<1>1. Init => TypeInv /\ RetriesBounded
  BY TypeInvInit, RetriesInit
<1>2. TypeInv /\ RetriesBounded /\ [Next]_vars => TypeInv' /\ RetriesBounded'
  BY TypeInvNext, RetriesNext
<1> QED
  BY <1>1, <1>2, PTL DEF Spec

-----------------------------------------------------------------------------
(* The exclusive claim *)

(***************************************************************************)
(* ClaimExclusive is not inductive: why can no second worker claim?        *)
(* Because the row of a job under execution says running as long as nobody *)
(* has overwritten it, and the claim takes no running row.                 *)
(***************************************************************************)
RowSaysRunning ==
  \A j \in Jobs : \A w \in Workers :
    ~overwritten[j] /\ Executes(w, j) => job[j].status = "running"

ExclusiveInv == TypeInv /\ overwritten \in [Jobs -> BOOLEAN] /\ RowSaysRunning /\ ClaimExclusive

\* An execution begins only with a claim, which found the row claimable.
LEMMA ExecutionBegins ==
  ASSUME TypeInv, [Next]_vars, NEW w \in Workers, NEW j \in Jobs,
         ~Executes(w, j), Executes(w, j)'
  PROVE  /\ job[j].status \in Claimable /\ job'[j].status = "running"
         /\ \A v \in Workers : v # w => worker'[v] = worker[v]
<1>0. TypeOK /\ Linked
  BY DEF TypeInv
<1>1. IdleWorker.pc = "idle"
  BY DEF IdleWorker
<1>2. ASSUME worker'[w].pc # "run" \/ (worker[w].pc = "run" /\ worker'[w].job = worker[w].job)
      PROVE  FALSE
  BY <1>2 DEF Executes
<1>3. CASE UNCHANGED worker
  BY <1>3 DEF Executes
<1>4. CASE Tick
  <2>1. worker'[w].pc = worker[w].pc /\ worker'[w].job = worker[w].job
    BY <1>0, <1>4 DEF Tick, TypeOK, WorkerState
  <2> QED
    BY <1>2, <2>1
<1>5. ASSUME NEW v \in Workers,
             Executing(v) \/ Checkpoint(v) \/ WorkerCrash(v)
      PROVE  FALSE
  <2>1. CASE v # w
    <3>1. worker'[w] = worker[w]
      BY <1>0, <1>5, <2>1 DEF Executing, Checkpoint, WorkerCrash, Finish, Park, Stamp, Reschedule,
         RescheduleRefused, Raise, Acknowledge, WorkerWrites, TypeOK
    <3> QED
      BY <3>1 DEF Executes
  <2>2. CASE v = w
    <3>1. CASE Raise(w) \/ Acknowledge(w) \/ WorkerCrash(w)
      BY <1>0, <1>1, <1>2, <3>1 DEF Raise, Acknowledge, WorkerCrash, TypeOK
    <3>2. CASE Finish(w) \/ Park(w) \/ RescheduleRefused(w) \/ Stamp(w) \/ Reschedule(w)
      <4>1. ASSUME NEW row, NEW status, NEW pc \in {"stamp", "ack"}, WorkerWrites(w, row, status, pc)
            PROVE  worker'[w].pc # "run"
        BY <1>0, <4>1 DEF WorkerWrites, TypeOK, WorkerState
      <4>2. CASE Finish(w) \/ Park(w) \/ RescheduleRefused(w)
        BY <1>2, <4>1, <4>2 DEF Finish, Park, RescheduleRefused
      <4>3. CASE Stamp(w)
        <5>1. worker'[w].pc = "resched"
          BY <1>0, <4>3 DEF Stamp, TypeOK, WorkerState
        <5> QED
          BY <1>2, <5>1
      <4>4. CASE Reschedule(w)
        <5>1. worker'[w].pc = "ack"
          BY <1>0, <4>4 DEF Reschedule, TypeOK, WorkerState
        <5> QED
          BY <1>2, <5>1
      <4> QED
        BY <3>2, <4>2, <4>3, <4>4
    <3>3. CASE Checkpoint(w)
      <4>1. worker[w].pc = "run"
        BY <3>3 DEF Checkpoint
      <4>2. worker'[w].job = worker[w].job
        BY <1>0, <3>3 DEF Checkpoint, WorkerWrites, TypeOK, WorkerState
      <4> QED
        BY <1>2, <4>1, <4>2
    <3> QED
      BY <1>5, <2>2, <3>1, <3>2, <3>3 DEF Executing
  <2> QED
    BY <2>1, <2>2
<1>6. ASSUME NEW v \in Workers, NEW s \in Slots, Claim(v, s)
      PROVE  /\ job[j].status \in Claimable /\ job'[j].status = "running"
             /\ \A u \in Workers : u # w => worker'[u] = worker[u]
  <2>1. \A u \in Workers : u # v => worker'[u] = worker[u]
    BY <1>0, <1>6 DEF Claim, TypeOK
  <2>2. v = w
    BY <2>1 DEF Executes
  <2>3. worker'[w].job = msg[s].job
    BY <1>0, <1>6, <2>2 DEF Claim, TypeOK
  <2>4. msg[s].job = j
    BY <2>3 DEF Executes
  <2>5. job[j] \in Row /\ job'[j] = Written(job[j], "running")
    BY <1>0, <1>6, <2>4 DEF Claim, TypeOK
  <2>6. job'[j].status = "running"
    BY <2>5 DEF Written, Row
  <2> QED
    BY <1>6, <2>1, <2>2, <2>4, <2>6 DEF Claim
<1>7. \/ UNCHANGED worker \/ Tick
      \/ \E v \in Workers : \/ Executing(v) \/ Checkpoint(v) \/ WorkerCrash(v)
                          \/ \E s \in Slots : Claim(v, s)
  <2>1. ASSUME NEW p \in Procs,
               Requesting(p) \/ Dispatching(p) \/ DispatchSendFails(p) \/ Reconciling(p) \/ ProcCrash(p)
        PROVE  UNCHANGED worker
    <3>1. Requesting(p) => UNCHANGED worker
      BY DEF Requesting, CreateJob, CancelRead, RetryRead, CancelCommit, RetryCommit, PromoteScheduled
    <3>2. Dispatching(p) => UNCHANGED worker
      BY DEF Dispatching, DispatchSkip, DispatchRead, DispatchSend, DispatchMark, DispatchMarkFailed
    <3>3. Reconciling(p) => UNCHANGED worker
      BY DEF Reconciling, ReconcileScan, ReconcileCommit, LoopRequeue, LoopRedo
    <3> QED
      BY <2>1, <3>1, <3>2, <3>3 DEF DispatchSendFails, ProcCrash
  <2>2. \A v \in Workers, s \in Slots : Refuse(v, s) => UNCHANGED worker
    BY DEF Refuse
  <2>3. \A i \in Jobs : ScheduleJob(i) => UNCHANGED worker
    BY DEF ScheduleJob
  <2>4. UNCHANGED vars => UNCHANGED worker
    BY DEF vars
  <2> QED
    BY <2>1, <2>2, <2>3, <2>4 DEF Next, Receiving
<1> QED
  BY <1>3, <1>4, <1>5, <1>6, <1>7

LEMMA ExclusiveInit == HInit => ExclusiveInv
<1> SUFFICES ASSUME HInit PROVE ExclusiveInv
  OBVIOUS
<1>1. TypeInv
  BY TypeInvInit DEF HInit
<1>2. \A w \in Workers, j \in Jobs : ~Executes(w, j)
  BY DEF HInit, Init, IdleWorker, Executes
<1> QED
  BY <1>1, <1>2 DEF ExclusiveInv, RowSaysRunning, ClaimExclusive, HInit

LEMMA ExclusiveNext ==
  ASSUME ExclusiveInv, [HNext]_hvars
  PROVE  ExclusiveInv'
<1>1. TypeInv /\ [Next]_vars
  BY DEF ExclusiveInv, HNext, hvars, vars
<1>2. TypeInv'
  BY <1>1, TypeInvNext
<1>3. CASE UNCHANGED hvars
  BY <1>2, <1>3 DEF ExclusiveInv, RowSaysRunning, ClaimExclusive, Executes, hvars
<1>4. CASE HNext
  <2>1. overwritten' = [j \in Jobs |-> overwritten[j] \/ Overwrites(j)]
    BY <1>4 DEF HNext, History
  <2>2. overwritten' \in [Jobs -> BOOLEAN]
    BY <2>1 DEF ExclusiveInv
  <2>3. ASSUME NEW j \in Jobs, ~overwritten'[j] PROVE ~overwritten[j] /\ ~Overwrites(j)
    BY <2>1, <2>3
  <2>4. ASSUME NEW j \in Jobs, NEW w \in Workers, ~overwritten'[j], Executes(w, j)'
        PROVE  job'[j].status = "running"
    <3>1. CASE Executes(w, j)
      BY <2>3, <2>4, <3>1 DEF Overwrites
    <3>2. CASE ~Executes(w, j)
      BY <1>1, <2>4, <3>2, ExecutionBegins
    <3> QED
      BY <3>1, <3>2
  <2>5. ASSUME NEW j \in Jobs, NEW w \in Workers, NEW v \in Workers,
               ~overwritten'[j], Executes(w, j)', Executes(v, j)', ~Executes(w, j)
        PROVE  w = v
    <3> SUFFICES ASSUME w # v PROVE FALSE
      OBVIOUS
    <3>1. job[j].status \in Claimable /\ worker'[v] = worker[v]
      BY <1>1, <2>5, ExecutionBegins
    <3>2. Executes(v, j)
      BY <2>5, <3>1 DEF Executes
    <3>3. job[j].status = "running"
      BY <2>3, <2>5, <3>2 DEF ExclusiveInv, RowSaysRunning
    <3> QED
      BY <3>1, <3>3 DEF Claimable
  <2>6. ASSUME NEW j \in Jobs, NEW w \in Workers, NEW v \in Workers,
               ~overwritten'[j], Executes(w, j)', Executes(v, j)'
        PROVE  w = v
    <3>1. CASE Executes(w, j) /\ Executes(v, j)
      BY <2>3, <2>6, <3>1 DEF ExclusiveInv, ClaimExclusive
    <3> QED
      BY <2>5, <2>6, <3>1
  <2>7. RowSaysRunning'
    BY <2>4 DEF RowSaysRunning
  <2>8. ClaimExclusive'
    BY <2>6 DEF ClaimExclusive
  <2> QED
    BY <1>2, <2>2, <2>7, <2>8 DEF ExclusiveInv
<1> QED
  BY <1>3, <1>4

(***************************************************************************)
(* As long as nobody takes the row out of running under an execution, the  *)
(* claim lets one worker at a time execute a job, whatever the number of   *)
(* messages, workers and coroutines, and whatever crashes.                 *)
(***************************************************************************)
THEOREM ClaimIsExclusive == HSpec => []ClaimExclusive
<1>1. ExclusiveInv => ClaimExclusive
  BY DEF ExclusiveInv
<1> QED
  BY <1>1, ExclusiveInit, ExclusiveNext, PTL DEF HSpec

-----------------------------------------------------------------------------
(* The messages of a job *)

(***************************************************************************)
(* Counting.  A set of slots that gained at most one slot is larger by at  *)
(* most one, and one that exchanged a slot for another is not larger.      *)
(***************************************************************************)
LEMMA SlotsAreCounted ==
  ASSUME NEW A \in SUBSET Slots
  PROVE  IsFiniteSet(A) /\ Cardinality(A) \in Nat
  BY SlotsAssumption, FS_Subset, FS_CardinalityType

LEMMA FewerSlots ==
  ASSUME NEW A \in SUBSET Slots, NEW B \in SUBSET A
  PROVE  Cardinality(B) <= Cardinality(A)
  BY SlotsAreCounted, FS_Subset

LEMMA OneMoreSlot ==
  ASSUME NEW A \in SUBSET Slots, NEW s \in Slots, NEW B \in SUBSET (A \cup {s})
  PROVE  Cardinality(B) <= Cardinality(A) + 1
<1>1. IsFiniteSet(A) /\ Cardinality(A) \in Nat
  BY SlotsAreCounted
<1>2. /\ Cardinality(A \cup {s}) \in Nat
      /\ Cardinality(A \cup {s}) <= Cardinality(A) + 1
  BY <1>1, FS_AddElement
<1>3. A \cup {s} \in SUBSET Slots
  OBVIOUS
<1>4. Cardinality(B) <= Cardinality(A \cup {s})
  BY <1>3, FewerSlots
<1>5. Cardinality(B) \in Nat
  BY <1>3, SlotsAreCounted
<1> QED
  BY <1>1, <1>2, <1>4, <1>5

LEMMA SlotExchanged ==
  ASSUME NEW A \in SUBSET Slots, NEW s \in Slots, NEW t \in A, NEW B \in SUBSET ((A \ {t}) \cup {s})
  PROVE  Cardinality(B) <= Cardinality(A)
<1>1. IsFiniteSet(A) /\ Cardinality(A) \in Nat
  BY SlotsAreCounted
<1>2. Cardinality(A \ {t}) = Cardinality(A) - 1
  BY <1>1, FS_RemoveElement
<1>3. Cardinality(B) <= Cardinality(A \ {t}) + 1
  BY OneMoreSlot
<1>4. Cardinality(B) \in Nat
  BY SlotsAreCounted
<1> QED
  BY <1>1, <1>2, <1>3, <1>4

(***************************************************************************)
(* A step that fills no free slot, gives no message to another job and     *)
(* leaves every acknowledging execution so, adds no message to any job.    *)
(***************************************************************************)
LEMMA NoNewCopy ==
  ASSUME \A s \in Slots : msg'[s].state # "free" => msg[s].state # "free" /\ msg'[s].job = msg[s].job,
         \A w \in Workers : worker[w].pc = "ack" =>
           \/ worker'[w].pc = "ack" /\ worker'[w].slot = worker[w].slot
           \/ msg'[worker[w].slot].state = "free"
  PROVE  \A j \in Jobs : Copies(j)' \subseteq Copies(j)
  BY DEF Copies

\* What a step of the API server, or of an execution that sends nothing and
\* survives, does to the messages.
LEMMA QuietStep ==
  ASSUME TypeInv, [Next]_vars,
         \A p \in Procs : ~DispatchSend(p),
         \A w \in Workers : ~Reschedule(w) /\ ~WorkerCrash(w)
  PROVE  \A j \in Jobs : Copies(j)' \subseteq Copies(j)
<1>0. TypeOK /\ Linked
  BY DEF TypeInv
<1>1. NoMessage.state = "free"
  BY DEF NoMessage
<1>2. CASE UNCHANGED <<msg, worker>>
  BY <1>2, NoNewCopy
<1>3. CASE Tick
  <2>1. \A s \in Slots : msg'[s].state = msg[s].state /\ msg'[s].job = msg[s].job
    BY <1>0, <1>3 DEF Tick, TypeOK, Message
  <2>2. \A w \in Workers : worker'[w].pc = worker[w].pc /\ worker'[w].slot = worker[w].slot
    BY <1>0, <1>3 DEF Tick, TypeOK, WorkerState
  <2> QED
    BY <2>1, <2>2, NoNewCopy
<1>4. ASSUME NEW w \in Workers, NEW s \in Slots, Claim(w, s)
      PROVE  \A j \in Jobs : Copies(j)' \subseteq Copies(j)
  <2>1. \A t \in Slots : msg'[t].state # "free" => msg[t].state # "free" /\ msg'[t].job = msg[t].job
    BY <1>0, <1>4 DEF Claim, Deliverable, TypeOK, Message
  <2>2. worker[w].pc # "ack" /\ \A v \in Workers : v # w => worker'[v] = worker[v]
    BY <1>0, <1>4 DEF Claim, TypeOK
  <2> QED
    BY <2>1, <2>2, NoNewCopy
<1>5. ASSUME NEW w \in Workers, NEW s \in Slots, Refuse(w, s)
      PROVE  \A j \in Jobs : Copies(j)' \subseteq Copies(j)
  BY <1>0, <1>1, <1>5, NoNewCopy DEF Refuse, TypeOK
<1>6. ASSUME NEW w \in Workers, Finish(w) \/ Park(w) \/ Stamp(w) \/ RescheduleRefused(w) \/ Checkpoint(w)
      PROVE  \A j \in Jobs : Copies(j)' \subseteq Copies(j)
  <2>1. /\ msg' = msg /\ worker[w].pc # "ack"
        /\ \A v \in Workers : v # w => worker'[v] = worker[v]
    BY <1>0, <1>6 DEF Finish, Park, Stamp, RescheduleRefused, Checkpoint, WorkerWrites, TypeOK
  <2> QED
    BY <2>1, NoNewCopy
<1>7. ASSUME NEW w \in Workers, Raise(w)
      PROVE  \A j \in Jobs : Copies(j)' \subseteq Copies(j)
  <2>1. worker[w].slot \in Slots /\ msg[worker[w].slot].state = "taken"
    BY <1>0, <1>7 DEF Raise, Linked, OwnsMessage
  <2>2. \A t \in Slots : msg'[t].state # "free" => msg[t].state # "free" /\ msg'[t].job = msg[t].job
    BY <1>0, <1>7, <2>1 DEF Raise, TypeOK, Message
  <2>3. worker[w].pc # "ack" /\ \A v \in Workers : v # w => worker'[v] = worker[v]
    BY <1>0, <1>7 DEF Raise, TypeOK
  <2> QED
    BY <2>2, <2>3, NoNewCopy
<1>8. ASSUME NEW w \in Workers, Acknowledge(w)
      PROVE  \A j \in Jobs : Copies(j)' \subseteq Copies(j)
  <2>1. worker[w].slot \in Slots
    BY <1>0, <1>8 DEF Acknowledge, Linked, OwnsMessage
  <2>2. /\ msg'[worker[w].slot].state = "free"
        /\ \A t \in Slots : msg'[t].state # "free" => msg[t].state # "free" /\ msg'[t].job = msg[t].job
    BY <1>0, <1>1, <1>8, <2>1 DEF Acknowledge, TypeOK
  <2>3. \A v \in Workers : v # w => worker'[v] = worker[v]
    BY <1>0, <1>8 DEF Acknowledge, TypeOK
  <2> QED
    BY <2>2, <2>3, NoNewCopy
<1>9. \/ UNCHANGED <<msg, worker>> \/ Tick
      \/ \E w \in Workers : \/ \E s \in Slots : Claim(w, s) \/ Refuse(w, s)
                            \/ Finish(w) \/ Park(w) \/ Stamp(w) \/ RescheduleRefused(w) \/ Checkpoint(w)
                            \/ Raise(w) \/ Acknowledge(w)
  <2>1. ASSUME NEW p \in Procs,
               Requesting(p) \/ Dispatching(p) \/ DispatchSendFails(p) \/ Reconciling(p) \/ ProcCrash(p)
        PROVE  UNCHANGED <<msg, worker>>
    <3>1. Requesting(p) => UNCHANGED <<msg, worker>>
      BY DEF Requesting, CreateJob, CancelRead, RetryRead, CancelCommit, RetryCommit, PromoteScheduled
    <3>2. Dispatching(p) => UNCHANGED <<msg, worker>>
      BY DEF Dispatching, DispatchSkip, DispatchRead, DispatchMark, DispatchMarkFailed
    <3>3. Reconciling(p) => UNCHANGED <<msg, worker>>
      BY DEF Reconciling, ReconcileScan, ReconcileCommit, LoopRequeue, LoopRedo
    <3> QED
      BY <2>1, <3>1, <3>2, <3>3 DEF DispatchSendFails, ProcCrash
  <2>2. \A j \in Jobs : ScheduleJob(j) => UNCHANGED <<msg, worker>>
    BY DEF ScheduleJob
  <2>3. UNCHANGED vars => UNCHANGED <<msg, worker>>
    BY DEF vars
  <2> QED
    BY <2>1, <2>2, <2>3 DEF Next, Receiving, Executing
<1> QED
  BY <1>2, <1>3, <1>4, <1>5, <1>6, <1>7, <1>8, <1>9

\* A dispatch adds one message, to the job it enqueues.
LEMMA SendAddsCopy ==
  ASSUME TypeOK, NEW p \in Procs, DispatchSend(p), NEW j \in Jobs
  PROVE  \/ Copies(j)' \subseteq Copies(j)
         \/ Enqueues(p, j) /\ \E s \in Slots : Copies(j)' \subseteq Copies(j) \cup {s}
<1>1. PICK s \in Slots :
        msg' = [msg EXCEPT ![s] = [state |-> "waiting", job |-> proc[p].job, retries |-> 0,
                                   max |-> ActorMaxRetries, due |-> 0]]
  BY DEF DispatchSend
<1>2. msg'[s].job = proc[p].job /\ \A t \in Slots : t # s => msg'[t] = msg[t]
  BY <1>1 DEF TypeOK
<1>3. worker' = worker
  BY DEF DispatchSend
<1>4. j = proc[p].job => Enqueues(p, j)
  BY DEF DispatchSend, Goto, Enqueues, TypeOK, ProcState
<1>5. Copies(j)' \subseteq Copies(j) \cup {s}
  BY <1>2, <1>3 DEF Copies
<1>6. j # proc[p].job => Copies(j)' \subseteq Copies(j)
  BY <1>2, <1>3 DEF Copies
<1> QED
  BY <1>4, <1>5, <1>6

\* The successor takes the place of the message that is only acknowledged.
LEMMA SuccessorReplaces ==
  ASSUME TypeOK, Linked, NEW w \in Workers, Reschedule(w), NEW j \in Jobs
  PROVE  \/ Copies(j)' \subseteq Copies(j)
         \/ /\ worker[w].slot \in Copies(j)
            /\ \E s \in Slots : Copies(j)' \subseteq (Copies(j) \ {worker[w].slot}) \cup {s}
<1>1. PICK s \in Slots :
        /\ msg[s].state = "free"
        /\ msg' = [msg EXCEPT ![s] = [state |-> "waiting", job |-> worker[w].job,
                                      retries |-> msg[worker[w].slot].retries + 1,
                                      max |-> MaxJobReschedules, due |-> worker[w].delay]]
  BY DEF Reschedule
<1>2. msg'[s].job = worker[w].job /\ \A t \in Slots : t # s => msg'[t] = msg[t]
  BY <1>1 DEF TypeOK
<1>3. /\ worker[w].pc = "resched" /\ worker'[w].pc = "ack" /\ worker'[w].slot = worker[w].slot
      /\ \A v \in Workers : v # w => worker'[v] = worker[v]
  BY DEF Reschedule, TypeOK, WorkerState
<1>4. /\ worker[w].slot \in Slots /\ msg[worker[w].slot].state = "taken"
      /\ msg[worker[w].slot].job = worker[w].job
  BY <1>3 DEF Linked, OwnsMessage
<1>5. \A v \in Workers : worker[v].slot = worker[w].slot /\ worker[v].pc = "ack" => FALSE
  BY <1>3 DEF Linked, OwnsAlone
<1>6. j = worker[w].job => worker[w].slot \in Copies(j)
  BY <1>4, <1>5 DEF Copies
<1>7. worker[w].slot \notin Copies(j)'
  BY <1>3 DEF Copies
<1>8. Copies(j)' \subseteq Copies(j) \cup {s}
  BY <1>2, <1>3 DEF Copies
<1>9. j # worker[w].job => s \notin Copies(j)'
  BY <1>2 DEF Copies
<1> QED
  BY <1>6, <1>7, <1>8, <1>9

\* The message of a dead execution is delivered again.
LEMMA CrashAddsCopy ==
  ASSUME TypeOK, Linked, NEW w \in Workers, WorkerCrash(w)
  PROVE  \A j \in Jobs : Copies(j)' \subseteq Copies(j) \cup {worker[w].slot}
<1>1. worker[w].slot \in Slots
  BY DEF WorkerCrash, Linked, OwnsMessage
<1>2. \A t \in Slots : t # worker[w].slot => msg'[t] = msg[t]
  BY <1>1 DEF WorkerCrash, TypeOK
<1>3. \A v \in Workers : v # w => worker'[v] = worker[v]
  BY DEF WorkerCrash, TypeOK
<1> QED
  BY <1>2, <1>3 DEF Copies

CopiesInv == TypeInv /\ enqueued \in [Jobs -> Nat] /\ CopiesBounded

LEMMA CopiesInit == HInit => CopiesInv
<1> SUFFICES ASSUME HInit PROVE CopiesInv
  OBVIOUS
<1>1. TypeInv
  BY TypeInvInit DEF HInit
<1>2. NoMessage.state = "free"
  BY DEF NoMessage
<1>3. \A j \in Jobs : Copies(j) = {}
  BY <1>2 DEF HInit, Init, Copies
<1>4. CopiesBounded
  BY <1>3, FS_EmptySet DEF CopiesBounded, HInit, Init
<1> QED
  BY <1>1, <1>4 DEF CopiesInv, HInit

LEMMA CopiesNext ==
  ASSUME CopiesInv, [HNext]_hvars
  PROVE  CopiesInv'
<1>1. TypeInv /\ TypeOK /\ Linked /\ [Next]_vars
  BY DEF CopiesInv, TypeInv, HNext, hvars, vars
<1>2. TypeInv'
  BY <1>1, TypeInvNext
<1>3. CASE UNCHANGED hvars
  BY <1>2, <1>3 DEF CopiesInv, CopiesBounded, Copies, hvars
<1>4. CASE HNext
  <2>1. /\ enqueued' \in [Jobs -> Nat]
        /\ \A j \in Jobs : enqueued'[j] >= enqueued[j] /\ enqueued[j] \in Nat /\ enqueued'[j] \in Nat
    BY <1>4 DEF HNext, History, CopiesInv
  <2>2. \A j \in Jobs : (\E p \in Procs : Enqueues(p, j)) => enqueued'[j] = enqueued[j] + 1
    BY <1>4 DEF HNext, History
  <2>3. crashes \in Nat /\ crashes' \in Nat
    BY <1>1, <1>2, ConstantsAssumption DEF TypeInv, TypeOK
  <2>4. crashes' >= crashes
    <3>1. crashes' = crashes \/ crashes' = crashes + 1
      <4>1. \A p \in Procs : Requesting(p) \/ Dispatching(p) \/ DispatchSendFails(p) \/ Reconciling(p)
                             => crashes' = crashes
        <5>1. \A p \in Procs : Requesting(p) => crashes' = crashes
          BY DEF Requesting, CreateJob, CancelRead, RetryRead, CancelCommit, RetryCommit, PromoteScheduled
        <5>2. \A p \in Procs : Dispatching(p) => crashes' = crashes
          BY DEF Dispatching, DispatchSkip, DispatchRead, DispatchSend, DispatchMark, DispatchMarkFailed
        <5>3. \A p \in Procs : Reconciling(p) => crashes' = crashes
          BY DEF Reconciling, ReconcileScan, ReconcileCommit, LoopRequeue, LoopRedo
        <5> QED
          BY <5>1, <5>2, <5>3 DEF DispatchSendFails
      <4>2. \A w \in Workers : Receiving(w) \/ Executing(w) \/ Checkpoint(w) => crashes' = crashes
        BY DEF Receiving, Claim, Refuse, Executing, Finish, Park, Stamp, Reschedule, RescheduleRefused,
               Raise, Acknowledge, Checkpoint
      <4> QED
        BY <1>4, <4>1, <4>2 DEF HNext, Next, ScheduleJob, ProcCrash, WorkerCrash, Tick
    <3> QED
      BY <2>3, <3>1
  <2>5. \A j \in Jobs : /\ Copies(j) \in SUBSET Slots /\ Copies(j)' \in SUBSET Slots
                        /\ Cardinality(Copies(j)) \in Nat /\ Cardinality(Copies(j)') \in Nat
                        /\ Cardinality(Copies(j)) <= enqueued[j] + crashes
    BY SlotsAreCounted DEF Copies, CopiesInv, CopiesBounded
  <2>6. ASSUME NEW j \in Jobs, Cardinality(Copies(j)') <= Cardinality(Copies(j))
        PROVE  Cardinality(Copies(j)') <= enqueued'[j] + crashes'
    BY <2>1, <2>3, <2>4, <2>5, <2>6
  <2>7. ASSUME NEW j \in Jobs, Copies(j)' \subseteq Copies(j)
        PROVE  Cardinality(Copies(j)') <= enqueued'[j] + crashes'
    BY <2>5, <2>6, <2>7, FewerSlots
  <2>8. ASSUME NEW p \in Procs, DispatchSend(p), NEW j \in Jobs
        PROVE  Cardinality(Copies(j)') <= enqueued'[j] + crashes'
    <3>1. CASE Enqueues(p, j) /\ \E s \in Slots : Copies(j)' \subseteq Copies(j) \cup {s}
      <4>1. PICK s \in Slots : Copies(j)' \subseteq Copies(j) \cup {s}
        BY <3>1
      <4>2. Cardinality(Copies(j)') <= Cardinality(Copies(j)) + 1
        BY <2>5, <4>1, OneMoreSlot
      <4>3. enqueued'[j] = enqueued[j] + 1
        BY <2>2, <3>1
      <4> QED
        BY <2>1, <2>3, <2>4, <2>5, <4>2, <4>3
    <3> QED
      BY <1>1, <2>7, <2>8, <3>1, SendAddsCopy
  <2>9. ASSUME NEW w \in Workers, Reschedule(w), NEW j \in Jobs
        PROVE  Cardinality(Copies(j)') <= enqueued'[j] + crashes'
    <3>1. CASE /\ worker[w].slot \in Copies(j)
               /\ \E s \in Slots : Copies(j)' \subseteq (Copies(j) \ {worker[w].slot}) \cup {s}
      <4>1. PICK s \in Slots : Copies(j)' \subseteq (Copies(j) \ {worker[w].slot}) \cup {s}
        BY <3>1
      <4>2. Cardinality(Copies(j)') <= Cardinality(Copies(j))
        BY <2>5, <3>1, <4>1, SlotExchanged
      <4> QED
        BY <2>6, <4>2
    <3> QED
      BY <1>1, <2>7, <2>9, <3>1, SuccessorReplaces
  <2>10. ASSUME NEW w \in Workers, WorkerCrash(w), NEW j \in Jobs
         PROVE  Cardinality(Copies(j)') <= enqueued'[j] + crashes'
    <3>1. worker[w].slot \in Slots /\ crashes' = crashes + 1
      BY <1>1, <2>10 DEF WorkerCrash, Linked, OwnsMessage
    <3>2. Cardinality(Copies(j)') <= Cardinality(Copies(j)) + 1
      BY <1>1, <2>5, <2>10, <3>1, CrashAddsCopy, OneMoreSlot
    <3> QED
      BY <2>1, <2>3, <2>5, <3>1, <3>2
  <2>11. CopiesBounded'
    <3> SUFFICES ASSUME NEW j \in Jobs PROVE Cardinality(Copies(j)') <= enqueued'[j] + crashes'
      BY DEF CopiesBounded
    <3> QED
      BY <1>1, <2>7, <2>8, <2>9, <2>10, QuietStep
  <2> QED
    BY <1>2, <2>1, <2>11 DEF CopiesInv
<1> QED
  BY <1>3, <1>4

(***************************************************************************)
(* For any number of jobs, workers, coroutines and slots: parking, raising *)
(* and redelivering never multiply the messages of a job.  Only a dispatch *)
(* and a crash can add one, and each adds one at most.                     *)
(***************************************************************************)
THEOREM MessagesAreBounded == HSpec => []CopiesBounded
<1>1. CopiesInv => CopiesBounded
  BY DEF CopiesInv
<1> QED
  BY <1>1, CopiesInit, CopiesNext, PTL DEF HSpec
=============================================================================
