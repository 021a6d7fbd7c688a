------------------------ MODULE AgentJobQueueHistory ------------------------
(***************************************************************************)
(* AgentJobQueue with history variables, for the properties that relate a  *)
(* state to what happened before it: how often a job was enqueued, and     *)
(* whether its row was taken away from under an execution.  The history    *)
(* never constrains the system, except for the bound on enqueues.          *)
(***************************************************************************)
EXTENDS AgentJobQueue

CONSTANT MaxEnqueues  \* bound: dispatches of one job that reach the broker

ASSUME MaxEnqueuesAssumption == MaxEnqueues \in Nat

VARIABLES
  enqueued,    \* messages the dispatcher has sent for the job
  overwritten  \* the row left "running" while a worker was executing the job

hvars == <<job, msg, worker, proc, crashes, enqueued, overwritten>>

Enqueues(p, j) == proc[p].pc = "send" /\ proc'[p].pc = "mark" /\ proc[p].job = j

Overwrites(j) ==
  \E w \in Workers : Executes(w, j) /\ Executes(w, j)' /\ job'[j].status # "running"

HInit ==
  /\ Init
  /\ enqueued = [j \in Jobs |-> 0]
  /\ overwritten = [j \in Jobs |-> FALSE]

History ==
  /\ enqueued' = [j \in Jobs |->
       IF \E p \in Procs : Enqueues(p, j) THEN enqueued[j] + 1 ELSE enqueued[j]]
  /\ overwritten' = [j \in Jobs |-> overwritten[j] \/ Overwrites(j)]

HNext ==
  /\ Next
  /\ History
  /\ \A j \in Jobs : enqueued'[j] <= MaxEnqueues

HSpec == HInit /\ [][HNext]_hvars

-----------------------------------------------------------------------------
\* The claim is the only gate an execution needs: as long as nobody takes the
\* row out of "running" under a worker that executes the job, no second worker
\* executes it, however many messages are in flight (worker.py 663-692).
ClaimExclusive ==
  \A j \in Jobs : \A w, v \in Workers :
    ~overwritten[j] /\ Executes(w, j) /\ Executes(v, j) => w = v

\* The messages that stand for an execution still to come or under way: an
\* execution that has sent its successor, or ended, only has to acknowledge.
Copies(j) ==
  {s \in Slots : /\ msg[s].state # "free" /\ msg[s].job = j
                 /\ ~\E w \in Workers : worker[w].slot = s /\ worker[w].pc = "ack"}

\* Retrying, parking and redelivering never multiply the messages of a job:
\* there are at most as many as the dispatcher sent, plus one for each crash
\* between the sending of a successor and the acknowledgement.
CopiesBounded ==
  \A j \in Jobs : Cardinality(Copies(j)) <= enqueued[j] + crashes

=============================================================================
