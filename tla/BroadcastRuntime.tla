--------------------------- MODULE BroadcastRuntime ---------------------------
(***************************************************************************)
(* Executions of the jobs that send one agent's message to many: the       *)
(* broadcast to the members of a group or to groups                        *)
(* (GroupMemberBroadcastRuntime) and the send to claimed members           *)
(* (SendToClaimedMembersRuntime), bot/agents/runtime.py.  All jobs have    *)
(* the same agent, group and text, so that their rows of                   *)
(* sent_broadcast_messages exclude each other; those of a broadcast to     *)
(* groups carry no user and exclude nothing.                               *)
(*                                                                         *)
(* Which job may be executed when is AgentJobQueue's subject: here a job   *)
(* that is ready is started by any worker, one that a crash or an          *)
(* exception left running is recovered, and neither the recovery nor a     *)
(* cancellation stops an execution that is at work.  No recipient is       *)
(* blacklisted, the threshold takes all recipients, and no row grows older *)
(* than seven days.                                                        *)
(***************************************************************************)
EXTENDS Integers, FiniteSets

CONSTANTS
  Jobs,
  Kind,        \* of a job: "members", "claimed" or "groups"
  Workers,     \* executions that may be under way at a time
  Recipients,  \* the users, or the groups
  Batch,       \* sends after which a checkpoint is due (10)
  MaxPerDay,   \* the agent's max_messages_per_day
  MaxStarts,   \* bound: executions of one job
  Requests,    \* what users do: subset of {"cancel", "retry"}
  None

Kinds == {"members", "claimed", "groups"}

ASSUME BroadcastAssumption ==
  /\ Kind \in [Jobs -> Kinds]
  /\ IsFiniteSet(Workers) /\ Workers # {}
  /\ IsFiniteSet(Recipients)
  /\ Batch \in Nat \ {0}
  /\ MaxPerDay \in Nat \ {0}
  /\ MaxStarts \in Nat
  /\ None \notin Recipients /\ None \notin Jobs

VARIABLES
  status,    \* of the job's row
  progress,  \* sent_users in the job's row
  rows,      \* the job's rows for a recipient, by status
  work,      \* the executions
  contacts,  \* Redis: the users the agent contacted today
  sends,     \* Telegram: deliveries of the job's text to a recipient
  starts,    \* executions of the job so far
  overlap    \* history: an execution of the job began during another

jobVars == <<status, progress, starts, overlap>>
vars == <<status, progress, rows, work, contacts, sends, starts, overlap>>

Statuses == {"ready", "running", "completed", "failed", "aborted"}
RowStatuses == {"pending", "sent", "failed"}

\* An execution: already is the local variable already_sent; saved and stored are
\* the sent_users of the local progress and of the session's copy of the job's
\* row, one and the same object (shared) after a checkpoint; row is the status of
\* the row of the recipient in hand.
Idle == [pc |-> "idle", job |-> None, todo |-> {}, cur |-> None,
         already |-> {}, saved |-> {}, stored |-> {}, shared |-> FALSE, row |-> "none"]

Executes(w, j) == work[w].pc # "idle" /\ work[w].job = j
ToUsers(j) == Kind[j] # "groups"
Live(j, r) == rows[j][r]["pending"] + rows[j][r]["sent"]
Delivered(j) == {r \in Recipients : sends[j][r] > 0}

Init ==
  /\ status = [j \in Jobs |-> "ready"]
  /\ progress = [j \in Jobs |-> {}]
  /\ rows = [j \in Jobs |-> [r \in Recipients |-> [s \in RowStatuses |-> 0]]]
  /\ work = [w \in Workers |-> Idle]
  /\ contacts = {}
  /\ sends = [j \in Jobs |-> [r \in Recipients |-> 0]]
  /\ starts = [j \in Jobs |-> 0]
  /\ overlap = [j \in Jobs |-> FALSE]

-----------------------------------------------------------------------------
(* What an execution does to its row, to the job and to itself.            *)

\* The row in hand changes its status.
Marked(w, to) ==
  LET j == work[w].job  r == work[w].cur IN
  rows' = [rows EXCEPT ![j][r][work[w].row] = @ - 1, ![j][r][to] = @ + 1]

Go(w, pc) == work' = [work EXCEPT ![w].pc = pc]
NextRecipient(x) == [x EXCEPT !.pc = "loop", !.cur = None, !.row = "none"]
Leave(w) == work' = [work EXCEPT ![w] = Idle]
SetJob(j, s) == status' = [status EXCEPT ![j] = s]

\* The session's copy of the row is written back with its new status.
Store(x, s, sent) ==
  /\ SetJob(x.job, s)
  /\ progress' = [progress EXCEPT ![x.job] = sent]

-----------------------------------------------------------------------------
(* Beginning and end of an execution.                                      *)

\* The bound: nothing brings back the row of a job that may not start again.
MayStart(j) == starts[j] < MaxStarts

\* The claim of the worker; the payload is read with it.
Begin(w, j) ==
  /\ work[w].pc = "idle"
  /\ status[j] = "ready"
  /\ MayStart(j)
  /\ SetJob(j, "running")
  /\ starts' = [starts EXCEPT ![j] = @ + 1]
  /\ overlap' = [overlap EXCEPT ![j] = @ \/ \E v \in Workers : Executes(v, j)]
  /\ work' = [work EXCEPT ![w] = [Idle EXCEPT
       !.pc = "prefetch", !.job = j,
       !.already = progress[j], !.saved = progress[j], !.stored = progress[j]]]
  /\ UNCHANGED <<progress, rows, contacts, sends>>

\* Rows that a crash left pending do not count.
RecentlySentOnly ==
  {r \in Recipients : \E j \in Jobs : ToUsers(j) /\ rows[j][r]["sent"] > 0}

\* The dedup query: users who have a row that is not failed, of any job.
RecentlySent == {r \in Recipients : \E j \in Jobs : ToUsers(j) /\ Live(j, r) > 0}

\* Only the broadcast to members leaves out the recipients in sent_users; the
\* broadcast to groups leaves out none.
Prefetch(w) ==
  LET x == work[w] IN
  /\ x.pc = "prefetch"
  /\ work' = [work EXCEPT
       ![w].pc = "loop",
       ![w].todo = CASE Kind[x.job] = "members" -> (Recipients \ x.already) \ RecentlySent
                     [] Kind[x.job] = "claimed" -> Recipients \ RecentlySent
                     [] Kind[x.job] = "groups" -> Recipients]
  /\ UNCHANGED <<jobVars, rows, contacts, sends>>

\* The worker stores the progress of the last checkpoint.  A broadcast to groups
\* keeps its success_count up to date, the others that of the checkpoint.
Finish(w) ==
  LET x == work[w]
      succeeded == IF ToUsers(x.job) THEN x.saved # {} ELSE x.already # {} IN
  /\ x.pc = "loop" /\ x.todo = {}
  /\ Store(x, IF succeeded THEN "completed" ELSE "failed", x.saved)
  /\ Leave(w)
  /\ UNCHANGED <<rows, contacts, sends, starts, overlap>>

\* A limit is reached or the database fails; the last attempt fails the job, any
\* other leaves the row as it is.
Raise(w) ==
  /\ work[w].pc # "idle"
  /\ \/ Store(work[w], "failed", work[w].stored)
     \/ UNCHANGED <<status, progress>>
  /\ Leave(w)
  /\ UNCHANGED <<rows, contacts, sends, starts, overlap>>

Crash(w) ==
  /\ work[w].pc # "idle"
  /\ Leave(w)
  /\ UNCHANGED <<jobVars, rows, contacts, sends>>

-----------------------------------------------------------------------------
(* One recipient.                                                          *)

\* The count is compared with the limit as if it included this user.
AllowedOneMore(r) == r \in contacts \/ Cardinality(contacts) <= MaxPerDay

\* check_daily_limit: a user contacted today already does not count again.
Allowed(r) == r \in contacts \/ Cardinality(contacts) < MaxPerDay

Pick(w, r) ==
  /\ work[w].pc = "loop" /\ r \in work[w].todo
  /\ ToUsers(work[w].job) => Allowed(r)
  /\ work' = [work EXCEPT ![w].pc = "insert", ![w].cur = r, ![w].todo = @ \ {r}]
  /\ UNCHANGED <<jobVars, rows, contacts, sends>>

\* The row is committed before the text is sent.
InsertPending(w) ==
  LET x == work[w] IN
  /\ x.pc = "insert"
  /\ rows' = [rows EXCEPT ![x.job][x.cur]["pending"] = @ + 1]
  /\ work' = [work EXCEPT ![w].pc = "send", ![w].row = "pending"]
  /\ UNCHANGED <<jobVars, contacts, sends>>

Deliveries(w, n) == sends' = [sends EXCEPT ![work[w].job][work[w].cur] = @ + n]

Deliver(w) ==
  /\ work[w].pc = "send"
  /\ Deliveries(w, 1)
  /\ work' = [work EXCEPT ![w].pc = "mark", ![w].already = @ \cup {work[w].cur}]
  /\ UNCHANGED <<jobVars, rows, contacts>>

\* The send raises: a timeout, or the second of several texts, may raise
\* although something was delivered.  A flood wait or a ban ends the execution.
SendRaises(w) ==
  /\ work[w].pc = "send"
  /\ \E n \in {0, 1} : Deliveries(w, n)
  /\ \E pc \in {"failed", "stopped"} : Go(w, pc)
  /\ UNCHANGED <<jobVars, rows, contacts>>

\* The handler of exceptions takes the row for pending after it was marked.
MarkSentUnseen(w) ==
  /\ work[w].pc = "mark"
  /\ Marked(w, "sent")
  /\ Go(w, "record")
  /\ UNCHANGED <<jobVars, contacts, sends>>

MarkSent(w) ==
  /\ work[w].pc = "mark"
  /\ Marked(w, "sent")
  /\ work' = [work EXCEPT ![w].pc = "record", ![w].row = "sent"]
  /\ UNCHANGED <<jobVars, contacts, sends>>

\* record_send, which counts users only.
Record(w) ==
  LET x == work[w] IN
  /\ x.pc = "record"
  /\ contacts' = IF ToUsers(x.job) THEN contacts \cup {x.cur} ELSE contacts
  /\ work' = [work EXCEPT ![w] = IF ToUsers(x.job) THEN [x EXCEPT !.pc = "checkpoint"]
                                                    ELSE NextRecipient(x)]
  /\ UNCHANGED <<jobVars, rows, sends>>

\* Redis fails: the text is delivered and its row becomes a failed one.
RecordFails(w) ==
  /\ work[w].pc = "record"
  /\ Go(w, "failed")
  /\ UNCHANGED <<jobVars, rows, contacts, sends>>

\* Due after Batch sends and when the job has no checkpoint yet, else once a minute.
CheckpointDue(w) ==
  LET x == work[w] IN x.saved = {} \/ Cardinality(x.already \ x.saved) >= Batch

Checkpoint(w) ==
  LET x == work[w] IN
  /\ x.pc = "checkpoint"
  /\ progress' = [progress EXCEPT ![x.job] = x.already]
  /\ work' = [work EXCEPT ![w] = [NextRecipient(x) EXCEPT
       !.saved = x.already, !.stored = x.already, !.shared = TRUE]]
  /\ UNCHANGED <<status, rows, contacts, sends, starts, overlap>>

NoCheckpoint(w) ==
  /\ work[w].pc = "checkpoint" /\ ~CheckpointDue(w)
  /\ work' = [work EXCEPT ![w] = NextRecipient(@)]
  /\ UNCHANGED <<jobVars, rows, contacts, sends>>

\* The loop goes on after a failure; only the broadcast to groups notes its
\* sent_users.
SettleFailed(w) ==
  LET x == work[w] IN
  /\ x.pc = "failed"
  /\ Marked(w, "failed")
  /\ work' = [work EXCEPT ![w] = [NextRecipient(x) EXCEPT
                                     !.saved = IF ToUsers(x.job) THEN @ ELSE x.already]]
  /\ UNCHANGED <<jobVars, contacts, sends>>

\* The recipient in hand is noted as sent.
NotedWithCurrent(x) == x.already \cup {x.cur}

\* sent_users, noted in the local progress when the execution stops.
Noted(x) == x.already

\* The note reaches the row only if the row shares the local progress; the worker
\* parks the job or fails it.
SettleStopped(w) ==
  LET x == work[w] IN
  /\ x.pc = "stopped"
  /\ Marked(w, "failed")
  /\ \E s \in {"ready", "failed"} : Store(x, s, IF x.shared THEN Noted(x) ELSE x.stored)
  /\ Leave(w)
  /\ UNCHANGED <<contacts, sends, starts, overlap>>

-----------------------------------------------------------------------------
(* The job's row.                                                          *)

\* Recovery and the ends of a lost execution look at the row alone.
Recover(j) ==
  /\ status[j] = "running" /\ MayStart(j)
  /\ \E s \in {"ready", "failed"} : SetJob(j, s)
  /\ UNCHANGED <<progress, rows, work, contacts, sends, starts, overlap>>

Cancel(j) ==
  /\ "cancel" \in Requests
  /\ status[j] \in {"ready", "running"}
  /\ SetJob(j, "aborted")
  /\ UNCHANGED <<progress, rows, work, contacts, sends, starts, overlap>>

\* The retry endpoint removes the progress from the payload.
Retry(j) ==
  /\ "retry" \in Requests
  /\ status[j] \in {"failed", "aborted"} /\ MayStart(j)
  /\ SetJob(j, "ready")
  /\ progress' = [progress EXCEPT ![j] = {}]
  /\ UNCHANGED <<rows, work, contacts, sends, starts, overlap>>

\* The keys of the rate limiter carry the date.
Midnight ==
  /\ contacts # {}
  /\ contacts' = {}
  /\ UNCHANGED <<jobVars, rows, work, sends>>

WorkerStep(w) ==
  \/ \E j \in Jobs : Begin(w, j)
  \/ \E r \in Recipients : Pick(w, r)
  \/ Prefetch(w) \/ InsertPending(w) \/ Deliver(w) \/ SendRaises(w) \/ MarkSent(w)
  \/ Record(w) \/ RecordFails(w) \/ Checkpoint(w) \/ NoCheckpoint(w)
  \/ SettleFailed(w) \/ SettleStopped(w) \/ Finish(w) \/ Raise(w) \/ Crash(w)

Next ==
  \/ \E w \in Workers : WorkerStep(w)
  \/ \E j \in Jobs : Recover(j) \/ Cancel(j) \/ Retry(j)
  \/ Midnight

Spec == Init /\ [][Next]_vars

-----------------------------------------------------------------------------
Execution ==
  [pc : {"idle", "prefetch", "loop", "insert", "send", "mark", "record", "checkpoint",
         "failed", "stopped"},
   job : Jobs \cup {None}, todo : SUBSET Recipients, cur : Recipients \cup {None},
   already : SUBSET Recipients, saved : SUBSET Recipients,
   stored : SUBSET Recipients, shared : BOOLEAN,
   row : {"none", "pending", "sent"}]

\* The states the variables range over: in particular a row changes its status
\* only from the one it has, so that no count falls below zero.
TypeOK ==
  /\ status \in [Jobs -> Statuses]
  /\ progress \in [Jobs -> SUBSET Recipients]
  /\ rows \in [Jobs -> [Recipients -> [RowStatuses -> Nat]]]
  /\ work \in [Workers -> Execution]
  /\ contacts \subseteq Recipients
  /\ sends \in [Jobs -> [Recipients -> Nat]]
  /\ starts \in [Jobs -> 0..MaxStarts]
  /\ overlap \in [Jobs -> BOOLEAN]

\* A job sends its text to a user again only after one of its rows for the user
\* failed, through crashes, exceptions, floods, recoveries, cancellations and
\* retries, as long as its executions follow each other (runtime.py 645-733).
ResendsAfterFailure ==
  \A j \in Jobs, r \in Recipients :
    ToUsers(j) /\ ~overlap[j] => sends[j][r] <= 1 + rows[j][r]["failed"]

\* Nobody is listed in sent_users, and left out by the next execution for it, to
\* whom nothing was delivered (runtime.py 696-728, 734-740).
ProgressIsTrue == \A j \in Jobs : progress[j] \subseteq Delivered(j)

\* The daily limit is checked before a send and counted after it, so executions
\* that run at a time may exceed it, by at most one user each but the first
\* (rate_limiter.py 107-140).
DailyLimitBound == Cardinality(contacts) <= MaxPerDay + Cardinality(Workers) - 1

\* Claim of specs/008-agent-job-resilience/spec.md:142: when two workers pick up
\* the same job the dedup rows prevent duplicate sends.
NoDuplicateSends ==
  \A j \in Jobs, r \in Recipients : ToUsers(j) => sends[j][r] <= 1 + rows[j][r]["failed"]

\* Claim of specs/008-agent-job-resilience/spec.md:192: zero duplicates when a job
\* is recovered and resumed; here of a broadcast to groups.
NoDuplicatesInGroups ==
  \A j \in Jobs, r \in Recipients :
    ~ToUsers(j) /\ ~overlap[j] => sends[j][r] <= 1 + rows[j][r]["failed"]

=============================================================================
