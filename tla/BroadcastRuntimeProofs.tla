------------------------ MODULE BroadcastRuntimeProofs ------------------------
(***************************************************************************)
(* Theorems about BroadcastRuntime for any jobs, recipients and number of  *)
(* executions at a time.                                                   *)
(*                                                                         *)
(* Type correctness needs that an execution takes from a row only the      *)
(* status it gave to it: as several executions may have rows of one job    *)
(* and recipient in hand, the invariant compares their number with the     *)
(* number of rows (Counted).                                               *)
(***************************************************************************)
EXTENDS BroadcastRuntime, FiniteSetTheorems, TLAPS

Handed == {"send", "mark", "record", "checkpoint", "failed", "stopped"}

\* What an execution has in hand at each point.
HandOK(x) ==
  /\ x.pc # "idle" => x.job \in Jobs
  /\ x.pc \in Handed \cup {"insert"} => x.cur \in Recipients
  /\ x.pc \in {"idle", "prefetch", "loop", "insert"} => x.row = "none"
  /\ x.pc \in {"send", "mark"} => x.row = "pending"
  /\ x.pc \in {"record", "checkpoint"} => x.row = "sent"
  /\ x.pc \in {"failed", "stopped"} => x.row \in {"pending", "sent"}

\* The executions that have a row of job j, recipient r and status s in hand.
Hands(j, r, s) == {w \in Workers : work[w].job = j /\ work[w].cur = r /\ work[w].row = s}

Counted ==
  \A j \in Jobs, r \in Recipients, s \in {"pending", "sent"} :
    Cardinality(Hands(j, r, s)) <= rows[j][r][s]

TypeInv == TypeOK /\ Counted /\ \A w \in Workers : HandOK(work[w])

-----------------------------------------------------------------------------
(* The steps of an execution, as far as the invariants see them.           *)

\* Only the execution w changes.
Only(w) ==
  /\ work' \in [Workers -> Execution]
  /\ \A v \in Workers : v # w => work'[v] = work[v]

Moves(w, pc, cur, todo, row) ==
  /\ Only(w)
  /\ work'[w].job = work[w].job
  /\ work'[w].pc = pc
  /\ work'[w].cur = cur
  /\ work'[w].todo = todo
  /\ work'[w].row = row

LEMMA IdleType == Idle \in Execution /\ HandOK(Idle)
  BY DEF Idle, Execution, HandOK, Handed

LEMMA LeaveOnly ==
  ASSUME work \in [Workers -> Execution], NEW w \in Workers, Leave(w)
  PROVE  Only(w) /\ work'[w] = Idle
  BY IdleType DEF Leave, Only

LEMMA BeginMoves ==
  ASSUME TypeOK, NEW w \in Workers, NEW j \in Jobs, Begin(w, j)
  PROVE  /\ Only(w)
         /\ work'[w].job = j /\ work'[w].pc = "prefetch" /\ work'[w].row = "none"
         /\ work'[w].todo = {} /\ work'[w].cur = None
<1> DEFINE y == [Idle EXCEPT !.pc = "prefetch", !.job = j,
       !.already = progress[j], !.saved = progress[j], !.stored = progress[j]]
<1>1. progress[j] \in SUBSET Recipients
  BY DEF TypeOK
<1>2. /\ y \in Execution /\ y.job = j /\ y.pc = "prefetch" /\ y.row = "none"
      /\ y.todo = {} /\ y.cur = None
  BY <1>1 DEF Idle, Execution
<1>3. work' = [work EXCEPT ![w] = y]
  BY DEF Begin
<1> HIDE DEF y
<1> QED
  BY <1>2, <1>3 DEF TypeOK, Only

LEMMA PrefetchMoves ==
  ASSUME TypeOK, NEW w \in Workers, Prefetch(w), work[w].job \in Jobs
  PROVE  \E S \in SUBSET Recipients :
           /\ Moves(w, "loop", work[w].cur, S, work[w].row)
           /\ ToUsers(work[w].job) => S \cap RecentlySent = {}
<1> DEFINE x == work[w]
           S == CASE Kind[x.job] = "members" -> (Recipients \ x.already) \ RecentlySent
                  [] Kind[x.job] = "claimed" -> Recipients \ RecentlySent
                  [] Kind[x.job] = "groups" -> Recipients
<1>1. x \in Execution
  BY DEF TypeOK
<1>2. Kind[x.job] \in Kinds
  BY BroadcastAssumption
<1>3. S \in SUBSET Recipients /\ (ToUsers(x.job) => S \cap RecentlySent = {})
  BY <1>2 DEF Kinds, ToUsers
<1>4. work' = [work EXCEPT ![w].pc = "loop", ![w].todo = S]
  BY DEF Prefetch
<1> HIDE DEF S
<1>5. Moves(w, "loop", x.cur, S, x.row)
  BY <1>1, <1>3, <1>4 DEF TypeOK, Execution, Moves, Only
<1> QED
  BY <1>3, <1>5

LEMMA PickMoves ==
  ASSUME TypeOK, NEW w \in Workers, NEW r \in Recipients, Pick(w, r)
  PROVE  Moves(w, "insert", r, work[w].todo \ {r}, work[w].row)
<1>1. work[w] \in Execution
  BY DEF TypeOK
<1> QED
  BY <1>1 DEF TypeOK, Pick, Execution, Moves, Only

LEMMA InsertMoves ==
  ASSUME TypeOK, NEW w \in Workers, InsertPending(w)
  PROVE  Moves(w, "send", work[w].cur, work[w].todo, "pending")
<1>1. work[w] \in Execution
  BY DEF TypeOK
<1> QED
  BY <1>1 DEF TypeOK, InsertPending, Execution, Moves, Only

LEMMA DeliverMoves ==
  ASSUME TypeOK, NEW w \in Workers, Deliver(w), work[w].cur \in Recipients
  PROVE  Moves(w, "mark", work[w].cur, work[w].todo, work[w].row)
<1>1. work[w] \in Execution
  BY DEF TypeOK
<1> QED
  BY <1>1 DEF TypeOK, Deliver, Execution, Moves, Only

LEMMA GoMoves ==
  ASSUME TypeOK, NEW w \in Workers, NEW pc \in Handed, Go(w, pc)
  PROVE  Moves(w, pc, work[w].cur, work[w].todo, work[w].row)
<1>1. work[w] \in Execution
  BY DEF TypeOK
<1> QED
  BY <1>1 DEF TypeOK, Go, Handed, Execution, Moves, Only

LEMMA MarkSentMoves ==
  ASSUME TypeOK, NEW w \in Workers, MarkSent(w)
  PROVE  Moves(w, "record", work[w].cur, work[w].todo, "sent")
<1>1. work[w] \in Execution
  BY DEF TypeOK
<1> QED
  BY <1>1 DEF TypeOK, MarkSent, Execution, Moves, Only

LEMMA NextRecipientType ==
  ASSUME NEW x \in Execution
  PROVE  LET y == NextRecipient(x) IN
         /\ y \in Execution
         /\ y.pc = "loop" /\ y.job = x.job /\ y.cur = None /\ y.todo = x.todo
         /\ y.row = "none"
  BY DEF NextRecipient, Execution

LEMMA RecordMoves ==
  ASSUME TypeOK, NEW w \in Workers, Record(w)
  PROVE  \/ Moves(w, "checkpoint", work[w].cur, work[w].todo, work[w].row)
         \/ Moves(w, "loop", None, work[w].todo, "none")
<1>1. work[w] \in Execution
  BY DEF TypeOK
<1>2. CASE ToUsers(work[w].job)
  <2>1. work' = [work EXCEPT ![w] = [work[w] EXCEPT !.pc = "checkpoint"]]
    BY <1>2 DEF Record
  <2>2. Moves(w, "checkpoint", work[w].cur, work[w].todo, work[w].row)
    BY <1>1, <2>1 DEF TypeOK, Execution, Moves, Only
  <2> QED
    BY <2>2
<1>3. CASE ~ToUsers(work[w].job)
  <2>1. work' = [work EXCEPT ![w] = NextRecipient(work[w])]
    BY <1>3 DEF Record
  <2>2. Moves(w, "loop", None, work[w].todo, "none")
    BY <1>1, <2>1, NextRecipientType DEF TypeOK, Moves, Only
  <2> QED
    BY <2>2
<1> QED
  BY <1>2, <1>3

LEMMA NextMoves ==
  ASSUME TypeOK, NEW w \in Workers, Checkpoint(w) \/ NoCheckpoint(w) \/ SettleFailed(w)
  PROVE  Moves(w, "loop", None, work[w].todo, "none")
<1> DEFINE x == work[w]
           y == NextRecipient(x)
<1>1. x \in Execution /\ y \in Execution
      /\ y.pc = "loop" /\ y.job = x.job /\ y.cur = None /\ y.todo = x.todo /\ y.row = "none"
  BY NextRecipientType DEF TypeOK
<1>2. CASE NoCheckpoint(w)
  <2>1. work' = [work EXCEPT ![w] = y]
    BY <1>2 DEF NoCheckpoint
  <2> HIDE DEF y
  <2> QED
    BY <1>1, <2>1 DEF TypeOK, Moves, Only
<1>3. CASE Checkpoint(w)
  <2>1. work' = [work EXCEPT ![w] = [y EXCEPT !.saved = x.already, !.stored = x.already,
                                              !.shared = TRUE]]
    BY <1>3 DEF Checkpoint
  <2>2. x.already \in SUBSET Recipients
    BY <1>1 DEF Execution
  <2> HIDE DEF y
  <2> QED
    BY <1>1, <2>1, <2>2 DEF TypeOK, Execution, Moves, Only
<1>4. CASE SettleFailed(w)
  <2> DEFINE s == IF ToUsers(x.job) THEN y.saved ELSE x.already
  <2>1. work' = [work EXCEPT ![w] = [y EXCEPT !.saved = s]]
    BY <1>4 DEF SettleFailed
  <2>2. s \in SUBSET Recipients
    BY <1>1 DEF Execution
  <2> HIDE DEF y, s
  <2> QED
    BY <1>1, <2>1, <2>2 DEF TypeOK, Execution, Moves, Only
<1> QED
  BY <1>2, <1>3, <1>4

-----------------------------------------------------------------------------
(* The rows in hand are rows of the table.                                 *)

Has(w, j, r, s) == work[w].job = j /\ work[w].cur = r /\ work[w].row = s

LEMMA HandsFinite ==
  ASSUME NEW j, NEW r, NEW s
  PROVE  IsFiniteSet(Hands(j, r, s))
  BY FS_Subset, BroadcastAssumption DEF Hands

\* A step of one execution changes the number of rows in hand by one at most.
LEMMA HandsChange ==
  ASSUME NEW w \in Workers, Only(w), NEW j, NEW r, NEW s
  PROVE  /\ Cardinality(Hands(j, r, s)) \in Nat
         /\ Cardinality(Hands(j, r, s)') \in Nat
         /\ Cardinality(Hands(j, r, s)') + (IF Has(w, j, r, s) THEN 1 ELSE 0)
              = Cardinality(Hands(j, r, s)) + (IF Has(w, j, r, s)' THEN 1 ELSE 0)
<1> DEFINE H == Hands(j, r, s)
           G == Hands(j, r, s)'
<1>1. IsFiniteSet(H) /\ IsFiniteSet(G)
  <2>1. IsFiniteSet(Workers) /\ H \subseteq Workers /\ G \subseteq Workers
    BY BroadcastAssumption DEF Hands
  <2> QED
    BY <2>1, FS_Subset
<1>2. Cardinality(H) \in Nat /\ Cardinality(G) \in Nat
  BY <1>1, FS_CardinalityType
<1>3. H \ {w} = G \ {w}
  BY DEF Hands, Only
<1>4. (w \in H <=> Has(w, j, r, s)) /\ (w \in G <=> Has(w, j, r, s)')
  BY DEF Hands, Has
<1>5. /\ Cardinality(H \ {w}) = IF w \in H THEN Cardinality(H) - 1 ELSE Cardinality(H)
      /\ Cardinality(G \ {w}) = IF w \in G THEN Cardinality(G) - 1 ELSE Cardinality(G)
  BY <1>1, FS_RemoveElement
<1> DEFINE h == Cardinality(H)
           g == Cardinality(G)
           n == Cardinality(H \ {w})
<1>6. /\ h \in Nat /\ g \in Nat
      /\ n = IF w \in H THEN h - 1 ELSE h
      /\ n = IF w \in G THEN g - 1 ELSE g
  BY <1>2, <1>3, <1>5
<1> HIDE DEF H, G, h, g, n
<1>7. g + (IF w \in H THEN 1 ELSE 0) = h + (IF w \in G THEN 1 ELSE 0)
  BY <1>6
<1> QED
  BY <1>2, <1>4, <1>7 DEF H, G, h, g

\* It suffices that the rows follow what the execution takes and lays down.
LEMMA CountedFollows ==
  ASSUME TypeInv, NEW w \in Workers, Only(w),
         rows' \in [Jobs -> [Recipients -> [RowStatuses -> Nat]]],
         \A j \in Jobs, r \in Recipients, s \in {"pending", "sent"} :
           rows'[j][r][s] + (IF Has(w, j, r, s) THEN 1 ELSE 0)
             >= rows[j][r][s] + (IF Has(w, j, r, s)' THEN 1 ELSE 0)
  PROVE  Counted'
<1> SUFFICES ASSUME NEW j \in Jobs, NEW r \in Recipients, NEW s \in {"pending", "sent"}
             PROVE  Cardinality(Hands(j, r, s)') <= rows'[j][r][s]
  BY DEF Counted
<1>1. rows[j][r][s] \in Nat /\ rows'[j][r][s] \in Nat
  BY DEF TypeInv, TypeOK, RowStatuses
<1>2. Cardinality(Hands(j, r, s)) <= rows[j][r][s]
  BY DEF TypeInv, Counted
<1> QED
  BY <1>1, <1>2, HandsChange

\* A row in hand is there to be marked.
LEMMA InHand ==
  ASSUME TypeInv, NEW w \in Workers, NEW s \in {"pending", "sent"}, work[w].row = s,
         work[w].job \in Jobs, work[w].cur \in Recipients
  PROVE  rows[work[w].job][work[w].cur][s] \in Nat \ {0}
<1> DEFINE j == work[w].job
           r == work[w].cur
<1>1. w \in Hands(j, r, s)
  BY DEF Hands
<1>2. Cardinality(Hands(j, r, s)) \in Nat \ {0}
  BY <1>1, HandsFinite, FS_CardinalityType, FS_EmptySet
<1>3. Cardinality(Hands(j, r, s)) <= rows[j][r][s]
  BY DEF TypeInv, Counted
<1>4. rows[j][r][s] \in Nat
  BY DEF TypeInv, TypeOK, RowStatuses
<1> QED
  BY <1>2, <1>3, <1>4

LEMMA MarkedRows ==
  ASSUME TypeInv, NEW w \in Workers, NEW from \in {"pending", "sent"}, work[w].row = from,
         NEW to \in {"sent", "failed"}, from # to, Marked(w, to),
         work[w].job \in Jobs, work[w].cur \in Recipients
  PROVE  /\ rows' \in [Jobs -> [Recipients -> [RowStatuses -> Nat]]]
         /\ \A j \in Jobs, r \in Recipients, s \in RowStatuses :
              rows'[j][r][s] = IF j = work[w].job /\ r = work[w].cur
                               THEN CASE s = from -> rows[j][r][s] - 1
                                      [] s = to -> rows[j][r][s] + 1
                                      [] OTHER -> rows[j][r][s]
                               ELSE rows[j][r][s]
<1> DEFINE j0 == work[w].job
           r0 == work[w].cur
           f == rows[j0][r0]
           g == [f EXCEPT ![from] = @ - 1, ![to] = @ + 1]
<1>1. rows \in [Jobs -> [Recipients -> [RowStatuses -> Nat]]]
  BY DEF TypeInv, TypeOK
<1>2. f \in [RowStatuses -> Nat] /\ f[from] \in Nat \ {0}
  BY <1>1, InHand
<1>3. from \in RowStatuses /\ to \in RowStatuses
  BY DEF RowStatuses
<1>4. g \in [RowStatuses -> Nat]
  BY <1>2, <1>3
<1>5. \A s \in RowStatuses : g[s] = CASE s = from -> f[s] - 1
                                     [] s = to -> f[s] + 1
                                     [] OTHER -> f[s]
  BY <1>2, <1>3
<1>6. rows' = [rows EXCEPT ![j0] = [rows[j0] EXCEPT ![r0] = g]]
  BY <1>1, <1>2, <1>3 DEF Marked
<1> HIDE DEF f, g
<1>7. rows' \in [Jobs -> [Recipients -> [RowStatuses -> Nat]]]
  BY <1>1, <1>4, <1>6
<1>8. rows'[j0][r0] = g
  BY <1>1, <1>6
<1>9. \A j \in Jobs, r \in Recipients : ~(j = j0 /\ r = r0) => rows'[j][r] = rows[j][r]
  BY <1>1, <1>6
<1> QED
  BY <1>5, <1>7, <1>8, <1>9 DEF f

-----------------------------------------------------------------------------
(* Type correctness.                                                       *)

\* The variables a step of an execution changes besides rows and its own record.
LEMMA WorkerTypes ==
  ASSUME TypeInv, NEW w \in Workers, WorkerStep(w)
  PROVE  /\ status' \in [Jobs -> Statuses]
         /\ progress' \in [Jobs -> SUBSET Recipients]
         /\ contacts' \subseteq Recipients
         /\ sends' \in [Jobs -> [Recipients -> Nat]]
         /\ starts' \in [Jobs -> 0..MaxStarts]
         /\ overlap' \in [Jobs -> BOOLEAN]
<1> DEFINE x == work[w]
<1>1. /\ TypeOK /\ x \in Execution /\ HandOK(x)
      /\ x.already \in SUBSET Recipients /\ x.saved \in SUBSET Recipients
      /\ x.stored \in SUBSET Recipients
  BY DEF TypeInv, TypeOK, Execution
<1>2. ASSUME NEW s \in Statuses, NEW S \in SUBSET Recipients, Store(x, s, S)
      PROVE  status' \in [Jobs -> Statuses] /\ progress' \in [Jobs -> SUBSET Recipients]
  BY <1>1, <1>2 DEF Store, SetJob, TypeOK
<1>3. {"ready", "running", "completed", "failed"} \subseteq Statuses
  BY DEF Statuses
<1>4. ASSUME NEW n \in Nat, Deliveries(w, n), x.cur \in Recipients
      PROVE  sends' \in [Jobs -> [Recipients -> Nat]]
  <2>1. \A r \in Recipients, j \in Jobs : sends[j][r] + n \in Nat
    BY <1>1 DEF TypeOK
  <2> QED
    BY <1>1, <1>4, <2>1 DEF Deliveries, TypeOK
<1>5. CASE \E j \in Jobs : Begin(w, j)
  <2>1. PICK j \in Jobs : Begin(w, j)
    BY <1>5
  <2>2. starts[j] \in 0..MaxStarts /\ starts[j] < MaxStarts /\ MaxStarts \in Nat
    BY <1>1, <2>1, BroadcastAssumption DEF TypeOK, Begin, MayStart
  <2>3. starts[j] + 1 \in 0..MaxStarts
    BY <2>2
  <2>4. (overlap[j] \/ \E v \in Workers : Executes(v, j)) \in BOOLEAN
    BY <1>1 DEF TypeOK, Executes
  <2>5. overlap' \in [Jobs -> BOOLEAN]
    BY <1>1, <2>1, <2>4 DEF TypeOK, Begin
  <2> QED
    BY <1>1, <1>3, <2>1, <2>3, <2>5 DEF TypeOK, Begin, SetJob
<1>6. CASE Deliver(w)
  BY <1>1, <1>4, <1>6 DEF Deliver, jobVars, TypeOK, HandOK, Handed
<1>7. CASE SendRaises(w)
  BY <1>1, <1>4, <1>7 DEF SendRaises, jobVars, TypeOK, HandOK, Handed
<1>8. CASE Record(w)
  BY <1>1, <1>8 DEF Record, jobVars, TypeOK, HandOK, Handed
<1>9. CASE Checkpoint(w)
  BY <1>1, <1>9 DEF Checkpoint, TypeOK
<1>10. CASE SettleStopped(w)
  <2>1. (IF x.shared THEN Noted(x) ELSE x.stored) \in SUBSET Recipients
    BY <1>1 DEF Noted
  <2> QED
    BY <1>1, <1>2, <1>3, <1>10, <2>1 DEF SettleStopped, TypeOK
<1>11. CASE Finish(w)
  BY <1>1, <1>2, <1>3, <1>11 DEF Finish, TypeOK
<1>12. CASE Raise(w)
  BY <1>1, <1>2, <1>3, <1>12 DEF Raise, TypeOK
<1>13. CASE UNCHANGED <<jobVars, contacts, sends>>
  BY <1>1, <1>13 DEF jobVars, TypeOK
<1>14. CASE \E r \in Recipients : Pick(w, r)
  BY <1>13, <1>14 DEF Pick
<1> QED
  BY <1>5, <1>6, <1>7, <1>8, <1>9, <1>10, <1>11, <1>12, <1>13, <1>14
     DEF WorkerStep, Prefetch, InsertPending, MarkSent, RecordFails, NoCheckpoint,
         SettleFailed, Crash

\* An execution has what it needs in hand after each step.
LEMMA WorkerHands ==
  ASSUME TypeInv, NEW w \in Workers, WorkerStep(w)
  PROVE  Only(w) /\ HandOK(work'[w])
<1>1. TypeOK /\ work \in [Workers -> Execution] /\ HandOK(work[w])
  BY DEF TypeInv, TypeOK
<1>2. CASE \E j \in Jobs : Begin(w, j)
  BY <1>1, <1>2, BeginMoves DEF HandOK, Handed
<1>3. CASE \E r \in Recipients : Pick(w, r)
  BY <1>1, <1>3, PickMoves DEF Moves, Pick, HandOK, Handed
<1>4. CASE Prefetch(w)
  BY <1>1, <1>4, PrefetchMoves DEF Moves, Prefetch, HandOK, Handed
<1>5. CASE InsertPending(w)
  BY <1>1, <1>5, InsertMoves DEF Moves, InsertPending, HandOK, Handed
<1>6. CASE Deliver(w)
  BY <1>1, <1>6, DeliverMoves DEF Moves, Deliver, HandOK, Handed
<1>7. CASE SendRaises(w)
  BY <1>1, <1>7, GoMoves DEF Moves, SendRaises, HandOK, Handed
<1>8. CASE MarkSent(w)
  BY <1>1, <1>8, MarkSentMoves DEF Moves, MarkSent, HandOK, Handed
<1>9. CASE Record(w)
  BY <1>1, <1>9, RecordMoves DEF Moves, Record, HandOK, Handed
<1>10. CASE RecordFails(w)
  BY <1>1, <1>10, GoMoves DEF Moves, RecordFails, HandOK, Handed
<1>11. CASE Checkpoint(w) \/ NoCheckpoint(w) \/ SettleFailed(w)
  BY <1>1, <1>11, NextMoves
     DEF Moves, Checkpoint, NoCheckpoint, SettleFailed, HandOK, Handed
<1>12. CASE SettleStopped(w) \/ Finish(w) \/ Raise(w) \/ Crash(w)
  BY <1>1, <1>12, LeaveOnly, IdleType DEF SettleStopped, Finish, Raise, Crash
<1> QED
  BY <1>2, <1>3, <1>4, <1>5, <1>6, <1>7, <1>8, <1>9, <1>10, <1>11, <1>12 DEF WorkerStep

\* The rows in hand stay rows of the table.
LEMMA WorkerRows ==
  ASSUME TypeInv, NEW w \in Workers, WorkerStep(w)
  PROVE  rows' \in [Jobs -> [Recipients -> [RowStatuses -> Nat]]] /\ Counted'
<1> DEFINE x == work[w]
           Table == [Jobs -> [Recipients -> [RowStatuses -> Nat]]]
           Followed == \A j \in Jobs, r \in Recipients, s \in {"pending", "sent"} :
             rows'[j][r][s] + (IF Has(w, j, r, s) THEN 1 ELSE 0)
               >= rows[j][r][s] + (IF Has(w, j, r, s)' THEN 1 ELSE 0)
<1>1. TypeOK /\ rows \in Table /\ work \in [Workers -> Execution] /\ HandOK(x) /\ Only(w)
  BY WorkerHands DEF TypeInv, TypeOK
<1>2. SUFFICES rows' \in Table /\ Followed
  BY <1>1, CountedFollows
<1>3. \A j \in Jobs, r \in Recipients, s \in {"pending", "sent"} : rows[j][r][s] \in Nat
  BY <1>1 DEF RowStatuses
<1>4. ASSUME rows' = rows,
             \/ work'[w].row = "none"
             \/ work'[w].job = x.job /\ work'[w].cur = x.cur /\ work'[w].row = x.row
      PROVE  rows' \in Table /\ Followed
  BY <1>1, <1>3, <1>4 DEF Has
<1>5. ASSUME NEW from \in {"pending", "sent"}, x.row = from,
             NEW to \in {"sent", "failed"}, from # to, Marked(w, to),
             \/ work'[w].row = "none"
             \/ work'[w].job = x.job /\ work'[w].cur = x.cur /\ work'[w].row = to,
             x.pc \in Handed
      PROVE  rows' \in Table /\ Followed
  <2>1. x.job \in Jobs /\ x.cur \in Recipients
    BY <1>1, <1>5 DEF HandOK, Handed
  <2>2. /\ rows' \in Table
        /\ \A j \in Jobs, r \in Recipients, s \in RowStatuses :
             rows'[j][r][s] = IF j = x.job /\ r = x.cur
                              THEN CASE s = from -> rows[j][r][s] - 1
                                     [] s = to -> rows[j][r][s] + 1
                                     [] OTHER -> rows[j][r][s]
                              ELSE rows[j][r][s]
    BY <1>5, <2>1, MarkedRows
  <2>3. ASSUME NEW j \in Jobs, NEW r \in Recipients, NEW s \in {"pending", "sent"}
        PROVE  rows'[j][r][s] + (IF Has(w, j, r, s) THEN 1 ELSE 0)
                 >= rows[j][r][s] + (IF Has(w, j, r, s)' THEN 1 ELSE 0)
    <3>1. s \in RowStatuses
      BY DEF RowStatuses
    <3>2. rows[j][r][s] \in Nat
      BY <1>3
    <3>3. CASE j = x.job /\ r = x.cur
      BY <1>5, <2>2, <3>1, <3>2, <3>3 DEF Has
    <3>4. CASE ~(j = x.job /\ r = x.cur)
      BY <1>5, <2>2, <3>1, <3>2, <3>4 DEF Has
    <3> QED
      BY <3>3, <3>4
  <2> QED
    BY <2>2, <2>3
<1>6. CASE InsertPending(w)
  <2>1. x.job \in Jobs /\ x.cur \in Recipients /\ x.row = "none"
    BY <1>1, <1>6 DEF InsertPending, HandOK, Handed
  <2>2. rows' = [rows EXCEPT ![x.job][x.cur]["pending"] = @ + 1]
    BY <1>6 DEF InsertPending
  <2>3. work'[w].job = x.job /\ work'[w].cur = x.cur /\ work'[w].row = "pending"
    BY <1>1, <1>6, InsertMoves DEF Moves
  <2>4. rows' \in Table
    BY <1>1, <1>3, <2>1, <2>2 DEF RowStatuses
  <2>5. \A j \in Jobs, r \in Recipients, s \in {"pending", "sent"} :
          rows'[j][r][s] = IF j = x.job /\ r = x.cur /\ s = "pending"
                           THEN rows[j][r][s] + 1 ELSE rows[j][r][s]
    BY <1>1, <2>2 DEF RowStatuses
  <2>6. Followed
    BY <1>3, <2>1, <2>3, <2>5 DEF Has
  <2> QED
    BY <2>4, <2>6
<1>7. CASE MarkSent(w)
  <2>1. x.row = "pending" /\ x.pc \in Handed /\ Marked(w, "sent")
    BY <1>1, <1>7 DEF MarkSent, HandOK, Handed
  <2>2. work'[w].job = x.job /\ work'[w].cur = x.cur /\ work'[w].row = "sent"
    BY <1>1, <1>7, MarkSentMoves DEF Moves
  <2> QED
    BY <1>5, <2>1, <2>2
<1>8. CASE SettleFailed(w)
  <2>1. x.row \in {"pending", "sent"} /\ x.pc \in Handed /\ Marked(w, "failed")
    BY <1>1, <1>8 DEF SettleFailed, HandOK, Handed
  <2>2. work'[w].row = "none"
    BY <1>1, <1>8, NextMoves DEF Moves
  <2> QED
    BY <1>5, <2>1, <2>2
<1>9. CASE SettleStopped(w)
  <2>1. x.row \in {"pending", "sent"} /\ x.pc \in Handed /\ Marked(w, "failed")
    BY <1>1, <1>9 DEF SettleStopped, HandOK, Handed
  <2>2. work'[w].row = "none"
    BY <1>1, <1>9, LeaveOnly DEF SettleStopped, Idle
  <2> QED
    BY <1>5, <2>1, <2>2
<1>10. CASE \E j \in Jobs : Begin(w, j)
  BY <1>1, <1>4, <1>10, BeginMoves DEF Begin
<1>11. CASE \E r \in Recipients : Pick(w, r)
  <2>1. work'[w].row = "none"
    BY <1>1, <1>11, PickMoves DEF Moves, Pick, HandOK
  <2> QED
    BY <1>4, <1>11, <2>1 DEF Pick
<1>12. CASE Prefetch(w)
  <2>1. work'[w].row = "none"
    BY <1>1, <1>12, PrefetchMoves DEF Moves, Prefetch, HandOK
  <2> QED
    BY <1>4, <1>12, <2>1 DEF Prefetch
<1>13. CASE Deliver(w)
  <2>1. x.cur \in Recipients
    BY <1>1, <1>13 DEF Deliver, HandOK, Handed
  <2> QED
    BY <1>1, <1>4, <1>13, <2>1, DeliverMoves DEF Moves, Deliver
<1>14. CASE SendRaises(w) \/ RecordFails(w)
  BY <1>1, <1>4, <1>14, GoMoves DEF Moves, SendRaises, RecordFails, Handed
<1>15. CASE Record(w)
  BY <1>1, <1>4, <1>15, RecordMoves DEF Moves, Record
<1>16. CASE Checkpoint(w) \/ NoCheckpoint(w)
  BY <1>1, <1>4, <1>16, NextMoves DEF Moves, Checkpoint, NoCheckpoint
<1>17. CASE Finish(w) \/ Raise(w) \/ Crash(w)
  BY <1>1, <1>4, <1>17, LeaveOnly DEF Finish, Raise, Crash, Idle
<1> QED
  BY <1>6, <1>7, <1>8, <1>9, <1>10, <1>11, <1>12, <1>13, <1>14, <1>15, <1>16, <1>17
     DEF WorkerStep

LEMMA TypeInit == Init => TypeInv
<1> SUFFICES ASSUME Init PROVE TypeInv
  OBVIOUS
<1>1. Idle \in Execution /\ HandOK(Idle)
  BY IdleType
<1>2. TypeOK
  BY <1>1, BroadcastAssumption DEF Init, TypeOK, Statuses, RowStatuses
<1>3. Counted
  <2> SUFFICES ASSUME NEW j \in Jobs, NEW r \in Recipients, NEW s \in {"pending", "sent"}
               PROVE  Cardinality(Hands(j, r, s)) <= rows[j][r][s]
    BY DEF Counted
  <2>1. Hands(j, r, s) = {}
    BY DEF Hands, Init, Idle
  <2>2. rows[j][r][s] = 0
    BY DEF Init, RowStatuses
  <2> QED
    BY <2>1, <2>2, FS_EmptySet
<1> QED
  BY <1>1, <1>2, <1>3 DEF TypeInv, Init

\* What users and the job's row do.
LEMMA RowStep ==
  ASSUME TypeInv,
         Midnight \/ \E j \in Jobs : Recover(j) \/ Cancel(j) \/ Retry(j)
  PROVE  TypeInv'
<1>1. /\ TypeOK
      /\ rows' = rows /\ work' = work /\ sends' = sends
      /\ starts' = starts /\ overlap' = overlap
  BY DEF TypeInv, Midnight, Recover, Cancel, Retry, jobVars
<1>2. Counted' /\ (\A w \in Workers : HandOK(work[w]))'
  BY <1>1 DEF TypeInv, Counted, Hands, HandOK
<1>3. /\ status' \in [Jobs -> Statuses] /\ progress' \in [Jobs -> SUBSET Recipients]
      /\ contacts' \subseteq Recipients
  BY <1>1 DEF TypeOK, Midnight, Recover, Cancel, Retry, SetJob, Statuses, jobVars
<1> QED
  BY <1>1, <1>2, <1>3 DEF TypeInv, TypeOK, Execution

LEMMA TypeStep == TypeInv /\ [Next]_vars => TypeInv'
<1> SUFFICES ASSUME TypeInv, [Next]_vars PROVE TypeInv'
  OBVIOUS
<1>1. ASSUME NEW w \in Workers, WorkerStep(w) PROVE TypeInv'
  <2>1. Only(w) /\ HandOK(work'[w])
    BY <1>1, WorkerHands
  <2>2. TypeOK'
    BY <1>1, <2>1, WorkerTypes, WorkerRows DEF TypeOK, Only, Execution
  <2>3. \A v \in Workers : HandOK(work'[v])
    BY <2>1 DEF Only, TypeInv
  <2> QED
    BY <1>1, <2>2, <2>3, WorkerRows DEF TypeInv
<1>2. CASE UNCHANGED vars
  BY <1>2, ZenonT(30) DEF vars, TypeInv, TypeOK, Counted, Hands, HandOK, Execution
<1> QED
  BY <1>1, <1>2, RowStep DEF Next

\* An execution takes from a row only the status it gave to it, so that no count
\* of rows falls below zero, whatever executions do at a time (_send_to_recipients,
\* runtime.py 620-740).
THEOREM TypeCorrect == Spec => []TypeOK
<1>1. TypeInv => TypeOK
  BY DEF TypeInv
<1> QED
  BY TypeInit, TypeStep, <1>1, PTL DEF Spec

-----------------------------------------------------------------------------
(* The notes of who has the text.                                          *)

\* Whoever an execution holds for sent has the text.
True(x) == x.already \cup x.saved \cup x.stored \subseteq Delivered(x.job)

TrueInv == ProgressIsTrue /\ \A w \in Workers : work[w].pc # "idle" => True(work[w])

\* Deliveries are never taken back.
LEMMA DeliveredGrows ==
  ASSUME TypeInv, [Next]_vars
  PROVE  \A j \in Jobs, r \in Recipients : sends[j][r] > 0 => sends'[j][r] > 0
<1>1. sends \in [Jobs -> [Recipients -> Nat]]
  BY DEF TypeInv, TypeOK
<1>2. ASSUME NEW w \in Workers, NEW n \in Nat, Deliveries(w, n)
      PROVE  \A j \in Jobs, r \in Recipients : sends[j][r] > 0 => sends'[j][r] > 0
  BY <1>1, <1>2 DEF Deliveries
<1>3. CASE sends' = sends
  BY <1>3
<1>4. ASSUME NEW w \in Workers, Deliver(w) \/ SendRaises(w)
      PROVE  \A j \in Jobs, r \in Recipients : sends[j][r] > 0 => sends'[j][r] > 0
  BY <1>2, <1>4 DEF Deliver, SendRaises
<1> QED
  BY <1>3, <1>4
     DEF Next, WorkerStep, vars, jobVars, Begin, Pick, Prefetch, InsertPending, MarkSent,
         Record, RecordFails, Checkpoint, NoCheckpoint, SettleFailed, SettleStopped, Finish,
         Raise, Crash, Recover, Cancel, Retry, Midnight

\* What an execution notes is what it has noted before, or the recipient in hand
\* after the delivery.
LEMMA WorkerNotes ==
  ASSUME TypeInv, TrueInv, NEW w \in Workers, WorkerStep(w)
  PROVE  work'[w].pc # "idle" => True(work[w])'
<1> DEFINE x == work[w]
           y == work'[w]
<1>1. /\ TypeOK /\ x \in Execution /\ HandOK(x) /\ work \in [Workers -> Execution]
      /\ x.already \in SUBSET Recipients /\ x.saved \in SUBSET Recipients
      /\ x.stored \in SUBSET Recipients
  BY DEF TypeInv, TypeOK, Execution
<1>2. \A j \in Jobs : Delivered(j) \subseteq Delivered(j)'
  BY DeliveredGrows DEF Next, Delivered
<1>3. x.pc # "idle" => x.job \in Jobs /\ True(x)
  BY <1>1 DEF TrueInv, HandOK
<1>4. CASE \E j \in Jobs : Begin(w, j)
  <2>1. PICK j \in Jobs : Begin(w, j)
    BY <1>4
  <2>2. y.job = j /\ y.already = progress[j] /\ y.saved = progress[j] /\ y.stored = progress[j]
    BY <1>1, <2>1 DEF Begin, Idle
  <2>3. progress[j] \subseteq Delivered(j)
    BY DEF TrueInv, ProgressIsTrue
  <2> QED
    BY <1>2, <2>2, <2>3 DEF True
<1>5. CASE y = Idle
  BY <1>5 DEF Idle
<1>6. CASE Deliver(w)
  <2>1. x.job \in Jobs /\ x.cur \in Recipients /\ True(x)
    BY <1>1, <1>3, <1>6 DEF Deliver, HandOK, Handed
  <2>2. y = [x EXCEPT !.pc = "mark", !.already = @ \cup {x.cur}]
    BY <1>1, <1>6 DEF Deliver
  <2>3. y.job = x.job /\ y.already = x.already \cup {x.cur} /\ y.saved = x.saved
        /\ y.stored = x.stored
    BY <1>1, <2>2 DEF Execution
  <2>4. sends'[x.job][x.cur] > 0
    <3>1. sends[x.job][x.cur] \in Nat /\ sends \in [Jobs -> [Recipients -> Nat]]
      BY <1>1, <2>1 DEF TypeOK
    <3>2. sends'[x.job][x.cur] = sends[x.job][x.cur] + 1
      BY <1>6, <2>1, <3>1 DEF Deliver, Deliveries
    <3> QED
      BY <3>1, <3>2
  <2>5. ASSUME NEW j \in Jobs, j = x.job PROVE x.cur \in Delivered(j)'
    BY <2>1, <2>4, <2>5 DEF Delivered
  <2>6. ASSUME NEW j \in Jobs, j = x.job PROVE True(work[w])'
    <3>1. Delivered(j) \cup {x.cur} \subseteq Delivered(j)'
      BY <1>2, <2>5, <2>6
    <3> QED
      BY <2>1, <2>3, <2>6, <3>1 DEF True
  <2> QED
    BY <2>1, <2>6
<1>7. ASSUME x.pc # "idle", y.job = x.job,
             y.already = x.already, y.saved \in {x.already, x.saved},
             y.stored \in {x.already, x.stored}
      PROVE  True(work[w])'
  BY <1>2, <1>3, <1>7 DEF True
<1>8. CASE \E r \in Recipients : Pick(w, r)
  BY <1>1, <1>7, <1>8 DEF Pick, Execution
<1>9. CASE Prefetch(w) \/ InsertPending(w) \/ MarkSent(w) \/ SendRaises(w) \/ RecordFails(w)
  BY <1>1, <1>7, <1>9
     DEF Prefetch, InsertPending, MarkSent, SendRaises, RecordFails, Go, Execution
<1>10. CASE Record(w)
  BY <1>1, <1>7, <1>10 DEF Record, NextRecipient, Execution
<1>11. CASE Checkpoint(w)
  BY <1>1, <1>7, <1>11 DEF Checkpoint, NextRecipient, Execution
<1>12. CASE NoCheckpoint(w)
  BY <1>1, <1>7, <1>12 DEF NoCheckpoint, NextRecipient, Execution
<1>13. CASE SettleFailed(w)
  BY <1>1, <1>7, <1>13 DEF SettleFailed, NextRecipient, Execution
<1> QED
  BY <1>1, <1>4, <1>5, <1>6, <1>8, <1>9, <1>10, <1>11, <1>12, <1>13, LeaveOnly
     DEF WorkerStep, SettleStopped, Finish, Raise, Crash

\* The row of the job is given notes of the execution, or none.
LEMMA ProgressStep ==
  ASSUME TypeInv, TrueInv, [Next]_vars
  PROVE  ProgressIsTrue'
<1>1. TypeOK /\ progress \in [Jobs -> SUBSET Recipients]
  BY DEF TypeInv, TypeOK
<1>2. \A j \in Jobs : Delivered(j) \subseteq Delivered(j)'
  BY DeliveredGrows DEF Delivered
<1>3. \A j \in Jobs : progress[j] \subseteq Delivered(j)
  BY DEF TrueInv, ProgressIsTrue
<1>4. ASSUME progress' = progress PROVE ProgressIsTrue'
  BY <1>2, <1>3, <1>4 DEF ProgressIsTrue
<1>5. ASSUME NEW w \in Workers, work[w].pc # "idle",
             NEW S, S \in {work[w].already, work[w].saved, work[w].stored},
             progress' = [progress EXCEPT ![work[w].job] = S]
      PROVE  ProgressIsTrue'
  <2>1. S \subseteq Delivered(work[w].job)
    BY <1>5 DEF TrueInv, True
  <2> QED
    BY <1>1, <1>2, <1>3, <1>5, <2>1 DEF ProgressIsTrue
<1>6. ASSUME NEW j \in Jobs, progress' = [progress EXCEPT ![j] = {}] PROVE ProgressIsTrue'
  BY <1>1, <1>2, <1>3, <1>6 DEF ProgressIsTrue
<1>7. ASSUME NEW w \in Workers, Checkpoint(w) PROVE ProgressIsTrue'
  BY <1>5, <1>7 DEF Checkpoint
<1>8. ASSUME NEW w \in Workers, SettleStopped(w) PROVE ProgressIsTrue'
  BY <1>5, <1>8 DEF SettleStopped, Store, Noted
<1>9. ASSUME NEW w \in Workers, Finish(w) \/ Raise(w) PROVE ProgressIsTrue'
  BY <1>4, <1>5, <1>9 DEF Finish, Raise, Store
<1>10. ASSUME NEW j \in Jobs, Retry(j) PROVE ProgressIsTrue'
  BY <1>6, <1>10 DEF Retry
<1> QED
  BY <1>4, <1>7, <1>8, <1>9, <1>10
     DEF Next, WorkerStep, vars, jobVars, Begin, Pick, Prefetch, InsertPending, Deliver,
         SendRaises, MarkSent, Record, RecordFails, NoCheckpoint, SettleFailed, Crash,
         Recover, Cancel, Midnight

LEMMA TrueStep == TypeInv /\ TrueInv /\ [Next]_vars => TrueInv'
<1> SUFFICES ASSUME TypeInv, TrueInv, [Next]_vars,
                    NEW v \in Workers, work'[v].pc # "idle"
             PROVE  True(work[v])'
  BY ProgressStep DEF TrueInv
<1>1. \A j \in Jobs : Delivered(j) \subseteq Delivered(j)'
  BY DeliveredGrows DEF Delivered
<1>2. CASE work'[v] = work[v]
  <2>1. work[v].job \in Jobs
    BY <1>2 DEF TypeInv, HandOK
  <2> QED
    BY <1>1, <1>2, <2>1 DEF TrueInv, True
<1>3. ASSUME NEW w \in Workers, WorkerStep(w) PROVE True(work[v])'
  <2>1. CASE v = w
    BY <1>3, <2>1, WorkerNotes
  <2>2. CASE v # w
    BY <1>2, <1>3, <2>2, WorkerHands DEF Only
  <2> QED
    BY <2>1, <2>2
<1> QED
  BY <1>2, <1>3 DEF Next, vars, Recover, Cancel, Retry, Midnight

\* sent_users lists only users the text was delivered to, whatever the executions,
\* crashes and retries (runtime.py 696-728, 734-740).
THEOREM ProgressTrue == Spec => []ProgressIsTrue
<1>1. Init => TrueInv
  BY DEF Init, TrueInv, ProgressIsTrue, Idle
<1>2. TrueInv => ProgressIsTrue
  BY DEF TrueInv
<1> QED
  BY TypeInit, TypeStep, TrueStep, <1>1, <1>2, PTL DEF Spec

-----------------------------------------------------------------------------
(* The daily limit.                                                        *)

\* The executions about to add a user to the contacts of the day.
Adds(x) == x.pc \in {"insert", "send", "mark", "record"} /\ ToUsers(x.job) /\ x.cur \notin contacts
Adding == {w \in Workers : Adds(work[w])}

\* Every one of them passed the check when there was room for one more user.
LimitInv ==
  Cardinality(contacts) + Cardinality(Adding) <= MaxPerDay + Cardinality(Workers) - 1

LEMMA LimitFacts ==
  ASSUME TypeInv
  PROVE  /\ IsFiniteSet(contacts) /\ Cardinality(contacts) \in Nat
         /\ IsFiniteSet(Adding) /\ Cardinality(Adding) \in Nat
         /\ Cardinality(Adding) <= Cardinality(Workers)
         /\ Cardinality(Workers) \in Nat \ {0}
         /\ MaxPerDay \in Nat \ {0}
<1>1. contacts \subseteq Recipients /\ Adding \subseteq Workers
  BY DEF TypeInv, TypeOK, Adding
<1>2. IsFiniteSet(Workers) /\ Workers # {} /\ IsFiniteSet(Recipients) /\ MaxPerDay \in Nat \ {0}
  BY BroadcastAssumption
<1> QED
  BY <1>1, <1>2, FS_Subset, FS_CardinalityType, FS_EmptySet

\* A step that adds neither a user nor an execution about to add one.
LEMMA LimitKept ==
  ASSUME TypeInv, LimitInv, TypeInv', contacts' = contacts, Adding' \subseteq Adding
  PROVE  LimitInv'
<1>1. Cardinality(Adding') <= Cardinality(Adding)
  BY LimitFacts, FS_Subset
<1>2. Cardinality(Adding') \in Nat
  BY LimitFacts, FS_Subset, FS_CardinalityType
<1> QED
  BY <1>1, <1>2, LimitFacts DEF LimitInv

LEMMA WorkerLimit ==
  ASSUME TypeInv, TypeInv', LimitInv, NEW w \in Workers, WorkerStep(w)
  PROVE  LimitInv'
<1> DEFINE x == work[w]
           y == work'[w]
<1>1. /\ TypeOK /\ x \in Execution /\ HandOK(x) /\ work \in [Workers -> Execution]
      /\ \A v \in Workers : v # w => work'[v] = work[v]
  BY WorkerHands DEF TypeInv, TypeOK, Only
<1>2. ASSUME contacts' = contacts, Adds(work[w])' => Adds(x) PROVE LimitInv'
  BY <1>1, <1>2, LimitKept DEF Adding, Adds
<1>3. ASSUME contacts' = contacts, y.pc \notin {"insert", "send", "mark", "record"}
      PROVE  LimitInv'
  BY <1>2, <1>3 DEF Adds
<1>4. ASSUME contacts' = contacts, x.pc \in {"insert", "send", "mark", "record"},
             y.job = x.job, y.cur = x.cur
      PROVE  LimitInv'
  BY <1>2, <1>4 DEF Adds
<1>5. CASE \E r \in Recipients : Pick(w, r)
  <2>1. PICK r \in Recipients : Pick(w, r)
    BY <1>5
  <2>2. y.job = x.job /\ y.cur = r /\ contacts' = contacts
    BY <1>1, <2>1, PickMoves DEF Moves, Pick
  <2>3. CASE r \in contacts \/ ~ToUsers(x.job)
    BY <1>2, <2>2, <2>3 DEF Adds
  <2>4. CASE Cardinality(contacts) < MaxPerDay
    <3>1. Cardinality(Adding') <= Cardinality(Workers) /\ Cardinality(Adding') \in Nat
      <4>1. Adding' \subseteq Workers
        BY DEF Adding
      <4> QED
        BY <4>1, BroadcastAssumption, FS_Subset, FS_CardinalityType
    <3> QED
      BY <2>2, <2>4, <3>1, LimitFacts DEF LimitInv
  <2> QED
    BY <2>1, <2>3, <2>4 DEF Pick, Allowed
<1>6. CASE Record(w)
  <2>1. x.pc = "record" /\ y.pc \notin {"insert", "send", "mark", "record"}
    BY <1>1, <1>6, RecordMoves DEF Moves, Record
  <2>2. CASE ~ToUsers(x.job) \/ x.cur \in contacts
    <3>1. contacts' = contacts
      BY <1>6, <2>2 DEF Record
    <3> QED
      BY <1>3, <2>1, <3>1
  <2>3. CASE ToUsers(x.job) /\ x.cur \notin contacts
    <3>1. contacts' = contacts \cup {x.cur} /\ w \in Adding
      BY <1>6, <2>1, <2>3 DEF Record, Adding, Adds
    <3>2. Adding' \subseteq Adding \ {w}
      BY <1>1, <2>1, <3>1 DEF Adding, Adds
    <3>3. Cardinality(contacts') = Cardinality(contacts) + 1
      BY <2>3, <3>1, LimitFacts, FS_AddElement
    <3>4. Cardinality(Adding \ {w}) = Cardinality(Adding) - 1 /\ IsFiniteSet(Adding \ {w})
      BY <3>1, LimitFacts, FS_RemoveElement, FS_Subset
    <3>5. Cardinality(Adding') <= Cardinality(Adding) - 1 /\ Cardinality(Adding') \in Nat
      BY <3>2, <3>4, FS_Subset, FS_CardinalityType
    <3> QED
      BY <3>3, <3>5, LimitFacts DEF LimitInv
  <2> QED
    BY <2>2, <2>3
<1>7. CASE \E j \in Jobs : Begin(w, j)
  BY <1>1, <1>3, <1>7, BeginMoves DEF Begin
<1>8. CASE Prefetch(w)
  BY <1>1, <1>3, <1>8, PrefetchMoves DEF Moves, Prefetch, HandOK
<1>9. CASE InsertPending(w)
  BY <1>1, <1>4, <1>9, InsertMoves DEF Moves, InsertPending, jobVars
<1>10. CASE Deliver(w)
  BY <1>1, <1>4, <1>10, DeliverMoves DEF Moves, Deliver, HandOK, Handed
<1>11. CASE MarkSent(w)
  BY <1>1, <1>4, <1>11, MarkSentMoves DEF Moves, MarkSent
<1>12. CASE SendRaises(w) \/ RecordFails(w)
  BY <1>1, <1>3, <1>12, GoMoves DEF Moves, SendRaises, RecordFails, Handed
<1>13. CASE Checkpoint(w) \/ NoCheckpoint(w) \/ SettleFailed(w)
  BY <1>1, <1>3, <1>13, NextMoves DEF Moves, Checkpoint, NoCheckpoint, SettleFailed
<1>14. CASE SettleStopped(w) \/ Finish(w) \/ Raise(w) \/ Crash(w)
  BY <1>1, <1>3, <1>14, LeaveOnly DEF SettleStopped, Finish, Raise, Crash, Idle
<1> QED
  BY <1>5, <1>6, <1>7, <1>8, <1>9, <1>10, <1>11, <1>12, <1>13, <1>14 DEF WorkerStep

LEMMA LimitStep == TypeInv /\ LimitInv /\ [Next]_vars => LimitInv'
<1> SUFFICES ASSUME TypeInv, LimitInv, [Next]_vars PROVE LimitInv'
  OBVIOUS
<1>1. TypeInv'
  BY TypeStep
<1>2. CASE Midnight
  <2>1. contacts' = {} /\ Cardinality({}) = 0
    BY <1>2, FS_EmptySet DEF Midnight
  <2>2. Cardinality(Adding') <= Cardinality(Workers) /\ Cardinality(Adding') \in Nat
    <3>1. Adding' \subseteq Workers
      BY DEF Adding
    <3> QED
      BY <3>1, BroadcastAssumption, FS_Subset, FS_CardinalityType
  <2> QED
    BY <2>1, <2>2, LimitFacts DEF LimitInv
<1>3. ASSUME contacts' = contacts, work' = work PROVE LimitInv'
  BY <1>3 DEF LimitInv, Adding, Adds
<1> QED
  BY <1>1, <1>2, <1>3, WorkerLimit DEF Next, vars, Recover, Cancel, Retry

\* The agent's contacts of a day exceed the limit by one user for each execution at
\* a time but the first, at most (rate_limiter.py 107-140).
THEOREM LimitExceededByWorkers == Spec => []DailyLimitBound
<1>1. Init => LimitInv
  <2> SUFFICES ASSUME Init PROVE LimitInv
    OBVIOUS
  <2>1. contacts = {} /\ Adding = {}
    BY DEF Init, Adding, Adds, Idle
  <2> QED
    BY <2>1, TypeInit, LimitFacts, FS_EmptySet DEF LimitInv
<1>2. TypeInv /\ LimitInv => DailyLimitBound
  BY LimitFacts DEF LimitInv, DailyLimitBound
<1> QED
  BY TypeInit, TypeStep, LimitStep, <1>1, <1>2, PTL DEF Spec

-----------------------------------------------------------------------------
(* Deliveries to a user again.                                             *)

\* An execution w of job j sends only to users without a row that may be sent.
Fresh(w, j) ==
  /\ \A r \in work[w].todo : Live(j, r) = 0
  /\ work[w].pc \notin {"prefetch", "loop"} => work[w].cur \notin work[w].todo
  /\ work[w].pc = "insert" => Live(j, work[w].cur) = 0
  /\ work[w].pc = "send" => sends[j][work[w].cur] <= rows[j][work[w].cur]["failed"]

\* Every delivery to a user has a row, and at most one of them did not fail.
Accounted(j, r) ==
  Live(j, r) <= 1 /\ sends[j][r] <= rows[j][r]["failed"] + Live(j, r)

Resending(j) ==
  /\ \A v, w \in Workers : Executes(v, j) /\ Executes(w, j) => v = w
  /\ \A r \in Recipients : Accounted(j, r)
  /\ \A w \in Workers : Executes(w, j) => Fresh(w, j)

Resendings == \A j \in Jobs : ToUsers(j) /\ ~overlap[j] => Resending(j)

LEMMA Counts ==
  ASSUME TypeInv
  PROVE  \A j \in Jobs, r \in Recipients :
           /\ Live(j, r) \in Nat /\ rows[j][r]["failed"] \in Nat /\ sends[j][r] \in Nat
           /\ rows[j][r]["pending"] \in Nat /\ rows[j][r]["sent"] \in Nat
           /\ Live(j, r) = rows[j][r]["pending"] + rows[j][r]["sent"]
  BY DEF TypeInv, TypeOK, RowStatuses, Live

\* A step that leaves alone the rows of job j and its deliveries.
LEMMA ResendingKept ==
  ASSUME TypeInv, NEW w \in Workers, Only(w), NEW j \in Jobs, Resending(j),
         rows'[j] = rows[j], sends'[j] = sends[j],
         Executes(w, j)' => Executes(w, j) /\ Fresh(w, j)'
  PROVE  Resending(j)'
<1>1. \A v \in Workers : Executes(v, j)' => Executes(v, j)
  BY DEF Only, Executes
<1>2. \A r \in Recipients : Live(j, r)' = Live(j, r)
  BY DEF Live
<1>3. \A v, u \in Workers : Executes(v, j)' /\ Executes(u, j)' => v = u
  BY <1>1 DEF Resending
<1>4. \A r \in Recipients : Accounted(j, r)'
  BY <1>2 DEF Resending, Accounted
<1>5. ASSUME NEW v \in Workers, Executes(v, j)' PROVE Fresh(v, j)'
  <2>1. CASE v = w
    BY <1>5, <2>1
  <2>2. CASE v # w
    <3>1. work'[v] = work[v] /\ Fresh(v, j)
      BY <1>1, <1>5, <2>2 DEF Only, Resending
    <3> QED
      BY <3>1 DEF Fresh, Live
  <2> QED
    BY <2>1, <2>2
<1> QED
  BY <1>3, <1>4, <1>5 DEF Resending

\* A step of the execution of job j that may change the row and the deliveries of
\* the recipient in hand.
LEMMA ResendingOwn ==
  ASSUME TypeInv, NEW w \in Workers, Only(w), NEW j \in Jobs, Resending(j),
         Executes(w, j), work'[w].pc # "idle" => work'[w].job = j /\ Fresh(w, j)',
         \A r \in Recipients : Accounted(j, r)'
  PROVE  Resending(j)'
<1>1. \A v \in Workers : Executes(v, j)' => v = w
  BY DEF Only, Executes, Resending
<1>2. ASSUME NEW v \in Workers, Executes(v, j)' PROVE Fresh(v, j)'
  <2>1. v = w
    BY <1>1, <1>2
  <2>2. work'[w].pc # "idle"
    BY <1>2, <2>1 DEF Executes
  <2> QED
    BY <2>1, <2>2
<1> QED
  BY <1>1, <1>2 DEF Resending

\* The mark changes one count of live rows at most, that of the row in hand.
LEMMA MarkedLive ==
  ASSUME TypeInv, NEW w \in Workers, NEW from \in {"pending", "sent"}, work[w].row = from,
         NEW to \in {"sent", "failed"}, from # to, Marked(w, to),
         NEW j \in Jobs, j = work[w].job, work[w].cur \in Recipients
  PROVE  /\ \A r \in Recipients : r # work[w].cur =>
              Live(j, r)' = Live(j, r) /\ rows'[j][r]["failed"] = rows[j][r]["failed"]
         /\ \A r \in Recipients : r = work[w].cur =>
              /\ Live(j, r)' = IF to = "sent" THEN Live(j, r) ELSE Live(j, r) - 1
              /\ rows'[j][r]["failed"]
                   = IF to = "sent" THEN rows[j][r]["failed"] ELSE rows[j][r]["failed"] + 1
<1>1. \A r \in Recipients, s \in RowStatuses :
        rows'[j][r][s] = IF r = work[w].cur
                         THEN CASE s = from -> rows[j][r][s] - 1
                                [] s = to -> rows[j][r][s] + 1
                                [] OTHER -> rows[j][r][s]
                         ELSE rows[j][r][s]
  BY MarkedRows
<1>2. "pending" \in RowStatuses /\ "sent" \in RowStatuses /\ "failed" \in RowStatuses
  BY DEF RowStatuses
<1>3. \A r \in Recipients : Live(j, r)' = rows'[j][r]["pending"] + rows'[j][r]["sent"]
  BY DEF Live
<1>4. ASSUME NEW r \in Recipients, r # work[w].cur
      PROVE  Live(j, r)' = Live(j, r) /\ rows'[j][r]["failed"] = rows[j][r]["failed"]
  BY <1>1, <1>2, <1>3, <1>4, Counts
<1>5. ASSUME NEW r \in Recipients, r = work[w].cur
      PROVE  /\ Live(j, r)' = IF to = "sent" THEN Live(j, r) ELSE Live(j, r) - 1
             /\ rows'[j][r]["failed"]
                  = IF to = "sent" THEN rows[j][r]["failed"] ELSE rows[j][r]["failed"] + 1
  <2> DEFINE p == rows[j][r]["pending"]
             t == rows[j][r]["sent"]
             f == rows[j][r]["failed"]
  <2>1. p \in Nat /\ t \in Nat /\ f \in Nat /\ Live(j, r) = p + t
    BY Counts
  <2>2. /\ rows'[j][r]["pending"] = IF from = "pending" THEN p - 1 ELSE p
        /\ rows'[j][r]["sent"] = IF from = "sent" THEN t - 1
                                 ELSE IF to = "sent" THEN t + 1 ELSE t
        /\ rows'[j][r]["failed"] = IF to = "failed" THEN f + 1 ELSE f
    BY <1>1, <1>2, <1>5
  <2> HIDE DEF p, t, f
  <2>3. Live(j, r)' = IF to = "sent" THEN Live(j, r) ELSE Live(j, r) - 1
    BY <1>3, <2>1, <2>2
  <2> QED
    BY <2>2, <2>3 DEF f
<1> QED
  BY <1>4, <1>5

LEMMA WorkerResending ==
  ASSUME TypeInv, NEW w \in Workers, NEW j \in Jobs, Executes(w, j), ToUsers(j),
         Resending(j), WorkerStep(w)
  PROVE  Resending(j)'
<1> DEFINE x == work[w]
           y == work'[w]
<1>1. /\ TypeOK /\ x \in Execution /\ HandOK(x) /\ Only(w) /\ x.job = j /\ x.pc # "idle"
      /\ \A r \in Recipients : Accounted(j, r)
      /\ Fresh(w, j)
      /\ x.todo \subseteq Recipients
      /\ work \in [Workers -> Execution]
  BY WorkerHands DEF TypeInv, TypeOK, Executes, Resending, Execution
<1>2. ASSUME rows' = rows, sends' = sends,
             \/ y.pc = "idle"
             \/ /\ y.job = j /\ y.todo \subseteq x.todo /\ y.pc \notin {"insert", "send"}
                /\ y.pc = "loop" \/ (y.cur = x.cur /\ x.pc \notin {"prefetch", "loop"})
      PROVE  Resending(j)'
  <2>1. \A r \in Recipients : Live(j, r)' = Live(j, r)
    BY <1>2 DEF Live
  <2>2. \A r \in Recipients : Accounted(j, r)'
    BY <1>1, <1>2, <2>1 DEF Accounted
  <2>3. y.pc # "idle" => y.job = j /\ Fresh(w, j)'
    BY <1>1, <1>2, <2>1 DEF Fresh
  <2> QED
    BY <1>1, <2>2, <2>3, ResendingOwn
<1>3. ASSUME NEW n \in {0, 1}, x.pc = "send", Deliveries(w, n), rows' = rows,
             y.job = j, y.todo = x.todo, y.cur = x.cur, y.pc \notin {"insert", "send"}
      PROVE  Resending(j)'
  <2>1. x.cur \in Recipients /\ x.row = "pending"
    BY <1>1, <1>3 DEF HandOK, Handed
  <2>2. \A r \in Recipients : Live(j, r)' = Live(j, r)
    BY <1>3 DEF Live
  <2>3. rows[j][x.cur]["pending"] > 0
    BY <1>1, <2>1, InHand
  <2>4. \A r \in Recipients :
          sends'[j][r] = IF r = x.cur THEN sends[j][r] + n ELSE sends[j][r]
    BY <1>1, <1>3 DEF Deliveries, TypeOK
  <2>5. sends[j][x.cur] <= rows[j][x.cur]["failed"]
    BY <1>1, <1>3 DEF Fresh
  <2>6. ASSUME NEW r \in Recipients PROVE Accounted(j, r)'
    <3>1. CASE r # x.cur
      BY <1>1, <1>3, <2>2, <2>4, <3>1 DEF Accounted
    <3>2. CASE r = x.cur
      <4>1. Live(j, r) >= 1 /\ Live(j, r) <= 1
        BY <1>1, <2>3, <3>2, Counts DEF Accounted
      <4>2. sends'[j][r] <= rows[j][r]["failed"] + Live(j, r)
        BY <2>4, <2>5, <3>2, <4>1, Counts
      <4> QED
        BY <1>3, <2>2, <4>1, <4>2 DEF Accounted
    <3> QED
      BY <3>1, <3>2
  <2>7. Fresh(w, j)'
    BY <1>1, <1>3, <2>2 DEF Fresh
  <2> QED
    BY <1>1, <1>3, <2>6, <2>7, ResendingOwn
<1>4. ASSUME NEW from \in {"pending", "sent"}, x.row = from, NEW to \in {"sent", "failed"},
             from # to, Marked(w, to), sends' = sends, x.pc \in Handed,
             \/ y.pc = "idle"
             \/ /\ y.job = j /\ y.todo = x.todo /\ y.pc \notin {"insert", "send"}
                /\ y.pc = "loop" \/ y.cur = x.cur
      PROVE  Resending(j)'
  <2>1. x.cur \in Recipients
    BY <1>1, <1>4 DEF HandOK
  <2>2. x.cur \notin x.todo
    BY <1>1, <1>4 DEF Fresh, Handed
  <2>3. /\ \A r \in Recipients : r # x.cur =>
             Live(j, r)' = Live(j, r) /\ rows'[j][r]["failed"] = rows[j][r]["failed"]
        /\ \A r \in Recipients : r = x.cur =>
             /\ Live(j, r)' = IF to = "sent" THEN Live(j, r) ELSE Live(j, r) - 1
             /\ rows'[j][r]["failed"]
                  = IF to = "sent" THEN rows[j][r]["failed"] ELSE rows[j][r]["failed"] + 1
    BY <1>1, <1>4, <2>1, MarkedLive
  <2>4. ASSUME NEW r \in Recipients PROVE Accounted(j, r)'
    <3>1. /\ Live(j, r)' <= 1
          /\ sends[j][r] <= rows'[j][r]["failed"] + Live(j, r)'
      BY <1>1, <2>3, Counts DEF Accounted
    <3> QED
      BY <1>4, <3>1 DEF Accounted
  <2>5. y.pc # "idle" => y.job = j /\ Fresh(w, j)'
    BY <1>1, <1>4, <2>2, <2>3 DEF Fresh
  <2> QED
    BY <1>1, <2>4, <2>5, ResendingOwn
<1>5. CASE \E r \in Recipients : Pick(w, r)
  <2>1. PICK r \in Recipients : Pick(w, r)
    BY <1>5
  <2>2. /\ y.job = j /\ y.pc = "insert" /\ y.cur = r /\ y.todo = x.todo \ {r} /\ r \in x.todo
        /\ rows' = rows /\ sends' = sends
    BY <1>1, <2>1, PickMoves DEF Moves, Pick
  <2>3. \A q \in Recipients : Live(j, q)' = Live(j, q)
    BY <2>2 DEF Live
  <2>4. \A q \in Recipients : Accounted(j, q)'
    BY <1>1, <2>2, <2>3 DEF Accounted
  <2>5. Fresh(w, j)'
    BY <1>1, <2>2, <2>3 DEF Fresh
  <2> QED
    BY <1>1, <2>2, <2>4, <2>5, ResendingOwn
<1>6. CASE Prefetch(w)
  <2>1. PICK S \in SUBSET Recipients :
          /\ Moves(w, "loop", x.cur, S, x.row)
          /\ ToUsers(j) => S \cap RecentlySent = {}
    BY <1>1, <1>6, PrefetchMoves
  <2>2. \A r \in S : Live(j, r) = 0
    BY <2>1, Counts DEF RecentlySent
  <2>3. /\ y.job = j /\ y.pc = "loop" /\ y.todo = S
        /\ rows' = rows /\ sends' = sends
    BY <1>1, <1>6, <2>1 DEF Moves, Prefetch
  <2>4. \A q \in Recipients : Live(j, q)' = Live(j, q)
    BY <2>3 DEF Live
  <2>5. \A q \in Recipients : Accounted(j, q)'
    BY <1>1, <2>3, <2>4 DEF Accounted
  <2>6. Fresh(w, j)'
    BY <2>2, <2>3, <2>4 DEF Fresh
  <2> QED
    BY <1>1, <2>3, <2>5, <2>6, ResendingOwn
<1>7. CASE InsertPending(w)
  <2>1. /\ x.cur \in Recipients /\ x.cur \notin x.todo /\ Live(j, x.cur) = 0
        /\ sends' = sends /\ rows' = [rows EXCEPT ![j][x.cur]["pending"] = @ + 1]
    BY <1>1, <1>7 DEF InsertPending, HandOK, Handed, Fresh
  <2>2. y.job = j /\ y.pc = "send" /\ y.cur = x.cur /\ y.todo = x.todo
    BY <1>1, <1>7, InsertMoves DEF Moves
  <2>3. \A r \in Recipients, s \in RowStatuses :
          rows'[j][r][s] = IF r = x.cur /\ s = "pending" THEN rows[j][r][s] + 1
                                                          ELSE rows[j][r][s]
    BY <1>1, <2>1 DEF TypeOK
  <2>4. \A r \in Recipients :
          /\ rows'[j][r]["failed"] = rows[j][r]["failed"]
          /\ Live(j, r)' = IF r = x.cur THEN Live(j, r) + 1 ELSE Live(j, r)
    BY <2>3, Counts DEF Live, RowStatuses
  <2>5. ASSUME NEW r \in Recipients PROVE Accounted(j, r)'
    <3>1. Live(j, r)' <= 1 /\ sends[j][r] <= rows'[j][r]["failed"] + Live(j, r)'
      BY <1>1, <2>1, <2>4, Counts DEF Accounted
    <3> QED
      BY <2>1, <3>1 DEF Accounted
  <2>6. Fresh(w, j)'
    <3>1. sends[j][x.cur] <= rows[j][x.cur]["failed"]
      BY <1>1, <2>1, Counts DEF Accounted
    <3> QED
      BY <1>1, <2>1, <2>2, <2>4, <3>1 DEF Fresh
  <2> QED
    BY <1>1, <2>2, <2>5, <2>6, ResendingOwn
<1>8. CASE Deliver(w)
  <2>1. x.cur \in Recipients
    BY <1>1, <1>8 DEF Deliver, HandOK, Handed
  <2> QED
    BY <1>1, <1>3, <1>8, <2>1, DeliverMoves DEF Moves, Deliver
<1>9. CASE SendRaises(w)
  BY <1>1, <1>3, <1>9, GoMoves DEF Moves, SendRaises, Handed
<1>10. CASE MarkSent(w)
  BY <1>1, <1>4, <1>10, MarkSentMoves DEF Moves, MarkSent, HandOK, Handed
<1>11. CASE SettleFailed(w)
  BY <1>1, <1>4, <1>11, NextMoves DEF Moves, SettleFailed, HandOK, Handed
<1>12. CASE SettleStopped(w)
  BY <1>1, <1>4, <1>12, LeaveOnly DEF SettleStopped, HandOK, Handed, Idle
<1>13. CASE Record(w)
  BY <1>1, <1>2, <1>13, RecordMoves DEF Moves, Record
<1>14. CASE RecordFails(w)
  BY <1>1, <1>2, <1>14, GoMoves DEF Moves, RecordFails, Handed
<1>15. CASE Checkpoint(w) \/ NoCheckpoint(w)
  BY <1>1, <1>2, <1>15, NextMoves DEF Moves, Checkpoint, NoCheckpoint
<1>16. CASE Finish(w) \/ Raise(w) \/ Crash(w)
  BY <1>1, <1>2, <1>16, LeaveOnly DEF Finish, Raise, Crash, Idle
<1> QED
  BY <1>1, <1>5, <1>6, <1>7, <1>8, <1>9, <1>10, <1>11, <1>12, <1>13, <1>14, <1>15, <1>16
     DEF WorkerStep, Begin

\* Only its claim gives an execution another job.
LEMMA WorkerKeepsJob ==
  ASSUME TypeInv, NEW w \in Workers, WorkerStep(w), ~\E j \in Jobs : Begin(w, j)
  PROVE  work'[w] = Idle \/ work'[w].job = work[w].job
<1> DEFINE x == work[w]
<1>1. TypeOK /\ work \in [Workers -> Execution] /\ HandOK(x)
  BY DEF TypeInv, TypeOK
<1>2. CASE \E r \in Recipients : Pick(w, r)
  BY <1>1, <1>2, PickMoves DEF Moves
<1>3. CASE Prefetch(w)
  BY <1>1, <1>3, PrefetchMoves DEF Moves, Prefetch, HandOK
<1>4. CASE InsertPending(w) \/ MarkSent(w) \/ Record(w)
  BY <1>1, <1>4, InsertMoves, MarkSentMoves, RecordMoves DEF Moves
<1>5. CASE Deliver(w)
  BY <1>1, <1>5, DeliverMoves DEF Moves, Deliver, HandOK, Handed
<1>6. CASE SendRaises(w) \/ RecordFails(w)
  BY <1>1, <1>6, GoMoves DEF Moves, SendRaises, RecordFails, Handed
<1>7. CASE Checkpoint(w) \/ NoCheckpoint(w) \/ SettleFailed(w)
  BY <1>1, <1>7, NextMoves DEF Moves
<1>8. CASE SettleStopped(w) \/ Finish(w) \/ Raise(w) \/ Crash(w)
  BY <1>1, <1>8, LeaveOnly DEF SettleStopped, Finish, Raise, Crash
<1> QED
  BY <1>2, <1>3, <1>4, <1>5, <1>6, <1>7, <1>8 DEF WorkerStep

LEMMA ResendStep == TypeInv /\ Resendings /\ [Next]_vars => Resendings'
<1> SUFFICES ASSUME TypeInv, Resendings, [Next]_vars,
                    NEW j \in Jobs, ToUsers(j), ~overlap'[j]
             PROVE  Resending(j)'
  BY DEF Resendings, ToUsers
<1>1. TypeOK /\ overlap[j] \in BOOLEAN
  BY DEF TypeInv, TypeOK
<1>2. CASE work' = work /\ rows' = rows /\ sends' = sends /\ overlap' = overlap
  <2>1. Resending(j)
    BY <1>2 DEF Resendings
  <2> QED
    BY <1>2, <2>1 DEF Resending, Executes, Fresh, Accounted, Live
<1>3. ASSUME NEW w \in Workers, NEW k \in Jobs, Begin(w, k) PROVE Resending(j)'
  <2>1. /\ Only(w) /\ work'[w].job = k /\ work'[w].pc = "prefetch" /\ work'[w].todo = {}
        /\ rows' = rows /\ sends' = sends
        /\ overlap' = [overlap EXCEPT ![k] = @ \/ \E v \in Workers : Executes(v, k)]
    BY <1>1, <1>3, BeginMoves DEF Begin
  <2>2. ~overlap[j] /\ (j = k => \A v \in Workers : ~Executes(v, j))
    BY <1>1, <2>1 DEF TypeOK
  <2>3. Resending(j)
    BY <2>2 DEF Resendings
  <2>4. CASE j # k
    <3>1. ~Executes(w, j)'
      BY <2>1, <2>4 DEF Executes
    <3> QED
      BY <2>1, <2>3, <3>1, ResendingKept
  <2>5. CASE j = k
    <3>1. \A v \in Workers : Executes(v, j)' => v = w
      BY <2>1, <2>2, <2>5 DEF Only, Executes
    <3>2. Fresh(w, j)'
      BY <2>1 DEF Fresh
    <3>3. \A r \in Recipients : Accounted(j, r)'
      BY <2>1, <2>3 DEF Resending, Accounted, Live
    <3> QED
      BY <3>1, <3>2, <3>3 DEF Resending
  <2> QED
    BY <2>4, <2>5
<1>4. ASSUME NEW w \in Workers, WorkerStep(w), ~\E k \in Jobs : Begin(w, k)
      PROVE  Resending(j)'
  <2> DEFINE x == work[w]
             y == work'[w]
  <2>1. overlap' = overlap /\ Only(w)
    BY <1>4, WorkerHands
       DEF WorkerStep, jobVars, Pick, Prefetch, InsertPending, Deliver, SendRaises, MarkSent,
           Record, RecordFails, Checkpoint, NoCheckpoint, SettleFailed, SettleStopped, Finish,
           Raise, Crash
  <2>2. Resending(j)
    BY <2>1 DEF Resendings
  <2>3. CASE Executes(w, j)
    BY <1>4, <2>2, <2>3, WorkerResending
  <2>4. CASE ~Executes(w, j)
    <3>1. x.pc # "idle" /\ x.job \in Jobs /\ x.job # j
      <4>1. x.pc # "idle"
        BY <1>4
           DEF WorkerStep, Pick, Prefetch, InsertPending, Deliver, SendRaises, MarkSent,
               Record, RecordFails, Checkpoint, NoCheckpoint, SettleFailed, SettleStopped,
               Finish, Raise, Crash
      <4> QED
        BY <2>4, <4>1 DEF Executes, TypeInv, HandOK
    <3>2. rows'[j] = rows[j] /\ sends'[j] = sends[j]
      <4>1. \A to : Marked(w, to) => rows'[j] = rows[j]
        BY <1>1, <3>1 DEF Marked, TypeOK
      <4>2. \A n : Deliveries(w, n) => sends'[j] = sends[j]
        BY <1>1, <3>1 DEF Deliveries, TypeOK
      <4>3. InsertPending(w) => rows'[j] = rows[j]
        BY <1>1, <3>1 DEF InsertPending, TypeOK
      <4> QED
        BY <1>4, <4>1, <4>2, <4>3
           DEF WorkerStep, Pick, Prefetch, InsertPending, Deliver, SendRaises, MarkSent,
               Record, RecordFails, Checkpoint, NoCheckpoint, SettleFailed, SettleStopped,
               Finish, Raise, Crash
    <3>3. ~Executes(w, j)'
      <4>1. y = Idle \/ y.job = x.job
        BY <1>4, WorkerKeepsJob
      <4> QED
        BY <3>1, <4>1 DEF Executes, Idle
    <3> QED
      BY <2>1, <2>2, <3>2, <3>3, ResendingKept
  <2> QED
    BY <2>3, <2>4
<1>5. ASSUME NEW w \in Workers, WorkerStep(w) PROVE Resending(j)'
  BY <1>3, <1>4, <1>5
<1>6. CASE Midnight \/ \E k \in Jobs : Recover(k) \/ Cancel(k) \/ Retry(k)
  BY <1>2, <1>6 DEF Midnight, Recover, Cancel, Retry, jobVars
<1>7. CASE UNCHANGED vars
  BY <1>2, <1>7 DEF vars
<1> QED
  BY <1>5, <1>6, <1>7 DEF Next

\* As long as the executions of a job follow each other, its text is delivered to a
\* user again only after one of the job's rows for the user failed, for any number
\* of crashes, exceptions, recoveries, cancellations and retries
\* (_send_to_recipients, runtime.py 620-740).
THEOREM ResendsAccounted == Spec => []ResendsAfterFailure
<1>1. Init => Resendings
  <2> SUFFICES ASSUME Init, NEW j \in Jobs PROVE Resending(j)
    BY DEF Resendings
  <2>1. \A w \in Workers : ~Executes(w, j)
    BY DEF Init, Executes, Idle
  <2>2. \A r \in Recipients : Accounted(j, r)
    BY DEF Init, Accounted, Live, RowStatuses
  <2> QED
    BY <2>1, <2>2 DEF Resending
<1>2. TypeInv /\ Resendings => ResendsAfterFailure
  <2> SUFFICES ASSUME TypeInv, Resendings, NEW j \in Jobs, NEW r \in Recipients,
                      ToUsers(j), ~overlap[j]
               PROVE  sends[j][r] <= 1 + rows[j][r]["failed"]
    BY DEF ResendsAfterFailure
  <2>1. Accounted(j, r)
    BY DEF Resendings, Resending
  <2> QED
    BY <2>1, Counts DEF Accounted
<1> QED
  BY TypeInit, TypeStep, ResendStep, <1>1, <1>2, PTL DEF Spec

=============================================================================
