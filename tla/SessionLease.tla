---------------------------- MODULE SessionLease ----------------------------
(***************************************************************************)
(* The lease on one agent's Telegram session (bot/agents/session.py): the  *)
(* Redis key agent:{id}:session_lease, which the executions of the agent's *)
(* jobs take, renew and delete (bot/agents/worker.py) and which the agent  *)
(* listener of the bot process looks at before it connects                 *)
(* (bot/agents/listener.py).  Two clients that are connected with the same *)
(* session string kick each other.                                         *)
(*                                                                         *)
(* The key holds no owner: it is modelled by the time it has left, in      *)
(* renewal periods (120 s).  A process has one pooled client per agent,    *)
(* which all its executions share.  Executions that fail to connect or are *)
(* killed are delivered again by the broker as further executions          *)
(* (AgentJobQueue).                                                        *)
(***************************************************************************)
EXTENDS Integers, FiniteSets

CONSTANTS
  Execs,       \* executions of jobs of the agent
  Long,        \* those whose job type takes the lease
  Processes,   \* the worker processes
  Home,        \* the process that runs an execution
  Listener,    \* the process of the bot, which runs the listener
  Ttl,         \* life of the key in renewal periods (600 s / 120 s)
  Tries,       \* attempts to take the lease before going on without it
  MaxMissed    \* bound: renewals in a row that fail or come too late

ASSUME LeaseAssumption ==
  /\ Home \in [Execs -> Processes]
  /\ Long \subseteq Execs
  /\ Listener \notin Processes
  /\ Ttl \in Nat \ {0}
  /\ Tries \in Nat \ {0}
  /\ MaxMissed \in Nat

VARIABLES
  lease,     \* periods until the key expires; 0 when there is no key
  phase,     \* where an execution stands
  tries,     \* its attempts to take the lease
  held,      \* its local variable lease_held
  due,       \* its renewal task is to run in the current period
  missed,    \* its renewals in a row that did not reach Redis
  conn,      \* the process's client is connected
  listener   \* where the listener stands

vars == <<lease, phase, tries, held, due, missed, conn, listener>>

Phases == {"new", "waiting", "connecting", "running", "closing", "ended"}
Active(e) == phase[e] \in {"waiting", "connecting", "running", "closing"}
Clients == Processes \cup {Listener}

Init ==
  /\ lease = 0
  /\ phase = [e \in Execs |-> "new"]
  /\ tries = [e \in Execs |-> 0]
  /\ held = [e \in Execs |-> FALSE]
  /\ due = [e \in Execs |-> FALSE]
  /\ missed = [e \in Execs |-> 0]
  /\ conn = [p \in Clients |-> FALSE]
  /\ listener = "checking"

-----------------------------------------------------------------------------
(* The key: SET NX EX, EXPIRE on a key that exists, and the passing of     *)
(* time.                                                                   *)

\* SET without NX.
KeyOverwritten == lease' = Ttl

KeyCreated == lease = 0 /\ lease' = Ttl

Extended(l) == IF l > 0 THEN Ttl ELSE 0

\* The key is set without a time to live.
NeverAged(l) == l

Aged(l) == IF l > 0 THEN l - 1 ELSE 0

\* Every renewal task wakes up once in a period: time only passes when those
\* of the last period have renewed or failed.
Tick ==
  /\ lease > 0 \/ \E e \in Execs : held[e]
  /\ \A e \in Execs : ~due[e]
  /\ lease' = Aged(lease)
  /\ due' = held
  /\ UNCHANGED <<phase, tries, held, missed, conn, listener>>

-----------------------------------------------------------------------------
(* An execution.                                                           *)

\* Jobs of the other types do not take the lease.
Start(e) ==
  /\ phase[e] = "new"
  /\ phase' = [phase EXCEPT ![e] = IF e \in Long THEN "waiting" ELSE "connecting"]
  /\ UNCHANGED <<lease, tries, held, due, missed, conn, listener>>

Acquire(e) ==
  /\ phase[e] = "waiting"
  /\ KeyCreated
  /\ held' = [held EXCEPT ![e] = TRUE]
  /\ phase' = [phase EXCEPT ![e] = "connecting"]
  /\ UNCHANGED <<tries, due, missed, conn, listener>>

\* The loop makes one attempt too many.
TriedOnceMore(e) ==
  /\ tries' = [tries EXCEPT ![e] = @ + 1]
  /\ phase' = [phase EXCEPT ![e] = IF tries[e] = Tries THEN "connecting" ELSE @]

\* The last attempt is followed by the connection all the same.
Tried(e) ==
  /\ tries' = [tries EXCEPT ![e] = @ + 1]
  /\ phase' = [phase EXCEPT ![e] = IF tries[e] + 1 = Tries THEN "connecting" ELSE @]

\* The key is there, or Redis failed.
AcquireFails(e) ==
  /\ phase[e] = "waiting"
  /\ Tried(e)
  /\ UNCHANGED <<lease, held, due, missed, conn, listener>>

\* Redis set the key but its answer was lost: nobody believes to hold it.
AcquireLost(e) ==
  /\ phase[e] = "waiting"
  /\ KeyCreated
  /\ Tried(e)
  /\ UNCHANGED <<held, due, missed, conn, listener>>

\* get_client: connect the process's client unless it is connected already.
Connect(e) ==
  /\ phase[e] = "connecting"
  /\ phase' = [phase EXCEPT ![e] = "running"]
  /\ conn' = [conn EXCEPT ![Home[e]] = TRUE]
  /\ UNCHANGED <<lease, tries, held, due, missed, listener>>

\* get_client raises, having disconnected the client if it is not authorized;
\* only the outer finally block is left.
ConnectFails(e) ==
  /\ phase[e] = "connecting"
  /\ phase' = [phase EXCEPT ![e] = "closing"]
  /\ \E c \in {conn[Home[e]], FALSE} : conn' = [conn EXCEPT ![Home[e]] = c]
  /\ UNCHANGED <<lease, tries, held, due, missed, listener>>

\* The job is done or raised: the inner finally block disconnects the client,
\* the one that other executions in the process may be using.
Disconnect(e) ==
  /\ phase[e] = "running"
  /\ phase' = [phase EXCEPT ![e] = "closing"]
  /\ conn' = [conn EXCEPT ![Home[e]] = FALSE]
  /\ UNCHANGED <<lease, tries, held, due, missed, listener>>

\* The finally block does not look at lease_held.
LeftByAnyone(e) == {0, lease}

\* The key after an execution has ended its part: only one that took the lease
\* deletes it, and Redis may fail.
Left(e) == IF held[e] THEN {0, lease} ELSE {lease}

Release(e) ==
  /\ phase[e] = "closing"
  /\ phase' = [phase EXCEPT ![e] = "ended"]
  /\ lease' \in Left(e)
  /\ held' = [held EXCEPT ![e] = FALSE]
  /\ due' = [due EXCEPT ![e] = FALSE]
  /\ missed' = [missed EXCEPT ![e] = 0]
  /\ UNCHANGED <<tries, conn, listener>>

Renew(e) ==
  /\ due[e]
  /\ lease' = Extended(lease)
  /\ due' = [due EXCEPT ![e] = FALSE]
  /\ missed' = [missed EXCEPT ![e] = 0]
  /\ UNCHANGED <<phase, tries, held, conn, listener>>

\* Redis fails, or the event loop is busy for the whole period.
MissRenewal(e) ==
  /\ due[e]
  /\ missed[e] < MaxMissed
  /\ due' = [due EXCEPT ![e] = FALSE]
  /\ missed' = [missed EXCEPT ![e] = @ + 1]
  /\ UNCHANGED <<lease, phase, tries, held, conn, listener>>

\* A worker process is killed; the key outlives it.
Crash(p) ==
  LET Lost(e) == Home[e] = p /\ Active(e) IN
  /\ \E e \in Execs : Lost(e)
  /\ phase' = [e \in Execs |-> IF Lost(e) THEN "ended" ELSE phase[e]]
  /\ held' = [e \in Execs |-> held[e] /\ ~Lost(e)]
  /\ due' = [e \in Execs |-> due[e] /\ ~Lost(e)]
  /\ missed' = [e \in Execs |-> IF Lost(e) THEN 0 ELSE missed[e]]
  /\ conn' = [conn EXCEPT ![p] = FALSE]
  /\ UNCHANGED <<lease, tries, listener>>

-----------------------------------------------------------------------------
(* The listener.                                                           *)

ListenerSees(to) ==
  /\ listener = "checking"
  /\ listener' = to
  /\ UNCHANGED <<lease, phase, tries, held, due, missed, conn>>

ListenerFree == lease = 0 /\ ListenerSees("checked")
ListenerHeld == lease > 0 /\ ListenerSees("waiting")

\* session_lease_held answers False when Redis fails.
ListenerMisreads == lease > 0 /\ ListenerSees("checked")

ListenerConnects ==
  /\ listener = "checked"
  /\ listener' = "connected"
  /\ conn' = [conn EXCEPT ![Listener] = TRUE]
  /\ UNCHANGED <<lease, phase, tries, held, due, missed>>

\* get_client fails, or the connection ends; then the listener backs off.
ListenerDrops ==
  /\ listener \in {"checked", "connected"}
  /\ listener' = "backoff"
  /\ conn' = [conn EXCEPT ![Listener] = FALSE]
  /\ UNCHANGED <<lease, phase, tries, held, due, missed>>

\* The task is cancelled (the agent is no longer active, or the bot stops) or
\* ends with a terminal error, until the sync loop starts it again.
ListenerStops ==
  /\ listener # "backoff"
  /\ listener' = "backoff"
  /\ conn' = [conn EXCEPT ![Listener] = FALSE]
  /\ UNCHANGED <<lease, phase, tries, held, due, missed>>

\* The lease is looked at before the reconnect loop instead of in it.
RetriesUnchecked ==
  /\ listener \in {"waiting", "backoff"}
  /\ listener' = IF listener = "waiting" THEN "checking" ELSE "checked"
  /\ UNCHANGED <<lease, phase, tries, held, due, missed, conn>>

\* Every round of the loop looks at the lease again.
ListenerRetries ==
  /\ listener \in {"waiting", "backoff"}
  /\ listener' = "checking"
  /\ UNCHANGED <<lease, phase, tries, held, due, missed, conn>>

\* Telegram: of two connections with one session string one is ended.
Kick(p) ==
  /\ conn[p]
  /\ \E q \in Clients \ {p} : conn[q]
  /\ conn' = [conn EXCEPT ![p] = FALSE]
  /\ UNCHANGED <<lease, phase, tries, held, due, missed, listener>>

-----------------------------------------------------------------------------
Takes(e) == Acquire(e) \/ AcquireFails(e) \/ AcquireLost(e)
Opens(e) == Connect(e) \/ ConnectFails(e)
Renews(e) == Renew(e) \/ MissRenewal(e)
Looks == ListenerFree \/ ListenerHeld \/ ListenerMisreads

Exec(e) == Start(e) \/ Takes(e) \/ Opens(e) \/ Disconnect(e) \/ Release(e) \/ Renews(e)
Listen == Looks \/ ListenerConnects \/ ListenerDrops \/ ListenerStops \/ ListenerRetries

Next ==
  \/ Tick
  \/ \E e \in Execs : Exec(e)
  \/ \E p \in Processes : Crash(p)
  \/ Listen
  \/ \E p \in Clients : Kick(p)

Spec == Init /\ [][Next]_vars

\* Time passes, an execution that has begun goes on and its job ends (Dramatiq
\* ends an actor after time_limit), the renewal task wakes up, and the
\* listener's loop goes on.  A task that the sync loop keeps starting reads
\* the lease some time: it does so within milliseconds and the sync loop
\* cancels tasks every 15 seconds at most, hence SF.
Fairness ==
  /\ WF_vars(Tick)
  /\ \A e \in Execs : /\ WF_vars(Takes(e)) /\ WF_vars(Opens(e)) /\ WF_vars(Disconnect(e))
                      /\ WF_vars(Release(e)) /\ WF_vars(Renews(e))
  /\ SF_vars(Looks)
  /\ WF_vars(ListenerRetries)

FairSpec == Spec /\ Fairness

-----------------------------------------------------------------------------
\* The states the variables range over: never more attempts than the loop of
\* worker.py 742-747 makes, and a key that never lives longer than it was set to.
TypeOK ==
  /\ lease \in 0..Ttl
  /\ phase \in [Execs -> Phases]
  /\ tries \in [Execs -> 0..Tries]
  /\ held \in [Execs -> BOOLEAN]
  /\ due \in [Execs -> BOOLEAN]
  /\ missed \in [Execs -> 0..MaxMissed]
  /\ conn \in [Clients -> BOOLEAN]
  /\ listener \in {"checking", "waiting", "checked", "connected", "backoff"}

\* A job that believes to hold the lease does: no expiry, no deletion by another
\* execution and no crash takes the key away (worker.py 749-760, 1017-1026).
HeldLeaseIsAlive == \A e \in Execs : held[e] => lease > 0

\* At most one execution believes to hold the lease, although the key names no
\* owner (session.py 318-320).
OneHolder == \A e, f \in Execs : held[e] /\ held[f] => e = f

\* Whatever job dies with the lease, the listener gets past it again and again:
\* the agent does not stay deaf (listener.py 183-190).
ListenerComesBack == []<>(listener \in {"checked", "connected"})

-----------------------------------------------------------------------------
\* Claim of session.py 309-311: whoever holds the lease is the only process that
\* may keep a live connection.
OnlyHolderConnected ==
  \A e \in Execs : held[e] /\ phase[e] = "running" =>
    \A p \in Clients : conn[p] => p = Home[e]

\* Claim of session.py 340-341: only one long-running job runs per agent.
OneLongJob ==
  \A e, f \in Long : phase[e] = "running" /\ phase[f] = "running" => e = f

=============================================================================
