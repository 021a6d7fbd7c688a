# Madarbot: TLA+ models, model checking and proofs

Madarbot is a FastAPI backend and an aiogram bot around *agents*: Telegram user
accounts, driven with Telethon, that broadcast messages, add members to groups and
scrape groups on behalf of the users of a dashboard. The work of an agent is a
*job*: a row of `agent_jobs` in Postgres and one or more Dramatiq messages in Redis
that ask a worker process to execute it.

This directory holds models of two parts of it. The first is where several processes of
the backend share state without a common lock: the job queue, the claims on members, the
lease on a Telegram session and the sending of broadcasts. The second is where one thread
shares its state with itself, across awaits: the agents' mini-app and the pages of the
dashboard that start those jobs, whose handlers, timers, polls and answers interleave. Source
lines are given as in the repository (`bot/...` is `src/bot/...`, `miniapp/...` is
`src/apps/miniapp-agents/src/...`, `shared/...` is `src/packages/miniapp-shared/src/...`,
`dashboard/...` is `src/dashboard/src/...`).

- [Inventory](#inventory)
- [Modules](#modules)
- [Runs](#runs)
- [Proofs](#proofs)
- [What the code does not do](#what-the-code-does-not-do)
- [Only model-checked, not modelled](#only-model-checked)
- [Plan](#plan)

## Inventory

### Processes and stores

| process | runs | state of its own |
|---|---|---|
| API server (`bot/dashboard/api`) | request handlers, `scheduler_loop`, `reconcile_loop` | one SQLAlchemy session per request or round |
| worker processes (`bot/workers/app.py`, `bot/agents/worker.py`) | executions of `execute_agent_job` | session, local variables, a pool of Telethon clients |
| bot (`bot/main.py`) | handlers of updates, `AgentListenerManager` | a pool of Telethon clients |
| Postgres | `agent_jobs`, `member_claims`, `sent_broadcast_messages`, ... | committed rows |
| Redis | Dramatiq queues, session lease, rate-limiter keys | |
| Telegram | deliveries; ends a connection when a second one uses the same auth key | |
| web applications (`miniapp`, `dashboard`) | handlers, effects, timers and polls of React components | components' state, a token and a user in the browser's storage |

A session keeps the first copy of a row it reads and writes it back by primary key
(`db/session.py`: `expire_on_commit=False`, and no row has a version). Every handler that
reads, awaits and writes may therefore overwrite what was committed in between. This
is the source of most of the behaviours below.

### Components, their operations and what makes them correct

1. **Agent job queue** (`agents/dispatch.py`, `agents/worker.py`,
   `services/scheduler.py`, `agents/agent_job_service.py`, endpoints in
   `dashboard/api/routers/agents.py`).
   State: status, age, `_resume_at` and progress of a row; messages with their retry
   counters. Operations: create, schedule, promote, dispatch, reconcile, claim,
   checkpoint, finish, park, reschedule, raise, cancel, retry, crash.
   Correct if a job is executed by one worker at a time, is not stranded, is not
   retried for ever, and its messages do not multiply.
2. **Member claims** (`services/member_claim_service.py`, endpoints, runtimes).
   State: rows of `member_claims`, and the copies of their ids in payloads, requests
   and executions. Operations: claim, release, expire, and the endpoints and
   executions that use them. Correct if a member has one holder per workspace,
   nobody releases another agent's claim, and every claim ends.
3. **Session lease** (`agents/session.py`, `agents/worker.py`, `agents/listener.py`).
   State: one Redis key per agent, a pooled client per process and agent. Operations:
   acquire, renew, release, look, connect, disconnect. Correct if at most one
   connection per agent is at work and the listener comes back after jobs.
4. **Broadcasts** (`agents/runtime.py` 406-1279, `utils/rate_limiter.py`). State:
   `sent_broadcast_messages`, the job's `sent_users`, the contacts of the day.
   Operations: prefetch, insert, send, mark, record, checkpoint, settle a failure.
   Correct if nobody gets the text twice or is left out, and the daily limit holds.
5. **Bulk addition of members** (`agents/runtime.py` 1429-2003): `member_operations`,
   fallback to invite links, long pauses. Correct if a member is invited once.
6. **Agent rate limiter** (`utils/rate_limiter.py`): hourly and daily counters,
   minimum delay, cooldown.
7. **Recurring campaigns** (`services/campaign_service.py`): a campaign that is due
   creates one job per group and moves `next_run_at`. Correct if each period is run
   once and the number of runs is respected.
8. **Billing** (Whop, Stripe, subscriptions): webhooks grant and revoke periods.
   Correct if a redelivered or reordered event does not grant twice.
9. **Workspaces and invitations**, **join requests**, **moderation warnings**,
   **scheduled messages**, **membership tasks**: rows with a life cycle that several
   requests move at a time.
10. **Member search** (`bot/search`): a filter tree is normalised, validated and
    compiled to SQL: pure algorithms.
11. **Client of the mini-apps** (`shared/api/base.ts`, `shared/auth/useMiniappSession.ts`).
    State: the token in the storage, the token request that calls join, the calls, the
    active workspace and the one of the headers. Operations: a call, its retry after a
    401, the token request, the identity's arrival, a switch of the workspace. Correct if
    no refused token is sent again, every call ends and no late answer undoes a switch.
12. **Agents' mini-app** (`miniapp/App.tsx`, `miniapp/pages`, `miniapp/features`,
    `miniapp/components`): accounts and the wizard that links one, notifications and
    toasts, subscription, MCP tokens; tasks and logs, leads and their acquisition,
    blacklist, analytics, member filter and search, sends with their picker, preflight and
    composer, campaigns, automation tasks, bulk additions. State: each component's, and
    what the server shows of its rows. Correct if controls come back, what is on display
    or about to be sent belongs to the account, filter, target or summary it is shown
    for, and nothing is done to members that others have claimed.
13. **Dashboard** (`dashboard/lib/api.ts`, `dashboard/pages`): logins with a form or
    Telegram's widget, stored accounts, logout, invitations; the scraper; the bulk
    addition. Correct if the user shown is the one whose token is sent, no page is open
    to a role it is not for, and the pages keep up with the jobs they start.
14. Listener events, automation tasks at the server, messaging, scraper, AI features, MCP
    server, bot menus, backups, the other pages, migrations: I/O, user interface around
    single calls, or calls to language models. Not modelled.

### Interactions

- An endpoint commits a job and calls the dispatcher, which enqueues a message and then
  commits `queued`; the worker may have claimed the job by then.
- The reconcile loop and the worker both decide from the row alone whether an execution
  is alive.
- The bulk-add endpoint makes claims, then the job, then stores the claim ids in the
  payload: three transactions. The execution reads the ids once and releases them at
  its end; expiry and users release them at any time.
- Executions take the session lease, the listener looks at it. Executions in one
  process share the Telethon client and disconnect it when they end.
- A broadcast reads the rows of earlier sends once, before its first send.
- A page sends a request and goes on when the answer arrives, in whatever state the
  component is by then, mounted or not. Effects that read data look at a flag their
  cleanup sets; handlers of clicks mostly do not.
- The mini-app claims members, asks for a preflight, shows a summary and then sends: four
  calls between which members expire or go to other agents (`MemberClaims`' subject).

`PROJECT.json` lists the hazards this makes, each at its line, with the properties that
cover it or the reason why none does.

## Modules

| module | models | composes |
|---|---|---|
| `AgentJobQueue` | component 1 | |
| `AgentJobQueueHistory` | with counts of enqueues and a flag for overwritten rows | extends `AgentJobQueue` |
| `MemberReservation` | what claiming promises, abstractly | |
| `MemberClaims` | component 2 | `INSTANCE MemberReservation` |
| `SessionLease` | component 3 | |
| `SessionLeaseHistory` | with counts of the listener's connections over one lease | extends `SessionLease` |
| `BroadcastRuntime` | component 4, daily limit of component 6 | |
| `MiniappClient` | component 11 | |
| `WebView` | a component, its requests in flight and the server's rows it shows | |
| `AgentsShell`, `AgentsNotifications`, `AgentsSettings` | component 12: accounts and wizard; notifications and toasts; subscription and MCP tokens | extend `WebView` |
| `AgentsTasks`, `AgentsLeads`, `MemberFilter`, `AgentsCampaigns`, `AgentsAutomation` | component 12: the pages of an account | extend `WebView`, the last two `MemberFilter` |
| `DashboardSession`, `DashboardScraper`, `DashboardBulkAdd` | component 13 | extend `WebView` |
| `WebShell`, `AgentsPages` | the pages of the shells and the dashboard, and those of an account, side by side: a behaviour is one page's, chosen by `Init` | extend the modules of the pages |
| `MC*` | instances for TLC | extend the module they check |
| `WebViewProofs` | lemmas about `WebView`, used for every page | extends `WebView` |
| `*Proofs` | theorems | extend the module they are about |

Each module takes its environment from the ones before it and leaves it abstract: in
`MemberClaims`, `SessionLease` and `BroadcastRuntime` any idle worker may start a job that
is ready, because how a job gets a message is `AgentJobQueue`'s subject; in `MemberClaims`
an execution may end anywhere, because why it does is `SessionLease`'s and
`BroadcastRuntime`'s.

### AgentJobQueue

`job` holds the committed rows, `msg` the messages, `worker` and `proc` the local state of
executions and of coroutines of the API server, copies of rows included. A handler is
split where it awaits between a read and a write: `DispatchRead`, `DispatchSend`,
`DispatchMark` are `dispatch.py` 204-246; `ReconcileScan` and `ReconcileCommit` the two
ends of the transaction of `reconcile_stale_jobs`; `CancelRead`/`CancelCommit` and
`RetryRead`/`RetryCommit` the endpoints. `Claim` is one action because it is one guarded
`UPDATE`. What the ORM leaves out of an `UPDATE` is modelled: `DispatchMark` writes nothing
if the row was read as `queued`, and `Recovered` shows that the incremented `retry_count`
is only written when there was no progress object (`dispatch.py` 139-144).

Time is `Tick`, which ages rows and counts delays down; ages saturate beyond every
threshold.

### MemberClaims

`claim` holds the rows; a claim id is a pair of a member and a number, the number
standing for the order of insertion. `ClaimMembers` is `claim_members`: one INSERT of a row
for each member, `ON CONFLICT DO NOTHING` on the partial unique index, so that it inserts those
that are not `Taken`. The bulk add is
`BulkAddClaim`, `CreateJob`, `StoreAddClaims`, one per transaction; the claimed send is
`SendCheck`, `CreateJob`, `StoreSendClaims`. `RequestFails` abandons either between two of
them. `StorePayload` shows that the last transaction writes the payload of its own session.

`MemberReservation` has one variable, who holds a member, and two actions, `Reserve` and
`Free`. `MemberClaims` implements it under the mapping `Holder`.

### SessionLease

The key has no owner, so it is a number: the renewal periods until it expires. An
execution of a long job waits, makes `Tries` attempts (six in the code) and then goes on
without the lease, which is what `worker.py` 742-761 does. `AcquireLost` is a `SET` that
took effect and whose answer was lost. The renewal task of an execution renews in each
period or misses it (`Renew`, `MissRenewal`); `Tick` waits for both. `Kick` is Telegram
ending one of two connections of an auth key, `Disconnect` an execution that ends the
client its process shares.

### BroadcastRuntime

One text, one agent, one group: the rows of all jobs exclude each other, as they do in the
code for equal `message_hash`. The steps of one recipient are `Pick` (limits),
`InsertPending`, `Deliver` or `SendRaises`, `MarkSent`, `Record` or `RecordFails`, and
`Checkpoint` or `NoCheckpoint`; the handler of exceptions is `SettleFailed` and, for a
flood or a ban, `SettleStopped`. `work[w].shared` says that the session's copy of the row
holds the same progress object as the local payload, which is what decides whether a note
made at a flood reaches the row (`runtime.py` 726 and 738, `worker.py` 452-457).
`overlap` is a history variable: an execution of the job began during another one.
The `Kind` of a job selects between the three variants (members, claimed members, groups);
they differ in `Prefetch`, `Record`, `SettleFailed` and `Finish`.

### MiniappClient

An action is what runs between two awaits. `stored` is the token in the session storage,
`promise` names the call whose token request others join (`miniappTokenPromise`), and each
call has its own progress: `Start`, `AskForToken`, `TokenIssued` or `TokenRefused`, `Answered`,
`RefusedOnce` with the retry, `RefusedTwice`. `Resume` lets everyone go on who awaits the same
request. A token a call has seen refused stays refused (`refused` is a history of it), any
other may be refused whenever it is used. `context` is the workspace the headers are built
with, `active` the one on display.

### WebView and the pages

`ui` is the state of the mounted component, `net` a set of requests for each kind, `srv`
the rows of the server. A handler with *n* awaits is *n* + 1 actions: one that sends
(`Ask`), one of the server for each request (`Serve`), and one that takes each answer (`Take`,
or `Further` when it sends the next request). `Fail` loses a request before or after the
server has executed it, or stands for whatever refusal of the server the page takes in the same
way. A request whose component was unmounted
or whose effect was cleaned up is no longer `live`: the server executes it, and its answer is
discarded (`Discard`). Where the code does not look at a flag, the answer is taken in
whatever state the component is (`Answered`), and this is where most of the hazards are.
Requests of one kind are a set, so answers overtake each other. Requests have no identity:
two that are alike are one until the server executes it, which leaves out that something is
done twice for equal requests, and no property is about that.

`ui.busy` holds the operations whose buttons are disabled or that show a spinner; each
request carries the operations it is a step of, which is what `ControlsEndBut` compares. It
excepts the operations given to it, and the pages give it the three loading states that the
code itself leaves on with nothing in flight:

- the count of a filter: `counting` is set before its timer of 300 ms; when the draft is blanked
  or the dialog closed before it fires, the timer is cleared and `counting` stays
  (`MemberFilterDialog.tsx` 151-171, `CountLasts`);
- the search of groups of the bulk form: its loading state is set before a timer of 350 ms and
  stays when the query is cleared before it fires (`AutomationTasksSection.tsx` 208-251,
  `BulkSearchesLast`);
- the notification sheet: it starts as loading, and opened without an account it is never
  read, so its buttons stay disabled (`App.tsx` 505, `SheetLoadingLasts`).

Each exception holds in these states only: a filter that can be counted, a search with a text
whose timer has fired and a sheet that is open for an account are not excepted.

Names, texts and dates are small sets. What the server does with a request is modelled from
its handler in `bot/dashboard/api`, as far as the page can tell. Marked external is what has no
lines there: the browser, React and the network, what users and webhooks do elsewhere, and
what the workers do meanwhile, which `AgentJobQueue` and `MemberClaims` model.

Some steps that look like one in the code are two, because something can come between:

- the dashboard asks for a load (`location.href = ...`) and the load comes later
  (`DashboardSession.Load`). Scripts run on until then, and a late answer to `/me` can store a
  session again that a logout or a 401 has just cleared. The code does this, so no property
  says that a logout lasts; `UserIsOfToken` and `PageOfRole` hold nevertheless;
- the server checks the claims of a send and creates its job in different statements
  (`CheckSend`, `CreateSend`; `routers/agents.py` 1437-1485). Claims end and go to other agents
  between them, so a job may go to members that are no longer the agent's; what remains true is
  that it only goes to whom the user confirmed (`SentAsConfirmed`).

A task of the mini-app that is edited is rebuilt from its form (`OpenedForm`, `Saved`).
It loses what the form has no field for (`lead_label`, `ask_contact`), gets the limits the
form shows for those it did not have, and is enabled. `UntouchedKeeps` says what survives when nothing was
changed: its texts, where it goes, and the delay and limits it has. `AutoClaimed` does not say
for which source group a member was claimed: `claimedRef` is emptied when the source
changes, and an answer that comes after that fills it again.

The pages of one application do not share state beyond the selected account, so each
is explored on its own, in the state a navigation leaves it in; the
shell, which selects the account, is `AgentsShell`. Pages with several independent
tasks have *scenarios* (`"list"`, `"act"`, `"read"` for the tasks, and so on): `Init` gives
each a state it can be in and `ui.scenario` which of its operations the behaviour uses. A
scenario is a bound, named in `Init`: operations of two of them are not interleaved.

## Runs

| run | properties | what it shows |
|---|---|---|
| `queue_crashes` | `RetriesBounded`, `ClaimExclusive`, `CopiesBounded` | two executions, cancel and retry requests and one crash: no message is retried beyond its ceiling, the claim keeps executions exclusive until someone overwrites a running row, the messages of a job do not multiply |
| `queue_liveness` | `TypeOK`, `WaitingJobMoves`, `AbandonedJobRecovers` | schedule, cancel and retry requests and one crash: rows stay in the enumeration, nothing stays pending, queued or abandoned in running for ever |
| `queue_one_executor` | `AtMostOneExecutor` **violated** | see below |
| `queue_retry_executed` | `RetryIsExecuted` **violated** | see below |
| `claims` | `TypeOK`, `OneHolder`, `ListsOwnClaims`, `ReservationSpec`, `ClaimEnds` | in two workspaces a member has one holder in each, payloads only list the agent's own claims, the rows implement the reservation, and every claim ends |
| `lease` | `TypeOK`, `HeldLeaseIsAlive`, `OneHolder`, `IntrudesOnce`, `ListenerComesBack` | who believes to hold the lease does, alone; the listener connects over a lease at most once, and finds the session free again and again |
| `broadcast_overlaps` | `TypeOK`, `ResendsAfterFailure`, `ProgressIsTrue`, `DailyLimitBound` | resends, checkpoints and the limit under overlapping executions |
| `broadcast_duplicates` | `NoDuplicateSends` **violated** | see below |
| `miniapp_client` | `RefusedTokenNotSent`, `SwitchIsKept`, `EveryCallSettles` | calls that share a token, its request and its refusals |
| `web_shell` | `ShellControlsEnd`, `StatusOfSelected`, `SecretIsNewest`, `UserIsOfToken`, `PageOfRole`, `JobIsLatest`, `SelectedNotThere`, `ToastedOnce` | shell, notifications and settings of the mini-app; session, scraper and bulk addition of the dashboard |
| `agents_pages` | `PageControlsEnd`, `PagesShowAll`, `FilterSettles`, `AutoClaimed`, `SentAsConfirmed`, `MediaStaysWithMessage`, `UntouchedKeeps`, `HeldIsOfTarget` | the pages of an account in the mini-app |
| `filter_narrows` | `FilterNarrows` **violated** | see below |

### Bounds, and why they are enough

- *Queue.* One job: nothing in the code relates two jobs except the batches of the
  loops, which the model keeps as sets. Two executions and two messages are what it takes
  for a second execution, a third message only exists after a parked execution
  (`queue_liveness` has three, two of them reserved for the workers' own successors, because
  a full queue would otherwise stop a worker that Redis never stops). Ceilings of 1 and 2
  keep the order `ActorMaxRetries <= MaxJobReschedules` of the code (3 and 5). Ages are
  0 to 2 for thresholds of 0 and 1: one tick below, at and above each; in `queue_crashes` the
  ages that make a job stale or stuck are 0, so that every recovery competes with every step. `MaxCrashes` is 1, and
  `MaxEnqueues` 2 bounds how often the dispatcher reaches the broker.
- *Claims.* `MaxClaims = 2` rows per member: a claim, its end and the claim after it.
  Three agents in two workspaces, one member, one request and one execution at a time, all
  four kinds of requests; `Ttl = 0` lets a claim expire at any time after it was made. Two
  concurrent requests are covered by the proofs only. `CHECK_DEADLOCK FALSE` because claims
  run out at that bound.
- *Lease.* The life of the key (5 periods) is the code's; 2 attempts instead of 6 shorten
  the wait only. Two long jobs and one short one on two processes. `MaxMissed = 3` is the
  largest number of missed renewals in a row for which the lease outlives them; with one
  more `HeldLeaseIsAlive` fails, as it should. `MaxMisreads = 1`.
- *Broadcast.* Three recipients and `Batch = 2` give an execution with no, one and two
  checkpoints; `MaxPerDay = 1` makes the limit bite while two executions are under way;
  two starts of a job, after which nothing makes its row ready again (`MayStart`) and it
  stays where it is (hence `CHECK_DEADLOCK FALSE`).

- *Client.* Two calls, one of them of the session; four tokens, because each call is
  sent twice at most and asks for one token before each.  `CHECK_DEADLOCK FALSE`: when both
  calls have ended the page is idle.
- *Pages.* `MaxNet = 2`: a user acts, and a timer fires, when fewer than two requests are in
  flight, which is what it takes for one to overtake another; a handler under way always
  goes on. Two accounts, jobs, groups, members or targets make something stale, three
  accounts in two workspaces one that is not listed; the picker and the sends have a source
  without members, the search of groups has one text to type; `PageSize` and `RowsPerPage` of 1 give
  several pages. `ToastLimit = 1` and two timers; two people, one of them an owner of
  the bot, one expiry of the owner's tokens; the user does nothing while a load of the
  dashboard that was asked for is still to come. `CHECK_DEADLOCK FALSE`: the user may do nothing more, or a
  bound on what she starts (`MaxTokens`, `MaxSends`, `MaxScrapes`, `MaxJobs`, ...) is reached.
- *Filter.* One request at a time, three members and two keywords: a keyword no member has
  is enough.

Symmetry is used only in runs without temporal properties.

### Fairness

- `AgentJobQueue`: time passes; the coroutines and executions that are under way go on
  (asyncio and Dramatiq threads; an execution ends at the actor's `time_limit` at the
  latest); a handler of a cancel or a retry that has begun ends, unless the API server
  crashes; a message that is again and again ready for delivery is delivered (a Redis list
  is first in, first out), hence strong fairness for it. Nothing is assumed of users, crashes, or
  Redis coming back, which is why a failed enqueue is recovered only if the code does it.
- `MemberClaims`: time passes and the reconcile loop expires claims, nothing else: no
  request and no execution has to end. In the code the expiry is skipped in a round in which
  `reconcile_stale_jobs` raises (`scheduler.py` 90-113); the assumption is that some
  round does not.
- `SessionLease`: time passes, an execution that has begun goes on and ends (in success or
  failure: no fairness tells its calls to Redis and Telegram to succeed), its renewal task
  wakes up, and the listener's loop goes on. Its look at the lease has strong fairness: the
  sync loop may cancel the task every 15 seconds, the look takes milliseconds.

- `MiniappClient`: a call that can go on does; fetches end, in an answer or a failure
  (browsers time them out), and so does the wait for Telegram's init data, which has a
  time limit. Nothing is assumed of users, of the server's answers or of aborts.
- The pages have no liveness properties: that a control comes back is stated without
  fairness, as `ShellControlsEnd` and `PageControlsEnd`: but for the loading states named
  above, a control is disabled only while a request it waits for is in flight.

## Proofs

All theorems hold for every value of the constants that satisfies the named assumptions.

| module | theorem | statement |
|---|---|---|
| `AgentJobQueueProofs` | `TypeCorrect` | `Spec => []TypeOK` |
| | `RetryCeiling` | `Spec => []RetriesBounded` |
| | `ClaimIsExclusive` | `HSpec => []ClaimExclusive` |
| | `MessagesAreBounded` | `HSpec => []CopiesBounded` |
| `MemberClaimsProofs` | `TypeCorrect` | `Spec => []TypeOK` |
| | `OneHolderAlways` | `Spec => []OneHolder` |
| | `OwnClaimsAlways` | `Spec => []ListsOwnClaims` |
| | `ClaimsImplementReservation` | `Spec => ReservationSpec` |
| `SessionLeaseProofs` | `TypeCorrect` | `Spec => []TypeOK` |
| | `HeldLeaseAlive` | `MaxMissed + 1 < Ttl => (Spec => []HeldLeaseIsAlive)` |
| | `OneLeaseHolder` | `MaxMissed + 1 < Ttl => (Spec => []OneHolder)` |
| | `ListenerIntrudesOnce` | `HSpec => []IntrudesOnce` |
| `BroadcastRuntimeProofs` | `TypeCorrect` | `Spec => []TypeOK` |
| | `ResendsAccounted` | `Spec => []ResendsAfterFailure` |
| | `ProgressTrue` | `Spec => []ProgressIsTrue` |
| | `LimitExceededByWorkers` | `Spec => []DailyLimitBound` |
| `MiniappClientProofs` | `TypeCorrect` | `Spec => []TypeOK` |
| | `RefusedStaysUnsent` | `Spec => RefusedTokenNotSent` |
| | `SwitchStays` | `Spec => SwitchIsKept` |
| `WebShellProofs` | `PagesControlsEnd` | `Spec => []ShellControlsEnd` |
| | `UserAlwaysOfToken` | `Spec => []UserIsOfToken` |
| | `PageAlwaysOfRole` | `Spec => []PageOfRole` |
| | `JobAlwaysLatest` | `Spec => []JobIsLatest` |
| | `SelectedNeverThere` | `Spec => []SelectedNotThere` |
| | `SecretAlwaysNewest` | `Spec => []SecretIsNewest` |
| | `StatusAlwaysOfSelected` | `Spec => []StatusOfSelected` |
| | `AlwaysToastedOnce` | `Spec => ToastedOnce` |
| `AgentsPagesProofs` | `PagesControlsEnd` | `Spec => []PageControlsEnd` |
| | `PagesAlwaysShowAll` | `Spec => []PagesShowAll` |
| | `FilterAlwaysSettles` | `Spec => []FilterSettles` |
| | `AlwaysAutoClaimed` | `Spec => []AutoClaimed` |
| | `SentAlwaysAsConfirmed` | `Spec => []SentAsConfirmed` |
| | `MediaAlwaysWithMessage` | `Spec => []MediaStaysWithMessage` |
| | `UntouchedAlwaysKeeps` | `Spec => []UntouchedKeeps` |
| | `HeldAlwaysOfTarget` | `Spec => []HeldIsOfTarget` |

With these, every invariant that a passing run checks, and every property of its steps, is a
theorem; what is left is listed under [Only model-checked](#only-model-checked). In
`AgentJobQueueProofs` and `SessionLeaseProofs`, `HSpec` is the specification with history
variables. `Spec` of `WebShellProofs` and `AgentsPagesProofs` is that of `WebShell` and
`AgentsPages`; the run `web_shell` starts the shell with two of the states of accounts that
`WebShell` allows.

The assumptions are about constants and say what the code has: sets that are finite
(`Slots`, `Workers`, `Members`, `Jobs` of the task activity), numbers that are natural and
page sizes that are not zero, functions with the domain they are used on (`Kind`, `Home`,
`Workspace`, `Has`), the order of the two ceilings, and values that stand for "nothing"
(`None`, `Failed`, `Listener`) and are none of the others.

**Queue.** `TypeOK` is not inductive: an execution raises the counter of the message it
took, so it must have one. `Linked` says that each execution owns one taken message,
about its own job, and that coroutines that work on a job name one. `RetriesBounded` follows
with `Linked` because `Raise` and `Reschedule` are guarded by the counter of the very
message they replace. For `ClaimExclusive` the invariant adds `RowSaysRunning`: a job that
is executed and was never overwritten has a running row, so the guard of `Claim` fails.
`CopiesBounded` is about a cardinality, and inductive with `Linked`: each step changes
the set of the messages that count by one at most, because an execution that has sent its
successor has its own message, which it only has to acknowledge, no longer counted.

**Claims.** `OneHolder` needs that a row is inserted under the smallest unused number
and that an active row has an agent. `ListsOwnClaims` needs the ids to be right in all
places that hold them, the request, the payload and the execution, hence `ClaimInv`.
The refinement shows for each action that it maps to `Reserve`, to `Free` or to no change
of `Holder`; `OneHolder` makes the mapping well defined.

**Lease.** Type correctness needs `TriesLeft`, that an execution which has yet to take the
lease has an attempt left. `KeyLasts`: the key of an execution that believes to hold it lasts at least
as long as the renewals it may still miss. With it nobody else can create the key, which
gives `OneHolder`, which in turn is why renewing and deleting a key without an owner
does no harm: the two invariants are proved together. `HeldLeaseAlive` fails without the
hypothesis, and the code does not enforce it: it holds as long as fewer than four renewals
in a row fail. `ListenerIntrudesOnce` needs no hypothesis.

**Broadcast.** The code marks a row by its id; the model counts rows by status, so type
correctness says that no count falls below zero. As executions of one job may overlap and
have rows of the same user in hand, the invariant compares the number of executions that
have a row of a job, recipient and status in hand with the number of such rows
(`Counted`); a step of one execution changes it by one at most (`HandsChange`).
`ResendsAfterFailure` needs, of a job whose executions did not overlap, that there is one
execution at most, that each user has at most one row that did not fail, and that the
execution has only users without one on its list (`Resending`); the dedup query
establishes the last part. `ProgressIsTrue` needs the same of the three copies of
`sent_users` an execution has (`True`). For `DailyLimitBound` the contacts are counted
together with the executions that passed the check and have not yet counted their user
(`LimitInv`).

**Client.** Tokens are numbered as they are issued. `IInv` says that calls carry, and have
seen refused, only tokens that were issued, that the stored one was seen refused by
nobody (`StoredIsGood`), and that a call which is not out has a try left, which type
correctness needs. A refusal empties the storage and what is written to it afterwards is newer than
every refusal. `SwitchStays` needs only that the workspace of the headers, which is what
an arriving identity looks at, is the active one.

**Pages.** That controls end is not inductive alone: a flag is freed by the answer to a request,
so the proof has to know that answers are taken one at a time, that each request belongs
to a kind the page has, and which operations it is a step of. `WebViewProofs` has the facts
that all pages share: what sending, executing, cancelling and taking a request do to the
operations in flight, and `Alive`, the invariant of a page of which nothing else
matters (leads, acquisition, blacklist, analytics, search and campaigns). The other pages
have an invariant each, which adds what their own property is about:

- *session*: the second request of a login carries the token that the first one issued, and
  is answered with the owner of that token (`MeRequest`). `PageOfRole` is inductive with it,
  because whatever changes the role while a page is shown, a login's answer or a 401, leads to the
  workspace or asks for a load, and a link is judged by the role stored when it is followed,
  not by the menu it is on;
- *scraper*: one start at most is in flight, no job is on display meanwhile and what it
  answers is the latest; a poll that is not cancelled is of the job on display (`Starting`,
  `Polling`);
- *bulk addition* of the dashboard: the property is inductive with the kinds of the requests,
  whichever of list and selection a step changes (`Apart`);
- *tokens*: at most one creation is in flight and not cancelled, nothing is on display
  meanwhile, and what it answers is the newest token (`OneAtATime`, `NothingShown`);
- *shell*: a request for the state of an account that is not cancelled is for the account
  selected (`StatusOf`), because whatever changes the selection cancels those before; it also
  asks for the state of the new one, so that until that first request is answered it is in
  flight (`Known`, `StatusKept`). The state of the account before stays on display till then;
- *notifications*: `lastNotifIdRef` is never behind what was toasted since it was set
  (`BoxSettled`), so the answer of a poll that is overtaken toasts nothing again. The loading state of the
  sheet has a request behind it once the sheet is open for an account (`BoxEnds`, `SheetRead`);
- *tasks*: `PagesShowAll` is a statement about concatenations for every list: that the pages
  of a list make it up again (`PagesMakeUpList`), and the pages of a report its log;
- *filter*: operations other than the count have a request in flight, and the count has one
  when its timer has fired and the draft can be counted; for which filter each count and each page in flight is (`CountOf`, `FoundOf`); it
  does not say that the filter applied is the draft, which may be edited meanwhile;
- *picker*: whoever is selected while the timer does not run is claimed, was missed, or is
  asked for by a call in flight (`Covered`);
- *send*: a job is what a request carries, checked by the server or not, and the request was
  made of the answer to the one before (`SendRequests`); the form occurs in none of the three
  conditions and may change;
- *composer*: the rows that an upload carries have their media in place as well, because
  they replace those on display (`UploadRequest`);
- *automation*: `Saved` keeps what `OpenedForm` was opened with only for tasks whose fields
  belong to their kind; the invariant follows the tasks from the form to the server and back,
  where all are (`SavedTasks`), and says of the form on display that it keeps what was opened
  until it is edited (`Untouched`);
- *bulk form*: a look-up that is not cancelled is for the target chosen now, and additions
  are never forgotten (`HeldRequest`); the flags with a request behind them are those of the
  searches whose timer has fired and whose text is not cleared, and all others (`Awaited`).

The theorems about all pages follow because every action of a page is guarded by the page
that is mounted (`TasksAt`, `ShellAt`, ...): a step of `Next` is one of that page, or loses
or discards a request (`StepOfPage`), and the page's invariant holds after it.

Where a proof needs induction, for the concatenation of the pages of a list and for the
recursive function that filters the jobs, it takes the least number for which the statement
would fail, as the induction theorems of the library take an operator as a parameter.

## What the code does not do

Four runs look for what a comment or a document of the repository promises and find a
behaviour in which the code does otherwise; `PROJECT.json` quotes the lines.

- `AtMostOneExecutor`: the dispatcher commits `queued` after it has enqueued, over a row
  that a worker has set to `running`. Another message can then claim the job.
- `RetryIsExecuted`: a job that raised is left `running`, a status that cannot be claimed,
  so Dramatiq's redelivery of it is acknowledged without effect.
- `NoDuplicateSends`: the rows of earlier sends are read before the first send only, so
  two executions of one job send twice to whom neither had reached yet.
- `FilterNarrows`: a filter that nobody matches, once applied, lists every member of the
  source group, because no ids is also what the picker takes for no filter.

Other promises are stated in the modules and refuted in the same way. They have no run
of their own; the table says how to see each with a configuration derived from a listed one.

| definition | promise | how it fails | configuration |
|---|---|---|---|
| `TerminalUntilRetried` | `dispatch.py` 213 | a late `queued` over `completed` | `queue_retry_executed` with this property |
| `ParkedHasMessage` | `dispatch.py` 79 | a retried job keeps its `_resume_at` and has no message | the same with `Requests = {"retry"}`, as an invariant |
| `RecoveryIsCounted` | spec 008, `tasks.md` 95 | `retry_count` is incremented in a shared object and not written | the same with `StuckMaxRetries = 3` |
| `EnqueueFailedRecovers` | `dispatch.py` 60 | no query selects `enqueue_failed` | `queue_liveness` with this property |
| `OperatesOnOwnOrFree` | spec 019, 191 | a bulk add without a known source group claims nothing | `claims`, two jobs, `Requests = {"unclaimed"}` |
| `OperatesOnClaimed` | `runtime.py` 954 | a claim expires while its job is at work | the same, `Ttl = 1`, no requests |
| `OneOperationPerClaim` | spec 019, 196 | two claimed-send jobs list one claim | the same, `Ttl = 0`, as an invariant |
| `CompletedSendReleased` | `agents.py` 1482 | a claimed send never releases | the same with one job |
| `OnlyHolderConnected` | `session.py` 309 | the listener stays connected when a job takes the lease | `lease` with `HSpec`, as an invariant |
| `OneLongJob` | `session.py` 340 | after six attempts a job goes on without the lease | the same |
| `NoDuplicatesInGroups` | spec 008, 192 | a broadcast to groups starts again from the beginning | `broadcast_duplicates` with `Jobs = {toGroups}` and one worker |

## Only model-checked

The liveness properties, `WaitingJobMoves`, `AbandonedJobRecovers`, `ClaimEnds`,
`ListenerComesBack` and `EveryCallSettles`: the installed provers do neither fairness nor
`ENABLED`. The four violations above are counterexamples, and so are the promises of the table.

Not modelled of the modelled components: the bodies of the other job types, the follow-up
broadcast of a scrape (`worker.py` 625), functions without a caller (`recover_job`,
`update_job_status`, `delete_job`, `release_operation_claims`, `validate_claim_ownership`,
`release_all_agent_claims`), the branches for a partial result with `stopped_at`
(`worker.py` 807-836 and 880-914), which no runtime returns any more, and the check for an
aborted job inside the send loops (`runtime.py` 759-766), which looks at the session's own
copy and never sees the abort. The pauses, the cooldown and the hourly limit of a broadcast
are the exception that ends it; the blacklist and the threshold only make recipients fewer.

Of the web applications: the sheet of linked accounts, the pages of groups, of knowledge
and of help, the mini-app of groups, and the dashboard's pages that are lists and forms
around single calls. What an invitation does at the server, how Telegram's widget works and
what React and the router do are taken as the pages use them. A second tab, and with it
storage events, is left out: the code listens to none.

Further hazards were read in the code and have no property yet: a retried job keeps the
`_resume_at` of its last attempt (`bot/dashboard/api/routers/agents.py` 1766); a bulk add
without a known source group claims nothing (1213); a bulk add decides for hours by the
operations it read before its loop (`bot/agents/runtime.py` 1471); a disconnected client fails
one recipient after the other and the job completes (742); the hourly counter is incremented
by refused attempts (`bot/utils/rate_limiter.py` 23); recurring campaigns only run in ticks that
promote a job, and creating a job releases the locks of the campaigns that are due
(`bot/services/scheduler.py` 50, `campaign_service.py` 407); warnings are counted without a
lock (`moderation_enforcement_service.py` 40); Stripe and Whop events are not idempotent
(`group_payment_service.py` 258, `whop_service.py` 396); an invitation is accepted while it is
revoked (`workspace_service.py` 264); the membership actor runs jobs without the claim
(`bot/tasks/membership_tasks.py` 237). In the pages: the poll of a scrape ends when its first
answer says queued (`dashboard/pages/ScraperPage.tsx` 227); after a logout the login page stops
listening to Telegram's widget (`dashboard/pages/LoginPage.tsx` 90); a failed refresh empties
the list of bulk additions and ends its polling (`dashboard/pages/admin/BulkAddPage.tsx` 344).

## Plan

1. `BulkAddMembers`: operations per member, the prefetched `existing_ops`, the upsert of
   `direct_add`, fallback to links, floods; composed with `MemberClaims`. An abstract
   specification "a member is invited by one agent at a time" and where it fails.
2. `AgentRateLimiter`: hourly window, minimum delay, cooldown, concurrent callers.
3. `RecurringCampaigns`: the locks that `create_job` releases, two schedulers,
   `after_n_runs`; theorem: `run_count` never passes its end.
4. `Billing`: Whop orders and Stripe sessions under redelivery and reordering; abstract
   specification: each payment extends access once.
5. `WorkspaceInvitations`, `JoinRequests`, `Warnings`, `ScheduledMessages`.
6. `SearchFilter`: normaliser, validator and compiler of `bot/search` as operators
   against a reference evaluation, over bounded trees.
7. Proofs: the safety properties of 1 to 5; those of the components modelled so far are proved. Runs that show a
   refuted promise give way to runs of new components where the number of runs gets large.
