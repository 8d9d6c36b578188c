# Hermes: a verification companion in TLA+

This directory models the parts of the Hermes chat platform (FastAPI backend, agent runner,
Vue frontend) whose correctness depends on the order of events: who reads what before which
`await`, what a crash leaves behind, what a retry repeats. TLC checks the models on small
instances; TLAPS proves some of the properties for every value of the constants.

Everything is translated from the source. Each definition that models code has the file and the lines
it stands for in `PROJECT.json` (`map`); comments name the code where the correspondence is not obvious.

## 1. Inventory

### 1.1 The system

    browser (Vue) --HTTP--> API (FastAPI) --XADD acp:prompt--> Redis --XREADGROUP--> runner --stdio--> ACP agent
       ^                      |  |                               ^                     |
       +---- SSE / WS --------+  +---- PostgreSQL (rows) --------|---------------------+
                XREAD evt:conv:{id}                              +-- publish_event ----+

* **API process** (`app/`). Stateless handlers over PostgreSQL, Redis and MinIO. Several uvicorn
  workers may run: two requests interleave at every `await` and between processes.
* **Runner process** (`agent_runner/`). One asyncio loop: the main loop reads the task stream, one
  task per entry runs `handle`, a heartbeat refreshes the singleton lock and reclaims stale entries, a
  control loop serves fork/model requests. One subprocess per conversation speaks ACP over stdio.
* **Redis.** Task stream `acp:prompt` (consumer group), event stream `evt:conv:{id}` (capped at about 2000 entries, kept a day),
  control stream `acp:control` and channel `chan:control:{conv}`, cancel flags `acp:cancel:{conv}`, confirmation keys,
  the lists of the clarify bridge, memory status keys, the runner lock `hermes:runner:lock`, refresh-token and rate-limit keys.
* **PostgreSQL.** Conversations, messages, files and versions, users, teams, groups, memories.

### 1.2 Components

| Component | State it keeps | Operations | What is hard | What makes it correct |
|---|---|---|---|---|
| Turn dispatch (`conversation_service.send_message`, cancel endpoint) | message rows, cancel flag, task stream | send, cancel | commit, clear flag and enqueue are three steps of two stores | a sent turn is queued; a flag never stops a later turn |
| Runner loop (`runner.py`) | stream cursor, pending list, tasks, semaphore | read, ack, reclaim, shutdown, restart | acknowledgement before handling, reclaim's ack-then-add, shutdown between delivery and ack | each turn handled at most once, nothing leaks silently, every turn settles |
| Single-agent handling (`runner.handle_single`) | `acc`, steps, message row, events | start, update, cancel check, finalize, fail | callback of the read loop against the task; several turns of a conversation at once | row closed before `done`, stored text = streamed text |
| Session pool (`session_pool.py`) | `_clients`, `_last_used`, `_profile_dirs` | get, drop, evict_idle, close_all | pool written after awaits; eviction of a client in use | one client per conversation, none orphaned, none evicted in use |
| ACP client (`acp_client.py`) | `_pending`, `_next_id`, `_session_id`, `_closed` | start, request, notify, dispatch, fork, stop | answer racing the timeout, read loop ending with requests in flight | a request gets its own answer, no caller hangs |
| Runner lock (`runner._acquire_lock`, `_refresh_lock`, `_release_lock`) | `hermes:runner:lock` | acquire, refresh, release | lease expiry against refresh; get-then-expire | one active runner |
| Clarify bridge (`runner_clarify.py`, `redis.wait_for_confirmation`) | request/response keys, `acc["clarifies"]`, message row | pop, publish, wait, answer, deliver, record | answer racing the timeout, record after finalize | an answer reaches its question, the record is not lost |
| Control channel (`redis.publish_control`, `wait_for_control_response`, `_control_loop`) | control stream, pub/sub channel | fork, model | answer before subscribe; one channel for all requests of a conversation | an answer belongs to its request |
| Event delivery (`redis.publish_event`, `read_events`, SSE and WS endpoints, `useStream.ts`) | capped event stream, cursor | publish, read, reconnect | retry after an unknown outcome, trimming, reconnect cursor | no event lost or reordered between publish and client |
| Round table (`runner_roundtable.py`) | one row per participant, shared events | gather, summary | exception in one participant, cancel seen late | every row closed |
| Memory consolidation (`runner_memory.py`, `api/v1/memory.py`) | status key, memory rows | trigger, consolidate, edit | the status key doubles as a lock with a TTL; user edits during a run | one run at a time, no user edit lost |
| Workspace files (`services/storage.py`, `update_file_content`, `restore`) | file rows, versions, objects | save, edit, restore | version read before write, two writers | versions are dense, current version exists |
| Conversation storage (`conversation_service`: list, fork, delete) | rows, list cache | create, fork, delete, list | fork copies streaming rows; cache invalidation | the cache never shows stale rows longer than its TTL |
| Group chat (`dispatch_group`, `resolve_mentions`, members) | members, messages | join, mention, dispatch | check-then-insert | one membership per user |
| Authentication (`auth_service`, `core/redis` token helpers, `client.ts`, `stores/auth.ts`) | blacklist, refresh token in localStorage, access token per tab | login, refresh, logout, restore at a page load | rotation is read-then-write; tabs and bootstraps share one refresh token | a token is exchanged once, a session is lost only for a reason |
| Accounts and identity (`user_service`, `identity_service`, `auth_providers`) | user rows, connector, department mappings | local and directory sign-in, password, admin edits | find, then insert; rows loaded before another commit | a sign-in does not fail or revive an account by accident |
| Teams and governance (`team_service`, `teams.py`, `governance.py`) | teams, members, invites, channel | invite, accept, channel, limits | check-then-create | one channel per team |
| Admin settings and limits (`api/v1/admin.py`, `settings_service`, `ratelimit.py`) | settings row, live limit, fixed-window counters | read-modify-write; INCR and EXPIRE | lost update, a counter without expiry | the limit in force is the one shown, and it holds |
| File browser (`api/v1/files_browser.py`) | hidden storage conversation, folder rows and paths | upload, create folder, move, delete, list | first use twice, folder rows gone, prefixes of strings | every file is reached |
| Frontend stream and stores (`useStream.ts`, `chatStream.ts`, `chat.ts`) | connection, cursor, pending messages | open, close, apply | two connections at once, late events | an event is applied once to the open conversation |

## 2. Plan

The order follows what the system is for: a prompt that gets an answer, shown and stored; then what an agent
process shares with others; then the rows around it.

| Module | What it composes | Status |
|---|---|---|
| `TurnLifecycle` | abstract specification of a message | done |
| `PromptPipeline` (+ `MCPromptPipeline`) | API, task stream, runner loop, task, pool, read loop, cancel | done; implements `TurnLifecycle` |
| `PromptPipelineProofs`, `PromptPipelineSafety` | theorems about the pipeline | done |
| `RunnerLock` | lease, heartbeat, shutdown, expiry | done and proved |
| `RoundTable` (+ `MCRunnerTasks`, with `RunnerLock`) | participants, merge, cancel | done; implements `TurnLifecycle` and proved |
| `ClarifyBridge` | agent, task, waiters, confirm endpoint, row | done and proved |
| `AgentSessions` | pool, subprocesses, ACP sessions, fork | done and proved, but for `ForkKeepsApart`, which fails |
| `ControlChannel` | control stream and channel, control loop, JSON-RPC of a client | done and proved |
| `MCAgentLinks` | the three above in one run | done |
| `MemoryConsolidation` | status key as a lock, trigger, job, user edits, messages | done and proved |
| `ChatStream` (+ `MCChatStream`) | event stream, SSE, `useStream`, chat store | done; safety proved |
| `ConversationStore`, `GroupChat`, `WorkspaceFiles`, `FileBrowser` (+ `MCWorkspace`, with `MemoryConsolidation`) | rows of conversations, groups, files, folders | done and proved |
| `AuthSessions`, `TeamRows`, `Accounts`, `TenantSettings` (+ `MCAccounts`) | tabs and tokens, teams, accounts, settings and limits | done and proved |
| `RunnerTasksProofs`, `ClarifyBridgeProofs`, `AgentLinksProofs`, `ChatStreamProofs`, `AccountsProofs`, `WorkspaceProofs` | theorems about the components above: lock and round table; clarify bridge; sessions, control channel and consolidation; the stream and the screen; the four of `MCAccounts`; the four of `MCWorkspace` | done |

Left, in the order of use: the WebSocket endpoint and the round-table and clarify events in `ChatStream`; the
native clarify of `session/update`; the agents catalogue and the discovery of commands; notifications. All safety
properties of passing runs are proved.

## 3. The models

Common conventions. An action is what a coroutine does between two `await`s that matter: everything
between them is one step, since an asyncio process switches only at an `await`. An `await` that neither
reads nor writes state of the model is not a step. Variables named *history* in the comments are not in the
program; they record what a property needs. A definition that takes the name of a code function follows it;
`PROJECT.json` gives its lines. Operators that are not part of `Next` and of no property (`SendNoClear`,
`AcquireForever`, `ReadNewest`, ...) are faulty variants of the definition that follows them, used to
confirm that each property notices such a fault.

### 3.1 PromptPipeline

One agent turn from `send_message` to the `done` event.

| State | In the code |
|---|---|
| `api[t]` | how far `send_message` has come: row committed, flag cleared, task queued |
| `msg`, `saved` | `messages.status` and the amount of text in the agent row |
| `cancelFlag[c]` | the key `acp:cancel:{conv}` |
| `ent`, `last`, `delivered`, `pel` | the stream `acp:prompt`, the group's last-delivered id, its pending list |
| `runner`, `fetched`, `reclaiming` | the runner process, and the entry the main loop or the heartbeat has in hand |
| `pc[e]`, `text`, `stopping`, `outcome` | the coroutine of `_run_task`/`handle_single`, `acc["text"]`, `acc["cancelled"]`, `status` |
| `pool`, `using`, `live`, `bound`, `inCallback` | `SessionPool._clients`, the client of a task, its read loop, whose `on_update` it calls, and a callback that is suspended in a publish or an `is_cancelled` |
| `tokens`, `told` | what was published on the event stream for a message |

| Actions | In the code |
|---|---|
| `SendCommit`, `SendClearCancel`, `SendEnqueue`, `SendDies` | `send_message`: commit, `clear_cancel`, `enqueue_prompt`; the request dies in between |
| `PressCancel`, `CancelExpires` | the cancel endpoint; the flag's TTL |
| `ReadEntry`, `AckEntry`, `AckFails`, `SkipOnShutdown` | the main loop: XREADGROUP, shutdown check, XACK, `create_task` |
| `ReclaimAck`, `ReclaimAdd`, `ReclaimLost` | `_reclaim_stale`: XACK, XADD, a failure between them |
| `Signal`, `StopRunner`, `Crash`, `Restart` | SIGTERM and the drain, a crash, a new process |
| `Admit`, `NoAgent`, `PublishStart` | the semaphore, an unknown agent, the start of `handle_single` |
| `GetReuse`, `GetSpawn`, `GetRaises`, `GetInstall` | `SessionPool.get`: the reuse path; dropping the old client, the `stop` of which may raise; the install after the awaits |
| `Update`, `UpdateFails`, `CheckCancel` | `on_update` of the bound task: text, publish, `is_cancelled`; a callback that raises ends the read loop |
| `PromptReturns`, `Raises`, `DropAfterError`, `DropRaises` | the prompt answers or fails; the `except` branch drops the client, and that may raise too |
| `Finalize`, `ClearCancel`, `FailFinalize`, `PublishError`, `PublishDone`, `Aborts` | `_finalize`, `clear_cancel`, `_fail`, the last event; a call outside the `try` raises |

Left out: files and tool steps of a turn (they add no control flow), the clarify loop (3.3), usage numbers.
Text is counted in chunks.

Two turns of a conversation may be active at a time: the frontend prevents it in one tab, the API does
not. The model lets them overlap and states which promises survive: the cancel flag and the order of `done`
do. `SavedIsStreamed` and `NoTokenAfterDone` are checked where turns of a conversation are handled one after
the other (`MaxConcurrent = 1`); with overlapping tasks the second `get` rebinds the callback of the client
both prompt on, and the text of the first turn goes to the second message: this is how the code is, a
hazard without a property.

`TurnLifecycle` is the promise of a message in four actions: opened once, closed once, announced
only when closed, and, with a lost acknowledgement, perhaps closed again. `ImplementsLifecycle` says that the
pipeline implements it (`status` is `msg`, `announced` the turns with a `done` event, `doubt` the turns with a
failed XACK).

### 3.2 RunnerLock

`role[r]` is where `Runner.run` stands: `launched`, `starting` (lock held, no heartbeat yet), `active`,
`stopping`, `draining`, `out`. `lock` and `ttl` are the key `hermes:runner:lock` and its time to live,
`token[r]` is `self._lock_token`, `beating[r]` says that the heartbeat task runs. `Acquire` is SET NX EX,
`RefreshGet` and `RefreshExpire` are the two calls of `_refresh_lock`, `RefreshFails` a round whose Redis
call raised, `Release` the compare-and-delete script, `ExitRaises` the shutdown that awaits a heartbeat task
that has failed and so never releases, `HeartbeatDies` an `evict_idle` that raised. `Tick` lets a unit of
time pass when it makes no runner late; `Deadline` has the constants of the code. Of a heartbeat that died
nothing is promised: it has no deadline.

### 3.3 ClarifyBridge

The agent process pushes a question on `hermes:clarify:req:{sid}` and blocks on a list of its own; the
task of the turn pops it, records it, shows it and starts a waiter (`_wait_and_unblock_clarify`); the waiter
subscribes, checks the key, waits, and then announces the outcome, pushes it to the agent and rewrites the
row; in the meantime the turn may end (`LoopEnds`, `Finalize`) or fail (`PromptFails`, `Fail`): `_fail` finalizes
with the error text and without `clarifies`, so the outcomes that were in the row are gone until a waiter that is still running
writes its list again. `dropped` are the questions whose waiters were done by then. `notified` is an unread message of the
subscription, which every answer in the conversation sets for every waiter; `copy` is the row as a waiter
read it; `posting` are the answers stored and not yet published. `FlagCleared` stands for other turns of
the conversation that delete the flag. `Pop` to `WriteFails` follow the functions line by line in control.

### 3.4 AgentSessions

Subprocesses (`proc`: up, ended, `deaf` when the read loop has ended by an exception), their profile and
current session id, the pool with its marks of use, the row's `acp_session_id`, up to `MaxConcurrent` tasks of `handle_single`
(`task[t]`, the permits of the semaphore), the eviction of the heartbeat as a list that is worked through across awaits
(`EvictFirst`, `EvictNext`, `EvictEnds`), and the fork of a session from the API's row over the control
stream to `session/fork` and back. `home` says in which profile's store a session lives: a session of another
profile cannot be resumed. `Spawn` is the start with `initialize`, after which the client enters the pool (`Enter`) with the resumed
session (`Resume`), with a new one (`NewSession`), or with a new one because the resume raised or timed out (`ResumeFails`).
`SaveAndPrompt` is the commit of a new id and the prompt, `Fails` the drop after an exception.

`run` starts a task for every entry it reads, so two turns of one conversation may be in `get` or in their prompts at once, whatever
the docstring of `session_pool.py` says. The second `get` then writes over the first one's client (`overwritten`), a failing turn drops the client of
the other, and both may make a session. `overlapped` are the conversations to which this has happened: the properties hold of all others, and
`OwnSession` and the first half of `NoProcessLost` of these too, with the orphan named.

### 3.5 ChatStream

`stream[c]` is the Redis stream of a conversation with everything ever published; a reader sees the last
`Cap` entries. `link` is the EventSource with its url (`now`, or `since` the creation of a message), the cursor of
the endpoint and its count of errors; `active`, `streaming`, `shown` are `activeId`, `streamingConvoId` and
the messages on screen; `opening` and `sending` are the suspended calls of `openConversation` and
`sendSingle`; `timer` and `oldTimers` the refresh timers of this and of earlier registrations, which close
over nothing and act on whatever stream is open. `Publish` includes the retry of an XADD whose
answer was lost (the event is in the stream twice). `Deliver` is one XREAD step of the endpoint, the event
handler and the fold into the message.

### 3.6 RoundTable

One round table from `send_roundtable` to its `done`. `call[s]` is the coroutine of agent `s` (`_call_agent`: prompt,
timeout, `stop` in the `finally`), slot 0 is the merge; `shown` is what was streamed, `rtrow` the row. `Chunk`
is `on_update`, `ChunkFails` the event that cannot be published and so ends the read loop; `CallReturns`, `CallTimesOut` and
`CallFails` end the prompt, `StopsQuietly` and `StopRaisesIn` the `stop` after it. `FindsCancelled` is the one look at the cancel flag
between the answers and the merge; without a usable answer there is nothing to merge (`NothingUsable`), a single one is taken as
it is (`MergesOne`), otherwise the merge is a call of its own (`StartMerge`, `MergeEnds`). `FinalizeRoundtable`,
`RoundClearCancel` and `AnnounceRound` follow; `AbortRound` is a failure between them. `absent` are slots whose agent is unknown to the runner. It implements `TurnLifecycle` as the pipeline does
(`RoundKeepsPromise`).

### 3.7 ControlChannel

Requests for a fork or a model: `control[c]` is the API handler (publish, then subscribe, then wait), `entries` the
stream `acp:control`, `handler` the runner's task for an entry, and below it the JSON-RPC of one client:
`future` is `_pending`, `pipe` the agent's stdout, `loop` the read loop, which serves the agent's own requests
before it reads on. The turn's prompt is one more request on the pipe. The answer on the channel of
the conversation carries no request id: `inbox` is what the channel delivered to a subscriber.

### 3.8 MemoryConsolidation

`dreamLock.key` is the status key with its states, `dream[j]` a trigger of the endpoint and the job it queues (check of the
cooldown, SET NX, the reading of a stale status and its overwriting, enqueue, load, rewriting by the agent, the upsert and the
final status), `editor[e]` a PUT of the user between its budget check and its commit, `said` messages whose transactions are
stamped at their start and committed later. The stamp is of the conversation (`updated`): the message that titles it and the end of an answer
write it, another message of the user does not (`moves`). `LoadDream` reads as the job does: the conversations stamped after the last
dream (`Fresh`), the newest `MaxTalks` of them (`Chosen`), whole and oldest message first, up to `MaxLines` (`Excerpt`), which is the number of
characters counted in messages. What is left out is in `mhist.cut`: the stamp moves on all the same. `Trim` is `trim_memory_to_budget` with its rounding. `DreamsAlone`
records in `mhist.outlived` the two ways in which the key does not exclude: it expired under a job, or two
triggers overwrote one stale status.

### 3.9 The rows: ConversationStore, GroupChat, WorkspaceFiles, FileBrowser

The four modules have the same shape: a handler loads rows in one step (`Begin...`) and commits in another, and other
requests run in between; `sreq`, `greq`, `freq`, `breq` hold what a handler has loaded, `...RollBack`, `...Gone` and `AddFails`
are commits that the database refuses. What is loaded is what the handler reads before its first write;
columns not in the model (timestamps but for `created_at`, texts, sizes) are left out.

* `ConversationStore`: `store.cache` is the Redis list of ids. `BeginSend` to `EnqueueTask` follow `send_message` and its
  variants, the first-turn test and the choice of directives included (`Task`); `InvalidateCache` is the step after the commit;
  `ListHit`, `ListMiss` and `FillCache` are `list_conversations`; `RunnerBinds` and `RunnerTitles` are the runner's two writes to a
  conversation with a queued turn, its session and the title the agent sends, which replaces any other; `OpenConversation` and
  `ScrollUp` page by `created_at`, which is the start of the inserting transaction; `BeginFork` and `ForkConversation` copy the rows.
* `GroupChat`: `Resolve` is `resolve_mentions`, `BeginDispatchGroup` the routing by mode and mentions to `StoreOnly`,
  `DispatchSingle` (a transaction for the user's row, one for the agent's, then the task) or `DispatchRoundtable`.
* `WorkspaceFiles`: the rows of one name. `BeginSave`, `PutObject`, `LookUp`, `InsertFile`, `WriteFile` are `save_file` of the
  agent's text, in the database and in the object store; `BeginPatch` and `BeginRestore` load for `update_file_content`; versions beyond
  the last ten are dropped (`OldestBut`).
* `FileBrowser`: folders are rows, or shown because the path of a file goes through them; `StartsWith` compares strings,
  so that `/ab` also matches below `/a` (`Rest` gives the tails of such names); `FilesReached` asks that
  each folder on the way of a file's path shows the next one, so that clicking through from the root finds the file.

### 3.10 Who may do what: AuthSessions, TeamRows, Accounts, TenantSettings

* `AuthSessions`: `srv` has the blacklist and the access tokens that have not expired, `web` the refresh token in
  localStorage, and per tab the access token, the user and the exchanges under way: the two of a page load
  (`App.vue` and the router guard both call `bootstrap`) and the shared one of the interceptor. `RefreshCheck` and `RefreshRotate` are
  the two halves of `refresh_tokens`; `Call401` takes the shared refresh or starts it.
* `TeamRows`: each endpoint of `teams.py` that writes is a `Begin...` (membership, permission or role check on what it loads) and
  a commit. `Can`, `EnsurePolicy` and `Defaults` are `governance.py`. SQLAlchemy writes only what differs from the loaded row: `WriteColumn`
  changes one column and leaves what others wrote, `SaveUnchanged` writes nothing. A new link has always a new token, its role is
  written only when it is not the one that was loaded (`NewLink`).
* `Accounts`: `FindByExt`, `FindByEmail` and `ProvisionCommits` are `provision_user`; `LocalLogin` with its rehash,
  `ChangePassword`, the admin's `CreateUser` and `UpdateUser`, a user's own profile (`UpdateMe`), and the connector's form with its masked secret.
  Emails, identities and handles are unique columns; nobody looks whether a handle is free (`HandleInUse`).
* `TenantSettings`: `GetsSettings` loads the JSON (and inserts the row when it is the first), each writer stores its changed copy;
  `SetRateLimit` copies the limit to Redis afterwards, at least 1 (`AtLeastOne`), or leaves Redis alone when the stored payload has no number
  (`what = {}`: missing, or not an integer); `ShownLimit` and `DefaultLimit` are the defaults of the row and of the limiter, which are two
  constants of the code. `Incr` and `Expire` are the two calls of `hit`.

### 3.11 Composition

`MCRunnerTasks`, `MCAgentLinks`, `MCWorkspace` and `MCAccounts` put models side by side that share no state: the parts of
the code they follow touch different rows and keys, so any interleaving of two of them is an interleaving of each. The
variable `focus`, chosen at the start, says which one moves in a behaviour; a property of one module is
thus checked on all behaviours of it. Where components do share state they are in one module: the pipeline with its pool and
flag, the waiters with the end of the turn, the lock with the heartbeat's eviction.

## 4. The runs

All sizes are for two workers; none takes more than about four minutes on its own.

| Run | Instance | Shows |
|---|---|---|
| `pipeline_shared` | 2 turns of one conversation, 2 slots, 2 entries, 1 update each, 2 failures, turns symmetric; 2.2 M states | `TypeOK`; `NoSpuriousCancel`: a turn ends cancelled only if the user pressed cancel while it streamed; `DoneAfterCommit`: `done` follows the commit |
| `pipeline_serial` | the same turns, 1 slot, 3 entries (one for a reclaim), 1 failure; 297 k states | `HandledOnce`, `NothingLeaks`, `SavedIsStreamed`, `NoTokenAfterDone`, the refinement `ImplementsLifecycle`, and `EveryTurnSettles` under fairness |
| `stream_saved` | 1 turn, 2 conversations, 2 opens, 2 connection errors, 1 repeated event, hasty user, slow network, cancel | `SavedShown`: a message shown as complete has the saved text |
| `stream_follow` | 2 conversations, 3 turns, 2 of them from this browser, 2 opens, no failure; 93 k states | `NoGap`, `TurnShown`, `ComposerFrees` |
| `runner_tasks` | lock: 2 runners, 3 tokens, a tick of 5 s: TTL 6, heartbeat 2, startup 1, drain 12, 1 missed refresh, 1 crash, 1 heartbeat that dies; round table: 3 agents, each absent or not, 1 chunk, 2 failures | `OneConsumer`; `LockTakenOver`: after a crash or a stop a later runner gets the lock; `RunnerConsistent`: the row of a round table has the streamed answers, a merge that rests on complete ones, and is cancelled only when the user pressed cancel; `RoundKeepsPromise`: a round table implements `TurnLifecycle`; `RoundSettles`: it ends |
| `agent_links` | sessions: 2 conversations, 2 profiles, 3 subprocesses, 3 turns, 2 at once, 1 failure, 1 fork; clarify: 2 questions, 2 symmetric choices, 2 answers, 1 failure; control: 2 requests, 1 request of the agent; 5.1 M states | `SessionsApart` (own session, polled session), `NoProcessLost`, `ContextKept`; `AnswersBelong`, `OutcomeTrue`, `NoLostWakeup`; `AnswersReturn`: an answer goes to the caller it is for, and no request waits on an ended read loop |
| `workspace_rows` | store: 3 requests, pages of 1; group: 4 requests, 2 people, 2 agents; files: 4 requests, 2 versions kept, both backends; browser: 3 requests, paths of up to 2 names of which one is a prefix of another; memory: 2 fields, budget 1, 2 triggers, 2 messages of 2 conversations, a prompt for 1 conversation and 1 message, with 1 edit or with expiring keys | `StoreConsistent` (a queued task has its rows, an agent row its task, a prompt never both directives), `ListStaleForAReason`, `RenameKept`, `PagesLoseOnlyTies`; `GroupConsistent` (one user row per message, listed agents are members); `FileHistory` (versions numbered, bounded, complete); `DriveReached`; `MemoryKept`: edits reach the memory, messages do but for the caps, and it fits its budget; `DreamsAlone` |
| `accounts` | sessions: 2 tabs, 2 calls, 3 pairs of tokens, 1 page load, 1 upset; teams: 2 people, 3 requests; accounts: 2 emails, 1 handle, 2 directories, 3 requests; settings: limits 0 and 2 or none, 2 admin requests, 2 limited calls, 1 end of a window | `SessionsExplained` (a refresh token is exchanged once, a tab thrown out only for a reason); `TeamConsistent` (founder, columns, roles of links), `GoneStaysGone`; `SignInFailsForAReason`, `AccountConsistent` (a disabled account stays out, a secret is kept); `LimitsHold` |
| `lock_heartbeat` | as in `runner_tasks` | violation: after an eviction that raises, the lock expires under a running main loop |
| `clarify_final` | 1 question, 1 answer | violation: a late waiter overwrites the final text |
| `sessions_fork` | 1 profile, 4 turns one after the other, 1 fork, no failure | violation: the forked conversation and the original are prompted in one session |
| `accounts_reload` | 1 tab, a page load | violation: the two bootstraps of a page load refresh with one token, and the one that is refused clears the session |

Why these bounds. The properties relate two actors, so two turns, runners, questions, requests or tabs are
the least that can violate them; the third request of the row models is the one that loads between the two steps of another, or
uses what two have left (a fourth where a row has to exist first, as for files and groups). The third entry of `pipeline_serial` is
what a reclaim or a redelivery adds. One failure shows every interleaving of that failure with two turns; the second of
`pipeline_shared` lets a failed cleanup meet a failed reclaim. One update with a token and its `is_cancelled` is enough to have a
callback suspended while the turn ends, or the callback rebound. Three agents are the least round table that has an absent
one and still something to merge. A budget of 1 over two fields makes the rounding of `Trim` matter. The lock has the real
ratios of its constants. The memory has two instances to keep
the run small: `edits`, where keys last, and `dreams`, where keys expire and nobody edits; both at once are left to the theorems. A dream takes
at most one conversation and one message of two, so that each of its caps cuts something. The runner's own `MAX_CONCURRENT` is 5;
two turns at once (`agent_links`) are the least that overlap, and `sessions_fork` has one, since it needs no overlap. Of the limits 0 and 2
the first is below the 1 to which the limiter raises it. `Cap = 20` keeps the trimming out of `stream_*`: it takes the reader two thousand events behind, after
which the text has a gap until the reload on `done`; this is documented behaviour of a capped stream.

In the four composed runs (`agent_links`, `runner_tasks`, `workspace_rows`, `accounts`) one component, the one in `focus`, moves in
each behaviour: they share no state that the models keep, so interleaving them shows nothing more. With TLC's `-coverage` each
action of every component is seen to fire. Only the `ELSE` of `RefreshGet` is out of reach of the instance of `runner_tasks`, where a
runner that still beats never finds the lock lost: that is `OneConsumer`.

`CHECK_DEADLOCK FALSE` where the instance comes to rest: the bounded turns, questions, requests or opens are used
up and everything is settled. `lock_heartbeat` checks deadlock, since time always passes.

**Properties with a reason.** Several invariants have the form "holds, or this was under way": the code has
check-then-write races, and the property states exactly which ones can be seen. The disjunct is a history variable set only
where another request's step falls between the two steps of one (`overlap`, `overlapped`, `overwritten`, `raced`, `trampled`, `outlived`,
`late`), or where the code itself gives something up: a resume that failed (`unresumed`), messages that a dream's caps cut or whose
conversation was not stamped (`cut`, `unstamped`), a turn that fails after its questions were answered (`dropped`), a handle that was in use
(`taken`). A bug that breaks the promise without such an event violates the property, as the mutants confirm.

**Fairness.** `PromptPipeline`: the event loop runs every ready coroutine, a prompt returns or times out
(`PROMPT_TIMEOUT`), the heartbeat reclaims every 30 s, an operator starts the runner again; no failure, user
action or agent notification is fair. `RunnerLock`: time passes, a launched process runs, somebody
launches one (the compose files have no restart policy, so this is the operator). `RoundTable`: the task goes on until every
call has returned, raised or timed out. In `MCRunnerTasks` the fairness of each is that of its own steps while it is in
focus. `ChatStream`: the runner publishes what a created turn has to say, HTTP requests are answered, timers fire, an
EventSource connects, reconnects and reads; nothing of the user. The other models are checked for safety only: what they
wait for is a user, or another request.

**What the violations say.** Each checks one sentence of the repository, quoted in `findings`: the singleton lock, the row
that is written once, a fork that is a new session, and a session that persists across page loads.

Seen in the models, without a run of its own:

* a runner that drains for up to 60 s no longer refreshes its lock (30 s): a successor starts while the old
  one still finishes its tasks; `OneConsumer` is about main loops only;
* two overlapping turns of a conversation can orphan a live subprocess (`GetInstall` after another install in the pipeline, `Enter` over
  another client in `AgentSessions`), and the first one's tokens go to the second;
* a turn that fails after its questions were answered stores the error text without them (`_fail` calls `_finalize` with no
  `clarifies`): the outcomes the agent acted on are gone from the row;
* a session whose resume times out is given up for a new one, silently: the agent has lost the conversation's context;
* when `stop()` raises in the `except` branch of `handle_single`, `_fail` is skipped and the row stays streaming
  (`cut` in the model), and the subprocess is not terminated;
* a waiter of the clarify bridge polls the cancel flag; the end of the turn, or the next send, may delete it first,
  and the waiter sits until its timeout;
* evicting several clients that ignore SIGTERM keeps the heartbeat from the refresh for longer than the lease;
  an idle client that is taken into use between the choice of the list and its turn in it is evicted in use;
* the refresh timer of an earlier registration closes the stream of a later one; after cancel, or after
  reopening a conversation whose turn ends meanwhile, the composer still thinks that it streams.
* a task is acknowledged before it is handled: a crash of the runner loses the turn, although the design
  (`docs/方案设计.md:482`) promises reliable consumption;
* after an error the EventSource is opened again with the url of the send, without a position: the events of the gap are
  lost, although `redis.py:47-49` and `conversations.py:341-343` say otherwise; the reload on `done` repairs the text;
* a control answer that is published before its caller has subscribed is lost, and the caller waits for its timeout; two controls
  of one conversation may take each other's answers;
* a message whose transaction commits after a dream with a later stamp has read is skipped for good; two updates that each fit
  exceed the budget together; messages and conversations beyond the caps of a dream are never consolidated, since the stamp moves past
  them, nor are messages of the user that did not stamp their conversation, unless something stamps it later;
* of a round table whose `stop()` raises, a complete answer becomes an error text; the merge is lost when neither hermes nor
  the first agent is known;
* the cached list answers id strings where the database answers rows; a page that ends inside a pair of rows of
  one transaction loses the other; a fork copies a streaming row, which no task will finish, and drops `active_agent_ids`;
* a title that the agent sends (`session_info_update`) replaces the name the user has given the conversation;
* a failure between the commit and the enqueue leaves an agent row that streams for ever;
* a group message that mentions one agent goes to the primary agent, not to the one that is mentioned
  (`docs/design/group-chat.md:153`);
* with the object store the old text is overwritten before it is read for the version (`storage.py:99`); two rows of one
  name make later saves raise;
* two first visitors create two channels of a team, two concurrent puts of a policy overwrite each other, `update_member`
  accepts `owner`, a link request that had loaded another link than the one it replaces may give its token that one's role, and `update_knowledge` asks for the permission to upload;
* logout in one tab leaves the user in the others, and a refresh in flight at logout stores new tokens; the rehash of a
  login may overwrite a password changed meanwhile;
* an account created or a profile edited with a handle that is in use answers 500: the unique column refuses what nobody has looked up;
* settings stored without a number leave the last limit in force while the console shows its own default, which is not the
  server's; a limit below 1 is shown as it is and enforced as 1;
* two edits of the settings object lose one; a counter whose EXPIRE failed blocks its address for good; a failing
  `set_rate_limit` answers 500 after the commit;
* two first uploads create two hidden storage conversations, and a listing shows the files of one; `create_folder` as the first
  use raises, since it passes `system_prompt` to a model that has no such column.

## 5. The proofs

TLAPS checks them for every value of the constants that satisfies the assumptions of the modules: any
finite or infinite sets of turns and conversations, any bounds, any number of failures; agents, clients,
questions and requests likewise.

| Theorem | Module | Statement |
|---|---|---|
| `TypeCorrect` | `PromptPipelineProofs` | `Spec => []TypeOK` |
| `HandledOnceHolds` | `PromptPipelineProofs` | `Spec => []HandledOnce` |
| `DoneAfterCommitHolds` | `PromptPipelineSafety` | `Spec => []DoneAfterCommit` |
| `Refinement` | `PromptPipelineSafety` | `Spec => ImplementsLifecycle` |
| `NoSpuriousCancelHolds` | `PromptPipelineSafety` | `Spec => []NoSpuriousCancel` |
| `NothingLeaksHolds` | `PromptPipelineSafety` | `Spec => []NothingLeaks` |
| `SavedIsStreamedHolds`, `NoTokenAfterDoneHolds` | `PromptPipelineSafety` | `Spec => []SavedIsStreamed`, `Spec => NoTokenAfterDone`, when turns come one after the other |
| `OneConsumerHolds` | `RunnerTasksProofs` | `Spec => []OneConsumer` |
| `RoundRefinement` | `RunnerTasksProofs` | `RoundSpec => RoundKeepsPromise` |
| `RunnerConsistentHolds` | `RunnerTasksProofs` | `RunnerSpec => []RunnerConsistent` |
| `AnswersBelongHolds`, `NoLostWakeupHolds`, `OutcomeTrueHolds` | `ClarifyBridgeProofs` | `ClarifySpec => []...` |
| `NoProcessLostHolds`, `SessionsApartHolds` | `AgentLinksProofs` | `Spec => []...` |
| `ContextKeptHolds` | `AgentLinksProofs` | `Spec => ContextKept`, for agents that can resume |
| `AnswersReturnHolds` | `AgentLinksProofs` | `ControlSpec => []AnswersReturn` |
| `DreamsAloneHolds`, `MemoryKeptHolds` | `AgentLinksProofs` | `MemorySpec => []...` |
| `SavedShownHolds` | `ChatStreamProofs` | `Spec => []SavedShown` |
| `NoGapHolds` | `ChatStreamProofs` | `Spec => [](Faultless => NoGap)`, for a user who waits (`~Hasty`, `~Slow`) |
| `SessionsExplainedHolds` | `AccountsProofs` | `AuthSpec => []SessionsExplained` |
| `TeamConsistentHolds`, `GoneStaysGoneHolds` | `AccountsProofs` | `TeamSpec => []...` |
| `SignInFailsHolds`, `AccountConsistentHolds` | `AccountsProofs` | `AccountSpec => []...` |
| `LimitsHoldAlways` | `AccountsProofs` | `TenantSpec => []LimitsHold` |
| `StoreConsistentHolds`, `RenameKeptHolds`, `PagesLoseOnlyTiesHolds`, `ListStaleHolds` | `WorkspaceProofs` | `StoreSpec => []...` |
| `GroupConsistentHolds` | `WorkspaceProofs` | `GroupSpec => []GroupConsistent` |
| `FileHistoryHolds` | `WorkspaceProofs` | `FileSpec => []FileHistory` |
| `DriveReachedHolds` | `WorkspaceProofs` | `BrowseSpec => []DriveReached` |

**HandledOnce** is not inductive: the two entries of a turn may both wait in the stream. What keeps them
from both being handled is that at any time only one entry of a turn is *live*: undelivered, pending, in the
hands of the loop or the reclaim, or with a task. The invariant of `PromptPipelineProofs` says this, that a
turn has an entry only after it was sent, and what is delivered and pending relative to `last`.

**PromptPipelineSafety** strengthens it in two layers. `WInv` is `QInv` (where the entries of a sent turn
are), `StatusInv` (a task before `_finalize` has a streaming row), `OpenInv` (who may still close a row) and `ClosedInv`
(a task after `_finalize`, and a turn with a `done` event, has a closed row): it yields
`DoneAfterCommit`, `NothingLeaks` and the refinement, for which every action is shown to be one of the four
of `TurnLifecycle` or to leave its variables alone. `CInv` adds `FlagInv` (while the flag of a
conversation is set, each of its turns that came past `clear_cancel` was streaming when the user pressed
cancel, or is closed), `CallbackInv` (a running callback belongs to a turn that had started) and `StopInv` (a task that saw the
flag handles a turn in `wanted`): it yields `NoSpuriousCancel`.

The last layer, `SInv`, is about texts. Its theorems assume `OneAtATime`, `~Overlap \/ MaxConcurrent = 1`: without it the second `get` of a conversation rebinds
the callback of the first task, and its tokens go to the second (section 4). Then one task of a conversation works at a time unless an XACK was lost (`OneWorks`, from
`SerialInv` and `OpenInv`); a client stays with the conversation of the entry that spawned it (`ClientInv`), hence is bound to the task that prompts on it
(`BoundInv`), and the task's text grows with the token events of its message (`CountInv`). A crash may leave events of a text that nobody
stores; its row is not closed by a task, and the property speaks of closed rows.

**OneConsumer** rests on `LInv`: tokens of running processes differ (`TokensDistinct`), and a leased runner holds
the lock with enough time left (`LeaseInv`: the age of its round plus the rounds it may still
miss is less than the rest of the lease), from the assumption `LeaseLasts`,
`Startup + Gap * (MaxMisses + 1) < TTL`. With the values of the code, 30 s of lease and rounds of 10 s, it allows one missed refresh.

**RoundRefinement.** What the row says at the end is compared with what was streamed, so `RInv` follows a text from the
call to the row: `BufferInv` (a buffer is what was streamed, or a placeholder for nothing), `PhaseInv` (calls run in
their phase only), `MergeInv` (what the merge and the verdict rest on), `RowInv` (the row is open until one write closes it with what the
calls returned) and `PressInv` (the flag of an earlier turn is gone when the round table starts). It yields `RoundResult` and that every step is
one of `TurnLifecycle` or a stutter. `RunnerTasksProofs` carries both it and the lock's invariant over to the composed run.

**ClarifyBridgeProofs.** `NoLostWakeup` is inductive with types. The other two need `QueueInv` (a question is popped once, hence has one record and
one waiter) and `WaiterInv` (what a waiter has chosen is all that its list of responses holds, all that the agent can have popped, and what
its record says): the answer the agent got and the record are then the same choice, and `UserInv` says where choices come from. A waiter that is
done has its outcome in the row, for every waiter writes the one list they share; only `_fail` takes the outcomes out, and then of all the waiters
that were done (`dropped`).
`ChoiceType` assumes that a choice is not one of the code's own words for a question without an answer.

**AgentLinksProofs: sessions.** Turns of a conversation may overlap here, so everything is proved of several tasks. `TurnClients` says that a client without a
session belongs to the one turn that has started it, and that every client in the pool has a session; hence a running
client is in the pool, with its turn, or was written over by another `get` (`NoProcessLost`), and the last takes an overlap.
`SessionsApart` follows a session from the client that created it: `ClientsApart` (a client works for one conversation, whatever
turns share it) and `TouchedApart` (nothing of a conversation -- row, pool, turns, what was prompted -- names a session of another,
but for forks). `HomeCounted` bounds the sessions by the clients that speak and the forks, so every new session has a number.
What needs turns that come one after the other is said of the conversations that are not in `overlapped`: `Alone` (one turn of such a conversation at a
time) makes `Remembered` inductive, which says where its session is kept at each step of a turn, and that nobody wrote over its client.
`ContextKept` is an action property on top of it: by `NewForAReason` another session than the one that was read is polled only when that one is
of another profile or its resume has failed (`unresumed`). Its hypothesis `CanResume` is a capability of the agent; without it `get`
starts a new session by design. `ProfilesExist` is assumed: an agent without a profile cannot be started.

**AgentLinksProofs: control channel.** `AnswersReturn` excuses requests of one chat that were under way together, since they
share the channel. `MeetingsMarked` says the history knows them all, `StrayAnswersMarked` that a subscriber has another
request's answer in its inbox only then.

**AgentLinksProofs: consolidation.** `DreamsAlone` rests on `KeyHeld`: from the write of the key to the end of the job, a dream is the only
one and the key says `running`, unless the key expired or was overwritten meanwhile (`outlived`). `MemoryKept` needs three more: `EditsKnown` (the row
and every dream carry the user's last text of each field, but for fields trampled by name), `MessagesKnown` (every message of a conversation that was not stamped since
was read for the memory or is `Excused`: cut by a cap, not stamped itself, or committed late) and `LengthsFit` (what an edit would make of the row still fits, unless edits overlapped). The total
of the fields is a recursive function; that it exists and is monotone is proved by induction, which the library states with an
operator parameter and is therefore derived from the well-foundedness of the naturals (`LeastNat`, `SetInduction`).

**ChatStreamProofs.** `SavedShown` is not inductive: that the server's cursor stays inside the stream needs the same of the position in a
URL, hence of the position of the stream at the creation of each turn (`born`, kept by `LinkTypes` and `ServerTypes`), and that a handler keeps a complete message at
its text (`Handled`).

`NoGap` is about the fit of three sources of a text: the row, the replay and the live events. It is false after a fault, because a repeated
publication, a replay after a lost connection and a trimmed stream each break the numbering, and the handlers do not compare positions; so the theorem
speaks of the behaviours up to the first one (`Faultless`: no failed connection, no repeated publication, no stream beyond `EVENT_STREAM_MAXLEN`), and
of a user who waits for what loads (`~Hasty`) with a stream that listens before the POST (`~Slow`). These are the assumptions of the run
`stream_follow`. `GapInv` has five parts. `Layout`: the events of a turn lie one after the other behind the position of its creation, and the turns of a conversation
do not overlap. `CallsInv`: while a call of `openConversation` runs, nothing is sent and the stream is closed. `JoinInv`: a connection at the newest
entry was made for a turn that has no row yet, after all the others. `ScreenInv`: a text on screen is a first piece, and between the two answers of
`openConversation` one message streams at most, still empty. `FollowInv`: the cursor is at the event behind the text of each streaming message of the conversation, or past its tokens (`Caught`).

**AccountsProofs: settings and limits.** An administrator at work is alone or the history knows that two overlapped (`OneAdmin`), and what it
loaded is then the row. What the row shows is then the choice that was last stored, or nothing (`ShownIsChosen`), and unless somebody is about to
copy another one, the limit in Redis is the last number chosen, raised to 1 (`LiveIsChosen`); the limits of the theorem are any
integers, or none (`Carried`). A window's counter has counted what it let through (`PassedIsCounted`), and the month's
counter is behind by the sends that are between the two counters (`Owed`, a finite set whose cardinality every step changes by one at most).

**AccountsProofs: teams.** `TeamInv` says of every request what it has loaded and still holds when it commits (`Ready`): the founder is not at stake, a parent
is a project or gone, a token is known with its role, and a new link that keeps the role of the one it has loaded (`ReadyLink`) has asked for that role, or the link has
changed meanwhile and its token is in `raced`. So a token gives the role it was issued with (`TokensIssued`), but for those. Rows are named by the request that made them, so an identifier of a row under way is fresh, and
`GoneStaysGone` follows. `TeamConstants` assumes that users and rows have different identifiers.

**AccountsProofs: accounts.** Handlers find, then insert; the invariant `Fits` says that what the lookups of a sign-in found still holds of the rows, or that another
commit came in between (`raced`), and that a chosen handle is free or was in use from the start (`taken`). A commit refused by a unique column was then
raced for, or had chosen such a handle.

**AccountsProofs: sessions of a browser.** `AuthInv` has three parts beside the types. `Issued`: tokens come from the server, and a waiting call waits for an exchange.
`Rotation`: a token that was not raced for was used once at most, is blacklisted from then on, and is past the check of one exchange only. `Calm`: while
nothing has happened that may cost the session, at most one tab refreshes, with the token in localStorage, and its answer is not blacklisted.
A step that records a reason ends the calm, so only the steps without one have to keep it.

**WorkspaceProofs: conversations.** `StoreInv` says, beside the types, what a request has loaded and may rely on when it commits (`Fits`), what a row
of a conversation or of a message refers to (`RowFacts`), that a task in the queue has its rows and at most one of the two directives (`QueueFacts`),
and that a request which would still write the generated title over a renamed one is in `raced` (`RenameFacts`); the agent's title may replace a name at any time, which
the theorem allows. `PageFacts` follows the reader: a message that
was there and has not been shown has the `created_at` of a shown one, or there is another page and it is not younger than what was shown; at the end only the
ties remain. `ListStaleForAReason` is inductive with `StoreInv`: a cached list is the rows, or the request that changed them has still to invalidate it.

**WorkspaceProofs: groups.** `AddsMeet`: two requests that add a member at the same time know of each other, so one that is alone has read the list as it is when it
commits, and the pair is not inserted twice. `GroupConstants` assumes that people and agents have different identifiers, as rows of members carry their type.

**WorkspaceProofs: files.** `RowsOfFile` bounds the numbers of a file's versions by the row's own, so that the next one is fresh. That at most `Kept` versions remain after a write is
`FewKept`: a version is mapped to how many are newer, an injection into `0 .. Kept - 1`. `HistoryKept` follows a text from the row to the version that replaces it.

**WorkspaceProofs: browser.** `Alone`: one request at most founds the space, and only while there is none; no folder under way exists or is under way twice. A request that
met another one is excused (`overlap`), and `Alone` speaks of the behaviours before that. The lemma `NextShown`
computes on `StartsWith` and `ShownThrough`: of a path that goes through a folder, the next folder is among those that are shown there, whatever
other paths have the folder's name as a prefix.

The theorems are about each component's own specification. The runs compose components of which one moves, so the instance that
TLC checks is an instance of the theorem.

**Not proved, only model-checked.** Liveness (`EveryTurnSettles`, `LockTakenOver`, `RoundSettles`, `TurnShown`, `ComposerFrees`): proofs of
leads-to under fairness need ENABLED, which this prover does not support. What the four violated runs
check is false, so there is nothing to prove.

## 6. What is not modelled

`PROJECT.json` (`components`) lists every part with its status. Not modelled: the agents' catalogue and the discovery of
commands (CRUD of single rows, a scan of files), the sandbox (a pure function of the configuration), the terminal (a subprocess bridged
to a WebSocket), presence, analytics, audit, metrics, health and logging (read-only or append-only), migrations and seeds, and
the views (rendering over the stores).

Within the modelled components: the WebSocket endpoint (a second reader of the same stream, without replay), the native
clarify of `session/update`, the wire format of ACP, the directory protocols, the contents of tokens, search and export of
conversations, and the texts themselves, of which only lengths or authors are kept. PostgreSQL is a set of rows at read committed:
each transaction reads when its handler loads and writes when it commits, unique constraints and foreign keys refuse a
commit; a Redis that loses data is left out.

## 7. Running the checks

    tlc -workers 2 -config Pipeline_serial.cfg MCPromptPipeline
    tlapm PromptPipelineProofs.tla

The runs are listed in `PROJECT.json` with their module, configuration and properties; the proofs of
`AccountsProofs` and `AgentLinksProofs` take about four minutes each, the others about two or less.
