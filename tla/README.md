# Doctor Claw in TLA+

Specifications of the stateful parts of Doctor Claw, checked with TLC on small
instances and, where section 4 says so, proved with TLAPS for every instance.
Paths are relative to the repository (`src/` is its C code, `include/` its
headers).

## 1. The system

`doctorclaw daemon` is one process with these threads:

| thread | code | feeds on | writes |
|---|---|---|---|
| main | `cmd_daemon`, main.c | the clock, SIGTERM/SIGINT | cron jobs, pid file, shutdown flags |
| accept thread | `gateway_run`, gateway.c | TCP connections | one detached handler thread each |
| handlers | `gateway_worker`, `handle_request` | one HTTP request | a job, then waits for its callback |
| Telegram poller | `telegram_poll_thread_fn`, channels.c | getUpdates | a job with a heap context |
| workers (2-16) | `worker_thread_fn`, jobworker.c | the job cache | tools, provider calls, callbacks |
| scaler | `scaler_thread_fn`, jobworker.c | the depth of the cache | new workers |

All of them meet in one **job cache** (jobcache.c). The other commands
(`agent`, `cron`, `stop`, ...) are processes of their own that share files with
the daemon.

### Inventory

| component | state | operations | hard behaviour | what makes it correct |
|---|---|---|---|---|
| job cache | ring, two condition variables | push, pop (block, timed, poll), depth | one signal per operation, timeouts, spurious wakeups | FIFO, no lost signal, indices agree |
| worker pool | `running`, threads, `num_workers` | start, stop, destroy, worker loop, scaler | creation failures, stop against work in progress, contexts on foreign stacks | run once, no request forgotten, nothing outlives the pool |
| daemon | shutdown flags, pid file | start, tick, stop | order of the shutdown, signal at any time, `accept` under `close` | shutdown ends, order respected |
| gateway | listening socket, handlers | accept, serve, request shutdown | unsynchronised flags, detached threads | ends before the pool |
| cron | table in memory, `cron.db` | init, add, remove, list, run pending, save, load | two processes on one file, kills during a save, failing saves, a full disk | tasks persist, run once per interval |
| loop guard | window of tool names | reset, check | process global, shifting window | trips on runs and alternations |
| agent | turn and round counters, history | chat, task, trim | arbitrary provider, shared approval context | gate on risky tools, every job ends, history intact |
| channels | channel table, offset | load, poll, alert, reply | two loaders without a lock, one offset | the oldest message gets to the agent, what is configured is served |
| security monitor, runtime monitor, ids, observability | rate and connection buckets, counters, event ring, metrics | check, record, push event, export | shared by handlers, an index used after the lock was given up, counters outside it | limits enforced, the ring a window, what is shown true |
| senders | buffers of 8192 characters | cut, post, send again | a piece fails, an answer is lost, a text exceeds the buffer | what the buffer holds, in order, once |
| providers, llama | response, router index, the loaded model | reliable call, router, local model | retries into a used buffer, statics between calls | answered once, nothing stale |
| tools | one static parameter buffer | 46 handlers, checks, `run_with_timeout` | workers share the buffer, pointers into it go stale, a timeout races the end of the command | what is run is what was checked, the child ended and reaped |
| service manager | services and their pids | register, start, stop, restart, unregister | children end by themselves, pids are used again | no stray signal, no orphan |
| memory, muninn, migration | SQLite table, muninn's engrams, response cache, destination files | store, recall, delete, sweep, export, import, chunk | kills and failures in the middle, wrapping cutoff, a recall that changes priorities, cut prompts | what was stored comes out |
| auth, skills, instance registry, approval, health | small tables by name | add, remove, enable, answer, clear, check | names that repeat, entries that move | the table says what it was told last |
| rag | index of chunks | add, load, search, chunk | overlap longer than a chunk, a short file, sorting by exchange | the best are found, the chunks cover the text |
| runtime, heartbeat, cost, tunnel, skillforge, context daemon | tables, counters | - | no caller in the program | - |
| config, security, identity, onboard, doctor, pentest, hardware, log, integrations, util | files, devices, requests | I/O and formatting | - | - |

`PROJECT.json` lists every component with its status, and every hazard at its
line.

## 2. Modules

| module | models | state against code |
|---|---|---|
| `JobQueue` | what the cache promises: a FIFO queue with calls | `queue`; `request[t]`, `hand[t]`: a thread's call and its job |
| `JobCache` | jobcache.c | `slots, head, tail, count`: the struct; `op[t]`: where a thread is in push or pop; `mode[t]`: sign of `timeout_ms` |
| `JobWorkerPool` (EXTENDS `JobCache`) | jobworker.c and its callers | `running`, `num_workers`; `wstate`, `scaler`, `owner`: the threads' places; `serving`, `done`: a handler and its sync context |
| `Daemon` (EXTENDS `JobWorkerPool`) | `cmd_daemon`, `cmd_stop`, `gateway_run`, `gateway_request_shutdown` | `main`, `gateway`: the threads' places; the two shutdown flags, `g_gateway_listen_fd`, `pidFile`, `cacheFreed` |
| `Cron` | cron.c, `cmd_cron` | `g_tasks[p]`: a process's table; `file`: cron.db; `pc`, `at`, `tick`: the places in the functions |
| `LoopGuard` | loop_guard.c | `g_history`, `g_tripped` |
| `AgentTurns` (EXTENDS `LoopGuard`) | `agent_think_with_tools`, `agent_chat`, `agent_run_task`, the approval gate of tools.c | `g_approval_manager`, `g_require_approval`; each worker's place, round, iteration and pending calls; `disarmed`, `disturbed` (history): what other jobs did to the shared state meanwhile |
| `ChatHistory` | `chat_context_t` of providers.c, `agent_trim_history` | `messages`, `capacity`, `allocated` |
| `TelegramPoller` | `telegram_poll_thread_fn`, `telegram_fetch_updates`, `channel_agent_response_cb` | the thread's locals; `updates`: Telegram's queue (external) |
| `EventWindow` | what runtime_monitor.h promises: a window of the last events | `recent` |
| `RuntimeMonitor` | runtime_monitor.c | `g_events`, `g_event_head`, `g_event_count`, `g_conn_buckets` |
| `SecurityMonitor` | security_monitor.c, `ids_check` | `g_rate_buckets`, `g_rejects`; a request's `kind` is what the pattern checks make of it |
| `Observability` | the metrics of observability.c | `metrics`: the entries of each name |
| `Gateway` (EXTENDS the three above) | `gateway_worker`, `handle_request` | `pc`, `req`, `t`, `slot`, `verdict`, `read`: a handler's place and locals |
| `Channels` | the channel table of channels.c, `cmd_channel` | `g_channels`, `g_channel_count`; a loader's place; `conf`, `started`: file and table of the command; `overlapped` (history): two loads met |
| `Delivery` | the senders of channels.c | `content_len`, `letters`: the text given and what the buffer holds of it; `posted`: the requests and what became of them |
| `Providers` | `provider_reliable_call`, the completions, the router, `provider_llama_completion` with llama.c | `reliable_config_t`, `content`, `asked`; `current_index`; `s_model` |
| `Services` | service.c | `services`; `owner[p]`: whose process p is (kernel, external) |
| `ShellRun` | `run_with_timeout` of tools.c | the loop's locals; `child`, `writers`, `ready`: process and pipe (external) |
| `Tools` | the handlers of tools.c and `agent_execute_tool_by_name` | `value`: the static buffer; `call[w]`: a handler's keys, pointers and copies |
| `MemoryStore` | memory.c, and of muninn.c what is behind `memory_store` and `memory_recall` | `rows`, `exported`; `engrams`; `g_cache`; `chunks` |
| `Migration` (EXTENDS `MemoryStore`) | migration.c, `cmd_migrate` | `migration_t`, `dest`: the files of the workspace |
| `Registries` | auth.c, skills.c, instance.c, approval.c, health.c | one table each |
| `Rag` | rag.c | `idx`, `scanned`, `scores`, `result`; `pieces` |
| `MCConversation` | runs the parts of a conversation, one per behaviour | `part`: which one |
| `MCStores` | runs the stores, one per behaviour | `store`: which one |
| `MC...` | constants of the instances | |
| `JobCacheProofs`, `JobWorkerPoolProofs`, `DaemonProofs`, `GatewayProofs`, `AgentTurnsProofs`, `ConversationProofs`, `StoresProofs` | theorems about the module of that name; `ConversationProofs` about `MCConversation` and its parts, `StoresProofs` about `MCStores` and its parts | |
| `Selection` | the part of a sequence at a set of indexes, as a function | |
| `OperatorLemmas` | lemmas about `Selection` and library operators | |

How steps correspond to code. Everything the cache does with its mutex held is
one step; a thread that waits leaves the mutex, is woken (by a signal, for no
reason, or by its deadline) and comes back in a step of its own. A deadline
leads to `"expired"`, from which `pop` returns -1 even if a job has come
meanwhile, as the code does. In the pool, the daemon and the agent every access
to shared state that other threads may interleave with is a step of its own:
`running` is read outside the mutex, the scaler reads the depth before it takes
the lock, the guard is asked in one step and the tool run in another. In `Cron`
a save is two steps, the truncation and the contents, between which a process
may be killed, and on a full disk a save leaves the first lines only; the conversion to a line and back is modelled for what it does
to a command with the separator in it. In `Gateway` each critical section is a
step, and so is what lies between two: the event of a probe is pushed after the
bucket's lock was given up, the bucket set back after that, and a counter of
rejections is read in one step and written in another. A handler of `Tools` asks
the parser for one key per step, so that another worker's call may come between;
of each handler the model keeps which keys it asks for in which order, which it
cannot do without, what it copies and what of it is checked, since the pointers it
collects all point to the one buffer. The parser is modelled as it searches: the
first `"key"` in quotes may be a value, `key:` may stand inside one (`Lookup`), and
a value is cut at its first comma, quote or brace (`Cut`). In `Delivery` a text is
cut to the buffer before it is cut into pieces, and later pieces carry the mark
`[cont.]` on top of the limit. A child process in `Services` and `ShellRun` ends, writes
or closes its output whenever it likes, and its pid is free once it was waited
for. A migration is killed between two of its steps and run again; a statement
of SQLite happens or fails as a whole. Undefined behaviour is a choice: joining
a thread that was never created returns or crashes the process; what a thread
does in a freed cache is not followed.

Operators under a comment that begins with "Mistake" are plausible bugs. No
specification uses them; each replaces one definition to show that a property
would notice.

## 3. Runs

| run | instance | what it shows |
|---|---|---|
| `job_cache` | 3 threads, 2 jobs, 2 slots | the ring is a FIFO queue (`ImplementsQueue`), its indices agree (`RingInv`), no thread sleeps on while there is work for it (`NoLostJobSignal`, `NoLostSlotSignal`) |
| `worker_pool` | 2 workers, 2 handlers, cron, 1 slot; creation may fail | a sync context outlives its job, a request is run once and never forgotten, no thread outlives a started pool |
| `daemon` | 1 worker, 1 handler, cron, poller, 1 slot; creation may fail | order of the shutdown, meaning of the pid file |
| `daemon_stop` | the same without poller and failures | accepted jobs are answered unless all workers hang in jobs; SIGTERM ends the daemon unless a job hangs or the main thread is overtaken in its push for ever |
| `gateway` | 2 handlers, 4 requests of 3 addresses, 2 of which share a bucket (3.4 million states, about 2 minutes) | `RateEnforced`, `ProbesReported`, `ShownIsTrue` (what an agent, the status page and /metrics show), and `RingIsWindow`: the ring implements `EventWindow` |
| `conversation` | ten parts, see below (165 thousand states, about 2 minutes) | turns guarded and finite, history intact, the oldest message received, channels as configured, texts delivered as far as the buffers hold them, calls answered once, children owned |
| `agent_turns` | 2 workers (2 million states, half a minute) | the approval gate and the guard with two jobs at once: `ApprovalHolds`, `GuardTrips` |
| `stores` | fourteen parts, see below (930 thousand states, about a minute) | cron persists and spaces its runs; memory, migration, tables and index return what they were given; tools run what was checked |

`conversation` and `stores` are many small questions in one run. The parts share
no data in the code, so interleaving them would only multiply the states: `part`
(or `store`) is chosen initially and the other parts stay in their initial
states. A property of such a run is the conjunction of a component's named
parts:

| property | parts |
|---|---|
| `GuardTrips` | `NoRunawayTurn`, `PingPongTrips` |
| `HistoryIntact` | `FitsAllocation`, `RecentSuffix` |
| `ChannelsFaithful` | `ServedUnlessRaced`, `AddedStays`, `StartActivates` |
| `DeliveredWhole` | `InOrder`, `ReceivedOnce`, `SuccessIsWhole` |
| `CallsFaithful` | `AnsweredOnce`, `NoStaleContent`, `EachInTurn`, `RightModel` |
| `ChildrenOwned` | services: `NoStrayKill`, `NoOrphan`; commands: `KillsOwnChild`, `ChildIsReaped`, `ExitCodeKept` |
| `ConvEnds` | `JobEnds`, `StopReturns`, `LoopEnds` |
| `CronFaithful` | `UniqueIds`, `DueAreServed`, `AddedIsFaithful` (`AddedIsPersisted` and `RunsAreSpaced` stand alone) |
| `MemoryFaithful` | `RecallsLast`, `RecalledStays`, `CachedForPrompt`, `ChunksFollow` |
| `MigrationFaithful` | `CompletedIsImported`, `CountedIsRewritten` |
| `RegistriesFaithful` | `OneActive`, `InstanceIsCurrent`, `HealthIsMeasured` |
| `RagFaithful` | `SearchIsTopK`, `PiecesCover` |
| `ToolsFaithful` | `RunsWhatItChecked`, `OneKeyIsFaithful` |
| `StepsSelectRight` | `ExportIsNewest`, `SweepSparesFresh`, `DisabledNeverRuns`, `AnswersStay` |
| `ShownIsTrue` (gateway) | `AgentSeesNewest`, `CountersCredible`, `MetricsExact` |
| `ProbesReported` (gateway) | `OneBucketEach`, `ProbeNoticed` |

Four more runs refute what the repository says of itself:

| run | refuted | code |
|---|---|---|
| `daemon_stop_linux` | "It will shut down gracefully." (main.c:506) | on Linux `close` does not wake the blocked `accept`, and the main thread joins it: the daemon stops with the next connection |
| `cron_overwritten` | "persist to disk" (COMPLETION_PLAN.md:11) | the daemon writes its own table over what `cron add` has added |
| `approval_race` | "approval gate for shell/write/rm" (FEATURES_AND_RECOMMENDATIONS.md:124) | `agent_free` of one worker clears the context of all |
| `telegram_starved` | "actually receive messages" (COMPLETION_PLAN.md:47) | no `update_id` is read, so the oldest message is fetched for ever |

### Bounds

- Ring of 1 or 2 slots: full and empty are reached at once, and with 2 slots and
  3 threads the indices wrap and both kinds of waiting occur; the theorems
  remove the bound. `Capacity = 1` in the pool makes producers wait.
- 2 workers: one that exists from the start and one the scaler adds.
- `MaxDue`: jobs due in one tick; one is enough to make the main thread wait
  inside a push.
- Time in `Cron` runs to 4 with a minute of 1 and an hour of 2: each kind of task
  comes due at least twice. The ids are symmetric.
- The guard's window is scaled to 6 (thresholds 4 and 4) so that it is shifted
  within the 8 calls of a turn. Turns are independent of each other once the
  guard is reset, so two rounds suffice.
- 84 messages at the real sizes (32, 50, 20, 8) pass the doubling of the array
  at 32 and two trims, the second of an array the first one turned round.
- `agent_turns`: windows of 4 and 3 calls and 2 iterations of at most 2 calls, so
  that the guard can trip in a turn while the other worker resets it.
- `MaxOffset`: the poller's offset is not counted beyond 3, all offsets below
  every `update_id` being alike to Telegram.
- Gateway: rings of 2 events and 2 buckets for 3 addresses wrap and evict; a
  limit of 1 in a window of 2 seconds is met in two windows within the 3 seconds
  of the clock; 3 metrics fill up with 4 requests; the threshold of a probe is 2.
  The two handlers are symmetric.
- Channels: two loaders put a file of 3 entries, each behind a blank one, into a
  table of 5, so a second load does not fit; a Discord entry without its url
  comes before one with it. 4 calls of `channel add` fill the table with blanks.
- Delivery: texts up to length 5 with every placement of separators, pieces of
  2 behind a mark of 1, and a buffer of 4: three pieces, cuts at, before and without
  a separator, and a text that loses its end.
- Providers: 4 x 4 pairs of primary and fallback and up to 3 retries; a router of 3 over 7 choices goes round twice.
- Services: 2 services, 3 pids and 3 forks: a pid can come back. Commands: 2
  seconds and 3 reads, less than a command may write.
- Stores: tables of 2 for 3 names, so that they fill and names repeat; the memory
  lists 1 row of 2, the cache has 2 slots and 5 answers, one prompt and one answer
  being too long for a slot; muninn has 3 engrams, of which 2 can be candidates,
  each accessed twice at most, and the weights of the three times (10, 19, 37) are
  those of exp(-0.693 d / 7) a week apart, less than halves; texts of 7 (memory) and
  12 (rag) characters make three and more chunks; a migration of 3 items or files
  is killed twice. The unsigned cutoff wraps at 5.
- Tools: one worker makes each of some sixty calls, every handler among them, with
  keys as values, keys inside values and values that are cut to nothing; the other
  one a call whose parameters a check would refuse.
- Deadlock is not checked where the system may stop: a pool that is destroyed, a
  daemon that has exited, a bound that is used up.

### Fairness

`FairDaemonSpec`: every thread is scheduled. The deadline of a worker's pop is
computed once before its loop (jobcache.c:71), so a worker that keeps waiting is
timed out: strong fairness of the expiry. That a job ends is not assumed: a cron
job is a `system()` without a limit (jobworker.c:129), and a command that closes
its output is waited for without one (tools.c:570). Nor is it assumed that the
main thread gets a slot it waits for: POSIX does not say which producer is woken.
The properties name these cases instead (`JobHangs`, `PushOvertaken`, and all
workers in a job in `AcceptedIsAnswered`), so they say that nothing else can hold
up the daemon. No connection, signal or spurious wakeup is ever owed.

`FairTurnsSpec`: a worker goes on with its job, the requests to a provider having
a timeout (CURLOPT_TIMEOUT, 120 s); a tool call need not return, and `JobEnds`
excepts a job that is in such a call for ever. `FairPollerSpec`: a request that
can succeed does not fail for ever and memory is available again and again
(strong fairness of `Fetch` and `Push`), workers take jobs. `Push` is enabled only
for a text that does not look empty: one that begins with an escaped character may
be passed over each time, and `OldestReceived` is about plain ones. In the services
`waitpid` returns once the child has ended; the child need not obey SIGTERM
(`StopReturns`). In `ShellRun` only the clock is fair, as `select` returns every
second: nothing is assumed of the command.

## 4. Proofs

Every theorem holds for all values of the constants that satisfy the named
assumptions of the modules; these say that bounds are natural numbers, that
threads are finitely many and that thresholds fit their windows. Each property
was first checked by TLC on the instance of the component's run; then it was
strengthened until it was inductive and proved, one step per action.

**`JobCacheProofs`**, for every capacity and set of threads:

- `TypeCorrect`, `RingCorrect`: `TypeOK` is inductive, and with it
  `tail = (head + count) % capacity`; `WrapLemma` replaces the remainder by a
  case distinction.
- `CacheImplementsQueue`: `Spec => Queue!QSpec`. `Contents` reads the ring from
  `head`; `StoreAppends` (this needs `RingInv`: the slot written is the one
  behind the last) and `TakeIsTail` say what the two critical sections do to it,
  `StepRefines` maps every step to a step of `JobQueue` or to a stutter.
- `JobSignalsSuffice`, `SlotSignalsSuffice`: while a consumer waits, there are at
  least as many woken consumers as jobs (and likewise producers and free slots),
  which is why one signal per operation is enough whatever times out or wakes
  spuriously.

**`JobWorkerPoolProofs`**, for any number of workers, clients and feeders:

- `DestroyIsSafe`: `LifeInv` relates the place of the owner to `running` and to
  the scaler; the stop joins the scaler before it counts the workers.
- `JobsRunOnce`, `ContextIsAlive`, `RequestsAreKept`: `JobsInv` says of every
  client's job that it is pushed, or queued in one slot, or held by one worker, or
  answered, and that it is queued or held exactly while the client waits.
  `RunOnce` alone is not inductive: a pop can only duplicate what is queued twice,
  so the slots have to be counted in; this rests on `RingInv` and on what
  `StoreQueues` and `TakeDequeues` say of `Contents`.
- The steps are proved for `PoolMove`, the pool's steps without the guards on when
  a caller pushes, so that the daemon can use them.

**`DaemonProofs`**: `PoolHoldsInDaemon` (a step of the daemon is a `PoolMove` or
leaves the pool alone), `DaemonTypeCorrect`, and from `PlaceInv`, what has been
started and not yet ended at every place of the main thread,
`AcceptThreadEndsFirst` and `PidFileIsTrue`.

**`GatewayProofs`**, for any number of handlers and addresses, every hash function
and every limit:

- `RingKeepsWindow`: the refinement of `EventWindow`, with the argument of the job
  cache (the slot written is the one behind the newest).
- `ShownCorrect`: an increment that is lost is made up for by the handler that
  lost it. `RejectInv` counts the handlers under way: the counter, and what any
  handler has read of it, stay below the rejections by at least that many.
- `LimitIsKept`: of the requests an address got through, at most `RateLimit` lie in
  the present window of its bucket and at most as many behind it that any stretch
  of `RateWindow` seconds can still reach (`PassesOk`).
- `ProbesAreReported`: `ProbeInv` adds, for an address, the connections still
  counted, those taken out by handlers that are about to reset, and those about to
  be reported; and without an eviction a handler that comes back from an event
  finds the bucket it left. An attempt to prove a smaller bound failed for a good
  reason: for a threshold of 3 and more, several handlers in a row can each set
  back what was counted since, so the property allows `ProbeThreshold - 1`
  connections for each handler.
- `GatewayTypeCorrect`.

**`AgentTurnsProofs`**, for any tools, lengths of the windows and number of workers:
`TurnsTypeCorrect`; `RiskyIsApproved` from `ApprovalInv` (while a job makes calls and
was not disarmed the approval context is set, be it by another job); and
`GuardTripsInTime` from `TurnInv` (in a turn that was not disturbed the guard's window
ends in the calls of the turn). None of them assumes how many jobs run at a time;
`approval_race` shows that the exception for the end of another job is needed.

**`ConversationProofs`**, of `ConvSpec` or of the parts it is composed of:

- `ChildrenAreOwned`: `ServicesInv` (a running or stopping service has a pid of its
  own whose process is a child or waits to be reaped; the others have none) and
  `ShellInv`.
- `CallsAreFaithful`: `RouterInv` (the n-th choice is that of turn n modulo the
  number of providers), `ModelInv`, `CallInv` (while the loop goes on there is one
  call per attempt and none was answered).
- `DeliveredIsWhole`: `DeliveryInv` (the pieces follow each other, none but for its
  mark is longer than the limit or cuts a word that fits, a failure is the last
  one), for every text, limit, mark and buffer.
- `HistoryCorrect`: `HistoryInv` describes the whole array (`Shape`): the system
  prompt, the messages the last trim kept, newest first, and those added since,
  oldest first. `RecentSuffix` is not inductive, because a second trim works on the
  array that the first one turned round, and keeps the last messages only if they
  all lie in the part that was added since. This is so while
  `2 * KeepRecent <= MaxHistory + 1`, an assumption the proof found; the code's 20
  and 50 satisfy it, a trim that kept 26 of 50 would drop the wrong messages.
- `ChannelsCorrect`, for any file, size of the table and number of loaders: `LoaderInv`
  (as long as no two loads have overlapped, the entries below the count are those of
  the file, once for each load, and the one behind them as far as its copy has
  come), `FileInv` (each `channel add` leaves one more blank entry in front), `StartInv` (what the walk
  has passed has an active entry of its type, although the walk appends to the table).
- `ConversationKeeps` and `ConversationCorrect`: a step of the conversation is a step
  of one part and leaves the others alone, so that all of this, the types of every
  part (`ConvTypeOK`) and the theorems of `AgentTurnsProofs` hold of `ConvSpec`.

**`StoresProofs`**, first about `Cron` for any commands, expressions, ids and table size,
with kills in a save, saves that fail and a disk that fills up in a save:

- `CronTypeCorrect` for any processes together.
- With one process at a time (`OneAtATime`; `cron_overwritten` shows why):
  `AddedTasksStay` from `KeptInv` (what was added is in the file and in the table
  of the process that is up; the file is empty only while it is written);
  `CronIsFaithful` from `TableInv` and `ServedInv`; `RunsAreSpacedOut` from
  `SpacedInv`: a next run lies an interval behind the last one, or is not later
  than it because a save is yet to come or was lost. The proof found that a save that
  fails has the same effect as a kill, which the property now excepts for both:
  a task may run again in the second in which the daemon is restarted.

and then about `MemoryStore` (`MemorySpec`), for any keys, sizes and texts:

- `MemoryIsFaithful`: `RowsInv` adds to `RecallsLast` that there is one row per key,
  without which a sweep could take one of two rows and leave the other;
  `CacheInv` says that a slot has the newest answer whose number leads to it, so
  that it is never older than `CacheSize` answers, and that prompt and answer are
  those given, as far as the slot holds them; `RecalledInv` that an engram muninn has
  returned for a key beats all others that match it, a recall being recorded as an
  access, until another recall or a store at a later time; `ChunkInv` that full chunks
  begin at multiples of `ChunkSize` and that a short one ends at a space or with
  the text, from which the number of chunks is right or the last chunk is short.
- `SweepIsExact` and `ExportIsRight`: two of the four parts of `StepsSelectRight`,
  for every table; the export by counting (a listing shorter than the limit is an
  injection between sets of the same size).

and about the other stores:

- `MigrationIsFaithful`, for every export and directory, with any kills and failures:
  `ImportInv` (the last value of each key among the items read so far is in the
  memory, as long as none failed) and `DirectoryInv` (among the names gone through at
  least as many were written anew from their sources, whole or as far as the disk
  took them, as were counted).
- `RegistriesCorrect`, `DisabledStaysOff`, `AnswersStayWithRequests`, for any names
  and sizes: `SkillInv` (the first entry of a name that was disabled is disabled, which
  a removal of another entry must not change), `InstanceInv` (one entry for each short
  id), `ApprovalInv` (one request for each id, with its last answer), `HealthInv` (only
  the first entry of a name is ever fresh), `AuthInv`.
- `RagCorrect`: the two loops of `rag_index_search`, as recursive functions, are proved
  to sort and to lose none of the documents with an embedding, by induction on the loop counters (`InductionTo`, an
  induction over a set of numbers; `PassKeeps`, `ArrangeSorts`: after i rounds the
  first i places have the i best). `PieceInv` says where the next chunk begins.
- `ToolsAreFaithful`, for any number of workers and requests: `CallOK` (what was copied
  was checked, and nothing is done before), `ValueOK` (a handler that had the buffer
  for itself finds its own value in it) and that no other handler fills the buffer
  while one counts as alone. All 43 handlers are in it, by the number of keys they
  ask for.
- `StoresTypeCorrect`, `StepsAreRight`, `StoresAreFaithful`: all of it for `StoresSpec`.
  A step of the stores is a step of one of them (`StoresSteps`); the memory and the
  migration share their variables, so `SharedInv` holds for steps of either.
  `StoresAreFaithful` assumes `OneAtATime` for the cron table.

**`OperatorLemmas`** holds what these proofs need of `Min`, `Max`, `RemoveAt`, `%`,
`\div` and `Picked`, the part of a sequence at a set of indexes, with which the models
say what `SelectSeq` would: its length, its order and what it has are proved from the
rank of an index in the set. That a set of naturals has a least element is what the
library's `WFMin` gives, the rest is arithmetic split into steps the solver can do.

Only model-checked:

- liveness (`AcceptedIsAnswered`, `ShutdownCompletes`, `ConvEnds`,
  `OldestReceived`): fairness and `ENABLED` are beyond the prover.

Every invariant and every action property of the passing runs is stated by a theorem.
Those of the cron table hold under a hypothesis that the instance of the run satisfies
too: one process at a time.

## 5. Deviations met while modelling

Beside the four above, places where the code does not do what a comment or a
document says. The models follow the code, and the properties say what remains
true.

- jobcache.h:38 "Returns 0 on success, -1 if full": `jobcache_push` waits
  (jobcache.c:50). "Job queue full" (gateway.c:502, 571) is never answered.
- jobworker.h:37 "Scale down ...": the scaler never removes a worker.
- jobworker.c:177: a start whose `pthread_create` calls all fail returns 0.
  jobworker.c:183: a start that fails at the scaler leaves its workers, and stop
  (jobworker.c:190) does not wait for them; `FreedIsUnused` excepts this.
  jobworker.c:174: a failed malloc leaves `running` set, and stop joins a scaler
  that does not exist.
- main.c:404-406, 466: a daemon without gateway thread joins it all the same.
- main.c:472: handlers (detached, gateway.c:266) and the poller
  (`channel_stop_listeners` has no caller) may be inside the cache when it is
  freed.
- cron.c:81: a kill during a save empties cron.db; cron.c:84-100: on a full disk a
  save leaves the first lines only; cron.c:210: a save that fails is not noticed; cron.c:119: a `|` in a command cuts it off and disables the
  task. `AddedIsPersisted` and `AddedIsFaithful` except these.
- main.c:665: `cron` never uses `state_dir` (README.md:89).
- loop_guard.c:25: the ping-pong loop compares `g_count - 5` names instead of 6,
  so the sixth call trips whenever it differs from the fifth, and in a longer
  window older calls hide an alternation. `PingPongTrips` says what is left.
- loop_guard.c:9: the guard is shared by all workers without a lock, so
  `NoRunawayTurn` is about turns in which no other job has used it.
- agent.c:767: a refusal of the guard is returned as success, and
  `agent_run_task` begins another round with a fresh guard (loop_guard.h:22
  "caller should stop").
- agent.c:255: trimming turns the recent messages round; a second trim keeps the right
  ones only because twice COMPACTION_KEEP_RECENT is at most MAX_HISTORY_MESSAGES + 1.
- channels.c:888: the chat id is never found (the first colon is the one after
  `"chat"`), so the answers of the poller, and those to a Telegram webhook, have no
  destination and `telegram_send_message_to` returns -1: README.md:21 "agent replies
  are sent back to the channel when configured". channels.c:1030-1034: at the place of
  a backslash the copy leaves what the buffer held; a text that begins with one may
  look empty and be passed over each time (`OldestReceived` is about the others). If
  the ids were parsed, a batch would be confirmed after one of its texts was pushed.
- channels.c:128, 321: without a recipient Telegram and Slack send nothing, and the
  default `allowed_users[0]` is never filled: alerts (README.md:221 "If channels
  (Telegram/Discord/Slack) are configured, alerts are sent there") reach Discord only,
  and a reply to Slack needs a channel in the body. `ConfiguredIsServed` is about what
  can be sent.
- channels.c:816: every load of a file with entries puts a blank entry first, and
  every save keeps it; channels.c:1043: two threads load the table without a
  lock, and entries are lost or mixed when they meet. `ServedUnlessRaced` excepts
  this, and TLC finds a lost entry at once if it does not.
- The irc, mattermost and webhook senders only print and return 0;
  `channel_send_message` returns 0 without an active channel. `SuccessIsWhole`
  excepts those that only print. What exceeds the buffers of 8192 characters is cut
  off and reported as sent (`SuccessIsWhole` speaks of what the buffer holds).
  channels.c:195-198: later pieces are longer than the limit by the mark `[cont.]` and
  its line break, which stands unescaped in the JSON; a service may refuse them. A
  piece of 4096 characters is terminated one place behind its buffer
  (channels.c:187), which the model leaves out.
- runtime_monitor.c:126: the index of a bucket is used after the lock was given
  up, so another address may be set back; `ProbeNoticed` allows for it.
  security_monitor.c:205: increments of the counters are lost.
- observability.c:43: after MAX_METRICS records (include/observability.h:9)
  nothing more is counted.
- tools.c:269: all pointers of a handler point to the one static buffer, that is,
  to the last parameter found. `write` opens the empty path and fails, or, with the
  content as `text` or with `append`, a file named by that value (tools.c:227 "Write
  file contents"); cp, mv, rm, edit, list and mkdir never act on their path;
  `http_request` is always refused; `schedule` ignores its delay; `cron_remove` with
  neither key removes the whole crontab. tools.c:272-285: the parser takes the first
  `"key"` in quotes, be it a value, or `key:` inside one; a value ends at its first
  comma, quote or brace, and one cut to nothing counts as missing. What holds is said
  of tools with one key, as long as no value reads like it (`OneKeyIsFaithful`), and
  of the checked ones (`RunsWhatItChecked`).
- agent.c:618, 625, 656: `read_file` and `http_get`, which the agent offers
  (agent.c:321-322), are unknown to `tools_execute`, and the model is told "Tool
  executed successfully".
- Of the tools that change files none checks the workspace (README.md:19). The loop of
  `setup_secure_env` removes nothing, only the variables named one by one.
- tools.c:570: a command that closes its output, or fills the buffer, is waited
  for without a limit; `LoopEnds` is about the loop before it. A command that a signal
  has ended gives -1, as one whose time was up does.
- agent.c: seven tools are offered; `memory_store` is called with key and value
  while the tool asks for content. agent.c:170 passes the workspace directory as
  the path of the database, so the agent's own store never opens.
- memory.c:260: a cutoff before the epoch wraps and the sweep removes everything;
  memory.c:701: a text cut at spaces may lose its tail; the import takes the
  words "key" and "value" for themselves. memory.c:1088-1110: the response cache cuts
  prompts to 2047 and answers to 4095 characters and looks for the whole prompt: a
  longer one is never found, and its answer is given for its first 2047 characters.
  muninn.c:272: a recall raises the priority of what it returned, so a value stored
  later under the same key may not come out; `memory_delete` fails there and
  `memory_clear` does nothing.
- migration.c:174-178: the results of fwrite and fclose are not looked at: a file
  the disk took a part of is counted (`CountedIsRewritten` says what is left).
- rag.c: a short rag.idx is loaded as if it were whole; nothing in the program writes
  one or calls the chunker, so `PiecesCover` is about the function alone.
- `auth_load` loads nothing; `skills` and `service` begin with empty tables in
  every process; `cmd_status` shows components as OK that were never checked; an
  instance id of INSTANCE_ID_MAX characters is never found again.
- providers.c: the retries and the router have no caller in the program.
  `provider_chat_completion` has (agent.c:729, and agent.c:546 in a function nobody
  calls), but only with PROVIDER_OPENROUTER or PROVIDER_OPENAI, so that no call gets
  to the local model; its statics have no lock. The content of an unparsed answer is
  the raw JSON.
- Without a caller are also `approval_clear_expired`, `approval_request` and the sweep
  of the memory; `cmd_service` makes one call per process, so that the sequences of
  `Services` are those of a program that uses service.h. The program opens its memory
  with the SQLite backend only (agent.c:174, migration.c:125).

## 6. Plan

The models are complete as far as section 7 says, and what the runs check of safety
is proved. What could follow: the liveness properties, once a prover for `ENABLED` and
fairness is at hand; and a lock for the channel table, the loop guard and the approval
context in the code, after which the exceptions in `ApprovalHolds`,
`GuardTrips` and `ServedUnlessRaced` can go.

## 7. Not modelled

- Without a caller in the program: the context daemon (daemon.c), the tasks of
  runtime.c, heartbeat, cost, tunnel, skillforge, peripherals, `cron_enable_task`,
  `cron_run_now`, `migration_rollback`, `ws_broadcast`, the added signatures of the
  ids.
- Pure I/O and formatting, in which there is no state whose sequences matter:
  doctor, onboard, pentest, hardware, log, integrations, identity, config,
  security.
- The answers of providers and of the network are arbitrary; JSON is not parsed
  character by character; embeddings, vectors and statistics are arithmetic on
  data. Of the other memory backends markdown, lucid and postgres store nothing behind
  `memory_store`; of muninn, associations, vaults and soft deletion have no caller.
- The frames of web sockets, typing and read marks, and reading of manifests.
