# Ralph in TLA+

TLA+ models of `ralph`, the chat shell around `claude -p` (`crates/ralph`) and
its pure core (`crates/core`), the TLC runs that check them on small instances,
and proofs that TLAPS checks for every instance. `PROJECT.json` lists the
components, runs, mutations, hazards and theorems, and maps every definition to
the lines it models.

    tlc -config MCWatches.cfg MCWatches     # a run
    tlapm WatchesProofs.tla                 # the proofs of a module

## The system

`ralph chat` runs one chat per *store*, a directory on disk. Nothing is
transactional: what processes share are files, written whole through a rename,
in place, or appended to, and advisory file locks; what the threads of a process
share are mutexes and condition variables. Every process may be killed between
two calls, and restarts with what the files say.

| Component | State | Operations | Interacts with |
| --- | --- | --- | --- |
| chat threads | `threads/<name>/thread.json`, the claim `CHAT`, saved records | fork, park, revive, pull, merge, drop, chat | main's log and inbox; the watches and schedules saved in the folder |
| inbox | report files, ledger `inbox.json` | post, peek, list, drain, drop, hold | workers, watches, schedules and outside commands post; the main loop and the monitor read |
| chat memory | `log.jsonl`, `tree.jsonl`, locks `LOCK`, `NAP` | append, nap (load, ask a curator, commit) | turns append, `chat-nap` processes summarise, views and search read |
| memory index | `log.idx`, `tree.idx`, temp files | refresh, save, sweep | follows the two files of the memory |
| memory view | none (pure) | cover the log under a budget | memory |
| watches | registry, one waiter thread each, saved records, queued requests | start, stop, restore, report, kill all | socket server queues, monitor starts, main loop stops, inbox receives |
| permission handoff | answer, claim and error files, reply lock | answer, take, withdraw, refuse | a verb in one process, the worker's host in another |
| claude host | turns, permission queue, events per worker | start a turn, queue, interrupt, ask, answer, close | the agent's stdin and stdout, the handoff files |
| opencode host | the server's process, its event stream, per worker a turn state and events | follow, reconnect, repair, prompt, interrupt, answer, remind | an HTTP server of its own, the markers, the request folders |
| turn and session | the log, one `claude` process in a slot behind a mutex | turn, retry, ping, interrupt, time out, discard | the main loop and the keepalive thread |
| send-it | `run.toml` with the approved hash, the step in progress | propose, approve, drive, stop, edit | main loop, socket, watches (checks), hold |
| schedules | task records | propose, approve, fire, finish, cancel, restore | the monitor fires, watches run, a thread starts workers, the main loop edits |
| auto-continue | a record per worker, activity and sent marks | continue once, alert once | monitor, workers, inbox |
| workers | owner, session and request files, worktree, branch | spawn, roll back, close, abandon, resume | git, the host's poll and resume threads |
| checks and nudges, chat loop, chat switch, monitor, socket, snapshots, cells, wire proxy, usage | see *Not modelled* | | |

Rendering, highlighting, status lines, spinners, configuration, costs, upgrades
and the vendored line editor keep no state whose order matters. `PROJECT.json`
names each with its sources and the reason it is left out.

### What is hard

* Reading before locking: thread verbs read and check `thread.json` before they
  claim it; `/watch stop` reads the running ids, then the saved ones; send-it
  loads its plan twice in one step; `fire_due` saves a task it read earlier.
* Two files, one fact: ledger and report files, ledger and log, a report and the
  record of its watch, `thread.json` and the digest, a continue and its record, an
  owner file and a session record, an index and its file.
* Writes cut short: appended lines, and files that are truncated before they are
  written (`thread.json`, `run.toml`, an index in place).
* Locks that are files: the claim is on an inode that a drop unlinks.
* Threads that wait for threads: `stop` and `kill_all` join waiters that need the
  mutex; naps and turns need the same lock while a curator may never answer; a
  turn waits for a ping.
* Late events: a launch after the close began, a result after an interrupt, an
  answer after its timeout, a request while an interrupt denies the others.
* Events that are lost with a broken stream, seen twice, or older than the snapshot that
  was read in the meantime, which itself is several requests.
* Undo in steps: a close or a rollback stops half-way and is called again.

### What makes each component correct

* Threads: one owner at a time; a merged thread never changes; a chat runs only on
  an open thread; one digest, and only after the merge.
* Inbox: no report is lost, none is sent twice, positions stay good, `/hold`
  sends what it matched, what is posted arrives.
* Memory: an acknowledged entry stays; a node is summarised once, from committed
  halves, of readable entries; nobody pays twice; turns never wait for naps;
  nothing stays pending. Readers of the index see what was committed.
* View: every entry is shown once, within the budget.
* Watches: one report each; a persistent one is not forgotten; the registry
  is exact; close kills all; `stop` and `close` return.
* Handoff: an answer is applied at most once and to its own request, and the
  answerer is told the truth about it.
* Hosts: a request of the agent is in one place until it is answered; what the
  person is shown is true; no message and no interrupt is left behind. The opencode host ends up with what its
  server has, whatever it missed.
* Turn and session: a reply is the answer to its own message; the process has
  heard what the log says.
* Send-it, schedules: only an approved plan is driven; earlier steps are met; a
  run ends; an armed task is not forgotten, and its worker is not orphaned.
* Auto-continue, workers: a worker is continued once; a close that stopped half-way
  can be finished; nobody's work is deleted unasked.

## Modules

| Module | Models | Checked by | Proofs in |
| --- | --- | --- | --- |
| `Threads` | `chat/thread.rs`, `core/chat_thread.rs`, `claim_chat` | `MCThreads` | `ThreadsProofs` |
| `ThreadLifecycle` | nothing of the code: what `docs/context/threads.md` promises | with `Threads` | |
| `Inbox` | `Inbox` of `worker_mcp.rs`, `core/inbox.rs`, hold | `MCThreads` | `ThreadsProofs` |
| `Memory` | `Store` of `chat/memory.rs`, `core/chat_memory/{tree,nap}.rs` | `MCStore` | `MemoryProofs` |
| `Watches` | `watches.rs`, `watch_store.rs`, `watch_requests.rs` | `MCWatches` | `WatchesProofs` |
| `Handoff` | `workers/reply.rs`, `cursor_owner.rs` | `MCHandoff` | `HandoffProofs` |
| `Turns`, `ClaudeHost` | `core/worker/{queue,codex/turns,acp/turns}.rs`, `claude_headless_worker.rs`, `permission_queue.rs` | `MCChat` | `ClaudeProofs` |
| `Opencode` | `opencode_worker.rs`, `opencode_worker/{requests,session}.rs`, `core/worker/opencode_http/turns.rs` | `MCStore` | `OpencodeProofs` |
| `ChatTurn` | `chat/turn.rs`, `subprocess/session.rs`, `chat/keepalive.rs` | `MCChat` | `ChatProofs` |
| `SendIt` | `chat/send_it.rs`, `core/chat_send_it.rs`, `core/chat_send_it/drive.rs` | `MCChat` | `ChatProofs` |
| `Schedules` | `chat/schedule.rs`, `chat/schedule_worker.rs`, `core/chat_schedule.rs` | `MCChat` | `WorkerProofs` |
| `Stall` | `chat/stall.rs`, `core/worker_stall.rs` | `MCChat` | `WorkerProofs` |
| `View` | `core/chat_memory/tree.rs` (covers and views) | `MCStore` | `MemoryProofs` |
| `Index` | `core/chat_memory/{index,archive}.rs`, `chat/index_files.rs` | `MCStore` | `MemoryProofs` |
| `Workers` | `workers/{spawn,close}.rs`, the poll and resume threads of the claude host | `MCChat` | `WorkerProofs` |

`MCChat` puts six components into one specification (the hosts, `ChatTurn`,
`SendIt`, `Schedules`, `Stall`, `Workers`), `MCStore` the three of the memory
(`Memory`, `View`, `Index`) and `Opencode`, and `MCThreads` the threads and the inbox.
The components of one such module share no state in this project, so a behaviour
chooses one of them in its first state and leaves the others as they start; the
constants `Parts`, `StoreParts` and `Scenarios` say which ones a run has.

A definition whose comment begins with `FAULT:` (or `a bug:`) is no part of a
specification. It is the definition after it with a plausible bug, put there so
that each property can be seen to catch one; `PROJECT.json` pairs them under
"mutants".

### Threads

One thread's folder, and processes that each run one verb or a chat on it.
`meta` is `thread.json` (`torn` between `fs::write`'s truncation and its write),
`chatFile` the inode of `CHAT`, `proc[p].fd` the inode a process has opened,
`proc[p].seen` the meta it read *before* it claimed. Each verb is the sequence of
its system calls: `Start` (reads running workers), `Check` (`known_meta`, the
verb's check, `guard_check`), `OpenClaim`, `LockClaim`, then `Merge | Park |
Revive | Pull | DropThread`, `FinishWrite`, `PostDigest`, `Unlink`. A chat claims
first and reads after (`CreateThread`, `EnterChat`). `Die` is a kill or a
returned error anywhere; the kernel then drops the lock.

`ThreadLifecycle` is the abstract specification: the life of a thread with no
processes and no files. `ThreadLife` states that `Threads` implements it, under
the mapping `LifeState`/`SeenMeta`: while a live process rewrites
`thread.json` the meta it read still counts, and a torn file that nobody writes
is a broken thread.

Reports of other threads and the log of the thread itself touch none of this
state and are left out; main's log is only its length.

### Inbox

A report is a number, the order of its time stamp; `ByStamp` lists a set of them in
that order, in which files are ingested.
`op` is the one `Inbox::sync` that holds the mutex, from `Begin` (load, list,
read, act) over `Save` to one `RemoveFile` per file that was read, to `EndSync`.
The monitor peeks; the main loop drains, drops and holds; `Crash` may come at any
step and takes `op` and the hand of the main loop with it. The log append of a
drained report is `LogReport`, one per report, as `Turn::append_logged` does.

### Memory

`log` and `lines` are the complete lines of the two files, `logTail`/`treeTail`
whether the file ends in a torn line. Turns are `LockLog`, `TrimTornTail`,
`AppendEntry`; naps `StartNap` (the NAP lock), `LoadSettled`, per node `SkipNode`
or `AskCurator`, the curator's answer, `LockTree` (re-read under LOCK) and
`WriteSummary` or `KeepFirstSummary`. The nodes are those of the memory tree; a
summary is its node, its text and what its prompt was built from. `Junk` is a
line no reader can parse: a record that was glued to a torn one. The curator is
external and may answer, be refused up to `MaxTries` times, fail or never answer.

Entry texts are three kinds: short (stands for itself), long (needs a leaf
summary), corrupt. Line indexes are caches of the same files: `Index` has them.

### Watches

`active` is the registry, `run` the child and waiter of each watch, `saved` and
`queue` the files, `launch` the call that holds the mutex. `Launch` saves the
record under the mutex, `Spawned` or `SpawnFails` ends it. A waiter is `Finish`,
`Post`, `Remove`, `Leave`. The main loop restores (`Restart`, `ReportNow`,
`RemoveReported`), starts, stops (`StopList`, `StopDecide`, then `RemoveSaved` or
`TakeEntry`, `End`, `Join`) and closes (`Quit`, `Drain`, `End`, `Join`, `Exit`);
the monitor takes requests and starts them one by one. A restored watch keeps the
number it was made with, so that "posts one report" spans restarts. `gone`,
`late` and `crowd` are history variables for the properties: what `/watch stop` took
for saved only, what was launched after `kill_all` began, and the persistent watches
that met another one of their id (`Met`).

### Handoff

The replies to one worker, each a process of its own, and the poller of the chat
that hosts the worker. A reply is `Start`, `LockReply`, `AwaitEarlier`,
`ClearError`, `Place`, then `LookAnswer`/`LookClaim` until both files are gone or the
deadline passes, `Withdraw`, `TimeoutOutcome`, `ReadError`; the host is `HostTake`
(the rename to the claim), `HostHandle`, `HostDone`. The host may close the worker
(`HostClose`), die (`HostCrash`) and start again with a sweep (`HostStart`), and a
reply may be killed. `answer`, `claim` and `error` say *whose* answer a file
is, which the files do not: that is what the properties are about. Which request an
answer names is the permission queue's matter, in `ClaudeHost`.

### Turns and ClaudeHost

`Turns` is the pure machine the hosts share: an operator takes the turns and returns
them with the actions to perform, in order. `ClaudeHost` performs all of them one by one
(`Perform…`; `PerformReport` those that no thread of the host reads again) while the mutex `lock` is held by the reader or the poller, and the
other thread goes on with all that needs no turn: `Ask`, `Settle`, `TakeAnswer`,
`DrainEvents`. The agent reads its stdin in order, raises requests, may take one
back, ends its turn and may die. `Push` keeps of the waiting events those that a
later one does not make moot, and a start once; `Applied` is the poller's loop over them.

### Opencode

`server` is the process the chat starts, `session` the worker's session as the server
has it (external: only what the host relies on), `link` and `feed` the event stream and
its lines, `turnState` and `sink` the two fields of `Session` with a mutex each. The
supervising thread notices a dead server (`TakeDead`, `Unreachable`), gives its turns up
(`LoseSessions`), starts it again (`StartServer`) and connects (`Connect`). It then
reads a snapshot, one request per step (`ReadActive`, `CloneTurn`, `ReadPending`,
`ReadMessages`), and makes the missed updates of it (`Repair`, by `Reconcile`); later
updates come from the stream (`Route`). `Apply` is `advance` under the mutex, the
`Run...` steps perform its effects with none, and `TakeEvents` and `ApplyEvents` write the
blocked marker. The polling thread takes prompts and interrupts (`TakePrompt` up to
`PostPrompt`) and answers (`TakeReply`, `PostReply`). The server may die, the stream may
break and a request may fail at any step. `seen` and `drift` are history: the last end
that was settled, and the known limits a behaviour has met.

### ChatTurn

`process` is the `claude` process with what it was told, what waits on its stdin
and what it wrote. A turn is `Submit`, `TakeSession`, `Launch` or
`CheckLeftover`, `SendPrompt`, `ReadResult` or `LoseProcess`, `Retry`,
`FinishTurn`; the keepalive thread is `Ping`, `PingResult`, `PingTimeout`, and holds
the slot's mutex in between. `Cancel` may come at any moment of a turn. The fields
`answers` and `late` of a result are history: the line itself does not say which
message it answers.

### SendIt

`runFile` is `run.toml`, `Torn` between truncation and write; the main loop and
the socket's thread write it without a lock. A plan stands for its hash. The person
talks, edits, approves (`Go`), saves and uses templates, turns it off; the agent
proposes, is refused, and records a judge's result. The driver is `StartRun`,
`Tick` (which judges by `Decide`), `Dispatch` (which loads the file again), `Held`,
`TakeOver`; `Release` takes the approval out. `met`, `ran` and `leftOver` are history.

### Schedules

One command and one worker. `disk` is their records, where `v` numbers the proposals
of an id; `beat` is the monitor's tick with the task it read, `cancelling` the main
loop's cancel, `starters` the threads that start workers. Whether a task is due, past
its deadline or past its grace is a choice. `adrift` marks the histories that
`NoOrphanWorkers` leaves out, see *Known limits*.

### Stall

Times are whole seconds, as in the files. The tick is `StallLook` (which decides by
`StallAction` on the facts), `StallConfirm`, `RecordContinue`, `SendContinue`,
`StampRecord`, or `AlertStalled`, or `RemoveRecord`. The worker, the person and the
clock go on in between; `ChatRestarts` may come at any step.

### View

`CoverAt`, `Alpha`, `Fill` and `CoverOf` translate the cover under a line budget,
`TradeLines` one round of the trade of a merge for a split, `LinesOf` the three parts
of a turn's log. The log grows and naps summarise in any order before a view is made,
so the run sees every log of up to eight entries with every set of summaries. The
bisection for alpha, 60 rounds on floats in the code, is the least fraction that
fits.

### Index

A file is the sequence of its complete lines, each with a number that stands for its
bytes, and perhaps a torn one. The writer is `LockStore`, `WriteLine` or
`TearLine`, `UpdateIndex`, then the save in place (body first, header last) or by a
temp file, and the sweep. Readers lock shared, bring both indexes up to date in
memory, read, check what they read, and save what they had to mend. Deaths, deletions,
older copies put back and bad slots are bounded by `MaxMishaps`.

### Workers

One claude-headless worker. `repo` is its worktree and branch as git sees them, `signs`
the files of the store, `hosting` the chat's host with its poll thread (`at`) and its
resume thread (`resume`), `call` the one spawn or close in progress. `running` are the
sessions whose process runs. Chats quit or die and start again, the agent edits,
commits and exits, the person merges and removes the worktree by hand.


## Runs

| Run | Question | Distinct states |
| --- | --- | --- |
| `threads` | Do two chats and a shell that runs every verb, all of which may die at any call, keep one owner (`OneOwner`), chats on open threads (`ChatSeesOpenThread`) and the life of a thread (`ThreadLife`)? Is a report lost (`QueueIsDurable`, `LostOnlyByCrash`), sent twice (`SentOnce`), sent by mistake (`HoldSendsAMatch`) or stuck (`ReportsArrive`)? | 136,130 |
| `memory_tears` | Do acknowledged entries stay through torn writes and deaths (`KeptEntriesStay`), do appends end (`AppendsEnd`), is everything summarised in the end (`AllSummarized`)? | 106,374 |
| `store_parts` | Naps, one of which takes no NAP lock: `WrittenOnce`, `ParentsFollowChildren`, `NobodyPaysTwice`. Views: `ViewIsWhole`, `ViewFits`. Index: `SeesCommitted`, `SweepsOnlyOrphans`. Opencode: `FollowsServer`. | 1,638,311 |
| `watches` | Starts, stops, restores, reports and closes over two openings, with a persistent watch the model asks for under an id the person may start and stop as well: `NeverForgotten`, `RegistryIsExact`, `OnlyLateStartsSurvive`, `StopsEnd`. | 162,238 |
| `handoff` | Is a replier told the truth (`WithdrawnIsNeverHandled`, `OwnRefusal`, `AnsweredWasHandled`), and told at all (`RepliesReturn`)? | 276,060 |
| `chat_parts` | Host: `OnePlace`, `ViewIsTrue`, `NothingLeftBehind`. Turns: `OwnReply`, `KnowsThePerson`. Send-it: `ApprovedOnlyWhileDriven`, `EarlierStepsAreMet`, `RunIsBounded`. Schedules: `NoOrphanWorkers`, `NotForgotten`. Stall: `ContinuedOncePerStamp`. Workers: `CloseCompletes`, `OnlyLateWorkIsLost`. | 1,763,927 |
| `threads_unmerge` | `MergedIsReadOnly` with two shells: refuted | |
| `watches_close` | `CloseKillsAll`: refuted | |
| `turn_cancelled` | `KnowsTheReports`: refuted | |
| `continue_twice` | `ContinuedOnce`: refuted | |
| `opencode_duplicate` | `RemindsTheUnreported`: refuted | |
| `workers_reopened` | `ClosedStaysClosed`: refuted | |

`CHECK_DEADLOCK FALSE` is said where a behaviour ends because a bound is spent or a
process is done: a chat that closed, replies that returned, a worker that is gone.
`store_parts` checks deadlock: its parts never stop but for a host that rests or gave
up, which `OcRests` names.

### Bounds

* `threads`: one live verb at a time beside the chats (`MaxLive = 1`) in scenario
  "alone", where the shell forks, merges, drops and forks again; in "races" two
  chats race with it. Two log lines, three inodes of the claim, two digests.
  A third chat could only
  wait where the second does; a second digest is one too many already.
* The scenario "inbox" of `threads`: three reports and one crash: one report read, one queued and one that
  arrives in between; a second crash finds the same files.
* `memory_tears`: one nap and two turns, `MaxLog = 3` (a parent, its halves, a log
  tail), two tears, one death, `MaxTries = 2` for the code's five: what matters of
  the tries is that there is a last one. `store_parts`: two naps and one without the
  NAP lock over two long entries.
* `View`: logs of up to eight entries, every set of summaries, one odd entry, budgets
  3 and 5; the cuts `OlderStep = 4` and `TailStep = 2` stand for the code's 256 and 32,
  so that several steps fit in eight entries.
* `Index`: two readers, two lines a file, two mishaps of five kinds: one to damage,
  one to hit the mending.
* `Opencode`: the task, one further message, one permission request, one retry, two
  attempts to start the server, one fault, which may be a death, a broken stream, a
  failed turn or a failed request; two faults were checked once (6.4 million states) and
  show the same.
* `watches`: two watches, two openings, one crash; the id of the request is one that
  `/watch start` may make up too, so that two watches can meet under it. Three requests
  and three openings were checked once for the safety properties (3.4 million states), and
  `WatchesProofs` covers every number. `handoff`: three replies (one
  before, one beside and one after the lock), one crash, one kill;
  the host forgets an answer it cannot use (`ForgetsAnswer`).
* `chat_parts`. Host: one prompt, one interrupt, two requests, the agent may die.
  Turns: two lines, one report, two retries, one ping with keep, one stray line.
  Send-it: a plan of a worker and a judge, one of two checks, three turns a step,
  two judge rounds, two approvals (`MaxGoes`), one quit. Schedules: two proposals of one id, one
  restart. Stall: grace 1, three seconds, one fault. Workers: two sessions of one id
  (the second is what a leftover of the first can hurt), one upset.

Each bound is a constant named in the configuration. They are small, and enough for
each property to fall to a plausible bug: `PROJECT.json` lists one for each.

### Fairness

* `Inbox` (in `FairScenarioSpec`): each step of a sync that began, and that the monitor peeks again and again,
  as its thread does every second; the person need do nothing. The chat may die once,
  and is then fair again.
* `Memory` (in `FairStoreSpec`): each step of a live process, and that a free lock is taken in the end, since
  `flock` waits in the kernel and no one holds `LOCK` for longer than a write.
  `AllSummarized` also assumes `CuratorsAnswer`: naps are started again and again, and a
  curator that is asked again and again answers at last. `AppendsEnd` does not.
* `Watches`: the steps of waiters, main loop and monitor. A child that is killed ends;
  one that is not need never end.
* `Handoff`: each step of a reply, and strong fairness that the deadline passes while it
  looks: it is a clock. Nothing at all about the host, which may hang.

`NothingLeftBehind` and `CloseCompletes` need no fairness: they speak of states where
nothing is under way.

## What the runs refute

1. *A merged thread can come back* (`threads_unmerge`, `chat/thread.rs:423`). Verbs
   read and check `thread.json`, then claim, then write what they read. A `park` that
   read before a `merge` and claims after it writes an open thread over the merged
   one. `docs/context/threads.md:102`: "A merged thread is read-only."
2. *A watch outlives its chat* (`watches_close`, `watches.rs:308`). The monitor may take
   a queued request after `kill_all` emptied the registry; `launch` does not look at
   `closing`. `docs/context/ralph-chat.md:298`: "Closing the chat kills every watch and its child
   processes".
3. *A process that never heard a report* (`turn_cancelled`, `chat/turn.rs:233`). A turn
   that is cancelled before it takes its session keeps the process, though its report
   is in the log. `ralph-chat.md:100`: "A cancelled turn also drops the claude process".
4. *Two continues for one go-ahead* (`continue_twice`, `chat/stall.rs:117`). Only the
   stamp after the send makes the record newer than the message.
   `ralph-chat.md:772`: "a crash or a fast failure between the send and the write cannot
   send a second continue".
5. *A closed session is resumed* (`workers_reopened`, `workers/close.rs:143`). A worker
   without an owner file is closed as a tmux worker, and its claude session record stays.
   `docs/context/headless-workers.md:93`: "removed by close".
6. *A worker that reported is reminded* (`opencode_duplicate`, `opencode_worker.rs:808`).
   The stream is opened before the snapshot is read, so the end of a turn in between is
   settled twice: the first time removes the reported marker, the second finds none.
   `ralph-chat.md:678`: one reminder "after a turn that ended without a report".

## Known limits

Cases met while modelling in which a promise fails, and which the properties leave
out by a condition that names them or by a constant.

* Inbox: a report is lost when the chat dies between the drain and the log
  (`worker_mcp.rs:156`): `LostOnlyByCrash` says that there is no other way.
* Memory: a summary that is put after a torn line is glued to it and makes one line of
  junk (`memory.rs:319`; `Store::put` does not trim as `append` does). The nap goes on as
  if it were committed and may summarise a parent from it, so the parent's halves are
  not all in the file; a later nap writes the half again, with another text. This is
  `NothingLost` in `ParentsAreTrue`, and why `store_parts` has no tears.
* Threads: a second drop may unlink the claim of a thread that was forked meanwhile
  (`thread.rs:406`; scenario "races" creates the claim once); merges race over the saved records (`thread.rs:236`); a verb may
  write into a folder that was dropped (`thread.rs:418`). `ClaimIsSafe` is proved until `CHAT` is created a second
  time, `MergedStays` and `LifeIsKept` with one process that rewrites `thread.json`.
* Watches: a report that cannot be posted is lost with its record; queued requests are
  removed before they start; a crash between report and removal reports twice. A
  persistent watch loses its record in two ways. `/watch stop` reads the registry
  before the folder, and removes the record of a watch launched in between
  (`watches.rs:275`; `gone`). And records are removed by id, so two persistent watches that
  meet under one id can lose each other's (`crowd`): a request is refused for an id in
  use when it is taken, not when it is launched, and by then a watch of that id may have
  been started and stopped, or closed with its record kept. `NeverForgotten` and
  `RunningIsSaved` name both, and say that there is no other.
* Handoff: a killed reply leaves its answer, and a later one may read its refusal
  (`kills = 0`); an answer to a worker that closes may count as taken (`ended`).
* Opencode: `drift` marks a snapshot that could not be read, after which nothing is
  repaired until the next connection ("blind"); a failed prompt, which clears the
  flag of a turn that runs ("failed"); a server lost between the mark of a prompt and its
  post ("crossed"); an end that is settled when newer work is under way, and clears its
  flag: if the stream breaks then, the end of that work is missed ("behind"); events of
  the blocked marker that the two threads took in one order and applied in another
  ("overtaken"). The supervising thread may also take the outcome of an interrupt from the
  shared list, and its result is then not written. After the last attempt to start
  the server the host gives up.
* Turns: the pump's own failures are a lost process.
* Send-it: the slot of a refusal outlives its run, so that the first tick of the next
  may stop on it; a check that is resumed may stop on the watch or the report of its
  first life; `dispatch` reads the file again, so a plan proposed in between is judged
  once and then seen as changed.
* Schedules: `adrift` marks a worker whose task was removed, cancelled or timed
  out between a check and the start, whose id was proposed again meanwhile, or whose
  record an older snapshot (`fire_due`, `start_task`) overwrote. `NoOrphanWorkers` says
  nothing of it.
* Stall: a second continue after an unstamped record, see above.
* Workers: commits between the count and `git branch -D` are lost, and so is what an
  agent writes after the check (`OnlyLateWorkIsLost`); `spawn_headless` clears the owner
  of a worker the resume thread just started; a request that timed out may be adopted
  by the start of the second; the error of a failed resume fails a spawn that waits; a
  rollback may remove a worktree another spawn made.

## Proofs

| Module | Theorem | For every value of the constants |
| --- | --- | --- |
| `ThreadsProofs` | `TypeCorrect`, `ClaimIsSafe`, `ChatsStayOnOpenThreads` | types; until `CHAT` is created again one owner; without drops, chats on open threads for good |
| | `LifeIsKept`, `MergedStays` | with one process that rewrites `thread.json`: `Threads` implements `ThreadLifecycle`; a merged thread stays as it is |
| | `NoReportTwice`, `NoneLostAlive`, `QueueStays`, `HoldsAreExact` | a report is sent once; lost by a crash only; leaves the queue into one hand; a hold sends one that matches |
| `MemoryProofs` | `TypeCorrect`, `EntriesStay`, `FirstWriterWins`, `ReadersAgree` | types; an acknowledged entry stays; one record per node; a reader's tree only grows |
| | `ParentsAreTrue`, `NoDoublePay` | until a summary is lost, parents are made of what is in the files; naps do not pay twice |
| | `SweepsAreSafe`, `ReadersSeeAll` | no sweep takes a temp file a save is about to rename; a read sees all that was there |
| | `ViewsFit`, `ViewsAreWhole` | a view stays within its budget or its cover; what is shown of a log shows each entry once |
| `WatchesProofs` | `TypeCorrect`, `Registry`, `Closing`, `Persistence`, `Saved` | types; the registry is exact; only late launches survive; a persistent watch is not forgotten, and runs with its record on disk, unless `/watch stop` took it for saved only or it met another of its id |
| `HandoffProofs` | `Types`, `NeverHandled`, `OwnResult`, `Answered`, `Once` | what a replier is told is true; an answer is handled once |
| `ClaudeProofs` | `RequestsHaveOnePlace`, `NothingIsLeft` | a permission request the agent waits on is in exactly one place; nothing waits where no step is left |
| | `ViewTellsTruth` | a view that has caught up shows what the turns and the queue are |
| `OpencodeProofs` | `HostFollowsServer` | a host that has caught up has the turn, the requests and the last end its server has |
| `ChatProofs` | `ApprovalEnds`, `StepsAreInOrder`, `RunsEnd` | approvals end with the run; a step waits for those before it; rounds are not bought |
| | `RepliesAreOwn`, `ProcessKnowsThePerson` | a reply in the log answers its own message; the process has heard the person as the log has it |
| `WorkerProofs` | `ContinuesAreStamped` | a second continue follows an unstamped one only |
| | `WorkersAreHeld`, `NoneForgotten` | a scheduled worker is held; an approved task leaves the schedule for a reason |
| | `AbandonCompletes`, `NoWorkIsLost` | a close with abandon gets through; only late work is lost |

None of the invariants is inductive by itself. What makes them so:

* Threads: `Inodes`: as long as one `CHAT` was made, whoever opened or holds it has that
  inode; `WriteInFlight`: `thread.json` is torn while a process writes it, and a chat
  that forks is about to write an open thread. For the refinement, `LifeInv`: with one
  rewriter, what it read before it claimed is still current when it writes
  (`SeenIsCurrent`), and each of its steps is one of `ThreadLifecycle` or none.
* Inbox: `QueueInv`: the ledger, the files listed and not yet removed, and the hand of
  the main loop share no report, and each file was read whole before it is removed.
  `HoldFits` follows the matched report through the sync that drains it. That
  `ByStamp` lists a finite set once each is proved by induction on a set of numbers
  (`SetInduction`, from the least element), which needs no operator as a parameter.
* Memory: `LockHeld`: one process is between `LockLog`/`LockTree` and its write;
  `TreeIsFresh`: what it decided on is what the file says; `AnswerReady`: a nap that
  commits has an answer for the node it is at. `ParentInv` adds that a nap's own copies
  of log and tree are parts of the files, and that its prompts are made of them;
  `NapInv` that the NAP lock is held from the start of a nap to its release, so that what
  it read as missing is missing while it pays.
* Watches: `Sound` relates the phase of a waiter to the registry and to its
  child; `Owned` and `Drained` say in whose hands an entry is that left it;
  `Kept`, `Fresh` and `Alone` do the same for the record on disk. `Alone` is what the
  removal by id needs: while a persistent watch is not through with its record, the
  record of another watch under its id is of one in `crowd`. No assumption on the ids
  is left.
* Handoff: the answer file, the claim and the error belong to the reply that holds the
  lock or to nobody, through each step of the host.
* Index: writers hold `LOCK` exclusively and readers shared, so a sweep and a save that
  wrote its temp file never overlap. `SeesInv` adds that no index on disk deceives
  (`Honest`): serial numbers only grow, so if it decodes and the tail in its header is
  the line at its place, its slots are those of the lines up to there. Between the slots
  and the header of a save in place it holds since an extension keeps the slots there
  were (`KeepsSlots`): the old header promises fewer, or they are the same. A reader's
  files start with the lines it opened, also when it took no lock and a writer went on.
* View: `Parts` says that nodes share a range of entries out. A cover is one of its range,
  since two nodes of the tree that have an entry in common lie in one another (`Nested`,
  from the powers of two); a split and a merge keep it so (`Replaced`), and a trade of a
  full view merges first. `Viewed` adds what the view is of, which no nap and no entry changes
  while it is made. `CutsMeet` puts the first cut at or before the second, on multiples of
  the small step, so that blocks fill the middle; `NoticesAre` counts the lines over an
  entry, merged notices included. That the functions a cover and a cut are computed by
  exist is proved by `SetInduction`, as in the inbox.
* ClaudeHost: `PlacesInv` counts a request in each queue and hand it may be in; every
  step moves it from one to the next. `Fresh` says that a number the agent has not used
  is nowhere, `TakenBack` that a request whose cancellation is under way is not waited
  on, `Closes` that the poller drops requests only of a worker marked as closing.
  `LeftInv` does the same for the turn that runs (`OneRun`: a start to perform, a line,
  the agent's run or a line of its end) and for an interrupt (`InterruptsHeld`);
  `Deals` says what each operation of `Turns` gives back, and `Holds` and `Exits` tie
  the host's flags to the process. The two together leave no wait in a `Quiet` state.
  `ViewInv` is about what the poller would show if it applied all that waits (`Shown`):
  `FewEvents` bounds what waits to one event that settles all before it and a start
  after it, and `Tells` says that the acts still to perform announce an end before a
  start. `WaitsInv` orders the agent's output (a request once and before its cancellation, the
  end of a run last and with none of its requests left to wait), `InRun` ties requests to the turn that runs, and
  `ShownTrue` says that the shown phase is that of the turns and the queue except for
  what the acts in `todo` still announce. With no act and no event left it is the view.
* Opencode: what the host does not know yet is in `Coming`, the updates in hand and the
  lines behind them. `AskTold` says of each request that the last word on it in there is
  what the server has, and where there is none the turn state has it, or the snapshot that
  is being read has; `RunTold` says the same of the turn, where a turn that ended may still
  be shown while work waits to be posted. Since an update is a word on one of them only, a
  step is checked by what it adds at either end of `Coming` (`Lasts`, `Never`), and
  `ReconcileMakes` says which words a snapshot adds. `Marked` follows the set of requests
  through the effect that publishes it, the sink and two batches to the marker, which are
  in order unless `drift` says "overtaken". `InTime`: an end that is not settled leaves the
  turn in flight, so that the next snapshot looks for it. `Typed` has the types, what each
  step of the supervisor holds (`Shape`) and that nothing comes from a server that is gone
  (`Gone`).
* ChatTurn: `OneWaits`: unless the process writes by itself, one line at most waits in
  it or in its output, and it is the line of the turn or of the ping that has the
  process; `InTurns`, `MayBeRead`, `WasRead` and `WasLogged` follow the result.
  `PersonInv`: a message that may still be said is not in the log, and none is there
  twice; `Told`: at each place of a turn the process has heard the log's words once
  each, the person's all and in their order, and the turn's own only once it was sent.
  Of the reports it says no more than that: `turn_cancelled` shows one that is missing.
* Stall: `StallTypes` keeps the times of the files in the past of the clock, and
  `Accounted` says that the files ask for another continue only when there are as
  many unstamped messages as continues.
* Send-it: `DrivesInTurns`, `WritesItsOwn` and `OwnApproval` say that one side drives and
  that the file it writes is of the plan it drives; `StopsAreReached` places a
  stop at the step in progress. `BoundInv` relates the steps started to the rounds paid.
* Schedules: `WorkerInv`: while nothing went adrift, one start thread at most works for
  the worker, on the record that is on disk, and a cancel acts on what it read;
  `CommandInv` numbers the proposals, so that a thread with an older one is told apart.
* Workers: `CallInv`: what a call counted still holds at each git step it planned, or
  the agent or the person worked meanwhile (`call.late`, `call.disturbed`).

The proofs use the named assumptions on constants only (`ThreadsAssumption` and its
like: bounds are naturals, process sets are disjoint, `TailStep` is a power of two that
divides `OlderStep`, as 32 divides 256), and TLC evaluates those on each run. TLC
checked the invariants above before they were proved.

*Only model-checked*: liveness (`ReportsArrive`, `AppendsEnd`, `AllSummarized`, `StopsEnd`,
`RepliesReturn`), fairness and ENABLED, which are out of the prover's reach. Every
invariant and every action property of a passing run is proved.

## Abstractions

Texts, paths and hashes are numbers or model values; one stands for another only
where the code compares them. The requests an opencode worker is blocked on are a set: their
order shows only in the text of the marker. A file that is written whole through a rename changes
in one step; one that is truncated first has a state in between. Clocks are choices,
except in `Stall`, where seconds decide. In `ClaudeHost`, `Push` keeps only the events
that a later one does not make moot, and of equal starts one: `reduce` gives the same. In `View`, alpha is an exact fraction. In `Index`
processes die but the machine does not: a rename that was made stays made. `Workers` has
one call at a time, since the chat runs one tool call at a time.

## Not modelled

* The Cursor and Codex hosts: how their wire messages become the events of `Turns`. The
  machine they share is in `Turns`; their handoff is `Handoff`. Of the opencode host, the
  check of a session that is resumed, the close, the shutdown and the wire format. Tmux
  workers are a terminal the code types into.
* Worker checks and nudges, search, usage, `/view`: pure over what one tick reads.
* The chat loop's queue of typed lines, the chat switch, the monitor's drawing and the
  socket: they call operations modelled elsewhere.
* Snapshots and cells are commands run by git or a shell; the wire proxy, the costs and
  the outcome log append and never read back to decide.
* Rendering, highlighting, snippets, Kitty graphics, the progress view, configuration,
  upgrades, leftovers: no state whose order matters. They are more than half of the
  code, which is why the map covers a small share of its lines.
* The vendored line editor and the build tasks.

## Plan

What is left, by importance:

1. The Codex and Cursor hosts on the same `Turns`, and the close and resume of the opencode
   host.
2. `kill_all` from a second caller (`ExitCleanup`), and the chat switch.
