# Verification of the computer-use orchestrator

TLA+ modules that model the concurrent core of this repository, TLC
configurations that check them on small instances, and proofs checked by TLAPS.
Sources are named by their path in the repository; `api/` and `harness/` are
directories of `computer_use_demo/`.

## 1. The system

| component | source | state it keeps | operations | hard part | module |
|---|---|---|---|---|---|
| Orchestrator | `api/main.py` | `SESSIONS` (session, task, completion event), event streams | create, post, delete, follow events, clean up, start up | coroutines that use after an `await` what they checked before | `SessionLifecycle` |
| Worker containers | `api/worker_manager.py`, `api/worker_launcher.py` | docker containers | start, wait until ready, stop, clean up orphans | readiness that times out; containers that outlive their session | `SessionLifecycle` |
| Session database | `api/db.py` | rows of sessions, messages, events, artifacts | status, activity, counts; retention | rows survive a restart, memory does not | `SessionLifecycle` (status, counts) |
| Worker API | `worker_api.py` | the worker's task, conversation, event log and queue | `POST /messages`, `GET /events`, `GET /status` | order, loss and duplication of events | `WorkerEvents`; `SessionLifecycle` (completion events) |
| Session harness | `harness/session_harness.py`, `traces.py`, `triggers.py` | loop state and trace of a message | `create`, `on_worker_event`, `finish` | events of another message, blocks that come after `done` | `SessionHarness` |
| Shared task queue | `harness/shared_task_queue.py` | SQLite table `tasks` | enqueue, claim, complete | claims of concurrent processes, crashes | `SharedTaskQueue` |
| Agent worker | `scripts/agent_worker.py` | its current task | claim, write result, complete | crash between any two of them | `SharedTaskQueue` |
| Memory file | `harness/memory.py` | JSON file and a temporary file | `add`, `search` | locks on a file that is renamed over | `FileBackedMemory` |
| Durable runner | `harness/runner.py`, `loop.py`, `eval_gates.py` | loop state, checkpoint | `run_loop`, `advance_state`, signals | kill, stop, power loss at any step | `HarnessRunner`, `AgentLoop` |
| Sampling loop | `loop.py`; its drivers `worker_api.py`, `streamlit.py` | the conversation | one model turn after the other | errors and interruptions in the middle of a turn, edits to earlier messages | `SamplingLoop` |
| Tools | `tools/bash.py`, `tools/edit.py`, `tools/collection.py` | shell session with its pipes and buffers, edit history | run, restart; create, edit, undo | timeouts, processes left behind, failing writes | `BashSession`, `EditTool`, `Tools` |
| Contracts, budgets, grants | `harness/contracts.py` ... | none | pure checks | - | not modelled: stateless |
| User interfaces | `streamlit.py`, web console | conversation of the page | chat, interrupt, switch provider, reset | the page may run again at any callback | `SamplingLoop` (page), `WorkerEvents` (console as a client) |
| Computer tool, echo worker, migrations, image, demos | ... | - | - | - | not modelled: I/O, stand-ins, set-up |

**How they interact.** A client creates a session at the orchestrator, which writes a
row, starts a container and waits for its health probe. A message starts an orchestrator
task that posts it to the worker and then waits for a completion event or polls the
worker's status. The completion event comes from the event stream, which runs only while
a client follows it: the stream reads the worker's events and persists each, and
persisting `done` or `error` writes the row and wakes the task. The harness of the
message observes what is persisted. In the worker the sampling loop asks the model and
runs the tools. A cleanup loop expires sessions. All of this is one asyncio event loop
on one database. Separately, agent processes share a SQLite queue, and runner processes
drive agent loops, write checkpoints and share the memory file.

**What makes each part correct.**
- *Orchestrator*: nothing acts for a session that is gone; a session that is
  gone stays so; limits hold while creations overlap; every message, creation
  and container is resolved.
- *Task queue*: tasks are handed out in order, each to one agent; none is lost
  unless its agent died with it.
- *Memory file*: one record per signature; what `add` returned is there;
  nobody waits for ever.
- *Runner*: checkpoints are those of a loop that never crashed; the verdict is
  right; a signal is obeyed.
- *Worker events*: what the worker emits reaches the database, in order while
  nothing is replayed; the row of a message agrees with the worker.
- *Sampling loop*: each `tool_use` has its `tool_result`, breakpoints and images
  stay where they are meant to be.
- *Tools*: output belongs to the command that wrote it, undo restores what the
  edit replaced.

## 2. Modules

| module | models | state |
|---|---|---|
| `SessionLifecycle` | the orchestrator with its containers, rows, tasks and streams | one function of sessions per column or field |
| `TaskAllocation` | what the task queue promises: atomic claims in order | `state`, `holder` |
| `SharedTaskQueue` | claims statement by statement, agents that die | the table, the write lock, `pc` of each agent |
| `FileBackedMemory` | `add` and `search` system call by system call | inodes with their text and lock, two paths, `pc` of each process |
| `AgentLoop` | the loop as `advance_state` drives it, and its verdict | `state` as counts, the state that is kept, outages |
| `HarnessRunner` | the process around the loop | process, files, memory, what of them has reached the disk |
| `SessionHarness` | what the harness makes of one event, as operators on a record | none of its own |
| `WorkerEvents` | worker, event streams, proxy and message task; uses `SessionHarness` | log, queue, stream, wire, proxy, the current message |
| `SamplingLoop` | the conversation, driven by the worker or by the page | `messages`, `pc`, session state of the page |
| `BashSession` | the bash tool with shell, pipes and readers | session, shell, pipes, buffers |
| `EditTool` | the edit tool on one file | the file, its history, an edit between read and write, the edits that are not undone |
| `Tools` | both tools in one worker, one call at a time | the two, `budget` |
| `MC*` | instances for TLC | - |
| `*_proofs` | theorems and proofs about the module they are named after (`BashSession_proofs` holds lemmas of `Tools_proofs`) | - |

Constants are declared with named assumptions in the module that needs them.
Definitions that model code keep the names of the source where they can;
`PROJECT.json` maps each to its lines. Definitions marked *mutant* model no
code: each is the form a plausible bug would give to the definition after it,
and makes the property it is listed with fail.

### SessionLifecycle
One action is what a handler does between two awaits. `POST /sessions` is
`CreateStarts`, then a readiness wait that ends in `ProbeAnswered` and
`CreateSucceeds` or in `CreateTimesOut`; docker errors are `CreateRefused` and
`CreateRaises`. `POST /messages` is `PostAccepted`, `PostExpires` or
`PostOverQuota` and has no await. `_run_worker_message` is the `task` variable:
the POST travels (`posting`), was taken (`accepted`), and then the task waits
and polls. A POST that times out after the worker took it is `TaskFails` from
`accepted`. A stream holds at most one event it has read and not persisted
(`inflight`). `CloseSessions` is `_stop_session_worker`, which deletion, expiry
and cleanup share. `Stop` runs `docker rm -f` on each container and ignores what it
returns, so it may fail on any of those that run; `leaked` is history and names the
containers nothing knows any more, after such a failure or after a `Restart`, which
loses `SESSIONS` and the tasks and keeps the rows. `CleanupOrphansOnStartup` is the
setting; it is off by default, and then a restart leaves the containers to themselves.
With it on, a startup removes them, or fails to, so `session_core` with it on meets both outcomes.

Abstractions: time is fresh, idle or aged, with `GrowsIdle` and `GrowsOld` whenever a
limit may be reached; events that complete nothing are one kind; one client follows a
session; statuses that nothing writes are left out. `EventBound` caps the one event that
may be recorded beyond the event limit, `Followed` the sessions a client follows.

### SharedTaskQueue
`claim_next_task` is `Begin`, `Select` or `SelectNothing`, `Update`, `Commit`.
An agent that dies rolls back. `complete_task` checks no owner, as in the code.
`MaxTasks` and `MaxCrashes` are bounds. Connections of agents that die between
statements, lock timeouts and respawns are actions; `max_tasks` is None.

### FileBackedMemory
An inode has text and a lock; `path` and `tmp` name inodes, and a rename makes
`path` name the one `tmp` named. Taking the lock and reading are one step, as
nobody else may write that inode in between. Corrupt text is `Torn` and reads
as empty. `raced` is auxiliary: it records that two adds overlapped. `MaxAdds`
and `MaxCrashes` are bounds.

### AgentLoop and HarnessRunner
`AgentLoop` holds the loop state as phase and counts, the gates, the retry and
the escalation; `HarnessRunner` uses it for the state in memory (`Loop`) and
for what `load_checkpoint` would return (`OnDisk`). The save is three steps.
`Kill` and `PowerLoss` may come at any step. Neither the checkpoint nor the memory
file is synced before or after its rename, so `disk` holds the checkpoint directory as
the system last wrote it back (`Flush`, at any time): a power loss brings it back, or
leaves the rename without its data, an empty file. Of the memory it leaves the record or
what was there before, a memory without it. `AgentLoop` has the same as `Keep` and
`Lose`, and nothing else takes a step back. The evidence of a runner has one signature
for ever (its artifact is the checkpoint path), so the memory of a goal is a
number of records. A goal has one process at a time and the same arguments at
each start; the memory is enabled, and failing adds cover a disabled one.
`MaxActions` bounds a loop that goes on after its gates pass, `MaxCrashes` kills
and power losses together, `MaxForgotten` failing adds and removals of the memory file.

### WorkerEvents and SessionHarness
The other side of what `SessionLifecycle` calls a stream: one session, and how
an event gets from `_emit` to `_persist_worker_event`. `RunStep` is `_run`
between two suspensions; the blocks of an answer are emitted by tasks of their
own, hence after a `done` of the same step. `NewStream`, `Replay` and `Live` are
`_event_stream`; a replay goes on in the list it began with until `_emit` rebinds
the log (`shared`). A stream that lost its client stays for a while and may take
an event from the queue (`StaleTakes`). The proxy is `Connect`, `Deliver`,
`DeliverTorn` and `Retry`, its two except clauses. Its buffer outlives a
connection, so a block that was cut is parsed with what follows (`DeliverTorn`);
if the cut is in the id line, the event is lost and the id may be too. `Post`
gives each message a harness of its own; `TaskWakes` and `PollFinds` end the task.
`_persist_worker_event` stores an event and does what its kind asks for; or a statement
of it raises, which is only logged, so that the event is stored and the row or the
harness left alone (`HalfNoted`), or nothing is done (`Dropped`); or the session is at
its event limit, from when on every event is dropped, `done` and `error` included, and
only the poll is left. The limit may be reached at any time (`LimitReached`), as the
events of the orchestrator and of earlier messages count too.
`on_worker_event` handles one event; of trace, evidence and gates it keeps what the
verdict depends on.

Abstractions: event kinds that are treated alike are one (`block` is one or more
of them, `other` is whatever the harness ignores); payloads, pings and the
handshake are left out; one client at a time. `excused`, `tidy`, `replayed`,
`strayed`, `repeated` and `lapsed` are history that the properties need.
`MaxTurns`, `MaxBreaks` (of connections, and statements that raise) and `WireCap` are
bounds, and `MaxTrouble` bounds what
messages, two each, and breaks make together.

### SamplingLoop
A message is a record of its role, the number of its tool calls or of its tool
results, its images, and whether it has a cache breakpoint. One iteration of
`sampling_loop` is `Request` (which moves the breakpoints or drops images),
`ApiAnswers` or `ApiFails`, `RunTool` for each call or `ToolRaises`, then
`ToolsEnd` or `AnswerEnds`. `WorkerMessage` is the worker, which repairs nothing
of an interrupted turn. The page is `ChatMessage` with
`maybe_add_interruption_blocks`, which appends, then `track_sampling_loop`, which
starts the loop; `Interrupt` while the message is rendered between the two or at any
callback of the loop; `Rerun`, `SwitchProvider` and `Reset`. The API answers requests it
accepts: those whose tool calls have their results and which have at most three
breakpoints besides that of the system prompt.

Abstractions: texts, thinking blocks, headers and betas are left out, and
answers without any content; a tool returns at most one image. `Keep`, the number of
images to keep, is one for a conversation, though the page lets the user change it: a
larger number cannot bring back what a smaller one has removed. `overtaken` and
`switched` are history. `MaxLen` and `MaxUses`
are bounds.

### BashSession, EditTool and Tools
Output is counted in pieces that know their command. The shell (`ShellReads`,
`ShellWrites`, `ShellReturns`), a process left in the background and the two
asyncio readers (`Feed`) run beside the tool, which sends a command, finds the
sentinel in its buffer (`Returns`) or gives up (`TimesOut`). Clearing the buffers
by hand does not resume a reader that has paused. `Program` gives what commands
may do. `EditTool` splits an edit into its read and its write, since the shell
may write the same file in between; a write may fail before or after it has
truncated the file. A text is a number and whether it is raw, with tabs or CRLF in it:
`read_text` and `expandtabs` leave neither, and edits save and write what they leave.
`edits` and `fresh` are history, kept apart from what the tool keeps: what the file held
when each edit not yet undone wrote it, and how many of these came after the last undo
that failed. An undo that fails has taken a text off `history` and undone no edit. `Tools`
allows one call at a time, as `ToolCollection.run` is awaited, and gives each message new tools (`NewTurn`).
`Limit` and `PipeCap` are small buffers; `MaxCalls`, `MaxTexts`, `MaxForeign`
and `Budgets` are bounds.

## 3. Runs

| run | instance | shows |
|---|---|---|
| `session_core` | 1 session, 2 messages, 2 events, faults, restarts and stops that fail, orphans removed at startup | a session that is gone is quiet and stays out; a row says running only with a task; messages and containers are resolved |
| `session_limit` | 2 sessions of 2 users, 1 place | the limits hold among sessions that never failed, whatever overlaps |
| `task_queue` | 3 agents, 3 tasks, 2 crashes | single assignment, agreement of table and agents, refinement of `TaskAllocation`, tasks are served |
| `memory_file` | 2 writers of 1 and 4 adds, 1 reader, 1 crash | one record per signature, serial adds are kept and found, adds end |
| `durable_runner` | 1 retry, 2 or 3 observations needed, with and without an iteration limit, 2 crashes or power losses, 1 record forgotten | checkpoints follow the loop, by a power loss from what was flushed, the verdict is right, evidence is remembered once, signals are obeyed |
| `worker_events` | log of 3, 1 retry, 2 messages, or 1 with 2 breaks, the event limit at any time | nothing is skipped, order holds until a replay, row and trace agree with the worker, events arrive, tasks end |
| `sampling_loop` | both drivers, 8 messages, 2 tool calls an answer, 2 images kept | requests answer their tool calls, breakpoints and images are where they belong, the page finds what it renders |
| `tools` | six commands, 4 calls, readers that pause over 2 pieces | output is the command's own, undo writes what the edit overwrote |
| `deleted_row`, `active_limit`, `memory_race`, `bash_paused` | small | violations, see Findings |

**Why these bounds are enough.** The orchestrator's sessions meet only in the limits and
in the cleanup pass, so one session covers all that concerns one; two sessions and one
place are the smallest contest. Two messages are needed for an event of the first to
meet the second; two events make the event limit reachable in the middle of a turn.
Three agents allow two to contend while a third dies. Two writers are the fewest that
race; the adds of the second suffice to take the temporary file from the first twice, so
that its `add` and the retry of it both fail. With 1 retry a loop that needs 2
observations passes and one that needs 3 escalates; 3 actions let it go on once; 2
crashes allow a crash in the recovery from a crash. A log of 3 is shorter than the
events of one message, so that it forgets; one retry lets the proxy go on and give up;
the second break may come while the first is still being recovered. With `MaxTrouble` at
4, two messages meet late events, replays that end and clients that come, but no break.
At 5 a break may fall between them; without the liveness properties that instance has
11.6 million states and holds too, but with them it is too large to be checked every
time. Eight messages hold four of the user, so that a breakpoint has to move, and four
images of which two are kept. Two tool calls let an interruption fall between them. A
command that writes more than `Limit` pauses a reader and fills the pipe. Three calls of
bash are one that times out, a restart and a command after it; one call of bash and two
of edit put a shell that writes the file next to an edit and its undo; four edits let
one be undone after another has failed, and a text be lost by an undo that fails before
the edit that comes next.

**Deadlock.** The runs of `WorkerEvents`, `SamplingLoop` and `Tools` have
`CHECK_DEADLOCK FALSE`: messages, conversations and calls are bounded, and at the
bound the system may stop.

**Fairness.** `SessionLifecycle` assumes that a coroutine that can go on does,
that the cleanup loop wakes while it lives, and that time passes: that is
asyncio and the clock. Nothing is assumed of workers, network or clients. A
readiness wait ends by its time limit. In the queue an agent that lives goes on,
and an agent with a result gets the write lock in the end, as the others sleep
between polls while SQLite keeps retrying. A process that lives goes on in
`FileBackedMemory`, and the kernel serves the waiters for a lock. A runner goes
on while it lives; nobody has to start one. In `WorkerEvents` the turns of the worker
end, as its tools have time limits, and the coroutines of stream, proxy and
message task run; messages, clients, and the breaking of connections are free.

## 4. Findings

Each is a run that violates what a document says.
- `deleted_row`: the creation handler or an event stream that outlives `DELETE`
  overwrites the status of a deleted row (`specs/session-lifecycle.md:35`).
- `active_limit`: a failed session gives up its place, is made active again by
  a late write, and the limit is exceeded (`README.md:817-820`).
- `memory_race`: the lock is on a file that is renamed over, so an add
  overwrites another (`docs/CODE_QUALITY_AUDIT.md:208`).
- `bash_paused`: a reader that paused over its limit is not resumed when the tool
  clears its buffer, so what later commands write to standard error is not seen
  (`tools/bash.py:97`).

What the passing properties say is weaker where the code is: the limits are stated for
sessions that never failed, and what an add returned is kept as long as adds do not
overlap. Those of `WorkerEvents` except messages that an event of another message
reached: events carry no message id, so a `done` read late completes the next message;
and events are lost at the event limit, by a write that raises, with the log's oldest
and to streams without a client. A container runs on after its session if `docker rm -f`
failed on it. Those of `SamplingLoop` leave out conversations in which a worker's tool
raised, which the API refuses from then on, and for the breakpoints those that changed
their provider or in which a message of the user followed another before any request.
`_inject_prompt_caching` takes one breakpoint off per request, since "we'll only every
have one extra turn per loop" (`loop.py:287`), but the page may be run again while it
renders a message (`streamlit.py:316`), after it has appended it and before the loop
starts. With the next message there are two extra turns, a fourth breakpoint stays, and
with that of the system prompt the API refuses every later request. Those of the tools
leave out shells in which a command printed the sentinel itself or left a process that
writes; and of undos, those of an edit from before an undo that failed, whose text is
lost (`tools/edit.py:253`), those of a create, which write the created text again, and
those of an edit under which others wrote the file. An undo never gives back tabs and
CRLF.

## 5. Proofs

TLC checks the instances above; the theorems hold for all values of the
constants that satisfy the assumptions.

`SessionLifecycle_proofs` assumes `LimitsAssumption` (limits are positive, as
`api/config.py` demands) and `SessionAssumption` (finitely many ids, for
cardinalities). `TypeOK` is inductive. The other properties are not: whether a
session that left `SESSIONS` can get a message or come back depends on where
its creation handler and its task are. `IInv` adds to `TypeOK`, for each session,
- `Quiet`: outside the registry there is no task and no running container but the
  `leaked` ones;
- `Unready`: until the creation handler has answered, the worker has emitted
  nothing, no status accepts a message and there is no task; a session not yet
  created is not registered;
- `Running`: the status says running only with a task whose completion has not
  been signalled, or after a failed cleanup;
- `Reasoned`: a terminal status has left its reason in `stop_reason`, which no
  later write clears, so a session that counts and never failed has counted
  since it was admitted.

`StopLeaks` says that a stop leaves running what it failed on, all of it leaked, and
nothing else. One lemma per group of actions shows that these are preserved. From `IInv`
and the step follow the state properties and the action property `LeftSessionStaysOut`.
The limits need one more invariant argument: the set of sessions that are active and
never failed grows only by `CreateStarts`, whose guard counts a superset of it.

`SharedTaskQueue_proofs` strengthens `TypeOK` with `LockInv` (an agent is inside a
transaction exactly if it holds the lock, and what it selected is still the first
pending task until it commits) and `RowInv` (a task an agent works on is claimed
by it, a completed row carries its agent's result, ids are handed out in order).
Single assignment
and the agreement of table and agents follow, and so does the refinement of
`TaskAllocation`: only `Enqueue`, `Commit` and `Complete` change the mapped state.

`FileBackedMemory_proofs` assumes finitely many writers and readers (an unused
inode has to exist: `UnusedInode` counts those in use) and that `torn` is no
signature. `IInv` says which inodes a process has open at each place, that a
writer has not read the signature it is about to add, and that every inode, not
only the one that the path names, has unique signatures: any of them may be renamed over
the path. For the properties of adds that do not overlap, `SerialInv` says of an
unraced state that one writer at most is inside `add`, that it works on the file
the path names and on the temporary file, and what each holds; a search that
has opened a file has one that contains what was promised and is not the temporary one.

`HarnessRunner_proofs` ties the counts of a loop state to its phase (`Counted`) and the
number of attempts to the retries (`Attempted`). `Ahead` relates the process to the
disk: between a step and its save the state in memory is one step ahead of the
checkpoint, or equal to it. With it a save is a step of `AgentLoop` on disk, which is
the refinement, and a start from a checkpoint that was not lost loses one step at most.
`DiskInv` says of the flushed checkpoint what `StateInv` says of the file, so that a
power loss brings back a state of the loop: one whose evidence, if nothing was
forgotten, is in the memory. `MemoryInv` says so of the process and of the checkpoint,
and that there is one record. `IterInv` bounds the iterations of one process.

`SamplingLoop_proofs` takes images as an arbitrary set (`Shape`) for what is said of
tool calls and breakpoints, which a filter must not disturb. `Linked` matches calls and
results for all but the last message, `OpenInv` says where the last may have calls
without results: while tools run, and afterwards only on a page that knows it has left
the loop. For the breakpoints a second invariant (`CacheInv`) relates them to the ranks
of the messages of the user at the time of the last request: the three most recent are
never without one after a request, and as long as each message had its request only the
last three have one, or the three before the one just appended (`OneBehind`). For the
images, `TotalStep` gives the images of the first *n* messages as a sum, and
`FilteredTotal` what a request leaves of them: it removes the oldest, as many as it was
to remove. `ChunksLeft` is the arithmetic of removing in whole chunks, and `ImageInv`
says that at any time, not only when a request is made, at least `Keep` images or all
there have been are left.

`WorkerEvents_proofs` assumes `EventsAssumption`: the log and a connection have room
for one event. Its invariant has two parts. `Delivery` is about events whoever they
are for:
- `Budget`: the turns that are left bound the ids;
- `IdInv`: ids grow along log, queue and replay, and `lastId` is one that was given;
- `LinkInv`: without a stream nothing is on the wire or being replayed;
- `MissingInv`: what is neither persisted nor excused (dropped at the limit or by a
  failed write included) is in the log, beyond `lastId`;
  while connected it is on the wire, in the queue or in what the replay has left,
  and nothing with a larger id comes before it on the wire. That last part is what
  keeps `lastId` from passing it, so that the next replay includes it;
- `OrderInv`: before any replay, persisted, cut, sent and queued events follow each
  other in the order of their ids.

`Messages` is about what the events say of a turn: `TurnInv` relates the worker's status
to the message the orchestrator waits for, `KnownInv` and `OneDone` say that an event of
a turn that ended is known only once the turn has ended so, and `OutcomeInv` and
`JudgeInv` that the row and the trace follow from such events alone, whether an event is
stored whole, half or not at all (`StoredStep`, `PersistStep`; `Handled` is what all
these have in common). A later message makes the events of the earlier ones strays,
hence the conditions on `strayed`, `repeated` and `lapsed`.

`Tools_proofs` shows that `history` and `edits` end alike (`HistoryInv`): as far down as
`fresh` goes, each text of the history is what the edit at the same distance from the
end overwrote, as it was read, unless `Saved` excepts the edit. A failed undo shortens
one of the two only, and leaves nothing to say. `EditingInv` is where the read and the
write of an edit meet. For the bash tool it puts together the lemmas of
`BashSession_proofs`, where `BashInv` says of pipe and buffer together (`Stream`):
between two calls of a session that has not timed out they are empty and the shell has
nothing to do (`Idle`); while a call waits, either the shell has not read the command
(`Unread`) or all that is on its way is the command's, and with what the shell has yet
to write makes up all its output (`AtIt`). `RoomInv` bounds pipes and buffers, `CallInv`
keeps calls of the two tools apart.

**Model-checked only.** All liveness, as the prover does not reach fairness and
`ENABLED`: `MessageResolved`, `ContainerReclaimed`, `TaskServed`, `AddEnds`,
`StopIsObeyed`, `VerdictIsSaved`, `EventsArrive` and `TurnEnds`. Every invariant
and every other action property of a passing run is a theorem. The prover has no
induction over an operator and knows nothing of a fold or a filtered sequence, so
the models count with cardinalities and cut sequences by index, and what is proved
by induction is proved with a smallest counterexample (`UpTo`). No module declares
a recursive operator.

## 6. Not modelled

- Retention and listing in the session database, artifacts, admin reads, metrics
  and tokens: they change no state that the session's steps read.
- A retry of `docker rm -f` by hand, and containers that a failing `docker ps` hides
  from the startup: both are as if the stop had failed or come later.
- A change of the number of images to keep in the middle of a conversation.
- Kill switches and the configuration parser: fixed while the process runs.
- The ranking of `search` and the Mem0 backend; git worktrees of the agent worker.
- `view` and the wording of tool results; the group of GUI actions (computer tool),
  which keeps no state of its own.
- That output to standard error which arrives after the sentinel is reported by the
  next command: `BashSession` has the behaviour, and `OutputIsOwn` speaks of
  standard output only, as the code promises no more.
- Contracts, budgets and tool grants: pure checks that only tests and evals call.
- The echo worker, migrations, image, demos, evals and third-party tooling.
