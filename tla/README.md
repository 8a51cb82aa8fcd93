# Formal models of ClassRobot

TLA+ specifications of ClassRobot, the TLC runs that check them on small
instances, and theorems about them that the TLA+ proof system checks for every
value of the constants. `PROJECT.json` lists components, runs, mutants, hazards
and theorems, and maps each definition to the lines it models. Paths below are
relative to `src/` of the Python package unless they start with `docs/`.

## 1. Inventory

ClassRobot is a chat bot for school classes on NoneBot. A platform event becomes
a command (matched by a plugin) or, when the bot is addressed in plain language,
a turn of the AutoGPT agent, which plans a workflow of commands and MCP tools and
executes it. Data is kept in a relational database, in files, in per-owner
SQLite stores and in a cache. A management interface (FastAPI) reads and edits
all of it. Everything runs in one process on one event loop: coroutines
interleave at `await` and nowhere else.

| Component | State | Operations | Hard behaviour | What makes it correct |
|---|---|---|---|---|
| Workflow loop (`core/agent/runtime/loop.py`, `workflow.py`) | the workflow and its steps, pending steps, budget, facts | `execute`: decide, call, observe; stop, ask, fail; confirm and cancel by the user | a model that answers anything, retries put between planned steps, exceptions of handlers, time limit between awaits | calls within budget, plan order, completion means all done, a failure stops, no high-risk call without approval, the loop returns |
| Chat session and AutoGPT entry (`runtime/util.py`, `runtime/persistence`, `plugins/application/active/autogpt`) | session registry, lock, `pending_workflow`, `last_trace_id`; rows of checkpoint and runs | message, confirm, cancel, clear, expiry of a session | messages that overlap, a lock free during the execution, failing saves, crash and restart | one turn inside `send_message`, each question executed at most once, cancelled never runs, questions survive a restart, clear forgets |
| Live trace (`runtime/live_trace.py`, `interfaces/http/managers/api/agents.py`) | records, event buffers, finish times, subscribers and their queues | start, emit, finish, prune, subscribe, snapshot | events of many turns interleave, queues drop, records are pruned while they are watched | bounds, agreement of the maps, fair eviction, no lost update |
| Turn pipeline (`runtime/pipeline.py`, `coordination/nodes.py`, `orchestration_config.py`, `langgraph_runtime.py`) | state of a turn, graph of nodes, its file and the snapshot in use | run each node; validate, save, reload the graph | a graph edited by hand or while turns run, conditions on edges, models that fail or answer anything | every turn ends, guards bind, one question and one answer per turn |
| Agent host, roles, context (`runtime/host`, `roles`, `context`) | none beyond the turn | wrap input and output | - | - |
| Knowledge retrieval (`runtime/knowledge.py`, `core/storage/local_rag.py`) | an index of pieces and their words per owner | refresh from files and chat, delete, search, fall back to reading | refreshes overlap, fail and die in many small transactions; files come and go | pieces and words agree, an undisturbed refresh heals, a miss is true |
| Commands (`platform/commands`, `platform/helper`, `runtime/execution`, `command_tools.py`, `interfaces/http/managers/runtime/command_state.py`) | switches of commands and plugins and their file, roles and helpers kept in the session | turn a switch, save and load, guard, execute, plan, dispatch | several checks of one command at different times, a file in another order than memory, restarts | a restart changes no decision, nothing runs for whom it may not |
| Built-in agents, LLM gateway (`core/agent`, `core/llm`) | none | call a model | external | - |
| MCP client (`core/mcp`) | configuration | list and call tools | SDK transport, then JSON-RPC fallback | a tool is not run twice |
| Cache (`core/cache`) | Redis, a local SQLite file, the active backend, the lock of its choice | set, get, delete, ping, get_and_delete; probe, switch, fail over | first calls probe Redis at once; Redis goes away before or after carrying a call out; calls in flight when the backend changes | what was stored is found until it expires or the backend changes, fallback spares callers the outage, the choice comes to rest, every call ends |
| Accounts (`models/models.py`, `platform/session`, `plugins/application/active/user`) | users, bindings, tokens | create, bind, unbind, log out, delete | commands in steps with answers in between, token race, an orphan removed while it is bound again | no binding without token or first message, no account removed but by its owner or when it was deserted |
| Groups, classes, students, teachers (`models/models.py` and plugins) | groups and their channels, classes, members, roles, requests | create, import, join, apply, review, appoint, dismiss, leave, delete; a channel's first message | several transactions per command, authority read before the answer, a group deleted while a class is founded in it | nobody gets into a class or an office unentitled, classes and channels are kept |
| Tasks and files | tasks, commits, stored files | submit, replace, delete | rows cannot be created (section 7) | - |
| Leave requests | requests, approvals | apply, approve, reject | never begins (section 7) | - |
| Todo, notice, curriculum | records, schedule jobs | create, edit, run | jobs against edits | - |
| File manager (`core/storage/files.py`, `plugins/.../file_manager`, `interfaces/http/managers/storage/files.py`) | a directory tree per owner, a current directory per user | cd, ls, find, mkdir, touch, rm, upload; the pages of the administrator | rights read with awaits before the disk is used, mounts, several sessions, deleted owners | writes only with a right to, nothing overwritten, what is shown can be reached, deleted spaces stay empty |
| Chat history (`core/storage/chat_history.py`, `plugins/library/message_history`) | a SQLite store per owner, daily files of users | collect, record commands and replies, migrate, view, search, delete | redelivery, two hooks, a crash between row and file, the old table | the mirror agrees with the rows, a group's view is the conversation, a search finds |
| Management interface (`interfaces/http`) | sessions and settings | REST over the above | - | - |
| Authentication (`core/auth`) | tables | look up | - | - |
| Bot accounts (`platform/bots`, `plugins/application/active/bot_access`) | a row per bot: owner, token, status | log in by QR code, restore at start-up | a restore while an owner logs in or is deleted | every enabled bot is tried |
| Rendering, messaging, OCR, small plugins | none | - | - | - |
| Vendored aioredis (`shared/packages/aioredis`) | third-party | - | - | - |

How the first three interact: the entry point calls `ChatSession.send_message`,
which locks the session, resolves a pending workflow or runs the pipeline, and
unlocks. The entry point then sends the first reply and calls
`execute_task_workflow`, which runs the loop without the lock and records the
result in the session, in the checkpoint and in the run history. All of them
emit into the live trace registry; the websocket handler of the management
interface watches it.

Around them: the turn a session runs is a walk through the graph of
`TurnPipeline`, whose plan becomes the workflow of `AgentLoop`; its retrieval node
reads what `LocalRag` finds in the files of `FileSpace` and the rows of
`ChatHistory`; who may write which space follows from the roles `Campus` hands
out. The modules meet in data of the same shape and are checked one by one: the
product of two of them is beyond TLC at any useful bound.

## 2. Plan

Done in this order, most important behaviour first:

1. `AgentLoop` - the execution of a workflow, with theorems in
   `AgentLoop_proofs`.
2. `ChatSession` - turns, lock, checkpoint and restart, with theorems in
   `ChatSession_proofs`.
3. `LiveTrace` - the registry and its watcher, with theorems in `LiveTrace_proofs`.
4. `Cache` - choice of the backend and failover, shown to implement the
   abstract `KVStore`; theorems in `Cache_proofs`.
5. `FileSpace` - spaces, mounts, rights, paths and deletion, with theorems in
   `FileSpace_proofs`.
6. `ChatHistory` - recording, mirror and views of the chat, with theorems in
   `ChatHistory_proofs`.
7. `LocalRag` - the index and the retrieval, with theorems in the last part of
   `ChatHistory_proofs`, whose views it indexes.
8. `TurnPipeline` - the nodes of a turn and the graph they are run in, with theorems in
   `TurnPipeline_proofs`.
9. `Campus` - accounts, bindings, groups, channels, classes and their members, with
   theorems in `Campus_proofs`.
10. `CommandAccess` - switches, guards and dispatch of commands, with theorems in the
    second part of `TurnPipeline_proofs`, whose turns plan the commands.

Every safety property a run checks is also a theorem; what is left to TLC is liveness
(section 6). Worth modelling next: the rest of the management interface, and the choice
and cool-down of language models.

## 3. Modules

### AgentLoop

One execution of `CognitiveAgentLoop.execute`, again after each confirmation.

| Specification | Code |
|---|---|
| `steps`, `status`, `need` | `workflow.steps`, `.status`, `.need_confirm` |
| `pending` | `pending_steps`, as indexes into `steps` (the code keeps references) |
| `used`, `repeats`, `verifies`, `overtime` | `LoopBudget` |
| `fact` | the last `ObservationFact`, by the distinctions `should_ask_model_for_followup` makes |
| `pc` | `idle` before `execute`, `deciding` at the head of the loop, `calling` while a tool is awaited, `returned`, `raised` |
| `sent`, `planned`, `resumes` | history variables |

A decision is the head of the pending steps, or what the model may return: any
action whose capability passes `normalize_model_decision`, a stop, a finish.
Each branch of the loop is an action: `Finish`, `StopOnDecision`, `AskUser`,
`BudgetStop`, `InvalidDecision`, `ConfirmStep`, `UnsupportedStep`, `CallTool`;
the code after the await is `ToolSucceeds`, `SearchMisses` (the retry with a
rewritten query), `ToolFails`, `ToolRaises`. `Confirm` is
`clone_workflow_for_execution`, which sets every step back to pending. The
initial states are the workflows `WorkflowBuilder` hands over, those that
wait for an answer included. Reply texts, events and metrics are left out.

### ChatSession

The turns of one user. A turn is a coroutine; an action is the code between two
awaits. `turn[t].pc` is the place of the await; `turn[t].ses` the session object
the turn was given, which may be dropped from the registry (`live`) under it.
`get_chat_session` awaits the rendering of a template that does not suspend, so
fetching or creating a session is one action.

| Specification | Code |
|---|---|
| `live` | `chat_session_manager.sessions[user_id]` |
| `session[s].lock`, `.pending`, `.lastTrace` | `lock`, `pending_workflow`, `last_trace_id` |
| `checkpoint`, `runs` | rows of `AgentWorkflowCheckpoint` and `AgentWorkflowRun` |
| `savingAnswer`, `savingCancel` | the saves of `resolve_pending_workflow_action` |
| `savingAsked` | `record_workflow` called by the entry point |
| `savingResult` | `record_workflow` after an execution |
| `ran` | history: executions of the workflow asked about in a turn |
| `clean` | history: no database operation failed, no two saves overlapped, no session was cleared under another turn |

The two saves of `record_workflow` (checkpoint, run) are one action with a
failing variant each. The execution is abstracted to the results AgentLoop shows
possible; `ExecutionRaises` is AgentLoop's `ToolRaises`.

### LiveTrace

`order` holds the keys of `_records`, in the order of the `OrderedDict`;
`buffer` the sequence numbers of the events; `finished` and `overdue` stand for
`_finished_monotonic` and the retention time. `Keeping` is what pruning leaves of the
records, in their order. A subscriber's queue is its
length, because the handler answers every notification with a fresh snapshot.
`LookUpHistory` and `SendListed` split the snapshot where the history is read
from the database. The whole registry runs under a lock without awaits, so each
of its methods is one action. `clear` has no caller in the package (tests
call it); the model includes it. `reload_config` has none either and is left out.

### Cache and KVStore

`CacheClient` over Redis and `LocalCache`. A client is a coroutine with at most
one call under way.

| Specification | Code |
|---|---|
| `plugin_config` | `CacheConfig`: `cache_backend`, `cache_fallback_enabled` |
| `active`, `initialized` | `active_backend_kind`, `LocalCache._initialized` |
| `queue` | `backend_lock`: its holder across the creation of the table, then the waiters in order |
| `store` | the contents of Redis and of the SQLite file |
| `call[c].pc` | the await: `probing`, `probed` (answered, not yet resumed), `waiting` for the lock, `initialising` the table, `sent` to `target` |
| `call[c].second` | `get_and_delete` is at its delete |

`Call`, `ProbeReturns`, `LockAcquired`, `Initialized`, `Answered` and
`RedisFails` are what a coroutine does between two awaits; `ProbeAnswers`,
`RedisRejects`, `CarryOut` and `Expire` are what Redis, the SQLite thread and
time do. Redis may fail any call, before or after carrying it out. `Restart`
loses everything but the two stores.

`KVStore` is what callers are promised, without probes, lock, attempts or a
second store: one store in use, each call taking effect at one moment between
its start and its answer (`get_and_delete` at two), entries vanishing only if
they had a time to live. When the store is exchanged, the calls caught by it
are `stray` until they are answered or sent again; only these may have their
last effect repeated or read what is not in use. `Cache` names the mapping:
`InUse`, `Requests`, `Stray`.

### FileSpace

One directory tree per owner (user, group, class, college, school) and the
virtual workspace in which the file commands of a user see several of them.

| Specification | Code |
|---|---|
| `tree[o]` | the directory of `FileSpace(o)`: paths to contents |
| `cwd[u]` | `file_manager_cwd.json` of the user, shared by all sessions |
| `rows`, `doomed` | owners in the database; those deleted whose clean-up is still to come |
| `facts` | who is administrator, creator, teacher, student, ... |
| `job[s]` | the command of a session: `Receive`, `ReadUser`, `ReadMounts`, `Execute` |
| `job[s].born`, `.seen` | history: the owners and facts since the command came |

`Execute` does a whole command on disk (cd, ls, find, mkdir, touch, rm, upload),
as no await lies within it. `Resolve`, `Shown` and `Writable` are path
resolution, display and `_ensure_writable`; `Walk` goes over the segments of a path, `RemoveAll`
over the paths of an `rm`, `AllSaved` over the attachments of an upload, each as a
recursive function. `FileSpaceAssumption` says what the owners, trees and commands
given may be: paths are finite, each space is there whole or not at all. `AdminRequest` is a page of the
management interface. Left out: `cat`, `tree`, hidden files.

What a user types is parsed twice: within the virtual workspace, then, what is left of it,
within the space (`Physical`). The second parse takes white space from both ends
and a `~` from the front, so a name may be read as another: `Leading` says which as the first
of a path, `Trailing` as the last; `Typed` is what becomes of a shown path that is typed back. Names
that would change twice, into nothing or into `..` are left out. `ReadMounts` is one read,
where the code has a query per kind of mount: whether one mount is there and may be
written to hangs on one fact, so a change between two queries is, for each mount, a
change before or after all of them, and no property relates two mounts.

### ChatHistory

| Specification | Code |
|---|---|
| `rows[o]`, `legacy[g]` | table `messages` of an owner, table `group_messages` of older versions |
| `daily[u]` | lines of the daily files of a user |
| `jobs` | recordings in flight: `Insert` commits the row, `AppendDaily` writes the line |

`Collect`, `RecordCommand` and `RecordReply` are the hooks; `EventKey` the
deduplication; `LoadGroupHistory`, `SearchGroup`, `SearchUser` the views, with
the migration every connection makes (`Opened`): `Migrated` copies the old rows one after
the other, `InTime` is the order of the statement, `Keeping` what a filter leaves. An
administrator may delete a space; a crash ends every recording in flight. `AppendFails` is an
error on writing the line, which comes after the row is committed.
`said` is what was recorded, message by message with its channel (`Heard`), and does not know
keys; `Alike` are those the key takes for one. `interrupted` are the rows that a crash or an
error kept from their line. `Migrated` copies the old rows with the keys they have;
`LegacyAssumption` says that these are unique and none that `EventKey` makes now.

### LocalRag

| Specification | Code |
|---|---|
| `database` | whether the file `local_rag.db` of an owner exists |
| `chunks`, `terms` | its tables `rag_chunks` and `rag_terms`, empty without it |
| `turn[t]` | one retrieval: listing, the loop over the files or messages, search, fallback |
| `files`, `told`, `dropped` | files of the space; messages recorded and deleted |

The refresh is as many actions as it has transactions, because several turns of a
group refresh the same index. `quiet` and `steady` are history: nothing else touched
the index, and what was there unchanged all along. `left` holds the places of the listing that
are still to come. A text is a sequence of words, its size their number; `Split` is
`split_text_into_chunks`. The limits are constants: `MaxTerms` and the stop words (those not in
`Lexicon`) for the terms of a piece, `IndexSize` and `ScanSize` (512 and 128 KB) and
`TextFiles` for what is read, `RefreshLimit` and `SearchWindow` for the messages that are
indexed and that the direct search looks at.

### TurnPipeline

| Specification | Code |
|---|---|
| `file`, `snapshot` | the configuration file with its modification time, and the store's snapshot |
| `turn` | `PipelineState`, the graph the turn keeps, the node it is at, the nodes it `ran` |
| `history` | what the turn added to the session's messages |

Each node is an action; `NextNode` is the choice of the edge in the order of the file,
`Matches` a condition. `Save`, `Edit` and `Load` are the validated draft, the
hand edit and the reload. `TopologicalOrder` sorts a graph as the validation does: the
next node is the first, in the order of the types, that no remaining node has an edge to
(`SortNext`). A node has an id and a type (`TypeOf`): `Save` refuses two nodes of a type,
`Load` of a file edited by hand takes them and judges the order of the guards by the last.
`DraftsAssumption` says that a draft names known types only, which is checked
before it gets here. Models answer any member of `Routes`, `Plans`, `TaskNames`, an
answer that cannot be parsed, or an error.

### Campus

A command is a job that goes through the steps of its handler; between two steps
other commands take theirs.

| Specification | Code |
|---|---|
| `db.users`, `.binds` | `User`, `UserBind`, several rows per person being possible |
| `db.tokens` | the binding tokens in the cache |
| `db.teachers`, `.offices` | `Teacher`, `TeacherClasses` with the role |
| `db.students`, `.classes`, `.requests` | `Student`, `Classes` with its way of joining, `ClassesJoinRequest` |
| `db.groups`, `.home`, `.rows` | `Group` with its creator, the group of a class, `GroupBind` |
| `job.seen` | the user as `get_user_depends` loaded it and the matcher's state keeps it |
| `job.could` | history: what the caller was entitled to, and what was free, since the command was given |

`Load` to `DeleteOrphan` are `get_user_or_create_depends` and `bind_user`, `SelectRow`
to `DropGroup` are `bind_group`, with which a channel's first message (`Listen`), the
founding of a class and the moving of a channel end; the rest is one action per read and
per write of a command. Whether `bind_group` sees a class that came after its first look
at the old group depends on the database session; `LookBack` allows both. `Keyed` is
what unique and foreign keys promise of the tables a run begins with. What a handler checks about
schools, colleges and limits is left out: a command may stop anywhere. Should the
update of a binding be refused by the database layer (it names the relationship,
not the column), a command stops there, which is among these behaviours.

### CommandAccess

One user's messages and agent, and the administrator who turns switches.

| Specification | Code |
|---|---|
| `commands`, `plugins` | `CommandAvailabilityService._commands` and `._plugins`, with the places of the keys in the dictionary |
| `disk` | `manager_command_availability.json`, which may be torn |
| `roles`, `inbox` | the roles in the database; messages being handled, with the roles they were loaded with |
| `sessions` | roles and helpers of the chat session, and of one dropped while its workflow runs on |
| `offered` | commands in plans, which a checkpoint keeps across restarts |
| `ran` | history: the handler the last step began |
| `kept`, `fits`, `open` | history: the last save went through; whom and when a command was for |

A command is checked where the code does: `Guard` before the handlers of a matcher,
`Handle` (which asks the policy again for commands the executor serves), `Shown` and
`Catalog` when the agent plans, `Dispatch` when a step is executed. `Switch` saves
what every key resolves to (`Saved`), `Restart` loads it in sorted order.
A file that cannot be read counts as none: everything is enabled. (A file cut
within a character is not caught by the code and keeps it from starting; the model
has the torn file only.) Commands without a helper (`helper_visible=False`)
have no guard, and `EntitledRuns` claims nothing for them.

## 4. Runs

| Run | Instance | Question |
|---|---|---|
| `loop` | three capabilities (write, high-risk delete, search), three plans, budget 3 calls / 2 repeats / 1 check, one confirmation | all safety properties of the loop, and that it returns |
| `loop_approval` | same | *violation*: an approved high-risk step is put up for approval again |
| `session` | 3 overlapping turns, 1 crash | lock, one execution per question, cancelled never runs |
| `session_waits` | 3 turns one after another, 1 crash, 1 failing operation | the stored question, clear, the lock is given back |
| `live_trace` | 3 traces, room for 2, buffers of 2, a queue of 2, 4 events | bounds, eviction order, no lost update |
| `files` | 2 users in 3 sessions, a class with group and college, 3 names that are read as others, 2 commands, 1 change by others | rights, uploads, listings, deleted spaces |
| `history` | a user and a group, 7 messages, an answer, 3 recordings, 1 crash | mirror, view of a group, search |
| `rag` | 2 files of which 1 is indexed, 2 messages, 2 turns, every limit exceeded, 3 retrievals, 2 changes, 1 crash | the index is sound, heals, and a miss is true |
| `turn` | the default graph, with an edge removed or added, and graphs drawn by hand, two with a type twice; 1 edit | every turn ends, guards bind, one question and one answer |
| `campus` | 2 persons, 4 accounts, 2 classes, 1 channel, 7 databases, 2 commands | nobody gets in unentitled, accounts and classes are kept |
| `access` | 2 commands with 3 names, 3 modules, 3 sets of roles, 2 messages at a time, 4 inputs | a restart changes no decision, nothing runs for whom it may not |
| `cache` | 2 clients, 1 key, 2 entries (one with a time to live), 1 restart, every configuration | implements `KVStore`, fallback answers, the choice settles, calls end |

**Bounds.** The loop: a plan of two steps, a retry and a follow-up already put
three steps in play, and a budget of three calls is hit on each of its limits by
some behaviour (the mutant of `OverBudget`, off by one, is found). A second
execution is enough, as every execution starts with a fresh budget. The session:
three turns are the question, its answer, and one that interferes; what fewer
turns cannot show is two copies of one question being answered (memory and
checkpoint), which needs exactly three. A fourth shows what a clear under another
turn does (section 5); the theorems cover any number. The trace registry: one trace more
than there is room for, one event more than a buffer holds, one notification more
than the queue holds. The cache: two clients already probe at once, queue
for the lock, and fail over under each other; calls of different keys do not
interact, and the theorems cover any number of clients, keys and entries.
Files: two commands suffice for every pair of steps of two sessions, with one
change by an administrator, a deletion or a role between any two of them. Chat:
three recordings are a message, its redelivery and one more. Retrieval: two turns
refresh one index at once, a third finds what they left; one file more than is
indexed, one too long for the direct search and one for the index, one message beyond
the window. Turns: one turn and one edit, since a turn keeps its graph and its
session is locked meanwhile. Campus: two commands interleave in every way, and what
earlier ones may have left is in the seven databases. There the
channel may lead nowhere, to a class, or to a group without one. Commands: four inputs are, for
example, a message, a plan from it, a change of roles and a restart; three modules are a
package and two plugins, the least for which two switches cover one plugin and not the
other; the theorems cover the rest. Deadlock is not checked: users may stop sending messages,
the bounds may be used up, and that is no error.

**Fairness.** `AgentLoop`: weak fairness of the loop's own steps and of a tool's
answer. The event loop runs a ready coroutine; MCP calls have a timeout
(`AgentLoop` needs it for `LoopReturns`); command handlers are assumed to
return or raise. The user owes nothing, and time need not pass: the loop returns
by its counters alone. `ChatSession`: weak fairness of each turn's next step
(`Continue`): what it awaits answers or fails. Messages and crashes are not fair.
`LiveTrace`: weak fairness of the websocket handler only.
`TurnPipeline`: weak fairness of the turn's own node; nobody has to edit the graph.
`FileSpace`, `ChatHistory`, `LocalRag`, `Campus` and `CommandAccess` state safety only, without fairness.
`Cache`: weak fairness of each client's next step, whichever it is: Redis
answers or the connection times out, SQLite's thread ends, a ready coroutine is
resumed. Neither that Redis ever answers nor that it stays up is assumed, and no
caller has to call again.

**What "clean" means.** Properties of `ChatSession` about questions are claimed as long
as no database operation failed, no two saves of the user overlapped and the user did not
clear the conversation while another turn was under way. The store
swallows errors by design (`docs/architecture/agent-workflow-orchestration.md`,
"检查点表不存在或数据库异常时，只记录 warning"), so memory and checkpoint may
then disagree; and overlapping saves have no order. Without the premise TLC
finds a second execution in each case (the last with four turns); those sequences are
listed as hazards.

## 5. What was found

One violation is checked as a run: a **high-risk step is never executed by the
agent** (`loop_approval`). The resumed execution asks again, whatever the step's approval
says (`loop.py:794`). TLC's trace is plan, ask, confirm, ask. Safety is not affected
(`HighRiskApproved` holds, and is proved); the promise that a confirmation resumes
the workflow is.

Seen while modelling, contained in the models, and listed under `hazards`:

* An exception of a command handler is not written back: workflow and step stay
  `running` in the session, nothing is stored (`loop.py:891`).
* A question can be executed twice when the conversation is cleared while another turn is
  under way (`util.py:807`): that turn keeps the dropped session, a later one has a new session,
  and one takes the question from memory, the other from the checkpoint. It takes four
  turns, one more than the run has; the attempt to prove `OneExecutionPerQuestion` showed it.
* Trace ids mix when a second message arrives during an execution, since the
  dispatcher reads `last_trace_id` when it is called (`autogpt/__init__.py:86`).
* The end of an execution clears a question asked meanwhile by another turn
  (`util.py:684`): a confirmation then finds nothing to resume.
* The local cache is not kept: two first calls probe Redis; the probe of one
  fails and it goes to the local file, that of the other then succeeds and takes
  the process back to Redis (`cache/__init__.py:174`), whereas
  `core/cache/README.md:83` promises that a process on the local cache stays there.
* `~` is documented as writable, but no upload to it is taken: `_ensure_writable` wants a
  target within a space (`virtual.py:568`, against `virtual.py:115`).
* A class can lose its channel to another class. `bind_group` refuses to move a channel that
  leads to a class's group (`models.py:789`), but it looks at the row it read; the update that
  follows names the row by its id alone (`models.py:792`). Two commands read the row while it
  leads to a free group; the first moves it to the group of its class, the second moves it on.
  The attempt to prove that a channel is only ever taken from a free group showed this; what
  is left of it, that the move was *decided* while the channel was free, is proved.
* Managing a class is open to every teacher of it: the import of students
  (`classes/__init__.py:193`), the answer to a request to join (`:414`), the deletion (`:359`) and
  the way of joining (`:665`) ask only whether the class is among the caller's.
  `docs/reference/command-reference.md:29-31`, `docs/reference/role-reference.md:293` and
  `plugins/application/active/classes/README.md:40-52` leave this to homeroom teachers and
  counselors. `NobodySlipsIn` and `ClassesStay` state what the code grants, a teacher of the class.
* A class may be left without a manager: by two dismissals at once, by a change of
  role, by the deletion of the teacher's profile (`classes/__init__.py:495`).
* A class can be lost when a channel moves: `bind_group` deletes the old group two
  transactions after it found it free, and with it a class that was founded there in
  between (`models.py:806`). Two first messages of a channel at once make two groups.
* Deleting the account that created a class deletes the class, also after it was
  handed over (`models.py:640`), although logout asks to hand it over first.
* A required guard can be bypassed: the validation of a draft looks at one topological
  order of the graph (`orchestration_config.py:573`), so an accepted edge may skip the policy
  or the check of the tasks; `docs/managers/agent-orchestration-config-roadmap.md:190`
  says that it cannot.
* A file edited by hand may have two nodes of a type. Only a draft is refused for that
  (`orchestration_config.py:392`, against the reload at `:347`), and the order of the guards is
  judged by the last of them (`:574`): a second `plan_tasks` before the check of the tasks may
  come after the policy and plan what it refused. `GuardsBind` claims nothing for such graphs.
* What a listing shows may lead elsewhere. The rest of a path in a mounted space is parsed again
  (`virtual.py:440`), and there `~x` at its front is `x`: a file `~x` shown in `~/班级/5`
  resolves to `x`, and `rm` of the one removes the other. White space at the ends goes the same way.
  `ShownResolves` says which paths are meant, and that even these stay in their space.
* A message is written down twice or not at all, depending on its key. With neither id nor time
  it gets the clock's, so when it is delivered again, or recorded by both hooks, a moment later,
  it has two rows and two lines, against `docs/guides/message-history-storage.md:120`
  ("同一条消息重复上报不会重复追加到 JSONL"). And the key has neither platform nor channel, though
  it is to be a message's own (`chat_history.py:1225`, "构造一条消息的稳定唯一键"): of two messages with one id in two channels of a group, only the first is kept.
* An error on writing the daily file comes after the commit (`chat_history.py:590`): the row
  stays without a line, as after a crash, and a redelivery does not write it.
* A text of 128 to 512 KB and a message beyond the window of the direct search are found through
  the index only (`knowledge.py:613`, `:391`). When the index fails, a miss says nothing about them.
* Of the switches that cover a plugin the one set inserted last decides, not the best
  match its docstring speaks of (`availability.py:93`). A restart changes no decision, but it
  puts the keys in another order, so the next switch may act differently after it.
* A command without a helper gets no guard: turning it off does not stop users from
  calling it, whereas `platform/commands/README.md:195` says all entries refuse alike.
* `patch_bot_instance` looks for a flag that the class already carries, so a `send` set on
  an instance is never recorded (`outbound.py:98`).

## 6. Proofs

The proof modules assume what the component modules state as `ASSUME` (limits
are positive, plans are not empty, capabilities are what the catalogues name,
`None` is no value) and that the sets are arbitrary: any plan, any number of
turns, crashes and failures, of clients, keys and entries.

* `AgentLoop_proofs!TypeCorrect`: `TypeOK` is not inductive. `ToolSucceeds`
  writes `steps[cur.step]`, so `TypeInv` adds `CallInv`: while a tool is awaited,
  `cur` is a call of an existing step. `TypeSafe` is its consequence.
* `FailureStopsAlways`: a step becomes failed only in the two actions that also
  set the status and return; `StartLoop` is only reached from a workflow without
  failed step.
* `BudgetKept`: the property counts calls in the history `sent`, the code counts in
  three variables. `BudgetInv` ties them: `used = Len(sent)`, and for each key the
  cardinality of its positions in `sent` is at most the counter, which is at most the limit.
  The counting lemmas rest on `FiniteSetTheorems`.
* `HighRiskGuarded`: the inductive fact is stronger than the property: the
  step of the call under way is not of high risk at all (`NeverHigh`), which is
  also why the confirmation cannot be honoured (section 5).
* `ChatSession_proofs!TypeCorrect`: `TypeInv` adds which turns hold a session
  and which hold a workflow.
* `SessionLockHeld`: `SessionLock` is inductive relative to `TypeInv`; three
  lemmas treat actions that take the lock, give it back, and leave it.
* `AskedCanBeAnswered`: `AskedIsResumable` speaks of executions that returned; `AskInv`
  adds that a loop under way has status `running` and no question set.
* `CompletedIsDone`: inductive (`WorkInv`) is that while the loop is active every step is
  completed, pending, or the one being called (`Accounted`). The lemmas say what putting
  in a retry, popping a step and putting one back leave of the pending steps.
* `PlanIsFollowed`: inductive (`OrderInv`) is that the planned steps among the pending
  ones stand in order, and come after every planned step that was called.
* `QuestionsRunOnce`, `CancelledStaysCancelled`: a question is `Held` while a copy of it can be
  answered, in memory, in the checkpoint or in a turn, and `Answered` once a turn took it. `Once`
  says that it is never both. This needs that turns under way share the registered
  session (`OneLive`), which is where `clean` comes in.
* `QuestionsSurvive`, `ClearingForgets`: for a user who waits one turn at most is under
  way; whenever it is not at a save or a clear, memory and checkpoint agree, and at a save
  memory agrees with what is being saved (`Together`).
* `LiveTrace_proofs!RegistryStaysBounded`, `SilentGoFirst`: one invariant (`RegInv`) for both:
  the records stand in the order of their last events, so none twice; no event has a
  number above the last one given out; a trace that starts is new.
* `NothingIsMissed`: `ViewInv` adds that between detail and list, with an empty queue, the
  selected trace is not in the registry: had it started meanwhile, its first event would be
  in the queue.
* `Campus_proofs!CommandsAreSound`: the tables stay `Keyed`, and of each command is known
  (`JobOK`) that what it goes on is in its history: a teacher in office, a class
  vacant, a way of joining open, a request made, a token issued, an account deserted, a
  group free. Histories only grow, so no step of another command takes any of that back.
  `Fair` is what a step does to the database as the properties judge it; there is
  one lemma per action. `NobodySlipsIn`, `AccountsStay` and `ClassesStay` follow from both. The
  databases a run begins with may be any that are `Keyed`.
* `Cache_proofs!TypeCorrect`: `TypeInv` adds to the types what a call may look
  like at each await (`Shape`: it has a target exactly when it was sent to one)
  and what choices a configuration allows (`Fits`). `TypeSafe` adds
  `LockQueue`, inductive relative to `TypeInv`, over the moves of a FIFO queue:
  append, and behead.
* `FallbackAlwaysAnswers`: the property looks at calls that raised; inductive is
  that with fallback an answered probe always leaves a backend to go to
  (`Probed` in `FallbackInv`).
* `Cache_proofs!Implements`: `Spec => KV!Spec`. Every lemma named `...Seen`
  says what callers see of one action. Where a backend is chosen
  (`MovesSeen`) there are three cases: nothing changes for callers, a stray call
  rejoins the store in use, or the store is exchanged. `TypeInv` is what the
  mapping needs, for instance that an answered call is at a backend.
* `TurnPipeline_proofs!GuardsBindHolds`: inductive (`IInv`, `InvariantHolds`) is that the
  graph of a turn is `Runnable`: its nodes can be given places such that every edge leads to a
  later one and, if it has one node of each type (`UniqueTypes`), the required nodes stand in
  their order. That an accepted graph has such places is the one fact about validation used (`AcceptedRunnable`): a place is the position
  in the order the sort arrives at, and each step of the sort keeps what was sorted
  `Sorted`. With unique types a turn is `OnPath`: what it visited has earlier places, so no node
  is visited twice, and none comes after a guard that could undo it. `Guarded` is what the
  guards leave: after the policy a plan it refuses is answered without a task, after the
  check every task is valid. One lemma per node.
* `QuestionAndAnswerHolds`: `Talk` says, by the place a turn of the default graph has
  reached, what was said, and that beyond the extraction it has an answer or a context. From
  that follows that no way around the planning of the tasks ends without an answer. Every
  node but the last has an edge that always matches (`DefaultEdges`), so a turn cannot end
  early.
* `ChatHistory_proofs!MirrorHolds`: inductive (`MirrorInv`) is that each row of a
  user has its line, or a recording on its way to write it, or was cut off from it -
  exactly one of the three.
* `GroupViewHolds`: inductive (`TableInv`) is that keys are unique in a table and that it holds
  nothing but what was said and something `Alike` for all of it (`Held`). The migration ends
  with the rows of both tables, each once (`Grown`). A view is its
  table's rows in order of time (`InOrder`), and a limit leaves their end (`Ending`).
* `SearchHolds`: a row that a search leaves out has as many hits after it as the limit allows
  (`KeptOrLater`), by counting the positions behind it.
  `HistoryHolds` has the invariant together: types, tables, mirror.
* `TurnPipeline_proofs!DecisionsSurvive` (of `CommandAccess`): `RestartKeepsDecisions` is inductive as it
  stands. The lemma below it, `SavedDecidesAlike`, is about the two orders: what is
  written for a key is what it resolves to, so among the keys that cover a module the
  longest, which decides after a restart, carries the decision of the last inserted one.
* `OnlyEntitledRun`: inductive is `Known`: the roles a message was loaded with, and those a
  session keeps, are such that what fits them is among what the history noted. It
  needs no type invariant of the switches.
* `ChatHistory_proofs!TermsMatch` (of `LocalRag`): inductive needs one more fact (`SeenOwn`): keys read before a
  transaction are of the file, or of the files, the transaction deletes pieces of, so terms
  are only taken from pieces that go. The terms of a piece are its first `MaxTerms` words that
  are no stop words, or all of them if there are no more (`FirstTermsAre`).
* `QuietHeals`: `Healing` says of each part of a refresh which files are `Indexed`, which
  are still to come, and that the pieces of the file under way are gone; `QuietAlone` says that
  no other retrieval is under way then. That no word is lost is `SplitCovers`, about
  the recursive function `Split`: an induction as the choice of a least counterexample
  (`Least`), since the library's induction theorems take an operator.
* `MissIsAbsence`: `ScanComplete` says that a file which was there all along and matches
  was found or is among the places to come, which are beyond the number of places
  `scanned`; a place is a file's own because names in a listing are distinct. What is claimed
  absent is what the direct search would read: within its sizes, suffixes and window.

* `FileSpace_proofs`: the inductive invariant (`IInv`) says of a command under way that
  it has noted every right there was since it came (`seen`) and every owner
  (`born`), that what it remembers of its user is among them, and that its mounts
  were there and are writable only by such a right (`JobOK`). `Carried` is what carrying out a
  command does, by command: what it changes it may write (`Authorised`), only `rm` takes
  anything away (`Preserved`), what it shows leads back (`ShownLeadsBack`: a
  parse changes the first and the last name of a path at most, and never its space).
  `NothingForTheDeleted` follows from `Authorised` and `born`. That an upload always finds a free name
  is a pigeonhole: one candidate more than there are paths.
  `TypeCorrect` says that no sequence of these leaves a file without its directory; this is
  proved only, no run checks it.

`TurnPipeline_proofs` extends `CommandAccess` as well, and `ChatHistory_proofs` extends
`LocalRag`: the second component of each works on what the first hands it. They keep their own
variables and specifications (`System`, `RagSpec`) and no theorem mixes them; the names
the two modules would share (`Init`, `Next`, crashes) carry a prefix in the second.

Only model-checked:

* All liveness (`LoopReturns`, `LockReleased`, `ViewerCatchesUp`, `ChoiceSettles`,
  `CallsEnd`, `TurnEnds`), which the backends do not reach.
* `ApprovalHonoured`, which is violated (section 5).

## 7. Not modelled

* Texts: prompts, replies, events, metrics, ranking, document formats; redaction in
  the live trace.
* The management interface but for the live trace, the switches, the pages of files and
  chats and the editor of the graph: reads and single writes, among them the deletion of
  any account or group.
* Schools, colleges, majors and organisations, with the deletion of their classes,
  positions of students, profiles: single rows.
* Tasks, commits and submitted files: the models are created with columns they do not
  have, so every write ends in a `TypeError` and there is nothing to check.
* Leave requests: `create_approval`, with which a chain of approvals would begin,
  has no caller.
* Bot accounts: a row per bot, each written by one statement; whether a bot is
  connected is known only to the wxclaw adapter, which is external. Rendering,
  messaging, OCR, `image_generate` and `find_at` keep no state.
* Todo, notice, curriculum: records with one owner and one write each; the handlers
  that would send notices are commented out.
* The language models, MCP servers and the framework are external and appear as
  nondeterministic answers; `core/mcp/client.py` only chooses a transport.
* `shared/packages/aioredis` is third-party code, an eighth of the repository.
