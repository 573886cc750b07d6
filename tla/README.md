# A verification project for tole

tole is an agent harness written in Rust: it runs a language model in a loop,
executes the tool calls the model asks for behind an authorization gate, and
keeps every step in an append-only session log, so that a crash at any point
can be recovered. This directory holds TLA+ models of it, TLC configurations
that check them on small instances, and TLAPS proofs.

Paths below are relative to the repository (`src/` in `PROJECT.json`); a bare
file name is in `crates/tole-core/src` or `crates/tole-cli/src`. `PROJECT.json`
lists for every definition the source lines it models, for every property a
mutation of the model that breaks it, and for every hazard the line where it
bites.

## 1. Inventory

### The core: crates/tole-core

| Component | State | Operations | What is hard | What makes it correct |
|---|---|---|---|---|
| State machine (`state.rs`) | the program counter, 8 values | `can_transition` | every writer of the counter must use it | all transitions made are in the table |
| Effect sandwich (`machine.rs`) | intent entry, `pending` register, counter, in one session | `begin`, `settle_ok`, `settle_err`, `finish`, `resume` | a crash between any two commits; stale handles; deferred syncs | no crash point is unreadable; `never` runs once |
| Session storage (`storage.rs`, `ccimport.rs`) | the file, its name, the sidecar lock, each handle's replayed state and poison flag | `create`, `open`, `commit`, `compact`, `fork`, `close`, import | torn lines, failed syncs, rename under an open handle, two processes | the file always replays; one writer; an acknowledged commit is kept as promised |
| Turn loop (`turn.rs`) | step, poll, retry and repetition counters, the batch at hand, registers `turn` and `fact/wrote_this_turn` | `run_turn`, `resume_turn`, `drive` | every crash point; cancel, detach and interrupts at any moment; batches that fail half way | every call answered once; no write without consent; a turn ends |
| Gate (`gate.rs`, `approval.rs`, `hooks.rs`, `approver.rs`, `tool_roster.rs`) | the allow list, the mode, the tools registered | `authorize` (fresh, replay), `permits`, `covers` | a registry that changed over a restart; two looks at a mode; patterns compared as texts | nothing runs that its face, list, mode or owner refuses |
| Cancel and interrupts (`cancel.rs`, `interrupt.rs`) | two flags and a bounded queue, shared with the owner's threads | `cancel`, `detach`, `push`, `drain` | an interrupt that lands while the model answers | delivered once, in order, never over a final answer |
| Provider client (`openai.rs`) | a thread per call, its sinks | `complete`, `request_body` | a thread that was given up and speaks on; entries that do not pair | one voice per call; a request that a provider accepts |
| Failover (`failover.rs`) | the active provider and the time of the switch | a provider call | a cut stream; sticky choice against the retry of the primary | no failover after output; the primary comes back |
| Compaction (`compaction.rs`) | a summary entry, an overflow register | `due`, `compact`, `mark_overflow` | a summary of a summary; one that fails | every entry is in the view or told of |
| Child agents (`agents.rs`, `handoff.rs`, `memory.rs`) | processes, their directories, their rooms in the memory store | `agent_start`, `agent_poll` | caps checked and then used; cleanup while a child runs; a store that fails | caps hold; no report is lost |
| Jobs (`jobs.rs`) | detached processes, a watcher each, the queue of notices | `job_start`, `job_poll` | an exit while the queue is full, or with no queue wired | where a queue is wired, one notice for each exit |
| Sibling watch (`sibling_watch.rs`) | file offsets, seen versions | `poll` | half-written lines, glued lines | a change is tracked or told |
| MCP client (`mcp.rs`) | the reactor, pending requests | `list`, `call`, `read` | a timeout against a late answer | an answer or an error for each request, and the server's verdict wins |
| MCP server (`mcp_server.rs`) | the tools of the live sessions | tool calls | calls at once on one session | busy is one turn |
| Subprocesses (`subprocess.rs`) | the child, a reader and a writer thread | `run_with_timeout` | a grandchild that keeps a pipe open | it returns |
| Tools (`file_tools.rs`, `read_file.rs`, `web.rs`) | files of the workspace; the requests of a fetch | read, write, edit, delete; fetch, search | two processes edit one file; a redirect | an edit is whole; every hop is judged |
| Todo list, replay, usage (`todo.rs`, `replay.rs`, `usage_report.rs`) | derived from the log | hydration, matching, sums | the same call recorded twice; a dropped call | what is derived agrees with the log |

### The faces: crates/tole-cli and crates/tole-tui

| Component | State | Operations | What is hard | What makes it correct |
|---|---|---|---|---|
| Session host (`session_host.rs`) | the map of live sessions; per session a storage mutex, a busy flag and a cancel token | open, run, resume, interrupt, eviction | flags and mutexes taken in several orders by several threads | a busy session is not evicted; busy ends |
| Approval queue (`approvals.rs`) | entries and one-shot grants under two mutexes, in memory | `queue_entry`, `decide`, `take_one_shot`, `list`, pruning | decide, audit and resume are three steps; the clock | a call runs no more often than it was allowed |
| Serve (`serve.rs`, `mcp_http.rs`) | connections, the count of guesses | the HTTP routes | clients that trickle, guess or wait | each connection gives its slot back |
| ACP server (`acp.rs`) | requests that wait for an answer, over one pipe | new, load, prompt, cancel, permission | a late answer to an abandoned request | an answer goes to its own request; the reader never waits |
| Missions (`mission.rs`) | budgets and the failure counter | `run_mission` | a process that dies in a turn | a zero exit code means verified |
| Terminal (`tole-tui`, `tui_host.rs`) | the queue, the steering, a turn thread and its token | prompt, steer, cancel, commands | what is typed while a turn ends | nothing typed is lost |
| Command line (`main.rs`) | none of its own | `run`, `resume`, `chat`, `fork`, `import`, ... | a message that meets an interrupted turn | it is recorded, or told |
| Configuration (`config*.rs`) | a store of trusted contents; layers | `status`, `gate`, resolution | a file that changes between check and use; a key sent to another layer's address | what runs is what was approved; a key stays with its provider |
| Session index (`session_index.rs`) | a file all processes append to | append, search, tree | torn and glued lines | sessions are found |
| Installation (`upgrade.rs`, scripts) | the binary | upgrade | I/O only | not modelled |

The faces call the turn loop; the loop calls the gate, the machine and a
provider; the first two commit through the storage. Threads of a face share a
session through its storage mutex, its busy flag, its cancel token with the
interrupt queue, and the approval queue. Processes share a session through its
file and lock alone; they also share the trust store, the session index, the touch
log of siblings, the agents' directories and the workspace.

## 2. Modules

```
TurnState                 the counter and its table
  +- EffectSandwich       -- EffectSandwichProofs
  +- SessionFork ---------------------------------+
  +- TurnLoop -- MCTurnLoop, TurnLoopProofs       |
DurableLog <== SessionLog -- MCSessionLog -- SessionLogProofs
RemoteApprovals -- MCApprovals                    |
  +- RemoteApprovalsProofs                        |
Transcript FileTools SessionIndex Reports Compaction
  +-------------------------- MCRecords ----------+-- RecordsProofs
AcpHost McpHost Terminal ChatLoop
  +-------------------------- MCFaces  -------------- FacesProofs
WebFetch ChildAgents SiblingWatch AllowLists ConfigTrust Settings Roster
  +-------------------------- MCAgents -------------- AgentsProofs
ProviderCall ToolServers BackgroundJobs Subprocess Mission HttpFront
  +-------------------------- MCServers ------------- ServersProofs
```

Each module begins with what it models and what it leaves out; the constants
say what their bounds stand for. An action is a handler or the part of one
between two points at which another thread or a crash can come in between.

### Sessions and turns

**TurnState** is the table of `state.rs`; the modules that move the counter
take it from there.

**EffectSandwich** is `machine.rs` over one session. One action per commit, in
two forms: the commit returns (`Begin`, `Settle`, `Advance`), or it is cut short
by a kill or a failed append (`BeginCutShort`, `SettleCutShort`,
`AdvanceCutShort`). `RunEffect` is the caller's tool call between the two
commits. `Kill` loses the process, `PowerCut` also the lines that were not
synced, and `Reopen` is `open` followed by `resume`. The file is abstracted to
`session`, what the open handle has, and `recoverable`, the sessions a reopening
may find after a power cut: a durable commit leaves one, a deferred commit adds
one. This is justified by SessionLog, which has the lines and the syncs.

**SessionLog** is the file: inodes with lines, a torn tail and a synced prefix;
the name and what a power cut may make of it; the sidecar lock; the handles of
several processes with their buffered writer (`rest`), replayed entries (`mem`)
and poison. `create`, `commit` and `compact` are split where the process may die
between two system calls. What a commit carries is left out.

**DurableLog** is the abstract specification of a session: a log of commits
that grows, of which a power cut takes at most the newest that were not
acknowledged as durable; a commit reported as failed may turn up later. SessionLog
implements it under the mapping *log = the commits the callers were told of*,
*floor = how many of those were acknowledged as durable*, *doubt = commits that
some version of the file or a buffer holds and no caller was told of*.

**SessionFork** is the numbering of records and the ids of entries, for the
commits of a turn, and `fork` taken while another process works on the source.

**TurnLoop** is `run_turn`, `resume_turn` and `drive` with the gate, the token
and the interrupt queue. `at` is the place in the loop; every action is the code
up to the next commit or wait, so `Kill` and `PowerCut` fall between any two
commits. The provider, the approver, the hooks and the tools answer freely. The
owner's threads are `Cancel`, `Detach` and `Push`. `Restart` may wire the tools
with other risks than before. The look at the token (`PassCheckpoint`, `turn.rs:957`)
and the start of the effect (`StartEffect`, `turn.rs:977`) are two steps, since the
host's observer runs between them (`turn.rs:974-976`), as do the commits of
delivered interrupts between the top's look and the provider call.

### What is read of a session, and the tools (MCRecords)

**Transcript** is how entries become the messages of a request, for a log written
by an import or by the session's own turns with their crashes. **Compaction** is
the view of a log of which entries were summarized. **SessionIndex** is the file by
which a session is found again; its tree stops below `MaxDepth`, which is the 64 of
`session_index.rs:231`. **Reports** is the usage by turn and the replay of
recorded calls, as operators over a log that grows. The session's report
and that of a turn are two folds: the first starts its prompt tokens at 0 and adds
`unwrap_or(0)` (`usage_report.rs:101-120`), in the second a count is unknown until
a row has it. **FileTools** is the tools on
one file, called by workers that share a process or not; a write is two steps, a
rename one.

### Faces (MCFaces, MCApprovals)

**RemoteApprovals** is the approval queue, the decision route of `serve.rs` and
the part of `session_host.rs` they use: the map, eviction, `claim_turn`, the
busy guard, the storage mutex (held in the locations of `turn` in which the
code holds its guard) and `resume_session_turn`. A decision thread decides,
audits and resumes in three steps. **AcpHost** is the reader and the prompt
threads of the ACP face with their permission requests. **McpHost** is the session
tools called at once. **Terminal** is the loop of the screen, its turn thread and
what is typed meanwhile. **ChatLoop** is `run`, `resume` and `chat`.

### Work beside the turn (MCServers)

**ToolServers** is the reactor of the MCP client and its callers. **BackgroundJobs**
is the watchers of jobs and the queue of notices; `wired` says whether the face has
such a queue, without which no watcher starts (`jobs.rs:332`). **ProviderCall** is one model step:
the turn's retries, the failover chain, a link's thread and its sinks, which
outlive the wait; a call whose thread cannot be spawned is made on the host's own
(`openai.rs:1014-1016`), and no cancel ends it. A stream that has shown something may
still end malformed, or empty when that was thoughts alone. **Subprocess** is one
command with its reader and writer threads.
**Mission** is the loop of turns with its verdicts, with a `--verify` command or
without; the compaction before a turn may add a row of usage, also before a turn that
is then refused. **HttpFront** is the connections of both HTTP faces. A request of the
MCP face that was let in is a call (`calling`) which holds its slot for as long as the
tool runs or the stream is open (`mcp_http.rs:253-278`).

### What a process may do (MCAgents)

**ChildAgents** is parents and children that are processes, the agents directory and
the memory store. **SiblingWatch** is the touch log and one watcher's fold of it.
**AllowLists** is the patterns, and the list that a child is given: what was checked
against its parent's, the parent's denies, and for a child with a role
`handoff_submit`, which is checked against nothing (`agents.rs:713-722`). **ConfigTrust** is
the store and the gate of a project's file. **Settings** is which layer wins, and where
a key is sent. **Roster** is the flags, the tools and the approver of every face.
**WebFetch** is a fetch over its redirects, and the search.

An MC module that composes several modules has a variable `part`: a behaviour is
about one of them. The parts share no state in the code where they are composed in
this way; where they do (a session's map, busy flag and storage), one module has
all of it.

## 3. What the runs check

Runs that pass:

| Run | Instance | Shows |
|---|---|---|
| `sandwich` | two complete sandwiches, all contracts | whatever falls between the commits, `resume` understands what is left, `never` runs once and a settled effect does not run again |
| `turn` | a tool of each risk, batches of one and two, a crash, two interrupts, two registries: after the restart the write tool may be gone and the read tool may write | crash points resume, writes are remembered and consented to, interrupts come in order, calls are answered, after a cancel no work begins but what had passed its checkpoint (`CancelStopsWork`), no answer is stale, and every turn ends |
| `session_log` | two processes, three inodes, three commits, a strict file system and a loose one | a file is never bricked, one process writes; on the strict one SessionLog implements DurableLog (`KeepsItsPromise`) |
| `fork` | the six parts of MCRecords | own ids stay fresh and no open sandwich is forked; every request pairs its calls and results and the task list is the log's (`LogIsTheSource`); edits are whole; sessions are found; turns add up and a replay is exact (`ReportsAreTrue`); the view is whole |
| `approvals` | the behaviours of RemoteApprovals that stay within one of three limits (`Within`): sessions that share the queue; approvals that age; two clients on one approval with a failing commit | a call runs no more often than it was allowed (`RunsNeedApprovals`), a success is audited (`AnsweredIsAudited`), every decision is answered |
| `faces` | the four parts of MCFaces | a consent is for its own call; the reader never waits for a turn; busy is the turn (`BusyIsTheTurn`, for MCP and the screen); nothing that was typed is lost (`NothingIsLost`) |
| `agents` | the seven parts of MCAgents | the cap is kept and reports recalled (`PollsAreSound`); a change is tracked or told; a child is narrower; only what was approved is used, the highest layer wins and a key stays home (`ConfigIsSound`); each effect is allowed, and plan mode only reads; each fetch is vetted |
| `servers` | the six parts of MCServers | a server's verdict beats its caller's timeout; one voice; guesses and threads are bounded; every request is settled; an exit is told of where a queue is wired, a cancel ends the turn unless its call is on the host's own thread, a command returns (`EachWaitEnds`); a mission's zero means verified, and it ends; each slot comes back, but for a turn, a wait for a turn's storage, and a call of the MCP face (`EachSlotComesBack`) |

Runs that TLC must find violated, each a disagreement between the code and what
the repository says of it (`PROJECT.json`, `findings`, quotes the lines):

| Run | Disagreement |
|---|---|
| `session_log_sync_dir` | `compact` returns early when the directory sync fails after the rename, unpoisoned: further commits vanish |
| `fork_prompt` | a fork's own numbers reach ids it has copied: its prompts are refused for ever |
| `approvals_stale` | an aged grant authorizes a call when nobody has pruned since |
| `mission_resume` | a mission that died in a turn cannot be resumed: its next prompt is refused |

### Disagreements without a run

These are behaviours of the modules too, at the lines given. Where a formula is
named, it is stated in the module, and TLC can be given it as an invariant or a
property.

*The session and its log*

- `EffectSandwich`: `resume` hands out an effect whose intent may be in the page
  cache only (`machine.rs:280-315`), while `docs/architecture.md:65` has a durable
  commit before any effect; what holds is that an
  effect begun by the process that committed its intent has it on the disk:
  `BegunIsDurable`, which no run checks and the theorem `BeginIsDurable` states.
- `TurnLoop`: an intent recorded as guarded is replayed without the gate if its tool
  is read-only since the restart (`docs/architecture.md:160`).
- `SessionLog`: `create` does not sync the directory (`storage.rs:453-462`), so with
  `DirPersist = FALSE` a power cut takes a new session with its durable commits;
  and a header that was torn leaves a file that neither `create` nor `open`
  accepts (`storage.rs:634-640`). A killed import leaves such a file, under a name
  that refuses the import for good.
- `Compaction`: `before_turn` of a mission compacts a session whose turn was
  interrupted, though `compaction.rs:265` has it between turns only.
- `Reports`: a comment has unpaired tails dropped (`replay.rs:354-355`), while
  `interleave_calls` keeps them with no result.
- `Reports`: missing fields "are treated as unknown" (`usage_report.rs:95-96`), while the
  prompt tokens of a session without any read 0 (`usage_report.rs:119-120`).
- `SessionIndex`: a torn line costs the line after it as well; and of two imports of
  one transcript the newer line wins, even if its file is gone.

*The faces*

- `RemoteApprovals`: the route decides before it audits, while `approvals.rs:195-197`
  says the opposite; a decided approval can be decided again and its register
  overwritten (`serve.rs:589-590`); an expired entry leaves the queue in the call
  that marks it (`approvals.rs:102-116`), so the status `expired` is never shown;
  and a 202 does not mean that the resume runs (`docs/mobile-control.md:34`), which
  may be refused.
- `Roster`: a yes from afar approves a call that a deny pattern denies
  (`approvals.rs:294-316`).
- `AcpHost`: a cancel between the prompt and its claim of the turn is lost
  (`acp.rs:1017-1024`, `CancelIsNotLost`); `session/load` of a live id fails always,
  while `session_host.rs:183-186` has it replaced in place.
- `McpHost`: a detach may hit the turn after the one it was meant for
  (`session_host.rs:70-72`, `DetachHitsItsTurn`).
- `Terminal`: a prompt is dropped when the parked turn before it does not finish
  (`tui_host.rs:224-231`); a draft put aside while browsing the history is lost
  (`lib.rs:397-398`, `DraftSurvives`); a question that comes after a cancel is still
  shown.
- `ChatLoop`: a message is told lost although it was recorded, and its images go with
  the first one that is dropped (`main.rs:2700-2705`, `ToldIsTrue`).

*Work beside the turn*

- `ToolServers`: a call that timed out may take effect afterwards
  (`mcp.rs:614-619`, `NoLateEffect`).
- `ProviderCall`: a thread that was given up shows its output in a later turn, since
  the host resets the token (`openai.rs:992-995`, `session_host.rs:219`,
  `AbandonedIsSilent`); and a stream that was cut after output is retried if its
  error's text names a timeout.
- `TurnLoop`: a cancel while the host's observer is told of a call comes after the
  checkpoint that "stops the effect BEFORE it runs" (`turn.rs:951-957`): that one effect
  still runs.
- `BackgroundJobs`: an error of `ps` is taken for the job's end (`jobs.rs:337`).
- `ChildAgents`: two polls of one result both consume it (`agents.rs:994-997`).
- `SiblingWatch`: a notice is lost with a line that was cut, although
  `sibling_watch.rs:5-8` speaks of every change (`ChangeIsToldOf`).
- `AllowLists`: a pattern that holds the text of the workspace guard covers more than
  it says (`approval.rs:301-302`, `ChildIsNeverWider`). Also, where `glob_match` meets a
  star in the text it takes the glob's star for a letter (`approval.rs:453`), so that `*`
  does not match `*a`, although `approval.rs:444` has it match any run; the model's
  calls hold no star. And the child of a role may call `handoff_submit` whatever its
  parent's list says short of a deny, though `agents.rs:688-689` has it never wider; the
  comment at 713-715 says why.
- `ConfigTrust`: the store is loaded, changed and saved without a lock, so one of two
  approvals at once is forgotten.
- `Settings`: a project's `false` lowers the user's `true`, where the comment at
  `config_apply.rs:121-126` speaks of the highest layer that sets it.

### Bounds, and why they are enough

The comment at the head of each configuration says what its numbers are. In general two
actors (processes, threads, clients, sessions) and one fault meet in every order; a
cap of one or two is reached and exceeded.

- *EffectSandwich* `MaxSeq = 4` leaves room for two sandwiches, which is what a
  stale handle or an id that is used twice needs; `MaxRuns = 2` tells once from
  more than once.
- *SessionLog* three inodes: the file, a compacted one, and a second compaction
  while a stale handle keeps the first. Three commits: one durable, one deferred,
  one in doubt. `DirPersist` and `SyncDirMayFail` say which file system it is:
  MCSessionLog starts on the one the code is written for or on the other one, with
  `LooseMaxSeq` there.
- *MCRecords* `MaxSeq = 11` is the end of a turn with a tool call (prompt 2, call 3,
  intent 6, settlement 9, answer 11), so that a fork can be taken at each commit of
  it. Three calls make a batch with one before or after it; an imported log of five
  entries has a batch cut short and what follows. Three index lines in two directories
  are a chain of forks one longer than `MaxDepth = 1` shows, or lines of one id that
  were torn or written again. Two rows of usage, with and without
  each count. Two compactions and eight entries make a summary of a summary.
  The names and the directories are symmetric; no property but safety is checked
  there, so the symmetry is sound.
- *TurnLoop* limits of 1 and 2 stand for `MAX_STEPS`, the repetition and poll
  trips, the retries and the stop-gate cap; each is reached in the run, and both
  sides of every comparison are met. Two interrupts, urgent or not, of the owner or a
  notice, can come in either order at every place of the loop and be delivered together,
  one by one or across two turns. The batches are a poll, a write, and a read with a poll;
  with the second registry the last is a write with a poll. One crash combines with every
  place. A crash while an intent is replayed leaves the session as the
  first crash left it, until the settlement; that is why one is enough.
- *MCApprovals* `Expiry = 0` with one tick: the clock can pass it and can stay within
  it. Two ids are an approval and a later one for the same call.
- *MCFaces* one session of two can be live, so that opening, loading and a prompt
  meet an eviction at each of their steps. Two prompts of one call each: a permission
  request that was given up and a later one. Three texts: one that runs, one that
  steers it and one that waits.
- *MCAgents* two parents and two children at a cap of one; a log of four lines has a
  half line glued to the next, and one after that. Fourteen patterns, with and without
  globs, guards and open ends, in lists of `MaxListed = 2` against seven calls.
- *MCServers* time in ticks: a caller's bound, which is the operation's and a margin,
  against the reactor's, with two callers queued so that the second waits longer than
  its own bound. The pipe holds less than the child writes, and the cap is less
  than that. Two of three connections can be served, of one address; `Deadline = 1` and
  `MaxFailures = 1` reach each of their limits, and two connections past the check still
  guess beyond the second. Each behaviour chooses whether its face wires a queue, whether
  its mission verifies, and for each call whether it is on the host's own thread.

### Fairness, and why the code justifies it

- *EffectSandwich*, *SessionLog*, *SessionFork*, *AcpHost*, *McpHost*, and the other
  modules with safety alone: none.
- *TurnLoop*: weak fairness of the loop's step. Provider calls have timeouts and
  tools have theirs; an approver that never answers is outside the claim.
- *RemoteApprovals*: weak fairness of each turn thread and strong fairness of each
  decision thread: a decision waits for a storage mutex that turns take again and
  again, so the claim rests on the mutex not starving a waiter.
- *ToolServers*: weak fairness of taking the next request, of the reactor's timeout and
  of the caller's, and of the clock. Nothing is assumed of a server: it may hang.
- *BackgroundJobs*: weak fairness of each watcher's look at its job. A job need not end,
  and without a queue nobody is told when it does: its result is read with `job_poll`.
- *ProviderCall*: weak fairness of the host, which looks at the token and at its
  channel in slices. A thread that reads may hang for ever, also the host's own.
- *Subprocess*: weak fairness of the caller's poll, its timeout and its return, and of
  the two threads as far as the pipes let them. Nothing is assumed of the child or of
  what it has started.
- *Mission*: weak fairness of its loop and of the clock, for either value of `--verify`; a
  turn ends by TurnLoop.
- *HttpFront*: weak fairness of each connection's thread and of the clock. Nothing is
  assumed of a client, and neither a turn nor a call of the MCP face need end.

### Assumptions about the environment

A power cut keeps a prefix of the unsynced lines of a file, perhaps with a torn
next one; `rename` is atomic; a kill loses nothing that was written. A failed
append is treated as a kill followed by a reopening where a module has no
poisoned handle of its own, since `storage.rs` refuses every further commit of
that handle. In RemoteApprovals pruning and the operation after it are one
step, since both mutexes are taken within one call and no other call sees a
state between them that pruning would not produce; the queue is in memory, so
the model is one life of the daemon. `peek_pending` has no caller and no action.

In FileTools two attempts that are under way in one process never read the same
nanosecond, which the names of the temporary files rest on; the comment that they
can never collide (`file_tools.rs:91-94`) says more, as processes in different pid
namespaces may share a workspace. An edit that another one overtakes between its
look at the hash and its rename is lost without notice, and `write_file` is not
atomic: `EditsAreWhole` claims neither. In Transcript a Claude Code transcript has a
response's texts before its calls, and all its calls before their results, as the
writer of that format does it.

## 4. What is proved

Eight modules hold proofs; each theorem holds for every value of the constants, every
number of actors and every schedule, where TLC checks an instance.

| Module | Theorems |
|---|---|
| `EffectSandwichProofs` | `TypeCorrect`, `CrashPointsRecover`, `NeverMeansOnce`, `BeginIsDurable`, `SettledIsFinal` |
| `SessionLogProofs` | `WriterHoldsLock`, `OneWriterHolds`, `NeverBrickedHolds`, `EngineKeepsThePromise`, `ItsPromiseIsKept` |
| `TurnLoopProofs` | `EveryCutResumes`, `WritesAreRemembered`, `WritesNeedConsent`, `CancelStops`, `EveryCallIsAnswered`, `NoAnswerIsStale`, `InterruptsKeepOrder` |
| `RecordsProofs` | `TypeCorrect`, `OwnIdsAreFresh`, `ForksKeepLineage`, `ForksAreSettled` of SessionFork, whose behaviours those of the run are (`IdsAreThoseOfForks`); `ViewIsWholeHolds`, `SessionsAreFoundHolds`, `EditsAreWholeHolds`, `ReportsAreTrueHolds`, `LogIsTheSourceHolds` |
| `RemoteApprovalsProofs` | `OneRunPerApproval`, `SuccessIsAudited` |
| `FacesProofs` | `ReaderNeverWaits`, `ConsentHolds`, `BusyIsTheTurnHolds`, `NothingTypedIsLost` |
| `AgentsProofs` | `EachEffectIsAllowedHolds`, `ConfigIsSoundHolds`, `PollsAreSoundHolds`, `TrackedOrToldHolds`, `ChildIsNarrowerHolds`, `EveryFetchIsVetted` |
| `ServersProofs` | `OneVoiceHolds`, `FrontStaysBounded`, `VerdictComesFirst` |

Hardly any of these properties is inductive by itself. The arguments:

**EffectSandwichProofs.** `IInv == TypeOK /\ LogInv /\ HostInv /\ RunsInv`.
`LogInv`: every recoverable session is `Sound` and its entries are a subset of the
open session's; `Sound` adds to the property that all ids are below the sequence
number, so that a new intent cannot meet an old id, and that intents have distinct
ids. `HostInv`: the host is never at an effect that the open session does not have
pending; and if it began that effect, nothing else is recoverable. `RunsInv`: an
effect that is about to run for the first time has not run, and one that is about
to run again has a contract that permits it. `NeverMeansOnce` needs all three: a
power cut may forget the settlement of a `never` effect, but not its intent, whose
contract bars the replay.

**SessionLogProofs** has three layers. `IInv` (`HandlesInv`, `LockInv`): a handle is in
one of the places at which it can be, and one that is open for writing, being created
or compacted has the lock, which is held by one process. The lock is on a sidecar file,
so neither a rename nor a power cut can make two processes hold it. `SafeInv`
(`DiskInv`, `AloneInv`, `WorkInv` and the bound on attempts) is about the lines of
every inode: what is behind a torn line was written by nobody, a handle's buffer and
its entries follow the file, a file under work is known to its worker alone.
`NeverBricked` follows, on every kind of file system. `StrictInv` (`AckedInv`,
`NamesInv`, `HeldInv`, `HandleInv`) is about a file system that keeps the strict rules
(`DirPersist /\ ~SyncDirMayFail`): the commits that callers were told of are, in their
order, what each file that the name may lead to holds, but for the newest that were not
promised and one in doubt. With it every step of the session file is a step of
DurableLog: a commit is `Commit`; a failed one `Fail`; a killed one `Fail` or `Forget`;
an opening `Reopen` or `Forget`; a close, a kill, a creation and a compaction `Forget`
or nothing; a power cut `PowerCut`. On a loose file system the promise is broken, as
the run `session_log_sync_dir` shows; only `NeverBricked` and `OneWriter` are proved
there.

**TurnLoopProofs** has three layers. `IInv` (`SessionsInv`, `PcInv`, `ReplayInv`,
`TodoInv`, `ConsentInv`, `WroteInv`) relates the place in the loop to the session and
to everything recoverable: at each place the counter, the pending intent and the
marker of a write are what the next commit needs, and this execution of a write has
the consent that its place stands for. `GInv` adds what later properties look back
on: the calls of the batch that are owed an intent or a result (`OwedInv`), and the
messages that the model has heard (`HeardInv`). `OrderInv` numbers the interrupts:
those delivered, those drained and those queued have the ids that follow each other,
and a drained one waits only at the place where it is delivered. So the order is kept
for every number of interrupts, where the run has room for two. `LateInv` bounds the
work that begins after a cancel by what had passed its checkpoint.

**RecordsProofs.** *The ids:* `NumbersInv`: a session has passed the number in every id
that it gave itself (`e_<n>` with `n` up to its own number, `intent_<n>` below it, since
an intent is named before its commit is numbered). It leaves forks out, whose copied
ids come from another count: that is the gap which `fork_prompt` shows. `LineageInv`:
both sides of a fork have the copied entries. For `ForksAreSettled`, `SandwichInv`
says that a session's intents are settled (`Balanced`) but for the pending one, which
the counter shows. *The view:* `ViewInv`: a compaction names a prompt before it, and its
summary tells of all that is before that prompt. A pass cuts behind the last one, so a
summary of a summary tells of what the first one has told. *The index:* `IndexInv`: the
ids of a session and of what it was forked from are in order, which makes the forks a
forest; that the tree shows all of it is proved by induction along that order.
*The edits:* `HeldInv`: a worker that has opened a temporary file is alone in knowing
its inode, which has one name and holds what that worker has written so far; `NamedInv`:
no two workers go by one name; `KeptInv`: a file that was never deleted has its mode.
A fresh inode exists since the ones in use are finitely many.
*The reports:* `LedgerInv`: a log begins with a prompt, so that each row of the ledger is
of a turn that is counted.
`WalkInv`: what a replay was told is, call by call, the oldest match among what it had not
been told of before.
*The wire:* `WireInv`: the body of a log's request is well formed but for its last carrier,
of whose calls some are owed a result (`Owes`): the open calls of a transcript that is
read, or the one call that a turn has begun; the calls of a batch that has not begun are
new to the log. Four ways in which an entry extends such a body keep it so: a message and
a call of its own when nothing is owed, a call that joins the last carrier, a result that
is owed. An intent joins what is owed only right behind another, which is why the import
marks it so.

**RemoteApprovalsProofs.** `EntriesInv`: each entry and each grant has an id that was
queued, and a grant is of an allowed one. `CountInv`: runs and the grants at hand are
no more than what was allowed; a grant is taken as its call runs, so both sides move
together. `HandlersInv`: a handler past its audit has its line in the log, which
nothing removes.

**FacesProofs.** *AcpHost:* `RequestsInv`: an answer that has arrived is to the request
it was routed to. `ThreadsInv`: a thread that waits or was allowed has a request of its
own. `MemoryInv`: what is remembered as always allowed was said for that session. The
reader never waits since it looks at the busy flag first, and a thread that runs a turn
has its session busy. *McpHost:* `McpInv`: a session is busy exactly if it has a turn,
and it has one at most. *ChatLoop:* `LinesInv`: a message is recorded, told of, lost to
a kill or in hand, and what a face has in hand depends on its place. *Terminal:*
`TurnInv` ties the flags of the screen to the turn's thread; `ScreenInv` adds that what
was typed is in the draft or in one of the places that pass it on, but for a draft that
was put aside.

**AgentsProofs.** *Roster:* `ProcessInv`: what the flags refuse is not registered;
`StepInv`: what is known of a call at each step of the approver. *ConfigTrust:*
`TrustInv`: the store, and all that a process holds of it, is of approved contents.
*Settings:* `KeysInv`, with the highest layer and the nearest prefix by their least
numbers. *ChildAgents:* `StartsInv`: whoever starts a child has the lock, and the
children alive are within the cap that it has counted; `ResultsInv`: what was consumed
or cleaned was recalled. *SiblingWatch:* `WatchInv`: each watched path was accessed, and
no write of a sibling has followed in what was read of the log (`Watches`, `Knows`).
It is assumed that the paths fit in `MaxTracked` (`AllPathsFit`), as the code forgets
the oldest beyond that. *AllowLists:* `ListsInv`: a child's list is none, its parent's, or
what it asked for with its parent's denies, each allow of which is covered, and with the
handoff if the child has a role. The rest is
about the operators: what a glob matches that ends plainly ends so and its front matches
the rest (`PlainEnd`), so that a text which covers another matches whatever it matches
(`TokenCoversAll`), and so on for words (`CommandCoversAll`), patterns
(`PatternCoversAll`) and lists (`ListCoversAll`). *WebFetch:* `UrlInv`, `SentInv` and `CallInv`: what the next
request may be.

**ServersProofs.** *ProviderCall:* `ThreadsInv`: a thread that has shown output never
reports an error that another link would be asked after, and one that has only sent has
shown none; `VoicesInv`: the voices of a call are those of the link that is listened to.
Threads that were given up are free to do anything. *HttpFront:* `SocketsInv`: the
counter is the number of open connections; `GuessesInv`: failures and the connections
past the check are together within the limit of a window. *ToolServers:* `ToolsInv`:
the age of a request that is waited for is its time in the queue and the time its
server has taken, which is bounded; a request has one server.

Assumed of the constants, and evaluated by TLC: a name that stands for "none" is no
other value (`AbsentIsNoSession`, `NobodyIsNobody`, `NoNameIsNoAlias`,
`LegacyIsNoNano`); bounds are numbers (`RedirectsAreCounted`, `FrontIsSized`,
`PrefixesAreCounted`, `CapsAreCounted`); workers and ids are finitely many, and there
is some text to write (`WorkersAreFew`, `ImportedIsAnId`, `PartsAreSome`); patterns are
split as the code splits them, a name without the guard's suffix, and no letter of a call
is a star (`PatternsAreSplit`, `RequestsArePlain`). The others
are next to the constants they are about.

*Induction over data.* The theorems of the library take operators as parameters, which
the provers cannot instantiate. The proofs that need induction take it from the least
element of a set of numbers (`LeastNumber`, `NumberInduction`, `SequenceInduction`),
which follows from the well-foundedness of the strict subset order. With it the
recursive functions of the models are shown to exist and to satisfy their equations:
what replay keeps of a file's lines (`Kept`), the fold of the touch log in a poll, the
tree of sessions, the sums of a report, the calls that a recording has, and the messages
of a request.

Left to TLC: liveness, which is all that rests on fairness, and ENABLED, which the
provers do not know (`TurnEnds`, `EachDecisionIsAnswered`, `EveryRequestIsSettled`,
`EachWaitEnds`, `MissionIsJudged`, `EachSlotComesBack`). Every other property of the
passing runs is a theorem.

## 5. Not modelled

Only installation has no module: it downloads a release and replaces the binary.
Partly modelled, with what is left out (the notes in `PROJECT.json` say more):

- Text: the JSON of requests and frames, prompts, reports, the wording of errors,
  drawing and menus, TOML. Errors are classes where the code decides on their text.
- Storage: read-only opens, format versions and queries change nothing; a malformed
  line in the middle of a file is refused.
- Turn loop: image references, what an observer is told (not when), the delays of retries.
- Provider client: a panic of the call's thread, which ends the call with an error of its
  own (`openai.rs:1031`).
- Gate: the verdict for a path and the scan of destructive arguments of a command are
  functions of strings; their verdicts are choices in TurnLoop and Roster.
- Tools that run one program and pass its output on (git, gh, gitea, uteke, cora),
  skills, images, and the checks of packages and updates.
- Doctor, status and ecosystem read and print.

Stated in the modules for a reader, and checked by no run: `OnlyLegalSteps`
and `DeferredIsCovered` of TurnLoop; `TurnsAreLive` of RemoteApprovals;
`PickerTellsTheModel` of AcpHost; `MapKeepsItsCap` and `OrphansNeedARace` of McpHost;
`NoStrayChild`, `GateIsFinal` and `CleanedStaysCleaned` of ChildAgents;
`DeadServerFailsOnce` of ToolServers; `ReserveIsTemporary` and `LoudIsFinal` of
ProviderCall; `ChildIsServed` of Subprocess; `SummarizedOnce` of Compaction.

What a next step would be: that TurnLoop's commits are those of EffectSandwich, as a
refinement; the loose file system's promise as an abstract specification of its own;
and a composition of TurnLoop with Compaction, whose commits alternate.

## 6. Running it

    tlasany EffectSandwich.tla
    tlc -workers 2 -config EffectSandwich.cfg EffectSandwich
    tlc -workers 2 -config MCRecords.cfg MCRecords
    tlapm EffectSandwichProofs.tla

The module of each configuration is in `PROJECT.json`, `runs`. A configuration that
switches the deadlock check off says why: its behaviours are bounded and stop.
