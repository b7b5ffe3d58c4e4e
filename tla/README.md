# Ontheia: a TLA+ model of its core

Ontheia is a server (`host/`, TypeScript on Node.js and PostgreSQL) that runs AI
agents: a client posts a *run*, the host asks a language model, executes the tools
the model asks for, asks the user for approval where that is configured, streams
every event to the clients that watch, and stores the answer in a chat. Runs are
also started by schedules, by webhooks and by agents that delegate to others. The
web client (`webui/`, React) follows the runs of the chat that is open. This
directory holds the specifications of the parts whose correctness depends on the
order of events, the TLC configurations that check them, and proofs.

All paths below are relative to the repository root; `host/src/` is left out where
it is clear.

## 1. Inventory

Node.js runs one callback at a time. What can go wrong is therefore decided by what
happens **between two awaits**: a handler reads a table in memory, awaits the
database, a provider or a user, and goes on with what it read. The models take the
code between two awaits as one action and interleave everything else.

| Component | State it keeps | Operations | What is hard | What makes it correct |
|---|---|---|---|---|
| Agent-turn persistence (`runtime/agent-turn-tracker.ts`, `RunService.emitRunEvent`) | the tracker's turn, a promise chain of writes, rows of `app.chat_messages` | one call per event, one transaction per write | writes lag behind events; a write fails; events of delegated runs and of chain steps arrive too | each turn one row, with its own text only, all of it, before its tools' rows |
| Tool loop (`runtime/provider-run.ts`, `anthropic-runner.ts`, `responses-runner.ts`, `fetch-retry.ts`) | conversation, counters, approval settings | request, handle each call, approve, refuse, call, give up | four implementations of one loop; stop and deadline at any await; delegated runs | every call answered once, tools run by consent, no failed run sealed as success, a stop ends the loop |
| Run routes (`routes/runs.ts`, `routes/runs-state.ts`, `runtime/run-registry.ts`) | `activeRuns`, `runStreamStates`, `pendingToolApprovals` | post, stream, stop, approve, close | clients come and go at any time; stop races answers; last of several events frees state | complete feeds, stoppable while running, nothing waits after a stop, no leak |
| Cron scheduler (`runtime/CronService.ts`, `routes/cron.ts`, `mcp/plugins/scheduler.ts`) | `scheduledJobs`, `activeJobRuns`, `app.cron_jobs` | reschedule, tick, trigger, stop, poll | overlapping reschedules; failure after the stop; marks shared by executions; restart | tasks are the active schedules, overlap prevented, one-time jobs fire once |
| Delegation (`mcp/plugins/delegation.ts`) | none of its own | run a sub-agent, forward its events | sees the stop only if given the signal | ends with its caller; its errors stay its own |
| Chain engine (`runtime/chain-runner.ts`) | `chainContext`, `isInsideRetry`, one client in a transaction | llm, tool, agent, REST, memory, parallel, retry, loop, branch, delay steps | parallel branches share the context, the flag and the client; a failure is noted, thrown on or swallowed | only a stop ends a chain early; a retry repeats what failed in it; nothing is dispatched after a stop |
| MCP orchestrator (`orchestrator/`) | clients, processes, tool cache, status rows | start, stop, stop all, list tools, call | await between look-up and change of the maps; processes end by themselves; status writes overtake each other | no process without an owner, cache and status of the connection that exists |
| Long-term memory (`memory/`, `mcp/plugins/memory.ts`, `routes/memory.ts`) | rows in vector tables | write, supersede, confirm, edit, delete, restore, clean up, ingest | a row is read, an embedding awaited, the row written; edges without a foreign key | no entry hidden by one that is gone, none both superseded and confirmed, quotes deleted with their source |
| Rolling summary (`runtime/RollingSummaryService.ts`) | one summary and one position per chat | load, compress, reuse | two runs of a chat; callers with different histories | every message reaches the model, counter and text agree |
| Artifacts (`runtime/ArtifactService.ts`, `routes/artifacts.ts`, the files skill's scripts, `ArtifactPanel.tsx`) | files; a mirror of each (row, versions); what a panel shows and its user types | read, write, refresh, save, save as, promote, tell the agent | scripts take no lock; the mirror is written later, by several transactions; the user types on while a save is under way | no text is replaced that its user has not seen; versions hold what their checksums name; typing survives |
| Chain library and designer (`routes/agents.ts`, `ChainsSection` of `webui/src/routes/SettingsView.tsx`) | `app.chains`, `app.chain_versions`; in each console the list, the selection, the steps shown, loads and a save under way | create, select, filter, load, edit, save, activate, delete | transactions of two statements at READ COMMITTED; version numbers taken from a list read before; loads answered late, failed or left out while the selection moves on | one active version, none lost; steps are saved to the chain they were made for |
| Chat view (`webui/src/routes/ChatView.tsx`, `lib/api.ts`, `context/chat-sidebar-context.tsx`) | messages shown, the addressed run, the stream that can be cancelled, loads and timers under way, active runs | open a chat, load, send, stop, approve, resume a run | the view is not remounted, so a callback begun in one chat ends in another | text and addressed run are the open chat's; a locked composer is released |
| Session, sidebar and projects (`context/auth-context.tsx`, `context/chat-sidebar-context.tsx`, `components/app-sidebar.tsx`, `nav-projects.tsx`, `routes/chats.ts`, `routes/projects.ts`) | session token and user; the list of chats, stop buttons and project tree of a browser; rows of `app.chats` and `app.projects` | log in and out, poll, edit, move and delete chats and projects, stop a run | answers arrive after a logout, a login or a later edit; polls replace what a handler has just shown | one user's data on the screen, stop buttons while runs run, a list that catches up |
| Skills, ingest, providers, administration, prompts, the rest of the web interface | records, files | single requests | – | out of scope, see section 7 |

Interactions: `routes/runs.ts` and `CronService` call `RunService.executeRun`, which
registers itself, shortens the history (rolling summary), adds what the memory knows,
runs a provider completion (the tool loop) or a chain, and passes every event to its caller's `onEvent` and to the tracker. The tool loop calls
`orchestrator.callTool`, whose internal servers include delegation, which runs a
one-step chain and so a tool loop again. Approvals and stops enter through
`routes/runs.ts`. The scheduler's tools of an agent reach `CronService` through
`routes.ts`. A file is read and written by the scripts of the files skill, which the
agent runs as tool calls and the artifact panel through `routes/artifacts.ts`;
`emitRunEvent` turns the agent's scripts into versions, and the next run is told what a
user has saved. The chains a run executes are versions that the designers save and the
routes under `/chains` activate. A tab starts, watches and stops runs through `routes/runs.ts`, and
learns from the chat which of its runs is active. The sidebar learns it from a poll of the
recent runs, and what it lists from a poll of the chats, under the token of the session.

## 2. Modules

| Module | Models | Runs |
|---|---|---|
| `TurnTranscript` | abstract: what the persistence of an answer promises | (property of `AgentTurns`) |
| `AgentTurns` | tracker, queue, rows, and the events of a provider or chain run | `AgentTurns` |
| `ToolLoop` | the four completion loops with approvals, stop and deadline | `ToolLoop` |
| `RunRoute` | registry, stream state, SSE streams, approvals of one run | `RunRoute` |
| `CronService` | scheduler, its API, the agents' tools, polls, restarts | `CronService` |
| `ChainEngine`, `MCChainEngine` | steps of a chain as threads of frames, its transaction, the stop; the chains checked | `ChainEngine`, `ChainWrites` |
| `EntryLifecycle` | abstract: what the memory promises about one entry | (property of `MemoryStore`) |
| `MemoryStore` | rows of the vector tables and the requests on them | `MemoryStore` |
| `RollingSummary` | the compressed history of a chat | `MemoryStore` |
| `MCMemoryStore` | the two ways an agent is told of earlier runs, one scene each | `MemoryStore` |
| `Orchestrator`, `MCOrchestrator` | MCP servers of a host: connections, processes, status rows; the symmetry of the run | `Orchestrator` |
| `ArtifactStore`, `MCArtifactStore` | a text file, its mirror, the scripts, the panels and the agent's run; the texts of the run | `ArtifactStore` |
| `ChatView`, `MCChatView` | one tab: view, refs, streams, loads and timers, over an abstract server; the symmetry of the run | `ChatView` |
| `ChainLibrary`, `MCChainLibrary` | chains, their versions and the designers that edit them; two scenes | `ChainLibrary` |
| `ChatSidebar`, `MCChatSidebar` | one browser from login to logout: session, list of chats, stop buttons, projects; four scenes | `ChatSidebar` |
| `AgentTurnsProofs`, `ToolLoopProofs`, `RunRouteProofs`, `CronServiceProofs`, `MemoryStoreProofs`, `ArtifactStoreProofs`, `ChatViewProofs`, `ChainProofs` | theorems | – |

The constants of a specification get their values in its `.cfg`; every bound is a
constant and is named as one in the module. Some proof modules are about two components
and extend both. So the names the two would share carry the component's name:
`HostSpec` is the specification of `Orchestrator`, which stands beside `ToolLoop` in
`ToolLoopProofs`; `EngineSpec` that of `ChainEngine`, beside `ChainLibrary` in
`ChainProofs`; `SidebarSpec` that of `ChatSidebar`, beside `ChatView` in `ChatViewProofs`;
`SummarySpec` that of `RollingSummary`, beside `MemoryStore` in `MemoryStoreProofs`.

### AgentTurns

- `turn` is `AgentTurnState`; `queue` the writes hung on `persistenceQueue` and not
  yet executed; `rows` what they stored; `messageId[r]` the content of `rowRef` r.
- The operators `FeedToken`, `FeedTurnStart`, `FeedToolCall`, `FeedError`, `FeedUsage`
  and `FeedComplete` are the branches of `feedAgentTurnEvent`: each gives the next
  tracker state and the writes. `Enqueue` is `emitRunEvent`: the writes, then the row
  of a finished tool. One action per kind of event feeds them; the actions follow
  what a run can send in its phase. Two events that the code emits without an await
  in between (the error and the complete of a loop that gives up) are one action.
- Text is a set of numbered tokens that know their author, so that "whose text is in
  this row" can be asked. `said` records which turn each token belongs to. The
  throttle of one write a second is a nondeterministic tick.
- A write fails before its INSERT or at COMMIT. In the second case `rowRef` holds the
  id of a row that was rolled back (`GhostId`), since it is assigned inside
  `withRls`; later updates then change nothing.
- A *chain* run sends no `dispatch_provider_request` of its own and so has a single
  turn: its steps' tokens, tool calls and errors all belong to it.

### ToolLoop

- One state machine for the four loops; `SharesHandler`, `PassesSignal`,
  `Interruptible`, `BlocksDenied` name where they differ. `pc` is the place of the
  next await: the request, the count setting, an approval, a tool call.
- A reply is its form (stream or block) and its number of calls; results are the
  indexes of the calls that were answered. The tool of a call is chosen when the
  loop comes to it. The next call of a reply is an action of its own even where the
  code reaches it without an await; this adds interleavings and removes none.
- A delegated run is what its caller sees: while the call runs it may ask for
  approvals (`subwait`), after a stop only if the runner passed no signal.
- The model needs no bound on replies: each one that does not end the run has a call,
  and the calls of a run are limited by `max_tool_calls`, as in the code.

### RunRoute

- `registered` is the entry of `activeRuns`, `state` that of `runStreamStates`, `log`
  its events, `pending` the run's map in `pendingToolApprovals`. A connection goes
  from `auth` (its session is awaited) to `open` to `closed`; `heard` says whether its
  close listener was attached before the client hung up.
- `executeRun` is abstract: it emits, its branches ask, it settles when none waits.
  `Blind` branches are those that run a delegated agent without the signal; `ToolLoop`
  shows that they exist.
- `inbox` is what was pushed to a stream, in order; the network is not modelled.
- Requests of a user who does not own the run change nothing and are left out;
  `executeRun` catches every error, so the `.catch` of its promise is not modelled.

### CronService

- `scheduled` and `leaked` are the live tasks: the one in the table, and those the
  table no longer reaches. A task is the `prevent_overlap` it captured. `loads` are
  the calls of `rescheduleAll` between their stop and their installation.
- A handler's COMMIT and the `rescheduleAll` that follows are two actions; so are a
  DELETE and its `stopJob`. A poll of one-time jobs is a claim (`PollClaims`), then a
  COMMIT or a failure, which may have lost only its answer. `Crash` is a restart.
- A row that an open poll has updated is locked: edits of it wait. Deleting a user
  removes the rows (migration V51) and tells the scheduler nothing. A row has either
  a schedule or a run_at (constraint of V63). The server answers requests only after
  the first `rescheduleAll` (`index.ts`).
- `TriggerManually` takes the read of the row and the start as one action. Executions
  of one-time jobs set no mark, so they are counted in `fired` only.

### ChainEngine

- A chain is a constant: a tree of steps (`WellFormed`) with their kinds, bodies and
  counts, which are one or more as the code makes them. Each step has an id of its own;
  a chain in which two steps share one, which the designer can make, is a finding of the
  designer and not modelled here. One
  activation of `runStep` is a frame; a thread is the stack of frames of one chain of
  awaits. A parallel step starts a thread per child and joins them as `Promise.all`
  does: the first failure goes up, the other threads go on with nobody waiting.
- The event loop does not preempt: an answer, a timer or the stop is taken only when
  every thread awaits something (`Quiet`).
- A runner is the main one or that of a sub-chain (an agent that has a chain): each
  activation of such an agent makes a runner of its own. `flag` is `isInsideRetry` of each. `ctx` is what a step leaves in `chainContext`: whether it
  set a field, and its status, which an activation that does not set it leaves alone.
- Whether a guard or condition holds, whether a call succeeds, and which case of a
  branch is taken is chosen freely: templates and answers are data.
- `tx` is the transaction `RunService` opens around a chain. A statement whose error
  is caught spoils it (`StatementFails`); what runs on the client after that fails.
- `sour` is history: the steps whose latest activation ended in an error.

### MemoryStore

- A request is a transaction at READ COMMITTED. A SELECT whose result is used later
  is one action, the statements from the first write to the commit are another, since
  the rows written stay locked. The call to the embedding provider lies between them.
- `by` is `superseded_by`, `from` is `derived_from`. Ids are given out in order and
  never again, like the uuids they stand for. Whether a row has outlived its time to
  live is open, so `CleanupExpired` may take any rows.
- `RunSearches` and `RunStores` are the automatic search and write of a run, an
  arbitrary time apart. `Rank` orders duplicates by the first three criteria of the
  query; class, dates and age are left open.

### Orchestrator

- A link is one connection or one child process, with its life in the operating
  system (`life`) and the runner's note of it (`noted`). `clients`, `cache`, `procs`
  are the three maps; a link no map and no request knows is orphaned.
- A request is where it awaits: the status row (`Written`), the docker network, the
  connection, the closing client, the poll of a stop. `start` walks its servers in any
  order, `stopAll` the names that were mapped when it began, then the runner.
- Status updates are sent and land, or are lost, in any order; those of process events
  are awaited by nobody (`Host`).
- A configuration can be edited between two starts, so each start chooses how its
  server is reached; which of the refusals applies is open.
- `raced` and `smudged` are history: the names opened while an older start or stop of
  them was unfinished, and those whose updates overlapped or were lost.

### RollingSummary

- A message is its place in the chat, a summary the set of messages folded into it.
  That takes the summarizer at its word; its text is not modelled. The counter is what
  it is in the code, a position in the history at hand.
- `History` gives what each caller sends: an open tab, a tab that shows part of the
  chat, a scheduled run. `InOrder` lists the places that a query or a filter selects.
- Whether the token threshold is exceeded is open; the limit on messages is not.

### ArtifactStore

- `disk` is the file, `row` and `versions` its mirror, `panel` what a tab shows,
  `script` the script each tab and the agent have running and, after it, the transaction
  that records its outcome, `queue` the part of the run's persistence queue that concerns
  files. A checksum is the text it names.
- `read.py` is two actions (checksum, text), `write.py` four (check, move to the trash,
  write, checksum): between any two of them another script or program may be at the
  file. The timeout of the cli server may kill a script between them.
- What is read or stored of a text is not always that text. `Ended` gives it the newline
  it lacks at its end, `Unix` LF for CRLF and CR. The scripts do both (`Normal`): they add
  the newline, and Python's text mode translates line ends. Route, panel and the envelope
  of a write only do the first (`Stored`, `SaveAnswer`, `WriteEnvelope`), so a draft with
  CRLF is recorded as it was sent under the checksum of a file with LF. An editor is a
  textarea and types LF; CRLF comes with a block of an answer. `Captured` is the beginning
  of a long file, which the parser takes for the whole of it.
- `Looks` and `Lands` are the INSERT of `recordVersion` and its COMMIT: of two
  transactions between which neither has committed both insert. A promotion by the queue
  is one action, since another transaction's INSERT may fall before or after it anyway.
- The panel's `Types` happens at any time, also during a save. A closed panel has no
  request: one that is closed during its request is one whose answer is lost, and
  another tab covers its being opened again. Reload after a conflict is `Opens` for a
  panel that was opened on a file, and `ReloadsDraft` for one that was opened on a block.
- `told` is what `buildChatArtifactContext` compares by dates: the versions older than
  the last message of the agent. Every run is one of a chat that refers to the file.
- `overlap` and `foreign` are history: two were at the file at once; others, or an answer
  that was lost, have outdated a panel's checksum.

### ChatView

- `view` is `activeChatId`; `runRef`, `cancelRef`, `finishRef` are `serverRunIdRef`,
  `streamCancelRef`, `finishRunRef`; `loading` stands for `loading` and `isProcessing`,
  which every handler sets together; `shown` is whose texts are among the messages.
  `tracked` is `activeRunByChatId` of the sidebar, `fetches` the `fetchHistory` calls
  under way (a load that its effect has superseded is not `live`), `timers` the calls of
  `finishRun` that are due.
- A change of chat is the navigation together with the effects of its render
  (`LeaveChat`, `Leave`): what they reset is in one action with what caused them.
- A stream is a POST or a resumed GET and goes `sent`, `answered`, `open`, `closed`;
  a POST whose request was aborted on its way is a `ghost` that may still arrive. A run
  has the number of its POST.
- The server keeps to what `RunRoute` shows of it: each stream has the log of its run from
  the beginning, in order, and then its end. Connections drop and requests fail at any
  time.
- The approvals of a resumed stream have no call id (`call`), and the server finds a call
  under that id only, so `Approve` takes no others.
- `strays` is history: the runs whose stream was left uncancelled by a second resume, or
  that a load for a chat that is no longer open has resumed.

### ChainLibrary

- `exists` and `versions` are the rows of `app.chains` and `app.chain_versions` as
  committed. The two statements of a save (INSERT, sweep) and of an activation (clear,
  set) are actions of their own, and a statement that has to wait for the rows of another
  transaction is taken in two: it begins with what is committed (`seen`) and ends when
  those rows are free (`Held`). `Pending` is what the unique constraint makes an INSERT
  wait for.
- Per console, `known`, `sel`, `steps` and `last` are `chains`, `selectedChainId`,
  `chainSteps` and `lastLoadedChainRef`; `loads` the calls of `loadChainSpec` that await
  their answer, `save` the call of `persistChainSpec` under way, with the chain and the
  steps of its click; `deleting` a deletion that awaits its answer.
- Of the steps shown the model keeps which chains they were made for: `steps` and
  `save.of` are sets of chains. What a step contains is data.
- The effect on the filtered list (`Settles`) runs with the render that follows each
  change and is one action with its cause.
- `astray` and `raced` are history: the steps shown may be another chain's, since a load
  is under way, failed, was overtaken or left out; a save has committed between the two
  statements of an activation.

### ChatSidebar

- `token` and `me` are the state of `AuthProvider`; `asked`, `refreshed` and `leaving` its
  requests to `/auth/me`, `refresh` and `/auth/logout`, each with the session whose token
  it carried. `Becomes` is the render after either changed: what the effects of
  `ChatSidebarProvider` and `AppSidebar` empty, load and leave is in one action with it.
- `listed`, `stop` and `folders` are `messages`, `activeRunByChatId` and the sidebar's
  projects; `lists`, `recents` and `opens` answers under way, each with what the host read.
  They are kept in sets, since any of them may arrive first, and two equal answers have
  equal effects. `todo` holds the handlers that await the answer to an edit: what they do
  then (drop the entry, ask for the list, ask for the projects) depends on where in the
  sidebar the edit was made.
- `reading` names the runs whose stream the page reads and has seen no `complete` event on.
  That event enters the chat in the list when the output was not streamed
  (`StreamCompletes`), also after a logout, which takes the view away and leaves the stream.
- `SeemsOver` is what `/runs/recent` makes of a run that has not ended: an error as its
  last event, or an age of more than an hour (`RunAges`), is answered as `error`.
- The host's side is `valid`, `chats`, `parent` and `runs`. A logout leaves the session
  valid: its DELETE names no user to the database, so row-level security lets it see no
  row (`SessionExpires` is the only end of a session). Moving a project checks nothing, so a
  project may come to lie below itself; its deletion then has no end (`HasEnd`).
- `hidden` and `mixed` are history: the runs whose stop button may be gone early, since an
  error was glimpsed, the run was an hour old, a stream broke off or a late load answered;
  an answer to a poll or to `refresh`, or the `complete` event of a run, came in after its
  session had ended.
- The caps on the lists (`slice(0, limit)` in `loadChats`, chat-sidebar-context.tsx 703, and
  the limits of the queries) are left out: `ListCatchesUp` is about users whose chats the
  list has room for.

## 3. What the passing runs show

**AgentTurns** (2 turns, 3 tokens, 2 calls, both kinds of run; 170,511 states).
`OneRowPerTurn`: agent rows are one per turn, in order, whatever fails.
`TextBeforeItsTools`: a turn's row sorts before its tools' rows.
`ClosedTurnStored`: a closed turn of a provider run is stored with its whole text.
`ImplementsTranscript`: refinement of the abstract transcript. Two turns are enough to
confuse one turn with another, three tokens to have a text before, between and after
two calls.

**ToolLoop** (four runners, two tools of which one delegates, 2 calls a reply, a
limit of 3; 95,000 states). `EveryCallAnswered`: at each request every call
of the last reply has exactly one result, in order. `ToolsRunByConsent`: only granted,
remembered or just answered calls run. `SuccessIsEarned`: a run sealed as a success has
reported no error and was not stopped before its reply. `StopEndsLoop`: after a stop
the loop ends. A limit of three lets
the loop detection (the fourth repetition) happen, and the limit fall inside a reply of
two calls.

**RunRoute** (three connections, two branches of which one is blind, two call ids, two
events; 27,000 states). `FeedsAreComplete`: every stream has the whole log, once and in
order. `StateIsFreed`: the stream state of a finished run is freed, by whichever comes
last. `StopSettles`: a stop ends the run.
Deadlock is not checked: once a run has settled and its connections are closed, nothing
is left to do.

**CronService** (one job, 4 reschedules, 2 executions of each kind, 1 restart; 131,000
states). `EditTakesEffect`: when the latest reschedule is through, every active
schedule has a task with its latest settings, in whatever order the calls finished.
`MarksFollowRuns`, `OneTimeFiresOnce`, `DueJobIsClaimed`. Jobs meet only in `loads`,
which are shared; with two jobs the state space is beyond a quick run, and the proofs hold
for any set of jobs.

**ChainEngine** (eight chains; 60,088 states). The chains are the shapes in which
failures travel differently: nested retries with a guard and a success condition; a
parallel step inside a retry whose loop goes on after a sibling failed; a retry beside a
plain step; a sub-chain with a retry of its own inside a retry; a branch over a parallel
step, a question and an unknown step type; the one-step chain of a delegation; two agents with
chains side by side, begun again while the first pair may still be under way; a loop over
a retry that may be skipped. At most
five threads live at once: the two of the last attempt, their parent, and two of an
abandoned one. `NobodyWaitsInVain`: whoever waits for branches waits in the end for one
that can go on, also after a branch has failed and left its siblings behind.
`OnlyAStopThrows`: failures end no chain. `RetryRepeatsOnErrors`: a retry
that reports success has no failed step in its last attempt. `NothingDispatchedAfterStop`,
`StopSettles`. Deadlock is not checked: a chain that has ended does nothing.

**MemoryStore** (two scenes; 479,069 states). In one the entries of the long-term memory
are used (3 rows, 5 requests, 2 in flight, one namespace, two texts), in the other the
summary of a chat (two runs at once, a limit of 3 messages, up to 7 messages); neither
reads what the other writes. `ImplementsLifecycle`: every row lives a life `EntryLifecycle`
allows. `NoEdgeLeftBehind`: of the operations that remove rows only two leave edges to
them. `DeletionTakesQuotes`: deletion follows quotes of quotes; three rows make a chain
of two quotes, one more than a single round finds. The code stops after ten rounds, which
three rows do not reach. `DuplicatesKeepTheBest`: the clean-up
takes no text and no confirmation out of sight. `NothingFallsBetween`: whatever another run
compresses in between, each message of a run's history reaches its model in the summary or
in the tail. `CounterMatchesText`: the stored summary holds exactly the messages its counter
covers, also after two runs have overwritten each other's. The last two are about callers
that send the chat's own history, as tabs do.

**Orchestrator** (one name, 3 links, 2 requests at once, 4 in all; 2,160,000 states).
`OnlyRacesOrphan`: a process that nothing can stop any more has a name that was
opened again while an older start or stop was unfinished. `CacheIsCurrent`: cached tools
were listed by the connection that is there now, under the same condition. `RunningIsHad`:
a settled row that says running is a server the host has. Names meet only in the
loop of a start and in `network`; two links show an orphan, the third a later owner.
Requests are interchangeable (`SYMMETRY`), which is sound as the run checks invariants.

**ChatSidebar** (two users, two chats, two projects, two sessions, two runs, two requests
of a kind, two edits; 921,077 states). Four scenes, since what one changes the others do
not read: users sign in and out; a user leaves the browser to the other with a run under
way; one user edits chats and projects; one user starts and stops runs, which may grow old. `OneUserOnScreen`: name and chats on the screen are those of the session whose
token is sent, except when an answer, or a run's last one on its stream, crossed a login. `StopButtonStays`: a run the page
started keeps its stop button until it ends, but for the four ways that `hidden` records.
`ListCatchesUp`: when the edits end, the list becomes the host's and stays so. Two of each
are the one that was and the one that replaces it. Deadlock is not checked: the bounds run
out.

**ArtifactStore** (one panel beside the agent and other programs; four texts: one, the same
without its last newline, the same with CRLF, and another that is too long for a read; three
requests, two drafts or changes, one call, one outside change, one run, one turn; 12,250,961
states). `SavesSpareOthers`: a save moves to the trash only the text its user was shown or
last saved, up to line ends and the last newline, and replaces none. `WritesAreMirrored`: a
version the agent wrote holds byte for byte the text its checksum names, one from a panel
but for its line ends, and what a run is told to be the user's wording is, as far, what a
user's save left in the file.
`ConflictsAreForeign`: only what others did, or an answer that was lost, makes a save be
refused. The agent is the second writer; a second panel would repeat it, and the proofs hold for any
number. Deadlock is not checked: the bounds run out.

**ChatView** (two chats, two streams, one event a run, two loads; 3,588,570 states).
`ViewIsOfItsChat`: however loads, streams, timers and changes of chat interleave, the texts
on the screen and the run that Stop and the approvals address are the open chat's, except
for strays. `LoadingHasEnd`: as long as the composer is locked there is something that
releases it. Two streams are a run and the one that replaces or resumes it, and two loads
are the wanted one and the superseded one; a second event would only repeat the first.
The chats are interchangeable (`SYMMETRY`), which is sound for invariants. Deadlock is
not checked: the bounds run out.

**ChainLibrary** (two designers, two clients, two chains, two versions each, two loads; 1,672,414
states). In one scene a designer does all it can while another saves and deletes; in the
other both save and delete while two clients activate versions. Crossed, the scenes would
not finish, and nothing one of them changes is read by what the other leaves out.
`OneActiveVersion`: a chain has two active versions only if a save committed between the
two statements of an activation, and only until the next save or activation.
`SavesGoHome`: a save posts steps to the chain they were made for, unless its designer was
astray at the click. Two versions are the one that is and the one that takes its place.
The chains are interchangeable (`SYMMETRY`), which is sound for invariants. Deadlock is
not checked: the numbers run out.

Type invariants are proved (section 6) and, but for that of `ChainEngine`, not among the
properties of the runs; neither are `NoWaitAfterStop` of
`ToolLoop`, `StaysRunnable` of `ChainLibrary`, `SerialEditsAreExact` of `CronService`,
`StatusAndEdgeAgree` of `MemoryStore` and `TypingSurvives` of `ArtifactStore`, which are
proved as well.

Every property has a mutant, a plausible bug written beside the definition it would
be in (`\* Mutant:`), under which TLC finds the property violated.

## 4. Where the code disagrees with its documentation

One run is expected to be violated; `PROJECT.json` quotes the line.

- `ChainWrites`: a chain reports memory writes that its COMMIT rolls back, because a
  caught error has spoilt the transaction.

`PROJECT.json` lists forty-five further disagreements without a run of their own: in the
persistence (errors of delegated runs, texts of failed chain runs), the tool loop
(delegated runs that miss the stop, the mode `denied`), the scheduler (ghost tasks, the
claim of one-time jobs, `prevent_overlap` undone by a manual execution), the chain engine (retries and agents, one flag for parallel
branches, `failed` and `error`, undocumented types and limits), the orchestrator
(overlapping starts and stops, the exit of an old process, rows left `pending`, dry runs,
the rejected network), the memory (entries hidden by a deleted namespace's, refreshed
hidden rows, lost expiry, resurfacing entries), the artifacts (cut reads taken for whole
files, edits the agent is not told of, overlapping saves, the reload of a saved draft,
conflicts with oneself, CRLF recorded under the checksum of LF), the rolling summary (the histories of scheduled runs), the chain
designer (two active versions, steps of the chain before, fields and changes that are not
saved, repeated step ids), the session and the sidebar (a late failure of one session's
`/auth/me` that ends the next, stop buttons that vanish with a glimpsed error or after an
hour, a stream that outlives its session), the projects
(a renaming that moves to the top, chats that a deletion keeps, a project below itself) and
the chat view (messages a long chat does not load, streams a
second resume leaves running, the first request of a new chat aborted by its own navigation,
approvals of resumed streams, answers a resumed stream takes off the screen).

The passing properties state what the code does keep, so they name these exceptions:
`ClosedTurnStored` speaks of provider runs, `NoWaitAfterStop` and `StopEndsLoop` of
runners that pass the signal, `StopSettles` of branches that have it,
`SerialEditsAreExact` of reschedules that did not overlap, `MarksFollowRuns` of jobs
executed once at a time, `StateIsFreed` of clients that
were heard, `OnlyAStopThrows` and `RetryRepeatsOnErrors` of chains without a retry below a
parallel step, `OnlyRacesOrphan` and `CacheIsCurrent` of names that were not raced, `SavesSpareOthers` and
`WritesAreMirrored` of files nobody else was at, `ConflictsAreForeign` of answers that
arrived, `ViewIsOfItsChat` of runs that did not stray, `OneActiveVersion` of chains that
were not raced, `SavesGoHome` of designers that were not astray,
`OneUserOnScreen` of answers and streams that did not cross a login, `StopButtonStays` of runs that were
not `hidden`, `NothingFallsBetween` and `CounterMatchesText` of callers that are tabs.

## 5. Fairness

- `ToolLoop`: code between awaits runs; a stopped request rejects; a CLI process is
  killed after its timeout; a stopped tool call settles, because `callTool` races it
  against the signal, or the MCP request times out, or the delegated run ends. No
  answer of a provider or a user is assumed.
- `RunRoute`: a stopped run settles (which `ToolLoop` and `ChainEngine` show, for a run
  that waits for nobody); the server closes an ended response. Nothing is assumed of
  clients.
- `CronService`: a poll is made (every 30 seconds), a transaction ends, and not every
  poll fails; a reschedule ends. Strong fairness of the COMMIT says that the
  database does not refuse for ever; edits may still take the job away.
- `ChainEngine`: code that can run runs, timers fire, providers, tools and the database
  answer or fail, and the abort listener rejects a pending question. No user answers.

- `ChatSidebar`: the interval that polls the chats fires while a user is signed in, an
  answer that is under way arrives or fails, and so does that to a logout, to `/auth/me` and
  to an edit. Nothing is assumed of users, of runs or of the poll of the runs.

The other specifications state safety only and assume nothing.

## 6. Proofs

The proof modules hold for every value of the constants that their assumptions allow
(`BoundsAssumption`, `RouteAssumption`, `CronAssumption`, `MemoryAssumption`,
`ProcessAssumption`, `TextAssumption`, `BoundAssumption`, `ViewAssumption`,
`LoopAssumption`, `LibraryAssumption`, `SidebarAssumption`, `ChainAssumption`,
`ServersAssumption`, `RequestsAssumption`; TLC evaluates them too). Two theorems have a
hypothesis of their own, which is named below.

- **AgentTurnsProofs**: `TypeOK`, `OneRowPerTurn`, `OwnTextOnly` (no write, queued or
  stored, holds another turn's text; only proved) and the refinement
  `Spec => ImplementsTranscript`. The inductive invariant follows a write from the
  tracker through the queue to its row. A call or a sub-run exists only in phases
  that have one (`CallInv`). Queue and rows are sorted: a write stands before those of
  later turns and those of its own turn with more text, and what the tracker may still
  write belongs behind all of them (`TextInv`). `messageId` names exactly the row of
  its turn (`RowsNamed`). Without the order a late write could put a stored text back,
  which the refinement forbids; without the names an update could hit another turn's
  row.
  `TextBeforeItsTools` and `ClosedTurnStored` are about what *is* written, so they need
  more: `OrderInv` reads rows and queue as one log and says of every turn that lost no
  write what that log holds. A tool's row, stored or queued, has a write of its turn before
  it (`HeadInv`); a turn that is past, or finalized, or whose run is over has a write
  (`KeptInv`); in a provider run the last of its writes holds the whole text and does not
  mark the row as streaming (`WholeInv`). `GhostInv` says that an id of a row that was rolled
  back belongs to a turn that lost a write; `StandInv` and `StreamInv` say where the tracker
  stands while the run goes on, without which its next write could not be placed.
- **RunRouteProofs**: `FeedsAreComplete`, and seven more that are only proved: `TypeOK`,
  `FinishedStateHeld` (a finished run's state exists only while a stream is left to free
  it), `RunningIsStoppable`, `PendingIsAwaited`, `WaitingIsAnswerable`,
  `StopReleasesWaiters`, and that the state of a run that is over drains
  (`RouteStateDrains`). Streams and approvals do not touch, so there are two inductive
  invariants: `StreamInv` (with `Attached`: an open and heard connection is in the
  state's set unless the run is over) and `ApprovalInv` (the three approval properties
  are inductive only together). `RouteStateDrains` is the safety half of `StateIsFreed`:
  once a run is over no stream joins its state; unless a client left early, each one left
  is ended, open and heard and so may close at once; and the last one frees the state. It
  needs `Leaving`: an attached stream is heard exactly if its client has not hung up.
- **CronServiceProofs**: the four invariants of the run and `TypeOK`. Each has a small strengthening:
  `RoomInv` (the bound leaves room for the handlers that have committed), `RowInv`
  (rows an open poll has claimed are still due, deleted rows are gone), `FireInv` (an
  active one-time job has not fired since it was set), `CrowdInv` (a job that is not
  crowded executes once at most), `FreshInv` (the latest load carries the settings of
  the rows once every change has been followed by a load), `SerialInv` (without a
  race one load at a time, which finds the table empty).
- **MemoryStoreProofs**: `StatusAndEdgeAgree`, the refinement `Spec => ImplementsLifecycle`
  and the three action properties of the run, for any number of rows, clients, namespaces
  and texts. The inductive invariant is
  `TypeOK` and `StatusAndEdgeAgree` together: the condition of the status UPDATE
  protects the second only where the first gives the row its fields. Each operation on
  the table (mark, clear, remove, insert, patch) has a lemma that it keeps the rows
  well formed, and one that each entry takes a step of its life.
  A deletion follows quotations round by round: `Reached` says that after n rounds every
  row within n quotations of the deleted ones is found. That n rounds suffice needs that
  quotations end sooner, which follows for a store of at most ten rows from the ids: an entry
  quotes older ones only. So `MemoryDeletionTakesQuotes` has the hypothesis
  `MaxRows <= MaxRounds` (the ten rounds of `memory/adapter.ts`), and
  `MemoryQuotesGoInRounds` says without it what holds for a store of any size: a deletion
  takes all quotes along whenever no chain of quotations is longer than the rounds.
  The rolling summary is proved in the same module: `NothingFallsBetween` and
  `CounterMatchesText` for any runs, messages and limit, with the hypothesis that all
  callers are tabs; with others both are false, which is a finding. `SummaryInv` says that
  the summary holds the first messages that a tab sees, as many as its counter says; that a
  run's history is a beginning of what a tab sees *now*, since chats only grow; and that what
  a compression started from is a summary of its history. Then whichever of two overlapping
  compressions is stored last, text and counter are one statement. `InOrder`, which lists
  places, is a recursive function; what it returns (`InOrderReads`, `InOrderGrows`) is
  proved from the least number at which it could fail, by well-founded induction on a set
  of counterexamples.

- **ArtifactStoreProofs**: the four properties of the run and `TypeOK`, for any number of
  panels and texts. `Fresh` says of each panel that is not `foreign` that its checksum is
  the file's, or becomes it with the answer under way; a request therefore cannot be
  refused. `Undisturbed` follows a save through its steps: without an overlap the file
  holds what the script found, and what it found is what the panel showed, up to `Normal`. `Mirrored`
  follows a text from the script through envelope and queue to the version.
- **ChatViewProofs**: both properties of the run and `TypeOK`, for any number of chats,
  streams, events and loads. `Origins` says which chat a stream, a tracked run and a load
  belong to, so that a callback can be asked whether it is still at home. `Held` says that
  a live stream is the one `streamCancelRef` holds, and is the open chat's, unless its run
  has strayed; cancelling that one stream on a change of chat is then enough.
  `LoadingHasEnd` is inductive given these.
  The sidebar is proved in the same module: its types, `OneUserOnScreen` and
  `StopButtonStays`, for any users, chats, projects and bounds. `SessionInv` adds to the
  first that an answer to `GET /chats` holds one user's rows, that a page with a token but
  no user has asked for nothing and reads no stream yet (so nothing of an earlier session can
  arrive in it), and that nobody signed in means nothing listed; `RunsInv` adds to the second that an answer
  calls ended only what has ended or is `hidden`.

- **ToolLoopProofs**: `TypeOK`, `EveryCallAnswered`, `SuccessIsEarned`, `NoWaitAfterStop`
  and `ToolsRunByConsent`, for any tools, runners and limits. The inductive invariant says
  that results are the answered calls in order, up to the call the loop is at (`InStep`),
  that the outcome is written once, as the loop ends (`Sealed`), and that remembered
  permissions are answers (`Consented`).
  `LoopStopCountsDown` is the safety half of `StopEndsLoop`: the places of the loop are
  ranked by how far they are from its end, and after a stop that is passed on each step
  but the deadline's leads to a lower one, at most four in all, so that none begins a
  request or a tool or asks.
  The orchestrator is proved in the same module: `HostTypeOK`, `OnlyRacesOrphan`,
  `CacheIsCurrent` and `RunningIsHad`, for any servers, links and requests. `LinksInv` says
  that the maps name links of their own kind and server and that the runner's note tells a
  living child from a dead one (`KindsInv`), that a request has in hand a connection of the
  server it is at, in the state it awaits, and nobody else opens the same one (`HandsInv`),
  and that two connections, or two children, of one name make the name raced (`RacesInv`,
  `KillsInv`). An orphan is then the second of two. `RowsInv` says of a row whose updates
  neither overlapped nor were lost what it says once its one update has landed.
- **ChainProofs**: both properties of the run, `TypeOK` and `StaysRunnable`, for any
  chains, designers, clients and versions. `Numbered` says that the numbers of a chain have
  no gap; so one save at a time can have inserted the next one, and what a sweep does not
  see is only its own row. `Saving` and `Activating` follow what the two transactions
  have seen. That a list has a greatest number is taken from well-founded induction.
  `Born` and `Steady` say whose steps a designer shows that is not astray.
  The chain engine is proved in the same module: `EngineTypeOK`, which includes that no
  loop or retry begins a round beyond its count, and `NothingDispatchedAfterStop`, for any
  well-formed chains (`ChainAssumption`) and any bound on threads. Types alone are not
  inductive, since what a step returns to is only on the stack: `ShapeInv` says that a frame
  stands on one that may call its step, that it lies deeper in the tree than the other
  frames of its runner, and that the place of a thread fits its top frame.
  `OnlyAStopThrows` and `RetryRepeatsOnErrors` follow from `EngineInv`, which adds to
  types and shape `TreeInv` and `FlagInv`. `TreeInv`: while the run lasts its own thread
  stands on the chain that was started; every other thread has only steps below a
  parallel step on its stack; and a thread that has branches waiting to report is itself
  waiting for them. So in a chain without a retry below a parallel step every retry is
  on the stack of the run's own thread. `FlagInv`, of that thread: the flag of a runner
  is set exactly while a retry of the runner is under way, and an inner retry puts back
  what the outer one needs (`Marked`, `Honest`); of the steps an attempt has called,
  none but agents is noted as failed (`Tried`, `Below`); and until a stop something
  raises only inside a retry, in the thread or in those it waits for (`Clean`,
  `Guards`). The steps of a thread are first shown to be ten moves on its own stack
  (`ActMove`), so that the invariant is argued over those. The attempt to prove it
  showed that the notes of failed steps in an earlier version of the model survived into
  the next call of the same step, which made `RetryRepeatsOnErrors` false for a loop in
  a loop over a retry, a shape none of the eight chains has; a call now clears its note.
  `NobodyWaitsInVain` is not about one thread but about any set of them. `WaitInv` says
  that a thread that waits has a branch which will report to it, and that the steps on a
  branch's stack stand deeper in the chain than the one that waits. Of threads that waited
  only for one another each would have a branch that stands deeper, which a finite set
  does not allow (well-founded induction on its subsets). That the threads are finite
  follows from `MaxThreads`, that levels grow from the chain being a tree.
  `EngineStoresAllOrNothing`: the rows of `memory_write` are stored in one step, all that
  were reported by then or, if a statement has failed or the run has thrown, none; nothing
  is stored before or after (`WritesInv`). It is what the code keeps of the sentence that
  `ChainWrites` refutes. `EngineStopCountsDown` is the safety half of `StopSettles`: what a
  thread has left is five for each frame of its stack and the rank of its place; after the
  stop no thread is started, none gets more, and each step ends one or takes
  something off one.

Only model-checked: everything temporal beyond a box (`StopEndsLoop`, both `StopSettles`,
`StateIsFreed`, `DueJobIsClaimed`, `ListCatchesUp`), since TLAPS does not prove liveness
under fairness. Of the stop of a loop, the stop of a chain and the freeing of a run's state
the measure that goes down is proved; that some step is always enabled and taken, which
would need `ENABLED`, is what the runs add. Every invariant that a run checks is proved.

## 7. Not modelled

- **Chain engine**: the nodes-and-edges form of a chain, template rendering, the prompt
  and tool list of an agent step, the refusal of private addresses in REST calls,
  limits of output. The events a chain sends are in `AgentTurns`. An agent step is one
  answer, though it awaits several things (chain-runner.ts 464, 551, 623, 675, 700, 818)
  between which it does not look at the signal: one that is under way when the stop arrives
  may still list its tools and search the memory, which `NothingDispatchedAfterStop` does
  not count as a dispatch. The profile of an agent with a chain is loaded (464) before its
  runner starts (490); the model starts it at once, and a profile that cannot be loaded is a
  failure of plain agent steps only.
- **Chain designer**: steps made while no chain is selected are made for none; they leave no
  trace in `steps`, and a save of nothing but such steps is left out
  (SettingsView.tsx 6548-6639).
- **Orchestrator**: `callTool` (its race with the stop is in `ToolLoop`), validation and
  preview of configurations, the arguments of docker. Liveness of its requests was left
  out for its cost. A restart of the host empties the maps and leaves the rows as they
  are, which would only say that rows may be stale.
- **Memory**: embeddings, ranking, decay of scores, re-embedding into another table,
  access policies and row-level security, audit rows, times to live (any row may have
  expired). No caller in the host asks `deleteDocuments` for a hard delete.
- **Rolling summary**: the summary's text, its cap, and the skills attached again.
- **Run**: `run_logs`, the snapshot of memory hits, the read-only lists of
  `routes/runs.ts`. The pool of database connections, which is what could make several
  chain runs wait for each other.
- Delegated runs in `ToolLoop` end when their caller's call is given up; in the code
  such a run may go on for a while after the race is lost. The auto-approval of the
  task manager, which awaits a second tool call and cannot fail the first.
- **Artifacts**: binary files (their cards, `/raw`, the text cache of PDFs), the references
  of chats and messages, reads of several files, deletion of artifacts, `artifact_read`.
- **Session and sidebar**: a second tab of the same browser, which shares the token but not
  the state; a signup that awaits approval; the order of entries, their previews and caps;
  dragging. The check of
  passwords and roles.
- Administration, agents, prompts, providers, secrets, skills: handlers of one
  transaction each, without state between requests.
- Ingest, prompt text, cost, logging, metrics: text, arithmetic and presentation.
- **Web interface**: leaving the route of the chat, the automatic approval modes, the trace
  panel, attachments, voice and titles. The settings, automation and administration views,
  the translations and the components, about half of the repository's code, are forms over
  what the server holds; their rules of display have no state machine to speak of. These
  parts are why the models stand for a sixth of all lines, and for most of the files named
  in section 1.

## 8. Plan

The pool of database connections with several runs.

To check a model: `tlc -config AgentTurns.cfg AgentTurns.tla`; to check the proofs:
`tlapm AgentTurnsProofs.tla`.
