# A TLA+ verification of hermes_agent_go

hermes_agent_go is a command-line agent: it reads lines from a terminal, runs a
graph of nodes (call the model, run its tool calls, compress the history, end)
for each, and talks to model providers, MCP servers, a SQLite session database
and memory files.  Beside it stands a graph editor: a page in the browser in
which such graphs are drawn, with a small server that validates them.  This
directory specifies the parts of it whose order of
events is hard to test, checks them with TLC on small instances and proves the
main invariants with TLAPS for every value of the constants.

1. Inventory of the system
2. What is modelled, module by module
3. The runs, their bounds and what they show
4. Where code and documentation disagree
5. Fairness
6. The proofs
7. What is only model-checked, and what is not modelled
8. Plan

## 1. Inventory

Paths are relative to `src/`.

### How the parts interact

    terminal --lines--> select loop (cmd/hermes/main.go)
      SIGINT/SIGTERM --> signal goroutine -- cancel --> the running turn
      startRun --> AIAgent.Run --> executor --> node runners
                                     |             |-- provider (HTTP stream) <- credential pool
                                     |             |-- tools: builtin, delegate, memory, MCP
                                     |             '-- compressor (model call)
      delegate_task_async --> child agent --AddNotification--> list + notifCh --> select loop
      MCP handlers --> Server --> StdioTransport <--readLoop-- subprocess
      shutdown --> session database, memory provider, MCP manager

    editor page: canvas (React Flow) -- changes, drops, selection --> EditorShell
      EditorShell <-- edits of a config -- inspector      EditorShell -- toWire --> export
      EditorShell <-- fromWire -- import dialog           EditorShell -- toWire --> editor server
      error panel <-- errors -- editor server (the loader's checks, validate.go)

In the agent there are three kinds of shared state: the agent's two message lists
(`AIAgent.messages` and the executor's `ConversationMemory`), the channels of
the select loop, and the maps under locks of the stores and of the MCP client.
The editor shares nothing with a running agent but the format of documents.  Its
state is in one page: the arrays of nodes and edges, which React Flow changes
too, the selection, which React Flow reports and handlers set, the error list,
and what the widgets of the config form keep for themselves.

### Core components

| Component | State | Operations | Hard behaviour | Correct when |
|---|---|---|---|---|
| Graph executor (`pkg/orchestrator/executor`, `runner`) | current node, step count, attempts, working memory, snapshot | Execute, Resume, executeFrom, runWithRetry, matchCatch, Route | Catch and OnError jump back; retries; pause and repeated resume; cancellation during back-off | one budget bounds all of it, each execution ends, a resume continues with what was left |
| REPL session (`cmd/hermes/main.go`, `pkg/agent/agent.go`) | pending queue, isRunning, runCancel, runDoneCh, notifCh, pendingNotifs | select cases, startRun, Run, AddNotification, doShutdown, signal handler, handleAsync | five kinds of goroutine; a one-place signal channel; cancel pointer loaded and used later; interrupts that drop the queue | one turn at a time, lines in order, notifications conserved and announced, exit after shutdown |
| Conversation (`agent.go`, `context/compressor.go`, `runner/llm.go`, `parallel.go`, `tool.go`) | ConvMem.Messages, AIAgent.messages | append of answers and results, concurrent tool calls, Compress, the copy at start and end of a turn | concurrent appends, a turn failing anywhere, compression cutting at any token boundary | each tool call has its results right after it, each result its call, and both histories agree |
| MCP over stdio (`pkg/tool/mcp/stdio.go`, `server.go`, `manager.go`) | pending map, closed, closeCh, error counts, server state, the subprocess | Connect, Send, readLoop, Close, Shutdown, tool handlers with the breaker | answers late, doubled or never; Close, timeout and readLoop racing for a channel; death of the subprocess | no send on a closed channel, no stranded caller, the breaker opens in time, no process left behind |
| Model calls (`pkg/model/openai`, `deepseek`, `agent/credential/pool.go`) | per call: attempt, credential, stream builder; in the pool: cool-downs, round-robin index | doRequestWithRetry, Chat, ChatStream, Acquire, HandleError | several callers report errors on the same credentials; streams cut anywhere | no retry with the refused credential, an answer is what was sent, each call returns |
| Graph editor, web client (`web/src`) | nodes, edges, selection, errors, idSeq, the texts of the form | drop, connect, select, delete by key and by button, import, export, validate, focus an error, edit configs and edges | answers of the server out of order and after edits; the canvas reports a selection after a handler has set its own; widgets keep text across renders; ids given by several sources | ids, start and edges stay consistent, nothing is lost between canvas and document, errors are about the graph they are shown with, an edit goes to the node on display |

### The rest

| Component | State and operations | Hard behaviour | Correct when |
|---|---|---|---|
| AIAgent construction, skills, prefetch (`agent.go`, `prompt/builder.go`, `builtin/skills.go`) | messages[0], active skills, depth; NewChildAgent, SetActiveSkills, prefetch | the prefetched memory replaces the whole system message | an active skill stays in the prompt; children end at the depth limit |
| Graph loading, default graph (`graph_json.go`, `graph_builder.go`) | none after loading | targets are not checked | a name that is no node is an error when reached, never a crash |
| Tool invocation (`adapters/tool_invoker.go`) | none; merges arguments, calls the registry | an interrupt travels as an error | result, error and interrupt stay apart |
| Delegation (`tool/delegate`) | child agents, batch semaphore; handle, BatchDelegate, handleAsync | children outlive the turn that started them | depth bounded, results in order, one notification per child |
| TODO store (`builtin/todo.go`, `state/todo_persist.go`) | items under a lock; persist in a goroutine per change | snapshots written in another order than taken | the database ends with the last list |
| Session database (`state/session_db.go`) | messages, sessions, write counter; executeWrite with 15 retries, checkpoint every 50 | busy database, shutdown save stops at the first error | what was said is saved once, in order |
| Memory files (`agent/memory/store.go`, `builtin.go`, `manager.go`) | entries per file; add, replace, remove: reload, check, limit, temp file, rename | several processes on one directory, errors ignored | no entry the tool confirmed is lost |
| Mempalace (`agent/memory/mempalace`) | drawers on disk, index, vector store; triples and entities in two files | callbacks under a lock, partial failures, reload in the background | disk, index and vectors agree |
| Condition language (`orchestrator/condition`) | none; Parse, Evaluate | precedence, short circuit, missing names | evaluates as its grammar says |
| Streaming pipe, ExecuteStream (`schema/pipe.go`, `executor/stream.go`) | a channel with a close flag | closing by either end | no send on a closed channel (no caller uses it) |
| MCP over HTTP, configuration (`mcp/http.go`, `config.go`) | an HTTP client | none | pure I/O |
| Router (`pkg/model/router.go`) | a map under a lock | filled before the session starts | |
| Registry (`tool/registry`) | a map under a lock | filled before the session starts | |
| File, shell, terminal and web tools | none | subprocess and network I/O | |
| Tracing, logging, errors | spans | observation only | |
| Configuration (`pkg/types`) | read once | merging of files | |
| Graph editor, server (`cmd/hermes-editor`, `pkg/grapheditor`) | none; validate, schemas, files | the nodes of a document are read in random order, so one of several faults is reported | an empty answer means that the loader accepts the graph |
| Graph editor, cards and layout (`NodeCard.tsx`, `layout.ts`) | none | positions and appearance only | |

PROJECT.json lists every component with its files, and the hazards: what a
test would hardly reach, each at its line, with the properties that watch it.

## 2. What is modelled

Every definition that stands for code is listed in PROJECT.json with its file
and lines.  Definitions introduced by a comment that begins with `Mutant` or
`A mutant` are not part of any specification: each is a plausible mistake in the action that follows it, kept
to show that a property notices it.

### Executor (with BoundedRun, MCExecutor, ExecutorProofs)

An arbitrary graph is a set of CONSTANTS: nodes, stray names that edges or
policies use although no node has them, ordered edges with priorities and
conditions, a kind per node, retry and Catch policies.  `status` is the place in
`executeFrom`: `loop` is the head of its loop, `running` inside a runner,
`backoff` in the select of `runWithRetry`, `paused` after an interrupt.  One
action stands for one way through the loop body: LeaveLoop, ExceedSteps,
MissNode, EnterNode, FailRetryably, FailFinally (Catch, then OnError),
TimerFires, AbandonBackoff, ReturnInterrupt, ReturnEnd, ReturnContinue
(with `Route`), Execute, Resume, Cancel.  An error is a class of texts; the
verdict of a condition is true, false or an error at will.  `calls` and
`pausedCalls` are history variables: the runner calls behind the present state
and behind the last snapshot.

A snapshot holds the working and conversation memories of its execution by pointer
(`executor.go:153-163`): a second resume of it finds what the first one wrote.
The entries of State and the conversation are data the model does not keep, so
this is listed among the hazards and no property watches it.

BoundedRun is the abstract specification: a run with a tank of fuel, which a
pause saves and a resume restores.  Executor implements it with
`fuel = maxSteps - step` (zero on the step that exceeds the budget).

### Session (with SessionProofs, SessionTurnProofs)

`Select` is one iteration of the select loop: a line, the end of stdin, a
finished run, a notification signal, the root context.  A run is a record in
`runs` with its place in the goroutine of `startRun`: waiting for
`AIAgent.mu` and draining the notifications (`starting`), inside the executor
(`executing`), with the cancel pointer still set (`returned`), with it cleared
(`cleared`), and then the outcome is in `runDone`.  `Handler` is the signal
goroutine in two steps (the pointer is loaded, then called), `Shutdown` the
`sync.OnceFunc` which the second caller waits for, `Child` a background child
in two steps (append under the lock, then signal without it).  A turn of the
executor is a single step with any outcome, and a cancelled turn may end with
`context.Canceled`, another error or an apparently complete answer.

Two variables are history, and no action reads them.  `dropped` holds the turns
that were discarded with an interrupted one.  `dialogue` holds, in order, the lines and
notifications that `Run` has taken in and the answers it has given.  It is not
`AIAgent.messages`: a compression in the middle of a turn replaces that list by
a copy of the graph's transcript, intermediate assistant messages included
(`agent.go:486-488`), so that it may hold two assistant messages in a row and may lose
a notification to the summary.  What becomes of the list is Transcript's
subject; Session states what goes into it and comes out of `Run`, and nothing
the session does depends on the content of the list.

### Transcript (with TranscriptProofs)

A message is its role and the ids of the tool calls it makes or answers.  `pc`
is the node of the default graph.  `AskForTools` is an answer with tool calls,
some of them without a function name; `RunTool` and `MissName` are the
goroutines of `dispatchToolCalls`, in any order; `Join` is the end of the node;
`AnswerFinally` the final answer, after which ConvMem becomes the agent's
history; `AnswerLong` an answer that goes to `compress`.  `Compress` chooses the
token boundary at will, applies `protectTail` and replaces both histories, or
leaves them when there is nothing to gain; `CompressPanics` is the index error
of `protectTail` when the last message alone is above the tail budget.

### McpStdio (with MCMcpStdio, McpStdioProofs)

One server.  A caller of `StdioTransport.Send` is a tool handler, Connect or
the goroutine of `notifications/initialized`; `pc` is its place in Send (entered,
registered in the map, waiting, answered or failed) and `chan` the state of its
response channel.  `Match` (take the request out of the map, under the lock) and
`Deliver` (send on its channel, without it) are the two halves of `readLoop`,
`ReaderStops` its end, `CloseMark` and `CloseKill` the two halves of Close,
`GiveUp` the timeout of a caller.  `Handle`, `Lookup` and `Count` are a tool
handler: breaker, server lookup, count.  The subprocess (external) answers what
it read, in any order and more than once, closes stdout, exits, or is killed
when the context it was started with is done.

### ModelCalls (with ModelCallsProofs)

The two providers are the same program but for the fields they read.  A caller
is a goroutine in Chat or ChatStream: a turn, a child, the compressor.  `Send`
is the head of the retry loop after the back-off, with Acquire under the pool's
lock; `Refused` an error status, with HandleError and the decision to retry;
`Unreachable` an error without a status.  There are no clocks: `resting[k]` holds
the callers that were backing off when the cool-down of `k` began, and it cannot
end before they are through, since a back-off lasts 36 seconds at most and a
cool-down five minutes at least (the provider's retry limits in `retry.go`, the
durations in `pool.go`).  A chunk is text or a piece of the tool call with an
index, and its data is its position in the stream, so that AnswerFaithful sees
lost, moved and invented pieces.  The server is taken to follow the API: indices
grow by one from zero, and the piece that opens a call has no arguments.
ChatStream would drop both a call behind a hole in the indices and the arguments
of an opening piece.

### Graph editor: GraphModel, ConfigForm, Editor (with MCEditor, EditorProofs, EditorFormProofs)

GraphModel is `web/src/model` with the server's check: `toWire` and `fromWire`,
`removeSelection`, what `ValidateGraph` answers (any one of the bad nodes, as
Go ranges over a map at random, then the first bad edge, then all structural errors) and
`mapError`, which finds the element an error names.  A priority that is no Go
integer (`Fractions`), which the form of an edge accepts, makes UnmarshalGraph
fail before it looks at anything else.  A document has more than the canvas has
room for: MaxSteps, the `Label` of an edge, and in `Rest` what only the Go types
name (InputPath, OutputPath, Retry, Catch and Timeout of a node; OnError,
OnTimeout and Version of the graph).  Arrays are functions on finite sets of
stamps, so that a filter is a restriction and an index is the number of smaller
stamps.  An id `type_n` is the pair of its parts: a dropped node gets one from
`idSeq`, and a document may contain the same.

ConfigForm is the config form: what each widget may hand to `onChange`, and the
text of the raw JSON widgets, which read their value once, when they are
mounted.  `form` is the form on display (`NoForm` if there is none), `dirty` the
fields typed in since their last blur, `invalid` those that show "Invalid JSON".
`Inspector` decides by the key of ConfigForm whether the widgets stay (`Keep`) or are
mounted anew (`Mount`).

Editor is the page.  Its variables are the states of EditorShell and of
EditorContext, `idSeq`, the form and the validations under way.  A
handler is one action, and what React does before the next event belongs to it:
`Render` sets nodes and edges, lets the canvas report its selection and lets the
inspector show the result.  `edits` counts the changes of the document, `about`
is the edit the error list is about, `strayed` says that the selection was set by
a click on an error and not by the canvas; no action of the code reads them.

React Flow is external and modelled from how it is used: it finds an element by
its id, the last one if two have the same, and reports an id if the one it finds
is marked (`Reports`), after a render and only if the ids are others than at its
last report (`Reported`); a click changes the flag of all holders of an id
(`Changed`, `Mark`); the Delete and Backspace keys take what is marked and the edges
that touch a marked node (`DeleteKey`); `addEdge` refuses a second edge between
the same two nodes; an edge without an end is not drawn and cannot be clicked.
The import dialog's own state (open or closed, its text, its message) is left out,
and an import is a step at any time, `doImport`.  An open dialog covers the page but
does not hold the focus (`ImportDialog.tsx:24`), so that the keyboard reaches the
toolbar, the canvas and the inspector behind it; the model allows every step there,
the few that need the pointer included.  A text that is no JSON or no document only
sets the message (`ImportDialog.tsx:14-20`).

Out of the model: positions and layout, the cards and their colours, and
summaries; that no name has a hyphen is assumed, since ids of edges join those
of their ends with one (`a-b` to `c` and `a` to `b-c` would clash).
Documents have config values of the type of their field.

## 3. The runs, their bounds and what they show

| Run | Instance | States | Shows |
|---|---|---|---|
| executor | MCExecutor: eight nodes of all six kinds, a stray name, MaxSteps 6, three attempts | 2,964 | TypeOK, CallsBounded, Stops, Spends, ContractSpec |
| session_lines | 2 lines, 1 child, 1 signal | 168,520 | OneRun, InputsInOrder, ExitAfterShutdown, LineServed |
| session_notifications | 1 line, 2 children, 1 signal | 262,110 | TypeOK, NotificationConserved, WakeUpPending, NoUnpromptedReply, NotificationServed |
| transcript | 2 turns, 4 answers each, 2 tool calls each | 1,037,080 | TypeOK, ResultHasCall, ChainsAnswered, HistoryIsPrefix |
| mcp_calls | 2 handlers with 2 calls each, threshold 2, 1 line in the pipe, handlers permuted | about 1.2 million | TypeOK, PendingInFlight, NoneStranded, NoSendOnClosed, BreakerBound |
| mcp_ends | 1 handler with 2 calls, threshold 1 | about 33,000 | GoneServerReleases, StoppedMeansGone |
| model_calls | 2 callers, one of them streaming 3 chunks, 3 credentials, 3 retries | 121,878 | TypeOK, RetryChangesKey, AnswerFaithful, CallReturns, CallSpends |
| editor | MCEditor: two node types with all five kinds of field, 2 documents, 4 edits or validations, 2 of them validations, 2 elements selected at once | 233,737 | TypeOK, OneStart, EdgeIdsUnique, AtMostTwins, NoErrorsMeansSound, SelectionFromCanvas, TextIsConfig, NoNewDangling, FocusFindsFault, ImportExport |
| session_interrupt, session_stale, transcript_tail, mcp_ready | small instances | | the disagreements of section 4 |

**executor.**  The graph of MCExecutor contains what makes budgets hard: a loop
of model, choice and tool nodes, a parallel node, a retry policy of three
attempts, a Catch that leads back into the loop, an OnError node, an approval by
a human, a tool that waits for a callback, an edge to a name no node has, and a
choice whose Next is empty, which leaves the routing to the edges.
Six steps let an execution go round the loop twice and pause twice, so a resume
that refilled the budget would show.  CallsBounded says that the runner calls
behind the present state fit into `MaxSteps * AttemptLimit`; Stops that each
Execute and Resume ends; Spends gives the reason, a number (`StepsLeft`) that each
step of the execution takes from and nothing gives back to; ContractSpec that
Executor implements BoundedRun.

**session_lines, session_notifications.**  Two lines and a notification can
wait together behind a turn that a signal interrupts; two children compete for
the one place of `notifCh`.  OneRun relates `isRunning`, the goroutines, the
result channel and the cancel pointer: two turns never share the conversation
memory, and a SIGINT during a turn never ends the session instead.
InputsInOrder follows lines through stdin, the queue and the turn that carries
them.  ExitAfterShutdown: neither `/quit` nor the signal goroutine leaves before
`doShutdown` is over.  NotificationConserved and WakeUpPending together say that
a result in the list is there once and somebody will look; NotificationServed
that a turn takes it in without the user doing anything, unless an
interrupt discarded its turn.  NoUnpromptedReply: a turn started for a signal
that turns out to be spent gives no answer; since its last answer `Run` has
taken in a line or a notification.  It is about `dialogue`, the answers of
`Run`, and not about neighbours in `AIAgent.messages`.  WakeUpPending does not speak
of notifications whose turn an interrupt discarded: what becomes of them is
NotificationReceived (section 4).  One signal
of either kind meets every state of a turn; with two (632,350 and 981,297
states) the invariants of both runs hold as well, and the runs keep one for the
sake of their liveness properties.

**transcript.**  Two turns of four answers let a second compression meet the
summary of the first, let a turn fail after compressing, and let a chain fall
on either side of the protected head.  ChainsAnswered exempts only that head
(see 4).

**mcp_calls, mcp_ends.**  Two handlers with Connect and the notification are
four concurrent callers of Send.  With threshold 2 and two handlers a call can
pass the breaker while another one fails.  MaxLines 1 is enough because an
answer waits in the pipe or in the subprocess alike.  mcp_ends has one handler,
as liveness rules out permuting handlers.  Since Connect's return kills the
subprocess (see 4), the runs contain that death at any later moment, and since
the kill can be arbitrarily late, also calls that are answered.  StoppedMeansGone is
about Close, which skips the Kill when `readLoop` has ended
before: the subprocess still goes, because by the end of Connect or Shutdown
the context it was started with is over (proved as KillPending, section 6).

**model_calls.**  With three retries, the number the program uses, one call can
be refused on all three credentials and fall back to the provider's own key,
while the other call reports errors on the same credentials, late ones too, and
cool-downs end.  Three credentials make the list the round-robin index runs
over shrink and grow; the index is kept modulo 6, which no count of them
notices.  RetryChangesKey: a retry never repeats the credential that was just
refused.  The property says nothing of the provider's own key, which main also
puts into the pool as its first credential: when all cool, that key is used
although it is cooling.  AnswerFaithful compares what ChatStream assembles with
an independent definition of what the stream means; three chunks interleave the
arguments of two calls.  CallReturns: every call ends; CallSpends: its steps
run down, whatever the other callers and the pool do.

**editor.**  One type has a raw JSON field and nothing else, the other a string, a
number, a flag and a list.  The first document names a start that does not
exist and has a node and a condition that the loader refuses; the second has
edges to nodes it lacks; both have something the canvas has no room for, and the id `choice_1`, which the first drop of
that type makes as well.  MaxWork 4 bounds the changes of the graph
and the validations together, and clicks are not counted: that is enough for an
import, a drop that makes a twin, an edit and a deletion; for a validation, an
edit, a second one, and answers the wrong way round; and for a text typed into
one node, a selection of another, and a blur.  Each of the ten properties is
broken by a mistake in one definition within four such steps.  AtMostTwins and
EdgeIdsUnique say what is left of unique ids when imports, drops and drawing
follow each other; NoErrorsMeansSound states on the canvas what an empty list
claims, with definitions of its own and not with those of the server;
FocusFindsFault follows an error from the server through `mapError` to the element that is
selected; SelectionFromCanvas relates what the inspector and the Delete button
mean to what the Delete key takes; TextIsConfig says that no text survives the
node it belongs to; NoNewDangling that only an import brings an edge that
misses an end; ImportExport that an imported document is exported with all the
canvas has room for, and names what is lost (see 4).
The page never stops, so this run checks for deadlock.

Deadlock checking is off in the other runs: each has an end, where main has
returned, an execution is over, or the bounded calls are used up.

## 4. Where code and documentation disagree

Each of these is a run with the expected outcome "violation", which checks one
property that the repository states.

* **NotificationReceived** (session_interrupt).  `delegate_task_async` tells the
  model that it "will receive a <task-notification> message when it completes"
  (`pkg/tool/delegate/delegate.go:295`).  The signal is spent when a turn for it
  is queued; when the running turn is interrupted, `cmd/hermes/main.go:421`
  discards the queue and with it that turn, and nothing signals again.  The
  notification waits in the list until the next line or the next child.
* **StaleNotReplayed** (session_stale).  `main.go:420` discards queued inputs "so
  stale commands don't replay", for an error that wraps `context.Canceled` only.
  An interrupted turn can also end with another error or, since ChatStream does
  not look at the scanner's error, as if the answer were complete; then the
  queued line runs.
* **TailChain** (transcript_tail).  `context/compressor.go:187-188` says that the tail
  holds the answer for each of its tool results.  The search starts after the
  protected head of three messages: in a session whose first answer calls a
  tool, that answer is the third message, stays in the head, and its results
  open the tail after the summary.  A provider rejects such a history
  (`runner/tool.go:72`), and every later turn starts from it.
* **ReadyNotKilled** (mcp_ready).  `mcp/types.go:4` promises that MCP tools are
  called like built-in ones.  The subprocess is bound to the context of Connect
  (`mcp/stdio.go:51`), which Connect cancels as it returns (`mcp/server.go:56`):
  `os/exec` kills the subprocess of each server that has just become ready.

Where the editor falls short of its documentation, the properties of the run name
the exception in their precondition, and the rest is proved:

* `README.md:179` says "click an error to focus its element".  Answers replace
  the list whenever they come (`EditorShell.tsx:79`), and an edge is named by
  its index: after an edit another element may have it, or the node may be gone.
  FocusFindsFault holds while the graph is the one that was validated.
* `README.md:178` says that Delete removes the selection.  Focusing an edge, or a
  node that is gone, sets the selection without marking anything on the
  canvas: the Delete key then takes what is still marked, and not what the inspector shows.
  SelectionFromCanvas excepts this (`strayed`).  A node dropped with the id of a
  marked one hides that mark from React Flow's report: the inspector is empty and
  the Delete button off, and the Delete key takes both nodes.  The property
  says that what the inspector shows is marked, not the converse.
* `RawJsonField.tsx:9` counts on a new mount when the node changes.  A selection
  that strayed survives an import that brings a node with the same id; the widget
  stays, and its blur writes the old text into the new node.  TextIsConfig
  excepts it.  A blur of an untouched field that is not in the config writes null.
* `graph.test.ts:33` says that a document is imported and exported "without
  losing data".  Lost are MaxSteps, the labels of edges (`graph.ts:40-42` says of
  these that they are dropped), what `types.ts` does not name although the loader reads
  it (InputPath, OutputPath, Retry, Catch and Timeout of nodes, OnError, OnTimeout
  and Version of the graph), and a start that names no node.  ImportExport lists exactly these and says
  that all else comes back.  An id held by two nodes (see
  AtMostTwins) makes an export lose one of them; NoErrorsMeansSound and
  FocusFindsFault except that.
* When the start node is deleted no other can become the start, unless all
  nodes go or a document is imported.  An import clears the error list, which
  then reads "No errors" although nothing was validated.

## 5. Fairness

* Executor: weak fairness of `Progress`, the goroutine in executeFrom.  Runner
  calls have deadlines and the back-off timer fires.  Nothing is assumed of
  Execute, Resume and Cancel, which are the caller's.
* Session: weak fairness of Select, Shutdown, Handler, Turn and of each Child,
  which are goroutines the runtime schedules; that a turn ends is Executor's
  Stops.  Go's select chooses among its ready cases at will, and the weak
  fairness of Select as a whole allows that.  Nothing is assumed of the user,
  of signals, nor of the model calling `delegate_task_async`.
* McpStdio: weak fairness of each caller's Proceed, of Lookup and Count, of
  ReadLoop, Manage and KillOnCancel.  No timeout, no answer of the subprocess and
  no Shutdown is assumed, so GoneServerReleases does not rest on a timeout.
* ModelCalls: weak fairness of each caller's Step.  The HTTP client's timeout of
  five minutes covers a request and its body, and the back-off timer fires.  No
  chunk, no cool-down and no call is owed by anyone.
* Transcript and Editor state safety only: in the editor everything waits for
  the user, and an answer of the server may never come.

## 6. The proofs

All theorems hold for every value of the constants that satisfies the named
assumptions GraphAssumption and SnapshotAssumption, SessionAssumption,
TranscriptAssumption, McpAssumption, ModelCallsAssumption, GraphModelAssumption, ConfigFormAssumption,
EditorAssumption: that names are distinct, bounds are numbers, and a graph is as
the loader accepts it, or a document as `types.ts` describes it.  TLC evaluates the same assumptions in the runs.

* **ExecutorTypeOK, ExecutorCallsBounded, ExecutorImplementsBoundedRun**
  (ExecutorProofs).  CallsBounded is not inductive: a state within the bound may
  have too many calls for its step.  `IInv` accounts for them: during a visit
  `calls <= (step - 1) * AttemptLimit + attempt` (VisitInv), between visits
  `calls <= step * AttemptLimit` (LoopInv), and the last snapshot pays for its
  own calls (SnapshotInv), which is what Resume starts from.  The refinement
  uses IInv before and after the step: `fuel` is truncated at zero, and only
  StepInv says that the step that exceeds the budget ends the execution.
* **SessionTypeOK, SessionNotificationConserved, SessionWakeUpPending**
  (SessionProofs).  Both invariants are inductive with the types.  Conservation
  rests on lemmas about the elements of a concatenation and about an element
  occurring once in it; WakeUpPending goes through each way a wake-up is spent,
  `Submit` and the drain being the interesting ones.
* **SessionOneRun, SessionInputsInOrder, SessionNoUnpromptedReply,
  SessionExitAfterShutdown** (SessionTurnProofs).  OneRun lists what must not be;
  `OneTurn` says what is: nothing (Idle), one goroutine whose cancel
  function the pointer holds until it clears it (Going), or one result that
  waits (Delivered).  InputsInOrder compares only lines that have arrived;
  LinesInOrder adds the stages on the way: conversation, turn, queue and
  terminal are each in order and each ahead of the next (Staged), and only
  behind a turn does another wait (QueueBehindTurn), since a line that comes to
  an idle session skips the queue.  NoUnpromptedReply needs that a turn in the
  executor has something to answer (TurnPrompted): what Drain adds is no
  answer, and a turn for which it adds nothing does not get that far.  Like
  InputsInOrder it is about the history `dialogue`, in which a turn stands
  between what it took in and its answer whatever a compression does to the list.
  ExitAfterShutdown is inductive by itself.
* **TranscriptTypeOK, TranscriptHistoryIsPrefix, TranscriptResultHasCall,
  TranscriptChainsAnswered** (TranscriptProofs).  HistoryIsPrefix holds in every
  node of a turn and not only where the model is called (PrefixInv); Compress keeps it
  since it replaces both histories.  The two about tool calls come from
  `ChainInv`.  That every result has its call does not survive a cut by itself; that
  between a call and its result there are only results of the same answer
  does (Grouped), for `chainStart` then moves the boundary in front of the
  call.  The proofs do not look into `Compressed`: they use the shape of what it
  returns (Cut, FirstKept).  While tools run (Awaiting), the messages behind the
  answer are results of its calls, as many as are given, and without a
  failure the given and the open calls are all calls of the answer; at
  Join none is open.  A failing turn is why `messages` and not `convMem` carries
  whole chains from turn to turn.
* **McpTypeOK, McpPendingInFlight, McpNoneStranded, McpNoSendOnClosed**
  (McpStdioProofs).  The inductive invariant `Where` says where a request may be.
  A request in the map is its caller's present one and its channel is open
  (InMap); a channel exists only inside Send (InFlightOnly); readLoop holds at
  most one request, which is no longer in the map and not newer than its
  caller's (InHand); a closed transport has an empty map (Closing); an open
  channel is in the map or in readLoop's hand (Stranded); a channel whose answer
  readLoop holds was not closed (SendOpen); and a caller about to register has
  nothing in readLoop's hand under its present number (Fresh), without which a
  late answer could be taken for a later call's.  `Once` says that Connect
  starts once and the notification after its first request, so that neither
  caller is entered twice.  The set of handlers is any finite set.
* **McpBreakerBound, McpKillPending** (McpStdioProofs).  BreakerBound is inductive
  because it counts the handlers under way (`Busy`) with the failures: a handler
  that returns a failure moves from one to the other, and one that passes the
  breaker does so below the threshold, with at most all handlers busy.
  KillPending says that the context of the subprocess is over wherever Connect
  fails or Shutdown ends.  It follows from `Cancelled`: a server is stored, is shut down or has
  failed only with its context over, and Close begins where Connect has ended.
* **ModelCallsTypeOK, ModelCallsRetryChangesKey** (ModelCallsProofs).
  RetryChangesKey needs to know why Acquire cannot pick the refused credential:
  a call that backs off has its credential cooling and rests behind that
  cool-down (RestsBehind), and outside of a request and its back-off a caller
  holds no credential (DefaultBefore).  OthersRest shows once what a step of one
  caller leaves of this for the others.
* **ModelCallsAnswerFaithful** (ModelCallsProofs).  At all times and not only at
  the end, what has been assembled is the meaning of what has been read (Assembled):
  the text is all text so far, each call has its pieces but the first, and the
  indices are those from zero on.  The meaning of a stream is written with the
  positions of its chunks in ascending order, so that a chunk adds the largest
  position to one of the sets; lemmas on `Ascending` of such a set, from the
  library's facts about cardinalities, stand in for an induction over the stream.
* **ExecutorSpends, ModelCallsSpends** (ExecutorProofs, ModelCallsProofs).  The
  ranking arguments behind Stops and CallReturns, as properties of steps.  A visit
  of a node is worth its calls and back-offs, so that a retry takes from the
  visit and a jump of Catch or OnError from the budget; of a call, each retry
  is worth two steps.  That a number which every fair step lowers must end the
  wait is left to TLC, on Stops and CallReturns themselves.
* **Editor** (EditorProofs and EditorFormProofs): all ten properties of the run are
  proved, for any node types, documents and bounds.  Arrays are finite
  (`Arrays`), so `First` and `Last` exist; StepShape reduces every step to one of
  five for the canvas (drop, connect, delete, import, keep), which carries
  OneStart, EdgeIdsUnique and NoNewDangling.  EdgeIdsUnique needs that the id of
  an edge tells its ends (EdgeNames).  RoundTrip is the composition of
  `fromWire` and `toWire`, the core of ImportExport: what comes out is `Kept`, the document
  without the four things that section 4 lists.  NoErrorsMeansSound and
  FocusFindsFault are about answers of any age: `Versions` says that answers
  and requests carry edits of the past, `ErrorsOfGraph` that one with the present
  number was computed from the present graph.  SelectionFromCanvas says of one
  render that its result is from the canvas if what the handler passed on
  was, or if what React Flow reports changed, and a reported id is always a marked one.  AtMostTwins needs `Twins`: a node that is
  not alone with its id has a number that idSeq has passed.  TextIsConfig
  needs `FormOfShown`: the form is that of the selected node, and agrees with its
  config; it rests on SelectionFromCanvas for imports, which mark nothing.  TypeOK
  needs that widgets hand on values of their field (WidgetTyped) and that
  errors name nodes by ids, through requests sent earlier (MessagesTyped).

## 7. What is only model-checked, and what is not modelled

Every invariant and every action property of a passing run is proved, and so is
the refinement.  Only model-checked: liveness (Stops, LineServed, NotificationServed,
GoneServerReleases, StoppedMeansGone, CallReturns), which is beyond the prover
together with fairness and ENABLED.  What each of them rests on is proved: the
rankings Spends and CallSpends for Stops and CallReturns, QueueBehindTurn (a part
of the invariant of InputsInOrder) for LineServed, WakeUpPending for
NotificationServed, NoneStranded for GoneServerReleases, KillPending for
StoppedMeansGone.

Left out of the modelled parts: commands of the REPL that only print; the text
of messages, errors and notifications; token counts (the boundary they yield is
arbitrary); the callbacks of a streamed answer; the values that nodes compute;
several MCP servers, which share no state but the manager's maps; that a TODO
reminder is kept by the compressor, as no code adds one; AIAgent.Resume, which
no caller reaches.  doShutdown is one step that takes time: what it saves is
part of the session database.

Not modelled: the components of the second table of section 1, for now or for
good.  The registry, the file, shell, terminal and web tools, tracing, logging,
configuration, MCP over HTTP, the editor's cards, layout and file server have no
state whose order of events matters, or are pure input and output.  SQL, the full-text index, the
scoring of search results (floating point) and HTTP are libraries' work.  The
snapshots that `README.md:373` of the repository says are persisted are not
persisted by any code, so no crash recovery of executions is modelled.

## 8. Plan

In this order:

1. **SessionStore**: the TODO store's persist goroutines, executeWrite with its
   retries and the save at shutdown, against a durable list that ends with the
   last value.
2. **MemoryFiles**: reload, check, limit, temporary file and rename by two
   processes, against a set of entries to which each confirmed change applies.
3. **Palace**: drawers on disk, in the index and in the vector store, with
   failing callbacks, the reload in the background, and the two files of the
   knowledge graph with a crash between their renames.
4. **Agent**: NewChildAgent's depth, skills, the assembly of the system message
   and the prefetch that replaces it, on top of Session's turns; the synchronous
   and the batched delegation.
5. **Conditions**: the condition language as operators, against a reference
   evaluation over small expressions, and **Pipe** for ExecuteStream.

1 to 3 are to share one run with a common bound on operations.

Theorems to come: the invariants of the stores and the refinement of MemoryFiles.
