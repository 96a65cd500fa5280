# TLA+ models of LingCoWork

LingCoWork is a desktop assistant: a Go server (`src/cmd`, `src/internal`) drives
a language-model agent with tools, a web client shows the conversation and asks
the user to approve tool calls, and an Electron shell starts both.  These
modules model the parts of the server whose correctness depends on the order in
which goroutines, HTTP handlers, the user and a restart act.

## 1. The system

| component | state | operations | hard because |
|---|---|---|---|
| chat turns (`service/chat.go`, `handler/chat.go`, `handler/approval.go`, `stream/adk_handler.go`) | one goroutine per run, `conversations.agent_status` | Start, Resume, ResumeQuestion, ResumePlan, Cancel, runAgent, resumeAgent, consumeAndPersist, persistInterruptState | runs, handlers and the user interleave at every database statement; a run can be cancelled, fail or be interrupted, and several runs write the same rows |
| pending interrupts (`approval/pending.go`, `repository/pending_approval_repo.go`) | items in memory, `pending_approvals` | Record, Resolve, List, HasPending, Clear, Restore | the memory changes under a lock, the table after it is released |
| message journal (`service/message_journal.go`, `repository/message_repo.go`) | `messages`, ordered by seq, unique event key | AppendEvent, AppendAssistant, AppendToolResult, AppendPartialAssistant, OpenToolCalls | tool calls and results must pair although results come from three writers |
| restart repair (`service/chat_reconcile.go`) | reads checkpoints, pending rows, status | ReconcileChatState | a crash can fall between any two statements |
| stream buffers and SSE (`stream/buffer.go`, `stream/sse_handler.go`) and the web client's reconnect loop | chunks, durable frontier, subscribers | Append, PublishLive, CommitBoundary, Finish, StreamAll, StreamFrom | a client joins history and live frames without a gap or a duplicate |
| history and compaction (`compaction/*.go`, `handler/conversation.go`, `toSchemaMessages`) | rows, summaries per conversation | MaybeCompact, EstimateTokens, Split, ActiveRows, foldMessages, insertCompactionMarker | must not cut between calls and results; prompt and page read the same rows by different code |
| work plans (`workplan`, `handler/plan.go`, the plan tools) | plan rows with revisions, items | CreateDraft, EditDraft, Activate, Cancel, UpdateTodos | row and items are read in different queries; compare-and-swap writers; starting and answering are two steps |
| validation gate (`validation/*.go`) | runs, digests, attempts | the middleware, RecordRun, EvaluateCompletion | code changes race the runs that check them |
| change tracker (`changes/tracker.go`) | baselines and events of a turn | file tools by effect, commands by comparing git status | tools of a batch and commands overlap |
| changes panel (`service/workspace_diff.go`, `workspacegit`) | none; reads git, baselines and events | Changes, ChangedFile, counters | two scopes reach the same answer by different code |
| approval middleware and policy (`approval/*.go`) | mode column and cache, remembered grants, snapshots | Evaluate, Remember, SetMode, resume of a call | effects are derived again after the answer; caches |
| command tiers (`approval/shellclass.go`, `destructive.go`, `fastpath.go`) | none | ShellClass, DestructiveCommand, IsExploreProbeCommand | wrappers in wrappers, quotes, lists |
| MCP servers (`mcp/manager.go`, `naming.go`, `effect/effect.go`, `handler/mcp.go`) | one state and generation per server, tool names, effects, the config file | Connect, bringUp, Reconnect, Apply, MarkNeedsAuth, Close, SaveConfig, DeleteServer | dials and reads of the file happen outside the lock |
| MCP OAuth (`mcp/oauth.go`, `mcp/tokenstore.go`) | pending flows, credential row, token cache | BeginAuth, CompleteAuth, GetToken, Refresh, Revoke | no lock is held over a query or an exchange |
| memory file (`memory/store.go`, `service/memory.go`, remember tool) | one file per scope and its hash | Load, Save, Append, Rewrite | editor and agent write from what they have seen; old formats are migrated |
| browser bridge (`agent/browserbridge`) | connections, clients by browser, pages, waiting commands | hello, attach, detach, unregister, SendCommand | timeouts, answers and lost connections race |
| browser automation (`agent/browseruse`) | one browser process, a session per conversation | Session, OpenTab, CloseTab, CloseSession | parallel calls boot, share and kill one process |
| projects and conversations (`service/project.go`, `conversation.go`, their repositories) | projects, conversations and what hangs on them | OpenOrCreateFromPath, Start, Delete of both | deletions among posts, answers and runs |
| file tools (`agent/tools/fs*.go`, `effects.go`, `agent/scope`) | the workspace | write, mkdir, rm, mv, cp, read; effect derivers | tool and deriver resolve one path twice; links |
| chunked writes (`fs_chunked_write.go`) | session file, temporary file | start, append, finish, abort, expiry | no lock; a call is several file operations |
| patches (`agent/tools/patch.go`, guarded writes) | observed_state of a read | apply_patch, write_file | check and write are different steps |
| skills and hub (`agent/skills`, `skillhub`) | the skills directory, the index | Install, Uninstall, ListInstalled, Refresh | swaps of directories without a lock; crashes |
| question bank (`rag`, `cmd/rag-index`) | documents, chunks and vectors in SQLite, words in memory | Split, IndexFile, IndexDir, Embed, hybrid Search | another process rebuilds what the server searches |
| instructions, search, documents, OCR, web fetch and search, agent construction, evaluation harness, desktop shell | little or none | | file, process and network I/O; see section 6 |

How they interact.  A POST (chat, approval, question or plan endpoint) runs a
handler that writes a few rows, registers a stream buffer and starts a
goroutine.  The goroutine asks the agent runner (eino, a library) for events and
turns each into rows and SSE frames.  A tool call passes the approval
middleware, which may interrupt the run: the runner saves a checkpoint and ends
the iterator with an interrupt event, and the goroutine records the questions
and finishes.  The answer to the last of them starts a new goroutine that
resumes the checkpoint.  Everything in memory is lost with the process;
`ReconcileChatState` runs before the server listens again.

What makes each part correct:

* chat turns: a tool that was put to the user runs only after a yes, and never
  twice; every stream ends; the status of the sidebar is true at rest; a crash
  at any step leaves something the repair can mend.
* pending interrupts: a batch is resumed once, with every answer, and what is
  listed as waiting is what the checkpoint asked.
* journal: one result per call; what a new turn sends to the model is paired.
* streams: a tab that joins shows neither a gap nor a repetition between table
  and stream, and is told "nothing is going on" only when it has everything.
* MCP, OAuth, plans, memory, bridge: a late step (a dial, a token exchange, a
  save, an answer) never overwrites what a newer one decided.
* approval and tiers: nothing passes that its user has not seen or need not see,
  however it is wrapped and whatever changes between card and answer.
* tools: what a tool changes is what its effect told the policy; what a call
  reported as written is there; a guarded edit starts from what was read.
* history, panel, question bank: two readers of the same rows, of the same files,
  of the same texts, get the same story.
* skills, pool, projects: shared directories, processes and rows are neither torn,
  leaked nor orphaned when several hands create and remove them.

## 2. Modules

| module | what it is |
|---|---|
| `ChatRun` | one conversation on the server: transcript, pending interrupts, checkpoint, goroutines, handlers, crash and repair |
| `MCChatRun` | its TLC instances: one approval, one question |
| `CallLife` | what becomes of a tool call, from its declaration to its one result: an abstract specification of `ChatRun` |
| `ChatRun_proofs` | `TypeCorrect`, `SingleResult`, `ConsentHolds` |
| `ChatSerial_proofs` | `NothingRunsTwice`, `CallsLiveOnce`, `WaitingCanResume`, `StatusAtRest`, `WaitingStaysOpen`, `OpenIsRepairable`, `PromptsArePaired` |
| `StreamCursor` | one run at a time, its stream buffer, and browser tabs that load, join, post, lag and leave |
| `Delivery` | what a tab may show of a text that is still being written: the abstract specification of `StreamCursor` |
| `MCStreamCursor` | its TLC instances |
| `StreamCursor_proofs` | `CursorTypes`, `CursorHolds`, `ExactView`, `ImplementsDelivery`, `TabsComplete` |
| `McpManager` | the MCP servers: background dials, saves, deletions, authorizations, names and effects of remote tools |
| `MCMcpManager` | its TLC instances |
| `McpManager_proofs` | `Invariance`, `DialDecides`, `ConnectionMatches`, `NothingLost`, `ManagerTypes`, `NamesFollow`, `FileIsServed` |
| `ApprovalPolicy` | one tool call after another through the three-mode policy |
| `ShellClass` | the tiers of a shell line, over lines that are wrapped, quoted and put together |
| `FileTools` | the file tools beside their effect derivers, on one tree with links |
| `ChunkedWrite` | write_file_chunked, file operation by file operation |
| `PatchTool` | read_file, write_file and apply_patch of several hands on one file |
| `WorkPlan`, `WorkPlan_proofs` | plans, todos, tabs and the plan prompt; `PlansKept` |
| `ChangeGate` | one turn's tracker, validation runs and completion gate |
| `Tools_proofs` | `PassesEarned`, `GuardsHold`, `ChunksKept`, `ChangesAccounted`, `FileEffectsTrue` |
| `OAuthTokens` | credentials of one MCP server |
| `MemoryStore` | the memory file, its editors and the remember tool |
| `BrowserBridge` | sessions, clients, pages and commands |
| `History` | compaction, prompt and page over the rows of one conversation |
| `SkillHub` | the skills directory: installs, removals, the loader's index |
| `BrowserPool` | sessions over one browser process |
| `Browser_proofs` | `BridgeHolds`, `PoolSound` |
| `WorkspaceDiff` | the two scopes of the changes panel |
| `Projects` | folders, conversations and their removal beside runs |
| `Stores_proofs` | `TokensOwned`, `SkillsKept`, `DeletionsClean` |
| `Chunker`, `Retrieval` | how files of questions are cut, indexed and searched |
| `MCDesk` | the instances of the seventeen modules above, one at a time |

`ChatRun`, `StreamCursor` and `McpManager` share no state: an MCP tool is to a
conversation one more tool call.  Nor do the modules of `MCDesk`: a behaviour
picks a `focus` among them and steps that one while the others rest, so one run
explores each in turn.  `Retrieval` extends `Chunker`, whose splitter it indexes
with.

The map in `PROJECT.json` names the lines behind every definition.

### ChatRun

A *run* is one goroutine of `ChatService` together with the HTTP handler that
launches it, so its program counter `pc[r]` starts in the handler.  One step is
one database statement, one section under a lock, or one event taken from the
agent iterator.

| program counter | code |
|---|---|
| `posted`, `listed`, `stored`, `created`, `cleared`, `starting` | `Start`: read the prior rows, insert the user row, create the buffer, clear the items of an abandoned run in memory and in the table, write `running` |
| `resolved`, `restatus`, `install`, `resuming`, `load` | the answer handlers and `startResume`: delete the answered rows one by one, read and write the status, create the buffer; then `resumeAgent` loads the checkpoint |
| `loop`, `emit`, `insert`, `mark`, `tail` | `ConsumeADKEvents` and `emitInterrupt`: one event at a time; recording an interrupt is a lock section, an insert and a status write |
| `check`, `partial`, `scan`, `close` | the end of the loop and `persistInterruptState` |
| `finalize`, `write`, `finish` | the final status, read and then written, and the end of the buffer |

`rows`, `status`, `ckpt` and `pendDB` are the SQLite tables and survive `Crash`;
the rest is memory.  The agent runner (eino) is external: `call[r][c]` is the
phase of a call inside it.  `Reenter` is what the middleware does with a call of
a resumed checkpoint.  `Allowed` names what may happen besides one patient user;
each run of TLC says which of these liberties it takes, because some properties
are false with them (section 3).

Abstracted: message texts; the policy's decision, which is a free choice
(allowed, asked, denied); a question's answer (yes or no); the checkpoint's
bytes.  An interrupt is identified with the call that raised it.
`persistInterruptState` reads the pending list and the open calls in one step.
`ReconcileChatState` is one step because the server does not listen before it
returns.  After a cancel the runner's own checkpoint save is taken to fail, as
its context is cancelled.  A cancelled question or plan returns its cancel
marker.  How eino treats a resume payload of a type the middleware does not
expect is not in the repository: an answered call that is re-entered may run or
interrupt again.  Left out: failing database writes other than a failing
iterator or resume, titles, workspace context, compaction before a run, the
calls sub-agents make.

### StreamCursor

`rows`, `durable`, `chunks` and `status` are the message table and the
`StreamBuffer`; `pc` is the one run that writes; `st[c]` is where a tab stands:
`loaded` (history read), `asking` (`ResumeStream` saw no live buffer and goes on
to `MAX(seq)`), `live`, `retry` (409), `gaveup`, `idle` (204), `ended`,
`posting`.  `Behind`/`Ahead` are the two comparisons of `StreamFrom`;
`replay[c]` and `inbox[c]` are the snapshot and the channel of a subscriber.

A text is the sequence of its pieces 1, 2, 3, …; a row stores the number of the
last piece it holds, so "the table holds the text up to here" is `Upto(rows)`.
Thinking is text here.  `FinishBuffer` closes the channels; what they hold is
still read.  The writer's channel (16), the network and the tab's reader are one
step, `Receive`; the replay does not count toward `Cap`, as in the code, where
it is returned apart from the channel.

Left out: runs that overlap and crashes (ChatRun has them; there may be one
buffer here at a time, and a posted request subscribes or is given up before the
next run starts), a failing `ConcatMessages`, the path of models that do not
stream, usage, plan and context frames, `ShutdownAll`, `ClearReplay` (called
only without a journal), what a tab shows of sub-agent events.  `ResumeRun`
reads `MAX(seq)` and registers the buffer in one step: nothing writes rows
between the two when runs do not overlap.  `told` is a history variable.

### Delivery

A tab shows some pieces in increasing order; while it is *whole* it shows a
beginning of the text.  It may start over with some beginning, get one more
piece (the next one if whole, a later one otherwise), or lose something.
`StreamCursor` implements it with `shown <- text` and `whole` = "joined by
cursor and no frame dropped".

### CallLife

A call is declared once, may be put to the user and answered while it is alive, runs
at most once, with a yes if it was asked about, and gets one result.  `Deliver` says
"ran" only of a call that ran and "denied" only of one that was refused and has not
run; `Close` gives open calls up together.  After "canceled" a call may still run: the
code closes calls whose tools are still at work (section 5).  `ChatRun` implements it
with `known <- Declared(rows)` and the result that stands in a call's row.

### McpManager

`servers[n]` is `serverState` with its generation; `Known(n)` is presence in
`Manager.servers`.  `dials[n][j]` is the `bringUp` goroutine that job `j` (or
`Connect`, job 0) spawned for server `n`: `begin` (not scheduled yet), `dial`
(entry and generation read, connecting), `up` (its connection is installed and
open), `done`.  A job is one request to `SaveConfig`, `DeleteServer` or the OAuth
callback with what it starts: `write` (`RemoveServer` has read the file),
`load`, `apply`.  `Reconcile` is the lock section of `Apply` and `Reconnect`.
`usedSlugs`/`usedNames` are the allocator, `effects` the effect registry as far as
remote tools go, `rejected` the refused calls that have not reached
`MarkNeedsAuth`.

Abstracted: an entry of the file is an opaque value, equal when its hash is; a
server has one tool, whose schema may fail to convert; `sanitize` is the constant
`Base`, `fit` injective, and a name is the pair of its base and a number.
`connect` and `listTools` are one step, since neither touches the manager before
`fail` or the installation takes the lock.  `Delete` reads presence in the
manager and the file in one step: the first only matters when the file does not
name the server.  Left out: built-in names (never released), tokens, file errors,
the status listing.

`odd` is a history variable that records five orders of steps the code does not
defend against: `twin` (a dial begins under a generation that already has one),
`readd` (a server comes back under a dial of its predecessor), `stale` (a
replaced file is applied), `skipped` (a tool is named and left out), `late_mark`
(`MarkNeedsAuth` for a connection the server no longer has).  A property that
fails in such an execution says so in its hypothesis; `mcp_readded` shows the one
that contradicts a comment of the code.

### ApprovalPolicy and ShellClass

`savedMode` and `cachedMode` are the column and `ModeStore.byID`; `LoadMode` and
`FillMode`, `SaveMode` and `CacheMode` are the two halves of a read-through and of
a change, which are not atomic in the code.  `remembered` is `Memory.byID`,
`snapshot` what a run froze of it.  `stage` is where the call stands: evaluated,
on a card, resumed, passed.  An *effect* is a record of what the policy looks at;
`derived` may change at every moment (`WorldChanges`).  `Walled` is the list of
effects no mode lets through.  `card` holds the effect stored with the pending item, or
none: a row written before there was such a column has nothing in it that parses.  A yes
to such a card carries no digest and is good for whatever the call has become
(`BoundTo`), which is the code's only exception to "authoritative only for the exact
effect the user reviewed"; `PolicyInit` starts with such a card too, and `inherited`
remembers that the call waits on it.  Left out: how a URL or a path becomes sensitive,
the wording of cards.

In `ShellClass` a script is the sequence of simple commands the parser returns, a
word a token or a quoted script.  The model does not enumerate strings: it starts
from a program and wraps, quotes, redirects and combines, as a model writing a
command would, and `destroys` records whether one of the programs is
irreversible.  `InnerOfExecWrapper` and the recursion to `MaxUnwrapDepth` are the
code's; the patterns within one program (`matchRm`) are a table.

### FileTools, ChunkedWrite, PatchTool

`FileTools` resolves each argument twice, as the code does: `scope.Resolve` and
the system calls for the tool, `canonicalEffectPath` for the deriver; `done` holds
the effect that was derived and the paths that changed.  Races between the two
are `ApprovalPolicy`'s `WorldChanges`.  A path is followed link by link (`Hops`),
links to links and links in the middle included, up to `MaxLinks` of them, which is
255 in `filepath.EvalSymlinks`; `Circular`, `Blocked` and `Dangling` are the three
ways that fails, and each reader of the error treats them as its code does.  `rm`,
`mv` and a `cp` of an absolute path take the link in the last place itself (`Spot`),
the others what it leads to (`Real`).  Links hold absolute targets: a relative one that is moved or
copied, and so leads elsewhere, is left out.  `OnlyTheWorkspaceChanges` has one
exception, which the code allows and the run meets: a link out there that leads
into the workspace (`l/y` in `MCDesk`, section 5).  `ChunkedWrite` has a step per file
operation; files are inodes, so an append that has the temporary file open writes
to it after the rename.  `PatchTool` has a version for `observed_state` (size and
modification time: two writes within one tick of the clock and of equal size
would share one, which is left out).

### WorkPlan, ChangeGate

`plan` is both tables, `hand[h]` an operation between its two reads and its
transaction, `view[t]` what a tab shows and sends back as expected revision.  The
prompt lives in the checkpoint of a run together with a `sibling`.  Content and
order of items are left out; `Boards` are maps from items to status.

`ChangeGate` keeps events and validation runs in one `log`, as they are compared by the
time of their rows.  A file tool captures its files one by one (`CaptureFile`,
`CreateBaseline`), writes them in any order, returns or fails at any point
(`ToolReturns`), and then records an event for each file its effect lists; the files below
a directory it removes are captured and get no event, those of a directory it makes get
both afterwards.  A command may read, write, restore and commit files while it runs.  It
is tracked when it has returned (`TrackCommand`), or not at all (`StatusFails`), and
stores a validation run (`StoreRun`) or none (`StoreNoRun`): most commands have no
`validation_kind`.  What a call has changed and not recorded it `owes`.  `untold` names the
files whose change stayed so when the call ended, `blurred` those whose change was behind
no baseline when another call captured or committed the file, or when its own call ended.
A run has `missed` what was changed between its reading and its row.  A call the tracker
cannot attribute (`resolveRun` fails) leaves what a failing directory tool leaves, and
an event that cannot be written what a failed one does.

### OAuthTokens, MemoryStore, BrowserBridge

Each request of `OAuthTokens` is a program counter between database and network
calls.  `raced` is set by exactly two orders: a row is written while another
request is about to cache what it read before, and a row is deleted while another
request is under way or has just refilled what the revoke dropped.

`MemoryStore` has one lock, so one step an operation; lines are headings and
entries with the dates in front of them.  `filed` remembers where authors put a
text, `overlooked` what was dropped unseen.  The project's memory is the same
store on another path.

`BrowserBridge` has the goroutine of every session and of every `SendCommand`;
`pendingCmds` is the map of channels, `failing[s]` what `detachConn` took out of
it, `command[c].sends` counts sends into one channel.

### History, WorkspaceDiff

Both check readers of one state against each other.  In `History` a row costs one
token and turns do not overlap (they do in `ChatRun`); `covers` follows what a
summary stands for, through earlier summaries.  Rows of the old format carry
their tools in `legacy`.  `WorkspaceDiff` models git by the commands the code
runs (porcelain status, numstat, diff against HEAD, renames of equal contents).

### SkillHub, BrowserPool, Projects

One step is one file operation, one section under a lock or one driver call, one
query or transaction.  Folders and contexts keep their identity when their path
or their place in the pool is taken.  History variables name the windows the code
leaves open: `asked` (a tab of the conversation was asked to be closed), and in
`past` the deletions that met a run before its cancel function was set
(`escaped`) or a post that had looked up its project (`strays`), the rows the deletion
of a project did not ask for (`left`), the conversations that had a validation run
checked and not stored when their rows were deleted (`late`), and those that were
resumed from a checkpoint in `left` (`revived`).  A validation run takes two steps,
`CheckRun` with the context of the run and `StoreValidation` without, so the second may
come after a cancel and a deletion.

### Chunker, Retrieval

A text is a sequence of runes where a heading mark, a fence, a div tag and a bar
count as one.  `Chunker` builds files line by line and cuts each; `ChunksAreWhole`
looks for the lines of answers by another definition than the splitter's.
`Retrieval` has a step per query, transaction or embedding call of `rag-index`
and of the two ways of a search.  The hash of a file is its content, a vector is
the chunk it was asked for and the model it came from, `Cosine` and `Terms` are
any functions of a chunk.  Left out: the arithmetic, tokenization, vectors of two
models with equal lengths, which the code cannot tell apart.

## 3. Runs

Every bound is a constant: `NRuns` goroutines or runs, `MaxCrashes`, `Calls`,
`MaxText`, `MaxSub`, `Cap` (64 in the code), `Attempts` (4 in the code); for
`McpManager` `Booted`, `Files` (the files to start with and to save), `Targets`,
`MaxJobs`, `MaxMarks`.

| run | instance | states | shows |
|---|---|---|---|
| `chat_calm` | 2 calls, 3 runs, 1 crash, iterator errors | 851,012 | the prompt of a new turn is paired (`PromptIsPaired`), a crash never leaves open calls the repair does not visit (`OpenCallsRepairable`), the status is true at rest (`RestStatusIsTrue`), a waiting call is not closed behind its card (`WaitingIsOpen`) |
| `chat_faults` | and messages over pending interrupts, failing resumes | 1,073,974 | `WaitingIsResumable`, `TypeOK`, and `CallLifeSpec` (no tool runs twice, results are final and true) |
| `chat_races` | 1 call, 2 runs, 1 crash, every liberty | 518,860 | `OneResultPerCall`, `RunsOnlyOnYes` |
| `chat_live` | 2 calls, 2 runs, 1 crash, answers at once | 212,924 | `StreamCompletes`, `AnsweredCallSettles` |
| `stream_join` | 1 tab, 1 call, 2 runs, 2 pieces, channel of 2, 2 attempts | 295,587 | `LiveViewExact`, `TabsAreComplete` (every call and result arrives, and "idle" is only said to a tab that has everything), `LiveEnds`, and `DeliverySpec` |
| `mcp_servers` | 2 servers with one slug, 2 jobs, 1 refused call | 846,121 | `NoConnectionLost`, `ConnMatchesUnlessReadded`, `ConnectingHasDial`, `NamesAndEffectsFollow` (names are handed back, effects end with their server), `ServersAreAsSaved` (the status is true, and what runs is what the file says), `Settles` |
| `desk` | the seventeen modules of `MCDesk`, each by itself | 1,968,032 | one property for each, below |
| `chat_batch`, `chat_unpaired`, `chat_canceled`, `stream_timeline`, `mcp_readded` | smaller | | a violation each (section 5) |

Why these bounds are enough to meet the cases:

* Two calls make a batch whose siblings are answered at different times, run
  and wait at once, or are half answered when the process dies.  One is an
  approval and one a question, which the code treats differently
  (`ask_user` records no call id).  Three runs are a turn, its resume and the
  turn after, whose prompt is where an unpaired row would hurt.  One crash may
  fall between any two statements.
* `chat_races` takes every liberty and pays with one call: 3 runs or 2 calls are
  more than 15 million states.  Its two properties are proved for any number of
  calls, runs and crashes (section 4).
* In `stream_join` a channel of two frames overflows, two pieces are enough to
  be swapped or repeated, two attempts show both the retry and giving up, and
  two runs let a tab carry a cursor from one buffer to the next.  `MaxText = 3`
  (734,560 states) and two calls without sub-agents (2.7 million) were checked
  once.  Tabs do not share state except through the poster, so one is enough for
  TLC; the proofs cover any number.
* In `mcp_servers` two jobs are what it takes to delete and re-add a server, to
  apply two files in the wrong order, or to tear a server down twice under one
  dial.  The one file that is saved edits an entry and disables the other server.
  Servers share nothing but slugs, so a second one is there to compete for a
  name.  Deletions, authorizations and refusals aim at one of the two.  Three
  jobs exceed 10 million states; the proofs cover any number.
* In `desk` the hazards are races of two: two editors, two requests, two installs,
  two sessions of one browser, two indexers.  Each has a second actor and just
  enough operations for one of them to fall between two steps of the other, and a
  third where it takes three (two installs and an uninstall; three calls of which
  one boots, one uses and one kills the browser).  Where the hazard is in data
  (`shell`, `diff`, `history`, `cuts`) the bound is on size: four wrappers exceed
  `MaxUnwrapDepth`, eight rows hold two folds, and four lines hold a heading, an
  open fence, an answer and the next heading.  `bank` with two files (1.1 million
  states) and `cuts` with five lines (177,156) were checked once, and `gate` with three
  records (10.5 million): an event, a run and another event.
* In `files` a path may pass two links, through a directory outside and back, and
  calls move and copy the links themselves, so dangling links, links to links and
  circles come about; `MaxLinks = 2` gives up on longer chains.  A tenth place, a free
  name in the workspace (105,907 states), was checked once.  The proof covers any tree
  and any number of links.

The focuses of `desk`, with the states TLC explores in each:

| focus | bounds | states | property |
|---|---|---|---|
| `policy` | 3 kinds of effect, 1 change of mode, 1 restart, a card of an older build | 98,620 | `PassesAreEarned`: what passes without a question was granted or needs none, what passes with an answer is what was shown, where an effect was |
| `shell` | 9 programs, 4 wrappers, quotes or redirections | 81,640 | `TiersAreOrdered`: an irreversible program makes the line destructive wherever it hides; a probe is harmless |
| `files` | 9 places, a directory inside and one outside, links to both and one back | 17,731 | `EffectsAreTrue`: only the workspace changes, and only what the effect speaks of |
| `chunks` | 2 sessions, 2 chunks, 2 calls at once | 22,781 | `ChunksAreKept`: acknowledged chunks are in the file once and in order |
| `patch` | 2 editors, 3 lines, 5 patches, 2 edits | 50,585 | `GuardedEditsKnowTheirBase` |
| `plan` | 2 plans, 2 items, 1 tab, 2 helpers, 3 operations | 36,107 | `PlansAreKept`: no update replaces items its hand has not seen, no decision of the user is undone |
| `gate` | 1 file, 2 slots, 3 contents, 2 records | 623,686 | `ChangesAreAccountedFor`: baselines are not the agent's, "passed" was checked, failures are told |
| `oauth` | 2 requests, 2 flows, 2 tokens, 1 revoke | 68,260 | `TokensAreOwned` |
| `memory` | 1 editor, 3 writes, 2 days, old formats | 6,795 | `MemoryIsKept` |
| `bridge` | 2 sessions, 2 browsers, 2 commands | 127,053 | `BridgeAnswers` |
| `history` | 8 rows, 2 calls per row, both keep settings | 55,905 | `HistoryIsTold` |
| `skills` | 2 installs, 1 uninstall, 1 refresh, 6 archives | 226,287 | `SkillsSurvive` |
| `pool` | 2 conversations, 3 calls, 2 tabs | 9,736 | `PoolIsSound` |
| `diff` | 3 paths, 4 contents, 2 edits | 133,196 | `PanelStaysConsistent` |
| `folders`, `removals` | 2 projects, 2 spellings; 1 conversation, 2 posts, 1 removal | 5,899 and 243,892 | `DeletionsAreClean` |
| `cuts`, `bank` | 4 lines of 11 kinds; 1 file, 3 texts, 2 rewrites, 2 indexers, 2 models, 1 search | 16,105 and 143,754 | `RetrievalStaysFaithful` |

`TypesOK` is the type invariant of whichever is in focus.  `PanelStaysConsistent` and
`RetrievalStaysFaithful` evaluate `PanelIsConsistent` and `RetrievalIsFaithful` only in
their own focuses, where alone they can change; the others are evaluated everywhere.

Where a property needs a hypothesis, it is in its run or its statement:
`OpenCallsRepairable` is false when `ResumeWithParams` fails (`chat.go:560-565`
writes `idle` and closes nothing); `RestStatusIsTrue` is false when two answers
are handled at once; `CallLifeSpec`, and `NeverReexecuted` which it implies, are false
when an answer overtakes the insert of its own pending row (`early_answer`, three
runs: `pending.go:122-141` against `200-206`); `WaitingIsOpen` speaks of approvals
and plans; `TabsAreComplete` of tabs told 204 while no run was at work.

Deadlock is not checked: a conversation at rest with its bounds used up, and a
run whose question nobody answers, are legitimate ends; so are servers at rest
with all jobs used up, and every component of `desk`.

Fairness.  `ChatRun`: every goroutine and handler that can go on does
(`RunStep(r)` per run, `LateStep`), and the process that died is started again
and repairs (`Reconcile`).  The user owes nothing: no answer, message or cancel
is fair.  This is what Go's scheduler and the desktop shell provide.
`StreamCursor`: the run that exists goes on (`RunStep`; a model that speaks for
ever is excluded by the bound `MaxText`), a tab's pending request is answered
(`Asking(c)`), a tab reads what its response holds (`Reading(c)`).  Opening a
tab, posting and leaving are free.  `McpManager`: a dial goes on and ends
(`DialStep` per server and dial), because connecting, listing and refreshing have
deadlines; saves, deletions, authorizations, refusals and `Close` are free.
`MCDesk` states no fairness and claims nothing that must eventually happen.

## 4. Proofs

Checked by TLAPS, for every value of the constants.  Assumed are only the named
assumptions of the modules concerned, which TLC evaluates: `ChatAssumption`,
`StreamAssumption`, `McpAssumption`, `PolicyAssumption`, `PatchAssumption`,
`ChunkAssumption`, `GateAssumption`, `PlanAssumption`, `BridgeAssumption`,
`PoolAssumption`, `OAuthAssumption`, `SkillAssumption`, `ProjectsAssumption` and
`FileToolsAssumption` (finite
sets of calls and files, natural bounds, a capacity and a project of at least one,
files made of entries, sets of actors that do not meet, a first tree in which what is
there lies in directories).  Seven theorems about `ChatRun`
assume in addition how the user behaves, by what `Allowed` leaves out.

### Chat turns

* `TypeCorrect`: types, by one lemma per group of actions.
* `SingleResult`: one result per call.  Inductive as it stands, once said of the
  tool rows pairwise; `AppendToolResult` and the repair are the writers.
* `ConsentHolds`: a tool put to the user runs only on a yes.  Not inductive
  alone.  `ConsentInv` adds that what was asked is declared, that a saved
  checkpoint holds no call about to reach the middleware, that every yes a
  pending item or a resumed run carries was said by the user, and that a call
  about to reach the middleware was either answered with yes or never put to the
  user and is held by one run only.  The last part keeps two runs on one
  checkpoint, an abandoned batch and a crash from passing an unanswered call on.

The others are false for a user who does everything at once, as the violations of
section 5 and the runs' own `Allowed` show, so they are theorems about a regime:
`Serial` (no answer overtakes the insert of its own card, no second post while one
is under way), `Patient` (`Serial`, and no two answers at once), `Calm` (`Serial`,
no post over a pending card, and no resume that cannot be started).  Crashes,
iterator errors, cancels, denials and late writes are in all of them.

* `SerialInv` carries them.  `OneAtATime`: one goroutine drives the conversation.
  `PendingInv`: what waits, in memory and in the table, was asked by the saved
  checkpoint, and the table holds no more than the memory.  `OneHolder`: a call that
  may still run is in the hands of one run or of a checkpoint that can be
  re-entered, and has not run.  From it: `NothingRunsTwice` and `WaitingCanResume`.
* `CallsLiveOnce` (`Serial`): every step of `ChatRun` is a step or a stutter of
  `CallLife`.  `OutcomesTrue` follows a result from the runner's hands through the
  checkpoint into the transcript: "ran" is only ever said of a call that ran, and a
  call that is denied anywhere was refused by the user (`NoWasSaid`), has not run and
  is in no hand that could still run it.  That the result is final is the event key's
  work: of the three writers of results the first one counts (`OutcomeStep`).
* `StatusAtRest` (`Patient`): `StatusInv` says of every status that was computed and
  not yet written that it is the one the pending list calls for.
* `WaitingStaysOpen` needs more than the calls on cards: `HeldIsOpen` says that
  whatever a runner may still run or a checkpoint still ask about has no result,
  and `AskedPends` that the close loop spares what the checkpoint asked, because it
  is all in the pending list by then.
* `OpenIsRepairable` (`Serial`, and resumes start): `RepairInv` follows the status from
  where it is computed to where it is written, next to who may open or close calls.
* `PromptsArePaired` (`Calm`): `Blocks` says what a transcript is made of, `OpenIsHeld`
  why a call may be open at all, and `PromptIsAll` that a run that has listed the
  rows sees the whole transcript.  Only the last block may be incomplete, and then
  nothing but its own results can follow, so closing it appends them in the right
  place.

### Streams

* `CursorTypes`, `CursorHolds`, `ExactView`: `CursorInv` has four
  parts.  `TableComplete`: outside of a message the table holds all that was
  said, and the frontier is its end while the agent works.  `ReplayExact`: the
  replay is what was said behind the frontier.  `JoinerKnows`: a tab about to
  join shows what the rows up to its cursor hold.  `ViewInOrder`: shown and
  queued pieces are in order, without gaps as long as nothing was dropped.
  Joining at exactly the frontier glues the third to the second.  The types
  themselves need `ViewInOrder`, so both are proved together.
* `ImplementsDelivery`: every step of `StreamCursor` is a step or a stutter of
  `Delivery`, from the same invariant.
* `TabsComplete`: calls and results are published live and never replayed, so
  nothing but the table brings them to a tab that was not there.  `CallsInv` says
  where each one is: a tab that has loaded, or asks, knows those of the rows up to
  its cursor; one that follows has those of the whole table or will be sent them; and
  a tab that was told 204 shows what there is until the next run begins
  (`AgentCalls`: no frame goes out before its row is durable).

### MCP servers

* `Invariance`: four facts about one server and its dials, stated
  of a record and a function so that a step about another server leaves them
  alone.  `Held`: the connection a server holds is up.  `Decides`: a connecting
  server is enabled and has a dial that has not begun or is current.  `Matches`
  (no `readd`): no dial in flight is ahead of the server's generation, and one
  that is level with it has the server's entry, as has the connection.  `Single`
  (no `twin`, no `readd`): whatever is up is what the server holds, and a current
  dial is alone and without a connection beside it.  A teardown raises the
  generation over every dial in flight, which `Matches` bounds; that is why
  `Single` needs it.  `DialDecides`, `ConnectionMatches` and `NothingLost` follow.
* `ManagerTypes`: all of `TypeOK`, which includes that a name the manager does not
  know has no trace in it, and that a slug or a name a server has was given out.
* `NamesFollow`: `NamesInv` says what allocator and registry hold in terms of the
  servers: a slug and a name is allocated to the server that has it and to no other,
  and every name has the effect of its server's entry; `NamesNeedConnection`, that a
  server without a connection has none, shows that a teardown need not look further.
* `FileIsServed`: `SavedInv` says that the servers are those of the file or some job
  will make them so (`WillApply`), which each job keeps true of itself between its
  read of the file and its lock section; `stale` is where it fails.

### Tools

* `PassesEarned` (ApprovalPolicy): `PolicyInv` says what each stage may rely on.
  While a call is under way nothing has passed yet (`QuietOnTheWay`); a call beyond
  the wall is not walled (`PastTheWall`); an answer that arrives belongs to an
  effect the user was shown, unless its card is `inherited` (`AnswersAreFresh`); and each fingerprint on file, in
  the store or in a snapshot, names an effect the user asked to remember
  (`GrantsAreFiled`), which is needed because a grant is found by its fingerprint
  alone.
* `GuardsHold` (PatchTool): versions only grow, so `ReadsAreDated` can say that a
  version a read or an edit holds is of the past, and that one which is still the
  file's stands for the content that was read.
* `ChunksKept` (ChunkedWrite): `Numbered` and `OnePlaceEach` say that a chunk is in one
  place of one inode, `Appends` what an append under way has done so far and that the
  session will not count more chunks than the file has, `BeforeIsAcked` that what was
  acknowledged before a chunk was sent lies in front of it.  They speak of inodes, so a
  rename between an open and its write disturbs nothing.
* `ChangesAccounted` (ChangeGate): contents are numbered as they are written, so a
  capture older than all of them cannot be the agent's (`NewestContent`).  While the
  first content of a file can still be known (`Open`: no baseline, not `blurred`), HEAD
  does not have the agent's, what the agent has made is owed by a call (`MadeIsOwed`), and
  what a call has captured is not the agent's (`GoodCall`); so whatever becomes the
  baseline was there before.  For the gate, `ChangesAreTold`: a file that is not `untold` is
  owed by a call, untouched, or told by an event that every run behind it covers.  When
  the model answers no call is under way, so nothing is owed, and the gate counts only
  runs behind the latest event.  All steps of a call that leave the workspace alone go by
  one lemma (`GateMoves`), all that write by another (`GateWrites`).
* `FileEffectsTrue` (FileTools): inductive with `Sound`, which says of the tree that
  whatever is there lies in directories and that the root is one.  What is said of
  resolved paths goes by induction over the links followed so far: those of the front
  go first (`FrontGoesFirst`), so a place leads where a path to it leads
  (`SpotLeadsThere`), and a path without links stays what it is (`HopsStay`).  In a
  sound tree a path to something that is there and has no links left is not broken
  (`NothingBroken`), so the deriver reports the place the system calls touch.  One
  lemma per tool shows that the tree after it is sound again and that the changed
  places are below or above what the effect names; for `mv` and `cp` that needs the
  last name of the source, because the derived effect does not say that the
  destination is a directory.

### Plans, browser, stores

* `PlansKept` (WorkPlan): a revision stands for what a hand has seen.  While a hand's
  expected revision is still the plan's, the items it saw are those in the table and
  the status it decided by still holds; revisions only grow, so a later match
  cannot be an accident.  The transaction compares revisions only, and that is
  enough.
* `BridgeHolds` (BrowserBridge): the channel of a command is in one place, the map,
  the hands of a session that went down, or filled; each step moves it.  Two live
  sessions of one browser are in `overlapped`, which is the hypothesis
  `HelloMakesReachable` needs.
* `PoolSound` (BrowserPool): a context that is open is in the pool or in the hands of
  the call that closes it, a browser that runs is the pool's or about to be killed by
  one call, and the pool's sessions are all of the pool's browser.
* `TokensOwned` (OAuthTokens): a flow is in one place, an opening request, the
  pending map or a callback, until it is redeemed.  Unless `raced`, a token a request
  is about to cache is the row's, and a row with a token was consented to.
* `SkillsKept` (SkillHub): a folder is at one place (`OneSpot`), and a skill that was
  installed and not asked to be removed is whole under its name or in a backup, other
  than one that is about to be deleted because its successor is in place (`Doomed`).
  `Staged` says that what a swap puts under the name is good.  Each step of a swap moves
  a skill from one refuge to the next; a crash leaves it where it is.
* `DeletionsClean` (Projects): `Met` says of every run a deletion has met that it is
  cancelled, has escaped, or is still to be met in the registry; `GoneInv` that no
  post is on its way to a conversation that counts as deleted, and that nothing goes on
  in one outside the named cases; `TrackInv` that every row that stays was left by the
  deletion of a project or is a validation run that was under way when the rows were
  deleted; `FoldersInv` that there is one project for each folder.

### What stays with TLC

Liveness (`StreamCompletes`, `AnsweredCallSettles`, `LiveEnds`, `Settles`), which
the prover cannot do under fairness. What recursive definitions and folds compute
for every input: `TiersAreOrdered` (unwrapping of command lines), `HistoryIsTold`
(folding rows), `PanelStaysConsistent` (filtering and sorting lists),
`RetrievalStaysFaithful` (cutting texts), and `MemoryIsKept`, whose store is rebuilt
line by line on every save. And `MCDesk.TypesOK`: the proofs of its components carry
the types they need, each under a name of its own (`GateTyped` and the like), with
natural numbers where the model bounds them for TLC.

## 5. Disagreements found

* `chat_batch`: `emitInterrupt` records the contexts of one checkpoint one by
  one; an answer that arrives in between resumes a partial batch although
  `pending.go:151-152` promises one resume with every target.
* `chat_unpaired`: a message posted over a half-answered batch leaves, for the
  turn after it, a tool message without its call (`chat.go:757-758`).
* `chat_canceled`: `[canceled] tool did not run` is also written for a tool that
  did run (`cancelled.go:20-21`).
* `stream_timeline`: a resumed run overwrites the sub-agent events its
  interrupted predecessor saved on the same row (`sse_handler.go:199-200`).
* `mcp_readded`: a server that is deleted and added again counts its generations
  from 0, so a dial of the deleted server installs its connection in the new one
  (`manager.go:78-81`).

The other orders in `odd` are not contradicted by a comment of the code and are
hypotheses instead: with `twin` a connection is replaced without being closed;
with `stale` the servers stay those of a replaced file until the next save; with
`skipped` a name is never handed back; with `late_mark` the page asks for an
authorization nobody needs.

Other places where code and words, or two pieces of code, disagree, met while
modelling and kept out of the properties by the hypotheses named there:

* Memory: `legacyDatedEntry` (`memory/store.go:234`) takes one date off a line, so a
  line with two is refiled by the next save, although `memory/store_test.go:180`
  calls canonicalizing idempotent.
* Skills: `ListInstalled` lists a `.staging-*` or `.replace-old-*` directory that
  holds a SKILL.md (`installed.go:31` calls them "not a skill"), and Uninstall then
  removes it, or tears an install in progress.
* Browser pool: the callback of the last tab runs after the lock is released
  (`manager.go:62`), so it may close a session that was made since; reading from a
  conversation without a session boots one that nobody closes.
* Changes panel: `changedFileByPath` (`workspace_diff.go:534`) takes the first entry
  that mentions a path; `countPatchLines` (`:520`) skips changed lines that begin with
  `--` or `++`; a renamed file is listed with +0 and opened with everything added;
  before the first commit, scope "all" fails once a staged file is gone.
* Projects: `ProjectRepo.Delete` leaves compactions, cards, checkpoints, plans and
  validation runs of its conversations behind, and such a checkpoint can still be resumed;
  a validation run is stored with `context.Background()` (`validation/service.go:131`)
  after it was checked with the run's context, so it may be stored for a conversation that
  was deleted in between; a Cancel that falls before `SetCancel` (`stream/buffer.go:39`) is
  lost; the last Upsert of a run (`service/chat.go:664`)
  brings a deleted conversation back, without its project.
* Approval: `middleware.go:105` calls an answer "authoritative only for the exact effect the
  user reviewed", but one without a digest is not compared (`:115`), and a yes to a card
  whose stored effect does not parse has none (`service/chat.go:346`).  The code stores an
  effect with every card it makes, so only a card of an older build is such (`inherited`).
  A mode loaded before a change may be cached after it (`mode.go:46-73`).
  `ResumePlan` returns before it leaves Plan mode while a sibling is unanswered
  (`service/chat.go:404`), so a plan that is approved first stays in Plan mode.
* Tracker and gate: the gate knows of a change by a successful event only, and there is none
  when a file tool fails after it has written (`validation/gate.go:121`), when `rm` or `mv`
  takes a directory (the event has the directory's path, which is no code path), when a
  command commits what it changes (clean before and after: `sed -i ... && git commit`), and
  when `git status` fails (`changes/tracker.go:320`).  Without one, and with an older run
  that has passed or no event at all, the answer passes unchecked (`untold`).  A command that
  checks and then changes (`go test && gofmt -w`) stores its run behind its own event and so
  counts as a check of what it wrote (`missed`).  When the events cannot be read the
  answer passes (`gate.go:116`; `final` is "unread").  A file's first content is lost when
  another call captures or commits what a first one has written and not recorded, or
  the call ends without a baseline of it (`blurred`).
* File tools: `scope.Resolve` follows a link in the last place and `rm` and `mv` do not
  (`tools/fs_ops.go:47`, `:118`).  A path that passes a link out of the workspace and ends
  in a link back into it is accepted, and the link outside is what is removed or moved,
  although `tools/fs_ops.go:78` says of `rm` that it refuses symlink escapes
  (`OnlyTheWorkspaceChanges` leaves such links out).
* OAuth: a refresh under way undoes a revoke (`oauth.go:321`); a read under way fills
  the cache with a token that was replaced (`tokenstore.go:135`).
* Bridge: a late unregister takes a reconnected browser's id away
  (`registry.go:71`).
* Question bank: an unchanged file keeps vectors of an earlier model; files that
  vanish, become empty or lose their questions keep their chunks; words are those of
  the first search (`bm25.go:132` says so), so an answer may hold one text under two
  ids; `CharStart` is short by the blanks trimmed in front of an answer
  (`markdown.go:9`); an indented fence counts for headings and not for blocks;
  `PRAGMA foreign_keys` is set on one connection of a pool (`store.go:46`), which the
  model takes for all.

## 6. Not modelled, and the plan

Nothing here has a module, because no state lives between its calls or because it
is input and output: web fetch and search, the search, document and OCR tools, the
running of commands and their output, prompts and the construction of agents, the
workspace's file viewer, uploads and terminal, configuration, the evaluation
harness, the desktop shell.  Parts of modelled components that are left out are
named in section 2 and in `PROJECT.json`.

Worth modelling next: the store of instructions (versions and imports), the
categories of the skill hub (`categories.go` looks its assignments up by slug before
it looks at the version, so a new version keeps its category until a restart), the
parser of validation output, and the web client's store of sub-agent events.

Worth proving next: what a line of commands destroys survives each single wrapper, as a
lemma about one level of `ShellClass`; the two ends of `MemoryIsKept` that do not depend on
how a file is rebuilt (hashes and refused saves).  Worth composing: `ApprovalPolicy`
as the policy of `ChatRun`, whose decisions are a free choice there.
