# Verification of harness-M64

TLA+ models of the harness (Python, `src/src/harness/`), TLC configurations
that check them on small instances, and proofs checked by TLAPS for every value
of the constants. Paths below are relative to `src/src/harness/`.

## The system

One process, one asyncio event loop, three servers on it.

| Component | State | Operations | Talks to |
|---|---|---|---|
| core (`core.py`) | sessions, chat thread, session tasks; on disk `chat.jsonl` and `queue/<sid>.json` | `submit_prompt`, `_run_session`, `start` with load and restore, `stop`, `reset`, `stream_response` | agent (call), bus (publish), disk |
| agent (`agent.py`) | `_running` | `handle`: rounds of LLM call and tool calls; `start`, `stop` | LLM client, tools, memory, bus |
| bus (`bus.py`) | subscribers | `publish` calls each subscriber in place | |
| monitor (`monitor/`) | cards with steps, FSM strip, counters, gauges | one handler per event, reset | bus |
| GigaChat client (`llm/gigachat.py`) | cached token and its lock, HTTP client | `chat`, `_ensure_token`, `close` | HTTP services |
| control shell (`control/shell.py`) | none | `restart`, `stop`, `emergency stop`, `reset`, `show` | core |
| UI server (`ui/web.py`) | none | submit, event stream, pages | core |
| tools (`tools/`) | files of `state/sandbox` | `execute` and one handler per tool | memory, disk |
| memory store (`memory/`) | `knowledge/*.md`, `episodes/*.jsonl` | read and write entries, append an episode | disk |

What is hard here:

- every prompt is a task of its own; restored prompts share one task, which
  runs them in turn;
- the process can die between any two writes, and the next one rebuilds its
  state from two places on disk, the log and the queue;
- file operations fail, and most failures are swallowed;
- cancellation is delivered at suspension points, also to tasks that never ran;
- operators reset and stop while sessions are in flight;
- the monitor sees the events of all sessions mixed, some of them not at all;
- concurrent sessions share one token and one HTTP client, and several shell
  connections may close it;
- a stream is one queue: a browser that reconnects may meet the generator of its
  broken connection there;
- the model's arguments are read by two parsers, and its paths reach the disk.

What makes each part correct:

- core: no accepted prompt is lost or left; each run gets the history of its
  submission; thread, log and queue agree; restored prompts keep their order;
- agent: every session ends; nothing runs once the agent is stopped;
- monitor: cards and strip show what the agents do;
- client: no needless token request, no stale token sent, no caller blocked, no
  HTTP client left open;
- wire format: calls and results in pairs, results that are JSON, the model told
  what really ran;
- UI: what was shown is final, whole, on the page, and the stream ends;
- tools: nothing written outside of the sandbox, knowledge kept.

## The modules

| Module | Models |
|---|---|
| `HarnessCore` | the core, with crashes, disk faults and the operators' commands |
| `DurablePrompts` | abstract: the fate of a prompt; `HarnessCore` implements it |
| `Monitor` | the monitor as operators: state and event to state |
| `AgentLoop` | `Agent.handle` for concurrent sessions, the bus, composed with `Monitor` |
| `GigaChatClient` | token cache, lock, pooled HTTP client, `close()` |
| `WebUI` | a browser's event stream on the core: `HarnessCore` and the page |
| `Wire` | pure operators: messages to and from GigaChat, in both formats |
| `Toolbox` | pure operators: the registry's `execute`, files, knowledge |
| `AgentTurn` | `AgentLoop` with the data it moves, composed with `Wire` and `Toolbox` |
| `MCHarnessCore`, `MCAgentLoop`, `MCWebUI`, `MCAgentTurn` | symmetry and the values of constants for TLC |
| `HarnessCoreProofs`, `HarnessCoreRefinement`, `HarnessCoreLogProofs` | theorems about `HarnessCore`, each module on top of the one before |
| `WebUIProofs` | theorems about `WebUI`, on top of those |
| `GigaChatClientProofs` | theorems about `GigaChatClient` |
| `MonitorProofs` | lemmas about the operators of `Monitor`: what each event, and any list of events, does to cards, strip and gauge |
| `AgentLoopProofs`, `AgentTurnProofs` | theorems about `AgentLoop`, and on top of them about `AgentTurn` |

An operator commented "Mutation of X" is a plausible bug in the code behind X.
Each property is known to fail when X is replaced by some such operator.

### HarnessCore

An action is what the event loop runs between two points where a task can
suspend. In `core.py` the bodies under `_chat_lock`, `bus.publish` and `put` on
an unbounded queue never suspend, so `submit_prompt` is the one action
`Submit`, and the end of a session (`Reply`, `Raise`, `Cancelled`) includes the
stream, the log, the removal of the queue entry and, for a restored session,
the start of the next one. A crash may fall anywhere: `Crash` between two
actions, `CrashInSubmit`, `CrashInReply` and `CrashInReset` between the writes
of one.

| Variables | Code |
|---|---|
| `chatLog` | `chat.jsonl` as the next load sees it: the lines it will accept, whether the last one is unterminated, whether the file decodes |
| `queue` | the file of each session id: absent, good or malformed, with its `prior_history` and `created_at` |
| `started`, `running` | `_started_at`, `Agent._running` |
| `chat`, `status`, `hist`, `chunks` | `_chat_history`, `Session.status`, the argument `prior_history`, `Session.response_chunks` |
| `task`, `cancelReq`, `replay` | where each coroutine is, the cancellations not delivered yet, the list `_replay` iterates over |
| `shell` | a `restart` between its `stop()` and its `start()` |
| `snap`, `clock`, `marks`, `spent` | history: what was submitted, what happened to it, how often each bounded event occurred |

With `DiskFaults`, an append may write nothing, a prefix, or a prefix cut in a
multi-byte character; an entry may be missing or truncated; reads and removals
may fail. A start removes an entry it cannot read: such a prompt is marked
`unread`, and `NoPromptLost` does not promise it. `Separated` are the messages,
prompts and replies alike, whose text holds one of the three characters at which
`splitlines()` breaks a line and which `json.dumps` does not escape: they are
written, and do not load (`Loads`). Texts are otherwise left out: a message is its
role and its session, so that the replies to one prompt in several processes are
the same message, with or without a separator. All texts can be encoded.

### Monitor and AgentLoop

`Monitor` has one operator per method of `TaskHistorySink`, and the gauge of
`MetricsSink`. `AgentLoop` has one action per stretch of `handle` between two
suspensions, which are the LLM call and a tool's handler; the events of a
stretch are consumed in it, as `publish` awaits its subscribers one after the
other and the monitor's never suspend. `pc` says where each session is,
`backlog` is the list of `_replay`, and the first restored session runs before
the monitor subscribes, as in `_amain`. What the model answers (`Plans`), what
handlers do, and failures are choices. `Model` is the name that the events of an
LLM call carry.

### GigaChatClient

An action is what `chat()` runs between the lock, the token request and the
chat request. `holder` and `waiters` are the fair `asyncio.Lock`; `Tick` lets
time pass between any two actions; `http` and `open` follow the HTTP client,
whose requests are refused once `aclose()` was called. The network services
and httpx are external: they answer, fail or time out as they like.

Two `close()` from two shell connections overlap: `CloseBegins` is the call of
`aclose()`, which marks the client closed before it suspends, `CloseEnds` the
`_http = None` after it.

### WebUI

Every action of the core is a step of the composition (`CoreStep`), which
leaves the page alone, but the end of the process breaks all connections. A tab
follows one session. `chunks` of the core is what was put on the session's
queue; `taken` counts what generators took from it. A connection that breaks
leaves its generator at the queue (`stale`) until the server notices
(`Noticed`); until then it may take an item and send it to nobody
(`TakenByStale`), while the tab reconnects (`Connect`). The generator of a
session the process does not know returns at once, and the tab is told "done".

### Wire, Toolbox and AgentTurn

`AgentTurn` has the actions of `AgentLoop`, with the answers of the model
(`Answers`) in place of `Plans` and the handlers' outcomes in place of choices.
`messages`, `todo` and `ran` are the locals of `handle`; `disk` is the sandbox
and the knowledge all sessions share. Texts are classes, those the code tells
apart: JSON or not, empty, too large, not encodable. Arguments are an object, a
string that parses as one, or junk, with what they are on and a text. Paths
are lists of names, resolved with `..` and links; each class of arguments maps to
one path (`PathOf`); `Resolve` walks its names with a recursive function. `read_url`,
`now`, `echo` and the two lists are what they may return.

A tool maps the disk to the set of its outcomes, because file operations fail:
`file_write` may stop after some of the parents were made, or with a part of the
text in the file it truncated (`Cut`), and returns a warning; `knowledge_write`
raises, with the file as it was or truncated, whatever its text; reads raise or
warn. A text is whole, empty or cut to a text of no special class. A reset all in
which a removal raises leaves any part of what it was removing (`HalfWiped`), in
the order of `reset`: the log is gone first, the knowledge before the state
directory, a directory after its files. The monitor is told nothing of it.

## The runs

| Run | Checks | Instance |
|---|---|---|
| `core_safety` | `TypeOK`, `ContextIsSnapshot`, `EndedLeavesNoEntry`, `MirrorsLog`, `OneReply`, `ThreadExtendsContext`, `RestoredInOrder`, `NoRunWhenStopped`, `ImplementsDurable` | 3 prompts, 2 crashes, 1 reset, 1 stop or restart, 1 emergency stop, working disk, symmetry |
| `core_faults` | `NoPromptLost`, `RepliesFollowPrompts` | 2 prompts, disk faults, 1 of each event |
| `web_ui` | `UITypeOK`, `ShownIsFinal`, `ShownStaysOnPage`, `ToldTheOutcome`, `TabsClose`, `EventuallyEnds` | 2 prompts, 1 tab, 2 crashes, 1 reset, 1 stop, 1 broken connection, working disk, no emergency stop; all messages of the session the tab does not follow hold separators |
| `agent_monitor` | `TypeOK`, `CardFollowsAgent`, `DoneCards`, `FsmFollowsSession`, `NoGhostCards` | 3 new sessions, 2 cards, 2 rounds, 2 calls per answer, 1 cancellation, 1 reset, symmetry |
| `agent_liveness` | `CardFollowsAgent`, `GaugeCountsOpen`, `NoGhostCards`, `SessionsEnd` | 3 sessions, 2 restored, 2 cards, 2 rounds, 1 call per answer, 1 cancellation, 1 reset |
| `token_cache` | `TypeOK`, `TokensAdvance`, `NeededRequests`, `FreshOnSend`, `OrphansOnlyByOverlap`, `CallsEnd` | 3 callers, 2 calls each, lead 1, lifetimes 1 and 3, time up to 2, two `close()` |
| `agent_turns` | `PayloadFollowsDocs`, `EchoIsWhatRan`, `CardIsTranscript`, `Confined`, `KnowledgeKept` | 2 sessions, 1 restored, 2 rounds, 1 cancellation, 1 reset; 5 answers in the functions format, 3 of up to two calls in the tools format; 1 link, 1 topic; any number of failing file operations and failing resets |

Why these bounds are enough to meet the interesting cases: three prompts are
the fewest for which a replay has a running session, one to resume and one left
behind; the second crash hits a process that is itself replaying. A mistake in
the log, the entry or the snapshot of a prompt needs two prompts at most. Two
cards and three sessions force an eviction; two rounds of two calls to the same
tool give a card four steps that an end event could confuse; of two restored
prompts one runs before the monitor subscribes and one after. A lifetime equal to
the lead is stale on arrival, the other survives a tick and not two, so that a
caller can queue behind a refresh and find its token good or stale again. One
tab and one broken connection are enough for a tab to compete with its own past,
and two crashes for it to reconnect to a process that still replays. The answers
of `agent_turns` have each form of arguments (object, string, junk), results that
are JSON, only Python's JSON or neither, exceptions, a file with a parent to make, a
path that leaves the sandbox through a link, and two sessions that write one topic,
with a text that may be cut and with one that cannot be encoded; the reset falls
between any two calls. Other paths and texts (absolute, `..`, blank, too large) are
left to the theorems, which are about all of them.
`CHECK_DEADLOCK
FALSE` is set because the systems really stop: when all prompts are given and
ended, or the bounds are used up.

Five runs expect a violation. Each checks one statement of the repository
against what the code does:

| Run | Property | Shows |
|---|---|---|
| `emergency_stop` | `EntryRemovedAtEnd` | a task cancelled before it ran cleans nothing up: entry, status and stream remain (`core.py:137`; `core.py:356` says "any outcome") |
| `restart` | `RestartRuns` | `restart` leaves the agent stopped (`core.py:113`, `control/shell.py:107`) |
| `torn_log` | `ComesBack` | a log cut in a multi-byte character fails every later start (`core.py:336`) |
| `line_separator` | `MirrorsLog` | a prompt or a reply with U+0085, U+2028 or U+2029 is gone from the thread after a restart (`core.py:323`) |
| `failed_card` | `FailedCards` | no event announces a failed session, its card stays running (`agent.py:198`) |

### Fairness

- `TaskStep(s)` of the core: the event loop runs every ready task; an LLM call
  ends by its HTTP timeout, rounds are bounded. It assumes that tool handlers
  return: `ToolEntry.timeout_sec` is never enforced.
- `RestartStarts`: the shell's coroutine goes on after `stop()`.
- `Start`: `docker-compose.yml` sets `restart: unless-stopped`. It says that
  dead processes are started again, and nothing of a start that raises.
- `Handle` of the agent, for all sessions together: as long as one of them is in
  `handle`, some session goes on. `Progress(c)` of the client: requests end by
  their timeout, `asyncio.Lock` is fair.
- `Connect(t)`, `Receive(t)` of the page: an EventSource retries until it is
  closed, and the server sends what its generator took. `Noticed` is not fair: a
  server may never see that a connection broke.

Nothing is assumed of clients, operators, crashes or faults. `EventuallyEnds`
is checked without emergency stops, which break it: a session cancelled before
it ran, and those behind a cancelled replay, wait for the next process, and
nothing says there is one. `SessionsEnd` says so in its second part. `TabsClose`
names its two exceptions: a generator of a broken connection took the end of
stream, or an emergency stop cancelled a session before its first step.

## What is proved

Every invariant and every safety action property of the passing runs, and the
refinement, as theorems for all values of the constants. The proofs assume the
ASSUMEs of the modules, which only give the constants their types, and what is
named below.

### The core

For every set `Sids`, any bounds, with and without disk faults, from
`CoreAssumption` alone (`Sids` is finite, the bounds are naturals):

- `TypeCorrect`: `Spec => []TypeOK`;
- `PromptsAreKept`: `Spec => []NoPromptLost`;
- `ContextIsKept`: `Spec => []ContextIsSnapshot`;
- `EndedIsRemoved`: `Spec => []EndedLeavesNoEntry`;
- `StoppedRunsNothing`: `Spec => NoRunWhenStopped`;
- `RepliesComeAfter`: `Spec => []RepliesFollowPrompts`;
- `RepliedOnce`: `Spec => []OneReply`;
- `ThreadIsLogged`: `Spec => []MirrorsLog`, which assumes `Separated = {}`, no
  prompt and no reply with a separator, and must: `line_separator` violates it
  otherwise;
- `ContextStaysAbove`: `Spec => []ThreadExtendsContext`, for any `Separated`: it
  speaks of contexts all of whose turns load;
- `RestoredByAge`: `Spec => []RestoredInOrder`;
- `CoreImplementsDurable`: `Spec => ImplementsDurable`, which assumes
  `~DiskFaults`: a failing disk may lose a prompt at its submission or at a
  start, a fate that `DurablePrompts` does not know.

`MirrorsLog`, `ThreadExtendsContext` and `RestoredInOrder` speak of a working
disk themselves. The first three
are in `HarnessCoreProofs`, `RestoredByAge` and the refinement in
`HarnessCoreRefinement`, the others in `HarnessCoreLogProofs`.

`NoPromptLost` is not inductive by itself. A restored prompt comes from its
entry, so entries must hold what was submitted (`EntriesAreSnapshots`); a step
that ends a session must know that it was submitted (`TasksAreSnapshots`), also
when the session comes from the list of the replay (`ReplayIsSnapshots`); a new
submission must not meet an old entry under its id (`FreshIds`); a start must
find no session running (`DeadRunsNothing`). Their conjunction with `TypeOK` is
`IInv`. One lemma per action proves that it keeps `IInv`. Three of them share
`EndsKeepsSnapshots`, which treats the end of sessions once, and
`ContinueKeeps`, which adds how the replay goes on (`ReplayCut`).

`EndedLeavesNoEntry` is inductive given the types: each step that ends sessions
either removes their entries or, with disk faults, marks them as survivors
(`EndsLeaveNoEntry`), and no other step makes a file for a session that ended.
`MirrorsLog` needs to know that the log has no torn line, and that it is what
loads of the thread (`LogFollows`, `Recorded`), since a line appended to a torn one
does not load. `NoRunWhenStopped` needs the types only: a
step that lets a session enter the agent is a `Begin`, the resumption of a
replay, or a start, and each of them looks at `running`.

The two statements about replies (`RepliesFollowPrompts`, `OneReply`) need to
know what may still run (`CanRun`: a task, an entry, a place in the replay). A
reply is written by a session that could run, so such a session was accepted
(`RunsAreAccepted`); the turn of an accepted prompt is in the log, unless it is
marked (`PromptsAreLogged`), so the reply comes after it; and what may run has
no reply yet, unless its entry outlived it (`Unanswered`), so the reply is the
first. That one session is not run twice from the list of the replay is
`ReplayWaits`. Together they are `TurnsInv`. `ThreadExtendsContext` is
inductive given `LogFollows`: at a submission the log is what loads of the
thread, so that a context that loads as a whole is the beginning of it, and the log
only grows until a reset.

The refinement maps each id to its fate (`FateOf`). That a prompt ends once
needs three facts more. What may run again has not ended: entries, running
sessions and the list of the replay hold only prompts that are accepted and not
finished (`EntriesAlive`, `TasksAlive`, `ReplayAlive`). The list of the replay
names no session twice, and only its head has started (`ReplayWaits`), so a
session that ends is not waiting there as well. And a working disk never sets
the marks that excuse a missing entry (`NoFaultMarks`). With `IInv` they are
`RInv`. `EndsStep` shows that any end of sessions is an `End` of
`DurablePrompts` or a stutter, `WipeStep` the same of the resets. The order of
the restored (`ReplayInOrder`) is what the sort at the start makes
(`InOrderIsWhole`: the sorted list names every entry), and is kept because a
replay only loses its head and a new prompt is younger than all of it.

### The page

For any tabs, following any sessions, from `WebUIAssumption` in addition:

- `PageOnTopOfCore`: `UISpec => Spec`. What is proved of the core holds of the
  composition;
- `PageTypeCorrect`: `UISpec => []UITypeOK`;
- `ShownIsNeverRerun`: `UISpec => []ShownIsFinal`, on a working disk;
- `ShownIsOnPage`: `UISpec => []ShownStaysOnPage`, on a working disk, for any
  `Separated`: it speaks of replies that load;
- `ToldOnceAndWhole`: `UISpec => []ToldTheOutcome`.

Their induction rests on what a step of the core does to a stream: it leaves it
alone, appends one outcome and ends the session, or ends the process
(`NextStreams`). So a stream has items, and a tab was shown some, only if the
session ended (`Streamed`, `Told`); a session that ended is not `Alive`, and by
`DiskInv` of the refinement nothing of it is left to run. For the page, a reply
that is on a stream is in the log (`StreamedInLog`), from which only a reset
takes it (`NextInLog`), and by `LogFollows` what is in the log is in the thread. For
`ToldTheOutcome`, the process that never died restores nothing, knows every
accepted session and puts one outcome on its stream (`FirstProcess`); and while
no connection broke, no generator is stale and the one tab of a session has
what was taken (`FirstTabs`).

### The agent and the monitor

For any sessions, restored or new, any number of cards, rounds, calls and
resets, from `AgentAssumption` and `MonitorAssumption`:

- `LoopTypeCorrect`, `CardsFollowAgents`, `DoneCardsAreDone`,
  `StripFollowsSession`, `GaugeIsBounded`: `Spec` implies `[]` of `TypeOK`,
  `CardFollowsAgent`, `DoneCards`, `FsmFollowsSession`, `GaugeCountsOpen`;
- `NoCardComesBack`: `Spec => NoGhostCards`.

The invariant is `LoopInv` (`LoopInvariant`). An end event closes the right step
only if the card shows what its agent does, which `CardOf` says of every card,
together with its status; a failed session is exempt, as no event tells of it.
The end of a restored session starts the next one in the same step, so its
place in `backlog` must be known (`Queue`: each waits once, the head is in
`handle`), and where a session stands must agree with how it ended and with
the calls it has left (`Standing`). The strip and the gauge are written by the
events of all sessions, so `FsmFollowsSession` and `GaugeCountsOpen` are kept
with the others. A monitor that has not subscribed is `Fresh` (`Unseen`).

A stopped agent refuses the rest of a replay in one step, which publishes one
event per session: a list of any length. What it does to the monitor is an
induction over that list, which the library's induction theorems cannot give
here; `MonitorProofs` proves it by the least counterexample (`LeastNat`, from the
order of the naturals), over the run of `OnEvents` (`RunTakes`, `AllRestored`).

### The conversation, the tools and the disk

For any answers of the model, any paths and links, any sessions, from
`TurnAssumption` (an answer of the v1 API holds at most one call) and
`ToolboxAssumption` (paths are sequences of names) in addition:

- `PayloadsFollowDocs`: `TurnSpec => []PayloadFollowsDocs`;
- `EchoesAreWhatRan`: `TurnSpec => []EchoIsWhatRan`;
- `CardsAreTranscripts`: `TurnSpec => []CardIsTranscript`;
- `OnlySandboxChanges`: `TurnSpec => Confined`;
- `KnowledgeIsKept`: `TurnSpec => KnowledgeKept`.

The invariant is `TurnInv` (`TurnInvariant`): `LoopInv`, a well-formed disk
(`IsDisk`), and for each session in `handle` that its messages, the calls left
and the calls done are one conversation (`Talks`). A `Conversation` is a
`Dialogue`: each call of an answer has its result at its place or is left, each
result has its call, and what is left belongs to the last answer. In the
functions format it is `Single` besides: prompt, call and result alternate, so
that the messages are counted by the calls done. `AnswerJoins` and `ResultJoins`
show that an answer and a result keep both. `Wire` is then a matter of one
message at a time (`PairedTools`, `PairedFunctions`, `OneCallEach`).

The card needs one conjunct more, `CardsInv`: its ended calls are those that
ran, one by one (`Lists`). A session's step opens a step on its card or closes
the last one and opens the next (`Starts`, `Proceeds`), and leaves all other
cards as they are (`Bystanders`); of these, closing a call lengthens the list
(`ListsUsed`), and closing an LLM call or opening a step does not.

Of each tool, `Outcome` says what it leaves: a disk with nothing changed outside
of the sandbox (`Spares`), with the knowledge it may change (`Remembers`): none, or
that of the topic of a `knowledge_write`, which raised or left its whole text
(`Holds`). `MadeIsDisk` and `WrittenIsDisk` cover every point at which a
`file_write` may stop, `HalfWipedIsDisk` every part that a reset may leave;
`Records` ties the outcome to the history of the session that saw it.
`Confined` holds because the path that is compared with the root is the one
that is written, and the directories made for it are below the root or the
state directory, which is there (`ParentsOfBelow`). It needs no fact about what
the links are: that `resolve` yields a path at all (`ResolveIsPath`) is shown for
parts of any number, again by the least counterexample (`WalkExists`).

### The client

For any callers, closers, lifetimes and bounds, from `ClientAssumption`:

- `TypeCorrect`: `Spec => []TypeOK`, with the lock's queue holding exactly the
  callers that wait, each once;
- `TokensOnlyAdvance`, `RequestsAreNeeded`, `SendsAreFresh`, `ClientsStayPooled`:
  `Spec` implies `TokensAdvance`, `NeededRequests`, `FreshOnSend`,
  `OrphansOnlyByOverlap`.

The inductive invariant is `TypeOK` with four conjuncts. The one holder of the
lock is the caller whose token request is under way (`LockIsHeld`); its request
is younger than the cached token and no younger than the last one issued
(`RequestsAreAhead`), from which `TokensAdvance` follows. HTTP clients are numbered
in the order of their construction (`ClientsAreMade`), and a suspended `close()`
has closed the pooled client, unless another `close()` is done (`ClosingKnows`),
which gives `OrphansOnlyByOverlap`. `NeededRequests` and `FreshOnSend` look at one
step only, and need the types for their arithmetic.

### Only model-checked

Liveness, which the prover cannot treat, since fairness is about ENABLED:
`TabsClose`, `EventuallyEnds`, `SessionsEnd`, `CallsEnd`. The five runs that
expect a violation show counterexamples.

## What is not modelled

- `tools_cli.py` and `smoke.py`: one-shot scripts. HTML pages, logging,
  configuration, signals and ports: no state that another part depends on.
- The shell's parser (`_TREE`, `_dispatch`) and its `show` commands; the JSON
  listings: they only read.
- Discovery of tools at start: it runs once, before anything else, and imports
  whatever modules are there.
- The system layers and token usage of `handle`, tool schemas and
  `functions_state_id` in the payload: data that no property tells apart.
- What `read_url` fetches, how text is stripped, regular expressions.
- Power loss that reorders file writes: a crash is the death of the process.
- A prefix of a log line that lacks only its newline; log texts other than by
  their separators and cut characters. A prompt or a reply that UTF-8 cannot
  encode (half a surrogate pair) raises out of `_append_chat_log`
  (`core.py:343`), after it joined the thread; the core's model has no such texts.
- The order of the sinks' counters, latencies and token usage.
- A prompt that kills its process is run again by every next one. The model
  has it (crashes in any state), bounded by `MaxCrashes`; no property forbids
  it, since its entry must survive the crash of another session.

## Known divergences without a run

Seen while modelling, and left to a reader:

- The gauge of running sessions goes up on `prompt_submitted` and down on every
  round end, so that a restored session takes it to -1 (`monitor/metrics.py:94`,
  `:101`). `GaugeCountsOpen` bounds it from above only.
- A restored prompt that waits in `_replay` is no known session; a browser that
  reconnects to it is told "done" and shown nothing (`core.py:208`).
- `src/tools/README.md:29` says a result with a warning sign counts as a tool error in
  telemetry. `_invoke_tool` publishes `ok=True` for whatever a handler returns
  (`agent.py:222`). An exception with an empty message counts as success in the
  counters (`monitor/metrics.py:123`, `monitor/history.py:148`).
- `knowledge_write` truncates the entry before it encodes and writes the text
  (`memory/files.py:63`), and nothing catches what fails then: a full disk, or half
  a surrogate pair, loses what was known. `KnowledgeKept` says that the loss is at
  least on record as a failed call.
- `reset all` stops at the first file it cannot remove, with the rest left and no
  event published (`core.py:298`).
- A result such as `NaN` passes as JSON (`llm/gigachat.py:400`), and the functions
  format echoes only the first of several calls (`:411`); `PayloadFollowsDocs`
  states both.
- A client can be orphaned by overlapping `close()` (`llm/gigachat.py:183`);
  `OrphansOnlyByOverlap` states exactly when.
- `ToolEntry.timeout_sec` is never enforced (`agent.py:221`).

## Plan

1. Done: core and its abstract specification, page, agent with monitor, wire
   format and tools, HTTP client; every safety property and the refinement
   proved.
2. Of the liveness properties, the part that needs no fairness could be proved:
   a measure of each session that every step of `handle` lowers, and that the
   steps of others leave alone.
3. If wanted: the shell's parser as an operator, and a start that raises.
